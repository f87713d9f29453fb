------------------------------ MODULE Protocol ------------------------------
(***************************************************************************)
(* How messages become packages of bytes and bytes packages again: the     *)
(* two-byte length of TCP (netbus/tp_protocol.cc, the client's             *)
(* tcp_packer.cs) and the frames of websockets (netbus/ws_protocol.cc).    *)
(*                                                                         *)
(* A byte is <<k, i, masked>>, the i-th byte of the k-th package of its    *)
(* direction, and whether it is still XORed with the frame's mask.  What a *)
(* header says follows from the lengths of the messages, `lens`.           *)
(***************************************************************************)
EXTENDS Naturals, Sequences

CONSTANTS
  WIDTH,  \* 65536: the length of a TCP package is stored modulo this
  LEN7,   \* 125: the longest message whose length fits into a frame's second byte
  LEN16   \* 65536: the first message too long for the two-byte extension

ASSUME ProtocolConstantsOK ==
  WIDTH \in Nat /\ LEN7 \in Nat /\ LEN16 \in Nat /\ LEN7 < LEN16 /\ LEN16 <= WIDTH

\* The bytes of message k of length len behind head_size bytes of header.
Package(k, len, head_size, masked) ==
  [i \in 1 .. head_size + len |-> <<k, i, masked /\ i > head_size>>]

\* Bytes that are not a header, read as one: any short length will do.
Misread == 3

NoHeader == [ok |-> FALSE, pkg_size |-> 0, head_size |-> 0]

tp_head_size == 2

package(k, len) == Package(k, len, tp_head_size, FALSE)

tp_read_header(data, lens) ==
  IF Len(data) < tp_head_size THEN NoHeader
  ELSE LET k == data[1][1]
           isHeader == data[1] = <<k, 1, FALSE>> /\ data[2] = <<k, 2, FALSE>>
       IN [ok |-> TRUE, head_size |-> tp_head_size,
           pkg_size |-> IF isHeader THEN (tp_head_size + lens[k]) % WIDTH ELSE Misread]

\* The two fixed bytes and the extension; a client's frame has a mask of four more.
ws_head_size(len) == IF len <= LEN7 THEN 2 ELSE IF len < LEN16 THEN 4 ELSE 10
ws_mask == 4

package_ws_send_data(k, len) == Package(k, len, ws_head_size(len), FALSE)

ws_frame(k, len) == Package(k, len, ws_head_size(len) + ws_mask, TRUE)

read_ws_header(data, lens) ==
  LET k == data[1][1]
      isHeader == data[1] = <<k, 1, FALSE>> /\ k \in DOMAIN lens
  IN IF ~isHeader \/ Len(data) < ws_head_size(lens[k]) THEN NoHeader
     ELSE [ok |-> TRUE, head_size |-> ws_head_size(lens[k]) + ws_mask,
           pkg_size |-> ws_head_size(lens[k]) + ws_mask + lens[k]]

\* XOR with the mask, which takes it off, or puts it on again.
parser_ws_recv_data(data, from, to) ==
  [i \in DOMAIN data |-> IF i \in from .. to THEN <<data[i][1], data[i][2], ~data[i][3]>>
                                             ELSE data[i]]

\* The message these bytes are, 0 if they are not exactly one.
Message(body, head_size, lens) ==
  IF \E k \in DOMAIN lens : body = [i \in 1 .. lens[k] |-> <<k, head_size + i, FALSE>>]
  THEN CHOOSE k \in DOMAIN lens : body = [i \in 1 .. lens[k] |-> <<k, head_size + i, FALSE>>]
  ELSE 0
=============================================================================
