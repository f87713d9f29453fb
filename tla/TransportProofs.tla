--------------------------- MODULE TransportProofs ----------------------------
(***************************************************************************)
(* What TLAPS proves of Transport for any lengths of messages and buffers. *)
(*                                                                         *)
(* The bytes a receiver has and those on their way to it are, in either    *)
(* direction, the packages of the next messages, one after the other.  So  *)
(* the receiver finds a header where it looks for one, and what it cuts    *)
(* off is the next message.                                                *)
(***************************************************************************)
EXTENDS Transport, SequenceTheorems, TLAPS

Byte == Nat \X Nat \X BOOLEAN

\* The bytes are packages a .. b, which begin behind the offsets at.
Cut(bytes, at, a, b, packages) ==
  /\ a <= b + 1 /\ at \in [a .. b + 1 -> Nat]
  /\ at[a] = 0 /\ at[b + 1] = Len(bytes)
  /\ \A j, k \in a .. b + 1 : j <= k => at[j] <= at[k]
  /\ \A k \in a .. b : at[k + 1] = at[k] + Len(packages[k])
  /\ \A k \in a .. b : \A i \in 1 .. Len(packages[k]) : bytes[at[k] + i] = packages[k][i]

Stream(bytes, a, b, packages) == \E at : Cut(bytes, at, a, b, packages)

-----------------------------------------------------------------------------
(* Lemmas about streams of packages *)

LEMMA StreamEmpty ==
  ASSUME NEW a \in Nat, NEW b \in Int, a = b + 1, NEW packages
  PROVE  Stream(<<>>, a, b, packages)
<1>1. Cut(<<>>, [k \in a .. b + 1 |-> 0], a, b, packages)
  BY DEF Cut
<1> QED
  BY <1>1 DEF Stream

\* One package more behind it.
LEMMA StreamGrows ==
  ASSUME NEW bytes \in Seq(Byte), NEW a \in Nat, NEW b \in Nat, NEW p, NEW q,
         Stream(bytes, a, b, p), q[b + 1] \in Seq(Byte),
         \A k \in a .. b : p[k] \in Seq(Byte) /\ q[k] = p[k]
  PROVE  Stream(bytes \o q[b + 1], a, b + 1, q)
<1>1. PICK at : Cut(bytes, at, a, b, p)
  BY DEF Stream
<1> DEFINE more == q[b + 1]
           all == bytes \o more
           to == [k \in a .. b + 2 |-> IF k = b + 2 THEN Len(all) ELSE at[k]]
<1>2. /\ all \in Seq(Byte) /\ Len(all) = Len(bytes) + Len(more)
      /\ \A i \in 1 .. Len(bytes) : all[i] = bytes[i]
      /\ \A i \in 1 .. Len(more) : all[Len(bytes) + i] = more[i]
      /\ Len(bytes) \in Nat /\ Len(more) \in Nat
  BY ConcatProperties, LenProperties
<1> HIDE DEF all
<1>3. /\ a <= b + 1 /\ at \in [a .. b + 1 -> Nat] /\ at[a] = 0 /\ at[b + 1] = Len(bytes)
      /\ \A j, k \in a .. b + 1 : j <= k => at[j] <= at[k]
  BY <1>1 DEF Cut
<1>4. /\ to \in [a .. b + 2 -> Nat] /\ to[b + 2] = Len(all)
      /\ \A k \in a .. b + 1 : to[k] = at[k]
  BY <1>2, <1>3
<1> HIDE DEF to
<1>5. \A j, k \in a .. b + 2 : j <= k => to[j] <= to[k]
  <2> SUFFICES ASSUME NEW j \in a .. b + 2, NEW k \in a .. b + 2, j <= k
               PROVE  to[j] <= to[k]
    OBVIOUS
  <2>1. CASE k # b + 2
    BY <2>1, <1>3, <1>4
  <2>2. CASE k = b + 2 /\ j # b + 2
    <3>1. j \in a .. b + 1 /\ b + 1 \in a .. b + 1 /\ j <= b + 1
      BY <2>2, <1>3
    <3>2. to[j] <= Len(bytes)
      BY <3>1, <1>3, <1>4
    <3> QED
      BY <3>1, <3>2, <2>2, <1>2, <1>3, <1>4
  <2>3. CASE k = b + 2 /\ j = b + 2
    BY <2>3, <1>2, <1>4
  <2> QED
    BY <2>1, <2>2, <2>3
<1>6. \A k \in a .. b + 1 : to[k + 1] = to[k] + Len(q[k])
  <2> SUFFICES ASSUME NEW k \in a .. b + 1
               PROVE  to[k + 1] = to[k] + Len(q[k])
    OBVIOUS
  <2>1. CASE k = b + 1
    <3>1. to[k] = Len(bytes) /\ to[k + 1] = Len(all)
      BY <2>1, <1>3, <1>4
    <3>2. q[k] = more
      BY <2>1
    <3> QED
      BY <3>1, <3>2, <1>2
  <2>2. CASE k # b + 1
    <3>1. k \in a .. b /\ k + 1 \in a .. b + 1
      BY <2>2
    <3>2. at[k + 1] = at[k] + Len(p[k])
      BY <3>1, <1>1 DEF Cut
    <3> QED
      BY <3>1, <3>2, <1>4
  <2> QED
    BY <2>1, <2>2
<1>7. ASSUME NEW k \in a .. b + 1, NEW i \in 1 .. Len(q[k])
      PROVE  all[to[k] + i] = q[k][i]
  <2>1. CASE k = b + 1
    <3>1. to[k] = Len(bytes)
      BY <2>1, <1>3, <1>4
    <3>2. q[k] = more
      BY <2>1
    <3> QED
      BY <3>1, <3>2, <1>2
  <2>2. CASE k # b + 1
    <3>1. k \in a .. b /\ k + 1 \in a .. b + 1 /\ b + 1 \in a .. b + 1 /\ k + 1 <= b + 1
      BY <2>2
    <3>2. at[k + 1] = at[k] + Len(p[k]) /\ bytes[at[k] + i] = p[k][i] /\ p[k] = q[k]
      BY <3>1, <1>1 DEF Cut
    <3>3. at[k] \in Nat /\ at[k + 1] \in Nat /\ at[k + 1] <= Len(bytes)
      BY <3>1, <1>3
    <3>4. to[k] = at[k]
      BY <1>4
    <3>6. Len(p[k]) \in Nat /\ i \in 1 .. Len(p[k])
      BY <3>1, <3>2, LenProperties
    <3>5. at[k] + i \in 1 .. Len(bytes)
      <4> DEFINE here == at[k]
                 len == Len(p[k])
      <4>1. here \in Nat /\ len \in Nat /\ i \in 1 .. len /\ here + len <= Len(bytes)
        BY <3>2, <3>3, <3>6
      <4> HIDE DEF here, len
      <4>2. here + i \in 1 .. Len(bytes)
        BY <4>1, <1>2
      <4> QED
        BY <4>2 DEF here
    <3> QED
      BY <3>2, <3>4, <3>5, <1>2
  <2> QED
    BY <2>1, <2>2
<1>8. Cut(all, to, a, b + 1, q)
  <2>1. b + 1 + 1 = b + 2 /\ a <= b + 2 /\ a \in a .. b + 1
    BY <1>3
  <2> QED
    BY <2>1, <1>3, <1>4, <1>5, <1>6, <1>7 DEF Cut
<1> QED
  BY <1>8 DEF Stream, all

\* What is behind the first n bytes.
LEMMA Behind ==
  ASSUME NEW S, NEW s \in Seq(S), NEW n \in 0 .. Len(s)
  PROVE  /\ SubSeq(s, n + 1, Len(s)) \in Seq(S)
         /\ Len(SubSeq(s, n + 1, Len(s))) = Len(s) - n
         /\ \A i \in 1 .. Len(s) - n : SubSeq(s, n + 1, Len(s))[i] = s[n + i]
<1> DEFINE len == Len(s)
<1>1. len \in Nat /\ n \in Nat /\ n <= len
  BY LenProperties
<1>2. \A i \in n + 1 .. len : s[i] \in S
  BY <1>1, ElementOfSeq
<1> HIDE DEF len
<1>3. n + 1 \in Int /\ len \in Int
  BY <1>1
<1>4. /\ SubSeq(s, n + 1, len) \in Seq(S)
      /\ Len(SubSeq(s, n + 1, len)) = IF n + 1 <= len THEN len - (n + 1) + 1 ELSE 0
      /\ \A i \in 1 .. len - (n + 1) + 1 : SubSeq(s, n + 1, len)[i] = s[n + 1 + i - 1]
  BY ONLY <1>2, <1>3, SubSeqProperties
<1>5. len - (n + 1) + 1 = len - n /\ \A i \in 1 .. len - n : n + 1 + i - 1 = n + i
  BY <1>1
<1>6. Len(SubSeq(s, n + 1, len)) = len - n
  BY <1>1, <1>4
<1>7. \A i \in 1 .. len - n : SubSeq(s, n + 1, len)[i] = s[n + i]
  BY <1>4, <1>5
<1> QED
  BY <1>4, <1>6, <1>7 DEF len

\* The first package is at its beginning.
LEMMA StreamFirst ==
  ASSUME NEW bytes \in Seq(Byte), NEW a \in Nat, NEW b \in Int, NEW p,
         Stream(bytes, a, b, p), \A k \in a .. b : p[k] \in Seq(Byte) /\ p[k] # <<>>
  PROVE  /\ a <= b + 1
         /\ a <= b => /\ Len(p[a]) <= Len(bytes) /\ bytes # <<>>
                      /\ \A i \in 1 .. Len(p[a]) : bytes[i] = p[a][i]
         /\ a = b + 1 => bytes = <<>>
<1>1. PICK at : Cut(bytes, at, a, b, p)
  BY DEF Stream
<1>2. /\ a <= b + 1 /\ at \in [a .. b + 1 -> Nat] /\ at[a] = 0 /\ at[b + 1] = Len(bytes)
      /\ \A j, k \in a .. b + 1 : j <= k => at[j] <= at[k]
  BY <1>1 DEF Cut
<1>3. ASSUME a <= b
      PROVE  /\ Len(p[a]) <= Len(bytes) /\ bytes # <<>>
             /\ \A i \in 1 .. Len(p[a]) : bytes[i] = p[a][i]
  <2>1. a \in a .. b /\ a + 1 \in a .. b + 1 /\ b + 1 \in a .. b + 1 /\ a + 1 <= b + 1
    BY <1>3
  <2>2. p[a] \in Seq(Byte) /\ Len(p[a]) \in Nat \ {0}
    BY <2>1, EmptySeq
  <2>3. at[a + 1] = Len(p[a]) /\ at[a + 1] <= Len(bytes)
    BY <1>1, <1>2, <2>1, <2>2 DEF Cut
  <2>4. \A i \in 1 .. Len(p[a]) : bytes[at[a] + i] = p[a][i]
    BY <1>1, <2>1 DEF Cut
  <2>5. \A i \in 1 .. Len(p[a]) : at[a] + i = i
    BY <1>2
  <2>6. bytes # <<>>
    BY <2>2, <2>3, EmptySeq
  <2> QED
    BY <2>3, <2>4, <2>5, <2>6
<1>4. ASSUME a = b + 1
      PROVE  bytes = <<>>
  BY <1>2, <1>4, EmptySeq
<1> QED
  BY <1>2, <1>3, <1>4

\* Without its first package.
LEMMA StreamTail ==
  ASSUME NEW bytes \in Seq(Byte), NEW a \in Nat, NEW b \in Nat, NEW p, a <= b,
         Stream(bytes, a, b, p), \A k \in a .. b : p[k] \in Seq(Byte) /\ p[k] # <<>>
  PROVE  Stream(SubSeq(bytes, Len(p[a]) + 1, Len(bytes)), a + 1, b, p)
<1>1. PICK at : Cut(bytes, at, a, b, p)
  BY DEF Stream
<1> DEFINE len == Len(p[a])
           left == SubSeq(bytes, len + 1, Len(bytes))
           to == [k \in a + 1 .. b + 1 |-> at[k] - len]
<1>2. /\ a <= b + 1 /\ at \in [a .. b + 1 -> Nat] /\ at[a] = 0 /\ at[b + 1] = Len(bytes)
      /\ \A j, k \in a .. b + 1 : j <= k => at[j] <= at[k]
  BY <1>1 DEF Cut
<1>3. a \in a .. b /\ a + 1 \in a .. b + 1 /\ b + 1 \in a .. b + 1 /\ a + 1 <= b + 1
  OBVIOUS
<1>4. len \in Nat \ {0} /\ Len(bytes) \in Nat
  BY <1>3, EmptySeq, LenProperties
<1>5. at[a + 1] = len
  BY <1>1, <1>2, <1>3, <1>4 DEF Cut
<1>6. \A k \in a + 1 .. b + 1 : k \in a .. b + 1 /\ a + 1 <= k /\ at[k] >= len /\ at[k] \in Nat
  BY <1>2, <1>3, <1>5
<1>7. /\ left \in Seq(Byte) /\ Len(left) = Len(bytes) - len
      /\ \A i \in 1 .. Len(bytes) - len : left[i] = bytes[len + i]
  <2>1. len \in 0 .. Len(bytes)
    BY <1>2, <1>3, <1>4, <1>6
  <2> QED
    BY <2>1, Behind
<1> HIDE DEF left, len
<1>8. /\ to \in [a + 1 .. b + 1 -> Nat] /\ to[a + 1] = 0 /\ to[b + 1] = Len(left)
      /\ \A k \in a + 1 .. b + 1 : to[k] = at[k] - len
  BY <1>2, <1>3, <1>4, <1>5, <1>6, <1>7
<1> HIDE DEF to
<1>9. \A j, k \in a + 1 .. b + 1 : j <= k => to[j] <= to[k]
  BY <1>2, <1>4, <1>6, <1>8
<1>10. \A k \in a + 1 .. b : to[k + 1] = to[k] + Len(p[k])
  <2> SUFFICES ASSUME NEW k \in a + 1 .. b
               PROVE  to[k + 1] = to[k] + Len(p[k])
    OBVIOUS
  <2>1. k \in a .. b /\ k \in a + 1 .. b + 1 /\ k + 1 \in a + 1 .. b + 1
    OBVIOUS
  <2>2. at[k + 1] = at[k] + Len(p[k])
    BY <1>1, <2>1 DEF Cut
  <2>3. Len(p[k]) \in Nat
    BY <2>1, LenProperties
  <2>4. to[k] = at[k] - len /\ to[k + 1] = at[k + 1] - len /\ at[k] \in Nat
    BY <2>1, <1>6, <1>8
  <2> QED
    BY <2>2, <2>3, <2>4, <1>4
<1>11. ASSUME NEW k \in a + 1 .. b, NEW i \in 1 .. Len(p[k])
       PROVE  left[to[k] + i] = p[k][i]
  <2>1. k \in a .. b /\ k \in a + 1 .. b + 1 /\ k + 1 \in a + 1 .. b + 1 /\ k + 1 <= b + 1
    OBVIOUS
  <2>2. bytes[at[k] + i] = p[k][i] /\ at[k + 1] = at[k] + Len(p[k])
    BY <1>1, <2>1 DEF Cut
  <2>6. Len(p[k]) \in Nat /\ i <= Len(p[k]) /\ i \in Nat /\ i >= 1
    BY <2>1, LenProperties
  <2>3. at[k + 1] <= Len(bytes)
    BY <1>2, <1>3, <1>6, <2>1
  <2>4. at[k] \in Nat /\ at[k] >= len /\ to[k] = at[k] - len
    BY <1>6, <1>8, <2>1
  <2>5. to[k] + i \in 1 .. Len(bytes) - len /\ len + (to[k] + i) = at[k] + i
    <3> DEFINE here == at[k]
               there == to[k]
               all == Len(bytes)
    <3>1. here + i <= all
      BY <2>2, <2>3, <2>4, <2>6, <1>4
    <3>2. here \in Nat /\ here >= len /\ there = here - len /\ all \in Nat
      BY <2>4, <1>4
    <3> HIDE DEF here, there, all
    <3>3. there + i \in 1 .. all - len /\ len + (there + i) = here + i
      BY <3>1, <3>2, <2>6, <1>4
    <3> QED
      BY <3>3 DEF here, there, all
  <2> QED
    BY <2>2, <2>5, <1>7
<1>12. Cut(left, to, a + 1, b, p)
  BY <1>3, <1>8, <1>9, <1>10, <1>11 DEF Cut
<1> QED
  BY <1>12 DEF Stream, left, len

\* Packages behind the stream do not matter.
LEMMA StreamSame ==
  ASSUME NEW bytes, NEW a \in Nat, NEW b \in Int, NEW p, NEW q,
         Stream(bytes, a, b, p), \A k \in a .. b : q[k] = p[k]
  PROVE  Stream(bytes, a, b, q)
<1>1. PICK at : Cut(bytes, at, a, b, p)
  BY DEF Stream
<1>2. /\ a <= b + 1 /\ at \in [a .. b + 1 -> Nat]
      /\ at[a] = 0 /\ at[b + 1] = Len(bytes)
      /\ \A j, k \in a .. b + 1 : j <= k => at[j] <= at[k]
  BY <1>1 DEF Cut
<1>3. ASSUME NEW k \in a .. b
      PROVE  /\ at[k + 1] = at[k] + Len(q[k])
             /\ \A i \in 1 .. Len(q[k]) : bytes[at[k] + i] = q[k][i]
  <2>1. q[k] = p[k]
    OBVIOUS
  <2>2. /\ at[k + 1] = at[k] + Len(p[k])
        /\ \A i \in 1 .. Len(p[k]) : bytes[at[k] + i] = p[k][i]
    BY <1>1 DEF Cut
  <2> QED
    BY <2>1, <2>2
<1>4. Cut(bytes, at, a, b, q)
  BY <1>2, <1>3 DEF Cut
<1> QED
  BY <1>4 DEF Stream

-----------------------------------------------------------------------------
(* What is on its way to the server *)

\* The commands as they are packed.
UpPackages ==
  [k \in DOMAIN cmds |->
     IF socket_type = "TCP_SOCKET" THEN package(k, cmds[k].len) ELSE ws_frame(k, cmds[k].len)]

HeadSize(k) ==
  IF socket_type = "TCP_SOCKET" THEN tp_head_size ELSE ws_head_size(cmds[k].len) + ws_mask

\* The command to be handled next.
First == Len(handled) + 1

CommandTypes ==
  /\ socket_type \in {"TCP_SOCKET", "WS_SOCKET"} /\ is_ws_shake \in BOOLEAN
  /\ unpacking \in BOOLEAN /\ long_pkg_size \in Nat
  /\ cmds \in Seq([len : Nat, kind : Kinds]) /\ handled \in Seq(Nat)
  /\ up \in Seq(Byte) /\ recv_buf \in Seq(Byte)
  /\ \A k \in DOMAIN cmds :
       IF socket_type = "TCP_SOCKET" THEN cmds[k].len + tp_head_size < WIDTH
       ELSE cmds[k].len \in CommandLens

Shaking == socket_type = "WS_SOCKET" /\ ~is_ws_shake

\* During the handshake nothing else is sent.
Handshake ==
  /\ cmds = <<>> /\ answers = <<>> /\ handled = <<>> /\ down = <<>> /\ writes = <<>>
  /\ ~unpacking /\ long_pkg_size = 0 /\ ws_client # "accepted"
  /\ recved < SHAKE /\ recved + Len(up) <= SHAKE
  /\ ws_client = "new" => recv_buf = <<>> /\ up = <<>>

\* Then the bytes are the commands that are not handled.  long_pkg is for the first of
\* them, and an open session that waits has not got the whole of it.
Commands ==
  /\ Stream(recv_buf \o up, First, Len(cmds), UpPackages)
  /\ long_pkg_size = 0 => recved <= RECV_LEN
  /\ long_pkg_size # 0 =>
       recved \in RECV_LEN .. long_pkg_size /\ long_pkg_size = Len(UpPackages[First])
  /\ status = "open" /\ ~unpacking => recved = 0 \/ recved < Len(UpPackages[First])
  /\ socket_type = "WS_SOCKET" <=> ws_client # "new"

UpInv ==
  /\ CommandTypes
  /\ \A i \in 1 .. Len(handled) : handled[i] = i
  /\ IF Shaking THEN Handshake ELSE Commands

LEMMA PackageBytes ==
  ASSUME NEW k \in Nat, NEW len \in Nat, NEW head \in Nat, NEW masked \in BOOLEAN
  PROVE  /\ Package(k, len, head, masked) \in Seq(Byte)
         /\ Len(Package(k, len, head, masked)) = head + len
         /\ \A i \in 1 .. head + len :
              Package(k, len, head, masked)[i] = <<k, i, masked /\ i > head>>
<1> DEFINE pkg == Package(k, len, head, masked)
<1>1. pkg = [i \in 1 .. head + len |-> <<k, i, masked /\ i > head>>]
  BY DEF Package
<1>2. ASSUME NEW i \in 1 .. head + len
      PROVE  <<k, i, masked /\ i > head>> \in Byte
  <2> DEFINE m == masked /\ i > head
  <2>1. m \in BOOLEAN /\ i \in Nat
    OBVIOUS
  <2> HIDE DEF m
  <2>2. <<k, i, m>> \in Byte
    BY <2>1 DEF Byte
  <2> QED
    BY <2>2 DEF m
<1>3. pkg \in [1 .. head + len -> Byte] /\ head + len \in Nat
  BY <1>1, <1>2
<1> HIDE DEF pkg
<1>4. pkg \in Seq(Byte) /\ Len(pkg) = head + len
  BY <1>3
<1> QED
  BY <1>1, <1>4 DEF pkg

LEMMA HeadSizes ==
  ASSUME NEW len
  PROVE  ws_head_size(len) \in Nat \ {0, 1} /\ tp_head_size = 2 /\ ws_mask = 4
BY DEF ws_head_size, tp_head_size, ws_mask

LEMMA UpPackageBytes ==
  ASSUME CommandTypes, NEW k \in 1 .. Len(cmds)
  PROVE  /\ UpPackages[k] \in Seq(Byte) /\ UpPackages[k] # <<>>
         /\ HeadSize(k) \in Nat \ {0, 1} /\ cmds[k].len \in Nat
         /\ Len(UpPackages[k]) = HeadSize(k) + cmds[k].len
         /\ \A i \in 1 .. HeadSize(k) + cmds[k].len :
              UpPackages[k][i] = <<k, i, socket_type = "WS_SOCKET" /\ i > HeadSize(k)>>
<1>0. cmds[k] \in [len : Nat, kind : Kinds]
  BY ElementOfSeq DEF CommandTypes
<1>1. k \in DOMAIN cmds /\ k \in Nat /\ cmds[k].len \in Nat
  <2>1. k \in DOMAIN cmds /\ k \in Nat
    BY LenProperties DEF CommandTypes
  <2>2. cmds[k].len \in Nat
    BY <1>0
  <2> QED
    BY <2>1, <2>2
<1>2. HeadSize(k) \in Nat \ {0, 1}
  BY HeadSizes DEF HeadSize
<1>3. UpPackages[k] = Package(k, cmds[k].len, HeadSize(k), socket_type = "WS_SOCKET")
  BY <1>1 DEF CommandTypes, UpPackages, HeadSize, package, ws_frame
<1> DEFINE len == cmds[k].len
           head == HeadSize(k)
           masked == socket_type = "WS_SOCKET"
<1>4. len \in Nat /\ head \in Nat \ {0, 1} /\ masked \in BOOLEAN
  BY <1>1, <1>2
<1> HIDE DEF len, head, masked
<1>7. k \in Nat /\ len \in Nat /\ head \in Nat /\ masked \in BOOLEAN
  BY <1>1, <1>4
<1>5. /\ Package(k, len, head, masked) \in Seq(Byte)
      /\ Len(Package(k, len, head, masked)) = head + len
      /\ \A i \in 1 .. head + len :
           Package(k, len, head, masked)[i] = <<k, i, masked /\ i > head>>
  BY ONLY <1>7, PackageBytes, Zenon
<1>6. Package(k, len, head, masked) # <<>>
  BY <1>4, <1>5, EmptySeq
<1> QED
  BY <1>3, <1>4, <1>5, <1>6 DEF len, head, masked

\* The beginning of what was received is the beginning of the next command.
LEMMA Received ==
  ASSUME CommandTypes, Stream(recv_buf \o up, First, Len(cmds), UpPackages), recved # 0
  PROVE  /\ First \in 1 .. Len(cmds) /\ UpPackages[First] \in Seq(Byte)
         /\ Len(UpPackages[First]) <= recved + Len(up)
         /\ \A i \in 1 .. Len(UpPackages[First]) :
              i <= recved => recv_buf[i] = UpPackages[First][i]
<1> DEFINE all == recv_buf \o up
<1>1. /\ all \in Seq(Byte) /\ Len(all) = recved + Len(up) /\ recved \in Nat \ {0}
      /\ \A i \in 1 .. recved : all[i] = recv_buf[i]
  BY ConcatProperties, LenProperties DEF CommandTypes, recved
<1>2. First \in Nat \ {0} /\ Len(cmds) \in Nat /\ Len(up) \in Nat
  BY LenProperties DEF CommandTypes, First
<1>3. \A k \in First .. Len(cmds) : UpPackages[k] \in Seq(Byte) /\ UpPackages[k] # <<>>
  BY <1>2, UpPackageBytes
<1> HIDE DEF all
<1>4. Stream(all, First, Len(cmds), UpPackages)
  BY DEF all
<1>5. /\ First <= Len(cmds) + 1
      /\ First <= Len(cmds) => /\ Len(UpPackages[First]) <= Len(all)
                               /\ \A i \in 1 .. Len(UpPackages[First]) :
                                    all[i] = UpPackages[First][i]
      /\ First = Len(cmds) + 1 => all = <<>>
  BY <1>1, <1>2, <1>3, <1>4, StreamFirst
<1>6. all # <<>>
  BY <1>1, <1>2, EmptySeq
<1>7. First \in 1 .. Len(cmds)
  BY <1>2, <1>5, <1>6
<1>8. UpPackages[First] \in Seq(Byte)
  BY <1>2, <1>3, <1>7
<1>9. ASSUME NEW i \in 1 .. Len(UpPackages[First]), i <= recved
      PROVE  recv_buf[i] = UpPackages[First][i]
  BY <1>1, <1>5, <1>7, <1>8, <1>9
<1> QED
  BY <1>1, <1>5, <1>7, <1>8, <1>9

LEMMA SmallModulo ==
  ASSUME NEW m \in Nat, NEW n \in Nat, m < n
  PROVE  m % n = m
OBVIOUS

\* A header is read where one is, and tells the next command's length.
LEMMA HeaderRead ==
  ASSUME CommandTypes, Stream(recv_buf \o up, First, Len(cmds), UpPackages), recved # 0
  PROVE  /\ recv_buf[1] = <<First, 1, FALSE>>
         /\ \/ /\ ~read_header.ok /\ recved < Len(UpPackages[First]) /\ recved < RECV_LEN
            \/ /\ read_header.ok /\ read_header.pkg_size = Len(UpPackages[First])
               /\ read_header.head_size = HeadSize(First)
<1> DEFINE k == First
           pkg == UpPackages[k]
           len == cmds[k].len
<1>1. /\ k \in 1 .. Len(cmds) /\ pkg \in Seq(Byte)
      /\ \A i \in 1 .. Len(pkg) : i <= recved => recv_buf[i] = pkg[i]
  BY Received
<1>2. /\ HeadSize(k) \in Nat \ {0, 1} /\ len \in Nat /\ Len(pkg) = HeadSize(k) + len
      /\ \A i \in 1 .. HeadSize(k) + len :
           pkg[i] = <<k, i, socket_type = "WS_SOCKET" /\ i > HeadSize(k)>>
  BY <1>1, UpPackageBytes
<1>3. recved \in Nat \ {0} /\ recved = Len(recv_buf)
  BY LenProperties DEF CommandTypes, recved
<1>4. cmd_lens = [j \in DOMAIN cmds |-> cmds[j].len] /\ k \in DOMAIN cmds
  BY <1>1, LenProperties DEF cmd_lens, CommandTypes
<1> HIDE DEF k, pkg, len
<1>5. /\ 1 \in 1 .. Len(pkg) /\ 2 \in 1 .. Len(pkg) /\ 1 \in 1 .. HeadSize(k) + len
      /\ 2 \in 1 .. HeadSize(k) + len
  BY <1>2
<1>6. pkg[1] = <<k, 1, FALSE>> /\ pkg[2] = <<k, 2, FALSE>>
  <2>1. ~(1 > HeadSize(k)) /\ ~(2 > HeadSize(k))
    BY <1>2
  <2>2. /\ pkg[1] = <<k, 1, socket_type = "WS_SOCKET" /\ 1 > HeadSize(k)>>
        /\ pkg[2] = <<k, 2, socket_type = "WS_SOCKET" /\ 2 > HeadSize(k)>>
    BY <1>2, <1>5, Zenon
  <2>3. /\ (socket_type = "WS_SOCKET" /\ 1 > HeadSize(k)) = FALSE
        /\ (socket_type = "WS_SOCKET" /\ 2 > HeadSize(k)) = FALSE
    BY <2>1
  <2> QED
    BY <2>2, <2>3, Zenon
<1>7. recv_buf[1] = <<k, 1, FALSE>> /\ (recved >= 2 => recv_buf[2] = <<k, 2, FALSE>>)
  <2>1. 1 <= recved /\ (recved >= 2 => 2 <= recved)
    BY <1>3
  <2>2. recv_buf[1] = pkg[1] /\ (recved >= 2 => recv_buf[2] = pkg[2])
    BY <1>1, <1>5, <2>1, Zenon
  <2> QED
    BY <1>6, <2>2, Zenon
<1>8. cmd_lens[k] = len /\ k \in DOMAIN cmd_lens
  BY <1>4 DEF len
<1>9. recv_buf[1][1] = k
  BY <1>7
<1>10. CASE socket_type = "TCP_SOCKET"
  <2>1. read_header = tp_read_header(recv_buf, cmd_lens)
    BY <1>3, <1>10 DEF read_header
  <2>2. HeadSize(k) = 2 /\ tp_head_size = 2
    BY <1>10 DEF HeadSize, tp_head_size
  <2>3. CASE recved < 2
    <3>1. ~read_header.ok
      BY <2>1, <2>2, <2>3, <1>3 DEF tp_read_header, NoHeader
    <3>2. recved < Len(pkg) /\ recved < RECV_LEN
      BY <2>2, <2>3, <1>2, <1>3, NetbusConstantsOK
    <3> QED
      BY <3>1, <3>2, <1>7 DEF k, pkg
  <2>4. CASE ~(recved < 2)
    <3>1. len + 2 < WIDTH /\ WIDTH \in Nat
      BY <1>4, <1>10, ProtocolConstantsOK DEF CommandTypes, tp_head_size, len
    <3>2. (2 + len) % WIDTH = 2 + len
      BY <3>1, <1>2, SmallModulo
    <3>5. recved >= 2
      BY <2>4, <1>3
    <3>3. recv_buf[1] = <<k, 1, FALSE>> /\ recv_buf[2] = <<k, 2, FALSE>>
      BY <3>5, <1>7, Zenon
    <3>4. read_header = [ok |-> TRUE, head_size |-> 2, pkg_size |-> (2 + len) % WIDTH]
      BY <2>1, <2>2, <2>4, <3>3, <1>3, <1>8, <1>9 DEF tp_read_header
    <3> QED
      BY <3>2, <3>4, <2>2, <1>2, <1>7 DEF k, pkg
  <2> QED
    BY <2>3, <2>4
<1>11. CASE socket_type = "WS_SOCKET"
  <2>1. read_header = read_ws_header(recv_buf, cmd_lens)
    BY <1>3, <1>11 DEF read_header
  <2>2. HeadSize(k) = ws_head_size(len) + 4 /\ ws_mask = 4 /\ ws_head_size(len) \in Nat
    BY <1>11, HeadSizes DEF HeadSize, len
  <2>3. CASE recved < ws_head_size(len)
    <3>1. ~read_header.ok
      BY <2>1, <2>3, <1>3, <1>8, <1>9 DEF read_ws_header, NoHeader
    <3>2. len \in CommandLens
      BY <1>4, <1>11 DEF CommandTypes, len
    <3>3. ws_head_size(len) <= RECV_LEN
      BY <3>2, TransportConstantsOK
    <3>4. recved < Len(pkg) /\ recved < RECV_LEN
      BY <2>2, <2>3, <3>3, <1>2, <1>3, NetbusConstantsOK
    <3> QED
      BY <3>1, <3>4, <1>7 DEF k, pkg
  <2>4. CASE ~(recved < ws_head_size(len))
    <3>1. read_header = [ok |-> TRUE, head_size |-> ws_head_size(len) + ws_mask,
                         pkg_size |-> ws_head_size(len) + ws_mask + len]
      BY <2>1, <2>4, <1>3, <1>7, <1>8, <1>9 DEF read_ws_header
    <3> QED
      BY <3>1, <2>2, <1>2, <1>7 DEF k, pkg
  <2> QED
    BY <2>3, <2>4
<1> QED
  BY <1>10, <1>11 DEF CommandTypes

-----------------------------------------------------------------------------
(* Lemmas about buffers *)

\* Bytes that are received only change their place.
LEMMA Taken ==
  ASSUME NEW S, NEW s \in Seq(S), NEW t \in Seq(S), NEW n \in 0 .. Len(t)
  PROVE  /\ SubSeq(t, 1, n) \in Seq(S) /\ Len(SubSeq(t, 1, n)) = n
         /\ s \o SubSeq(t, 1, n) \in Seq(S) /\ Len(s \o SubSeq(t, 1, n)) = Len(s) + n
<1>1. Len(t) \in Nat /\ n \in Nat /\ n <= Len(t)
  BY LenProperties
<1>2. SubSeq(t, 1, n) \in Seq(S) /\ Len(SubSeq(t, 1, n)) = n
  BY <1>1
<1> QED
  BY <1>2, ConcatProperties

LEMMA TakenInOrder ==
  ASSUME NEW S, NEW s \in Seq(S), NEW t \in Seq(S), NEW n \in 0 .. Len(t)
  PROVE  (s \o SubSeq(t, 1, n)) \o SubSeq(t, n + 1, Len(t)) = s \o t
<1> DEFINE a == SubSeq(t, 1, n)
           b == SubSeq(t, n + 1, Len(t))
<1>1. a \in Seq(S) /\ b \in Seq(S)
  BY Taken, Behind
<1>2. a \o b = t
  <2>1. 1 \in 1 .. Len(t) + 1 /\ n \in 1 - 1 .. Len(t) /\ Len(t) \in n .. Len(t)
    BY LenProperties
  <2> QED
    BY <2>1, ConcatAdjacentSubSeq, SubSeqFull
<1> HIDE DEF a, b
<1>3. (s \o a) \o b = s \o (a \o b)
  BY <1>1, ConcatAssociative
<1> QED
  BY <1>2, <1>3 DEF a, b

\* What is cut off the beginning of a buffer is cut off the stream.
LEMMA CutOff ==
  ASSUME NEW S, NEW s \in Seq(S), NEW t \in Seq(S), NEW n \in 0 .. Len(s)
  PROVE  /\ SubSeq(s, n + 1, Len(s)) \in Seq(S)
         /\ Len(SubSeq(s, n + 1, Len(s))) = Len(s) - n
         /\ SubSeq(s, n + 1, Len(s)) \o t = SubSeq(s \o t, n + 1, Len(s \o t))
<1> DEFINE all == s \o t
           left == SubSeq(s, n + 1, Len(s))
           tail == SubSeq(all, n + 1, Len(all))
           cat == left \o t
<1>1. Len(s) \in Nat /\ Len(t) \in Nat /\ n \in Nat /\ n <= Len(s)
  BY LenProperties
<1>2. /\ all \in Seq(S) /\ Len(all) = Len(s) + Len(t)
      /\ \A i \in 1 .. Len(s) + Len(t) : all[i] = IF i <= Len(s) THEN s[i] ELSE t[i - Len(s)]
  BY ConcatProperties
<1>3. /\ left \in Seq(S) /\ Len(left) = Len(s) - n
      /\ \A i \in 1 .. Len(s) - n : left[i] = s[n + i]
  BY Behind
<1> HIDE DEF all
<1>4. n \in 0 .. Len(all)
  BY <1>1, <1>2
<1>5. /\ tail \in Seq(S) /\ Len(tail) = Len(all) - n
      /\ \A i \in 1 .. Len(all) - n : tail[i] = all[n + i]
  BY <1>2, <1>4, Behind
<1> HIDE DEF left, tail
<1>6. /\ cat \in Seq(S) /\ Len(cat) = Len(left) + Len(t)
      /\ \A i \in 1 .. Len(left) + Len(t) :
           cat[i] = IF i <= Len(left) THEN left[i] ELSE t[i - Len(left)]
  BY <1>3, ConcatProperties
<1> HIDE DEF cat
<1>7. Len(cat) = Len(tail)
  BY <1>1, <1>2, <1>3, <1>5, <1>6
<1>8. ASSUME NEW i \in 1 .. Len(cat)
      PROVE  cat[i] = tail[i]
  <2> DEFINE a == Len(s)
             b == Len(t)
  <2>1. a \in Nat /\ b \in Nat /\ n <= a /\ i \in 1 .. (a - n) + b
    BY <1>1, <1>3, <1>6
  <2>2. tail[i] = all[n + i]
    BY <2>1, <1>1, <1>2, <1>5
  <2>3. n + i \in 1 .. a + b
    BY <2>1, <1>1
  <2>4. CASE i <= a - n
    <3>1. i \in 1 .. a - n /\ n + i <= a
      BY <2>1, <2>4, <1>1
    <3>2. cat[i] = left[i] /\ left[i] = s[n + i]
      BY <3>1, <2>1, <1>3, <1>6
    <3>3. all[n + i] = s[n + i]
      BY <3>1, <2>3, <1>2
    <3> QED
      BY <3>2, <3>3, <2>2
  <2>5. CASE ~(i <= a - n)
    <3>1. ~(n + i <= a) /\ (n + i) - a = i - (a - n)
      BY <2>1, <2>5, <1>1
    <3>2. cat[i] = t[i - (a - n)]
      BY <2>1, <2>5, <1>3, <1>6
    <3>3. all[n + i] = t[(n + i) - a]
      BY <3>1, <2>3, <1>2
    <3> QED
      BY <3>1, <3>2, <3>3, <2>2
  <2> QED
    BY <2>4, <2>5
<1>9. cat = tail
  BY <1>5, <1>6, <1>7, <1>8, SeqEqual
<1> QED
  BY <1>3, <1>9 DEF left, tail, cat, all

-----------------------------------------------------------------------------
(* What the server does with it *)

LEMMA UpInit == Init => UpInv
<1> SUFFICES ASSUME Init PROVE UpInv
  OBVIOUS
<1> USE DEF Init, WireInit, NetbusInit
<1>0. Len(handled) = 0 /\ Len(cmds) = 0 /\ recved = 0 /\ Len(up) = 0 /\ DOMAIN cmds = {}
  BY EmptySeq DEF recved
<1>1. CommandTypes /\ Len(handled) = 0 /\ Len(cmds) = 0 /\ recved = 0 /\ Len(up) = 0
  <2>1. /\ cmds \in Seq([len : Nat, kind : Kinds]) /\ handled \in Seq(Nat)
        /\ up \in Seq(Byte) /\ recv_buf \in Seq(Byte)
    BY EmptySeq
  <2> QED
    BY <2>1, <1>0 DEF CommandTypes
<1>2. \A i \in 1 .. Len(handled) : handled[i] = i
  BY <1>1
<1>3. CASE Shaking
  <2>1. Handshake
    BY <1>1, NetbusConstantsOK DEF Handshake
  <2> QED
    BY <2>1, <1>1, <1>2, <1>3 DEF UpInv
<1>4. CASE ~Shaking
  <2>1. recv_buf \o up = <<>>
    BY ConcatEmptySeq, EmptySeq
  <2>2. Stream(recv_buf \o up, First, Len(cmds), UpPackages)
    BY <2>1, <1>1, StreamEmpty DEF First
  <2>3. socket_type # "WS_SOCKET"
    BY <1>4 DEF Shaking
  <2>4. Commands
    BY <2>2, <2>3, <1>1, NetbusConstantsOK DEF Commands
  <2> QED
    BY <2>4, <1>1, <1>2, <1>4 DEF UpInv
<1> QED
  BY <1>3, <1>4

upVars == <<cmds, up, handled, recv_buf, long_pkg_size, unpacking, socket_type, is_ws_shake>>

\* Other steps do not matter, if they are none of a handshake's.
LEMMA UpSame ==
  ASSUME UpInv, UNCHANGED upVars, status' = "open" => status = "open",
         Shaking => UNCHANGED <<answers, down, writes, ws_client>>,
         ws_client' = "new" <=> ws_client = "new"
  PROVE  UpInv'
<1> USE DEF upVars
<1>1. CommandTypes' /\ \A i \in 1 .. Len(handled') : handled'[i] = i
  BY DEF UpInv, CommandTypes
<1>2. Shaking' = Shaking /\ recved' = recved /\ First' = First /\ UpPackages' = UpPackages
  BY DEF Shaking, recved, First, UpPackages
<1>3. CASE Shaking
  <2>1. Handshake'
    BY <1>2, <1>3 DEF UpInv, Handshake
  <2> QED
    BY <2>1, <1>1, <1>2, <1>3 DEF UpInv
<1>4. CASE ~Shaking
  <2>1. Commands'
    BY <1>2, <1>4 DEF UpInv, Commands
  <2> QED
    BY <2>1, <1>1, <1>2, <1>4 DEF UpInv
<1> QED
  BY <1>3, <1>4

\* A command is sent.
LEMMA UpSend ==
  ASSUME UpInv, ~Shaking, NEW len \in Nat, NEW kind \in Kinds,
         IF socket_type = "TCP_SOCKET" THEN len + tp_head_size < WIDTH ELSE len \in CommandLens,
         cmds' = Append(cmds, [len |-> len, kind |-> kind]),
         up' = up \o (IF socket_type = "TCP_SOCKET" THEN package(Len(cmds) + 1, len)
                      ELSE ws_frame(Len(cmds) + 1, len)),
         UNCHANGED <<handled, recv_buf, long_pkg_size, unpacking, socket_type, is_ws_shake,
                     status, ws_client>>
  PROVE  UpInv'
<1> DEFINE n == Len(cmds)
           cmd == [len |-> len, kind |-> kind]
<1>1. CommandTypes /\ Commands /\ \A i \in 1 .. Len(handled) : handled[i] = i
  BY DEF UpInv
<1>2. cmds \in Seq([len : Nat, kind : Kinds]) /\ cmd \in [len : Nat, kind : Kinds] /\ n \in Nat
  BY <1>1, LenProperties DEF CommandTypes
<1>3. /\ cmds' \in Seq([len : Nat, kind : Kinds]) /\ Len(cmds') = n + 1
      /\ cmds'[n + 1] = cmd /\ \A k \in 1 .. n : cmds'[k] = cmds[k]
      /\ DOMAIN cmds' = 1 .. n + 1 /\ DOMAIN cmds = 1 .. n
  BY <1>2, AppendProperties, LenProperties
<1>4. cmds'[n + 1].len = len
  BY <1>3
<1> HIDE DEF n, cmd
<1>5. UpPackages'[n + 1] = IF socket_type = "TCP_SOCKET" THEN package(n + 1, len)
                           ELSE ws_frame(n + 1, len)
  BY <1>2, <1>3, <1>4 DEF UpPackages
<1>6. \A k \in 1 .. n : UpPackages'[k] = UpPackages[k]
  BY <1>2, <1>3 DEF UpPackages
<1>7. ws_head_size(len) + ws_mask \in Nat /\ tp_head_size \in Nat /\ n + 1 \in Nat
  BY <1>2, HeadSizes
<1>8. UpPackages'[n + 1] \in Seq(Byte)
  <2>1. Package(n + 1, len, tp_head_size, FALSE) \in Seq(Byte)
    BY <1>7, PackageBytes
  <2>2. Package(n + 1, len, ws_head_size(len) + ws_mask, TRUE) \in Seq(Byte)
    BY <1>7, PackageBytes
  <2> QED
    BY <2>1, <2>2, <1>5 DEF package, ws_frame
<1>9. up' = up \o UpPackages'[n + 1]
  BY <1>5 DEF n
<1>10. up \in Seq(Byte) /\ recv_buf \in Seq(Byte)
  BY <1>1 DEF CommandTypes
<1>11. /\ up' \in Seq(Byte) /\ recv_buf \o up \in Seq(Byte)
       /\ recv_buf \o up' = (recv_buf \o up) \o UpPackages'[n + 1]
  <2> DEFINE pkg == UpPackages'[n + 1]
  <2>1. pkg \in Seq(Byte)
    BY <1>8
  <2>2. up' = up \o pkg
    BY <1>9
  <2> HIDE DEF pkg
  <2>3. up \o pkg \in Seq(Byte) /\ recv_buf \o up \in Seq(Byte)
    BY ONLY <2>1, <1>10, ConcatProperties
  <2>4. (recv_buf \o up) \o pkg = recv_buf \o (up \o pkg)
    BY ONLY <2>1, <1>10, ConcatAssociative, SMTT(30)
  <2> QED
    BY <2>2, <2>3, <2>4 DEF pkg
<1>12. CommandTypes'
  <2>1. ASSUME NEW k \in DOMAIN cmds'
        PROVE  IF socket_type' = "TCP_SOCKET" THEN cmds'[k].len + tp_head_size < WIDTH
               ELSE cmds'[k].len \in CommandLens
    <3>1. CASE k = n + 1
      BY <3>1, <1>4
    <3>2. CASE k # n + 1
      <4>1. k \in DOMAIN cmds /\ cmds'[k] = cmds[k]
        BY <3>2, <1>2, <1>3
      <4> QED
        BY <4>1, <1>1 DEF CommandTypes
    <3> QED
      BY <3>1, <3>2
  <2> QED
    BY <2>1, <1>1, <1>3, <1>11 DEF CommandTypes
<1>13. First \in Nat /\ First' = First /\ recved' = recved /\ Shaking' = Shaking
  BY <1>1, LenProperties DEF First, recved, Shaking, CommandTypes
<1>14. \A k \in First .. n : UpPackages[k] \in Seq(Byte) /\ UpPackages'[k] = UpPackages[k]
  <2>1. First >= 1
    BY <1>1, LenProperties DEF First, CommandTypes
  <2>2. \A k \in First .. n : k \in 1 .. n
    BY <2>1, <1>2, <1>13
  <2> QED
    BY <2>2, <1>1, <1>6, UpPackageBytes DEF n
<1>15. Stream((recv_buf \o up) \o UpPackages'[n + 1], First, n + 1, UpPackages')
  <2>1. Stream(recv_buf \o up, First, n, UpPackages)
    BY <1>1 DEF Commands, n
  <2> QED
    BY <2>1, <1>2, <1>8, <1>11, <1>13, <1>14, StreamGrows
<1>16. recved # 0 => UpPackages'[First] = UpPackages[First]
  <2>1. recved # 0 => First \in 1 .. n
    BY <1>1, Received DEF Commands, n
  <2> QED
    BY <2>1, <1>6
<1>17. recved \in Nat /\ RECV_LEN \in Nat \ {0}
  BY <1>10, LenProperties, NetbusConstantsOK DEF recved
<1>18. Commands'
  <2>1. Stream(recv_buf' \o up', First', Len(cmds'), UpPackages')
    BY <1>3, <1>11, <1>13, <1>15
  <2>2. long_pkg_size' = 0 => recved' <= RECV_LEN
    BY <1>1, <1>13 DEF Commands
  <2>3. long_pkg_size' # 0 =>
          recved' \in RECV_LEN .. long_pkg_size' /\ long_pkg_size' = Len(UpPackages'[First'])
    BY <1>1, <1>13, <1>16, <1>17 DEF Commands, CommandTypes
  <2>4. status' = "open" /\ ~unpacking' => recved' = 0 \/ recved' < Len(UpPackages'[First'])
    BY <1>1, <1>13, <1>16 DEF Commands
  <2>5. socket_type' = "WS_SOCKET" <=> ws_client' # "new"
    BY <1>1 DEF Commands
  <2> QED
    BY <2>1, <2>2, <2>3, <2>4, <2>5 DEF Commands
<1> QED
  BY <1>1, <1>12, <1>13, <1>18 DEF UpInv

\* What Received and HeaderRead say, of the bytes that wait.
LEMMA Waiting ==
  ASSUME UpInv, ~Shaking
  PROVE  /\ recved \in Nat /\ recved = Len(recv_buf) /\ recv_buf \in Seq(Byte) /\ up \in Seq(Byte)
         /\ First \in Nat \ {0} /\ Len(cmds) \in Nat /\ Len(up) \in Nat
         /\ recved # 0 =>
              /\ First \in 1 .. Len(cmds)
              /\ \/ ~read_header.ok /\ recved < Len(UpPackages[First]) /\ recved < RECV_LEN
                 \/ read_header.ok /\ read_header.pkg_size = Len(UpPackages[First])
<1>1. CommandTypes /\ Stream(recv_buf \o up, First, Len(cmds), UpPackages)
  BY DEF UpInv, Commands
<1>2. recved \in Nat /\ recved = Len(recv_buf) /\ recv_buf \in Seq(Byte) /\ up \in Seq(Byte)
  BY <1>1, LenProperties DEF CommandTypes, recved
<1>3. First \in Nat \ {0} /\ Len(cmds) \in Nat /\ Len(up) \in Nat
  BY <1>1, LenProperties DEF CommandTypes, First
<1>4. recved # 0 =>
        /\ First \in 1 .. Len(cmds)
        /\ \/ ~read_header.ok /\ recved < Len(UpPackages[First]) /\ recved < RECV_LEN
           \/ read_header.ok /\ read_header.pkg_size = Len(UpPackages[First])
  BY <1>1, Received, HeaderRead
<1> QED
  BY <1>2, <1>3, <1>4

\* A read, in the handshake and after it.
LEMMA ReadCases ==
  ASSUME CommandTypes, NEW n, after_read(n)
  PROVE  /\ up' = SubSeq(up, n + 1, Len(up)) /\ long_pkg_size' = alloc_long
         /\ UNCHANGED <<cmds, answers, down, handled, socket_type, status, free_list>>
         /\ n \in 1 .. Offered /\ n <= Len(up) /\ status # "closed"
         /\ is_ws_shake' \in BOOLEAN /\ unpacking' \in BOOLEAN
         /\ IF Shaking
            THEN /\ ~unpacking'
                 /\ IF Len(recv_buf \o SubSeq(up, 1, n)) >= SHAKE
                    THEN recv_buf' = <<>> /\ is_ws_shake' /\ uv_write(ws_accept, Heap)
                    ELSE /\ recv_buf' = recv_buf \o SubSeq(up, 1, n)
                         /\ UNCHANGED <<is_ws_shake, writes>>
            ELSE /\ recv_buf' = recv_buf \o SubSeq(up, 1, n) /\ unpacking'
                 /\ UNCHANGED <<is_ws_shake, writes>>
<1> DEFINE data == recv_buf \o SubSeq(up, 1, n)
           shaken == Shaking /\ Len(data) >= SHAKE
<1>1. /\ up' = SubSeq(up, n + 1, Len(up)) /\ long_pkg_size' = alloc_long
      /\ UNCHANGED <<cmds, answers, down, handled, socket_type, status, free_list>>
      /\ n \in 1 .. Offered /\ n <= Len(up) /\ status # "closed"
  BY Zenon DEF after_read
<1>2. /\ recv_buf' = IF shaken THEN <<>> ELSE data
      /\ is_ws_shake' = (is_ws_shake \/ shaken) /\ unpacking' = ~Shaking
      /\ IF shaken THEN uv_write(ws_accept, Heap) ELSE UNCHANGED writes
  BY Zenon DEF after_read, Shaking
<1>3. shaken \in BOOLEAN /\ Shaking \in BOOLEAN /\ is_ws_shake \in BOOLEAN
  <2>1. Shaking \in BOOLEAN
    BY DEF Shaking
  <2> QED
    BY <2>1 DEF CommandTypes
<1>4. shaken <=> Shaking /\ Len(data) >= SHAKE
  OBVIOUS
<1> HIDE DEF data, shaken
<1>5. is_ws_shake' \in BOOLEAN /\ unpacking' \in BOOLEAN
  BY <1>2, <1>3
<1>6. (shaken => is_ws_shake' = TRUE) /\ (~shaken => is_ws_shake' = is_ws_shake)
  BY <1>2, <1>3
<1>7. (Shaking => unpacking' = FALSE) /\ (~Shaking => unpacking' = TRUE)
  BY <1>2, <1>3
<1>8. IF Shaking
      THEN /\ ~unpacking'
           /\ IF Len(data) >= SHAKE
              THEN recv_buf' = <<>> /\ is_ws_shake' /\ uv_write(ws_accept, Heap)
              ELSE recv_buf' = data /\ UNCHANGED <<is_ws_shake, writes>>
      ELSE recv_buf' = data /\ unpacking' /\ UNCHANGED <<is_ws_shake, writes>>
  BY <1>2, <1>4, <1>6, <1>7, Zenon
<1> QED
  BY <1>1, <1>5, <1>8, Zenon DEF data

\* Bytes of a handshake are read.
LEMMA UpShakes ==
  ASSUME UpInv, Shaking, NEW n \in Nat, after_read(n), ws_client' = ws_client
  PROVE  UpInv'
<1>1. CommandTypes /\ Handshake
  BY DEF UpInv
<1>2. up \in Seq(Byte) /\ recv_buf \in Seq(Byte) /\ n \in 0 .. Len(up)
  BY <1>1, LenProperties DEF after_read, CommandTypes
<1> DEFINE data == recv_buf \o SubSeq(up, 1, n)
           shaken == Len(data) >= SHAKE
           left == SubSeq(up, n + 1, Len(up))
<1>3. data \in Seq(Byte) /\ Len(data) = recved + n /\ left \in Seq(Byte) /\ Len(left) = Len(up) - n
  BY <1>2, Taken, Behind DEF recved
<1>4. /\ recv_buf' = IF shaken THEN <<>> ELSE data
      /\ shaken => is_ws_shake'
      /\ ~shaken => UNCHANGED <<is_ws_shake, writes>>
      /\ is_ws_shake' \in BOOLEAN /\ unpacking' \in BOOLEAN /\ ~unpacking' /\ up' = left
      /\ long_pkg_size' = alloc_long
      /\ UNCHANGED <<cmds, answers, down, handled, socket_type, status>>
      /\ n \in 1 .. Offered
  BY <1>1, ReadCases, Zenon
<1>5. recved \in Nat /\ Len(up) \in Nat /\ SHAKE \in Nat \ {0} /\ SHAKE <= RECV_LEN
  BY <1>1, <1>2, LenProperties, NetbusConstantsOK DEF recved
<1>6. long_pkg_size' = 0
  BY <1>1, <1>4, <1>5, NetbusConstantsOK DEF Handshake, alloc_long
<1> HIDE DEF data, left
<1>7. CommandTypes' /\ \A i \in 1 .. Len(handled') : handled'[i] = i
  <2>1. recv_buf' \in Seq(Byte) /\ up' \in Seq(Byte)
    BY <1>3, <1>4, EmptySeq
  <2> QED
    BY <2>1, <1>1, <1>4, <1>6 DEF UpInv, CommandTypes
<1>8. ws_client' # "new" /\ ws_client' # "accepted"
  <2>1. Len(up) >= 1
    BY <1>2, <1>4, <1>5
  <2> QED
    BY <2>1, <1>1, EmptySeq DEF Handshake
<1>9. CASE shaken
  <2>1. Len(left) = 0
    BY <1>1, <1>2, <1>3, <1>5, <1>9 DEF Handshake
  <2>2. recv_buf' = <<>> /\ up' = <<>> /\ recved' = 0 /\ ~Shaking'
    BY <2>1, <1>3, <1>4, <1>9, EmptySeq DEF recved, Shaking
  <2>3. cmds' = <<>> /\ handled' = <<>>
    BY <1>1, <1>4 DEF Handshake
  <2>4. Stream(recv_buf' \o up', First', Len(cmds'), UpPackages')
    BY <2>2, <2>3, ConcatEmptySeq, EmptySeq, StreamEmpty DEF First
  <2>6. socket_type' = "WS_SOCKET"
    BY <1>4 DEF Shaking
  <2>5. Commands'
    BY <2>2, <2>4, <2>6, <1>5, <1>6, <1>8, NetbusConstantsOK DEF Commands
  <2> QED
    BY <2>2, <2>5, <1>7 DEF UpInv
<1>10. CASE ~shaken
  <2>1. recv_buf' = data /\ recved' = Len(data) /\ Len(up') = Len(left) /\ Shaking'
    BY <1>4, <1>10 DEF recved, Shaking
  <2>2. recved' < SHAKE /\ recved' + Len(up') <= SHAKE
    BY <2>1, <1>1, <1>2, <1>3, <1>5, <1>10 DEF Handshake
  <2>3. Handshake'
    BY <2>2, <1>1, <1>4, <1>6, <1>8, <1>10 DEF Handshake
  <2> QED
    BY <2>1, <2>3, <1>7 DEF UpInv
<1> QED
  BY <1>9, <1>10

\* Bytes of commands are read: they stay in order, and there is room for them.
LEMMA UpReads ==
  ASSUME UpInv, ~Shaking, NEW n \in Nat, after_read(n), ws_client' = ws_client
  PROVE  UpInv'
<1>1. CommandTypes /\ Commands /\ \A i \in 1 .. Len(handled) : handled[i] = i
  BY DEF UpInv
<1>2. /\ recved \in Nat /\ recved = Len(recv_buf) /\ recv_buf \in Seq(Byte) /\ up \in Seq(Byte)
      /\ recved # 0 =>
           /\ First \in 1 .. Len(cmds)
           /\ \/ ~read_header.ok /\ recved < RECV_LEN
              \/ read_header.ok /\ read_header.pkg_size = Len(UpPackages[First])
  BY Waiting
<1>3. n \in 1 .. Offered /\ n \in 0 .. Len(up)
  BY <1>2, LenProperties DEF after_read
<1> DEFINE data == recv_buf \o SubSeq(up, 1, n)
           left == SubSeq(up, n + 1, Len(up))
<1>4. /\ recv_buf' = data /\ up' = left /\ unpacking' /\ is_ws_shake' = is_ws_shake
      /\ long_pkg_size' = alloc_long
      /\ UNCHANGED <<cmds, handled, socket_type, status>>
  BY <1>1, ReadCases, Zenon
<1>5. /\ data \in Seq(Byte) /\ Len(data) = recved + n /\ left \in Seq(Byte)
      /\ data \o left = recv_buf \o up
  <2>1. data \in Seq(Byte) /\ Len(data) = Len(recv_buf) + n /\ data \o left = recv_buf \o up
    <3>1. recv_buf \in Seq(Byte) /\ up \in Seq(Byte) /\ n \in 0 .. Len(up)
      BY <1>2, <1>3
    <3>2. data \in Seq(Byte) /\ Len(data) = Len(recv_buf) + n
      BY <3>1, Taken
    <3>3. data \o left = recv_buf \o up
      BY <3>1, TakenInOrder, Zenon
    <3> QED
      BY <3>2, <3>3
  <2>2. left \in Seq(Byte)
    BY <1>2, <1>3, Behind
  <2> QED
    BY <2>1, <2>2, <1>2
<1> HIDE DEF data, left
<1>6. First' = First /\ UpPackages' = UpPackages /\ Shaking' = Shaking /\ recved' = recved + n
  BY <1>4, <1>5 DEF First, UpPackages, Shaking, recved
<1>7. RECV_LEN \in Nat \ {0} /\ long_pkg_size \in Nat
  BY <1>1, NetbusConstantsOK DEF CommandTypes
<1>8. /\ long_pkg_size' \in Nat
      /\ long_pkg_size' = 0 => recved + n <= RECV_LEN
      /\ long_pkg_size' # 0 => /\ recved + n \in RECV_LEN .. long_pkg_size'
                               /\ long_pkg_size' = Len(UpPackages[First])
  <2>1. CASE recved < RECV_LEN
    <3>1. long_pkg_size = 0
      BY <2>1, <1>1, <1>2, <1>7 DEF Commands
    <3>2. long_pkg_size' = 0 /\ n <= RECV_LEN - recved
      BY <2>1, <3>1, <1>3, <1>4 DEF alloc_long, Offered
    <3> QED
      BY <3>2, <1>2, <1>3, <1>7
  <2>2. CASE ~(recved < RECV_LEN) /\ long_pkg_size # 0
    <3>1. long_pkg_size' = long_pkg_size /\ n <= long_pkg_size - recved
      BY <2>2, <1>3, <1>4 DEF alloc_long, Offered
    <3> QED
      BY <2>2, <3>1, <1>1, <1>2, <1>3, <1>7 DEF Commands
  <2>3. CASE ~(recved < RECV_LEN) /\ long_pkg_size = 0
    <3>1. recved # 0 /\ recved = RECV_LEN
      BY <2>3, <1>1, <1>2, <1>7 DEF Commands
    <3>2. read_header.pkg_size = Len(UpPackages[First]) /\ First \in 1 .. Len(cmds)
      BY <2>3, <3>1, <1>2
    <3>3. long_pkg_size' = Len(UpPackages[First]) /\ n <= Len(UpPackages[First]) - recved
      BY <2>3, <3>2, <1>3, <1>4 DEF alloc_long, Offered
    <3>4. Len(UpPackages[First]) \in Nat
      BY <3>2, <1>1, UpPackageBytes, LenProperties
    <3> QED
      BY <3>1, <3>3, <3>4, <1>3, <1>7
  <2> QED
    BY <2>1, <2>2, <2>3
<1>9. CommandTypes'
  BY <1>1, <1>4, <1>5, <1>8 DEF CommandTypes
<1>10. Commands'
  BY <1>1, <1>4, <1>5, <1>6, <1>8 DEF Commands
<1> QED
  BY <1>1, <1>4, <1>6, <1>9, <1>10 DEF UpInv

\* The loop ends: it waits for the rest of a command, or closes.
LEMMA UpUnpacked ==
  ASSUME UpInv, unpacked, ws_client' = ws_client
  PROVE  UpInv'
<1>1. ~Shaking
  BY DEF UpInv, Handshake, unpacked
<1>2. CommandTypes /\ Commands /\ \A i \in 1 .. Len(handled) : handled[i] = i
  BY <1>1 DEF UpInv
<1>3. /\ UNCHANGED <<cmds, up, handled, recv_buf, long_pkg_size, socket_type, is_ws_shake>>
      /\ ~unpacking' /\ unpacking' \in BOOLEAN
  BY DEF unpacked, wire
<1>4. /\ First' = First /\ UpPackages' = UpPackages /\ Shaking' = Shaking /\ recved' = recved
      /\ CommandTypes'
  BY <1>2, <1>3 DEF First, UpPackages, Shaking, recved, CommandTypes
<1>5. ASSUME status' = "open", recved # 0
      PROVE  recved < Len(UpPackages[First])
  <2>1. recved \in Nat
    BY <1>1, Waiting
  <2>2. ~read_header.ok \/ ~complete(read_header)
    BY <2>1, <1>5 DEF unpacked, shut
  <2>3. \/ ~read_header.ok /\ recved < Len(UpPackages[First])
        \/ read_header.ok /\ read_header.pkg_size = Len(UpPackages[First])
    BY <1>1, <1>5, Waiting
  <2>4. First \in 1 .. Len(cmds)
    BY <1>1, <1>5, Waiting
  <2>5. Len(UpPackages[First]) \in Nat
    BY <2>4, <1>2, UpPackageBytes, LenProperties
  <2> QED
    BY <2>1, <2>2, <2>3, <2>5 DEF complete
<1>6. Commands'
  BY <1>2, <1>3, <1>4, <1>5 DEF Commands
<1> QED
  BY <1>1, <1>2, <1>3, <1>4, <1>6 DEF UpInv

\* A byte as it is, and under the mask.
Plain(k, i) == <<k, i, FALSE>>
Masked(k, i) == <<k, i, TRUE>>

\* The bytes of a message behind its header.
Body(k, head, len) == [i \in 1 .. len |-> <<k, head + i, FALSE>>]

LEMMA PlainByte ==
  ASSUME NEW k \in Nat, NEW i \in Nat
  PROVE  Plain(k, i) \in Byte
BY Zenon DEF Byte, Plain

\* The bytes behind a header are the message.
LEMMA BodyBytes ==
  ASSUME NEW k \in Nat, NEW len \in Nat, NEW head \in Nat, NEW data,
         \A i \in 1 .. head + len : i > head => data[i] = Plain(k, i)
  PROVE  SubSeq(data, head + 1, head + len) = Body(k, head, len)
<1> DEFINE a == SubSeq(data, head + 1, head + len)
           b == [i \in 1 .. len |-> Plain(k, head + i)]
<1>1. b \in Seq(Byte) /\ Len(b) = len
  <2>0. \A i \in 1 .. len : head + i \in Nat
    OBVIOUS
  <2>1. \A i \in 1 .. len : Plain(k, head + i) \in Byte
    BY <2>0, PlainByte, Zenon
  <2>2. b \in [1 .. len -> Byte]
    BY <2>1
  <2> HIDE DEF b
  <2> QED
    BY <2>2
<1>2. \A i \in head + 1 .. head + len : data[i] = Plain(k, i) /\ data[i] \in Byte
  <2> SUFFICES ASSUME NEW i \in head + 1 .. head + len
               PROVE  data[i] = Plain(k, i) /\ data[i] \in Byte
    OBVIOUS
  <2>1. i \in 1 .. head + len /\ i > head /\ i \in Nat
    OBVIOUS
  <2>2. data[i] = Plain(k, i)
    BY <2>1
  <2>3. Plain(k, i) \in Byte
    BY <2>1, PlainByte, Zenon
  <2> QED
    BY <2>2, <2>3, Zenon
<1>3. /\ a \in Seq(Byte)
      /\ Len(a) = IF head + 1 <= head + len THEN head + len - (head + 1) + 1 ELSE 0
      /\ \A i \in 1 .. head + len - (head + 1) + 1 : a[i] = data[head + 1 + i - 1]
  <2>0. head + 1 \in Int /\ head + len \in Int
    OBVIOUS
  <2>1. head + 1 \in Int /\ head + len \in Int /\ \A i \in head + 1 .. head + len : data[i] \in Byte
    BY <1>2, <2>0, Zenon
  <2> QED
    BY ONLY <2>1, SubSeqProperties
<1> HIDE DEF a
<1>4. Len(a) = len
  BY <1>3
<1>5. ASSUME NEW i \in 1 .. Len(a)
      PROVE  a[i] = b[i]
  <2>1. /\ i \in 1 .. len /\ i \in 1 .. head + len - (head + 1) + 1
        /\ head + 1 + i - 1 = head + i /\ head + i \in head + 1 .. head + len
    BY <1>4
  <2>2. a[i] = data[head + i]
    BY <2>1, <1>3
  <2>3. data[head + i] = Plain(k, head + i)
    BY <2>1, <1>2
  <2> QED
    BY <2>1, <2>2, <2>3
<1> HIDE DEF b
<1>6. a = b
  BY <1>1, <1>3, <1>4, <1>5, SeqEqual
<1> QED
  BY <1>6, Zenon DEF a, b, Body, Plain

LEMMA Unmasked ==
  ASSUME NEW k \in Nat, NEW data \in Seq(Byte), NEW from \in Nat, NEW to \in Nat,
         NEW i \in from .. to, i \in 1 .. Len(data), data[i] = Masked(k, i)
  PROVE  parser_ws_recv_data(data, from, to)[i] = Plain(k, i)
<1>1. i \in DOMAIN data
  BY LenProperties
<1>2. parser_ws_recv_data(data, from, to)[i] = <<data[i][1], data[i][2], ~data[i][3]>>
  BY <1>1, Zenon DEF parser_ws_recv_data
<1>3. data[i][1] = k /\ data[i][2] = i /\ data[i][3] = TRUE
  BY DEF Masked
<1>4. (~TRUE) = FALSE
  OBVIOUS
<1> QED
  BY <1>2, <1>3, <1>4, Zenon DEF Plain

\* These bytes are no other message.
LEMMA MessageFound ==
  ASSUME NEW lens, NEW head \in Nat, NEW k \in DOMAIN lens, lens[k] \in Nat \ {0}
  PROVE  Message([i \in 1 .. lens[k] |-> <<k, head + i, FALSE>>], head, lens) = k
<1> DEFINE bytes(j) == [i \in 1 .. lens[j] |-> <<j, head + i, FALSE>>]
           body == bytes(k)
<1>0. 1 \in 1 .. lens[k]
  OBVIOUS
<1>1. body[1] = <<k, head + 1, FALSE>> /\ 1 \in DOMAIN body
  BY <1>0, Zenon
<1>2. ASSUME NEW j \in DOMAIN lens, body = bytes(j)
      PROVE  j = k
  <2>1. 1 \in DOMAIN bytes(j)
    BY <1>1, <1>2
  <2>2. bytes(j)[1] = <<j, head + 1, FALSE>>
    BY <2>1
  <2>3. <<j, head + 1, FALSE>> = <<k, head + 1, FALSE>>
    BY <2>2, <1>1, <1>2
  <2> QED
    BY <2>3
<1>3. Message(body, head, lens) = CHOOSE j \in DOMAIN lens : body = bytes(j)
  BY Zenon DEF Message
<1> HIDE DEF bytes, body
<1>4. \E j \in DOMAIN lens : body = bytes(j)
  BY DEF body
<1>5. (CHOOSE j \in DOMAIN lens : body = bytes(j)) = k
  BY <1>2, <1>4
<1> QED
  BY <1>3, <1>5 DEF body, bytes

\* What the server's loop cuts off is the next command.
LEMMA NextCommand ==
  ASSUME CommandTypes, Commands, unpack
  PROVE  /\ First \in 1 .. Len(cmds) /\ handled' = Append(handled, First)
         /\ read_header.pkg_size = Len(UpPackages[First]) /\ complete(read_header)
<1> DEFINE k == First
           pkg == UpPackages[k]
           len == cmds[k].len
           head == HeadSize(k)
           header == read_header
           from == header.head_size + 1
           data == IF socket_type = "WS_SOCKET"
                   THEN parser_ws_recv_data(recv_buf, from, header.pkg_size) ELSE recv_buf
           body == SubSeq(data, from, header.pkg_size)
<1>1. /\ header.ok /\ ~is_empty(header) /\ complete(header)
      /\ handled' = Append(handled, Message(body, header.head_size, cmd_lens))
  BY Zenon DEF unpack, on_recv_client_cmd
<1>2. recved \in Nat /\ recved = Len(recv_buf) /\ recv_buf \in Seq(Byte)
  BY LenProperties DEF CommandTypes, recved
<1>3. recved # 0
  BY <1>1 DEF read_header, NoHeader
<1>4. /\ k \in 1 .. Len(cmds) /\ pkg \in Seq(Byte)
      /\ \A i \in 1 .. Len(pkg) : i <= recved => recv_buf[i] = pkg[i]
      /\ header.pkg_size = Len(pkg) /\ header.head_size = head
  BY <1>1, <1>3, Received, HeaderRead DEF Commands
<1>5. /\ head \in Nat \ {0, 1} /\ len \in Nat /\ Len(pkg) = head + len
      /\ \A i \in 1 .. head + len :
           pkg[i] = <<k, i, socket_type = "WS_SOCKET" /\ i > head>>
  BY <1>4, UpPackageBytes
<1>6. cmd_lens[k] = len /\ k \in DOMAIN cmd_lens
  BY <1>4, LenProperties DEF cmd_lens, CommandTypes
<1>7. len \in Nat \ {0}
  <2>1. CASE socket_type = "TCP_SOCKET"
    <3>1. header.pkg_size > header.head_size
      BY <2>1, <1>1, <1>4, <1>5 DEF is_empty
    <3> QED
      BY <3>1, <1>4, <1>5
  <2>2. CASE socket_type = "WS_SOCKET"
    <3>1. k \in DOMAIN cmds
      BY <1>4, LenProperties DEF CommandTypes
    <3>2. len \in CommandLens
      BY <2>2, <3>1 DEF CommandTypes
    <3> QED
      BY <3>2, TransportConstantsOK
  <2> QED
    BY <2>1, <2>2 DEF CommandTypes
<1>8. recved >= head + len
  BY <1>1, <1>4, <1>5 DEF complete
<1>9. from = head + 1 /\ header.pkg_size = head + len
  BY <1>4, <1>5
<1>10. k \in Nat
  BY <1>4
<1> HIDE DEF k, pkg, len, head, header, from, data
<1>11. ASSUME NEW i \in 1 .. head + len, i > head
       PROVE  data[i] = Plain(k, i)
  <2>1. i <= recved /\ i \in 1 .. Len(recv_buf) /\ i \in from .. header.pkg_size
    BY <1>2, <1>5, <1>8, <1>9, <1>11
  <2>2. recv_buf[i] = pkg[i]
    BY <2>1, <1>4, <1>5
  <2>3. pkg[i] = <<k, i, socket_type = "WS_SOCKET" /\ i > head>>
    BY <1>5, Zenon
  <2>4. CASE socket_type = "WS_SOCKET"
    <3>1. (socket_type = "WS_SOCKET" /\ i > head) = TRUE
      BY <2>4, <1>11
    <3>2. recv_buf[i] = Masked(k, i)
      BY <2>2, <2>3, <3>1, Zenon DEF Plain, Masked
    <3>3. from \in Nat /\ header.pkg_size \in Nat
      BY <1>5, <1>9
    <3>4. parser_ws_recv_data(recv_buf, from, header.pkg_size)[i] = Plain(k, i)
      <4> DEFINE to == header.pkg_size
      <4>1. from \in Nat /\ to \in Nat /\ i \in from .. to /\ i \in 1 .. Len(recv_buf)
        BY <2>1, <3>3
      <4> HIDE DEF to
      <4>2. parser_ws_recv_data(recv_buf, from, to)[i] = Plain(k, i)
        BY ONLY <4>1, <3>2, <1>2, <1>10, Unmasked
      <4> QED
        BY <4>2 DEF to
    <3> QED
      BY <3>4, <2>4 DEF data
  <2>5. CASE socket_type = "TCP_SOCKET"
    <3>1. (socket_type = "WS_SOCKET" /\ i > head) = FALSE
      BY <2>5
    <3>2. recv_buf[i] = Plain(k, i)
      BY <2>2, <2>3, <3>1, Zenon DEF Plain, Masked
    <3> QED
      BY <3>2, <2>5 DEF data
  <2> QED
    BY <2>4, <2>5 DEF CommandTypes
<1>12. body = [i \in 1 .. len |-> <<k, head + i, FALSE>>]
  <2>1. len \in Nat /\ head \in Nat
    BY <1>5
  <2>3. \A i \in 1 .. head + len : i > head => data[i] = Plain(k, i)
    BY <1>11
  <2>2. SubSeq(data, head + 1, head + len) = Body(k, head, len)
    BY <2>1, <2>3, <1>10, BodyBytes
  <2> QED
    BY <2>2, <1>9, Zenon DEF Body
<1>13. Message(body, head, cmd_lens) = k
  BY <1>5, <1>6, <1>7, <1>12, MessageFound
<1> QED
  BY <1>1, <1>4, <1>13 DEF k, pkg, header

LEMMA UpUnpacks ==
  ASSUME UpInv, unpack, ws_client' = ws_client
  PROVE  UpInv'
<1>1. ~Shaking
  BY DEF UpInv, Handshake, unpack
<1>2. CommandTypes /\ Commands /\ \A i \in 1 .. Len(handled) : handled[i] = i
  BY <1>1 DEF UpInv
<1>3. /\ First \in 1 .. Len(cmds) /\ handled' = Append(handled, First)
      /\ read_header.pkg_size = Len(UpPackages[First]) /\ complete(read_header)
  BY <1>2, NextCommand
<1> DEFINE size == Len(UpPackages[First])
<1>4. UpPackages[First] \in Seq(Byte) /\ size \in Nat
  BY <1>2, <1>3, UpPackageBytes, LenProperties
<1>5. /\ recv_buf' = shifted(size) /\ long_pkg_size' = long_freed(recved - size)
      /\ UNCHANGED <<cmds, up, socket_type, is_ws_shake, unpacking>> /\ unpacking
  BY <1>3, Zenon DEF unpack
<1>6. recved \in Nat /\ recved = Len(recv_buf) /\ recv_buf \in Seq(Byte) /\ up \in Seq(Byte)
  BY <1>1, Waiting
<1>7. size \in 0 .. recved
  BY <1>3, <1>4, <1>6 DEF complete
<1>8. /\ recv_buf' \in Seq(Byte) /\ recved' = recved - size
      /\ recv_buf' \o up = SubSeq(recv_buf \o up, size + 1, Len(recv_buf \o up))
  <2>1. recv_buf' = SubSeq(recv_buf, size + 1, Len(recv_buf)) /\ size \in 0 .. Len(recv_buf)
    BY <1>5, <1>6, <1>7 DEF shifted
  <2> HIDE DEF size
  <2>2. /\ recv_buf' \in Seq(Byte) /\ Len(recv_buf') = Len(recv_buf) - size
        /\ recv_buf' \o up = SubSeq(recv_buf \o up, size + 1, Len(recv_buf \o up))
    BY <2>1, <1>6, CutOff
  <2> QED
    BY <2>2 DEF recved
<1>9. handled \in Seq(Nat) /\ Len(handled) \in Nat /\ First = Len(handled) + 1 /\ Len(cmds) \in Nat
  BY <1>2, LenProperties DEF CommandTypes, First
<1>10. /\ handled' \in Seq(Nat) /\ Len(handled') = First /\ First' = First + 1
       /\ \A i \in 1 .. Len(handled') : handled'[i] = i
  <2>1. handled' \in Seq(Nat) /\ Len(handled') = Len(handled) + 1
    BY <1>3, <1>9, AppendProperties
  <2>2. \A i \in 1 .. Len(handled) : handled'[i] = handled[i]
    BY <1>3, <1>9, AppendProperties
  <2>3. handled'[Len(handled) + 1] = First
    BY <1>3, <1>9, AppendProperties
  <2>4. Len(handled') = First /\ First' = First + 1
    BY <2>1, <1>9 DEF First
  <2>5. ASSUME NEW i \in 1 .. First
        PROVE  handled'[i] = i
    <3>1. CASE i \in 1 .. Len(handled)
      BY <3>1, <2>2, <1>2
    <3>2. CASE i = Len(handled) + 1
      BY <3>2, <2>3, <1>9
    <3> QED
      BY <3>1, <3>2, <1>9
  <2> QED
    BY <2>1, <2>4, <2>5
<1>11. UpPackages' = UpPackages /\ Shaking' = Shaking
  BY <1>5 DEF UpPackages, Shaking
<1>12. Stream(recv_buf' \o up, First + 1, Len(cmds), UpPackages)
  <2>1. \A k \in First .. Len(cmds) : UpPackages[k] \in Seq(Byte) /\ UpPackages[k] # <<>>
    BY <1>2, <1>3, UpPackageBytes
  <2>2. recv_buf \o up \in Seq(Byte)
    BY <1>6, ConcatProperties
  <2>3. Stream(recv_buf \o up, First, Len(cmds), UpPackages) /\ First \in Nat /\ First <= Len(cmds)
    BY <1>2, <1>3 DEF Commands
  <2> QED
    BY <2>1, <2>2, <2>3, <1>8, <1>9, StreamTail
<1> HIDE DEF size
<1>13. /\ long_pkg_size' = 0 /\ recved' <= RECV_LEN
  <2>1. long_pkg_size \in Nat /\ RECV_LEN \in Nat
    BY <1>2, NetbusConstantsOK DEF CommandTypes
  <2>2. CASE long_pkg_size = 0
    BY <2>1, <2>2, <1>2, <1>4, <1>5, <1>6, <1>7, <1>8 DEF Commands, long_freed
  <2>3. CASE long_pkg_size # 0
    <3>1. long_pkg_size = size /\ recved <= long_pkg_size
      BY <2>1, <2>3, <1>2, <1>6 DEF Commands, size
    <3>2. recved - size = 0
      BY <3>1, <1>4, <1>6, <1>7
    <3> QED
      BY <3>2, <2>1, <1>5, <1>8 DEF long_freed
  <2> QED
    BY <2>2, <2>3
<1>14. CommandTypes'
  BY <1>2, <1>5, <1>8, <1>10, <1>13 DEF CommandTypes
<1>15. Commands'
  BY <1>2, <1>5, <1>10, <1>11, <1>12, <1>13 DEF Commands
<1> QED
  BY <1>1, <1>10, <1>11, <1>14, <1>15 DEF UpInv

-----------------------------------------------------------------------------
(* Every step, and what it is to Channel *)

UpMove ==
  \/ UNCHANGED <<cmds, handled>>
  \/ \E cmd : cmds' = Append(cmds, cmd) /\ handled' = handled
  \/ First \in 1 .. Len(cmds) /\ handled' = Append(handled, First) /\ cmds' = cmds

LEMMA ServerUp ==
  ASSUME UpInv, loop
  PROVE  UpInv' /\ UpMove
<1>0. NetbusNext /\ UNCHANGED clientVars /\ ws_client' = ws_client
  BY DEF loop
<1> USE DEF upVars, UpMove
<1>1. CASE after_write
  <2>1. ~Shaking
    BY <1>1 DEF UpInv, Handshake, after_write
  <2>2. UNCHANGED upVars /\ status' = status
    BY <1>1 DEF after_write
  <2> QED
    BY <2>1, <2>2, <1>0, UpSame
<1>2. CASE destroy
  <2>1. UNCHANGED upVars /\ UNCHANGED <<answers, down, writes>> /\ status' # "open"
    BY <1>2 DEF destroy, wire
  <2> QED
    BY <2>1, <1>0, UpSame
<1>3. CASE read_end
  <2>1. UNCHANGED upVars /\ UNCHANGED <<answers, down, writes>> /\ status' # "open"
    BY <1>3 DEF read_end, wire, shut
  <2> QED
    BY <2>1, <1>0, UpSame
<1>4. ASSUME NEW n \in 1 .. Len(up), after_read(n)
      PROVE  UpInv' /\ UpMove
  <2>1. n \in Nat
    BY LenProperties DEF UpInv, CommandTypes
  <2>2. UNCHANGED <<cmds, handled>>
    BY <1>4 DEF after_read
  <2> QED
    BY <2>1, <2>2, <1>0, <1>4, UpShakes, UpReads
<1>5. CASE unpack
  <2>1. ~Shaking /\ CommandTypes
    BY <1>5 DEF UpInv, Handshake, unpack
  <2>2. First \in 1 .. Len(cmds) /\ handled' = Append(handled, First)
    BY <2>1, <1>5, NextCommand DEF UpInv
  <2>3. cmds' = cmds
    BY <1>5 DEF unpack
  <2> QED
    BY <2>2, <2>3, <1>0, <1>5, UpUnpacks
<1>6. CASE unpacked
  <2>1. UNCHANGED <<cmds, handled>>
    BY <1>6 DEF unpacked, wire
  <2> QED
    BY <2>1, <1>0, <1>6, UpUnpacked
<1> QED
  BY <1>0, <1>1, <1>2, <1>3, <1>4, <1>5, <1>6 DEF NetbusNext

LEMMA ClientUp ==
  ASSUME UpInv, socket_type = "TCP_SOCKET", client \/ client_closes
  PROVE  UpInv' /\ UpMove
<1>1. UNCHANGED <<cmds, up, netbusVars, ws_client>>
  <2>1. CASE client
    BY <2>1 DEF client, ClientNext, on_connected_start, on_connected, thread_begin, thread_receive,
                thread_raises, on_tcp_data, cut, Update, wire
  <2>2. CASE client_closes
    BY <2>2 DEF client_closes, close_client
  <2> QED
    BY <2>1, <2>2
<1>2. ~Shaking
  BY DEF Shaking
<1> QED
  BY <1>1, <1>2, UpSame DEF netbusVars, upVars, UpMove

LEMMA SendUp ==
  ASSUME UpInv, tcp_send \/ ws_send
  PROVE  UpInv' /\ UpMove
<1>1. CASE tcp_send
  <2>1. PICK len \in CommandLens \cup {0}, kind \in Kinds : send_protobuf_cmd(len, kind)
    BY <1>1 DEF tcp_send, Kinds
  <2>2. /\ socket_type = "TCP_SOCKET" /\ UNCHANGED <<netbusVars, ws_client>>
        /\ len <= WIDTH - 1 - tp_head_size
        /\ cmds' = Append(cmds, [len |-> len, kind |-> kind])
        /\ up' = up \o package(Len(cmds) + 1, len)
    BY <1>1, <2>1 DEF tcp_send, send_protobuf_cmd
  <2>3. len \in Nat /\ len + tp_head_size < WIDTH
    BY <2>2, TransportConstantsOK, ProtocolConstantsOK DEF tp_head_size
  <2>4. ~Shaking
    BY <2>2 DEF Shaking
  <2>5. UpInv'
    BY <2>2, <2>3, <2>4, UpSend DEF netbusVars
  <2> QED
    BY <2>2, <2>5 DEF UpMove, netbusVars
<1>2. CASE ws_send
  <2>1. PICK len \in CommandLens, kind \in {"cmd", "close"} :
          /\ cmds' = Append(cmds, [len |-> len, kind |-> kind])
          /\ up' = up \o ws_frame(Len(cmds) + 1, len)
    BY <1>2 DEF ws_send
  <2>2. ws_client = "accepted" /\ UNCHANGED <<netbusVars, ws_client>>
    BY <1>2 DEF ws_send
  <2>3. len \in Nat /\ kind \in Kinds
    BY TransportConstantsOK DEF Kinds
  <2>4. ~Shaking
    BY <2>2 DEF UpInv, Handshake
  <2>5. socket_type = "WS_SOCKET"
    BY <2>2, <2>4 DEF UpInv, Commands
  <2>6. UpInv'
    BY <2>1, <2>2, <2>3, <2>4, <2>5, UpSend DEF netbusVars
  <2> QED
    BY <2>1, <2>2, <2>6 DEF UpMove, netbusVars
<1> QED
  BY <1>1, <1>2

LEMMA UpStep ==
  ASSUME UpInv, [Next]_vars
  PROVE  UpInv' /\ UpMove
<1>1. CASE loop
  BY <1>1, ServerUp
<1>2. CASE socket_type = "TCP_SOCKET" /\ (client \/ client_closes)
  BY <1>2, ClientUp
<1>3. CASE tcp_send \/ ws_send
  BY <1>3, SendUp
<1>4. CASE ws_ask
  <2>1. /\ socket_type = "WS_SOCKET" /\ ws_client = "new" /\ ws_client' = "asking"
        /\ up' = [i \in 1 .. SHAKE |-> <<0, i, FALSE>>]
        /\ UNCHANGED <<cmds, answers, down, netbusVars>>
    BY <1>4 DEF ws_ask
  <2>2. Shaking /\ Handshake /\ CommandTypes
    BY <2>1 DEF UpInv, Commands
  <2>3. up' \in Seq(Byte) /\ Len(up') = SHAKE
    <3>1. \A i \in 1 .. SHAKE : <<0, i, FALSE>> \in Byte
      <4>1. \A i \in 1 .. SHAKE : i \in Nat
        OBVIOUS
      <4> QED
        BY <4>1, PlainByte, Zenon DEF Plain
    <3> DEFINE bytes == [i \in 1 .. SHAKE |-> <<0, i, FALSE>>]
    <3>2. bytes \in [1 .. SHAKE -> Byte]
      BY <3>1, Zenon
    <3> HIDE DEF bytes
    <3>3. bytes \in Seq(Byte) /\ Len(bytes) = SHAKE
      BY <3>2, NetbusConstantsOK
    <3> QED
      BY <2>1, <3>3, Zenon DEF bytes
  <2>4. recved' = recved /\ recved = 0
    BY <2>1, <2>2, EmptySeq DEF Handshake, netbusVars, recved
  <2>6. SHAKE \in Nat \ {0}
    BY NetbusConstantsOK
  <2>7. CommandTypes' /\ Shaking'
    BY <2>1, <2>2, <2>3 DEF CommandTypes, Shaking, netbusVars
  <2>5. Handshake' /\ CommandTypes' /\ Shaking'
    BY <2>1, <2>2, <2>3, <2>4, <2>6, <2>7 DEF Handshake, netbusVars
  <2> QED
    BY <2>1, <2>5 DEF UpInv, UpMove, netbusVars
<1>5. CASE ws_accepted
  <2>1. ~Shaking
    <3>1. Len(down) >= Len(ws_accept)
      BY <1>5 DEF ws_accepted
    <3>2. Len(ws_accept) = 1
      BY DEF ws_accept
    <3>3. down # <<>>
      BY <3>1, <3>2, EmptySeq
    <3> QED
      BY <3>3 DEF UpInv, Handshake
  <2>2. /\ ws_client = "asking" /\ ws_client' = "accepted"
        /\ UNCHANGED <<cmds, up, netbusVars>>
    BY <1>5 DEF ws_accepted
  <2> QED
    BY <2>1, <2>2, UpSame DEF upVars, netbusVars, UpMove
<1>6. CASE ws_hangup
  BY <1>6, UpSame DEF ws_hangup, upVars, netbusVars, UpMove
<1>7. CASE UNCHANGED vars
  BY <1>7, UpSame DEF vars, wire, upVars, netbusVars, UpMove
<1> QED
  BY <1>1, <1>2, <1>3, <1>4, <1>5, <1>6, <1>7 DEF Next

LEMMA UpRefines ==
  ASSUME UpInv, UpMove
  PROVE  [Up!Next]_(Up!vars)
<1>1. /\ cmds \in Seq([len : Nat, kind : Kinds]) /\ handled \in Seq(Nat)
      /\ \A i \in 1 .. Len(handled) : handled[i] = i
  BY DEF UpInv, CommandTypes
<1>2. CASE UNCHANGED <<cmds, handled>>
  BY <1>2 DEF Up!vars
<1>3. ASSUME NEW cmd, cmds' = Append(cmds, cmd), handled' = handled
      PROVE  Up!Next
  BY <1>1, <1>3 DEF Up!Next, Up!Send
<1>4. CASE First \in 1 .. Len(cmds) /\ handled' = Append(handled, First) /\ cmds' = cmds
  <2>1. First = Len(handled) + 1 /\ Len(handled) \in Nat
    BY <1>1, LenProperties DEF First
  <2>2. /\ handled' \in Seq(Nat) /\ Len(handled') = First
        /\ \A i \in 1 .. Len(handled) : handled'[i] = handled[i]
        /\ handled'[Len(handled) + 1] = First
    BY <1>1, <1>4, <2>1, AppendProperties
  <2>3. DOMAIN handled' = 1 .. First /\ handled' \in [1 .. First -> Nat]
    <3>1. DOMAIN handled' = 1 .. Len(handled') /\ handled' \in [1 .. Len(handled') -> Nat]
      BY ONLY <2>2, LenProperties
    <3>2. 1 .. Len(handled') = 1 .. First
      BY <2>2
    <3> QED
      BY ONLY <3>1, <3>2
  <2>4. \A i \in 1 .. First : handled'[i] = i
    BY <1>1, <2>1, <2>2
  <2>5. handled' = [i \in 1 .. First |-> i]
    BY <2>3, <2>4
  <2>6. Up!Receive(First)
    BY <1>4, <2>1, <2>5 DEF Up!Receive
  <2> QED
    BY <1>4, <2>6 DEF Up!Next
<1> QED
  BY <1>2, <1>3, <1>4 DEF UpMove

-----------------------------------------------------------------------------
(* Theorems about what the server receives *)

\* The commands reach the server's services as Channel says, whatever pieces their bytes
\* arrive in and however long they are (on_recv_tcp_data, on_recv_ws_data).
THEOREM CommandsInOrder == Spec => UpChannel
<1>1. UpInv /\ [Next]_vars => UpInv' /\ [Up!Next]_(Up!vars)
  BY UpStep, UpRefines
<1>2. Init => Up!Init
  BY EmptySeq DEF Init, WireInit, NetbusInit, Up!Init
<1> QED
  BY <1>1, <1>2, UpInit, PTL DEF Spec, UpChannel, Up!Spec

\* A read is never offered an empty buffer, nor one that is longer than long_pkg, which
\* holds the beginning of the package it was allocated for (uv_alloc_buf).
THEOREM RoomToRead == Spec => []ReadsHaveRoom
<1>1. UpInv => ReadsHaveRoom
  <2> SUFFICES ASSUME UpInv, status = "open", ~unpacking
               PROVE  /\ Offered > 0
                      /\ long_pkg_size # 0 => recved \in RECV_LEN .. long_pkg_size - 1
    BY DEF ReadsHaveRoom
  <2>1. RECV_LEN \in Nat \ {0, 1} /\ SHAKE <= RECV_LEN /\ SHAKE \in Nat
    BY NetbusConstantsOK
  <2>2. CASE Shaking
    <3>1. recved < SHAKE /\ long_pkg_size = 0 /\ recved \in Nat
      BY <2>2, LenProperties DEF UpInv, Handshake, CommandTypes, recved
    <3> QED
      BY <2>1, <3>1 DEF Offered
  <2>3. CASE ~Shaking
    <3>1. CommandTypes /\ Commands
      BY <2>3 DEF UpInv
    <3>2. /\ recved \in Nat
          /\ recved # 0 =>
               /\ First \in 1 .. Len(cmds)
               /\ \/ recved < RECV_LEN
                  \/ read_header.pkg_size = Len(UpPackages[First])
      BY <2>3, Waiting
    <3>3. recved # 0 => Len(UpPackages[First]) \in Nat
      BY <3>1, <3>2, UpPackageBytes, LenProperties
    <3>4. /\ recved = 0 \/ recved < Len(UpPackages[First])
          /\ long_pkg_size \in Nat
          /\ long_pkg_size = 0 => recved <= RECV_LEN
          /\ long_pkg_size # 0 => /\ recved \in RECV_LEN .. long_pkg_size
                                  /\ long_pkg_size = Len(UpPackages[First])
      BY <3>1 DEF Commands, CommandTypes
    <3>5. long_pkg_size # 0 => recved \in RECV_LEN .. long_pkg_size - 1
      BY <2>1, <3>2, <3>3, <3>4
    <3>6. CASE recved < RECV_LEN
      BY <2>1, <3>2, <3>5, <3>6 DEF Offered
    <3>7. CASE ~(recved < RECV_LEN)
      <4>1. alloc_long = Len(UpPackages[First])
        BY <2>1, <3>2, <3>4, <3>7 DEF alloc_long
      <4> QED
        BY <2>1, <3>2, <3>3, <3>4, <3>5, <3>7, <4>1 DEF Offered
    <3> QED
      BY <3>6, <3>7
  <2> QED
    BY <2>2, <2>3
<1>2. UpInv /\ [Next]_vars => UpInv'
  BY UpStep
<1> QED
  BY <1>1, <1>2, UpInit, PTL DEF Spec

-----------------------------------------------------------------------------
(* The blocks of the cache *)

BlockNumbers == 1 .. WBUF_CACHE_CAPCITY

Write == [bytes : Seq(Byte), block : 0 .. WBUF_CACHE_CAPCITY]

WriteTypes ==
  /\ writes \in Seq(Write) /\ free_list \in Seq(BlockNumbers)
  /\ answers \in Seq(AnswerLens) /\ down \in Seq(Byte)
  /\ status \in {"open", "shutdown", "closed"}

\* The blocks of a free list, and those of the pending writes.
Blocks(list) == {list[b] : b \in DOMAIN list}
Once(list) == \A a, b \in DOMAIN list : list[a] = list[b] => a = b

Held(queue) == {queue[w].block : w \in DOMAIN queue} \ {Heap}
HeldOnce(queue) ==
  \A v, w \in DOMAIN queue : queue[v].block = queue[w].block /\ queue[v].block # Heap => v = w

Accounted(queue, list, open) ==
  /\ Once(list) /\ HeldOnce(queue)
  /\ Held(queue) \cap Blocks(list) = {}
  /\ open => Held(queue) \cup Blocks(list) = BlockNumbers

BlockInv == WriteTypes /\ Accounted(writes, free_list, status = "open")

LEMMA AllocBlock ==
  ASSUME NEW list \in Seq(BlockNumbers), Once(list), NEW size
  PROVE  LET got == cache_alloc(list, size)
         IN /\ got.rest \in Seq(BlockNumbers) /\ Once(got.rest)
            /\ got.mem = Heap \/ got.mem \in Blocks(list)
            /\ Blocks(got.rest) = Blocks(list) \ {got.mem}
<1> DEFINE got == cache_alloc(list, size)
<1>1. \A b \in DOMAIN list : list[b] # Heap
  <2> SUFFICES ASSUME NEW b \in DOMAIN list
               PROVE  list[b] # Heap
    OBVIOUS
  <2>1. b \in 1 .. Len(list)
    BY LenProperties
  <2>2. list[b] \in BlockNumbers
    BY <2>1, ElementOfSeq
  <2> QED
    BY <2>2 DEF BlockNumbers, Heap
<1>2. CASE size <= CMD_CACHE_SIZE /\ list # <<>>
  <2>1. got.mem = Head(list) /\ got.rest = Tail(list)
    BY <1>2 DEF cache_alloc
  <2> DEFINE tail == Tail(list)
             n == Len(list)
  <2>2. n \in Nat \ {0} /\ DOMAIN list = 1 .. n
    BY <1>2, EmptySeq, LenProperties
  <2>3. /\ tail \in Seq(BlockNumbers) /\ Len(tail) = n - 1 /\ DOMAIN tail = 1 .. n - 1
        /\ \A b \in 1 .. n - 1 : tail[b] = list[b + 1]
    BY <1>2, HeadTailProperties, LenProperties
  <2>4. Head(list) = list[1]
    BY <1>2
  <2> HIDE DEF tail, n
  <2>5. Once(tail)
    <3> SUFFICES ASSUME NEW a \in 1 .. n - 1, NEW b \in 1 .. n - 1, tail[a] = tail[b]
                 PROVE  a = b
      BY <2>3 DEF Once
    <3>1. a + 1 \in DOMAIN list /\ b + 1 \in DOMAIN list /\ list[a + 1] = list[b + 1]
      BY <2>2, <2>3
    <3>2. a + 1 = b + 1
      BY <3>1, Zenon DEF Once
    <3> QED
      BY <3>2, <2>2
  <2>6. Head(list) \in Blocks(list)
    BY <2>2, <2>4 DEF Blocks
  <2>7. ASSUME NEW m \in Blocks(tail)
        PROVE  m \in Blocks(list) \ {Head(list)}
    <3>1. PICK b \in 1 .. n - 1 : m = list[b + 1]
      BY <2>3 DEF Blocks
    <3>2. b + 1 \in DOMAIN list /\ b + 1 # 1 /\ 1 \in DOMAIN list
      BY <2>2
    <3> QED
      BY <3>1, <3>2, <2>4 DEF Blocks, Once
  <2>8. ASSUME NEW m \in Blocks(list), m # Head(list)
        PROVE  m \in Blocks(tail)
    <3>1. PICK b \in DOMAIN list : m = list[b]
      BY DEF Blocks
    <3>2. b # 1
      BY <3>1, <2>4, <2>8
    <3>3. b - 1 \in 1 .. n - 1 /\ (b - 1) + 1 = b
      BY <3>2, <2>2
    <3>4. tail[b - 1] = m /\ b - 1 \in DOMAIN tail
      BY <3>1, <3>3, <2>3
    <3> QED
      BY <3>4 DEF Blocks
  <2>9. Blocks(tail) = Blocks(list) \ {Head(list)}
    BY <2>7, <2>8
  <2> QED
    BY <2>1, <2>3, <2>5, <2>6, <2>9 DEF tail
<1>3. CASE ~(size <= CMD_CACHE_SIZE /\ list # <<>>)
  <2>1. got.mem = Heap /\ got.rest = list
    BY <1>3 DEF cache_alloc
  <2>2. Blocks(list) \ {Heap} = Blocks(list)
    BY <1>1 DEF Blocks
  <2> QED
    BY <2>1, <2>2
<1> QED
  BY <1>2, <1>3

LEMMA FreeBlock ==
  ASSUME NEW list \in Seq(BlockNumbers), Once(list), NEW mem, mem \in BlockNumbers \/ mem = Heap,
         mem \notin Blocks(list)
  PROVE  /\ cache_free(list, mem) \in Seq(BlockNumbers) /\ Once(cache_free(list, mem))
         /\ Blocks(cache_free(list, mem)) = Blocks(list) \cup ({mem} \ {Heap})
<1>1. CASE mem = Heap
  BY <1>1 DEF cache_free
<1>2. CASE mem # Heap
  <2> DEFINE longer == <<mem>> \o list
             n == Len(list)
  <2>1. cache_free(list, mem) = longer
    BY <1>2 DEF cache_free
  <2>2. n \in Nat /\ DOMAIN list = 1 .. n
    BY LenProperties
  <2>3. <<mem>> \in Seq(BlockNumbers) /\ Len(<<mem>>) = 1 /\ <<mem>>[1] = mem
    BY <1>2
  <2>4. /\ longer \in Seq(BlockNumbers) /\ Len(longer) = n + 1 /\ DOMAIN longer = 1 .. n + 1
        /\ longer[1] = mem /\ \A b \in 1 .. n : longer[b + 1] = list[b]
    BY <2>2, <2>3, ConcatProperties, LenProperties
  <2> HIDE DEF longer, n
  <2>5. Once(longer)
    <3> SUFFICES ASSUME NEW a \in 1 .. n + 1, NEW b \in 1 .. n + 1, longer[a] = longer[b]
                 PROVE  a = b
      BY <2>4 DEF Once
    <3>1. \A c \in 1 .. n + 1 : c # 1 =>
            c - 1 \in 1 .. n /\ longer[c] = list[c - 1] /\ longer[c] \in Blocks(list)
      <4> SUFFICES ASSUME NEW c \in 1 .. n + 1, c # 1
                   PROVE  c - 1 \in 1 .. n /\ longer[c] = list[c - 1] /\ longer[c] \in Blocks(list)
        OBVIOUS
      <4>1. c - 1 \in 1 .. n /\ (c - 1) + 1 = c
        BY <2>2
      <4> QED
        BY <4>1, <2>2, <2>4 DEF Blocks
    <3>2. CASE a = 1 \/ b = 1
      BY <3>1, <3>2, <2>4
    <3>3. CASE a # 1 /\ b # 1
      <4>1. a - 1 = b - 1
        BY <3>1, <3>3, <2>2 DEF Once
      <4> QED
        BY <4>1, <2>2
    <3> QED
      BY <3>2, <3>3
  <2>6. ASSUME NEW m \in Blocks(longer)
        PROVE  m \in Blocks(list) \cup {mem}
    <3>1. PICK b \in 1 .. n + 1 : m = longer[b]
      BY <2>4 DEF Blocks
    <3>2. CASE b = 1
      BY <3>1, <3>2, <2>4
    <3>3. CASE b # 1
      <4>1. b - 1 \in 1 .. n /\ (b - 1) + 1 = b
        BY <3>3, <2>2
      <4>2. m = list[b - 1] /\ b - 1 \in DOMAIN list
        BY <4>1, <3>1, <2>2, <2>4
      <4> QED
        BY <4>2, Zenon DEF Blocks
    <3> QED
      BY <3>2, <3>3
  <2>7. ASSUME NEW m \in Blocks(list) \cup {mem}
        PROVE  m \in Blocks(longer)
    <3>1. CASE m = mem
      BY <3>1, <2>2, <2>4 DEF Blocks
    <3>2. CASE m \in Blocks(list)
      <4>1. PICK b \in 1 .. n : m = list[b]
        BY <3>2, <2>2 DEF Blocks
      <4>2. b + 1 \in 1 .. n + 1
        BY <2>2
      <4> QED
        BY <4>1, <4>2, <2>4 DEF Blocks
    <3> QED
      BY <3>1, <3>2
  <2>8. Blocks(longer) = Blocks(list) \cup ({mem} \ {Heap})
    BY <2>6, <2>7, <1>2
  <2> QED
    BY <2>1, <2>4, <2>5, <2>8
<1> QED
  BY <1>1, <1>2

\* A write is queued.
LEMMA HoldBlock ==
  ASSUME NEW queue \in Seq(Write), HeldOnce(queue), NEW write \in Write,
         write.block \notin Held(queue)
  PROVE  /\ HeldOnce(Append(queue, write))
         /\ Held(Append(queue, write)) = Held(queue) \cup ({write.block} \ {Heap})
<1> DEFINE longer == Append(queue, write)
           n == Len(queue)
<1>1. /\ n \in Nat /\ DOMAIN queue = 1 .. n /\ DOMAIN longer = 1 .. n + 1
      /\ longer[n + 1] = write /\ \A w \in 1 .. n : longer[w] = queue[w]
  BY AppendProperties, LenProperties
<1> HIDE DEF longer, n
<1>2. \A w \in 1 .. n + 1 : w # n + 1 => w \in 1 .. n
  BY <1>1
<1>3. \A w \in 1 .. n : queue[w].block # Heap => queue[w].block \in Held(queue)
  BY <1>1 DEF Held
<1>4. HeldOnce(longer)
  BY <1>1, <1>2, <1>3 DEF HeldOnce
<1>5. n + 1 \in 1 .. n + 1 /\ \A w \in 1 .. n : w \in 1 .. n + 1
  BY <1>1
<1>6. Held(longer) = Held(queue) \cup ({write.block} \ {Heap})
  BY <1>1, <1>2, <1>5 DEF Held
<1> QED
  BY <1>4, <1>6 DEF longer

\* The first write is completed.
LEMMA DropBlock ==
  ASSUME NEW queue \in Seq(Write), HeldOnce(queue), queue # <<>>
  PROVE  /\ HeldOnce(Tail(queue)) /\ Tail(queue) \in Seq(Write) /\ Head(queue) \in Write
         /\ Head(queue).block = Heap \/ Head(queue).block \in Held(queue)
         /\ Held(Tail(queue)) = Held(queue) \ {Head(queue).block}
<1> DEFINE tail == Tail(queue)
           n == Len(queue)
<1>1. /\ n \in Nat \ {0} /\ DOMAIN queue = 1 .. n /\ DOMAIN tail = 1 .. n - 1
      /\ tail \in Seq(Write) /\ Head(queue) \in Write
      /\ \A w \in 1 .. n - 1 : tail[w] = queue[w + 1]
  BY HeadTailProperties, EmptySeq, LenProperties
<1>2. Head(queue) = queue[1]
  OBVIOUS
<1> HIDE DEF tail, n
<1>3. \A w \in 1 .. n - 1 : w + 1 \in 1 .. n /\ w + 1 # 1
  BY <1>1
<1>4. \A w \in 1 .. n : w # 1 => w - 1 \in 1 .. n - 1 /\ tail[w - 1] = queue[w]
  <2> SUFFICES ASSUME NEW w \in 1 .. n, w # 1
               PROVE  w - 1 \in 1 .. n - 1 /\ tail[w - 1] = queue[w]
    OBVIOUS
  <2>1. w - 1 \in 1 .. n - 1 /\ (w - 1) + 1 = w
    BY <1>1
  <2> QED
    BY <2>1, <1>1
<1>5. HeldOnce(tail)
  <2> SUFFICES ASSUME NEW v \in 1 .. n - 1, NEW w \in 1 .. n - 1,
                      tail[v].block = tail[w].block, tail[v].block # Heap
               PROVE  v = w
    BY <1>1 DEF HeldOnce
  <2>1. /\ v + 1 \in DOMAIN queue /\ w + 1 \in DOMAIN queue
        /\ tail[v] = queue[v + 1] /\ tail[w] = queue[w + 1]
    BY <1>1, <1>3
  <2>2. v + 1 = w + 1
    BY <2>1, Zenon DEF HeldOnce
  <2> QED
    BY <2>2, <1>1
<1>6. 1 \in 1 .. n
  BY <1>1
<1>7. Head(queue).block = Heap \/ Head(queue).block \in Held(queue)
  BY <1>1, <1>2, <1>6 DEF Held
<1>8. ASSUME NEW m \in Held(tail)
      PROVE  m \in Held(queue) \ {Head(queue).block}
  <2>1. PICK w \in 1 .. n - 1 : m = queue[w + 1].block /\ m # Heap
    BY <1>1 DEF Held
  <2> QED
    BY <2>1, <1>1, <1>2, <1>3, <1>6 DEF Held, HeldOnce
<1>9. ASSUME NEW m \in Held(queue), m # Head(queue).block
      PROVE  m \in Held(tail)
  <2>1. PICK w \in 1 .. n : m = queue[w].block /\ m # Heap
    BY <1>1 DEF Held
  <2>2. w - 1 \in 1 .. n - 1 /\ tail[w - 1] = queue[w]
    BY <2>1, <1>2, <1>4, <1>9
  <2> QED
    BY <2>1, <2>2, <1>1 DEF Held
<1>10. Held(tail) = Held(queue) \ {Head(queue).block}
  BY <1>8, <1>9
<1> QED
  BY <1>1, <1>5, <1>7, <1>10 DEF tail

LEMMA BlockInit == Init => BlockInv
<1> SUFFICES ASSUME Init PROVE BlockInv
  OBVIOUS
<1> USE DEF Init, WireInit, NetbusInit
<1> DEFINE n == WBUF_CACHE_CAPCITY
<1>1. n \in Nat
  BY CacheConstantsOK
<1>2. free_list = [i \in 1 .. n |-> n + 1 - i]
  BY DEF create_cache_allocer
<1> HIDE DEF n
<1>3. free_list \in [1 .. n -> 1 .. n]
  BY <1>1, <1>2
<1>4. free_list \in Seq(BlockNumbers) /\ DOMAIN free_list = 1 .. n
  BY <1>1, <1>3 DEF BlockNumbers, n
<1>5. Once(free_list)
  BY <1>1, <1>2, <1>4 DEF Once
<1>6. ASSUME NEW b \in 1 .. n
      PROVE  b \in Blocks(free_list)
  <2>1. n + 1 - b \in 1 .. n /\ free_list[n + 1 - b] = b
    BY <1>1, <1>2
  <2> QED
    BY <2>1, <1>4 DEF Blocks
<1>7. Blocks(free_list) = BlockNumbers
  BY <1>3, <1>4, <1>6 DEF Blocks, BlockNumbers, n
<1>8. DOMAIN writes = {}
  BY EmptySeq
<1>9. HeldOnce(writes) /\ Held(writes) = {}
  BY <1>8 DEF HeldOnce, Held
<1>10. Accounted(writes, free_list, status = "open")
  BY <1>5, <1>7, <1>9 DEF Accounted
<1>11. WriteTypes
  <2>1. writes \in Seq(Write) /\ answers \in Seq(AnswerLens) /\ down \in Seq(Byte)
    BY EmptySeq
  <2> QED
    BY <2>1, <1>4 DEF WriteTypes
<1> QED
  BY <1>10, <1>11 DEF BlockInv

\* Other steps do not matter.
LEMMA BlockSame ==
  ASSUME BlockInv, UNCHANGED <<writes, free_list, answers>>, down' \in Seq(Byte),
         status' \in {"open", "shutdown", "closed"}, status' = "open" => status = "open"
  PROVE  BlockInv'
<1>1. WriteTypes'
  BY DEF BlockInv, WriteTypes
<1>2. Accounted(writes', free_list', status' = "open")
  BY DEF BlockInv, Accounted
<1> QED
  BY <1>1, <1>2 DEF BlockInv

\* A write takes a block that was free.
LEMMA TakeBlock ==
  ASSUME NEW queue \in Seq(Write), NEW list, NEW rest_list, NEW write \in Write,
         NEW open \in BOOLEAN,
         Accounted(queue, list, open), Once(rest_list),
         write.block = Heap \/ write.block \in Blocks(list),
         Blocks(rest_list) = Blocks(list) \ {write.block}
  PROVE  /\ Accounted(Append(queue, write), rest_list, open)
         /\ Accounted(queue, rest_list, FALSE)
<1>1. /\ Once(list) /\ HeldOnce(queue) /\ Held(queue) \cap Blocks(list) = {}
      /\ open => Held(queue) \cup Blocks(list) = BlockNumbers
  BY Zenon DEF Accounted
<1>2. write.block \notin Held(queue)
  BY <1>1 DEF Held
<1>3. /\ HeldOnce(Append(queue, write))
      /\ Held(Append(queue, write)) = Held(queue) \cup ({write.block} \ {Heap})
  BY <1>1, <1>2, HoldBlock, Zenon
<1> DEFINE block == write.block
           held == Held(queue)
           more == Held(Append(queue, write))
           free == Blocks(list)
           less == Blocks(rest_list)
<1>4. /\ more = held \cup ({block} \ {Heap}) /\ less = free \ {block}
      /\ held \cap free = {} /\ block \notin held
      /\ block = Heap \/ block \in free
  BY <1>1, <1>2, <1>3
<1>5. open => held \cup free = BlockNumbers
  BY <1>1
<1>6. Heap \notin BlockNumbers
  BY DEF Heap, BlockNumbers
<1> HIDE DEF block, held, more, free, less
<1>7. more \cap less = {} /\ held \cap less = {}
  BY <1>4
<1>8. open => more \cup less = BlockNumbers
  BY <1>4, <1>5, <1>6
<1> QED
  BY <1>1, <1>3, <1>7, <1>8 DEF Accounted, held, more, less

LEMMA AnswerBytes ==
  ASSUME NEW k \in Nat, NEW len \in Nat
  PROVE  /\ packed(k, len) \in Seq(Byte) /\ package(k, len) \in Seq(Byte)
         /\ Len(package(k, len)) = tp_head_size + len
<1>1. tp_head_size \in Nat /\ ws_head_size(len) \in Nat
  BY HeadSizes
<1>2. /\ Package(k, len, tp_head_size, FALSE) \in Seq(Byte)
      /\ Len(Package(k, len, tp_head_size, FALSE)) = tp_head_size + len
  BY <1>1, PackageBytes
<1>3. Package(k, len, ws_head_size(len), FALSE) \in Seq(Byte)
  BY <1>1, PackageBytes
<1> QED
  BY <1>2, <1>3 DEF packed, package, package_ws_send_data

\* An answer: one block for the message, given back, and one for its package.
LEMMA BlockSend ==
  ASSUME BlockInv, NEW len \in AnswerLens, send_msg(len), UNCHANGED <<down, status>>
  PROVE  BlockInv'
<1> DEFINE bytes == packed(Len(answers) + 1, len)
           encode_pkg == cache_alloc(free_list, len)
           tp_pkg == cache_alloc(encode_pkg.rest, Len(bytes))
           list == cache_free(tp_pkg.rest, encode_pkg.mem)
           write == [bytes |-> bytes, block |-> tp_pkg.mem]
           free == Blocks(free_list)
<1>1. WriteTypes /\ Accounted(writes, free_list, status = "open")
  BY DEF BlockInv
<1>2. /\ answers' = IF status = "open" THEN Append(answers, len) ELSE answers
      /\ writes' = IF status = "open" THEN Append(writes, write) ELSE writes
      /\ free_list' = list
  BY Zenon DEF send_msg, uv_write
<1>3. bytes \in Seq(Byte)
  <2>1. Len(answers) + 1 \in Nat /\ len \in Nat
    BY <1>1, LenProperties, NetbusConstantsOK DEF WriteTypes
  <2> QED
    BY <2>1, AnswerBytes
<1>4. free_list \in Seq(BlockNumbers) /\ Once(free_list) /\ writes \in Seq(Write)
  BY <1>1 DEF WriteTypes, Accounted
<1>5. /\ encode_pkg.rest \in Seq(BlockNumbers) /\ Once(encode_pkg.rest)
      /\ encode_pkg.mem = Heap \/ encode_pkg.mem \in free
      /\ Blocks(encode_pkg.rest) = free \ {encode_pkg.mem}
  BY <1>4, AllocBlock, Zenon
<1> HIDE DEF bytes, encode_pkg
<1>6. /\ tp_pkg.rest \in Seq(BlockNumbers) /\ Once(tp_pkg.rest)
      /\ tp_pkg.mem = Heap \/ tp_pkg.mem \in Blocks(encode_pkg.rest)
      /\ Blocks(tp_pkg.rest) = Blocks(encode_pkg.rest) \ {tp_pkg.mem}
  BY <1>5, AllocBlock, Zenon
<1> HIDE DEF tp_pkg
<1>7. free \subseteq BlockNumbers
  <2>1. \A b \in DOMAIN free_list : free_list[b] \in BlockNumbers
    BY <1>4
  <2> QED
    BY <2>1 DEF Blocks
<1>8. /\ list \in Seq(BlockNumbers) /\ Once(list)
      /\ Blocks(list) = Blocks(tp_pkg.rest) \cup ({encode_pkg.mem} \ {Heap})
  <2>1. encode_pkg.mem \notin Blocks(tp_pkg.rest)
    BY <1>5, <1>6
  <2>2. encode_pkg.mem \in BlockNumbers \/ encode_pkg.mem = Heap
    BY <1>5, <1>7
  <2> QED
    BY <2>1, <2>2, <1>6, FreeBlock, Zenon
<1>9. Heap \notin BlockNumbers
  BY DEF Heap, BlockNumbers
<1> HIDE DEF list
<1>10. Blocks(list) = free \ {tp_pkg.mem} /\ (tp_pkg.mem = Heap \/ tp_pkg.mem \in free)
  BY <1>5, <1>6, <1>7, <1>8, <1>9
<1>11. write \in Write /\ write.block = tp_pkg.mem
  <2>1. tp_pkg.mem \in 0 .. WBUF_CACHE_CAPCITY
    BY <1>7, <1>10, CacheConstantsOK DEF BlockNumbers, Heap
  <2> QED
    BY <2>1, <1>3 DEF Write
<1> HIDE DEF write
<1>12. /\ Accounted(Append(writes, write), list, status = "open")
       /\ Accounted(writes, list, FALSE)
  <2> DEFINE open == status = "open"
  <2>1. open \in BOOLEAN /\ Accounted(writes, free_list, open)
    BY <1>1
  <2> HIDE DEF open
  <2>3. /\ writes \in Seq(Write) /\ write \in Write /\ Once(list)
        /\ write.block = Heap \/ write.block \in Blocks(free_list)
        /\ Blocks(list) = Blocks(free_list) \ {write.block}
    BY <1>4, <1>8, <1>10, <1>11
  <2>2. Accounted(Append(writes, write), list, open) /\ Accounted(writes, list, FALSE)
    BY ONLY <2>1, <2>3, TakeBlock, Zenon
  <2> QED
    BY <2>2 DEF open
<1>13. CASE status = "open"
  <2>1. answers' \in Seq(AnswerLens) /\ writes' \in Seq(Write)
    BY <1>1, <1>2, <1>11, <1>13, AppendProperties DEF WriteTypes
  <2>2. Accounted(writes', free_list', status' = "open")
    BY <1>2, <1>12, <1>13
  <2> QED
    BY <2>1, <2>2, <1>1, <1>2, <1>8 DEF BlockInv, WriteTypes
<1>14. CASE status # "open"
  <2>1. Accounted(writes', free_list', status' = "open")
    BY <1>2, <1>12, <1>14 DEF Accounted
  <2> QED
    BY <2>1, <1>1, <1>2, <1>8, <1>14 DEF BlockInv, WriteTypes
<1> QED
  BY <1>13, <1>14

\* A completed write gives its block back.
LEMMA BlockWritten ==
  ASSUME BlockInv, after_write
  PROVE  BlockInv'
<1> DEFINE write == Head(writes)
           block == write.block
           held == Held(writes)
           free == Blocks(free_list)
<1>1. WriteTypes /\ Accounted(writes, free_list, status = "open")
  BY DEF BlockInv
<1>2. /\ writes # <<>> /\ writes' = Tail(writes)
      /\ free_list' = cache_free(free_list, block)
      /\ down' = IF hungup THEN down ELSE down \o write.bytes
      /\ UNCHANGED <<answers, status>>
  BY DEF after_write, after_write_free
<1>3. /\ free_list \in Seq(BlockNumbers) /\ Once(free_list) /\ writes \in Seq(Write)
      /\ HeldOnce(writes) /\ held \cap free = {}
      /\ status = "open" => held \cup free = BlockNumbers
  BY <1>1 DEF WriteTypes, Accounted
<1>4. /\ HeldOnce(writes') /\ writes' \in Seq(Write) /\ write \in Write
      /\ block = Heap \/ block \in held
      /\ Held(writes') = held \ {block}
  BY <1>2, <1>3, DropBlock, Zenon
<1>5. Heap \notin BlockNumbers /\ free \subseteq BlockNumbers
  <2>1. \A b \in DOMAIN free_list : free_list[b] \in BlockNumbers
    BY <1>3
  <2> QED
    BY <2>1 DEF Heap, BlockNumbers, Blocks
<1>6. block \in BlockNumbers \/ block = Heap
  BY <1>4, CacheConstantsOK DEF Write, Heap, BlockNumbers
<1>7. block \notin free
  BY <1>3, <1>4, <1>5
<1>8. /\ free_list' \in Seq(BlockNumbers) /\ Once(free_list')
      /\ Blocks(free_list') = free \cup ({block} \ {Heap})
  BY <1>2, <1>3, <1>6, <1>7, FreeBlock, Zenon
<1>9. Heap \notin held
  BY DEF Held
<1>10. down' \in Seq(Byte)
  <2>1. write.bytes \in Seq(Byte) /\ down \in Seq(Byte)
    BY <1>1, <1>4 DEF WriteTypes, Write
  <2> QED
    BY <2>1, <1>2, ConcatProperties
<1> HIDE DEF write, block, held, free
<1>11. Held(writes') \cap Blocks(free_list') = {}
  BY <1>3, <1>4, <1>8
<1>12. status = "open" => Held(writes') \cup Blocks(free_list') = BlockNumbers
  BY <1>3, <1>4, <1>6, <1>8, <1>9
<1>13. Accounted(writes', free_list', status' = "open")
  BY <1>2, <1>4, <1>8, <1>11, <1>12 DEF Accounted
<1> QED
  BY <1>1, <1>2, <1>4, <1>8, <1>10, <1>13 DEF BlockInv, WriteTypes

LEMMA ServerBlocks ==
  ASSUME UpInv, BlockInv, loop
  PROVE  BlockInv'
<1>0. NetbusNext
  BY DEF loop
<1>1. WriteTypes /\ CommandTypes
  BY DEF BlockInv, UpInv
<1>2. CASE after_write
  BY <1>2, BlockWritten
<1>3. CASE destroy \/ read_end \/ unpacked
  <2>1. UNCHANGED <<writes, free_list, answers, down>>
    BY <1>3 DEF destroy, read_end, unpacked, wire
  <2>2. status' \in {"open", "shutdown", "closed"} /\ (status' = "open" => status = "open")
    BY <1>1, <1>3 DEF destroy, read_end, unpacked, shut, WriteTypes
  <2> QED
    BY <2>1, <2>2, <1>1, BlockSame DEF WriteTypes
<1>4. ASSUME NEW n \in 1 .. Len(up), after_read(n)
      PROVE  BlockInv'
  <2>1. UNCHANGED <<answers, down, status, free_list>>
    BY <1>4 DEF after_read
  <2>2. writes' = writes \/ uv_write(ws_accept, Heap)
    BY <1>4 DEF after_read
  <2>3. CASE writes' = writes
    BY <2>1, <2>3, <1>1, BlockSame DEF WriteTypes
  <2>4. CASE uv_write(ws_accept, Heap) /\ writes' # writes
    <3> DEFINE write == [bytes |-> ws_accept, block |-> Heap]
    <3>1. status = "open" /\ writes' = Append(writes, write)
      BY <2>4 DEF uv_write
    <3>2. ws_accept \in Seq(Byte)
      <4>1. <<0, 1, FALSE>> \in Byte
        BY PlainByte, Zenon DEF Plain
      <4> QED
        BY <4>1 DEF ws_accept
    <3>3. write \in Write /\ write.block = Heap
      BY <3>2, CacheConstantsOK DEF Write, Heap
    <3> HIDE DEF write
    <3>4. /\ writes \in Seq(Write) /\ free_list \in Seq(BlockNumbers) /\ Once(free_list)
          /\ Accounted(writes, free_list, TRUE)
      BY <3>1, <1>1, Zenon DEF BlockInv, WriteTypes, Accounted
    <3>5. Blocks(free_list) = Blocks(free_list) \ {Heap}
      <4>1. \A b \in DOMAIN free_list : free_list[b] \in BlockNumbers
        BY <3>4
      <4> QED
        BY <4>1 DEF Heap, BlockNumbers, Blocks
    <3>6. Accounted(Append(writes, write), free_list, TRUE)
      BY <3>3, <3>4, <3>5, TakeBlock
    <3>7. writes' \in Seq(Write)
      BY <3>1, <3>3, <3>4, AppendProperties
    <3>8. Accounted(writes', free_list', status' = "open")
      BY <3>1, <3>6, <2>1 DEF Accounted
    <3> QED
      BY <3>7, <3>8, <2>1, <1>1 DEF BlockInv, WriteTypes
  <2> QED
    BY <2>2, <2>3, <2>4
<1>5. CASE unpack
  <2>1. PICK k : on_recv_client_cmd(k)
    BY <1>5 DEF unpack
  <2>2. down' = down
    BY <1>5 DEF unpack
  <2>3. CASE status' = shut /\ UNCHANGED <<answers, writes, free_list>>
    <3>1. status' \in {"open", "shutdown", "closed"} /\ (status' = "open" => status = "open")
      BY <2>3, <1>1 DEF shut, WriteTypes
    <3> QED
      BY <3>1, <2>2, <2>3, <1>1, BlockSame DEF WriteTypes
  <2>4. CASE UNCHANGED <<status, answers, writes, free_list>>
    BY <2>2, <2>4, <1>1, BlockSame DEF WriteTypes
  <2>5. CASE status' = status /\ \E len \in AnswerLens : send_msg(len)
    BY <2>2, <2>5, BlockSend
  <2> QED
    BY <2>1, <2>3, <2>4, <2>5 DEF on_recv_client_cmd
<1> QED
  BY <1>0, <1>2, <1>3, <1>4, <1>5 DEF NetbusNext

LEMMA BlockStep ==
  ASSUME UpInv, BlockInv, [Next]_vars
  PROVE  BlockInv'
<1>1. WriteTypes
  BY DEF BlockInv
<1>2. CASE loop
  BY <1>2, ServerBlocks
<1>3. ASSUME UNCHANGED <<answers, netbusVars>>, down' \in Seq(Byte)
      PROVE  BlockInv'
  BY <1>1, <1>3, BlockSame DEF netbusVars, WriteTypes
<1>4. CASE socket_type = "TCP_SOCKET" /\ (client \/ client_closes)
  <2>1. UNCHANGED <<answers, netbusVars>>
    BY <1>4 DEF client, ClientNext, on_connected_start, on_connected, thread_begin,
      thread_receive, thread_raises, on_tcp_data, cut, Update, wire, client_closes, close_client
  <2>2. CASE \E n \in 1 .. Len(down) : thread_receive(n)
    <3>1. PICK n \in 1 .. Len(down) : down' = SubSeq(down, n + 1, Len(down))
      BY <2>2 DEF thread_receive
    <3>2. down \in Seq(Byte) /\ n \in 0 .. Len(down)
      BY <1>1, LenProperties DEF WriteTypes
    <3> QED
      BY <3>1, <3>2, <2>1, <1>3, Behind
  <2>3. CASE down' = down
    BY <2>1, <2>3, <1>1, <1>3 DEF WriteTypes
  <2>4. down' = down \/ \E n \in 1 .. Len(down) : thread_receive(n)
    BY <1>4 DEF client, ClientNext, on_connected_start, on_connected, thread_begin,
      thread_raises, on_tcp_data, cut, Update, wire, client_closes, close_client
  <2> QED
    BY <2>2, <2>3, <2>4
<1>5. CASE tcp_send \/ ws_send \/ ws_ask \/ ws_hangup \/ UNCHANGED vars
  BY <1>1, <1>3, <1>5 DEF tcp_send, send_protobuf_cmd, ws_send, ws_ask, ws_hangup, vars, wire,
    WriteTypes
<1>6. CASE ws_accepted
  <2>1. /\ down' = SubSeq(down, Len(ws_accept) + 1, Len(down)) /\ Len(down) >= Len(ws_accept)
        /\ UNCHANGED <<answers, netbusVars>>
    BY <1>6 DEF ws_accepted
  <2>2. Len(ws_accept) = 1
    BY DEF ws_accept
  <2>3. down \in Seq(Byte) /\ 1 \in 0 .. Len(down)
    BY <2>1, <2>2, <1>1, LenProperties DEF WriteTypes
  <2> QED
    BY <2>1, <2>2, <2>3, <1>3, Behind
<1> QED
  BY <1>2, <1>4, <1>5, <1>6 DEF Next

\* While the session is open every block of the cache is free or belongs to one pending
\* write (send_msg, after_write), and afterwards none belongs to two.
THEOREM BlocksKept == Spec => []BlocksAccounted
<1>1. BlockInv => BlocksAccounted
  <2> SUFFICES ASSUME BlockInv PROVE BlocksAccounted
    OBVIOUS
  <2> DEFINE used == [w \in DOMAIN writes |-> writes[w].block]
             held == {w \in DOMAIN used : used[w] # Heap}
  <2>1. /\ Once(free_list) /\ HeldOnce(writes) /\ Held(writes) \cap Blocks(free_list) = {}
        /\ status = "open" => Held(writes) \cup Blocks(free_list) = BlockNumbers
    BY DEF BlockInv, Accounted
  <2>2. {used[w] : w \in held} = Held(writes)
    BY DEF Held
  <2>3. \A v, w \in held : used[v] = used[w] => v = w
    BY <2>1 DEF HeldOnce
  <2>4. \A w \in held, b \in DOMAIN free_list : used[w] # free_list[b]
    BY <2>1, <2>2 DEF Blocks
  <2>5. \A a, b \in DOMAIN free_list : free_list[a] = free_list[b] => a = b
    BY <2>1 DEF Once
  <2>6. status = "open" =>
          {used[w] : w \in held} \cup {free_list[b] : b \in DOMAIN free_list}
            = 1 .. WBUF_CACHE_CAPCITY
    BY <2>1, <2>2 DEF Blocks, BlockNumbers
  <2> HIDE DEF used, held
  <2> QED
    BY <2>3, <2>4, <2>5, <2>6, Zenon DEF BlocksAccounted, used, held
<1>2. UpInv /\ BlockInv /\ [Next]_vars => UpInv' /\ BlockInv'
  BY UpStep, BlockStep
<1> QED
  BY <1>1, <1>2, UpInit, BlockInit, PTL DEF Spec

-----------------------------------------------------------------------------
(* What is on its way to the client *)

\* The answers as they are packed, and how many of them are written.
DownPackages == [k \in DOMAIN answers |-> package(k, answers[k])]
Written == Len(answers) - Len(writes)

\* The answer to be cut off next.
Next_answer == Len(shown) + Len(net_events) + 1

\* The bytes are the answers that are written and not cut off, and the others are to be
\* written.
Arriving ==
  /\ Len(writes) <= Len(answers)
  /\ Stream(client_buf \o down, Next_answer, Written, DownPackages)
  /\ \A w \in 1 .. Len(writes) : writes[w].bytes = DownPackages[Written + w]

ClientInv ==
  /\ is_connect \in BOOLEAN /\ hungup \in BOOLEAN
  /\ thread \in {"none", "started", "receiving", "cutting", "ended"}
  /\ client_buf \in Seq(Byte) /\ Len(client_buf) <= CLIENT_RECV_LEN
  /\ net_events \in Seq(Nat) /\ shown \in Seq(Nat)
  /\ \A i \in 1 .. Len(shown) : shown[i] = i
  /\ \A i \in 1 .. Len(net_events) : net_events[i] = Len(shown) + i
  /\ Next_answer <= Len(answers) + 1

DownInv ==
  /\ ClientInv
  /\ socket_type = "TCP_SOCKET" => IF hungup THEN thread = "ended" ELSE Arriving

LEMMA AnswerPackages ==
  ASSUME WriteTypes, NEW k \in 1 .. Len(answers)
  PROVE  /\ DownPackages[k] \in Seq(Byte) /\ DownPackages[k] # <<>>
         /\ Len(DownPackages[k]) = 2 + answers[k]
         /\ answers[k] \in Nat \ {0} /\ 2 + answers[k] < WIDTH
         /\ \A i \in 1 .. 2 + answers[k] : DownPackages[k][i] = Plain(k, i)
<1>1. answers[k] \in AnswerLens /\ k \in DOMAIN answers /\ k \in Nat
  <2>1. answers \in Seq(AnswerLens)
    BY DEF WriteTypes
  <2>2. answers[k] \in AnswerLens
    BY <2>1, ElementOfSeq
  <2>3. DOMAIN answers = 1 .. Len(answers) /\ Len(answers) \in Nat
    BY <2>1, LenProperties
  <2> QED
    BY <2>2, <2>3
<1>2. answers[k] \in Nat \ {0} /\ 2 + answers[k] < WIDTH
  <2> DEFINE len == answers[k]
  <2>1. len \in Nat \ {0}
    BY <1>1, NetbusConstantsOK
  <2>2. len < WIDTH - 2 /\ WIDTH \in Nat
    BY <1>1, TransportConstantsOK, ProtocolConstantsOK DEF tp_head_size
  <2> HIDE DEF len
  <2>3. 2 + len < WIDTH
    BY <2>1, <2>2
  <2> QED
    BY <2>1, <2>3 DEF len
<1>3. DownPackages[k] = Package(k, answers[k], 2, FALSE)
  BY <1>1 DEF DownPackages, package, tp_head_size
<1> DEFINE len == answers[k]
<1>4. len \in Nat
  BY <1>2
<1> HIDE DEF len
<1>5. /\ Package(k, len, 2, FALSE) \in Seq(Byte)
      /\ Len(Package(k, len, 2, FALSE)) = 2 + len
      /\ \A i \in 1 .. 2 + len : Package(k, len, 2, FALSE)[i] = <<k, i, FALSE /\ i > 2>>
  <2>1. 2 \in Nat /\ FALSE \in BOOLEAN
    OBVIOUS
  <2> QED
    BY <2>1, <1>1, <1>4, PackageBytes, Zenon
<1>6. \A i \in 1 .. 2 + len : Package(k, len, 2, FALSE)[i] = Plain(k, i)
  <2>1. \A i : (FALSE /\ i > 2) = FALSE
    OBVIOUS
  <2> QED
    BY <2>1, <1>5, Zenon DEF Plain
<1>7. Package(k, len, 2, FALSE) # <<>>
  <2> DEFINE pkg == Package(k, len, 2, FALSE)
  <2>1. pkg \in Seq(Byte) /\ Len(pkg) = 2 + len
    BY <1>5
  <2> HIDE DEF pkg
  <2>2. pkg # <<>>
    BY <2>1, <1>4, EmptySeq
  <2> QED
    BY <2>2 DEF pkg
<1> QED
  BY <1>2, <1>3, <1>5, <1>6, <1>7 DEF len

\* What the thread cuts off is the next answer.
LEMMA NextAnswer ==
  ASSUME WriteTypes, ClientInv, Arriving, on_tcp_data
  PROVE  /\ Next_answer \in 1 .. Written /\ net_events' = Append(net_events, Next_answer)
         /\ client_buf' = rest(Len(DownPackages[Next_answer]))
         /\ Len(DownPackages[Next_answer]) \in 0 .. Len(client_buf)
<1> DEFINE k == Next_answer
           pkg == DownPackages[k]
           all == client_buf \o down
           header == tp_read_header(client_buf, answers)
           body == SubSeq(client_buf, header.head_size + 1, header.pkg_size)
<1>1. /\ header.ok /\ Len(client_buf) >= header.pkg_size
      /\ net_events' = Append(net_events, Message(body, header.head_size, answers))
      /\ client_buf' = rest(header.pkg_size)
  BY Zenon DEF on_tcp_data
<1>2. /\ client_buf \in Seq(Byte) /\ down \in Seq(Byte) /\ Len(client_buf) \in Nat
      /\ Len(down) \in Nat /\ k \in Nat \ {0} /\ Len(answers) \in Nat /\ Len(writes) \in Nat
  BY LenProperties DEF ClientInv, WriteTypes, Next_answer
<1>3. Len(client_buf) >= 2
  BY <1>1, <1>2 DEF tp_read_header, NoHeader, tp_head_size
<1>4. /\ all \in Seq(Byte) /\ Len(all) = Len(client_buf) + Len(down)
      /\ \A i \in 1 .. Len(client_buf) : all[i] = client_buf[i]
  BY <1>2, ConcatProperties
<1>5. Written \in Int /\ Written <= Len(answers)
  BY <1>2 DEF Written, Arriving
<1>6. \A j \in k .. Written : DownPackages[j] \in Seq(Byte) /\ DownPackages[j] # <<>>
  BY <1>2, <1>5, AnswerPackages
<1> HIDE DEF all
<1>7. Stream(all, k, Written, DownPackages)
  BY DEF Arriving, all
<1> HIDE DEF k
<1>8. /\ k <= Written + 1
      /\ k <= Written => /\ Len(pkg) <= Len(all) /\ \A i \in 1 .. Len(pkg) : all[i] = pkg[i]
      /\ k = Written + 1 => all = <<>>
  <2>1. all \in Seq(Byte) /\ k \in Nat /\ Written \in Int
    BY <1>2, <1>4, <1>5
  <2> QED
    BY ONLY <2>1, <1>6, <1>7, StreamFirst
<1>9. all # <<>>
  BY <1>2, <1>3, <1>4, EmptySeq
<1>10. k \in 1 .. Written /\ k \in 1 .. Len(answers)
  BY <1>2, <1>5, <1>8, <1>9
<1> DEFINE len == answers[k]
<1>11. /\ len \in Nat \ {0} /\ 2 + len < WIDTH /\ Len(pkg) = 2 + len
       /\ \A i \in 1 .. 2 + len : pkg[i] = Plain(k, i)
  BY <1>10, AnswerPackages
<1>12. k \in DOMAIN answers
  BY <1>10, LenProperties DEF WriteTypes
<1> HIDE DEF pkg, len
<1>13. \A i \in 1 .. 2 + len : i <= Len(client_buf) => client_buf[i] = Plain(k, i)
  <2> SUFFICES ASSUME NEW i \in 1 .. 2 + len, i <= Len(client_buf)
               PROVE  client_buf[i] = Plain(k, i)
    OBVIOUS
  <2>1. i \in 1 .. Len(client_buf) /\ i \in 1 .. Len(pkg)
    BY <1>2, <1>11
  <2> QED
    BY <2>1, <1>4, <1>8, <1>10, <1>11
<1>14. client_buf[1] = <<k, 1, FALSE>> /\ client_buf[2] = <<k, 2, FALSE>>
  <2>1. 1 \in 1 .. 2 + len /\ 2 \in 1 .. 2 + len /\ 1 <= Len(client_buf) /\ 2 <= Len(client_buf)
    BY <1>2, <1>3, <1>11
  <2> QED
    BY <2>1, <1>13, Zenon DEF Plain
<1>15. header = [ok |-> TRUE, head_size |-> 2, pkg_size |-> 2 + len]
  <2>1. WIDTH \in Nat /\ 2 + len \in Nat
    BY <1>11, ProtocolConstantsOK
  <2>2. (2 + len) % WIDTH = 2 + len
    BY <2>1, <1>11, SmallModulo
  <2>3. client_buf[1][1] = k
    BY <1>14
  <2>4. header = [ok |-> TRUE, head_size |-> 2, pkg_size |-> (2 + len) % WIDTH]
    BY <2>3, <1>2, <1>3, <1>14 DEF tp_read_header, tp_head_size, len
  <2> QED
    BY <2>2, <2>4
<1>16. header.head_size = 2 /\ header.pkg_size = 2 + len
  BY <1>15
<1> HIDE DEF header
<1>17. 2 + len <= Len(client_buf)
  BY <1>1, <1>16
<1>18. body = Body(k, 2, len)
  <2>1. \A i \in 1 .. 2 + len : i > 2 => client_buf[i] = Plain(k, i)
    BY <1>2, <1>11, <1>13, <1>17
  <2>2. k \in Nat /\ len \in Nat /\ 2 \in Nat
    BY <1>2, <1>11
  <2>3. SubSeq(client_buf, 2 + 1, 2 + len) = Body(k, 2, len)
    BY <2>1, <2>2, BodyBytes
  <2> QED
    BY <2>3, <1>16, Zenon
<1>19. Message(body, 2, answers) = k
  <2>1. Message([i \in 1 .. answers[k] |-> <<k, 2 + i, FALSE>>], 2, answers) = k
    BY <1>11, <1>12, MessageFound DEF len
  <2> QED
    BY <2>1, <1>18, Zenon DEF Body, len
<1> HIDE DEF body
<1>20. net_events' = Append(net_events, k) /\ client_buf' = rest(Len(pkg))
  BY <1>1, <1>11, <1>16, <1>19
<1>21. Len(pkg) \in 0 .. Len(client_buf)
  BY <1>2, <1>11, <1>17
<1> QED
  BY <1>10, <1>20, <1>21 DEF k, pkg

downVars == <<socket_type, answers, writes, down, hungup, clientVars>>

\* What a step can do to the answers and to what is shown of them.
DownMove ==
  \/ UNCHANGED <<answers, shown>>
  \/ shown' = shown /\ \E len \in AnswerLens : answers' = Append(answers, len)
  \/ answers' = answers /\ net_events # <<>> /\ shown' = shown \o net_events

LEMMA DownInit == Init => DownInv
<1> SUFFICES ASSUME Init PROVE DownInv
  OBVIOUS
<1>1. /\ is_connect = FALSE /\ thread = "none" /\ client_buf = <<>> /\ net_events = <<>>
      /\ shown = <<>> /\ answers = <<>> /\ down = <<>> /\ hungup = FALSE /\ writes = <<>>
  BY DEF Init, WireInit, NetbusInit, ClientInit
<1>2. Len(<<>>) = 0 /\ \A S : <<>> \in Seq(S)
  BY EmptySeq
<1>3. /\ Len(client_buf) = 0 /\ Len(net_events) = 0 /\ Len(shown) = 0 /\ Len(answers) = 0
      /\ Len(writes) = 0
  BY <1>1, <1>2
<1>4. Next_answer = 1 /\ Written = 0
  BY <1>3 DEF Next_answer, Written
<1>5. ClientInv
  <2>1. client_buf \in Seq(Byte) /\ net_events \in Seq(Nat) /\ shown \in Seq(Nat)
    BY <1>1, <1>2
  <2>2. Len(client_buf) <= CLIENT_RECV_LEN
    BY <1>3, ClientConstantsOK
  <2>3. Next_answer <= Len(answers) + 1
    BY <1>3, <1>4
  <2>4. \A i \in 1 .. 0 : FALSE
    OBVIOUS
  <2> QED
    BY <1>1, <1>3, <2>1, <2>2, <2>3, <2>4 DEF ClientInv
<1>6. client_buf \o down = <<>>
  <2>1. client_buf \in Seq(Byte) /\ down \in Seq(Byte) /\ Len(down) = 0
    BY <1>1, <1>2
  <2>2. client_buf \o down \in Seq(Byte) /\ Len(client_buf \o down) = 0
    BY <2>1, <1>3, ConcatProperties
  <2> QED
    BY <2>2, EmptySeq
<1>7. Stream(<<>>, 1, 0, DownPackages)
  BY StreamEmpty
<1>8. Arriving
  BY <1>3, <1>4, <1>6, <1>7 DEF Arriving
<1> QED
  BY <1>1, <1>5, <1>8 DEF DownInv

LEMMA DownSame ==
  ASSUME DownInv, UNCHANGED downVars
  PROVE  DownInv' /\ DownMove
BY DEF DownInv, ClientInv, Arriving, Next_answer, Written, DownPackages, downVars, clientVars,
  DownMove

\* The game's client is not at the other end of a websocket.
LEMMA WebDown ==
  ASSUME DownInv, socket_type # "TCP_SOCKET", socket_type' = socket_type, UNCHANGED clientVars,
         hungup' \in BOOLEAN, Len(answers) \in Nat, Len(answers') \in Nat,
         Len(answers) <= Len(answers')
  PROVE  DownInv'
<1>1. Len(net_events) \in Nat /\ Len(shown) \in Nat
  BY LenProperties DEF DownInv, ClientInv
<1>2. Next_answer' = Next_answer /\ Next_answer \in Nat
  BY <1>1 DEF Next_answer, clientVars
<1>3. Next_answer' <= Len(answers') + 1
  BY <1>2 DEF DownInv, ClientInv
<1> QED
  BY <1>3 DEF DownInv, ClientInv, clientVars

\* A completed write puts the next answer behind the others.
LEMMA DownWritten ==
  ASSUME WriteTypes, DownInv, after_write, UNCHANGED clientVars
  PROVE  DownInv' /\ DownMove
<1>1. /\ writes # <<>> /\ writes' = Tail(writes)
      /\ down' = IF hungup THEN down ELSE down \o Head(writes).bytes
      /\ UNCHANGED <<socket_type, answers, hungup>>
  BY DEF after_write
<1>2. DownMove
  BY <1>1 DEF DownMove, clientVars
<1>3. ClientInv'
  BY <1>1 DEF DownInv, ClientInv, Next_answer, clientVars
<1>4. ASSUME socket_type = "TCP_SOCKET", ~hungup
      PROVE  Arriving'
  <2> DEFINE bytes == client_buf \o down
             w == Written
             k == Next_answer
  <2>1. Arriving /\ ClientInv
    BY <1>4 DEF DownInv
  <2>2. /\ writes \in Seq(Write) /\ down \in Seq(Byte) /\ client_buf \in Seq(Byte)
        /\ Len(writes) \in Nat /\ Len(answers) \in Nat /\ Len(writes) <= Len(answers)
    BY <2>1, LenProperties DEF WriteTypes, ClientInv, Arriving
  <2>3. Len(writes) # 0
    BY <1>1, <2>2, EmptySeq
  <2>4. /\ Len(writes') = Len(writes) - 1 /\ Head(writes) = writes[1]
        /\ \A i \in 1 .. Len(writes) - 1 : writes'[i] = writes[i + 1]
    BY <1>1, <2>2, HeadTailProperties
  <2>5. w \in Nat /\ Written' = w + 1 /\ w + 1 \in 1 .. Len(answers)
    BY <1>1, <2>2, <2>3, <2>4 DEF Written
  <2>6. k \in Nat /\ Next_answer' = k /\ k >= 1
    BY <2>1, <1>1, LenProperties DEF Next_answer, ClientInv, clientVars
  <2>7. DownPackages' = DownPackages
    BY <1>1 DEF DownPackages
  <2>8. \A v \in 1 .. Len(writes) : writes[v].bytes = DownPackages[w + v]
    BY <2>1 DEF Arriving
  <2>9. Stream(bytes, k, w, DownPackages)
    BY <2>1 DEF Arriving
  <2>10. bytes \in Seq(Byte)
    BY <2>2, ConcatProperties
  <2>11. \A j \in k .. w : DownPackages[j] \in Seq(Byte)
    BY <2>2, <2>5, <2>6, AnswerPackages
  <2>12. DownPackages[w + 1] \in Seq(Byte)
    BY <2>5, AnswerPackages
  <2>13. Head(writes).bytes = DownPackages[w + 1]
    <3>1. 1 \in 1 .. Len(writes)
      BY <2>2, <2>3
    <3> QED
      BY <3>1, <2>4, <2>8
  <2>14. client_buf' \o down' = bytes \o DownPackages[w + 1]
    <3>1. down' = down \o DownPackages[w + 1] /\ client_buf' = client_buf
      BY <1>1, <1>4, <2>13 DEF clientVars
    <3>2. client_buf \o (down \o DownPackages[w + 1]) = bytes \o DownPackages[w + 1]
      <4> DEFINE pkg == DownPackages[w + 1]
      <4>1. client_buf \in Seq(Byte) /\ down \in Seq(Byte) /\ pkg \in Seq(Byte)
        BY <2>2, <2>12
      <4> HIDE DEF pkg
      <4>2. client_buf \o (down \o pkg) = (client_buf \o down) \o pkg
        BY <4>1, ConcatAssociative
      <4> QED
        BY <4>2 DEF pkg
    <3> QED
      BY <3>1, <3>2
  <2> HIDE DEF bytes, w, k
  <2>15. Stream(bytes \o DownPackages[w + 1], k, w + 1, DownPackages)
    BY <2>5, <2>6, <2>9, <2>10, <2>11, <2>12, StreamGrows
  <2>16. ASSUME NEW v \in 1 .. Len(writes')
         PROVE  writes'[v].bytes = DownPackages[(w + 1) + v]
    <3>1. v \in 1 .. Len(writes) - 1 /\ v + 1 \in 1 .. Len(writes)
      BY <2>2, <2>4
    <3>2. writes'[v] = writes[v + 1] /\ writes[v + 1].bytes = DownPackages[w + (v + 1)]
      BY <3>1, <2>4, <2>8
    <3>3. w + (v + 1) = (w + 1) + v
      BY <2>5
    <3> QED
      BY <3>2, <3>3
  <2>17. Len(writes') <= Len(answers')
    BY <1>1, <2>2, <2>4
  <2> QED
    BY <2>5, <2>6, <2>7, <2>14, <2>15, <2>16, <2>17 DEF Arriving
<1> QED
  BY <1>1, <1>2, <1>3, <1>4 DEF DownInv, clientVars

\* An answer is written later.
LEMMA DownSend ==
  ASSUME WriteTypes, DownInv, NEW len \in AnswerLens, send_msg(len),
         UNCHANGED <<socket_type, down, hungup, clientVars>>
  PROVE  DownInv' /\ DownMove
<1> DEFINE n == Len(answers)
           m == Len(writes)
<1>1. /\ answers \in Seq(AnswerLens) /\ writes \in Seq(Write) /\ n \in Nat /\ m \in Nat
      /\ DOMAIN answers = 1 .. n /\ DOMAIN writes = 1 .. m
  BY LenProperties DEF WriteTypes
<1>2. CASE status # "open"
  <2>1. UNCHANGED <<answers, writes>>
    BY <1>2 DEF send_msg, uv_write
  <2> QED
    BY <2>1, DownSame DEF downVars
<1>3. CASE status = "open"
  <2>1. PICK write : /\ answers' = Append(answers, len) /\ writes' = Append(writes, write)
                     /\ write.bytes = packed(n + 1, len)
    BY <1>3 DEF send_msg, uv_write
  <2>2. /\ Len(answers') = n + 1 /\ DOMAIN answers' = 1 .. n + 1 /\ answers'[n + 1] = len
        /\ \A k \in 1 .. n : answers'[k] = answers[k]
    BY <2>1, <1>1, AppendProperties, LenProperties
  <2>3. /\ Len(writes') = m + 1 /\ writes'[m + 1] = write
        /\ \A v \in 1 .. m : writes'[v] = writes[v]
    BY <2>1, <1>1, AppendProperties
  <2> HIDE DEF n, m
  <2>4. DownMove
    BY <2>1 DEF DownMove, clientVars
  <2>5. Next_answer' = Next_answer /\ Next_answer \in Nat \ {0} /\ Next_answer <= n + 1
    BY LenProperties DEF DownInv, ClientInv, Next_answer, clientVars, n
  <2>6. ClientInv'
    BY <1>1, <2>2, <2>5 DEF DownInv, ClientInv, clientVars
  <2>7. ASSUME socket_type = "TCP_SOCKET", ~hungup
        PROVE  Arriving'
    <3>1. Arriving
      BY <2>7 DEF DownInv
    <3>2. m <= n /\ Written = n - m /\ Written' = n - m /\ n - m \in Nat
      BY <1>1, <2>2, <2>3, <3>1 DEF Arriving, Written, n, m
    <3>3. \A k \in 1 .. n : DownPackages'[k] = DownPackages[k]
      BY <1>1, <2>2 DEF DownPackages
    <3>4. DownPackages'[n + 1] = packed(n + 1, len)
      <4>1. DownPackages'[n + 1] = package(n + 1, len)
        BY <1>1, <2>2 DEF DownPackages
      <4> QED
        BY <4>1, <2>7 DEF packed
    <3>5. Stream(client_buf \o down, Next_answer, n - m, DownPackages')
      <4>1. Stream(client_buf \o down, Next_answer, n - m, DownPackages)
        BY <3>1, <3>2 DEF Arriving
      <4>2. \A k \in Next_answer .. n - m : DownPackages'[k] = DownPackages[k]
        BY <1>1, <2>5, <3>2, <3>3
      <4>3. Next_answer \in Nat /\ n - m \in Int
        BY <2>5, <3>2
      <4> QED
        BY ONLY <4>1, <4>2, <4>3, StreamSame
    <3>6. ASSUME NEW v \in 1 .. m + 1
          PROVE  writes'[v].bytes = DownPackages'[(n - m) + v]
      <4>1. CASE v = m + 1
        <5>1. (n - m) + v = n + 1
          BY <4>1, <1>1
        <5> QED
          BY <4>1, <5>1, <2>1, <2>3, <3>4
      <4>2. CASE v # m + 1
        <5>1. v \in 1 .. m /\ (n - m) + v \in 1 .. n
          BY <4>2, <1>1, <3>2
        <5>2. writes[v].bytes = DownPackages[(n - m) + v]
          BY <5>1, <3>1, <3>2 DEF Arriving, m
        <5> QED
          BY <5>1, <5>2, <2>3, <3>3
      <4> QED
        BY <4>1, <4>2
    <3>7. client_buf' \o down' = client_buf \o down
      BY DEF clientVars
    <3>8. Len(writes') <= Len(answers')
      BY <1>1, <2>2, <2>3, <3>2
    <3> QED
      BY <2>3, <2>5, <3>2, <3>5, <3>6, <3>7, <3>8 DEF Arriving
  <2> QED
    BY <2>4, <2>6, <2>7 DEF DownInv, clientVars
<1> QED
  BY <1>2, <1>3

LEMMA ServerDown ==
  ASSUME UpInv, WriteTypes, DownInv, loop
  PROVE  DownInv' /\ DownMove
<1>1. NetbusNext /\ UNCHANGED clientVars
  BY DEF loop
<1>2. CASE after_write
  BY <1>1, <1>2, DownWritten
<1>3. CASE destroy \/ read_end \/ unpacked
  BY <1>1, <1>3, DownSame DEF destroy, read_end, unpacked, wire, downVars
<1>4. ASSUME NEW n \in 1 .. Len(up), after_read(n)
      PROVE  DownInv' /\ DownMove
  <2>1. UNCHANGED <<socket_type, answers, down, hungup>>
    BY <1>4 DEF after_read
  <2>2. CASE socket_type = "TCP_SOCKET"
    <3>1. UNCHANGED writes
      BY <1>4, <2>2 DEF after_read
    <3> QED
      BY <3>1, <2>1, <1>1, DownSame DEF downVars
  <2>3. CASE socket_type # "TCP_SOCKET"
    <3>1. hungup' \in BOOLEAN /\ Len(answers) \in Nat /\ Len(answers') = Len(answers)
      BY <2>1, LenProperties DEF DownInv, ClientInv, WriteTypes
    <3>2. DownInv'
      BY <3>1, <2>1, <2>3, <1>1, WebDown
    <3> QED
      BY <3>2, <2>1, <1>1 DEF DownMove, clientVars
  <2> QED
    BY <2>2, <2>3
<1>5. CASE unpack
  <2>1. PICK k : on_recv_client_cmd(k)
    BY <1>5 DEF unpack
  <2>2. UNCHANGED <<socket_type, down, hungup>>
    BY <1>5 DEF unpack
  <2>3. CASE UNCHANGED <<answers, writes>>
    BY <2>2, <2>3, <1>1, DownSame DEF downVars
  <2>4. CASE \E len \in AnswerLens : send_msg(len)
    BY <2>2, <2>4, <1>1, DownSend
  <2> QED
    BY <2>1, <2>3, <2>4 DEF on_recv_client_cmd
<1> QED
  BY <1>1, <1>2, <1>3, <1>4, <1>5 DEF NetbusNext

\* Bytes are taken from the connection into the client's buffer.
LEMMA DownReceives ==
  ASSUME WriteTypes, DownInv, socket_type = "TCP_SOCKET", UNCHANGED <<netbusVars, ws_client>>,
         NEW n \in 1 .. Len(down), thread_receive(n)
  PROVE  DownInv' /\ DownMove
<1>1. /\ thread = "receiving" /\ thread' = "cutting" /\ n <= CLIENT_RECV_LEN - Len(client_buf)
      /\ client_buf' = client_buf \o SubSeq(down, 1, n)
      /\ down' = SubSeq(down, n + 1, Len(down))
      /\ UNCHANGED <<answers, hungup, is_connect, net_events, shown>>
  BY DEF thread_receive
<1>2. /\ client_buf \in Seq(Byte) /\ down \in Seq(Byte) /\ Len(client_buf) \in Nat
      /\ Len(down) \in Nat /\ n \in 0 .. Len(down) /\ CLIENT_RECV_LEN \in Nat
  BY LenProperties, ClientConstantsOK DEF DownInv, ClientInv, WriteTypes
<1>3. SubSeq(down, 1, n) \in Seq(Byte) /\ Len(SubSeq(down, 1, n)) = n
  BY <1>2, Taken
<1>4. client_buf' \in Seq(Byte) /\ Len(client_buf') <= CLIENT_RECV_LEN
  <2>1. client_buf' \in Seq(Byte) /\ Len(client_buf') = Len(client_buf) + n
    BY <1>1, <1>2, <1>3, ConcatProperties
  <2> QED
    BY <2>1, <1>1, <1>2
<1>5. client_buf' \o down' = client_buf \o down
  BY <1>1, <1>2, TakenInOrder
<1>6. ~hungup /\ Arriving
  BY <1>1 DEF DownInv
<1>7. UNCHANGED <<Next_answer, Written, DownPackages, writes>>
  BY <1>1 DEF Next_answer, Written, DownPackages, netbusVars
<1>8. Arriving'
  BY <1>1, <1>5, <1>6, <1>7 DEF Arriving
<1>9. ClientInv'
  BY <1>1, <1>4, <1>7 DEF DownInv, ClientInv
<1> QED
  BY <1>1, <1>6, <1>8, <1>9 DEF DownInv, DownMove, netbusVars

\* The thread cuts the next answer off.
LEMMA DownCuts ==
  ASSUME WriteTypes, DownInv, socket_type = "TCP_SOCKET", UNCHANGED <<netbusVars, ws_client>>,
         on_tcp_data
  PROVE  DownInv' /\ DownMove
<1> DEFINE k == Next_answer
           all == client_buf \o down
           size == Len(DownPackages[k])
           queued == Len(net_events)
           given == Len(shown)
<1>1. thread = "cutting" /\ UNCHANGED <<wire, is_connect, thread, shown>>
  BY Zenon DEF on_tcp_data
<1>2. ClientInv /\ Arriving /\ ~hungup
  BY <1>1 DEF DownInv
<1>3. /\ k \in 1 .. Written /\ net_events' = Append(net_events, k)
      /\ client_buf' = rest(size) /\ size \in 0 .. Len(client_buf)
  BY <1>2, NextAnswer
<1>4. /\ client_buf \in Seq(Byte) /\ down \in Seq(Byte) /\ net_events \in Seq(Nat)
      /\ queued \in Nat /\ given \in Nat /\ k = given + queued + 1
      /\ Len(client_buf) \in Nat /\ Len(client_buf) <= CLIENT_RECV_LEN
      /\ Len(answers) \in Nat /\ Len(writes) \in Nat
  BY <1>2, LenProperties DEF ClientInv, WriteTypes, Next_answer
<1>5. Written \in Nat /\ Written <= Len(answers) /\ k \in Nat
  BY <1>2, <1>4 DEF Written, Arriving
<1>6. /\ client_buf' \in Seq(Byte) /\ Len(client_buf') = Len(client_buf) - size
      /\ client_buf' \o down' = SubSeq(all, size + 1, Len(all))
  <2>1. down' = down
    BY <1>1 DEF wire
  <2>2. size \in 0 .. Len(client_buf) /\ client_buf \in Seq(Byte) /\ down \in Seq(Byte)
    BY <1>3, <1>4
  <2>3. client_buf' = SubSeq(client_buf, size + 1, Len(client_buf))
    BY <1>3 DEF rest
  <2> HIDE DEF size
  <2> QED
    BY ONLY <2>1, <2>2, <2>3, CutOff
<1>7. all \in Seq(Byte)
  BY <1>4, ConcatProperties
<1>8. \A j \in k .. Written : DownPackages[j] \in Seq(Byte) /\ DownPackages[j] # <<>>
  <2>1. \A j \in k .. Written : j \in 1 .. Len(answers)
    BY <1>3, <1>4, <1>5
  <2> QED
    BY <2>1, AnswerPackages
<1> HIDE DEF all
<1>9. Stream(all, k, Written, DownPackages)
  BY <1>2 DEF Arriving, all
<1> HIDE DEF k
<1>10. Stream(SubSeq(all, size + 1, Len(all)), k + 1, Written, DownPackages)
  <2>1. k <= Written /\ k \in Nat /\ Written \in Nat
    BY <1>3, <1>5
  <2> QED
    BY ONLY <2>1, <1>7, <1>8, <1>9, StreamTail
<1>11. /\ net_events' \in Seq(Nat) /\ Len(net_events') = queued + 1
       /\ net_events'[queued + 1] = k
       /\ \A i \in 1 .. queued : net_events'[i] = net_events[i]
  BY <1>3, <1>4, <1>5, AppendProperties
<1> HIDE DEF size, queued
<1>12. Next_answer' = k + 1
  BY <1>1, <1>4, <1>11 DEF Next_answer
<1>13. UNCHANGED <<Written, DownPackages, writes, answers>>
  BY <1>1 DEF Written, DownPackages, netbusVars, wire
<1>14. Arriving'
  BY <1>2, <1>6, <1>10, <1>12, <1>13 DEF Arriving
<1>15. ASSUME NEW i \in 1 .. queued + 1
       PROVE  net_events'[i] = given + i
  <2>1. CASE i = queued + 1
    BY <2>1, <1>4, <1>11
  <2>2. CASE i # queued + 1
    <3>1. i \in 1 .. queued
      BY <2>2, <1>4
    <3>2. net_events[i] = given + i
      BY <3>1, <1>2 DEF ClientInv, queued
    <3> QED
      BY <3>1, <3>2, <1>11
  <2> QED
    BY <2>1, <2>2
<1>16. Len(client_buf') <= CLIENT_RECV_LEN
  BY <1>3, <1>4, <1>6, ClientConstantsOK
<1>17. Next_answer' <= Len(answers') + 1
  BY <1>3, <1>4, <1>5, <1>12, <1>13
<1>18. ClientInv'
  BY <1>1, <1>2, <1>6, <1>11, <1>15, <1>16, <1>17 DEF ClientInv, wire
<1> QED
  BY <1>1, <1>2, <1>14, <1>18 DEF DownInv, DownMove, wire

\* The main thread gives the queue to the listeners.
LEMMA DownShows ==
  ASSUME WriteTypes, DownInv, socket_type = "TCP_SOCKET", UNCHANGED <<netbusVars, ws_client>>,
         Update
  PROVE  DownInv' /\ DownMove
<1> DEFINE queued == Len(net_events)
           given == Len(shown)
<1>1. /\ net_events # <<>> /\ shown' = shown \o net_events /\ net_events' = <<>>
      /\ UNCHANGED <<wire, is_connect, thread, client_buf>>
  BY EmptySeq DEF Update, waiting, dispatched
<1>2. /\ net_events \in Seq(Nat) /\ shown \in Seq(Nat) /\ queued \in Nat /\ given \in Nat
      /\ \A i \in 1 .. given : shown[i] = i
      /\ \A i \in 1 .. queued : net_events[i] = given + i
  BY LenProperties DEF DownInv, ClientInv
<1>3. /\ shown' \in Seq(Nat) /\ Len(shown') = given + queued
      /\ \A i \in 1 .. given : shown'[i] = shown[i]
      /\ \A i \in 1 .. queued : shown'[given + i] = net_events[i]
  BY <1>1, <1>2, ConcatProperties
<1>4. net_events' \in Seq(Nat) /\ Len(net_events') = 0
  BY <1>1, EmptySeq
<1>5. Next_answer' = Next_answer
  BY <1>2, <1>3, <1>4 DEF Next_answer
<1> HIDE DEF queued, given
<1>6. ASSUME NEW i \in 1 .. given + queued
      PROVE  shown'[i] = i
  <2>1. CASE i <= given
    <3>1. i \in 1 .. given
      BY <2>1, <1>2
    <3> QED
      BY <3>1, <1>2, <1>3
  <2>2. CASE ~(i <= given)
    <3>1. i - given \in 1 .. queued /\ given + (i - given) = i
      BY <2>2, <1>2
    <3>2. net_events[i - given] = given + (i - given)
      BY <3>1, <1>2
    <3>3. shown'[given + (i - given)] = net_events[i - given]
      BY <3>1, <1>3
    <3> QED
      BY <3>1, <3>2, <3>3
  <2> QED
    BY <2>1, <2>2
<1>7. ClientInv'
  <2>1. \A i \in 1 .. Len(net_events') : net_events'[i] = Len(shown') + i
    BY <1>4
  <2> QED
    BY <1>1, <1>3, <1>4, <1>5, <1>6, <2>1 DEF DownInv, ClientInv, wire
<1>8. UNCHANGED <<Written, DownPackages, client_buf, down, writes, answers>>
  BY <1>1 DEF Written, DownPackages, netbusVars, wire
<1>9. Arriving => Arriving'
  BY <1>5, <1>8 DEF Arriving
<1> QED
  BY <1>1, <1>7, <1>9 DEF DownInv, DownMove, netbusVars, wire

LEMMA ClientDown ==
  ASSUME WriteTypes, DownInv, socket_type = "TCP_SOCKET", client \/ client_closes
  PROVE  DownInv' /\ DownMove
<1>1. UNCHANGED <<netbusVars, ws_client>>
  BY DEF client, client_closes
<1>2. CASE thread_raises \/ close_client
  <2>1. /\ thread' = "ended" /\ hungup' = TRUE /\ is_connect' = FALSE
        /\ UNCHANGED <<answers, down, client_buf, net_events, shown>>
    BY <1>2 DEF thread_raises, close_client
  <2>2. ClientInv'
    BY <2>1 DEF DownInv, ClientInv, Next_answer
  <2> QED
    BY <2>1, <2>2 DEF DownInv, DownMove
<1>3. CASE on_connected_start \/ on_connected \/ thread_begin \/ cut
  <2>1. /\ UNCHANGED <<answers, down, hungup, client_buf, net_events, shown>>
        /\ is_connect' \in BOOLEAN
        /\ thread' \in {"none", "started", "receiving", "cutting", "ended"}
    BY <1>3 DEF on_connected_start, on_connected, thread_begin, cut, wire, DownInv, ClientInv
  <2>2. thread = "ended" => thread' = "ended"
    BY <1>3 DEF on_connected_start, on_connected, thread_begin, cut
  <2>3. ClientInv'
    BY <2>1 DEF DownInv, ClientInv, Next_answer
  <2>4. Arriving => Arriving'
    BY <2>1, <1>1 DEF Arriving, Next_answer, Written, DownPackages, netbusVars
  <2> QED
    BY <2>1, <2>2, <2>3, <2>4 DEF DownInv, DownMove
<1>4. ASSUME NEW n \in 1 .. Len(down), thread_receive(n)
      PROVE  DownInv' /\ DownMove
  BY <1>1, <1>4, DownReceives
<1>5. CASE on_tcp_data
  BY <1>1, <1>5, DownCuts
<1>6. CASE Update
  BY <1>1, <1>6, DownShows
<1> QED
  BY <1>2, <1>3, <1>4, <1>5, <1>6 DEF client, client_closes, ClientNext

LEMMA DownStep ==
  ASSUME UpInv, BlockInv, DownInv, [Next]_vars
  PROVE  DownInv' /\ DownMove
<1>0. WriteTypes
  BY DEF BlockInv
<1>1. CASE loop
  BY <1>0, <1>1, ServerDown
<1>2. CASE socket_type = "TCP_SOCKET" /\ (client \/ client_closes)
  BY <1>0, <1>2, ClientDown
<1>3. CASE tcp_send \/ ws_ask \/ ws_send \/ UNCHANGED vars
  BY <1>3, DownSame DEF tcp_send, send_protobuf_cmd, ws_ask, ws_send, downVars, netbusVars, vars,
    wire
<1>4. CASE ws_accepted \/ ws_hangup
  <2>1. UNCHANGED <<socket_type, answers, clientVars>> /\ hungup' \in BOOLEAN
    BY <1>4 DEF ws_accepted, ws_hangup, netbusVars, DownInv, ClientInv
  <2>2. socket_type # "TCP_SOCKET"
    <3>1. CASE ws_hangup
      BY <3>1 DEF ws_hangup
    <3>2. CASE ws_accepted
      <4>1. ws_client # "new"
        BY <3>2 DEF ws_accepted
      <4> QED
        BY <4>1 DEF UpInv, Shaking, Commands
    <3> QED
      BY <3>1, <3>2, <1>4
  <2>3. Len(answers) \in Nat /\ Len(answers') = Len(answers)
    BY <1>0, <2>1, LenProperties DEF WriteTypes
  <2>4. DownInv'
    BY <2>1, <2>2, <2>3, WebDown
  <2> QED
    BY <2>1, <2>4 DEF DownMove, clientVars
<1> QED
  BY <1>1, <1>2, <1>3, <1>4 DEF Next

LEMMA DownRefines ==
  ASSUME BlockInv, DownInv, DownInv', DownMove
  PROVE  [Down!Next]_(Down!vars)
<1>1. answers \in Seq(AnswerLens) /\ Len(answers) \in Nat
  BY LenProperties DEF BlockInv, WriteTypes
<1>2. CASE UNCHANGED <<answers, shown>>
  BY <1>2 DEF Down!vars
<1>3. ASSUME NEW len \in AnswerLens, answers' = Append(answers, len), shown' = shown
      PROVE  Down!Next
  <2>1. Len(answers') = Len(answers) + 1
    BY <1>1, <1>3, AppendProperties
  <2> QED
    BY <2>1, <1>3 DEF Down!Next, Down!Send
<1>4. CASE answers' = answers /\ net_events # <<>> /\ shown' = shown \o net_events
  <2> DEFINE n == Len(shown')
  <2>1. /\ shown \in Seq(Nat) /\ net_events \in Seq(Nat) /\ shown' \in Seq(Nat)
        /\ \A i \in 1 .. n : shown'[i] = i
        /\ Next_answer <= Len(answers) + 1
    BY DEF DownInv, ClientInv
  <2>2. n = Len(shown) + Len(net_events) /\ Len(net_events) \in Nat /\ Len(shown) \in Nat
    BY <1>4, <2>1, ConcatProperties, LenProperties
  <2>3. Len(net_events) # 0
    BY <1>4, <2>1, EmptySeq
  <2>4. n \in 1 .. Len(answers) /\ n > Len(shown)
    BY <1>1, <2>1, <2>2, <2>3 DEF Next_answer
  <2>5. shown' \in [1 .. n -> Nat]
    BY <2>1, LenProperties
  <2>6. shown' = [i \in 1 .. n |-> i]
    BY <2>1, <2>5
  <2> HIDE DEF n
  <2>7. Len(answers') = Len(answers)
    BY <1>4
  <2>8. Down!Receive(n)
    BY <2>4, <2>6, <2>7 DEF Down!Receive
  <2> QED
    BY <2>4, <2>8 DEF Down!Next
<1> QED
  BY <1>2, <1>3, <1>4 DEF DownMove

\* The server's messages reach the client's listeners as Channel says, through the socket's
\* buffer, the receiving thread and the queue (network.cs, send_data).
THEOREM AnswersInOrder == Spec => DownChannel
<1>1. UpInv /\ BlockInv /\ DownInv /\ [Next]_vars =>
        UpInv' /\ BlockInv' /\ DownInv' /\ [Down!Next]_(Down!vars)
  BY UpStep, BlockStep, DownStep, DownRefines
<1>2. Init => Down!Init
  BY EmptySeq DEF Init, WireInit, ClientInit, Down!Init
<1> QED
  BY <1>1, <1>2, UpInit, BlockInit, DownInit, PTL DEF Spec, DownChannel, Down!Spec

\* No command is handled that was not sent.
LEMMA HandledTypes ==
  ASSUME UpInv
  PROVE  handled \in Seq(0 .. Len(cmds))
<1>1. /\ handled \in Seq(Nat) /\ Len(handled) \in Nat /\ Len(cmds) \in Nat
      /\ DOMAIN handled = 1 .. Len(handled) /\ CommandTypes
  BY LenProperties DEF UpInv, CommandTypes
<1>2. Len(handled) <= Len(cmds)
  <2>1. CASE Shaking
    BY <2>1, <1>1, EmptySeq DEF UpInv, Handshake
  <2>2. CASE ~Shaking
    <3> DEFINE all == recv_buf \o up
    <3>1. all \in Seq(Byte) /\ First \in Nat /\ First = Len(handled) + 1
      BY <1>1, ConcatProperties DEF CommandTypes, First
    <3>2. \A k \in First .. Len(cmds) : UpPackages[k] \in Seq(Byte) /\ UpPackages[k] # <<>>
      <4>1. \A k \in First .. Len(cmds) : k \in 1 .. Len(cmds)
        BY <1>1, <3>1
      <4> QED
        BY <4>1, <1>1, UpPackageBytes
    <3>3. Stream(all, First, Len(cmds), UpPackages)
      BY <2>2 DEF UpInv, Commands
    <3>4. Len(cmds) \in Int
      BY <1>1
    <3> HIDE DEF all
    <3>5. First <= Len(cmds) + 1
      BY ONLY <3>1, <3>2, <3>3, <3>4, StreamFirst
    <3> QED
      BY <1>1, <3>1, <3>5
  <2> QED
    BY <2>1, <2>2
<1>3. \A i \in 1 .. Len(handled) : handled[i] \in 0 .. Len(cmds)
  BY <1>1, <1>2 DEF UpInv
<1> QED
  BY <1>1, <1>3

\* Nor is a message shown that was not sent.
LEMMA ShownTypes ==
  ASSUME BlockInv, DownInv
  PROVE  net_events \in Seq(0 .. Len(answers)) /\ shown \in Seq(0 .. Len(answers))
<1> DEFINE queued == Len(net_events)
           given == Len(shown)
           sent == Len(answers)
<1>1. /\ net_events \in Seq(Nat) /\ shown \in Seq(Nat)
      /\ DOMAIN net_events = 1 .. queued /\ DOMAIN shown = 1 .. given
      /\ queued \in Nat /\ given \in Nat /\ sent \in Nat /\ given + queued <= sent
      /\ \A i \in 1 .. given : shown[i] = i
      /\ \A i \in 1 .. queued : net_events[i] = given + i
  BY LenProperties DEF BlockInv, WriteTypes, DownInv, ClientInv, Next_answer
<1> HIDE DEF queued, given, sent
<1>2. \A i \in 1 .. queued : net_events[i] \in 0 .. sent
  BY <1>1
<1>3. \A i \in 1 .. given : shown[i] \in 0 .. sent
  BY <1>1
<1>4. net_events \in [1 .. queued -> 0 .. sent] /\ shown \in [1 .. given -> 0 .. sent]
  BY <1>1, <1>2, <1>3
<1> QED
  BY <1>1, <1>4 DEF sent

\* Each variable of the connection and of its ends has the type it is meant to have.
THEOREM TransportTypes == Spec => []TypeOK
<1> DEFINE WebTypes == ws_client \in {"new", "asking", "accepted"}
           AllInv == UpInv /\ BlockInv /\ DownInv /\ WebTypes
<1>1. AllInv => TypeOK
  <2> SUFFICES ASSUME AllInv PROVE TypeOK
    OBVIOUS
  <2>1. /\ CommandTypes /\ WriteTypes /\ ClientInv /\ recved \in Nat
        /\ Len(client_buf) \in Nat /\ CLIENT_RECV_LEN \in Nat
    BY LenProperties, ClientConstantsOK DEF UpInv, BlockInv, DownInv, CommandTypes, ClientInv,
      recved
  <2>2. \A w \in DOMAIN writes : writes[w].block \in 0 .. WBUF_CACHE_CAPCITY
    <3>1. \A w \in DOMAIN writes : writes[w] \in Write
      BY <2>1 DEF WriteTypes
    <3> QED
      BY <3>1 DEF Write
  <2>3. \A b \in DOMAIN free_list : free_list[b] \in 1 .. WBUF_CACHE_CAPCITY
    <3>1. free_list \in Seq(BlockNumbers)
      BY <2>1 DEF WriteTypes
    <3>2. \A b \in DOMAIN free_list : free_list[b] \in BlockNumbers
      BY <3>1
    <3> QED
      BY <3>2 DEF BlockNumbers
  <2>4. NetbusTypes
    BY <2>1, <2>2, <2>3, HandledTypes DEF NetbusTypes, CommandTypes, WriteTypes
  <2>5. ClientTypes
    BY <2>1, ShownTypes DEF ClientTypes, ClientInv
  <2> QED
    BY <2>4, <2>5 DEF TypeOK
<1>2. WebTypes /\ [Next]_vars => WebTypes'
  BY DEF Next, loop, client, client_closes, tcp_send, ws_ask, ws_accepted, ws_send, ws_hangup,
    vars
<1>3. AllInv /\ [Next]_vars => AllInv'
  BY <1>2, UpStep, BlockStep, DownStep
<1>4. Init => AllInv
  BY UpInit, BlockInit, DownInit DEF Init
<1> QED
  BY <1>1, <1>3, <1>4, PTL DEF Spec
=============================================================================
