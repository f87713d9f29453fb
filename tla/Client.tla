------------------------------- MODULE Client -------------------------------
(***************************************************************************)
(* The Unity client's end of a TCP connection: a thread that reads and     *)
(* cuts messages and puts them into a queue, the main thread that takes    *)
(* them out, and the callback that starts the first.                       *)
(* Source: unity_moba_client, network/network.cs and tcp_packer.cs.        *)
(***************************************************************************)
EXTENDS Wire

CONSTANT CLIENT_RECV_LEN  \* RECV_LEN of network.cs, 8192

ASSUME ClientConstantsOK == CLIENT_RECV_LEN \in Nat \ {0, 1}

VARIABLES
  is_connect,   \* the main thread's flag
  thread,       \* recv_thread: "none", "started", "receiving", "cutting", "ended"
  client_buf,   \* the bytes received and not consumed (recv_buf, recved)
  net_events,   \* the queue
  shown         \* messages given to the listeners, in order

clientVars == <<is_connect, thread, client_buf, net_events, shown>>

ClientTypes ==
  /\ is_connect \in BOOLEAN
  /\ thread \in {"none", "started", "receiving", "cutting", "ended"}
  /\ Len(client_buf) \in 0 .. CLIENT_RECV_LEN
  /\ net_events \in Seq(0 .. Len(answers)) /\ shown \in Seq(0 .. Len(answers))

ClientInit ==
  /\ is_connect = FALSE /\ thread = "none"
  /\ client_buf = <<>> /\ net_events = <<>> /\ shown = <<>>

\* on_connected starts the thread first and sets the flag after that.
on_connected_start ==
  /\ thread = "none" /\ ~hungup
  /\ thread' = "started"
  /\ UNCHANGED <<wire, is_connect, client_buf, net_events, shown>>

on_connected ==
  /\ thread # "none" /\ ~is_connect /\ ~hungup
  /\ is_connect' = TRUE
  /\ UNCHANGED <<wire, thread, client_buf, net_events, shown>>

\* The thread returns at once if it is faster than the callback.
thread_begin ==
  /\ thread = "started"
  /\ thread' = IF is_connect THEN "receiving" ELSE "ended"
  /\ UNCHANGED <<wire, is_connect, client_buf, net_events, shown>>

\* Receive into the room that is left in the array.
thread_receive(n) ==
  /\ thread = "receiving" /\ Len(client_buf) < CLIENT_RECV_LEN
  /\ n \in 1 .. CLIENT_RECV_LEN - Len(client_buf) /\ n <= Len(down)
  /\ client_buf' = client_buf \o SubSeq(down, 1, n)
  /\ down' = SubSeq(down, n + 1, Len(down))
  /\ thread' = "cutting"
  /\ UNCHANGED <<cmds, answers, up, hungup, is_connect, net_events, shown>>

\* With the array full the next Receive asks for long_pkg_size bytes at offset
\* recved of long_pkg, more than it has: it raises, and the thread ends.
thread_raises ==
  /\ thread = "receiving" /\ Len(client_buf) >= CLIENT_RECV_LEN
  /\ thread' = "ended" /\ is_connect' = FALSE /\ hungup' = TRUE
  /\ UNCHANGED <<cmds, answers, up, down, client_buf, net_events, shown>>

\* What is behind the package is copied to the beginning of a new array.
rest(pkg_size) == SubSeq(client_buf, pkg_size + 1, Len(client_buf))

\* One iteration of on_tcp_data; on_recv_cmd queues the message under the lock.
on_tcp_data ==
  LET header == tp_read_header(client_buf, answers)
      body == SubSeq(client_buf, header.head_size + 1, header.pkg_size)
  IN /\ thread = "cutting"
     /\ header.ok /\ Len(client_buf) >= header.pkg_size
     /\ net_events' = Append(net_events, Message(body, header.head_size, answers))
     /\ client_buf' = rest(header.pkg_size)
     /\ UNCHANGED <<wire, is_connect, thread, shown>>

cut ==
  LET header == tp_read_header(client_buf, answers)
  IN /\ thread = "cutting"
     /\ ~header.ok \/ Len(client_buf) < header.pkg_size
     /\ thread' = "receiving"
     /\ UNCHANGED <<wire, is_connect, client_buf, net_events, shown>>

reversed(queue) ==  \* fault: takes the newest first
  [i \in DOMAIN queue |-> queue[Len(queue) + 1 - i]]

\* What the listeners get of the queue.
dispatched(queue) == queue

waiting_several(queue) ==  \* fault: leaves the last one in the queue
  Len(queue) > 1

waiting(queue) == Len(queue) > 0

\* The main thread empties the queue under the lock.
Update ==
  /\ waiting(net_events)
  /\ shown' = shown \o dispatched(net_events)
  /\ net_events' = <<>>
  /\ UNCHANGED <<wire, is_connect, thread, client_buf>>

\* close_client: only when is_connect is set.
close_client ==
  /\ is_connect
  /\ is_connect' = FALSE /\ thread' = "ended" /\ hungup' = TRUE
  /\ UNCHANGED <<cmds, answers, up, down, client_buf, net_events, shown>>

\* send_protobuf_cmd; pack returns null for what its header cannot hold.
send_protobuf_cmd(len, kind) ==
  /\ thread # "none" /\ ~hungup
  /\ len <= WIDTH - 1 - tp_head_size
  /\ cmds' = Append(cmds, [len |-> len, kind |-> kind])
  /\ up' = up \o package(Len(cmds) + 1, len)
  /\ UNCHANGED <<answers, down, hungup, clientVars>>

ClientNext ==
  \/ on_connected_start \/ on_connected \/ thread_begin
  \/ \E n \in 1 .. Len(down) : thread_receive(n)
  \/ thread_raises \/ on_tcp_data \/ cut
  \/ Update
=============================================================================
