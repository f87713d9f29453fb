----------------------------- MODULE Transport ------------------------------
(***************************************************************************)
(* A connection with both ends: the server's session and a client, the     *)
(* game's on TCP, any other on a websocket.  Each direction is a Channel.  *)
(***************************************************************************)
EXTENDS Netbus, Client

CONSTANTS
  CommandLens,  \* lengths of the commands clients send, their header included
  MaxCmds       \* bound: commands of one behaviour

ASSUME TransportConstantsOK ==
  /\ MaxCmds \in Nat
  /\ CommandLens \subseteq Nat \ {0}
  /\ \A len \in CommandLens : ws_head_size(len) <= RECV_LEN /\ len < LEN16
  /\ \A len \in AnswerLens : len < LEN16 /\ len < WIDTH - tp_head_size

VARIABLE ws_client  \* a websocket client: "new", "asking", "accepted"

vars == <<wire, netbusVars, clientVars, ws_client>>

TypeOK ==
  /\ NetbusTypes /\ ClientTypes
  /\ ws_client \in {"new", "asking", "accepted"}

Init == WireInit /\ NetbusInit /\ ClientInit /\ ws_client = "new"

\* Nothing is sent behind a message that makes the server close.
MaySend ==
  /\ Len(cmds) < MaxCmds /\ ~hungup
  /\ \A k \in DOMAIN cmds : cmds[k].kind \notin {"close", "empty"}

\* The game's client sends commands; another one may send what has no service,
\* or no content.
tcp_send ==
  /\ socket_type = "TCP_SOCKET" /\ MaySend
  /\ \/ \E len \in CommandLens, kind \in {"cmd", "refused"} : send_protobuf_cmd(len, kind)
     \/ send_protobuf_cmd(0, "empty")
  /\ UNCHANGED <<netbusVars, ws_client>>

-----------------------------------------------------------------------------
(* A websocket client *)

ws_ask ==
  /\ socket_type = "WS_SOCKET" /\ ws_client = "new"
  /\ ws_client' = "asking"
  /\ up' = [i \in 1 .. SHAKE |-> <<0, i, FALSE>>]
  /\ UNCHANGED <<cmds, answers, down, hungup, netbusVars, clientVars>>

\* It takes the server's accept for what it is only if nothing is before it.
ws_accepted ==
  /\ ws_client = "asking" /\ Len(down) >= Len(ws_accept)
  /\ SubSeq(down, 1, Len(ws_accept)) = ws_accept
  /\ ws_client' = "accepted"
  /\ down' = SubSeq(down, Len(ws_accept) + 1, Len(down))
  /\ UNCHANGED <<cmds, answers, up, hungup, netbusVars, clientVars>>

ws_send ==
  /\ ws_client = "accepted" /\ MaySend
  /\ \E len \in CommandLens, kind \in {"cmd", "close"} :
       /\ cmds' = Append(cmds, [len |-> len, kind |-> kind])
       /\ up' = up \o ws_frame(Len(cmds) + 1, len)
  /\ UNCHANGED <<answers, down, hungup, netbusVars, clientVars, ws_client>>

ws_hangup ==
  /\ socket_type = "WS_SOCKET" /\ ~hungup
  /\ hungup' = TRUE
  /\ UNCHANGED <<cmds, answers, up, down, netbusVars, clientVars, ws_client>>

-----------------------------------------------------------------------------

loop == NetbusNext /\ UNCHANGED <<clientVars, ws_client>>

client == ClientNext /\ UNCHANGED <<netbusVars, ws_client>>

client_closes == close_client /\ UNCHANGED <<netbusVars, ws_client>>

Next ==
  \/ loop
  \/ socket_type = "TCP_SOCKET" /\ (client \/ client_closes)
  \/ tcp_send
  \/ ws_ask \/ ws_accepted \/ ws_send \/ ws_hangup

\* The server's loop runs what is ready, and the client's threads are scheduled.
Fairness == WF_vars(loop) /\ WF_vars(socket_type = "TCP_SOCKET" /\ client)

Spec == Init /\ [][Next]_vars
FairSpec == Spec /\ Fairness

-----------------------------------------------------------------------------
(* Properties *)

\* Whatever pieces the bytes arrive in, and however long the packages are, the
\* server's services get the client's commands whole, unmasked, once each and in
\* order (on_recv_tcp_data, on_recv_ws_data, uv_alloc_buf).
Up == INSTANCE Channel WITH sent <- Len(cmds), got <- handled
UpChannel == Up!Spec

\* The client's listeners get the server's messages whole, once each and in order,
\* through the thread and the queue (network.cs, send_data).
Down == INSTANCE Channel WITH sent <- Len(answers), got <- shown
DownChannel == Down!Spec

\* Whenever the session can read, it offers the read some room, and no more than
\* there is: an empty buffer would end the connection (UV_ENOBUFS), a larger one
\* overrun long_pkg.  What is in long_pkg is the beginning of the package it was
\* allocated for.
ReadsHaveRoom ==
  status = "open" /\ ~unpacking =>
    /\ Offered > 0
    /\ long_pkg_size # 0 => recved \in RECV_LEN .. long_pkg_size - 1

\* While the session is open every block of the cache is free or belongs to one
\* pending write (send_msg, after_write): none is lost, none used twice.
BlocksAccounted ==
  LET used == [w \in DOMAIN writes |-> writes[w].block]
      held == {w \in DOMAIN used : used[w] # Heap}
  IN /\ \A v, w \in held : used[v] = used[w] => v = w
     /\ \A a, b \in DOMAIN free_list : free_list[a] = free_list[b] => a = b
     /\ \A w \in held, b \in DOMAIN free_list : used[w] # free_list[b]
     /\ status = "open" =>
          {used[w] : w \in held} \cup {free_list[b] : b \in DOMAIN free_list}
            = 1 .. WBUF_CACHE_CAPCITY

\* The server catches up with the commands, unless the session closes.
CommandsHandled ==
  Len(handled) < Len(cmds) ~> Len(handled) = Len(cmds) \/ status # "open"

\* The client catches up with the server's messages, unless the connection ends at
\* either side or the receiving thread has ended.
MessagesShown ==
  Len(shown) < Len(answers) ~>
    \/ Len(shown) = Len(answers)
    \/ status # "open" \/ hungup \/ thread \in {"none", "ended"}
=============================================================================
