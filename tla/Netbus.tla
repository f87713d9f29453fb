------------------------------- MODULE Netbus -------------------------------
(***************************************************************************)
(* The server's end of a connection: reading bytes into the session's two  *)
(* buffers, cutting them into commands, answering, closing.                *)
(* Source: netbus/netbus.cc, session_uv.cc, service_man.cc.                *)
(*                                                                         *)
(* recv_buf is what has been received and not yet consumed, `recved` bytes *)
(* that lie in the session's array of RECV_LEN bytes, or in long_pkg once  *)
(* that is allocated.  All of it runs on the loop's thread; one iteration  *)
(* of the loop that cuts commands is an action, during which nothing else  *)
(* of the loop runs (`unpacking`).                                         *)
(***************************************************************************)
EXTENDS Wire, CacheAlloc

CONSTANTS
  RECV_LEN,    \* 4096: size of the session's receive array
  SHAKE,       \* length of a websocket client's handshake request
  AnswerLens,  \* lengths of the messages services send, their header included
  MaxAnswers   \* bound: messages services send

ASSUME NetbusConstantsOK ==
  /\ RECV_LEN \in Nat \ {0, 1} /\ SHAKE \in 1 .. RECV_LEN
  /\ AnswerLens \subseteq Nat \ {0} /\ MaxAnswers \in Nat

VARIABLES
  socket_type,    \* "TCP_SOCKET" or "WS_SOCKET"
  is_ws_shake,    \* the websocket handshake is done
  recv_buf,       \* the bytes received and not consumed
  long_pkg_size,  \* size of long_pkg, 0 while it is NULL
  unpacking,      \* the loop that cuts commands is running
  status,         \* "open", "shutdown" (is_shutdown), "closed" (destroyed)
  handled,        \* the commands passed to service_man, in order
  writes,         \* writes that are not completed: bytes and their block
  free_list       \* the cache of write buffers

netbusVars == <<socket_type, is_ws_shake, recv_buf, long_pkg_size, unpacking, status,
                handled, writes, free_list>>

recved == Len(recv_buf)

NetbusTypes ==
  /\ socket_type \in {"TCP_SOCKET", "WS_SOCKET"}
  /\ is_ws_shake \in BOOLEAN /\ unpacking \in BOOLEAN
  /\ long_pkg_size \in Nat /\ recved \in Nat
  /\ status \in {"open", "shutdown", "closed"}
  /\ handled \in Seq(0 .. Len(cmds))
  /\ \A w \in DOMAIN writes : writes[w].block \in 0 .. WBUF_CACHE_CAPCITY
  /\ \A b \in DOMAIN free_list : free_list[b] \in 1 .. WBUF_CACHE_CAPCITY

NetbusInit ==
  /\ socket_type \in {"TCP_SOCKET", "WS_SOCKET"}
  /\ is_ws_shake = FALSE /\ unpacking = FALSE
  /\ recv_buf = <<>> /\ long_pkg_size = 0
  /\ status = "open"
  /\ handled = <<>> /\ writes = <<>>
  /\ free_list = create_cache_allocer

-----------------------------------------------------------------------------
(* Sending *)

\* The accept of a handshake is written as it is, from a static buffer.
ws_accept == <<<<0, 1, FALSE>>>>

\* The bytes of message k as send_data packs them.
packed(k, len) ==
  IF socket_type = "WS_SOCKET" THEN package_ws_send_data(k, len) ELSE package(k, len)

\* uv_write takes nothing after uv_shutdown, and its block is not given back.
uv_write(bytes, block) ==
  writes' = IF status = "open" THEN Append(writes, [bytes |-> bytes, block |-> block])
                               ELSE writes

\* session_uv::send_msg: a block for the encoded message, one for the package,
\* which the write keeps, and the first is given back.
send_msg(len) ==
  LET k == Len(answers) + 1
      bytes == packed(k, len)
      encode_pkg == cache_alloc(free_list, len)
      tp_pkg == cache_alloc(encode_pkg.rest, Len(bytes))
  IN /\ answers' = IF status = "open" THEN Append(answers, len) ELSE answers
     /\ uv_write(bytes, tp_pkg.mem)
     /\ free_list' = cache_free(tp_pkg.rest, encode_pkg.mem)

after_write_keeping(mem) ==  \* fault: does not release the package
  free_list

\* tp_protocol::release_package of a completed write.
after_write_free(mem) == cache_free(free_list, mem)

\* A write completes.
after_write ==
  /\ ~unpacking /\ status # "closed" /\ writes # <<>>
  /\ down' = IF hungup THEN down ELSE down \o Head(writes).bytes
  /\ free_list' = after_write_free(Head(writes).block)
  /\ writes' = Tail(writes)
  /\ UNCHANGED <<cmds, answers, up, hungup, socket_type, is_ws_shake, recv_buf,
                 long_pkg_size, unpacking, status, handled>>

-----------------------------------------------------------------------------
(* Closing *)

shut == IF status = "open" THEN "shutdown" ELSE status

\* on_shutdown once the writes are done, then on_close: the session is destroyed.
destroy ==
  /\ ~unpacking /\ status = "shutdown" /\ writes = <<>>
  /\ status' = "closed"
  /\ UNCHANGED <<wire, socket_type, is_ws_shake, recv_buf, long_pkg_size, unpacking,
                 handled, writes, free_list>>

\* after_read with nread < 0: the client is gone.
read_end ==
  /\ ~unpacking /\ status # "closed" /\ hungup /\ up = <<>>
  /\ status' = shut
  /\ status # shut
  /\ UNCHANGED <<wire, socket_type, is_ws_shake, recv_buf, long_pkg_size, unpacking,
                 handled, writes, free_list>>

-----------------------------------------------------------------------------
(* Receiving *)

\* The header at the beginning of what was received.
read_header ==
  IF recved = 0 THEN NoHeader
  ELSE IF socket_type = "WS_SOCKET" THEN read_ws_header(recv_buf, cmd_lens)
  ELSE tp_read_header(recv_buf, cmd_lens)

\* uv_alloc_buf: long_pkg is allocated when the array is full, as long as the
\* package that fills it.
alloc_long ==
  IF recved < RECV_LEN \/ long_pkg_size # 0 THEN long_pkg_size ELSE read_header.pkg_size

\* The room uv_alloc_buf offers to the read.
Offered == IF recved < RECV_LEN THEN RECV_LEN - recved ELSE alloc_long - recved

\* after_read with n bytes.  A handshake's bytes are kept until all are there,
\* then what was received is dropped.
after_read(n) ==
  /\ ~unpacking /\ status # "closed" /\ n \in 1 .. Offered /\ n <= Len(up)
  /\ LET data == recv_buf \o SubSeq(up, 1, n)
         shaking == socket_type = "WS_SOCKET" /\ ~is_ws_shake
         shaken == shaking /\ Len(data) >= SHAKE
     IN /\ recv_buf' = IF shaken THEN <<>> ELSE data
        /\ is_ws_shake' = (is_ws_shake \/ shaken)
        /\ IF shaken THEN uv_write(ws_accept, Heap) ELSE UNCHANGED writes
        /\ unpacking' = ~shaking
  /\ up' = SubSeq(up, n + 1, Len(up))
  /\ long_pkg_size' = alloc_long
  /\ UNCHANGED <<cmds, answers, down, hungup, socket_type, status, handled, free_list>>

\* on_recv_client_cmd: the message goes to its service, which may answer; if no
\* service takes it the session is closed.
on_recv_client_cmd(k) ==
  /\ handled' = Append(handled, k)
  /\ IF k \in DOMAIN cmds /\ cmds[k].kind = "refused"
     THEN status' = shut /\ UNCHANGED <<answers, writes, free_list>>
     ELSE /\ UNCHANGED status
          /\ \/ Len(answers) < MaxAnswers /\ \E len \in AnswerLens : send_msg(len)
             \/ UNCHANGED <<answers, writes, free_list>>

unshifted(pkg_size) ==  \* fault: no memmove
  SubSeq(recv_buf, 1, recved - pkg_size)

\* memmove: what is behind the package becomes the beginning.
shifted(pkg_size) == SubSeq(recv_buf, pkg_size + 1, recved)

long_kept(left) ==  \* fault: long_pkg is not freed
  long_pkg_size

\* long_pkg is freed when nothing is left in it.
long_freed(left) == IF left = 0 THEN 0 ELSE long_pkg_size

complete_with_more(header) ==  \* fault: waits for a byte more than the package
  recved > header.pkg_size

\* The whole package is there.
complete(header) == recved >= header.pkg_size

\* A frame that is a close.
is_close ==
  /\ socket_type = "WS_SOCKET" /\ recved > 0
  /\ recv_buf[1][2] = 1 /\ cmds[recv_buf[1][1]].kind = "close"

\* A package too small to hold a message (TCP only).
is_empty(header) == socket_type = "TCP_SOCKET" /\ header.ok /\ header.pkg_size <= header.head_size

\* One command is cut off and handled.
unpack ==
  LET header == read_header
      left == recved - header.pkg_size
      from == header.head_size + 1
      data == IF socket_type = "WS_SOCKET"
              THEN parser_ws_recv_data(recv_buf, from, header.pkg_size) ELSE recv_buf
      body == SubSeq(data, from, header.pkg_size)
  IN /\ unpacking /\ ~is_close
     /\ header.ok /\ ~is_empty(header) /\ complete(header)
     /\ on_recv_client_cmd(Message(body, header.head_size, cmd_lens))
     /\ recv_buf' = shifted(header.pkg_size)
     /\ long_pkg_size' = long_freed(left)
     /\ UNCHANGED <<cmds, up, down, hungup, socket_type, is_ws_shake, unpacking>>

\* The loop ends: nothing is left, or not a whole package, or what closes the session.
unpacked ==
  LET header == read_header
      closing == recved > 0 /\ (is_close \/ is_empty(header))
  IN /\ unpacking
     /\ recved = 0 \/ closing \/ ~header.ok \/ ~complete(header)
     /\ unpacking' = FALSE
     /\ status' = IF closing THEN shut ELSE status
     /\ UNCHANGED <<wire, socket_type, is_ws_shake, recv_buf, long_pkg_size, handled,
                    writes, free_list>>

NetbusNext ==
  \/ after_write \/ destroy \/ read_end
  \/ \E n \in 1 .. Len(up) : after_read(n)
  \/ unpack \/ unpacked
=============================================================================
