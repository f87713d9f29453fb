------------------------------- MODULE Gateway -------------------------------
(***************************************************************************)
(* The gateway: which connection a request and its answer belong to.       *)
(* Before login an answer finds its connection by a tag (utag), after it   *)
(* by the account's uid; a second login of an account closes the first     *)
(* connection, and the servers are told of lost players.                   *)
(* Source: apps/lua/scripts/gateway/gw_service.lua, with the life of a     *)
(* session in netbus/{netbus,session_uv,service_man}.cc.                   *)
(*                                                                         *)
(* A session is the address of its object: the allocator gives the address *)
(* of a destroyed session to a later connection, and Lua compares sessions *)
(* by address.  Everything runs on one loop thread, so a handler, with the *)
(* disconnect callbacks that run inside Session.close, is one action.      *)
(*                                                                         *)
(* The auth server answers logins in the order of its database, logouts at *)
(* once.  Its link is `pending`: the requests not yet answered; an answer  *)
(* reaches the gateway in the step that takes its request.                 *)
(***************************************************************************)
EXTENDS Integers, Sequences, SequencesExt

CONSTANTS
  Sessions,     \* addresses of session objects
  Uids,         \* accounts
  NoUid,        \* uid 0
  Nil,          \* Lua's nil where a session is expected
  Stypes,       \* the servers of game_config, Auth and Logic among them
  Auth, Logic,
  Impatient,    \* clients log in to another account without waiting for the last answer
  LateReads,    \* requests are read from a session between close and uv_close
  MaxTag,       \* bound: utags given out
  MaxPending,   \* bound: requests at the auth server
  MaxAttempts   \* bound: connection attempts to one server at a time

ASSUME GatewayConstantsOK ==
  /\ Nil \notin Sessions /\ NoUid \notin Uids
  /\ Auth \in Stypes /\ Logic \in Stypes /\ Auth # Logic
  /\ Impatient \in BOOLEAN /\ LateReads \in BOOLEAN
  /\ MaxTag \in Nat \ {0} /\ MaxPending \in Nat /\ MaxAttempts \in Nat \ {0}

Tags == 1 .. MaxTag
SessionOrNil == Sessions \cup {Nil}

Request == [kind : {"login"}, utag : Tags, uid : Uids]
             \cup [kind : {"logout"}, utag : {0}, uid : Uids]

VARIABLES
  server_session_man,    \* servers the gateway is connected to
  do_connecting,         \* servers whose flag says that a connection is being made
  attempts,              \* server -> connection attempts whose callback is to come
  g_ukey,                \* next utag
  client_sessions_ukey,  \* utag -> session that waits for a login's answer
  client_sessions_uid,   \* uid -> session logged in as it
  status,                \* session -> free, open, or closing (shut down, not yet destroyed)
  utag,                  \* session -> its utag, 0 for none
  uid,                   \* session -> its uid
  pending,               \* requests the auth server has not answered
  told                   \* uid -> what the logic server was told of it over this connection

serverVars == <<server_session_man, do_connecting, attempts>>
routeVars == <<client_sessions_ukey, client_sessions_uid>>
vars == <<serverVars, g_ukey, routeVars, status, utag, uid, pending, told>>

LinkTypes ==
  /\ server_session_man \subseteq Stypes /\ do_connecting \subseteq Stypes
  /\ attempts \in [Stypes -> 0 .. MaxAttempts]
RouteTypes ==
  /\ client_sessions_ukey \in [Tags -> SessionOrNil]
  /\ client_sessions_uid \in [Uids -> SessionOrNil]
SessionTypes ==
  /\ g_ukey \in 1 .. MaxTag + 1
  /\ status \in [Sessions -> {"free", "open", "closing"}]
  /\ utag \in [Sessions -> Tags \cup {0}]
  /\ uid \in [Sessions -> Uids \cup {NoUid}]
PendingType == pending \in Seq(Request)
ToldType == told \in [Uids -> {"nothing", "login", "logged out"}]

TypeOK == LinkTypes /\ RouteTypes /\ SessionTypes /\ PendingType /\ ToldType

Init ==
  /\ server_session_man = {}
  /\ do_connecting = Stypes
  /\ attempts \in [Stypes -> 0 .. 1]  \* 0: failed at once, see chick_server_connect
  /\ g_ukey = 1
  /\ client_sessions_ukey = [t \in Tags |-> Nil]
  /\ client_sessions_uid = [u \in Uids |-> Nil]
  /\ status = [s \in Sessions |-> "free"]
  /\ utag = [s \in Sessions |-> 0]
  /\ uid = [s \in Sessions |-> NoUid]
  /\ pending = <<>>
  /\ told = [u \in Uids |-> "nothing"]

-----------------------------------------------------------------------------
(* Connections to the servers *)

Missing_any ==  \* fault: does not look at do_connecting
  Stypes \ server_session_man

\* The servers that are neither connected nor being connected.
Missing == Stypes \ (server_session_man \cup do_connecting)

\* The 1 s timer: connect to every missing server.  An attempt that fails at
\* once (failing) has no callback.
chick_server_connect ==
  \E failing \in SUBSET Missing :
    /\ Missing # {}
    /\ \A st \in Missing : attempts[st] < MaxAttempts
    /\ do_connecting' = do_connecting \cup Missing
    /\ attempts' = [st \in Stypes |-> IF st \in Missing \ failing THEN attempts[st] + 1
                                                                  ELSE attempts[st]]
    /\ UNCHANGED <<server_session_man, g_ukey, routeVars, status, utag, uid, pending, told>>

\* after_connect: the attempt succeeds, or fails.
server_connected(st) ==
  /\ attempts[st] > 0
  /\ attempts' = [attempts EXCEPT ![st] = attempts[st] - 1]
  /\ do_connecting' = do_connecting \ {st}
  /\ server_session_man' = server_session_man \cup {st}
  /\ UNCHANGED <<g_ukey, routeVars, status, utag, uid, pending, told>>

server_connect_failed(st) ==
  /\ attempts[st] > 0
  /\ attempts' = [attempts EXCEPT ![st] = attempts[st] - 1]
  /\ do_connecting' = do_connecting \ {st}
  /\ UNCHANGED <<server_session_man, g_ukey, routeVars, status, utag, uid, pending, told>>

\* The connection to a server is lost, with what is under way on it.  What the
\* logic server was told counts per connection: it may have missed the rest.
server_disconnected(st) ==
  /\ st \in server_session_man
  /\ server_session_man' = server_session_man \ {st}
  /\ pending' = IF st = Auth THEN <<>> ELSE pending
  /\ told' = IF st = Logic THEN [u \in Uids |-> "nothing"] ELSE told
  /\ UNCHANGED <<do_connecting, attempts, g_ukey, routeVars, status, utag, uid>>

-----------------------------------------------------------------------------
(* The life of a client's session *)

uv_connection(s) ==
  /\ status[s] = "free"
  /\ status' = [status EXCEPT ![s] = "open"]
  /\ utag' = [utag EXCEPT ![s] = 0]
  /\ uid' = [uid EXCEPT ![s] = NoUid]
  /\ UNCHANGED <<serverVars, g_ukey, routeVars, pending, told>>

\* on_gw_session_disconnect of the sessions C: what it leaves of the maps, of
\* their utags, and of what the logic server has been told (eUserLostConn).
ukey_cleared_to_zero(C) ==  \* fault: clears to 0 instead of nil
  [t \in Tags |-> IF client_sessions_ukey[t] \in C THEN 0 ELSE client_sessions_ukey[t]]
ukey_without(C) ==
  [t \in Tags |-> IF client_sessions_ukey[t] \in C /\ utag[client_sessions_ukey[t]] = t
                  THEN Nil ELSE client_sessions_ukey[t]]
utag_without(C) ==
  [s \in Sessions |-> IF s \in C /\ utag[s] \in Tags /\ client_sessions_ukey[utag[s]] = s
                      THEN 0 ELSE utag[s]]
uid_kept(C) ==  \* fault: forgets the uid map
  client_sessions_uid
uid_without(C) ==
  [u \in Uids |-> IF client_sessions_uid[u] \in C /\ uid[client_sessions_uid[u]] = u
                  THEN Nil ELSE client_sessions_uid[u]]
told_lost_by_map(C) ==  \* fault: asks the map, which has just been cleared, who is lost
  [u \in Uids |-> IF Logic \in server_session_man /\ uid_without(C)[u] \in C
                  THEN "nothing" ELSE told[u]]
told_lost(C) ==
  [u \in Uids |-> IF Logic \in server_session_man /\ \E s \in C : uid[s] = u
                  THEN "nothing" ELSE told[u]]
closed_but_open(C) ==  \* fault: is_shutdown is not set, a session can be closed again
  status
closed(C) == [s \in Sessions |-> IF s \in C THEN "closing" ELSE status[s]]

\* session_uv::close, after the client hung up or sent what cannot be read.
close(s) ==
  /\ status[s] = "open"
  /\ status' = closed({s})
  /\ client_sessions_ukey' = ukey_without({s})
  /\ client_sessions_uid' = uid_without({s})
  /\ utag' = utag_without({s})
  /\ told' = told_lost({s})
  /\ UNCHANGED <<serverVars, g_ukey, uid, pending>>

\* on_close: the session object is destroyed.
destroy(s) ==
  /\ status[s] = "closing"
  /\ status' = [status EXCEPT ![s] = "free"]
  /\ UNCHANGED <<serverVars, g_ukey, routeVars, utag, uid, pending, told>>

-----------------------------------------------------------------------------
(* send_to_server: requests of clients.  Those that are refused (no server, *)
(* not logged in) change nothing.                                           *)

\* after_read and the loops that take packets apart do not look at is_shutdown.
Reads(s) == status[s] = "open" \/ (LateReads /\ status[s] = "closing")

\* A patient client has one account in mind until it is logged out and answered.
MayAsk(s, u) ==
  \/ Impatient
  \/ /\ uid[s] \in {NoUid, u}
     /\ \A i \in DOMAIN pending :
          pending[i].kind = "login" /\ pending[i].utag = utag[s] => pending[i].uid = u

tag_of_reused(s) ==  \* fault: gives a utag again once no login waits under it
  LET unused == {t \in Tags : client_sessions_ukey[t] = Nil} IN
  IF utag[s] # 0 THEN utag[s]
  ELSE IF unused = {} THEN g_ukey ELSE CHOOSE t \in unused : \A r \in unused : t <= r

\* The utag a login is forwarded under.
tag_of(s) == IF utag[s] = 0 THEN g_ukey ELSE utag[s]

\* eGuestLoginReq, eUnameLoginReq.
login_request(s, u) ==
  LET tag == tag_of(s) IN
  /\ Reads(s) /\ MayAsk(s, u)
  /\ Auth \in server_session_man
  /\ Len(pending) < MaxPending
  /\ tag <= MaxTag
  /\ utag' = [utag EXCEPT ![s] = tag]
  /\ g_ukey' = IF utag[s] = 0 THEN g_ukey + 1 ELSE g_ukey
  /\ client_sessions_ukey' = [client_sessions_ukey EXCEPT ![tag] = s]
  /\ pending' = Append(pending, [kind |-> "login", utag |-> tag, uid |-> u])
  /\ UNCHANGED <<serverVars, client_sessions_uid, status, uid, told>>

\* eLoginLogicReq.  The message goes out twice, to the same effect on `told'.
login_logic_request(s) ==
  /\ Reads(s)
  /\ Logic \in server_session_man
  /\ uid[s] # NoUid
  /\ told' = [told EXCEPT ![uid[s]] = "login"]
  /\ UNCHANGED <<serverVars, g_ukey, routeVars, status, utag, uid, pending>>

\* eLoginOutReq, the one other request whose answer changes the gateway.
login_out_request(s) ==
  /\ Reads(s)
  /\ Auth \in server_session_man
  /\ uid[s] # NoUid
  /\ Len(pending) < MaxPending
  /\ pending' = Append(pending, [kind |-> "logout", utag |-> 0, uid |-> uid[s]])
  /\ UNCHANGED <<serverVars, g_ukey, routeVars, status, utag, uid, told>>

-----------------------------------------------------------------------------
(* send_to_client: answers of the auth server *)

\* The next answer may be that of request i: a logout is answered before
\* anything that was asked after it.
Answered(i) ==
  /\ \A j \in 1 .. i - 1 : pending[j].kind = "login"
  /\ pending' = RemoveAt(pending, i)

\* A call on a session that is destroyed ends the process.
Alive(s) == status[s] # "free"

relogin_never(s, u) ==  \* fault: does not close the account's older session
  {}

\* The session a login as u closes: the one that holds u, if another one.
\* Closing what is closed already does nothing.
relogin(s, u) ==
  {old \in Sessions : old = client_sessions_uid[u] /\ old # s /\ status[old] = "open"}

login_ok(i) ==
  LET t == pending[i].utag
      u == pending[i].uid
      s == client_sessions_ukey[t]
      old == relogin(s, u)
  IN
  /\ pending[i].kind = "login"
  /\ Answered(i)
  /\ s # Nil /\ Alive(s)
  /\ client_sessions_uid[u] \in Sessions => Alive(client_sessions_uid[u])
  /\ status' = closed(old)
  /\ client_sessions_ukey' = [ukey_without(old) EXCEPT ![t] = Nil]
  /\ client_sessions_uid' = [uid_without(old) EXCEPT ![u] = s]
  /\ utag' = utag_without(old)
  /\ uid' = [uid EXCEPT ![s] = u]
  /\ told' = told_lost(old)
  /\ UNCHANGED <<serverVars, g_ukey>>

\* The status is not OK, or nobody waits for the answer any more.
login_refused(i) ==
  LET t == pending[i].utag IN
  /\ pending[i].kind = "login"
  /\ Answered(i)
  /\ client_sessions_ukey[t] \in Sessions => Alive(client_sessions_ukey[t])
  /\ client_sessions_ukey' = [client_sessions_ukey EXCEPT ![t] = Nil]
  /\ UNCHANGED <<serverVars, g_ukey, client_sessions_uid, status, utag, uid, told>>

\* do_login answers malformed credentials with eUnameLoginReq, which is routed
\* as if the utag were a uid: whoever asked keeps waiting.
login_misrouted(i) ==
  /\ pending[i].kind = "login"
  /\ Answered(i)
  /\ UNCHANGED <<serverVars, g_ukey, routeVars, status, utag, uid, told>>

\* eLoginOutRes.  The logic server is not told.
login_out_answer(i) ==
  LET u == pending[i].uid
      s == client_sessions_uid[u]
  IN
  /\ pending[i].kind = "logout"
  /\ Answered(i)
  /\ \/ /\ s # Nil /\ Alive(s)
        /\ uid' = [uid EXCEPT ![s] = NoUid]
        /\ client_sessions_uid' = [client_sessions_uid EXCEPT ![u] = Nil]
        /\ told' = IF told[u] = "login" THEN [told EXCEPT ![u] = "logged out"] ELSE told
     \/ /\ s = Nil
        /\ UNCHANGED <<uid, client_sessions_uid, told>>
  /\ UNCHANGED <<serverVars, g_ukey, client_sessions_ukey, status, utag>>

-----------------------------------------------------------------------------
Next ==
  \/ chick_server_connect
  \/ \E st \in Stypes :
       server_connected(st) \/ server_connect_failed(st) \/ server_disconnected(st)
  \/ \E s \in Sessions :
       \/ uv_connection(s) \/ close(s) \/ destroy(s)
       \/ \E u \in Uids : login_request(s, u)
       \/ login_logic_request(s) \/ login_out_request(s)
  \/ \E i \in DOMAIN pending :
       login_ok(i) \/ login_refused(i) \/ login_misrouted(i) \/ login_out_answer(i)

Spec == Init /\ [][Next]_vars

-----------------------------------------------------------------------------
(* Safety *)

\* The session that is open and logged in as u is the one u's messages go to:
\* an account is never logged in on two open connections, whatever clients
\* send, and however logins, logouts and disconnects cross each other.
OneSession ==
  \A s \in Sessions :
    status[s] = "open" /\ uid[s] # NoUid => client_sessions_uid[uid[s]] = s

\* Both maps lead only to open sessions that carry the key: no answer reaches a
\* later connection at the address of a destroyed session (lines 201-214 clear
\* what the session was registered under when it ends).
MapsAgree ==
  /\ \A t \in Tags : LET s == client_sessions_ukey[t] IN
       s # Nil => status[s] = "open" /\ utag[s] = t
  /\ \A u \in Uids : LET s == client_sessions_uid[u] IN
       s # Nil => status[s] = "open" /\ uid[s] = u

\* No two sessions share a utag, so no answer to a login can be taken for
\* another's (g_ukey counts up; a reused address starts without a utag).
TagsDistinct ==
  \A s, r \in Sessions :
    s # r /\ status[s] # "free" /\ status[r] # "free" /\ utag[s] # 0 => utag[s] # utag[r]

\* Whom the logic server was told to have logged in, and who did not log out
\* since, is on an open connection: no way of ending a session forgets
\* eUserLostConn.
NoGhost ==
  \A u \in Uids : told[u] = "login" => \E s \in Sessions : status[s] = "open" /\ uid[s] = u

\* A server has one connection, made or being made (do_connecting).
OneLink ==
  \A st \in Stypes : attempts[st] + (IF st \in server_session_man THEN 1 ELSE 0) <= 1

\* While a player stays on its connection, and the logic server too, the logic
\* server is not told that the player is lost: the end of an older session of
\* the same account does not undo the login of the newer one.
LoginStands ==
  [][\A s \in Sessions :
       LET u == uid[s] IN
         /\ status[s] = "open" /\ u # NoUid /\ told[u] = "login"
         /\ status'[s] = "open" /\ uid'[s] = u
         /\ Logic \in server_session_man'
         => told'[u] = "login"]_vars

\* gw_service.lua:222 has it that a user who goes offline is announced
\* (violated: after a logout the uid is 0, and nothing is announced any more).
LostIsTold ==
  \A u \in Uids : told[u] # "nothing" => \E s \in Sessions : status[s] = "open"

=============================================================================
