---------------------------- MODULE GatewayProofs ----------------------------
(***************************************************************************)
(* What TLAPS proves of Gateway for any number of sessions, accounts and   *)
(* servers.                                                                *)
(***************************************************************************)
EXTENDS Gateway, QueueLemmas

-----------------------------------------------------------------------------
(* Types *)

\* What Answered leaves: a sequence of requests that were there before.
LEMMA AnsweredPending ==
  ASSUME PendingType, NEW i \in DOMAIN pending, Answered(i)
  PROVE  /\ PendingType'
         /\ \A j \in DOMAIN pending' : \E k \in DOMAIN pending : pending'[j] = pending[k]
BY RemoveAtElements DEF PendingType, Answered

\* The requests' fields.
LEMMA Requests ==
  ASSUME PendingType, NEW i \in DOMAIN pending
  PROVE  /\ pending[i].uid \in Uids
         /\ pending[i].kind \in {"login", "logout"}
         /\ pending[i].kind = "login" => pending[i].utag \in Tags
<1>1. pending[i] \in Request
  BY DEF PendingType
<1> QED
  BY <1>1 DEF Request

\* What clients append.
LEMMA AppendRequest ==
  ASSUME PendingType, NEW r \in Request
  PROVE  Append(pending, r) \in Seq(Request)
BY DEF PendingType

\* Maps and sessions without the sessions C keep their types.
LEMMA WithoutTypes ==
  ASSUME TypeOK, NEW C \in SUBSET Sessions
  PROVE  /\ ukey_without(C) \in [Tags -> SessionOrNil]
         /\ uid_without(C) \in [Uids -> SessionOrNil]
         /\ utag_without(C) \in [Sessions -> Tags \cup {0}]
         /\ closed(C) \in [Sessions -> {"free", "open", "closing"}]
         /\ told_lost(C) \in [Uids -> {"nothing", "login", "logged out"}]
<1> USE DEF TypeOK
<1>1. ukey_without(C) \in [Tags -> SessionOrNil] /\ uid_without(C) \in [Uids -> SessionOrNil]
  BY DEF RouteTypes, SessionOrNil, ukey_without, uid_without
<1>2. /\ utag_without(C) \in [Sessions -> Tags \cup {0}]
      /\ closed(C) \in [Sessions -> {"free", "open", "closing"}]
  BY DEF SessionTypes, utag_without, closed
<1>3. told_lost(C) \in [Uids -> {"nothing", "login", "logged out"}]
  BY DEF ToldType, told_lost
<1> QED
  BY <1>1, <1>2, <1>3

\* A login's utag, and the request it makes.
LEMMA LoginTag ==
  ASSUME TypeOK, NEW s \in Sessions, tag_of(s) <= MaxTag
  PROVE  tag_of(s) \in Tags
<1>1. g_ukey \in Nat \ {0} /\ utag[s] \in Tags \cup {0}
  BY GatewayConstantsOK DEF TypeOK, SessionTypes
<1> QED
  BY <1>1, GatewayConstantsOK DEF tag_of, Tags

\* Every table keeps its type.
LEMMA TypesStep == TypeOK /\ [Next]_vars => TypeOK'
<1> SUFFICES ASSUME TypeOK, [Next]_vars PROVE TypeOK'
  OBVIOUS
<1> USE DEF TypeOK, serverVars, routeVars
<1>0. /\ UNCHANGED serverVars => LinkTypes'
      /\ UNCHANGED routeVars => RouteTypes'
      /\ UNCHANGED <<g_ukey, status, utag, uid>> => SessionTypes'
      /\ UNCHANGED pending => PendingType'
      /\ UNCHANGED told => ToldType'
  BY DEF LinkTypes, RouteTypes, SessionTypes, PendingType, ToldType
<1>1. CASE chick_server_connect
  <2>1. LinkTypes'
    BY <1>1, GatewayConstantsOK DEF LinkTypes, chick_server_connect, Missing
  <2> QED
    BY <1>0, <1>1, <2>1 DEF chick_server_connect
<1>2. ASSUME NEW st \in Stypes, server_connected(st) \/ server_connect_failed(st)
      PROVE  TypeOK'
  <2>1. LinkTypes'
    BY <1>2, GatewayConstantsOK DEF LinkTypes, server_connected, server_connect_failed
  <2> QED
    BY <1>0, <1>2, <2>1 DEF server_connected, server_connect_failed
<1>3. ASSUME NEW st \in Stypes, server_disconnected(st)
      PROVE  TypeOK'
  <2>1. LinkTypes'
    BY <1>3 DEF LinkTypes, server_disconnected
  <2>2. PendingType'
    BY <1>3 DEF PendingType, server_disconnected
  <2>3. ToldType'
    BY <1>3 DEF ToldType, server_disconnected
  <2> QED
    BY <1>0, <1>3, <2>1, <2>2, <2>3 DEF server_disconnected
<1>4. ASSUME NEW s \in Sessions, uv_connection(s) \/ destroy(s)
      PROVE  TypeOK'
  <2>1. SessionTypes'
    BY <1>4 DEF SessionTypes, uv_connection, destroy
  <2> QED
    BY <1>0, <1>4, <2>1 DEF uv_connection, destroy
<1>5. ASSUME NEW s \in Sessions, close(s)
      PROVE  TypeOK'
  <2>1. RouteTypes' /\ SessionTypes' /\ ToldType'
    BY <1>5, WithoutTypes DEF RouteTypes, SessionTypes, ToldType, close
  <2> QED
    BY <1>0, <1>5, <2>1 DEF close
<1>6. ASSUME NEW s \in Sessions, NEW u \in Uids, login_request(s, u)
      PROVE  TypeOK'
  <2> DEFINE tag == tag_of(s)
  <2>1. tag \in Tags
    BY <1>6, LoginTag DEF login_request
  <2>2. [kind |-> "login", utag |-> tag, uid |-> u] \in Request
    BY <2>1 DEF Request
  <2>3. PendingType'
    BY <1>6, <2>2, AppendRequest DEF PendingType, login_request
  <2>4. RouteTypes'
    BY <1>6, <2>1 DEF RouteTypes, SessionOrNil, login_request
  <2>5. SessionTypes'
    <3>1. utag' \in [Sessions -> Tags \cup {0}]
      BY <1>6, <2>1 DEF SessionTypes, login_request
    <3>2. utag[s] = 0 => g_ukey + 1 \in 1 .. MaxTag + 1
      BY <1>6, GatewayConstantsOK DEF SessionTypes, login_request, tag_of
    <3> QED
      BY <1>6, <3>1, <3>2 DEF SessionTypes, login_request
  <2> QED
    BY <1>0, <1>6, <2>3, <2>4, <2>5 DEF login_request
<1>7. ASSUME NEW s \in Sessions, login_logic_request(s)
      PROVE  TypeOK'
  <2>1. ToldType'
    BY <1>7 DEF ToldType, login_logic_request
  <2> QED
    BY <1>0, <1>7, <2>1 DEF login_logic_request
<1>8. ASSUME NEW s \in Sessions, login_out_request(s)
      PROVE  TypeOK'
  <2>1. uid[s] \in Uids
    BY <1>8 DEF SessionTypes, login_out_request
  <2>2. [kind |-> "logout", utag |-> 0, uid |-> uid[s]] \in Request
    BY <2>1 DEF Request
  <2>3. PendingType'
    BY <1>8, <2>2, AppendRequest DEF PendingType, login_out_request
  <2> QED
    BY <1>0, <1>8, <2>3 DEF login_out_request
<1>9. ASSUME NEW i \in DOMAIN pending, login_ok(i)
      PROVE  TypeOK'
  <2> DEFINE t == pending[i].utag
             u == pending[i].uid
             s == client_sessions_ukey[t]
             C == relogin(s, u)
  <2>1. C \in SUBSET Sessions
    BY DEF relogin
  <2>2. s \in Sessions /\ u \in Uids
    BY <1>9, Requests DEF login_ok, RouteTypes, SessionOrNil
  <2>3. PendingType'
    BY <1>9, AnsweredPending DEF login_ok
  <2>4. /\ status' = closed(C)
        /\ client_sessions_ukey' = [ukey_without(C) EXCEPT ![t] = Nil]
        /\ client_sessions_uid' = [uid_without(C) EXCEPT ![u] = s]
        /\ utag' = utag_without(C)
        /\ uid' = [uid EXCEPT ![s] = u]
        /\ told' = told_lost(C)
        /\ UNCHANGED <<serverVars, g_ukey>>
    BY <1>9 DEF login_ok
  <2> HIDE DEF t, u, s, C
  <2>5. RouteTypes'
    BY <2>1, <2>2, <2>4, WithoutTypes DEF RouteTypes, SessionOrNil
  <2>6. SessionTypes' /\ ToldType'
    BY <2>1, <2>2, <2>4, WithoutTypes DEF SessionTypes, ToldType
  <2> QED
    BY <1>0, <2>3, <2>4, <2>5, <2>6
<1>10. ASSUME NEW i \in DOMAIN pending, login_refused(i) \/ login_misrouted(i)
       PROVE  TypeOK'
  <2>1. PendingType'
    BY <1>10, AnsweredPending DEF login_refused, login_misrouted
  <2>2. RouteTypes'
    BY <1>10 DEF RouteTypes, SessionOrNil, login_refused, login_misrouted
  <2> QED
    BY <1>0, <1>10, <2>1, <2>2 DEF login_refused, login_misrouted
<1>11. ASSUME NEW i \in DOMAIN pending, login_out_answer(i)
       PROVE  TypeOK'
  <2>1. PendingType'
    BY <1>11, AnsweredPending DEF login_out_answer
  <2>2. RouteTypes'
    BY <1>11 DEF RouteTypes, SessionOrNil, login_out_answer
  <2>3. SessionTypes'
    BY <1>11 DEF SessionTypes, login_out_answer
  <2>4. ToldType'
    BY <1>11 DEF ToldType, login_out_answer
  <2> QED
    BY <1>0, <1>11, <2>1, <2>2, <2>3, <2>4 DEF login_out_answer
<1>12. CASE UNCHANGED vars
  BY <1>0, <1>12 DEF vars
<1> QED
  BY <1>1, <1>2, <1>3, <1>4, <1>5, <1>6, <1>7, <1>8, <1>9, <1>10, <1>11, <1>12 DEF Next

LEMMA TypesInit == Init => TypeOK
BY GatewayConstantsOK
   DEF Init, TypeOK, LinkTypes, RouteTypes, SessionTypes, PendingType, ToldType, SessionOrNil, Tags

\* The gateway's tables keep their types for any number of sessions, accounts
\* and servers.
THEOREM GatewayTypes == Spec => []TypeOK
BY TypesInit, TypesStep, PTL DEF Spec

-----------------------------------------------------------------------------
(* One session per account *)

LEMMA OneSessionStep == TypeOK /\ OneSession /\ [Next]_vars => OneSession'
<1> SUFFICES ASSUME TypeOK, OneSession, [Next]_vars PROVE OneSession'
  OBVIOUS
<1> USE DEF OneSession
<1>1. /\ status \in [Sessions -> {"free", "open", "closing"}]
      /\ uid \in [Sessions -> Uids \cup {NoUid}]
      /\ client_sessions_uid \in [Uids -> SessionOrNil]
  BY DEF TypeOK, RouteTypes, SessionTypes
<1>2. ASSUME NEW s \in Sessions, uv_connection(s) \/ destroy(s)
      PROVE  OneSession'
  BY <1>1, <1>2 DEF uv_connection, destroy, routeVars
<1>3. ASSUME NEW s \in Sessions, close(s)
      PROVE  OneSession'
  <2> SUFFICES ASSUME NEW r \in Sessions, status'[r] = "open", uid'[r] # NoUid
               PROVE  client_sessions_uid'[uid'[r]] = r
    OBVIOUS
  <2>1. uid' = uid /\ status' = closed({s}) /\ client_sessions_uid' = uid_without({s})
    BY <1>3 DEF close
  <2>2. r # s /\ status[r] = "open" /\ uid[r] \in Uids /\ client_sessions_uid[uid[r]] = r
    BY <1>1, <2>1 DEF closed
  <2> QED
    BY <2>1, <2>2 DEF uid_without
<1>4. ASSUME NEW i \in DOMAIN pending, login_ok(i)
      PROVE  OneSession'
  <2> DEFINE u == pending[i].uid
             s == client_sessions_ukey[pending[i].utag]
             C == relogin(s, u)
  <2>1. /\ status' = closed(C)
        /\ client_sessions_uid' = [uid_without(C) EXCEPT ![u] = s]
        /\ uid' = [uid EXCEPT ![s] = u]
    BY <1>4 DEF login_ok
  <2>2. u \in Uids /\ s \in Sessions
    BY <1>4, Requests DEF login_ok, TypeOK, RouteTypes, SessionOrNil
  <2>3. C = {old \in Sessions : old = client_sessions_uid[u] /\ old # s /\ status[old] = "open"}
    BY DEF relogin
  <2> HIDE DEF u, s, C
  <2> SUFFICES ASSUME NEW r \in Sessions, status'[r] = "open", uid'[r] # NoUid
               PROVE  client_sessions_uid'[uid'[r]] = r
    OBVIOUS
  <2>4. status[r] = "open" /\ r \notin C
    BY <1>1, <2>1 DEF closed
  <2>5. CASE r = s
    BY <1>1, <2>1, <2>2, <2>5 DEF uid_without
  <2>6. CASE r # s
    <3>1. uid'[r] = uid[r] /\ uid[r] \in Uids /\ client_sessions_uid[uid[r]] = r
      BY <1>1, <2>1, <2>2, <2>4, <2>6
    <3>2. uid[r] # u
      BY <2>3, <2>4, <2>6, <3>1
    <3>3. uid_without(C)[uid[r]] = r
      BY <2>4, <3>1 DEF uid_without
    <3>4. client_sessions_uid'[uid[r]] = uid_without(C)[uid[r]]
      BY <2>1, <3>1, <3>2 DEF uid_without
    <3> QED
      BY <3>1, <3>3, <3>4
  <2> QED
    BY <2>5, <2>6
<1>5. ASSUME NEW i \in DOMAIN pending, login_out_answer(i)
      PROVE  OneSession'
  <2> DEFINE u == pending[i].uid
             c == client_sessions_uid[u]
  <2>1. u \in Uids
    BY Requests DEF TypeOK
  <2>2. /\ status' = status
        /\ \/ /\ c # Nil
              /\ uid' = [uid EXCEPT ![c] = NoUid]
              /\ client_sessions_uid' = [client_sessions_uid EXCEPT ![u] = Nil]
           \/ UNCHANGED <<uid, client_sessions_uid>>
    BY <1>5 DEF login_out_answer
  <2>3. c # Nil => c \in Sessions
    BY <1>1, <2>1 DEF SessionOrNil
  <2> HIDE DEF u
  <2>4. CASE UNCHANGED <<uid, client_sessions_uid>>
    BY <2>2, <2>4
  <2>5. CASE /\ c \in Sessions
             /\ uid' = [uid EXCEPT ![c] = NoUid]
             /\ client_sessions_uid' = [client_sessions_uid EXCEPT ![u] = Nil]
    <3> SUFFICES ASSUME NEW r \in Sessions, status[r] = "open", uid'[r] # NoUid
                 PROVE  client_sessions_uid'[uid'[r]] = r
      BY <2>2
    <3>1. r # c /\ uid'[r] = uid[r] /\ uid[r] \in Uids
      BY <1>1, <2>5
    <3>2. client_sessions_uid[uid[r]] = r /\ uid[r] # u
      BY <3>1
    <3> QED
      BY <1>1, <2>5, <3>1, <3>2
  <2> QED
    BY <2>2, <2>3, <2>4, <2>5
<1>6. CASE UNCHANGED <<client_sessions_uid, status, uid>>
  BY <1>6
<1>7. ASSUME NEW st \in Stypes,
             server_connected(st) \/ server_connect_failed(st) \/ server_disconnected(st)
      PROVE  OneSession'
  BY <1>6, <1>7 DEF server_connected, server_connect_failed, server_disconnected, routeVars
<1>8. ASSUME NEW s \in Sessions, NEW u \in Uids,
             login_request(s, u) \/ login_logic_request(s) \/ login_out_request(s)
      PROVE  OneSession'
  BY <1>6, <1>8 DEF login_request, login_logic_request, login_out_request, routeVars
<1>9. ASSUME NEW i \in DOMAIN pending, login_refused(i) \/ login_misrouted(i)
      PROVE  OneSession'
  BY <1>6, <1>9 DEF login_refused, login_misrouted, routeVars
<1>10. CASE chick_server_connect \/ UNCHANGED vars
  BY <1>6, <1>10 DEF chick_server_connect, vars, routeVars
<1>11. ASSUME NEW s \in Sessions, login_logic_request(s) \/ login_out_request(s)
       PROVE  OneSession'
  BY <1>6, <1>11 DEF login_logic_request, login_out_request, routeVars
<1> QED
  BY <1>2, <1>3, <1>4, <1>5, <1>7, <1>8, <1>9, <1>10, <1>11 DEF Next

\* An account is logged in on at most one open connection, and its messages go
\* there; clients that do not wait and late reads are included.
THEOREM OneSessionPerAccount == Spec => []OneSession
<1>1. Init => OneSession
  BY DEF Init, OneSession
<1> QED
  BY <1>1, TypesInit, TypesStep, OneSessionStep, PTL DEF Spec

\* While a player stays on its connection its login stands at the logic server:
\* only its own end, its logout or the loss of that server takes it back.
THEOREM LoginIsNotUndone == Spec => LoginStands
<1> DEFINE Stands(s) ==
      /\ status[s] = "open" /\ uid[s] # NoUid /\ told[uid[s]] = "login"
      /\ status'[s] = "open" /\ uid'[s] = uid[s]
      /\ Logic \in server_session_man'
      => told'[uid[s]] = "login"
<1>1. ASSUME TypeOK, OneSession, [Next]_vars, NEW s \in Sessions
      PROVE  Stands(s)
  <2> SUFFICES ASSUME status[s] = "open", uid[s] # NoUid, told[uid[s]] = "login",
                      status'[s] = "open", uid'[s] = uid[s], Logic \in server_session_man'
               PROVE  told'[uid[s]] = "login"
    OBVIOUS
  <2>1. /\ status \in [Sessions -> {"free", "open", "closing"}]
        /\ uid \in [Sessions -> Uids \cup {NoUid}]
        /\ told \in [Uids -> {"nothing", "login", "logged out"}]
        /\ client_sessions_uid[uid[s]] = s /\ uid[s] \in Uids
    BY <1>1 DEF TypeOK, SessionTypes, ToldType, OneSession
  <2>2. ASSUME NEW C \in SUBSET Sessions, told' = told_lost(C), status' = closed(C),
               \A r \in C : status[r] = "open"
        PROVE  told'[uid[s]] = "login"
    <3>1. s \notin C
      BY <2>2 DEF closed
    <3>2. \A r \in C : uid[r] # uid[s]
      <4> SUFFICES ASSUME NEW r \in C, uid[r] = uid[s]
                   PROVE  FALSE
        OBVIOUS
      <4>1. r \in Sessions /\ status[r] = "open" /\ uid[r] # NoUid
        BY <2>2
      <4>2. client_sessions_uid[uid[r]] = r
        BY <1>1, <4>1 DEF OneSession
      <4> QED
        BY <2>1, <3>1, <4>2
    <3> QED
      BY <2>1, <2>2, <3>2 DEF told_lost
  <2>3. ASSUME NEW r \in Sessions, close(r)
        PROVE  told'[uid[s]] = "login"
    BY <2>2, <2>3 DEF close
  <2>4. ASSUME NEW i \in DOMAIN pending, login_ok(i)
        PROVE  told'[uid[s]] = "login"
    <3> DEFINE C == relogin(client_sessions_ukey[pending[i].utag], pending[i].uid)
    <3>1. C \in SUBSET Sessions /\ \A r \in C : status[r] = "open"
      BY DEF relogin
    <3>2. told' = told_lost(C) /\ status' = closed(C)
      BY <2>4 DEF login_ok
    <3> HIDE DEF C
    <3> QED
      BY <2>2, <3>1, <3>2
  <2>5. ASSUME NEW i \in DOMAIN pending, login_out_answer(i)
        PROVE  told'[uid[s]] = "login"
    <3>1. pending[i].uid \in Uids
      BY <1>1, Requests DEF TypeOK
    <3>2. CASE pending[i].uid = uid[s]
      <4>1. client_sessions_uid[pending[i].uid] = s /\ s # Nil
        BY <2>1, <3>2, GatewayConstantsOK
      <4>2. uid' = [uid EXCEPT ![s] = NoUid]
        BY <2>5, <4>1 DEF login_out_answer
      <4>3. uid'[s] = NoUid
        BY <2>1, <4>2
      <4> QED
        BY <4>3
    <3>3. CASE pending[i].uid # uid[s]
      BY <2>1, <2>5, <3>1, <3>3 DEF login_out_answer
    <3> QED
      BY <3>2, <3>3
  <2>6. ASSUME NEW r \in Sessions, login_logic_request(r)
        PROVE  told'[uid[s]] = "login"
    BY <2>1, <2>6 DEF login_logic_request
  <2>7. ASSUME NEW st \in Stypes, server_disconnected(st)
        PROVE  told'[uid[s]] = "login"
    BY <2>1, <2>7 DEF server_disconnected
  <2>8. CASE UNCHANGED told
    BY <2>8
  <2>9. ASSUME NEW st \in Stypes, server_connected(st) \/ server_connect_failed(st)
        PROVE  told'[uid[s]] = "login"
    BY <2>8, <2>9 DEF server_connected, server_connect_failed
  <2>10. ASSUME NEW r \in Sessions, uv_connection(r) \/ destroy(r) \/ login_out_request(r)
         PROVE  told'[uid[s]] = "login"
    BY <2>8, <2>10 DEF uv_connection, destroy, login_out_request
  <2>11. ASSUME NEW r \in Sessions, NEW u \in Uids, login_request(r, u)
         PROVE  told'[uid[s]] = "login"
    BY <2>8, <2>11 DEF login_request
  <2>12. ASSUME NEW i \in DOMAIN pending, login_refused(i) \/ login_misrouted(i)
         PROVE  told'[uid[s]] = "login"
    BY <2>8, <2>12 DEF login_refused, login_misrouted
  <2>13. CASE chick_server_connect \/ UNCHANGED vars
    BY <2>8, <2>13 DEF chick_server_connect, vars
  <2> QED
    BY <1>1, <2>3, <2>4, <2>5, <2>6, <2>7, <2>9, <2>10, <2>11, <2>12, <2>13 DEF Next
<1>2. TypeOK /\ OneSession /\ [Next]_vars => [\A s \in Sessions : Stands(s)]_vars
  BY <1>1
<1> HIDE DEF Stands
<1>3. Spec => [][\A s \in Sessions : Stands(s)]_vars
  BY <1>2, GatewayTypes, OneSessionPerAccount, PTL DEF Spec
<1> QED
  BY <1>3 DEF LoginStands, Stands

-----------------------------------------------------------------------------
(* One connection to each server *)

\* An attempt under way is the only one, has its flag, and its server is not
\* connected.
LinkInv ==
  \A st \in Stypes :
    attempts[st] # 0 => attempts[st] = 1 /\ st \in do_connecting /\ st \notin server_session_man

LEMMA LinkStep == TypeOK /\ LinkInv /\ [Next]_vars => LinkInv'
<1> SUFFICES ASSUME TypeOK, LinkInv, [Next]_vars PROVE LinkInv'
  OBVIOUS
<1> USE DEF LinkInv
<1>1. attempts \in [Stypes -> Nat]
  BY GatewayConstantsOK DEF TypeOK, LinkTypes
<1>2. CASE chick_server_connect
  BY <1>1, <1>2 DEF chick_server_connect, Missing
<1>3. ASSUME NEW st \in Stypes, server_connected(st) \/ server_connect_failed(st)
      PROVE  LinkInv'
  BY <1>1, <1>3 DEF server_connected, server_connect_failed
<1>4. ASSUME NEW st \in Stypes, server_disconnected(st)
      PROVE  LinkInv'
  BY <1>4 DEF server_disconnected
<1>5. CASE UNCHANGED serverVars
  BY <1>5 DEF serverVars
<1>6. ASSUME NEW s \in Sessions,
             \/ uv_connection(s) \/ close(s) \/ destroy(s)
             \/ \E u \in Uids : login_request(s, u)
             \/ login_logic_request(s) \/ login_out_request(s)
      PROVE  LinkInv'
  BY <1>5, <1>6 DEF uv_connection, close, destroy, login_request, login_logic_request,
                    login_out_request
<1>7. ASSUME NEW i \in DOMAIN pending,
             login_ok(i) \/ login_refused(i) \/ login_misrouted(i) \/ login_out_answer(i)
      PROVE  LinkInv'
  BY <1>5, <1>7 DEF login_ok, login_refused, login_misrouted, login_out_answer
<1>8. CASE UNCHANGED vars
  BY <1>5, <1>8 DEF vars
<1> QED
  BY <1>2, <1>3, <1>4, <1>6, <1>7, <1>8 DEF Next

\* A server has one connection, made or being made, however often the timer
\* runs while an attempt is slow.
THEOREM OneLinkPerServer == Spec => []OneLink
<1>1. Init => LinkInv
  BY DEF Init, LinkInv
<1>2. TypeOK /\ LinkInv => OneLink
  <2> SUFFICES ASSUME TypeOK, LinkInv, NEW st \in Stypes
               PROVE  attempts[st] + (IF st \in server_session_man THEN 1 ELSE 0) <= 1
    BY DEF OneLink
  <2>1. attempts[st] \in Nat
    BY GatewayConstantsOK DEF TypeOK, LinkTypes
  <2> QED
    BY <2>1 DEF LinkInv
<1> QED
  BY <1>1, <1>2, TypesInit, TypesStep, LinkStep, PTL DEF Spec

-----------------------------------------------------------------------------
(* Utags *)

\* Every utag given out, and in a request, is one g_ukey has passed.
TagInv ==
  /\ TagsDistinct
  /\ \A s \in Sessions : utag[s] < g_ukey
  /\ \A i \in DOMAIN pending : pending[i].kind = "login" => pending[i].utag < g_ukey

LEMMA TagStep == TypeOK /\ TagInv /\ [Next]_vars => TagInv'
<1> SUFFICES ASSUME TypeOK, TagInv, [Next]_vars PROVE TagInv'
  OBVIOUS
<1> USE DEF TagInv
<1>1. /\ utag \in [Sessions -> Nat] /\ g_ukey \in Nat \ {0}
      /\ status \in [Sessions -> {"free", "open", "closing"}]
  BY GatewayConstantsOK DEF TypeOK, SessionTypes, Tags
<1>2. ASSUME UNCHANGED g_ukey,
             \A j \in DOMAIN pending' :
               pending'[j].kind = "login" => \E k \in DOMAIN pending : pending'[j] = pending[k],
             \A s \in Sessions : \/ utag'[s] = 0
                                 \/ utag'[s] = utag[s] /\ (status'[s] # "free" => status[s] # "free")
      PROVE  TagInv'
  <2>1. \A s \in Sessions : utag'[s] < g_ukey'
    BY <1>1, <1>2
  <2>2. TagsDistinct'
    BY <1>2 DEF TagsDistinct
  <2>3. \A j \in DOMAIN pending' : pending'[j].kind = "login" => pending'[j].utag < g_ukey'
    BY <1>2
  <2> QED
    BY <2>1, <2>2, <2>3
<1>3. ASSUME NEW s \in Sessions, NEW u \in Uids, login_request(s, u)
      PROVE  TagInv'
  <2> DEFINE tag == tag_of(s)
             r == [kind |-> "login", utag |-> tag, uid |-> u]
  <2>1. /\ utag' = [utag EXCEPT ![s] = tag]
        /\ g_ukey' = IF utag[s] = 0 THEN g_ukey + 1 ELSE g_ukey
        /\ tag = IF utag[s] = 0 THEN g_ukey ELSE utag[s]
        /\ pending' = Append(pending, r) /\ status' = status /\ status[s] # "free"
    BY <1>3, <1>1 DEF login_request, tag_of, Reads
  <2>2. /\ \A k \in DOMAIN pending : k \in DOMAIN pending' /\ pending'[k] = pending[k]
        /\ \A j \in DOMAIN pending' : j \in DOMAIN pending \/ pending'[j] = r
    BY <2>1 DEF TypeOK, PendingType
  <2>3. r.utag = tag
    OBVIOUS
  <2> HIDE DEF tag, r
  <2>4. tag \in Nat /\ tag < g_ukey' /\ g_ukey' \in Nat /\ g_ukey <= g_ukey'
    BY <1>1, <2>1
  <2>5. \A x \in Sessions : utag'[x] < g_ukey'
    BY <1>1, <2>1, <2>4
  <2>6. TagsDistinct'
    BY <1>1, <2>1 DEF TagsDistinct
  <2>7. ASSUME NEW j \in DOMAIN pending', pending'[j].kind = "login"
        PROVE  pending'[j].utag < g_ukey'
    <3>1. CASE pending'[j] = r
      BY <2>3, <2>4, <3>1
    <3>2. CASE j \in DOMAIN pending
      <4>1. pending[j].kind = "login" /\ pending'[j].utag = pending[j].utag
        BY <2>2, <2>7, <3>2
      <4>2. pending[j].utag \in Nat /\ pending[j].utag < g_ukey
        BY <3>2, <4>1, Requests DEF TypeOK, Tags
      <4> QED
        BY <1>1, <2>4, <4>1, <4>2
    <3> QED
      BY <2>2, <3>1, <3>2
  <2> QED
    BY <2>5, <2>6, <2>7
<1>4. ASSUME NEW s \in Sessions, login_out_request(s)
      PROVE  TagInv'
  <2> DEFINE r == [kind |-> "logout", utag |-> 0, uid |-> uid[s]]
  <2>1. pending' = Append(pending, r) /\ UNCHANGED <<g_ukey, status, utag>>
    BY <1>4 DEF login_out_request
  <2>2. r.kind # "login"
    OBVIOUS
  <2> HIDE DEF r
  <2>3. \A j \in DOMAIN pending' :
          pending'[j] = r \/ (j \in DOMAIN pending /\ pending'[j] = pending[j])
    BY <2>1 DEF TypeOK, PendingType
  <2> QED
    BY <1>2, <2>1, <2>2, <2>3
<1>5. ASSUME NEW i \in DOMAIN pending,
             login_ok(i) \/ login_refused(i) \/ login_misrouted(i) \/ login_out_answer(i)
      PROVE  TagInv'
  <2>1. Answered(i) /\ UNCHANGED g_ukey
    BY <1>5 DEF login_ok, login_refused, login_misrouted, login_out_answer
  <2>2. \A j \in DOMAIN pending' : \E k \in DOMAIN pending : pending'[j] = pending[k]
    BY <2>1, AnsweredPending DEF TypeOK
  <2>3. \A s \in Sessions : \/ utag'[s] = 0
                            \/ utag'[s] = utag[s] /\ (status'[s] # "free" => status[s] # "free")
    BY <1>5, <1>1 DEF login_ok, login_refused, login_misrouted, login_out_answer,
                      utag_without, closed, relogin
  <2> QED
    BY <1>2, <2>1, <2>2, <2>3
<1>6. ASSUME NEW s \in Sessions, uv_connection(s) \/ close(s) \/ destroy(s)
      PROVE  TagInv'
  <2>1. UNCHANGED <<g_ukey, pending>>
    BY <1>6 DEF uv_connection, close, destroy
  <2>2. \A r \in Sessions : \/ utag'[r] = 0
                            \/ utag'[r] = utag[r] /\ (status'[r] # "free" => status[r] # "free")
    BY <1>6, <1>1 DEF uv_connection, close, destroy, utag_without, closed
  <2> QED
    BY <1>2, <2>1, <2>2
<1>7. ASSUME UNCHANGED <<g_ukey, status, utag>>, UNCHANGED pending \/ pending' = <<>>
      PROVE  TagInv'
  BY <1>2, <1>7
<1>8. ASSUME NEW st \in Stypes,
             server_connected(st) \/ server_connect_failed(st) \/ server_disconnected(st)
      PROVE  TagInv'
  BY <1>7, <1>8 DEF server_connected, server_connect_failed, server_disconnected
<1>9. ASSUME NEW s \in Sessions, login_logic_request(s)
      PROVE  TagInv'
  BY <1>7, <1>9 DEF login_logic_request
<1>10. CASE chick_server_connect \/ UNCHANGED vars
  BY <1>7, <1>10 DEF chick_server_connect, vars
<1> QED
  BY <1>3, <1>4, <1>5, <1>6, <1>8, <1>9, <1>10 DEF Next

LEMMA TagInit == Init => TagInv
BY DEF Init, TagInv, TagsDistinct

\* No two sessions that exist share a utag, so the answer to a login cannot be
\* taken for that of another connection.
THEOREM TagsAreDistinct == Spec => []TagsDistinct
<1>1. TagInv => TagsDistinct
  BY DEF TagInv
<1> QED
  BY <1>1, TypesInit, TypesStep, TagInit, TagStep, PTL DEF Spec

-----------------------------------------------------------------------------
(* Patient clients: the maps agree with the sessions *)

\* Requests under one utag are for one account, which is the one its session is
\* logged in as, if any.
AskedInv ==
  /\ \A i, j \in DOMAIN pending :
       pending[i].kind = "login" /\ pending[j].kind = "login" /\ pending[i].utag = pending[j].utag
       => pending[i].uid = pending[j].uid
  /\ \A i \in DOMAIN pending, s \in Sessions :
       pending[i].kind = "login" /\ status[s] = "open" /\ utag[s] = pending[i].utag
       => uid[s] \in {NoUid, pending[i].uid}

LEMMA AskedStep ==
  ASSUME ~Impatient, ~LateReads
  PROVE  TypeOK /\ TagInv /\ MapsAgree /\ AskedInv /\ [Next]_vars => AskedInv'
<1> SUFFICES ASSUME TypeOK, TagInv, MapsAgree, AskedInv, [Next]_vars PROVE AskedInv'
  OBVIOUS
<1> USE DEF AskedInv
<1>1. /\ utag \in [Sessions -> Nat] /\ g_ukey \in Nat \ {0}
      /\ status \in [Sessions -> {"free", "open", "closing"}]
      /\ uid \in [Sessions -> Uids \cup {NoUid}]
      /\ \A i \in DOMAIN pending : pending[i].kind = "login" => pending[i].utag \in Nat \ {0}
  BY Requests, GatewayConstantsOK DEF TypeOK, SessionTypes, Tags
<1>2. ASSUME \A j \in DOMAIN pending' :
               pending'[j].kind = "login" => \E k \in DOMAIN pending : pending'[j] = pending[k],
             \A s \in Sessions : status'[s] = "open" =>
               \/ utag'[s] = 0
               \/ uid'[s] = NoUid /\ status[s] = "open" /\ utag'[s] = utag[s]
               \/ uid'[s] = uid[s] /\ status[s] = "open" /\ utag'[s] = utag[s]
      PROVE  AskedInv'
  <2>1. ASSUME NEW i \in DOMAIN pending', NEW s \in Sessions, pending'[i].kind = "login",
               status'[s] = "open", utag'[s] = pending'[i].utag
        PROVE  uid'[s] \in {NoUid, pending'[i].uid}
    <3>1. PICK k \in DOMAIN pending : pending'[i] = pending[k]
      BY <1>2, <2>1
    <3>2. pending[k].kind = "login" /\ utag'[s] = pending[k].utag /\ utag'[s] # 0
      BY <1>1, <2>1, <3>1
    <3> QED
      BY <1>2, <2>1, <3>1, <3>2
  <2>2. ASSUME NEW i \in DOMAIN pending', NEW j \in DOMAIN pending', pending'[i].kind = "login",
               pending'[j].kind = "login", pending'[i].utag = pending'[j].utag
        PROVE  pending'[i].uid = pending'[j].uid
    BY <1>2, <2>2
  <2> QED
    BY <2>1, <2>2
<1>3. ASSUME NEW s \in Sessions, NEW u \in Uids, login_request(s, u)
      PROVE  AskedInv'
  <2> DEFINE tag == tag_of(s)
             r == [kind |-> "login", utag |-> tag, uid |-> u]
  <2>1. /\ utag' = [utag EXCEPT ![s] = tag]
        /\ tag = IF utag[s] = 0 THEN g_ukey ELSE utag[s]
        /\ pending' = Append(pending, r) /\ UNCHANGED <<status, uid>>
        /\ status[s] = "open" /\ uid[s] \in {NoUid, u}
        /\ \A i \in DOMAIN pending :
             pending[i].kind = "login" /\ pending[i].utag = utag[s] => pending[i].uid = u
    BY <1>3 DEF login_request, tag_of, Reads, MayAsk
  <2>2. \A j \in DOMAIN pending' :
          pending'[j] = r \/ (j \in DOMAIN pending /\ pending'[j] = pending[j])
    BY <2>1 DEF TypeOK, PendingType
  <2>3. r.utag = tag /\ r.uid = u
    OBVIOUS
  <2> HIDE DEF tag, r
  <2>4. \A i \in DOMAIN pending :
          pending[i].kind = "login" /\ pending[i].utag = tag => pending[i].uid = u
    <3> SUFFICES ASSUME NEW i \in DOMAIN pending, pending[i].kind = "login", pending[i].utag = tag
                 PROVE  pending[i].uid = u
      OBVIOUS
    <3>1. pending[i].utag < g_ukey /\ pending[i].utag \in Nat
      BY <1>1 DEF TagInv
    <3>2. tag = utag[s]
      BY <1>1, <2>1, <3>1
    <3> QED
      BY <2>1, <3>2
  <2>5. \A x \in Sessions : status[x] = "open" /\ utag'[x] = tag => x = s
    <3> SUFFICES ASSUME NEW x \in Sessions, status[x] = "open", utag'[x] = tag, x # s
                 PROVE  FALSE
      OBVIOUS
    <3>1. utag[x] = tag /\ utag[x] < g_ukey /\ utag[x] \in Nat
      BY <1>1, <2>1 DEF TagInv
    <3>2. tag = utag[s] /\ utag[s] # 0
      BY <1>1, <2>1, <3>1
    <3> QED
      BY <2>1, <3>1, <3>2 DEF TagInv, TagsDistinct
  <2>6. ASSUME NEW i \in DOMAIN pending', NEW j \in DOMAIN pending', pending'[i].kind = "login",
               pending'[j].kind = "login", pending'[i].utag = pending'[j].utag
        PROVE  pending'[i].uid = pending'[j].uid
    BY <2>2, <2>3, <2>4, <2>6
  <2>7. ASSUME NEW i \in DOMAIN pending', NEW x \in Sessions, pending'[i].kind = "login",
               status'[x] = "open", utag'[x] = pending'[i].utag
        PROVE  uid'[x] \in {NoUid, pending'[i].uid}
    <3>1. CASE pending'[i].utag = tag
      <4>1. x = s
        BY <2>1, <2>5, <2>7, <3>1
      <4>2. pending'[i].uid = u
        BY <2>2, <2>3, <2>4, <2>7, <3>1
      <4> QED
        BY <2>1, <4>1, <4>2
    <3>2. CASE pending'[i].utag # tag
      <4>1. x # s /\ utag[x] = pending'[i].utag
        BY <1>1, <2>1, <2>7, <3>2
      <4>2. i \in DOMAIN pending /\ pending'[i] = pending[i]
        BY <2>2, <2>3, <3>2
      <4> QED
        BY <2>1, <2>7, <4>1, <4>2
    <3> QED
      BY <3>1, <3>2
  <2> QED
    BY <2>6, <2>7
<1>4. ASSUME NEW s \in Sessions, login_out_request(s)
      PROVE  AskedInv'
  <2> DEFINE r == [kind |-> "logout", utag |-> 0, uid |-> uid[s]]
  <2>1. pending' = Append(pending, r) /\ UNCHANGED <<status, utag, uid>>
    BY <1>4 DEF login_out_request
  <2>2. r.kind # "login"
    OBVIOUS
  <2> HIDE DEF r
  <2>3. \A j \in DOMAIN pending' :
          pending'[j] = r \/ (j \in DOMAIN pending /\ pending'[j] = pending[j])
    BY <2>1 DEF TypeOK, PendingType
  <2> QED
    BY <1>2, <2>1, <2>2, <2>3
<1>5. ASSUME NEW i \in DOMAIN pending,
             login_refused(i) \/ login_misrouted(i) \/ login_out_answer(i)
      PROVE  AskedInv'
  <2>1. Answered(i) /\ UNCHANGED <<status, utag>>
    BY <1>5 DEF login_refused, login_misrouted, login_out_answer
  <2>2. \A j \in DOMAIN pending' : \E k \in DOMAIN pending : pending'[j] = pending[k]
    BY <2>1, AnsweredPending DEF TypeOK
  <2>3. \A s \in Sessions : uid'[s] \in {NoUid, uid[s]}
    BY <1>5, <1>1 DEF login_refused, login_misrouted, login_out_answer
  <2> QED
    BY <1>2, <2>1, <2>2, <2>3
<1>6. ASSUME NEW i \in DOMAIN pending, login_ok(i)
      PROVE  AskedInv'
  <2> DEFINE t == pending[i].utag
             u == pending[i].uid
             s == client_sessions_ukey[t]
             C == relogin(s, u)
  <2>1. /\ status' = closed(C)
        /\ utag' = utag_without(C)
        /\ uid' = [uid EXCEPT ![s] = u]
        /\ pending[i].kind = "login"
        /\ Answered(i)
    BY <1>6 DEF login_ok
  <2>2. s \in Sessions /\ t \in Tags /\ utag[s] = t /\ u \in Uids
    BY <1>6, Requests DEF login_ok, TypeOK, RouteTypes, SessionOrNil, MapsAgree
  <2>3. \A j \in DOMAIN pending' : \E k \in DOMAIN pending : pending'[j] = pending[k]
    BY <2>1, AnsweredPending DEF TypeOK
  <2>4. \A k \in DOMAIN pending :
          pending[k].kind = "login" /\ pending[k].utag = t => pending[k].uid = u
    BY <2>1
  <2> HIDE DEF t, u, s, C
  <2>5. ASSUME NEW j \in DOMAIN pending', NEW x \in Sessions, pending'[j].kind = "login",
               status'[x] = "open", utag'[x] = pending'[j].utag
        PROVE  uid'[x] \in {NoUid, pending'[j].uid}
    <3>1. PICK k \in DOMAIN pending : pending'[j] = pending[k]
      BY <2>3
    <3>2. status[x] = "open" /\ x \notin C /\ utag[x] = pending[k].utag
      BY <1>1, <2>1, <2>5, <3>1 DEF closed, utag_without
    <3>3. CASE x = s
      BY <1>1, <2>1, <2>2, <2>4, <2>5, <3>1, <3>2, <3>3
    <3>4. CASE x # s
      BY <1>1, <2>1, <2>2, <2>5, <3>1, <3>2, <3>4
    <3> QED
      BY <3>3, <3>4
  <2>6. ASSUME NEW a \in DOMAIN pending', NEW b \in DOMAIN pending', pending'[a].kind = "login",
               pending'[b].kind = "login", pending'[a].utag = pending'[b].utag
        PROVE  pending'[a].uid = pending'[b].uid
    BY <2>3, <2>6
  <2> QED
    BY <2>5, <2>6
<1>7. ASSUME NEW s \in Sessions, uv_connection(s) \/ close(s) \/ destroy(s)
      PROVE  AskedInv'
  <2>1. UNCHANGED pending
    BY <1>7 DEF uv_connection, close, destroy
  <2>2. \A x \in Sessions : status'[x] = "open" =>
          \/ utag'[x] = 0
          \/ uid'[x] = uid[x] /\ status[x] = "open" /\ utag'[x] = utag[x]
    BY <1>7, <1>1 DEF uv_connection, close, destroy, utag_without, closed
  <2> QED
    BY <1>2, <2>1, <2>2
<1>8. ASSUME UNCHANGED <<status, utag, uid>>, UNCHANGED pending \/ pending' = <<>>
      PROVE  AskedInv'
  BY <1>2, <1>8
<1>9. ASSUME NEW st \in Stypes,
             server_connected(st) \/ server_connect_failed(st) \/ server_disconnected(st)
      PROVE  AskedInv'
  BY <1>8, <1>9 DEF server_connected, server_connect_failed, server_disconnected
<1>10. ASSUME NEW s \in Sessions, login_logic_request(s)
       PROVE  AskedInv'
  BY <1>8, <1>10 DEF login_logic_request
<1>11. CASE chick_server_connect \/ UNCHANGED vars
  BY <1>8, <1>11 DEF chick_server_connect, vars
<1> QED
  BY <1>3, <1>4, <1>5, <1>6, <1>7, <1>9, <1>10, <1>11 DEF Next

LEMMA MapsAgreeStep ==
  ASSUME ~Impatient, ~LateReads
  PROVE  TypeOK /\ AskedInv /\ MapsAgree /\ [Next]_vars => MapsAgree'
<1> SUFFICES ASSUME TypeOK, AskedInv, MapsAgree, [Next]_vars PROVE MapsAgree'
  OBVIOUS
<1> USE DEF MapsAgree
<1>1. /\ status \in [Sessions -> {"free", "open", "closing"}]
      /\ utag \in [Sessions -> Tags \cup {0}]
      /\ uid \in [Sessions -> Uids \cup {NoUid}]
      /\ client_sessions_ukey \in [Tags -> Sessions \cup {Nil}]
      /\ client_sessions_uid \in [Uids -> Sessions \cup {Nil}]
      /\ Nil \notin Sessions /\ NoUid \notin Uids /\ 0 \notin Tags
  BY GatewayConstantsOK DEF TypeOK, RouteTypes, SessionTypes, SessionOrNil, Tags
<1>2. ASSUME NEW s \in Sessions, uv_connection(s) \/ destroy(s)
      PROVE  MapsAgree'
  BY <1>1, <1>2 DEF uv_connection, destroy, routeVars
<1>3. ASSUME NEW s \in Sessions, close(s)
      PROVE  MapsAgree'
  <2>1. /\ status' = closed({s}) /\ utag' = utag_without({s}) /\ uid' = uid
        /\ client_sessions_ukey' = ukey_without({s})
        /\ client_sessions_uid' = uid_without({s})
    BY <1>3 DEF close
  <2>2. ASSUME NEW t \in Tags, client_sessions_ukey'[t] # Nil
        PROVE  status'[client_sessions_ukey'[t]] = "open" /\ utag'[client_sessions_ukey'[t]] = t
    <3>1. /\ client_sessions_ukey'[t] = client_sessions_ukey[t]
          /\ client_sessions_ukey[t] # s /\ client_sessions_ukey[t] \in Sessions
      BY <1>1, <2>1, <2>2 DEF ukey_without
    <3> QED
      BY <1>1, <2>1, <3>1 DEF closed, utag_without
  <2>3. ASSUME NEW u \in Uids, client_sessions_uid'[u] # Nil
        PROVE  status'[client_sessions_uid'[u]] = "open" /\ uid'[client_sessions_uid'[u]] = u
    <3>1. /\ client_sessions_uid'[u] = client_sessions_uid[u]
          /\ client_sessions_uid[u] # s /\ client_sessions_uid[u] \in Sessions
      BY <1>1, <2>1, <2>3 DEF uid_without
    <3> QED
      BY <1>1, <2>1, <3>1 DEF closed
  <2> QED
    BY <2>2, <2>3
<1>4. ASSUME NEW s \in Sessions, NEW u \in Uids, login_request(s, u)
      PROVE  MapsAgree'
  <2> DEFINE tag == tag_of(s)
  <2>1. /\ utag' = [utag EXCEPT ![s] = tag]
        /\ tag = IF utag[s] = 0 THEN g_ukey ELSE utag[s]
        /\ client_sessions_ukey' = [client_sessions_ukey EXCEPT ![tag] = s]
        /\ UNCHANGED <<status, uid, client_sessions_uid>>
        /\ status[s] = "open" /\ tag <= MaxTag
    BY <1>4 DEF login_request, tag_of, Reads
  <2>2. tag \in Tags
    BY <2>1, LoginTag
  <2> HIDE DEF tag
  <2>3. ASSUME NEW t \in Tags, client_sessions_ukey'[t] # Nil
        PROVE  status'[client_sessions_ukey'[t]] = "open" /\ utag'[client_sessions_ukey'[t]] = t
    <3>1. CASE t = tag
      BY <1>1, <2>1, <2>2, <3>1
    <3>2. CASE t # tag
      <4>1. /\ client_sessions_ukey'[t] = client_sessions_ukey[t]
            /\ client_sessions_ukey[t] \in Sessions
        BY <1>1, <2>1, <2>3, <3>2
      <4>2. utag[client_sessions_ukey[t]] = t /\ status[client_sessions_ukey[t]] = "open" /\ t # 0
        BY <1>1, <2>3, <4>1
      <4>3. client_sessions_ukey[t] # s
        BY <2>1, <3>2, <4>2
      <4> QED
        BY <1>1, <2>1, <4>1, <4>2, <4>3
    <3> QED
      BY <3>1, <3>2
  <2> QED
    BY <2>1, <2>3
<1>5. ASSUME NEW i \in DOMAIN pending, login_ok(i)
      PROVE  MapsAgree'
  <2> DEFINE k == pending[i].utag
             v == pending[i].uid
             s == client_sessions_ukey[k]
             C == relogin(s, v)
  <2>1. /\ status' = closed(C) /\ utag' = utag_without(C) /\ uid' = [uid EXCEPT ![s] = v]
        /\ client_sessions_ukey' = [ukey_without(C) EXCEPT ![k] = Nil]
        /\ client_sessions_uid' = [uid_without(C) EXCEPT ![v] = s]
        /\ s # Nil /\ pending[i].kind = "login"
    BY <1>5 DEF login_ok
  <2>2. s \in Sessions /\ k \in Tags /\ v \in Uids /\ status[s] = "open" /\ utag[s] = k
    BY <1>1, <2>1, Requests DEF TypeOK
  <2>3. uid[s] \in {NoUid, v} /\ s \notin C /\ C \in SUBSET Sessions
    BY <2>1, <2>2 DEF AskedInv, relogin
  <2> HIDE DEF k, v, s, C
  <2>4. ASSUME NEW t \in Tags, client_sessions_ukey'[t] # Nil
        PROVE  status'[client_sessions_ukey'[t]] = "open" /\ utag'[client_sessions_ukey'[t]] = t
    <3>1. t # k /\ client_sessions_ukey'[t] = ukey_without(C)[t]
      BY <2>1, <2>2, <2>4 DEF ukey_without
    <3>2. /\ client_sessions_ukey'[t] = client_sessions_ukey[t]
          /\ client_sessions_ukey[t] \in Sessions
          /\ status[client_sessions_ukey[t]] = "open" /\ utag[client_sessions_ukey[t]] = t
          /\ client_sessions_ukey[t] \notin C
      BY <1>1, <2>4, <3>1 DEF ukey_without
    <3> QED
      BY <2>1, <3>2 DEF closed, utag_without
  <2>5. ASSUME NEW u \in Uids, client_sessions_uid'[u] # Nil
        PROVE  status'[client_sessions_uid'[u]] = "open" /\ uid'[client_sessions_uid'[u]] = u
    <3>1. CASE u = v
      BY <1>1, <2>1, <2>2, <2>3, <3>1 DEF closed, uid_without
    <3>2. CASE u # v
      <4>1. client_sessions_uid'[u] = uid_without(C)[u]
        BY <2>1, <2>2, <3>2 DEF uid_without
      <4>2. /\ client_sessions_uid'[u] = client_sessions_uid[u]
            /\ client_sessions_uid[u] \in Sessions
            /\ status[client_sessions_uid[u]] = "open" /\ uid[client_sessions_uid[u]] = u
            /\ client_sessions_uid[u] \notin C
        BY <1>1, <2>5, <4>1 DEF uid_without
      <4>3. client_sessions_uid[u] # s
        BY <1>1, <2>3, <3>2, <4>2
      <4> QED
        BY <1>1, <2>1, <4>2, <4>3 DEF closed
    <3> QED
      BY <3>1, <3>2
  <2> QED
    BY <2>4, <2>5
<1>6. ASSUME NEW i \in DOMAIN pending, login_refused(i)
      PROVE  MapsAgree'
  BY <1>1, <1>6 DEF login_refused
<1>7. ASSUME NEW i \in DOMAIN pending, login_out_answer(i)
      PROVE  MapsAgree'
  <2> DEFINE v == pending[i].uid
             s == client_sessions_uid[v]
  <2>1. /\ UNCHANGED <<status, utag, client_sessions_ukey>>
        /\ \/ /\ s # Nil
              /\ uid' = [uid EXCEPT ![s] = NoUid]
              /\ client_sessions_uid' = [client_sessions_uid EXCEPT ![v] = Nil]
           \/ UNCHANGED <<uid, client_sessions_uid>>
    BY <1>7 DEF login_out_answer
  <2>2. v \in Uids
    BY Requests DEF TypeOK
  <2> HIDE DEF v
  <2>3. CASE /\ s # Nil
             /\ uid' = [uid EXCEPT ![s] = NoUid]
             /\ client_sessions_uid' = [client_sessions_uid EXCEPT ![v] = Nil]
    <3>1. s \in Sessions /\ uid[s] = v
      BY <1>1, <2>2, <2>3
    <3>2. ASSUME NEW u \in Uids, client_sessions_uid'[u] # Nil
          PROVE  status'[client_sessions_uid'[u]] = "open" /\ uid'[client_sessions_uid'[u]] = u
      <4>1. /\ client_sessions_uid'[u] = client_sessions_uid[u] /\ u # v
            /\ client_sessions_uid[u] \in Sessions
        BY <1>1, <2>2, <2>3, <3>2
      <4>2. status[client_sessions_uid[u]] = "open" /\ uid[client_sessions_uid[u]] = u
        BY <1>1, <4>1
      <4>3. client_sessions_uid[u] # s
        BY <3>1, <4>1, <4>2
      <4> QED
        BY <1>1, <2>1, <2>3, <4>1, <4>2, <4>3
    <3> QED
      BY <2>1, <3>2
  <2>4. CASE UNCHANGED <<uid, client_sessions_uid>>
    BY <2>1, <2>4
  <2> QED
    BY <2>1, <2>3, <2>4
<1>8. CASE UNCHANGED <<routeVars, status, utag, uid>>
  BY <1>8 DEF routeVars
<1>9. ASSUME NEW st \in Stypes,
             server_connected(st) \/ server_connect_failed(st) \/ server_disconnected(st)
      PROVE  MapsAgree'
  BY <1>8, <1>9 DEF server_connected, server_connect_failed, server_disconnected
<1>10. ASSUME NEW s \in Sessions, login_logic_request(s) \/ login_out_request(s)
       PROVE  MapsAgree'
  BY <1>8, <1>10 DEF login_logic_request, login_out_request
<1>11. ASSUME NEW i \in DOMAIN pending, login_misrouted(i)
       PROVE  MapsAgree'
  BY <1>8, <1>11 DEF login_misrouted
<1>12. CASE chick_server_connect \/ UNCHANGED vars
  BY <1>8, <1>12 DEF chick_server_connect, vars
<1> QED
  BY <1>2, <1>3, <1>4, <1>5, <1>6, <1>7, <1>9, <1>10, <1>11, <1>12 DEF Next

LEMMA PatientInit == Init => AskedInv /\ MapsAgree
BY DEF Init, AskedInv, MapsAgree

\* With patient clients whose requests end with their session, both maps lead to
\* open sessions that carry the key, although addresses are used again.
THEOREM MapsLeadToSessions ==
  ASSUME ~Impatient, ~LateReads
  PROVE  Spec => []MapsAgree
<1>1. TypeOK /\ TagInv /\ MapsAgree /\ AskedInv /\ [Next]_vars => AskedInv' /\ MapsAgree'
  BY AskedStep, MapsAgreeStep
<1> QED
  BY <1>1, TypesInit, TypesStep, TagInit, TagStep, PatientInit, PTL DEF Spec

-----------------------------------------------------------------------------
(* Patient clients: no ghosts at the logic server *)

\* What was told counts only while the logic server is connected.
ToldOverLink == Logic \notin server_session_man => \A u \in Uids : told[u] = "nothing"

\* u is logged in on an open connection.
Present(u) == \E s \in Sessions : status[s] = "open" /\ uid[s] = u

LEMMA NoGhostStep ==
  ASSUME ~Impatient, ~LateReads
  PROVE  TypeOK /\ AskedInv /\ MapsAgree /\ NoGhost /\ ToldOverLink /\ [Next]_vars
         => NoGhost' /\ ToldOverLink'
<1> SUFFICES ASSUME TypeOK, AskedInv, MapsAgree, NoGhost, ToldOverLink, [Next]_vars
             PROVE  NoGhost' /\ ToldOverLink'
  OBVIOUS
<1> USE DEF NoGhost, ToldOverLink, Present
<1>1. /\ status \in [Sessions -> {"free", "open", "closing"}]
      /\ uid \in [Sessions -> Uids \cup {NoUid}] /\ NoUid \notin Uids
      /\ told \in [Uids -> {"nothing", "login", "logged out"}]
      /\ client_sessions_uid \in [Uids -> Sessions \cup {Nil}] /\ Nil \notin Sessions
  BY GatewayConstantsOK DEF TypeOK, RouteTypes, SessionTypes, ToldType, SessionOrNil
<1>2. ASSUME UNCHANGED <<server_session_man, told>>, \A u \in Uids : Present(u) => Present(u)'
      PROVE  NoGhost' /\ ToldOverLink'
  BY <1>2
<1>3. ASSUME NEW s \in Sessions, uv_connection(s) \/ destroy(s)
      PROVE  NoGhost' /\ ToldOverLink'
  <2>1. UNCHANGED <<server_session_man, told>> /\ status[s] # "open"
    BY <1>3 DEF uv_connection, destroy, serverVars
  <2>2. \A r \in Sessions : r # s => status'[r] = status[r] /\ uid'[r] = uid[r]
    <3>1. CASE uv_connection(s)
      BY <1>1, <3>1 DEF uv_connection
    <3>2. CASE destroy(s)
      BY <1>1, <3>2 DEF destroy
    <3> QED
      BY <1>3, <3>1, <3>2
  <2>3. ASSUME NEW u \in Uids, Present(u)
        PROVE  Present(u)'
    <3>1. PICK r \in Sessions : status[r] = "open" /\ uid[r] = u
      BY <2>3
    <3>2. status'[r] = "open" /\ uid'[r] = u
      BY <2>1, <2>2, <3>1
    <3> QED
      BY <3>2
  <2> QED
    BY <1>2, <2>1, <2>3
<1>4. ASSUME NEW s \in Sessions, close(s)
      PROVE  NoGhost' /\ ToldOverLink'
  <2>1. status' = closed({s}) /\ uid' = uid /\ told' = told_lost({s}) /\ UNCHANGED server_session_man
    BY <1>4 DEF close, serverVars
  <2>2. ToldOverLink'
    BY <1>1, <2>1 DEF told_lost
  <2>3. ASSUME NEW u \in Uids, told'[u] = "login"
        PROVE  Present(u)'
    <3>1. told[u] = "login" /\ uid[s] # u
      BY <1>1, <2>1, <2>3 DEF told_lost
    <3>2. PICK r \in Sessions : status[r] = "open" /\ uid[r] = u
      BY <3>1
    <3> QED
      BY <2>1, <3>1, <3>2 DEF closed
  <2> QED
    BY <2>2, <2>3
<1>5. ASSUME NEW i \in DOMAIN pending, login_ok(i)
      PROVE  NoGhost' /\ ToldOverLink'
  <2> DEFINE k == pending[i].utag
             v == pending[i].uid
             s == client_sessions_ukey[k]
             C == relogin(s, v)
  <2>1. /\ status' = closed(C) /\ uid' = [uid EXCEPT ![s] = v] /\ told' = told_lost(C)
        /\ UNCHANGED server_session_man
        /\ s # Nil /\ pending[i].kind = "login"
    BY <1>5 DEF login_ok, serverVars
  <2>2. s \in Sessions /\ k \in Tags /\ v \in Uids /\ status[s] = "open" /\ utag[s] = k
    BY <2>1, Requests DEF TypeOK, RouteTypes, SessionOrNil, MapsAgree
  <2>3. uid[s] \in {NoUid, v} /\ s \notin C
    BY <2>1, <2>2 DEF AskedInv, relogin
  <2> HIDE DEF k, v, s, C
  <2>4. ToldOverLink'
    BY <1>1, <2>1 DEF told_lost
  <2>5. ASSUME NEW u \in Uids, told'[u] = "login"
        PROVE  Present(u)'
    <3>1. told[u] = "login" /\ \A r \in C : uid[r] # u
      BY <1>1, <2>1, <2>5 DEF told_lost
    <3>2. PICK r \in Sessions : status[r] = "open" /\ uid[r] = u
      BY <3>1
    <3>3. r \notin C /\ status'[r] = "open"
      BY <2>1, <3>1, <3>2 DEF closed
    <3>4. uid'[r] = u
      <4>1. CASE r = s
        <5>1. u \in Uids /\ u # NoUid
          BY <1>1
        <5>2. u = v
          BY <2>3, <3>2, <4>1, <5>1
        <5> QED
          BY <1>1, <2>1, <2>2, <4>1, <5>2
      <4>2. CASE r # s
        BY <1>1, <2>1, <2>2, <3>2, <4>2
      <4> QED
        BY <4>1, <4>2
    <3> QED
      BY <3>3, <3>4
  <2> QED
    BY <2>4, <2>5
<1>6. ASSUME NEW i \in DOMAIN pending, login_out_answer(i)
      PROVE  NoGhost' /\ ToldOverLink'
  <2> DEFINE v == pending[i].uid
             s == client_sessions_uid[v]
  <2>1. /\ UNCHANGED <<server_session_man, status>>
        /\ \/ /\ s # Nil
              /\ uid' = [uid EXCEPT ![s] = NoUid]
              /\ told' = IF told[v] = "login" THEN [told EXCEPT ![v] = "logged out"] ELSE told
           \/ UNCHANGED <<uid, told>>
    BY <1>6 DEF login_out_answer, serverVars
  <2>2. v \in Uids
    BY Requests DEF TypeOK
  <2> HIDE DEF v
  <2>3. CASE /\ s # Nil
             /\ uid' = [uid EXCEPT ![s] = NoUid]
             /\ told' = IF told[v] = "login" THEN [told EXCEPT ![v] = "logged out"] ELSE told
    <3>1. s \in Sessions /\ uid[s] = v
      <4>1. s \in Sessions
        BY <1>1, <2>2, <2>3
      <4>2. \A u \in Uids : client_sessions_uid[u] # Nil => uid[client_sessions_uid[u]] = u
        BY DEF MapsAgree
      <4> QED
        BY <2>2, <2>3, <4>1, <4>2
    <3>2. ASSUME NEW u \in Uids, told'[u] = "login"
          PROVE  Present(u)'
      <4>1. told[u] = "login" /\ u # v
        BY <1>1, <2>2, <2>3, <3>2
      <4>2. PICK r \in Sessions : status[r] = "open" /\ uid[r] = u
        BY <4>1
      <4> QED
        BY <1>1, <2>1, <2>3, <3>1, <4>1, <4>2
    <3>3. ToldOverLink'
      BY <1>1, <2>1, <2>2, <2>3
    <3> QED
      BY <3>2, <3>3
  <2>4. CASE UNCHANGED <<uid, told>>
    BY <1>2, <2>1, <2>4
  <2> QED
    BY <2>1, <2>3, <2>4
<1>7. ASSUME NEW s \in Sessions, login_logic_request(s)
      PROVE  NoGhost' /\ ToldOverLink'
  <2>1. /\ status[s] = "open" /\ uid[s] \in Uids /\ Logic \in server_session_man
        /\ told' = [told EXCEPT ![uid[s]] = "login"]
        /\ UNCHANGED <<status, uid, server_session_man>>
    BY <1>1, <1>7 DEF login_logic_request, Reads, serverVars
  <2> QED
    BY <1>1, <2>1
<1>8. ASSUME NEW st \in Stypes, server_disconnected(st)
      PROVE  NoGhost' /\ ToldOverLink'
  <2>1. CASE st = Logic
    BY <1>8, <2>1 DEF server_disconnected
  <2>2. CASE st # Logic
    BY <1>8, <2>2 DEF server_disconnected
  <2> QED
    BY <2>1, <2>2
<1>9. ASSUME NEW st \in Stypes, server_connected(st) \/ server_connect_failed(st)
      PROVE  NoGhost' /\ ToldOverLink'
  BY <1>9 DEF server_connected, server_connect_failed
<1>10. CASE UNCHANGED <<server_session_man, status, uid, told>>
  BY <1>10
<1>11. ASSUME NEW s \in Sessions, NEW u \in Uids, login_request(s, u)
       PROVE  NoGhost' /\ ToldOverLink'
  BY <1>10, <1>11 DEF login_request, serverVars
<1>12. ASSUME NEW s \in Sessions, login_out_request(s)
       PROVE  NoGhost' /\ ToldOverLink'
  BY <1>10, <1>12 DEF login_out_request, serverVars
<1>13. ASSUME NEW i \in DOMAIN pending, login_refused(i) \/ login_misrouted(i)
       PROVE  NoGhost' /\ ToldOverLink'
  BY <1>10, <1>13 DEF login_refused, login_misrouted, serverVars
<1>14. CASE chick_server_connect \/ UNCHANGED vars
  BY <1>10, <1>14 DEF chick_server_connect, vars, serverVars
<1> QED
  BY <1>3, <1>4, <1>5, <1>6, <1>7, <1>8, <1>9, <1>11, <1>12, <1>13, <1>14 DEF Next

\* With patient clients whose requests end with their session, whom the logic
\* server was told to have logged in, and who did not log out, is connected.
THEOREM NobodyIsForgotten ==
  ASSUME ~Impatient, ~LateReads
  PROVE  Spec => []NoGhost
<1>1. Init => NoGhost /\ ToldOverLink
  BY DEF Init, NoGhost, ToldOverLink
<1>2. TypeOK /\ TagInv /\ MapsAgree /\ AskedInv /\ [Next]_vars => AskedInv' /\ MapsAgree'
  BY AskedStep, MapsAgreeStep
<1>3. TypeOK /\ AskedInv /\ MapsAgree /\ NoGhost /\ ToldOverLink /\ [Next]_vars
      => NoGhost' /\ ToldOverLink'
  BY NoGhostStep
<1> QED
  BY <1>1, <1>2, <1>3, TypesInit, TypesStep, TagInit, TagStep, PatientInit, PTL DEF Spec
=============================================================================
