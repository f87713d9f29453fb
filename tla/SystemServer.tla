---------------------------- MODULE SystemServer ----------------------------
(***************************************************************************)
(* The system server: its users' game data and its messages.  They share   *)
(* the connections, the pool and the loop, but no data.                    *)
(***************************************************************************)
EXTENDS Bonues, SysMsg

VARIABLE part  \* bound: what a behaviour is about, "game data" or "messages"

vars == <<database, day, bonuesVars, sysMsgVars, part>>

TypeOK == day \in Days /\ DatabaseTypes /\ BonuesTypes /\ SysMsgTypes

Init ==
  /\ part \in {"game data", "messages"}
  /\ day = 1
  /\ DatabaseInit(Statements \cup {"get_sys_msg"}) /\ BonuesInit /\ SysMsgInit

game_data_works == bonues_works /\ UNCHANGED <<day, sysMsgVars, part>>

messages_work ==
  /\ part = "messages"
  /\ sys_msg_works
  /\ UNCHANGED <<day, bonuesVars, part>>

works == UNCHANGED <<day, connections, requests>> /\ (game_data_works \/ messages_work)

Next ==
  \/ works
  \/ (mysql_connect \/ redis_connect) /\ UNCHANGED <<day, bonuesVars, sysMsgVars, part>>
  \/ midnight /\ UNCHANGED <<database, bonuesVars, sysMsgVars, part>>
  \/ part = "game data" /\ asks /\ UNCHANGED <<day, sysMsgVars, part>>
  \/ part = "messages" /\ (edit \/ get_sys_msg) /\ UNCHANGED <<day, bonuesVars, part>>

\* The pool and the loop run what is ready.
Spec == Init /\ [][Next]_vars
FairSpec == Spec /\ WF_vars(works)

-----------------------------------------------------------------------------
(* Properties *)

\* A day's bonus is paid once, or once more for every time the row could not be
\* marked, whatever is in flight at midnight (_send_bonues_to_user,
\* recv_login_bonues).
PaidPerDay ==
  ~Impatient => \A u \in Users :
    history[u].paid <= Cardinality(history[u].granted) + history[u].unmarked

\* When nothing of a user is in flight, Redis has the chips of MySQL, unless requests
\* overlapped or a payment failed, and then until the next login that overlaps
\* nothing (set_ugame_info_inredis, add_chip_inredis).
CacheAgrees ==
  ~Impatient => \A u \in Users :
    ~Busy(u) /\ cache[u] # <<>> /\ history[u].doubt = "none" => cache[u] = <<Head(ugame[u])>>

\* A client that has the server's version has its messages (get_sys_msg).
VersionNamesData == ver_num = sys_msg_version => sys_msgs = sys_msg_data

\* Every request that reaches a database is answered.
RequestsAnswered == \A u \in Users : asking[u] > 0 ~> asking[u] = 0

\* Messages loaded on one day are loaded anew after midnight, whatever queries fail.
MessagesReloaded ==
  \A version \in 1 .. MaxDay - 1 :
    sys_msg_version = version /\ sys_msg_data # <<>> /\ (\A due \in timers : due <= day)
      ~> sys_msg_version # version
=============================================================================
