------------------------------- MODULE SysMsg -------------------------------
(***************************************************************************)
(* The system server's messages (sys_msg.lua): loaded from MySQL after the *)
(* start and after every midnight, and sent to clients that do not have    *)
(* their version.                                                          *)
(***************************************************************************)
EXTENDS Database, Calendar

CONSTANTS
  Contents  \* contents the table may have, <<>> among them

ASSUME SysMsgConstantsOK == <<>> \in Contents

VARIABLES
  sys_msg,           \* the table: others edit it
  sys_msg_data, sys_msg_version,
  timers,            \* the days load_sys_msg is scheduled for, 0 in five seconds
  ver_num, sys_msgs  \* what a client has

sysMsgVars == <<sys_msg, sys_msg_data, sys_msg_version, timers, ver_num, sys_msgs>>
client == <<ver_num, sys_msgs>>

SysMsgTypes ==
  /\ {sys_msg, sys_msg_data, sys_msgs} \subseteq Contents
  /\ sys_msg_version \in Nat /\ ver_num \in 0 .. sys_msg_version
  /\ timers \subseteq 0 .. MaxDay + 1

SysMsgInit ==
  /\ sys_msg \in Contents \ {<<>>}
  /\ sys_msg_data = <<>> /\ sys_msg_version = 0
  /\ timers = {0}
  /\ ver_num = 0 /\ sys_msgs = <<>>

edit ==
  /\ sys_msg' \in Contents \ {sys_msg}
  /\ Asked
  /\ UNCHANGED <<sys_msg_data, sys_msg_version, timers, client, work>>

\* Fault: a day too late.
Reload_late(ret) == IF ret = <<>> THEN {} ELSE {day + 2}

\* The version is the time in seconds: a new one for every load.  Messages are
\* loaded again tomorrow, if there are any.
Reload(ret) == IF ret = <<>> THEN {} ELSE {day + 1}

\* Fault: the version is only set with messages.
loaded_unversioned(ret, left) ==
  /\ sys_msg_version' = sys_msg_version + (IF ret = <<>> THEN 0 ELSE 1)
  /\ sys_msg_data' = ret
  /\ timers' = left \cup Reload(ret)

loaded(ret, left) ==
  /\ sys_msg_version' = sys_msg_version + 1
  /\ sys_msg_data' = ret
  /\ timers' = left \cup Reload(ret)

\* The timer fires.  Without MySQL the handler is called with no error and no rows.
load_sys_msg ==
  /\ \E due \in timers :
       /\ due <= day
       /\ \/ /\ mysql_conn /\ Query("get_sys_msg", 0, <<>>) /\ UNCHANGED <<connections, counters>>
             /\ timers' = timers \ {due}
             /\ UNCHANGED <<sys_msg_data, sys_msg_version>>
          \/ ~mysql_conn /\ loaded(<<>>, timers \ {due}) /\ UNCHANGED database
  /\ UNCHANGED <<sys_msg, client>>

select_sys_msg ==
  /\ \E i \in InFlight :
       Queued(i, "get_sys_msg") /\ (query_work(i, sys_msg) \/ query_fails(i))
  /\ UNCHANGED sysMsgVars

\* Fault: an error is only logged.
Retry_never == {}

\* After an error the timer is set for five seconds.
Retry == {0}

on_get_sys_msg ==
  /\ \E i \in InFlight :
       /\ Ran(i, "get_sys_msg") /\ on_query_complete(i, {})
       /\ \/ job(i).err /\ timers' = timers \cup Retry /\ UNCHANGED <<sys_msg_data, sys_msg_version>>
          \/ ~job(i).err /\ loaded(job(i).ret, timers)
  /\ UNCHANGED <<sys_msg, client>>

\* A client asks, and gets the messages unless it has their version.
get_sys_msg ==
  /\ ver_num # sys_msg_version
  /\ ver_num' = sys_msg_version /\ sys_msgs' = sys_msg_data
  /\ Asked
  /\ UNCHANGED <<sys_msg, sys_msg_data, sys_msg_version, timers, work>>

sys_msg_works == load_sys_msg \/ select_sys_msg \/ on_get_sys_msg
=============================================================================
