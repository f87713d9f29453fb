------------------------------ MODULE Database ------------------------------
(***************************************************************************)
(* The connections of a Lua service to MySQL and Redis (mysql_wrapper,     *)
(* redis_wrapper and their exports to Lua).  A query is queued to libuv's  *)
(* thread pool, a thread executes it under the connection's lock, and the  *)
(* loop calls its handler: queries in flight are executed in any order,    *)
(* and so are the handlers.                                                *)
(***************************************************************************)
EXTENDS Naturals, SequencesExt

CONSTANTS
  MaxFaults,   \* bound: MySQL queries that fail
  MaxRequests  \* bound: what clients and others ask of the service

ASSUME DatabaseConstantsOK == MaxFaults \in Nat /\ MaxRequests \in Nat

VARIABLES
  mysql_conn, redis_conn,  \* whether there is a connection
  work,                    \* per statement, its queries in flight
  faults, requests

connections == <<mysql_conn, redis_conn>>
counters == <<faults, requests>>
database == <<connections, work, counters>>

\* arg is what the handler's closure holds; ret the rows or the reply.
query(sql, uid, arg) ==
  [sql |-> sql, uid |-> uid, arg |-> arg, ran |-> FALSE, err |-> FALSE, ret |-> <<>>]

InFlight == UNION {{sql} \X DOMAIN work[sql] : sql \in DOMAIN work}
job(i) == work[i[1]][i[2]]

\* Queries, at most one of a statement, are queued.
With(queries, waiting) ==
  [sql \in DOMAIN waiting |->
     IF \E q \in queries : q.sql = sql
     THEN Append(waiting[sql], CHOOSE q \in queries : q.sql = sql) ELSE waiting[sql]]

DatabaseTypes ==
  /\ mysql_conn \in BOOLEAN /\ redis_conn \in BOOLEAN
  /\ faults \in 0 .. MaxFaults /\ requests \in 0 .. MaxRequests
  /\ \A i \in InFlight : job(i).sql = i[1] /\ (job(i).err => job(i).ran)

DatabaseInit(statements) ==
  /\ mysql_conn = FALSE /\ redis_conn = FALSE
  /\ work = [sql \in statements |-> <<>>]
  /\ faults = 0 /\ requests = 0

-----------------------------------------------------------------------------

\* An attempt that fails is repeated in five seconds.  A connection once open is
\* never given up.
mysql_connect ==
  /\ ~mysql_conn /\ mysql_conn' = TRUE
  /\ UNCHANGED <<redis_conn, work, counters>>

redis_connect ==
  /\ ~redis_conn /\ redis_conn' = TRUE
  /\ UNCHANGED <<mysql_conn, work, counters>>

Queued(i, sql) == i[1] = sql /\ ~job(i).ran
Ran(i, sql) == i[1] = sql /\ job(i).ran

Query(sql, uid, arg) == work' = With({query(sql, uid, arg)}, work)

\* Something is asked of the service.
Asked == requests < MaxRequests /\ requests' = requests + 1 /\ UNCHANGED <<connections, faults>>

Execute(i, err, ret) ==
  work' = [work EXCEPT ![i[1]][i[2]] = [@ EXCEPT !.ran = TRUE, !.err = err, !.ret = ret]]

\* A thread executes query i.
query_work(i, ret) == Execute(i, FALSE, ret) /\ UNCHANGED <<connections, counters>>

\* mysql_query fails: before the server executed the statement, or after, when the
\* connection is lost.
query_fails(i) ==
  /\ faults < MaxFaults /\ faults' = faults + 1
  /\ Execute(i, TRUE, <<>>)
  /\ UNCHANGED <<connections, requests>>

write_work(i) == query_work(i, <<>>) \/ query_fails(i)

\* The loop calls the handler of query i, which makes these queries.
on_query_complete(i, queries) ==
  /\ work' = With(queries, [work EXCEPT ![i[1]] = RemoveAt(@, i[2])])
  /\ UNCHANGED <<connections, counters>>
=============================================================================
