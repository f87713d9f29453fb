------------------------------- MODULE Bonues -------------------------------
(***************************************************************************)
(* The system server's game data (ugame.lua, login_bonues.lua): the first  *)
(* login creates a user's rows, each day's first login after that grants a *)
(* bonus, recv_login_bonues pays it, and the chips are copied to Redis and *)
(* to the world rank (game_rank.lua).                                      *)
(***************************************************************************)
EXTENDS Database, Calendar, FiniteSetsExt

CONSTANTS
  Users,
  Others,        \* players in the rank who ask nothing
  UCHIP,         \* moba_game_config.ugame.uchip
  LOGIN_BONUES,  \* moba_game_config.login_bonues
  RANK,          \* the n of get_world_rank_with_uchip_inredis
  Impatient      \* a user may ask before it has its answer

ASSUME BonuesConstantsOK ==
  /\ Users \cap Others = {} /\ Impatient \in BOOLEAN
  /\ UCHIP \in Nat /\ RANK \in Nat
  /\ LOGIN_BONUES \in Seq(Nat) /\ LOGIN_BONUES # <<>>

VARIABLES
  ugame,        \* the chips in each user's rows
  frozen,       \* users whose row has another ustatus than 0
  login_bonues, \* each user's rows
  cache,        \* uchip in Redis' moba_ugame_user_uid_, <<>> when there is none
  world_rank,   \* the members of WORLD_CHIP_RANK
  asking,       \* requests of a user that have no answer
  history       \* per user: the days a bonus was granted, the times one was paid,
                \* the status updates that failed, and whether the cache's copy of
                \* the chips is in doubt

tables == <<ugame, login_bonues, cache, world_rank>>

Statements ==
  {"get_ugame_info", "insert_ugame_info", "get_bonues_info", "insert_bonues_info",
   "update_login_bonues", "update_login_bonues_status", "add_chip", "hgetall", "hmset",
   "zadd", "zrevrange", "get_rank_user_info", "get_rank_user_ugame_info"}

bonuesVars == <<tables, frozen, asking, history>>

Bonus == [status : 0 .. 1, time : Days, days : Nat, bonues : Nat]

\* The row of a first login, whose bonus is not to be had.
NewBonus(time) == [status |-> 1, time |-> time, days |-> 0, bonues |-> 0]

BonuesTypes ==
  /\ \A u \in Users :
       /\ ugame[u] \in Seq(Nat)
       /\ login_bonues[u] \in Seq(Bonus)
       /\ cache[u] \in Seq(Nat)
  /\ world_rank \subseteq Users \cup Others /\ frozen \subseteq Users
  /\ asking \in [Users -> 0 .. MaxRequests]

\* Users are new, or have rows from the day before the first.
BonuesInit ==
  /\ \E known \in SUBSET Users :
       /\ frozen \in SUBSET known
       /\ ugame = [u \in Users |-> IF u \in known THEN <<UCHIP>> ELSE <<>>]
       /\ login_bonues = [u \in Users |-> IF u \in known THEN <<NewBonus(0)>> ELSE <<>>]
       /\ world_rank = IF known = {} THEN {} ELSE Others
  /\ cache = [u \in Users |-> <<>>]
  /\ asking = [u \in Users |-> 0]
  /\ history = [u \in Users |->
                  [granted |-> {}, paid |-> 0, unmarked |-> 0, doubt |-> "none"]]

-----------------------------------------------------------------------------
(* Requests and answers *)

Ranking == {"zrevrange", "get_rank_user_info", "get_rank_user_ugame_info"}

\* Queries about a user's chips and bonus are in flight.
Busy(u) == \E i \in InFlight : job(i).uid = u /\ i[1] \notin Ranking

Asks(u, sql, arg) ==
  /\ Asked
  /\ asking[u] = 0 \/ Impatient
  /\ asking' = [asking EXCEPT ![u] = @ + 1]
  /\ Query(sql, u, arg)
  /\ UNCHANGED <<tables, frozen>>

Answered(u) == asking' = [asking EXCEPT ![u] = @ - 1]

Doubt(u, doubt) == history' = [history EXCEPT ![u].doubt = doubt]

\* Without MySQL a request for game data is answered at once, with an error.
get_ugame_info(u) ==
  /\ mysql_conn
  /\ Asks(u, "get_ugame_info", <<"check">>)
  /\ Doubt(u, CASE Busy(u) -> "yes"
                [] ~Busy(u) /\ history[u].doubt = "yes" -> "repairing"
                [] OTHER -> history[u].doubt)

recv_login_bonues(u) ==
  /\ mysql_conn
  /\ Asks(u, "get_bonues_info", <<"recv">>)
  /\ Doubt(u, IF Busy(u) THEN "yes" ELSE history[u].doubt)

\* Without Redis a request for the rank has no answer at all.
get_world_uchip_rank(u) ==
  /\ redis_conn
  /\ Asks(u, "zrevrange", <<>>)
  /\ UNCHANGED history

-----------------------------------------------------------------------------
(* Handlers, in the loop *)

\* The handler of query i answers, with an error or a refusal.
Refuse(i, u) ==
  /\ on_query_complete(i, {})
  /\ Answered(u)
  /\ Doubt(u, IF history[u].doubt = "repairing" THEN "yes" ELSE history[u].doubt)

\* It goes on with these queries.
GoOn(i, queries) == on_query_complete(i, queries) /\ UNCHANGED <<asking, history>>

Rows(i) == ~job(i).err /\ job(i).ret # <<>>
NoRows(i) == ~job(i).err /\ job(i).ret = <<>>

on_get_ugame_info(i, u) ==
  \/ (job(i).err \/ (Rows(i) /\ u \in frozen)) /\ Refuse(i, u)
  \/ NoRows(i) /\ GoOn(i, {query("insert_ugame_info", u, job(i).arg)})
  \/ /\ Rows(i) /\ u \notin frozen
     /\ GoOn(i, {query("get_bonues_info", u, <<"check", Head(job(i).ret)>>)})

\* Fault: an error of the insertion is only logged.
on_insert_silent(i, u, select) ==
  GoOn(i, IF job(i).err THEN {} ELSE {query(select, u, job(i).arg)})

\* A row is inserted, and looked up again.
on_insert(i, u, select) ==
  \/ job(i).err /\ Refuse(i, u)
  \/ ~job(i).err /\ GoOn(i, {query(select, u, job(i).arg)})

\* Queries that are made if Redis is connected.
Redis(queries) == IF redis_conn THEN queries ELSE {}

\* The end of get_ugameinfo: the chips are those read at its beginning.
finish(i, u, uchip) ==
  /\ on_query_complete(i, Redis({query("hmset", u, uchip), query("zadd", u, uchip)}))
  /\ Answered(u)
  /\ Doubt(u, IF history[u].doubt = "repairing" THEN "none" ELSE history[u].doubt)

\* The day's bonus; yesterday's login continues the row of days.
granted(info) ==
  LET next == IF Yesterday(info.time) THEN info.days + 1 ELSE 1
      days == IF next > Len(LOGIN_BONUES) THEN 1 ELSE next
  IN [status |-> 0, time |-> day, days |-> days, bonues |-> LOGIN_BONUES[days]]

check_login_bonues(i, u) ==
  LET uchip == job(i).arg[2]
      info == Head(job(i).ret)
  IN \/ job(i).err /\ Refuse(i, u)
     \/ NoRows(i) /\ GoOn(i, {query("insert_bonues_info", u, <<"check", uchip, day>>)})
     \/ /\ Rows(i) /\ ~Today(info.time)
        /\ GoOn(i, {query("update_login_bonues", u, <<uchip, granted(info)>>)})
     \/ Rows(i) /\ Today(info.time) /\ finish(i, u, uchip)

on_update_login_bonues(i, u) ==
  \/ job(i).err /\ Refuse(i, u)
  \/ ~job(i).err /\ finish(i, u, job(i).arg[1])

\* Fault: any row has a bonus.
Due_always(rows) == rows # <<>>

\* Whether the bonus of the row is still to be had.
Due(rows) == rows # <<>> /\ Head(rows).status = 0

\* The bonus is paid in MySQL and in Redis, and the row marked, by three queries
\* of which only the last has a handler that answers.
pay(i, u) ==
  \/ (job(i).err \/ ~Due(job(i).ret)) /\ Refuse(i, u)
  \/ /\ ~job(i).err /\ Due(job(i).ret)
     /\ LET bonues == Head(job(i).ret).bonues
        IN GoOn(i, {query("add_chip", u, bonues), query("update_login_bonues_status", u, day)}
                     \cup Redis({query("hgetall", u, bonues)}))

\* Whatever its error.
on_update_login_bonues_status(i, u) ==
  on_query_complete(i, {}) /\ Answered(u) /\ UNCHANGED history

\* Fault: the copy is written back as it was read.
on_hgetall_unpaid(i, u) ==
  GoOn(i, {query("hmset", u, uchip) : uchip \in ToSet(job(i).ret)})

\* add_chip_inredis: without a copy to add to, the handler raises an error.
on_hgetall(i, u) ==
  GoOn(i, {query("hmset", u, uchip + job(i).arg) : uchip \in ToSet(job(i).ret)})

on_zrevrange(i, u) ==
  \/ Rows(i) /\ GoOn(i, {query("get_rank_user_info", u, <<1, job(i).ret>>)})
  \/ NoRows(i) /\ Refuse(i, u)

\* The players of the rank are looked up one after the other, and then their games.
\* What is found only fills the answer: a lookup is one step, its handler included.
get_rank_user_info(i, u) ==
  LET index == job(i).arg[1]
      rank_info == job(i).arg[2]
  IN GoOn(i, {IF index < Len(rank_info)
               THEN query("get_rank_user_info", u, <<index + 1, rank_info>>)
               ELSE query("get_rank_user_ugame_info", u, <<1, rank_info>>)})

get_rank_user_ugame_info(i, u) ==
  LET index == job(i).arg[1]
      rank_info == job(i).arg[2]
  IN \/ /\ index < Len(rank_info)
        /\ GoOn(i, {query("get_rank_user_ugame_info", u, <<index + 1, rank_info>>)})
     \/ index = Len(rank_info) /\ on_query_complete(i, {}) /\ Answered(u) /\ UNCHANGED history

handlers(i, u) ==
  \/ Ran(i, "get_ugame_info") /\ on_get_ugame_info(i, u)
  \/ Ran(i, "insert_ugame_info") /\ on_insert(i, u, "get_ugame_info")
  \/ Ran(i, "get_bonues_info") /\ job(i).arg[1] = "check" /\ check_login_bonues(i, u)
  \/ Ran(i, "insert_bonues_info") /\ on_insert(i, u, "get_bonues_info")
  \/ Ran(i, "update_login_bonues") /\ on_update_login_bonues(i, u)
  \/ Ran(i, "get_bonues_info") /\ job(i).arg[1] = "recv" /\ pay(i, u)
  \/ Ran(i, "update_login_bonues_status") /\ on_update_login_bonues_status(i, u)
  \/ Ran(i, "hgetall") /\ on_hgetall(i, u)
  \/ Ran(i, "zrevrange") /\ on_zrevrange(i, u)
  \/ Queued(i, "get_rank_user_info") /\ get_rank_user_info(i, u)
  \/ Queued(i, "get_rank_user_ugame_info") /\ get_rank_user_ugame_info(i, u)

-----------------------------------------------------------------------------
(* Statements, in the pool *)

select(i, u) ==
  /\ \/ Queued(i, "get_ugame_info") /\ query_work(i, ugame[u])
     \/ Queued(i, "get_bonues_info") /\ query_work(i, login_bonues[u])
     \/ Queued(i, "hgetall") /\ query_work(i, cache[u])
     \/ /\ Queued(i, "zrevrange")
        /\ \E order \in SetToSeqs(world_rank) :
             query_work(i, SubSeq(order, 1, Min({Len(order), RANK + 1})))
  /\ UNCHANGED <<tables, history>>

insert_ugame_info(i, u) ==
  /\ Queued(i, "insert_ugame_info") /\ write_work(i)
  /\ ugame' = [ugame EXCEPT ![u] = Append(@, UCHIP)]
  /\ UNCHANGED <<login_bonues, cache, world_rank, history>>

insert_bonues_info(i, u) ==
  /\ Queued(i, "insert_bonues_info") /\ write_work(i)
  /\ login_bonues' = [login_bonues EXCEPT ![u] =
                        Append(@, NewBonus(job(i).arg[3]))]
  /\ UNCHANGED <<ugame, cache, world_rank, history>>

update_login_bonues(i, u) ==
  /\ Queued(i, "update_login_bonues") /\ write_work(i)
  /\ LET info == job(i).arg[2]
     IN /\ login_bonues' = [login_bonues EXCEPT ![u] = [k \in DOMAIN @ |-> info]]
        /\ history' = [history EXCEPT ![u].granted = @ \cup {info.time}]
  /\ UNCHANGED <<ugame, cache, world_rank>>

\* days = days + 1, as when the bonus was granted.
marked(info, time) ==
  [info EXCEPT !.status = 1, !.time = time, !.days = @ + 1]

update_login_bonues_status(i, u) ==
  /\ Queued(i, "update_login_bonues_status") /\ write_work(i)
  /\ login_bonues' = [login_bonues EXCEPT ![u] =
                        [k \in DOMAIN @ |-> marked(@[k], job(i).arg)]]
  /\ UNCHANGED <<ugame, cache, world_rank, history>>

\* The last three statements have no handler, or one that does nothing: they are
\* over when they are executed.
add_chip(i, u) ==
  /\ Queued(i, "add_chip") /\ on_query_complete(i, {})
  /\ ugame' = [ugame EXCEPT ![u] = [k \in DOMAIN @ |-> @[k] + job(i).arg]]
  /\ history' = [history EXCEPT ![u].paid = @ + 1]
  /\ UNCHANGED <<login_bonues, cache, world_rank>>

hmset(i, u) ==
  /\ Queued(i, "hmset") /\ on_query_complete(i, {})
  /\ cache' = [cache EXCEPT ![u] = <<job(i).arg>>]
  /\ UNCHANGED <<ugame, login_bonues, world_rank, history>>

zadd(i, u) ==
  /\ Queued(i, "zadd") /\ on_query_complete(i, {})
  /\ world_rank' = world_rank \cup {u}
  /\ UNCHANGED <<ugame, login_bonues, cache, history>>

\* A statement fails, and has done nothing.
nothing_done(i, u) ==
  /\ \/ /\ \E sql \in {"get_ugame_info", "insert_ugame_info", "get_bonues_info",
                       "insert_bonues_info", "update_login_bonues"} : Queued(i, sql)
        /\ query_fails(i)
        /\ UNCHANGED history
     \/ /\ Queued(i, "update_login_bonues_status") /\ query_fails(i)
        /\ history' = [history EXCEPT ![u].unmarked = @ + 1]
     \/ /\ Queued(i, "add_chip") /\ faults < MaxFaults
        /\ faults' = faults + 1 /\ UNCHANGED <<connections, requests>>
        /\ work' = [work EXCEPT !["add_chip"] = RemoveAt(@, i[2])]
        /\ Doubt(u, "yes")
  /\ UNCHANGED tables

statements(i, u) ==
  \/ select(i, u)
  \/ insert_ugame_info(i, u) \/ insert_bonues_info(i, u)
  \/ update_login_bonues(i, u) \/ update_login_bonues_status(i, u)
  \/ add_chip(i, u) \/ hmset(i, u) \/ zadd(i, u)
  \/ nothing_done(i, u)

asks ==
  \E u \in Users : get_ugame_info(u) \/ recv_login_bonues(u) \/ get_world_uchip_rank(u)

bonues_works ==
  \E i \in InFlight : \E u \in {job(i).uid} \cap Users :
    /\ \/ handlers(i, u) /\ UNCHANGED tables
       \/ statements(i, u) /\ UNCHANGED asking
    /\ UNCHANGED frozen
=============================================================================
