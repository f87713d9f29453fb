------------------------- MODULE SystemServerProofs -------------------------
(***************************************************************************)
(* What TLAPS proves of SystemServer for any users, bonuses and days.      *)
(*                                                                         *)
(* Every request that has no answer has one query in flight that leads to  *)
(* it, so that a patient user's queries about the bonus are one at a time, *)
(* and what one has read is what the next one finds.  A payment and the    *)
(* copy of the chips go on after the answer: what is known of them is a    *)
(* statement about everything of the user that is in flight.               *)
(***************************************************************************)
EXTENDS SystemServer, QueueLemmas

Sqls == Statements \cup {"get_sys_msg"}

\* The queries whose handlers lead to an answer; the others have none.
Answering ==
  {"get_ugame_info", "insert_ugame_info", "get_bonues_info", "insert_bonues_info",
   "update_login_bonues", "update_login_bonues_status", "zrevrange", "get_rank_user_info",
   "get_rank_user_ugame_info"}

\* What queries hold and return.
Sound(q) ==
  /\ DOMAIN q = {"sql", "uid", "arg", "ran", "err", "ret"}
  /\ q.err => q.ran
  /\ q.sql \in Statements => q.uid \in Users
  /\ q.sql = "get_ugame_info" => q.ret \in Seq(Nat)
  /\ q.sql = "get_bonues_info" =>
       q.ret \in Seq(Bonus) /\ (q.arg[1] = "check" => q.arg[2] \in Nat)
  /\ q.sql = "insert_bonues_info" => q.arg[2] \in Nat /\ q.arg[3] \in Days
  /\ q.sql = "update_login_bonues" => q.arg[1] \in Nat /\ q.arg[2] \in Bonus
  /\ q.sql = "update_login_bonues_status" => q.arg \in Days
  /\ q.sql \in {"add_chip", "hgetall", "hmset"} => q.arg \in Nat
  /\ q.sql = "hgetall" => q.ret \in Seq(Nat)
  /\ q.sql = "get_sys_msg" => q.ret \in Contents

SoundWork == \E S : work \in Pool(Sqls, S) /\ \A q \in S : Sound(q)

\* A user's requests without an answer are as many as its queries that lead to one.
Counted(u) ==
  /\ IsFiniteSet(Places(work, Answering, u))
  /\ Cardinality(Places(work, Answering, u)) = asking[u]
  /\ asking[u] <= requests

DatabaseCounts ==
  /\ mysql_conn \in BOOLEAN /\ redis_conn \in BOOLEAN
  /\ faults \in 0 .. MaxFaults /\ requests \in 0 .. MaxRequests

History ==
  [granted : SUBSET Days, paid : Nat, unmarked : Nat, doubt : {"none", "yes", "repairing"}]

GameTypes ==
  /\ ugame \in [Users -> Seq(Nat)]
  /\ login_bonues \in [Users -> Seq(Bonus)]
  /\ cache \in [Users -> Seq(Nat)]
  /\ world_rank \subseteq Users \cup Others /\ frozen \subseteq Users
  /\ history \in [Users -> History]

AskingCounts == asking \in [Users -> Nat] /\ \A u \in Users : Counted(u)

TypesInv == day \in Days /\ DatabaseCounts /\ SoundWork /\ GameTypes /\ AskingCounts /\ SysMsgTypes

-----------------------------------------------------------------------------
(* Steps of the queries in flight *)

\* What is in flight is sound.
LEMMA InFlightSound ==
  ASSUME SoundWork, NEW i \in InFlight
  PROVE  /\ i = <<i[1], i[2]>> /\ i[1] \in Sqls /\ i[2] \in DOMAIN work[i[1]]
         /\ Sound(job(i)) /\ job(i).sql = i[1]
<1>1. PICK S : work \in Pool(Sqls, S) /\ \A q \in S : Sound(q)
  BY DEF SoundWork
<1>2. DOMAIN work = Sqls
  BY <1>1 DEF Pool
<1>3. i = <<i[1], i[2]>> /\ i[1] \in Sqls /\ i[2] \in DOMAIN work[i[1]]
  BY <1>2 DEF InFlight
<1> QED
  BY <1>1, <1>3, PoolElements DEF job

\* Queries are made.
LEMMA Makes ==
  ASSUME SoundWork, NEW Q, \A q \in Q : Sound(q) /\ q.sql \in Sqls, work' = With(Q, work)
  PROVE  /\ SoundWork'
         /\ \A k \in InFlight : k \in InFlight' /\ job(k)' = job(k)
         /\ \A k \in InFlight' : k \in InFlight \/ (job(k)' \in Q /\ job(k)'.sql = k[1])
         /\ \A T, u : (\A q \in Q : ~ (q.sql \in T /\ q.uid = u)) =>
              Places(work', T, u) = Places(work, T, u)
         /\ \A T, u : \A q \in Q :
              /\ q.sql \in T /\ q.uid = u /\ IsFiniteSet(Places(work, T, u))
              /\ \A p \in Q : (p.sql \in T /\ p.uid = u) \/ p.sql = q.sql => p = q
              => /\ IsFiniteSet(Places(work', T, u))
                 /\ Cardinality(Places(work', T, u)) = Cardinality(Places(work, T, u)) + 1
<1>1. PICK S : work \in Pool(Sqls, S) /\ \A p \in S : Sound(p)
  BY DEF SoundWork
<1> DEFINE U == S \cup Q
<1>2. work \in Pool(Sqls, U) /\ Q \in SUBSET U /\ work' = More(Q, work)
  BY <1>1, PoolGrows DEF With, More
<1>3. \A p \in U : Sound(p)
  BY <1>1
<1> HIDE DEF U
<1>4. work' \in Pool(Sqls, U)
  BY <1>2, PoolMore
<1>5. SoundWork'
  BY <1>3, <1>4 DEF SoundWork
<1>6. /\ DOMAIN work = Sqls /\ DOMAIN work' = Sqls
      /\ \A sql \in Sqls :
           /\ \A k \in DOMAIN work[sql] : k \in DOMAIN work'[sql] /\ work'[sql][k] = work[sql][k]
           /\ \A k \in DOMAIN work'[sql] :
                \/ k \in DOMAIN work[sql]
                \/ k = Len(work[sql]) + 1 /\ work'[sql][k] \in Q /\ work'[sql][k].sql = sql
  BY <1>2, MoreElements
<1>7. /\ \A k : k \in InFlight <=> k = <<k[1], k[2]>> /\ k[1] \in Sqls /\ k[2] \in DOMAIN work[k[1]]
      /\ \A k : k \in InFlight' <=> k = <<k[1], k[2]>> /\ k[1] \in Sqls /\ k[2] \in DOMAIN work'[k[1]]
  BY <1>2, <1>4, PoolPlaces DEF InFlight
<1>8. ASSUME NEW k \in InFlight
      PROVE  k \in InFlight' /\ job(k)' = job(k)
  <2>1. k = <<k[1], k[2]>> /\ k[1] \in Sqls /\ k[2] \in DOMAIN work[k[1]]
    BY <1>7
  <2>2. k[2] \in DOMAIN work'[k[1]] /\ work'[k[1]][k[2]] = work[k[1]][k[2]]
    BY <1>6, <2>1
  <2> QED
    BY <1>7, <2>1, <2>2 DEF job
<1>9. ASSUME NEW k \in InFlight'
      PROVE  k \in InFlight \/ (job(k)' \in Q /\ job(k)'.sql = k[1])
  <2>1. k = <<k[1], k[2]>> /\ k[1] \in Sqls /\ k[2] \in DOMAIN work'[k[1]]
    BY <1>7
  <2>2. k[2] \in DOMAIN work[k[1]] \/ (work'[k[1]][k[2]] \in Q /\ work'[k[1]][k[2]].sql = k[1])
    BY <1>6, <2>1
  <2> QED
    BY <1>7, <2>1, <2>2 DEF job
<1>10. ASSUME NEW T, NEW u, \A q \in Q : ~ (q.sql \in T /\ q.uid = u)
       PROVE  Places(work', T, u) = Places(work, T, u)
  BY <1>2, <1>10, PlacesSame
<1>11. ASSUME NEW T, NEW u, NEW q \in Q,
              q.sql \in T /\ q.uid = u /\ IsFiniteSet(Places(work, T, u)),
              \A p \in Q : (p.sql \in T /\ p.uid = u) \/ p.sql = q.sql => p = q
       PROVE  /\ IsFiniteSet(Places(work', T, u))
              /\ Cardinality(Places(work', T, u)) = Cardinality(Places(work, T, u)) + 1
  BY <1>2, <1>11, PlacesMore
<1> QED
  BY <1>5, <1>8, <1>9, <1>10, <1>11

\* Query q, when it has been executed.
After(q, err, ret) == [q EXCEPT !.ran = TRUE, !.err = err, !.ret = ret]

LEMMA AfterIs ==
  ASSUME NEW q, Sound(q), NEW err, NEW ret, NEW p, p = After(q, err, ret)
  PROVE  /\ DOMAIN p = DOMAIN q /\ p.sql = q.sql /\ p.uid = q.uid /\ p.arg = q.arg
         /\ p.ran /\ p.err = err /\ p.ret = ret
<1>1. DOMAIN q = {"sql", "uid", "arg", "ran", "err", "ret"}
  BY DEF Sound
<1>2. DOMAIN p = DOMAIN q /\ p.sql = q.sql /\ p.uid = q.uid /\ p.arg = q.arg /\ p.ret = ret
  BY <1>1 DEF After
<1>3. p.ran
  BY <1>1, Zenon DEF After
<1>4. p.err = err
  BY <1>1 DEF After
<1> QED
  BY <1>2, <1>3, <1>4

\* A query is executed.
LEMMA Executes ==
  ASSUME SoundWork, NEW i \in InFlight, NEW err, NEW ret, Execute(i, err, ret),
         Sound(After(job(i), err, ret))
  PROVE  /\ SoundWork' /\ InFlight' = InFlight
         /\ job(i)' = After(job(i), err, ret)
         /\ \A k \in InFlight : k # i => job(k)' = job(k)
         /\ \A T, u : Places(work', T, u) = Places(work, T, u)
<1> DEFINE q == After(job(i), err, ret)
<1>1. PICK S : work \in Pool(Sqls, S) /\ \A p \in S : Sound(p)
  BY DEF SoundWork
<1> DEFINE U == S \cup {q}
<1>2. work \in Pool(Sqls, U) /\ (\A p \in U : Sound(p)) /\ q \in U
  BY <1>1, PoolGrows
<1>3. /\ i = <<i[1], i[2]>> /\ i[1] \in Sqls /\ i[2] \in DOMAIN work[i[1]]
      /\ Sound(job(i)) /\ job(i).sql = i[1]
  BY InFlightSound
<1>4. q.sql = i[1] /\ q.uid = work[i[1]][i[2]].uid
  <2>0. q = After(job(i), err, ret)
    OBVIOUS
  <2> HIDE DEF q
  <2>1. q.sql = job(i).sql /\ q.uid = job(i).uid
    BY <1>3, <2>0, AfterIs
  <2> QED
    BY <1>3, <2>1 DEF job
<1>5. work' = [work EXCEPT ![i[1]][i[2]] = q]
  BY DEF Execute, job, After
<1> HIDE DEF U, q
<1>6. work' \in Pool(Sqls, U)
  BY <1>2, <1>3, <1>4, <1>5, PoolChange
<1>7. SoundWork'
  BY <1>2, <1>6 DEF SoundWork
<1>8. /\ DOMAIN work = Sqls /\ DOMAIN work' = Sqls
      /\ \A k : k \in InFlight <=> k = <<k[1], k[2]>> /\ k[1] \in Sqls /\ k[2] \in DOMAIN work[k[1]]
  BY <1>2, <1>6, PoolPlaces DEF InFlight, Pool
<1>9. \A sql \in Sqls :
        /\ DOMAIN work'[sql] = DOMAIN work[sql]
        /\ \A k \in DOMAIN work[sql] :
             work'[sql][k] = IF sql = i[1] /\ k = i[2] THEN q ELSE work[sql][k]
  BY <1>3, <1>5, <1>8
<1>10. InFlight' = InFlight
  BY <1>8, <1>9 DEF InFlight
<1>11. job(i)' = q
  BY <1>3, <1>9 DEF job
<1>13. ASSUME NEW k \in InFlight, k # i
       PROVE  job(k)' = job(k)
  <2>1. k = <<k[1], k[2]>> /\ k[1] \in Sqls /\ k[2] \in DOMAIN work[k[1]]
    BY <1>8
  <2>2. ~ (k[1] = i[1] /\ k[2] = i[2])
    BY <1>3, <1>13, <2>1
  <2>3. work'[k[1]][k[2]] = work[k[1]][k[2]]
    BY <1>9, <2>1, <2>2
  <2> QED
    BY <2>3 DEF job
<1>12. ASSUME NEW T, NEW u
       PROVE  Places(work', T, u) = Places(work, T, u)
  <2>1. \A sql \in Sqls : \A k \in DOMAIN work[sql] : work'[sql][k].uid = work[sql][k].uid
    BY <1>4, <1>9
  <2> QED
    BY <1>8, <1>9, <2>1 DEF Places
<1> QED
  BY <1>7, <1>10, <1>11, <1>12, <1>13 DEF q

\* A query is over, and its handler makes queries.
Leaves(i, Q) == work' = With(Q, [work EXCEPT ![i[1]] = RemoveAt(@, i[2])])

LEMMA Completes ==
  ASSUME SoundWork, NEW i \in InFlight, NEW Q, \A q \in Q : Sound(q) /\ q.sql \in Sqls,
         Leaves(i, Q)
  PROVE  /\ SoundWork'
         /\ \A k \in InFlight' :
              \/ job(k)' \in Q /\ job(k)'.sql = k[1]
              \/ \E j \in InFlight : j # i /\ j[1] = k[1] /\ job(k)' = job(j)
         /\ \A j \in InFlight : j # i => \E k \in InFlight' : k[1] = j[1] /\ job(k)' = job(j)
         /\ \A q \in Q : (\A p \in Q : p.sql = q.sql => p = q) =>
              \E k \in InFlight' : k[1] = q.sql /\ job(k)' = q
         /\ \A T, u : IsFiniteSet(Places(work, T, u)) =>
              LET left == Cardinality(Places(work, T, u))
                            - (IF i[1] \in T /\ job(i).uid = u THEN 1 ELSE 0)
              IN /\ (\A q \in Q : ~ (q.sql \in T /\ q.uid = u)) =>
                      /\ IsFiniteSet(Places(work', T, u))
                      /\ Cardinality(Places(work', T, u)) = left
                 /\ \A q \in Q :
                      /\ q.sql \in T /\ q.uid = u
                      /\ \A p \in Q : (p.sql \in T /\ p.uid = u) \/ p.sql = q.sql => p = q
                      => /\ IsFiniteSet(Places(work', T, u))
                         /\ Cardinality(Places(work', T, u)) = left + 1
<1>1. PICK S : work \in Pool(Sqls, S) /\ \A p \in S : Sound(p)
  BY DEF SoundWork
<1> DEFINE U == S \cup Q
           less == Less(work, i[1], i[2])
<1>2. work \in Pool(Sqls, U) /\ Q \in SUBSET U
  BY <1>1, PoolGrows
<1>3. \A p \in U : Sound(p)
  BY <1>1
<1>4. i = <<i[1], i[2]>> /\ i[1] \in Sqls /\ i[2] \in DOMAIN work[i[1]]
  BY InFlightSound
<1>5. less = Less(work, i[1], i[2])
  OBVIOUS
<1>6. work' = More(Q, less)
  BY DEF Leaves, With, More, Less
<1>7. less \in Pool(Sqls, U)
  BY <1>2, <1>4, PoolLess
<1> HIDE DEF U, less
<1>8. work' \in Pool(Sqls, U)
  BY <1>2, <1>6, <1>7, PoolMore
<1>9. SoundWork'
  BY <1>3, <1>8 DEF SoundWork
<1>10. /\ DOMAIN less = Sqls
       /\ \A sql \in Sqls : sql # i[1] => less[sql] = work[sql]
       /\ \A k \in DOMAIN less[i[1]] :
            \E j \in DOMAIN work[i[1]] : j # i[2] /\ less[i[1]][k] = work[i[1]][j]
       /\ \A j \in DOMAIN work[i[1]] :
            j # i[2] => \E k \in DOMAIN less[i[1]] : less[i[1]][k] = work[i[1]][j]
  BY <1>2, <1>4, <1>5, LessElements
<1>11. /\ DOMAIN work' = Sqls
       /\ \A sql \in Sqls :
            /\ \A k \in DOMAIN less[sql] : k \in DOMAIN work'[sql] /\ work'[sql][k] = less[sql][k]
            /\ \A k \in DOMAIN work'[sql] :
                 \/ k \in DOMAIN less[sql]
                 \/ k = Len(less[sql]) + 1 /\ work'[sql][k] \in Q /\ work'[sql][k].sql = sql
            /\ Len(less[sql]) + 1 \notin DOMAIN less[sql]
            /\ (\E q \in Q : q.sql = sql) => Len(less[sql]) + 1 \in DOMAIN work'[sql]
  BY <1>2, <1>6, <1>7, MoreElements
<1>12. /\ \A k : k \in InFlight <=> k = <<k[1], k[2]>> /\ k[1] \in Sqls /\ k[2] \in DOMAIN work[k[1]]
       /\ \A k : k \in InFlight' <=> k = <<k[1], k[2]>> /\ k[1] \in Sqls /\ k[2] \in DOMAIN work'[k[1]]
  BY <1>2, <1>8, PoolPlaces DEF InFlight
<1>13. ASSUME NEW k \in InFlight'
       PROVE  \/ job(k)' \in Q /\ job(k)'.sql = k[1]
              \/ \E j \in InFlight : j # i /\ j[1] = k[1] /\ job(k)' = job(j)
  <2> DEFINE sql == k[1]
             n == k[2]
  <2>1. k = <<sql, n>> /\ sql \in Sqls /\ n \in DOMAIN work'[sql] /\ job(k)' = work'[sql][n]
    BY <1>12 DEF job
  <2> HIDE DEF sql, n
  <2>2. CASE n \in DOMAIN less[sql]
    <3>1. job(k)' = less[sql][n]
      BY <1>11, <2>1, <2>2
    <3>2. \E m \in DOMAIN work[sql] : ~ (sql = i[1] /\ m = i[2]) /\ less[sql][n] = work[sql][m]
      BY <1>10, <2>1, <2>2
    <3>3. PICK m \in DOMAIN work[sql] : ~ (sql = i[1] /\ m = i[2]) /\ less[sql][n] = work[sql][m]
      BY <3>2
    <3>4. <<sql, m>> \in InFlight /\ <<sql, m>> # i /\ job(<<sql, m>>) = work[sql][m]
      BY <1>4, <1>12, <2>1, <3>3 DEF job
    <3> QED
      BY <3>1, <3>3, <3>4 DEF sql
  <2>3. CASE n \notin DOMAIN less[sql]
    BY <1>11, <2>1, <2>3 DEF sql
  <2> QED
    BY <2>2, <2>3
<1>14. ASSUME NEW j \in InFlight, j # i
       PROVE  \E k \in InFlight' : k[1] = j[1] /\ job(k)' = job(j)
  <2> DEFINE sql == j[1]
             n == j[2]
  <2>1. j = <<sql, n>> /\ sql \in Sqls /\ n \in DOMAIN work[sql] /\ job(j) = work[sql][n]
    BY <1>12 DEF job
  <2> HIDE DEF sql, n
  <2>2. ~ (sql = i[1] /\ n = i[2])
    BY <1>4, <1>14, <2>1
  <2>3. \E m \in DOMAIN less[sql] : less[sql][m] = work[sql][n]
    BY <1>10, <2>1, <2>2
  <2>4. PICK m \in DOMAIN less[sql] : less[sql][m] = work[sql][n]
    BY <2>3
  <2>5. m \in DOMAIN work'[sql] /\ work'[sql][m] = less[sql][m]
    BY <1>11, <2>1
  <2>6. <<sql, m>> \in InFlight' /\ job(<<sql, m>>)' = work'[sql][m]
    BY <1>12, <2>1, <2>5 DEF job
  <2> QED
    BY <2>1, <2>4, <2>5, <2>6
<1>15. ASSUME NEW q \in Q, \A p \in Q : p.sql = q.sql => p = q
       PROVE  \E k \in InFlight' : k[1] = q.sql /\ job(k)' = q
  <2>1. PICK sql \in Sqls : sql = q.sql
    BY <1>15
  <2>2. PICK m \in DOMAIN work'[sql] : work'[sql][m] = q
    BY <1>11, <1>15, <2>1
  <2>3. <<sql, m>> \in InFlight' /\ job(<<sql, m>>)' = work'[sql][m]
    BY <1>12, <2>1, <2>2 DEF job
  <2> QED
    BY <2>1, <2>2, <2>3
<1>16. ASSUME NEW T, NEW u, IsFiniteSet(Places(work, T, u))
       PROVE  LET left == Cardinality(Places(work, T, u))
                            - (IF i[1] \in T /\ job(i).uid = u THEN 1 ELSE 0)
              IN /\ (\A q \in Q : ~ (q.sql \in T /\ q.uid = u)) =>
                      /\ IsFiniteSet(Places(work', T, u))
                      /\ Cardinality(Places(work', T, u)) = left
                 /\ \A q \in Q :
                      /\ q.sql \in T /\ q.uid = u
                      /\ \A p \in Q : (p.sql \in T /\ p.uid = u) \/ p.sql = q.sql => p = q
                      => /\ IsFiniteSet(Places(work', T, u))
                         /\ Cardinality(Places(work', T, u)) = left + 1
  <2> DEFINE left == Cardinality(Places(work, T, u))
                       - (IF i[1] \in T /\ job(i).uid = u THEN 1 ELSE 0)
  <2>1. /\ IsFiniteSet(Places(less, T, u))
        /\ i[1] \in T /\ work[i[1]][i[2]].uid = u =>
             Cardinality(Places(less, T, u)) = Cardinality(Places(work, T, u)) - 1
        /\ ~ (i[1] \in T /\ work[i[1]][i[2]].uid = u) =>
             Cardinality(Places(less, T, u)) = Cardinality(Places(work, T, u))
    BY <1>2, <1>4, <1>5, <1>16, PlacesLess
  <2>2. Cardinality(Places(work, T, u)) \in Nat
    BY <1>16, FS_CardinalityType
  <2>3. Cardinality(Places(less, T, u)) = left
    BY <2>1, <2>2 DEF job
  <2> HIDE DEF left
  <2>4. (\A q \in Q : ~ (q.sql \in T /\ q.uid = u)) => Places(work', T, u) = Places(less, T, u)
    BY <1>2, <1>6, <1>7, PlacesSame
  <2>5. ASSUME NEW q \in Q, q.sql \in T /\ q.uid = u,
               \A p \in Q : (p.sql \in T /\ p.uid = u) \/ p.sql = q.sql => p = q
        PROVE  /\ IsFiniteSet(Places(work', T, u))
               /\ Cardinality(Places(work', T, u)) = left + 1
    BY <1>2, <1>6, <1>7, <2>1, <2>3, <2>5, PlacesMore
  <2> QED
    BY <2>1, <2>3, <2>4, <2>5 DEF left
<1> QED
  BY <1>9, <1>13, <1>14, <1>15, <1>16

-----------------------------------------------------------------------------
(* Handlers *)

\* What a query is made of is what the handler's query has read.
Reads(i, q) ==
  /\ q.sql = "insert_bonues_info" => q.arg[3] = day
  /\ q.sql = "update_login_bonues" =>
       /\ i[1] = "get_bonues_info" /\ Rows(i) /\ Head(job(i).ret).time < day
       /\ q.arg[2].time = day
  /\ q.sql = "update_login_bonues_status" =>
       /\ i[1] = "get_bonues_info" /\ ~job(i).err /\ Due(job(i).ret)
       /\ q.arg = day

\* A handler hands the answer on to one of its queries, or answers, or has no answer
\* to give.
Effect(i, u, Q) ==
  /\ on_query_complete(i, Q) /\ (i[1] \notin Ranking => job(i).ran)
  /\ \A q \in Q : Sound(q) /\ q.sql \in Statements /\ q.uid = u /\ ~q.ran /\ Reads(i, q)
  /\ \/ UNCHANGED asking /\ i[1] \in Answering /\ \E q \in Q : q.sql \in Answering
     \/ Answered(u) /\ i[1] \in Answering /\ \A q \in Q : q.sql \notin Answering
     \/ UNCHANGED asking /\ i[1] \notin Answering /\ \A q \in Q : q.sql \notin Answering
  /\ \A p, q \in Q : p.sql \in Answering /\ q.sql \in Answering => p = q
  /\ \A p, q \in Q : p.sql = "add_chip" /\ q.sql = "add_chip" => p = q
  /\ (\E q \in Q : q.sql = "add_chip") <=> (\E q \in Q : q.sql = "update_login_bonues_status")
  /\ \/ UNCHANGED history
     \/ \E doubt \in {"none", "yes", "repairing"} : history' = [history EXCEPT ![u].doubt = doubt]

\* A query that has not been executed.
LEMMA NewQuery ==
  ASSUME NEW sql, NEW u, NEW arg, NEW q, q = query(sql, u, arg),
         sql \in Statements => u \in Users,
         sql = "get_bonues_info" /\ arg[1] = "check" => arg[2] \in Nat,
         sql = "insert_bonues_info" => arg[2] \in Nat /\ arg[3] \in Days,
         sql = "update_login_bonues" => arg[1] \in Nat /\ arg[2] \in Bonus,
         sql = "update_login_bonues_status" => arg \in Days,
         sql \in {"add_chip", "hgetall", "hmset"} => arg \in Nat
  PROVE  Sound(q) /\ q.sql = sql /\ q.uid = u /\ q.arg = arg /\ ~q.ran
<1>1. /\ DOMAIN q = {"sql", "uid", "arg", "ran", "err", "ret"}
      /\ q.sql = sql /\ q.uid = u /\ q.arg = arg /\ q.ret = <<>>
  BY DEF query
<1>2. ~q.ran /\ ~q.err
  BY DEF query
<1>3. <<>> \in Seq(Nat) /\ <<>> \in Seq(Bonus) /\ <<>> \in Contents
  BY SysMsgConstantsOK
<1> QED
  BY <1>1, <1>2, <1>3 DEF Sound

\* A handler that goes on with a query that leads to the answer.
LEMMA HandsOn ==
  ASSUME NEW i, NEW u, NEW q, GoOn(i, {q}), i[1] \in Answering, i[1] \notin Ranking => job(i).ran,
         Sound(q), q.sql \in Answering, q.sql # "update_login_bonues_status", q.uid = u, ~q.ran,
         Reads(i, q)
  PROVE  Effect(i, u, {q})
<1>1. q.sql \in Statements /\ q.sql # "add_chip"
  BY DEF Answering, Statements
<1> QED
  BY <1>1 DEF Effect, GoOn

\* A handler that answers.
LEMMA Answers ==
  ASSUME NEW i, NEW u, on_query_complete(i, {}), Answered(u), i[1] \in Answering,
         i[1] \notin Ranking => job(i).ran,
         \/ UNCHANGED history
         \/ \E doubt \in {"none", "yes", "repairing"} :
              history' = [history EXCEPT ![u].doubt = doubt]
  PROVE  Effect(i, u, {})
BY DEF Effect

\* What a user's doubt may become.
LEMMA Doubts ==
  ASSUME GameTypes, NEW u \in Users
  PROVE  history[u] \in History /\ history[u].doubt \in {"none", "yes", "repairing"}
BY DEF GameTypes, History

LEMMA Refuses ==
  ASSUME GameTypes, NEW i, NEW u \in Users, Refuse(i, u), i[1] \in Answering,
         i[1] \notin Ranking => job(i).ran
  PROVE  Effect(i, u, {})
<1>1. \E doubt \in {"none", "yes", "repairing"} : history' = [history EXCEPT ![u].doubt = doubt]
  BY Doubts DEF Refuse, Doubt
<1> QED
  BY <1>1, Answers DEF Refuse

\* The answer to a request for game data.
LEMMA Finishes ==
  ASSUME GameTypes, NEW i, NEW u \in Users, NEW uchip \in Nat, finish(i, u, uchip),
         i[1] \in Answering, job(i).ran
  PROVE  \E Q : Effect(i, u, Q)
<1> DEFINE a == query("hmset", u, uchip)
           b == query("zadd", u, uchip)
           Q == Redis({a, b})
<1>1. Sound(a) /\ a.sql = "hmset" /\ a.uid = u /\ ~a.ran
  BY NewQuery
<1>2. Sound(b) /\ b.sql = "zadd" /\ b.uid = u /\ ~b.ran
  BY NewQuery
<1>3. on_query_complete(i, Q) /\ Answered(u)
  BY DEF finish
<1>4. \E doubt \in {"none", "yes", "repairing"} : history' = [history EXCEPT ![u].doubt = doubt]
  BY Doubts DEF finish, Doubt
<1>5. \A q \in Q : q = a \/ q = b
  BY DEF Redis
<1> HIDE DEF a, b, Q
<1>6. \A q \in Q : /\ Sound(q) /\ q.uid = u /\ ~q.ran /\ q.sql \in {"hmset", "zadd"}
  BY <1>1, <1>2, <1>5
<1>7. \A q \in Q : q.sql \in Statements /\ q.sql \notin Answering /\ q.sql # "add_chip" /\ Reads(i, q)
  BY <1>6 DEF Statements, Answering, Reads
<1>8. \A q \in Q : q.sql # "update_login_bonues_status"
  BY <1>6
<1> QED
  BY <1>3, <1>4, <1>6, <1>7, <1>8 DEF Effect

\* The bonus of a new day.
LEMMA GrantedIs ==
  ASSUME day \in Days, NEW info \in Bonus
  PROVE  granted(info) \in Bonus /\ granted(info).time = day
<1> DEFINE next == IF Yesterday(info.time) THEN info.days + 1 ELSE 1
           days == IF next > Len(LOGIN_BONUES) THEN 1 ELSE next
<1>1. Len(LOGIN_BONUES) \in Nat /\ Len(LOGIN_BONUES) # 0
  BY BonuesConstantsOK, EmptySeq
<1>2. info.days \in Nat
  BY DEF Bonus
<1>3. next \in Nat /\ next >= 1
  BY <1>2
<1> HIDE DEF next
<1>4. days \in 1 .. Len(LOGIN_BONUES) /\ days \in Nat
  BY <1>1, <1>3
<1>5. granted(info) = [status |-> 0, time |-> day, days |-> days, bonues |-> LOGIN_BONUES[days]]
  BY DEF granted, next
<1> HIDE DEF days
<1>6. LOGIN_BONUES[days] \in Nat
  BY <1>4, BonuesConstantsOK, ElementOfSeq
<1> QED
  BY <1>4, <1>5, <1>6 DEF Bonus

LEMMA on_get_ugame_infoEffect ==
  ASSUME TypesInv, NEW i \in InFlight, NEW u \in Users, job(i).uid = u,
         Ran(i, "get_ugame_info"), on_get_ugame_info(i, u)
  PROVE  \E Q : Effect(i, u, Q)
<1>1. Sound(job(i)) /\ job(i).sql = i[1] /\ i[1] = "get_ugame_info" /\ job(i).ran
  BY InFlightSound DEF TypesInv, Ran
<1>2. i[1] \in Answering /\ i[1] \notin Ranking
  BY <1>1 DEF Answering, Ranking
<1>3. CASE Refuse(i, u)
  BY <1>1, <1>2, <1>3, Refuses DEF TypesInv
<1>4. CASE GoOn(i, {query("insert_ugame_info", u, job(i).arg)})
  <2> DEFINE q == query("insert_ugame_info", u, job(i).arg)
  <2>1. Sound(q) /\ q.sql = "insert_ugame_info" /\ q.uid = u /\ ~q.ran
    BY NewQuery
  <2> HIDE DEF q
  <2>2. q.sql \in Answering /\ Reads(i, q) /\ q.sql # "update_login_bonues_status"
    BY <2>1 DEF Answering, Reads
  <2>3. GoOn(i, {q})
    BY <1>4 DEF q
  <2> QED
    BY <1>1, <1>2, <2>1, <2>2, <2>3, HandsOn
<1>5. CASE Rows(i) /\ GoOn(i, {query("get_bonues_info", u, <<"check", Head(job(i).ret)>>)})
  <2> DEFINE q == query("get_bonues_info", u, <<"check", Head(job(i).ret)>>)
  <2>1. Head(job(i).ret) \in Nat
    BY <1>1, <1>5, HeadTailProperties DEF Sound, Rows
  <2>2. Sound(q) /\ q.sql = "get_bonues_info" /\ q.uid = u /\ ~q.ran
    BY <2>1, NewQuery
  <2> HIDE DEF q
  <2>3. q.sql \in Answering /\ Reads(i, q) /\ q.sql # "update_login_bonues_status"
    BY <2>2 DEF Answering, Reads
  <2>4. GoOn(i, {q})
    BY <1>5 DEF q
  <2> QED
    BY <1>1, <1>2, <2>2, <2>3, <2>4, HandsOn
<1> QED
  BY <1>3, <1>4, <1>5 DEF on_get_ugame_info

LEMMA on_insertEffect ==
  ASSUME TypesInv, NEW i \in InFlight, NEW u \in Users, job(i).uid = u,
         NEW next,
         \/ Ran(i, "insert_ugame_info") /\ next = "get_ugame_info"
         \/ Ran(i, "insert_bonues_info") /\ next = "get_bonues_info",
         on_insert(i, u, next)
  PROVE  \E Q : Effect(i, u, Q)
<1>1. /\ Sound(job(i)) /\ job(i).sql = i[1] /\ job(i).ran
      /\ \/ i[1] = "insert_ugame_info" /\ next = "get_ugame_info"
         \/ i[1] = "insert_bonues_info" /\ next = "get_bonues_info"
  BY InFlightSound DEF TypesInv, Ran
<1>2. i[1] \in Answering /\ i[1] \notin Ranking
  BY <1>1 DEF Answering, Ranking
<1>3. CASE Refuse(i, u)
  BY <1>1, <1>2, <1>3, Refuses DEF TypesInv
<1>4. CASE GoOn(i, {query(next, u, job(i).arg)})
  <2> DEFINE q == query(next, u, job(i).arg)
  <2>1. next = "get_bonues_info" => job(i).arg[2] \in Nat
    BY <1>1 DEF Sound
  <2>2. Sound(q) /\ q.sql = next /\ q.uid = u /\ ~q.ran
    BY <1>1, <2>1, NewQuery
  <2> HIDE DEF q
  <2>3. q.sql \in Answering /\ Reads(i, q) /\ q.sql # "update_login_bonues_status"
    BY <1>1, <2>2 DEF Answering, Reads
  <2>4. GoOn(i, {q})
    BY <1>4 DEF q
  <2> QED
    BY <1>1, <1>2, <2>2, <2>3, <2>4, HandsOn
<1> QED
  BY <1>3, <1>4 DEF on_insert

LEMMA check_login_bonuesEffect ==
  ASSUME TypesInv, NEW i \in InFlight, NEW u \in Users, job(i).uid = u,
         Ran(i, "get_bonues_info"), job(i).arg[1] = "check", check_login_bonues(i, u)
  PROVE  \E Q : Effect(i, u, Q)
<1> DEFINE uchip == job(i).arg[2]
           info == Head(job(i).ret)
<1>1. Sound(job(i)) /\ job(i).sql = i[1] /\ i[1] = "get_bonues_info" /\ job(i).ran
  BY InFlightSound DEF TypesInv, Ran
<1>2. i[1] \in Answering /\ i[1] \notin Ranking
  BY <1>1 DEF Answering, Ranking
<1>3. uchip \in Nat /\ job(i).ret \in Seq(Bonus)
  BY <1>1 DEF Sound
<1>4. Rows(i) => info \in Bonus
  BY <1>3, HeadTailProperties DEF Rows
<1>5. day \in Days
  BY DEF TypesInv
<1>6. \/ Refuse(i, u)
      \/ GoOn(i, {query("insert_bonues_info", u, <<"check", uchip, day>>)})
      \/ /\ Rows(i) /\ ~Today(info.time)
         /\ GoOn(i, {query("update_login_bonues", u, <<uchip, granted(info)>>)})
      \/ finish(i, u, uchip)
  BY DEF check_login_bonues
<1> HIDE DEF uchip, info
<1>7. CASE Refuse(i, u)
  BY <1>1, <1>2, <1>7, Refuses DEF TypesInv
<1>8. CASE GoOn(i, {query("insert_bonues_info", u, <<"check", uchip, day>>)})
  <2> DEFINE arg == <<"check", uchip, day>>
             q == query("insert_bonues_info", u, arg)
  <2>1. arg[2] \in Nat /\ arg[3] \in Days /\ arg[3] = day
    BY <1>3, <1>5
  <2>2. GoOn(i, {q})
    BY <1>8
  <2> HIDE DEF arg
  <2>3. Sound(q) /\ q.sql = "insert_bonues_info" /\ q.uid = u /\ q.arg = arg /\ ~q.ran
    BY <2>1, NewQuery
  <2> HIDE DEF q
  <2>4. q.sql \in Answering /\ Reads(i, q) /\ q.sql # "update_login_bonues_status"
    BY <2>1, <2>3 DEF Answering, Reads
  <2> QED
    BY <1>1, <1>2, <2>2, <2>3, <2>4, HandsOn
<1>9. CASE /\ Rows(i) /\ ~Today(info.time)
           /\ GoOn(i, {query("update_login_bonues", u, <<uchip, granted(info)>>)})
  <2> DEFINE arg == <<uchip, granted(info)>>
             q == query("update_login_bonues", u, arg)
  <2>1. arg[1] \in Nat /\ arg[2] \in Bonus /\ arg[2].time = day
    BY <1>3, <1>4, <1>5, <1>9, GrantedIs
  <2>2. info.time < day
    <3>1. info.time \in Nat /\ day \in Nat
      BY <1>4, <1>5, <1>9 DEF Bonus, Days
    <3> QED
      BY <1>9, <3>1 DEF Today
  <2>3. GoOn(i, {q})
    BY <1>9
  <2> HIDE DEF arg
  <2>4. Sound(q) /\ q.sql = "update_login_bonues" /\ q.uid = u /\ q.arg = arg /\ ~q.ran
    BY <2>1, NewQuery
  <2> HIDE DEF q
  <2>5. q.sql \in Answering /\ q.sql # "update_login_bonues_status"
    BY <2>4 DEF Answering
  <2>6. Reads(i, q)
    BY <1>1, <1>9, <2>1, <2>2, <2>4 DEF Reads, info
  <2> QED
    BY <1>1, <1>2, <2>3, <2>4, <2>5, <2>6, HandsOn
<1>10. CASE finish(i, u, uchip)
  BY <1>1, <1>2, <1>3, <1>10, Finishes DEF TypesInv
<1> QED
  BY <1>6, <1>7, <1>8, <1>9, <1>10

LEMMA on_update_login_bonuesEffect ==
  ASSUME TypesInv, NEW i \in InFlight, NEW u \in Users, job(i).uid = u,
         Ran(i, "update_login_bonues"), on_update_login_bonues(i, u)
  PROVE  \E Q : Effect(i, u, Q)
<1>1. /\ Sound(job(i)) /\ job(i).sql = i[1] /\ i[1] = "update_login_bonues" /\ job(i).ran
      /\ TypesInv
  BY InFlightSound DEF TypesInv, Ran
<1>2. i[1] \in Answering /\ i[1] \notin Ranking /\ job(i).arg[1] \in Nat
  BY <1>1 DEF Answering, Ranking, Sound
<1>3. CASE Refuse(i, u)
  BY <1>1, <1>2, <1>3, Refuses DEF TypesInv
<1>4. CASE finish(i, u, job(i).arg[1])
  BY <1>1, <1>2, <1>4, Finishes DEF TypesInv
<1> QED
  BY <1>3, <1>4 DEF on_update_login_bonues

LEMMA payEffect ==
  ASSUME TypesInv, NEW i \in InFlight, NEW u \in Users, job(i).uid = u,
         Ran(i, "get_bonues_info"), pay(i, u)
  PROVE  \E Q : Effect(i, u, Q)
<1>1. Sound(job(i)) /\ job(i).sql = i[1] /\ i[1] = "get_bonues_info" /\ job(i).ran
  BY InFlightSound DEF TypesInv, Ran
<1>2. i[1] \in Answering /\ i[1] \notin Ranking
  BY <1>1 DEF Answering, Ranking
<1>3. CASE Refuse(i, u)
  BY <1>1, <1>2, <1>3, Refuses DEF TypesInv
<1>4. CASE ~ Refuse(i, u)
  <2> DEFINE bonues == Head(job(i).ret).bonues
             a == query("add_chip", u, bonues)
             b == query("update_login_bonues_status", u, day)
             c == query("hgetall", u, bonues)
             Q == {a, b} \cup Redis({c})
  <2>1. ~job(i).err /\ Due(job(i).ret) /\ GoOn(i, Q)
    BY <1>4 DEF pay
  <2>2. Head(job(i).ret) \in Bonus
    BY <1>1, <2>1, HeadTailProperties DEF Sound, Due
  <2>3. bonues \in Nat /\ day \in Days
    BY <2>2 DEF Bonus, TypesInv
  <2>4. \A q \in Q : q = a \/ q = b \/ q = c
    BY DEF Redis
  <2>5. a \in Q /\ b \in Q
    OBVIOUS
  <2> HIDE DEF bonues, Q
  <2>6. Sound(a) /\ a.sql = "add_chip" /\ a.uid = u /\ ~a.ran
    BY <2>3, NewQuery
  <2>7. Sound(b) /\ b.sql = "update_login_bonues_status" /\ b.uid = u /\ b.arg = day /\ ~b.ran
    BY <2>3, NewQuery
  <2>8. Sound(c) /\ c.sql = "hgetall" /\ c.uid = u /\ ~c.ran
    BY <2>3, NewQuery
  <2> HIDE DEF a, b, c
  <2>9. Reads(i, a) /\ Reads(i, b) /\ Reads(i, c)
    BY <1>1, <2>1, <2>6, <2>7, <2>8 DEF Reads
  <2>10. \A q \in Q : Sound(q) /\ q.uid = u /\ ~q.ran /\ Reads(i, q)
    BY <2>4, <2>6, <2>7, <2>8, <2>9
  <2>11. /\ a.sql \in Statements /\ b.sql \in Statements /\ c.sql \in Statements
         /\ a.sql \notin Answering /\ b.sql \in Answering /\ c.sql \notin Answering
         /\ b.sql # "add_chip" /\ c.sql # "add_chip"
    BY <2>6, <2>7, <2>8 DEF Statements, Answering
  <2>12. /\ \A q \in Q : q.sql \in Statements
         /\ \A q \in Q : q.sql \in Answering => q = b
         /\ \A q \in Q : q.sql = "add_chip" => q = a
    BY <2>4, <2>11
  <2>13. on_query_complete(i, Q) /\ UNCHANGED <<asking, history>>
    BY <2>1 DEF GoOn
  <2>14. /\ \A p, q \in Q : p.sql \in Answering /\ q.sql \in Answering => p = q
         /\ \A p, q \in Q : p.sql = "add_chip" /\ q.sql = "add_chip" => p = q
    BY <2>12
  <2>15. /\ \E q \in Q : q.sql = "add_chip"
         /\ \E q \in Q : q.sql = "update_login_bonues_status"
         /\ \E q \in Q : q.sql \in Answering
    BY <2>5, <2>6, <2>7, <2>11
  <2>16. Effect(i, u, Q)
    BY <1>1, <1>2, <2>10, <2>12, <2>13, <2>14, <2>15 DEF Effect
  <2> QED
    BY <2>16
<1> QED
  BY <1>3, <1>4

LEMMA on_hgetallEffect ==
  ASSUME TypesInv, NEW i \in InFlight, NEW u \in Users, job(i).uid = u,
         Ran(i, "hgetall"), on_hgetall(i, u)
  PROVE  \E Q : Effect(i, u, Q)
<1>1. Sound(job(i)) /\ job(i).sql = i[1] /\ i[1] = "hgetall" /\ job(i).ran
  BY InFlightSound DEF TypesInv, Ran
<1>2. i[1] \notin Answering /\ i[1] \notin Ranking
  BY <1>1 DEF Answering, Ranking
<1> DEFINE Q == {query("hmset", u, uchip + job(i).arg) : uchip \in ToSet(job(i).ret)}
<1>3. on_query_complete(i, Q) /\ UNCHANGED <<asking, history>>
  BY DEF on_hgetall, GoOn
<1>4. job(i).ret \in Seq(Nat) /\ job(i).arg \in Nat
  BY <1>1 DEF Sound
<1>5. ASSUME NEW q \in Q
      PROVE  Sound(q) /\ q.sql = "hmset" /\ q.uid = u /\ ~q.ran
  <2>1. PICK uchip \in ToSet(job(i).ret) : q = query("hmset", u, uchip + job(i).arg)
    OBVIOUS
  <2>2. uchip \in Nat
    BY <1>4, ElementOfSeq DEF ToSet
  <2>3. uchip + job(i).arg \in Nat
    BY <1>4, <2>2
  <2> QED
    BY <2>1, <2>3, NewQuery
<1> HIDE DEF Q
<1>6. \A q \in Q : /\ q.sql \in Statements /\ q.sql \notin Answering /\ q.sql # "add_chip"
                   /\ q.sql # "update_login_bonues_status" /\ Reads(i, q)
  BY <1>5 DEF Statements, Answering, Reads
<1>7. Effect(i, u, Q)
  BY <1>1, <1>2, <1>3, <1>5, <1>6 DEF Effect
<1> QED
  BY <1>7

\* The handlers of the rank, with queries that hold nothing of interest.
LEMMA RankEffect ==
  ASSUME TypesInv, NEW i \in InFlight, NEW u \in Users, job(i).uid = u,
         i[1] \in Ranking, NEW next \in Ranking, NEW arg, GoOn(i, {query(next, u, arg)})
  PROVE  \E Q : Effect(i, u, Q)
<1> DEFINE q == query(next, u, arg)
<1>1. Sound(q) /\ q.sql = next /\ q.uid = u /\ ~q.ran
  BY NewQuery DEF Ranking
<1>2. GoOn(i, {q})
  OBVIOUS
<1> HIDE DEF q
<1>3. q.sql \in Answering /\ i[1] \in Answering /\ q.sql # "update_login_bonues_status"
  BY <1>1 DEF Answering, Ranking
<1>4. Reads(i, q)
  BY <1>1 DEF Reads, Ranking
<1> QED
  BY <1>1, <1>2, <1>3, <1>4, HandsOn

\* Every handler.
LEMMA HandlersEffect ==
  ASSUME TypesInv, NEW i \in InFlight, NEW u \in Users, job(i).uid = u, handlers(i, u)
  PROVE  \E Q : Effect(i, u, Q)
<1>1. CASE Ran(i, "get_ugame_info") /\ on_get_ugame_info(i, u)
  BY <1>1, on_get_ugame_infoEffect
<1>2. CASE Ran(i, "insert_ugame_info") /\ on_insert(i, u, "get_ugame_info")
  BY <1>2, on_insertEffect
<1>3. CASE Ran(i, "get_bonues_info") /\ job(i).arg[1] = "check" /\ check_login_bonues(i, u)
  BY <1>3, check_login_bonuesEffect
<1>4. CASE Ran(i, "insert_bonues_info") /\ on_insert(i, u, "get_bonues_info")
  BY <1>4, on_insertEffect
<1>5. CASE Ran(i, "update_login_bonues") /\ on_update_login_bonues(i, u)
  BY <1>5, on_update_login_bonuesEffect
<1>6. CASE Ran(i, "get_bonues_info") /\ job(i).arg[1] = "recv" /\ pay(i, u)
  BY <1>6, payEffect
<1>7. CASE Ran(i, "update_login_bonues_status") /\ on_update_login_bonues_status(i, u)
  <2>1. i[1] \in Answering /\ i[1] \notin Ranking /\ job(i).ran
    BY <1>7 DEF Answering, Ranking, Ran
  <2> QED
    BY <1>7, <2>1, Answers DEF on_update_login_bonues_status
<1>8. CASE Ran(i, "hgetall") /\ on_hgetall(i, u)
  BY <1>8, on_hgetallEffect
<1>9. CASE Ran(i, "zrevrange") /\ on_zrevrange(i, u)
  <2>1. i[1] \in Ranking /\ i[1] \in Answering
    BY <1>9 DEF Answering, Ranking, Ran
  <2>2. CASE GoOn(i, {query("get_rank_user_info", u, <<1, job(i).ret>>)})
    BY <2>1, <2>2, RankEffect DEF Ranking
  <2>3. CASE Refuse(i, u)
    BY <2>1, <2>3, Refuses DEF TypesInv
  <2> QED
    BY <1>9, <2>2, <2>3 DEF on_zrevrange
<1>10. CASE Queued(i, "get_rank_user_info") /\ get_rank_user_info(i, u)
  <2>1. i[1] \in Ranking
    BY <1>10 DEF Ranking, Queued
  <2> DEFINE index == job(i).arg[1]
             rank_info == job(i).arg[2]
  <2>2. \/ GoOn(i, {query("get_rank_user_info", u, <<index + 1, rank_info>>)})
        \/ GoOn(i, {query("get_rank_user_ugame_info", u, <<1, rank_info>>)})
    BY <1>10 DEF get_rank_user_info
  <2> HIDE DEF index, rank_info
  <2> QED
    BY <2>1, <2>2, RankEffect DEF Ranking
<1>11. CASE Queued(i, "get_rank_user_ugame_info") /\ get_rank_user_ugame_info(i, u)
  <2>1. i[1] \in Ranking /\ i[1] \in Answering
    BY <1>11 DEF Ranking, Answering, Queued
  <2> DEFINE index == job(i).arg[1]
             rank_info == job(i).arg[2]
  <2>2. \/ GoOn(i, {query("get_rank_user_ugame_info", u, <<index + 1, rank_info>>)})
        \/ on_query_complete(i, {}) /\ Answered(u) /\ UNCHANGED history
    BY <1>11 DEF get_rank_user_ugame_info
  <2> HIDE DEF index, rank_info
  <2>3. CASE GoOn(i, {query("get_rank_user_ugame_info", u, <<index + 1, rank_info>>)})
    BY <2>1, <2>3, RankEffect DEF Ranking
  <2>4. CASE on_query_complete(i, {}) /\ Answered(u) /\ UNCHANGED history
    BY <2>1, <2>4, Answers
  <2> QED
    BY <2>2, <2>3, <2>4
<1> QED
  BY <1>1, <1>2, <1>3, <1>4, <1>5, <1>6, <1>7, <1>8, <1>9, <1>10, <1>11 DEF handlers

\* What a handler keeps.
LEMMA EffectKeeps ==
  ASSUME TypesInv, NEW i \in InFlight, NEW u \in Users, job(i).uid = u, NEW Q, Effect(i, u, Q)
  PROVE  SoundWork' /\ AskingCounts' /\ history' \in [Users -> History]
<1>1. /\ SoundWork /\ AskingCounts /\ history \in [Users -> History]
      /\ requests \in Nat
  BY DEF TypesInv, GameTypes, DatabaseCounts
<1>2. /\ \A q \in Q : Sound(q) /\ q.sql \in Sqls /\ q.uid = u
      /\ Leaves(i, Q) /\ requests' = requests
  BY DEF Effect, on_query_complete, Leaves, Sqls, counters
<1>3. SoundWork'
  BY <1>1, <1>2, Completes
<1>4. history' \in [Users -> History]
  <2>1. CASE UNCHANGED history
    BY <1>1, <2>1
  <2>2. CASE \E doubt \in {"none", "yes", "repairing"} : history' = [history EXCEPT ![u].doubt = doubt]
    <3>1. PICK doubt \in {"none", "yes", "repairing"} : history' = [history EXCEPT ![u].doubt = doubt]
      BY <2>2
    <3>2. [history[u] EXCEPT !.doubt = doubt] \in History
      BY <1>1 DEF History
    <3> QED
      BY <1>1, <3>1, <3>2
  <2> QED
    BY <2>1, <2>2 DEF Effect
<1>5. asking \in [Users -> Nat] /\ \A v \in Users : Counted(v)
  BY <1>1 DEF AskingCounts
<1>6. ASSUME NEW v \in Users, v # u
      PROVE  asking'[v] = asking[v] /\ Counted(v)'
  <2>1. asking'[v] = asking[v]
    BY <1>5, <1>6 DEF Effect, Answered
  <2>2. IsFiniteSet(Places(work, Answering, v)) /\ Cardinality(Places(work, Answering, v)) = asking[v]
    BY <1>5 DEF Counted
  <2>3. /\ IsFiniteSet(Places(work', Answering, v))
        /\ Cardinality(Places(work', Answering, v))
             = Cardinality(Places(work, Answering, v))
                 - (IF i[1] \in Answering /\ job(i).uid = v THEN 1 ELSE 0)
    BY <1>1, <1>2, <1>6, <2>2, Completes
  <2>4. Cardinality(Places(work', Answering, v)) = asking[v]
    BY <1>5, <1>6, <2>2, <2>3
  <2> QED
    BY <1>2, <1>5, <2>1, <2>3, <2>4 DEF Counted
<1>7. asking' \in [Users -> Nat] /\ Counted(u)'
  <2> DEFINE P == Places(work, Answering, u)
             P2 == Places(work', Answering, u)
             left == Cardinality(P) - (IF i[1] \in Answering /\ job(i).uid = u THEN 1 ELSE 0)
  <2>1. IsFiniteSet(P) /\ Cardinality(P) = asking[u] /\ asking[u] <= requests
    BY <1>5 DEF Counted
  <2>2. /\ (\A q \in Q : ~ (q.sql \in Answering /\ q.uid = u)) =>
             IsFiniteSet(P2) /\ Cardinality(P2) = left
        /\ \A q \in Q :
             /\ q.sql \in Answering /\ q.uid = u
             /\ \A p \in Q : (p.sql \in Answering /\ p.uid = u) \/ p.sql = q.sql => p = q
             => IsFiniteSet(P2) /\ Cardinality(P2) = left + 1
    BY <1>1, <1>2, <2>1, Completes
  <2>3. left = asking[u] - (IF i[1] \in Answering THEN 1 ELSE 0)
    BY <2>1
  <2>4. IsFiniteSet(P2) => Cardinality(P2) \in Nat
    BY FS_CardinalityType
  <2> HIDE DEF P, P2, left
  <2>5. CASE UNCHANGED asking /\ i[1] \in Answering /\ \E q \in Q : q.sql \in Answering
    <3>1. PICK q \in Q : q.sql \in Answering
      BY <2>5
    <3>2. \A p \in Q : (p.sql \in Answering /\ p.uid = u) \/ p.sql = q.sql => p = q
      BY <3>1 DEF Effect
    <3>3. IsFiniteSet(P2) /\ Cardinality(P2) = left + 1
      BY <1>2, <2>2, <3>1, <3>2
    <3>4. Cardinality(P2) = asking[u]
      BY <1>5, <2>3, <2>5, <3>3
    <3> QED
      BY <1>2, <1>5, <2>1, <2>5, <3>3, <3>4 DEF Counted, P2
  <2>6. CASE Answered(u) /\ i[1] \in Answering /\ \A q \in Q : q.sql \notin Answering
    <3>1. IsFiniteSet(P2) /\ Cardinality(P2) = asking[u] - 1
      BY <2>2, <2>3, <2>6
    <3>2. asking[u] - 1 \in Nat
      BY <2>4, <3>1
    <3>3. asking' \in [Users -> Nat] /\ asking'[u] = asking[u] - 1
      BY <1>5, <2>6, <3>2 DEF Answered
    <3>4. asking'[u] <= requests'
      BY <1>1, <1>2, <1>5, <2>1, <3>3
    <3> QED
      BY <3>1, <3>3, <3>4 DEF Counted, P2
  <2>7. CASE UNCHANGED asking /\ i[1] \notin Answering /\ \A q \in Q : q.sql \notin Answering
    <3>1. IsFiniteSet(P2) /\ Cardinality(P2) = asking[u]
      BY <1>5, <2>2, <2>3, <2>7
    <3> QED
      BY <1>2, <1>5, <2>1, <2>7, <3>1 DEF Counted, P2
  <2> QED
    BY <2>5, <2>6, <2>7 DEF Effect
<1>8. AskingCounts'
  BY <1>6, <1>7 DEF AskingCounts
<1> QED
  BY <1>3, <1>4, <1>8

\* What the execution of a statement keeps.
LEMMA SoundAfter ==
  ASSUME NEW q, Sound(q), NEW err, NEW ret,
         q.sql = "get_bonues_info" => ret \in Seq(Bonus),
         q.sql \in {"get_ugame_info", "hgetall"} => ret \in Seq(Nat),
         q.sql = "get_sys_msg" => ret \in Contents
  PROVE  Sound(After(q, err, ret))
<1> DEFINE p == After(q, err, ret)
<1>0. p = After(q, err, ret)
  OBVIOUS
<1> HIDE DEF p
<1>1. /\ DOMAIN p = DOMAIN q /\ p.sql = q.sql /\ p.uid = q.uid /\ p.arg = q.arg
      /\ p.ret = ret
  BY <1>0, AfterIs
<1>2. p.ran
  BY <1>0, AfterIs
<1>3. Sound(p)
  BY <1>1, <1>2 DEF Sound
<1> QED
  BY <1>0, <1>3

\* When no request is made or answered, and no place of the queries that lead to
\* answers has changed, the counts stand.
LEMMA CountsStay ==
  ASSUME AskingCounts, UNCHANGED <<asking, requests>>,
         \A u \in Users : /\ IsFiniteSet(Places(work', Answering, u))
                          /\ Cardinality(Places(work', Answering, u))
                               = Cardinality(Places(work, Answering, u))
  PROVE  AskingCounts'
BY DEF AskingCounts, Counted

LEMMA ExecuteKeeps ==
  ASSUME TypesInv, NEW i \in InFlight, NEW err, NEW ret, Execute(i, err, ret),
         UNCHANGED <<asking, requests>>,
         i[1] = "get_bonues_info" => ret \in Seq(Bonus),
         i[1] \in {"get_ugame_info", "hgetall"} => ret \in Seq(Nat),
         i[1] = "get_sys_msg" => ret \in Contents
  PROVE  SoundWork' /\ AskingCounts'
<1>1. SoundWork /\ AskingCounts
  BY DEF TypesInv
<1>2. Sound(job(i)) /\ job(i).sql = i[1]
  BY <1>1, InFlightSound
<1>3. Sound(After(job(i), err, ret))
  BY <1>2, SoundAfter
<1>4. SoundWork' /\ \A T, u : Places(work', T, u) = Places(work, T, u)
  BY <1>1, <1>3, Executes
<1> QED
  BY <1>1, <1>4, CountsStay DEF AskingCounts, Counted

LEMMA LeaveKeeps ==
  ASSUME TypesInv, NEW i \in InFlight, i[1] \notin Answering,
         Leaves(i, {}),
         UNCHANGED <<asking, requests>>
  PROVE  SoundWork' /\ AskingCounts'
<1>1. SoundWork /\ AskingCounts
  BY DEF TypesInv
<1>2. SoundWork'
  BY <1>1, Completes
<1>3. ASSUME NEW u \in Users
      PROVE  /\ IsFiniteSet(Places(work', Answering, u))
             /\ Cardinality(Places(work', Answering, u)) = Cardinality(Places(work, Answering, u))
  <2>1. IsFiniteSet(Places(work, Answering, u))
    BY <1>1 DEF AskingCounts, Counted
  <2>2. Cardinality(Places(work, Answering, u)) \in Nat
    BY <2>1, FS_CardinalityType
  <2>3. /\ IsFiniteSet(Places(work', Answering, u))
        /\ Cardinality(Places(work', Answering, u))
             = Cardinality(Places(work, Answering, u))
                 - (IF i[1] \in Answering /\ job(i).uid = u THEN 1 ELSE 0)
    BY <1>1, <2>1, Completes
  <2> QED
    BY <2>2, <2>3
<1> QED
  BY <1>1, <1>2, <1>3, CountsStay

-----------------------------------------------------------------------------
(* Types *)

\* A write is executed, or fails.
LEMMA WriteExecutes ==
  ASSUME NEW i, write_work(i)
  PROVE  (\E err : Execute(i, err, <<>>)) /\ UNCHANGED requests
BY DEF write_work, query_work, query_fails, counters

\* A statement, in the pool.
LEMMA StatementsKeep ==
  ASSUME TypesInv, NEW i \in InFlight, NEW u \in Users, job(i).uid = u,
         statements(i, u), UNCHANGED <<asking, frozen>>
  PROVE  SoundWork' /\ AskingCounts' /\ GameTypes'
<1>1. /\ Sound(job(i)) /\ job(i).sql = i[1] /\ GameTypes
      /\ history[u] \in History
  BY InFlightSound, Doubts DEF TypesInv
<1>2. <<>> \in Seq(Nat) /\ <<>> \in Seq(Bonus) /\ <<>> \in Contents
  BY SysMsgConstantsOK
<1>3. ASSUME write_work(i)
      PROVE  SoundWork' /\ AskingCounts'
  BY <1>2, <1>3, WriteExecutes, ExecuteKeeps
<1>4. ASSUME on_query_complete(i, {}), i[1] \notin Answering
      PROVE  SoundWork' /\ AskingCounts'
  <2>1. Leaves(i, {}) /\ UNCHANGED requests
    BY <1>4 DEF on_query_complete, Leaves, counters
  <2> QED
    BY <1>4, <2>1, LeaveKeeps
<1>5. CASE select(i, u)
  <2>1. GameTypes'
    BY <1>1, <1>5 DEF select, tables, GameTypes
  <2>2. ASSUME NEW ret, query_work(i, ret),
               i[1] = "get_bonues_info" => ret \in Seq(Bonus),
               i[1] \in {"get_ugame_info", "hgetall"} => ret \in Seq(Nat),
               i[1] # "get_sys_msg"
        PROVE  SoundWork' /\ AskingCounts'
    BY <2>2, ExecuteKeeps DEF query_work, counters
  <2>3. ugame[u] \in Seq(Nat) /\ login_bonues[u] \in Seq(Bonus) /\ cache[u] \in Seq(Nat)
    BY <1>1 DEF GameTypes
  <2>4. CASE Queued(i, "get_ugame_info") /\ query_work(i, ugame[u])
    <3>1. i[1] = "get_ugame_info"
      BY <2>4 DEF Queued
    <3> QED
      BY <2>1, <2>2, <2>3, <2>4, <3>1
  <2>5. CASE Queued(i, "get_bonues_info") /\ query_work(i, login_bonues[u])
    <3>1. i[1] = "get_bonues_info"
      BY <2>5 DEF Queued
    <3> QED
      BY <2>1, <2>2, <2>3, <2>5, <3>1
  <2>6. CASE Queued(i, "hgetall") /\ query_work(i, cache[u])
    <3>1. i[1] = "hgetall"
      BY <2>6 DEF Queued
    <3> QED
      BY <2>1, <2>2, <2>3, <2>6, <3>1
  <2>7. CASE Queued(i, "zrevrange") /\ \E ret : query_work(i, ret)
    <3>1. i[1] = "zrevrange"
      BY <2>7 DEF Queued
    <3> QED
      BY <2>1, <2>2, <2>7, <3>1
  <2> QED
    BY <1>5, <2>1, <2>4, <2>5, <2>6, <2>7 DEF select
<1>6. CASE insert_ugame_info(i, u)
  <2>1. Append(ugame[u], UCHIP) \in Seq(Nat)
    BY <1>1, BonuesConstantsOK, AppendProperties DEF GameTypes
  <2>2. ugame' \in [Users -> Seq(Nat)]
    BY <1>1, <1>6, <2>1 DEF insert_ugame_info, GameTypes
  <2> QED
    BY <1>1, <1>3, <1>6, <2>2 DEF insert_ugame_info, GameTypes
<1>7. CASE insert_bonues_info(i, u)
  <2>1. NewBonus(job(i).arg[3]) \in Bonus
    BY <1>1, <1>7 DEF insert_bonues_info, Queued, Sound, NewBonus, Bonus
  <2>2. Append(login_bonues[u], NewBonus(job(i).arg[3])) \in Seq(Bonus)
    BY <1>1, <2>1, AppendProperties DEF GameTypes
  <2>3. login_bonues' \in [Users -> Seq(Bonus)]
    BY <1>1, <1>7, <2>2 DEF insert_bonues_info, GameTypes
  <2> QED
    BY <1>1, <1>3, <1>7, <2>3 DEF insert_bonues_info, GameTypes
<1>8. CASE update_login_bonues(i, u)
  <2> DEFINE info == job(i).arg[2]
             rows == [k \in DOMAIN login_bonues[u] |-> info]
  <2>1. info \in Bonus
    BY <1>1, <1>8 DEF update_login_bonues, Queued, Sound
  <2>2. /\ login_bonues' = [login_bonues EXCEPT ![u] = rows]
        /\ history' = [history EXCEPT ![u].granted = @ \cup {info.time}]
        /\ write_work(i) /\ UNCHANGED <<ugame, cache, world_rank>>
    BY <1>8 DEF update_login_bonues
  <2> HIDE DEF info
  <2>3. rows \in Seq(Bonus)
    <3>1. login_bonues[u] \in Seq(Bonus)
      BY <1>1 DEF GameTypes
    <3> QED
      BY <2>1, <3>1
  <2> HIDE DEF rows
  <2>4. [history[u] EXCEPT !.granted = @ \cup {info.time}] \in History
    BY <1>1, <2>1 DEF History, Bonus
  <2>5. login_bonues' \in [Users -> Seq(Bonus)] /\ history' \in [Users -> History]
    BY <1>1, <2>2, <2>3, <2>4 DEF GameTypes
  <2> QED
    BY <1>1, <1>3, <2>2, <2>5 DEF GameTypes
<1>9. CASE update_login_bonues_status(i, u)
  <2> DEFINE rows == [k \in DOMAIN login_bonues[u] |-> marked(login_bonues[u][k], job(i).arg)]
  <2>1. job(i).arg \in Days
    BY <1>1, <1>9 DEF update_login_bonues_status, Queued, Sound
  <2>2. ASSUME NEW info \in Bonus
        PROVE  marked(info, job(i).arg) \in Bonus
    <3> DEFINE flags == 0 .. 1
    <3>1. 1 \in flags /\ Bonus = [status : flags, time : Days, days : Nat, bonues : Nat]
      BY DEF Bonus
    <3> HIDE DEF flags
    <3>2. info.days + 1 \in Nat
      BY <3>1
    <3> QED
      BY <2>1, <3>1, <3>2 DEF marked
  <2>3. login_bonues[u] \in Seq(Bonus)
    BY <1>1 DEF GameTypes
  <2>4. rows \in Seq(Bonus)
    <3>1. \A k \in DOMAIN login_bonues[u] : login_bonues[u][k] \in Bonus
      BY <2>3, ElementOfSeq
    <3> QED
      BY <2>2, <2>3, <3>1
  <2>5. login_bonues' = [login_bonues EXCEPT ![u] = rows]
    BY <1>9 DEF update_login_bonues_status
  <2> HIDE DEF rows
  <2>6. login_bonues' \in [Users -> Seq(Bonus)]
    BY <1>1, <2>4, <2>5 DEF GameTypes
  <2> QED
    BY <1>1, <1>3, <1>9, <2>6 DEF update_login_bonues_status, GameTypes
<1>10. CASE add_chip(i, u)
  <2> DEFINE rows == [k \in DOMAIN ugame[u] |-> ugame[u][k] + job(i).arg]
  <2>1. i[1] \notin Answering /\ job(i).arg \in Nat
    BY <1>1, <1>10 DEF add_chip, Queued, Sound, Answering
  <2>2. ugame[u] \in Seq(Nat)
    BY <1>1 DEF GameTypes
  <2>3. rows \in Seq(Nat)
    BY <2>1, <2>2
  <2>4. /\ ugame' = [ugame EXCEPT ![u] = rows]
        /\ history' = [history EXCEPT ![u].paid = @ + 1]
        /\ on_query_complete(i, {}) /\ UNCHANGED <<login_bonues, cache, world_rank>>
    BY <1>10 DEF add_chip
  <2> HIDE DEF rows
  <2>5. [history[u] EXCEPT !.paid = @ + 1] \in History
    BY <1>1 DEF History
  <2>6. ugame' \in [Users -> Seq(Nat)] /\ history' \in [Users -> History]
    BY <1>1, <2>3, <2>4, <2>5 DEF GameTypes
  <2> QED
    BY <1>1, <1>4, <2>1, <2>4, <2>6 DEF GameTypes
<1>11. CASE hmset(i, u)
  <2>1. i[1] \notin Answering /\ <<job(i).arg>> \in Seq(Nat)
    BY <1>1, <1>11 DEF hmset, Queued, Sound, Answering
  <2>2. cache' \in [Users -> Seq(Nat)]
    BY <1>1, <1>11, <2>1 DEF hmset, GameTypes
  <2> QED
    BY <1>1, <1>4, <1>11, <2>1, <2>2 DEF hmset, GameTypes
<1>12. CASE zadd(i, u)
  <2>1. i[1] \notin Answering
    BY <1>12 DEF zadd, Queued, Answering
  <2> QED
    BY <1>1, <1>4, <1>12, <2>1 DEF zadd, GameTypes
<1>13. CASE nothing_done(i, u)
  <2>1. UNCHANGED tables
    BY <1>13 DEF nothing_done
  <2>2. ASSUME query_fails(i)
        PROVE  SoundWork' /\ AskingCounts'
    BY <1>2, <2>2, ExecuteKeeps DEF query_fails
  <2>3. CASE query_fails(i) /\ UNCHANGED history
    BY <1>1, <2>1, <2>2, <2>3 DEF GameTypes, tables
  <2>4. CASE query_fails(i) /\ history' = [history EXCEPT ![u].unmarked = @ + 1]
    <3>1. [history[u] EXCEPT !.unmarked = @ + 1] \in History
      BY <1>1 DEF History
    <3>2. history' \in [Users -> History]
      BY <1>1, <2>4, <3>1 DEF GameTypes
    <3> QED
      BY <1>1, <2>1, <2>2, <2>4, <3>2 DEF GameTypes, tables
  <2>5. CASE /\ Queued(i, "add_chip") /\ UNCHANGED <<connections, requests>>
             /\ work' = [work EXCEPT !["add_chip"] = RemoveAt(@, i[2])]
             /\ Doubt(u, "yes")
    <3>1. i[1] = "add_chip" /\ i[1] \notin Answering
      BY <2>5 DEF Queued, Answering
    <3>2. Leaves(i, {})
      BY <2>5, <3>1 DEF Leaves, With
    <3>3. SoundWork' /\ AskingCounts'
      BY <2>5, <3>1, <3>2, LeaveKeeps
    <3>4. [history[u] EXCEPT !.doubt = "yes"] \in History
      BY <1>1 DEF History
    <3>5. history' \in [Users -> History]
      BY <1>1, <2>5, <3>4 DEF GameTypes, Doubt
    <3> QED
      BY <1>1, <2>1, <3>3, <3>5 DEF GameTypes, tables
  <2> QED
    BY <1>13, <2>3, <2>4, <2>5 DEF nothing_done
<1> QED
  BY <1>5, <1>6, <1>7, <1>8, <1>9, <1>10, <1>11, <1>12, <1>13 DEF statements

\* A request of a client.
LEMMA AsksKeeps ==
  ASSUME TypesInv, NEW u \in Users,
         NEW sql \in {"get_ugame_info", "get_bonues_info", "zrevrange"}, NEW arg,
         arg[1] # "check" \/ sql # "get_bonues_info", Asks(u, sql, arg)
  PROVE  DatabaseCounts' /\ SoundWork' /\ AskingCounts'
<1>1. SoundWork /\ AskingCounts /\ DatabaseCounts
  BY DEF TypesInv
<1>2. /\ requests < MaxRequests /\ requests' = requests + 1 /\ UNCHANGED <<connections, faults>>
      /\ asking' = [asking EXCEPT ![u] = @ + 1]
      /\ work' = With({query(sql, u, arg)}, work)
  BY DEF Asks, Asked, Query
<1>3. DatabaseCounts' /\ requests \in Nat /\ requests' \in Nat
  BY <1>1, <1>2, DatabaseConstantsOK DEF DatabaseCounts, connections
<1> DEFINE q == query(sql, u, arg)
           Q == {q}
<1>4. Sound(q) /\ q.sql = sql /\ q.uid = u
  BY NewQuery
<1>5. work' = With(Q, work) /\ q \in Q /\ \A p \in Q : p = q
  BY <1>2
<1>6. sql \in Sqls /\ sql \in Answering
  BY DEF Sqls, Statements, Answering
<1> HIDE DEF q, Q
<1>7. \A p \in Q : Sound(p) /\ p.sql \in Sqls
  BY <1>4, <1>5, <1>6
<1>8. SoundWork'
  BY <1>1, <1>5, <1>7, Makes
<1>9. asking \in [Users -> Nat] /\ \A v \in Users : Counted(v)
  BY <1>1 DEF AskingCounts
<1>10. asking' \in [Users -> Nat]
  BY <1>2, <1>9
<1>11. ASSUME NEW v \in Users
       PROVE  Counted(v)'
  <2>1. /\ IsFiniteSet(Places(work, Answering, v)) /\ asking[v] <= requests /\ asking[v] \in Nat
        /\ Cardinality(Places(work, Answering, v)) = asking[v]
    BY <1>9, <1>11 DEF Counted
  <2>2. CASE v = u
    <3>1. /\ IsFiniteSet(Places(work', Answering, u))
          /\ Cardinality(Places(work', Answering, u)) = Cardinality(Places(work, Answering, u)) + 1
      BY <1>1, <1>4, <1>5, <1>6, <1>7, <2>1, <2>2, Makes
    <3>2. asking'[u] = asking[u] + 1
      BY <1>2, <1>9
    <3> QED
      BY <1>2, <1>3, <2>1, <2>2, <3>1, <3>2 DEF Counted
  <2>3. CASE v # u
    <3>1. \A p \in Q : ~ (p.sql \in Answering /\ p.uid = v)
      BY <1>4, <1>5, <2>3
    <3>2. Places(work', Answering, v) = Places(work, Answering, v)
      BY <1>1, <1>5, <1>7, <3>1, Makes
    <3>3. asking'[v] = asking[v]
      BY <1>2, <1>9, <2>3
    <3> QED
      BY <1>2, <1>3, <2>1, <3>2, <3>3 DEF Counted
  <2> QED
    BY <2>2, <2>3
<1> QED
  BY <1>3, <1>8, <1>10, <1>11 DEF AskingCounts

LEMMA asksKeep ==
  ASSUME TypesInv, asks, UNCHANGED <<day, sysMsgVars>>
  PROVE  TypesInv'
<1>1. PICK u \in Users : get_ugame_info(u) \/ recv_login_bonues(u) \/ get_world_uchip_rank(u)
  BY DEF asks
<1>2. history \in [Users -> History] /\ history[u] \in History /\ GameTypes
  BY Doubts DEF TypesInv, GameTypes
<1>3. ASSUME NEW doubt \in {"none", "yes", "repairing"}, Doubt(u, doubt)
      PROVE  history' \in [Users -> History]
  <2>1. [history[u] EXCEPT !.doubt = doubt] \in History
    BY <1>2 DEF History
  <2> QED
    BY <1>2, <1>3, <2>1 DEF Doubt
<1>4. history[u].doubt \in {"none", "yes", "repairing"}
  BY <1>2, Doubts
<1>5. CASE get_ugame_info(u)
  <2>1. Asks(u, "get_ugame_info", <<"check">>)
    BY <1>5 DEF get_ugame_info
  <2>2. DatabaseCounts' /\ SoundWork' /\ AskingCounts'
    BY <2>1, AsksKeeps
  <2>3. \E doubt \in {"none", "yes", "repairing"} : Doubt(u, doubt)
    BY <1>4, <1>5 DEF get_ugame_info
  <2>4. history' \in [Users -> History]
    BY <1>3, <2>3
  <2>5. UNCHANGED <<tables, frozen>>
    BY <2>1 DEF Asks
  <2> QED
    BY <1>2, <2>2, <2>4, <2>5 DEF TypesInv, GameTypes, tables, SysMsgTypes, sysMsgVars
<1>6. CASE recv_login_bonues(u)
  <2>1. Asks(u, "get_bonues_info", <<"recv">>)
    BY <1>6 DEF recv_login_bonues
  <2>2. DatabaseCounts' /\ SoundWork' /\ AskingCounts'
    BY <2>1, AsksKeeps
  <2>3. \E doubt \in {"none", "yes", "repairing"} : Doubt(u, doubt)
    BY <1>4, <1>6 DEF recv_login_bonues
  <2>4. history' \in [Users -> History]
    BY <1>3, <2>3
  <2>5. UNCHANGED <<tables, frozen>>
    BY <2>1 DEF Asks
  <2> QED
    BY <1>2, <2>2, <2>4, <2>5 DEF TypesInv, GameTypes, tables, SysMsgTypes, sysMsgVars
<1>7. CASE get_world_uchip_rank(u)
  <2>1. Asks(u, "zrevrange", <<>>)
    BY <1>7 DEF get_world_uchip_rank
  <2>2. DatabaseCounts' /\ SoundWork' /\ AskingCounts'
    BY <2>1, AsksKeeps
  <2>3. UNCHANGED <<tables, frozen, history>>
    BY <1>7, <2>1 DEF Asks, get_world_uchip_rank
  <2> QED
    BY <1>2, <2>2, <2>3 DEF TypesInv, GameTypes, tables, SysMsgTypes, sysMsgVars
<1> QED
  BY <1>1, <1>5, <1>6, <1>7

\* The loop's handlers and the pool's statements of the users.
LEMMA bonues_worksKeep ==
  ASSUME TypesInv, bonues_works, UNCHANGED <<day, connections, requests, sysMsgVars>>
  PROVE  TypesInv'
<1>1. PICK i \in InFlight : \E u \in {job(i).uid} \cap Users :
        /\ \/ handlers(i, u) /\ UNCHANGED tables
           \/ statements(i, u) /\ UNCHANGED asking
        /\ UNCHANGED frozen
  BY DEF bonues_works
<1>2. PICK u \in Users :
        /\ job(i).uid = u
        /\ \/ handlers(i, u) /\ UNCHANGED tables
           \/ statements(i, u) /\ UNCHANGED asking
        /\ UNCHANGED frozen
  BY <1>1
<1>3. faults' \in 0 .. MaxFaults
  <2>1. faults \in 0 .. MaxFaults
    BY DEF TypesInv, DatabaseCounts
  <2>2. faults' = faults \/ (faults < MaxFaults /\ faults' = faults + 1)
    <3>1. CASE handlers(i, u)
      <4>1. PICK Q : Effect(i, u, Q)
        BY <1>2, <3>1, HandlersEffect
      <4> QED
        BY <4>1 DEF Effect, on_query_complete, counters
    <3>2. CASE statements(i, u)
      BY <3>2 DEF statements, select, insert_ugame_info, insert_bonues_info, update_login_bonues,
                  update_login_bonues_status, add_chip, hmset, zadd, nothing_done, write_work,
                  query_work, query_fails, on_query_complete, counters
    <3> QED
      BY <1>2, <3>1, <3>2
  <2> QED
    BY <2>1, <2>2, DatabaseConstantsOK
<1>4. DatabaseCounts'
  BY <1>3 DEF TypesInv, DatabaseCounts, connections
<1>5. CASE handlers(i, u) /\ UNCHANGED tables
  <2>1. PICK Q : Effect(i, u, Q)
    BY <1>2, <1>5, HandlersEffect
  <2>2. SoundWork' /\ AskingCounts' /\ history' \in [Users -> History]
    BY <1>2, <2>1, EffectKeeps
  <2> QED
    BY <1>2, <1>4, <1>5, <2>2 DEF TypesInv, GameTypes, tables, SysMsgTypes, sysMsgVars
<1>6. CASE statements(i, u) /\ UNCHANGED asking
  <2>1. SoundWork' /\ AskingCounts' /\ GameTypes'
    BY <1>2, <1>6, StatementsKeep
  <2> QED
    BY <1>4, <2>1 DEF TypesInv, SysMsgTypes, sysMsgVars
<1> QED
  BY <1>2, <1>5, <1>6

\* The messages.
LEMMA LoadedTypes ==
  ASSUME SysMsgTypes, VersionNamesData, NEW ret \in Contents, NEW left \in SUBSET (0 .. MaxDay + 1),
         day \in Days, loaded(ret, left), UNCHANGED <<sys_msg, client>>
  PROVE  SysMsgTypes' /\ VersionNamesData'
<1>1. sys_msg_version \in Nat /\ ver_num \in 0 .. sys_msg_version
  BY DEF SysMsgTypes
<1>2. sys_msg_version' = sys_msg_version + 1 /\ sys_msg_data' = ret /\ ver_num' = ver_num
      /\ sys_msg' = sys_msg /\ sys_msgs' = sys_msgs
  BY DEF loaded, client
<1>3. sys_msg_version' \in Nat /\ ver_num' \in 0 .. sys_msg_version' /\ ver_num' # sys_msg_version'
  BY <1>1, <1>2
<1>4. day + 1 \in 0 .. MaxDay + 1
  BY CalendarConstantsOK DEF Days
<1>5. timers' \subseteq 0 .. MaxDay + 1
  BY <1>4 DEF loaded, Reload
<1> QED
  BY <1>2, <1>3, <1>5 DEF SysMsgTypes, VersionNamesData

LEMMA messages_workKeep ==
  ASSUME TypesInv, VersionNamesData, sys_msg_works,
         UNCHANGED <<day, connections, requests, bonuesVars>>
  PROVE  TypesInv' /\ VersionNamesData'
<1>1. /\ SoundWork /\ AskingCounts /\ GameTypes /\ SysMsgTypes /\ DatabaseCounts
      /\ day \in Days /\ day' = day
      /\ requests' = requests /\ asking' = asking
  BY DEF TypesInv, bonuesVars
<1>2. GameTypes'
  BY <1>1 DEF GameTypes, bonuesVars, tables
<1>3. timers \in SUBSET (0 .. MaxDay + 1) /\ <<>> \in Contents /\ sys_msg \in Contents
  BY <1>1, SysMsgConstantsOK DEF SysMsgTypes
<1>4. ASSUME faults' \in 0 .. MaxFaults
      PROVE  DatabaseCounts'
  BY <1>1, <1>4 DEF DatabaseCounts, connections
<1>5. faults \in 0 .. MaxFaults
  BY <1>1 DEF DatabaseCounts
<1>6. CASE load_sys_msg
  <2>1. PICK due \in timers :
          \/ /\ mysql_conn /\ Query("get_sys_msg", 0, <<>>) /\ UNCHANGED <<connections, counters>>
             /\ timers' = timers \ {due}
             /\ UNCHANGED <<sys_msg_data, sys_msg_version>>
          \/ ~mysql_conn /\ loaded(<<>>, timers \ {due}) /\ UNCHANGED database
    BY <1>6 DEF load_sys_msg
  <2>2. UNCHANGED <<sys_msg, client>>
    BY <1>6 DEF load_sys_msg
  <2>3. CASE /\ Query("get_sys_msg", 0, <<>>) /\ UNCHANGED <<connections, counters>>
             /\ timers' = timers \ {due}
             /\ UNCHANGED <<sys_msg_data, sys_msg_version>>
    <3> DEFINE q == query("get_sys_msg", 0, <<>>)
               Q == {q}
    <3>1. Sound(q) /\ q.sql = "get_sys_msg"
      BY NewQuery DEF Statements
    <3>2. work' = With(Q, work) /\ \A p \in Q : p = q
      BY <2>3 DEF Query
    <3> HIDE DEF q, Q
    <3>3. \A p \in Q : Sound(p) /\ p.sql \in Sqls /\ p.sql \notin Answering
      BY <3>1, <3>2 DEF Sqls, Answering
    <3>4. SoundWork' /\ \A u : Places(work', Answering, u) = Places(work, Answering, u)
      BY <1>1, <3>2, <3>3, Makes
    <3>5. AskingCounts'
      BY <1>1, <3>4, CountsStay DEF AskingCounts, Counted
    <3>6. SysMsgTypes' /\ VersionNamesData'
      BY <1>1, <2>2, <2>3 DEF SysMsgTypes, VersionNamesData, client
    <3>7. DatabaseCounts'
      BY <1>4, <1>5, <2>3 DEF counters
    <3> QED
      BY <1>1, <1>2, <3>4, <3>5, <3>6, <3>7 DEF TypesInv
  <2>4. CASE loaded(<<>>, timers \ {due}) /\ UNCHANGED database
    <3>1. SysMsgTypes' /\ VersionNamesData'
      BY <1>1, <1>3, <2>2, <2>4, LoadedTypes
    <3>2. work' = work /\ faults' = faults
      BY <2>4 DEF database, counters
    <3>3. SoundWork' /\ AskingCounts' /\ DatabaseCounts'
      BY <1>1, <1>4, <1>5, <3>2 DEF SoundWork, AskingCounts, Counted
    <3> QED
      BY <1>1, <1>2, <3>1, <3>3 DEF TypesInv
  <2> QED
    BY <2>1, <2>3, <2>4
<1>7. CASE select_sys_msg
  <2>1. PICK i \in InFlight :
          Queued(i, "get_sys_msg") /\ (query_work(i, sys_msg) \/ query_fails(i))
    BY <1>7 DEF select_sys_msg
  <2>2. i[1] = "get_sys_msg"
    BY <2>1 DEF Queued
  <2>3. /\ \E err : \E ret \in Contents : Execute(i, err, ret)
        /\ faults' = faults \/ (faults < MaxFaults /\ faults' = faults + 1)
    BY <1>3, <2>1 DEF query_work, query_fails, counters
  <2>4. SoundWork' /\ AskingCounts'
    BY <1>1, <2>2, <2>3, ExecuteKeeps
  <2>5. SysMsgTypes' /\ VersionNamesData'
    BY <1>1, <1>7 DEF select_sys_msg, sysMsgVars, SysMsgTypes, VersionNamesData
  <2>6. DatabaseCounts'
    BY <1>4, <1>5, <2>3, DatabaseConstantsOK
  <2> QED
    BY <1>1, <1>2, <2>4, <2>5, <2>6 DEF TypesInv
<1>8. CASE on_get_sys_msg
  <2>1. PICK i \in InFlight :
          /\ Ran(i, "get_sys_msg") /\ on_query_complete(i, {})
          /\ \/ job(i).err /\ timers' = timers \cup Retry /\ UNCHANGED <<sys_msg_data, sys_msg_version>>
             \/ ~job(i).err /\ loaded(job(i).ret, timers)
    BY <1>8 DEF on_get_sys_msg
  <2>2. UNCHANGED <<sys_msg, client>>
    BY <1>8 DEF on_get_sys_msg
  <2>3. i[1] = "get_sys_msg" /\ i[1] \notin Answering
    BY <2>1 DEF Ran, Answering
  <2>4. Leaves(i, {}) /\ faults' = faults
    BY <2>1 DEF on_query_complete, Leaves, counters
  <2>5. SoundWork' /\ AskingCounts'
    BY <1>1, <2>3, <2>4, LeaveKeeps
  <2>6. job(i).ret \in Contents
    BY <1>1, <2>3, InFlightSound DEF Sound
  <2>7. SysMsgTypes' /\ VersionNamesData'
    <3>1. CASE timers' = timers \cup Retry /\ UNCHANGED <<sys_msg_data, sys_msg_version>>
      <4>1. 0 \in 0 .. MaxDay + 1
        BY CalendarConstantsOK
      <4> QED
        BY <1>1, <2>2, <3>1, <4>1 DEF SysMsgTypes, VersionNamesData, client, Retry
    <3>2. CASE loaded(job(i).ret, timers)
      BY <1>1, <1>3, <2>2, <2>6, <3>2, LoadedTypes
    <3> QED
      BY <2>1, <3>1, <3>2
  <2>8. DatabaseCounts'
    BY <1>4, <1>5, <2>4
  <2> QED
    BY <1>1, <1>2, <2>5, <2>7, <2>8 DEF TypesInv
<1> QED
  BY <1>6, <1>7, <1>8 DEF sys_msg_works

LEMMA messages_askKeep ==
  ASSUME TypesInv, VersionNamesData, edit \/ get_sys_msg, UNCHANGED <<day, bonuesVars>>
  PROVE  TypesInv' /\ VersionNamesData'
<1>1. /\ SoundWork /\ AskingCounts /\ GameTypes /\ SysMsgTypes /\ DatabaseCounts
      /\ day \in Days /\ UNCHANGED <<day, asking, bonuesVars>>
  BY DEF TypesInv, bonuesVars
<1>2. GameTypes'
  BY <1>1 DEF GameTypes, bonuesVars, tables
<1>3. /\ work' = work /\ requests < MaxRequests /\ requests' = requests + 1
      /\ UNCHANGED <<connections, faults>>
  BY DEF edit, get_sys_msg, Asked
<1>4. DatabaseCounts' /\ requests \in Nat
  BY <1>1, <1>3, DatabaseConstantsOK DEF DatabaseCounts, connections
<1>5. SoundWork' /\ AskingCounts'
  <2>1. \A u \in Users : Counted(u)'
    BY <1>1, <1>3, <1>4 DEF AskingCounts, Counted
  <2> QED
    BY <1>1, <1>3, <2>1 DEF AskingCounts, SoundWork
<1>6. SysMsgTypes' /\ VersionNamesData'
  <2>1. sys_msg_version \in Nat
    BY <1>1 DEF SysMsgTypes
  <2>2. CASE edit
    BY <1>1, <2>2 DEF edit, client, SysMsgTypes, VersionNamesData
  <2>3. CASE get_sys_msg
    BY <1>1, <2>1, <2>3 DEF get_sys_msg, SysMsgTypes, VersionNamesData
  <2> QED
    BY <2>2, <2>3
<1> QED
  BY <1>1, <1>2, <1>4, <1>5, <1>6 DEF TypesInv

\* The other steps.
LEMMA RestKeeps ==
  ASSUME TypesInv, VersionNamesData,
         \/ (mysql_connect \/ redis_connect) /\ UNCHANGED <<day, bonuesVars, sysMsgVars>>
         \/ midnight /\ UNCHANGED <<database, bonuesVars, sysMsgVars>>
         \/ UNCHANGED vars
  PROVE  TypesInv' /\ VersionNamesData'
<1>1. UNCHANGED <<work, faults, requests, bonuesVars, sysMsgVars>>
  BY DEF mysql_connect, redis_connect, database, counters, vars
<1>2. mysql_conn' \in BOOLEAN /\ redis_conn' \in BOOLEAN
  BY DEF mysql_connect, redis_connect, database, connections, vars, TypesInv, DatabaseCounts
<1>3. day' \in Days
  <2>1. day \in Days
    BY DEF TypesInv
  <2>2. day' = day \/ (day < MaxDay /\ day' = day + 1)
    BY DEF midnight, vars
  <2> QED
    BY <2>1, <2>2, CalendarConstantsOK DEF Days
<1>4. DatabaseCounts' /\ SoundWork' /\ GameTypes' /\ SysMsgTypes' /\ VersionNamesData'
  BY <1>1, <1>2 DEF TypesInv, DatabaseCounts, SoundWork, GameTypes, SysMsgTypes, VersionNamesData,
                    bonuesVars, tables, sysMsgVars
<1>5. AskingCounts'
  BY <1>1 DEF TypesInv, AskingCounts, Counted, bonuesVars
<1> QED
  BY <1>3, <1>4, <1>5 DEF TypesInv

LEMMA InitTypes ==
  ASSUME Init
  PROVE  TypesInv /\ VersionNamesData
<1>1. /\ day = 1 /\ mysql_conn = FALSE /\ redis_conn = FALSE /\ faults = 0 /\ requests = 0
      /\ work = [sql \in Sqls |-> <<>>]
  BY DEF Init, DatabaseInit, Sqls
<1>2. day \in Days /\ 0 \in Days
  BY <1>1, CalendarConstantsOK DEF Days
<1>3. DatabaseCounts
  <2>1. 0 \in 0 .. MaxFaults /\ 0 \in 0 .. MaxRequests
    BY DatabaseConstantsOK
  <2> QED
    BY <1>1, <2>1 DEF DatabaseCounts
<1>4. SoundWork
  <2>1. work \in Pool(Sqls, {})
    BY <1>1, PoolEmpty
  <2> QED
    BY <2>1 DEF SoundWork
<1>5. AskingCounts
  <2>1. asking = [u \in Users |-> 0]
    BY DEF Init, BonuesInit
  <2>2. ASSUME NEW u \in Users
        PROVE  Counted(u)
    <3>1. Places(work, Answering, u) = {}
      BY <1>1 DEF Places
    <3>2. IsFiniteSet(Places(work, Answering, u)) /\ Cardinality(Places(work, Answering, u)) = 0
      BY <3>1, FS_EmptySet
    <3>3. asking[u] = 0 /\ asking[u] <= requests
      BY <1>1, <2>1
    <3> QED
      BY <3>2, <3>3 DEF Counted
  <2> QED
    BY <2>1, <2>2 DEF AskingCounts
<1>6. GameTypes
  <2>1. PICK known \in SUBSET Users :
          /\ frozen \in SUBSET known
          /\ ugame = [u \in Users |-> IF u \in known THEN <<UCHIP>> ELSE <<>>]
          /\ login_bonues = [u \in Users |-> IF u \in known THEN <<NewBonus(0)>> ELSE <<>>]
          /\ world_rank = IF known = {} THEN {} ELSE Others
    BY DEF Init, BonuesInit
  <2>2. NewBonus(0) \in Bonus
    BY <1>2 DEF NewBonus, Bonus
  <2>3. /\ <<UCHIP>> \in Seq(Nat) /\ <<>> \in Seq(Nat)
        /\ <<NewBonus(0)>> \in Seq(Bonus) /\ <<>> \in Seq(Bonus)
    BY <2>2, BonuesConstantsOK
  <2>4. ugame \in [Users -> Seq(Nat)] /\ login_bonues \in [Users -> Seq(Bonus)]
    BY <2>1, <2>3
  <2>5. cache \in [Users -> Seq(Nat)] /\ history \in [Users -> History]
    BY <2>3 DEF Init, BonuesInit, History
  <2> QED
    BY <2>1, <2>4, <2>5 DEF GameTypes
<1>7. SysMsgTypes /\ VersionNamesData
  <2>1. 0 \in 0 .. MaxDay + 1 /\ 0 \in 0 .. 0
    BY CalendarConstantsOK
  <2> QED
    BY <2>1, SysMsgConstantsOK DEF Init, SysMsgInit, SysMsgTypes, VersionNamesData
<1> QED
  BY <1>2, <1>3, <1>4, <1>5, <1>6, <1>7 DEF TypesInv

LEMMA NextTypes ==
  ASSUME TypesInv, VersionNamesData, [Next]_vars
  PROVE  TypesInv' /\ VersionNamesData'
<1>1. CASE works
  <2>1. UNCHANGED <<day, connections, requests>> /\ (game_data_works \/ messages_work)
    BY <1>1 DEF works
  <2>2. CASE game_data_works
    <3>1. bonues_works /\ UNCHANGED <<day, sysMsgVars>>
      BY <2>2 DEF game_data_works
    <3>2. TypesInv'
      BY <2>1, <3>1, bonues_worksKeep
    <3>3. VersionNamesData'
      BY <3>1 DEF VersionNamesData, sysMsgVars
    <3> QED
      BY <3>2, <3>3
  <2>3. CASE messages_work
    BY <2>1, <2>3, messages_workKeep DEF messages_work
  <2> QED
    BY <2>1, <2>2, <2>3
<1>2. CASE asks /\ UNCHANGED <<day, sysMsgVars>>
  <2>1. TypesInv'
    BY <1>2, asksKeep
  <2>2. VersionNamesData'
    BY <1>2 DEF VersionNamesData, sysMsgVars
  <2> QED
    BY <2>1, <2>2
<1>3. CASE (edit \/ get_sys_msg) /\ UNCHANGED <<day, bonuesVars>>
  BY <1>3, messages_askKeep
<1>4. CASE \/ (mysql_connect \/ redis_connect) /\ UNCHANGED <<day, bonuesVars, sysMsgVars>>
           \/ midnight /\ UNCHANGED <<database, bonuesVars, sysMsgVars>>
           \/ UNCHANGED vars
  BY <1>4, RestKeeps
<1> QED
  BY <1>1, <1>2, <1>3, <1>4 DEF Next

\* What is in flight is as it should be.
LEMMA TypesFollow ==
  ASSUME TypesInv
  PROVE  TypeOK
<1>1. /\ day \in Days /\ DatabaseCounts /\ SoundWork /\ GameTypes /\ AskingCounts /\ SysMsgTypes
  BY DEF TypesInv
<1>2. \A i \in InFlight : job(i).sql = i[1] /\ (job(i).err => job(i).ran)
  BY <1>1, InFlightSound DEF Sound
<1>3. DatabaseTypes
  BY <1>1, <1>2 DEF DatabaseTypes, DatabaseCounts
<1>4. asking \in [Users -> 0 .. MaxRequests]
  <2>1. requests \in Nat /\ MaxRequests \in Nat /\ requests <= MaxRequests
    BY <1>1, DatabaseConstantsOK DEF DatabaseCounts
  <2>2. \A u \in Users : asking[u] \in Nat /\ asking[u] <= requests
    BY <1>1 DEF AskingCounts, Counted
  <2>3. \A u \in Users : asking[u] \in 0 .. MaxRequests
    BY <2>1, <2>2
  <2> QED
    BY <1>1, <2>3 DEF AskingCounts
<1>5. BonuesTypes
  BY <1>1, <1>4 DEF BonuesTypes, GameTypes
<1> QED
  BY <1>1, <1>3, <1>5 DEF TypeOK

\* The system server's state has its types, whatever is in flight: in particular every
\* query in flight is among those of its statement, and no request is answered twice
\* (asking stays a count).
THEOREM ServerTypes == Spec => []TypeOK
<1>1. Init => TypesInv /\ VersionNamesData
  BY InitTypes
<1>2. TypesInv /\ VersionNamesData /\ [Next]_vars => (TypesInv /\ VersionNamesData)'
  BY NextTypes
<1>3. TypesInv => TypeOK
  BY TypesFollow
<1> QED
  BY <1>1, <1>2, <1>3, PTL DEF Spec

\* A client that has the server's version has its messages, whatever is edited, loaded
\* and lost in between.
THEOREM VersionsNameData == Spec => []VersionNamesData
<1>1. Init => TypesInv /\ VersionNamesData
  BY InitTypes
<1>2. TypesInv /\ VersionNamesData /\ [Next]_vars => (TypesInv /\ VersionNamesData)'
  BY NextTypes
<1> QED
  BY <1>1, <1>2, PTL DEF Spec

-----------------------------------------------------------------------------
(* Bonuses *)

\* What a query about the bonus has read, or will write, fits the rows as they are.
Fits(q, rows, today) ==
  /\ q.sql = "get_bonues_info" /\ q.ran /\ ~q.err => q.ret = rows[q.uid]
  /\ q.sql = "insert_bonues_info" => q.arg[3] <= today
  /\ q.sql = "update_login_bonues" =>
       /\ q.arg[2].time <= today
       /\ ~q.ran => rows[q.uid] # <<>> /\ Head(rows[q.uid]).time < q.arg[2].time
  /\ q.sql = "update_login_bonues_status" =>
       /\ q.arg <= today
       /\ ~q.ran => rows[q.uid] # <<>> /\ Head(rows[q.uid]).time <= q.arg

\* A user's bonus has been paid, or is about to be, and is about to be marked.
Marking(u) ==
  \E i \in InFlight : i[1] = "update_login_bonues_status" /\ job(i).uid = u /\ ~job(i).ran

Unpaid(u) == Places(work, {"add_chip"}, u)

\* A bonus that nothing in flight marks may still be paid.
Claim(u) == IF Due(login_bonues[u]) /\ ~Marking(u) THEN 1 ELSE 0

\* Days are granted in their order, and what was paid, is being paid and may be paid
\* is what was granted.
Balanced(u) ==
  /\ login_bonues[u] = <<>> => history[u].granted = {}
  /\ login_bonues[u] # <<>> =>
       /\ Head(login_bonues[u]).time <= day
       /\ \A d \in history[u].granted : d <= Head(login_bonues[u]).time
  /\ IsFiniteSet(Unpaid(u))
  /\ history[u].paid + Cardinality(Unpaid(u)) + Claim(u)
       <= Cardinality(history[u].granted) + history[u].unmarked

BonusInv ==
  /\ TypesInv
  /\ \A u \in Users : asking[u] <= 1
  /\ \A i \in InFlight : Fits(job(i), login_bonues, day)
  /\ \A u \in Users : Balanced(u)

\* A patient user's queries that lead to an answer are one at a time.
LEMMA OneAtATime ==
  ASSUME BonusInv, NEW i \in InFlight, NEW k \in InFlight, i[1] \in Answering, k[1] \in Answering,
         job(i).uid = job(k).uid
  PROVE  i = k
<1>1. TypesInv /\ SoundWork
  BY DEF BonusInv, TypesInv
<1>2. Sound(job(i)) /\ job(i).sql = i[1]
  BY <1>1, InFlightSound
<1>3. PICK u \in Users : u = job(i).uid
  BY <1>2 DEF Sound, Answering, Statements
<1> DEFINE P == Places(work, Answering, u)
<1>4. i \in P /\ k \in P
  BY <1>3 DEF Places, InFlight, job
<1>5. IsFiniteSet(P) /\ Cardinality(P) = asking[u] /\ asking[u] <= 1
  BY <1>1 DEF TypesInv, AskingCounts, Counted, BonusInv
<1> HIDE DEF P
<1>6. Cardinality(P) \in Nat
  BY <1>5, FS_CardinalityType
<1>7. IsFiniteSet(P \ {i}) /\ Cardinality(P \ {i}) = Cardinality(P) - 1
  BY <1>4, <1>5, FS_RemoveElement
<1>8. Cardinality(P \ {i}) \in Nat
  BY <1>7, FS_CardinalityType
<1>9. Cardinality(P \ {i}) = 0
  BY <1>5, <1>6, <1>7, <1>8
<1>10. P \ {i} = {}
  BY <1>7, <1>9, FS_EmptySet
<1> QED
  BY <1>4, <1>10

\* The numbers of what is balanced.
LEMMA Numbers ==
  ASSUME TypesInv, NEW u \in Users
  PROVE  /\ history[u] \in History /\ history[u].paid \in Nat /\ history[u].unmarked \in Nat
         /\ history[u].granted \in SUBSET Days
         /\ IsFiniteSet(history[u].granted) /\ Cardinality(history[u].granted) \in Nat
         /\ IsFiniteSet(Unpaid(u)) => Cardinality(Unpaid(u)) \in Nat
         /\ Claim(u) \in 0 .. 1
         /\ login_bonues[u] \in Seq(Bonus)
         /\ login_bonues[u] # <<>> =>
              /\ Head(login_bonues[u]) \in Bonus /\ Head(login_bonues[u]).time \in Nat
              /\ 1 \in DOMAIN login_bonues[u] /\ Head(login_bonues[u]) = login_bonues[u][1]
         /\ day \in Nat
<1>1. GameTypes /\ day \in Nat
  BY DEF TypesInv, Days
<1>2. history[u] \in History
  BY <1>1, Doubts
<1>3. history[u].paid \in Nat /\ history[u].unmarked \in Nat /\ history[u].granted \in SUBSET Days
  BY <1>2 DEF History
<1>4. IsFiniteSet(history[u].granted)
  <2>1. IsFiniteSet(Days)
    <3>1. 0 \in Int /\ MaxDay \in Int
      BY CalendarConstantsOK
    <3> QED
      BY <3>1, FS_Interval DEF Days
  <2> QED
    BY <1>3, <2>1, FS_Subset
<1>5. Cardinality(history[u].granted) \in Nat
  BY <1>4, FS_CardinalityType
<1>6. IsFiniteSet(Unpaid(u)) => Cardinality(Unpaid(u)) \in Nat
  BY FS_CardinalityType
<1>7. Claim(u) \in 0 .. 1
  BY DEF Claim
<1>8. login_bonues[u] \in Seq(Bonus)
  BY <1>1 DEF GameTypes
<1>9. login_bonues[u] # <<>> =>
        /\ Head(login_bonues[u]) \in Bonus
        /\ 1 \in DOMAIN login_bonues[u] /\ Head(login_bonues[u]) = login_bonues[u][1]
  BY <1>8, HeadTailProperties, EmptySeq
<1>10. \A info \in Bonus : info.time \in Nat
  BY DEF Bonus, Days
<1> QED
  BY <1>1, <1>2, <1>3, <1>4, <1>5, <1>6, <1>7, <1>8, <1>9, <1>10

\* What fits goes on to fit while the rows stay.
LEMMA FitsStays ==
  ASSUME NEW q, Sound(q), NEW rows, NEW today \in Nat, Fits(q, rows, today),
         NEW rows2, q.sql \in Answering => rows2[q.uid] = rows[q.uid],
         NEW tomorrow \in Nat, today <= tomorrow
  PROVE  Fits(q, rows2, tomorrow)
<1>1. /\ q.sql = "insert_bonues_info" => q.arg[3] \in Nat
      /\ q.sql = "update_login_bonues" => q.arg[2].time \in Nat
      /\ q.sql = "update_login_bonues_status" => q.arg \in Nat
  BY DEF Sound, Bonus, Days
<1> QED
  BY <1>1 DEF Fits, Answering

\* The rows of a user, and the counts of its bonuses, stay.
Kept(v) ==
  /\ login_bonues'[v] = login_bonues[v]
  /\ history'[v].granted = history[v].granted
  /\ history'[v].paid = history[v].paid /\ history'[v].unmarked = history[v].unmarked

\* Nothing more is about to be paid, and what is about to be marked still is.
Quiet(v) ==
  /\ IsFiniteSet(Unpaid(v)') /\ Cardinality(Unpaid(v)') <= Cardinality(Unpaid(v))
  /\ Marking(v) => Marking(v)'

\* A bonus may only be claimed anew when the rows change or a mark has been executed.
LEMMA ClaimStays ==
  ASSUME NEW v, login_bonues'[v] = login_bonues[v], Marking(v) => Marking(v)'
  PROVE  Claim(v)' <= Claim(v)
<1>1. Due(login_bonues[v])' <=> Due(login_bonues[v])
  BY DEF Due
<1>2. Claim(v)' = IF Due(login_bonues[v])' /\ ~Marking(v)' THEN 1 ELSE 0
  BY DEF Claim
<1>3. Claim(v) = IF Due(login_bonues[v]) /\ ~Marking(v) THEN 1 ELSE 0
  BY DEF Claim
<1> QED
  BY <1>1, <1>2, <1>3

\* A user whom a step does not concern stays balanced.
LEMMA Steady ==
  ASSUME TypesInv, NEW v \in Users, Balanced(v), Kept(v), Quiet(v), day' \in Nat, day <= day'
  PROVE  Balanced(v)'
<1> DEFINE paid == history[v].paid
           gone == Cardinality(Unpaid(v))
           left == Cardinality(Unpaid(v)')
           right == Cardinality(history[v].granted) + history[v].unmarked
<1>1. IsFiniteSet(Unpaid(v)) /\ paid + gone + Claim(v) <= right
  BY DEF Balanced
<1>2. paid \in Nat /\ gone \in Nat /\ Claim(v) \in 0 .. 1 /\ right \in Nat
  BY <1>1, Numbers
<1>3. left \in Nat /\ left <= gone
  BY FS_CardinalityType DEF Quiet
<1>4. Claim(v)' <= Claim(v) /\ Claim(v)' \in 0 .. 1
  <2>1. Claim(v)' \in 0 .. 1
    BY DEF Claim
  <2> QED
    BY <2>1, ClaimStays DEF Kept, Quiet
<1>5. paid + left + Claim(v)' <= right
  BY <1>1, <1>2, <1>3, <1>4
<1>6. /\ history'[v].paid = paid
      /\ Cardinality(history'[v].granted) + history'[v].unmarked = right
  BY DEF Kept
<1>7. history'[v].paid + left + Claim(v)' <= Cardinality(history'[v].granted) + history'[v].unmarked
  BY <1>5, <1>6
<1>8. /\ login_bonues'[v] = <<>> => history'[v].granted = {}
      /\ login_bonues'[v] # <<>> =>
           /\ Head(login_bonues'[v]).time <= day'
           /\ \A d \in history'[v].granted : d <= Head(login_bonues'[v]).time
  <2>1. login_bonues[v] # <<>> => Head(login_bonues[v]).time \in Nat /\ day \in Nat
    BY Numbers
  <2> QED
    BY <2>1 DEF Kept, Balanced
<1>9. IsFiniteSet(Unpaid(v)')
  BY DEF Quiet
<1> HIDE DEF paid, gone, right
<1> QED
  BY <1>7, <1>8, <1>9 DEF Balanced

\* What is kept when only a doubt changes.
LEMMA DoubtKeeps ==
  ASSUME TypesInv, NEW u \in Users, NEW v \in Users, login_bonues'[v] = login_bonues[v],
         \/ UNCHANGED history
         \/ \E doubt : history' = [history EXCEPT ![u].doubt = doubt]
  PROVE  Kept(v)
<1>1. history \in [Users -> History]
  BY DEF TypesInv, GameTypes
<1>2. CASE UNCHANGED history
  BY <1>2 DEF Kept
<1>3. CASE \E doubt : history' = [history EXCEPT ![u].doubt = doubt]
  <2>1. PICK doubt : history' = [history EXCEPT ![u].doubt = doubt]
    BY <1>3
  <2>2. history[u] \in History
    BY <1>1
  <2> QED
    BY <1>1, <2>1, <2>2 DEF Kept, History
<1> QED
  BY <1>2, <1>3

\* Queries that pay nothing are made.
LEMMA QuietMakes ==
  ASSUME SoundWork, NEW Q, \A q \in Q : Sound(q) /\ q.sql \in Sqls, work' = With(Q, work),
         \A q \in Q : q.sql # "add_chip",
         NEW v \in Users, IsFiniteSet(Unpaid(v))
  PROVE  Quiet(v)
<1>1. Unpaid(v)' = Unpaid(v)
  BY Makes DEF Unpaid
<1>2. Cardinality(Unpaid(v)) \in Nat
  BY FS_CardinalityType
<1>3. Marking(v) => Marking(v)'
  BY Makes DEF Marking
<1> QED
  BY <1>1, <1>2, <1>3 DEF Quiet

\* A query that marks nothing is executed.
LEMMA QuietExecutes ==
  ASSUME SoundWork, NEW i \in InFlight, NEW err, NEW ret, Execute(i, err, ret),
         Sound(After(job(i), err, ret)), NEW v \in Users, IsFiniteSet(Unpaid(v)),
         i[1] # "update_login_bonues_status" \/ job(i).uid # v
  PROVE  Quiet(v)
<1>1. Unpaid(v)' = Unpaid(v)
  BY Executes DEF Unpaid
<1>2. Cardinality(Unpaid(v)) \in Nat
  BY FS_CardinalityType
<1>3. Marking(v) => Marking(v)'
  BY Executes DEF Marking
<1> QED
  BY <1>1, <1>2, <1>3 DEF Quiet

\* A query that has nothing left to mark is over, and what it makes pays nothing.
LEMMA QuietCompletes ==
  ASSUME SoundWork, NEW i \in InFlight, NEW Q, \A q \in Q : Sound(q) /\ q.sql \in Sqls,
         Leaves(i, Q), NEW v \in Users, IsFiniteSet(Unpaid(v)),
         \A q \in Q : q.sql # "add_chip" \/ q.uid # v,
         i[1] # "update_login_bonues_status" \/ job(i).ran \/ job(i).uid # v
  PROVE  Quiet(v)
<1>1. /\ IsFiniteSet(Unpaid(v)')
      /\ Cardinality(Unpaid(v)')
           = Cardinality(Unpaid(v))
               - (IF i[1] \in {"add_chip"} /\ job(i).uid = v THEN 1 ELSE 0)
  BY Completes DEF Unpaid
<1>2. Cardinality(Unpaid(v)) \in Nat
  BY FS_CardinalityType
<1>3. Marking(v) => Marking(v)'
  BY Completes DEF Marking
<1> QED
  BY <1>1, <1>2, <1>3 DEF Quiet

\* Where the rows change, the user's only query is the one that changes them.
LEMMA FitsOthers ==
  ASSUME BonusInv, NEW i \in InFlight, NEW u \in Users, job(i).uid = u,
         \A v \in Users : login_bonues'[v] # login_bonues[v] => v = u /\ i[1] \in Answering,
         day' \in Nat, day <= day', NEW j \in InFlight, j # i
  PROVE  Fits(job(j), login_bonues', day')
<1>1. SoundWork /\ day \in Nat
  BY DEF BonusInv, TypesInv, Days
<1>2. Sound(job(j)) /\ job(j).sql = j[1] /\ Fits(job(j), login_bonues, day)
  BY <1>1, InFlightSound DEF BonusInv
<1>3. ASSUME job(j).sql \in Answering
      PROVE  login_bonues'[job(j).uid] = login_bonues[job(j).uid]
  <2>1. job(j).uid \in Users
    BY <1>2, <1>3 DEF Sound, Answering, Statements
  <2>2. i[1] \in Answering => job(j).uid # u
    BY <1>2, <1>3, OneAtATime
  <2> QED
    BY <2>1, <2>2
<1> QED
  BY <1>1, <1>2, <1>3, FitsStays

\* What is executed fits the rows it leaves.
LEMMA FitsAfter ==
  ASSUME NEW q, Sound(q), NEW rows, NEW today, Fits(q, rows, today), NEW err, NEW ret, NEW rows2,
         q.sql = "get_bonues_info" => err \/ ret = rows2[q.uid]
  PROVE  Fits(After(q, err, ret), rows2, today)
<1> DEFINE p == After(q, err, ret)
<1>0. p = After(q, err, ret)
  OBVIOUS
<1> HIDE DEF p
<1>1. /\ p.sql = q.sql /\ p.uid = q.uid /\ p.arg = q.arg /\ p.ret = ret
      /\ p.ran
  BY <1>0, AfterIs
<1>2. p.err = err
  BY <1>0, AfterIs
<1>3. p.sql = "get_bonues_info" /\ p.ran /\ ~p.err => p.ret = rows2[p.uid]
  BY <1>1, <1>2
<1>4. Fits(p, rows2, today)
  BY <1>1, <1>3 DEF Fits
<1> QED
  BY <1>0, <1>4

\* What a handler asks for fits what it has read.
LEMMA FitsNew ==
  ASSUME BonusInv, NEW i \in InFlight, NEW u \in Users, job(i).uid = u, NEW Q, Effect(i, u, Q),
         NEW q \in Q
  PROVE  Fits(q, login_bonues, day)
<1>1. SoundWork /\ TypesInv /\ Balanced(u) /\ day \in Nat
  BY DEF BonusInv, TypesInv, Days
<1>2. Sound(job(i)) /\ job(i).sql = i[1] /\ Fits(job(i), login_bonues, day)
  BY <1>1, InFlightSound DEF BonusInv
<1>3. Sound(q) /\ ~q.ran /\ q.uid = u /\ Reads(i, q) /\ (i[1] \notin Ranking => job(i).ran)
  BY DEF Effect
<1>4. i[1] = "get_bonues_info" /\ ~job(i).err => job(i).ret = login_bonues[u]
  BY <1>2, <1>3 DEF Fits, Ranking
<1>5. CASE q.sql = "insert_bonues_info"
  BY <1>1, <1>3, <1>5 DEF Fits, Reads
<1>6. CASE q.sql = "update_login_bonues"
  BY <1>1, <1>3, <1>4, <1>6 DEF Fits, Reads, Rows
<1>7. CASE q.sql = "update_login_bonues_status"
  <2>1. login_bonues[u] # <<>> /\ q.arg = day
    BY <1>3, <1>4, <1>7 DEF Reads, Due
  <2>2. Head(login_bonues[u]).time <= day
    BY <1>1, <2>1 DEF Balanced
  <2> QED
    BY <1>1, <1>3, <1>7, <2>1, <2>2 DEF Fits
<1>8. CASE q.sql \notin {"insert_bonues_info", "update_login_bonues", "update_login_bonues_status"}
  BY <1>3, <1>8 DEF Fits
<1> QED
  BY <1>5, <1>6, <1>7, <1>8

\* What is about to be paid and marked was due.
LEMMA HandlerBalances ==
  ASSUME BonusInv, NEW i \in InFlight, NEW u \in Users, job(i).uid = u, NEW Q, Effect(i, u, Q),
         UNCHANGED <<day, login_bonues>>, NEW v \in Users
  PROVE  Balanced(v)'
<1>1. SoundWork /\ TypesInv /\ Balanced(v) /\ day \in Nat /\ day' = day
  BY DEF BonusInv, TypesInv, Days
<1>2. Leaves(i, Q) /\ \A q \in Q : Sound(q) /\ q.sql \in Sqls /\ q.uid = u /\ ~q.ran /\ Reads(i, q)
  BY DEF Effect, on_query_complete, Leaves, Sqls
<1>3. Kept(v)
  <2>1. \/ UNCHANGED history
        \/ \E doubt : history' = [history EXCEPT ![u].doubt = doubt]
    BY DEF Effect
  <2> QED
    BY <1>1, <2>1, DoubtKeeps
<1>4. IsFiniteSet(Unpaid(v))
  BY <1>1 DEF Balanced
<1>5. i[1] # "update_login_bonues_status" \/ job(i).ran
  BY DEF Effect, Ranking
<1>6. CASE \A q \in Q : q.sql # "add_chip" \/ q.uid # v
  <2>1. Quiet(v)
    BY <1>1, <1>2, <1>4, <1>5, <1>6, QuietCompletes
  <2>2. day' \in Nat /\ day <= day'
    BY <1>1
  <2> QED
    BY <1>1, <1>3, <2>1, <2>2, Steady
<1>7. CASE \E q \in Q : q.sql = "add_chip" /\ q.uid = v
  <2>1. PICK q \in Q : q.sql = "add_chip" /\ q.uid = v
    BY <1>7
  <2>2. v = u
    BY <1>2, <2>1
  <2>3. PICK p \in Q : p.sql = "update_login_bonues_status"
    BY <2>1 DEF Effect
  <2>4. /\ i[1] = "get_bonues_info" /\ ~job(i).err /\ Due(job(i).ret) /\ job(i).ran
        /\ p.uid = u /\ ~p.ran
    BY <1>2, <2>3 DEF Reads, Effect, Ranking
  <2>5. Due(login_bonues[u])
    <3>1. Fits(job(i), login_bonues, day) /\ job(i).sql = i[1]
      BY <1>1, InFlightSound DEF BonusInv
    <3> QED
      BY <2>4, <3>1 DEF Fits
  <2>6. ~Marking(u)
    <3>1. SUFFICES ASSUME NEW k \in InFlight, k[1] = "update_login_bonues_status", job(k).uid = u
                   PROVE  FALSE
      BY DEF Marking
    <3>2. k = i
      BY <2>4, <3>1, OneAtATime DEF Answering
    <3> QED
      BY <2>4, <3>1, <3>2
  <2>7. Claim(u) = 1
    BY <2>5, <2>6 DEF Claim
  <2>8. Marking(u)' /\ Claim(u)' = 0
    <3>1. \A q2 \in Q : q2.sql = p.sql => q2 = p
      BY <2>3 DEF Effect, Answering
    <3>2. \E k \in InFlight' : k[1] = p.sql /\ job(k)' = p
      BY <1>1, <1>2, <3>1, Completes
    <3>3. Marking(u)'
      BY <2>3, <2>4, <3>2 DEF Marking
    <3> QED
      BY <3>3 DEF Claim
  <2>9. IsFiniteSet(Unpaid(u)') /\ Cardinality(Unpaid(u)') = Cardinality(Unpaid(u)) + 1
    <3>1. /\ q.sql \in {"add_chip"} /\ q.uid = u
          /\ \A q2 \in Q : (q2.sql \in {"add_chip"} /\ q2.uid = u) \/ q2.sql = q.sql => q2 = q
      BY <2>1, <2>2 DEF Effect
    <3>2. Cardinality(Unpaid(u)) - (IF i[1] \in {"add_chip"} /\ job(i).uid = u THEN 1 ELSE 0)
            = Cardinality(Unpaid(u))
      BY <1>4, <2>2, <2>4, FS_CardinalityType
    <3>3. /\ IsFiniteSet(Places(work', {"add_chip"}, u))
          /\ Cardinality(Places(work', {"add_chip"}, u))
               = Cardinality(Places(work, {"add_chip"}, u))
                   - (IF i[1] \in {"add_chip"} /\ job(i).uid = u THEN 1 ELSE 0) + 1
      BY <1>1, <1>2, <1>4, <2>2, <3>1, Completes DEF Unpaid
    <3> QED
      BY <3>2, <3>3 DEF Unpaid
  <2> DEFINE gone == Cardinality(Unpaid(u))
             paid == history[u].paid
             right == Cardinality(history[u].granted) + history[u].unmarked
  <2>10. paid + gone + Claim(u) <= right /\ paid \in Nat /\ gone \in Nat
    BY <1>1, <1>4, <2>2, Numbers DEF Balanced
  <2>11. paid + (gone + 1) + Claim(u)' <= right
    BY <2>7, <2>8, <2>10
  <2>12. /\ history'[u].paid = paid
         /\ Cardinality(history'[u].granted) + history'[u].unmarked = right
         /\ history'[u].granted = history[u].granted
    BY <1>3, <2>2 DEF Kept
  <2>13. history'[u].paid + Cardinality(Unpaid(u)') + Claim(u)'
           <= Cardinality(history'[u].granted) + history'[u].unmarked
    BY <2>9, <2>11, <2>12
  <2> HIDE DEF gone, paid, right
  <2> QED
    BY <1>1, <2>2, <2>9, <2>12, <2>13 DEF Balanced
<1> QED
  BY <1>6, <1>7

\* A query is executed: what is in flight fits the rows it leaves.
LEMMA FitsExecuted ==
  ASSUME BonusInv, NEW i \in InFlight, NEW u \in Users, job(i).uid = u,
         \A v \in Users : login_bonues'[v] # login_bonues[v] => v = u /\ i[1] \in Answering,
         day' = day,
         NEW err, NEW ret, Execute(i, err, ret), Sound(After(job(i), err, ret)),
         i[1] = "get_bonues_info" => err \/ ret = login_bonues'[u]
  PROVE  \A k \in InFlight' : Fits(job(k)', login_bonues', day')
<1>1. SoundWork /\ day \in Nat
  BY DEF BonusInv, TypesInv, Days
<1>2. Sound(job(i)) /\ job(i).sql = i[1] /\ Fits(job(i), login_bonues, day)
  BY <1>1, InFlightSound DEF BonusInv
<1>3. /\ InFlight' = InFlight /\ job(i)' = After(job(i), err, ret)
      /\ \A k \in InFlight : k # i => job(k)' = job(k)
  BY <1>1, Executes
<1>4. Fits(After(job(i), err, ret), login_bonues', day')
  BY <1>2, FitsAfter
<1>5. day' \in Nat /\ day <= day'
  BY <1>1
<1>6. \A k \in InFlight : k # i => Fits(job(k), login_bonues', day')
  BY <1>5, FitsOthers
<1> QED
  BY <1>3, <1>4, <1>6

\* A query is over: what is in flight fits the rows.
LEMMA FitsCompleted ==
  ASSUME BonusInv, NEW i \in InFlight, login_bonues' = login_bonues, day' = day,
         NEW Q, Leaves(i, Q), \A q \in Q : Sound(q) /\ q.sql \in Sqls /\ Fits(q, login_bonues, day)
  PROVE  \A k \in InFlight' : Fits(job(k)', login_bonues', day')
<1>1. SoundWork /\ \A k \in InFlight : Fits(job(k), login_bonues, day)
  BY DEF BonusInv, TypesInv
<1>2. \A k \in InFlight' : job(k)' \in Q \/ \E j \in InFlight : job(k)' = job(j)
  BY <1>1, Completes
<1> QED
  BY <1>1, <1>2

\* Queries are made: what is in flight fits the rows.
LEMMA FitsMade ==
  ASSUME BonusInv, login_bonues' = login_bonues, day' = day,
         NEW Q, work' = With(Q, work),
         \A q \in Q : Sound(q) /\ q.sql \in Sqls /\ Fits(q, login_bonues, day)
  PROVE  \A k \in InFlight' : Fits(job(k)', login_bonues', day')
<1>1. SoundWork /\ \A k \in InFlight : Fits(job(k), login_bonues, day)
  BY DEF BonusInv, TypesInv
<1>2. \A k \in InFlight' : job(k)' \in Q \/ (k \in InFlight /\ job(k)' = job(k))
  BY <1>1, Makes
<1> QED
  BY <1>1, <1>2

\* A write changes no place, and fits.
LEMMA WriteFits ==
  ASSUME BonusInv, NEW i \in InFlight, NEW u \in Users, job(i).uid = u,
         \A v \in Users : login_bonues'[v] # login_bonues[v] => v = u /\ i[1] \in Answering,
         day' = day, write_work(i),
         i[1] \notin {"get_bonues_info", "get_ugame_info", "hgetall", "get_sys_msg"},
         NEW v \in Users
  PROVE  /\ \A k \in InFlight' : Fits(job(k)', login_bonues', day')
         /\ Unpaid(v)' = Unpaid(v)
         /\ i[1] # "update_login_bonues_status" \/ v # u => Quiet(v)
<1>1. SoundWork /\ Sound(job(i)) /\ job(i).sql = i[1] /\ IsFiniteSet(Unpaid(v))
  BY InFlightSound DEF BonusInv, TypesInv, Balanced
<1>2. PICK err : Execute(i, err, <<>>)
  BY WriteExecutes
<1>3. Sound(After(job(i), err, <<>>))
  BY <1>1, SoundAfter
<1>4. \A k \in InFlight' : Fits(job(k)', login_bonues', day')
  BY <1>2, <1>3, FitsExecuted
<1>5. Unpaid(v)' = Unpaid(v)
  BY <1>1, <1>2, <1>3, Executes DEF Unpaid
<1>6. i[1] # "update_login_bonues_status" \/ v # u => Quiet(v)
  BY <1>1, <1>2, <1>3, QuietExecutes
<1> QED
  BY <1>4, <1>5, <1>6

\* A user whom a step concerns is balanced after it.
LEMMA Rebalanced ==
  ASSUME NEW u, NEW v, v = u,
         login_bonues'[u] = <<>> => history'[u].granted = {},
         login_bonues'[u] # <<>> =>
           /\ Head(login_bonues'[u]).time <= day'
           /\ \A d \in history'[u].granted : d <= Head(login_bonues'[u]).time,
         IsFiniteSet(Unpaid(u)'),
         history'[u].paid + Cardinality(Unpaid(u)') + Claim(u)'
           <= Cardinality(history'[u].granted) + history'[u].unmarked
  PROVE  Balanced(v)'
<1>1. Balanced(u)'
  BY DEF Balanced
<1> QED
  BY <1>1

\* The row of a first login has no bonus.
LEMMA insert_bonues_infoBalances ==
  ASSUME BonusInv, NEW i \in InFlight, NEW u \in Users, job(i).uid = u,
         insert_bonues_info(i, u), UNCHANGED day, NEW v \in Users
  PROVE  (\A k \in InFlight' : Fits(job(k)', login_bonues', day')) /\ Balanced(v)'
<1>1. /\ TypesInv /\ SoundWork /\ Balanced(v) /\ day \in Nat /\ day' = day /\ GameTypes
      /\ Sound(job(i)) /\ job(i).sql = i[1] /\ Fits(job(i), login_bonues, day)
  BY InFlightSound DEF BonusInv, TypesInv, Days
<1> DEFINE row == NewBonus(job(i).arg[3])
           rows == Append(login_bonues[u], row)
<1>2. /\ i[1] = "insert_bonues_info" /\ write_work(i) /\ history' = history
      /\ login_bonues' = [login_bonues EXCEPT ![u] = rows]
  BY DEF insert_bonues_info, Queued
<1>3. row \in Bonus /\ row.status = 1 /\ row.time <= day
  BY <1>1, <1>2 DEF Fits, Sound, NewBonus, Bonus
<1> HIDE DEF row
<1>4. /\ login_bonues[u] \in Seq(Bonus)
      /\ login_bonues[u] # <<>> =>
             1 \in DOMAIN login_bonues[u] /\ Head(login_bonues[u]) = login_bonues[u][1]
  BY <1>1, Numbers
<1>5. rows # <<>> /\ Head(rows) = IF login_bonues[u] = <<>> THEN row ELSE Head(login_bonues[u])
  <2> DEFINE old == login_bonues[u]
  <2>1. old \in Seq(Bonus) /\ Len(old) \in Nat /\ rows = Append(old, row)
    BY <1>4 DEF rows
  <2> HIDE DEF old
  <2>2. rows \in Seq(Bonus) /\ Len(rows) = Len(old) + 1
        /\ (\A k \in 1 .. Len(old) : rows[k] = old[k]) /\ rows[Len(old) + 1] = row
    BY <1>3, <2>1, AppendProperties
  <2>3. rows # <<>>
    BY <2>1, <2>2, EmptySeq
  <2>4. Head(rows) = rows[1]
    BY <2>2, <2>3, HeadTailProperties
  <2>5. CASE old = <<>>
    <3>1. Len(old) + 1 = 1
      BY <2>5
    <3> QED
      BY <2>2, <2>3, <2>4, <2>5, <3>1 DEF old
  <2>6. CASE old # <<>>
    <3>1. 1 \in 1 .. Len(old) /\ Head(old) = old[1]
      BY <1>4, <2>1, <2>6, LenProperties DEF old
    <3> QED
      BY <2>2, <2>3, <2>4, <2>6, <3>1 DEF old
  <2> QED
    BY <2>5, <2>6
<1> HIDE DEF rows
<1>6. /\ login_bonues'[u] = rows /\ login_bonues' \in [Users -> {login_bonues'[x] : x \in Users}]
      /\ \A x \in Users : x # u => login_bonues'[x] = login_bonues[x]
  BY <1>1, <1>2 DEF GameTypes
<1>7. /\ \A k \in InFlight' : Fits(job(k)', login_bonues', day')
      /\ Unpaid(v)' = Unpaid(v) /\ Quiet(v)
  <2>1. i[1] \in Answering
    BY <1>2 DEF Answering
  <2> QED
    BY <1>1, <1>2, <1>6, <2>1, WriteFits
<1>8. CASE v # u
  <2>1. Kept(v) /\ day' \in Nat /\ day <= day'
    BY <1>1, <1>2, <1>6, <1>8 DEF Kept
  <2> QED
    BY <1>1, <1>7, <2>1, Steady
<1>9. CASE v = u /\ login_bonues[u] # <<>>
  <2>1. Claim(u)' <= Claim(u) /\ Claim(u)' \in 0 .. 1
    <3>1. Due(login_bonues'[u]) <=> Due(login_bonues[u])
      BY <1>5, <1>6, <1>9 DEF Due
    <3>2. Marking(u) => Marking(u)'
      BY <1>7, <1>9 DEF Quiet
    <3>3. Claim(u)' = IF Due(login_bonues'[u]) /\ ~Marking(u)' THEN 1 ELSE 0
      BY DEF Claim
    <3>4. Claim(u) = IF Due(login_bonues[u]) /\ ~Marking(u) THEN 1 ELSE 0
      BY DEF Claim
    <3> QED
      BY <3>1, <3>2, <3>3, <3>4
  <2> DEFINE paid == history[u].paid
             gone == Cardinality(Unpaid(u))
             right == Cardinality(history[u].granted) + history[u].unmarked
  <2>2. /\ IsFiniteSet(Unpaid(u)) /\ paid + gone + Claim(u) <= right
        /\ paid \in Nat /\ gone \in Nat /\ right \in Nat /\ Claim(u) \in 0 .. 1
    BY <1>1, <1>9, Numbers DEF Balanced
  <2>3. paid + gone + Claim(u)' <= right
    BY <2>1, <2>2
  <2>4. /\ history'[u] = history[u] /\ Unpaid(u)' = Unpaid(u)
        /\ Head(login_bonues'[u]) = Head(login_bonues[u]) /\ login_bonues'[u] # <<>>
    BY <1>2, <1>5, <1>6, <1>7, <1>9
  <2>5. history'[u].paid + Cardinality(Unpaid(u)') + Claim(u)'
          <= Cardinality(history'[u].granted) + history'[u].unmarked
    BY <2>3, <2>4
  <2>6. IsFiniteSet(Unpaid(u)')
    BY <2>2, <2>4
  <2>7. /\ Head(login_bonues'[u]).time <= day'
        /\ \A d \in history'[u].granted : d <= Head(login_bonues'[u]).time
    BY <1>1, <1>9, <2>4 DEF Balanced
  <2> HIDE DEF paid, gone, right
  <2> QED
    BY <1>7, <1>9, <2>4, <2>5, <2>6, <2>7, Rebalanced
<1>10. CASE v = u /\ login_bonues[u] = <<>>
  <2>1. Claim(u)' = 0 /\ Claim(u) = 0
    BY <1>3, <1>5, <1>6, <1>10 DEF Claim, Due
  <2>2. history'[u] = history[u] /\ history[u].granted = {} /\ Unpaid(u)' = Unpaid(u)
    BY <1>1, <1>2, <1>7, <1>10 DEF Balanced
  <2>3. login_bonues'[u] # <<>> /\ Head(login_bonues'[u]).time <= day'
    BY <1>1, <1>3, <1>5, <1>6, <1>10
  <2> DEFINE paid == history[u].paid
             gone == Cardinality(Unpaid(u))
             right == Cardinality(history[u].granted) + history[u].unmarked
  <2>4. paid + gone + Claim(u) <= right /\ IsFiniteSet(Unpaid(u))
    BY <1>1, <1>10 DEF Balanced
  <2>5. history'[u].paid + Cardinality(Unpaid(u)') + Claim(u)'
          <= Cardinality(history'[u].granted) + history'[u].unmarked
    BY <2>1, <2>2, <2>4
  <2>6. IsFiniteSet(Unpaid(u)') /\ \A d : d \notin history'[u].granted
    BY <2>2, <2>4
  <2> HIDE DEF paid, gone, right
  <2> QED
    BY <1>7, <1>10, <2>3, <2>5, <2>6, Rebalanced
<1> QED
  BY <1>7, <1>8, <1>9, <1>10

\* Every row of a user becomes one of these.
LEMMA RowsBecome ==
  ASSUME TypesInv, NEW u \in Users, login_bonues[u] # <<>>,
         NEW become, become \in [DOMAIN login_bonues[u] -> Bonus],
         login_bonues' = [login_bonues EXCEPT ![u] = become]
  PROVE  /\ \A x \in Users : x # u => login_bonues'[x] = login_bonues[x]
         /\ login_bonues'[u] # <<>> /\ Head(login_bonues'[u]) = become[1]
<1>1. /\ login_bonues[u] \in Seq(Bonus) /\ 1 \in DOMAIN login_bonues[u]
      /\ login_bonues \in [Users -> Seq(Bonus)]
  BY Numbers DEF TypesInv, GameTypes
<1>2. login_bonues'[u] = become /\ \A x \in Users : x # u => login_bonues'[x] = login_bonues[x]
  BY <1>1
<1>3. become \in Seq(Bonus)
  BY <1>1
<1>4. become # <<>>
  BY <1>1
<1>5. Head(become) = become[1]
  BY <1>3, <1>4, HeadTailProperties
<1> QED
  BY <1>2, <1>4, <1>5

\* A new day is granted.
LEMMA update_login_bonuesBalances ==
  ASSUME BonusInv, NEW i \in InFlight, NEW u \in Users, job(i).uid = u,
         update_login_bonues(i, u), UNCHANGED day, NEW v \in Users
  PROVE  (\A k \in InFlight' : Fits(job(k)', login_bonues', day')) /\ Balanced(v)'
<1>1. /\ TypesInv /\ SoundWork /\ Balanced(v) /\ day \in Nat /\ day' = day /\ GameTypes
      /\ Sound(job(i)) /\ job(i).sql = i[1] /\ Fits(job(i), login_bonues, day)
  BY InFlightSound DEF BonusInv, TypesInv, Days
<1> DEFINE info == job(i).arg[2]
           rows == [k \in DOMAIN login_bonues[u] |-> info]
<1>2. /\ i[1] = "update_login_bonues" /\ ~job(i).ran /\ write_work(i)
      /\ login_bonues' = [login_bonues EXCEPT ![u] = rows]
      /\ history' = [history EXCEPT ![u].granted = @ \cup {info.time}]
  BY DEF update_login_bonues, Queued
<1>3. /\ info \in Bonus /\ info.time <= day
      /\ login_bonues[u] # <<>> /\ Head(login_bonues[u]).time < info.time
  BY <1>1, <1>2 DEF Fits, Sound
<1> HIDE DEF info
<1>4. rows \in [DOMAIN login_bonues[u] -> Bonus] /\ rows[1] = info
  BY <1>1, <1>3, Numbers
<1> HIDE DEF rows
<1>5. /\ login_bonues'[u] # <<>> /\ Head(login_bonues'[u]) = info
      /\ \A x \in Users : x # u => login_bonues'[x] = login_bonues[x]
  BY <1>1, <1>2, <1>3, <1>4, RowsBecome
<1>6. /\ \A k \in InFlight' : Fits(job(k)', login_bonues', day')
      /\ Unpaid(v)' = Unpaid(v) /\ Quiet(v)
  <2>1. i[1] \in Answering
    BY <1>2 DEF Answering
  <2> QED
    BY <1>1, <1>2, <1>5, <2>1, WriteFits
<1>7. CASE v # u
  <2>1. Kept(v) /\ day' \in Nat /\ day <= day'
    BY <1>1, <1>2, <1>5, <1>7 DEF Kept, GameTypes
  <2> QED
    BY <1>1, <1>6, <2>1, Steady
<1>8. CASE v = u
  <2> DEFINE days == history[u].granted
             paid == history[u].paid
             gone == Cardinality(Unpaid(u))
  <2>1. /\ IsFiniteSet(days) /\ Cardinality(days) \in Nat /\ days \in SUBSET Days
        /\ paid \in Nat /\ history[u].unmarked \in Nat /\ Claim(u) \in 0 .. 1
        /\ IsFiniteSet(Unpaid(u)) /\ gone \in Nat
        /\ Head(login_bonues[u]).time \in Nat
    BY <1>1, <1>3, <1>8, Numbers DEF Balanced
  <2>2. /\ paid + gone + Claim(u) <= Cardinality(days) + history[u].unmarked
        /\ \A d \in days : d <= Head(login_bonues[u]).time
    BY <1>1, <1>3, <1>8 DEF Balanced
  <2>3. info.time \in Nat
    BY <1>3 DEF Bonus, Days
  <2>4. \A d \in days : d < info.time
    <3>1. \A d \in days : d \in Nat
      BY <2>1 DEF Days
    <3> QED
      BY <1>3, <2>1, <2>2, <2>3, <3>1
  <2>5. info.time \notin days
    BY <2>3, <2>4
  <2>6. Cardinality(days \cup {info.time}) = Cardinality(days) + 1
    BY <2>1, <2>5, FS_AddElement
  <2>7. /\ history'[u].granted = days \cup {info.time}
        /\ history'[u].paid = paid /\ history'[u].unmarked = history[u].unmarked
    <3>1. history \in [Users -> History] /\ history[u] \in History
      BY <1>1 DEF GameTypes
    <3>2. history'[u] = [history[u] EXCEPT !.granted = @ \cup {info.time}]
      BY <1>2, <3>1
    <3> QED
      BY <3>1, <3>2 DEF History
  <2>8. Claim(u)' \in 0 .. 1
    BY DEF Claim
  <2>9. Unpaid(u)' = Unpaid(u) /\ IsFiniteSet(Unpaid(u)')
    BY <1>6, <1>8, <2>1
  <2>10. paid + gone + Claim(u)' <= Cardinality(days) + 1 + history[u].unmarked
    BY <2>1, <2>2, <2>8
  <2>11. history'[u].paid + Cardinality(Unpaid(u)') + Claim(u)'
           <= Cardinality(history'[u].granted) + history'[u].unmarked
    BY <2>6, <2>7, <2>9, <2>10
  <2>12. /\ Head(login_bonues'[u]).time <= day'
         /\ \A d \in history'[u].granted : d <= Head(login_bonues'[u]).time
    <3>1. \A d \in days \cup {info.time} : d <= info.time
      <4>1. \A d \in days : d \in Nat
        BY <2>1 DEF Days
      <4> QED
        BY <2>3, <2>4, <4>1
    <3> QED
      BY <1>1, <1>3, <1>5, <2>7, <3>1
  <2> HIDE DEF days, paid, gone
  <2> QED
    BY <1>5, <1>6, <1>8, <2>9, <2>11, <2>12, Rebalanced
<1> QED
  BY <1>7, <1>8

\* A row whose bonus is marked has none.
LEMMA update_login_bonues_statusBalances ==
  ASSUME BonusInv, NEW i \in InFlight, NEW u \in Users, job(i).uid = u,
         update_login_bonues_status(i, u), UNCHANGED day, NEW v \in Users
  PROVE  (\A k \in InFlight' : Fits(job(k)', login_bonues', day')) /\ Balanced(v)'
<1>1. /\ TypesInv /\ SoundWork /\ Balanced(v) /\ day \in Nat /\ day' = day /\ GameTypes
      /\ Sound(job(i)) /\ job(i).sql = i[1] /\ Fits(job(i), login_bonues, day)
  BY InFlightSound DEF BonusInv, TypesInv, Days
<1> DEFINE time == job(i).arg
           rows == [k \in DOMAIN login_bonues[u] |-> marked(login_bonues[u][k], time)]
<1>2. /\ i[1] = "update_login_bonues_status" /\ ~job(i).ran /\ write_work(i)
      /\ login_bonues' = [login_bonues EXCEPT ![u] = rows] /\ history' = history
  BY DEF update_login_bonues_status, Queued
<1>3. /\ time \in Days /\ time <= day
      /\ login_bonues[u] # <<>> /\ Head(login_bonues[u]).time <= time
  BY <1>1, <1>2 DEF Fits, Sound
<1> HIDE DEF time
<1>4. ASSUME NEW info \in Bonus
      PROVE  /\ marked(info, time) \in Bonus
             /\ marked(info, time).status = 1 /\ marked(info, time).time = time
  <2> DEFINE flags == 0 .. 1
  <2>1. 1 \in flags /\ Bonus = [status : flags, time : Days, days : Nat, bonues : Nat]
    BY DEF Bonus
  <2> HIDE DEF flags
  <2>2. info.days + 1 \in Nat
    BY <2>1
  <2> QED
    BY <1>3, <2>1, <2>2 DEF marked
<1>5. login_bonues[u] \in Seq(Bonus) /\ 1 \in DOMAIN login_bonues[u]
  BY <1>1, <1>3, Numbers
<1>6. \A k \in DOMAIN login_bonues[u] : login_bonues[u][k] \in Bonus
  BY <1>5, ElementOfSeq
<1>7. rows \in [DOMAIN login_bonues[u] -> Bonus] /\ rows[1].status = 1 /\ rows[1].time = time
  BY <1>4, <1>5, <1>6
<1> HIDE DEF rows
<1>8. /\ login_bonues'[u] # <<>> /\ Head(login_bonues'[u]) = rows[1]
      /\ \A x \in Users : x # u => login_bonues'[x] = login_bonues[x]
  BY <1>1, <1>2, <1>3, <1>7, RowsBecome
<1>9. /\ \A k \in InFlight' : Fits(job(k)', login_bonues', day')
      /\ Unpaid(v)' = Unpaid(v)
      /\ v # u => Quiet(v)
  <2>1. i[1] \in Answering
    BY <1>2 DEF Answering
  <2> QED
    BY <1>1, <1>2, <1>8, <2>1, WriteFits
<1>10. CASE v # u
  <2>1. Kept(v) /\ day' \in Nat /\ day <= day'
    BY <1>1, <1>2, <1>8, <1>10 DEF Kept
  <2> QED
    BY <1>1, <1>9, <1>10, <2>1, Steady
<1>11. CASE v = u
  <2> DEFINE paid == history[u].paid
             gone == Cardinality(Unpaid(u))
             right == Cardinality(history[u].granted) + history[u].unmarked
  <2>1. /\ paid \in Nat /\ gone \in Nat /\ right \in Nat /\ Claim(u) \in 0 .. 1
        /\ IsFiniteSet(Unpaid(u)) /\ Head(login_bonues[u]).time \in Nat
        /\ history[u].granted \in SUBSET Days
    BY <1>1, <1>3, <1>11, Numbers DEF Balanced
  <2>2. /\ paid + gone + Claim(u) <= right
        /\ \A d \in history[u].granted : d <= Head(login_bonues[u]).time
    BY <1>1, <1>3, <1>11 DEF Balanced
  <2>3. Claim(u)' = 0
    BY <1>7, <1>8 DEF Claim, Due
  <2>4. history'[u] = history[u] /\ Unpaid(u)' = Unpaid(u) /\ IsFiniteSet(Unpaid(u)')
    BY <1>2, <1>9, <1>11, <2>1
  <2>5. paid + gone + Claim(u)' <= right
    BY <2>1, <2>2, <2>3
  <2>6. history'[u].paid + Cardinality(Unpaid(u)') + Claim(u)'
          <= Cardinality(history'[u].granted) + history'[u].unmarked
    BY <2>4, <2>5
  <2>7. /\ Head(login_bonues'[u]).time <= day'
        /\ \A d \in history'[u].granted : d <= Head(login_bonues'[u]).time
    <3>1. \A d \in history[u].granted : d <= time
      <4>1. time \in Nat /\ \A d \in history[u].granted : d \in Nat
        BY <1>3, <2>1 DEF Days
      <4> QED
        BY <1>3, <2>1, <2>2, <4>1
    <3> QED
      BY <1>1, <1>3, <1>7, <1>8, <2>4, <3>1
  <2> HIDE DEF paid, gone, right
  <2> QED
    BY <1>8, <1>9, <1>11, <2>4, <2>6, <2>7, Rebalanced
<1> QED
  BY <1>10, <1>11

\* A bonus is paid.
LEMMA add_chipBalances ==
  ASSUME BonusInv, NEW i \in InFlight, NEW u \in Users, job(i).uid = u,
         add_chip(i, u), UNCHANGED day, NEW v \in Users
  PROVE  (\A k \in InFlight' : Fits(job(k)', login_bonues', day')) /\ Balanced(v)'
<1>1. /\ TypesInv /\ SoundWork /\ Balanced(v) /\ day \in Nat /\ day' = day /\ GameTypes
  BY DEF BonusInv, TypesInv, Days
<1>2. /\ i[1] = "add_chip" /\ Leaves(i, {}) /\ login_bonues' = login_bonues
      /\ history' = [history EXCEPT ![u].paid = @ + 1]
  BY DEF add_chip, Queued, on_query_complete, Leaves
<1>3. \A k \in InFlight' : Fits(job(k)', login_bonues', day')
  BY <1>1, <1>2, FitsCompleted
<1>4. IsFiniteSet(Unpaid(v)) /\ Quiet(v)
  <2>1. IsFiniteSet(Unpaid(v))
    BY <1>1 DEF Balanced
  <2> QED
    BY <1>1, <1>2, <2>1, QuietCompletes
<1>5. CASE v # u
  <2>1. Kept(v) /\ day' \in Nat /\ day <= day'
    BY <1>1, <1>2, <1>5 DEF Kept, GameTypes
  <2> QED
    BY <1>1, <1>3, <1>4, <2>1, Steady
<1>6. CASE v = u
  <2> DEFINE paid == history[u].paid
             gone == Cardinality(Unpaid(u))
             right == Cardinality(history[u].granted) + history[u].unmarked
  <2>1. paid \in Nat /\ gone \in Nat /\ right \in Nat /\ Claim(u) \in 0 .. 1
    BY <1>1, <1>4, <1>6, Numbers
  <2>2. paid + gone + Claim(u) <= right
    BY <1>1, <1>6 DEF Balanced
  <2>3. IsFiniteSet(Unpaid(u)') /\ Cardinality(Unpaid(u)') = gone - 1
    <3>1. /\ IsFiniteSet(Places(work', {"add_chip"}, u))
          /\ Cardinality(Places(work', {"add_chip"}, u))
               = Cardinality(Places(work, {"add_chip"}, u))
                   - (IF i[1] \in {"add_chip"} /\ job(i).uid = u THEN 1 ELSE 0)
      BY <1>1, <1>2, <1>4, <1>6, Completes DEF Unpaid
    <3> QED
      BY <1>2, <3>1 DEF Unpaid
  <2>4. Claim(u)' <= Claim(u) /\ Claim(u)' \in 0 .. 1
    <3>1. Claim(u)' \in 0 .. 1
      BY DEF Claim
    <3>2. login_bonues'[u] = login_bonues[u] /\ (Marking(u) => Marking(u)')
      BY <1>2, <1>4, <1>6 DEF Quiet
    <3> QED
      BY <3>1, <3>2, ClaimStays
  <2>5. /\ history'[u].granted = history[u].granted
        /\ history'[u].paid = paid + 1 /\ history'[u].unmarked = history[u].unmarked
    <3>1. history \in [Users -> History] /\ history[u] \in History
      BY <1>1 DEF GameTypes
    <3>2. history'[u] = [history[u] EXCEPT !.paid = @ + 1]
      BY <1>2, <3>1
    <3> QED
      BY <3>1, <3>2 DEF History
  <2>6. (paid + 1) + (gone - 1) + Claim(u)' <= right
    BY <2>1, <2>2, <2>4
  <2>7. history'[u].paid + Cardinality(Unpaid(u)') + Claim(u)'
          <= Cardinality(history'[u].granted) + history'[u].unmarked
    BY <2>3, <2>5, <2>6
  <2>8. /\ login_bonues'[u] = <<>> => history'[u].granted = {}
        /\ login_bonues'[u] # <<>> =>
             /\ Head(login_bonues'[u]).time <= day'
             /\ \A d \in history'[u].granted : d <= Head(login_bonues'[u]).time
    BY <1>1, <1>2, <1>6, <2>5 DEF Balanced
  <2> HIDE DEF paid, gone, right
  <2> QED
    BY <1>3, <1>6, <2>3, <2>7, <2>8, Rebalanced
<1> QED
  BY <1>5, <1>6

\* The update of the status fails: the row still has its bonus.
LEMMA UnmarkedBalances ==
  ASSUME BonusInv, NEW i \in InFlight, NEW u \in Users, job(i).uid = u,
         Queued(i, "update_login_bonues_status"), query_fails(i),
         history' = [history EXCEPT ![u].unmarked = @ + 1],
         UNCHANGED <<day, tables>>, NEW v \in Users
  PROVE  (\A k \in InFlight' : Fits(job(k)', login_bonues', day')) /\ Balanced(v)'
<1>1. /\ TypesInv /\ SoundWork /\ Balanced(v) /\ day \in Nat /\ day' = day /\ GameTypes
      /\ login_bonues' = login_bonues
  BY DEF BonusInv, TypesInv, Days, tables
<1>2. write_work(i) /\ i[1] = "update_login_bonues_status"
  BY DEF write_work, Queued
<1>3. /\ \A k \in InFlight' : Fits(job(k)', login_bonues', day')
      /\ Unpaid(v)' = Unpaid(v)
      /\ v # u => Quiet(v)
  BY <1>1, <1>2, WriteFits
<1>4. CASE v # u
  <2>1. Kept(v) /\ day' \in Nat /\ day <= day'
    BY <1>1, <1>4 DEF Kept, GameTypes
  <2> QED
    BY <1>1, <1>3, <1>4, <2>1, Steady
<1>5. CASE v = u
  <2> DEFINE paid == history[u].paid
             gone == Cardinality(Unpaid(u))
             right == Cardinality(history[u].granted) + history[u].unmarked
  <2>1. /\ IsFiniteSet(Unpaid(u)) /\ paid \in Nat /\ gone \in Nat /\ right \in Nat
        /\ Claim(u) \in 0 .. 1
        /\ Cardinality(history[u].granted) \in Nat /\ history[u].unmarked \in Nat
    BY <1>1, <1>5, Numbers DEF Balanced
  <2>2. paid + gone + Claim(u) <= right
    BY <1>1, <1>5 DEF Balanced
  <2>3. Claim(u)' \in 0 .. 1
    BY DEF Claim
  <2>4. /\ history'[u].granted = history[u].granted
        /\ history'[u].paid = paid /\ history'[u].unmarked = history[u].unmarked + 1
    <3>1. history \in [Users -> History] /\ history[u] \in History
      BY <1>1 DEF GameTypes
    <3>2. history'[u] = [history[u] EXCEPT !.unmarked = @ + 1]
      BY <3>1
    <3> QED
      BY <3>1, <3>2 DEF History
  <2>5. Unpaid(u)' = Unpaid(u) /\ IsFiniteSet(Unpaid(u)')
    BY <1>3, <1>5, <2>1
  <2>6. paid + gone + Claim(u)' <= Cardinality(history[u].granted) + (history[u].unmarked + 1)
    BY <2>1, <2>2, <2>3
  <2>7. history'[u].paid + Cardinality(Unpaid(u)') + Claim(u)'
          <= Cardinality(history'[u].granted) + history'[u].unmarked
    BY <2>4, <2>5, <2>6
  <2>8. /\ login_bonues'[u] = <<>> => history'[u].granted = {}
        /\ login_bonues'[u] # <<>> =>
             /\ Head(login_bonues'[u]).time <= day'
             /\ \A d \in history'[u].granted : d <= Head(login_bonues'[u]).time
    BY <1>1, <1>5, <2>4 DEF Balanced
  <2> HIDE DEF paid, gone, right
  <2> QED
    BY <1>3, <1>5, <2>5, <2>7, <2>8, Rebalanced
<1> QED
  BY <1>4, <1>5

\* A query that touches no bonus is executed, or fails.
LEMMA ExecutedBalances ==
  ASSUME BonusInv, NEW i \in InFlight, NEW err, NEW ret, Execute(i, err, ret),
         i[1] = "get_bonues_info" => err \/ ret = login_bonues[job(i).uid],
         Sound(After(job(i), err, ret)), i[1] # "update_login_bonues_status",
         UNCHANGED <<day, login_bonues, history>>, NEW v \in Users
  PROVE  (\A k \in InFlight' : Fits(job(k)', login_bonues', day')) /\ Balanced(v)'
<1>1. /\ TypesInv /\ SoundWork /\ Balanced(v) /\ day' \in Nat /\ day <= day'
      /\ \A k \in InFlight : Fits(job(k), login_bonues, day)
  BY DEF BonusInv, TypesInv, Days
<1>2. Sound(job(i)) /\ job(i).sql = i[1]
  BY <1>1, InFlightSound
<1>3. \A k \in InFlight' : Fits(job(k)', login_bonues', day')
  <2>1. /\ InFlight' = InFlight /\ job(i)' = After(job(i), err, ret)
        /\ \A k \in InFlight : k # i => job(k)' = job(k)
    BY <1>1, Executes
  <2>2. Fits(After(job(i), err, ret), login_bonues, day)
    BY <1>1, <1>2, FitsAfter
  <2> QED
    BY <1>1, <2>1, <2>2
<1>4. Quiet(v)
  <2>1. IsFiniteSet(Unpaid(v))
    BY <1>1 DEF Balanced
  <2> QED
    BY <1>1, <2>1, QuietExecutes
<1>5. Kept(v)
  BY DEF Kept
<1> QED
  BY <1>1, <1>3, <1>4, <1>5, Steady

\* A query that marks nothing is over.
LEMMA LeftBalances ==
  ASSUME BonusInv, NEW i \in InFlight, NEW Q, Leaves(i, Q),
         \A q \in Q : /\ Sound(q) /\ q.sql \in Sqls /\ Fits(q, login_bonues, day)
                      /\ q.sql # "add_chip",
         i[1] # "update_login_bonues_status",
         UNCHANGED <<day, login_bonues>>, NEW v \in Users, Kept(v)
  PROVE  (\A k \in InFlight' : Fits(job(k)', login_bonues', day')) /\ Balanced(v)'
<1>1. TypesInv /\ SoundWork /\ Balanced(v) /\ day' \in Nat /\ day <= day'
  BY DEF BonusInv, TypesInv, Days
<1>2. \A k \in InFlight' : Fits(job(k)', login_bonues', day')
  BY FitsCompleted
<1>3. Quiet(v)
  <2>1. IsFiniteSet(Unpaid(v))
    BY <1>1 DEF Balanced
  <2> QED
    BY <1>1, <2>1, QuietCompletes
<1> QED
  BY <1>1, <1>2, <1>3, Steady

\* Queries that pay nothing are made.
LEMMA MadeBalances ==
  ASSUME BonusInv, NEW Q, work' = With(Q, work),
         \A q \in Q : /\ Sound(q) /\ q.sql \in Sqls /\ Fits(q, login_bonues, day)
                      /\ q.sql # "add_chip",
         UNCHANGED <<day, login_bonues>>, NEW v \in Users, Kept(v)
  PROVE  (\A k \in InFlight' : Fits(job(k)', login_bonues', day')) /\ Balanced(v)'
<1>1. TypesInv /\ SoundWork /\ Balanced(v) /\ day' \in Nat /\ day <= day'
  BY DEF BonusInv, TypesInv, Days
<1>2. \A k \in InFlight' : Fits(job(k)', login_bonues', day')
  BY FitsMade
<1>3. Quiet(v)
  <2>1. IsFiniteSet(Unpaid(v))
    BY <1>1 DEF Balanced
  <2> QED
    BY <1>1, <2>1, QuietMakes
<1> QED
  BY <1>1, <1>2, <1>3, Steady

\* Every statement.
LEMMA StatementsBalance ==
  ASSUME BonusInv, NEW i \in InFlight, NEW u \in Users, job(i).uid = u, statements(i, u),
         UNCHANGED day, NEW v \in Users
  PROVE  (\A k \in InFlight' : Fits(job(k)', login_bonues', day')) /\ Balanced(v)'
<1>1. TypesInv /\ SoundWork /\ Sound(job(i)) /\ job(i).sql = i[1] /\ GameTypes
  BY InFlightSound DEF BonusInv, TypesInv
<1>2. <<>> \in Seq(Nat) /\ <<>> \in Seq(Bonus) /\ <<>> \in Contents
  BY SysMsgConstantsOK
<1>3. CASE select(i, u)
  <2>1. UNCHANGED <<day, login_bonues, history>>
    BY <1>3 DEF select, tables
  <2>2. ASSUME NEW ret, Execute(i, FALSE, ret),
               i[1] = "get_bonues_info" => ret = login_bonues[u],
               i[1] \in {"get_ugame_info", "hgetall"} => ret \in Seq(Nat),
               i[1] \notin {"get_sys_msg", "update_login_bonues_status"}
        PROVE  (\A k \in InFlight' : Fits(job(k)', login_bonues', day')) /\ Balanced(v)'
    <3>1. login_bonues[u] \in Seq(Bonus)
      BY <1>1 DEF GameTypes
    <3>2. Sound(After(job(i), FALSE, ret))
      BY <1>1, <2>2, <3>1, SoundAfter
    <3> QED
      BY <2>1, <2>2, <3>2, ExecutedBalances
  <2>3. ugame[u] \in Seq(Nat) /\ cache[u] \in Seq(Nat)
    BY <1>1 DEF GameTypes
  <2>4. CASE Queued(i, "get_ugame_info") /\ query_work(i, ugame[u])
    <3>1. i[1] = "get_ugame_info" /\ Execute(i, FALSE, ugame[u])
      BY <2>4 DEF Queued, query_work
    <3> QED
      BY <2>2, <2>3, <3>1
  <2>5. CASE Queued(i, "get_bonues_info") /\ query_work(i, login_bonues[u])
    <3>1. i[1] = "get_bonues_info" /\ Execute(i, FALSE, login_bonues[u])
      BY <2>5 DEF Queued, query_work
    <3> QED
      BY <2>2, <3>1
  <2>6. CASE Queued(i, "hgetall") /\ query_work(i, cache[u])
    <3>1. i[1] = "hgetall" /\ Execute(i, FALSE, cache[u])
      BY <2>6 DEF Queued, query_work
    <3> QED
      BY <2>2, <2>3, <3>1
  <2>7. CASE Queued(i, "zrevrange") /\ \E ret : query_work(i, ret)
    <3>1. PICK ret : query_work(i, ret)
      BY <2>7
    <3>2. i[1] = "zrevrange" /\ Execute(i, FALSE, ret)
      BY <2>7, <3>1 DEF Queued, query_work
    <3> QED
      BY <2>2, <3>2
  <2> QED
    BY <1>3, <2>4, <2>5, <2>6, <2>7 DEF select
<1>4. ASSUME NEW err, Execute(i, err, <<>>), i[1] # "update_login_bonues_status",
             i[1] = "get_bonues_info" => err, UNCHANGED <<login_bonues, history>>
      PROVE  (\A k \in InFlight' : Fits(job(k)', login_bonues', day')) /\ Balanced(v)'
  <2>1. Sound(After(job(i), err, <<>>))
    BY <1>1, <1>2, SoundAfter
  <2> QED
    BY <1>4, <2>1, ExecutedBalances
<1>5. CASE insert_ugame_info(i, u)
  <2>1. i[1] = "insert_ugame_info" /\ write_work(i) /\ UNCHANGED <<login_bonues, history>>
    BY <1>5 DEF insert_ugame_info, Queued
  <2>2. PICK err : Execute(i, err, <<>>)
    BY <2>1, WriteExecutes
  <2> QED
    BY <1>4, <2>1, <2>2
<1>6. CASE insert_bonues_info(i, u)
  BY <1>6, insert_bonues_infoBalances
<1>7. CASE update_login_bonues(i, u)
  BY <1>7, update_login_bonuesBalances
<1>8. CASE update_login_bonues_status(i, u)
  BY <1>8, update_login_bonues_statusBalances
<1>9. CASE add_chip(i, u)
  BY <1>9, add_chipBalances
<1>10. CASE hmset(i, u) \/ zadd(i, u)
  <2>1. /\ i[1] \in {"hmset", "zadd"} /\ Leaves(i, {}) /\ UNCHANGED <<day, login_bonues>>
        /\ Kept(v)
    BY <1>10 DEF hmset, zadd, Queued, on_query_complete, Leaves, Kept
  <2> QED
    BY <2>1, LeftBalances
<1>11. CASE nothing_done(i, u)
  <2>1. login_bonues' = login_bonues /\ UNCHANGED tables
    BY <1>11 DEF nothing_done, tables
  <2>2. CASE /\ \E sql \in {"get_ugame_info", "insert_ugame_info", "get_bonues_info",
                            "insert_bonues_info", "update_login_bonues"} : Queued(i, sql)
             /\ query_fails(i)
             /\ UNCHANGED history
    <3>1. i[1] # "update_login_bonues_status" /\ Execute(i, TRUE, <<>>)
      BY <2>2 DEF Queued, query_fails
    <3> QED
      BY <1>4, <2>1, <2>2, <3>1
  <2>3. CASE /\ Queued(i, "update_login_bonues_status") /\ query_fails(i)
             /\ history' = [history EXCEPT ![u].unmarked = @ + 1]
    BY <2>1, <2>3, UnmarkedBalances
  <2>4. CASE /\ Queued(i, "add_chip") /\ work' = [work EXCEPT !["add_chip"] = RemoveAt(@, i[2])]
             /\ Doubt(u, "yes")
    <3>1. i[1] = "add_chip"
      BY <2>4 DEF Queued
    <3>2. Leaves(i, {})
      BY <2>4, <3>1 DEF Leaves, With
    <3>3. Kept(v)
      <4>1. \E doubt : history' = [history EXCEPT ![u].doubt = doubt]
        BY <2>4 DEF Doubt
      <4> QED
        BY <1>1, <2>1, <4>1, DoubtKeeps
    <3> QED
      BY <2>1, <3>1, <3>2, <3>3, LeftBalances
  <2> QED
    BY <1>11, <2>2, <2>3, <2>4 DEF nothing_done
<1> QED
  BY <1>3, <1>5, <1>6, <1>7, <1>8, <1>9, <1>10, <1>11 DEF statements

\* The game data's work.
LEMMA WorksBalance ==
  ASSUME BonusInv, bonues_works, UNCHANGED day, NEW v \in Users
  PROVE  /\ asking'[v] <= 1
         /\ \A k \in InFlight' : Fits(job(k)', login_bonues', day')
         /\ Balanced(v)'
<1>1. PICK i \in InFlight : \E u \in {job(i).uid} \cap Users :
        \/ handlers(i, u) /\ UNCHANGED tables
        \/ statements(i, u) /\ UNCHANGED asking
  BY DEF bonues_works
<1>2. PICK u \in Users :
        /\ job(i).uid = u
        /\ \/ handlers(i, u) /\ UNCHANGED tables
           \/ statements(i, u) /\ UNCHANGED asking
  BY <1>1
<1>3. asking \in [Users -> Nat] /\ asking[v] <= 1 /\ TypesInv
  BY DEF BonusInv, TypesInv, AskingCounts
<1>4. CASE handlers(i, u) /\ UNCHANGED tables
  <2>1. PICK Q : Effect(i, u, Q)
    BY <1>2, <1>3, <1>4, HandlersEffect
  <2>2. login_bonues' = login_bonues
    BY <1>4 DEF tables
  <2>3. Leaves(i, Q) /\ \A q \in Q : Sound(q) /\ q.sql \in Sqls /\ Fits(q, login_bonues, day)
    <3>1. \A q \in Q : Fits(q, login_bonues, day)
      BY <1>2, <2>1, FitsNew
    <3> QED
      BY <2>1, <3>1 DEF Effect, on_query_complete, Leaves, Sqls
  <2>4. \A k \in InFlight' : Fits(job(k)', login_bonues', day')
    BY <2>2, <2>3, FitsCompleted
  <2>5. Balanced(v)'
    BY <1>2, <2>1, <2>2, HandlerBalances
  <2>6. asking'[v] <= 1
    <3>1. asking'[v] = asking[v] \/ asking'[v] = asking[v] - 1
      BY <1>3, <2>1 DEF Effect, Answered
    <3> QED
      BY <1>3, <3>1
  <2> QED
    BY <2>4, <2>5, <2>6
<1>5. CASE statements(i, u) /\ UNCHANGED asking
  BY <1>2, <1>3, <1>5, StatementsBalance
<1> QED
  BY <1>2, <1>4, <1>5

\* A patient user asks.
LEMMA asksBalance ==
  ASSUME BonusInv, ~Impatient, asks, UNCHANGED day, NEW v \in Users
  PROVE  /\ asking'[v] <= 1
         /\ \A k \in InFlight' : Fits(job(k)', login_bonues', day')
         /\ Balanced(v)'
<1>1. PICK u \in Users : get_ugame_info(u) \/ recv_login_bonues(u) \/ get_world_uchip_rank(u)
  BY DEF asks
<1>2. asking \in [Users -> Nat] /\ asking[v] <= 1 /\ TypesInv
  BY DEF BonusInv, TypesInv, AskingCounts
<1>3. PICK sql \in {"get_ugame_info", "get_bonues_info", "zrevrange"} :
        \E arg : (arg[1] # "check" \/ sql # "get_bonues_info") /\ Asks(u, sql, arg)
  <2>1. CASE get_ugame_info(u)
    <3>1. Asks(u, "get_ugame_info", <<"check">>)
      BY <2>1 DEF get_ugame_info
    <3> QED
      BY <3>1
  <2>2. CASE recv_login_bonues(u)
    <3>1. Asks(u, "get_bonues_info", <<"recv">>)
      BY <2>2 DEF recv_login_bonues
    <3> QED
      BY <3>1
  <2>3. CASE get_world_uchip_rank(u)
    <3>1. Asks(u, "zrevrange", <<>>)
      BY <2>3 DEF get_world_uchip_rank
    <3> QED
      BY <3>1
  <2> QED
    BY <1>1, <2>1, <2>2, <2>3
<1>4. PICK arg : (arg[1] # "check" \/ sql # "get_bonues_info") /\ Asks(u, sql, arg)
  BY <1>3
<1>5. /\ asking[u] = 0 /\ asking' = [asking EXCEPT ![u] = @ + 1]
      /\ work' = With({query(sql, u, arg)}, work) /\ login_bonues' = login_bonues
  BY <1>4 DEF Asks, Query, tables
<1>6. asking'[v] <= 1
  BY <1>2, <1>5
<1>7. Kept(v)
  <2>1. \/ UNCHANGED history
        \/ \E doubt : history' = [history EXCEPT ![u].doubt = doubt]
    BY <1>1 DEF get_ugame_info, recv_login_bonues, get_world_uchip_rank, Doubt
  <2> QED
    BY <1>2, <1>5, <2>1, DoubtKeeps
<1> DEFINE q == query(sql, u, arg)
           Q == {q}
<1>8. Sound(q) /\ q.sql = sql /\ ~q.ran
  BY <1>4, NewQuery
<1>9. work' = With(Q, work) /\ \A p \in Q : p = q
  BY <1>5
<1> HIDE DEF q, Q
<1>10. q.sql \in Sqls /\ q.sql # "add_chip" /\ Fits(q, login_bonues, day)
  BY <1>8 DEF Sqls, Statements, Fits
<1>11. (\A k \in InFlight' : Fits(job(k)', login_bonues', day')) /\ Balanced(v)'
  BY <1>5, <1>7, <1>8, <1>9, <1>10, MadeBalances
<1> QED
  BY <1>6, <1>11

\* Nothing of the game data happens, but midnight may pass.
LEMMA IdleBalances ==
  ASSUME BonusInv, UNCHANGED <<work, login_bonues, history>>, day' \in Nat, day <= day',
         NEW v \in Users
  PROVE  (\A k \in InFlight' : Fits(job(k)', login_bonues', day')) /\ Balanced(v)'
<1>1. TypesInv /\ SoundWork /\ Balanced(v) /\ day \in Nat
  BY DEF BonusInv, TypesInv, Days
<1>2. ASSUME NEW k \in InFlight
      PROVE  Fits(job(k), login_bonues, day')
  <2>1. Sound(job(k)) /\ Fits(job(k), login_bonues, day)
    BY <1>1, InFlightSound DEF BonusInv
  <2> QED
    BY <1>1, <2>1, FitsStays
<1>3. InFlight' = InFlight /\ \A k \in InFlight : job(k)' = job(k)
  BY DEF InFlight, job
<1>4. \A k \in InFlight' : Fits(job(k)', login_bonues', day')
  BY <1>2, <1>3
<1>5. Quiet(v)
  <2>1. Unpaid(v)' = Unpaid(v) /\ (Marking(v) => Marking(v)')
    BY <1>3 DEF Unpaid, Marking
  <2>2. IsFiniteSet(Unpaid(v)) /\ Cardinality(Unpaid(v)) \in Nat
    BY <1>1, FS_CardinalityType DEF Balanced
  <2> QED
    BY <2>1, <2>2 DEF Quiet
<1>6. Kept(v)
  BY DEF Kept
<1> QED
  BY <1>1, <1>4, <1>5, <1>6, Steady

\* The messages' queries are nobody's.
LEMMA messages_workBalance ==
  ASSUME BonusInv, sys_msg_works, UNCHANGED <<day, bonuesVars>>, NEW v \in Users
  PROVE  (\A k \in InFlight' : Fits(job(k)', login_bonues', day')) /\ Balanced(v)'
<1>1. /\ TypesInv /\ SoundWork /\ UNCHANGED <<day, login_bonues, history>> /\ SysMsgTypes
      /\ day' \in Nat /\ day <= day' /\ Kept(v)
  BY DEF BonusInv, TypesInv, Days, bonuesVars, tables, Kept
<1>2. <<>> \in Contents /\ sys_msg \in Contents
  BY <1>1, SysMsgConstantsOK DEF SysMsgTypes
<1>3. CASE load_sys_msg
  <2>1. Query("get_sys_msg", 0, <<>>) \/ UNCHANGED database
    BY <1>3 DEF load_sys_msg
  <2>2. CASE Query("get_sys_msg", 0, <<>>)
    <3> DEFINE q == query("get_sys_msg", 0, <<>>)
               Q == {q}
    <3>1. Sound(q) /\ q.sql = "get_sys_msg"
      BY NewQuery DEF Statements
    <3>2. work' = With(Q, work) /\ \A p \in Q : p = q
      BY <2>2 DEF Query
    <3> HIDE DEF q, Q
    <3>3. q.sql \in Sqls /\ q.sql # "add_chip" /\ Fits(q, login_bonues, day)
      BY <3>1 DEF Sqls, Fits
    <3> QED
      BY <1>1, <3>1, <3>2, <3>3, MadeBalances
  <2>3. CASE UNCHANGED database
    BY <1>1, <2>3, IdleBalances DEF database
  <2> QED
    BY <2>1, <2>2, <2>3
<1>4. CASE select_sys_msg
  <2>1. PICK i \in InFlight :
          Queued(i, "get_sys_msg") /\ (query_work(i, sys_msg) \/ query_fails(i))
    BY <1>4 DEF select_sys_msg
  <2>2. i[1] = "get_sys_msg"
    BY <2>1 DEF Queued
  <2>3. PICK err : \E ret \in Contents : Execute(i, err, ret)
    BY <1>2, <2>1 DEF query_work, query_fails
  <2>4. PICK ret \in Contents : Execute(i, err, ret)
    BY <2>3
  <2>5. Sound(After(job(i), err, ret))
    <3>1. Sound(job(i)) /\ job(i).sql = i[1]
      BY <1>1, InFlightSound
    <3> QED
      BY <2>2, <3>1, SoundAfter
  <2> QED
    BY <1>1, <2>2, <2>4, <2>5, ExecutedBalances
<1>5. CASE on_get_sys_msg
  <2>1. PICK i \in InFlight : Ran(i, "get_sys_msg") /\ on_query_complete(i, {})
    BY <1>5 DEF on_get_sys_msg
  <2>2. i[1] = "get_sys_msg" /\ Leaves(i, {})
    BY <2>1 DEF Ran, on_query_complete, Leaves
  <2> QED
    BY <1>1, <2>2, LeftBalances
<1> QED
  BY <1>3, <1>4, <1>5 DEF sys_msg_works

LEMMA NextBalances ==
  ASSUME BonusInv, VersionNamesData, ~Impatient, [Next]_vars
  PROVE  BonusInv'
<1>1. TypesInv'
  BY NextTypes DEF BonusInv
<1>2. day \in Nat /\ day' \in Nat /\ \A v \in Users : asking[v] <= 1
  BY <1>1 DEF BonusInv, TypesInv, Days
<1>3. ASSUME NEW v \in Users
      PROVE  /\ asking'[v] <= 1
             /\ \A k \in InFlight' : Fits(job(k)', login_bonues', day')
             /\ Balanced(v)'
  <2>1. CASE works
    <3>1. CASE game_data_works
      <4>1. bonues_works /\ UNCHANGED day
        BY <3>1 DEF game_data_works
      <4> QED
        BY <4>1, WorksBalance
    <3>2. CASE messages_work
      <4>1. sys_msg_works /\ UNCHANGED <<day, bonuesVars>>
        BY <3>2 DEF messages_work
      <4>2. asking' = asking
        BY <4>1 DEF bonuesVars
      <4> QED
        BY <1>2, <4>1, <4>2, messages_workBalance
    <3> QED
      BY <2>1, <3>1, <3>2 DEF works
  <2>2. CASE asks /\ UNCHANGED <<day, sysMsgVars, part>>
    BY <2>2, asksBalance
  <2>3. CASE UNCHANGED <<work, bonuesVars>> /\ day <= day'
    <3>1. UNCHANGED <<work, login_bonues, history, asking>>
      BY <2>3 DEF bonuesVars, tables
    <3> QED
      BY <1>2, <2>3, <3>1, IdleBalances
  <2>4. \/ works \/ (asks /\ UNCHANGED <<day, sysMsgVars, part>>)
        \/ UNCHANGED <<work, bonuesVars>> /\ day <= day'
    <3>1. CASE (mysql_connect \/ redis_connect) /\ UNCHANGED <<day, bonuesVars, sysMsgVars, part>>
      BY <1>2, <3>1 DEF mysql_connect, redis_connect
    <3>2. CASE midnight /\ UNCHANGED <<database, bonuesVars, sysMsgVars, part>>
      BY <1>2, <3>2 DEF midnight, database
    <3>3. CASE (edit \/ get_sys_msg) /\ UNCHANGED <<day, bonuesVars, part>>
      BY <1>2, <3>3 DEF edit, get_sys_msg
    <3>4. CASE UNCHANGED vars
      BY <1>2, <3>4 DEF vars, database
    <3> QED
      BY <3>1, <3>2, <3>3, <3>4 DEF Next
  <2> QED
    BY <2>1, <2>2, <2>3, <2>4
<1>4. \A k \in InFlight' : Fits(job(k)', login_bonues', day')
  <2>1. CASE Users = {}
    <3>1. PICK S : work' \in Pool(Sqls, S) /\ \A q \in S : Sound(q)
      BY <1>1 DEF TypesInv, SoundWork
    <3>2. ASSUME NEW k \in InFlight'
          PROVE  Sound(job(k)')
      <4>1. k[1] \in Sqls /\ k[2] \in DOMAIN work'[k[1]]
        BY <3>1, <3>2, PoolPlaces DEF InFlight
      <4> QED
        BY <3>1, <4>1, PoolElements DEF job
    <3>3. \A q : Sound(q) => Fits(q, login_bonues', day')
      BY <2>1 DEF Sound, Fits, Statements
    <3> QED
      BY <3>2, <3>3
  <2> QED
    BY <1>3, <2>1
<1> QED
  BY <1>1, <1>3, <1>4 DEF BonusInv

\* A new server has granted and paid nothing.
LEMMA InitBalances ==
  ASSUME Init
  PROVE  BonusInv
<1>1. TypesInv
  BY InitTypes
<1>2. /\ day = 1 /\ work = [sql \in Sqls |-> <<>>]
      /\ asking = [u \in Users |-> 0]
      /\ history = [u \in Users |->
                      [granted |-> {}, paid |-> 0, unmarked |-> 0, doubt |-> "none"]]
  BY DEF Init, DatabaseInit, BonuesInit, Sqls
<1>3. InFlight = {}
  BY <1>2 DEF InFlight
<1>4. ASSUME NEW u \in Users
      PROVE  Balanced(u)
  <2>1. login_bonues[u] = <<>> \/ login_bonues[u] = <<NewBonus(0)>>
    BY DEF Init, BonuesInit
  <2>2. login_bonues[u] # <<>> => Head(login_bonues[u]).time = 0
    BY <2>1 DEF NewBonus
  <2>3. Claim(u) = 0
    BY <2>1 DEF Claim, Due, NewBonus
  <2>4. Unpaid(u) = {}
    BY <1>2 DEF Unpaid, Places
  <2>5. IsFiniteSet(Unpaid(u)) /\ Cardinality(Unpaid(u)) = 0
    BY <2>4, FS_EmptySet
  <2>6. /\ history[u].granted = {} /\ history[u].paid = 0 /\ history[u].unmarked = 0
        /\ Cardinality(history[u].granted) = 0
    BY <1>2, FS_EmptySet
  <2>7. history[u].paid + Cardinality(Unpaid(u)) + Claim(u)
          <= Cardinality(history[u].granted) + history[u].unmarked
    BY <2>3, <2>5, <2>6
  <2> QED
    BY <1>2, <2>2, <2>5, <2>6, <2>7 DEF Balanced
<1> QED
  BY <1>1, <1>2, <1>3, <1>4 DEF BonusInv

\* A patient user is paid a day's bonus once, or once more for every time the row could
\* not be marked, however its queries and midnight are ordered and whatever fails.
THEOREM PaysPerDay == Spec => []PaidPerDay
<1>1. CASE Impatient
  <2>1. PaidPerDay
    BY <1>1 DEF PaidPerDay
  <2> QED
    BY <2>1, PTL
<1>2. CASE ~Impatient
  <2>1. Init => BonusInv /\ VersionNamesData
    BY InitTypes, InitBalances
  <2>2. BonusInv /\ VersionNamesData /\ [Next]_vars => (BonusInv /\ VersionNamesData)'
    BY <1>2, NextTypes, NextBalances DEF BonusInv
  <2>3. BonusInv => PaidPerDay
    <3>1. SUFFICES ASSUME BonusInv, NEW u \in Users
                   PROVE  history[u].paid <= Cardinality(history[u].granted) + history[u].unmarked
      BY DEF PaidPerDay
    <3> DEFINE paid == history[u].paid
               gone == Cardinality(Unpaid(u))
               right == Cardinality(history[u].granted) + history[u].unmarked
    <3>2. TypesInv /\ IsFiniteSet(Unpaid(u)) /\ paid + gone + Claim(u) <= right
      BY <3>1 DEF BonusInv, Balanced
    <3>3. paid \in Nat /\ gone \in Nat /\ right \in Nat /\ Claim(u) \in 0 .. 1
      BY <3>2, Numbers
    <3> QED
      BY <3>2, <3>3
  <2> QED
    BY <2>1, <2>2, <2>3, PTL DEF Spec
<1> QED
  BY <1>1, <1>2

-----------------------------------------------------------------------------
(* The copy in Redis *)

\* A login's queries up to the one that ends it, and those that only settle a user's
\* chips, of which two go for the copy.
Beginning ==
  {"get_ugame_info", "insert_ugame_info", "get_bonues_info", "insert_bonues_info",
   "update_login_bonues"}
Copying == {"hgetall", "hmset"}
Settling == Copying \cup {"add_chip"}

\* What is in flight about a user's chips.
About(u) ==
  {job(i) : i \in {k \in InFlight : k[1] \in Beginning \cup Settling /\ job(k).uid = u}}

\* A query of get_ugameinfo, none of recv_login_bonues.
Checking(q) ==
  /\ q.sql \in Beginning
  /\ q.sql \in {"get_bonues_info", "insert_bonues_info"} => q.arg[1] = "check"

\* uchip is what the rows have.
Has(chips, uchip) == chips # <<>> /\ uchip = Head(chips)

\* uchip is what the rows have when queries A have been executed.
Settles(uchip, A, chips) ==
  /\ chips # <<>>
  /\ \A q \in A : q.sql = "add_chip" => uchip = Head(chips) + q.arg
  /\ (\A q \in A : q.sql # "add_chip") => uchip = Head(chips)

\* So is the copy with more chips, if there is one.
CopySettles(copy, more, A, chips) == copy # <<>> => Settles(Head(copy) + more, A, chips)

\* The chips that a query carries are those of the rows, or those to be.
Carries(q, A, chips, copy) ==
  /\ q.sql = "get_ugame_info" /\ q.ret # <<>> => Has(chips, Head(q.ret))
  /\ q.sql = "get_bonues_info" /\ q.arg[1] = "check" => Has(chips, q.arg[2])
  /\ q.sql = "insert_bonues_info" => Has(chips, q.arg[2])
  /\ q.sql = "update_login_bonues" => Has(chips, q.arg[1])
  /\ q.sql = "hmset" => Settles(q.arg, A, chips)
  /\ q.sql = "hgetall" => (q.ran => q.ret = copy) /\ CopySettles(copy, q.arg, A, chips)

\* Nothing settles while a login or a payment begins, every query carries the right
\* chips, and the copy, unless it is yet to be written, is right when all is settled.
Sure(A, chips, copy, doubt) ==
  /\ \A p, q \in A : p.sql \in Beginning => q.sql \notin Settling
  /\ \A q \in A : Carries(q, A, chips, copy)
  /\ doubt = "none" /\ (\A q \in A : q.sql \notin Copying) => CopySettles(copy, 0, A, chips)

\* At most one of these queries of a user is in flight.
Few(T, u) == IsFiniteSet(Places(work, T, u)) /\ Cardinality(Places(work, T, u)) <= 1

\* What is known of a user's copy: it is for Redis to have, a login under way will clear
\* a doubt, and without doubt it is sure.
Copied(u) ==
  /\ Len(cache[u]) <= 1 /\ (cache[u] # <<>> => redis_conn)
  /\ \A q \in About(u) : /\ q.sql \in Copying => redis_conn
                         /\ q.sql = "insert_bonues_info" => q.arg[1] = "check"
  /\ history[u].doubt = "repairing" => \E q \in About(u) : Checking(q)
  /\ history[u].doubt # "yes" =>
       /\ Few({"add_chip"}, u) /\ Few(Copying, u)
       /\ Sure(About(u), ugame[u], cache[u], history[u].doubt)

CopiesInv == BonusInv /\ \A u \in Users : Copied(u)

\* Queries that only begin leave a copy as sure as it was.
LEMMA SureBegins ==
  ASSUME NEW A, NEW chips, NEW copy, NEW doubt, NEW A2, NEW doubt2,
         \A r \in A : r.sql \notin Settling,
         \A r \in A2 : r.sql \in Beginning /\ Carries(r, A2, chips, copy),
         doubt2 = "none" => CopySettles(copy, 0, A, chips)
  PROVE  Sure(A2, chips, copy, doubt2)
<1>1. /\ \A r \in A2 : r.sql \notin Settling /\ r.sql \notin Copying /\ r.sql # "add_chip"
      /\ \A r \in A : r.sql # "add_chip"
  BY DEF Beginning, Settling, Copying
<1>2. doubt2 = "none" => CopySettles(copy, 0, A2, chips)
  BY <1>1 DEF CopySettles, Settles
<1> QED
  BY <1>1, <1>2 DEF Sure

\* The first row of a user stays first.
SameHead(chips, chips2) == chips # <<>> => chips2 # <<>> /\ Head(chips2) = Head(chips)

\* Queries A2 pay what queries A do.
SamePays(A, A2) ==
  /\ \A q \in A2 : q.sql = "add_chip" => \E p \in A : p.sql = "add_chip" /\ p.arg = q.arg
  /\ (\A q \in A2 : q.sql # "add_chip") => \A q \in A : q.sql # "add_chip"

LEMMA SettlesStill ==
  ASSUME NEW uchip, NEW A, NEW chips, Settles(uchip, A, chips),
         NEW A2, NEW chips2, SamePays(A, A2), SameHead(chips, chips2)
  PROVE  Settles(uchip, A2, chips2)
BY DEF Settles, SamePays, SameHead

LEMMA CarriesStill ==
  ASSUME NEW q, NEW A, NEW chips, NEW copy, Carries(q, A, chips, copy),
         NEW A2, NEW chips2, SamePays(A, A2), SameHead(chips, chips2)
  PROVE  Carries(q, A2, chips2, copy)
<1>1. \A uchip : Has(chips, uchip) => Has(chips2, uchip)
  BY DEF Has, SameHead
<1>2. \A uchip : Settles(uchip, A, chips) => Settles(uchip, A2, chips2)
  BY SettlesStill
<1>3. \A more : CopySettles(copy, more, A, chips) => CopySettles(copy, more, A2, chips2)
  BY <1>2 DEF CopySettles
<1> QED
  BY <1>1, <1>2, <1>3 DEF Carries

\* A query is executed.
LEMMA SureExecutes ==
  ASSUME NEW A, NEW chips, NEW copy, NEW doubt, Sure(A, chips, copy, doubt),
         NEW p \in A, NEW p2, p2.sql = p.sql, p2.arg = p.arg,
         NEW A2, p2 \in A2, A2 \subseteq A \cup {p2}, A \subseteq A2 \cup {p},
         NEW chips2, SameHead(chips, chips2), Carries(p2, A, chips2, copy)
  PROVE  Sure(A2, chips2, copy, doubt)
<1>1. SamePays(A, A2)
  BY DEF SamePays
<1>2. \A q \in A : Carries(q, A2, chips2, copy)
  BY <1>1, CarriesStill DEF Sure
<1>3. Carries(p2, A2, chips2, copy)
  BY <1>1, CarriesStill DEF SameHead
<1>4. \A q \in A2 : Carries(q, A2, chips2, copy)
  BY <1>2, <1>3
<1>5. \A q, r \in A2 : q.sql \in Beginning => r.sql \notin Settling
  BY DEF Sure
<1>6. doubt = "none" /\ (\A q \in A2 : q.sql \notin Copying) => CopySettles(copy, 0, A2, chips2)
  <2>1. (\A q \in A2 : q.sql \notin Copying) => \A q \in A : q.sql \notin Copying
    OBVIOUS
  <2> QED
    BY <1>1, <2>1, SettlesStill DEF Sure, CopySettles
<1> QED
  BY <1>4, <1>5, <1>6 DEF Sure

\* A payment is executed, the only one.
LEMMA SurePays ==
  ASSUME NEW A, NEW chips \in Seq(Nat), NEW copy, NEW doubt, Sure(A, chips, copy, doubt),
         NEW p \in A, p.sql = "add_chip", p.arg \in Nat,
         NEW A2, A2 \subseteq A, \A r \in A2 : r.sql # "add_chip",
         \A r \in A : r.sql # "add_chip" => r \in A2
  PROVE  Sure(A2, [k \in DOMAIN chips |-> chips[k] + p.arg], copy, doubt)
<1> DEFINE chips2 == [k \in DOMAIN chips |-> chips[k] + p.arg]
<1>1. chips # <<>> => chips2 # <<>> /\ Head(chips2) = Head(chips) + p.arg
  <2>1. chips # <<>> => 1 \in DOMAIN chips /\ Head(chips) = chips[1] /\ Head(chips) \in Nat
    BY EmptySeq
  <2>2. chips2 \in Seq(Nat) /\ DOMAIN chips2 = DOMAIN chips
    OBVIOUS
  <2>3. chips # <<>> => chips2[1] = chips[1] + p.arg
    BY <2>1
  <2> HIDE DEF chips2
  <2>4. chips # <<>> => chips2 # <<>>
    BY <2>1, <2>2
  <2>5. chips2 # <<>> => Head(chips2) = chips2[1]
    BY <2>2, HeadTailProperties
  <2> QED
    BY <2>1, <2>3, <2>4, <2>5
<1> HIDE DEF chips2
<1>2. ASSUME NEW uchip, Settles(uchip, A, chips)
      PROVE  Settles(uchip, A2, chips2)
  BY <1>1, <1>2 DEF Settles
<1>3. \A more : CopySettles(copy, more, A, chips) => CopySettles(copy, more, A2, chips2)
  BY <1>2 DEF CopySettles
<1>4. \A q \in A2 : q.sql \notin Beginning
  BY DEF Sure, Settling
<1>5. ASSUME NEW q \in A2
      PROVE  Carries(q, A2, chips2, copy)
  <2>1. Carries(q, A, chips, copy)
    BY DEF Sure
  <2> QED
    BY <1>2, <1>3, <1>4, <2>1 DEF Carries, Beginning
<1>6. (\A q \in A2 : q.sql \notin Copying) => \A q \in A : q.sql \notin Copying
  BY DEF Copying
<1>7. Sure(A2, chips2, copy, doubt)
  BY <1>3, <1>4, <1>5, <1>6 DEF Sure
<1> QED
  BY <1>7 DEF chips2

\* The copy is written, by the only query that was to.
LEMMA SureWrites ==
  ASSUME NEW A, NEW chips, NEW copy, NEW doubt, Sure(A, chips, copy, doubt),
         NEW p \in A, p.sql = "hmset", p.arg \in Nat,
         NEW A2, A2 \subseteq A, \A r \in A2 : r.sql \notin Copying,
         \A r \in A : r.sql \notin Copying => r \in A2
  PROVE  Sure(A2, chips, <<p.arg>>, doubt)
<1>1. SamePays(A, A2)
  BY DEF SamePays, Copying
<1>2. \A q \in A2 : q.sql \notin Beginning
  BY DEF Sure, Settling, Copying
<1>3. Settles(p.arg, A2, chips)
  <2>1. Settles(p.arg, A, chips)
    BY DEF Sure, Carries
  <2> QED
    BY <1>1, <2>1, SettlesStill DEF SameHead
<1>4. CopySettles(<<p.arg>>, 0, A2, chips)
  <2>1. Head(<<p.arg>>) + 0 = p.arg
    OBVIOUS
  <2> QED
    BY <1>3, <2>1 DEF CopySettles
<1>5. \A q \in A2 : Carries(q, A2, chips, <<p.arg>>)
  BY <1>2 DEF Carries, Beginning, Copying
<1> QED
  BY <1>2, <1>4, <1>5 DEF Sure

\* A payment into the copy has read it, and goes on to write it, if there is one.
LEMMA SureCopies ==
  ASSUME NEW A, NEW chips, NEW copy \in Seq(Nat), Len(copy) <= 1, NEW doubt,
         Sure(A, chips, copy, doubt),
         NEW p \in A, p.sql = "hgetall", p.ret = copy,
         NEW A2, \A r \in A : r.sql \notin Copying => r \in A2,
         \A r \in A2 : \/ r \in A /\ r.sql \notin Copying
                       \/ r.sql = "hmset" /\ \E uchip \in ToSet(copy) : r.arg = uchip + p.arg,
         copy # <<>> => \E r \in A2 : r.sql = "hmset"
  PROVE  Sure(A2, chips, copy, doubt)
<1>1. SamePays(A, A2)
  BY DEF SamePays, Copying
<1>2. \A q \in A2 : q.sql \notin Beginning
  <2>1. \A q \in A : q.sql \notin Beginning
    BY DEF Sure, Settling, Copying
  <2> QED
    BY <2>1 DEF Beginning
<1>3. CopySettles(copy, p.arg, A, chips)
  BY DEF Sure, Carries
<1>4. \A uchip \in ToSet(copy) : copy # <<>> /\ uchip = Head(copy)
  <2>1. ASSUME NEW uchip \in ToSet(copy)
        PROVE  copy # <<>> /\ uchip = Head(copy)
    <3>1. PICK k \in DOMAIN copy : uchip = copy[k]
      BY DEF ToSet
    <3>2. k = 1 /\ copy # <<>>
      BY <3>1
    <3> QED
      BY <3>1, <3>2, HeadTailProperties
  <2> QED
    BY <2>1
<1>5. ASSUME NEW r \in A2
      PROVE  Carries(r, A2, chips, copy)
  <2>1. CASE r \in A
    <3>1. Carries(r, A, chips, copy)
      BY <2>1 DEF Sure
    <3> QED
      BY <1>1, <3>1, CarriesStill DEF SameHead
  <2>2. CASE r.sql = "hmset" /\ \E uchip \in ToSet(copy) : r.arg = uchip + p.arg
    <3>1. Settles(r.arg, A, chips)
      BY <1>3, <1>4, <2>2 DEF CopySettles
    <3>2. Settles(r.arg, A2, chips)
      BY <1>1, <3>1, SettlesStill DEF SameHead
    <3> QED
      BY <2>2, <3>2 DEF Carries
  <2> QED
    BY <2>1, <2>2
<1>6. (\A q \in A2 : q.sql \notin Copying) => CopySettles(copy, 0, A2, chips)
  BY DEF Copying, CopySettles
<1> QED
  BY <1>2, <1>5, <1>6 DEF Sure

\* A login ends: its chips are written, if Redis is there.
LEMMA SureEnds ==
  ASSUME NEW chips, NEW copy, NEW uchip, Has(chips, uchip),
         NEW A2, \A r \in A2 : r.sql = "hmset" /\ r.arg = uchip,
         copy # <<>> => A2 # {}, NEW doubt
  PROVE  Sure(A2, chips, copy, doubt)
<1>1. \A r \in A2 : r.sql \notin Beginning /\ r.sql # "add_chip" /\ r.sql \in Copying
  BY DEF Beginning, Copying
<1>2. Settles(uchip, A2, chips)
  BY <1>1 DEF Settles, Has
<1>3. \A r \in A2 : Carries(r, A2, chips, copy)
  BY <1>2 DEF Carries
<1>4. (\A r \in A2 : r.sql \notin Copying) => CopySettles(copy, 0, A2, chips)
  BY <1>1 DEF CopySettles
<1> QED
  BY <1>1, <1>3, <1>4 DEF Sure

\* A payment begins, in MySQL and, if Redis is there, in the copy.
LEMMA SurePayment ==
  ASSUME NEW A, NEW chips \in Seq(Nat), NEW copy \in Seq(Nat), CopySettles(copy, 0, A, chips),
         \A r \in A : r.sql # "add_chip", NEW bonues \in Nat,
         NEW A2, \A r \in A2 : /\ r.sql \in {"add_chip", "hgetall"} /\ r.arg = bonues
                               /\ r.sql = "hgetall" => ~r.ran,
         \E r \in A2 : r.sql = "add_chip",
         copy # <<>> => \E r \in A2 : r.sql = "hgetall", NEW doubt
  PROVE  Sure(A2, chips, copy, doubt)
<1>1. \A r \in A2 : r.sql \notin Beginning
  BY DEF Beginning
<1>2. CopySettles(copy, bonues, A2, chips)
  <2>1. SUFFICES ASSUME copy # <<>>
                 PROVE  Settles(Head(copy) + bonues, A2, chips)
    BY DEF CopySettles
  <2>2. Head(copy) \in Nat
    BY <2>1, HeadTailProperties
  <2>3. chips # <<>> /\ Head(copy) = Head(chips)
    BY <2>1, <2>2 DEF CopySettles, Settles
  <2> QED
    BY <2>3 DEF Settles
<1>3. \A r \in A2 : Carries(r, A2, chips, copy)
  BY <1>2 DEF Carries
<1>4. (\A r \in A2 : r.sql \notin Copying) => CopySettles(copy, 0, A2, chips)
  BY DEF CopySettles, Copying
<1> QED
  BY <1>1, <1>3, <1>4 DEF Sure

\* There is one place where there is one at most.
LEMMA OneOf ==
  ASSUME NEW P, IsFiniteSet(P), Cardinality(P) <= 1, NEW i \in P, NEW k \in P
  PROVE  i = k
<1>1. Cardinality(P) \in Nat
  BY FS_CardinalityType
<1>2. IsFiniteSet(P \ {i}) /\ Cardinality(P \ {i}) = Cardinality(P) - 1
  BY FS_RemoveElement
<1>3. Cardinality(P \ {i}) \in Nat
  BY <1>2, FS_CardinalityType
<1>4. Cardinality(P \ {i}) = 0
  BY <1>1, <1>2, <1>3
<1>5. P \ {i} = {}
  BY <1>2, <1>4, FS_EmptySet
<1> QED
  BY <1>5

\* What is in flight about a user's chips, before a step and after it.
LEMMA AboutIs ==
  ASSUME SoundWork, NEW u, NEW q \in About(u)
  PROVE  \E k \in InFlight : /\ q = job(k) /\ q.sql = k[1] /\ q.uid = u /\ Sound(q)
                             /\ q.sql \in Beginning \cup Settling
<1>1. PICK k \in InFlight : /\ q = job(k) /\ k[1] \in Beginning \cup Settling /\ job(k).uid = u
  BY DEF About
<1> QED
  BY <1>1, InFlightSound

LEMMA AboutNext ==
  ASSUME SoundWork', NEW u, NEW q \in About(u)'
  PROVE  \E k \in InFlight' : /\ q = job(k)' /\ q.sql = k[1] /\ q.uid = u /\ Sound(q)
                              /\ q.sql \in Beginning \cup Settling
<1>1. PICK k \in InFlight' : /\ q = job(k)' /\ k[1] \in Beginning \cup Settling /\ job(k)'.uid = u
  BY DEF About
<1>2. PICK S : work' \in Pool(Sqls, S) /\ \A p \in S : Sound(p)
  BY DEF SoundWork
<1>3. k[1] \in Sqls /\ k[2] \in DOMAIN work'[k[1]]
  BY <1>1, <1>2, PoolPlaces DEF InFlight
<1>4. job(k)' = work'[k[1]][k[2]]
  BY DEF job
<1>5. Sound(job(k)') /\ job(k)'.sql = k[1]
  BY <1>2, <1>3, <1>4, PoolElements
<1> QED
  BY <1>1, <1>5

\* A patient user has one query at most that begins something.
LEMMA BeginsAlone ==
  ASSUME BonusInv, NEW i \in InFlight, NEW u, job(i).uid = u, i[1] \in Answering,
         NEW q \in About(u), q.sql \in Beginning
  PROVE  q = job(i)
<1>1. SoundWork
  BY DEF BonusInv, TypesInv
<1>2. PICK k \in InFlight : q = job(k) /\ q.sql = k[1] /\ q.uid = u
  BY <1>1, AboutIs
<1>3. k[1] \in Answering
  BY <1>2 DEF Beginning, Answering
<1> QED
  BY <1>2, <1>3, OneAtATime

LEMMA BeginsNext ==
  ASSUME BonusInv', NEW u \in Users, NEW q \in About(u)', q.sql \in Beginning
  PROVE  /\ asking'[u] # 0
         /\ \A j \in InFlight' : j[1] \in Answering /\ job(j)'.uid = u => q = job(j)'
<1>1. SoundWork' /\ AskingCounts' /\ asking'[u] <= 1
  BY DEF BonusInv, TypesInv
<1> DEFINE P == Places(work', Answering, u)
<1>2. IsFiniteSet(P) /\ Cardinality(P) = asking'[u]
  BY <1>1 DEF AskingCounts, Counted
<1>3. P = {j \in InFlight' : j[1] \in Answering /\ job(j)'.uid = u}
  BY DEF Places, InFlight, job
<1> HIDE DEF P
<1>4. PICK k \in InFlight' : q = job(k)' /\ q.sql = k[1] /\ q.uid = u
  BY <1>1, AboutNext
<1>5. k \in P
  BY <1>3, <1>4 DEF Beginning, Answering
<1>6. asking'[u] # 0
  BY <1>2, <1>5, FS_EmptySet
<1>7. \A j \in P : j = k
  BY <1>1, <1>2, <1>5, OneOf
<1> QED
  BY <1>3, <1>4, <1>6, <1>7

\* What is in flight is nothing but what was, and what the handler makes.
LEMMA AboutGrows ==
  ASSUME SoundWork, NEW i \in InFlight, NEW Q, Leaves(i, Q), NEW u,
         \A q \in Q : Sound(q) /\ q.sql \in Sqls
  PROVE  /\ \A r \in About(u)' : r \in About(u) \/ (r \in Q /\ r.uid = u)
         /\ job(i).uid # u \/ i[1] \notin Beginning \cup Settling => About(u) \subseteq About(u)'
<1>1. /\ \A k \in InFlight' :
           \/ job(k)' \in Q /\ job(k)'.sql = k[1]
           \/ \E j \in InFlight : j # i /\ j[1] = k[1] /\ job(k)' = job(j)
      /\ \A j \in InFlight : j # i => \E k \in InFlight' : k[1] = j[1] /\ job(k)' = job(j)
  BY Completes
<1> DEFINE T == Beginning \cup Settling
<1>2. /\ \A r : r \in About(u)' <=> \E k \in InFlight' : k[1] \in T /\ job(k)'.uid = u /\ r = job(k)'
      /\ \A r : r \in About(u) <=> \E k \in InFlight : k[1] \in T /\ job(k).uid = u /\ r = job(k)
  BY DEF About
<1> HIDE DEF T
<1>3. \A r \in About(u)' : r \in About(u) \/ (r \in Q /\ r.uid = u)
  BY <1>1, <1>2
<1>4. job(i).uid # u \/ i[1] \notin T => About(u) \subseteq About(u)'
  BY <1>1, <1>2
<1> QED
  BY <1>3, <1>4 DEF T

\* A query is over, and its handler makes others, one of a statement.
LEMMA AboutCompletes ==
  ASSUME SoundWork, NEW i \in InFlight, NEW Q, Leaves(i, Q), NEW u,
         \A q \in Q : Sound(q) /\ q.sql \in Sqls, \A p, q \in Q : p.sql = q.sql => p = q
  PROVE  /\ \A r \in About(u)' : r \in About(u) \/ (r \in Q /\ r.uid = u)
         /\ \A q \in Q : q.uid = u /\ q.sql \in Beginning \cup Settling => q \in About(u)'
         /\ \A r \in About(u) : r \in About(u)' \/ (r = job(i) /\ r.sql = i[1])
<1>1. /\ \A j \in InFlight : j # i => \E k \in InFlight' : k[1] = j[1] /\ job(k)' = job(j)
      /\ \A q \in Q : \E k \in InFlight' : k[1] = q.sql /\ job(k)' = q
  BY Completes
<1> DEFINE T == Beginning \cup Settling
<1>2. /\ \A r : r \in About(u)' <=> \E k \in InFlight' : k[1] \in T /\ job(k)'.uid = u /\ r = job(k)'
      /\ \A r : r \in About(u) <=> \E k \in InFlight : k[1] \in T /\ job(k).uid = u /\ r = job(k)
  BY DEF About
<1>3. \A k \in InFlight : job(k).sql = k[1]
  BY InFlightSound
<1> HIDE DEF T
<1>4. \A q \in Q : q.uid = u /\ q.sql \in T => q \in About(u)'
  BY <1>1, <1>2
<1>5. \A j \in InFlight : j # i /\ j[1] \in T /\ job(j).uid = u => job(j) \in About(u)'
  BY <1>1, <1>2
<1>6. \A r \in About(u) : r \in About(u)' \/ (r = job(i) /\ r.sql = i[1])
  BY <1>2, <1>3, <1>5
<1> QED
  BY <1>4, <1>6, AboutGrows DEF T

\* A query is executed.
LEMMA AboutExecutes ==
  ASSUME SoundWork, NEW i \in InFlight, NEW err, NEW ret, Execute(i, err, ret),
         Sound(After(job(i), err, ret)), NEW u
  PROVE  /\ job(i).uid # u \/ i[1] \notin Beginning \cup Settling => About(u)' = About(u)
         /\ job(i).uid = u /\ i[1] \in Beginning \cup Settling =>
              /\ job(i) \in About(u) /\ After(job(i), err, ret) \in About(u)'
              /\ About(u)' \subseteq About(u) \cup {After(job(i), err, ret)}
              /\ About(u) \subseteq About(u)' \cup {job(i)}
<1> DEFINE T == Beginning \cup Settling
           p == After(job(i), err, ret)
<1>1. /\ InFlight' = InFlight /\ job(i)' = p
      /\ \A k \in InFlight : k # i => job(k)' = job(k)
  BY Executes
<1>2. p.uid = job(i).uid
  <2>1. Sound(job(i)) /\ p = After(job(i), err, ret)
    BY InFlightSound
  <2> HIDE DEF p
  <2> QED
    BY <2>1, AfterIs
<1>3. /\ \A r : r \in About(u)' <=> \E k \in InFlight' : k[1] \in T /\ job(k)'.uid = u /\ r = job(k)'
      /\ \A r : r \in About(u) <=> \E k \in InFlight : k[1] \in T /\ job(k).uid = u /\ r = job(k)
  BY DEF About
<1> HIDE DEF T, p
<1>4. ASSUME job(i).uid # u \/ i[1] \notin T
      PROVE  About(u)' = About(u)
  <2>1. \A k \in InFlight : k[1] \in T /\ job(k).uid = u => k # i
    BY <1>4
  <2>2. \A k \in InFlight : k[1] \in T /\ job(k)'.uid = u => k # i
    BY <1>1, <1>2, <1>4
  <2>3. \A r : r \in About(u)' <=> r \in About(u)
    BY <1>1, <1>3, <2>1, <2>2
  <2> QED
    BY <2>3
<1>5. job(i).uid = u /\ i[1] \in T =>
        /\ job(i) \in About(u) /\ p \in About(u)'
        /\ About(u)' \subseteq About(u) \cup {p} /\ About(u) \subseteq About(u)' \cup {job(i)}
  BY <1>1, <1>2, <1>3
<1> QED
  BY <1>4, <1>5 DEF T, p

\* A query is made.
LEMMA AboutMakes ==
  ASSUME SoundWork, NEW q, Sound(q), q.sql \in Sqls, work' = With({q}, work), NEW u
  PROVE  /\ q.uid # u \/ q.sql \notin Beginning \cup Settling => About(u)' = About(u)
         /\ q.uid = u /\ q.sql \in Beginning \cup Settling => About(u)' = About(u) \cup {q}
<1> DEFINE T == Beginning \cup Settling
           Q == {q}
<1>1. work' = With(Q, work) /\ \A p : p \in Q <=> p = q
  OBVIOUS
<1> HIDE DEF Q
<1>2. /\ \A k \in InFlight : k \in InFlight' /\ job(k)' = job(k)
      /\ \A k \in InFlight' : k \in InFlight \/ (job(k)' \in Q /\ job(k)'.sql = k[1])
  BY <1>1, Makes
<1>3. \E k \in InFlight' : k[1] = q.sql /\ job(k)' = q
  <2>1. PICK S : work \in Pool(Sqls, S) /\ \A p \in S : Sound(p)
    BY DEF SoundWork
  <2> DEFINE U == S \cup Q
  <2>2. work \in Pool(Sqls, U) /\ Q \in SUBSET U /\ work' = More(Q, work)
    BY <1>1, <2>1, PoolGrows DEF With, More
  <2> HIDE DEF U
  <2>3. work' \in Pool(Sqls, U)
    BY <2>2, PoolMore
  <2>4. PICK sql \in Sqls : sql = q.sql
    OBVIOUS
  <2>5. \A m \in DOMAIN work'[sql] : m \in DOMAIN work[sql] \/ work'[sql][m] \in Q
    BY <2>2, MoreElements
  <2>6. \E m : m \in DOMAIN work'[sql] /\ m \notin DOMAIN work[sql]
    BY <1>1, <2>2, <2>4, MoreElements
  <2>7. PICK m \in DOMAIN work'[sql] : work'[sql][m] = q
    BY <1>1, <2>5, <2>6
  <2>8. <<sql, m>> \in InFlight' /\ job(<<sql, m>>)' = work'[sql][m]
    BY <2>3, <2>7, PoolPlaces DEF InFlight, job
  <2> QED
    BY <2>4, <2>7, <2>8
<1>4. /\ \A r : r \in About(u)' <=> \E k \in InFlight' : k[1] \in T /\ job(k)'.uid = u /\ r = job(k)'
      /\ \A r : r \in About(u) <=> \E k \in InFlight : k[1] \in T /\ job(k).uid = u /\ r = job(k)
  BY DEF About
<1> HIDE DEF T
<1>5. \A r \in About(u) : r \in About(u)'
  BY <1>2, <1>4
<1>6. \A r \in About(u)' : r \in About(u) \/ (r = q /\ q.sql \in T /\ q.uid = u)
  BY <1>1, <1>2, <1>4
<1>7. q.uid = u /\ q.sql \in T => q \in About(u)'
  BY <1>3, <1>4
<1> QED
  BY <1>5, <1>6, <1>7 DEF T

\* How many of some queries of a user are in flight when one query is over.
LEMMA FewCompletes ==
  ASSUME SoundWork, NEW i \in InFlight, NEW Q, Leaves(i, Q), NEW u,
         \A q \in Q : Sound(q) /\ q.sql \in Sqls, \A p, q \in Q : p.sql = q.sql => p = q,
         NEW T, T \subseteq Beginning \cup Settling, Few(T, u),
         \A p, q \in Q : p.sql \in T /\ q.sql \in T => p = q,
         (\E q \in Q : q.sql \in T /\ q.uid = u) =>
           (i[1] \in T /\ job(i).uid = u) \/ \A r \in About(u) : r.sql \notin T
  PROVE  /\ Few(T, u)'
         /\ i[1] \in T /\ job(i).uid = u /\ (\A q \in Q : ~ (q.sql \in T /\ q.uid = u)) =>
              \A r \in About(u)' : r.sql \notin T
<1> DEFINE P == Places(work, T, u)
           P2 == Places(work', T, u)
           gone == IF i[1] \in T /\ job(i).uid = u THEN 1 ELSE 0
           left == Cardinality(P) - gone
<1>1. IsFiniteSet(P) /\ Cardinality(P) <= 1 /\ Cardinality(P) \in Nat
  BY FS_CardinalityType DEF Few
<1>2. /\ (\A q \in Q : ~ (q.sql \in T /\ q.uid = u)) => IsFiniteSet(P2) /\ Cardinality(P2) = left
      /\ \A q \in Q :
           /\ q.sql \in T /\ q.uid = u
           /\ \A p \in Q : (p.sql \in T /\ p.uid = u) \/ p.sql = q.sql => p = q
           => IsFiniteSet(P2) /\ Cardinality(P2) = left + 1
  BY <1>1, Completes
<1>3. P = {k \in InFlight : k[1] \in T /\ job(k).uid = u}
  BY DEF Places, InFlight, job
<1>4. P2 = {k \in InFlight' : k[1] \in T /\ job(k)'.uid = u}
  BY DEF Places, InFlight, job
<1>5. /\ left = Cardinality(P) - gone
      /\ i[1] \in T /\ job(i).uid = u => gone = 1
      /\ ~ (i[1] \in T /\ job(i).uid = u) => gone = 0
  OBVIOUS
<1>6. IsFiniteSet(P2) => Cardinality(P2) \in Nat
  BY FS_CardinalityType
<1>7. Few(T, u)' <=> IsFiniteSet(P2) /\ Cardinality(P2) <= 1
  BY DEF Few
<1> HIDE DEF P, P2, gone, left
<1>8. CASE \A q \in Q : ~ (q.sql \in T /\ q.uid = u)
  <2>1. IsFiniteSet(P2) /\ Cardinality(P2) = left
    BY <1>2, <1>8
  <2>2. Few(T, u)'
    BY <1>1, <1>5, <1>7, <2>1
  <2>3. ASSUME i[1] \in T /\ job(i).uid = u, NEW r \in About(u)', r.sql \in T
        PROVE  FALSE
    <3>1. Cardinality(P2) = 0
      BY <1>1, <1>5, <1>6, <2>1, <2>3
    <3>2. SoundWork'
      BY Completes
    <3>3. \E k \in InFlight' : r = job(k)' /\ r.sql = k[1] /\ r.uid = u
      BY <2>3, <3>2, AboutNext
    <3>4. P2 # {}
      BY <1>4, <2>3, <3>3
    <3> QED
      BY <2>1, <3>1, <3>4, FS_EmptySet
  <2> QED
    BY <2>2, <2>3
<1>9. CASE \E q \in Q : q.sql \in T /\ q.uid = u
  <2>1. PICK q \in Q : q.sql \in T /\ q.uid = u
    BY <1>9
  <2>2. IsFiniteSet(P2) /\ Cardinality(P2) = left + 1
    BY <1>2, <2>1
  <2>3. left = 0
    <3>1. CASE i[1] \in T /\ job(i).uid = u
      <4>1. P # {}
        BY <1>3, <3>1
      <4>2. Cardinality(P) = 1
        BY <1>1, <4>1, FS_EmptySet
      <4> QED
        BY <1>5, <3>1, <4>2
    <3>2. CASE ~ (i[1] \in T /\ job(i).uid = u)
      <4>1. \A r \in About(u) : r.sql \notin T
        BY <1>9, <3>2
      <4>2. \A k \in P : job(k) \in About(u) /\ job(k).sql = k[1]
        BY <1>3, InFlightSound DEF About
      <4>3. P = {}
        BY <1>3, <4>1, <4>2
      <4>4. Cardinality(P) = 0
        BY <4>3, FS_EmptySet
      <4>5. gone = 0
        BY <1>5, <3>2
      <4> QED
        BY <1>5, <4>4, <4>5
    <3> QED
      BY <3>1, <3>2
  <2> QED
    BY <1>7, <1>9, <2>2, <2>3
<1> QED
  BY <1>8, <1>9

\* A query is over, and its handler makes none of these.
LEMMA FewStay ==
  ASSUME SoundWork, NEW i \in InFlight, NEW Q, Leaves(i, Q), NEW u,
         \A q \in Q : Sound(q) /\ q.sql \in Sqls,
         NEW T, Few(T, u), \A q \in Q : q.sql \notin T
  PROVE  Few(T, u)'
<1> DEFINE gone == IF i[1] \in T /\ job(i).uid = u THEN 1 ELSE 0
<1>1. IsFiniteSet(Places(work, T, u)) /\ Cardinality(Places(work, T, u)) <= 1
  BY DEF Few
<1>2. Cardinality(Places(work, T, u)) \in Nat
  BY <1>1, FS_CardinalityType
<1>3. /\ IsFiniteSet(Places(work', T, u))
      /\ Cardinality(Places(work', T, u)) = Cardinality(Places(work, T, u)) - gone
  BY <1>1, Completes
<1>4. gone \in 0 .. 1
  OBVIOUS
<1> HIDE DEF gone
<1> QED
  BY <1>1, <1>2, <1>3, <1>4 DEF Few

\* A user whose chips a step does not concern.
Untouched(v) ==
  /\ ugame'[v] = ugame[v] /\ cache'[v] = cache[v] /\ history'[v].doubt = history[v].doubt
  /\ redis_conn => redis_conn'

LEMMA CopiedStays ==
  ASSUME NEW v, Copied(v), Untouched(v), About(v)' = About(v),
         Few({"add_chip"}, v) => Few({"add_chip"}, v)', Few(Copying, v) => Few(Copying, v)'
  PROVE  Copied(v)'
<1>1. (Len(cache[v]) <= 1)'
  BY DEF Copied, Untouched
<1>2. (cache[v] # <<>> => redis_conn)'
  BY DEF Copied, Untouched
<1>3. (\A q \in About(v) : /\ q.sql \in Copying => redis_conn
                           /\ q.sql = "insert_bonues_info" => q.arg[1] = "check")'
  BY DEF Copied, Untouched
<1>4. (history[v].doubt = "repairing" => \E q \in About(v) : Checking(q))'
  BY DEF Copied, Untouched
<1>5. (history[v].doubt # "yes" =>
         /\ Few({"add_chip"}, v) /\ Few(Copying, v)
         /\ Sure(About(v), ugame[v], cache[v], history[v].doubt))'
  BY DEF Copied, Untouched
<1> QED
  BY <1>1, <1>2, <1>3, <1>4, <1>5 DEF Copied

LEMMA CompletesAside ==
  ASSUME SoundWork, NEW i \in InFlight, NEW Q, Leaves(i, Q), NEW v,
         \A q \in Q : Sound(q) /\ q.sql \in Sqls,
         job(i).uid # v \/ i[1] \notin Beginning \cup Settling,
         \A q \in Q : q.uid # v \/ q.sql \notin Beginning \cup Settling,
         Copied(v), Untouched(v)
  PROVE  Copied(v)'
<1>1. About(v)' = About(v)
  <2>1. \A r \in About(v)' : r \in About(v) \/ (r \in Q /\ r.uid = v)
    BY AboutGrows
  <2>2. About(v) \subseteq About(v)'
    BY AboutGrows
  <2>3. SoundWork'
    BY Completes
  <2>4. \A r \in About(v)' : r.sql \in Beginning \cup Settling
    BY <2>3, AboutNext
  <2> QED
    BY <2>1, <2>2, <2>4
<1>2. ASSUME NEW T, T \subseteq Beginning \cup Settling, Few(T, v)
      PROVE  Few(T, v)'
  <2>1. IsFiniteSet(Places(work, T, v)) /\ Cardinality(Places(work, T, v)) <= 1
    BY <1>2 DEF Few
  <2>2. Cardinality(Places(work, T, v)) \in Nat
    BY <2>1, FS_CardinalityType
  <2>3. \A q \in Q : ~ (q.sql \in T /\ q.uid = v)
    BY <1>2
  <2>4. ~ (i[1] \in T /\ job(i).uid = v)
    BY <1>2
  <2>5. /\ IsFiniteSet(Places(work', T, v))
        /\ Cardinality(Places(work', T, v)) = Cardinality(Places(work, T, v)) - 0
    BY <2>1, <2>3, <2>4, Completes
  <2> QED
    BY <2>1, <2>2, <2>5 DEF Few
<1>3. {"add_chip"} \subseteq Beginning \cup Settling /\ Copying \subseteq Beginning \cup Settling
  BY DEF Settling
<1> QED
  BY <1>1, <1>2, <1>3, CopiedStays

LEMMA ExecutesAside ==
  ASSUME SoundWork, NEW i \in InFlight, NEW err, NEW ret, Execute(i, err, ret),
         Sound(After(job(i), err, ret)), NEW v,
         job(i).uid # v \/ i[1] \notin Beginning \cup Settling,
         Copied(v), Untouched(v)
  PROVE  Copied(v)'
<1>1. About(v)' = About(v)
  BY AboutExecutes
<1>2. \A T : Places(work', T, v) = Places(work, T, v)
  BY Executes
<1> QED
  BY <1>1, <1>2, CopiedStays DEF Few

LEMMA MakesAside ==
  ASSUME SoundWork, NEW q, Sound(q), q.sql \in Sqls, work' = With({q}, work), NEW v,
         q.uid # v \/ q.sql \notin Beginning \cup Settling,
         Copied(v), Untouched(v)
  PROVE  Copied(v)'
<1>1. About(v)' = About(v)
  BY AboutMakes
<1>2. ASSUME NEW T, T \subseteq Beginning \cup Settling
      PROVE  Places(work', T, v) = Places(work, T, v)
  BY <1>2, Makes
<1>3. {"add_chip"} \subseteq Beginning \cup Settling /\ Copying \subseteq Beginning \cup Settling
  BY DEF Settling
<1> QED
  BY <1>1, <1>2, <1>3, CopiedStays DEF Few

\* A login goes on.
LEMMA LoginGoesOn ==
  ASSUME CopiesInv, BonusInv', NEW i \in InFlight, NEW u \in Users, job(i).uid = u,
         i[1] \in Beginning, NEW q, Sound(q), q.uid = u, q.sql \in Beginning, GoOn(i, {q}),
         UNCHANGED <<ugame, cache, redis_conn>>,
         history[u].doubt # "yes" => \A A : Carries(q, A, ugame[u], cache[u]),
         Checking(job(i)) => Checking(q), q.sql = "insert_bonues_info" => q.arg[1] = "check"
  PROVE  Copied(u)'
<1> DEFINE A == About(u)
           A2 == About(u)'
           Q == {q}
<1>1. /\ BonusInv /\ SoundWork /\ SoundWork' /\ Copied(u)
      /\ job(i).sql = i[1] /\ i[1] \in Answering
      /\ history' = history
  BY InFlightSound DEF CopiesInv, BonusInv, TypesInv, Beginning, Answering, GoOn
<1>2. Leaves(i, Q) /\ (\A p : p \in Q <=> p = q) /\ q.sql \in Sqls
  BY DEF GoOn, on_query_complete, Leaves, Sqls, Statements, Beginning
<1> HIDE DEF Q
<1>3. /\ \A r \in A2 : r \in A \/ r = q
      /\ q \in A2
  BY <1>1, <1>2, AboutCompletes
<1>4. job(i) \in A
  BY <1>1 DEF About
<1>5. ASSUME NEW r \in A2, r.sql \in Beginning
      PROVE  r = q
  <2>1. PICK k \in InFlight' : q = job(k)' /\ q.sql = k[1] /\ q.uid = u
    BY <1>1, <1>3, AboutNext
  <2>2. k[1] \in Answering
    BY <2>1 DEF Beginning, Answering
  <2> QED
    BY <1>5, <2>1, <2>2, BeginsNext
<1> HIDE DEF A, A2
<1>6. /\ Len(cache'[u]) <= 1 /\ (cache'[u] # <<>> => redis_conn')
      /\ \A r \in A2 : /\ r.sql \in Copying => redis_conn'
                       /\ r.sql = "insert_bonues_info" => r.arg[1] = "check"
  BY <1>1, <1>3 DEF Copied, A, Beginning, Copying
<1>7. history'[u].doubt = "repairing" => \E r \in A2 : Checking(r)
  <2>1. SUFFICES ASSUME history[u].doubt = "repairing"
                 PROVE  \E r \in A2 : Checking(r)
    BY <1>1
  <2>2. PICK p \in A : Checking(p)
    BY <1>1, <2>1 DEF Copied, A
  <2>3. p = job(i)
    BY <1>1, <2>2, BeginsAlone DEF A, Checking
  <2> QED
    BY <1>3, <2>2, <2>3
<1>8. ASSUME history[u].doubt # "yes"
      PROVE  /\ Few({"add_chip"}, u)' /\ Few(Copying, u)'
             /\ Sure(A2, ugame[u], cache[u], history[u].doubt)
  <2>1. /\ Few({"add_chip"}, u) /\ Few(Copying, u)
        /\ Sure(A, ugame[u], cache[u], history[u].doubt)
    BY <1>1, <1>8 DEF Copied, A
  <2>2. \A r \in A : r.sql \notin Settling
    BY <1>1, <1>4, <2>1 DEF Sure
  <2>3. \A r \in A2 : r.sql \notin Settling
    BY <1>3, <2>2 DEF Beginning, Settling, Copying
  <2>4. \A r \in A2 : r.sql \in Beginning
    BY <1>1, <2>3, AboutNext DEF A2
  <2>5. \A r \in A2 : Carries(r, A2, ugame[u], cache[u])
    BY <1>5, <1>8, <2>4
  <2>6. history[u].doubt = "none" => CopySettles(cache[u], 0, A, ugame[u])
    BY <2>1, <2>2 DEF Sure, Settling
  <2>7. Sure(A2, ugame[u], cache[u], history[u].doubt)
    BY <2>2, <2>4, <2>5, <2>6, SureBegins
  <2>8. ASSUME NEW T \in {{"add_chip"}, Copying}
        PROVE  Few(T, u)'
    <3>1. Few(T, u) /\ \A p \in Q : Sound(p) /\ p.sql \in Sqls /\ p.sql \notin T
      BY <1>2, <2>1 DEF Copying, Beginning
    <3> QED
      BY <1>1, <1>2, <3>1, FewStay
  <2> QED
    BY <2>7, <2>8
<1> QED
  BY <1>1, <1>6, <1>7, <1>8 DEF Copied, A2

\* A request is refused.
LEMMA RefusalCopies ==
  ASSUME CopiesInv, BonusInv', NEW i \in InFlight, NEW u \in Users, job(i).uid = u,
         i[1] \in Answering, Refuse(i, u), UNCHANGED <<ugame, cache, redis_conn>>
  PROVE  Copied(u)'
<1> DEFINE A == About(u)
           A2 == About(u)'
           Q == {}
<1>1. /\ BonusInv /\ TypesInv /\ SoundWork /\ SoundWork' /\ Copied(u)
      /\ job(i).sql = i[1] /\ GameTypes
  BY InFlightSound DEF CopiesInv, BonusInv, TypesInv
<1>2. Leaves(i, Q) /\ Q = {}
  BY DEF Refuse, on_query_complete, Leaves
<1> HIDE DEF Q
<1>3. /\ A2 \subseteq A
      /\ i[1] \notin Beginning \cup Settling => A \subseteq A2
  BY <1>1, <1>2, AboutGrows
<1>4. \A r \in A2 : r.sql \notin Beginning
  <2>1. asking'[u] = 0
    <3>1. asking \in [Users -> Nat] /\ asking[u] <= 1 /\ asking'[u] \in Nat
      BY <1>1 DEF BonusInv, TypesInv, AskingCounts
    <3>2. asking'[u] = asking[u] - 1
      BY <3>1 DEF Refuse, Answered
    <3> QED
      BY <3>1, <3>2
  <2> QED
    BY <2>1, BeginsNext
<1>5. /\ history[u].doubt = "repairing" => history'[u].doubt = "yes"
      /\ history[u].doubt # "repairing" => history'[u].doubt = history[u].doubt
  <2>1. history \in [Users -> History]
    BY <1>1 DEF GameTypes
  <2> QED
    BY <2>1 DEF Refuse, Doubt, History
<1> HIDE DEF A, A2
<1>6. /\ Len(cache'[u]) <= 1 /\ (cache'[u] # <<>> => redis_conn')
      /\ \A r \in A2 : /\ r.sql \in Copying => redis_conn'
                       /\ r.sql = "insert_bonues_info" => r.arg[1] = "check"
  BY <1>1, <1>3 DEF Copied, A
<1>7. ASSUME history'[u].doubt # "yes"
      PROVE  /\ Few({"add_chip"}, u)' /\ Few(Copying, u)'
             /\ Sure(A2, ugame[u], cache[u], history'[u].doubt)
  <2>1. /\ Few({"add_chip"}, u) /\ Few(Copying, u)
        /\ Sure(A, ugame[u], cache[u], history[u].doubt)
        /\ history'[u].doubt = history[u].doubt
    BY <1>1, <1>5, <1>7 DEF Copied, A
  <2>2. ASSUME i[1] \in Beginning
        PROVE  Sure(A2, ugame[u], cache[u], history'[u].doubt)
    <3>1. job(i) \in A
      BY <1>1, <2>2 DEF About, A
    <3>2. \A r \in A : r.sql \notin Settling
      BY <1>1, <2>1, <2>2, <3>1 DEF Sure
    <3>3. \A r \in A2 : FALSE
      BY <1>1, <1>3, <1>4, <3>2, AboutNext DEF A2
    <3>4. history'[u].doubt = "none" => CopySettles(cache[u], 0, A, ugame[u])
      BY <2>1, <3>2 DEF Sure, Settling
    <3>5. Sure(A2, ugame[u], cache[u], history'[u].doubt)
      BY <3>2, <3>3, <3>4, SureBegins
    <3> QED
      BY <2>1, <3>5
  <2>3. ASSUME i[1] \notin Beginning
        PROVE  Sure(A2, ugame[u], cache[u], history'[u].doubt)
    <3>1. i[1] \notin Settling
      BY DEF Settling, Copying, Answering
    <3>2. A2 = A
      BY <1>3, <2>3, <3>1
    <3> QED
      BY <2>1, <3>2
  <2>4. ASSUME NEW T \in {{"add_chip"}, Copying}
        PROVE  Few(T, u)'
    <3>1. Few(T, u)
      BY <2>1
    <3> QED
      BY <1>1, <1>2, <3>1, FewStay
  <2> QED
    BY <2>1, <2>2, <2>3, <2>4
<1>8. history'[u].doubt # "repairing"
  BY <1>5
<1> QED
  BY <1>1, <1>6, <1>7, <1>8 DEF Copied, A2

\* A login ends, and its chips go to Redis.
LEMMA LoginEnds ==
  ASSUME CopiesInv, BonusInv', NEW i \in InFlight, NEW u \in Users, job(i).uid = u,
         i[1] \in Beginning, NEW uchip \in Nat, finish(i, u, uchip),
         UNCHANGED <<ugame, cache, redis_conn>>,
         history[u].doubt # "yes" => Has(ugame[u], uchip)
  PROVE  Copied(u)'
<1> DEFINE A == About(u)
           A2 == About(u)'
           a == query("hmset", u, uchip)
           b == query("zadd", u, uchip)
           Q == Redis({a, b})
<1>1. /\ BonusInv /\ TypesInv /\ SoundWork /\ SoundWork' /\ Copied(u)
      /\ job(i).sql = i[1] /\ i[1] \in Answering /\ GameTypes
  BY InFlightSound DEF CopiesInv, BonusInv, TypesInv, Beginning, Answering
<1>2. Sound(a) /\ a.sql = "hmset" /\ a.uid = u /\ a.arg = uchip
  BY NewQuery
<1>3. Sound(b) /\ b.sql = "zadd" /\ b.uid = u
  BY NewQuery
<1>4. Leaves(i, Q) /\ (\A p \in Q : redis_conn /\ (p = a \/ p = b)) /\ (redis_conn => a \in Q)
  BY DEF finish, on_query_complete, Leaves, Redis
<1> HIDE DEF a, b, Q
<1>5. \A p \in Q : Sound(p) /\ p.sql \in Sqls /\ p.sql \in {"hmset", "zadd"} /\ p.uid = u
  BY <1>2, <1>3, <1>4 DEF Sqls, Statements
<1>6. \A p, q \in Q : p.sql = q.sql => p = q
  BY <1>2, <1>3, <1>4
<1>7. /\ \A r \in A2 : r \in A \/ r \in Q
      /\ redis_conn => a \in A2
  <2>1. "hmset" \in Beginning \cup Settling
    BY DEF Settling, Copying
  <2> QED
    BY <1>1, <1>2, <1>4, <1>5, <1>6, <2>1, AboutCompletes
<1>8. \A r \in A2 : r.sql \notin Beginning /\ r.sql # "zadd"
  <2>1. asking'[u] = 0
    <3>1. asking \in [Users -> Nat] /\ asking[u] <= 1 /\ asking'[u] \in Nat
      BY <1>1 DEF BonusInv, TypesInv, AskingCounts
    <3>2. asking'[u] = asking[u] - 1
      BY <3>1 DEF finish, Answered
    <3> QED
      BY <3>1, <3>2
  <2>2. "zadd" \notin Beginning \cup Settling
    BY DEF Beginning, Settling, Copying
  <2> QED
    BY <1>1, <2>1, <2>2, BeginsNext, AboutNext
<1>9. history'[u].doubt = IF history[u].doubt = "repairing" THEN "none" ELSE history[u].doubt
  <2>1. history \in [Users -> History]
    BY <1>1 DEF GameTypes
  <2> QED
    BY <2>1 DEF finish, Doubt, History
<1>10. job(i) \in A
  BY <1>1 DEF About
<1> HIDE DEF A, A2
<1>11. \A r \in A2 : r \in A \/ r = a
  BY <1>3, <1>4, <1>7, <1>8
<1>12. \A r \in A2 : (r.sql \in Copying => redis_conn)
  BY <1>1, <1>4, <1>7 DEF Copied, A
<1>13. /\ Len(cache'[u]) <= 1 /\ (cache'[u] # <<>> => redis_conn')
       /\ \A r \in A2 : /\ r.sql \in Copying => redis_conn'
                        /\ r.sql = "insert_bonues_info" => r.arg[1] = "check"
  BY <1>1, <1>8, <1>12 DEF Copied, A, Beginning
<1>14. ASSUME history'[u].doubt # "yes"
       PROVE  /\ Few({"add_chip"}, u)' /\ Few(Copying, u)'
              /\ Sure(A2, ugame[u], cache[u], history'[u].doubt)
  <2>1. /\ Few({"add_chip"}, u) /\ Few(Copying, u)
        /\ Sure(A, ugame[u], cache[u], history[u].doubt)
        /\ Has(ugame[u], uchip)
    BY <1>1, <1>9, <1>14 DEF Copied, A
  <2>2. \A r \in A : r.sql \notin Settling
    BY <1>1, <1>10, <2>1 DEF Sure
  <2>3. \A r \in A2 : r = a
    <3>1. \A r \in A2 : r.sql \in Beginning \cup Settling
      BY <1>1, AboutNext DEF A2
    <3> QED
      BY <1>8, <1>11, <2>2, <3>1
  <2>4. Sure(A2, ugame[u], cache[u], history'[u].doubt)
    <3>1. cache[u] # <<>> => A2 # {}
      BY <1>1, <1>7 DEF Copied
    <3>2. Has(ugame[u], uchip) /\ \A r \in A2 : r.sql = "hmset" /\ r.arg = uchip
      BY <1>2, <2>1, <2>3
    <3> QED
      BY <3>1, <3>2, SureEnds
  <2>5. Few({"add_chip"}, u)'
    <3>1. \A p \in Q : Sound(p) /\ p.sql \in Sqls /\ p.sql \notin {"add_chip"}
      BY <1>5
    <3> QED
      BY <1>1, <1>4, <2>1, <3>1, FewStay
  <2>6. Few(Copying, u)'
    <3>1. Copying \subseteq Beginning \cup Settling /\ \A r \in About(u) : r.sql \notin Copying
      BY <2>2 DEF Settling, A
    <3>2. \A p, q \in Q : p.sql \in Copying /\ q.sql \in Copying => p = q
      BY <1>5, <1>6 DEF Copying
    <3> QED
      BY <1>1, <1>4, <1>5, <1>6, <2>1, <3>1, <3>2, FewCompletes
  <2> QED
    BY <2>4, <2>5, <2>6
<1>15. history'[u].doubt # "repairing"
  BY <1>9
<1> QED
  BY <1>1, <1>13, <1>14, <1>15 DEF Copied, A2

\* A bonus is about to be paid.
LEMMA PaymentCopies ==
  ASSUME CopiesInv, BonusInv', NEW i \in InFlight, NEW u \in Users, job(i).uid = u,
         Ran(i, "get_bonues_info"), job(i).arg[1] = "recv", pay(i, u),
         UNCHANGED <<ugame, cache, redis_conn>>
  PROVE  Copied(u)'
<1> DEFINE A == About(u)
           A2 == About(u)'
           bonues == Head(job(i).ret).bonues
           a == query("add_chip", u, bonues)
           b == query("update_login_bonues_status", u, day)
           c == query("hgetall", u, bonues)
           Q == {a, b} \cup Redis({c})
<1>1. /\ BonusInv /\ TypesInv /\ SoundWork /\ SoundWork' /\ Copied(u) /\ GameTypes /\ day \in Days
      /\ job(i).sql = i[1] /\ Sound(job(i)) /\ i[1] = "get_bonues_info"
      /\ i[1] \in Answering /\ i[1] \in Beginning
  BY InFlightSound DEF CopiesInv, BonusInv, TypesInv, Ran, Beginning, Answering
<1>2. CASE Refuse(i, u)
  BY <1>1, <1>2, RefusalCopies
<1>3. CASE ~job(i).err /\ Due(job(i).ret) /\ GoOn(i, Q)
  <2>1. bonues \in Nat
    <3>1. Head(job(i).ret) \in Bonus
      BY <1>1, <1>3, HeadTailProperties DEF Sound, Due
    <3> QED
      BY <3>1 DEF Bonus
  <2>2. Sound(a) /\ a.sql = "add_chip" /\ a.uid = u /\ a.arg = bonues
    BY <2>1, NewQuery
  <2>3. Sound(b) /\ b.sql = "update_login_bonues_status" /\ b.uid = u
    BY <1>1, NewQuery
  <2>4. Sound(c) /\ c.sql = "hgetall" /\ c.uid = u /\ c.arg = bonues
    BY <2>1, NewQuery
  <2>5. ~c.ran
    BY <2>1, NewQuery
  <2>6. /\ Leaves(i, Q) /\ history' = history
        /\ \A p \in Q : p = a \/ p = b \/ (p = c /\ redis_conn)
        /\ a \in Q /\ b \in Q /\ (redis_conn => c \in Q)
    BY <1>3 DEF GoOn, on_query_complete, Leaves, Redis
  <2> HIDE DEF bonues, a, b, c, Q
  <2>7. \A p \in Q : Sound(p) /\ p.sql \in Sqls /\ p.uid = u
    BY <2>2, <2>3, <2>4, <2>6 DEF Sqls, Statements
  <2>8. \A p, q \in Q : p.sql = q.sql => p = q
    BY <2>2, <2>3, <2>4, <2>6
  <2>9. /\ \A r \in A2 : r \in A \/ r \in Q
        /\ a \in A2 /\ (redis_conn => c \in A2)
    <3>1. "add_chip" \in Beginning \cup Settling /\ "hgetall" \in Beginning \cup Settling
      BY DEF Settling, Copying
    <3> QED
      BY <1>1, <2>2, <2>4, <2>6, <2>7, <2>8, <3>1, AboutCompletes
  <2>10. \A r \in A2 : r.sql \notin Beginning
    <3>1. PICK k \in InFlight' : k[1] = b.sql /\ job(k)' = b
      BY <1>1, <2>6, <2>7, <2>8, Completes
    <3>2. k[1] \in Answering /\ job(k)'.uid = u
      BY <2>3, <3>1 DEF Answering
    <3>3. \A r \in A2 : r.sql \in Beginning => r = b
      BY <3>1, <3>2, BeginsNext
    <3> QED
      BY <2>3, <3>3 DEF Beginning
  <2>11. job(i) \in A
    BY <1>1 DEF About
  <2> HIDE DEF A, A2
  <2>12. history[u].doubt # "repairing"
    <3>1. \A p \in A : Checking(p) => p = job(i)
      BY <1>1, BeginsAlone DEF A, Checking
    <3> QED
      BY <1>1, <3>1 DEF Copied, A, Checking
  <2>13. \A r \in A2 : (r.sql \in Copying => redis_conn)
    BY <1>1, <2>2, <2>3, <2>6, <2>9 DEF Copied, A, Copying
  <2>14. /\ Len(cache'[u]) <= 1 /\ (cache'[u] # <<>> => redis_conn')
         /\ \A r \in A2 : /\ r.sql \in Copying => redis_conn'
                          /\ r.sql = "insert_bonues_info" => r.arg[1] = "check"
    BY <1>1, <2>10, <2>13 DEF Copied, Beginning
  <2>15. ASSUME history[u].doubt # "yes"
         PROVE  /\ Few({"add_chip"}, u)' /\ Few(Copying, u)'
                /\ Sure(A2, ugame[u], cache[u], history[u].doubt)
    <3>1. /\ Few({"add_chip"}, u) /\ Few(Copying, u)
          /\ Sure(A, ugame[u], cache[u], history[u].doubt)
          /\ history[u].doubt = "none"
      BY <1>1, <2>12, <2>15, Doubts DEF Copied, A
    <3>2. \A r \in A : r.sql \notin Settling
      BY <1>1, <2>11, <3>1 DEF Sure
    <3>3. \A r \in A2 : r = a \/ r = c
      <4>1. \A r \in A2 : r.sql \in Beginning \cup Settling
        BY <1>1, AboutNext DEF A2
      <4>2. b.sql \notin Beginning \cup Settling
        BY <2>3 DEF Beginning, Settling, Copying
      <4> QED
        BY <2>6, <2>9, <2>10, <3>2, <4>1, <4>2
    <3>4. Sure(A2, ugame[u], cache[u], history[u].doubt)
      <4>1. CopySettles(cache[u], 0, A, ugame[u]) /\ \A r \in A : r.sql # "add_chip"
        BY <3>1, <3>2 DEF Sure, Settling
      <4>2. ugame[u] \in Seq(Nat) /\ cache[u] \in Seq(Nat)
        BY <1>1 DEF GameTypes
      <4>3. cache[u] # <<>> => \E r \in A2 : r.sql = "hgetall"
        BY <1>1, <2>4, <2>9 DEF Copied
      <4>4. \A r \in A2 : r.sql \in {"add_chip", "hgetall"} /\ r.arg = bonues
        BY <2>2, <2>4, <3>3
      <4>5. \A r \in A2 : r.sql = "hgetall" => ~r.ran
        BY <2>2, <2>5, <3>3
      <4> QED
        BY <2>1, <2>2, <2>9, <4>1, <4>2, <4>3, <4>4, <4>5, SurePayment
    <3>5. ASSUME NEW T \in {{"add_chip"}, Copying}
          PROVE  Few(T, u)'
      <4>1. T \subseteq Beginning \cup Settling /\ \A r \in About(u) : r.sql \notin T
        BY <3>2 DEF Settling, A
      <4>2. \A p, q \in Q : p.sql \in T /\ q.sql \in T => p = q
        BY <2>2, <2>3, <2>4, <2>6 DEF Copying
      <4>3. Few(T, u)
        BY <3>1
      <4> QED
        BY <1>1, <2>6, <2>7, <2>8, <4>1, <4>2, <4>3, FewCompletes
    <3> QED
      BY <3>4, <3>5
  <2> QED
    BY <1>1, <2>6, <2>12, <2>14, <2>15 DEF Copied, A2
<1> QED
  BY <1>2, <1>3 DEF pay

\* Where there are few, there is one.
LEMMA FewAlone ==
  ASSUME SoundWork', NEW T, NEW u, Few(T, u)', NEW q \in About(u)', q.sql \in T,
         NEW r \in About(u)', r.sql \in T
  PROVE  r = q
<1> DEFINE P == Places(work', T, u)
<1>1. IsFiniteSet(P) /\ Cardinality(P) <= 1
  BY DEF Few
<1>2. P = {k \in InFlight' : k[1] \in T /\ job(k)'.uid = u}
  BY DEF Places, InFlight, job
<1> HIDE DEF P
<1>3. PICK k \in InFlight' : q = job(k)' /\ q.sql = k[1] /\ q.uid = u
  BY AboutNext
<1>4. PICK j \in InFlight' : r = job(j)' /\ r.sql = j[1] /\ r.uid = u
  BY AboutNext
<1>5. k \in P /\ j \in P
  BY <1>2, <1>3, <1>4
<1>6. k = j
  BY <1>1, <1>5, OneOf
<1> QED
  BY <1>3, <1>4, <1>6

\* A payment into the copy goes on.
LEMMA CopyGoesOn ==
  ASSUME CopiesInv, BonusInv', NEW i \in InFlight, NEW u \in Users, job(i).uid = u,
         Ran(i, "hgetall"), on_hgetall(i, u), UNCHANGED <<ugame, cache, redis_conn>>
  PROVE  Copied(u)'
<1> DEFINE A == About(u)
           A2 == About(u)'
           Q == {query("hmset", u, uchip + job(i).arg) : uchip \in ToSet(job(i).ret)}
<1>1. /\ BonusInv /\ TypesInv /\ SoundWork /\ SoundWork' /\ Copied(u) /\ GameTypes
      /\ job(i).sql = i[1] /\ Sound(job(i)) /\ i[1] = "hgetall" /\ job(i).ran
  BY InFlightSound DEF CopiesInv, BonusInv, TypesInv, Ran
<1>2. Leaves(i, Q) /\ history' = history
  BY DEF on_hgetall, GoOn, on_query_complete, Leaves
<1>3. job(i).ret \in Seq(Nat) /\ job(i).arg \in Nat
  BY <1>1 DEF Sound
<1>4. ASSUME NEW q \in Q
      PROVE  /\ Sound(q) /\ q.sql = "hmset" /\ q.uid = u /\ q.sql \in Sqls
             /\ \E uchip \in ToSet(job(i).ret) : q = query("hmset", u, uchip + job(i).arg)
                                                 /\ q.arg = uchip + job(i).arg
  <2>1. PICK uchip \in ToSet(job(i).ret) : q = query("hmset", u, uchip + job(i).arg)
    OBVIOUS
  <2>2. uchip \in Nat
    BY <1>3, ElementOfSeq DEF ToSet
  <2>3. uchip + job(i).arg \in Nat
    BY <1>3, <2>2
  <2>4. Sound(q) /\ q.sql = "hmset" /\ q.uid = u /\ q.arg = uchip + job(i).arg
    BY <2>1, <2>3, NewQuery
  <2> QED
    BY <2>1, <2>4 DEF Sqls, Statements
<1>5. job(i).ret # <<>> => Q # {}
  <2>1. job(i).ret # <<>> => job(i).ret[1] \in ToSet(job(i).ret)
    BY <1>3, EmptySeq DEF ToSet
  <2> QED
    BY <2>1
<1>6. job(i) \in A
  BY <1>1 DEF About, Settling, Copying
<1> HIDE DEF A, A2, Q
<1>7. \A r \in A2 : r \in A \/ r \in Q
  BY <1>1, <1>2, <1>4, AboutGrows DEF A, A2
<1>8. redis_conn
  BY <1>1, <1>6 DEF Copied, A, Copying
<1>9. /\ Len(cache'[u]) <= 1 /\ (cache'[u] # <<>> => redis_conn')
      /\ \A r \in A2 : /\ r.sql \in Copying => redis_conn'
                       /\ r.sql = "insert_bonues_info" => r.arg[1] = "check"
  BY <1>1, <1>4, <1>7, <1>8 DEF Copied, A
<1>10. CASE history[u].doubt = "yes"
  BY <1>2, <1>9, <1>10 DEF Copied, A2
<1>11. CASE history[u].doubt # "yes"
  <2>1. /\ Few({"add_chip"}, u) /\ Few(Copying, u)
        /\ Sure(A, ugame[u], cache[u], history[u].doubt)
    BY <1>1, <1>11 DEF Copied, A
  <2>2. job(i).ret = cache[u] /\ Len(cache[u]) <= 1 /\ cache[u] \in Seq(Nat)
    BY <1>1, <1>6, <2>1 DEF Copied, Sure, Carries, GameTypes
  <2>3. \A p, q \in Q : p = q
    <3>1. \A x, y \in ToSet(job(i).ret) : x = y
      BY <1>3, <2>2 DEF ToSet
    <3> QED
      BY <1>4, <3>1
  <2>4. \A r \in A2 : r.sql \in Copying => r \in Q
    <3>1. /\ Copying \subseteq Beginning \cup Settling /\ i[1] \in Copying
          /\ \A p, q \in Q : p.sql \in Copying /\ q.sql \in Copying => p = q
      BY <1>1, <2>3 DEF Settling, Copying
    <3>2. CASE Q = {}
      <4>1. \A r \in A2 : r.sql \notin Copying
        BY <1>1, <1>2, <2>1, <3>1, <3>2, FewCompletes DEF A2
      <4> QED
        BY <4>1
    <3>3. CASE Q # {}
      <4>1. PICK q \in Q : q.sql \in Copying
        BY <1>4, <3>3 DEF Copying
      <4>2. q \in A2
        BY <1>1, <1>2, <1>4, <2>3, <3>1, <4>1, AboutCompletes DEF A2
      <4>3. Few(Copying, u)'
        BY <1>1, <1>2, <1>4, <2>1, <2>3, <3>1, FewCompletes
      <4>4. \A r \in A2 : r.sql \in Copying => r = q
        BY <1>1, <4>1, <4>2, <4>3, FewAlone DEF A2
      <4> QED
        BY <4>1, <4>4
    <3> QED
      BY <3>2, <3>3
  <2>5. \A r \in A : r.sql \notin Copying => r \in A2
    <3>1. \A r \in A : r \in A2 \/ (r = job(i) /\ r.sql = i[1])
      BY <1>1, <1>2, <1>4, <2>3, AboutCompletes DEF A, A2
    <3> QED
      BY <1>1, <3>1 DEF Copying
  <2>6. Sure(A2, ugame[u], cache[u], history[u].doubt)
    <3>1. \A r \in A2 : \/ r \in A /\ r.sql \notin Copying
                        \/ r.sql = "hmset" /\ \E uchip \in ToSet(cache[u]) : r.arg = uchip + job(i).arg
      BY <1>4, <1>7, <2>2, <2>4
    <3>2. cache[u] # <<>> => \E r \in A2 : r.sql = "hmset"
      <4>1. ASSUME NEW q \in Q
            PROVE  q \in A2
        BY <1>1, <1>2, <1>4, <2>3, AboutCompletes DEF A2, Settling, Copying
      <4> QED
        BY <1>4, <1>5, <2>2, <4>1
    <3> QED
      BY <1>1, <1>6, <2>1, <2>2, <2>5, <3>1, <3>2, SureCopies
  <2>7. Few({"add_chip"}, u)'
    <3>1. \A q \in Q : q.sql \notin {"add_chip"}
      BY <1>4
    <3> QED
      BY <1>1, <1>2, <1>4, <2>1, <3>1, FewStay
  <2>8. Few(Copying, u)'
    <3>1. /\ Copying \subseteq Beginning \cup Settling /\ i[1] \in Copying
          /\ \A p, q \in Q : p.sql \in Copying /\ q.sql \in Copying => p = q
      BY <1>1, <2>3 DEF Settling, Copying
    <3>2. SoundWork /\ Leaves(i, Q) /\ Few(Copying, u)
      BY <1>1, <1>2, <2>1
    <3>3. (\A q \in Q : Sound(q) /\ q.sql \in Sqls) /\ \A p, q \in Q : p.sql = q.sql => p = q
      BY <1>4, <2>3
    <3> QED
      BY <3>1, <3>2, <3>3, FewCompletes
  <2>9. history[u].doubt # "repairing"
    <3>1. \A r \in A : r.sql \notin Beginning
      BY <1>1, <1>6, <2>1 DEF Sure, Settling, Copying
    <3> QED
      BY <1>1, <3>1 DEF Copied, A, Checking
  <2> QED
    BY <1>2, <1>9, <2>6, <2>7, <2>8, <2>9 DEF Copied, A2
<1> QED
  BY <1>10, <1>11

\* What a query carries without doubt.
LEMMA BeginningCarries ==
  ASSUME CopiesInv, NEW i \in InFlight, NEW u \in Users, job(i).uid = u, i[1] \in Beginning,
         history[u].doubt # "yes"
  PROVE  Carries(job(i), About(u), ugame[u], cache[u])
<1>1. job(i) \in About(u)
  BY DEF About
<1> QED
  BY <1>1 DEF CopiesInv, Copied, Sure

\* Every handler leaves its user's copy in order.
LEMMA on_get_ugame_infoCopies ==
  ASSUME CopiesInv, BonusInv', NEW i \in InFlight, NEW u \in Users, job(i).uid = u,
         Ran(i, "get_ugame_info"), on_get_ugame_info(i, u), UNCHANGED <<ugame, cache, redis_conn>>
  PROVE  Copied(u)'
<1>1. /\ job(i).sql = i[1] /\ Sound(job(i)) /\ i[1] = "get_ugame_info"
      /\ i[1] \in Answering /\ i[1] \in Beginning
  BY InFlightSound DEF CopiesInv, BonusInv, TypesInv, Ran, Beginning, Answering
<1>2. CASE Refuse(i, u)
  BY <1>1, <1>2, RefusalCopies
<1>3. CASE GoOn(i, {query("insert_ugame_info", u, job(i).arg)})
  <2> DEFINE q == query("insert_ugame_info", u, job(i).arg)
  <2>1. Sound(q) /\ q.sql = "insert_ugame_info" /\ q.uid = u
    BY NewQuery
  <2>2. GoOn(i, {q})
    BY <1>3
  <2> HIDE DEF q
  <2>3. q.sql \in Beginning /\ Checking(q) /\ \A A : Carries(q, A, ugame[u], cache[u])
    BY <2>1 DEF Beginning, Checking, Carries
  <2> QED
    BY <1>1, <2>1, <2>2, <2>3, LoginGoesOn
<1>4. CASE Rows(i) /\ GoOn(i, {query("get_bonues_info", u, <<"check", Head(job(i).ret)>>)})
  <2> DEFINE arg == <<"check", Head(job(i).ret)>>
             q == query("get_bonues_info", u, arg)
  <2>1. Head(job(i).ret) \in Nat /\ job(i).ret # <<>>
    BY <1>1, <1>4, HeadTailProperties DEF Sound, Rows
  <2>2. arg[1] = "check" /\ arg[2] = Head(job(i).ret)
    OBVIOUS
  <2>3. GoOn(i, {q})
    BY <1>4
  <2> HIDE DEF arg
  <2>4. Sound(q) /\ q.sql = "get_bonues_info" /\ q.uid = u /\ q.arg = arg
    BY <2>1, <2>2, NewQuery
  <2> HIDE DEF q
  <2>5. q.sql \in Beginning /\ Checking(q)
    BY <2>2, <2>4 DEF Beginning, Checking
  <2>6. history[u].doubt # "yes" => \A A : Carries(q, A, ugame[u], cache[u])
    <3>1. history[u].doubt # "yes" => Has(ugame[u], q.arg[2])
      BY <1>1, <2>1, <2>2, <2>4, BeginningCarries DEF Carries
    <3> QED
      BY <2>4, <3>1 DEF Carries
  <2> QED
    BY <1>1, <2>3, <2>4, <2>5, <2>6, LoginGoesOn
<1> QED
  BY <1>2, <1>3, <1>4 DEF on_get_ugame_info

LEMMA on_insertCopies ==
  ASSUME CopiesInv, BonusInv', NEW i \in InFlight, NEW u \in Users, job(i).uid = u, NEW next,
         \/ Ran(i, "insert_ugame_info") /\ next = "get_ugame_info"
         \/ Ran(i, "insert_bonues_info") /\ next = "get_bonues_info",
         on_insert(i, u, next), UNCHANGED <<ugame, cache, redis_conn>>
  PROVE  Copied(u)'
<1>1. /\ job(i).sql = i[1] /\ Sound(job(i)) /\ i[1] \in Answering /\ i[1] \in Beginning
      /\ \/ i[1] = "insert_ugame_info" /\ next = "get_ugame_info"
         \/ i[1] = "insert_bonues_info" /\ next = "get_bonues_info"
  BY InFlightSound DEF CopiesInv, BonusInv, TypesInv, Ran, Beginning, Answering
<1>2. CASE Refuse(i, u)
  BY <1>1, <1>2, RefusalCopies
<1>3. CASE GoOn(i, {query(next, u, job(i).arg)})
  <2> DEFINE q == query(next, u, job(i).arg)
  <2>1. next = "get_bonues_info" => job(i).arg[2] \in Nat
    BY <1>1 DEF Sound
  <2>2. Sound(q) /\ q.sql = next /\ q.uid = u /\ q.arg = job(i).arg
    BY <1>1, <2>1, NewQuery
  <2>3. GoOn(i, {q}) /\ q.ret = <<>>
    BY <1>3 DEF query
  <2> HIDE DEF q
  <2>4. q.sql \in Beginning /\ (Checking(job(i)) => Checking(q)) /\ q.sql # "insert_bonues_info"
    BY <1>1, <2>2 DEF Beginning, Checking
  <2>5. history[u].doubt # "yes" => \A A : Carries(q, A, ugame[u], cache[u])
    <3>1. history[u].doubt # "yes" /\ next = "get_bonues_info" => Has(ugame[u], q.arg[2])
      BY <1>1, <2>2, BeginningCarries DEF Carries
    <3> QED
      BY <1>1, <2>2, <2>3, <3>1 DEF Carries
  <2> QED
    BY <1>1, <2>2, <2>3, <2>4, <2>5, LoginGoesOn
<1> QED
  BY <1>2, <1>3 DEF on_insert

LEMMA check_login_bonuesCopies ==
  ASSUME CopiesInv, BonusInv', NEW i \in InFlight, NEW u \in Users, job(i).uid = u,
         Ran(i, "get_bonues_info"), job(i).arg[1] = "check", check_login_bonues(i, u),
         UNCHANGED <<ugame, cache, redis_conn>>
  PROVE  Copied(u)'
<1> DEFINE uchip == job(i).arg[2]
           info == Head(job(i).ret)
<1>1. /\ job(i).sql = i[1] /\ Sound(job(i)) /\ i[1] = "get_bonues_info" /\ day \in Days
      /\ i[1] \in Answering /\ i[1] \in Beginning /\ uchip \in Nat /\ job(i).ret \in Seq(Bonus)
  BY InFlightSound DEF CopiesInv, BonusInv, TypesInv, Ran, Beginning, Answering, Sound
<1>2. history[u].doubt # "yes" => Has(ugame[u], uchip)
  BY <1>1, BeginningCarries DEF Carries
<1>3. Rows(i) => info \in Bonus
  BY <1>1, HeadTailProperties DEF Rows
<1>4. \/ Refuse(i, u)
      \/ GoOn(i, {query("insert_bonues_info", u, <<"check", uchip, day>>)})
      \/ Rows(i) /\ GoOn(i, {query("update_login_bonues", u, <<uchip, granted(info)>>)})
      \/ finish(i, u, uchip)
  BY DEF check_login_bonues
<1> HIDE DEF uchip, info
<1>5. CASE Refuse(i, u)
  BY <1>1, <1>5, RefusalCopies
<1>6. CASE GoOn(i, {query("insert_bonues_info", u, <<"check", uchip, day>>)})
  <2> DEFINE arg == <<"check", uchip, day>>
             q == query("insert_bonues_info", u, arg)
  <2>1. arg[1] = "check" /\ arg[2] = uchip /\ arg[3] = day
    OBVIOUS
  <2>2. GoOn(i, {q})
    BY <1>6
  <2> HIDE DEF arg
  <2>3. Sound(q) /\ q.sql = "insert_bonues_info" /\ q.uid = u /\ q.arg = arg
    BY <1>1, <2>1, NewQuery
  <2> HIDE DEF q
  <2>4. q.sql \in Beginning /\ Checking(q) /\ q.arg[1] = "check"
    BY <2>1, <2>3 DEF Beginning, Checking
  <2>5. history[u].doubt # "yes" => \A A : Carries(q, A, ugame[u], cache[u])
    BY <1>2, <2>1, <2>3 DEF Carries
  <2> QED
    BY <1>1, <2>2, <2>3, <2>4, <2>5, LoginGoesOn
<1>7. CASE Rows(i) /\ GoOn(i, {query("update_login_bonues", u, <<uchip, granted(info)>>)})
  <2> DEFINE arg == <<uchip, granted(info)>>
             q == query("update_login_bonues", u, arg)
  <2>1. arg[1] = uchip /\ arg[2] \in Bonus
    BY <1>1, <1>3, <1>7, GrantedIs
  <2>2. GoOn(i, {q})
    BY <1>7
  <2> HIDE DEF arg
  <2>3. Sound(q) /\ q.sql = "update_login_bonues" /\ q.uid = u /\ q.arg = arg
    BY <1>1, <2>1, NewQuery
  <2> HIDE DEF q
  <2>4. q.sql \in Beginning /\ Checking(q)
    BY <2>3 DEF Beginning, Checking
  <2>5. history[u].doubt # "yes" => \A A : Carries(q, A, ugame[u], cache[u])
    BY <1>2, <2>1, <2>3 DEF Carries
  <2> QED
    BY <1>1, <2>2, <2>3, <2>4, <2>5, LoginGoesOn
<1>8. CASE finish(i, u, uchip)
  BY <1>1, <1>2, <1>8, LoginEnds
<1> QED
  BY <1>4, <1>5, <1>6, <1>7, <1>8

\* The handlers that have nothing to do with chips.
LEMMA AsideCopies ==
  ASSUME CopiesInv, BonusInv', NEW i \in InFlight, NEW u \in Users, job(i).uid = u,
         i[1] \in Ranking \cup {"update_login_bonues_status"},
         UNCHANGED <<ugame, cache, redis_conn>>,
         \/ on_query_complete(i, {}) /\ UNCHANGED history
         \/ Refuse(i, u)
         \/ \E next \in Ranking : \E arg : GoOn(i, {query(next, u, arg)})
  PROVE  Copied(u)'
<1>1. i[1] \notin Beginning \cup Settling /\ SoundWork /\ Copied(u)
  BY DEF CopiesInv, BonusInv, TypesInv, Beginning, Settling, Copying, Ranking
<1>2. CASE Refuse(i, u)
  <2>1. i[1] \in Answering
    BY DEF Answering, Ranking
  <2> QED
    BY <1>2, <2>1, RefusalCopies
<1>3. CASE on_query_complete(i, {}) /\ UNCHANGED history
  <2>1. Leaves(i, {}) /\ Untouched(u)
    BY <1>3 DEF on_query_complete, Leaves, Untouched
  <2> QED
    BY <1>1, <2>1, CompletesAside
<1>4. CASE \E next \in Ranking : \E arg : GoOn(i, {query(next, u, arg)})
  <2>1. PICK next \in Ranking : \E arg : GoOn(i, {query(next, u, arg)})
    BY <1>4
  <2>2. PICK arg : GoOn(i, {query(next, u, arg)})
    BY <2>1
  <2> DEFINE q == query(next, u, arg)
             Q == {q}
  <2>3. Sound(q) /\ q.sql = next
    BY NewQuery DEF Ranking
  <2>4. Leaves(i, Q) /\ Untouched(u) /\ \A p \in Q : p = q
    BY <2>2 DEF GoOn, on_query_complete, Leaves, Untouched
  <2> HIDE DEF q, Q
  <2>5. \A p \in Q : Sound(p) /\ p.sql \in Sqls /\ p.sql \notin Beginning \cup Settling
    BY <2>3, <2>4 DEF Sqls, Statements, Ranking, Beginning, Settling, Copying
  <2> QED
    BY <1>1, <2>4, <2>5, CompletesAside
<1> QED
  BY <1>2, <1>3, <1>4

LEMMA HandlersCopy ==
  ASSUME CopiesInv, BonusInv', NEW i \in InFlight, NEW u \in Users, job(i).uid = u,
         handlers(i, u), UNCHANGED <<tables, redis_conn>>, NEW v \in Users
  PROVE  Copied(v)'
<1>1. /\ UNCHANGED <<ugame, cache, redis_conn>> /\ TypesInv /\ SoundWork /\ Copied(v)
      /\ history \in [Users -> History]
  BY DEF tables, CopiesInv, BonusInv, TypesInv, GameTypes
<1>2. CASE v # u
  <2>1. PICK Q : Effect(i, u, Q)
    BY <1>1, HandlersEffect
  <2>2. Leaves(i, Q) /\ \A q \in Q : Sound(q) /\ q.sql \in Sqls /\ q.uid = u
    BY <2>1 DEF Effect, on_query_complete, Leaves, Sqls
  <2>3. Untouched(v)
    <3>1. history'[v] = history[v]
      BY <1>1, <1>2, <2>1 DEF Effect
    <3> QED
      BY <1>1, <3>1 DEF Untouched
  <2> QED
    BY <1>1, <1>2, <2>2, <2>3, CompletesAside
<1>3. CASE v = u
  <2>1. CASE Ran(i, "get_ugame_info") /\ on_get_ugame_info(i, u)
    BY <1>1, <1>3, <2>1, on_get_ugame_infoCopies
  <2>2. CASE Ran(i, "insert_ugame_info") /\ on_insert(i, u, "get_ugame_info")
    BY <1>1, <1>3, <2>2, on_insertCopies
  <2>3. CASE Ran(i, "get_bonues_info") /\ job(i).arg[1] = "check" /\ check_login_bonues(i, u)
    BY <1>1, <1>3, <2>3, check_login_bonuesCopies
  <2>4. CASE Ran(i, "insert_bonues_info") /\ on_insert(i, u, "get_bonues_info")
    BY <1>1, <1>3, <2>4, on_insertCopies
  <2>5. CASE Ran(i, "update_login_bonues") /\ on_update_login_bonues(i, u)
    <3>1. /\ job(i).sql = i[1] /\ i[1] = "update_login_bonues" /\ job(i).arg[1] \in Nat
          /\ i[1] \in Answering /\ i[1] \in Beginning
      BY <1>1, <2>5, InFlightSound DEF Ran, Beginning, Answering, Sound
    <3>2. history[u].doubt # "yes" => Has(ugame[u], job(i).arg[1])
      BY <3>1, BeginningCarries DEF Carries
    <3>3. CASE Refuse(i, u)
      BY <1>1, <1>3, <3>1, <3>3, RefusalCopies
    <3>4. CASE finish(i, u, job(i).arg[1])
      BY <1>1, <1>3, <3>1, <3>2, <3>4, LoginEnds
    <3> QED
      BY <2>5, <3>3, <3>4 DEF on_update_login_bonues
  <2>6. CASE Ran(i, "get_bonues_info") /\ job(i).arg[1] = "recv" /\ pay(i, u)
    BY <1>1, <1>3, <2>6, PaymentCopies
  <2>7. CASE Ran(i, "update_login_bonues_status") /\ on_update_login_bonues_status(i, u)
    <3>1. /\ i[1] \in Ranking \cup {"update_login_bonues_status"}
          /\ on_query_complete(i, {}) /\ UNCHANGED history
      BY <2>7 DEF Ran, on_update_login_bonues_status
    <3> QED
      BY <1>1, <1>3, <3>1, AsideCopies
  <2>8. CASE Ran(i, "hgetall") /\ on_hgetall(i, u)
    BY <1>1, <1>3, <2>8, CopyGoesOn
  <2>9. CASE Ran(i, "zrevrange") /\ on_zrevrange(i, u)
    <3>1. i[1] \in Ranking \cup {"update_login_bonues_status"}
      BY <2>9 DEF Ran, Ranking
    <3>2. \/ Refuse(i, u)
          \/ \E next \in Ranking : \E arg : GoOn(i, {query(next, u, arg)})
      BY <2>9 DEF on_zrevrange, Ranking
    <3> QED
      BY <1>1, <1>3, <3>1, <3>2, AsideCopies
  <2>10. CASE Queued(i, "get_rank_user_info") /\ get_rank_user_info(i, u)
    <3> DEFINE index == job(i).arg[1]
               rank_info == job(i).arg[2]
    <3>1. i[1] \in Ranking \cup {"update_login_bonues_status"}
      BY <2>10 DEF Queued, Ranking
    <3>2. \/ GoOn(i, {query("get_rank_user_info", u, <<index + 1, rank_info>>)})
          \/ GoOn(i, {query("get_rank_user_ugame_info", u, <<1, rank_info>>)})
      BY <2>10 DEF get_rank_user_info
    <3> HIDE DEF index, rank_info
    <3>3. \E next \in Ranking : \E arg : GoOn(i, {query(next, u, arg)})
      BY <3>2 DEF Ranking
    <3> QED
      BY <1>1, <1>3, <3>1, <3>3, AsideCopies
  <2>11. CASE Queued(i, "get_rank_user_ugame_info") /\ get_rank_user_ugame_info(i, u)
    <3> DEFINE index == job(i).arg[1]
               rank_info == job(i).arg[2]
    <3>1. i[1] \in Ranking \cup {"update_login_bonues_status"}
      BY <2>11 DEF Queued, Ranking
    <3>2. \/ GoOn(i, {query("get_rank_user_ugame_info", u, <<index + 1, rank_info>>)})
          \/ on_query_complete(i, {}) /\ UNCHANGED history
      BY <2>11 DEF get_rank_user_ugame_info
    <3> HIDE DEF index, rank_info
    <3>3. \/ \E next \in Ranking : \E arg : GoOn(i, {query(next, u, arg)})
          \/ on_query_complete(i, {}) /\ UNCHANGED history
      BY <3>2 DEF Ranking
    <3> QED
      BY <1>1, <1>3, <3>1, <3>3, AsideCopies
  <2> QED
    BY <2>1, <2>2, <2>3, <2>4, <2>5, <2>6, <2>7, <2>8, <2>9, <2>10, <2>11 DEF handlers
<1> QED
  BY <1>2, <1>3

\* A query about chips is executed.
LEMMA ExecutedCopies ==
  ASSUME CopiesInv, NEW i \in InFlight, NEW u \in Users, job(i).uid = u,
         NEW err, NEW ret, Execute(i, err, ret), Sound(After(job(i), err, ret)),
         i[1] \in Beginning \cup {"hgetall"},
         cache'[u] = cache[u], history'[u].doubt = history[u].doubt, redis_conn' = redis_conn,
         SameHead(ugame[u], ugame'[u]),
         i[1] = "get_ugame_info" /\ ret # <<>> => Has(ugame'[u], Head(ret)),
         i[1] = "hgetall" => ret = cache[u]
  PROVE  Copied(u)'
<1> DEFINE A == About(u)
           A2 == About(u)'
           q == After(job(i), err, ret)
<1>1. SoundWork /\ Copied(u) /\ job(i).sql = i[1] /\ Sound(job(i))
  BY InFlightSound DEF CopiesInv, BonusInv, TypesInv
<1>2. i[1] \in Beginning \cup Settling
  BY DEF Settling, Copying
<1>3. /\ job(i) \in A /\ q \in A2 /\ A2 \subseteq A \cup {q} /\ A \subseteq A2 \cup {job(i)}
      /\ \A T : Places(work', T, u) = Places(work, T, u)
  BY <1>1, <1>2, AboutExecutes, Executes
<1>4. q = After(job(i), err, ret)
  OBVIOUS
<1> HIDE DEF A, A2, q
<1>5. q.sql = i[1] /\ q.uid = u /\ q.arg = job(i).arg /\ q.ret = ret
  BY <1>1, <1>4, AfterIs
<1>6. /\ Len(cache'[u]) <= 1 /\ (cache'[u] # <<>> => redis_conn')
      /\ \A r \in A2 : /\ r.sql \in Copying => redis_conn'
                       /\ r.sql = "insert_bonues_info" => r.arg[1] = "check"
  BY <1>1, <1>3, <1>5 DEF Copied, A
<1>7. history'[u].doubt = "repairing" => \E r \in A2 : Checking(r)
  <2>1. Checking(job(i)) => Checking(q)
    BY <1>1, <1>5 DEF Checking
  <2> QED
    BY <1>1, <1>3, <2>1 DEF Copied, A
<1>8. ASSUME history[u].doubt # "yes"
      PROVE  /\ Few({"add_chip"}, u)' /\ Few(Copying, u)'
             /\ Sure(A2, ugame'[u], cache[u], history[u].doubt)
  <2>1. /\ Few({"add_chip"}, u) /\ Few(Copying, u)
        /\ Sure(A, ugame[u], cache[u], history[u].doubt)
    BY <1>1, <1>8 DEF Copied, A
  <2>2. Few({"add_chip"}, u)' /\ Few(Copying, u)'
    BY <1>3, <2>1 DEF Few
  <2>3. Carries(q, A, ugame'[u], cache[u])
    <3>1. Carries(job(i), A, ugame'[u], cache[u])
      <4>1. Carries(job(i), A, ugame[u], cache[u]) /\ SamePays(A, A)
        BY <1>3, <2>1 DEF Sure, SamePays
      <4> QED
        BY <4>1, CarriesStill
    <3> QED
      BY <1>1, <1>5, <3>1 DEF Carries
  <2> QED
    BY <1>1, <1>3, <1>5, <2>1, <2>2, <2>3, SureExecutes
<1> QED
  BY <1>6, <1>7, <1>8 DEF Copied, A2

\* A payment is executed in MySQL.
LEMMA PaidCopies ==
  ASSUME CopiesInv, NEW i \in InFlight, NEW u \in Users, job(i).uid = u, add_chip(i, u)
  PROVE  Copied(u)'
<1> DEFINE A == About(u)
           A2 == About(u)'
           chips2 == [k \in DOMAIN ugame[u] |-> ugame[u][k] + job(i).arg]
           Q == {}
<1>1. /\ SoundWork /\ Copied(u) /\ GameTypes /\ i[1] = "add_chip"
      /\ job(i).sql = i[1] /\ Sound(job(i)) /\ job(i).arg \in Nat
  BY InFlightSound DEF CopiesInv, BonusInv, TypesInv, add_chip, Queued, Sound
<1>2. /\ Leaves(i, Q) /\ UNCHANGED <<cache, redis_conn>>
      /\ history' = [history EXCEPT ![u].paid = @ + 1]
      /\ ugame' = [ugame EXCEPT ![u] = chips2]
  BY DEF add_chip, on_query_complete, Leaves, connections
<1>3. /\ ugame'[u] = chips2 /\ history'[u].doubt = history[u].doubt
      /\ ugame[u] \in Seq(Nat)
  BY <1>1, <1>2 DEF GameTypes, History
<1> HIDE DEF Q
<1>4. /\ A2 \subseteq A
      /\ \A r \in A : r \in A2 \/ (r = job(i) /\ r.sql = i[1])
  BY <1>1, <1>2, AboutCompletes DEF Q
<1>5. job(i) \in A
  BY <1>1 DEF About, Settling
<1> HIDE DEF A, A2, chips2
<1>6. /\ Len(cache'[u]) <= 1 /\ (cache'[u] # <<>> => redis_conn')
      /\ \A r \in A2 : /\ r.sql \in Copying => redis_conn'
                       /\ r.sql = "insert_bonues_info" => r.arg[1] = "check"
  BY <1>1, <1>2, <1>4 DEF Copied, A
<1>7. history[u].doubt = "repairing" => \E r \in A2 : Checking(r)
  <2>1. ~Checking(job(i))
    BY <1>1 DEF Checking, Beginning
  <2> QED
    BY <1>1, <1>4, <2>1 DEF Copied, A
<1>8. ASSUME history[u].doubt # "yes"
      PROVE  /\ Few({"add_chip"}, u)' /\ Few(Copying, u)'
             /\ Sure(A2, chips2, cache[u], history[u].doubt)
  <2>1. /\ Few({"add_chip"}, u) /\ Few(Copying, u)
        /\ Sure(A, ugame[u], cache[u], history[u].doubt)
    BY <1>1, <1>8 DEF Copied, A
  <2>2. Few({"add_chip"}, u)' /\ \A r \in A2 : r.sql # "add_chip"
    <3> DEFINE T == {"add_chip"}
    <3>1. T \subseteq Beginning \cup Settling /\ i[1] \in T /\ Few(T, u)
      BY <1>1, <2>1 DEF Settling
    <3>2. T = {"add_chip"}
      OBVIOUS
    <3> HIDE DEF T
    <3>3. \A q : q \notin Q
      BY DEF Q
    <3>4. Few(T, u)' /\ \A r \in About(u)' : r.sql \notin T
      BY <1>1, <1>2, <3>1, <3>3, FewCompletes
    <3> QED
      BY <3>2, <3>4 DEF A2
  <2>3. Few(Copying, u)'
    BY <1>1, <1>2, <2>1, FewStay DEF Q
  <2>4. \A r \in A : r.sql # "add_chip" => r \in A2
    BY <1>1, <1>4
  <2> QED
    BY <1>1, <1>3, <1>4, <1>5, <2>1, <2>2, <2>3, <2>4, SurePays DEF chips2
<1> QED
  BY <1>2, <1>3, <1>6, <1>7, <1>8 DEF Copied, A2

\* The copy is written.
LEMMA WrittenCopies ==
  ASSUME CopiesInv, NEW i \in InFlight, NEW u \in Users, job(i).uid = u, hmset(i, u)
  PROVE  Copied(u)'
<1> DEFINE A == About(u)
           A2 == About(u)'
           Q == {}
<1>1. /\ SoundWork /\ Copied(u) /\ GameTypes /\ i[1] = "hmset"
      /\ job(i).sql = i[1] /\ Sound(job(i)) /\ job(i).arg \in Nat
  BY InFlightSound DEF CopiesInv, BonusInv, TypesInv, hmset, Queued, Sound
<1>2. /\ Leaves(i, Q) /\ UNCHANGED <<ugame, history, redis_conn>>
      /\ cache' = [cache EXCEPT ![u] = <<job(i).arg>>]
  BY DEF hmset, on_query_complete, Leaves, connections
<1>3. cache'[u] = <<job(i).arg>>
  BY <1>1, <1>2 DEF GameTypes
<1> HIDE DEF Q
<1>4. /\ A2 \subseteq A
      /\ \A r \in A : r \in A2 \/ (r = job(i) /\ r.sql = i[1])
  BY <1>1, <1>2, AboutCompletes DEF Q
<1>5. job(i) \in A /\ i[1] \in Copying
  BY <1>1 DEF About, Settling, Copying
<1> HIDE DEF A, A2
<1>6. /\ Len(cache'[u]) <= 1 /\ redis_conn'
      /\ \A r \in A2 : r.sql = "insert_bonues_info" => r.arg[1] = "check"
  BY <1>1, <1>2, <1>3, <1>4, <1>5 DEF Copied, A
<1>7. history[u].doubt = "repairing" => \E r \in A2 : Checking(r)
  <2>1. ~Checking(job(i))
    BY <1>1 DEF Checking, Beginning
  <2> QED
    BY <1>1, <1>4, <2>1 DEF Copied, A
<1>8. ASSUME history[u].doubt # "yes"
      PROVE  /\ Few({"add_chip"}, u)' /\ Few(Copying, u)'
             /\ Sure(A2, ugame[u], <<job(i).arg>>, history[u].doubt)
  <2>1. /\ Few({"add_chip"}, u) /\ Few(Copying, u)
        /\ Sure(A, ugame[u], cache[u], history[u].doubt)
    BY <1>1, <1>8 DEF Copied, A
  <2>2. Few(Copying, u)' /\ \A r \in A2 : r.sql \notin Copying
    <3>1. Copying \subseteq Beginning \cup Settling
      BY DEF Settling
    <3> QED
      BY <1>1, <1>2, <1>5, <2>1, <3>1, FewCompletes DEF Q, A2
  <2>3. Few({"add_chip"}, u)'
    BY <1>1, <1>2, <2>1, FewStay DEF Q
  <2>4. \A r \in A : r.sql \notin Copying => r \in A2
    BY <1>4, <1>5
  <2> QED
    BY <1>1, <1>4, <1>5, <2>1, <2>2, <2>3, <2>4, SureWrites
<1> QED
  BY <1>2, <1>3, <1>6, <1>7, <1>8 DEF Copied, A2

\* Neither the pool nor the loop closes a connection.
LEMMA StaysConnected ==
  ASSUME NEW i, write_work(i) \/ (\E ret : query_work(i, ret)) \/ \E Q : on_query_complete(i, Q)
  PROVE  redis_conn' = redis_conn
<1>1. ASSUME UNCHANGED connections
      PROVE  redis_conn' = redis_conn
  BY <1>1 DEF connections
<1>2. UNCHANGED connections
  BY DEF write_work, query_work, query_fails, on_query_complete
<1> QED
  BY <1>1, <1>2

LEMMA UntouchedAll ==
  ASSUME NEW v, UNCHANGED <<ugame, cache, history, redis_conn>>
  PROVE  Untouched(v)
BY DEF Untouched

LEMMA SelectsOnly ==
  ASSUME NEW i, NEW u, select(i, u)
  PROVE  UNCHANGED <<ugame, cache, history, redis_conn>>
<1>1. \E ret : query_work(i, ret)
  BY DEF select
<1>2. UNCHANGED tables /\ UNCHANGED history
  BY DEF select
<1>3. UNCHANGED <<ugame, cache>>
  BY <1>2 DEF tables
<1> QED
  BY <1>1, <1>2, <1>3, StaysConnected

\* A statement executed for one user, and the copies of the others.
LEMMA StatementsAside ==
  ASSUME CopiesInv, NEW i \in InFlight, NEW u \in Users, job(i).uid = u, statements(i, u),
         NEW v \in Users, job(i).uid # v \/ i[1] \notin Beginning \cup Settling
  PROVE  Copied(v)'
<1>1. /\ TypesInv /\ SoundWork /\ GameTypes /\ Copied(v) /\ job(i).sql = i[1] /\ Sound(job(i))
      /\ history \in [Users -> History]
  BY InFlightSound DEF CopiesInv, BonusInv, TypesInv, GameTypes
<1>2. /\ ugame[u] \in Seq(Nat) /\ login_bonues[u] \in Seq(Bonus) /\ cache[u] \in Seq(Nat)
      /\ <<>> \in Seq(Nat) /\ <<>> \in Seq(Bonus) /\ <<>> \in Contents
  BY <1>1, SysMsgConstantsOK DEF GameTypes
<1>3. ASSUME Untouched(v), NEW err, NEW ret, Execute(i, err, ret),
             i[1] = "get_bonues_info" => ret \in Seq(Bonus),
             i[1] \in {"get_ugame_info", "hgetall"} => ret \in Seq(Nat),
             i[1] # "get_sys_msg"
      PROVE  Copied(v)'
  <2>1. Sound(After(job(i), err, ret))
    BY <1>1, <1>3, SoundAfter
  <2> QED
    BY <1>1, <1>3, <2>1, ExecutesAside
<1>4. ASSUME Untouched(v), Leaves(i, {})
      PROVE  Copied(v)'
  BY <1>1, <1>4, CompletesAside
<1>5. ASSUME Untouched(v), write_work(i), i[1] # "get_sys_msg"
      PROVE  Copied(v)'
  <2>1. PICK err : Execute(i, err, <<>>)
    BY <1>5, WriteExecutes
  <2> QED
    BY <1>2, <1>3, <1>5, <2>1
<1>6. CASE select(i, u)
  <2>1. Untouched(v)
    BY <1>6, SelectsOnly, UntouchedAll
  <2>2. CASE Queued(i, "get_ugame_info") /\ query_work(i, ugame[u])
    BY <1>2, <1>3, <2>1, <2>2 DEF Queued, query_work
  <2>3. CASE Queued(i, "get_bonues_info") /\ query_work(i, login_bonues[u])
    BY <1>2, <1>3, <2>1, <2>3 DEF Queued, query_work
  <2>4. CASE Queued(i, "hgetall") /\ query_work(i, cache[u])
    BY <1>2, <1>3, <2>1, <2>4 DEF Queued, query_work
  <2>5. CASE Queued(i, "zrevrange") /\ \E ret : query_work(i, ret)
    BY <1>3, <2>1, <2>5 DEF Queued, query_work
  <2> QED
    BY <1>6, <2>2, <2>3, <2>4, <2>5 DEF select
<1>7. CASE insert_ugame_info(i, u)
  <2>1. i[1] = "insert_ugame_info" /\ write_work(i)
    BY <1>7 DEF insert_ugame_info, Queued
  <2>2. u # v
    BY <2>1 DEF Beginning
  <2>3. /\ UNCHANGED <<cache, history>> /\ redis_conn' = redis_conn
        /\ ugame' = [ugame EXCEPT ![u] = Append(@, UCHIP)]
    BY <1>7, <2>1, StaysConnected DEF insert_ugame_info
  <2>4. ugame'[v] = ugame[v]
    BY <1>1, <2>2, <2>3 DEF GameTypes
  <2>5. Untouched(v)
    BY <2>3, <2>4 DEF Untouched
  <2> QED
    BY <1>5, <2>1, <2>5
<1>8. CASE insert_bonues_info(i, u)
  <2>1. i[1] # "get_sys_msg" /\ write_work(i) /\ UNCHANGED <<ugame, cache, history>>
    BY <1>8 DEF insert_bonues_info, Queued
  <2> QED
    BY <1>5, <2>1, StaysConnected, UntouchedAll
<1>9. CASE update_login_bonues(i, u)
  <2>1. /\ i[1] = "update_login_bonues" /\ write_work(i) /\ UNCHANGED <<ugame, cache>>
        /\ \E d : history' = [history EXCEPT ![u].granted = @ \cup {d}]
    BY <1>9 DEF update_login_bonues, Queued
  <2>2. history'[v].doubt = history[v].doubt
    BY <1>1, <2>1 DEF History
  <2>3. Untouched(v)
    BY <2>1, <2>2, StaysConnected DEF Untouched
  <2> QED
    BY <1>5, <2>1, <2>3
<1>10. CASE update_login_bonues_status(i, u)
  <2>1. i[1] # "get_sys_msg" /\ write_work(i) /\ UNCHANGED <<ugame, cache, history>>
    BY <1>10 DEF update_login_bonues_status, Queued
  <2> QED
    BY <1>5, <2>1, StaysConnected, UntouchedAll
<1>11. CASE add_chip(i, u)
  <2>1. u # v
    BY <1>11 DEF add_chip, Queued, Settling
  <2> DEFINE chips2 == [k \in DOMAIN ugame[u] |-> ugame[u][k] + job(i).arg]
  <2>2. /\ on_query_complete(i, {}) /\ cache' = cache
        /\ ugame' = [ugame EXCEPT ![u] = chips2]
        /\ history' = [history EXCEPT ![u].paid = @ + 1]
    BY <1>11 DEF add_chip
  <2> HIDE DEF chips2
  <2>3. ugame'[v] = ugame[v] /\ history'[v].doubt = history[v].doubt
    BY <1>1, <2>1, <2>2 DEF GameTypes
  <2>4. Leaves(i, {}) /\ Untouched(v)
    BY <2>2, <2>3, StaysConnected DEF on_query_complete, Leaves, Untouched
  <2> QED
    BY <1>4, <2>4
<1>12. CASE hmset(i, u)
  <2>1. u # v
    BY <1>12 DEF hmset, Queued, Settling, Copying
  <2>2. /\ on_query_complete(i, {}) /\ UNCHANGED <<ugame, history>>
        /\ cache' = [cache EXCEPT ![u] = <<job(i).arg>>]
    BY <1>12 DEF hmset
  <2>3. cache'[v] = cache[v]
    BY <1>1, <2>1, <2>2 DEF GameTypes
  <2>4. Leaves(i, {}) /\ Untouched(v)
    BY <2>2, <2>3, StaysConnected DEF on_query_complete, Leaves, Untouched
  <2> QED
    BY <1>4, <2>4
<1>13. CASE zadd(i, u)
  <2>1. on_query_complete(i, {}) /\ UNCHANGED <<ugame, cache, history>>
    BY <1>13 DEF zadd
  <2>2. Leaves(i, {}) /\ Untouched(v)
    BY <2>1, StaysConnected, UntouchedAll DEF on_query_complete, Leaves
  <2> QED
    BY <1>4, <2>2
<1>14. CASE nothing_done(i, u)
  <2>1. UNCHANGED <<ugame, cache>>
    BY <1>14 DEF nothing_done, tables
  <2>2. CASE /\ \E sql \in {"get_ugame_info", "insert_ugame_info", "get_bonues_info",
                            "insert_bonues_info", "update_login_bonues"} : Queued(i, sql)
             /\ query_fails(i)
             /\ UNCHANGED history
    <3>1. i[1] # "get_sys_msg" /\ write_work(i)
      BY <2>2 DEF Queued, write_work
    <3> QED
      BY <1>5, <2>1, <2>2, <3>1, StaysConnected, UntouchedAll
  <2>3. CASE /\ Queued(i, "update_login_bonues_status") /\ query_fails(i)
             /\ history' = [history EXCEPT ![u].unmarked = @ + 1]
    <3>1. history'[v].doubt = history[v].doubt
      BY <1>1, <2>3 DEF History
    <3>2. i[1] # "get_sys_msg" /\ write_work(i)
      BY <2>3 DEF Queued, write_work
    <3>3. Untouched(v)
      BY <2>1, <3>1, <3>2, StaysConnected DEF Untouched
    <3> QED
      BY <1>5, <3>2, <3>3
  <2>4. CASE /\ Queued(i, "add_chip") /\ UNCHANGED connections
             /\ work' = [work EXCEPT !["add_chip"] = RemoveAt(@, i[2])]
             /\ Doubt(u, "yes")
    <3>1. i[1] = "add_chip"
      BY <2>4 DEF Queued
    <3>2. u # v
      BY <3>1 DEF Settling
    <3>3. history'[v].doubt = history[v].doubt
      BY <1>1, <2>4, <3>2 DEF Doubt
    <3>4. Untouched(v)
      BY <2>1, <2>4, <3>3 DEF connections, Untouched
    <3>5. Leaves(i, {})
      BY <2>4, <3>1 DEF Leaves, With
    <3> QED
      BY <1>4, <3>4, <3>5
  <2> QED
    BY <1>14, <2>2, <2>3, <2>4 DEF nothing_done
<1> QED
  BY <1>6, <1>7, <1>8, <1>9, <1>10, <1>11, <1>12, <1>13, <1>14 DEF statements

\* A statement executed for a user, and its copy.
LEMMA StatementsCopy ==
  ASSUME CopiesInv, NEW i \in InFlight, NEW u \in Users, job(i).uid = u, statements(i, u),
         i[1] \in Beginning \cup Settling
  PROVE  Copied(u)'
<1>1. /\ TypesInv /\ SoundWork /\ GameTypes /\ Copied(u) /\ job(i).sql = i[1] /\ Sound(job(i))
      /\ history \in [Users -> History] /\ i[1] # "get_sys_msg"
  BY InFlightSound DEF CopiesInv, BonusInv, TypesInv, GameTypes, Beginning, Settling, Copying
<1>2. /\ ugame[u] \in Seq(Nat) /\ login_bonues[u] \in Seq(Bonus) /\ cache[u] \in Seq(Nat)
      /\ <<>> \in Seq(Nat) /\ <<>> \in Seq(Bonus)
  BY <1>1 DEF GameTypes
<1>3. \A chips : SameHead(chips, chips) /\ (chips # <<>> => Has(chips, Head(chips)))
  BY DEF SameHead, Has
<1>4. ASSUME NEW err, NEW ret, Execute(i, err, ret),
             i[1] \in Beginning \cup {"hgetall"}, Untouched(u), redis_conn' = redis_conn,
             i[1] = "get_bonues_info" => ret \in Seq(Bonus),
             i[1] = "get_ugame_info" => ret \in {<<>>, ugame[u]},
             i[1] = "hgetall" => ret = cache[u]
      PROVE  Copied(u)'
  <2>1. Sound(After(job(i), err, ret))
    BY <1>1, <1>2, <1>4, SoundAfter
  <2> QED
    BY <1>3, <1>4, <2>1, ExecutedCopies DEF Untouched
<1>5. ASSUME write_work(i), i[1] \in Beginning, Untouched(u), redis_conn' = redis_conn
      PROVE  Copied(u)'
  <2>1. PICK err : Execute(i, err, <<>>)
    BY <1>5, WriteExecutes
  <2>2. i[1] # "hgetall"
    BY <1>5 DEF Beginning
  <2> QED
    BY <1>2, <1>4, <1>5, <2>1, <2>2
<1>6. CASE select(i, u)
  <2>1. Untouched(u) /\ redis_conn' = redis_conn
    BY <1>6, SelectsOnly, UntouchedAll
  <2>2. CASE Queued(i, "get_ugame_info") /\ query_work(i, ugame[u])
    BY <1>4, <2>1, <2>2 DEF Queued, query_work, Beginning
  <2>3. CASE Queued(i, "get_bonues_info") /\ query_work(i, login_bonues[u])
    BY <1>2, <1>4, <2>1, <2>3 DEF Queued, query_work, Beginning
  <2>4. CASE Queued(i, "hgetall") /\ query_work(i, cache[u])
    BY <1>4, <2>1, <2>4 DEF Queued, query_work
  <2>5. ~ Queued(i, "zrevrange")
    BY DEF Queued, Beginning, Settling, Copying
  <2> QED
    BY <1>6, <2>2, <2>3, <2>4, <2>5 DEF select
<1>7. CASE insert_ugame_info(i, u)
  <2>1. /\ i[1] = "insert_ugame_info" /\ write_work(i) /\ UNCHANGED <<cache, history>>
        /\ ugame'[u] = Append(ugame[u], UCHIP)
    BY <1>1, <1>7 DEF insert_ugame_info, Queued, GameTypes
  <2>2. redis_conn' = redis_conn
    BY <2>1, StaysConnected
  <2>3. PICK err : Execute(i, err, <<>>)
    BY <2>1, WriteExecutes
  <2>4. Sound(After(job(i), err, <<>>))
    BY <1>1, <2>1, SoundAfter
  <2>5. SameHead(ugame[u], ugame'[u])
    <3>1. UCHIP \in Nat
      BY BonuesConstantsOK
    <3>2. /\ ugame'[u] \in Seq(Nat) /\ ugame'[u] # <<>>
          /\ \A k \in 1 .. Len(ugame[u]) : ugame'[u][k] = ugame[u][k]
      <4>1. ASSUME NEW c \in Seq(Nat)
            PROVE  /\ Append(c, UCHIP) \in Seq(Nat) /\ Append(c, UCHIP) # <<>>
                   /\ \A k \in 1 .. Len(c) : Append(c, UCHIP)[k] = c[k]
        BY <3>1, <4>1, AppendProperties
      <4> QED
        BY <1>2, <2>1, <4>1
    <3>3. ugame[u] # <<>> => 1 \in 1 .. Len(ugame[u]) /\ Head(ugame[u]) = ugame[u][1]
      BY <1>2, EmptySeq
    <3>4. Head(ugame'[u]) = ugame'[u][1]
      BY <3>2, HeadTailProperties
    <3> QED
      BY <3>2, <3>3, <3>4 DEF SameHead
  <2>6. i[1] # "get_ugame_info" /\ i[1] # "hgetall" /\ i[1] \in Beginning \cup {"hgetall"}
    BY <2>1 DEF Beginning
  <2>7. cache'[u] = cache[u] /\ history'[u].doubt = history[u].doubt
    BY <2>1
  <2> QED
    BY <2>2, <2>3, <2>4, <2>5, <2>6, <2>7, ExecutedCopies
<1>8. CASE insert_bonues_info(i, u)
  <2>1. i[1] \in Beginning /\ write_work(i) /\ UNCHANGED <<ugame, cache, history>>
    BY <1>8 DEF insert_bonues_info, Queued, Beginning
  <2> QED
    BY <1>5, <2>1, StaysConnected, UntouchedAll
<1>9. CASE update_login_bonues(i, u)
  <2>1. /\ i[1] = "update_login_bonues" /\ write_work(i) /\ UNCHANGED <<ugame, cache>>
        /\ \E d : history' = [history EXCEPT ![u].granted = @ \cup {d}]
    BY <1>9 DEF update_login_bonues, Queued
  <2>2. history'[u].doubt = history[u].doubt
    BY <1>1, <2>1 DEF History
  <2>3. i[1] \in Beginning /\ Untouched(u) /\ redis_conn' = redis_conn
    BY <2>1, <2>2, StaysConnected DEF Untouched, Beginning
  <2> QED
    BY <1>5, <2>1, <2>3
<1>10. CASE add_chip(i, u)
  BY <1>10, PaidCopies
<1>11. CASE hmset(i, u)
  BY <1>11, WrittenCopies
<1>12. CASE nothing_done(i, u)
  <2>1. UNCHANGED <<ugame, cache>>
    BY <1>12 DEF nothing_done, tables
  <2>2. CASE /\ \E sql \in {"get_ugame_info", "insert_ugame_info", "get_bonues_info",
                            "insert_bonues_info", "update_login_bonues"} : Queued(i, sql)
             /\ query_fails(i)
             /\ UNCHANGED history
    <3>1. i[1] \in Beginning /\ write_work(i)
      BY <2>2 DEF Queued, write_work, Beginning
    <3> QED
      BY <1>5, <2>1, <2>2, <3>1, StaysConnected, UntouchedAll
  <2>3. CASE /\ Queued(i, "add_chip") /\ UNCHANGED connections
             /\ work' = [work EXCEPT !["add_chip"] = RemoveAt(@, i[2])]
             /\ Doubt(u, "yes")
    <3> DEFINE Q == {}
    <3>1. i[1] = "add_chip"
      BY <2>3 DEF Queued
    <3>2. Leaves(i, Q) /\ Q = {}
      BY <2>3, <3>1 DEF Leaves, With
    <3> HIDE DEF Q
    <3>3. history'[u].doubt = "yes" /\ redis_conn' = redis_conn
      BY <1>1, <2>3 DEF Doubt, connections, History
    <3>4. About(u)' \subseteq About(u)
      BY <1>1, <3>2, AboutGrows
    <3> QED
      BY <1>1, <2>1, <3>3, <3>4 DEF Copied
  <2>4. ~ Queued(i, "update_login_bonues_status")
    BY DEF Queued, Beginning, Settling, Copying
  <2> QED
    BY <1>12, <2>2, <2>3, <2>4 DEF nothing_done
<1>13. ~ (zadd(i, u) \/ update_login_bonues_status(i, u))
  BY DEF zadd, update_login_bonues_status, Queued, Beginning, Settling, Copying
<1> QED
  BY <1>6, <1>7, <1>8, <1>9, <1>10, <1>11, <1>12, <1>13 DEF statements

\* What a query of the service does to a user's copy.
LEMMA WorksCopy ==
  ASSUME CopiesInv, BonusInv', bonues_works, UNCHANGED connections, NEW v \in Users
  PROVE  Copied(v)'
<1>1. PICK i \in InFlight : \E u \in {job(i).uid} \cap Users :
        \/ handlers(i, u) /\ UNCHANGED tables
        \/ statements(i, u)
  BY DEF bonues_works
<1>2. PICK u \in Users : job(i).uid = u /\ (statements(i, u) \/ (handlers(i, u) /\ UNCHANGED tables))
  BY <1>1
<1>3. UNCHANGED redis_conn
  BY DEF connections
<1>4. CASE handlers(i, u) /\ UNCHANGED tables
  BY <1>2, <1>3, <1>4, HandlersCopy
<1>5. CASE statements(i, u) /\ v = u /\ i[1] \in Beginning \cup Settling
  BY <1>2, <1>5, StatementsCopy
<1>6. CASE statements(i, u) /\ (v # u \/ i[1] \notin Beginning \cup Settling)
  BY <1>2, <1>6, StatementsAside
<1> QED
  BY <1>2, <1>4, <1>5, <1>6

\* A user who is not busy has nothing in flight about its chips.
LEMMA IdleAbout ==
  ASSUME NEW u, ~Busy(u)
  PROVE  About(u) = {}
<1>1. \A sql \in Beginning \cup Settling : sql \notin Ranking
  BY DEF Beginning, Settling, Copying, Ranking
<1>2. \A k \in InFlight : ~ (k[1] \in Beginning \cup Settling /\ job(k).uid = u)
  BY <1>1 DEF Busy
<1> QED
  BY <1>2 DEF About

\* A login or a payment is asked for: it begins with nothing else in flight, or it
\* raises a doubt.
LEMMA AskedCopies ==
  ASSUME CopiesInv, NEW u \in Users, NEW sql \in {"get_ugame_info", "get_bonues_info"},
         NEW arg, arg[1] # "check" \/ sql # "get_bonues_info", Asks(u, sql, arg),
         NEW doubt, Doubt(u, doubt), Busy(u) => doubt = "yes",
         doubt = "none" => history[u].doubt = "none",
         doubt = "repairing" => sql = "get_ugame_info" \/ history[u].doubt = "repairing"
  PROVE  Copied(u)'
<1> DEFINE q == query(sql, u, arg)
           A2 == About(u)'
<1>1. /\ SoundWork /\ Copied(u) /\ GameTypes /\ history \in [Users -> History]
  BY DEF CopiesInv, BonusInv, TypesInv, GameTypes
<1>2. Sound(q) /\ q.sql = sql /\ q.uid = u /\ q.arg = arg
  BY NewQuery
<1>3. q.ret = <<>>
  BY DEF query
<1>4. /\ work' = With({q}, work) /\ UNCHANGED <<tables, connections>>
  BY DEF Asks, Asked, Query
<1> HIDE DEF q
<1>5. UNCHANGED <<ugame, cache, redis_conn>> /\ history'[u].doubt = doubt
  BY <1>1, <1>4 DEF tables, connections, Doubt, History
<1>6. q.sql \in Sqls /\ q.sql \in Beginning
  BY <1>2 DEF Sqls, Statements, Beginning
<1>7. A2 = About(u) \cup {q}
  BY <1>1, <1>2, <1>4, <1>6, AboutMakes
<1> HIDE DEF A2
<1>8. /\ Len(cache'[u]) <= 1 /\ (cache'[u] # <<>> => redis_conn')
      /\ \A r \in A2 : /\ r.sql \in Copying => redis_conn'
                       /\ r.sql = "insert_bonues_info" => r.arg[1] = "check"
  BY <1>1, <1>2, <1>5, <1>6, <1>7 DEF Copied, Copying
<1>9. CASE Busy(u)
  BY <1>5, <1>8, <1>9 DEF Copied, A2
<1>10. CASE ~Busy(u)
  <2>1. About(u) = {} /\ history[u].doubt # "repairing"
    BY <1>1, <1>10, IdleAbout DEF Copied
  <2>2. doubt = "repairing" => Checking(q)
    BY <1>2, <1>6, <2>1 DEF Checking
  <2>3. \A A : Carries(q, A, ugame[u], cache[u])
    BY <1>2, <1>3 DEF Carries
  <2>4. Sure(A2, ugame[u], cache[u], doubt)
    <3>1. doubt = "none" => CopySettles(cache[u], 0, About(u), ugame[u])
      BY <1>1, <2>1 DEF Copied, Sure
    <3>2. \A r \in About(u) : r.sql \notin Settling
      BY <2>1
    <3>3. \A r \in A2 : r.sql \in Beginning /\ Carries(r, A2, ugame[u], cache[u])
      BY <1>6, <1>7, <2>1, <2>3
    <3> QED
      BY <3>1, <3>2, <3>3, SureBegins
  <2>5. ASSUME NEW T \in {{"add_chip"}, Copying}
        PROVE  Few(T, u)'
    <3>1. T \subseteq Beginning \cup Settling /\ q.sql \notin T
      BY <1>6 DEF Beginning, Settling, Copying
    <3>2. Places(work, T, u) = {k \in InFlight : k[1] \in T /\ job(k).uid = u}
      BY DEF Places, InFlight, job
    <3>3. \A k \in InFlight : k[1] \in T /\ job(k).uid = u => job(k) \in About(u)
      BY <3>1 DEF About
    <3>4. Places(work, T, u) = {}
      BY <2>1, <3>2, <3>3
    <3> DEFINE Q == {q}
    <3>5. work' = With(Q, work) /\ \A p \in Q : p = q
      BY <1>4
    <3> HIDE DEF Q
    <3>6. Places(work', T, u) = Places(work, T, u)
      BY <1>1, <1>2, <1>6, <3>1, <3>5, Makes
    <3> QED
      BY <3>4, <3>6, FS_EmptySet DEF Few
  <2>6. doubt = "repairing" => \E r \in A2 : Checking(r)
    BY <1>7, <2>2
  <2> QED
    BY <1>5, <1>8, <2>4, <2>5, <2>6 DEF Copied, A2
<1> QED
  BY <1>9, <1>10

\* A user asks.
LEMMA asksCopy ==
  ASSUME CopiesInv, asks, NEW v \in Users
  PROVE  Copied(v)'
<1>1. PICK u \in Users : get_ugame_info(u) \/ recv_login_bonues(u) \/ get_world_uchip_rank(u)
  BY DEF asks
<1>2. SoundWork /\ Copied(v) /\ history \in [Users -> History]
  BY DEF CopiesInv, BonusInv, TypesInv, GameTypes
<1>3. ASSUME NEW sql \in {"get_ugame_info", "get_bonues_info", "zrevrange"}, NEW arg,
             arg[1] # "check" \/ sql # "get_bonues_info", Asks(u, sql, arg),
             history'[v].doubt = history[v].doubt, v # u \/ sql = "zrevrange"
      PROVE  Copied(v)'
  <2> DEFINE q == query(sql, u, arg)
  <2>1. Sound(q) /\ q.sql = sql /\ q.uid = u
    BY <1>3, NewQuery
  <2>2. work' = With({q}, work) /\ UNCHANGED <<tables, connections>>
    BY <1>3 DEF Asks, Asked, Query
  <2> HIDE DEF q
  <2>3. Untouched(v)
    BY <1>3, <2>2 DEF tables, connections, Untouched
  <2>4. q.sql \in Sqls /\ (q.uid # v \/ q.sql \notin Beginning \cup Settling)
    BY <1>3, <2>1 DEF Sqls, Statements, Beginning, Settling, Copying
  <2> QED
    BY <1>2, <2>1, <2>2, <2>3, <2>4, MakesAside
<1>4. ASSUME NEW doubt, Doubt(u, doubt), v # u
      PROVE  history'[v].doubt = history[v].doubt
  BY <1>2, <1>4 DEF Doubt
<1>5. CASE get_ugame_info(u)
  <2> DEFINE doubt == CASE Busy(u) -> "yes"
                        [] ~Busy(u) /\ history[u].doubt = "yes" -> "repairing"
                        [] OTHER -> history[u].doubt
             arg == <<"check">>
  <2>1. Asks(u, "get_ugame_info", arg) /\ Doubt(u, doubt)
    BY <1>5 DEF get_ugame_info
  <2>2. /\ Busy(u) => doubt = "yes"
        /\ doubt = "none" => history[u].doubt = "none"
    OBVIOUS
  <2> HIDE DEF doubt, arg
  <2>3. CASE v = u
    BY <2>1, <2>2, <2>3, AskedCopies
  <2>4. CASE v # u
    BY <1>3, <1>4, <2>1, <2>4
  <2> QED
    BY <2>3, <2>4
<1>6. CASE recv_login_bonues(u)
  <2> DEFINE doubt == IF Busy(u) THEN "yes" ELSE history[u].doubt
             arg == <<"recv">>
  <2>1. Asks(u, "get_bonues_info", arg) /\ Doubt(u, doubt) /\ arg[1] # "check"
    BY <1>6 DEF recv_login_bonues
  <2>2. /\ Busy(u) => doubt = "yes"
        /\ ~Busy(u) => doubt = history[u].doubt
    OBVIOUS
  <2> HIDE DEF doubt, arg
  <2>3. CASE v = u
    BY <2>1, <2>2, <2>3, AskedCopies
  <2>4. CASE v # u
    BY <1>3, <1>4, <2>1, <2>4
  <2> QED
    BY <2>3, <2>4
<1>7. CASE get_world_uchip_rank(u)
  <2>1. Asks(u, "zrevrange", <<>>) /\ history' = history
    BY <1>7 DEF get_world_uchip_rank
  <2> QED
    BY <1>3, <2>1
<1> QED
  BY <1>1, <1>5, <1>6, <1>7

\* Nothing of the game data happens, but Redis may be connected.
LEMMA IdleCopies ==
  ASSUME NEW v \in Users, Copied(v), UNCHANGED <<work, ugame, cache, history>>,
         redis_conn => redis_conn'
  PROVE  Copied(v)'
<1>1. Untouched(v)
  BY DEF Untouched
<1>2. About(v)' = About(v)
  BY DEF About, InFlight, job
<1>3. \A T : Few(T, v) => Few(T, v)'
  BY DEF Few
<1> QED
  BY <1>1, <1>2, <1>3, CopiedStays

\* The messages' queries are nobody's.
LEMMA messages_workCopies ==
  ASSUME CopiesInv, sys_msg_works, UNCHANGED <<day, connections, bonuesVars>>, NEW v \in Users
  PROVE  Copied(v)'
<1>1. /\ TypesInv /\ SoundWork /\ Copied(v) /\ SysMsgTypes
      /\ UNCHANGED <<ugame, cache, history, redis_conn>>
  BY DEF CopiesInv, BonusInv, TypesInv, bonuesVars, tables, connections
<1>2. Untouched(v) /\ "get_sys_msg" \notin Beginning \cup Settling /\ "get_sys_msg" \in Sqls
  BY <1>1 DEF Untouched, Beginning, Settling, Copying, Sqls
<1>3. <<>> \in Contents /\ sys_msg \in Contents
  BY <1>1, SysMsgConstantsOK DEF SysMsgTypes
<1>4. CASE load_sys_msg
  <2>1. Query("get_sys_msg", 0, <<>>) \/ UNCHANGED database
    BY <1>4 DEF load_sys_msg
  <2>2. CASE Query("get_sys_msg", 0, <<>>)
    <3> DEFINE q == query("get_sys_msg", 0, <<>>)
    <3>1. Sound(q) /\ q.sql = "get_sys_msg" /\ work' = With({q}, work)
      BY <2>2, NewQuery DEF Statements, Query
    <3> HIDE DEF q
    <3> QED
      BY <1>1, <1>2, <3>1, MakesAside
  <2>3. CASE UNCHANGED database
    BY <1>1, <2>3, IdleCopies DEF database
  <2> QED
    BY <2>1, <2>2, <2>3
<1>5. CASE select_sys_msg
  <2>1. PICK i \in InFlight :
          Queued(i, "get_sys_msg") /\ (query_work(i, sys_msg) \/ query_fails(i))
    BY <1>5 DEF select_sys_msg
  <2>2. i[1] = "get_sys_msg"
    BY <2>1 DEF Queued
  <2>3. PICK err : \E ret \in Contents : Execute(i, err, ret)
    BY <1>3, <2>1 DEF query_work, query_fails
  <2>4. PICK ret \in Contents : Execute(i, err, ret)
    BY <2>3
  <2>5. Sound(After(job(i), err, ret))
    <3>1. Sound(job(i)) /\ job(i).sql = i[1]
      BY <1>1, InFlightSound
    <3> QED
      BY <2>2, <3>1, SoundAfter
  <2> QED
    BY <1>1, <1>2, <2>2, <2>4, <2>5, ExecutesAside
<1>6. CASE on_get_sys_msg
  <2>1. PICK i \in InFlight : Ran(i, "get_sys_msg") /\ on_query_complete(i, {})
    BY <1>6 DEF on_get_sys_msg
  <2>2. i[1] = "get_sys_msg" /\ Leaves(i, {})
    BY <2>1 DEF Ran, on_query_complete, Leaves
  <2> QED
    BY <1>1, <1>2, <2>2, CompletesAside
<1> QED
  BY <1>4, <1>5, <1>6 DEF sys_msg_works

\* Every copy stays as it is known, when users are patient.
LEMMA NextCopies ==
  ASSUME CopiesInv, VersionNamesData, ~Impatient, [Next]_vars
  PROVE  CopiesInv'
<1>1. BonusInv'
  BY NextBalances DEF CopiesInv
<1>2. ASSUME NEW v \in Users
      PROVE  Copied(v)'
  <2>1. Copied(v)
    BY DEF CopiesInv
  <2>2. CASE works
    <3>1. CASE game_data_works
      <4>1. bonues_works /\ UNCHANGED connections
        BY <2>2, <3>1 DEF works, game_data_works
      <4> QED
        BY <1>1, <4>1, WorksCopy
    <3>2. CASE messages_work
      <4>1. sys_msg_works /\ UNCHANGED <<day, connections, bonuesVars>>
        BY <2>2, <3>2 DEF works, messages_work
      <4> QED
        BY <4>1, messages_workCopies
    <3> QED
      BY <2>2, <3>1, <3>2 DEF works
  <2>3. CASE asks /\ UNCHANGED <<day, sysMsgVars, part>>
    BY <2>3, asksCopy
  <2> DEFINE idle == UNCHANGED <<work, bonuesVars>> /\ (redis_conn => redis_conn')
  <2>4. CASE idle
    <3>1. UNCHANGED <<work, ugame, cache, history>>
      BY <2>4 DEF bonuesVars, tables
    <3> QED
      BY <2>1, <2>4, <3>1, IdleCopies
  <2>5. works \/ (asks /\ UNCHANGED <<day, sysMsgVars, part>>) \/ idle
    <3>1. CASE (mysql_connect \/ redis_connect) /\ UNCHANGED <<day, bonuesVars, sysMsgVars, part>>
      BY <3>1 DEF mysql_connect, redis_connect
    <3>2. CASE midnight /\ UNCHANGED <<database, bonuesVars, sysMsgVars, part>>
      BY <3>2 DEF database, connections
    <3>3. CASE (edit \/ get_sys_msg) /\ UNCHANGED <<day, bonuesVars, part>>
      BY <3>3 DEF edit, get_sys_msg, Asked, connections
    <3>4. CASE UNCHANGED vars
      BY <3>4 DEF vars, database, connections
    <3> HIDE DEF idle
    <3>5. \/ works
          \/ ((mysql_connect \/ redis_connect) /\ UNCHANGED <<day, bonuesVars, sysMsgVars, part>>)
          \/ (midnight /\ UNCHANGED <<database, bonuesVars, sysMsgVars, part>>)
          \/ (asks /\ UNCHANGED <<day, sysMsgVars, part>>)
          \/ ((edit \/ get_sys_msg) /\ UNCHANGED <<day, bonuesVars, part>>)
          \/ UNCHANGED vars
      BY Zenon DEF Next
    <3> QED
      BY <3>1, <3>2, <3>3, <3>4, <3>5
  <2> QED
    BY <2>2, <2>3, <2>4, <2>5
<1> QED
  BY <1>1, <1>2 DEF CopiesInv

\* At first there is no copy.
LEMMA InitCopies ==
  ASSUME Init
  PROVE  CopiesInv
<1>1. BonusInv
  BY InitBalances
<1>2. DatabaseInit(Sqls) /\ BonuesInit
  BY Zenon DEF Init, Sqls
<1>3. work = [sql \in Sqls |-> <<>>] /\ InFlight = {}
  BY <1>2 DEF DatabaseInit, InFlight
<1>4. ASSUME NEW u \in Users
      PROVE  Copied(u)
  <2>1. About(u) = {} /\ cache[u] = <<>> /\ history[u].doubt = "none" /\ Len(<<>>) <= 1
    BY <1>2, <1>3 DEF About, BonuesInit
  <2>2. \A T : Places(work, T, u) = {}
    BY <1>3 DEF Places
  <2>3. \A T : Few(T, u)
    BY <2>2, FS_EmptySet DEF Few
  <2>4. Sure({}, ugame[u], <<>>, "none")
    BY DEF Sure, CopySettles
  <2> QED
    BY <2>1, <2>3, <2>4 DEF Copied
<1> QED
  BY <1>1, <1>4 DEF CopiesInv

\* When nothing of a patient user is in flight, Redis has the chips of MySQL, unless
\* requests overlapped or a payment failed, whatever the order in which the queries of
\* a login and of a payment are executed and handled, in MySQL and in Redis.
THEOREM CopiesAgree == Spec => []CacheAgrees
<1>1. CASE Impatient
  <2>1. CacheAgrees
    BY <1>1 DEF CacheAgrees
  <2> QED
    BY <2>1, PTL
<1>2. CASE ~Impatient
  <2>1. Init => CopiesInv /\ VersionNamesData
    BY InitTypes, InitCopies
  <2>2. CopiesInv /\ VersionNamesData /\ [Next]_vars => (CopiesInv /\ VersionNamesData)'
    BY <1>2, NextTypes, NextCopies DEF CopiesInv, BonusInv
  <2>3. CopiesInv => CacheAgrees
    <3>1. SUFFICES ASSUME CopiesInv, NEW u \in Users,
                          ~Busy(u), cache[u] # <<>>, history[u].doubt = "none"
                   PROVE  cache[u] = <<Head(ugame[u])>>
      BY DEF CacheAgrees
    <3>2. About(u) = {} /\ Copied(u) /\ cache[u] \in Seq(Nat)
      BY <3>1, IdleAbout DEF CopiesInv, BonusInv, TypesInv, GameTypes
    <3>3. Len(cache[u]) <= 1 /\ Head(cache[u]) + 0 = Head(ugame[u])
      BY <3>1, <3>2 DEF Copied, Sure, CopySettles, Settles
    <3>4. Head(cache[u]) \in Nat
      BY <3>1, <3>2, HeadTailProperties
    <3>5. Head(cache[u]) = Head(ugame[u])
      BY <3>3, <3>4
    <3> HIDE DEF CopiesInv
    <3> QED
      BY <3>1, <3>2, <3>3, <3>5
  <2> QED
    BY <2>1, <2>2, <2>3, PTL DEF Spec
<1> QED
  BY <1>1, <1>2
=============================================================================
