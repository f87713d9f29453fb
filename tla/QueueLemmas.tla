----------------------------- MODULE QueueLemmas -----------------------------
(***************************************************************************)
(* Lemmas about sequences from which any element may be removed, and about *)
(* the queries in flight: per statement, such a sequence of its queries.   *)
(***************************************************************************)
EXTENDS SequencesExt, SequenceTheorems, FiniteSetTheorems, FunctionTheorems, TLAPS

\* Without an element, a sequence has the others, those after it one place earlier.
LEMMA RemoveAtIndex ==
  ASSUME NEW S, NEW q \in Seq(S), NEW i \in DOMAIN q
  PROVE  /\ RemoveAt(q, i) \in Seq(S)
         /\ DOMAIN RemoveAt(q, i) = 1 .. Len(q) - 1
         /\ \A j \in 1 .. Len(q) - 1 :
              /\ j < i => j \in 1 .. Len(q) /\ RemoveAt(q, i)[j] = q[j]
              /\ j >= i => j + 1 \in 1 .. Len(q) /\ RemoveAt(q, i)[j] = q[j + 1]
<1>1. i \in 1 .. Len(q) /\ Len(q) \in Nat /\ \A k \in 1 .. Len(q) : q[k] \in S
  OBVIOUS
<1> DEFINE a == SubSeq(q, 1, i - 1)
           b == SubSeq(q, i + 1, Len(q))
           r == RemoveAt(q, i)
<1>2. a \in Seq(S) /\ Len(a) = i - 1 /\ \A j \in 1 .. i - 1 : a[j] = q[j]
  BY <1>1, SubSeqProperties
<1>3. b \in Seq(S) /\ Len(b) = Len(q) - i /\ \A j \in 1 .. Len(q) - i : b[j] = q[i + j]
  BY <1>1, SubSeqProperties
<1>4. r = a \o b
  BY DEF RemoveAt
<1> HIDE DEF a, b, r
<1>5. /\ r \in Seq(S)
      /\ Len(r) = Len(a) + Len(b)
      /\ \A j \in 1 .. Len(a) + Len(b) : r[j] = IF j <= Len(a) THEN a[j] ELSE b[j - Len(a)]
  BY <1>2, <1>3, <1>4, ConcatProperties
<1>6. Len(r) = Len(q) - 1 /\ DOMAIN r = 1 .. Len(q) - 1
  BY <1>1, <1>2, <1>3, <1>5
<1> DEFINE n == Len(q)
<1>0. n \in Nat /\ i \in Int /\ 1 <= i /\ i <= n
  BY <1>1
<1> HIDE DEF n
<1>7. ASSUME NEW j \in 1 .. n - 1, j <= i - 1
      PROVE  r[j] = q[j] /\ j \in 1 .. n
  <2>1. j \in 1 .. i - 1 /\ j \in 1 .. (i - 1) + (n - i) /\ j \in 1 .. n
    BY <1>0, <1>7
  <2>2. r[j] = a[j]
    BY <1>2, <1>3, <1>5, <1>7, <2>1 DEF n
  <2> QED
    BY <2>1, <2>2, <1>2
<1>8. ASSUME NEW j \in 1 .. n - 1, ~ (j <= i - 1)
      PROVE  r[j] = q[j + 1] /\ j + 1 \in 1 .. n
  <2>1. /\ j - (i - 1) \in 1 .. n - i /\ i + (j - (i - 1)) = j + 1
        /\ j \in 1 .. (i - 1) + (n - i) /\ j + 1 \in 1 .. n
    BY <1>0, <1>8
  <2>2. r[j] = b[j - (i - 1)]
    BY <1>2, <1>3, <1>5, <1>8, <2>1 DEF n
  <2>3. b[j - (i - 1)] = q[j + 1]
    BY <2>1, <1>3 DEF n
  <2> QED
    BY <2>1, <2>2, <2>3
<1>9. \A j \in 1 .. n - 1 :
        /\ j < i => j \in 1 .. n /\ r[j] = q[j]
        /\ j >= i => j + 1 \in 1 .. n /\ r[j] = q[j + 1]
  BY <1>0, <1>7, <1>8
<1> QED
  BY <1>5, <1>6, <1>9 DEF r, n

\* Without an element, a sequence has only elements it had before.
LEMMA RemoveAtElements ==
  ASSUME NEW S, NEW q \in Seq(S), NEW i \in DOMAIN q
  PROVE  /\ RemoveAt(q, i) \in Seq(S)
         /\ \A j \in DOMAIN RemoveAt(q, i) : \E k \in DOMAIN q : RemoveAt(q, i)[j] = q[k]
<1> DEFINE r == RemoveAt(q, i)
<1>1. /\ r \in Seq(S) /\ DOMAIN r = 1 .. Len(q) - 1
      /\ \A j \in 1 .. Len(q) - 1 :
           /\ j < i => j \in 1 .. Len(q) /\ r[j] = q[j]
           /\ j >= i => j + 1 \in 1 .. Len(q) /\ r[j] = q[j + 1]
  BY RemoveAtIndex
<1>2. DOMAIN q = 1 .. Len(q) /\ Len(q) \in Nat
  OBVIOUS
<1>3. i \in Int /\ \A j \in 1 .. Len(q) - 1 : j < i \/ j >= i
  BY <1>2
<1> HIDE DEF r
<1>4. \A j \in DOMAIN r : \E k \in DOMAIN q : r[j] = q[k]
  BY <1>1, <1>2, <1>3
<1> QED
  BY <1>1, <1>4 DEF r

-----------------------------------------------------------------------------
(* Queries in flight *)

\* Queries from S, each among those of its statement.
Pool(sqls, S) ==
  {w \in [sqls -> Seq(S)] : \A sql \in sqls : \A k \in DOMAIN w[sql] : w[sql][k].sql = sql}

\* Where a user's queries for statements T are.
Places(w, T, u) ==
  {i \in UNION {{sql} \X DOMAIN w[sql] : sql \in DOMAIN w} :
     i[1] \in T /\ w[i[1]][i[2]].uid = u}

\* Queries are made, at most one of a statement.
More(queries, w) ==
  [sql \in DOMAIN w |->
     IF \E q \in queries : q.sql = sql
     THEN Append(w[sql], CHOOSE q \in queries : q.sql = sql) ELSE w[sql]]

\* The nth query of a statement is taken out.
Less(w, s, n) == [w EXCEPT ![s] = RemoveAt(@, n)]

\* What the elements of a pool are.
LEMMA PoolElements ==
  ASSUME NEW sqls, NEW S, NEW w \in Pool(sqls, S), NEW sql \in sqls, NEW k \in DOMAIN w[sql]
  PROVE  w[sql] \in Seq(S) /\ w[sql][k] \in S /\ w[sql][k].sql = sql
BY ElementOfSeq DEF Pool

\* Where the elements of a pool are.
LEMMA PoolPlaces ==
  ASSUME NEW sqls, NEW S, NEW w \in Pool(sqls, S)
  PROVE  \A k : k \in UNION {{sql} \X DOMAIN w[sql] : sql \in DOMAIN w}
                <=> k = <<k[1], k[2]>> /\ k[1] \in sqls /\ k[2] \in DOMAIN w[k[1]]
<1>1. DOMAIN w = sqls
  BY DEF Pool
<1>2. ASSUME NEW k \in UNION {{sql} \X DOMAIN w[sql] : sql \in DOMAIN w}
      PROVE  k = <<k[1], k[2]>> /\ k[1] \in sqls /\ k[2] \in DOMAIN w[k[1]]
  BY <1>1
<1>3. ASSUME NEW k, k = <<k[1], k[2]>>, k[1] \in sqls, k[2] \in DOMAIN w[k[1]]
      PROVE  k \in UNION {{sql} \X DOMAIN w[sql] : sql \in DOMAIN w}
  <2>1. k \in {k[1]} \X DOMAIN w[k[1]]
    BY <1>3
  <2> QED
    BY <1>1, <1>3, <2>1
<1> QED
  BY <1>2, <1>3

\* A pool whose queries meet a weaker condition.
LEMMA PoolGrows ==
  ASSUME NEW sqls, NEW S, NEW w \in Pool(sqls, S), NEW T, S \subseteq T
  PROVE  w \in Pool(sqls, T)
<1>1. \A sql \in sqls : w[sql] \in Seq(T)
  BY SeqMonotonic DEF Pool
<1> QED
  BY <1>1 DEF Pool

\* Without queries there is a pool.
LEMMA PoolEmpty ==
  ASSUME NEW sqls, NEW S
  PROVE  [sql \in sqls |-> <<>>] \in Pool(sqls, S)
BY DEF Pool

\* Queries are made.
LEMMA PoolMore ==
  ASSUME NEW sqls, NEW S, NEW w \in Pool(sqls, S), NEW queries \in SUBSET S
  PROVE  More(queries, w) \in Pool(sqls, S)
<1> DEFINE more == More(queries, w)
<1>1. /\ DOMAIN w = sqls
      /\ more = [sql \in sqls |->
                   IF \E q \in queries : q.sql = sql
                   THEN Append(w[sql], CHOOSE q \in queries : q.sql = sql) ELSE w[sql]]
  BY DEF Pool, More
<1> HIDE DEF more
<1>2. ASSUME NEW sql \in sqls
      PROVE  more[sql] \in Seq(S) /\ \A k \in DOMAIN more[sql] : more[sql][k].sql = sql
  <2>1. w[sql] \in Seq(S) /\ \A k \in DOMAIN w[sql] : w[sql][k].sql = sql
    BY DEF Pool
  <2>2. CASE \E q \in queries : q.sql = sql
    <3>1. PICK q \in S : q = (CHOOSE p \in queries : p.sql = sql) /\ q.sql = sql
      BY <2>2
    <3> DEFINE a == Append(w[sql], q)
    <3>2. more[sql] = a
      BY <1>1, <2>2, <3>1
    <3>3. /\ a \in Seq(S) /\ Len(a) = Len(w[sql]) + 1
          /\ \A k \in 1 .. Len(w[sql]) : a[k] = w[sql][k]
          /\ a[Len(w[sql]) + 1] = q
      BY <2>1, AppendProperties
    <3>4. DOMAIN w[sql] = 1 .. Len(w[sql]) /\ Len(w[sql]) \in Nat
      BY <2>1
    <3>5. DOMAIN a = 1 .. Len(w[sql]) + 1
      BY <3>3, LenProperties
    <3> HIDE DEF a
    <3>6. ASSUME NEW k \in DOMAIN a
          PROVE  a[k].sql = sql
      <4>1. k \in 1 .. Len(w[sql]) \/ k = Len(w[sql]) + 1
        BY <3>4, <3>5
      <4> QED
        BY <4>1, <2>1, <3>1, <3>3, <3>4
    <3> QED
      BY <3>2, <3>3, <3>6
  <2>3. CASE ~ (\E q \in queries : q.sql = sql)
    BY <1>1, <2>1, <2>3
  <2> QED
    BY <2>2, <2>3
<1> QED
  BY <1>1, <1>2 DEF Pool, more

\* A query is taken out.
LEMMA PoolLess ==
  ASSUME NEW sqls, NEW S, NEW w \in Pool(sqls, S), NEW s \in sqls, NEW n \in DOMAIN w[s]
  PROVE  Less(w, s, n) \in Pool(sqls, S)
<1> DEFINE less == Less(w, s, n)
<1>1. w[s] \in Seq(S) /\ \A k \in DOMAIN w[s] : w[s][k].sql = s
  BY DEF Pool
<1>2. /\ RemoveAt(w[s], n) \in Seq(S)
      /\ \A k \in DOMAIN RemoveAt(w[s], n) : RemoveAt(w[s], n)[k].sql = s
  BY <1>1, RemoveAtElements
<1>3. \A sql \in sqls : less[sql] = IF sql = s THEN RemoveAt(w[s], n) ELSE w[sql]
  BY DEF Pool, Less
<1>4. DOMAIN less = sqls /\ less = [sql \in sqls |-> less[sql]]
  BY DEF Pool, Less
<1> HIDE DEF less
<1>5. \A sql \in sqls : less[sql] \in Seq(S) /\ \A k \in DOMAIN less[sql] : less[sql][k].sql = sql
  BY <1>2, <1>3 DEF Pool
<1> QED
  BY <1>4, <1>5 DEF Pool, less

\* A query changes.
LEMMA PoolChange ==
  ASSUME NEW sqls, NEW S, NEW w \in Pool(sqls, S), NEW s \in sqls, NEW n \in DOMAIN w[s],
         NEW q \in S, q.sql = s
  PROVE  [w EXCEPT ![s][n] = q] \in Pool(sqls, S)
<1> DEFINE new == [w EXCEPT ![s][n] = q]
<1>1. w[s] \in Seq(S) /\ \A k \in DOMAIN w[s] : w[s][k].sql = s
  BY DEF Pool
<1>2. /\ [w[s] EXCEPT ![n] = q] \in Seq(S)
      /\ \A k \in DOMAIN [w[s] EXCEPT ![n] = q] : [w[s] EXCEPT ![n] = q][k].sql = s
  BY <1>1, ExceptSeq
<1>3. \A sql \in sqls : new[sql] = IF sql = s THEN [w[s] EXCEPT ![n] = q] ELSE w[sql]
  BY DEF Pool
<1>4. DOMAIN new = sqls /\ new = [sql \in sqls |-> new[sql]]
  BY DEF Pool
<1> HIDE DEF new
<1>5. \A sql \in sqls : new[sql] \in Seq(S) /\ \A k \in DOMAIN new[sql] : new[sql][k].sql = sql
  BY <1>2, <1>3 DEF Pool
<1> QED
  BY <1>4, <1>5 DEF Pool, new


\* What is in flight when queries are made: those queries, and what there was, where
\* it was.
LEMMA MoreElements ==
  ASSUME NEW sqls, NEW S, NEW w \in Pool(sqls, S), NEW queries \in SUBSET S,
         NEW more, more = More(queries, w)
  PROVE  /\ DOMAIN w = sqls /\ DOMAIN more = sqls
         /\ \A sql \in sqls :
              /\ \A k \in DOMAIN w[sql] : k \in DOMAIN more[sql] /\ more[sql][k] = w[sql][k]
              /\ \A k \in DOMAIN more[sql] :
                   \/ k \in DOMAIN w[sql]
                   \/ k = Len(w[sql]) + 1 /\ more[sql][k] \in queries /\ more[sql][k].sql = sql
              /\ Len(w[sql]) + 1 \notin DOMAIN w[sql]
              /\ (\E q \in queries : q.sql = sql) => Len(w[sql]) + 1 \in DOMAIN more[sql]
<1>1. /\ DOMAIN w = sqls /\ DOMAIN more = sqls /\ \A sql \in sqls : w[sql] \in Seq(S)
      /\ more = [sql \in sqls |->
                   IF \E q \in queries : q.sql = sql
                   THEN Append(w[sql], CHOOSE q \in queries : q.sql = sql) ELSE w[sql]]
  BY DEF Pool, More
<1>2. ASSUME NEW sql \in sqls
      PROVE  /\ \A k \in DOMAIN w[sql] : k \in DOMAIN more[sql] /\ more[sql][k] = w[sql][k]
             /\ \A k \in DOMAIN more[sql] :
                  \/ k \in DOMAIN w[sql]
                  \/ k = Len(w[sql]) + 1 /\ more[sql][k] \in queries /\ more[sql][k].sql = sql
             /\ Len(w[sql]) + 1 \notin DOMAIN w[sql]
             /\ (\E q \in queries : q.sql = sql) => Len(w[sql]) + 1 \in DOMAIN more[sql]
  <2>1. DOMAIN w[sql] = 1 .. Len(w[sql]) /\ Len(w[sql]) \in Nat
    BY <1>1
  <2>2. CASE \E q \in queries : q.sql = sql
    <3>1. PICK q \in queries : q = (CHOOSE p \in queries : p.sql = sql) /\ q.sql = sql
      BY <2>2
    <3> DEFINE a == Append(w[sql], q)
    <3>2. more[sql] = a
      BY <1>1, <2>2, <3>1
    <3>3. /\ a \in Seq(S) /\ Len(a) = Len(w[sql]) + 1
          /\ \A j \in 1 .. Len(w[sql]) : a[j] = w[sql][j]
          /\ a[Len(w[sql]) + 1] = q
      BY <1>1, AppendProperties
    <3>4. DOMAIN a = 1 .. Len(w[sql]) + 1
      BY <3>3, LenProperties
    <3> HIDE DEF a
    <3>5. /\ \A k \in DOMAIN a : k \in DOMAIN w[sql] \/ k = Len(w[sql]) + 1
          /\ \A k \in DOMAIN w[sql] : k \in DOMAIN a
          /\ Len(w[sql]) + 1 \in DOMAIN a /\ Len(w[sql]) + 1 \notin DOMAIN w[sql]
      BY <2>1, <3>4
    <3> QED
      BY <2>1, <3>1, <3>2, <3>3, <3>5
  <2>3. CASE ~ (\E q \in queries : q.sql = sql)
    BY <1>1, <2>1, <2>3
  <2> QED
    BY <2>2, <2>3
<1> QED
  BY <1>1, <1>2

\* What is in flight when a query is taken out: the others.
LEMMA LessElements ==
  ASSUME NEW sqls, NEW S, NEW w \in Pool(sqls, S), NEW s \in sqls, NEW n \in DOMAIN w[s],
         NEW less, less = Less(w, s, n)
  PROVE  /\ DOMAIN less = sqls
         /\ \A sql \in sqls : sql # s => less[sql] = w[sql]
         /\ \A k \in DOMAIN less[s] : \E j \in DOMAIN w[s] : j # n /\ less[s][k] = w[s][j]
         /\ \A j \in DOMAIN w[s] : j # n => \E k \in DOMAIN less[s] : less[s][k] = w[s][j]
<1>1. w[s] \in Seq(S) /\ DOMAIN w = sqls
  BY DEF Pool
<1>2. DOMAIN w[s] = 1 .. Len(w[s]) /\ Len(w[s]) \in Nat
  BY <1>1
<1>3. /\ DOMAIN less = sqls
      /\ \A sql \in sqls : sql # s => less[sql] = w[sql]
      /\ less[s] = RemoveAt(w[s], n)
  BY <1>1 DEF Less
<1>4. /\ DOMAIN less[s] = 1 .. Len(w[s]) - 1
      /\ \A j \in 1 .. Len(w[s]) - 1 :
           /\ j < n => j \in 1 .. Len(w[s]) /\ less[s][j] = w[s][j]
           /\ j >= n => j + 1 \in 1 .. Len(w[s]) /\ less[s][j] = w[s][j + 1]
  BY <1>1, <1>3, RemoveAtIndex
<1>5. ASSUME NEW k \in DOMAIN less[s]
      PROVE  \E j \in DOMAIN w[s] : j # n /\ less[s][k] = w[s][j]
  <2>1. CASE k < n
    BY <1>2, <1>4, <2>1
  <2>2. CASE k >= n
    <3>1. k + 1 # n
      BY <1>2, <1>4, <2>2
    <3> QED
      BY <1>2, <1>4, <2>2, <3>1
  <2> QED
    BY <1>2, <1>4, <2>1, <2>2
<1>6. ASSUME NEW j \in DOMAIN w[s], j # n
      PROVE  \E k \in DOMAIN less[s] : less[s][k] = w[s][j]
  <2>1. CASE j < n
    <3>1. j \in 1 .. Len(w[s]) - 1
      BY <1>2, <2>1
    <3> QED
      BY <1>4, <2>1, <3>1
  <2>2. CASE j > n
    <3>1. j - 1 \in 1 .. Len(w[s]) - 1 /\ j - 1 >= n /\ (j - 1) + 1 = j
      BY <1>2, <2>2
    <3> QED
      BY <1>4, <3>1
  <2> QED
    BY <1>2, <1>6, <2>1, <2>2
<1> QED
  BY <1>3, <1>5, <1>6

-----------------------------------------------------------------------------
(* The places of a user's queries *)

\* A query is taken out: the places after it move.
LEMMA PlacesLess ==
  ASSUME NEW sqls, NEW S, NEW w \in Pool(sqls, S), NEW s \in sqls, NEW n \in DOMAIN w[s],
         NEW T, NEW u, IsFiniteSet(Places(w, T, u)),
         NEW less, less = Less(w, s, n)
  PROVE  /\ IsFiniteSet(Places(less, T, u))
         /\ s \in T /\ w[s][n].uid = u =>
              Cardinality(Places(less, T, u)) = Cardinality(Places(w, T, u)) - 1
         /\ ~ (s \in T /\ w[s][n].uid = u) =>
              Cardinality(Places(less, T, u)) = Cardinality(Places(w, T, u))
<1> DEFINE A == Places(w, T, u) \ {<<s, n>>}
           B == Places(less, T, u)
           to(j) == IF j >= n THEN j + 1 ELSE j
           f == [i \in B |-> IF i[1] = s THEN <<s, to(i[2])>> ELSE i]
<1>1. w[s] \in Seq(S) /\ DOMAIN w = sqls /\ \A sql \in sqls : w[sql] \in Seq(S)
  BY DEF Pool
<1>2. DOMAIN w[s] = 1 .. Len(w[s]) /\ Len(w[s]) \in Nat /\ n \in Nat /\ n \in 1 .. Len(w[s])
  BY <1>1
<1>3. /\ DOMAIN less = sqls
      /\ \A sql \in sqls \ {s} : less[sql] = w[sql]
      /\ less[s] = RemoveAt(w[s], n)
  BY <1>1 DEF Less
<1>4. /\ DOMAIN less[s] = 1 .. Len(w[s]) - 1
      /\ \A j \in 1 .. Len(w[s]) - 1 :
           /\ j < n => j \in 1 .. Len(w[s]) /\ less[s][j] = w[s][j]
           /\ j >= n => j + 1 \in 1 .. Len(w[s]) /\ less[s][j] = w[s][j + 1]
  BY <1>1, <1>3, RemoveAtIndex
<1> DEFINE L == Len(w[s])
<1>5. \A j \in 1 .. L - 1 : to(j) \in 1 .. L /\ to(j) # n /\ less[s][j] = w[s][to(j)]
  BY <1>2, <1>4
<1>6. \A k \in 1 .. L : k # n => \E j \in 1 .. L - 1 : to(j) = k
  <2> SUFFICES ASSUME NEW k \in 1 .. L, k # n
               PROVE  \E j \in 1 .. L - 1 : to(j) = k
    OBVIOUS
  <2>1. CASE k < n
    BY <1>2, <2>1
  <2>2. CASE k > n
    <3>1. k - 1 \in 1 .. L - 1 /\ to(k - 1) = k
      BY <1>2, <2>2
    <3> QED
      BY <3>1
  <2> QED
    BY <1>2, <2>1, <2>2
<1>7. \A j, k \in 1 .. L - 1 : to(j) = to(k) => j = k
  BY <1>2
<1> HIDE DEF to, L
<1>8. \A i \in B : /\ i \in sqls \X (UNION {DOMAIN less[sql] : sql \in sqls})
                   /\ i = <<i[1], i[2]>> /\ i[1] \in sqls /\ i[2] \in DOMAIN less[i[1]]
                   /\ i[1] \in T /\ less[i[1]][i[2]].uid = u
  BY <1>3 DEF Places
<1>9. \A i \in A : /\ i = <<i[1], i[2]>> /\ i[1] \in sqls /\ i[2] \in DOMAIN w[i[1]]
                   /\ i[1] \in T /\ w[i[1]][i[2]].uid = u
                   /\ ~ (i[1] = s /\ i[2] = n)
  BY <1>1 DEF Places
<1>10. \A sql \in sqls : \A k \in DOMAIN w[sql] :
         sql \in T /\ w[sql][k].uid = u /\ ~ (sql = s /\ k = n) => <<sql, k>> \in A
  BY <1>1 DEF Places
<1>11. \A sql \in sqls : \A k \in DOMAIN less[sql] :
         sql \in T /\ less[sql][k].uid = u => <<sql, k>> \in B
  BY <1>3 DEF Places
<1>12. Places(w, T, u) = IF s \in T /\ w[s][n].uid = u THEN A \cup {<<s, n>>} ELSE A
  BY <1>1 DEF Places
<1>13. s \in T /\ w[s][n].uid = u => <<s, n>> \in Places(w, T, u)
  BY <1>1 DEF Places
<1> HIDE DEF A, B
<1>14. ASSUME NEW i \in B
       PROVE  f[i] \in A
  <2>1. CASE i[1] = s
    <3>1. i[2] \in 1 .. L - 1 /\ f[i] = <<s, to(i[2])>>
      BY <1>4, <1>8, <2>1 DEF L
    <3>2. to(i[2]) \in DOMAIN w[s] /\ to(i[2]) # n /\ less[s][i[2]] = w[s][to(i[2])]
      BY <1>2, <1>5, <3>1 DEF L
    <3> HIDE DEF f
    <3> QED
      BY <1>8, <1>10, <2>1, <3>1, <3>2
  <2>2. CASE i[1] # s
    <3>1. f[i] = i
      BY <2>2
    <3> HIDE DEF f
    <3> QED
      BY <1>3, <1>8, <1>10, <2>2, <3>1
  <2> QED
    BY <2>1, <2>2
<1>15. ASSUME NEW i \in B, NEW k \in B, f[i] = f[k]
       PROVE  i = k
  <2>1. CASE i[1] = s /\ k[1] = s
    <3>1. i[2] \in 1 .. L - 1 /\ k[2] \in 1 .. L - 1
      BY <1>4, <1>8, <2>1 DEF L
    <3>2. to(i[2]) = to(k[2])
      BY <1>15, <2>1
    <3> QED
      BY <1>7, <1>8, <2>1, <3>1, <3>2
  <2>2. CASE i[1] = s /\ k[1] # s
    BY <1>15, <2>2
  <2>3. CASE i[1] # s /\ k[1] = s
    BY <1>15, <2>3
  <2>4. CASE i[1] # s /\ k[1] # s
    BY <1>15, <2>4
  <2> QED
    BY <2>1, <2>2, <2>3, <2>4
<1>16. ASSUME NEW a \in A
       PROVE  \E i \in B : f[i] = a
  <2>1. CASE a[1] = s
    <3>1. a[2] \in 1 .. L /\ a[2] # n
      BY <1>2, <1>9, <2>1 DEF L
    <3>2. PICK j \in 1 .. L - 1 : to(j) = a[2]
      BY <1>6, <3>1
    <3>3. <<s, j>> \in B
      BY <1>4, <1>5, <1>9, <1>11, <2>1, <3>2 DEF L
    <3>4. f[<<s, j>>] = a
      BY <1>9, <2>1, <3>2, <3>3
    <3> HIDE DEF f
    <3> QED
      BY <3>3, <3>4
  <2>2. CASE a[1] # s
    <3>1. a \in B
      BY <1>3, <1>9, <1>11, <2>2
    <3>2. f[a] = a
      BY <2>2, <3>1
    <3> HIDE DEF f
    <3> QED
      BY <3>1, <3>2
  <2> QED
    BY <2>1, <2>2
<1>17. f \in Bijection(B, A)
  <2>1. f \in [B -> A]
    BY <1>14
  <2> HIDE DEF f
  <2>2. f \in Surjection(B, A)
    BY <2>1, <1>16, Fun_IsSurj
  <2>3. f \in Injection(B, A)
    BY <2>1, <1>15, Fun_IsInj
  <2> QED
    BY <2>2, <2>3 DEF Bijection
<1> HIDE DEF f
<1>18. IsFiniteSet(A) /\ Cardinality(Places(w, T, u)) \in Nat
  BY FS_RemoveElement, FS_CardinalityType DEF A
<1>19. /\ s \in T /\ w[s][n].uid = u => Cardinality(A) = Cardinality(Places(w, T, u)) - 1
       /\ ~ (s \in T /\ w[s][n].uid = u) => Cardinality(A) = Cardinality(Places(w, T, u))
  <2>1. s \in T /\ w[s][n].uid = u => Cardinality(A) = Cardinality(Places(w, T, u)) - 1
    BY <1>13, FS_RemoveElement DEF A
  <2> QED
    BY <1>12, <2>1
<1>20. IsFiniteSet(B) /\ Cardinality(B) = Cardinality(A)
  <2>1. \E g : g \in Bijection(A, B)
    BY <1>17, Fun_BijInverse
  <2> QED
    BY <2>1, <1>18, FS_Bijection DEF ExistsBijection
<1> QED
  BY <1>19, <1>20 DEF B

\* Queries are made, none of them such a query of the user.
LEMMA PlacesSame ==
  ASSUME NEW sqls, NEW S, NEW w \in Pool(sqls, S), NEW queries \in SUBSET S, NEW T, NEW u,
         \A q \in queries : ~ (q.sql \in T /\ q.uid = u),
         NEW more, more = More(queries, w)
  PROVE  Places(more, T, u) = Places(w, T, u)
<1>1. /\ DOMAIN w = sqls /\ DOMAIN more = sqls
      /\ \A sql \in sqls :
           /\ \A k \in DOMAIN w[sql] : k \in DOMAIN more[sql] /\ more[sql][k] = w[sql][k]
           /\ \A k \in DOMAIN more[sql] :
                k \in DOMAIN w[sql] \/ (more[sql][k] \in queries /\ more[sql][k].sql = sql)
  BY MoreElements
<1>2. \A sql \in sqls : \A k :
        (k \in DOMAIN more[sql] /\ sql \in T /\ more[sql][k].uid = u)
          <=> (k \in DOMAIN w[sql] /\ sql \in T /\ w[sql][k].uid = u)
  BY <1>1
<1> QED
  BY <1>1, <1>2 DEF Places

\* Queries are made, one of them such a query of the user: it is the last of its
\* statement.
LEMMA PlacesMore ==
  ASSUME NEW sqls, NEW S, NEW w \in Pool(sqls, S), NEW queries \in SUBSET S, NEW T, NEW u,
         NEW q0 \in queries, q0.sql \in T, q0.uid = u, q0.sql \in sqls,
         \A q \in queries : (q.sql \in T /\ q.uid = u) \/ q.sql = q0.sql => q = q0,
         IsFiniteSet(Places(w, T, u)),
         NEW more, more = More(queries, w)
  PROVE  /\ Places(more, T, u) = Places(w, T, u) \cup {<<q0.sql, Len(w[q0.sql]) + 1>>}
         /\ IsFiniteSet(Places(more, T, u))
         /\ Cardinality(Places(more, T, u)) = Cardinality(Places(w, T, u)) + 1
<1> DEFINE s0 == q0.sql
           n0 == Len(w[s0]) + 1
<1>1. /\ DOMAIN w = sqls /\ DOMAIN more = sqls
      /\ \A sql \in sqls :
           /\ \A k \in DOMAIN w[sql] : k \in DOMAIN more[sql] /\ more[sql][k] = w[sql][k]
           /\ \A k \in DOMAIN more[sql] :
                \/ k \in DOMAIN w[sql]
                \/ k = Len(w[sql]) + 1 /\ more[sql][k] \in queries /\ more[sql][k].sql = sql
           /\ Len(w[sql]) + 1 \notin DOMAIN w[sql]
           /\ (\E q \in queries : q.sql = sql) => Len(w[sql]) + 1 \in DOMAIN more[sql]
  BY MoreElements
<1>2. \A sql \in sqls : \A k :
        (k \in DOMAIN more[sql] /\ sql \in T /\ more[sql][k].uid = u)
          <=> \/ k \in DOMAIN w[sql] /\ sql \in T /\ w[sql][k].uid = u
              \/ sql = s0 /\ k = n0
  BY <1>1
<1>3. s0 \in sqls /\ n0 \notin DOMAIN w[s0]
  BY <1>1
<1>4. n0 \in DOMAIN more[s0]
  BY <1>2, <1>3
<1> HIDE DEF s0, n0
<1>5. Places(more, T, u) = Places(w, T, u) \cup {<<s0, n0>>}
  BY <1>1, <1>2, <1>3, <1>4 DEF Places
<1>6. <<s0, n0>> \notin Places(w, T, u)
  BY <1>1, <1>3 DEF Places
<1> DEFINE P == Places(w, T, u)
<1>7. /\ IsFiniteSet(P \cup {<<s0, n0>>})
      /\ Cardinality(P \cup {<<s0, n0>>}) = Cardinality(P) + 1
  <2>1. <<s0, n0>> \notin P /\ IsFiniteSet(P)
    BY <1>6
  <2> HIDE DEF P
  <2> QED
    BY <2>1, FS_AddElement
<1> QED
  BY <1>5, <1>7 DEF s0, n0
=============================================================================
