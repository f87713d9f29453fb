--------------------------- MODULE AccountsProofs ---------------------------
(***************************************************************************)
(* What TLAPS proves of Accounts for any number of clients, guest keys and *)
(* names.                                                                  *)
(*                                                                         *)
(* Rows are never removed and new ones are appended, so the first row of a *)
(* guest key stays the first.  It is the one guests are logged in to, the  *)
(* one a client upgrades, and the one its name and password lead to: an    *)
(* account's password names one key, and so one account.                   *)
(***************************************************************************)
EXTENDS Accounts, QueueLemmas, WellFoundedInduction

\* The row that a select by guest key finds.
IsFirst(uid, key) ==
  /\ uid \in DOMAIN uinfo /\ uinfo[uid].guest_key = key
  /\ \A other \in DOMAIN uinfo : uinfo[other].guest_key = key => uid <= other

\* A guest has no password, and any other account has been upgraded.
RowSound(row, uid) ==
  /\ row.is_guest = 1 => row.upwd = ""
  /\ row.is_guest = 0 =>
       \E last \in upgrades :
         last.uid = uid /\ ~last.again /\ last.uname = row.uname /\ last.upwd = row.upwd

RowsSound == \A uid \in DOMAIN uinfo : RowSound(uinfo[uid], uid)

\* Clients upgrade the account of their key, and some ask again.
UpgradesSound ==
  \A up \in upgrades :
    IsFirst(up.uid, GuestKey[up.upwd]) /\ (up.again => uinfo[up.uid].is_guest = 0)

UpgradedSound == \A up \in upgraded : ~up.again /\ uinfo[up.uid].is_guest = 0

LoginsSound ==
  /\ \A c \in Clients : uid_of[c] # 0 => IsFirst(uid_of[c], GuestKey[c])
  /\ \A key \in Keys : \A uid \in logins[key] : IsFirst(uid, key)

\* What a query in flight was asked with, and what its rows say.
Sound(q) ==
  /\ q.err => q.ran
  /\ q.sql \in {"get_guest_uinfo", "insert_guest_user"} => q.arg = GuestKey[q.uid]
  /\ q.sql = "get_guest_uinfo" => \A k \in DOMAIN q.ret : IsFirst(q.ret[k].uid, q.arg)
  /\ q.sql \in {"check_uname_exist", "get_uinfo_by_uid", "do_guest_account_upgrade"} =>
       q.arg \in upgrades
  /\ q.sql = "get_uinfo_by_uid" /\ q.ran /\ ~q.err /\ q.arg.again => Head(q.ret).is_guest = 0
  /\ q.sql = "do_guest_account_upgrade" =>
       ~q.arg.again /\ (q.ran /\ ~q.err => uinfo[q.arg.uid].is_guest = 0)
  /\ q.sql = "get_uinfo_by_uname_upwd" =>
       /\ q.arg \in [uname : Names, upwd : Clients] /\ q.arg.upwd = q.uid
       /\ \A k \in DOMAIN q.ret : IsFirst(q.ret[k].uid, GuestKey[q.uid])

Info == [uid : DOMAIN uinfo, status : 0 .. 1, is_guest : 0 .. 1]

Jobs ==
  [sql : AccountStatements, uid : Clients,
   arg : Keys \cup upgrades \cup [uname : Names, upwd : Clients],
   ran : BOOLEAN, err : BOOLEAN, ret : Seq(Info)]

SoundJobs == {q \in Jobs : Sound(q)}

WorkSound == work \in Pool(AccountStatements, SoundJobs)

DatabaseCounts ==
  /\ mysql_conn \in BOOLEAN /\ redis_conn \in BOOLEAN
  /\ faults \in 0 .. MaxFaults /\ requests \in 0 .. MaxRequests

RowTypes ==
  /\ uinfo \in Seq(Account)
  /\ upgrades \subseteq [uid : DOMAIN uinfo, uname : Names, upwd : Clients, again : BOOLEAN]
  /\ upgraded \subseteq upgrades

LoginTypes ==
  /\ asking \in [Clients -> BOOLEAN]
  /\ uid_of \in [Clients -> {0} \cup DOMAIN uinfo]
  /\ logins \in [Keys -> SUBSET DOMAIN uinfo]

AccountsInv ==
  /\ DatabaseCounts /\ RowTypes /\ LoginTypes
  /\ RowsSound /\ UpgradesSound /\ UpgradedSound /\ LoginsSound /\ WorkSound

-----------------------------------------------------------------------------
(* Lemmas about operators *)

\* A set of row numbers that is not empty has a first.
LEMMA FirstRow ==
  ASSUME NEW S \in SUBSET Nat, S # {}
  PROVE  Min(S) \in S /\ \A n \in S : Min(S) <= n
<1> DEFINE less == {ss \in Nat \X Nat : ss[1] < ss[2]}
<1>1. IsWellFoundedOn(less, Nat)
  BY NatLessThanWellFounded DEF OpToRel
<1>2. \A m, n \in Nat : <<n, m>> \notin less => m <= n
  OBVIOUS
<1> HIDE DEF less
<1>3. \E m \in S : \A n \in S : <<n, m>> \notin less
  BY <1>1, WFMin
<1>4. \E m \in S : \A n \in S : m <= n
  BY <1>2, <1>3
<1> QED
  BY <1>4 DEF Min

\* What limit 1 returns: nothing, or the first of the rows.
LEMMA FirstOfRows ==
  ASSUME RowTypes, NEW uids \in SUBSET DOMAIN uinfo
  PROVE  /\ Limit1(uids) \in Seq(Info)
         /\ uids = {} => Limit1(uids) = <<>>
         /\ uids # {} => /\ Min(uids) \in uids /\ \A uid \in uids : Min(uids) <= uid
                         /\ DOMAIN Limit1(uids) = {1} /\ Limit1(uids)[1].uid = Min(uids)
                         /\ Head(Limit1(uids)).is_guest = uinfo[Min(uids)].is_guest
<1>1. CASE uids = {}
  BY <1>1 DEF Limit1
<1>2. CASE uids # {}
  <2>1. uids \in SUBSET Nat
    BY LenProperties DEF RowTypes
  <2>2. Min(uids) \in uids /\ \A uid \in uids : Min(uids) <= uid
    BY <1>2, <2>1, FirstRow
  <2>3. uinfo[Min(uids)] \in Account
    BY <2>2, ElementOfSeq, LenProperties DEF RowTypes
  <2> DEFINE info == [uid |-> Min(uids), status |-> uinfo[Min(uids)].status,
                      is_guest |-> uinfo[Min(uids)].is_guest]
  <2>4. info \in Info
    BY <2>2, <2>3 DEF Info, Account
  <2>5. Limit1(uids) = <<info>>
    BY <1>2 DEF Limit1
  <2>6. info.uid = Min(uids) /\ info.is_guest = uinfo[Min(uids)].is_guest
    OBVIOUS
  <2> HIDE DEF info
  <2> QED
    BY <1>2, <2>2, <2>4, <2>5, <2>6
<1> QED
  BY <1>1, <1>2

\* Two first rows of a key are one.
LEMMA OneFirst ==
  ASSUME RowTypes, NEW u, NEW v, NEW key, IsFirst(u, key), IsFirst(v, key)
  PROVE  u = v
<1>1. u \in Nat /\ v \in Nat /\ u <= v /\ v <= u
  BY LenProperties DEF RowTypes, IsFirst
<1> QED
  BY <1>1

\* The fields of rows.
LEMMA Rows ==
  ASSUME NEW row \in Account
  PROVE  /\ row.guest_key \in Keys /\ row.uname \in Names \cup {"0"}
         /\ row.upwd \in Clients \cup {""} /\ row.status \in 0 .. 1
         /\ row.is_guest = 0 \/ row.is_guest = 1
<1>1. row.is_guest \in 0 .. 1
  BY DEF Account
<1>2. row.is_guest = 0 \/ row.is_guest = 1
  BY <1>1
<1> QED
  BY <1>2 DEF Account

LEMMA RowFrozen ==
  ASSUME NEW row \in Account, NEW new, new = [row EXCEPT !.status = 1]
  PROVE  /\ new \in Account /\ new.guest_key = row.guest_key /\ new.is_guest = row.is_guest
         /\ new.uname = row.uname /\ new.upwd = row.upwd
<1> DEFINE flag == 0 .. 1
           rows == [guest_key : Keys, uname : Names \cup {"0"}, upwd : Clients \cup {""},
                    status : flag, is_guest : flag]
<1>0. 1 \in flag
  OBVIOUS
<1>1. row \in rows /\ rows = Account
  BY DEF Account
<1> HIDE DEF flag
<1>2. new \in rows
  BY <1>0, <1>1
<1>3. /\ new.guest_key = row.guest_key /\ new.is_guest = row.is_guest
      /\ new.uname = row.uname /\ new.upwd = row.upwd
  BY <1>1
<1> HIDE DEF rows
<1> QED
  BY <1>1, <1>2, <1>3

LEMMA RowUpgraded ==
  ASSUME NEW row \in Account, NEW up, up.uname \in Names, up.upwd \in Clients,
         NEW new, new = upgrade_of(row, up)
  PROVE  /\ new \in Account /\ new.guest_key = row.guest_key /\ new.is_guest = 0
         /\ new.uname = up.uname /\ new.upwd = up.upwd
<1> DEFINE flag == 0 .. 1
           rows == [guest_key : Keys, uname : Names \cup {"0"}, upwd : Clients \cup {""},
                    status : flag, is_guest : flag]
<1>0. 0 \in flag
  OBVIOUS
<1>1. row \in rows /\ rows = Account
  BY DEF Account
<1>2. new = [row EXCEPT !.uname = up.uname, !.upwd = up.upwd, !.is_guest = 0]
  BY DEF upgrade_of
<1> HIDE DEF flag
<1>3. new \in rows
  BY <1>0, <1>1, <1>2
<1>4. /\ new.guest_key = row.guest_key /\ new.is_guest = 0
      /\ new.uname = up.uname /\ new.upwd = up.upwd
  BY <1>1, <1>2
<1> HIDE DEF rows
<1> QED
  BY <1>1, <1>3, <1>4

LEMMA RowInserted ==
  ASSUME NEW key \in Keys
  PROVE  /\ NewGuest(key) \in Account
         /\ NewGuest(key).is_guest = 1 /\ NewGuest(key).upwd = ""
<1> DEFINE flag == 0 .. 1
           rows == [guest_key : Keys, uname : Names \cup {"0"}, upwd : Clients \cup {""},
                    status : flag, is_guest : flag]
<1>1. rows = Account /\ 0 \in flag /\ 1 \in flag
  BY DEF Account
<1> HIDE DEF flag
<1>2. NewGuest(key) \in rows
  BY <1>1 DEF NewGuest
<1> HIDE DEF rows
<1> QED
  BY <1>1, <1>2 DEF NewGuest

-----------------------------------------------------------------------------
(* What the steps leave as it is *)

\* Rows are never removed, their keys stay and no account becomes a guest's again.
Grown ==
  /\ DOMAIN uinfo \subseteq DOMAIN uinfo'
  /\ \A uid \in DOMAIN uinfo :
       /\ uinfo'[uid].guest_key = uinfo[uid].guest_key
       /\ uinfo[uid].is_guest = 0 => uinfo'[uid].is_guest = 0
  /\ \A uid \in DOMAIN uinfo' \ DOMAIN uinfo : \A old \in DOMAIN uinfo : old <= uid
  /\ upgrades \subseteq upgrades'

LEMMA UnchangedGrown ==
  ASSUME UNCHANGED uinfo, upgrades \subseteq upgrades'
  PROVE  Grown
BY DEF Grown

LEMMA FirstStays ==
  ASSUME Grown, NEW uid, NEW key, IsFirst(uid, key)
  PROVE  IsFirst(uid, key)'
BY DEF Grown, IsFirst

\* What is known of a query stays true.
LEMMA SoundStays ==
  ASSUME RowTypes, Grown
  PROVE  SoundJobs \subseteq SoundJobs'
<1> SUFFICES ASSUME NEW q \in SoundJobs
             PROVE  q \in SoundJobs'
  OBVIOUS
<1>1. q \in Jobs /\ Sound(q)
  BY DEF SoundJobs
<1>2. q.ret \in Seq(Info) /\ q.arg \in Keys \cup upgrades \cup [uname : Names, upwd : Clients]
  BY <1>1 DEF Jobs
<1>3. Info \subseteq Info'
  BY DEF Info, Grown
<1>4. q.ret \in Seq(Info')
  BY <1>2, <1>3, SeqMonotonic
<1>5. q \in Jobs'
  BY <1>1, <1>2, <1>4 DEF Jobs, Grown
<1>6. /\ q.sql = "get_guest_uinfo" => \A k \in DOMAIN q.ret : IsFirst(q.ret[k].uid, q.arg)'
      /\ q.sql = "get_uinfo_by_uname_upwd" =>
           \A k \in DOMAIN q.ret : IsFirst(q.ret[k].uid, GuestKey[q.uid])'
  BY <1>1, FirstStays DEF Sound
<1>7. q.sql = "do_guest_account_upgrade" => q.arg.uid \in DOMAIN uinfo
  BY <1>1 DEF Sound, RowTypes
<1>8. Sound(q)'
  BY <1>1, <1>6, <1>7 DEF Sound, Grown
<1> QED
  BY <1>5, <1>8 DEF SoundJobs

LEMMA JobInFlight ==
  ASSUME WorkSound, NEW i \in InFlight
  PROVE  /\ i[1] \in AccountStatements /\ i[2] \in DOMAIN work[i[1]]
         /\ job(i) \in SoundJobs /\ job(i).sql = i[1]
<1>1. DOMAIN work = AccountStatements
  BY DEF WorkSound, Pool
<1>2. PICK sql \in AccountStatements : i \in {sql} \X DOMAIN work[sql]
  BY <1>1 DEF InFlight
<1>3. i[1] = sql /\ i[2] \in DOMAIN work[sql]
  BY <1>2
<1> QED
  BY <1>3, PoolElements DEF WorkSound, job

\* A handler is called, and its query is replaced by others.
LEMMA Completed ==
  ASSUME WorkSound, SoundJobs \subseteq SoundJobs', NEW i \in InFlight,
         NEW queries \in SUBSET SoundJobs', on_query_complete(i, queries)
  PROVE  WorkSound'
<1>1. work \in Pool(AccountStatements, SoundJobs')
  BY PoolGrows DEF WorkSound
<1>2. i[1] \in AccountStatements /\ i[2] \in DOMAIN work[i[1]]
  BY JobInFlight
<1> DEFINE less == [work EXCEPT ![i[1]] = RemoveAt(@, i[2])]
<1>3. less \in Pool(AccountStatements, SoundJobs')
  BY <1>1, <1>2, PoolLess DEF Less
<1>4. work' = With(queries, less)
  BY DEF on_query_complete
<1> HIDE DEF less
<1>5. work' \in Pool(AccountStatements, SoundJobs')
  BY <1>3, <1>4, PoolMore DEF With, More
<1> QED
  BY <1>5 DEF WorkSound

\* A statement is executed, or fails.
LEMMA Executed ==
  ASSUME WorkSound, SoundJobs \subseteq SoundJobs', NEW i \in InFlight, NEW err, NEW ret,
         [job(i) EXCEPT !.ran = TRUE, !.err = err, !.ret = ret] \in SoundJobs',
         Execute(i, err, ret)
  PROVE  WorkSound'
<1> DEFINE q == [job(i) EXCEPT !.ran = TRUE, !.err = err, !.ret = ret]
<1>1. work \in Pool(AccountStatements, SoundJobs')
  BY PoolGrows DEF WorkSound
<1>2. i[1] \in AccountStatements /\ i[2] \in DOMAIN work[i[1]] /\ q.sql = i[1]
  BY JobInFlight DEF SoundJobs, Jobs
<1>3. work' = [work EXCEPT ![i[1]][i[2]] = q]
  BY <1>2 DEF Execute, job
<1>4. q \in SoundJobs'
  OBVIOUS
<1> HIDE DEF q
<1>5. work' \in Pool(AccountStatements, SoundJobs')
  BY <1>1, <1>2, <1>3, <1>4, PoolChange
<1> QED
  BY <1>5 DEF WorkSound

\* A query that has not been executed.
LEMMA NewQuery ==
  ASSUME NEW sql \in AccountStatements, NEW uid \in Clients,
         NEW arg \in Keys \cup upgrades \cup [uname : Names, upwd : Clients],
         sql \in {"get_guest_uinfo", "insert_guest_user"} => arg = GuestKey[uid],
         sql \in {"check_uname_exist", "get_uinfo_by_uid", "do_guest_account_upgrade"} =>
           arg \in upgrades,
         sql = "do_guest_account_upgrade" => ~arg.again,
         sql = "get_uinfo_by_uname_upwd" =>
           arg \in [uname : Names, upwd : Clients] /\ arg.upwd = uid
  PROVE  query(sql, uid, arg) \in SoundJobs
<1> DEFINE q == query(sql, uid, arg)
<1>1. /\ q.sql = sql /\ q.uid = uid /\ q.arg = arg /\ q.ret = <<>>
      /\ q.err = FALSE /\ q.ran = FALSE
  BY DEF query
<1>2. q \in Jobs
  <2>1. <<>> \in Seq(Info)
    OBVIOUS
  <2> QED
    BY <2>1 DEF Jobs, query
<1> HIDE DEF q
<1>3. Sound(q)
  BY <1>1 DEF Sound
<1> QED
  BY <1>2, <1>3 DEF SoundJobs, q

\* A query is made.
LEMMA Queried ==
  ASSUME WorkSound, SoundJobs \subseteq SoundJobs', NEW sql, NEW uid, NEW arg,
         query(sql, uid, arg) \in SoundJobs', Query(sql, uid, arg)
  PROVE  WorkSound'
<1>1. work \in Pool(AccountStatements, SoundJobs')
  BY PoolGrows DEF WorkSound
<1>2. work' = With({query(sql, uid, arg)}, work) /\ {query(sql, uid, arg)} \in SUBSET SoundJobs'
  BY DEF Query
<1>3. work' \in Pool(AccountStatements, SoundJobs')
  BY <1>1, <1>2, PoolMore DEF With, More
<1> QED
  BY <1>3 DEF WorkSound

-----------------------------------------------------------------------------
(* Requests *)

LEMMA LoginsStay ==
  ASSUME LoginTypes, LoginsSound, Grown, UNCHANGED <<uid_of, logins>>,
         asking' \in [Clients -> BOOLEAN]
  PROVE  LoginTypes' /\ LoginsSound'
<1>1. /\ uid_of' \in [Clients -> {0} \cup DOMAIN uinfo']
      /\ logins' \in [Keys -> SUBSET DOMAIN uinfo']
  BY DEF LoginTypes, Grown
<1>2. /\ \A c \in Clients : uid_of'[c] # 0 => IsFirst(uid_of[c], GuestKey[c])'
      /\ \A key \in Keys : \A uid \in logins'[key] : IsFirst(uid, key)'
  BY FirstStays DEF LoginsSound
<1> QED
  BY <1>1, <1>2 DEF LoginTypes, LoginsSound

LEMMA RowsStay ==
  ASSUME RowsSound, UNCHANGED uinfo, upgrades \subseteq upgrades'
  PROVE  RowsSound'
<1> SUFFICES ASSUME NEW uid \in DOMAIN uinfo
             PROVE  RowSound(uinfo[uid], uid)'
  BY DEF RowsSound
<1>1. RowSound(uinfo[uid], uid)
  BY DEF RowsSound
<1> QED
  BY <1>1 DEF RowSound

LEMMA UpgradesStay ==
  ASSUME RowTypes, UpgradesSound, Grown, UNCHANGED upgrades
  PROVE  UpgradesSound'
<1>1. \A up \in upgrades : IsFirst(up.uid, GuestKey[up.upwd])'
  BY FirstStays DEF UpgradesSound
<1>2. \A up \in upgrades : up.uid \in DOMAIN uinfo
  BY DEF RowTypes
<1> QED
  BY <1>1, <1>2 DEF UpgradesSound, Grown

LEMMA UpgradedStay ==
  ASSUME RowTypes, UpgradedSound, Grown, UNCHANGED upgraded
  PROVE  UpgradedSound'
<1>1. \A up \in upgraded : up.uid \in DOMAIN uinfo
  BY DEF RowTypes
<1> QED
  BY <1>1 DEF UpgradedSound, Grown

\* A client asks.
LEMMA Asking ==
  ASSUME AccountsInv, NEW c \in Clients, NEW sql, NEW arg, Asks(c, sql, arg),
         upgrades \subseteq upgrades', query(sql, c, arg) \in SoundJobs'
  PROVE  /\ DatabaseCounts' /\ LoginTypes'
         /\ RowsSound' /\ UpgradedSound' /\ LoginsSound' /\ WorkSound'
<1>1. /\ UNCHANGED <<uinfo, uid_of, logins, upgraded, connections, faults>>
      /\ requests < MaxRequests /\ requests' = requests + 1
      /\ asking' = [asking EXCEPT ![c] = TRUE] /\ Query(sql, c, arg)
  BY DEF Asks, Asked
<1>2. Grown
  BY <1>1, UnchangedGrown
<1>3. asking' \in [Clients -> BOOLEAN]
  BY <1>1 DEF AccountsInv, LoginTypes
<1>4. LoginTypes' /\ LoginsSound'
  BY <1>1, <1>2, <1>3, LoginsStay DEF AccountsInv
<1>5. RowsSound' /\ UpgradedSound'
  BY <1>1, <1>2, RowsStay, UpgradedStay DEF AccountsInv
<1>6. WorkSound'
  BY <1>1, <1>2, SoundStays, Queried DEF AccountsInv
<1>7. DatabaseCounts'
  BY <1>1, DatabaseConstantsOK DEF AccountsInv, DatabaseCounts, connections
<1> QED
  BY <1>4, <1>5, <1>6, <1>7

LEMMA GuestAsks ==
  ASSUME AccountsInv, NEW c \in Clients, guest_login(c)
  PROVE  AccountsInv'
<1>1. Asks(c, "get_guest_uinfo", GuestKey[c]) /\ UNCHANGED <<upgrades, uinfo, upgraded>>
  BY DEF guest_login, Asks
<1>2. Grown
  BY <1>1, UnchangedGrown
<1>3. query("get_guest_uinfo", c, GuestKey[c]) \in SoundJobs
  BY AccountsConstantsOK, NewQuery DEF AccountStatements
<1>4. query("get_guest_uinfo", c, GuestKey[c]) \in SoundJobs'
  BY <1>2, <1>3, SoundStays DEF AccountsInv
<1>5. UpgradesSound'
  BY <1>1, <1>2, UpgradesStay DEF AccountsInv
<1>6. RowTypes'
  BY <1>1 DEF AccountsInv, RowTypes
<1> QED
  BY <1>1, <1>4, <1>5, <1>6, Asking DEF AccountsInv

LEMMA NameAsks ==
  ASSUME AccountsInv, NEW c \in Clients, uname_login(c)
  PROVE  AccountsInv'
<1>1. PICK uname \in Names :
        /\ Asks(c, "get_uinfo_by_uname_upwd", [uname |-> uname, upwd |-> c])
        /\ UNCHANGED upgrades
  BY DEF uname_login
<1>2. UNCHANGED <<upgrades, uinfo, upgraded>>
  BY <1>1 DEF Asks
<1>3. Grown
  BY <1>2, UnchangedGrown
<1>4. query("get_uinfo_by_uname_upwd", c, [uname |-> uname, upwd |-> c]) \in SoundJobs
  BY NewQuery DEF AccountStatements
<1>5. query("get_uinfo_by_uname_upwd", c, [uname |-> uname, upwd |-> c]) \in SoundJobs'
  BY <1>3, <1>4, SoundStays DEF AccountsInv
<1>6. UpgradesSound'
  BY <1>2, <1>3, UpgradesStay DEF AccountsInv
<1>7. RowTypes'
  BY <1>2 DEF AccountsInv, RowTypes
<1> QED
  BY <1>1, <1>5, <1>6, <1>7, Asking DEF AccountsInv

\* The account to upgrade is the client's; one upgraded before is no guest's.
LEMMA UpgradeAsks ==
  ASSUME AccountsInv, NEW c \in Clients, do_upgrade(c)
  PROVE  AccountsInv'
<1>1. uid_of[c] # 0
  BY DEF do_upgrade
<1>2. PICK uname \in Names :
        LET up == [uid |-> uid_of[c], uname |-> uname, upwd |-> c,
                   again |-> IsUpgraded(uid_of[c])]
        IN Asks(c, "check_uname_exist", up) /\ upgrades' = upgrades \cup {up}
  BY DEF do_upgrade
<1>3. PICK up : /\ up = [uid |-> uid_of[c], uname |-> uname, upwd |-> c,
                         again |-> IsUpgraded(uid_of[c])]
                /\ Asks(c, "check_uname_exist", up) /\ upgrades' = upgrades \cup {up}
  BY <1>2
<1>4. UNCHANGED <<uinfo, upgraded>>
  BY <1>3 DEF Asks
<1>5. uid_of[c] \in DOMAIN uinfo /\ IsFirst(uid_of[c], GuestKey[c])
  BY <1>1 DEF AccountsInv, LoginTypes, LoginsSound
<1>6. IsUpgraded(uid_of[c]) \in BOOLEAN
  BY DEF IsUpgraded
<1>7. IsUpgraded(uid_of[c]) => uinfo[uid_of[c]].is_guest = 0
  BY DEF IsUpgraded, AccountsInv, UpgradedSound
<1>8. /\ up \in [uid : DOMAIN uinfo, uname : Names, upwd : Clients, again : BOOLEAN]
      /\ IsFirst(up.uid, GuestKey[up.upwd]) /\ (up.again => uinfo[up.uid].is_guest = 0)
  BY <1>3, <1>5, <1>6, <1>7
<1> DEFINE q == query("check_uname_exist", c, up)
<1>9. /\ q.sql = "check_uname_exist" /\ q.uid = c /\ q.arg = up /\ q.ret = <<>>
      /\ q.err = FALSE /\ q.ran = FALSE
  BY DEF query
<1>10. q \in Jobs'
  <2>1. <<>> \in Seq(Info') /\ up \in upgrades'
    BY <1>3
  <2> QED
    BY <2>1 DEF Jobs, query, AccountStatements
<1>11. Sound(q)'
  BY <1>3, <1>9 DEF Sound
<1>12. q \in SoundJobs'
  BY <1>10, <1>11 DEF SoundJobs
<1> HIDE DEF q
<1>13. RowTypes'
  BY <1>3, <1>4, <1>8 DEF AccountsInv, RowTypes
<1>14. Grown
  BY <1>3, <1>4, UnchangedGrown
<1>15. \A p \in upgrades' : IsFirst(p.uid, GuestKey[p.upwd])'
  BY <1>3, <1>8, <1>14, FirstStays DEF AccountsInv, UpgradesSound
<1>16. UpgradesSound'
  BY <1>3, <1>4, <1>8, <1>15 DEF AccountsInv, UpgradesSound
<1>17. upgrades \subseteq upgrades'
  BY <1>3
<1> QED
  BY <1>3, <1>12, <1>13, <1>16, <1>17, Asking DEF AccountsInv, q

-----------------------------------------------------------------------------
(* Handlers *)

LEMMA Handled ==
  ASSUME AccountsInv, NEW i \in InFlight, NEW queries \in SUBSET SoundJobs,
         on_query_complete(i, queries), UNCHANGED <<uinfo, upgrades>>
  PROVE  Grown /\ DatabaseCounts' /\ RowsSound' /\ UpgradesSound' /\ WorkSound'
<1>1. Grown
  BY UnchangedGrown
<1>2. WorkSound'
  BY <1>1, SoundStays, Completed DEF AccountsInv
<1>3. RowsSound' /\ UpgradesSound'
  BY <1>1, RowsStay, UpgradesStay DEF AccountsInv
<1>4. DatabaseCounts'
  BY DEF AccountsInv, DatabaseCounts, on_query_complete, connections, counters
<1> QED
  BY <1>1, <1>2, <1>3, <1>4

\* The handler answers, and nobody is logged in or upgraded.
LEMMA Refused ==
  ASSUME AccountsInv, NEW i \in InFlight, NEW c \in Clients, Refuse(i, c), UNCHANGED uinfo
  PROVE  AccountsInv'
<1>1. on_query_complete(i, {}) /\ UNCHANGED <<uinfo, uid_of, logins, upgrades, upgraded>>
  BY DEF Refuse
<1>2. Grown /\ DatabaseCounts' /\ RowsSound' /\ UpgradesSound' /\ WorkSound'
  BY <1>1, Handled
<1>3. asking' \in [Clients -> BOOLEAN]
  BY DEF Refuse, Answered, AccountsInv, LoginTypes
<1>4. LoginTypes' /\ LoginsSound' /\ UpgradedSound'
  BY <1>1, <1>2, <1>3, LoginsStay, UpgradedStay DEF AccountsInv
<1>5. RowTypes'
  BY <1>1 DEF AccountsInv, RowTypes
<1> QED
  BY <1>2, <1>4, <1>5 DEF AccountsInv

\* It makes another query.
LEMMA WentOn ==
  ASSUME AccountsInv, NEW i \in InFlight, NEW queries \in SUBSET SoundJobs, GoOn(i, queries),
         UNCHANGED uinfo
  PROVE  AccountsInv'
<1>1. on_query_complete(i, queries) /\ UNCHANGED <<uinfo, uid_of, logins, upgrades, upgraded>>
  BY DEF GoOn
<1>2. Grown /\ DatabaseCounts' /\ RowsSound' /\ UpgradesSound' /\ WorkSound'
  BY <1>1, Handled
<1>3. asking' \in [Clients -> BOOLEAN]
  BY DEF GoOn, AccountsInv, LoginTypes
<1>4. LoginTypes' /\ LoginsSound' /\ UpgradedSound'
  BY <1>1, <1>2, <1>3, LoginsStay, UpgradedStay DEF AccountsInv
<1>5. RowTypes'
  BY <1>1 DEF AccountsInv, RowTypes
<1> QED
  BY <1>2, <1>4, <1>5 DEF AccountsInv

\* A client is logged in to the first account of its key.
LEMMA LoggedIn ==
  ASSUME AccountsInv, NEW i \in InFlight, NEW c \in Clients, NEW uid, LogIn(i, c, uid),
         UNCHANGED <<uinfo, upgrades, upgraded>>,
         IsFirst(uid, GuestKey[c]),
         \/ UNCHANGED logins
         \/ logins' = [logins EXCEPT ![GuestKey[c]] = @ \cup {uid}]
  PROVE  AccountsInv'
<1>1. on_query_complete(i, {}) /\ uid_of' = [uid_of EXCEPT ![c] = uid] /\ Answered(c)
  BY DEF LogIn
<1>2. Grown /\ DatabaseCounts' /\ RowsSound' /\ UpgradesSound' /\ WorkSound'
  BY <1>1, Handled
<1>3. asking' \in [Clients -> BOOLEAN]
  BY <1>1 DEF Answered, AccountsInv, LoginTypes
<1>4. uid \in DOMAIN uinfo
  BY DEF IsFirst
<1>5. LoginTypes'
  BY <1>1, <1>3, <1>4 DEF AccountsInv, LoginTypes
<1>6. \A key \in Keys : \A v \in logins[key] : IsFirst(v, key)
  BY DEF AccountsInv, LoginsSound
<1>7. ASSUME NEW key \in Keys, NEW v \in logins'[key]
      PROVE  IsFirst(v, key)
  <2>1. v \in logins[key] \/ (key = GuestKey[c] /\ v = uid)
    BY <1>7 DEF AccountsInv, LoginTypes
  <2> QED
    BY <1>6, <2>1
<1>8. \A d \in Clients : uid_of'[d] # 0 => IsFirst(uid_of'[d], GuestKey[d])
  BY <1>1 DEF AccountsInv, LoginsSound, LoginTypes
<1>9. /\ \A key \in Keys : \A v \in logins'[key] : IsFirst(v, key)'
      /\ \A d \in Clients : uid_of'[d] # 0 => IsFirst(uid_of[d], GuestKey[d])'
  BY <1>2, <1>7, <1>8, FirstStays
<1>10. LoginsSound'
  BY <1>9 DEF LoginsSound
<1>11. RowTypes' /\ UpgradedSound'
  BY <1>2, UpgradedStay DEF AccountsInv, RowTypes
<1> QED
  BY <1>2, <1>5, <1>10, <1>11 DEF AccountsInv

\* What is known of the query whose handler is called.
LEMMA JobFacts ==
  ASSUME AccountsInv, NEW i \in InFlight
  PROVE  /\ job(i) \in Jobs /\ Sound(job(i)) /\ job(i).sql = i[1]
         /\ job(i).uid \in Clients /\ GuestKey[job(i).uid] \in Keys
         /\ \A info \in ToSet(job(i).ret) : \E k \in DOMAIN job(i).ret : info = job(i).ret[k]
<1>1. job(i) \in Jobs /\ Sound(job(i)) /\ job(i).sql = i[1]
  BY JobInFlight DEF AccountsInv, SoundJobs
<1> QED
  BY <1>1, AccountsConstantsOK DEF Jobs, ToSet

LEMMA GuestFound ==
  ASSUME AccountsInv, NEW i \in InFlight, Ran(i, "get_guest_uinfo"), UNCHANGED uinfo,
         on_get_guest_uinfo(i, job(i).uid)
  PROVE  AccountsInv'
<1>1. PICK c \in Clients : c = job(i).uid
  BY JobFacts
<1>2. job(i).sql = "get_guest_uinfo" /\ job(i).arg = GuestKey[c]
  BY <1>1, JobFacts DEF Ran, Sound
<1>3. on_get_guest_uinfo(i, c)
  BY <1>1
<1>4. CASE Refuse(i, c)
  BY <1>4, Refused
<1>5. CASE GoOn(i, {query("insert_guest_user", c, job(i).arg)})
  <2>1. query("insert_guest_user", c, job(i).arg) \in SoundJobs
    BY <1>2, AccountsConstantsOK, NewQuery DEF AccountStatements
  <2> QED
    BY <1>5, <2>1, WentOn
<1>6. ASSUME NEW info \in ToSet(job(i).ret), LogIn(i, c, info.uid),
             logins' = [logins EXCEPT ![job(i).arg] = @ \cup {info.uid}],
             UNCHANGED <<upgrades, upgraded>>
      PROVE  AccountsInv'
  <2>1. IsFirst(info.uid, GuestKey[c])
    BY <1>2, JobFacts DEF Sound
  <2> QED
    BY <1>2, <1>6, <2>1, LoggedIn
<1> QED
  BY <1>3, <1>4, <1>5, <1>6 DEF on_get_guest_uinfo

LEMMA GuestInserted ==
  ASSUME AccountsInv, NEW i \in InFlight, Ran(i, "insert_guest_user"), UNCHANGED uinfo,
         on_insert_guest_user(i, job(i).uid)
  PROVE  AccountsInv'
<1>1. PICK c \in Clients : c = job(i).uid
  BY JobFacts
<1>2. job(i).sql = "insert_guest_user" /\ job(i).arg = GuestKey[c]
  BY <1>1, JobFacts DEF Ran, Sound
<1>3. on_insert_guest_user(i, c)
  BY <1>1
<1>4. CASE Refuse(i, c)
  BY <1>4, Refused
<1>5. CASE GoOn(i, {query("get_guest_uinfo", c, job(i).arg)})
  <2>1. query("get_guest_uinfo", c, job(i).arg) \in SoundJobs
    BY <1>2, AccountsConstantsOK, NewQuery DEF AccountStatements
  <2> QED
    BY <1>5, <2>1, WentOn
<1> QED
  BY <1>3, <1>4, <1>5 DEF on_insert_guest_user

LEMMA NameChecked ==
  ASSUME AccountsInv, NEW i \in InFlight, Ran(i, "check_uname_exist"), UNCHANGED uinfo,
         on_check_uname_exist(i, job(i).uid)
  PROVE  AccountsInv'
<1>1. PICK c \in Clients : c = job(i).uid
  BY JobFacts
<1>2. job(i).arg \in upgrades
  BY JobFacts DEF Ran, Sound
<1>3. on_check_uname_exist(i, c)
  BY <1>1
<1>4. CASE Refuse(i, c)
  BY <1>4, Refused
<1>5. CASE GoOn(i, {query("get_uinfo_by_uid", c, job(i).arg)})
  <2>1. query("get_uinfo_by_uid", c, job(i).arg) \in SoundJobs
    BY <1>2, NewQuery DEF AccountStatements
  <2> QED
    BY <1>5, <2>1, WentOn
<1> QED
  BY <1>3, <1>4, <1>5 DEF on_check_uname_exist

\* An account that is a guest's had not been upgraded when the upgrade was asked for.
LEMMA GuestChecked ==
  ASSUME AccountsInv, NEW i \in InFlight, Ran(i, "get_uinfo_by_uid"), UNCHANGED uinfo,
         on_get_uinfo_by_uid(i, job(i).uid)
  PROVE  AccountsInv'
<1>1. PICK c \in Clients : c = job(i).uid
  BY JobFacts
<1>2. /\ job(i).sql = "get_uinfo_by_uid" /\ job(i).arg \in upgrades /\ job(i).ran
      /\ job(i).arg.again /\ ~job(i).err => Head(job(i).ret).is_guest = 0
  BY JobFacts DEF Ran, Sound
<1>3. on_get_uinfo_by_uid(i, c)
  BY <1>1
<1>4. CASE Refuse(i, c)
  BY <1>4, Refused
<1>5. CASE MayUpgrade(i) /\ GoOn(i, {query("do_guest_account_upgrade", c, job(i).arg)})
  <2>1. ~job(i).arg.again
    BY <1>2, <1>5 DEF MayUpgrade
  <2>2. query("do_guest_account_upgrade", c, job(i).arg) \in SoundJobs
    BY <1>2, <2>1, NewQuery DEF AccountStatements
  <2> QED
    BY <1>5, <2>2, WentOn
<1> QED
  BY <1>3, <1>4, <1>5 DEF on_get_uinfo_by_uid

LEMMA UpgradeDone ==
  ASSUME AccountsInv, NEW i \in InFlight, Ran(i, "do_guest_account_upgrade"), UNCHANGED uinfo,
         on_guest_account_upgrade(i, job(i).uid)
  PROVE  AccountsInv'
<1>1. PICK c \in Clients : c = job(i).uid
  BY JobFacts
<1>2. /\ job(i).arg \in upgrades /\ ~job(i).arg.again
      /\ ~job(i).err => uinfo[job(i).arg.uid].is_guest = 0
  BY JobFacts DEF Ran, Sound
<1>3. on_guest_account_upgrade(i, c)
  BY <1>1
<1>4. CASE Refuse(i, c)
  BY <1>4, Refused
<1>5. CASE ~job(i).err /\ on_query_complete(i, {}) /\ Answered(c)
           /\ upgraded' = upgraded \cup {job(i).arg} /\ UNCHANGED <<uid_of, logins, upgrades>>
  <2>1. Grown /\ DatabaseCounts' /\ RowsSound' /\ UpgradesSound' /\ WorkSound'
    BY <1>5, Handled
  <2>2. asking' \in [Clients -> BOOLEAN]
    BY <1>5 DEF Answered, AccountsInv, LoginTypes
  <2>3. LoginTypes' /\ LoginsSound'
    BY <1>5, <2>1, <2>2, LoginsStay DEF AccountsInv
  <2>4. RowTypes'
    BY <1>2, <1>5 DEF AccountsInv, RowTypes
  <2>5. UpgradedSound'
    BY <1>2, <1>5 DEF AccountsInv, UpgradedSound
  <2> QED
    BY <2>1, <2>3, <2>4, <2>5 DEF AccountsInv
<1> QED
  BY <1>3, <1>4, <1>5 DEF on_guest_account_upgrade

LEMMA NameFound ==
  ASSUME AccountsInv, NEW i \in InFlight, Ran(i, "get_uinfo_by_uname_upwd"), UNCHANGED uinfo,
         on_get_uinfo_by_uname_upwd(i, job(i).uid)
  PROVE  AccountsInv'
<1>1. PICK c \in Clients : c = job(i).uid
  BY JobFacts
<1>2. on_get_uinfo_by_uname_upwd(i, c)
  BY <1>1
<1>3. CASE Refuse(i, c)
  BY <1>3, Refused
<1>4. ASSUME NEW info \in ToSet(job(i).ret), LogIn(i, c, info.uid),
             UNCHANGED <<logins, upgrades, upgraded>>
      PROVE  AccountsInv'
  <2>1. IsFirst(info.uid, GuestKey[c])
    BY <1>1, JobFacts DEF Ran, Sound
  <2> QED
    BY <1>4, <2>1, LoggedIn
<1> QED
  BY <1>2, <1>3, <1>4 DEF on_get_uinfo_by_uname_upwd

-----------------------------------------------------------------------------
(* Statements *)

\* A query that has been executed, after which Grown holds of the rows.
LEMMA Answerable ==
  ASSUME AccountsInv, NEW i \in InFlight, NEW err \in BOOLEAN, NEW ret \in Seq(Info), Grown,
         job(i).sql = "get_guest_uinfo" => \A k \in DOMAIN ret : IsFirst(ret[k].uid, job(i).arg),
         job(i).sql = "get_uinfo_by_uid" /\ ~err /\ job(i).arg.again => Head(ret).is_guest = 0,
         job(i).sql = "do_guest_account_upgrade" /\ ~err => uinfo'[job(i).arg.uid].is_guest = 0,
         job(i).sql = "get_uinfo_by_uname_upwd" =>
           \A k \in DOMAIN ret : IsFirst(ret[k].uid, GuestKey[job(i).uid])
  PROVE  [job(i) EXCEPT !.ran = TRUE, !.err = err, !.ret = ret] \in SoundJobs'
<1>1. job(i) \in Jobs /\ Sound(job(i))
  BY JobFacts
<1>2. PICK q : q = [job(i) EXCEPT !.ran = TRUE, !.err = err, !.ret = ret]
  OBVIOUS
<1>3. /\ q.sql = job(i).sql /\ q.uid = job(i).uid /\ q.arg = job(i).arg
      /\ q.ran = TRUE /\ q.err = err /\ q.ret = ret
  BY <1>1, <1>2 DEF Jobs
<1>4. Info \subseteq Info'
  BY DEF Info, Grown
<1>5. ret \in Seq(Info')
  BY <1>4, SeqMonotonic
<1>6. q \in Jobs'
  BY <1>1, <1>2, <1>5 DEF Jobs, Grown
<1>7. /\ q.sql = "get_guest_uinfo" => \A k \in DOMAIN q.ret : IsFirst(q.ret[k].uid, q.arg)'
      /\ q.sql = "get_uinfo_by_uname_upwd" =>
           \A k \in DOMAIN q.ret : IsFirst(q.ret[k].uid, GuestKey[q.uid])'
  BY <1>3, FirstStays
<1>8. q.sql \in {"check_uname_exist", "get_uinfo_by_uid", "do_guest_account_upgrade"} =>
        q.arg \in upgrades'
  BY <1>1, <1>3 DEF Sound, Grown
<1>9. q.sql = "do_guest_account_upgrade" /\ ~q.err => uinfo'[q.arg.uid].is_guest = 0
  BY <1>3
<1>10. /\ q.sql \in {"get_guest_uinfo", "insert_guest_user"} => q.arg = GuestKey[q.uid]
       /\ q.sql = "get_uinfo_by_uid" /\ ~q.err /\ q.arg.again => Head(q.ret).is_guest = 0
       /\ q.sql = "do_guest_account_upgrade" => ~q.arg.again
       /\ q.sql = "get_uinfo_by_uname_upwd" =>
            q.arg \in [uname : Names, upwd : Clients] /\ q.arg.upwd = q.uid
  BY <1>1, <1>3 DEF Sound
<1>11. Sound(q)'
  BY <1>3, <1>7, <1>8, <1>9, <1>10 DEF Sound
<1> QED
  BY <1>2, <1>6, <1>11 DEF SoundJobs

\* The table may change, nothing else does but the query.
LEMMA Worked ==
  ASSUME AccountsInv, Grown, RowTypes', RowsSound', WorkSound', DatabaseCounts',
         UNCHANGED <<asking, uid_of, logins, upgrades, upgraded>>
  PROVE  AccountsInv'
<1>1. asking' \in [Clients -> BOOLEAN]
  BY DEF AccountsInv, LoginTypes
<1> QED
  BY <1>1, LoginsStay, UpgradesStay, UpgradedStay DEF AccountsInv

\* What a select finds.
LEMMA SelectDone ==
  ASSUME AccountsInv, NEW i \in InFlight, NEW uids \in SUBSET DOMAIN uinfo,
         query_work(i, Limit1(uids)), UNCHANGED uinfo,
         UNCHANGED <<asking, uid_of, logins, upgrades, upgraded>>,
         job(i).sql # "do_guest_account_upgrade",
         job(i).sql = "get_guest_uinfo" =>
           uids = {uid \in DOMAIN uinfo : uinfo[uid].guest_key = job(i).arg},
         job(i).sql = "get_uinfo_by_uid" => uids = {job(i).arg.uid},
         job(i).sql = "get_uinfo_by_uname_upwd" =>
           \A uid \in uids : IsFirst(uid, GuestKey[job(i).uid])
  PROVE  AccountsInv'
<1>1. RowTypes
  BY DEF AccountsInv
<1>2. PICK ret : ret = Limit1(uids)
  OBVIOUS
<1>3. /\ ret \in Seq(Info)
      /\ uids = {} => DOMAIN ret = {}
      /\ uids # {} => /\ Min(uids) \in uids /\ \A uid \in uids : Min(uids) <= uid
                      /\ DOMAIN ret = {1} /\ ret[1].uid = Min(uids)
                      /\ Head(ret).is_guest = uinfo[Min(uids)].is_guest
  BY <1>1, <1>2, FirstOfRows
<1>4. Grown
  BY UnchangedGrown
<1>5. job(i).sql = "get_guest_uinfo" => \A k \in DOMAIN ret : IsFirst(ret[k].uid, job(i).arg)
  BY <1>3 DEF IsFirst
<1>6. job(i).sql = "get_uinfo_by_uid" /\ job(i).arg.again => Head(ret).is_guest = 0
  <2>1. SUFFICES ASSUME job(i).sql = "get_uinfo_by_uid", job(i).arg.again
                 PROVE  Head(ret).is_guest = 0
    OBVIOUS
  <2>2. job(i).arg \in upgrades
    BY <2>1, JobFacts DEF Sound
  <2>3. uinfo[job(i).arg.uid].is_guest = 0
    BY <2>1, <2>2 DEF AccountsInv, UpgradesSound
  <2> QED
    BY <1>3, <2>1, <2>3
<1>7. job(i).sql = "get_uinfo_by_uname_upwd" =>
        \A k \in DOMAIN ret : IsFirst(ret[k].uid, GuestKey[job(i).uid])
  BY <1>3
<1>8. [job(i) EXCEPT !.ran = TRUE, !.err = FALSE, !.ret = ret] \in SoundJobs'
  BY <1>3, <1>4, <1>5, <1>6, <1>7, Answerable
<1>9. Execute(i, FALSE, ret) /\ UNCHANGED <<connections, counters>>
  BY <1>2 DEF query_work
<1>10. WorkSound'
  BY <1>1, <1>4, <1>8, <1>9, SoundStays, Executed DEF AccountsInv
<1>11. DatabaseCounts'
  BY <1>9 DEF AccountsInv, DatabaseCounts, connections, counters
<1>12. RowTypes' /\ RowsSound'
  BY RowsStay DEF AccountsInv, RowTypes
<1> QED
  BY <1>4, <1>10, <1>11, <1>12, Worked

\* An account with a password is its owner's: the first of the owner's key.
LEMMA ByPassword ==
  ASSUME AccountsInv, NEW uid \in DOMAIN uinfo, uinfo[uid].upwd \in Clients
  PROVE  IsFirst(uid, GuestKey[uinfo[uid].upwd])
<1>1. uinfo[uid] \in Account
  BY ElementOfSeq, LenProperties DEF AccountsInv, RowTypes
<1>2. RowSound(uinfo[uid], uid)
  BY DEF AccountsInv, RowsSound
<1>3. PICK last \in upgrades : last.uid = uid /\ last.upwd = uinfo[uid].upwd
  BY <1>1, <1>2, Rows, AccountsConstantsOK DEF RowSound
<1> QED
  BY <1>3 DEF AccountsInv, UpgradesSound

LEMMA Selected ==
  ASSUME AccountsInv, NEW i \in InFlight, select(i),
         UNCHANGED <<asking, uid_of, logins, upgrades, upgraded>>
  PROVE  AccountsInv'
<1>1. job(i).sql = i[1] /\ UNCHANGED uinfo
  BY JobFacts DEF select
<1>2. CASE /\ Queued(i, "get_guest_uinfo")
           /\ query_work(i, Limit1({uid \in DOMAIN uinfo : uinfo[uid].guest_key = job(i).arg}))
  BY <1>1, <1>2, SelectDone DEF Queued
<1>3. CASE Queued(i, "check_uname_exist") /\ query_work(i, Limit1(Named(job(i).arg.uname)))
  <2>1. Named(job(i).arg.uname) \in SUBSET DOMAIN uinfo
    BY DEF Named
  <2> QED
    BY <1>1, <1>3, <2>1, SelectDone DEF Queued
<1>4. CASE Queued(i, "get_uinfo_by_uid") /\ query_work(i, Limit1({job(i).arg.uid}))
  <2>1. job(i).arg \in upgrades
    BY <1>1, <1>4, JobFacts DEF Sound, Queued
  <2>2. {job(i).arg.uid} \in SUBSET DOMAIN uinfo
    BY <2>1 DEF AccountsInv, RowTypes
  <2> QED
    BY <1>1, <1>4, <2>2, SelectDone DEF Queued
<1>5. CASE /\ Queued(i, "get_uinfo_by_uname_upwd")
           /\ query_work(i, Limit1({uid \in Named(job(i).arg.uname) :
                                      uinfo[uid].upwd = job(i).arg.upwd}))
  <2> DEFINE uids == {uid \in Named(job(i).arg.uname) : uinfo[uid].upwd = job(i).arg.upwd}
  <2>1. uids \in SUBSET DOMAIN uinfo
    BY DEF Named
  <2>2. job(i).arg.upwd = job(i).uid /\ job(i).uid \in Clients
    BY <1>1, <1>5, JobFacts DEF Sound, Queued
  <2>3. \A uid \in uids : IsFirst(uid, GuestKey[job(i).uid])
    BY <2>1, <2>2, ByPassword
  <2>4. query_work(i, Limit1(uids))
    BY <1>5
  <2> HIDE DEF uids
  <2> QED
    BY <1>1, <1>5, <2>1, <2>3, <2>4, SelectDone DEF Queued
<1> QED
  BY <1>2, <1>3, <1>4, <1>5 DEF select

\* A write, that may be reported as failed.
LEMMA Written ==
  ASSUME AccountsInv, NEW i \in InFlight, Grown, RowTypes', RowsSound',
         UNCHANGED <<asking, uid_of, logins, upgrades, upgraded>>,
         \/ query_fails(i)
         \/ /\ query_work(i, <<>>)
            /\ i[1] \in {"insert_guest_user", "do_guest_account_upgrade"}
            /\ i[1] = "do_guest_account_upgrade" => uinfo'[job(i).arg.uid].is_guest = 0
  PROVE  AccountsInv'
<1>1. job(i).sql = i[1] /\ <<>> \in Seq(Info) /\ DOMAIN <<>> = {} /\ RowTypes
  BY JobFacts DEF AccountsInv
<1>2. WorkSound' /\ DatabaseCounts'
  <2>1. CASE query_fails(i)
    <3>1. [job(i) EXCEPT !.ran = TRUE, !.err = TRUE, !.ret = <<>>] \in SoundJobs'
      BY <1>1, Answerable
    <3>2. WorkSound'
      BY <1>1, <2>1, <3>1, SoundStays, Executed DEF query_fails, AccountsInv
    <3> QED
      BY <2>1, <3>2, DatabaseConstantsOK DEF query_fails, AccountsInv, DatabaseCounts, connections
  <2>2. CASE /\ query_work(i, <<>>)
             /\ i[1] \in {"insert_guest_user", "do_guest_account_upgrade"}
             /\ i[1] = "do_guest_account_upgrade" => uinfo'[job(i).arg.uid].is_guest = 0
    <3>1. [job(i) EXCEPT !.ran = TRUE, !.err = FALSE, !.ret = <<>>] \in SoundJobs'
      BY <1>1, <2>2, Answerable
    <3>2. WorkSound'
      BY <1>1, <2>2, <3>1, SoundStays, Executed DEF query_work, AccountsInv
    <3> QED
      BY <2>2, <3>2 DEF query_work, AccountsInv, DatabaseCounts, connections, counters
  <2> QED
    BY <2>1, <2>2
<1> QED
  BY <1>2, Worked

\* The new row is the last.
LEMMA Inserted ==
  ASSUME AccountsInv, NEW i \in InFlight, insert_guest_user(i),
         UNCHANGED <<asking, uid_of, logins, upgrades, upgraded>>
  PROVE  AccountsInv'
<1>1. job(i).sql = "insert_guest_user" /\ i[1] = "insert_guest_user"
  BY JobFacts DEF insert_guest_user, Queued
<1>2. job(i).arg \in Keys
  BY <1>1, JobFacts DEF Sound
<1>3. PICK new : new = NewGuest(job(i).arg)
  OBVIOUS
<1>4. new.is_guest = 1 /\ new.upwd = ""
  BY <1>2, <1>3, RowInserted
<1>5. /\ uinfo' \in Seq(Account) /\ Len(uinfo') = Len(uinfo) + 1
      /\ \A uid \in 1 .. Len(uinfo) : uinfo'[uid] = uinfo[uid]
      /\ uinfo'[Len(uinfo) + 1] = new
  <2>1. uinfo \in Seq(Account) /\ uinfo' = Append(uinfo, new)
    BY <1>3 DEF AccountsInv, RowTypes, insert_guest_user
  <2>2. new \in Account
    BY <1>2, <1>3, RowInserted
  <2>3. /\ Append(uinfo, new) \in Seq(Account) /\ Len(Append(uinfo, new)) = Len(uinfo) + 1
        /\ \A uid \in 1 .. Len(uinfo) : Append(uinfo, new)[uid] = uinfo[uid]
        /\ Append(uinfo, new)[Len(uinfo) + 1] = new
    BY <2>1, <2>2, AppendProperties
  <2> QED
    BY <2>1, <2>3
<1>6. DOMAIN uinfo = 1 .. Len(uinfo) /\ Len(uinfo) \in Nat /\ DOMAIN uinfo' = 1 .. Len(uinfo) + 1
  BY <1>5, LenProperties DEF AccountsInv, RowTypes
<1>7. Grown
  BY <1>5, <1>6 DEF Grown
<1>8. RowTypes'
  <2>1. DOMAIN uinfo \subseteq DOMAIN uinfo'
    BY <1>6
  <2> QED
    BY <1>5, <2>1 DEF AccountsInv, RowTypes
<1>9. RowsSound'
  <2>1. \A uid \in DOMAIN uinfo : RowSound(uinfo[uid], uid)
    BY DEF AccountsInv, RowsSound
  <2>2. \A uid \in DOMAIN uinfo : RowSound(uinfo'[uid], uid)
    BY <1>5, <1>6, <2>1
  <2>3. RowSound(uinfo'[Len(uinfo) + 1], Len(uinfo) + 1)
    <3>1. 1 # 0
      OBVIOUS
    <3>2. RowSound(new, Len(uinfo) + 1)
      BY <1>4, <3>1 DEF RowSound
    <3> QED
      BY <1>5, <3>2
  <2>4. \A uid \in DOMAIN uinfo' : RowSound(uinfo'[uid], uid)
    BY <1>6, <2>2, <2>3
  <2> QED
    BY <2>4 DEF RowsSound, RowSound
<1>10. query_work(i, <<>>) \/ query_fails(i)
  BY DEF insert_guest_user, write_work
<1> QED
  BY <1>1, <1>7, <1>8, <1>9, <1>10, Written

LEMMA Upgraded ==
  ASSUME AccountsInv, NEW i \in InFlight, do_guest_account_upgrade(i),
         UNCHANGED <<asking, uid_of, logins, upgrades, upgraded>>
  PROVE  AccountsInv'
<1>1. job(i).sql = "do_guest_account_upgrade" /\ i[1] = "do_guest_account_upgrade"
  BY JobFacts DEF do_guest_account_upgrade, Queued
<1>2. job(i).arg \in upgrades /\ ~job(i).arg.again
  BY <1>1, JobFacts DEF Sound
<1>3. PICK up \in upgrades : up = job(i).arg
  BY <1>2
<1>4. up.uid \in DOMAIN uinfo /\ up.uname \in Names /\ up.upwd \in Clients /\ ~up.again
  BY <1>2, <1>3 DEF AccountsInv, RowTypes
<1>5. uinfo \in Seq(Account) /\ \A uid \in DOMAIN uinfo : uinfo[uid] \in Account
  BY ElementOfSeq, LenProperties DEF AccountsInv, RowTypes
<1>6. PICK new : new = upgrade_of(uinfo[up.uid], up)
  OBVIOUS
<1>7. /\ new \in Account /\ new.guest_key = uinfo[up.uid].guest_key /\ new.is_guest = 0
      /\ new.uname = up.uname /\ new.upwd = up.upwd
  BY <1>4, <1>5, <1>6, RowUpgraded
<1>8. uinfo' = [uinfo EXCEPT ![up.uid] = new]
  BY <1>3, <1>6 DEF do_guest_account_upgrade
<1>9. /\ uinfo' \in Seq(Account) /\ DOMAIN uinfo' = DOMAIN uinfo
      /\ \A uid \in DOMAIN uinfo : uinfo'[uid] = IF uid = up.uid THEN new ELSE uinfo[uid]
  BY <1>4, <1>5, <1>7, <1>8, ExceptSeq, LenProperties
<1>10. Grown
  BY <1>7, <1>9 DEF Grown
<1>11. RowTypes'
  BY <1>9 DEF AccountsInv, RowTypes
<1>12. RowsSound'
  <2>1. RowSound(new, up.uid)
    BY <1>4, <1>7 DEF RowSound
  <2>2. \A uid \in DOMAIN uinfo : RowSound(uinfo[uid], uid)
    BY DEF AccountsInv, RowsSound
  <2>3. \A uid \in DOMAIN uinfo' : RowSound(uinfo'[uid], uid)
    BY <1>9, <2>1, <2>2
  <2> QED
    BY <2>3 DEF RowsSound, RowSound
<1>13. uinfo'[job(i).arg.uid].is_guest = 0
  BY <1>3, <1>4, <1>7, <1>9
<1>14. query_work(i, <<>>) \/ query_fails(i)
  BY DEF do_guest_account_upgrade, write_work
<1> QED
  BY <1>1, <1>10, <1>11, <1>12, <1>13, <1>14, Written

LEMMA NothingDone ==
  ASSUME AccountsInv, NEW i \in InFlight, nothing_done(i),
         UNCHANGED <<asking, uid_of, logins, upgrades, upgraded>>
  PROVE  AccountsInv'
<1>1. Grown
  BY UnchangedGrown DEF nothing_done
<1>2. RowTypes' /\ RowsSound'
  BY RowsStay DEF nothing_done, AccountsInv, RowTypes
<1> QED
  BY <1>1, <1>2, Written DEF nothing_done

LEMMA Frozen ==
  ASSUME AccountsInv, freeze
  PROVE  AccountsInv'
<1>1. PICK uid \in DOMAIN uinfo : uinfo' = [uinfo EXCEPT ![uid].status = 1]
  BY DEF freeze
<1>2. /\ UNCHANGED <<work, asking, uid_of, logins, upgrades, upgraded, connections, faults>>
      /\ requests < MaxRequests /\ requests' = requests + 1
  BY DEF freeze, Asked
<1>3. uinfo \in Seq(Account) /\ \A v \in DOMAIN uinfo : uinfo[v] \in Account
  BY ElementOfSeq, LenProperties DEF AccountsInv, RowTypes
<1>4. PICK new : new = [uinfo[uid] EXCEPT !.status = 1]
  OBVIOUS
<1>5. /\ new \in Account /\ new.guest_key = uinfo[uid].guest_key
      /\ new.is_guest = uinfo[uid].is_guest
      /\ new.uname = uinfo[uid].uname /\ new.upwd = uinfo[uid].upwd
  BY <1>3, <1>4, RowFrozen
<1>6. uinfo' = [uinfo EXCEPT ![uid] = new]
  BY <1>1, <1>4
<1>7. /\ uinfo' \in Seq(Account) /\ DOMAIN uinfo' = DOMAIN uinfo
      /\ \A v \in DOMAIN uinfo : uinfo'[v] = IF v = uid THEN new ELSE uinfo[v]
  BY <1>3, <1>5, <1>6, ExceptSeq, LenProperties
<1>8. Grown
  BY <1>2, <1>5, <1>7 DEF Grown
<1>9. RowTypes'
  BY <1>2, <1>7 DEF AccountsInv, RowTypes
<1>10. RowsSound'
  <2>1. \A v \in DOMAIN uinfo : RowSound(uinfo[v], v)
    BY DEF AccountsInv, RowsSound
  <2>2. RowSound(new, uid)
    <3>1. RowSound(uinfo[uid], uid)
      BY <2>1
    <3> QED
      BY <1>5, <3>1 DEF RowSound
  <2>3. \A v \in DOMAIN uinfo' : RowSound(uinfo'[v], v)
    BY <1>7, <2>1, <2>2
  <2> QED
    BY <1>2, <2>3 DEF RowsSound, RowSound
<1>11. WorkSound'
  BY <1>2, <1>8, SoundStays, PoolGrows DEF AccountsInv, WorkSound
<1>12. DatabaseCounts'
  BY <1>2, DatabaseConstantsOK DEF AccountsInv, DatabaseCounts, connections
<1> QED
  BY <1>2, <1>8, <1>9, <1>10, <1>11, <1>12, Worked

-----------------------------------------------------------------------------
(* The invariant, and what follows from it *)

LEMMA AccountsInit == Init => AccountsInv
<1> SUFFICES ASSUME Init
             PROVE  AccountsInv
  OBVIOUS
<1>1. WorkSound
  <2>1. work = [sql \in AccountStatements |-> <<>>]
    BY DEF Init, DatabaseInit
  <2>2. [sql \in AccountStatements |-> <<>>] \in Pool(AccountStatements, SoundJobs)
    BY PoolEmpty
  <2> QED
    BY <2>1, <2>2 DEF WorkSound
<1>2. DatabaseCounts
  <2>1. mysql_conn \in BOOLEAN /\ redis_conn \in BOOLEAN
    BY DEF Init, DatabaseInit
  <2>2. faults \in 0 .. MaxFaults /\ requests \in 0 .. MaxRequests
    BY DatabaseConstantsOK DEF Init, DatabaseInit
  <2> QED
    BY <2>1, <2>2 DEF DatabaseCounts
<1>3. RowTypes /\ LoginTypes
  BY DEF Init, RowTypes, LoginTypes
<1>4. RowsSound /\ UpgradesSound /\ UpgradedSound /\ LoginsSound
  BY DEF Init, RowsSound, RowSound, UpgradesSound, UpgradedSound, LoginsSound
<1> QED
  BY <1>1, <1>2, <1>3, <1>4 DEF AccountsInv

LEMMA AccountsStep == AccountsInv /\ [Next]_vars => AccountsInv'
<1> SUFFICES ASSUME AccountsInv, [Next]_vars
             PROVE  AccountsInv'
  OBVIOUS
<1>1. CASE asks
  BY <1>1, GuestAsks, UpgradeAsks, NameAsks DEF asks
<1>2. ASSUME NEW i \in InFlight, handlers(i, job(i).uid), UNCHANGED uinfo
      PROVE  AccountsInv'
  BY <1>2, GuestFound, GuestInserted, NameChecked, GuestChecked, UpgradeDone, NameFound
     DEF handlers
<1>3. ASSUME NEW i \in InFlight, statements(i),
             UNCHANGED <<asking, uid_of, logins, upgrades, upgraded>>
      PROVE  AccountsInv'
  BY <1>3, Selected, Inserted, Upgraded, NothingDone DEF statements
<1>4. CASE freeze
  BY <1>4, Frozen
<1>5. ASSUME UNCHANGED <<accountsVars, work>>, DatabaseCounts'
      PROVE  AccountsInv'
  <2>1. Grown
    BY <1>5, UnchangedGrown DEF accountsVars
  <2>2. WorkSound'
    BY <1>5, <2>1, SoundStays, PoolGrows DEF AccountsInv, WorkSound
  <2>3. RowTypes' /\ RowsSound'
    BY <1>5, RowsStay DEF AccountsInv, RowTypes, accountsVars
  <2> QED
    BY <1>5, <2>1, <2>2, <2>3, Worked DEF accountsVars
<1>6. CASE mysql_connect /\ UNCHANGED accountsVars
  <2>1. DatabaseCounts' /\ UNCHANGED work
    BY <1>6 DEF mysql_connect, AccountsInv, DatabaseCounts, counters
  <2> QED
    BY <1>5, <1>6, <2>1
<1>7. CASE UNCHANGED vars
  <2>1. DatabaseCounts' /\ UNCHANGED <<accountsVars, work>>
    BY <1>7 DEF vars, database, connections, counters, AccountsInv, DatabaseCounts
  <2> QED
    BY <1>5, <2>1
<1> QED
  BY <1>1, <1>2, <1>3, <1>4, <1>6, <1>7 DEF Next, works

LEMMA AccountsAlways == Spec => []AccountsInv
BY AccountsInit, AccountsStep, PTL DEF Spec

\* The types, of the queries in flight too, whatever statement they are for.
THEOREM AccountTypes == Spec => []TypeOK
<1>1. AccountsInv => TypeOK
  <2> SUFFICES ASSUME AccountsInv
               PROVE  TypeOK
    OBVIOUS
  <2>1. \A i \in InFlight : job(i).sql = i[1] /\ (job(i).err => job(i).ran)
    BY JobFacts DEF Sound
  <2>2. DatabaseTypes
    BY <2>1 DEF AccountsInv, DatabaseCounts, DatabaseTypes
  <2> QED
    BY <2>2 DEF AccountsInv, RowTypes, LoginTypes, TypeOK
<1> QED
  BY <1>1, AccountsAlways, PTL

\* Guests with one key are logged in to one account, however many first logins with
\* the key are in flight together and insert rows (guest.lua).
THEOREM OneAccount == Spec => []OneAccountPerKey
<1>1. AccountsInv => OneAccountPerKey
  <2> SUFFICES ASSUME AccountsInv, NEW key \in Keys
               PROVE  Cardinality(logins[key]) <= 1
    BY DEF OneAccountPerKey
  <2>1. \A u, v \in logins[key] : u = v
    BY OneFirst DEF AccountsInv, LoginsSound
  <2>2. CASE logins[key] = {}
    BY <2>2, FS_EmptySet
  <2>3. CASE logins[key] # {}
    <3>1. PICK u : logins[key] = {u}
      BY <2>1, <2>3
    <3> QED
      BY <3>1, FS_Singleton
  <2> QED
    BY <2>2, <2>3
<1> QED
  BY <1>1, AccountsAlways, PTL

\* An account upgraded stays upgraded, with the name and password of an upgrade that
\* was asked for, which lead to it alone (account_upgrade.lua, uname_login.lua).
THEOREM UpgradesLast == Spec => []UpgradeStands
<1>1. AccountsInv => UpgradeStands
  <2> SUFFICES ASSUME AccountsInv, NEW up \in upgraded
               PROVE  LET row == uinfo[up.uid]
                      IN /\ ~up.again /\ row.is_guest = 0
                         /\ \E last \in upgrades :
                              /\ last.uid = up.uid /\ ~last.again
                              /\ last.uname = row.uname /\ last.upwd = row.upwd
                         /\ {uid \in Named(row.uname) : uinfo[uid].upwd = row.upwd} = {up.uid}
    BY DEF UpgradeStands
  <2>1. up.uid \in DOMAIN uinfo /\ ~up.again /\ uinfo[up.uid].is_guest = 0
    BY DEF AccountsInv, RowTypes, UpgradedSound
  <2>2. PICK last \in upgrades :
          /\ last.uid = up.uid /\ ~last.again
          /\ last.uname = uinfo[up.uid].uname /\ last.upwd = uinfo[up.uid].upwd
    BY <2>1 DEF AccountsInv, RowsSound, RowSound
  <2>3. uinfo[up.uid].upwd \in Clients
    BY <2>2 DEF AccountsInv, RowTypes
  <2>4. ASSUME NEW uid \in DOMAIN uinfo, uinfo[uid].upwd = uinfo[up.uid].upwd
        PROVE  uid = up.uid
    BY <2>1, <2>3, <2>4, ByPassword, OneFirst DEF AccountsInv
  <2>5. {uid \in Named(uinfo[up.uid].uname) : uinfo[uid].upwd = uinfo[up.uid].upwd} = {up.uid}
    BY <2>1, <2>4 DEF Named
  <2> QED
    BY <2>1, <2>2, <2>5
<1> QED
  BY <1>1, AccountsAlways, PTL
=============================================================================
