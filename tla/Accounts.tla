------------------------------ MODULE Accounts ------------------------------
(***************************************************************************)
(* The auth server's accounts (guest.lua, account_upgrade.lua,             *)
(* uname_login.lua, mysql_auth_center.lua): a guest's first login inserts  *)
(* its account, which may be upgraded to one with a name and a password.   *)
(* Redis' copy of the profile is left out: nothing here reads it.          *)
(***************************************************************************)
EXTENDS Database, FiniteSetsExt

CONSTANTS
  Clients,
  Keys, GuestKey,  \* each client's guest key
  Names            \* names to upgrade to; a client's password is its own

\* No password is empty.
ASSUME AccountsConstantsOK == GuestKey \in [Clients -> Keys] /\ "" \notin Clients

VARIABLES
  uinfo,     \* the table, by uid
  asking,    \* whether a client waits for an answer
  uid_of,    \* the account a client is logged in to, 0 for none
  logins,    \* history: per key, the accounts guests were logged in to
  upgrades,  \* history: the upgrades that were asked for
  upgraded   \* history: those answered with OK

accountsVars == <<uinfo, asking, uid_of, logins, upgrades, upgraded>>
vars == <<database, accountsVars>>

Account ==
  [guest_key : Keys, uname : Names \cup {"0"}, upwd : Clients \cup {""},
   status : 0 .. 1, is_guest : 0 .. 1]

TypeOK ==
  /\ DatabaseTypes
  /\ uinfo \in Seq(Account)
  /\ asking \in [Clients -> BOOLEAN]
  /\ uid_of \in [Clients -> {0} \cup DOMAIN uinfo]
  /\ \A key \in Keys : logins[key] \subseteq DOMAIN uinfo
  /\ upgrades \subseteq [uid : DOMAIN uinfo, uname : Names, upwd : Clients, again : BOOLEAN]
  /\ upgraded \subseteq upgrades

AccountStatements ==
  {"get_guest_uinfo", "insert_guest_user", "check_uname_exist", "get_uinfo_by_uid",
   "do_guest_account_upgrade", "get_uinfo_by_uname_upwd"}

Init ==
  /\ DatabaseInit(AccountStatements)
  /\ uinfo = <<>>
  /\ asking = [c \in Clients |-> FALSE]
  /\ uid_of = [c \in Clients |-> 0]
  /\ logins = [key \in Keys |-> {}]
  /\ upgrades = {} /\ upgraded = {}

-----------------------------------------------------------------------------
(* Requests: a client waits for its answer.  Without MySQL the answer is an error. *)

Asks(c, sql, arg) ==
  /\ mysql_conn /\ ~asking[c]
  /\ Asked
  /\ asking' = [asking EXCEPT ![c] = TRUE]
  /\ Query(sql, c, arg)
  /\ UNCHANGED <<uinfo, uid_of, logins, upgraded>>

guest_login(c) == Asks(c, "get_guest_uinfo", GuestKey[c]) /\ UNCHANGED upgrades

\* Whether an upgrade of the account has been answered with OK.
IsUpgraded(uid) == \E up \in upgraded : up.uid = uid

do_upgrade(c) ==
  /\ uid_of[c] # 0
  /\ \E uname \in Names :
       LET up == [uid |-> uid_of[c], uname |-> uname, upwd |-> c,
                  again |-> IsUpgraded(uid_of[c])]
       IN Asks(c, "check_uname_exist", up) /\ upgrades' = upgrades \cup {up}

uname_login(c) ==
  \E uname \in Names :
    /\ Asks(c, "get_uinfo_by_uname_upwd", [uname |-> uname, upwd |-> c])
    /\ UNCHANGED upgrades

\* Others set an account's status.
freeze ==
  /\ Asked
  /\ \E uid \in DOMAIN uinfo :
       uinfo[uid].status = 0 /\ uinfo' = [uinfo EXCEPT ![uid].status = 1]
  /\ UNCHANGED <<work, asking, uid_of, logins, upgrades, upgraded>>

-----------------------------------------------------------------------------
(* Handlers, in the loop *)

Answered(c) == asking' = [asking EXCEPT ![c] = FALSE]

Refuse(i, c) ==
  on_query_complete(i, {}) /\ Answered(c) /\ UNCHANGED <<uid_of, logins, upgrades, upgraded>>

GoOn(i, queries) ==
  on_query_complete(i, queries) /\ UNCHANGED <<asking, uid_of, logins, upgrades, upgraded>>

LogIn(i, c, uid) ==
  on_query_complete(i, {}) /\ Answered(c) /\ uid_of' = [uid_of EXCEPT ![c] = uid]

MayLogInAsGuest(info) == info.status = 0 /\ info.is_guest = 1

on_get_guest_uinfo(i, c) ==
  \/ /\ job(i).err \/ (\E info \in ToSet(job(i).ret) : ~MayLogInAsGuest(info))
     /\ Refuse(i, c)
  \/ /\ ~job(i).err /\ job(i).ret = <<>>
     /\ GoOn(i, {query("insert_guest_user", c, job(i).arg)})
  \/ \E info \in ToSet(job(i).ret) :
       /\ MayLogInAsGuest(info)
       /\ LogIn(i, c, info.uid)
       /\ logins' = [logins EXCEPT ![job(i).arg] = @ \cup {info.uid}]
       /\ UNCHANGED <<upgrades, upgraded>>

\* Fault: the account just inserted is the one logged in to.
on_insert_guest_user_at_once(i, c) ==
  \/ job(i).err /\ Refuse(i, c)
  \/ /\ ~job(i).err /\ LogIn(i, c, Len(uinfo))
     /\ logins' = [logins EXCEPT ![job(i).arg] = @ \cup {Len(uinfo)}]
     /\ UNCHANGED <<upgrades, upgraded>>

\* login(s, rec_msg) once more.
on_insert_guest_user(i, c) ==
  \/ job(i).err /\ Refuse(i, c)
  \/ ~job(i).err /\ GoOn(i, {query("get_guest_uinfo", c, job(i).arg)})

\* The name is free: go on to _check_is_guest.
on_check_uname_exist(i, c) ==
  \/ (job(i).err \/ job(i).ret # <<>>) /\ Refuse(i, c)
  \/ /\ ~job(i).err /\ job(i).ret = <<>>
     /\ GoOn(i, {query("get_uinfo_by_uid", c, job(i).arg)})

\* Fault: any account is upgraded.
MayUpgrade_any(i) == ~job(i).err

MayUpgrade(i) == ~job(i).err /\ Head(job(i).ret).is_guest = 1

on_get_uinfo_by_uid(i, c) ==
  \/ ~MayUpgrade(i) /\ Refuse(i, c)
  \/ MayUpgrade(i) /\ GoOn(i, {query("do_guest_account_upgrade", c, job(i).arg)})

on_guest_account_upgrade(i, c) ==
  \/ job(i).err /\ Refuse(i, c)
  \/ /\ ~job(i).err
     /\ on_query_complete(i, {}) /\ Answered(c)
     /\ upgraded' = upgraded \cup {job(i).arg}
     /\ UNCHANGED <<uid_of, logins, upgrades>>

on_get_uinfo_by_uname_upwd(i, c) ==
  \/ (\A info \in ToSet(job(i).ret) : info.status # 0) /\ Refuse(i, c)
  \/ \E info \in ToSet(job(i).ret) :
       info.status = 0 /\ LogIn(i, c, info.uid) /\ UNCHANGED <<logins, upgrades, upgraded>>

handlers(i, c) ==
  \/ Ran(i, "get_guest_uinfo") /\ on_get_guest_uinfo(i, c)
  \/ Ran(i, "insert_guest_user") /\ on_insert_guest_user(i, c)
  \/ Ran(i, "check_uname_exist") /\ on_check_uname_exist(i, c)
  \/ Ran(i, "get_uinfo_by_uid") /\ on_get_uinfo_by_uid(i, c)
  \/ Ran(i, "do_guest_account_upgrade") /\ on_guest_account_upgrade(i, c)
  \/ Ran(i, "get_uinfo_by_uname_upwd") /\ on_get_uinfo_by_uname_upwd(i, c)

-----------------------------------------------------------------------------
(* Statements, in the pool *)

\* The first of these rows, as limit 1 finds it in the order of the primary key.
Limit1(uids) ==
  IF uids = {} THEN <<>>
  ELSE LET uid == Min(uids)
       IN <<[uid |-> uid, status |-> uinfo[uid].status, is_guest |-> uinfo[uid].is_guest]>>

Named(uname) == {uid \in DOMAIN uinfo : uinfo[uid].uname = uname}

select(i) ==
  LET arg == job(i).arg
  IN /\ \/ /\ Queued(i, "get_guest_uinfo")
           /\ query_work(i, Limit1({uid \in DOMAIN uinfo : uinfo[uid].guest_key = arg}))
        \/ /\ Queued(i, "check_uname_exist")
           /\ query_work(i, Limit1(Named(arg.uname)))
        \/ /\ Queued(i, "get_uinfo_by_uid")
           /\ query_work(i, Limit1({arg.uid}))
        \/ /\ Queued(i, "get_uinfo_by_uname_upwd")
           /\ query_work(i, Limit1({uid \in Named(arg.uname) : uinfo[uid].upwd = arg.upwd}))
     /\ UNCHANGED uinfo

NewGuest(key) ==
  [guest_key |-> key, uname |-> "0", upwd |-> "", status |-> 0, is_guest |-> 1]

insert_guest_user(i) ==
  /\ Queued(i, "insert_guest_user") /\ write_work(i)
  /\ uinfo' = Append(uinfo, NewGuest(job(i).arg))

\* Fault: the name that marks an account as a guest's is kept.
upgrade_of_zero(row, arg) == [row EXCEPT !.is_guest = @ - 1, !.uname = arg.uname]

upgrade_of(row, arg) ==
  [row EXCEPT !.uname = arg.uname, !.upwd = arg.upwd, !.is_guest = 0]

do_guest_account_upgrade(i) ==
  /\ Queued(i, "do_guest_account_upgrade") /\ write_work(i)
  /\ uinfo' = [uinfo EXCEPT ![job(i).arg.uid] = upgrade_of(@, job(i).arg)]

\* A statement fails, and has done nothing.
nothing_done(i) == ~job(i).ran /\ query_fails(i) /\ UNCHANGED uinfo

statements(i) ==
  select(i) \/ insert_guest_user(i) \/ do_guest_account_upgrade(i) \/ nothing_done(i)

-----------------------------------------------------------------------------

asks == \E c \in Clients : guest_login(c) \/ do_upgrade(c) \/ uname_login(c)

works ==
  \E i \in InFlight :
    \/ handlers(i, job(i).uid) /\ UNCHANGED uinfo
    \/ statements(i) /\ UNCHANGED <<asking, uid_of, logins, upgrades, upgraded>>

Next ==
  \/ asks \/ works \/ freeze
  \/ mysql_connect /\ UNCHANGED accountsVars

Spec == Init /\ [][Next]_vars

-----------------------------------------------------------------------------
(* Properties *)

\* A guest key leads to one account, also when first logins with it are in flight
\* together and each inserts a row (guest.lua: after the insertion the login starts
\* again from the select).
OneAccountPerKey ==
  \A key \in Keys : Cardinality(logins[key]) <= 1

\* An account that was upgraded stays so: no upgrade asked for after one was answered
\* succeeds, its guest key no longer opens it, its name and password are those of an
\* upgrade asked for before - of some that overlap, the last to be written - and lead
\* to it and to no other account, even when another takes the same name meanwhile
\* (account_upgrade.lua: the name, the guest flag and the row in three queries).
UpgradeStands ==
  \A up \in upgraded :
    LET row == uinfo[up.uid]
    IN /\ ~up.again /\ row.is_guest = 0
       /\ \E last \in upgrades :
            /\ last.uid = up.uid /\ ~last.again
            /\ last.uname = row.uname /\ last.upwd = row.upwd
       /\ {uid \in Named(row.uname) : uinfo[uid].upwd = row.upwd} = {up.uid}
=============================================================================
