----------------------------- MODULE LogicServer -----------------------------
(***************************************************************************)
(* The logic server's game manager: login, the per-zone wait lists, the    *)
(* rooms ("matches") players and robots gather in, the start of a game,    *)
(* leaving, losing the connection and coming back to a running game.       *)
(* Source: apps/lua/scripts/logic_server/{game_mgr,match_mgr,player,       *)
(* robot_player}.lua.                                                      *)
(*                                                                         *)
(* All Lua of one server runs on one libuv loop, so a handler or a timer   *)
(* callback is one action.  What interleaves are the handlers, the timers  *)
(* and the completions of the database queries a login waits for.  The two *)
(* timers that loop over wait lists and rooms (do_match_players,           *)
(* do_push_robot_to_match) take one step per iteration; while one of them  *)
(* is in its loop no other action is enabled.                              *)
(*                                                                         *)
(* A player object is <<uid, k>>: the k-th Lua object made for uid.  One   *)
(* uid may own several live objects.  What only the frame synchronisation  *)
(* reads (acknowledged frames, frame timer) is in FrameSync.               *)
(***************************************************************************)
EXTENDS Integers, FiniteSets

CONSTANTS
  Uids,        \* accounts that log in
  Robots,      \* accounts played by the server
  Zones,       \* battle zones (Zone.lua)
  RobotZone,   \* the zone each robot is assigned to when robots are loaded
  PLAYER_NUM,  \* players on one side of a match
  NoPlayer,    \* Lua's nil where a player object is expected
  MaxLogins,   \* bound: player objects made for one uid
  MaxMatch,    \* bound: rooms opened
  MaxPending   \* bound: reseat timers pending for one object

Objs == (Uids \X (1 .. MaxLogins)) \cup (Robots \X {1})

ASSUME ConstantsOK ==
  /\ PLAYER_NUM \in Nat \ {0}
  /\ MaxLogins \in Nat \ {0} /\ MaxMatch \in Nat /\ MaxPending \in Nat
  /\ IsFiniteSet(Uids) /\ Uids \cap Robots = {}
  /\ NoPlayer \notin Objs
  /\ RobotZone \in [Robots -> Zones]
  /\ Zones \subseteq Nat \ {0}

InView  == 1   \* State.lua
Ready   == 2
Playing == 4

None == -1     \* the -1 of v_zid, v_matchid and v_seatid

Uid(o) == o[1]
IsRobot(o) == Uid(o) \in Robots
Seats == 1 .. 2 * PLAYER_NUM
Matches == 1 .. MaxMatch
PlayerOrNil == Objs \cup {NoPlayer}

VARIABLES
  gateway,               \* the gateway is connected
  redis_up,              \* redis_conn of redis_center is set
  made,                  \* player objects made for each uid
  player,                \* the fields of each player object
  logic_server_players,  \* uid -> online player object
  online_player_num,
  is_logining_list,      \* uids whose login requests are ignored
  loading,               \* the get_info call in flight for each uid, if any
  zone_wait_list,        \* zone -> uid -> waiting player object
  zone_match_list,       \* matchid -> room (its zone is a field)
  sg_matchid,            \* next matchid, one counter for all zones
  game_maching_list,     \* uid -> player object of the game in progress
  robots_loaded,         \* do_new_robot_players has run
  reseat_timers,         \* one-shot timers of re_enter_match pending per object
  match_sweep,           \* waiters do_match_players has still to visit
  sweep_zone,            \* the zone that loop is in
  push_sweep             \* rooms do_push_robot_to_match has still to visit

timerVars == <<match_sweep, sweep_zone, push_sweep>>
vars == <<gateway, redis_up, made, player, logic_server_players, online_player_num,
          is_logining_list, loading, zone_wait_list, zone_match_list, sg_matchid,
          game_maching_list, robots_loaded, reseat_timers, timerVars>>

NoLoad == [obj |-> NoPlayer, again |-> FALSE]

PlayerRec == [session : BOOLEAN, zid : Zones \cup {None}, matchid : Matches \cup {None},
              seatid : Seats \cup {None}, state : {InView, Ready, Playing},
              room : Matches \cup {None}, uinfo : BOOLEAN]
MatchRec == [zid : Zones \cup {None}, state : {InView, Ready, Playing}, member : Int,
             seats : [Seats -> PlayerOrNil]]

TypeOK ==
  /\ gateway \in BOOLEAN /\ redis_up \in BOOLEAN
  /\ made \in [Uids -> 0 .. MaxLogins]
  /\ player \in [Objs -> PlayerRec]
  /\ logic_server_players \in [Uids -> PlayerOrNil]
  /\ online_player_num \in Int
  /\ is_logining_list \subseteq Uids
  /\ loading \in [Uids -> [obj : PlayerOrNil, again : BOOLEAN]]
  /\ zone_wait_list \in [Zones -> [Uids -> PlayerOrNil]]
  /\ zone_match_list \in [Matches -> MatchRec]
  /\ sg_matchid \in 1 .. MaxMatch + 1
  /\ game_maching_list \in [Uids -> PlayerOrNil]
  /\ robots_loaded \in BOOLEAN
  /\ reseat_timers \in [Objs -> Nat]
  /\ match_sweep \subseteq Zones \X Uids
  /\ sweep_zone \in Zones \cup {None}
  /\ push_sweep \subseteq Matches

\* player:init, but for the session and the database query it starts.
FreshPlayer == [session |-> FALSE, zid |-> None, matchid |-> None, seatid |-> None,
                state |-> InView, room |-> None, uinfo |-> FALSE]

\* match_mgr:init, but for the zone.
FreshMatch == [zid |-> None, state |-> InView, member |-> 0,
               seats |-> [i \in Seats |-> NoPlayer]]

Init ==
  /\ gateway = FALSE /\ redis_up = FALSE
  /\ made = [u \in Uids |-> 0]
  /\ player = [o \in Objs |-> FreshPlayer]
  /\ logic_server_players = [u \in Uids |-> NoPlayer]
  /\ online_player_num = 0
  /\ is_logining_list = {}
  /\ loading = [u \in Uids |-> NoLoad]
  /\ zone_wait_list = [z \in Zones |-> [u \in Uids |-> NoPlayer]]
  /\ zone_match_list = [m \in Matches |-> FreshMatch]
  /\ sg_matchid = 1
  /\ game_maching_list = [u \in Uids |-> NoPlayer]
  /\ robots_loaded = FALSE
  /\ reseat_timers = [o \in Objs |-> 0]
  /\ match_sweep = {} /\ sweep_zone = None
  /\ push_sweep = {}

\* The loop thread is between two callbacks.
Idle == match_sweep = {} /\ push_sweep = {}

\* A request reaches the logic server over the gateway's connection.
Request == Idle /\ gateway

-----------------------------------------------------------------------------
(* Connections *)

\* The online players' sessions are set to the gateway's, or to nil.
Online(o) == \E u \in Uids : logic_server_players[u] = o
set_sessions_not_playing(on) ==   \* fault: a new session does not reach games
  player' = [o \in Objs |-> IF Online(o) /\ (on => player[o].state # Playing)
                            THEN [player[o] EXCEPT !.session = on] ELSE player[o]]
set_sessions(on) ==
  player' = [o \in Objs |-> IF Online(o) THEN [player[o] EXCEPT !.session = on] ELSE player[o]]

on_gateway_connect ==
  /\ Idle /\ ~gateway
  /\ gateway' = TRUE
  /\ set_sessions(TRUE)
  /\ UNCHANGED <<redis_up, made, logic_server_players, online_player_num, is_logining_list,
                 loading, zone_wait_list, zone_match_list, sg_matchid, game_maching_list,
                 robots_loaded, reseat_timers, timerVars>>

\* The players stay online when the gateway is gone.
on_gateway_disconnect ==
  /\ Request
  /\ gateway' = FALSE
  /\ set_sessions(FALSE)
  /\ UNCHANGED <<redis_up, made, logic_server_players, online_player_num, is_logining_list,
                 loading, zone_wait_list, zone_match_list, sg_matchid, game_maching_list,
                 robots_loaded, reseat_timers, timerVars>>

\* The reply to Redis.connect: redis_conn is set once and never reset.
redis_connect_to_center ==
  /\ Idle /\ ~redis_up
  /\ redis_up' = TRUE
  /\ UNCHANGED <<gateway, made, player, logic_server_players, online_player_num,
                 is_logining_list, loading, zone_wait_list, zone_match_list, sg_matchid,
                 game_maching_list, robots_loaded, reseat_timers, timerVars>>

-----------------------------------------------------------------------------
(* Login *)

\* The player object is online already: its session is replaced.
LoginOnline(u) ==
  /\ logic_server_players[u] # NoPlayer
  /\ player' = [player EXCEPT ![logic_server_players[u]].session = TRUE]
  /\ UNCHANGED <<made, loading>>

\* The account was in a game: its object is loaded again.
LoginReconnect(u) ==
  LET o == game_maching_list[u] IN
  /\ logic_server_players[u] = NoPlayer /\ o # NoPlayer
  /\ reseat_timers[o] < MaxPending
  /\ player' = [player EXCEPT ![o].session = TRUE]
  /\ loading' = [loading EXCEPT ![u] = [obj |-> o, again |-> TRUE]]
  /\ UNCHANGED made

\* A new player object, whose data is read from the databases.
LoginNew(u) ==
  LET o == <<u, made[u] + 1>> IN
  /\ logic_server_players[u] = NoPlayer /\ game_maching_list[u] = NoPlayer
  /\ made[u] < MaxLogins
  /\ made' = [made EXCEPT ![u] = @ + 1]
  /\ player' = [player EXCEPT ![o].session = TRUE]
  /\ loading' = [loading EXCEPT ![u] = [obj |-> o, again |-> FALSE]]

\* is_logining_list drops the requests of an account whose login is in progress.
MayLogin(u) == u \notin is_logining_list

login_logic_server(u) ==
  /\ Request /\ MayLogin(u)
  /\ is_logining_list' = is_logining_list \cup {u}
  /\ LoginOnline(u) \/ LoginReconnect(u) \/ LoginNew(u)
  /\ UNCHANGED <<gateway, redis_up, logic_server_players, online_player_num,
                 zone_wait_list, zone_match_list, sg_matchid, game_maching_list,
                 robots_loaded, reseat_timers, timerVars>>

\* The rooms that ipairs(zone_match_list[zid]) visits: the table is keyed by a
\* counter all zones share, and ipairs stops at the first key that is missing.
Visited(z) ==
  {m \in Matches : \A k \in 1 .. m : k < sg_matchid /\ zone_match_list[k].zid = z}

\* re_enter_match of game_mgr and match_mgr: the room of a running game counts the
\* player again, and a timer will give the seat back.
CanReEnter(o) ==
  /\ player[o].zid # None
  /\ player[o].matchid \in Visited(player[o].zid)
  /\ player[o].state = Playing
  /\ zone_match_list[player[o].matchid].state = Playing

re_enter_match_no_timer(u, o) ==  \* fault: nobody gives the seat back
  /\ zone_match_list' = [zone_match_list EXCEPT ![player[o].matchid].member = @ + 1]
  /\ UNCHANGED <<game_maching_list, reseat_timers>>
re_enter_match(u, o) ==
  IF CanReEnter(o)
  THEN /\ zone_match_list' = [zone_match_list EXCEPT ![player[o].matchid].member = @ + 1]
       /\ game_maching_list' = [game_maching_list EXCEPT ![u] = o]
       /\ reseat_timers' = [reseat_timers EXCEPT ![o] = @ + 1]
  ELSE UNCHANGED <<zone_match_list, game_maching_list, reseat_timers>>

set_online_no_recount(u, o) ==    \* fault: a player who reconnects is not counted
  /\ logic_server_players' = [logic_server_players EXCEPT ![u] = o]
  /\ online_player_num' = online_player_num + (IF loading[u].again THEN 0 ELSE 1)
set_online(u, o) ==
  /\ logic_server_players' = [logic_server_players EXCEPT ![u] = o]
  /\ online_player_num' = online_player_num + 1

\* The callback of get_info with status OK.
LoginLoaded(u) ==
  LET o == loading[u].obj IN
  /\ Idle /\ redis_up /\ o # NoPlayer
  /\ is_logining_list' = is_logining_list \ {u}
  /\ loading' = [loading EXCEPT ![u] = NoLoad]
  /\ player' = [player EXCEPT ![o].uinfo = TRUE]
  /\ set_online(u, o)
  /\ IF loading[u].again THEN re_enter_match(u, o)
     ELSE UNCHANGED <<zone_match_list, game_maching_list, reseat_timers>>
  /\ UNCHANGED <<gateway, redis_up, made, zone_wait_list, sg_matchid, robots_loaded,
                 timerVars>>

\* The callback of get_info with an error of MySQL or Redis (when MySQL is not
\* connected it is called before login_logic_server returns).
LoginFailed(u) ==
  /\ Idle /\ loading[u].obj # NoPlayer
  /\ is_logining_list' = is_logining_list \ {u}
  /\ loading' = [loading EXCEPT ![u] = NoLoad]
  /\ UNCHANGED <<gateway, redis_up, made, player, logic_server_players,
                 online_player_num, zone_wait_list, zone_match_list, sg_matchid,
                 game_maching_list, robots_loaded, reseat_timers, timerVars>>

\* get_uinfo_inredis returns without calling its handler while redis_conn is nil.
LoginNoReply(u) ==
  /\ Idle /\ ~redis_up /\ loading[u].obj # NoPlayer
  /\ loading' = [loading EXCEPT ![u] = NoLoad]
  /\ UNCHANGED <<gateway, redis_up, made, player, logic_server_players,
                 online_player_num, is_logining_list, zone_wait_list, zone_match_list,
                 sg_matchid, game_maching_list, robots_loaded, reseat_timers, timerVars>>

-----------------------------------------------------------------------------
(* Zones and rooms *)

\* enter_zone, when it is granted (its refusals change no state).
enter_zone(u, z) ==
  LET p == logic_server_players[u] IN
  /\ Request
  /\ game_maching_list[u] = NoPlayer
  /\ p # NoPlayer /\ player[p].zid = None
  /\ zone_wait_list' = [zone_wait_list EXCEPT ![z][u] = p]
  /\ player' = [player EXCEPT ![p].zid = z]
  /\ UNCHANGED <<gateway, redis_up, made, logic_server_players, online_player_num,
                 is_logining_list, loading, zone_match_list, sg_matchid, game_maching_list,
                 robots_loaded, reseat_timers, timerVars>>

\* search_inview_match_mgr: the first room of the zone that is still gathering, or
\* the next matchid when the search finds none.
Gathering(z) == {m \in Visited(z) : zone_match_list[m].state = InView}
search_inview_newest(z, m) ==     \* fault: the search never looks at open rooms
  m = sg_matchid
search_inview_match_mgr(z, m) ==
  IF Gathering(z) # {} THEN m \in Gathering(z) /\ \A k \in Gathering(z) : m <= k
  ELSE m = sg_matchid

\* screenplayer: the seat o gets in room m, the first one that is free. When none
\* is, the seat o has (none, in fact) stays.
screenplayer(m, o, i) ==
  LET free == {k \in Seats : zone_match_list[m].seats[k] = NoPlayer}
  IN IF free = {} THEN i = player[o].seatid ELSE i \in free /\ \A k \in free : i <= k

\* The last of the given seats that u occupies: its object ends in game_maching_list.
LastSeated(seats, u) ==
  LET mine == {i \in Seats : seats[i] # NoPlayer /\ Uid(seats[i]) = u}
  IN IF mine = {} THEN {game_maching_list[u]}
     ELSE {seats[i] : i \in {j \in mine : \A k \in mine : k <= j}}

\* enter_player: o takes seat i of room m of zone z.  The room that is complete
\* starts, unless o's profile is not loaded: then line 296 raises an error, after o
\* was seated.  A complete room with an empty seat raises one in
\* update_players_state, at that seat.
enter_player(z, m, o, i) ==
  LET seats == [k \in Seats |-> IF k = i THEN o ELSE zone_match_list[m].seats[k]]
      starts == zone_match_list[m].member + 1 = 2 * PLAYER_NUM /\ player[o].uinfo
      plays == starts /\ \A k \in Seats : seats[k] # NoPlayer
      reached(p) == \E k \in Seats : seats[k] = p /\ \A j \in 1 .. k : seats[j] # NoPlayer
      state == IF plays THEN Playing ELSE IF starts THEN Ready ELSE InView
      entered == [player EXCEPT ![o] = [@ EXCEPT !.matchid = m, !.zid = z, !.seatid = i]]
  IN /\ zone_match_list' = [zone_match_list EXCEPT ![m] =
          [zid |-> z, state |-> state, member |-> @.member + 1, seats |-> seats]]
     /\ player' = [p \in Objs |->
          IF starts /\ reached(p)
          THEN [entered[p] EXCEPT !.state = state,
                                  !.room = IF plays /\ ~IsRobot(p) THEN m ELSE @]
          ELSE entered[p]]
     /\ IF plays
        THEN \E f \in [Uids -> PlayerOrNil] :
               /\ \A u \in Uids : f[u] \in LastSeated(seats, u)
               /\ game_maching_list' = f
        ELSE UNCHANGED game_maching_list

WaitersOfOpenRooms ==             \* fault: only zones with a gathering room are visited
  {w \in Zones \X Uids : zone_wait_list[w[1]][w[2]] # NoPlayer /\ Gathering(w[1]) # {}}
Waiters == {w \in Zones \X Uids : zone_wait_list[w[1]][w[2]] # NoPlayer}

\* do_match_players, the timer: the waiters its loops will visit.
do_match_players ==
  /\ Idle
  /\ match_sweep' = Waiters
  /\ match_sweep' # {}
  /\ sweep_zone' = None
  /\ UNCHANGED <<gateway, redis_up, made, player, logic_server_players,
                 online_player_num, is_logining_list, loading, zone_wait_list,
                 zone_match_list, sg_matchid, game_maching_list, robots_loaded,
                 reseat_timers, push_sweep>>

\* do_match_players, one iteration: waiter u of zone z enters a room, a new one if
\* none is gathering.  The loop ends with one zone before it goes on to another.
MatchWaiter(z, u) ==
  LET p == zone_wait_list[z][u] IN
  /\ <<z, u>> \in match_sweep
  /\ sweep_zone # z => \A v \in Uids : <<sweep_zone, v>> \notin match_sweep
  /\ match_sweep' = match_sweep \ {<<z, u>>}
  /\ sweep_zone' = z
  /\ \E m \in Matches :
       /\ search_inview_match_mgr(z, m)
       /\ sg_matchid' = IF m = sg_matchid THEN m + 1 ELSE sg_matchid
       /\ IF player[p].state = InView
          THEN /\ zone_wait_list' = [zone_wait_list EXCEPT ![z][u] = NoPlayer]
               /\ \E i \in Seats \cup {None} : screenplayer(m, p, i) /\ enter_player(z, m, p, i)
          ELSE /\ zone_match_list' = [zone_match_list EXCEPT ![m].zid = z]
               /\ UNCHANGED <<zone_wait_list, player, game_maching_list>>
  /\ UNCHANGED <<gateway, redis_up, made, logic_server_players, online_player_num,
                 is_logining_list, loading, robots_loaded, reseat_timers, push_sweep>>

-----------------------------------------------------------------------------
(* Robots *)

\* do_new_robot_players, when all robots are read: the objects, each in its zone.
do_new_robot_players ==
  /\ Idle /\ redis_up /\ ~robots_loaded
  /\ robots_loaded' = TRUE
  /\ player' = [o \in Objs |-> IF IsRobot(o) THEN [player[o] EXCEPT !.zid = RobotZone[Uid(o)]]
                               ELSE player[o]]
  /\ UNCHANGED <<gateway, redis_up, made, logic_server_players, online_player_num,
                 is_logining_list, loading, zone_wait_list, zone_match_list, sg_matchid,
                 game_maching_list, reseat_timers, timerVars>>

\* The callbacks of the get_info a robot's init started.
RobotInfo(r) ==
  /\ Idle /\ robots_loaded /\ ~player[<<r, 1>>].uinfo
  /\ player' = [player EXCEPT ![<<r, 1>>].uinfo = TRUE]
  /\ UNCHANGED <<gateway, redis_up, made, logic_server_players, online_player_num,
                 is_logining_list, loading, zone_wait_list, zone_match_list, sg_matchid,
                 game_maching_list, robots_loaded, reseat_timers, timerVars>>

Opened == {m \in Matches : m < sg_matchid}
search_idle_robot(z) ==
  {<<r, 1>> : r \in {q \in Robots : /\ robots_loaded /\ RobotZone[q] = z
                                    /\ player[<<q, 1>>].matchid = None}}

\* do_push_robot_to_match, the timer: the rooms its loops will visit.
do_push_robot_to_match ==
  /\ Idle
  /\ push_sweep' = {m \in Opened : /\ zone_match_list[m].state = InView
                                   /\ search_idle_robot(zone_match_list[m].zid) # {}}
  /\ push_sweep' # {}
  /\ UNCHANGED <<gateway, redis_up, made, player, logic_server_players,
                 online_player_num, is_logining_list, loading, zone_wait_list,
                 zone_match_list, sg_matchid, game_maching_list, robots_loaded,
                 reseat_timers, match_sweep, sweep_zone>>

\* do_push_robot_to_match, one iteration: an idle robot enters a gathering room.  The
\* error of a robot without a profile ends the timer's run.
PushRobot(m) ==
  LET z == zone_match_list[m].zid IN
  /\ m \in push_sweep
  /\ IF search_idle_robot(z) = {}
     THEN /\ push_sweep' = push_sweep \ {m}
          /\ UNCHANGED <<zone_match_list, player, game_maching_list>>
     ELSE \E o \in search_idle_robot(z) :
            /\ push_sweep' = IF player[o].uinfo THEN push_sweep \ {m} ELSE {}
            /\ IF player[o].state = InView
               THEN \E i \in Seats \cup {None} : screenplayer(m, o, i) /\ enter_player(z, m, o, i)
               ELSE UNCHANGED <<zone_match_list, player, game_maching_list>>
  /\ UNCHANGED <<gateway, redis_up, made, logic_server_players, online_player_num,
                 is_logining_list, loading, zone_wait_list, sg_matchid, robots_loaded,
                 reseat_timers, match_sweep, sweep_zone>>

-----------------------------------------------------------------------------
(* Leaving and coming back *)

\* exit_player: one member less, the seat is free, and a player who is not in a
\* running game forgets the room.
ClearToZero(p) == [p EXCEPT !.zid = None, !.matchid = None, !.seatid = 0, !.state = InView]
                                  \* fault: the seat is reset to 0, as if seats began there
ClearMatchData(p) == [p EXCEPT !.zid = None, !.matchid = None, !.seatid = None,
                               !.state = InView]
exit_player_keeps_seat(m, o) ==   \* fault: the seat is not freed
  zone_match_list' = [zone_match_list EXCEPT ![m].member = @ - 1]
exit_player_keeps_count(m, o) ==  \* fault: the member is still counted
  zone_match_list' = [zone_match_list EXCEPT ![m].seats[player[o].seatid] = NoPlayer]
exit_player(m, o) ==
  LET room == zone_match_list[m]
      left == [i \in Seats |-> IF i = player[o].seatid THEN NoPlayer ELSE room.seats[i]]
  IN zone_match_list' = [zone_match_list EXCEPT ![m] =
                           [room EXCEPT !.member = room.member - 1, !.seats = left]]

\* do_exit_match, when it is granted.
may_exit_match_anytime(p) ==      \* fault: the states are not tested
  player[p].matchid # None /\ player[p].seatid # None
may_exit_match(p) ==
  /\ player[p].state = InView /\ player[p].matchid # None /\ player[p].seatid # None
  /\ zone_match_list[player[p].matchid].state = InView

do_exit_match(u) ==
  LET p == logic_server_players[u] IN
  /\ Request
  /\ p # NoPlayer
  /\ may_exit_match(p)
  /\ exit_player(player[p].matchid, p)
  /\ player' = [player EXCEPT ![p] = ClearMatchData(@)]
  /\ UNCHANGED <<gateway, redis_up, made, logic_server_players, online_player_num,
                 is_logining_list, loading, zone_wait_list, sg_matchid, game_maching_list,
                 robots_loaded, reseat_timers, timerVars>>

\* A waiting player who disconnects leaves the wait list of its zone.
LeaveWaitListNever(u, z) ==       \* fault: the wait list is not cleaned
  zone_wait_list
LeaveWaitList(u, z) ==
  IF z = None THEN zone_wait_list ELSE [zone_wait_list EXCEPT ![z][u] = NoPlayer]

\* on_player_disconnect (eUserLostConn) of an online player.  do_offline_match gets
\* the player where it expects the request, finds no uid and returns; so only a
\* player of a running game gives up its seat.
on_player_disconnect(u) ==
  LET p == logic_server_players[u] IN
  /\ Request
  /\ p # NoPlayer
  /\ player' = [player EXCEPT ![p].session = FALSE]
  /\ zone_wait_list' = LeaveWaitList(u, player[p].zid)
  /\ online_player_num' = online_player_num - 1
  /\ logic_server_players' = [logic_server_players EXCEPT ![u] = NoPlayer]
  /\ IF player[p].state = Playing /\ player[p].room # None
     THEN exit_player(player[p].room, p)
     ELSE UNCHANGED zone_match_list
  /\ UNCHANGED <<gateway, redis_up, made, is_logining_list, loading, sg_matchid,
                 game_maching_list, robots_loaded, reseat_timers, timerVars>>

\* The timer of re_enter_match fires 2 s after it, wherever the player is by then.
ReseatTimer(o) ==
  /\ Idle /\ reseat_timers[o] > 0
  /\ reseat_timers' = [reseat_timers EXCEPT ![o] = @ - 1]
  /\ zone_match_list' = [zone_match_list EXCEPT ![player[o].matchid].seats[player[o].seatid] = o]
  /\ UNCHANGED <<gateway, redis_up, made, player, logic_server_players,
                 online_player_num, is_logining_list, loading, zone_wait_list, sg_matchid,
                 game_maching_list, robots_loaded, timerVars>>

-----------------------------------------------------------------------------
\* The iterations of the two timers' loops.
TimerLoop ==
  \/ \E z \in Zones, u \in Uids : MatchWaiter(z, u)
  \/ \E m \in Matches : PushRobot(m)

Next ==
  \/ on_gateway_connect
  \/ on_gateway_disconnect
  \/ redis_connect_to_center
  \/ \E u \in Uids : login_logic_server(u)
  \/ \E u \in Uids : LoginLoaded(u)
  \/ \E u \in Uids : LoginFailed(u)
  \/ \E u \in Uids : LoginNoReply(u)
  \/ \E u \in Uids, z \in Zones : enter_zone(u, z)
  \/ do_match_players
  \/ do_new_robot_players
  \/ \E r \in Robots : RobotInfo(r)
  \/ do_push_robot_to_match
  \/ TimerLoop
  \/ \E u \in Uids : do_exit_match(u)
  \/ \E u \in Uids : on_player_disconnect(u)
  \/ \E o \in Objs : ReseatTimer(o)

Spec == Init /\ [][Next]_vars

\* The event loop runs every timer that is due, and the loop of a timer to its end:
\* the timers are strongly fair because a sweep of the other timer disables them for
\* a moment.  Nothing is assumed of users, the gateway, the databases or robots.
Fairness ==
  /\ SF_vars(do_match_players)
  /\ WF_vars(TimerLoop)
  /\ \A o \in Objs : SF_vars(ReseatTimer(o))

FairSpec == Spec /\ Fairness

-----------------------------------------------------------------------------
(* Properties *)

\* online_player_num counts exactly the accounts logic_server_players holds, through
\* logins answered late, lost connections and reconnections.
OnlineCount ==
  online_player_num = Cardinality({u \in Uids : logic_server_players[u] # NoPlayer})

\* Who waits for a room is online, with the object that is online, and is in no
\* room: do_match_players never seats a player who has left.
WaitersOnline ==
  \A z \in Zones, u \in Uids : zone_wait_list[z][u] # NoPlayer =>
    LET p == zone_wait_list[z][u] IN
    /\ logic_server_players[u] = p
    /\ player[p].zid = z /\ player[p].matchid = None /\ player[p].state = InView

\* A seat and its occupant agree on the room, the seat and whether the game runs, so
\* an object sits in one seat at most, also after the reseat timer of a player who left
\* again.
SeatsAgree ==
  \A m \in Matches, i \in Seats : zone_match_list[m].seats[i] # NoPlayer =>
    LET p == zone_match_list[m].seats[i] IN
    /\ player[p].matchid = m /\ player[p].seatid = i
    /\ player[p].state = Playing <=> zone_match_list[m].state = Playing

\* A gathering room counts the players who entered it and did not leave, and the room
\* that has its number of players has started, unless a robot entered whose profile
\* was not loaded yet.
GatheringCount ==
  \A m \in Matches : zone_match_list[m].state = InView =>
    LET in == {o \in Objs : player[o].matchid = m} IN
    /\ zone_match_list[m].member = Cardinality(in)
    /\ Cardinality(in) < 2 * PLAYER_NUM \/ \E o \in in : IsRobot(o)

\* A zone gathers players in one room at a time.
OneGatheringRoom ==
  \A m, k \in Opened :
    zone_match_list[m].zid = zone_match_list[k].zid /\ zone_match_list[m].state = InView
      /\ zone_match_list[k].state = InView => m = k

\* game_maching_list leads a returning account to an object of its own, in a room
\* that plays and that its zone's search finds.
MachingIsPlaying ==
  \A u \in Uids : game_maching_list[u] # NoPlayer =>
    LET p == game_maching_list[u] IN Uid(p) = u /\ CanReEnter(p) /\ player[p].room = player[p].matchid

\* While the gateway is connected every online player can be sent messages.
OnlineReachable ==
  gateway => \A u \in Uids : logic_server_players[u] # NoPlayer =>
                               player[logic_server_players[u]].session

\* The seat of a running game is for good: no handler takes a player of a running
\* game to another room, seat or state, and no other object gets the seat.
PlaceKept ==
  [][/\ \A o \in Objs : player[o].state = Playing =>
          /\ player'[o].state = Playing /\ player'[o].zid = player[o].zid
          /\ player'[o].matchid = player[o].matchid /\ player'[o].seatid = player[o].seatid
     /\ \A m \in Matches : zone_match_list[m].state = Playing =>
          /\ zone_match_list'[m].state = Playing
          /\ \A i \in Seats : zone_match_list[m].seats[i] # zone_match_list'[m].seats[i] =>
               NoPlayer \in {zone_match_list[m].seats[i], zone_match_list'[m].seats[i]}]_vars

\* Who waits is seated by a later run of do_match_players, or leaves.
WaiterLeaves ==
  \A z \in Zones, u \in Uids :
    zone_wait_list[z][u] # NoPlayer ~> zone_wait_list[z][u] = NoPlayer

\* A player who is online with the object of a running game sits in its seat again, or
\* goes offline.
Seated(o) == \E m \in Matches, i \in Seats : zone_match_list[m].seats[i] = o
ReturnerSeated ==
  \A u \in Uids, o \in Objs :
    (logic_server_players[u] = o /\ player[o].state = Playing)
      ~> (logic_server_players[u] # o \/ Seated(o))

\* is_logining_list holds the accounts that are logging in, as its comment says
\* (game_mgr.lua:36): a load is in flight for each of them.
LoginingIsLoading == \A u \in is_logining_list : loading[u].obj # NoPlayer

\* A room holds no more than its seats: the code logs "match room error" when the
\* count is higher (match_mgr.lua:212-214 and 304-306).
RoomNotOverfull == \A m \in Matches : zone_match_list[m].member <= 2 * PLAYER_NUM

=============================================================================
