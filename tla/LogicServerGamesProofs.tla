------------------------ MODULE LogicServerGamesProofs ------------------------
(***************************************************************************)
(* Proofs about the running games, the gathering rooms and the sessions of *)
(* LogicServer, from the invariants of LogicServerProofs.                  *)
(***************************************************************************)
EXTENDS LogicServerProofs

-----------------------------------------------------------------------------
(* What holds of the players of a running game *)

\* No two of them have the same seat.
SeatOwned == \A o, p \in Objs :
  player[o].state = Playing /\ player[p].state = Playing
    /\ player[o].matchid = player[p].matchid /\ player[o].seatid = player[p].seatid => o = p

\* The room they are sent frames for is the room their seat is in.
InGame == \A o \in Objs :
  player[o].state = Playing /\ ~IsRobot(o) => player[o].room = player[o].matchid

\* Robots play after they are loaded, so that loading moves nobody to another zone.
RobotsIdle == robots_loaded \/ \A o \in Objs :
  IsRobot(o) => player[o].state # Playing /\ player[o].matchid = None

\* game_maching_list leads to objects that play.
MachingPlays == \A u \in Uids :
  game_maching_list[u] # NoPlayer => player[game_maching_list[u]].state = Playing

\* Rooms that were opened have a zone, and online players a profile.
OpenZones == \A m \in Matches : m < sg_matchid => zone_match_list[m].zid \in Zones
OnlineLoaded == \A u \in Uids :
  logic_server_players[u] # NoPlayer => player[logic_server_players[u]].uinfo

GameInv == SeatOwned /\ InGame /\ RobotsIdle /\ MachingPlays /\ OpenZones /\ OnlineLoaded

LEMMA GameInit == Init => GameInv
BY DEF Init, GameInv, SeatOwned, InGame, RobotsIdle, MachingPlays, OpenZones, OnlineLoaded,
       FreshPlayer, InView, Playing, Matches

-----------------------------------------------------------------------------
(* The three kinds of steps *)

\* A player enters a room that gathers.
Entering(z, m, o, i) ==
  /\ player[o].matchid = None /\ player[o].state = InView
  /\ zone_match_list[m].state = InView
  /\ screenplayer(m, o, i) /\ enter_player(z, m, o, i)
  /\ IF IsRobot(o) THEN robots_loaded ELSE player[o].uinfo
  /\ UNCHANGED <<logic_server_players, robots_loaded>>
  /\ IF m = sg_matchid THEN Gathering(z) = {} /\ sg_matchid' = m + 1
     ELSE m < sg_matchid /\ sg_matchid' = sg_matchid

\* A player of a gathering room leaves it.
Leaving(p) ==
  /\ player[p].state = InView /\ player[p].matchid \in Matches
  /\ player[p].seatid \in Seats /\ ~IsRobot(p)
  /\ zone_match_list[player[p].matchid].state = InView
  /\ exit_player(player[p].matchid, p)
  /\ player' = [player EXCEPT ![p] = ClearMatchData(@)]
  /\ UNCHANGED <<logic_server_players, robots_loaded, sg_matchid, game_maching_list>>

\* Nobody enters or leaves: fields change that say nothing of rooms, players of running
\* games lose their seats or get them back, accounts come online.
SameFields(o) ==
  /\ player'[o].matchid = player[o].matchid /\ player'[o].seatid = player[o].seatid
  /\ player'[o].state = player[o].state /\ player'[o].room = player[o].room
  /\ player[o].state = Playing => player'[o].zid = player[o].zid
  /\ player[o].uinfo => player'[o].uinfo
SameMatch(m) ==
  /\ zone_match_list'[m].state = zone_match_list[m].state
  /\ zone_match_list'[m].zid = zone_match_list[m].zid
  /\ zone_match_list[m].state = InView => zone_match_list'[m].member = zone_match_list[m].member
  /\ zone_match_list[m].state = Playing => \A i \in Seats :
       zone_match_list[m].seats[i] # zone_match_list'[m].seats[i] =>
         NoPlayer \in {zone_match_list[m].seats[i], zone_match_list'[m].seats[i]}
Quiet ==
  /\ \A o \in Objs : SameFields(o)
  /\ \A m \in Matches : SameMatch(m)
  /\ sg_matchid' = sg_matchid
  /\ \A u \in Uids : \/ game_maching_list'[u] = game_maching_list[u]
                     \/ /\ game_maching_list'[u] \in Objs
                        /\ player[game_maching_list'[u]].state = Playing
  /\ \A u \in Uids : \/ logic_server_players'[u] \in {logic_server_players[u], NoPlayer}
                     \/ player'[logic_server_players'[u]].uinfo
  /\ robots_loaded => robots_loaded'

\* A session, the profile or the zone of a player without one changes.
LEMMA OneField ==
  ASSUME TypeOK, NEW o \in Objs
  PROVE  /\ \A b \in BOOLEAN : player' = [player EXCEPT ![o].session = b] =>
              \A p \in Objs : SameFields(p)
         /\ player' = [player EXCEPT ![o].uinfo = TRUE] =>
              player'[o].uinfo /\ \A p \in Objs : SameFields(p)
         /\ \A z \in Zones : player' = [player EXCEPT ![o].zid = z] /\ player[o].state # Playing =>
              \A p \in Objs : SameFields(p)
<1>1. \A p \in Objs : player[p] \in PlayerRec
  BY DEF TypeOK
<1>2. ASSUME NEW b \in BOOLEAN, player' = [player EXCEPT ![o].session = b]
      PROVE  \A p \in Objs : SameFields(p)
  BY <1>1, <1>2 DEF SameFields, PlayerRec, TypeOK
<1>3. ASSUME player' = [player EXCEPT ![o].uinfo = TRUE]
      PROVE  player'[o].uinfo /\ \A p \in Objs : SameFields(p)
  BY <1>1, <1>3 DEF SameFields, PlayerRec, TypeOK
<1>4. ASSUME NEW z \in Zones, player' = [player EXCEPT ![o].zid = z], player[o].state # Playing
      PROVE  \A p \in Objs : SameFields(p)
  BY <1>1, <1>4 DEF SameFields, PlayerRec, TypeOK
<1> QED BY <1>2, <1>3, <1>4

LEMMA SameAll ==
  /\ player' = player => \A o \in Objs : SameFields(o)
  /\ zone_match_list' = zone_match_list => \A m \in Matches : SameMatch(m)
BY DEF SameFields, SameMatch

\* One member more in a running game.
LEMMA CountedAgain ==
  ASSUME TypeOK, NEW n \in Matches, zone_match_list[n].state = Playing,
         zone_match_list' = [zone_match_list EXCEPT ![n].member = @ + 1]
  PROVE  \A m \in Matches : SameMatch(m)
<1>1. \A m \in Matches : zone_match_list[m] \in MatchRec
  BY DEF TypeOK
<1>2. zone_match_list'[n] = [zone_match_list[n] EXCEPT !.member = @ + 1]
  BY DEF TypeOK
<1>3. \A m \in Matches : m # n => zone_match_list'[m] = zone_match_list[m]
  BY DEF TypeOK
<1> QED BY <1>1, <1>2, <1>3 DEF SameMatch, MatchRec, InView, Playing

\* A player of a running game gives up its seat.
LEMMA SeatGivenUp ==
  ASSUME TypeOK, NEW n \in Matches, zone_match_list[n].state = Playing, NEW p, exit_player(n, p)
  PROVE  \A m \in Matches : SameMatch(m)
<1> DEFINE room == zone_match_list[n]
           left == [i \in Seats |-> IF i = player[p].seatid THEN NoPlayer ELSE room.seats[i]]
<1>1. zone_match_list' = [zone_match_list EXCEPT ![n] =
                            [room EXCEPT !.member = room.member - 1, !.seats = left]]
  BY DEF exit_player
<1>2. room \in MatchRec
  BY DEF TypeOK
<1> HIDE DEF room, left
<1>3. /\ zone_match_list'[n].state = room.state /\ zone_match_list'[n].zid = room.zid
      /\ zone_match_list'[n].seats = left
  BY <1>1, <1>2 DEF MatchRec, TypeOK
<1>4. \A m \in Matches : m # n => zone_match_list'[m] = zone_match_list[m]
  BY <1>1 DEF TypeOK
<1>5. \A i \in Seats : left[i] = NoPlayer \/ left[i] = room.seats[i]
  BY DEF left
<1> QED BY <1>3, <1>4, <1>5 DEF SameMatch, room, InView, Playing

\* The seat the timer of re_enter_match gives back is empty or the player's own.
LEMMA SeatGivenBack ==
  ASSUME TypeOK, RoomInv, SeatOwned, NEW o \in Objs, ReseatTimer(o)
  PROVE  \A m \in Matches : SameMatch(m)
<1> DEFINE n == player[o].matchid
           k == player[o].seatid
           room == zone_match_list[n]
<1>1. player[o].state = Playing /\ n \in Matches /\ k \in Seats /\ room.state = Playing
  BY DEF ReseatTimer, RoomInv, Reseated, Placed
<1>2. zone_match_list' = [zone_match_list EXCEPT ![n].seats[k] = o]
  BY DEF ReseatTimer
<1>3. room.seats[k] = NoPlayer \/ room.seats[k] = o
  <2>1. CASE room.seats[k] # NoPlayer
    <3>1. room.seats[k] \in Objs
      BY <1>1, <2>1, SeatTypes DEF PlayerOrNil
    <3>2. /\ player[room.seats[k]].matchid = n /\ player[room.seats[k]].seatid = k
          /\ player[room.seats[k]].state = Playing
      BY <1>1, <2>1 DEF RoomInv, SeatsAgree
    <3> QED BY <1>1, <3>1, <3>2 DEF SeatOwned
  <2> QED BY <2>1
<1>4. room \in MatchRec
  BY <1>1 DEF TypeOK
<1> HIDE DEF n, k, room
<1>5. /\ zone_match_list'[n].state = room.state /\ zone_match_list'[n].zid = room.zid
      /\ \A i \in Seats : zone_match_list'[n].seats[i] = IF i = k THEN o ELSE room.seats[i]
  <2>1. zone_match_list'[n] = [room EXCEPT !.seats = [room.seats EXCEPT ![k] = o]]
    BY <1>1, <1>2 DEF TypeOK, room
  <2> QED BY <1>1, <1>4, <2>1 DEF MatchRec
<1>6. \A m \in Matches : m # n => zone_match_list'[m] = zone_match_list[m]
  BY <1>1, <1>2 DEF TypeOK
<1> QED BY <1>1, <1>3, <1>5, <1>6 DEF SameMatch, room, InView, Playing

LEMMA Sessions ==
  ASSUME TypeOK, NEW on \in BOOLEAN, set_sessions(on)
  PROVE  \A o \in Objs : SameFields(o)
<1>1. \A o \in Objs : LET r == [player[o] EXCEPT !.session = on] IN
        /\ r.zid = player[o].zid /\ r.matchid = player[o].matchid /\ r.seatid = player[o].seatid
        /\ r.state = player[o].state /\ r.room = player[o].room /\ r.uinfo = player[o].uinfo
  BY DEF TypeOK, PlayerRec
<1> QED BY <1>1 DEF set_sessions, SameFields

LEMMA NextKinds ==
  ASSUME TypeInv, CountInv, RoomInv, GameInv, [Next]_vars
  PROVE  \/ Quiet
         \/ \E p \in Objs : Leaving(p)
         \/ \E z \in Zones, m \in Matches, o \in Objs, i \in Seats \cup {None} : Entering(z, m, o, i)
<1>0. TypeOK
  BY DEF TypeInv
<1>1. CASE on_gateway_connect \/ on_gateway_disconnect
  <2>1. \A o \in Objs : SameFields(o)
    BY <1>0, <1>1, Sessions DEF on_gateway_connect, on_gateway_disconnect
  <2> QED BY <1>1, <2>1, SameAll DEF on_gateway_connect, on_gateway_disconnect, Quiet
<1>2. CASE redis_connect_to_center \/ do_match_players \/ do_push_robot_to_match \/ UNCHANGED vars
  BY <1>2, SameAll
     DEF redis_connect_to_center, do_match_players, do_push_robot_to_match, vars, Quiet
<1>3. ASSUME NEW u \in Uids, login_logic_server(u) PROVE Quiet
  <2>1. \A o \in Objs : SameFields(o)
    <3>1. CASE LoginOnline(u)
      <4>1. logic_server_players[u] \in Objs
        BY <1>0, <3>1 DEF LoginOnline, TypeOK, PlayerOrNil
      <4> QED BY <1>0, <3>1, <4>1, OneField DEF LoginOnline
    <3>2. CASE LoginReconnect(u)
      <4>1. game_maching_list[u] \in Objs
        BY <1>0, <3>2 DEF LoginReconnect, TypeOK, PlayerOrNil
      <4> QED BY <1>0, <3>2, <4>1, OneField DEF LoginReconnect
    <3>3. CASE LoginNew(u)
      <4>1. <<u, made[u] + 1>> \in Objs
        BY <1>0, <3>3, ConstantsOK DEF LoginNew, TypeOK, Objs
      <4> QED BY <1>0, <3>3, <4>1, OneField DEF LoginNew
    <3> QED BY <1>3, <3>1, <3>2, <3>3 DEF login_logic_server
  <2> QED BY <1>3, <2>1, SameAll DEF login_logic_server, Quiet
<1>4. ASSUME NEW u \in Uids, LoginLoaded(u) PROVE Quiet
  <2> DEFINE o == loading[u].obj
  <2>1. /\ o \in Objs /\ player' = [player EXCEPT ![o].uinfo = TRUE]
        /\ logic_server_players' = [logic_server_players EXCEPT ![u] = o]
        /\ UNCHANGED <<sg_matchid, robots_loaded>>
    BY <1>0, <1>4 DEF LoginLoaded, set_online, TypeOK, PlayerOrNil
  <2>2. player'[o].uinfo /\ \A p \in Objs : SameFields(p)
    BY <1>0, <2>1, OneField
  <2>3. \A v \in Uids : \/ logic_server_players'[v] = logic_server_players[v]
                        \/ player'[logic_server_players'[v]].uinfo
    BY <1>0, <2>1, <2>2 DEF TypeOK
  <2>4. CASE re_enter_match(u, o) /\ CanReEnter(o)
    <3>1. /\ player[o].matchid \in Matches /\ player[o].state = Playing
          /\ zone_match_list[player[o].matchid].state = Playing
          /\ zone_match_list' = [zone_match_list EXCEPT ![player[o].matchid].member = @ + 1]
          /\ game_maching_list' = [game_maching_list EXCEPT ![u] = o]
      BY <2>4 DEF re_enter_match, CanReEnter, Visited
    <3>2. \A m \in Matches : SameMatch(m)
      <4> HIDE DEF o
      <4> QED BY <1>0, <3>1, CountedAgain
    <3>3. \A v \in Uids : \/ game_maching_list'[v] = game_maching_list[v]
                          \/ /\ game_maching_list'[v] \in Objs
                             /\ player[game_maching_list'[v]].state = Playing
      BY <1>0, <2>1, <3>1 DEF TypeOK
    <3> QED BY <2>1, <2>2, <2>3, <3>2, <3>3 DEF Quiet
  <2>5. CASE UNCHANGED <<zone_match_list, game_maching_list>>
    BY <2>1, <2>2, <2>3, <2>5, SameAll DEF Quiet
  <2> QED BY <1>4, <2>4, <2>5 DEF LoginLoaded, re_enter_match
<1>5. ASSUME NEW u \in Uids, LoginFailed(u) \/ LoginNoReply(u) PROVE Quiet
  BY <1>5, SameAll DEF LoginFailed, LoginNoReply, Quiet
<1>6. ASSUME NEW u \in Uids, NEW z \in Zones, enter_zone(u, z) PROVE Quiet
  <2> DEFINE p == logic_server_players[u]
  <2>1. /\ p \in Objs /\ player[p].state # Playing
        /\ player' = [player EXCEPT ![p].zid = z]
    BY <1>0, <1>6 DEF enter_zone, TypeOK, PlayerOrNil, RoomInv, ZoneFirst, InView, Playing
  <2>2. \A q \in Objs : SameFields(q)
    BY <1>0, <2>1, OneField
  <2> QED BY <1>6, <2>2, SameAll DEF enter_zone, Quiet
<1>7. CASE do_new_robot_players
  <2>1. \A o \in Objs : SameFields(o)
    BY <1>0, <1>7 DEF do_new_robot_players, GameInv, RobotsIdle, TypeOK, PlayerRec, SameFields
  <2> QED BY <1>7, <2>1, SameAll DEF do_new_robot_players, Quiet
<1>8. ASSUME NEW r \in Robots, RobotInfo(r) PROVE Quiet
  <2>1. \A o \in Objs : SameFields(o)
    BY <1>0, <1>8, ConstantFacts, OneField DEF RobotInfo
  <2> QED BY <1>8, <2>1, SameAll DEF RobotInfo, Quiet
<1>9. ASSUME NEW z \in Zones, NEW u \in Uids, MatchWaiter(z, u)
      PROVE  \E m \in Matches, o \in Objs, i \in Seats \cup {None} : Entering(z, m, o, i)
  <2> DEFINE p == zone_wait_list[z][u]
  <2>1. /\ p \in Objs /\ logic_server_players[u] = p /\ Uid(p) = u
        /\ player[p].matchid = None /\ player[p].state = InView
    <3>1. p \in Objs
      BY <1>0, <1>9 DEF MatchWaiter, TypeInv, SweptWait, TypeOK, PlayerOrNil
    <3> QED BY <1>9, <3>1, ConstantFacts DEF MatchWaiter, RoomInv, WaitersOnline, OwnObjects
  <2>2. PICK m \in Matches, i \in Seats \cup {None} :
          /\ search_inview_match_mgr(z, m) /\ screenplayer(m, p, i) /\ enter_player(z, m, p, i)
          /\ sg_matchid' = IF m = sg_matchid THEN m + 1 ELSE sg_matchid
    BY <1>9, <2>1 DEF MatchWaiter
  <2>3. UNCHANGED <<logic_server_players, robots_loaded>>
    BY <1>9 DEF MatchWaiter
  <2>4. ~IsRobot(p) /\ player[p].uinfo
    BY <2>1, ConstantFacts DEF GameInv, OnlineLoaded
  <2> HIDE DEF p
  <2>5. CASE Gathering(z) = {}
    <3>1. m = sg_matchid /\ zone_match_list[m].state = InView
      BY <1>0, <2>2, <2>5 DEF search_inview_match_mgr, RoomInv, StillGathering, TypeOK
    <3> QED BY <2>1, <2>2, <2>3, <2>4, <2>5, <3>1 DEF Entering
  <2>6. CASE Gathering(z) # {}
    <3>1. m < sg_matchid /\ zone_match_list[m].state = InView
      BY <2>2, <2>6 DEF search_inview_match_mgr, Gathering, Visited, Matches
    <3>2. m # sg_matchid
      BY <1>0, <3>1 DEF TypeOK
    <3> QED BY <2>1, <2>2, <2>3, <2>4, <3>1, <3>2 DEF Entering
  <2> QED BY <2>5, <2>6
<1>10. ASSUME NEW m \in Matches, PushRobot(m)
       PROVE  Quiet \/ \E z \in Zones, o \in Objs, i \in Seats \cup {None} : Entering(z, m, o, i)
  <2> DEFINE z == zone_match_list[m].zid
  <2>1. /\ UNCHANGED <<logic_server_players, robots_loaded, sg_matchid>>
        /\ zone_match_list[m].state = InView /\ m < sg_matchid
    BY <1>10 DEF PushRobot, RoomInv, StillGathering
  <2>2. CASE UNCHANGED <<zone_match_list, player, game_maching_list>>
    BY <2>1, <2>2, SameAll DEF Quiet
  <2>3. ASSUME NEW o \in search_idle_robot(z), NEW i \in Seats \cup {None},
               player[o].state = InView, screenplayer(m, o, i), enter_player(z, m, o, i)
        PROVE  z \in Zones /\ o \in Objs /\ Entering(z, m, o, i)
    <3>1. PICK r \in Robots : /\ robots_loaded /\ o = <<r, 1>> /\ RobotZone[r] = z
                              /\ player[<<r, 1>>].matchid = None
      BY <2>3 DEF search_idle_robot
    <3>2. z \in Zones /\ o \in Objs /\ IsRobot(o)
      BY <3>1, ConstantsOK, ConstantFacts DEF IsRobot, Uid
    <3>3. m # sg_matchid
      BY <1>0, <2>1 DEF TypeOK
    <3> QED BY <2>1, <2>3, <3>1, <3>2, <3>3 DEF Entering
  <2> QED BY <1>10, <2>2, <2>3 DEF PushRobot
<1>11. ASSUME NEW u \in Uids, do_exit_match(u) PROVE \E p \in Objs : Leaving(p)
  <2> DEFINE p == logic_server_players[u]
  <2>1. p \in Objs /\ ~IsRobot(p)
    BY <1>0, <1>11, ConstantFacts DEF do_exit_match, TypeOK, PlayerOrNil, RoomInv, OwnObjects
  <2>2. player[p] \in PlayerRec
    BY <1>0, <2>1 DEF TypeOK
  <2> QED BY <1>11, <2>1, <2>2 DEF do_exit_match, may_exit_match, PlayerRec, Leaving
<1>12. ASSUME NEW u \in Uids, on_player_disconnect(u) PROVE Quiet
  <2> DEFINE p == logic_server_players[u]
  <2>1. /\ p \in Objs /\ ~IsRobot(p) /\ player' = [player EXCEPT ![p].session = FALSE]
        /\ logic_server_players' = [logic_server_players EXCEPT ![u] = NoPlayer]
        /\ UNCHANGED <<game_maching_list, sg_matchid, robots_loaded>>
    BY <1>0, <1>12, ConstantFacts
       DEF on_player_disconnect, TypeOK, PlayerOrNil, RoomInv, OwnObjects
  <2>2. \A q \in Objs : SameFields(q)
    BY <1>0, <2>1, OneField
  <2>3. \A m \in Matches : SameMatch(m)
    <3>1. CASE player[p].state = Playing /\ exit_player(player[p].room, p)
      <4>1. /\ player[p].room \in Matches
            /\ zone_match_list[player[p].room].state = Playing
        BY <2>1, <3>1 DEF GameInv, InGame, RoomInv, Placed
      <4> QED BY <1>0, <3>1, <4>1, SeatGivenUp
    <3> QED BY <1>12, <3>1, SameAll DEF on_player_disconnect
  <2>4. \A v \in Uids : logic_server_players'[v] \in {logic_server_players[v], NoPlayer}
    BY <1>0, <2>1 DEF TypeOK
  <2> QED BY <2>1, <2>2, <2>3, <2>4 DEF Quiet
<1>13. ASSUME NEW o \in Objs, ReseatTimer(o) PROVE Quiet
  BY <1>0, <1>13, SeatGivenBack, SameAll DEF ReseatTimer, GameInv, Quiet
<1> QED BY <1>1, <1>2, <1>3, <1>4, <1>5, <1>6, <1>7, <1>8, <1>9, <1>10, <1>11, <1>12, <1>13
        DEF Next, TimerLoop

-----------------------------------------------------------------------------
(* Entering a room *)

\* What a player who enters changes: its own place, the room, and, when the game starts,
\* the state and the room of everybody on a seat of it.
LEMMA EnterGame ==
  ASSUME TypeOK, RoomInv, NEW z \in Zones, NEW m \in Matches, NEW o \in Objs,
         NEW i \in Seats \cup {None}, Entering(z, m, o, i)
  PROVE  /\ \A p \in Objs : player'[p].uinfo = player[p].uinfo
         /\ player'[o].matchid = m
         /\ \A p \in Objs : p # o => player'[p].matchid = player[p].matchid
         /\ \A p \in Objs : player[p].state = Playing => player'[p] = player[p] /\ p # o
         /\ \A p \in Objs : player'[p].state = Playing /\ player[p].state # Playing =>
              /\ player'[p].matchid = m /\ player'[p].seatid \in Seats
              /\ zone_match_list'[m].seats[player'[p].seatid] = p
              /\ ~IsRobot(p) => player'[p].room = m
              /\ IsRobot(p) => p = o \/ player[p].matchid = m
         /\ zone_match_list'[m].zid = z
         /\ zone_match_list'[m].member = zone_match_list[m].member + 1
         /\ zone_match_list'[m].state = InView =>
              zone_match_list[m].member + 1 # 2 * PLAYER_NUM \/ ~player[o].uinfo
         /\ \A n \in Matches : n # m => zone_match_list'[n] = zone_match_list[n]
         /\ \A u \in Uids : \/ game_maching_list'[u] = game_maching_list[u]
                            \/ player'[game_maching_list'[u]].state = Playing
<1> DEFINE seats == [k \in Seats |-> IF k = i THEN o ELSE zone_match_list[m].seats[k]]
           starts == zone_match_list[m].member + 1 = 2 * PLAYER_NUM /\ player[o].uinfo
           plays == starts /\ \A k \in Seats : seats[k] # NoPlayer
           reached(p) == \E k \in Seats : seats[k] = p /\ \A j \in 1 .. k : seats[j] # NoPlayer
           state == IF plays THEN Playing ELSE IF starts THEN Ready ELSE InView
           entered == [player EXCEPT ![o] = [@ EXCEPT !.matchid = m, !.zid = z, !.seatid = i]]
           started(p) == IF starts /\ reached(p)
                         THEN [entered[p] EXCEPT !.state = state,
                                      !.room = IF plays /\ ~IsRobot(p) THEN m ELSE @]
                         ELSE entered[p]
<1>1. /\ player \in [Objs -> PlayerRec] /\ zone_match_list \in [Matches -> MatchRec]
      /\ zone_match_list[m].seats \in [Seats -> PlayerOrNil]
      /\ player[o].matchid = None /\ player[o].state = InView /\ zone_match_list[m].state = InView
  BY DEF TypeOK, MatchRec, Entering
<1>2. /\ player' = [p \in Objs |-> started(p)]
      /\ zone_match_list' = [zone_match_list EXCEPT ![m] =
          [zid |-> z, state |-> state, member |-> @.member + 1, seats |-> seats]]
  BY DEF Entering, enter_player
<1>3. /\ seats \in [Seats -> PlayerOrNil]
      /\ \A k \in Seats : seats[k] = IF k = i THEN o ELSE zone_match_list[m].seats[k]
      /\ state = Playing <=> plays
      /\ state = InView <=> ~starts
  BY <1>1 DEF PlayerOrNil, Playing, Ready, InView
<1>4. \A p \in Objs :
        /\ entered[p] \in PlayerRec
        /\ entered[p].state = player[p].state /\ entered[p].uinfo = player[p].uinfo
        /\ p # o => entered[p] = player[p]
        /\ p = o => entered[p].matchid = m /\ entered[p].seatid = i
  <2>1. /\ player[o] \in PlayerRec
        /\ entered[o] = [player[o] EXCEPT !.matchid = m, !.zid = z, !.seatid = i]
    BY <1>1
  <2>2. \A p \in Objs : p # o => entered[p] = player[p] /\ player[p] \in PlayerRec
    BY <1>1
  <2> HIDE DEF entered
  <2>3. /\ entered[o] \in PlayerRec /\ entered[o].state = player[o].state
        /\ entered[o].uinfo = player[o].uinfo
        /\ entered[o].matchid = m /\ entered[o].seatid = i
    BY <2>1 DEF PlayerRec
  <2> QED BY <2>2, <2>3
<1>5. \A p \in Objs :
        /\ player'[p].matchid = entered[p].matchid /\ player'[p].seatid = entered[p].seatid
        /\ player'[p].uinfo = entered[p].uinfo
        /\ player'[p].state = IF starts /\ reached(p) THEN state ELSE player[p].state
        /\ starts /\ reached(p) /\ plays /\ ~IsRobot(p) => player'[p].room = m
        /\ ~(starts /\ reached(p)) => player'[p] = entered[p]
  <2> HIDE DEF starts, plays, reached, state, entered
  <2> QED BY <1>2, <1>4 DEF PlayerRec
<1>6. /\ zone_match_list'[m].state = state /\ zone_match_list'[m].seats = seats
      /\ zone_match_list'[m].zid = z
      /\ zone_match_list'[m].member = zone_match_list[m].member + 1
      /\ \A n \in Matches : n # m => zone_match_list'[n] = zone_match_list[n]
  <2> HIDE DEF plays, starts, state, seats
  <2> QED BY <1>1, <1>2
<1> HIDE DEF entered, state, started
\* Who sits in the room is its own, and does not play yet.
<1>7. \A k \in Seats : seats[k] # NoPlayer =>
        /\ seats[k] \in Objs /\ entered[seats[k]].matchid = m
        /\ entered[seats[k]].seatid = k /\ player[seats[k]].state # Playing
        /\ seats[k] = o \/ player[seats[k]].matchid = m
  <2> SUFFICES ASSUME NEW k \in Seats, seats[k] # NoPlayer
               PROVE  /\ seats[k] \in Objs /\ entered[seats[k]].matchid = m
                      /\ entered[seats[k]].seatid = k /\ player[seats[k]].state # Playing
                      /\ seats[k] = o \/ player[seats[k]].matchid = m
    OBVIOUS
  <2> HIDE DEF seats
  <2>1. CASE k = i
    BY <1>1, <1>3, <1>4, <2>1 DEF InView, Playing
  <2>2. CASE k # i
    <3>1. seats[k] = zone_match_list[m].seats[k] /\ seats[k] \in Objs
      BY <1>1, <1>3, <2>2 DEF PlayerOrNil
    <3>2. player[seats[k]].matchid = m /\ player[seats[k]].seatid = k
          /\ player[seats[k]].state # Playing
      BY <1>1, <3>1 DEF RoomInv, SeatsAgree, InView, Playing
    <3>3. seats[k] # o
      BY <1>1, <3>2, ConstantFacts
    <3> QED BY <1>4, <3>1, <3>2, <3>3
  <2> QED BY <2>1, <2>2
<1>8. \A p \in Objs : reached(p) => \E k \in Seats : seats[k] = p /\ p # NoPlayer
  BY ConstantFacts
<1>9. \A p \in Objs : player[p].state = Playing => ~reached(p) /\ p # o
  BY <1>1, <1>7, <1>8 DEF InView, Playing
<1>10. \A u \in Uids : \/ game_maching_list'[u] = game_maching_list[u]
                       \/ plays /\ \E k \in Seats : game_maching_list'[u] = seats[k]
  <2>1. plays \/ game_maching_list' = game_maching_list
    BY DEF Entering, enter_player
  <2>2. ASSUME plays, NEW u \in Uids
        PROVE  \/ game_maching_list'[u] = game_maching_list[u]
                \/ \E k \in Seats : game_maching_list'[u] = seats[k]
    <3>1. game_maching_list'[u] \in LastSeated(seats, u)
      BY <2>2 DEF Entering, enter_player
    <3> HIDE DEF seats
    <3> QED BY <3>1 DEF LastSeated
  <2> QED BY <2>1, <2>2
<1>11. plays => \A k \in Seats : seats[k] \in Objs /\ reached(seats[k])
  <2> SUFFICES ASSUME plays, NEW k \in Seats PROVE seats[k] \in Objs /\ reached(seats[k])
    OBVIOUS
  <2>1. \A j \in 1 .. k : j \in Seats
    BY ConstantsOK DEF Seats
  <2> QED BY <1>7, <2>1
<1>12. plays => starts
  OBVIOUS
<1> HIDE DEF plays, reached
<1>13. \A p \in Objs : player'[p].state = Playing /\ player[p].state # Playing =>
         plays /\ starts /\ reached(p)
  BY <1>3, <1>5
<1>14. \A p \in Objs : player'[p].state = Playing /\ player[p].state # Playing =>
              /\ player'[p].matchid = m /\ player'[p].seatid \in Seats
              /\ zone_match_list'[m].seats[player'[p].seatid] = p
              /\ ~IsRobot(p) => player'[p].room = m
              /\ IsRobot(p) => p = o \/ player[p].matchid = m
  <2> SUFFICES ASSUME NEW p \in Objs, player'[p].state = Playing, player[p].state # Playing
               PROVE  /\ player'[p].matchid = m /\ player'[p].seatid \in Seats
                      /\ zone_match_list'[m].seats[player'[p].seatid] = p
                      /\ ~IsRobot(p) => player'[p].room = m
                      /\ IsRobot(p) => p = o \/ player[p].matchid = m
    OBVIOUS
  <2>1. plays /\ starts /\ reached(p)
    BY <1>13
  <2>2. PICK k \in Seats : seats[k] = p /\ p # NoPlayer
    BY <1>8, <2>1
  <2> HIDE DEF seats, starts
  <2> QED BY <1>5, <1>6, <1>7, <2>1, <2>2
<1>15. \A u \in Uids : \/ game_maching_list'[u] = game_maching_list[u]
                       \/ player'[game_maching_list'[u]].state = Playing
  <2> HIDE DEF seats, starts
  <2> QED BY <1>3, <1>5, <1>10, <1>11, <1>12
<1>16. zone_match_list'[m].state = InView =>
              zone_match_list[m].member + 1 # 2 * PLAYER_NUM \/ ~player[o].uinfo
  BY <1>3, <1>6
<1> HIDE DEF seats, starts
<1> QED BY <1>4, <1>5, <1>6, <1>9, <1>14, <1>15, <1>16

\* The room of a player who leaves it.
LEMMA RoomLeft ==
  ASSUME TypeOK, NEW n \in Matches, NEW p, exit_player(n, p)
  PROVE  /\ \A m \in Matches : /\ zone_match_list'[m].state = zone_match_list[m].state
                               /\ zone_match_list'[m].zid = zone_match_list[m].zid
         /\ zone_match_list'[n].member = zone_match_list[n].member - 1
         /\ \A m \in Matches : m # n => zone_match_list'[m] = zone_match_list[m]
<1> DEFINE room == zone_match_list[n]
           left == [i \in Seats |-> IF i = player[p].seatid THEN NoPlayer ELSE room.seats[i]]
<1>1. zone_match_list' = [zone_match_list EXCEPT ![n] =
                            [room EXCEPT !.member = room.member - 1, !.seats = left]]
  BY DEF exit_player
<1>2. room \in MatchRec
  BY DEF TypeOK
<1> HIDE DEF room, left
<1>3. /\ zone_match_list'[n].state = room.state /\ zone_match_list'[n].zid = room.zid
      /\ zone_match_list'[n].member = room.member - 1
  BY <1>1, <1>2 DEF MatchRec, TypeOK
<1>4. \A m \in Matches : m # n => zone_match_list'[m] = zone_match_list[m]
  BY <1>1 DEF TypeOK
<1> QED BY <1>3, <1>4 DEF room

LEMMA PlayerLeft ==
  ASSUME TypeOK, NEW p \in Objs, player' = [player EXCEPT ![p] = ClearMatchData(@)]
  PROVE  /\ player'[p].state = InView /\ player'[p].matchid = None
         /\ player'[p].uinfo = player[p].uinfo
         /\ \A q \in Objs : q # p => player'[q] = player[q]
BY DEF TypeOK, PlayerRec, ClearMatchData

LEMMA GameStep ==
  TypeInv /\ TypeInv' /\ CountInv /\ RoomInv /\ RoomInv' /\ GameInv /\ [Next]_vars => GameInv'
<1> SUFFICES ASSUME TypeInv, TypeInv', CountInv, RoomInv, RoomInv', GameInv, [Next]_vars
             PROVE  GameInv'
  OBVIOUS
<1>0. TypeOK /\ TypeOK'
  BY DEF TypeInv
<1>1. CASE Quiet
  <2>1. SeatOwned' /\ InGame' /\ RobotsIdle'
    BY <1>1 DEF Quiet, SameFields, GameInv, SeatOwned, InGame, RobotsIdle
  <2>2. MachingPlays'
    <3> SUFFICES ASSUME NEW u \in Uids, game_maching_list'[u] # NoPlayer
                 PROVE  player'[game_maching_list'[u]].state = Playing
      BY DEF MachingPlays
    <3>1. game_maching_list'[u] \in Objs
      BY <1>0 DEF TypeOK, PlayerOrNil
    <3>2. player[game_maching_list'[u]].state = Playing
      BY <1>1 DEF Quiet, GameInv, MachingPlays
    <3> QED BY <1>1, <3>1, <3>2 DEF Quiet, SameFields
  <2>3. OpenZones'
    BY <1>1 DEF Quiet, SameMatch, GameInv, OpenZones
  <2>4. OnlineLoaded'
    <3> SUFFICES ASSUME NEW u \in Uids, logic_server_players'[u] # NoPlayer
                 PROVE  player'[logic_server_players'[u]].uinfo
      BY DEF OnlineLoaded
    <3>1. CASE logic_server_players'[u] = logic_server_players[u]
      <4>1. logic_server_players[u] \in Objs /\ player[logic_server_players[u]].uinfo
        BY <1>0, <3>1 DEF TypeOK, PlayerOrNil, GameInv, OnlineLoaded
      <4> QED BY <1>1, <3>1, <4>1 DEF Quiet, SameFields
    <3> QED BY <1>1, <3>1 DEF Quiet
  <2> QED BY <2>1, <2>2, <2>3, <2>4 DEF GameInv
<1>2. ASSUME NEW p \in Objs, Leaving(p) PROVE GameInv'
  <2>1. /\ player'[p].state = InView /\ player'[p].uinfo = player[p].uinfo
        /\ \A q \in Objs : q # p => player'[q] = player[q]
    BY <1>0, <1>2, PlayerLeft DEF Leaving
  <2>2. SeatOwned' /\ InGame'
    BY <2>1 DEF GameInv, SeatOwned, InGame, InView, Playing
  <2>3. RobotsIdle'
    BY <1>2, <2>1 DEF Leaving, GameInv, RobotsIdle, InView, Playing
  <2>4. MachingPlays'
    <3> SUFFICES ASSUME NEW u \in Uids, game_maching_list[u] # NoPlayer
                 PROVE  player'[game_maching_list[u]].state = Playing
      BY <1>2 DEF Leaving, MachingPlays
    <3>1. game_maching_list[u] \in Objs /\ player[game_maching_list[u]].state = Playing
      BY <1>0 DEF TypeOK, PlayerOrNil, GameInv, MachingPlays
    <3> QED BY <1>2, <2>1, <3>1 DEF Leaving, InView, Playing
  <2>5. OpenZones'
    BY <1>0, <1>2, RoomLeft DEF Leaving, GameInv, OpenZones
  <2>6. OnlineLoaded'
    <3>1. \A u \in Uids : logic_server_players[u] # NoPlayer => logic_server_players[u] \in Objs
      BY <1>0 DEF TypeOK, PlayerOrNil
    <3> QED BY <1>2, <2>1, <3>1 DEF Leaving, GameInv, OnlineLoaded
  <2> QED BY <2>2, <2>3, <2>4, <2>5, <2>6 DEF GameInv
<1>3. ASSUME NEW z \in Zones, NEW m \in Matches, NEW o \in Objs, NEW i \in Seats \cup {None},
             Entering(z, m, o, i)
      PROVE  GameInv'
  <2>1. /\ \A p \in Objs : player'[p].uinfo = player[p].uinfo
        /\ player'[o].matchid = m
        /\ \A p \in Objs : p # o => player'[p].matchid = player[p].matchid
        /\ \A p \in Objs : player[p].state = Playing => player'[p] = player[p] /\ p # o
        /\ \A p \in Objs : player'[p].state = Playing /\ player[p].state # Playing =>
              /\ player'[p].matchid = m /\ player'[p].seatid \in Seats
              /\ zone_match_list'[m].seats[player'[p].seatid] = p
              /\ ~IsRobot(p) => player'[p].room = m
              /\ IsRobot(p) => p = o \/ player[p].matchid = m
        /\ zone_match_list'[m].zid = z
        /\ \A n \in Matches : n # m => zone_match_list'[n] = zone_match_list[n]
        /\ \A u \in Uids : \/ game_maching_list'[u] = game_maching_list[u]
                           \/ player'[game_maching_list'[u]].state = Playing
    BY <1>0, <1>3, EnterGame
  <2>2. \A p \in Objs : player[p].state = Playing => player[p].matchid # m
    BY <1>3 DEF Entering, RoomInv, Placed, InView, Playing
  <2>3. SeatOwned'
    <3> SUFFICES ASSUME NEW p \in Objs, NEW q \in Objs,
                        player'[p].state = Playing, player'[q].state = Playing,
                        player'[p].matchid = player'[q].matchid,
                        player'[p].seatid = player'[q].seatid
                 PROVE  p = q
      BY DEF SeatOwned
    <3>1. CASE player[p].state = Playing /\ player[q].state = Playing
      BY <2>1, <3>1 DEF GameInv, SeatOwned
    <3>2. CASE player[p].state = Playing /\ player[q].state # Playing
      BY <2>1, <2>2, <3>2
    <3>3. CASE player[p].state # Playing /\ player[q].state = Playing
      BY <2>1, <2>2, <3>3
    <3>4. CASE player[p].state # Playing /\ player[q].state # Playing
      BY <2>1, <3>4
    <3> QED BY <3>1, <3>2, <3>3, <3>4
  <2>4. InGame'
    BY <2>1 DEF GameInv, InGame
  <2>5. RobotsIdle'
    BY <1>3, <2>1, ConstantFacts DEF Entering, GameInv, RobotsIdle
  <2>6. MachingPlays'
    BY <1>0, <2>1 DEF GameInv, MachingPlays, TypeOK, PlayerOrNil
  <2>7. OpenZones'
    BY <1>0, <1>3, <2>1 DEF Entering, GameInv, OpenZones, TypeOK, Matches
  <2>8. OnlineLoaded'
    <3>1. \A u \in Uids : logic_server_players[u] # NoPlayer => logic_server_players[u] \in Objs
      BY <1>0 DEF TypeOK, PlayerOrNil
    <3>2. logic_server_players' = logic_server_players
      BY <1>3 DEF Entering
    <3> QED BY <2>1, <3>1, <3>2 DEF GameInv, OnlineLoaded
  <2> QED BY <2>3, <2>4, <2>5, <2>6, <2>7, <2>8 DEF GameInv
<1> QED BY <1>1, <1>2, <1>3, NextKinds

LEMMA GameAlways == Spec => [](TypeInv /\ CountInv /\ RoomInv /\ GameInv)
BY TypeInit, TypeStep, CountInit, CountStep, RoomInit, RoomStep, GameInit, GameStep, PTL DEF Spec

-----------------------------------------------------------------------------
(* A running game keeps its players and its seats *)

\* The seat of a running game is for good: with any number of players, rooms and zones,
\* no handler of game_mgr.lua or match_mgr.lua and no timer takes a player of a running
\* game to another room, seat or state, or gives its seat to another object.  The reseat
\* timer (match_mgr.lua:266) does not look at the seat: SeatOwned is why it need not.
THEOREM KeepsPlaces == Spec => PlaceKept
<1> DEFINE kept ==
      /\ \A o \in Objs : player[o].state = Playing =>
          /\ player'[o].state = Playing /\ player'[o].zid = player[o].zid
          /\ player'[o].matchid = player[o].matchid /\ player'[o].seatid = player[o].seatid
      /\ \A m \in Matches : zone_match_list[m].state = Playing =>
          /\ zone_match_list'[m].state = Playing
          /\ \A i \in Seats : zone_match_list[m].seats[i] # zone_match_list'[m].seats[i] =>
               NoPlayer \in {zone_match_list[m].seats[i], zone_match_list'[m].seats[i]}
<1>1. ASSUME TypeInv, CountInv, RoomInv, GameInv, [Next]_vars PROVE kept
  <2>0. TypeOK
    BY <1>1 DEF TypeInv
  <2>1. CASE Quiet
    BY <2>1 DEF Quiet, SameFields, SameMatch
  <2>2. ASSUME NEW p \in Objs, Leaving(p) PROVE kept
    <3>1. /\ player[p].state # Playing /\ \A q \in Objs : q # p => player'[q] = player[q]
      BY <2>0, <2>2, PlayerLeft DEF Leaving, InView, Playing
    <3>2. /\ zone_match_list[player[p].matchid].state # Playing
          /\ \A m \in Matches : m # player[p].matchid => zone_match_list'[m] = zone_match_list[m]
      BY <2>0, <2>2, RoomLeft DEF Leaving, InView, Playing
    <3> QED BY <3>1, <3>2
  <2>3. ASSUME NEW z \in Zones, NEW m \in Matches, NEW o \in Objs, NEW i \in Seats \cup {None},
               Entering(z, m, o, i)
        PROVE  kept
    <3>1. /\ \A p \in Objs : player[p].state = Playing => player'[p] = player[p]
          /\ \A n \in Matches : n # m => zone_match_list'[n] = zone_match_list[n]
      BY <1>1, <2>0, <2>3, EnterGame
    <3>2. zone_match_list[m].state # Playing
      BY <2>3 DEF Entering, InView, Playing
    <3> QED BY <3>1, <3>2
  <2> QED BY <1>1, <2>1, <2>2, <2>3, NextKinds
<1>2. TypeInv /\ CountInv /\ RoomInv /\ GameInv /\ [Next]_vars => [kept]_vars
  BY <1>1
<1> QED BY <1>2, GameAlways, PTL DEF Spec, PlaceKept

-----------------------------------------------------------------------------
(* Gathering rooms are counted *)

In(m) == {o \in Objs : player[o].matchid = m}
WellCounted(m) ==
  zone_match_list[m].state = InView =>
    /\ zone_match_list[m].member = Cardinality(In(m))
    /\ Cardinality(In(m)) < 2 * PLAYER_NUM \/ \E o \in In(m) : IsRobot(o)
CountedInv == \A m \in Matches : IsFiniteSet(In(m)) /\ WellCounted(m)

LEMMA CountedInit == Init => CountedInv
<1> SUFFICES ASSUME Init, NEW m \in Matches PROVE IsFiniteSet(In(m)) /\ WellCounted(m)
  BY DEF CountedInv
<1>1. In(m) = {}
  BY ConstantFacts DEF Init, In, FreshPlayer
<1>2. zone_match_list[m].member = 0
  BY DEF Init, FreshMatch
<1> QED BY <1>1, <1>2, FS_EmptySet, ConstantsOK DEF WellCounted

\* A room nobody enters or leaves and whose count, if it gathers, stays.
LEMMA CountKept ==
  ASSUME CountedInv, NEW m \in Matches, In(m)' = In(m),
         zone_match_list'[m].state = zone_match_list[m].state,
         zone_match_list[m].state = InView => zone_match_list'[m].member = zone_match_list[m].member
  PROVE  (IsFiniteSet(In(m)) /\ WellCounted(m))'
BY DEF CountedInv, WellCounted

LEMMA CountedStep ==
  TypeInv /\ CountInv /\ RoomInv /\ GameInv /\ CountedInv /\ [Next]_vars => CountedInv'
<1> SUFFICES ASSUME TypeInv, CountInv, RoomInv, GameInv, CountedInv, [Next]_vars,
                    NEW m \in Matches
             PROVE  (IsFiniteSet(In(m)) /\ WellCounted(m))'
  BY DEF CountedInv
<1>0. TypeOK
  BY DEF TypeInv
<1>1. CASE Quiet
  <2>1. In(m)' = In(m)
    BY <1>1 DEF Quiet, SameFields, In
  <2> QED BY <1>1, <2>1, CountKept DEF Quiet, SameMatch
<1>2. ASSUME NEW p \in Objs, Leaving(p) PROVE (IsFiniteSet(In(m)) /\ WellCounted(m))'
  <2> DEFINE n == player[p].matchid
  <2>1. n \in Matches /\ ~IsRobot(p) /\ zone_match_list[n].state = InView
    BY <1>2 DEF Leaving
  <2>2. /\ zone_match_list'[n].state = InView
        /\ zone_match_list'[n].member = zone_match_list[n].member - 1
        /\ m # n => zone_match_list'[m] = zone_match_list[m]
    BY <1>0, <1>2, <2>1, RoomLeft DEF Leaving
  <2>3. player'[p].matchid = None /\ \A q \in Objs : q # p => player'[q] = player[q]
    BY <1>0, <1>2, PlayerLeft DEF Leaving
  <2>4. CASE m # n
    <3>1. In(m)' = In(m)
      BY <2>3, <2>4, ConstantFacts DEF In
    <3> QED BY <2>2, <2>4, <3>1, CountKept
  <2>5. CASE m = n
    <3>1. In(m)' = In(m) \ {p} /\ p \in In(m)
      BY <2>3, <2>5, ConstantFacts DEF In
    <3>2. /\ IsFiniteSet(In(m)) /\ zone_match_list[m].member = Cardinality(In(m))
          /\ Cardinality(In(m)) < 2 * PLAYER_NUM \/ \E o \in In(m) : IsRobot(o)
      BY <2>1, <2>5 DEF CountedInv, WellCounted
    <3>3. /\ IsFiniteSet(In(m)') /\ Cardinality(In(m)') = Cardinality(In(m)) - 1
          /\ Cardinality(In(m)) \in Nat
      BY <3>1, <3>2, FS_RemoveElement, FS_CardinalityType
    <3>4. Cardinality(In(m)') < 2 * PLAYER_NUM \/ \E o \in In(m)' : IsRobot(o)
      BY <2>1, <3>1, <3>2, <3>3, ConstantsOK
    <3> QED BY <2>2, <2>5, <3>2, <3>3, <3>4 DEF WellCounted
  <2> QED BY <2>4, <2>5
<1>3. ASSUME NEW z \in Zones, NEW n \in Matches, NEW o \in Objs, NEW i \in Seats \cup {None},
             Entering(z, n, o, i)
      PROVE  (IsFiniteSet(In(m)) /\ WellCounted(m))'
  <2>1. /\ player'[o].matchid = n
        /\ \A p \in Objs : p # o => player'[p].matchid = player[p].matchid
        /\ zone_match_list'[n].member = zone_match_list[n].member + 1
        /\ zone_match_list'[n].state = InView =>
             zone_match_list[n].member + 1 # 2 * PLAYER_NUM \/ ~player[o].uinfo
        /\ m # n => zone_match_list'[m] = zone_match_list[m]
    BY <1>0, <1>3, EnterGame
  <2>2. player[o].matchid = None /\ zone_match_list[n].state = InView
        /\ (~player[o].uinfo => IsRobot(o))
    BY <1>3 DEF Entering
  <2>3. CASE m # n
    <3>1. In(m)' = In(m)
      BY <2>1, <2>2, <2>3, ConstantFacts DEF In
    <3> QED BY <2>1, <2>3, <3>1, CountKept
  <2>4. CASE m = n
    <3>1. In(m)' = In(m) \cup {o} /\ o \notin In(m)
      BY <2>1, <2>2, <2>4, ConstantFacts DEF In
    <3>2. /\ IsFiniteSet(In(m)) /\ zone_match_list[m].member = Cardinality(In(m))
          /\ Cardinality(In(m)) < 2 * PLAYER_NUM \/ \E p \in In(m) : IsRobot(p)
      BY <2>2, <2>4 DEF CountedInv, WellCounted
    <3>3. /\ IsFiniteSet(In(m)') /\ Cardinality(In(m)') = Cardinality(In(m)) + 1
          /\ Cardinality(In(m)) \in Nat
      BY <3>1, <3>2, FS_AddElement, FS_CardinalityType
    <3>4. ASSUME zone_match_list'[m].state = InView
          PROVE  Cardinality(In(m)') < 2 * PLAYER_NUM \/ \E p \in In(m)' : IsRobot(p)
      <4>1. CASE \E p \in In(m)' : IsRobot(p)
        BY <4>1
      <4>2. CASE ~ \E p \in In(m)' : IsRobot(p)
        <5>1. Cardinality(In(m)) < 2 * PLAYER_NUM /\ ~IsRobot(o)
          BY <3>1, <3>2, <4>2
        <5>2. Cardinality(In(m)) + 1 # 2 * PLAYER_NUM
          BY <2>1, <2>2, <2>4, <3>2, <3>4, <5>1
        <5>3. 2 * PLAYER_NUM \in Nat
          BY ConstantsOK
        <5> QED BY <3>3, <5>1, <5>2, <5>3
      <4> QED BY <4>1, <4>2
    <3> QED BY <2>1, <2>4, <3>2, <3>3, <3>4 DEF WellCounted
  <2> QED BY <2>3, <2>4
<1> QED BY <1>1, <1>2, <1>3, NextKinds

\* A gathering room counts the players who entered it and did not leave, however many
\* enter, leave, lose the connection and come back, and the room that has its number of
\* players has started, unless a robot came without a profile: enter_player and exit_player
\* of match_mgr.lua count on no player being counted again in a room that gathers.
THEOREM GatheringIsCounted == Spec => []GatheringCount
<1>1. CountedInv => GatheringCount
  BY DEF CountedInv, WellCounted, GatheringCount, In
<1> QED BY <1>1, GameAlways, CountedInit, CountedStep, PTL DEF Spec

-----------------------------------------------------------------------------
(* One zone *)

\* With one zone, its search finds every room that was opened.
LEMMA AllVisited ==
  ASSUME TypeOK, GameInv, NEW z \in Zones, \A y \in Zones : y = z
  PROVE  Visited(z) = Opened
<1>1. ASSUME NEW m \in Opened PROVE m \in Visited(z)
  <2>1. \A k \in 1 .. m : k \in Matches /\ k < sg_matchid
    BY <1>1, ConstantsOK DEF Opened, Matches, TypeOK
  <2> QED BY <1>1, <2>1 DEF Visited, Opened, GameInv, OpenZones
<1>2. Visited(z) \subseteq Opened
  BY DEF Visited, Opened, Matches
<1> QED BY <1>1, <1>2

\* One room gathers.
OneOpen == \A m, k \in Opened :
  zone_match_list[m].state = InView /\ zone_match_list[k].state = InView => m = k

LEMMA OneOpenStep ==
  ASSUME \A y, z \in Zones : y = z
  PROVE  TypeInv /\ CountInv /\ RoomInv /\ GameInv /\ OneOpen /\ [Next]_vars => OneOpen'
<1> SUFFICES ASSUME TypeInv, CountInv, RoomInv, GameInv, OneOpen, [Next]_vars PROVE OneOpen'
  OBVIOUS
<1>0. TypeOK
  BY DEF TypeInv
<1>1. CASE Quiet
  BY <1>1 DEF Quiet, SameMatch, OneOpen, Opened
<1>2. ASSUME NEW p \in Objs, Leaving(p) PROVE OneOpen'
  BY <1>0, <1>2, RoomLeft DEF Leaving, OneOpen, Opened
<1>3. ASSUME NEW z \in Zones, NEW m \in Matches, NEW o \in Objs, NEW i \in Seats \cup {None},
             Entering(z, m, o, i)
      PROVE  OneOpen'
  <2>1. \A n \in Matches : n # m => zone_match_list'[n] = zone_match_list[n]
    BY <1>0, <1>3, EnterGame
  <2>2. CASE m = sg_matchid
    <3>1. Gathering(z) = {} /\ sg_matchid' = m + 1
      BY <1>3, <2>2 DEF Entering
    <3>2. \A n \in Opened : zone_match_list[n].state # InView
      BY <1>0, <3>1, AllVisited DEF Gathering
    <3>3. \A n \in Opened' : n = m \/ n \in Opened
      BY <1>0, <2>2, <3>1 DEF Opened, TypeOK, Matches
    <3> QED BY <2>1, <3>2, <3>3 DEF OneOpen, Opened
  <2>3. CASE m # sg_matchid
    <3>1. m \in Opened /\ Opened' = Opened /\ zone_match_list[m].state = InView
      BY <1>3, <2>3 DEF Entering, Opened
    <3> QED BY <2>1, <3>1 DEF OneOpen, Opened
  <2> QED BY <2>2, <2>3
<1> QED BY <1>1, <1>2, <1>3, NextKinds

\* With one zone, players gather in one room at a time, whoever comes and goes:
\* search_inview_match_mgr opens a room only when none gathers.  With two zones it does
\* not hold (run two_zones).
THEOREM GathersInOneRoom ==
  ASSUME \A y, z \in Zones : y = z
  PROVE  Spec => []OneGatheringRoom
<1>1. Init => OneOpen
  BY DEF Init, OneOpen, Opened, Matches
<1>2. OneOpen => OneGatheringRoom
  BY DEF OneOpen, OneGatheringRoom
<1>3. TypeInv /\ CountInv /\ RoomInv /\ GameInv /\ OneOpen /\ [Next]_vars => OneOpen'
  BY OneOpenStep
<1> QED BY <1>1, <1>2, <1>3, GameAlways, PTL DEF Spec

\* The games game_maching_list leads to run, and its accounts' objects play in them.
LEMMA MachingObjects ==
  ASSUME TypeOK, RoomInv, GameInv, NEW u \in Uids, game_maching_list[u] # NoPlayer
  PROVE  LET p == game_maching_list[u] IN
         /\ p \in Objs /\ Uid(p) = u /\ player[p].state = Playing
         /\ player[p].matchid \in Matches /\ player[p].room = player[p].matchid
         /\ zone_match_list[player[p].matchid].state = Playing
         /\ player[p].matchid \in Opened /\ player[p].zid \in Zones
<1> DEFINE p == game_maching_list[u]
<1>1. p \in Objs /\ Uid(p) = u /\ player[p].state = Playing
  BY DEF TypeOK, PlayerOrNil, RoomInv, OwnObjects, GameInv, MachingPlays
<1>2. player[p].room = player[p].matchid
  BY <1>1, ConstantFacts DEF GameInv, InGame
<1>3. player[p].matchid \in Matches /\ zone_match_list[player[p].matchid].state = Playing
  BY <1>1 DEF RoomInv, Placed
<1>4. player[p].zid \in Zones
  <2>1. player[p].zid # None
    BY <1>1 DEF RoomInv, ZoneFirst, InView, Playing
  <2>2. player[p] \in PlayerRec
    BY <1>1 DEF TypeOK
  <2> QED BY <2>1, <2>2 DEF PlayerRec
<1>5. player[p].matchid \in Opened
  <2> DEFINE n == player[p].matchid
  <2>1. zone_match_list[n].state # InView /\ n \in Nat /\ sg_matchid \in Nat
    BY <1>3 DEF InView, Playing, TypeOK, Matches
  <2>2. ~(n >= sg_matchid)
    BY <1>3, <2>1 DEF RoomInv, StillGathering
  <2> HIDE DEF n
  <2>3. n < sg_matchid
    BY <2>1, <2>2
  <2> QED BY <1>3, <2>3 DEF Opened, n
<1> QED BY <1>1, <1>2, <1>3, <1>4, <1>5

\* With one zone, an account that was in a game and comes back finds its own object and a
\* room that plays and that re_enter_match finds, for any number of accounts and rooms.
THEOREM ReturnsToAGame ==
  ASSUME \A y, z \in Zones : y = z
  PROVE  Spec => []MachingIsPlaying
<1>1. ASSUME TypeInv, RoomInv, GameInv PROVE MachingIsPlaying
  <2> SUFFICES ASSUME NEW u \in Uids, game_maching_list[u] # NoPlayer
               PROVE  LET p == game_maching_list[u] IN
                      Uid(p) = u /\ CanReEnter(p) /\ player[p].room = player[p].matchid
    BY DEF MachingIsPlaying
  <2> DEFINE p == game_maching_list[u]
  <2>1. /\ p \in Objs /\ Uid(p) = u /\ player[p].state = Playing
        /\ player[p].room = player[p].matchid
        /\ zone_match_list[player[p].matchid].state = Playing
        /\ player[p].matchid \in Opened /\ player[p].zid \in Zones
    BY <1>1, MachingObjects DEF TypeInv
  <2>2. Visited(player[p].zid) = Opened
    BY <1>1, <2>1, AllVisited DEF TypeInv
  <2> QED BY <2>1, <2>2, ConstantFacts DEF CanReEnter
<1> QED BY <1>1, GameAlways, PTL

-----------------------------------------------------------------------------
(* Sessions *)

\* A login in flight has its session already, so that it is reachable when it completes.
LoadingSession == \A u \in Uids : loading[u].obj # NoPlayer => player[loading[u].obj].session
SessionInv == LoadingSession /\ OnlineReachable

LEMMA SessionInit == Init => SessionInv
BY DEF Init, SessionInv, LoadingSession, OnlineReachable, NoLoad

\* What concerns no connection and no login leaves the sessions alone.
SameSessions ==
  /\ \A o \in Objs : player'[o].session = player[o].session
  /\ UNCHANGED <<gateway, logic_server_players, loading>>

LEMMA EnterSession ==
  ASSUME TypeOK, NEW z \in Zones \cup {None}, NEW m \in Matches, NEW o \in Objs,
         NEW i \in Seats \cup {None}, enter_player(z, m, o, i)
  PROVE  \A p \in Objs : player'[p].session = player[p].session
<1> DEFINE seats == [k \in Seats |-> IF k = i THEN o ELSE zone_match_list[m].seats[k]]
           starts == zone_match_list[m].member + 1 = 2 * PLAYER_NUM /\ player[o].uinfo
           plays == starts /\ \A k \in Seats : seats[k] # NoPlayer
           reached(p) == \E k \in Seats : seats[k] = p /\ \A j \in 1 .. k : seats[j] # NoPlayer
           state == IF plays THEN Playing ELSE IF starts THEN Ready ELSE InView
           entered == [player EXCEPT ![o] = [@ EXCEPT !.matchid = m, !.zid = z, !.seatid = i]]
<1>1. player' = [p \in Objs |->
          IF starts /\ reached(p)
          THEN [entered[p] EXCEPT !.state = state,
                                  !.room = IF plays /\ ~IsRobot(p) THEN m ELSE @]
          ELSE entered[p]]
  BY DEF enter_player
<1>2. \A p \in Objs : entered[p] \in PlayerRec /\ entered[p].session = player[p].session
  <2>1. /\ player[o] \in PlayerRec
        /\ entered[o] = [player[o] EXCEPT !.matchid = m, !.zid = z, !.seatid = i]
    BY DEF TypeOK
  <2>2. \A p \in Objs : p # o => entered[p] = player[p] /\ player[p] \in PlayerRec
    BY DEF TypeOK
  <2> HIDE DEF entered
  <2>3. entered[o] \in PlayerRec /\ entered[o].session = player[o].session
    BY <2>1 DEF PlayerRec
  <2> QED BY <2>2, <2>3
<1> HIDE DEF starts, plays, reached, state, entered
<1> QED BY <1>1, <1>2 DEF PlayerRec

LEMMA SameSessionSteps ==
  ASSUME TypeInv, RoomInv
  PROVE  /\ \A u \in Uids, z \in Zones : enter_zone(u, z) => SameSessions
         /\ \A u \in Uids, z \in Zones : MatchWaiter(z, u) => SameSessions
         /\ \A m \in Matches : PushRobot(m) => SameSessions
         /\ \A u \in Uids : do_exit_match(u) => SameSessions
         /\ \A r \in Robots : RobotInfo(r) => SameSessions
         /\ do_new_robot_players => SameSessions
<1>0. TypeOK /\ \A o \in Objs : player[o] \in PlayerRec
  BY DEF TypeInv, TypeOK
<1>1. ASSUME NEW u \in Uids, NEW z \in Zones, enter_zone(u, z) PROVE SameSessions
  <2>1. /\ logic_server_players[u] \in Objs
        /\ player' = [player EXCEPT ![logic_server_players[u]].zid = z]
        /\ UNCHANGED <<gateway, logic_server_players, loading>>
    BY <1>0, <1>1 DEF enter_zone, TypeOK, PlayerOrNil
  <2> QED BY <1>0, <2>1 DEF SameSessions, TypeOK, PlayerRec
<1>2. ASSUME NEW u \in Uids, NEW z \in Zones, MatchWaiter(z, u) PROVE SameSessions
  <2> DEFINE p == zone_wait_list[z][u]
  <2>1. p \in Objs /\ UNCHANGED <<gateway, logic_server_players, loading>>
    BY <1>0, <1>2 DEF MatchWaiter, TypeInv, SweptWait, TypeOK, PlayerOrNil
  <2>2. \/ player' = player
        \/ \E m \in Matches, i \in Seats \cup {None} : enter_player(z, m, p, i)
    BY <1>2 DEF MatchWaiter
  <2> QED BY <1>0, <2>1, <2>2, EnterSession DEF SameSessions
<1>3. ASSUME NEW m \in Matches, PushRobot(m) PROVE SameSessions
  <2> DEFINE z == zone_match_list[m].zid
  <2>1. z \in Zones \cup {None} /\ search_idle_robot(z) \subseteq Objs
    <3>1. zone_match_list[m] \in MatchRec
      BY <1>0 DEF TypeOK
    <3> QED BY <3>1, ConstantFacts DEF MatchRec, search_idle_robot
  <2>2. /\ UNCHANGED <<gateway, logic_server_players, loading>>
        /\ \/ player' = player
           \/ \E o \in search_idle_robot(z), i \in Seats \cup {None} : enter_player(z, m, o, i)
    BY <1>3 DEF PushRobot
  <2> QED BY <1>0, <2>1, <2>2, EnterSession DEF SameSessions
<1>4. ASSUME NEW u \in Uids, do_exit_match(u) PROVE SameSessions
  <2>1. /\ logic_server_players[u] \in Objs
        /\ player' = [player EXCEPT ![logic_server_players[u]] = ClearMatchData(@)]
        /\ UNCHANGED <<gateway, logic_server_players, loading>>
    BY <1>0, <1>4 DEF do_exit_match, TypeOK, PlayerOrNil
  <2> QED BY <1>0, <2>1 DEF SameSessions, TypeOK, PlayerRec, ClearMatchData
<1>5. ASSUME NEW r \in Robots, RobotInfo(r) PROVE SameSessions
  BY <1>0, <1>5, ConstantFacts DEF RobotInfo, SameSessions, TypeOK, PlayerRec
<1>6. ASSUME do_new_robot_players PROVE SameSessions
  BY <1>0, <1>6 DEF do_new_robot_players, SameSessions, TypeOK, PlayerRec
<1> QED BY <1>1, <1>2, <1>3, <1>4, <1>5, <1>6

LEMMA SessionStep == TypeInv /\ CountInv /\ RoomInv /\ SessionInv /\ [Next]_vars => SessionInv'
<1> SUFFICES ASSUME TypeInv, CountInv, RoomInv, SessionInv, [Next]_vars PROVE SessionInv'
  OBVIOUS
<1>0. TypeOK /\ \A o \in Objs : player[o] \in PlayerRec
  BY DEF TypeInv, TypeOK
\* The objects online and those being loaded, each of its own account.
<1>objs. \A u \in Uids :
         /\ logic_server_players[u] \in Objs \/ logic_server_players[u] = NoPlayer
         /\ loading[u].obj \in Objs \/ loading[u].obj = NoPlayer
  BY <1>0 DEF TypeOK, PlayerOrNil
<1>own. \A u \in Uids :
         /\ logic_server_players[u] # NoPlayer => Uid(logic_server_players[u]) = u
         /\ loading[u].obj # NoPlayer => Uid(loading[u].obj) = u /\ logic_server_players[u] = NoPlayer
  BY DEF RoomInv, OwnObjects, CountInv, LoadInv
<1>loads. \A u \in Uids : loading[u].obj # NoPlayer => player[loading[u].obj].session
  BY DEF SessionInv, LoadingSession
<1>reach. gateway =>
            \A u \in Uids : logic_server_players[u] # NoPlayer =>
                             player[logic_server_players[u]].session
  BY DEF SessionInv, OnlineReachable
<1>sets. ASSUME NEW o \in Objs, NEW b \in BOOLEAN, player' = [player EXCEPT ![o].session = b]
      PROVE  /\ player'[o].session = b
              /\ \A p \in Objs : p # o => player'[p].session = player[p].session
  BY <1>0, <1>sets DEF TypeOK, PlayerRec
<1>1. CASE on_gateway_connect \/ on_gateway_disconnect
  <2>1. /\ UNCHANGED <<logic_server_players, loading>>
        /\ \/ on_gateway_connect /\ set_sessions(TRUE)
           \/ gateway' = FALSE /\ set_sessions(FALSE)
    BY <1>1 DEF on_gateway_connect, on_gateway_disconnect
  <2>2. ASSUME NEW b \in BOOLEAN, set_sessions(b)
        PROVE  \A o \in Objs : player'[o].session = IF Online(o) THEN b ELSE player[o].session
    BY <1>0, <2>2 DEF set_sessions, PlayerRec
  <2>3. \A u \in Uids : loading[u].obj # NoPlayer => ~Online(loading[u].obj)
    BY <1>own, <1>objs, ConstantFacts DEF Online
  <2>4. \A u \in Uids : logic_server_players[u] # NoPlayer => Online(logic_server_players[u])
    BY DEF Online
  <2> QED BY <1>objs, <1>loads, <2>1, <2>2, <2>3, <2>4 DEF SessionInv, LoadingSession, OnlineReachable
<1>2. ASSUME NEW u \in Uids, login_logic_server(u) PROVE SessionInv'
  <2>1. UNCHANGED <<gateway, logic_server_players>> /\ gateway
    BY <1>2 DEF login_logic_server, Request
  <2>2. CASE LoginOnline(u)
    <3>1. /\ logic_server_players[u] \in Objs /\ UNCHANGED loading
          /\ player' = [player EXCEPT ![logic_server_players[u]].session = TRUE]
      BY <1>objs, <2>2 DEF LoginOnline
    <3>2. \A p \in Objs : player[p].session => player'[p].session
      BY <1>sets, <3>1
    <3> QED
      BY <1>objs, <1>loads, <1>reach, <2>1, <3>1, <3>2
      DEF SessionInv, LoadingSession, OnlineReachable
  <2>3. ASSUME NEW o \in Objs, player' = [player EXCEPT ![o].session = TRUE], loading'[u].obj = o,
               \A v \in Uids \ {u} : loading'[v] = loading[v]
        PROVE  SessionInv'
    <3>1. player'[o].session /\ \A p \in Objs : player[p].session => player'[p].session
      BY <1>sets, <2>3
    <3> QED
      BY <1>objs, <1>loads, <1>reach, <2>1, <2>3, <3>1
      DEF SessionInv, LoadingSession, OnlineReachable
  <2>4. CASE LoginReconnect(u)
    <3>1. game_maching_list[u] \in Objs
      BY <1>0, <2>4 DEF LoginReconnect, TypeOK, PlayerOrNil
    <3> QED BY <1>0, <2>3, <2>4, <3>1 DEF LoginReconnect, TypeOK
  <2>5. CASE LoginNew(u)
    <3>1. <<u, made[u] + 1>> \in Objs
      BY <1>0, <2>5, ConstantsOK DEF LoginNew, TypeOK, Objs
    <3> QED BY <1>0, <2>3, <2>5, <3>1 DEF LoginNew, TypeOK
  <2> QED BY <1>2, <2>2, <2>4, <2>5 DEF login_logic_server
<1>3. ASSUME NEW u \in Uids, LoginLoaded(u) PROVE SessionInv'
  <2>1. /\ loading[u].obj \in Objs /\ player[loading[u].obj].session
        /\ player' = [player EXCEPT ![loading[u].obj].uinfo = TRUE]
        /\ logic_server_players' = [logic_server_players EXCEPT ![u] = loading[u].obj]
        /\ loading' = [loading EXCEPT ![u] = NoLoad] /\ gateway' = gateway
    BY <1>3, <1>objs, <1>loads DEF LoginLoaded, set_online
  <2>2. \A p \in Objs : player'[p].session = player[p].session
    BY <1>0, <2>1 DEF TypeOK, PlayerRec
  <2>3. LoadingSession'
    BY <1>0, <1>objs, <1>loads, <2>1, <2>2 DEF LoadingSession, TypeOK, NoLoad
  <2>4. OnlineReachable'
    BY <1>0, <1>objs, <1>reach, <2>1, <2>2 DEF OnlineReachable, TypeOK
  <2> QED BY <2>3, <2>4 DEF SessionInv
<1>4. ASSUME NEW u \in Uids, LoginFailed(u) \/ LoginNoReply(u) PROVE SessionInv'
  <2>1. /\ UNCHANGED <<gateway, player, logic_server_players>>
        /\ loading' = [loading EXCEPT ![u] = NoLoad]
    BY <1>4 DEF LoginFailed, LoginNoReply
  <2> QED BY <1>0, <2>1 DEF SessionInv, LoadingSession, OnlineReachable, TypeOK, NoLoad
<1>5. ASSUME NEW u \in Uids, on_player_disconnect(u) PROVE SessionInv'
  <2>1. /\ logic_server_players[u] \in Objs
        /\ player' = [player EXCEPT ![logic_server_players[u]].session = FALSE]
        /\ logic_server_players' = [logic_server_players EXCEPT ![u] = NoPlayer]
        /\ UNCHANGED <<gateway, loading>>
    BY <1>5, <1>objs DEF on_player_disconnect
  <2>2. \A p \in Objs : p # logic_server_players[u] => player'[p].session = player[p].session
    BY <1>sets, <2>1
  <2>3. \A v \in Uids : loading[v].obj # NoPlayer => loading[v].obj # logic_server_players[u]
    BY <1>own, <2>1, ConstantFacts
  <2>4. \A v \in Uids : v # u /\ logic_server_players[v] # NoPlayer =>
                        logic_server_players[v] # logic_server_players[u]
    BY <1>own, <2>1, ConstantFacts
  <2>5. LoadingSession'
    BY <1>objs, <1>loads, <2>1, <2>2, <2>3 DEF LoadingSession
  <2>6. OnlineReachable'
    BY <1>0, <1>objs, <1>reach, <2>1, <2>2, <2>4 DEF OnlineReachable, TypeOK
  <2> QED BY <2>5, <2>6 DEF SessionInv
<1>6. CASE SameSessions
  BY <1>6, <1>objs DEF SameSessions, SessionInv, LoadingSession, OnlineReachable
<1>7. /\ redis_connect_to_center \/ do_match_players \/ do_push_robot_to_match => SameSessions
      /\ \A o \in Objs : ReseatTimer(o) => SameSessions
      /\ UNCHANGED vars => SameSessions
  BY DEF redis_connect_to_center, do_match_players, do_push_robot_to_match, ReseatTimer, vars,
         SameSessions
<1> QED BY <1>1, <1>2, <1>3, <1>4, <1>5, <1>6, <1>7, SameSessionSteps DEF Next, TimerLoop

\* While the gateway is connected every online player has a session, also who logged in
\* while the gateway went and came back: on_gateway_connect gives the sessions of the
\* online players (game_mgr.lua), login_logic_server that of an account being loaded.
THEOREM OnlineAreReachable == Spec => []OnlineReachable
<1>1. SessionInv => OnlineReachable
  BY DEF SessionInv
<1> QED BY <1>1, TypeInit, TypeStep, CountInit, CountStep, RoomInit, RoomStep, SessionInit,
           SessionStep, PTL DEF Spec
=============================================================================
