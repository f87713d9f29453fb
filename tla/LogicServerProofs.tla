-------------------------- MODULE LogicServerProofs --------------------------
(***************************************************************************)
(* Proofs about LogicServer, for any accounts, robots, zones, side size and *)
(* bounds.                                                                 *)
(***************************************************************************)
EXTENDS LogicServer, FiniteSetTheorems, TLAPS

-----------------------------------------------------------------------------
(* Types *)

LEMMA ConstantFacts ==
  /\ None \notin Zones /\ None \notin Matches /\ None \notin Seats
  /\ NoPlayer \notin Objs
  /\ \A o \in Objs : IsRobot(o) => RobotZone[Uid(o)] \in Zones
  /\ \A o \in Objs : Uid(o) \in Uids => ~IsRobot(o)
  /\ \A r \in Robots : <<r, 1>> \in Objs
BY ConstantsOK DEF None, Matches, Seats, Objs, IsRobot, Uid

LEMMA FreshTypes == FreshPlayer \in PlayerRec /\ FreshMatch \in MatchRec
BY DEF FreshPlayer, PlayerRec, FreshMatch, MatchRec, InView, PlayerOrNil

LEMMA RecordUpdates ==
  ASSUME NEW r \in PlayerRec
  PROVE  /\ \A b \in BOOLEAN : [r EXCEPT !.session = b] \in PlayerRec
         /\ \A z \in Zones : [r EXCEPT !.zid = z] \in PlayerRec
         /\ [r EXCEPT !.uinfo = TRUE] \in PlayerRec
         /\ ClearMatchData(r) \in PlayerRec
BY DEF PlayerRec, ClearMatchData

LEMMA RoomUpdates ==
  ASSUME NEW r \in MatchRec
  PROVE  /\ [r EXCEPT !.member = @ + 1] \in MatchRec
         /\ \A z \in Zones : [r EXCEPT !.zid = z] \in MatchRec
         /\ \A seats \in [Seats -> PlayerOrNil] :
              [r EXCEPT !.member = @ - 1, !.seats = seats] \in MatchRec
         /\ \A o \in Objs : \A i : [r EXCEPT !.seats[i] = o] \in MatchRec
<1>1. r.member + 1 \in Int /\ r.member - 1 \in Int /\ r.seats \in [Seats -> PlayerOrNil]
  BY DEF MatchRec
<1>2. \A o \in Objs : \A i : [r.seats EXCEPT ![i] = o] \in [Seats -> PlayerOrNil]
  BY <1>1 DEF PlayerOrNil
<1> QED BY <1>1, <1>2 DEF MatchRec

\* A room whose count changes keeps its state and its seats.
LEMMA CountOnly ==
  ASSUME zone_match_list \in [Matches -> MatchRec], NEW n \in Matches,
         zone_match_list' = [zone_match_list EXCEPT ![n].member = @ + 1]
  PROVE  \A m \in Matches : /\ zone_match_list'[m].state = zone_match_list[m].state
                             /\ zone_match_list'[m].seats = zone_match_list[m].seats
<1> DEFINE room == zone_match_list[n]
<1>1. zone_match_list'[n] = [room EXCEPT !.member = @ + 1]
  OBVIOUS
<1>2. room \in MatchRec
  OBVIOUS
<1> HIDE DEF room
<1>3. /\ [room EXCEPT !.member = @ + 1].state = room.state
      /\ [room EXCEPT !.member = @ + 1].seats = room.seats
  BY <1>2 DEF MatchRec
<1>4. \A m \in Matches : m # n => zone_match_list'[m] = zone_match_list[m]
  OBVIOUS
<1> QED BY <1>1, <1>3, <1>4 DEF room

\* exit_player empties one seat of one room and leaves the states alone.
LEMMA SeatLeft ==
  ASSUME zone_match_list \in [Matches -> MatchRec], NEW n \in Matches, NEW p, exit_player(n, p)
  PROVE  \A m \in Matches :
           /\ zone_match_list'[m].state = zone_match_list[m].state
           /\ \A i \in Seats : zone_match_list'[m].seats[i] =
                 IF m = n /\ i = player[p].seatid THEN NoPlayer ELSE zone_match_list[m].seats[i]
<1> DEFINE room == zone_match_list[n]
           left == [i \in Seats |-> IF i = player[p].seatid THEN NoPlayer ELSE room.seats[i]]
<1>1. room \in MatchRec
  OBVIOUS
<1>2. zone_match_list' = [zone_match_list EXCEPT ![n] =
                            [room EXCEPT !.member = room.member - 1, !.seats = left]]
  BY DEF exit_player
<1>3. zone_match_list'[n].state = room.state /\ zone_match_list'[n].seats = left
  <2> HIDE DEF left
  <2> QED BY <1>1, <1>2 DEF MatchRec
<1>4. \A m \in Matches : m # n => zone_match_list'[m] = zone_match_list[m]
  BY <1>2
<1> QED BY <1>3, <1>4

\* The fields game_start sets.
LEMMA Started ==
  ASSUME NEW r \in PlayerRec, NEW s \in {InView, Ready, Playing}, NEW n \in Matches,
         NEW b \in BOOLEAN
  PROVE  [r EXCEPT !.state = s, !.room = IF b THEN n ELSE @] \in PlayerRec
BY DEF PlayerRec

\* The iterations do_match_players has still to do are of players who wait: the types
\* rest on it, since an iteration reads the waiting player.
SweptWait == \A z \in Zones, u \in Uids :
  <<z, u>> \in match_sweep => zone_wait_list[z][u] # NoPlayer

TypeInv == TypeOK /\ SweptWait

LEMMA TypeInit == Init => TypeInv
<1> SUFFICES ASSUME Init PROVE TypeInv
  OBVIOUS
<1>1. player \in [Objs -> PlayerRec] /\ zone_match_list \in [Matches -> MatchRec]
  BY FreshTypes DEF Init
<1>2. made \in [Uids -> 0 .. MaxLogins] /\ sg_matchid \in 1 .. MaxMatch + 1
  BY ConstantsOK DEF Init
<1>3. loading \in [Uids -> [obj : PlayerOrNil, again : BOOLEAN]]
  BY DEF Init, NoLoad, PlayerOrNil
<1>4. SweptWait
  BY DEF Init, SweptWait
<1>5. /\ logic_server_players \in [Uids -> PlayerOrNil]
      /\ game_maching_list \in [Uids -> PlayerOrNil]
      /\ zone_wait_list \in [Zones -> [Uids -> PlayerOrNil]]
  BY DEF Init, PlayerOrNil
<1>6. reseat_timers \in [Objs -> Nat] /\ online_player_num \in Int
  BY DEF Init
<1> QED BY <1>1, <1>2, <1>3, <1>4, <1>5, <1>6 DEF Init, TypeInv, TypeOK

\* Entering a room keeps the types, whether or not the game starts.
LEMMA EnterTypes ==
  ASSUME TypeOK, NEW z \in Zones \cup {None}, NEW m \in Matches, NEW o \in Objs,
         NEW i \in Seats \cup {None}, enter_player(z, m, o, i)
  PROVE  /\ player' \in [Objs -> PlayerRec]
         /\ zone_match_list' \in [Matches -> MatchRec]
         /\ game_maching_list' \in [Uids -> PlayerOrNil]
<1> DEFINE seats == [k \in Seats |-> IF k = i THEN o ELSE zone_match_list[m].seats[k]]
           starts == zone_match_list[m].member + 1 = 2 * PLAYER_NUM /\ player[o].uinfo
           plays == starts /\ \A k \in Seats : seats[k] # NoPlayer
           reached(p) == \E k \in Seats : seats[k] = p /\ \A j \in 1 .. k : seats[j] # NoPlayer
           state == IF plays THEN Playing ELSE IF starts THEN Ready ELSE InView
           entered == [player EXCEPT ![o] = [@ EXCEPT !.matchid = m, !.zid = z, !.seatid = i]]
<1>1. zone_match_list[m] \in MatchRec /\ player \in [Objs -> PlayerRec]
  BY DEF TypeOK
<1>2. state \in {InView, Ready, Playing}
  OBVIOUS
<1>3. seats \in [Seats -> PlayerOrNil]
  BY <1>1 DEF MatchRec, PlayerOrNil
<1>4. entered \in [Objs -> PlayerRec]
  BY <1>1 DEF PlayerRec
<1>5. player' = [p \in Objs |->
          IF starts /\ reached(p)
          THEN [entered[p] EXCEPT !.state = state,
                                  !.room = IF plays /\ ~IsRobot(p) THEN m ELSE @]
          ELSE entered[p]]
  BY DEF enter_player
<1>6. zone_match_list' = [zone_match_list EXCEPT ![m] =
          [zid |-> z, state |-> state, member |-> @.member + 1, seats |-> seats]]
  BY DEF enter_player
<1>7. game_maching_list' \in [Uids -> PlayerOrNil]
  BY DEF enter_player, TypeOK
<1> HIDE DEF seats, starts, plays, reached, state, entered
<1>8. player' \in [Objs -> PlayerRec]
  <2>1. ASSUME NEW p \in Objs
        PROVE  [entered[p] EXCEPT !.state = state,
                                  !.room = IF plays /\ ~IsRobot(p) THEN m ELSE @] \in PlayerRec
    <3>1. entered[p] \in PlayerRec
      BY <1>4
    <3>2. CASE plays /\ ~IsRobot(p)
      BY <1>2, <3>1, <3>2, Started
    <3>3. CASE ~(plays /\ ~IsRobot(p))
      BY <1>2, <3>1, <3>3, Started
    <3> QED BY <3>2, <3>3
  <2> QED BY <1>4, <1>5, <2>1
<1>9. zone_match_list' \in [Matches -> MatchRec]
  BY <1>1, <1>2, <1>3, <1>6 DEF TypeOK, MatchRec
<1> QED BY <1>7, <1>8, <1>9

\* So does leaving one.
LEMMA ExitTypes ==
  ASSUME TypeOK, NEW m, NEW o, exit_player(m, o)
  PROVE  zone_match_list' \in [Matches -> MatchRec]
<1> DEFINE r == zone_match_list[m]
           seats == [i \in Seats |-> IF i = player[o].seatid THEN NoPlayer ELSE r.seats[i]]
           out == [r EXCEPT !.member = r.member - 1, !.seats = seats]
<1>1. zone_match_list' = [zone_match_list EXCEPT ![m] = out]
  BY DEF exit_player
<1>2. m \in Matches => out \in MatchRec
  <2>1. m \in Matches => r \in MatchRec
    BY DEF TypeOK
  <2>2. m \in Matches => seats \in [Seats -> PlayerOrNil]
    BY <2>1 DEF MatchRec, PlayerOrNil
  <2> HIDE DEF seats, r
  <2> QED BY <2>1, <2>2, RoomUpdates
<1> HIDE DEF out
<1> QED BY <1>1, <1>2 DEF TypeOK

LEMMA TypeStep == TypeInv /\ [Next]_vars => TypeInv'
<1> SUFFICES ASSUME TypeInv, [Next]_vars PROVE TypeInv'
  OBVIOUS
<1> USE DEF TypeInv
<1>1. CASE on_gateway_connect \/ on_gateway_disconnect
  <2>1. player' \in [Objs -> PlayerRec]
    <3>1. CASE set_sessions(TRUE)
      BY <3>1, RecordUpdates DEF set_sessions, TypeOK
    <3>2. CASE set_sessions(FALSE)
      BY <3>2, RecordUpdates DEF set_sessions, TypeOK
    <3> QED BY <1>1, <3>1, <3>2 DEF on_gateway_connect, on_gateway_disconnect
  <2> QED BY <1>1, <2>1
          DEF on_gateway_connect, on_gateway_disconnect, TypeOK, SweptWait, timerVars
<1>2. CASE redis_connect_to_center
  BY <1>2 DEF redis_connect_to_center, TypeOK, SweptWait, timerVars
<1>3. ASSUME NEW u \in Uids, login_logic_server(u) PROVE TypeInv'
  <2>1. CASE LoginOnline(u)
    <3>1. player' \in [Objs -> PlayerRec]
      BY <2>1, RecordUpdates DEF LoginOnline, TypeOK
    <3> QED BY <1>3, <2>1, <3>1 DEF login_logic_server, LoginOnline, TypeOK, SweptWait, timerVars
  <2>2. CASE LoginReconnect(u)
    <3>1. player' \in [Objs -> PlayerRec]
      BY <2>2, RecordUpdates DEF LoginReconnect, TypeOK
    <3>2. loading' \in [Uids -> [obj : PlayerOrNil, again : BOOLEAN]]
      BY <2>2 DEF LoginReconnect, TypeOK
    <3> QED BY <1>3, <2>2, <3>1, <3>2
            DEF login_logic_server, LoginReconnect, TypeOK, SweptWait, timerVars
  <2>3. CASE LoginNew(u)
    <3>1. made[u] + 1 \in 1 .. MaxLogins
      BY <2>3, ConstantsOK DEF LoginNew, TypeOK
    <3>2. <<u, made[u] + 1>> \in Objs
      BY <3>1 DEF Objs
    <3>3. player' \in [Objs -> PlayerRec]
      BY <2>3, RecordUpdates DEF LoginNew, TypeOK
    <3>4. loading' \in [Uids -> [obj : PlayerOrNil, again : BOOLEAN]]
      BY <2>3, <3>2 DEF LoginNew, TypeOK, PlayerOrNil
    <3>5. made' \in [Uids -> 0 .. MaxLogins]
      BY <2>3, <3>1, ConstantsOK DEF LoginNew, TypeOK
    <3> QED BY <1>3, <2>3, <3>3, <3>4, <3>5
            DEF login_logic_server, LoginNew, TypeOK, SweptWait, timerVars
  <2> QED BY <1>3, <2>1, <2>2, <2>3 DEF login_logic_server
<1>4. ASSUME NEW u \in Uids, LoginLoaded(u) PROVE TypeInv'
  <2> DEFINE o == loading[u].obj
  <2>1. o \in Objs
    BY <1>4 DEF LoginLoaded, TypeOK, PlayerOrNil
  <2>2. /\ zone_match_list' \in [Matches -> MatchRec]
        /\ game_maching_list' \in [Uids -> PlayerOrNil]
        /\ reseat_timers' \in [Objs -> Nat]
    <3>1. CASE re_enter_match(u, o) /\ CanReEnter(o)
      <4>1. zone_match_list' = [zone_match_list EXCEPT ![player[o].matchid].member = @ + 1]
        BY <3>1 DEF re_enter_match
      <4>2. \A m \in Matches : [zone_match_list[m] EXCEPT !.member = @ + 1] \in MatchRec
        BY RoomUpdates DEF TypeOK
      <4>3. zone_match_list' \in [Matches -> MatchRec]
        BY <4>1, <4>2 DEF TypeOK
      <4>4. /\ game_maching_list' = [game_maching_list EXCEPT ![u] = o]
            /\ reseat_timers' = [reseat_timers EXCEPT ![o] = @ + 1]
        BY <3>1 DEF re_enter_match
      <4> HIDE DEF o
      <4> QED BY <2>1, <4>3, <4>4 DEF TypeOK, PlayerOrNil
    <3>2. CASE UNCHANGED <<zone_match_list, game_maching_list, reseat_timers>>
      BY <3>2 DEF TypeOK
    <3> QED BY <1>4, <3>1, <3>2 DEF LoginLoaded, re_enter_match
  <2>3. player' \in [Objs -> PlayerRec]
    BY <1>4, RecordUpdates DEF LoginLoaded, TypeOK
  <2>4. loading' \in [Uids -> [obj : PlayerOrNil, again : BOOLEAN]]
    BY <1>4 DEF LoginLoaded, TypeOK, NoLoad, PlayerOrNil
  <2>5. /\ logic_server_players' \in [Uids -> PlayerOrNil]
        /\ online_player_num' \in Int
        /\ is_logining_list' \subseteq Uids
    BY <1>4, <2>1 DEF LoginLoaded, set_online, TypeOK, PlayerOrNil
  <2> QED BY <1>4, <2>2, <2>3, <2>4, <2>5 DEF LoginLoaded, TypeOK, SweptWait, timerVars
<1>5. ASSUME NEW u \in Uids, LoginFailed(u) \/ LoginNoReply(u) PROVE TypeInv'
  <2>1. loading' = [loading EXCEPT ![u] = NoLoad]
    BY <1>5 DEF LoginFailed, LoginNoReply
  <2>2. NoLoad \in [obj : PlayerOrNil, again : BOOLEAN]
    BY DEF NoLoad, PlayerOrNil
  <2>3. loading' \in [Uids -> [obj : PlayerOrNil, again : BOOLEAN]]
    BY <2>1, <2>2 DEF TypeOK
  <2> QED BY <1>5, <2>3 DEF LoginFailed, LoginNoReply, TypeOK, SweptWait, timerVars
<1>6. ASSUME NEW u \in Uids, NEW z \in Zones, enter_zone(u, z) PROVE TypeInv'
  <2>1. player' \in [Objs -> PlayerRec]
    BY <1>6, RecordUpdates DEF enter_zone, TypeOK
  <2>2. zone_wait_list' \in [Zones -> [Uids -> PlayerOrNil]]
    BY <1>6 DEF enter_zone, TypeOK
  <2> QED BY <1>6, <2>1, <2>2 DEF enter_zone, TypeOK, SweptWait, Request, Idle, timerVars
<1>7. CASE do_match_players
  BY <1>7 DEF do_match_players, Waiters, TypeOK, SweptWait
<1>8. CASE do_new_robot_players
  <2>1. player' \in [Objs -> PlayerRec]
    BY <1>8, ConstantFacts, RecordUpdates DEF do_new_robot_players, TypeOK
  <2> QED BY <1>8, <2>1 DEF do_new_robot_players, TypeOK, SweptWait, timerVars
<1>9. ASSUME NEW r \in Robots, RobotInfo(r) PROVE TypeInv'
  <2>1. player' \in [Objs -> PlayerRec]
    BY <1>9, RecordUpdates DEF RobotInfo, TypeOK
  <2> QED BY <1>9, <2>1 DEF RobotInfo, TypeOK, SweptWait, timerVars
<1>10. CASE do_push_robot_to_match
  BY <1>10 DEF do_push_robot_to_match, Opened, TypeOK, SweptWait
<1>11. ASSUME NEW z \in Zones, NEW u \in Uids, MatchWaiter(z, u) PROVE TypeInv'
  <2> DEFINE p == zone_wait_list[z][u]
  <2>1. p \in Objs
    BY <1>11 DEF MatchWaiter, TypeOK, SweptWait, PlayerOrNil
  <2>2. PICK m \in Matches :
          /\ sg_matchid' = IF m = sg_matchid THEN m + 1 ELSE sg_matchid
          /\ IF player[p].state = InView
             THEN /\ zone_wait_list' = [zone_wait_list EXCEPT ![z][u] = NoPlayer]
                  /\ \E i \in Seats \cup {None} : enter_player(z, m, p, i)
             ELSE /\ zone_match_list' = [zone_match_list EXCEPT ![m].zid = z]
                  /\ UNCHANGED <<zone_wait_list, player, game_maching_list>>
    BY <1>11 DEF MatchWaiter
  <2>3. sg_matchid' \in 1 .. MaxMatch + 1
    BY <2>2, ConstantsOK DEF TypeOK, Matches
  <2>4. /\ player' \in [Objs -> PlayerRec]
        /\ zone_match_list' \in [Matches -> MatchRec]
        /\ game_maching_list' \in [Uids -> PlayerOrNil]
    <3>1. CASE player[p].state = InView
      BY <2>1, <2>2, <3>1, EnterTypes
    <3>2. CASE player[p].state # InView
      <4>1. [zone_match_list[m] EXCEPT !.zid = z] \in MatchRec
        BY RoomUpdates DEF TypeOK
      <4> QED BY <2>2, <3>2, <4>1 DEF TypeOK
    <3> QED BY <3>1, <3>2
  <2>5. \/ zone_wait_list' = zone_wait_list
        \/ zone_wait_list' = [zone_wait_list EXCEPT ![z][u] = NoPlayer]
    BY <2>2
  <2>6. zone_wait_list' \in [Zones -> [Uids -> PlayerOrNil]]
    <3>1. [zone_wait_list[z] EXCEPT ![u] = NoPlayer] \in [Uids -> PlayerOrNil]
      BY DEF TypeOK, PlayerOrNil
    <3> QED BY <2>5, <3>1 DEF TypeOK
  <2>7. match_sweep' = match_sweep \ {<<z, u>>} /\ sweep_zone' = z
    BY <1>11 DEF MatchWaiter
  <2>8. SweptWait'
    BY <2>5, <2>7 DEF SweptWait, TypeOK
  <2> QED BY <1>11, <2>3, <2>4, <2>6, <2>7, <2>8 DEF MatchWaiter, TypeOK
<1>12. ASSUME NEW m \in Matches, PushRobot(m) PROVE TypeInv'
  <2> DEFINE z == zone_match_list[m].zid
  <2>1. z \in Zones \cup {None} /\ search_idle_robot(z) \subseteq Objs
    <3>1. zone_match_list[m] \in MatchRec
      BY DEF TypeOK
    <3> QED BY <3>1, ConstantFacts DEF MatchRec, search_idle_robot
  <2>2. /\ player' \in [Objs -> PlayerRec]
        /\ zone_match_list' \in [Matches -> MatchRec]
        /\ game_maching_list' \in [Uids -> PlayerOrNil]
    <3>1. CASE UNCHANGED <<zone_match_list, player, game_maching_list>>
      BY <3>1 DEF TypeOK
    <3>2. CASE \E o \in search_idle_robot(z), i \in Seats \cup {None} : enter_player(z, m, o, i)
      BY <2>1, <3>2, EnterTypes
    <3> QED BY <1>12, <3>1, <3>2 DEF PushRobot
  <2>3. push_sweep' \subseteq Matches
    BY <1>12 DEF PushRobot, TypeOK
  <2> QED BY <1>12, <2>2, <2>3 DEF PushRobot, TypeOK, SweptWait
<1>13. ASSUME NEW u \in Uids, do_exit_match(u) PROVE TypeInv'
  <2>1. player' \in [Objs -> PlayerRec]
    BY <1>13, RecordUpdates DEF do_exit_match, TypeOK
  <2>2. zone_match_list' \in [Matches -> MatchRec]
    BY <1>13, ExitTypes DEF do_exit_match
  <2> QED BY <1>13, <2>1, <2>2 DEF do_exit_match, TypeOK, SweptWait, timerVars
<1>14. ASSUME NEW u \in Uids, on_player_disconnect(u) PROVE TypeInv'
  <2>1. player' \in [Objs -> PlayerRec]
    BY <1>14, RecordUpdates DEF on_player_disconnect, TypeOK
  <2>2. zone_match_list' \in [Matches -> MatchRec]
    BY <1>14, ExitTypes DEF on_player_disconnect, TypeOK
  <2>3. /\ zone_wait_list' \in [Zones -> [Uids -> PlayerOrNil]]
        /\ logic_server_players' \in [Uids -> PlayerOrNil]
    BY <1>14 DEF on_player_disconnect, LeaveWaitList, TypeOK, PlayerOrNil
  <2>4. online_player_num' \in Int
    BY <1>14 DEF on_player_disconnect, TypeOK
  <2>5. SweptWait'
    BY <1>14 DEF on_player_disconnect, Request, Idle, SweptWait, timerVars
  <2> QED BY <1>14, <2>1, <2>2, <2>3, <2>4, <2>5 DEF on_player_disconnect, TypeOK, timerVars
<1>15. ASSUME NEW o \in Objs, ReseatTimer(o) PROVE TypeInv'
  <2>1. zone_match_list' \in [Matches -> MatchRec]
    <3> DEFINE n == player[o].matchid
               i == player[o].seatid
    <3>1. \A m \in Matches : [zone_match_list[m] EXCEPT !.seats[i] = o] \in MatchRec
      BY RoomUpdates DEF TypeOK
    <3>2. zone_match_list' = [zone_match_list EXCEPT ![n].seats[i] = o]
      BY <1>15 DEF ReseatTimer
    <3> QED BY <3>1, <3>2 DEF TypeOK
  <2>2. reseat_timers' \in [Objs -> Nat]
    BY <1>15 DEF ReseatTimer, TypeOK
  <2> QED BY <1>15, <2>1, <2>2 DEF ReseatTimer, TypeOK, SweptWait, timerVars
<1>16. CASE UNCHANGED vars
  BY <1>16 DEF vars, timerVars, TypeOK, SweptWait
<1> QED BY <1>1, <1>2, <1>3, <1>4, <1>5, <1>6, <1>7, <1>8, <1>9, <1>10, <1>11, <1>12,
           <1>13, <1>14, <1>15, <1>16 DEF Next, TimerLoop

\* Every variable keeps its type, with any number of accounts, robots, zones and seats.
THEOREM Types == Spec => []TypeOK
<1>1. TypeInv => TypeOK
  BY DEF TypeInv
<1> QED BY <1>1, TypeInit, TypeStep, PTL DEF Spec

-----------------------------------------------------------------------------
(* Online players are counted *)

OnlineUids == {u \in Uids : logic_server_players[u] # NoPlayer}

\* An account whose login is in flight is not online, and its requests are ignored.
LoadInv == \A u \in Uids : loading[u].obj # NoPlayer =>
  logic_server_players[u] = NoPlayer /\ u \in is_logining_list

CountInv == LoadInv /\ OnlineCount

LEMMA CountInit == Init => CountInv
<1> SUFFICES ASSUME Init PROVE CountInv
  OBVIOUS
<1>1. OnlineUids = {}
  BY DEF Init, OnlineUids
<1>2. online_player_num = Cardinality(OnlineUids)
  BY <1>1, FS_EmptySet DEF Init
<1> QED BY <1>2 DEF Init, NoLoad, CountInv, LoadInv, OnlineCount, OnlineUids

\* One account more, or one account less.
LEMMA Comes ==
  ASSUME NEW u \in Uids, u \notin OnlineUids, OnlineUids' = OnlineUids \cup {u},
         online_player_num = Cardinality(OnlineUids)
  PROVE  online_player_num + 1 = Cardinality(OnlineUids')
<1>1. IsFiniteSet(OnlineUids)
  BY ConstantsOK, FS_Subset DEF OnlineUids
<1> QED BY <1>1, FS_AddElement

LEMMA Goes ==
  ASSUME NEW u \in OnlineUids, OnlineUids' = OnlineUids \ {u},
         online_player_num = Cardinality(OnlineUids)
  PROVE  online_player_num - 1 = Cardinality(OnlineUids')
<1>1. IsFiniteSet(OnlineUids)
  BY ConstantsOK, FS_Subset DEF OnlineUids
<1> QED BY <1>1, FS_RemoveElement

LEMMA CountStep == TypeInv /\ CountInv /\ [Next]_vars => CountInv'
<1> SUFFICES ASSUME TypeInv, CountInv, [Next]_vars PROVE CountInv'
  OBVIOUS
<1> USE DEF CountInv
<1>0. TypeOK
  BY DEF TypeInv
<1>1. ASSUME NEW u \in Uids, login_logic_server(u) PROVE CountInv'
  <2>1. /\ UNCHANGED <<logic_server_players, online_player_num>>
        /\ is_logining_list' = is_logining_list \cup {u}
    BY <1>1 DEF login_logic_server
  <2>2. CASE LoginOnline(u)
    BY <2>1, <2>2 DEF LoginOnline, LoadInv, OnlineCount
  <2>3. CASE logic_server_players[u] = NoPlayer
             /\ \A v \in Uids \ {u} : loading'[v] = loading[v]
    BY <2>1, <2>3 DEF LoadInv, OnlineCount
  <2>4. LoginReconnect(u) \/ LoginNew(u) => logic_server_players[u] = NoPlayer
             /\ \A v \in Uids \ {u} : loading'[v] = loading[v]
    BY <1>0 DEF LoginReconnect, LoginNew, TypeOK
  <2> QED BY <1>1, <2>2, <2>3, <2>4 DEF login_logic_server
<1>2. ASSUME NEW u \in Uids, LoginLoaded(u) PROVE CountInv'
  <2> DEFINE o == loading[u].obj
  <2>1. /\ o # NoPlayer /\ logic_server_players[u] = NoPlayer
        /\ logic_server_players' = [logic_server_players EXCEPT ![u] = o]
        /\ online_player_num' = online_player_num + 1
        /\ loading' = [loading EXCEPT ![u] = NoLoad]
        /\ is_logining_list' = is_logining_list \ {u}
    BY <1>2 DEF LoginLoaded, set_online, LoadInv
  <2>2. OnlineUids' = OnlineUids \cup {u} /\ u \notin OnlineUids
    BY <1>0, <2>1 DEF OnlineUids, TypeOK
  <2>3. online_player_num' = Cardinality(OnlineUids')
    BY <2>1, <2>2, Comes DEF OnlineCount, OnlineUids
  <2>4. LoadInv'
    BY <1>0, <2>1 DEF LoadInv, TypeOK, NoLoad
  <2> QED BY <2>3, <2>4 DEF OnlineCount, OnlineUids
<1>3. ASSUME NEW u \in Uids, LoginFailed(u) \/ LoginNoReply(u) PROVE CountInv'
  <2>1. /\ UNCHANGED <<logic_server_players, online_player_num>>
        /\ loading' = [loading EXCEPT ![u] = NoLoad]
        /\ is_logining_list \ {u} \subseteq is_logining_list'
    BY <1>3 DEF LoginFailed, LoginNoReply
  <2> QED BY <1>0, <2>1 DEF LoadInv, OnlineCount, TypeOK, NoLoad
<1>4. ASSUME NEW u \in Uids, on_player_disconnect(u) PROVE CountInv'
  <2>1. /\ logic_server_players[u] # NoPlayer
        /\ logic_server_players' = [logic_server_players EXCEPT ![u] = NoPlayer]
        /\ online_player_num' = online_player_num - 1
        /\ UNCHANGED <<loading, is_logining_list>>
    BY <1>4 DEF on_player_disconnect
  <2>2. OnlineUids' = OnlineUids \ {u} /\ u \in OnlineUids
    BY <1>0, <2>1 DEF OnlineUids, TypeOK
  <2>3. online_player_num' = Cardinality(OnlineUids')
    BY <2>1, <2>2, Goes DEF OnlineCount, OnlineUids
  <2>4. LoadInv'
    BY <1>0, <2>1 DEF LoadInv, TypeOK
  <2> QED BY <2>3, <2>4 DEF OnlineCount, OnlineUids
<1> DEFINE same == UNCHANGED <<logic_server_players, online_player_num, loading, is_logining_list>>
<1>5. CASE same
  BY <1>5 DEF LoadInv, OnlineCount
<1>6. /\ on_gateway_connect \/ on_gateway_disconnect \/ redis_connect_to_center => same
      /\ \A u \in Uids, z \in Zones : enter_zone(u, z) => same
      /\ do_match_players \/ do_new_robot_players \/ do_push_robot_to_match => same
      /\ \A r \in Robots : RobotInfo(r) => same
  BY DEF on_gateway_connect, on_gateway_disconnect, redis_connect_to_center, enter_zone,
         do_match_players, do_new_robot_players, do_push_robot_to_match, RobotInfo
<1>7. /\ TimerLoop => same
      /\ \A u \in Uids : do_exit_match(u) => same
      /\ \A o \in Objs : ReseatTimer(o) => same
      /\ UNCHANGED vars => same
  BY DEF TimerLoop, MatchWaiter, PushRobot, do_exit_match, ReseatTimer, vars
<1> QED BY <1>1, <1>2, <1>3, <1>4, <1>5, <1>6, <1>7 DEF Next

\* online_player_num counts the online players for any number of accounts: login_logic_server
\* adds one only for an account that is not online, because is_logining_list refuses the
\* requests of an account whose load is in flight, and on_player_disconnect takes it away.
THEOREM CountsOnline == Spec => []OnlineCount
<1>1. CountInv => OnlineCount
  BY DEF CountInv
<1> QED BY <1>1, TypeInit, TypeStep, CountInit, CountStep, PTL DEF Spec

-----------------------------------------------------------------------------
(* Who waits, who sits, who plays *)

\* The objects an account leads to are its own, never a robot's.
OwnObjects == \A u \in Uids :
  /\ logic_server_players[u] # NoPlayer => Uid(logic_server_players[u]) = u
  /\ loading[u].obj # NoPlayer => Uid(loading[u].obj) = u
  /\ game_maching_list[u] # NoPlayer => Uid(game_maching_list[u]) = u

\* A player without a zone is in no room.
ZoneFirst == \A o \in Objs : player[o].zid = None =>
  player[o].matchid = None /\ player[o].state = InView

\* A player of a running game has a seat of a running room.
Placed == \A o \in Objs : player[o].state = Playing =>
  /\ player[o].matchid \in Matches /\ player[o].seatid \in Seats
  /\ zone_match_list[player[o].matchid].state = Playing

\* A seat is only given back to a player of a running game.
Reseated == \A o \in Objs : reseat_timers[o] > 0 => player[o].state = Playing

\* Rooms that are not open yet, and rooms robots are about to be pushed to, gather.
StillGathering == \A m \in Matches :
  /\ m >= sg_matchid => zone_match_list[m].state = InView
  /\ m \in push_sweep => zone_match_list[m].state = InView /\ m < sg_matchid
OneLoop == match_sweep = {} \/ push_sweep = {}

RoomInv == /\ OwnObjects /\ ZoneFirst /\ Placed /\ Reseated /\ StillGathering /\ OneLoop
           /\ WaitersOnline /\ SeatsAgree

LEMMA RoomInit == Init => RoomInv
<1> SUFFICES ASSUME Init PROVE RoomInv
  OBVIOUS
<1>1. OwnObjects /\ ZoneFirst /\ Placed
  BY DEF Init, OwnObjects, ZoneFirst, Placed, NoLoad, FreshPlayer, InView, Playing
<1>2. Reseated /\ StillGathering /\ OneLoop
  BY DEF Init, Reseated, StillGathering, OneLoop, FreshMatch
<1>3. WaitersOnline /\ SeatsAgree
  BY DEF Init, WaitersOnline, SeatsAgree, FreshMatch
<1> QED BY <1>1, <1>2, <1>3 DEF RoomInv

\* A player object who is in no room enters one that gathers: what changes.
LEMMA Enter ==
  ASSUME TypeOK, RoomInv, NEW z \in Zones, NEW m \in Matches, NEW o \in Objs,
         NEW i \in Seats \cup {None}, player[o].matchid = None, player[o].state = InView,
         zone_match_list[m].state = InView,
         screenplayer(m, o, i), enter_player(z, m, o, i)
  PROVE  /\ player'[o].matchid = m /\ player'[o].zid = z
         /\ \A p \in Objs : p # o =>
              /\ player'[p].matchid = player[p].matchid /\ player'[p].zid = player[p].zid
              /\ player'[p].seatid = player[p].seatid
         /\ \A p \in Objs : player[p].matchid # m /\ p # o => player'[p].state = player[p].state
         /\ \A n \in Matches : n # m => zone_match_list'[n] = zone_match_list[n]
         /\ SeatsAgree' /\ Placed'
         /\ \A u \in Uids : game_maching_list'[u] # NoPlayer => Uid(game_maching_list'[u]) = u
<1> DEFINE seats == [k \in Seats |-> IF k = i THEN o ELSE zone_match_list[m].seats[k]]
           starts == zone_match_list[m].member + 1 = 2 * PLAYER_NUM /\ player[o].uinfo
           plays == starts /\ \A k \in Seats : seats[k] # NoPlayer
           reached(p) == \E k \in Seats : seats[k] = p /\ \A j \in 1 .. k : seats[j] # NoPlayer
           state == IF plays THEN Playing ELSE IF starts THEN Ready ELSE InView
           entered == [player EXCEPT ![o] = [@ EXCEPT !.matchid = m, !.zid = z, !.seatid = i]]
           started(p) == IF starts /\ reached(p)
                         THEN [entered[p] EXCEPT !.state = state,
                                      !.room = IF plays /\ ~IsRobot(p) THEN m ELSE @]
                         ELSE entered[p]
<1>1. /\ player \in [Objs -> PlayerRec] /\ zone_match_list \in [Matches -> MatchRec]
      /\ zone_match_list[m].seats \in [Seats -> PlayerOrNil]
  BY DEF TypeOK, MatchRec
<1>2. /\ player' = [p \in Objs |-> started(p)]
      /\ zone_match_list' = [zone_match_list EXCEPT ![m] =
          [zid |-> z, state |-> state, member |-> @.member + 1, seats |-> seats]]
  BY DEF enter_player
<1>3. /\ seats \in [Seats -> PlayerOrNil]
      /\ \A k \in Seats : seats[k] = IF k = i THEN o ELSE zone_match_list[m].seats[k]
      /\ state = Playing <=> plays
  BY <1>1 DEF PlayerOrNil, Playing, Ready, InView
<1>4. \A p \in Objs :
        /\ entered[p] \in PlayerRec
        /\ entered[p].state = player[p].state
        /\ p # o => entered[p] = player[p]
        /\ p = o => entered[p].matchid = m /\ entered[p].zid = z /\ entered[p].seatid = i
  <2>1. /\ player[o] \in PlayerRec
        /\ entered[o] = [player[o] EXCEPT !.matchid = m, !.zid = z, !.seatid = i]
    BY <1>1
  <2>2. \A p \in Objs : p # o => entered[p] = player[p] /\ player[p] \in PlayerRec
    BY <1>1
  <2> HIDE DEF entered
  <2>3. /\ entered[o] \in PlayerRec /\ entered[o].state = player[o].state
        /\ entered[o].matchid = m /\ entered[o].zid = z /\ entered[o].seatid = i
    BY <2>1 DEF PlayerRec
  <2> QED BY <2>2, <2>3
<1>5. \A p \in Objs :
        /\ player'[p].matchid = entered[p].matchid
        /\ player'[p].zid = entered[p].zid /\ player'[p].seatid = entered[p].seatid
        /\ player'[p].state = IF starts /\ reached(p) THEN state ELSE player[p].state
  <2> HIDE DEF starts, plays, reached, state, entered
  <2> QED BY <1>2, <1>4 DEF PlayerRec
<1>6. /\ zone_match_list'[m].state = state /\ zone_match_list'[m].seats = seats
      /\ \A n \in Matches : n # m => zone_match_list'[n] = zone_match_list[n]
  <2> HIDE DEF plays, state, seats
  <2> QED BY <1>1, <1>2
<1> HIDE DEF seats, entered, state, started
\* Nobody sat in the room but those whose fields say so.
<1>7. \A k \in Seats : seats[k] # NoPlayer =>
        /\ seats[k] \in Objs /\ entered[seats[k]].matchid = m
        /\ entered[seats[k]].seatid = k /\ player[seats[k]].state # Playing
  <2> SUFFICES ASSUME NEW k \in Seats, seats[k] # NoPlayer
               PROVE  /\ seats[k] \in Objs /\ entered[seats[k]].matchid = m
                      /\ entered[seats[k]].seatid = k /\ player[seats[k]].state # Playing
    OBVIOUS
  <2>1. CASE k = i
    BY <1>3, <1>4, <2>1 DEF InView, Playing
  <2>2. CASE k # i
    <3>1. seats[k] = zone_match_list[m].seats[k] /\ seats[k] \in Objs
      BY <1>1, <1>3, <2>2 DEF PlayerOrNil
    <3>2. player[seats[k]].matchid = m /\ player[seats[k]].seatid = k
          /\ player[seats[k]].state # Playing
      BY <3>1 DEF RoomInv, SeatsAgree, InView, Playing
    <3>3. seats[k] # o
      BY <3>2, ConstantFacts
    <3> QED BY <1>4, <3>1, <3>2, <3>3
  <2> QED BY <2>1, <2>2
<1>8. \A p \in Objs : reached(p) => entered[p].matchid = m
  BY <1>7, ConstantFacts
<1>9. \A p \in Objs : player[p].matchid # m /\ p # o => player'[p].state = player[p].state
  BY <1>4, <1>5, <1>8
\* When the game starts, everybody in the room is reached.
<1>10. plays => \A k \in Seats : reached(seats[k])
  <2> SUFFICES ASSUME plays, NEW k \in Seats PROVE reached(seats[k])
    OBVIOUS
  <2>1. \A j \in 1 .. k : j \in Seats
    BY ConstantsOK DEF Seats
  <2> QED BY <2>1
<1>11. ASSUME NEW k \in Seats, seats[k] # NoPlayer
       PROVE  player'[seats[k]].state = Playing <=> plays
  <2>1. CASE plays
    BY <1>3, <1>5, <1>7, <1>10, <1>11, <2>1
  <2>2. CASE ~plays
    BY <1>3, <1>5, <1>7, <1>11, <2>2
  <2> QED BY <2>1, <2>2
<1>12. SeatsAgree'
  <2> SUFFICES ASSUME NEW n \in Matches, NEW k \in Seats,
                      zone_match_list'[n].seats[k] # NoPlayer
               PROVE  LET p == zone_match_list'[n].seats[k] IN
                      /\ player'[p].matchid = n /\ player'[p].seatid = k
                      /\ player'[p].state = Playing <=> zone_match_list'[n].state = Playing
    BY DEF SeatsAgree
  <2> HIDE DEF starts, plays, reached
  <2>1. CASE n = m
    BY <1>3, <1>5, <1>6, <1>7, <1>11, <2>1
  <2>2. CASE n # m
    <3> DEFINE p == zone_match_list[n].seats[k]
    <3>1. p \in Objs
      <4>1. zone_match_list[n] \in MatchRec /\ p # NoPlayer
        BY <1>1, <1>6, <2>2
      <4> QED BY <4>1 DEF MatchRec, PlayerOrNil
    <3>2. /\ player[p].matchid = n /\ player[p].seatid = k
          /\ player[p].state = Playing <=> zone_match_list[n].state = Playing
      BY <1>6, <2>2 DEF RoomInv, SeatsAgree
    <3>3. p # o
      BY <3>2, ConstantFacts
    <3> HIDE DEF p
    <3>4. player'[p].state = player[p].state /\ player'[p].matchid = n /\ player'[p].seatid = k
      BY <1>4, <1>5, <1>9, <2>2, <3>1, <3>2, <3>3
    <3>5. zone_match_list'[n] = zone_match_list[n]
      BY <1>6, <2>2
    <3> QED BY <3>2, <3>4, <3>5 DEF p
  <2> QED BY <2>1, <2>2
<1>13. Placed'
  <2> SUFFICES ASSUME NEW p \in Objs, player'[p].state = Playing
               PROVE  /\ player'[p].matchid \in Matches /\ player'[p].seatid \in Seats
                      /\ zone_match_list'[player'[p].matchid].state = Playing
    BY DEF Placed
  <2>1. CASE starts /\ reached(p)
    <3>1. plays
      BY <1>3, <1>5, <2>1
    <3>2. PICK k \in Seats : seats[k] = p
      BY <2>1
    <3> HIDE DEF starts, plays, reached
    <3>3. entered[p].matchid = m /\ entered[p].seatid = k
      BY <1>7, <3>2, ConstantFacts
    <3> QED BY <1>3, <1>5, <1>6, <3>1, <3>3
  <2>2. CASE ~(starts /\ reached(p))
    <3> HIDE DEF starts, plays, reached
    <3>1. player[p].state = Playing
      BY <1>5, <2>2
    <3>2. /\ player[p].matchid \in Matches /\ player[p].seatid \in Seats
          /\ zone_match_list[player[p].matchid].state = Playing
      BY <3>1 DEF RoomInv, Placed
    <3>3. p # o /\ player[p].matchid # m
      BY <3>1, <3>2 DEF InView, Playing
    <3> QED BY <1>4, <1>5, <1>6, <3>2, <3>3
  <2> QED BY <2>1, <2>2
<1>14. ASSUME NEW u \in Uids, game_maching_list'[u] # NoPlayer
       PROVE  Uid(game_maching_list'[u]) = u
  <2>1. game_maching_list'[u] \in LastSeated(seats, u) \/ game_maching_list' = game_maching_list
    BY DEF enter_player, seats
  <2>2. CASE game_maching_list'[u] \in LastSeated(seats, u)
    BY <1>14, <2>2 DEF LastSeated, RoomInv, OwnObjects
  <2>3. CASE game_maching_list' = game_maching_list
    BY <1>14, <2>3 DEF RoomInv, OwnObjects
  <2> QED BY <2>1, <2>2, <2>3
<1> HIDE DEF starts, plays, reached
<1> QED BY <1>4, <1>5, <1>6, <1>9, <1>12, <1>13, <1>14

\* The fields the invariant reads, and how a step may leave them.
SamePlace(o) == /\ player'[o].zid = player[o].zid /\ player'[o].matchid = player[o].matchid
                /\ player'[o].seatid = player[o].seatid /\ player'[o].state = player[o].state
SameRoom(m) == /\ zone_match_list'[m].state = zone_match_list[m].state
               /\ \A i \in Seats : zone_match_list'[m].seats[i] \in
                                     {zone_match_list[m].seats[i], NoPlayer}

LEMMA SeatTypes ==
  ASSUME TypeOK, NEW m \in Matches, NEW i \in Seats
  PROVE  zone_match_list[m].seats[i] \in PlayerOrNil
<1>1. zone_match_list[m] \in MatchRec
  BY DEF TypeOK
<1> QED BY <1>1 DEF MatchRec

LEMMA StaysPut ==
  ASSUME TypeOK, RoomInv, \A o \in Objs : SamePlace(o), \A m \in Matches : SameRoom(m)
  PROVE  ZoneFirst' /\ Placed' /\ SeatsAgree'
<1>1. ZoneFirst'
  BY DEF RoomInv, ZoneFirst, SamePlace
<1>2. Placed'
  BY DEF RoomInv, Placed, SamePlace, SameRoom
<1>3. SeatsAgree'
  <2> SUFFICES ASSUME NEW m \in Matches, NEW i \in Seats, zone_match_list'[m].seats[i] # NoPlayer
               PROVE  LET p == zone_match_list'[m].seats[i] IN
                      /\ player'[p].matchid = m /\ player'[p].seatid = i
                      /\ player'[p].state = Playing <=> zone_match_list'[m].state = Playing
    BY DEF SeatsAgree
  <2> DEFINE p == zone_match_list[m].seats[i]
  <2>1. zone_match_list'[m].seats[i] = p /\ p \in Objs
    BY SeatTypes DEF SameRoom, PlayerOrNil
  <2>2. /\ player[p].matchid = m /\ player[p].seatid = i
        /\ player[p].state = Playing <=> zone_match_list[m].state = Playing
    BY <2>1, ConstantFacts DEF RoomInv, SeatsAgree
  <2> HIDE DEF p
  <2> QED BY <2>1, <2>2 DEF SamePlace, SameRoom
<1> QED BY <1>1, <1>2, <1>3

LEMMA StillWaiting ==
  ASSUME RoomInv, TypeOK, \A o \in Objs : SamePlace(o),
         UNCHANGED <<zone_wait_list, logic_server_players>>
  PROVE  WaitersOnline'
<1> SUFFICES ASSUME NEW z \in Zones, NEW u \in Uids, zone_wait_list[z][u] # NoPlayer
             PROVE  LET p == zone_wait_list[z][u] IN
                    /\ logic_server_players[u] = p
                    /\ player'[p].zid = z /\ player'[p].matchid = None /\ player'[p].state = InView
  BY DEF WaitersOnline
<1>1. zone_wait_list[z][u] \in Objs
  BY DEF TypeOK, PlayerOrNil
<1> QED BY <1>1 DEF RoomInv, WaitersOnline, SamePlace

LEMMA WaitOthers ==
  ASSUME RoomInv, TypeOK, \A o \in Objs : SamePlace(o), NEW u \in Uids, NEW p \in Objs,
         logic_server_players[u] = NoPlayer,
         logic_server_players' = [logic_server_players EXCEPT ![u] = p],
         UNCHANGED zone_wait_list
  PROVE  WaitersOnline'
<1> SUFFICES ASSUME NEW z \in Zones, NEW v \in Uids, zone_wait_list[z][v] # NoPlayer
             PROVE  LET q == zone_wait_list[z][v] IN
                    /\ logic_server_players'[v] = q
                    /\ player'[q].zid = z /\ player'[q].matchid = None /\ player'[q].state = InView
  BY DEF WaitersOnline
<1>1. zone_wait_list[z][v] \in Objs
  BY DEF TypeOK, PlayerOrNil
<1>2. logic_server_players[v] = zone_wait_list[z][v] /\ v # u
  BY <1>1, ConstantFacts DEF RoomInv, WaitersOnline
<1>3. logic_server_players'[v] = zone_wait_list[z][v]
  BY <1>2 DEF TypeOK
<1> QED BY <1>1, <1>3 DEF RoomInv, WaitersOnline, SamePlace

\* A session, a profile or a flag of a player changes, and nothing the invariant reads.
LEMMA FieldsKept ==
  ASSUME TypeOK, NEW o \in Objs
  PROVE  /\ player' = [player EXCEPT ![o].session = TRUE] => \A p \in Objs : SamePlace(p)
         /\ player' = [player EXCEPT ![o].session = FALSE] => \A p \in Objs : SamePlace(p)
         /\ player' = [player EXCEPT ![o].uinfo = TRUE] => \A p \in Objs : SamePlace(p)
<1>1. \A p \in Objs : player[p] \in PlayerRec
  BY DEF TypeOK
<1>2. ASSUME player' = [player EXCEPT ![o].session = TRUE] PROVE \A p \in Objs : SamePlace(p)
  BY <1>1, <1>2 DEF SamePlace, PlayerRec, TypeOK
<1>3. ASSUME player' = [player EXCEPT ![o].session = FALSE] PROVE \A p \in Objs : SamePlace(p)
  BY <1>1, <1>3 DEF SamePlace, PlayerRec, TypeOK
<1>4. ASSUME player' = [player EXCEPT ![o].uinfo = TRUE] PROVE \A p \in Objs : SamePlace(p)
  BY <1>1, <1>4 DEF SamePlace, PlayerRec, TypeOK
<1> QED BY <1>2, <1>3, <1>4

LEMMA RoomsKept == zone_match_list' = zone_match_list => \A m \in Matches : SameRoom(m)
BY DEF SameRoom

LEMMA RoomStep == TypeInv /\ TypeInv' /\ CountInv /\ RoomInv /\ [Next]_vars => RoomInv'
<1> SUFFICES ASSUME TypeInv, TypeInv', CountInv, RoomInv, [Next]_vars PROVE RoomInv'
  OBVIOUS
<1>0. TypeOK /\ TypeOK'
  BY DEF TypeInv
<1>1. CASE on_gateway_connect \/ on_gateway_disconnect
  <2>1. \A o \in Objs : SamePlace(o)
    <3>1. \A o \in Objs, on \in BOOLEAN : LET r == [player[o] EXCEPT !.session = on] IN
            /\ r.zid = player[o].zid /\ r.matchid = player[o].matchid
            /\ r.seatid = player[o].seatid /\ r.state = player[o].state
      BY <1>0 DEF TypeOK, PlayerRec
    <3> QED BY <1>1, <3>1 DEF on_gateway_connect, on_gateway_disconnect, set_sessions, SamePlace
  <2> QED BY <1>0, <1>1, <2>1, StaysPut, StillWaiting, RoomsKept
          DEF on_gateway_connect, on_gateway_disconnect, RoomInv, OwnObjects, Reseated,
              StillGathering, OneLoop, timerVars, SamePlace
<1>2. CASE redis_connect_to_center \/ do_match_players \/ do_push_robot_to_match \/ UNCHANGED vars
  <2>1. /\ UNCHANGED <<player, zone_match_list, zone_wait_list, logic_server_players, loading,
                       game_maching_list, reseat_timers, sg_matchid>>
        /\ \A o \in Objs : SamePlace(o)
    BY <1>2 DEF redis_connect_to_center, do_match_players, do_push_robot_to_match, vars, SamePlace
  <2>2. StillGathering' /\ OneLoop'
    BY <1>2, <2>1 DEF redis_connect_to_center, do_match_players, do_push_robot_to_match, vars,
       timerVars, RoomInv, StillGathering, OneLoop, Idle, Opened
  <2> QED BY <1>0, <2>1, <2>2, StaysPut, StillWaiting, RoomsKept DEF RoomInv, OwnObjects, Reseated
<1>3. ASSUME NEW u \in Uids, login_logic_server(u) PROVE RoomInv'
  <2>1. UNCHANGED <<zone_match_list, zone_wait_list, logic_server_players, game_maching_list,
                    reseat_timers, sg_matchid, match_sweep, push_sweep>>
    BY <1>3 DEF login_logic_server, timerVars
  <2>2. (\A o \in Objs : SamePlace(o)) /\ OwnObjects'
    <3>1. CASE LoginOnline(u)
      <4>1. logic_server_players[u] \in Objs
        BY <1>0, <3>1 DEF LoginOnline, TypeOK, PlayerOrNil
      <4> QED BY <1>0, <2>1, <3>1, <4>1, FieldsKept DEF LoginOnline, RoomInv, OwnObjects
    <3>2. CASE LoginReconnect(u)
      <4>1. game_maching_list[u] \in Objs
        BY <1>0, <3>2 DEF LoginReconnect, TypeOK, PlayerOrNil
      <4>2. OwnObjects'
        BY <1>0, <2>1, <3>2 DEF LoginReconnect, RoomInv, OwnObjects, TypeOK
      <4> QED BY <1>0, <3>2, <4>1, <4>2, FieldsKept DEF LoginReconnect
    <3>3. CASE LoginNew(u)
      <4>1. <<u, made[u] + 1>> \in Objs
        BY <1>0, <3>3, ConstantsOK DEF LoginNew, TypeOK, Objs
      <4>2. OwnObjects'
        BY <1>0, <2>1, <3>3 DEF LoginNew, RoomInv, OwnObjects, TypeOK, Uid
      <4> QED BY <1>0, <3>3, <4>1, <4>2, FieldsKept DEF LoginNew
    <3> QED BY <1>3, <3>1, <3>2, <3>3 DEF login_logic_server
  <2> QED BY <1>0, <2>1, <2>2, StaysPut, StillWaiting, RoomsKept
          DEF RoomInv, Reseated, StillGathering, OneLoop, SamePlace
<1>4. ASSUME NEW u \in Uids, LoginLoaded(u) PROVE RoomInv'
  <2> DEFINE o == loading[u].obj
  <2>1. /\ o \in Objs /\ logic_server_players[u] = NoPlayer
        /\ player' = [player EXCEPT ![o].uinfo = TRUE]
        /\ logic_server_players' = [logic_server_players EXCEPT ![u] = o]
        /\ loading' = [loading EXCEPT ![u] = NoLoad]
        /\ UNCHANGED <<zone_wait_list, sg_matchid, match_sweep, push_sweep>>
    BY <1>0, <1>4 DEF LoginLoaded, set_online, CountInv, LoadInv, TypeOK, PlayerOrNil, timerVars
  <2>2. \A p \in Objs : SamePlace(p)
    BY <1>0, <2>1, FieldsKept
  <2>3. CASE re_enter_match(u, o) /\ CanReEnter(o)
    <3>1. /\ zone_match_list' = [zone_match_list EXCEPT ![player[o].matchid].member = @ + 1]
          /\ game_maching_list' = [game_maching_list EXCEPT ![u] = o]
          /\ reseat_timers' = [reseat_timers EXCEPT ![o] = @ + 1]
          /\ player[o].state = Playing
      BY <2>3 DEF re_enter_match, CanReEnter
    <3>2. \A m \in Matches : SameRoom(m)
      <4>1. zone_match_list \in [Matches -> MatchRec] /\ player[o].matchid \in Matches
        BY <1>0, <2>3 DEF TypeOK, CanReEnter, Visited
      <4> HIDE DEF o
      <4> QED BY <3>1, <4>1, CountOnly DEF SameRoom
    <3>3. Reseated'
      BY <1>0, <2>1, <2>2, <3>1 DEF RoomInv, Reseated, SamePlace, TypeOK
    <3>4. OwnObjects'
      BY <1>0, <2>1, <3>1 DEF RoomInv, OwnObjects, TypeOK, NoLoad
    <3>5. StillGathering' /\ OneLoop'
      BY <2>1, <3>2 DEF RoomInv, StillGathering, OneLoop, SameRoom
    <3>6. WaitersOnline'
      BY <1>0, <2>1, <2>2, WaitOthers
    <3> QED BY <1>0, <2>2, <3>2, <3>3, <3>4, <3>5, <3>6, StaysPut DEF RoomInv
  <2>4. CASE UNCHANGED <<zone_match_list, game_maching_list, reseat_timers>>
    <3>1. OwnObjects'
      BY <1>0, <2>1, <2>4 DEF RoomInv, OwnObjects, TypeOK, NoLoad
    <3>2. WaitersOnline'
      BY <1>0, <2>1, <2>2, WaitOthers
    <3> QED BY <1>0, <2>1, <2>2, <2>4, <3>1, <3>2, StaysPut, RoomsKept
            DEF RoomInv, Reseated, StillGathering, OneLoop, SamePlace
  <2> QED BY <1>4, <2>3, <2>4 DEF LoginLoaded, re_enter_match
<1>5. ASSUME NEW u \in Uids, LoginFailed(u) \/ LoginNoReply(u) PROVE RoomInv'
  <2>1. /\ UNCHANGED <<player, zone_match_list, zone_wait_list, logic_server_players,
                       game_maching_list, reseat_timers, sg_matchid, match_sweep, push_sweep>>
        /\ loading' = [loading EXCEPT ![u] = NoLoad]
        /\ \A o \in Objs : SamePlace(o)
    BY <1>5 DEF LoginFailed, LoginNoReply, timerVars, SamePlace
  <2>2. OwnObjects'
    BY <1>0, <2>1 DEF RoomInv, OwnObjects, TypeOK, NoLoad
  <2> QED BY <1>0, <2>1, <2>2, StaysPut, StillWaiting, RoomsKept
          DEF RoomInv, Reseated, StillGathering, OneLoop
<1>6. ASSUME NEW u \in Uids, NEW z \in Zones, enter_zone(u, z) PROVE RoomInv'
  <2> DEFINE p == logic_server_players[u]
  <2>1. /\ p \in Objs /\ player[p].zid = None
        /\ player[p].matchid = None /\ player[p].state = InView
        /\ player' = [player EXCEPT ![p].zid = z]
        /\ zone_wait_list' = [zone_wait_list EXCEPT ![z][u] = p]
        /\ UNCHANGED <<zone_match_list, logic_server_players, loading, game_maching_list,
                       reseat_timers, sg_matchid, match_sweep, push_sweep>>
    BY <1>0, <1>6 DEF enter_zone, TypeOK, PlayerOrNil, RoomInv, ZoneFirst, timerVars
  <2> HIDE DEF p
  <2>2. \A q \in Objs :
          /\ player'[q].matchid = player[q].matchid /\ player'[q].seatid = player[q].seatid
          /\ player'[q].state = player[q].state
          /\ player'[q].zid = IF q = p THEN z ELSE player[q].zid
    BY <1>0, <2>1 DEF TypeOK, PlayerRec
  <2>3. ZoneFirst' /\ Placed' /\ Reseated' /\ OwnObjects' /\ StillGathering' /\ OneLoop'
    BY <2>1, <2>2, ConstantFacts
       DEF RoomInv, ZoneFirst, Placed, Reseated, OwnObjects, StillGathering, OneLoop
  <2>4. SeatsAgree'
    BY <1>0, <2>1, <2>2, SeatTypes DEF RoomInv, SeatsAgree, PlayerOrNil
  <2>5. WaitersOnline'
    <3> SUFFICES ASSUME NEW y \in Zones, NEW v \in Uids, zone_wait_list'[y][v] # NoPlayer
                 PROVE  LET q == zone_wait_list'[y][v] IN
                        /\ logic_server_players[v] = q
                        /\ player'[q].zid = y /\ player'[q].matchid = None
                        /\ player'[q].state = InView
      BY <2>1 DEF WaitersOnline
    <3>1. CASE y = z /\ v = u
      BY <1>0, <2>1, <2>2, <3>1 DEF TypeOK, p
    <3>2. CASE ~(y = z /\ v = u)
      <4> DEFINE q == zone_wait_list[y][v]
      <4>1. zone_wait_list'[y][v] = q /\ q \in Objs
        BY <1>0, <2>1, <3>2 DEF TypeOK, PlayerOrNil
      <4>2. /\ logic_server_players[v] = q
            /\ player[q].zid = y /\ player[q].matchid = None /\ player[q].state = InView
        BY <4>1, ConstantFacts DEF RoomInv, WaitersOnline
      <4>3. q # p
        BY <2>1, <4>2, ConstantFacts
      <4> HIDE DEF q
      <4> QED BY <2>2, <4>1, <4>2, <4>3
    <3> QED BY <3>1, <3>2
  <2> QED BY <2>3, <2>4, <2>5 DEF RoomInv
<1>7. CASE do_new_robot_players
  <2>1. /\ UNCHANGED <<zone_match_list, zone_wait_list, logic_server_players, loading,
                       game_maching_list, reseat_timers, sg_matchid, match_sweep, push_sweep>>
        /\ \A q \in Objs :
          /\ player'[q].matchid = player[q].matchid /\ player'[q].seatid = player[q].seatid
          /\ player'[q].state = player[q].state
          /\ player'[q].zid = IF IsRobot(q) THEN RobotZone[Uid(q)] ELSE player[q].zid
    BY <1>0, <1>7 DEF do_new_robot_players, TypeOK, PlayerRec, timerVars
  <2>2. ZoneFirst' /\ Placed' /\ Reseated' /\ OwnObjects' /\ StillGathering' /\ OneLoop'
    BY <2>1, ConstantFacts
       DEF RoomInv, ZoneFirst, Placed, Reseated, OwnObjects, StillGathering, OneLoop
  <2>3. SeatsAgree'
    BY <1>0, <2>1, SeatTypes DEF RoomInv, SeatsAgree, PlayerOrNil
  <2>4. WaitersOnline'
    <3> SUFFICES ASSUME NEW y \in Zones, NEW v \in Uids, zone_wait_list[y][v] # NoPlayer
                 PROVE  LET q == zone_wait_list[y][v] IN
                        /\ logic_server_players[v] = q
                        /\ player'[q].zid = y /\ player'[q].matchid = None
                        /\ player'[q].state = InView
      BY <2>1 DEF WaitersOnline
    <3> DEFINE q == zone_wait_list[y][v]
    <3>1. /\ q \in Objs /\ logic_server_players[v] = q
          /\ player[q].zid = y /\ player[q].matchid = None /\ player[q].state = InView
      BY <1>0 DEF RoomInv, WaitersOnline, TypeOK, PlayerOrNil
    <3>2. ~IsRobot(q)
      BY <3>1, ConstantFacts DEF RoomInv, OwnObjects
    <3> HIDE DEF q
    <3> QED BY <2>1, <3>1, <3>2 DEF q
  <2> QED BY <2>2, <2>3, <2>4 DEF RoomInv
<1>8. ASSUME NEW r \in Robots, RobotInfo(r) PROVE RoomInv'
  <2>1. /\ UNCHANGED <<zone_match_list, zone_wait_list, logic_server_players, loading,
                       game_maching_list, reseat_timers, sg_matchid, match_sweep, push_sweep>>
        /\ \A o \in Objs : SamePlace(o)
    BY <1>0, <1>8, ConstantFacts, FieldsKept DEF RobotInfo, timerVars
  <2> QED BY <1>0, <2>1, StaysPut, StillWaiting, RoomsKept
          DEF RoomInv, OwnObjects, Reseated, StillGathering, OneLoop, SamePlace
<1>9. ASSUME NEW z \in Zones, NEW u \in Uids, MatchWaiter(z, u) PROVE RoomInv'
  <2> DEFINE p == zone_wait_list[z][u]
  <2>1. /\ p \in Objs /\ logic_server_players[u] = p /\ Uid(p) = u /\ push_sweep = {}
        /\ player[p].zid = z /\ player[p].matchid = None /\ player[p].state = InView
    <3>1. p \in Objs
      BY <1>0, <1>9 DEF MatchWaiter, TypeInv, SweptWait, TypeOK, PlayerOrNil
    <3> QED BY <1>9, <3>1, ConstantFacts
            DEF MatchWaiter, RoomInv, WaitersOnline, OwnObjects, OneLoop
  <2>2. PICK m \in Matches, i \in Seats \cup {None} :
          /\ search_inview_match_mgr(z, m) /\ screenplayer(m, p, i) /\ enter_player(z, m, p, i)
          /\ sg_matchid' = IF m = sg_matchid THEN m + 1 ELSE sg_matchid
          /\ zone_wait_list' = [zone_wait_list EXCEPT ![z][u] = NoPlayer]
    BY <1>9, <2>1 DEF MatchWaiter
  <2>3. UNCHANGED <<logic_server_players, loading, reseat_timers, push_sweep>>
    BY <1>9 DEF MatchWaiter
  <2>4. zone_match_list[m].state = InView /\ m < sg_matchid'
    BY <1>0, <2>2 DEF search_inview_match_mgr, Gathering, Visited, RoomInv, StillGathering,
                     TypeOK, Matches
  <2> HIDE DEF p
  <2>5. /\ player'[p].matchid = m /\ player'[p].zid = z
        /\ \A q \in Objs : q # p =>
              player'[q].matchid = player[q].matchid /\ player'[q].zid = player[q].zid
        /\ \A q \in Objs : player[q].matchid # m /\ q # p => player'[q].state = player[q].state
        /\ \A n \in Matches : n # m => zone_match_list'[n] = zone_match_list[n]
        /\ SeatsAgree' /\ Placed'
        /\ \A v \in Uids : game_maching_list'[v] # NoPlayer => Uid(game_maching_list'[v]) = v
    BY <1>0, <2>1, <2>2, <2>4, Enter
  <2>6. OwnObjects'
    BY <2>3, <2>5 DEF RoomInv, OwnObjects
  <2>7. ZoneFirst'
    BY <2>1, <2>5, ConstantFacts DEF RoomInv, ZoneFirst
  <2>8. Reseated'
    BY <2>1, <2>3, <2>4, <2>5 DEF RoomInv, Reseated, Placed, InView, Playing
  <2>9. StillGathering' /\ OneLoop'
    <3>1. \A n \in Matches : n >= sg_matchid' => n # m /\ n >= sg_matchid
      BY <1>0, <2>2, <2>4 DEF TypeOK, Matches
    <3> QED BY <2>1, <2>3, <2>5, <3>1 DEF RoomInv, StillGathering, OneLoop
  <2>10. WaitersOnline'
    <3> SUFFICES ASSUME NEW y \in Zones, NEW v \in Uids, zone_wait_list'[y][v] # NoPlayer
                 PROVE  LET q == zone_wait_list'[y][v] IN
                        /\ logic_server_players'[v] = q
                        /\ player'[q].zid = y /\ player'[q].matchid = None
                        /\ player'[q].state = InView
      BY DEF WaitersOnline
    <3> DEFINE q == zone_wait_list[y][v]
    <3>1. zone_wait_list'[y][v] = q /\ ~(y = z /\ v = u) /\ q \in Objs
      BY <1>0, <2>2 DEF TypeOK, PlayerOrNil
    <3>2. /\ logic_server_players[v] = q /\ Uid(q) = v
          /\ player[q].zid = y /\ player[q].matchid = None /\ player[q].state = InView
      BY <3>1, ConstantFacts DEF RoomInv, WaitersOnline, OwnObjects
    <3>3. q # p
      BY <2>1, <3>1, <3>2
    <3> HIDE DEF q
    <3> QED BY <2>3, <2>5, <3>1, <3>2, <3>3, ConstantFacts
  <2> QED BY <2>5, <2>6, <2>7, <2>8, <2>9, <2>10 DEF RoomInv
<1>10. ASSUME NEW m \in Matches, PushRobot(m) PROVE RoomInv'
  <2> DEFINE z == zone_match_list[m].zid
  <2>1. /\ UNCHANGED <<zone_wait_list, logic_server_players, loading, reseat_timers, sg_matchid,
                       match_sweep>>
        /\ push_sweep' \subseteq push_sweep \ {m}
    BY <1>10 DEF PushRobot
  <2>2. zone_match_list[m].state = InView /\ m < sg_matchid /\ match_sweep = {}
    BY <1>10 DEF PushRobot, RoomInv, StillGathering, OneLoop
  <2>3. CASE UNCHANGED <<zone_match_list, player, game_maching_list>>
    <3>1. \A o \in Objs : SamePlace(o)
      BY <2>3 DEF SamePlace
    <3> QED BY <1>0, <2>1, <2>2, <2>3, <3>1, StaysPut, StillWaiting, RoomsKept
            DEF RoomInv, OwnObjects, Reseated, StillGathering, OneLoop
  <2>4. ASSUME NEW o \in search_idle_robot(z), NEW i \in Seats \cup {None},
               player[o].state = InView, screenplayer(m, o, i), enter_player(z, m, o, i)
        PROVE  RoomInv'
    <3>1. z \in Zones /\ o \in Objs /\ IsRobot(o) /\ player[o].matchid = None
      <4>1. PICK r \in Robots : o = <<r, 1>> /\ RobotZone[r] = z /\ player[<<r, 1>>].matchid = None
        BY <2>4 DEF search_idle_robot
      <4>2. z \in Zones
        BY <4>1, ConstantsOK
      <4>3. o \in Objs /\ IsRobot(o)
        BY <4>1, ConstantFacts DEF IsRobot, Uid
      <4> QED BY <4>1, <4>2, <4>3
    <3>2. /\ player'[o].matchid = m /\ player'[o].zid = z
          /\ \A q \in Objs : q # o =>
                player'[q].matchid = player[q].matchid /\ player'[q].zid = player[q].zid
          /\ \A q \in Objs : player[q].matchid # m /\ q # o => player'[q].state = player[q].state
          /\ \A n \in Matches : n # m => zone_match_list'[n] = zone_match_list[n]
          /\ SeatsAgree' /\ Placed'
          /\ \A v \in Uids : game_maching_list'[v] # NoPlayer => Uid(game_maching_list'[v]) = v
      BY <1>0, <2>2, <2>4, <3>1, Enter
    <3> HIDE DEF z
    <3>3. OwnObjects'
      BY <2>1, <3>2 DEF RoomInv, OwnObjects
    <3>4. ZoneFirst'
      BY <3>1, <3>2, ConstantFacts DEF RoomInv, ZoneFirst
    <3>5. Reseated'
      BY <2>1, <2>2, <2>4, <3>2 DEF RoomInv, Reseated, Placed, InView, Playing
    <3>6. StillGathering' /\ OneLoop'
      BY <1>0, <2>1, <2>2, <3>2 DEF RoomInv, StillGathering, OneLoop, TypeOK, Matches
    <3>7. WaitersOnline'
      <4> SUFFICES ASSUME NEW y \in Zones, NEW v \in Uids, zone_wait_list[y][v] # NoPlayer
                   PROVE  LET q == zone_wait_list[y][v] IN
                          /\ logic_server_players[v] = q
                          /\ player'[q].zid = y /\ player'[q].matchid = None
                          /\ player'[q].state = InView
        BY <2>1 DEF WaitersOnline
      <4> DEFINE q == zone_wait_list[y][v]
      <4>1. /\ q \in Objs /\ logic_server_players[v] = q /\ Uid(q) = v
            /\ player[q].zid = y /\ player[q].matchid = None /\ player[q].state = InView
        BY <1>0, ConstantFacts DEF RoomInv, WaitersOnline, OwnObjects, TypeOK, PlayerOrNil
      <4>2. q # o
        BY <3>1, <4>1, ConstantFacts
      <4> HIDE DEF q
      <4> QED BY <3>2, <4>1, <4>2, ConstantFacts DEF q
    <3> QED BY <3>2, <3>3, <3>4, <3>5, <3>6, <3>7 DEF RoomInv
  <2> QED BY <1>10, <2>3, <2>4 DEF PushRobot
<1>11. ASSUME NEW u \in Uids, do_exit_match(u) PROVE RoomInv'
  <2> DEFINE p == logic_server_players[u]
             n == player[p].matchid
  <2>1. /\ p \in Objs /\ n \in Matches /\ player[p].state = InView
        /\ player' = [player EXCEPT ![p] = ClearMatchData(@)] /\ exit_player(n, p)
        /\ UNCHANGED <<zone_wait_list, logic_server_players, loading, game_maching_list,
                       reseat_timers, sg_matchid, match_sweep, push_sweep>>
    <3>1. p \in Objs
      BY <1>0, <1>11 DEF do_exit_match, TypeOK, PlayerOrNil
    <3>2. player[p] \in PlayerRec
      BY <1>0, <3>1 DEF TypeOK
    <3> QED BY <1>11, <3>1, <3>2 DEF do_exit_match, may_exit_match, PlayerRec, timerVars
  <2> HIDE DEF p
  <2>2. /\ player'[p].zid = None /\ player'[p].matchid = None /\ player'[p].state = InView
        /\ \A q \in Objs : q # p => player'[q] = player[q]
    BY <1>0, <2>1 DEF TypeOK, PlayerRec, ClearMatchData
  <2>3. \A m \in Matches :
          /\ SameRoom(m)
          /\ m = n => \A i \in Seats : i = player[p].seatid => zone_match_list'[m].seats[i] = NoPlayer
    <3>1. zone_match_list \in [Matches -> MatchRec]
      BY <1>0 DEF TypeOK
    <3> QED BY <2>1, <3>1, SeatLeft DEF SameRoom
  <2> HIDE DEF n
  <2>4. ZoneFirst' /\ Reseated' /\ OwnObjects' /\ StillGathering' /\ OneLoop'
    BY <2>1, <2>2, <2>3 DEF RoomInv, ZoneFirst, Reseated, OwnObjects, StillGathering, OneLoop,
       SameRoom, InView, Playing
  <2>5. Placed'
    BY <2>1, <2>2, <2>3 DEF RoomInv, Placed, SameRoom, InView, Playing
  <2>6. WaitersOnline'
    <3> SUFFICES ASSUME NEW y \in Zones, NEW v \in Uids, zone_wait_list[y][v] # NoPlayer
                 PROVE  LET q == zone_wait_list[y][v] IN
                        /\ logic_server_players[v] = q
                        /\ player'[q].zid = y /\ player'[q].matchid = None
                        /\ player'[q].state = InView
      BY <2>1 DEF WaitersOnline
    <3> DEFINE q == zone_wait_list[y][v]
    <3>1. /\ q \in Objs /\ logic_server_players[v] = q
          /\ player[q].zid = y /\ player[q].matchid = None /\ player[q].state = InView
      BY <1>0 DEF RoomInv, WaitersOnline, TypeOK, PlayerOrNil
    <3>2. q # p
      BY <2>1, <3>1, ConstantFacts DEF n
    <3> HIDE DEF q
    <3> QED BY <2>2, <3>1, <3>2 DEF q
  <2>7. SeatsAgree'
    <3> SUFFICES ASSUME NEW m \in Matches, NEW i \in Seats, zone_match_list'[m].seats[i] # NoPlayer
                 PROVE  LET q == zone_match_list'[m].seats[i] IN
                        /\ player'[q].matchid = m /\ player'[q].seatid = i
                        /\ player'[q].state = Playing <=> zone_match_list'[m].state = Playing
      BY DEF SeatsAgree
    <3> DEFINE q == zone_match_list[m].seats[i]
    <3>1. zone_match_list'[m].seats[i] = q /\ q \in Objs
      BY <1>0, <2>3, SeatTypes DEF SameRoom, PlayerOrNil
    <3>2. /\ player[q].matchid = m /\ player[q].seatid = i
          /\ player[q].state = Playing <=> zone_match_list[m].state = Playing
      BY <3>1, ConstantFacts DEF RoomInv, SeatsAgree
    <3> HIDE DEF q
    <3>3. q # p
      BY <2>3, <3>1, <3>2, ConstantFacts DEF n
    <3> QED BY <2>2, <2>3, <3>1, <3>2, <3>3 DEF SameRoom
  <2> QED BY <2>4, <2>5, <2>6, <2>7 DEF RoomInv
<1>12. ASSUME NEW u \in Uids, on_player_disconnect(u) PROVE RoomInv'
  <2> DEFINE p == logic_server_players[u]
  <2>1. /\ p \in Objs /\ player' = [player EXCEPT ![p].session = FALSE]
        /\ logic_server_players' = [logic_server_players EXCEPT ![u] = NoPlayer]
        /\ zone_wait_list' = LeaveWaitList(u, player[p].zid)
        /\ UNCHANGED <<loading, game_maching_list, reseat_timers, sg_matchid, match_sweep, push_sweep>>
    BY <1>0, <1>12 DEF on_player_disconnect, TypeOK, PlayerOrNil, timerVars
  <2>2. \A q \in Objs : SamePlace(q)
    BY <1>0, <2>1, FieldsKept
  <2>3. \A m \in Matches : SameRoom(m)
    <3>1. CASE exit_player(player[p].room, p)
      <4>1. zone_match_list \in [Matches -> MatchRec]
        BY <1>0 DEF TypeOK
      <4>2. CASE player[p].room \in Matches
        BY <3>1, <4>1, <4>2, SeatLeft DEF SameRoom
      <4>3. CASE player[p].room \notin Matches
        BY <3>1, <4>1, <4>3 DEF SameRoom, exit_player
      <4> QED BY <4>2, <4>3
    <3> QED BY <1>12, <3>1, RoomsKept DEF on_player_disconnect
  <2>4. Reseated' /\ StillGathering' /\ OneLoop'
    BY <2>1, <2>2, <2>3 DEF RoomInv, Reseated, StillGathering, OneLoop, SamePlace, SameRoom
  <2>5. OwnObjects'
    BY <1>0, <2>1 DEF RoomInv, OwnObjects, TypeOK
  <2>6. WaitersOnline'
    <3> SUFFICES ASSUME NEW y \in Zones, NEW v \in Uids, zone_wait_list'[y][v] # NoPlayer
                 PROVE  LET q == zone_wait_list'[y][v] IN
                        /\ logic_server_players'[v] = q
                        /\ player'[q].zid = y /\ player'[q].matchid = None
                        /\ player'[q].state = InView
      BY DEF WaitersOnline
    <3> DEFINE q == zone_wait_list[y][v]
    <3>1. zone_wait_list'[y][v] = q /\ q \in Objs
      BY <1>0, <2>1 DEF TypeOK, PlayerOrNil, LeaveWaitList
    <3>2. /\ logic_server_players[v] = q
          /\ player[q].zid = y /\ player[q].matchid = None /\ player[q].state = InView
      BY <3>1, ConstantFacts DEF RoomInv, WaitersOnline
    <3>3. v # u
      <4>1. ASSUME v = u PROVE FALSE
        <5>1. q = p /\ player[p].zid = y
          BY <3>2, <4>1
        <5>2. zone_wait_list' = [zone_wait_list EXCEPT ![y][u] = NoPlayer]
          BY <2>1, <5>1, ConstantFacts DEF LeaveWaitList
        <5> QED BY <1>0, <4>1, <5>2 DEF TypeOK
      <4> QED BY <4>1
    <3>4. logic_server_players'[v] = q
      BY <1>0, <2>1, <3>2, <3>3 DEF TypeOK
    <3> HIDE DEF q
    <3> QED BY <2>2, <3>1, <3>2, <3>4 DEF SamePlace
  <2> QED BY <1>0, <2>2, <2>3, <2>4, <2>5, <2>6, StaysPut DEF RoomInv
<1>13. ASSUME NEW o \in Objs, ReseatTimer(o) PROVE RoomInv'
  <2> DEFINE n == player[o].matchid
             k == player[o].seatid
  <2>1. /\ player[o].state = Playing /\ n \in Matches /\ k \in Seats
        /\ zone_match_list[n].state = Playing
    BY <1>0, <1>13 DEF ReseatTimer, RoomInv, Reseated, Placed
  <2>2. /\ zone_match_list' = [zone_match_list EXCEPT ![n].seats[k] = o]
        /\ reseat_timers' = [reseat_timers EXCEPT ![o] = @ - 1]
        /\ UNCHANGED <<player, zone_wait_list, logic_server_players, loading, game_maching_list,
                       sg_matchid, match_sweep, push_sweep>>
    BY <1>13 DEF ReseatTimer, timerVars
  <2>8. player[o].matchid = n /\ player[o].seatid = k
    OBVIOUS
  <2> HIDE DEF n, k
  <2>3. \A m \in Matches :
          /\ zone_match_list'[m].state = zone_match_list[m].state
          /\ \A i \in Seats : zone_match_list'[m].seats[i] =
                IF m = n /\ i = k THEN o ELSE zone_match_list[m].seats[i]
    <3>1. zone_match_list \in [Matches -> MatchRec]
      BY <1>0 DEF TypeOK
    <3>2. zone_match_list' = [zone_match_list EXCEPT ![n].seats[k] = o]
      BY <2>2
    <3>3. \A m \in Matches : m # n => zone_match_list'[m] = zone_match_list[m]
      BY <3>1, <3>2
    <3>4. zone_match_list[n] \in MatchRec /\ n \in Matches /\ k \in Seats
      BY <2>1, <3>1
    <3>5. zone_match_list'[n] = [zone_match_list[n] EXCEPT !.seats =
                                   [zone_match_list[n].seats EXCEPT ![k] = o]]
      BY <3>1, <3>2, <3>4
    <3>6. /\ zone_match_list'[n].state = zone_match_list[n].state
          /\ zone_match_list'[n].seats = [zone_match_list[n].seats EXCEPT ![k] = o]
      BY <3>4, <3>5 DEF MatchRec
    <3>7. \A i \in Seats : zone_match_list'[n].seats[i] =
            IF i = k THEN o ELSE zone_match_list[n].seats[i]
      BY <3>4, <3>6 DEF MatchRec
    <3> QED BY <3>3, <3>6, <3>7
  <2>4. ZoneFirst' /\ Placed' /\ OwnObjects' /\ StillGathering' /\ OneLoop'
    BY <2>2, <2>3 DEF RoomInv, ZoneFirst, Placed, OwnObjects, StillGathering, OneLoop
  <2>5. Reseated'
    BY <1>0, <2>1, <2>2 DEF RoomInv, Reseated, TypeOK
  <2>6. WaitersOnline'
    BY <2>2 DEF RoomInv, WaitersOnline
  <2>7. SeatsAgree'
    BY <2>1, <2>2, <2>3, <2>8 DEF RoomInv, SeatsAgree
  <2> QED BY <2>4, <2>5, <2>6, <2>7 DEF RoomInv
<1> QED BY <1>1, <1>2, <1>3, <1>4, <1>5, <1>6, <1>7, <1>8, <1>9, <1>10, <1>11, <1>12, <1>13
        DEF Next, TimerLoop

LEMMA RoomAlways == Spec => []RoomInv
BY TypeInit, TypeStep, CountInit, CountStep, RoomInit, RoomStep, PTL DEF Spec

\* Who waits is online and in no room, with any number of accounts, zones and rooms:
\* do_match_players seats nobody who has disconnected (on_player_disconnect, game_mgr.lua:359).
THEOREM WaitOnline == Spec => []WaitersOnline
<1>1. RoomInv => WaitersOnline
  BY DEF RoomInv
<1> QED BY <1>1, RoomAlways, PTL

\* Seats and players agree, with any number of seats and whatever reseat timers of
\* re_enter_match (match_mgr.lua:266) are pending.
THEOREM SeatsAndPlayersAgree == Spec => []SeatsAgree
<1>1. RoomInv => SeatsAgree
  BY DEF RoomInv
<1> QED BY <1>1, RoomAlways, PTL
=============================================================================
