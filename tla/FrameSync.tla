------------------------------ MODULE FrameSync ------------------------------
(***************************************************************************)
(* Frame synchronisation of one running match: the server collects the     *)
(* players' operations into numbered frames and sends each player, every   *)
(* 50 ms and over UDP, the frames it has not acknowledged; the client      *)
(* executes them and answers with its operations for the next frame, which *)
(* is also the acknowledgement.                                            *)
(* Source: match_mgr.lua (on_logic_frame, send_unsync_frames,              *)
(* on_next_frame_event, re_enter_match, exit_player) and the client's      *)
(* game_zygote.cs (on_logic_update, capture_player_opts).                  *)
(*                                                                         *)
(* A frame is its number and the seats whose operations it carries, in the *)
(* order they came in; frames sent together are the range of their numbers. *)
(* Datagrams are sets: they are delivered in any order, or never.  Every   *)
(* player's profile is loaded (line 162 of match_mgr.lua reads its name).  *)
(***************************************************************************)
EXTENDS Integers, Sequences

CONSTANTS
  Players,      \* seats of the players who are not robots
  FIRST_SEAT,   \* the seat the first frame's idle operation is for
  WINDOW,       \* frames sent at once: 11 in the code
  LagAllowed,   \* FALSE: no player falls further behind than WINDOW
  DupAllowed,   \* the network may deliver a datagram twice
  MaxFrame      \* bound: frames of the game

ASSUME FrameConstantsOK ==
  /\ WINDOW \in Nat \ {0}
  /\ MaxFrame \in Nat
  /\ LagAllowed \in BOOLEAN /\ DupAllowed \in BOOLEAN

VARIABLES
  v_frame_id,               \* number of the frame being collected
  v_all_match_FramesOpts,   \* the frames of the game so far
  v_next_FrameOpt,          \* the frame being collected
  v_sunc_frameid,           \* last frame each player is known to have
  place,                    \* "seated", "away", or "returning" (reseat timer runs)
  sync_frameid,             \* client: last frame executed
  executed,                 \* client: numbers of the frames executed (history)
  to_client,                \* eLogicFrame datagrams on their way
  to_server                 \* eNextFrameOpts datagrams on their way

serverVars == <<v_frame_id, v_all_match_FramesOpts, v_next_FrameOpt>>
clientVars == <<sync_frameid, executed>>
vars == <<serverVars, v_sunc_frameid, place, clientVars, to_client, to_server>>

FrameOpts == [old_frameid : Nat, opts : Seq(Players \cup {FIRST_SEAT})]
LogicFrame == [seat : Players, cur_frameid : Nat, first : Nat \ {0}, last : Nat]
NextFrameOpts == [seat : Players, next_frameid : Nat, acts : BOOLEAN]

TypeOK ==
  /\ v_frame_id \in Nat
  /\ v_all_match_FramesOpts \in Seq(FrameOpts)
  /\ v_next_FrameOpt \in FrameOpts
  /\ v_sunc_frameid \in [Players -> Nat]
  /\ place \in [Players -> {"seated", "away", "returning"}]
  /\ sync_frameid \in [Players -> Nat]
  /\ executed \in [Players -> Seq(Nat)]
  /\ to_client \subseteq LogicFrame
  /\ to_server \subseteq NextFrameOpts

\* game_start, as the frames go.
Init ==
  /\ v_frame_id = 1
  /\ v_all_match_FramesOpts = <<>>
  /\ v_next_FrameOpt = [old_frameid |-> 1, opts |-> <<FIRST_SEAT>>]
  /\ v_sunc_frameid = [c \in Players |-> 0]
  /\ place = [c \in Players |-> "seated"]
  /\ sync_frameid = [c \in Players |-> 0]
  /\ executed = [c \in Players |-> <<>>]
  /\ to_client = {}
  /\ to_server = {}

-----------------------------------------------------------------------------
(* Server *)

AtMost(a, b) == IF a <= b THEN a ELSE b
AtLeast(a, b) == IF a >= b THEN a ELSE b

\* No player on a seat is more than WINDOW frames behind.
Punctual == \A c \in Players : place[c] = "seated" => v_frame_id - v_sunc_frameid[c] <= WINDOW

\* Fault: the frames from the one acknowledged, as an array counted from 0 would have it.
send_from_acknowledged(c) ==
  [seat |-> c, cur_frameid |-> v_frame_id, first |-> v_sunc_frameid[c],
   last |-> AtMost(v_sunc_frameid[c] + WINDOW, v_frame_id)]

\* send_unsync_frames: the frames player c has not acknowledged, the oldest first,
\* WINDOW of them at most.
send_unsync_frames(c) ==
  [seat |-> c, cur_frameid |-> v_frame_id, first |-> v_sunc_frameid[c] + 1,
   last |-> AtMost(v_sunc_frameid[c] + WINDOW, v_frame_id)]

\* Fault: the next frame is numbered before v_frame_id moves on.
on_logic_frame_number_first ==
  /\ v_frame_id <= MaxFrame
  /\ v_all_match_FramesOpts' = Append(v_all_match_FramesOpts, v_next_FrameOpt)
  /\ to_client' = to_client \cup
       {send_unsync_frames(c) : c \in {p \in Players : place[p] = "seated"}}
  /\ v_next_FrameOpt' = [old_frameid |-> v_frame_id, opts |-> <<>>]
  /\ v_frame_id' = v_frame_id + 1
  /\ UNCHANGED <<v_sunc_frameid, place, clientVars, to_server>>

\* on_logic_frame, the frame timer: the frame collected joins the log, every player
\* on a seat is sent its frames, and the next frame begins.
on_logic_frame ==
  /\ v_frame_id <= MaxFrame
  /\ LagAllowed \/ Punctual
  /\ v_all_match_FramesOpts' = Append(v_all_match_FramesOpts, v_next_FrameOpt)
  /\ to_client' = to_client \cup
       {send_unsync_frames(c) : c \in {p \in Players : place[p] = "seated"}}
  /\ v_frame_id' = v_frame_id + 1
  /\ v_next_FrameOpt' = [old_frameid |-> v_frame_id + 1, opts |-> <<>>]
  /\ UNCHANGED <<v_sunc_frameid, place, clientVars, to_server>>

\* What a delivery leaves of the datagrams on their way.
Delivered(net, d) == IF DupAllowed THEN {net, net \ {d}} ELSE {net \ {d}}

\* Fault: the number of the answer, not of the frame before it, is acknowledged.
acknowledged_next(d) == AtLeast(v_sunc_frameid[d.seat], d.next_frameid)

\* The acknowledgement in an eNextFrameOpts moves v_sunc_frameid forward only.
acknowledged(d) == AtLeast(v_sunc_frameid[d.seat], d.next_frameid - 1)

\* Fault: operations that come late count too.
in_time_or_late(d) == d.next_frameid <= v_frame_id

\* Operations count for the frame that is being collected and for no other.
in_time(d) == d.next_frameid = v_frame_id

\* on_next_frame_event.
on_next_frame_event(d) ==
  /\ to_server' \in Delivered(to_server, d)
  /\ IF place[d.seat] = "seated"
     THEN /\ v_sunc_frameid' = [v_sunc_frameid EXCEPT ![d.seat] = acknowledged(d)]
          /\ v_next_FrameOpt' =
               IF in_time(d) /\ d.acts
               THEN [v_next_FrameOpt EXCEPT !.opts = Append(@, d.seat)] ELSE v_next_FrameOpt
     ELSE UNCHANGED <<v_sunc_frameid, v_next_FrameOpt>>
  /\ UNCHANGED <<v_frame_id, v_all_match_FramesOpts, place, clientVars, to_client>>

-----------------------------------------------------------------------------
(* Client *)

Run(a, b) == [k \in 1 .. (b - a + 1) |-> a + k - 1]

\* Fault: the loop executes every frame sent, those executed before too.
caught_up_again(d) == Run(d.first, AtMost(d.last, d.cur_frameid - 1))

\* The frames the loop of on_logic_update executes: those after the last one executed
\* and before cur_frameid.
caught_up(d) == Run(AtLeast(d.first, sync_frameid[d.seat] + 1),
                    AtMost(d.last, d.cur_frameid - 1))

\* The last frame sent is executed on top, if one was sent.
last_frame(d) == IF d.first <= d.last THEN <<d.last>> ELSE <<>>

\* Frames older than what the client has executed are dropped.
outdated(d) == d.cur_frameid < sync_frameid[d.seat]

\* on_logic_update: the client executes the missing frames, then the last frame sent,
\* and answers with its operations for the frame after cur_frameid.
on_logic_update(d) ==
  LET c == d.seat IN
  /\ to_client' \in Delivered(to_client, d)
  /\ IF outdated(d)
     THEN UNCHANGED <<clientVars, to_server>>
     ELSE /\ executed' = [executed EXCEPT ![c] = @ \o caught_up(d) \o last_frame(d)]
          /\ sync_frameid' = [sync_frameid EXCEPT ![c] = d.cur_frameid]
          /\ \E acts \in BOOLEAN :
               to_server' = to_server \cup
                 {[seat |-> c, next_frameid |-> d.cur_frameid + 1, acts |-> acts]}
  /\ UNCHANGED <<serverVars, v_sunc_frameid, place>>

-----------------------------------------------------------------------------
(* Leaving and coming back *)

\* exit_player: the seat is empty, no frames are sent and no operations accepted.
exit_player(c) ==
  /\ place[c] = "seated"
  /\ place' = [place EXCEPT ![c] = "away"]
  /\ UNCHANGED <<serverVars, v_sunc_frameid, clientVars, to_client, to_server>>

\* Fault: the player keeps the acknowledgement of before it left.
re_enter_match_keeps_ack(c) ==
  /\ place[c] = "away"
  /\ place' = [place EXCEPT ![c] = "returning"]
  /\ sync_frameid' = [sync_frameid EXCEPT ![c] = 0]
  /\ executed' = [executed EXCEPT ![c] = <<>>]
  /\ to_client' = {d \in to_client : d.seat # c}
  /\ to_server' = {d \in to_server : d.seat # c}
  /\ UNCHANGED <<serverVars, v_sunc_frameid>>

\* re_enter_match: the game scene is loaded again, and the server sends the game from
\* its first frame.  The 2 s until the seat is given back outlive the datagrams of
\* the time before.
re_enter_match(c) ==
  /\ place[c] = "away"
  /\ place' = [place EXCEPT ![c] = "returning"]
  /\ v_sunc_frameid' = [v_sunc_frameid EXCEPT ![c] = 0]
  /\ sync_frameid' = [sync_frameid EXCEPT ![c] = 0]
  /\ executed' = [executed EXCEPT ![c] = <<>>]
  /\ to_client' = {d \in to_client : d.seat # c}
  /\ to_server' = {d \in to_server : d.seat # c}
  /\ UNCHANGED serverVars

\* The timer of re_enter_match.
reseat(c) ==
  /\ place[c] = "returning"
  /\ place' = [place EXCEPT ![c] = "seated"]
  /\ UNCHANGED <<serverVars, v_sunc_frameid, clientVars, to_client, to_server>>

-----------------------------------------------------------------------------
Next ==
  \/ on_logic_frame
  \/ \E d \in to_server : on_next_frame_event(d)
  \/ \E d \in to_client : on_logic_update(d)
  \/ \E c \in Players : exit_player(c)
  \/ \E c \in Players : re_enter_match(c)
  \/ \E c \in Players : reseat(c)

Spec == Init /\ [][Next]_vars

-----------------------------------------------------------------------------
(* Properties *)

\* Frames are numbered from 1 without a gap, and the frame being collected has the
\* number the server announces: on_next_frame_event logs an error if it has not.
FramesNumbered ==
  /\ Len(v_all_match_FramesOpts) = v_frame_id - 1
  /\ \A i \in 1 .. Len(v_all_match_FramesOpts) : v_all_match_FramesOpts[i].old_frameid = i
  /\ v_next_FrameOpt.old_frameid = v_frame_id

\* The server never takes a frame for executed that the client has not reached: it
\* would not send it again.
AckNotAhead == \A c \in Players : v_sunc_frameid[c] <= sync_frameid[c] /\ sync_frameid[c] < v_frame_id

\* A player has executed every frame up to its sync_frameid, each once and in order:
\* "sync the frames lost, from sync_frame on" (game_zygote.cs:544).
InStep == \A c \in Players : executed[c] = Run(1, sync_frameid[c])

\* A player's answer enters a frame once, whatever answers were late, lost or sent
\* before it left and came back.
OneAnswerPerFrame ==
  \A i \in 1 .. Len(v_all_match_FramesOpts) :
    LET opts == v_all_match_FramesOpts[i].opts
    IN \A j, k \in 1 .. Len(opts) : opts[j] = opts[k] => j = k

\* Server and clients together keep the promise of Lockstep.
frames_of(c) == [i \in 1 .. Len(executed[c]) |-> v_all_match_FramesOpts[executed[c][i]]]
Promise == INSTANCE Lockstep WITH
  Players <- Players,
  log <- v_all_match_FramesOpts, view <- [c \in Players |-> frames_of(c)]
KeepsLockstep == Promise!Spec

=============================================================================
