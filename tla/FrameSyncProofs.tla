--------------------------- MODULE FrameSyncProofs ---------------------------
(***************************************************************************)
(* Proofs about FrameSync, for any players, window and network.            *)
(***************************************************************************)
EXTENDS FrameSync, SequenceTheorems, TLAPS

-----------------------------------------------------------------------------
(* What the server knows and what the clients have done *)

\* Nothing on its way is of a frame not sent yet, and no answer is ahead of its client.
OnTheirWay ==
  /\ \A d \in to_client : d.cur_frameid < v_frame_id
  /\ \A a \in to_server : a.next_frameid <= sync_frameid[a.seat] + 1

\* The inductive invariant behind FramesNumbered and AckNotAhead.
AckInv == TypeOK /\ FramesNumbered /\ AckNotAhead /\ OnTheirWay

LEMMA DeliveredIn ==
  ASSUME NEW net, NEW d, NEW net2 \in Delivered(net, d)
  PROVE  net2 \subseteq net
BY DEF Delivered

LEMMA AckInit == Init => AckInv
BY DEF Init, AckInv, TypeOK, FramesNumbered, AckNotAhead, OnTheirWay, FrameOpts,
       LogicFrame, NextFrameOpts

\* The kinds of what is sent.
LEMMA SentType ==
  ASSUME TypeOK, NEW c \in Players
  PROVE  send_unsync_frames(c) \in LogicFrame
BY FrameConstantsOK DEF TypeOK, send_unsync_frames, LogicFrame, AtMost

LEMMA CaughtUpType ==
  ASSUME TypeOK, NEW d \in LogicFrame
  PROVE  caught_up(d) \in Seq(Nat) /\ last_frame(d) \in Seq(Nat)
<1>1. caught_up(d) \in Seq(Nat)
  <2> DEFINE a == AtLeast(d.first, sync_frameid[d.seat] + 1)
             b == AtMost(d.last, d.cur_frameid - 1)
  <2>1. a \in Nat /\ b \in Int
    BY DEF TypeOK, LogicFrame, AtLeast, AtMost
  <2>2. \A k \in 1 .. (b - a + 1) : a + k - 1 \in Nat
    BY <2>1
  <2> HIDE DEF a, b
  <2>3. Run(a, b) \in Seq(Nat)
    <3>1. CASE b - a + 1 \in Nat
      BY <3>1, <2>1, <2>2 DEF Run
    <3>2. CASE b - a + 1 \notin Nat
      <4>1. 1 .. (b - a + 1) = 1 .. 0
        BY <3>2, <2>1
      <4> QED BY <4>1, <2>1, <2>2 DEF Run
    <3> QED BY <3>1, <3>2
  <2> QED BY <2>3 DEF caught_up, a, b
<1>2. last_frame(d) \in Seq(Nat)
  BY DEF LogicFrame, last_frame
<1> QED BY <1>1, <1>2

LEMMA AckStep == AckInv /\ [Next]_vars => AckInv'
<1> SUFFICES ASSUME AckInv, [Next]_vars PROVE AckInv'
  OBVIOUS
<1> USE DEF AckInv
<1>1. CASE on_logic_frame
  <2>1. TypeOK'
    <3>1. v_all_match_FramesOpts' \in Seq(FrameOpts) /\ v_frame_id' \in Nat
      BY <1>1 DEF on_logic_frame, TypeOK
    <3>2. v_next_FrameOpt' \in FrameOpts
      BY <1>1 DEF on_logic_frame, TypeOK, FrameOpts
    <3>3. to_client' \subseteq LogicFrame
      BY <1>1, SentType DEF on_logic_frame, TypeOK
    <3> QED BY <1>1, <3>1, <3>2, <3>3 DEF on_logic_frame, TypeOK, clientVars
  <2>2. FramesNumbered'
    BY <1>1 DEF on_logic_frame, TypeOK, FramesNumbered, FrameOpts
  <2>3. AckNotAhead' /\ OnTheirWay'
    BY <1>1 DEF on_logic_frame, TypeOK, AckNotAhead, OnTheirWay, clientVars,
                send_unsync_frames, LogicFrame
  <2> QED BY <2>1, <2>2, <2>3
<1>2. ASSUME NEW d \in to_server, on_next_frame_event(d) PROVE AckInv'
  <2> DEFINE c == d.seat
  <2>1. to_server' \subseteq to_server
    BY <1>2, DeliveredIn DEF on_next_frame_event
  <2>2. c \in Players /\ acknowledged(d) \in Nat /\ acknowledged(d) <= sync_frameid[c]
    BY DEF TypeOK, NextFrameOpts, acknowledged, AtLeast, OnTheirWay, AckNotAhead
  <2>3. /\ v_sunc_frameid' \in [Players -> Nat]
        /\ \A p \in Players : v_sunc_frameid'[p] <= sync_frameid[p]
    BY <1>2, <2>2 DEF on_next_frame_event, TypeOK, AckNotAhead
  <2>4. /\ v_next_FrameOpt' \in FrameOpts
        /\ v_next_FrameOpt'.old_frameid = v_next_FrameOpt.old_frameid
    <3>1. Append(v_next_FrameOpt.opts, c) \in Seq(Players \cup {FIRST_SEAT})
      BY <2>2 DEF TypeOK, FrameOpts
    <3>2. v_next_FrameOpt' = [v_next_FrameOpt EXCEPT !.opts = Append(@, c)]
          \/ v_next_FrameOpt' = v_next_FrameOpt
      BY <1>2 DEF on_next_frame_event
    <3>3. v_next_FrameOpt \in FrameOpts
      BY DEF TypeOK
    <3> QED BY <3>1, <3>2, <3>3 DEF FrameOpts
  <2> QED BY <1>2, <2>1, <2>3, <2>4 DEF on_next_frame_event, TypeOK, FramesNumbered,
             AckNotAhead, OnTheirWay, clientVars
<1>3. ASSUME NEW d \in to_client, on_logic_update(d) PROVE AckInv'
  <2> DEFINE c == d.seat
  <2>1. to_client' \subseteq to_client /\ d \in LogicFrame
    BY <1>3, DeliveredIn DEF on_logic_update, TypeOK
  <2>2. CASE outdated(d)
    BY <1>3, <2>1, <2>2 DEF on_logic_update, TypeOK, FramesNumbered, AckNotAhead,
       OnTheirWay, clientVars, serverVars
  <2>3. CASE ~outdated(d)
    <3>1. PICK acts \in BOOLEAN : to_server' = to_server \cup
             {[seat |-> c, next_frameid |-> d.cur_frameid + 1, acts |-> acts]}
      BY <1>3, <2>3 DEF on_logic_update
    <3>2. /\ sync_frameid' = [sync_frameid EXCEPT ![c] = d.cur_frameid]
          /\ sync_frameid[c] <= d.cur_frameid
      BY <1>3, <2>1, <2>3 DEF on_logic_update, outdated, TypeOK, LogicFrame
    <3>3. executed' \in [Players -> Seq(Nat)]
      <4>1. executed' = [executed EXCEPT ![c] = executed[c] \o caught_up(d) \o last_frame(d)]
        BY <1>3, <2>3 DEF on_logic_update
      <4>2. c \in Players /\ executed[c] \in Seq(Nat)
        BY <2>1 DEF TypeOK, LogicFrame
      <4>3. executed[c] \o caught_up(d) \o last_frame(d) \in Seq(Nat)
        BY <2>1, <4>2, CaughtUpType
      <4> QED BY <4>1, <4>2, <4>3 DEF TypeOK
    <3>4. TypeOK'
      <4>1. [seat |-> c, next_frameid |-> d.cur_frameid + 1, acts |-> acts] \in NextFrameOpts
        BY <2>1 DEF LogicFrame, NextFrameOpts
      <4>2. sync_frameid' \in [Players -> Nat]
        BY <2>1, <3>2 DEF TypeOK, LogicFrame
      <4> QED BY <1>3, <2>1, <3>1, <3>3, <4>1, <4>2 DEF on_logic_update, TypeOK, serverVars
    <3>5. AckNotAhead' /\ OnTheirWay'
      BY <1>3, <2>1, <3>1, <3>2
      DEF on_logic_update, TypeOK, serverVars, NextFrameOpts, LogicFrame, AckNotAhead,
          OnTheirWay
    <3> QED BY <1>3, <3>4, <3>5 DEF on_logic_update, FramesNumbered, serverVars
  <2> QED BY <2>2, <2>3
<1>4. ASSUME NEW c \in Players, exit_player(c) PROVE AckInv'
  BY <1>4 DEF exit_player, TypeOK, FramesNumbered, AckNotAhead, OnTheirWay, clientVars,
              serverVars
<1>5. ASSUME NEW c \in Players, re_enter_match(c) PROVE AckInv'
  <2>1. TypeOK'
    BY <1>5 DEF re_enter_match, TypeOK, serverVars
  <2>2. v_frame_id > 0
    BY DEF FramesNumbered, TypeOK
  <2> QED BY <1>5, <2>1, <2>2 DEF re_enter_match, TypeOK, FramesNumbered, AckNotAhead, OnTheirWay,
             serverVars, NextFrameOpts
<1>6. ASSUME NEW c \in Players, reseat(c) PROVE AckInv'
  BY <1>6 DEF reseat, TypeOK, FramesNumbered, AckNotAhead, OnTheirWay, clientVars,
              serverVars
<1>7. CASE UNCHANGED vars
  BY <1>7 DEF vars, TypeOK, FramesNumbered, AckNotAhead, OnTheirWay, clientVars,
              serverVars
<1> QED BY <1>1, <1>2, <1>3, <1>4, <1>5, <1>6, <1>7 DEF Next

\* The server's frames, the clients' frame numbers and the datagrams keep their types.
THEOREM FrameTypes == Spec => []TypeOK
<1>1. AckInv => TypeOK
  BY DEF AckInv
<1> QED BY <1>1, AckInit, AckStep, PTL DEF Spec

\* The log's frames are numbered from 1 without a gap and the frame being collected has
\* the number announced: match_mgr.lua's on_logic_frame.
THEOREM FramesKeepNumbers == Spec => []FramesNumbered
<1>1. AckInv => FramesNumbered
  BY DEF AckInv
<1> QED BY <1>1, AckInit, AckStep, PTL DEF Spec

\* The server takes no frame for executed that the client has not reached, whatever is
\* lost, late or duplicated and however far behind a player is: match_mgr.lua's
\* on_logic_frame and on_next_frame_event.
THEOREM Acknowledged == Spec => []AckNotAhead
<1>1. AckInv => AckNotAhead
  BY DEF AckInv
<1> QED BY <1>1, AckInit, AckStep, PTL DEF Spec

-----------------------------------------------------------------------------
(* Players execute every frame *)

\* What is sent to a player starts no later than the frame after the last it executed
\* and ends with the newest frame, which it has not executed.
Sent(d) ==
  /\ d.first <= sync_frameid[d.seat] + 1
  /\ d.first <= d.last
  /\ d.last = d.cur_frameid
  /\ d.cur_frameid # sync_frameid[d.seat]

\* A player is sent one datagram for each frame.
SentOnce ==
  \A d, e \in to_client : d.seat = e.seat /\ d.cur_frameid = e.cur_frameid => d = e

\* The inductive invariant behind InStep.
StepInv == (\A d \in to_client : Sent(d)) /\ SentOnce /\ InStep

LEMMA RunLen ==
  ASSUME NEW n \in Nat
  PROVE  Run(1, n) \in Seq(Nat) /\ Len(Run(1, n)) = n /\ \A k \in 1 .. n : Run(1, n)[k] = k
BY DEF Run

\* Concatenation adds up lengths.
LEMMA ConcatNat ==
  ASSUME NEW s \in Seq(Nat), NEW t \in Seq(Nat)
  PROVE  s \o t \in Seq(Nat) /\ Len(s \o t) = Len(s) + Len(t)
OBVIOUS

\* Executing the frames from a + 1 to b - 1 and then b continues 1 .. a to 1 .. b.
LEMMA RunOn ==
  ASSUME NEW a \in Nat, NEW b \in Nat, a < b
  PROVE  Run(1, a) \o Run(a + 1, b - 1) \o <<b>> = Run(1, b)
<1> DEFINE mid == Run(a + 1, b - 1)
<1>1. mid \in Seq(Nat) /\ Len(mid) = b - a - 1 /\ \A k \in 1 .. (b - a - 1) : mid[k] = a + k
  <2>1. b - 1 - (a + 1) + 1 = b - a - 1 /\ b - a - 1 \in Nat
    OBVIOUS
  <2>2. mid = [k \in 1 .. (b - a - 1) |-> a + 1 + k - 1]
    BY <2>1 DEF Run
  <2> HIDE DEF mid
  <2>3. mid = [k \in 1 .. (b - a - 1) |-> a + k]
    BY <2>2
  <2>4. \A k \in 1 .. (b - a - 1) : a + k \in Nat
    OBVIOUS
  <2> QED BY <2>1, <2>3, <2>4
<1> HIDE DEF mid
<1> DEFINE pre == Run(1, a)
           most == pre \o mid
<1>2. pre \in Seq(Nat) /\ Len(pre) = a /\ \A k \in 1 .. a : pre[k] = k
  BY RunLen
<1> HIDE DEF pre
<1>3. most \in Seq(Nat) /\ Len(most) = b - 1
  <2>1. most \in Seq(Nat) /\ Len(most) = Len(pre) + Len(mid)
    BY <1>1, <1>2, ConcatNat
  <2> HIDE DEF most
  <2> QED BY <1>1, <1>2, <2>1
<1> HIDE DEF most
<1>4. ASSUME NEW k \in 1 .. (b - 1) PROVE most[k] = k
  <2>1. CASE k <= a
    BY <1>1, <1>2, <2>1 DEF most
  <2>2. CASE a < k
    <3>1. k - a \in 1 .. (b - a - 1)
      BY <2>2
    <3>2. most[k] = mid[k - a]
      BY <1>1, <1>2, <2>2 DEF most
    <3>3. mid[k - a] = a + (k - a)
      BY <1>1, <3>1
    <3>4. a + (k - a) = k
      OBVIOUS
    <3> QED BY <3>2, <3>3, <3>4
  <2> QED BY <2>1, <2>2
<1>5. most \o <<b>> = [k \in 1 .. b |-> k]
  BY <1>3, <1>4
<1>6. Run(1, b) = [k \in 1 .. b |-> k]
  BY DEF Run
<1> QED BY <1>5, <1>6 DEF most, pre, mid

LEMMA StepInit == Init => StepInv
<1>1. Run(1, 0) = <<>>
  BY DEF Run
<1> QED BY <1>1 DEF Init, StepInv, SentOnce, InStep

\* A datagram a client does not drop takes it from its last frame to the newest one.
LEMMA ExecutesOn ==
  ASSUME AckInv, StepInv, NEW d \in to_client, ~outdated(d)
  PROVE  executed[d.seat] \o caught_up(d) \o last_frame(d) = Run(1, d.cur_frameid)
<1> DEFINE m == sync_frameid[d.seat]
           n == d.cur_frameid
<1>1. d \in LogicFrame /\ m \in Nat /\ n \in Nat
  BY DEF AckInv, TypeOK, LogicFrame
<1>2. Sent(d) /\ m < n
  BY <1>1 DEF StepInv, Sent, outdated
<1>3. caught_up(d) = Run(m + 1, n - 1)
  BY <1>1, <1>2 DEF caught_up, Sent, AtLeast, AtMost, LogicFrame
<1>4. last_frame(d) = <<n>>
  BY <1>1, <1>2 DEF last_frame, Sent, LogicFrame
<1>5. executed[d.seat] = Run(1, m)
  BY <1>1 DEF StepInv, InStep, LogicFrame
<1> HIDE DEF m, n
<1>6. Run(1, m) \o Run(m + 1, n - 1) \o <<n>> = Run(1, n)
  BY <1>1, <1>2, RunOn
<1> QED BY <1>3, <1>4, <1>5, <1>6 DEF n

LEMMA StepStep ==
  ASSUME ~LagAllowed, ~DupAllowed
  PROVE  AckInv /\ StepInv /\ [Next]_vars => StepInv'
<1> SUFFICES ASSUME AckInv, StepInv, [Next]_vars PROVE StepInv'
  OBVIOUS
<1>1. CASE on_logic_frame
  <2>1. Punctual /\ UNCHANGED <<v_sunc_frameid, sync_frameid, executed>>
    BY <1>1 DEF on_logic_frame, clientVars
  <2>2. ASSUME NEW c \in Players, place[c] = "seated"
        PROVE  Sent(send_unsync_frames(c))
    <3> DEFINE a == v_sunc_frameid[c]
    <3>0. a \in Nat /\ sync_frameid[c] \in Nat /\ v_frame_id \in Nat /\ WINDOW \in Nat
      BY FrameConstantsOK DEF AckInv, TypeOK
    <3>1. a <= sync_frameid[c] /\ sync_frameid[c] < v_frame_id /\ v_frame_id <= a + WINDOW
      BY <2>1, <2>2, <3>0 DEF Punctual, AckInv, AckNotAhead
    <3>2. /\ send_unsync_frames(c).seat = c
          /\ send_unsync_frames(c).first = v_sunc_frameid[c] + 1
          /\ send_unsync_frames(c).cur_frameid = v_frame_id
          /\ send_unsync_frames(c).last = AtMost(v_sunc_frameid[c] + WINDOW, v_frame_id)
      BY DEF send_unsync_frames
    <3> HIDE DEF a
    <3>3. AtMost(a + WINDOW, v_frame_id) = v_frame_id
      BY <3>0, <3>1 DEF AtMost
    <3> QED BY <3>0, <3>1, <3>2, <3>3 DEF Sent, a
  <2>3. \A d \in to_client' : Sent(d)
    BY <1>1, <2>2 DEF on_logic_frame, StepInv
  <2>4. SentOnce'
    <3>1. \A c \in Players : /\ send_unsync_frames(c).seat = c
                            /\ send_unsync_frames(c).cur_frameid = v_frame_id
      BY DEF send_unsync_frames
    <3>2. \A d \in to_client : d.cur_frameid # v_frame_id
      BY DEF AckInv, OnTheirWay, TypeOK, LogicFrame
    <3> QED BY <1>1, <3>1, <3>2 DEF on_logic_frame, StepInv, SentOnce
  <2> QED BY <2>1, <2>3, <2>4 DEF StepInv, Sent, InStep
<1>2. ASSUME NEW d \in to_server, on_next_frame_event(d) PROVE StepInv'
  BY <1>2 DEF on_next_frame_event, StepInv, Sent, SentOnce, InStep, clientVars
<1>3. ASSUME NEW d \in to_client, on_logic_update(d) PROVE StepInv'
  <2> DEFINE c == d.seat
  <2>1. to_client' = to_client \ {d}
    BY <1>3 DEF on_logic_update, Delivered
  <2>2. d \in LogicFrame /\ c \in Players
    BY DEF AckInv, TypeOK, LogicFrame
  <2>3. CASE outdated(d)
    BY <1>3, <2>1, <2>3 DEF on_logic_update, StepInv, Sent, SentOnce, InStep, clientVars
  <2>4. CASE ~outdated(d)
    <3>1. /\ sync_frameid' = [sync_frameid EXCEPT ![c] = d.cur_frameid]
          /\ executed' = [executed EXCEPT ![c] = Run(1, d.cur_frameid)]
      BY <1>3, <2>4, ExecutesOn DEF on_logic_update
    <3>2. sync_frameid[c] <= d.cur_frameid
      BY <2>2, <2>4 DEF outdated, AckInv, TypeOK, LogicFrame
    <3>3. ASSUME NEW e \in to_client' PROVE Sent(e)'
      <4>1. e \in to_client /\ e # d /\ e \in LogicFrame /\ Sent(e)
        BY <2>1 DEF StepInv, AckInv, TypeOK
      <4>2. CASE e.seat = c
        <5>1. e.cur_frameid # d.cur_frameid
          BY <4>1, <4>2 DEF StepInv, SentOnce
        <5>2. sync_frameid'[c] = d.cur_frameid
          BY <2>2, <3>1 DEF AckInv, TypeOK
        <5> QED BY <2>2, <3>2, <4>1, <4>2, <5>1, <5>2
                DEF Sent, AckInv, TypeOK, LogicFrame
      <4>3. CASE e.seat # c
        BY <3>1, <4>1, <4>3 DEF Sent, AckInv, TypeOK, LogicFrame
      <4> QED BY <4>2, <4>3
    <3>4. InStep'
      BY <2>2, <3>1 DEF StepInv, InStep, AckInv, TypeOK
    <3>5. SentOnce'
      BY <2>1 DEF StepInv, SentOnce
    <3> QED BY <3>3, <3>4, <3>5 DEF StepInv
  <2> QED BY <2>3, <2>4
<1>4. ASSUME NEW c \in Players, exit_player(c) PROVE StepInv'
  BY <1>4 DEF exit_player, StepInv, Sent, SentOnce, InStep, clientVars
<1>5. ASSUME NEW c \in Players, re_enter_match(c) PROVE StepInv'
  <2>1. Run(1, 0) = <<>>
    BY DEF Run
  <2>2. InStep'
    BY <1>5, <2>1 DEF re_enter_match, StepInv, InStep, AckInv, TypeOK
  <2> QED BY <1>5, <2>2 DEF re_enter_match, StepInv, Sent, SentOnce, AckInv, TypeOK, LogicFrame
<1>6. ASSUME NEW c \in Players, reseat(c) PROVE StepInv'
  BY <1>6 DEF reseat, StepInv, Sent, SentOnce, InStep, clientVars
<1>7. CASE UNCHANGED vars
  BY <1>7 DEF vars, StepInv, Sent, SentOnce, InStep, clientVars
<1> QED BY <1>1, <1>2, <1>3, <1>4, <1>5, <1>6, <1>7 DEF Next

\* Every player executes every frame, each once and in order, for any number of players
\* and frames, however datagrams are delayed, reordered or lost: as long as nobody falls
\* further behind than one datagram reaches and no datagram comes twice.
\* on_logic_update of game_zygote.cs with send_unsync_frames of match_mgr.lua.
THEOREM ExecutesEveryFrame ==
  ASSUME ~LagAllowed, ~DupAllowed
  PROVE  Spec => []InStep
<1>1. StepInv => InStep
  BY DEF StepInv
<1>2. AckInv /\ StepInv /\ [Next]_vars => StepInv'
  BY StepStep
<1> QED BY <1>1, <1>2, AckInit, AckStep, StepInit, PTL DEF Spec

-----------------------------------------------------------------------------
(* A player answers a frame once *)

\* The frame being collected has one answer of a player at most.
Distinct(opts) == \A j, k \in 1 .. Len(opts) : opts[j] = opts[k] => j = k

\* Each frame sent to a player is answered once: it is on its way to the player, or its
\* answer is on its way to the server, or neither, and an answer that has been collected
\* is on its way no more.  The first frame sent is number 1: nobody answers for the
\* frame collected before it, whose idle operation has a player's seat.
AnsweredOnce ==
  /\ \A d \in to_client : d.cur_frameid >= 1
  /\ \A a \in to_server : a.next_frameid >= 2
  /\ \A a \in to_server : \A d \in to_client :
       a.seat = d.seat => a.next_frameid # d.cur_frameid + 1
  /\ \A a, b \in to_server : a.seat = b.seat /\ a.next_frameid = b.next_frameid => a = b
Collected ==
  /\ v_frame_id > 1 =>
       \A k \in 1 .. Len(v_next_FrameOpt.opts) :
         /\ \A a \in to_server :
              a.next_frameid = v_frame_id => a.seat # v_next_FrameOpt.opts[k]
         /\ \A d \in to_client :
              d.cur_frameid = v_frame_id - 1 => d.seat # v_next_FrameOpt.opts[k]
  /\ Distinct(v_next_FrameOpt.opts)

\* The inductive invariant behind OneAnswerPerFrame.
AnswerInv == SentOnce /\ AnsweredOnce /\ Collected /\ OneAnswerPerFrame

LEMMA AnswerInit == Init => AnswerInv
<1> SUFFICES ASSUME Init PROVE AnswerInv
  OBVIOUS
<1>1. v_next_FrameOpt.opts = <<FIRST_SEAT>>
  BY DEF Init
<1>2. Distinct(v_next_FrameOpt.opts)
  BY <1>1 DEF Distinct
<1> QED BY <1>2 DEF Init, AnswerInv, SentOnce, AnsweredOnce, Collected, OneAnswerPerFrame

LEMMA AppendElements ==
  ASSUME NEW S, NEW s \in Seq(S), NEW x \in S
  PROVE  \A k \in 1 .. Len(Append(s, x)) :
           Append(s, x)[k] = x \/ (k \in 1 .. Len(s) /\ Append(s, x)[k] = s[k])
<1>1. Len(s) \in Nat /\ Len(Append(s, x)) = Len(s) + 1
  BY AppendProperties, LenProperties
<1> SUFFICES ASSUME NEW k \in 1 .. Len(s) + 1
             PROVE  Append(s, x)[k] = x \/ (k \in 1 .. Len(s) /\ Append(s, x)[k] = s[k])
  BY <1>1
<1>2. CASE k = Len(s) + 1
  BY <1>2, AppendProperties
<1>3. CASE k \in 1 .. Len(s)
  BY <1>3, AppendProperties
<1> QED BY <1>1, <1>2, <1>3

\* A seat that is not in a list of distinct seats may join it.
LEMMA DistinctAppend ==
  ASSUME NEW S, NEW opts \in Seq(S), NEW x \in S, Distinct(opts),
         \A k \in 1 .. Len(opts) : opts[k] # x
  PROVE  Distinct(Append(opts, x))
BY DEF Distinct

LEMMA AnswerStep ==
  ASSUME ~DupAllowed
  PROVE  AckInv /\ AnswerInv /\ [Next]_vars => AnswerInv'
<1> SUFFICES ASSUME AckInv, AnswerInv, [Next]_vars PROVE AnswerInv'
  OBVIOUS
<1>1. CASE on_logic_frame
  <2>1. \A c \in Players : /\ send_unsync_frames(c).seat = c
                          /\ send_unsync_frames(c).cur_frameid = v_frame_id
    BY DEF send_unsync_frames
  <2>2. \A e \in to_client' : e \in to_client \/ e.cur_frameid = v_frame_id
    BY <1>1, <2>1 DEF on_logic_frame
  <2>3. v_frame_id \in Nat /\ v_frame_id >= 1
    BY DEF AckInv, TypeOK, FramesNumbered
  <2>4. SentOnce'
    <3>1. \A d \in to_client : d.cur_frameid # v_frame_id
      BY DEF AckInv, OnTheirWay, TypeOK, LogicFrame
    <3> QED BY <1>1, <2>1, <3>1 DEF on_logic_frame, AnswerInv, SentOnce
  <2>5. \A a \in to_server : a.next_frameid < v_frame_id + 1 /\ a.next_frameid \in Nat
    BY <2>3 DEF AckInv, OnTheirWay, TypeOK, NextFrameOpts, AckNotAhead
  <2>6. AnsweredOnce'
    BY <1>1, <2>2, <2>3, <2>5 DEF on_logic_frame, AnswerInv, AnsweredOnce
  <2>7. Collected'
    BY <1>1 DEF on_logic_frame, Collected, Distinct
  <2>8. OneAnswerPerFrame'
    BY <1>1 DEF on_logic_frame, AnswerInv, Collected, Distinct, OneAnswerPerFrame, AckInv, TypeOK
  <2> QED BY <2>4, <2>6, <2>7, <2>8 DEF AnswerInv
<1>2. ASSUME NEW d \in to_server, on_next_frame_event(d) PROVE AnswerInv'
  <2>1. to_server' = to_server \ {d} /\ UNCHANGED <<v_frame_id, v_all_match_FramesOpts, to_client>>
    BY <1>2 DEF on_next_frame_event, Delivered
  <2>2. SentOnce' /\ AnsweredOnce' /\ OneAnswerPerFrame'
    BY <2>1 DEF AnswerInv, SentOnce, AnsweredOnce, OneAnswerPerFrame
  <2>3. CASE v_next_FrameOpt' = v_next_FrameOpt
    BY <2>1, <2>2, <2>3 DEF AnswerInv, Collected
  <2>4. CASE in_time(d) /\ v_next_FrameOpt' = [v_next_FrameOpt EXCEPT !.opts = Append(@, d.seat)]
    <3> DEFINE opts == v_next_FrameOpt.opts
    <3>1. /\ opts \in Seq(Players \cup {FIRST_SEAT}) /\ d.seat \in Players \cup {FIRST_SEAT}
          /\ v_next_FrameOpt'.opts = Append(opts, d.seat)
      BY <2>4 DEF AckInv, TypeOK, FrameOpts, NextFrameOpts
    <3>2. v_frame_id > 1 /\ d.next_frameid = v_frame_id
      BY <2>4 DEF in_time, AnswerInv, AnsweredOnce, AckInv, TypeOK
    <3>3. \A k \in 1 .. Len(opts) : opts[k] # d.seat
      BY <3>2 DEF AnswerInv, Collected
    <3>4. Distinct(v_next_FrameOpt'.opts)
      BY <3>1, <3>3, DistinctAppend DEF AnswerInv, Collected
    <3>5. /\ \A a \in to_server' : a.next_frameid = v_frame_id => a.seat # d.seat
          /\ \A e \in to_client : e.cur_frameid = v_frame_id - 1 => e.seat # d.seat
      BY <2>1, <3>2 DEF AnswerInv, AnsweredOnce, AckInv, TypeOK, LogicFrame
    <3>6. \A k \in 1 .. Len(v_next_FrameOpt'.opts) :
             \/ v_next_FrameOpt'.opts[k] = d.seat
             \/ k \in 1 .. Len(opts) /\ v_next_FrameOpt'.opts[k] = opts[k]
      <4> HIDE DEF opts
      <4> QED BY <3>1, AppendElements
    <3> HIDE DEF opts
    <3>7. Collected'
      BY <2>1, <3>2, <3>4, <3>5, <3>6 DEF AnswerInv, Collected, opts
    <3> QED BY <2>2, <3>7 DEF AnswerInv
  <2> QED BY <1>2, <2>3, <2>4 DEF on_next_frame_event
<1>3. ASSUME NEW d \in to_client, on_logic_update(d) PROVE AnswerInv'
  <2> DEFINE c == d.seat
  <2>1. to_client' = to_client \ {d} /\ UNCHANGED serverVars
    BY <1>3 DEF on_logic_update, Delivered
  <2>2. d \in LogicFrame /\ c \in Players
    BY DEF AckInv, TypeOK, LogicFrame
  <2>3. SentOnce' /\ OneAnswerPerFrame'
    BY <2>1 DEF serverVars, AnswerInv, SentOnce, OneAnswerPerFrame
  <2>4. CASE outdated(d)
    BY <1>3, <2>1, <2>3, <2>4 DEF on_logic_update, serverVars, AnswerInv, AnsweredOnce, Collected
  <2>5. CASE ~outdated(d)
    <3>1. PICK acts \in BOOLEAN : to_server' = to_server \cup
             {[seat |-> c, next_frameid |-> d.cur_frameid + 1, acts |-> acts]}
      BY <1>3, <2>5 DEF on_logic_update
    <3> DEFINE new == [seat |-> c, next_frameid |-> d.cur_frameid + 1, acts |-> acts]
    <3>2. new.seat = c /\ new.next_frameid = d.cur_frameid + 1 /\ d.cur_frameid \in Nat
          /\ d.cur_frameid >= 1
      BY <2>2 DEF LogicFrame, AnswerInv, AnsweredOnce
    <3>3. to_server' = to_server \cup {new}
      BY <3>1
    <3> HIDE DEF new
    <3>4. \A a \in to_server : a.seat = c => a.next_frameid # new.next_frameid
      BY <3>2 DEF AnswerInv, AnsweredOnce
    <3>5. \A e \in to_client' : e.seat = c => e.cur_frameid # d.cur_frameid
      BY <2>1 DEF AnswerInv, SentOnce
    <3>6. AnsweredOnce'
      <4>1. ASSUME NEW a \in to_server', NEW e \in to_client', a.seat = e.seat
            PROVE  a.next_frameid # e.cur_frameid + 1
        <5>1. CASE a = new
          <6>1. e.cur_frameid # d.cur_frameid /\ e.cur_frameid \in Nat
            BY <2>1, <3>2, <3>5, <4>1, <5>1 DEF AckInv, TypeOK, LogicFrame
          <6> QED BY <3>2, <5>1, <6>1
        <5>2. CASE a \in to_server
          BY <2>1, <4>1, <5>2 DEF AnswerInv, AnsweredOnce
        <5> QED BY <3>3, <5>1, <5>2
      <4>2. \A a, b \in to_server' : a.seat = b.seat /\ a.next_frameid = b.next_frameid => a = b
        BY <3>2, <3>3, <3>4 DEF AnswerInv, AnsweredOnce
      <4>3. \A a \in to_server' : a.next_frameid >= 2
        BY <3>2, <3>3 DEF AnswerInv, AnsweredOnce
      <4>4. \A e \in to_client' : e.cur_frameid >= 1
        BY <2>1 DEF AnswerInv, AnsweredOnce
      <4> QED BY <4>1, <4>2, <4>3, <4>4 DEF AnsweredOnce
    <3>7. Collected'
      <4>1. v_frame_id' = v_frame_id /\ v_next_FrameOpt' = v_next_FrameOpt /\ v_frame_id \in Nat
        BY <2>1 DEF serverVars, AckInv, TypeOK
      <4>2. ASSUME NEW k \in 1 .. Len(v_next_FrameOpt.opts), v_frame_id > 1,
                   new.next_frameid = v_frame_id
            PROVE  c # v_next_FrameOpt.opts[k]
        <5>1. d.cur_frameid = v_frame_id - 1
          BY <3>2, <4>1, <4>2
        <5> QED BY <4>2, <5>1 DEF AnswerInv, Collected
      <4> QED BY <2>1, <3>2, <3>3, <4>1, <4>2 DEF AnswerInv, Collected
    <3> QED BY <2>3, <3>6, <3>7 DEF AnswerInv
  <2> QED BY <2>4, <2>5
<1>4. ASSUME NEW c \in Players, exit_player(c) PROVE AnswerInv'
  BY <1>4 DEF exit_player, serverVars, AnswerInv, SentOnce, AnsweredOnce, Collected, OneAnswerPerFrame
<1>5. ASSUME NEW c \in Players, re_enter_match(c) PROVE AnswerInv'
  BY <1>5 DEF re_enter_match, serverVars, AnswerInv, SentOnce, AnsweredOnce, Collected, OneAnswerPerFrame
<1>6. ASSUME NEW c \in Players, reseat(c) PROVE AnswerInv'
  BY <1>6 DEF reseat, serverVars, AnswerInv, SentOnce, AnsweredOnce, Collected, OneAnswerPerFrame
<1>7. CASE UNCHANGED vars
  BY <1>7 DEF vars, serverVars, AnswerInv, SentOnce, AnsweredOnce, Collected, OneAnswerPerFrame
<1> QED BY <1>1, <1>2, <1>3, <1>4, <1>5, <1>6, <1>7 DEF Next

\* A player's operations enter a frame once, however late its answers are, however far
\* behind it is and however often it leaves and comes back, as long as no datagram comes
\* twice: on_next_frame_event of match_mgr.lua compares no seats, it relies on a client
\* answering a frame once.
THEOREM AnswersOnce ==
  ASSUME ~DupAllowed
  PROVE  Spec => []OneAnswerPerFrame
<1>1. AnswerInv => OneAnswerPerFrame
  BY DEF AnswerInv
<1>2. AckInv /\ AnswerInv /\ [Next]_vars => AnswerInv'
  BY AnswerStep
<1> QED BY <1>1, <1>2, AckInit, AckStep, AnswerInit, PTL DEF Spec

-----------------------------------------------------------------------------
(* Server and clients implement Lockstep *)

log == v_all_match_FramesOpts
view == [c \in Players |-> frames_of(c)]

\* What a player has executed is the beginning of the log.
LEMMA ViewIsPrefix ==
  ASSUME AckInv, StepInv, NEW c \in Players
  PROVE  /\ frames_of(c) = [i \in 1 .. sync_frameid[c] |-> log[i]]
         /\ Len(frames_of(c)) = sync_frameid[c]
         /\ sync_frameid[c] \in 0 .. Len(log)
<1>1. sync_frameid[c] \in Nat /\ sync_frameid[c] < v_frame_id /\ v_frame_id \in Nat
  BY DEF AckInv, TypeOK, AckNotAhead
<1>2. Len(log) = v_frame_id - 1
  BY DEF AckInv, FramesNumbered, log
<1>3. executed[c] = Run(1, sync_frameid[c])
  BY DEF StepInv, InStep
<1>4. Len(executed[c]) = sync_frameid[c]
      /\ \A i \in 1 .. sync_frameid[c] : executed[c][i] = i
  BY <1>1, <1>3, RunLen
<1>5. frames_of(c) = [i \in 1 .. sync_frameid[c] |-> log[i]]
  BY <1>4 DEF frames_of, log
<1> QED BY <1>1, <1>2, <1>5

LEMMA LockstepInit == Init => Promise!Init
BY DEF Init, Promise!Init, frames_of

LEMMA LockstepStep ==
  ASSUME ~LagAllowed, ~DupAllowed
  PROVE  AckInv /\ AckInv' /\ StepInv /\ StepInv' /\ [Next]_vars => [Promise!Next]_(Promise!vars)
<1> SUFFICES ASSUME AckInv, AckInv', StepInv, StepInv', [Next]_vars
             PROVE  Promise!Next \/ (log' = log /\ view' = view)
  BY DEF Promise!vars, log, view
<1>1. CASE on_logic_frame
  <2>1. log' = Append(log, v_next_FrameOpt) /\ log \in Seq(FrameOpts)
        /\ v_next_FrameOpt \in FrameOpts
    BY <1>1 DEF on_logic_frame, log, AckInv, TypeOK
  <2>2. Len(log') = Len(log) + 1 /\ \A i \in 1 .. Len(log) : log'[i] = log[i]
    BY <2>1
  <2>3. SubSeq(log', 1, Len(log)) = log
    BY <2>1
  <2>4. ASSUME NEW c \in Players PROVE frames_of(c)' = frames_of(c)
    <3>1. executed'[c] = Run(1, sync_frameid[c]) /\ sync_frameid[c] \in Nat
      BY <1>1 DEF on_logic_frame, clientVars, StepInv, InStep, AckInv, TypeOK
    <3>2. /\ frames_of(c) = [i \in 1 .. sync_frameid[c] |-> log[i]]
          /\ sync_frameid[c] \in 0 .. Len(log)
      BY ViewIsPrefix
    <3>3. frames_of(c)' = [i \in 1 .. sync_frameid[c] |-> log'[i]]
      BY <3>1, RunLen DEF frames_of, log
    <3> QED BY <2>1, <2>2, <3>1, <3>2, <3>3
  <2>5. view' = view
    BY <2>4 DEF view
  <2>6. Promise!Extend
    BY <2>2, <2>3, <2>5 DEF Promise!Extend, log, view
  <2> QED BY <2>6 DEF Promise!Next
<1>2. ASSUME NEW d \in to_server, on_next_frame_event(d)
      PROVE  log' = log /\ view' = view
  BY <1>2 DEF on_next_frame_event, clientVars, log, view, frames_of
<1>3. ASSUME NEW d \in to_client, on_logic_update(d)
      PROVE  Promise!Next \/ (log' = log /\ view' = view)
  <2> DEFINE c == d.seat
             n == d.cur_frameid
  <2>1. d \in LogicFrame /\ c \in Players /\ n \in Nat /\ n < v_frame_id
    BY DEF AckInv, TypeOK, LogicFrame, OnTheirWay
  <2>2. log' = log
    BY <1>3 DEF on_logic_update, serverVars, log
  <2>3. CASE outdated(d)
    BY <1>3, <2>3 DEF on_logic_update, clientVars, serverVars, log, view, frames_of
  <2>4. CASE ~outdated(d)
    <3>1. /\ executed' = [executed EXCEPT ![c] = Run(1, n)]
          /\ sync_frameid[c] <= n
      <4>1. executed' = [executed EXCEPT ![c] = Run(1, n)]
        BY <1>3, <2>4, ExecutesOn DEF on_logic_update
      <4>2. sync_frameid[c] <= n
        BY <2>1, <2>4 DEF outdated, AckInv, TypeOK
      <4> QED BY <4>1, <4>2
    <3>2. n \in 0 .. Len(log) /\ log \in Seq(FrameOpts)
      BY <2>1 DEF AckInv, FramesNumbered, TypeOK, log
    <3>3. frames_of(c)' = SubSeq(log, 1, n)
      <4>1. executed'[c] = Run(1, n)
        BY <2>1, <3>1 DEF AckInv, TypeOK
      <4>2. frames_of(c)' = [i \in 1 .. n |-> log[i]]
        BY <2>1, <2>2, <4>1, RunLen DEF frames_of, log
      <4> QED BY <3>2, <4>2
    <3>4. \A p \in Players \ {c} : frames_of(p)' = frames_of(p)
      BY <2>2, <3>1 DEF frames_of, log, AckInv, TypeOK
    <3>5. view' = [view EXCEPT ![c] = SubSeq(log, 1, n)]
      BY <2>1, <3>3, <3>4 DEF view
    <3>6. Len(view[c]) <= n
      BY <2>1, <3>1, ViewIsPrefix DEF view
    <3>7. Promise!Execute(c, n)
      BY <2>2, <3>5, <3>6 DEF Promise!Execute, log, view
    <3> QED BY <2>1, <3>2, <3>7 DEF Promise!Next, log
  <2> QED BY <2>3, <2>4
<1>4. ASSUME NEW c \in Players, exit_player(c) PROVE log' = log /\ view' = view
  BY <1>4 DEF exit_player, clientVars, serverVars, log, view, frames_of
<1>5. ASSUME NEW c \in Players, re_enter_match(c) PROVE Promise!Next
  <2>1. log' = log /\ executed' = [executed EXCEPT ![c] = <<>>]
    BY <1>5 DEF re_enter_match, serverVars, log
  <2>2. frames_of(c)' = <<>>
    BY <2>1 DEF frames_of, AckInv, TypeOK
  <2>3. \A p \in Players \ {c} : frames_of(p)' = frames_of(p)
    BY <2>1 DEF frames_of, log, AckInv, TypeOK
  <2>4. Promise!Restart(c)
    BY <2>1, <2>2, <2>3 DEF Promise!Restart, log, view
  <2> QED BY <2>4 DEF Promise!Next
<1>6. ASSUME NEW c \in Players, reseat(c) PROVE log' = log /\ view' = view
  BY <1>6 DEF reseat, clientVars, serverVars, log, view, frames_of
<1>7. CASE UNCHANGED vars
  BY <1>7 DEF vars, clientVars, serverVars, log, view, frames_of
<1> QED BY <1>1, <1>2, <1>3, <1>4, <1>5, <1>6, <1>7 DEF Next

\* Under the same conditions the server's log and what the clients execute of it behave
\* as Lockstep says: the log only grows, and a player executes its beginning.
THEOREM ImplementsLockstep ==
  ASSUME ~LagAllowed, ~DupAllowed
  PROVE  Spec => KeepsLockstep
<1>1. AckInv /\ StepInv /\ [Next]_vars => StepInv'
  BY StepStep
<1>2. AckInv /\ AckInv' /\ StepInv /\ StepInv' /\ [Next]_vars => [Promise!Next]_(Promise!vars)
  BY LockstepStep
<1> QED BY <1>1, <1>2, AckInit, AckStep, StepInit, LockstepInit, PTL
        DEF Spec, KeepsLockstep, Promise!Spec
=============================================================================
