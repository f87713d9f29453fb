------------------------------ MODULE Lockstep ------------------------------
(***************************************************************************)
(* What frame synchronisation promises: there is one log of frames, which  *)
(* only grows, and every player executes the frames of the log, each once  *)
(* and in order.  A player who comes back to the game starts it over.      *)
(***************************************************************************)
EXTENDS Naturals, Sequences

CONSTANT Players

VARIABLES
  log,          \* the frames of the game so far
  view          \* the frames each player has executed

vars == <<log, view>>

Init == log = <<>> /\ view = [c \in Players |-> <<>>]

\* One frame, whatever it carries, joins the log.
Extend ==
  /\ Len(log') = Len(log) + 1
  /\ SubSeq(log', 1, Len(log)) = log
  /\ UNCHANGED view

\* Player c executes the log from where it is to frame n.
Execute(c, n) ==
  /\ n >= Len(view[c])
  /\ view' = [view EXCEPT ![c] = SubSeq(log, 1, n)]
  /\ UNCHANGED log

Restart(c) == view' = [view EXCEPT ![c] = <<>>] /\ UNCHANGED log

Next ==
  \/ Extend
  \/ \E c \in Players, n \in 0 .. Len(log) : Execute(c, n)
  \/ \E c \in Players : Restart(c)

Spec == Init /\ [][Next]_vars
=============================================================================
