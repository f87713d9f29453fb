------------------------------ MODULE Channel -------------------------------
(***************************************************************************)
(* What a connection promises to the code on top of it: the messages of    *)
(* one side reach the other side whole, once each and in order, one by one *)
(* or several at a time.  Nothing is promised about when, nor that the     *)
(* last ones arrive if the connection ends.                                *)
(***************************************************************************)
EXTENDS Naturals, Sequences

VARIABLES
  sent,  \* number of messages sent so far: they are 1 .. sent
  got    \* the messages received so far

vars == <<sent, got>>

Init == sent = 0 /\ got = <<>>

Send == sent' = sent + 1 /\ UNCHANGED got

\* The next messages, up to the n-th, are received.
Receive(n) ==
  /\ n > Len(got)
  /\ got' = [i \in 1 .. n |-> i]
  /\ UNCHANGED sent

Next == Send \/ \E n \in 1 .. sent : Receive(n)

Spec == Init /\ [][Next]_vars
=============================================================================
