---------------------------- MODULE MCFrameSync ----------------------------
(***************************************************************************)
(* Small matches for TLC: two players, and a robot on the seat of the idle *)
(* operation of the first frame.                                           *)
(***************************************************************************)
EXTENDS FrameSync, TLC

CONSTANTS s1, s2, s3

TwoSeats == {s1, s2}
Symmetry == Permutations(TwoSeats)
=============================================================================
