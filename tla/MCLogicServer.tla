---------------------------- MODULE MCLogicServer ----------------------------
(***************************************************************************)
(* Instances of LogicServer for TLC.                                       *)
(***************************************************************************)
EXTENDS LogicServer, TLC

CONSTANTS u1, u2, r1

OneZone == {1}
TwoZones == {1, 2}
Symmetry == Permutations(Uids)
AllInFirstZone == [r \in Robots |-> 1]

=============================================================================
