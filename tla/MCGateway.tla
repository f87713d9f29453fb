------------------------------ MODULE MCGateway ------------------------------
(* Instances of Gateway for TLC. *)
EXTENDS Gateway, TLC

CONSTANTS s1, s2, s3, u1, u2

\* Addresses and accounts are interchangeable.
Symmetry == Permutations(Sessions) \cup Permutations(Uids)
=============================================================================
