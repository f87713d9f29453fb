----------------------------- MODULE MCAccounts -----------------------------
(* The auth server's accounts for TLC. *)
EXTENDS Accounts

\* Two clients share a key, a third has its own.
SharedKey == [c \in Clients |-> IF c = "c3" THEN "k2" ELSE "k1"]
=============================================================================
