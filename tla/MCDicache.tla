----------------------------- MODULE MCDicache -----------------------------
(* Small instances of Dicache for TLC. *)
EXTENDS Dicache

Symmetric == Permutations(Clients)
=============================================================================
