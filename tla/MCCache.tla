------------------------------ MODULE MCCache ------------------------------
(* Small instances of Cache for TLC. *)
EXTENDS Cache

Symmetric == Permutations(Urls) \cup Permutations(Windows)
=============================================================================
