------------------------------- MODULE MCHttp -------------------------------
(* Small instances of Http for TLC. *)
EXTENDS Http

Symmetric == Permutations(Socks) \cup Permutations(Fds)
=============================================================================
