------------------------------- MODULE MCDns -------------------------------
(* Small instances of Dns for TLC. *)
EXTENDS Dns, TLC

Symmetric == Permutations(Hosts) \cup Permutations(Clients)
=============================================================================
