------------------------------ MODULE MCDpid -------------------------------
EXTENDS Dpid, TLC
=============================================================================
