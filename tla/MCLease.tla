------------------------------- MODULE MCLease -------------------------------
(* Two clients, for TLC.                                                   *)
EXTENDS Lease

CONSTANTS c1, c2

MCClients == {c1, c2}
=============================================================================
