---------------------------- MODULE MCHilSession ----------------------------
(* Instances of HilSession for TLC: client sets, fault sets and symmetry. *)
EXTENDS HilSessionInv, TLC

CONSTANTS first, second, third

TwoClients == {first, second}
ThreeClients == {first, second, third}

\* One client stops before its sequence counter overflows, the other does not.
Apart == (first :> 3) @@ (second :> 4)
Equal == [c \in ThreeClients |-> 3]

AllFaults == FaultKinds

\* Clients are interchangeable: no definition tells one from another.
ClientSymmetry == Permutations(ThreeClients)
=============================================================================
