----------------------------- MODULE LatestValue -----------------------------
(***************************************************************************)
(* What a place for the latest value promises to its reader: values are    *)
(* published one after the other, each replaces the one before, and a look *)
(* finds one that was published and is no older than the last one found.   *)
(* Any number of values may be missed.                                     *)
(***************************************************************************)
EXTENDS Naturals

VARIABLES
    newest,     \* the number of the value published last, or 0
    seen        \* the number of the value the reader uses, or 0

vars == <<newest, seen>>

Init == newest = 0 /\ seen = 0

Publish == newest' = newest + 1 /\ UNCHANGED seen

Look == seen' \in seen .. newest /\ UNCHANGED newest

Next == Publish \/ Look

Spec == Init /\ [][Next]_vars
=============================================================================
