----------------------------- MODULE LossyTopic -----------------------------
(***************************************************************************)
(* What a channel with a handler promises to the code above it, and all    *)
(* that it promises: the handler is called with published samples, in the  *)
(* order they were published, none of them twice. Any of them may be       *)
(* missing.                                                                *)
(***************************************************************************)
EXTENDS Naturals, Sequences

VARIABLES
    sent,       \* how many samples the publisher has written: 1, 2, ...
    handled     \* the samples the handler was called with, oldest first

vars == <<sent, handled>>

Newest(s) == IF s = << >> THEN 0 ELSE s[Len(s)]

Init == sent = 0 /\ handled = << >>

Publish == sent' = sent + 1 /\ UNCHANGED handled

Handle ==
    /\ \E n \in Newest(handled) + 1 .. sent : handled' = Append(handled, n)
    /\ UNCHANGED sent

Next == Publish \/ Handle

Spec == Init /\ [][Next]_vars
=============================================================================
