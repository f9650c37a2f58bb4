----------------------------- MODULE MCSimBridge -----------------------------
(* The bridge with one body motor and one motor of each hand, two fields   *)
(* of each, for TLC.                                                       *)
EXTENDS SimBridge

MCReads == <<"body", "body", "left", "left", "right", "right">>
TwoBodyCommands == [s \in Streams |-> IF s = "body" THEN 2 ELSE 1]
=============================================================================
