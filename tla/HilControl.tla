----------------------------- MODULE HilControl -----------------------------
(***************************************************************************)
(* What the hardware-in-the-loop session promises to the simulation: a     *)
(* closed control loop.  One client owns the policy server for its whole   *)
(* life; the owner alternates observing and acting; the action applied at  *)
(* a tick was computed from the observation of that tick; a client ends    *)
(* after its ticks or fails before.                                        *)
(***************************************************************************)
EXTENDS Integers

CONSTANTS Clients, NoClient, Steps

VARIABLES
  owner,    \* the client that the server has accepted
  tick,     \* control ticks each client has completed
  waiting,  \* has the client an observation out?
  applied,  \* the tick whose observation gave the newest action, 0 for none
  status    \* "running", "done" or "failed"

vars == <<owner, tick, waiting, applied, status>>

Init ==
  /\ owner = NoClient
  /\ tick = [c \in Clients |-> 0]
  /\ waiting = [c \in Clients |-> FALSE]
  /\ applied = [c \in Clients |-> 0]
  /\ status = [c \in Clients |-> "running"]

Own(c) ==
  /\ owner = NoClient
  /\ owner' = c
  /\ UNCHANGED <<tick, waiting, applied, status>>

Observe(c) ==
  /\ status[c] = "running" /\ ~waiting[c] /\ tick[c] < Steps[c]
  /\ waiting' = [waiting EXCEPT ![c] = TRUE]
  /\ UNCHANGED <<owner, tick, applied, status>>

Act(c) ==
  /\ status[c] = "running" /\ waiting[c] /\ owner = c
  /\ applied' = [applied EXCEPT ![c] = tick[c] + 1]
  /\ tick' = [tick EXCEPT ![c] = @ + 1]
  /\ waiting' = [waiting EXCEPT ![c] = FALSE]
  /\ UNCHANGED <<owner, status>>

Finish(c) ==
  /\ status[c] = "running" /\ ~waiting[c] /\ tick[c] = Steps[c]
  /\ status' = [status EXCEPT ![c] = "done"]
  /\ UNCHANGED <<owner, tick, waiting, applied>>

\* A failure may strike after the action was taken over.
Fail(c) ==
  /\ status[c] = "running"
  /\ status' = [status EXCEPT ![c] = "failed"]
  /\ waiting' = [waiting EXCEPT ![c] = FALSE]
  /\ \/ UNCHANGED applied
     \/ waiting[c] /\ owner = c /\ applied' = [applied EXCEPT ![c] = tick[c] + 1]
  /\ UNCHANGED <<owner, tick>>

Next == \E c \in Clients : Own(c) \/ Observe(c) \/ Act(c) \/ Finish(c) \/ Fail(c)

Spec == Init /\ [][Next]_vars
=============================================================================
