------------------------------ MODULE SimBridge ------------------------------
(***************************************************************************)
(* How a command reaches the motors of the simulator: UnitreeSdk2Bridge    *)
(* (official_sim/.../unitree_sdk2py_bridge.py), its three subscriptions,   *)
(* and the loop of BaseSimulator with the PD path of DefaultEnv            *)
(* (base_sim.py). Each subscription has the "ch_reader" thread and the     *)
(* queue of module Channel; here a sample is either lost or put into the   *)
(* queue at once. The simulation thread reads the current command without  *)
(* the handlers' locks, one field of one motor after the other.            *)
(*                                                                         *)
(* A command is its number in the order its stream was published; 0 is the *)
(* default command the bridge is built with.                               *)
(*                                                                         *)
(* Init, Next, Spec, Inv and the like have the prefix Bridge here, so that *)
(* Simulator_proofs can speak of this module and of Simulator.             *)
(***************************************************************************)
EXTENDS BQueue

CONSTANTS
    Reads,      \* the reads of one simulation step: whose command each looks at
    QueueLen,   \* the queueLen of the subscriptions: 1 in the code
    MaxSent     \* bound: commands published on each stream

Streams == {"body", "left", "right"}

ASSUME ReadsAssumption ==
    /\ Reads \in Seq(Streams)
    /\ \A i, j \in DOMAIN Reads : i < j /\ Reads[j] = "body" => Reads[i] = "body"
ASSUME QueueAssumption == QueueLen \in Nat \ {0} /\ MaxSent \in [Streams -> Nat]

VARIABLES
    sent,       \* commands published on each stream
    boot,       \* statements of __init__ below that were executed
    queue,      \* the queue of each subscription
    reader,     \* its thread: "get", "handler", "dead"
    msg,        \* the command in the hands of the handler
    cmd,        \* low_cmd, left_hand_cmd and right_hand_cmd
    received,   \* the three ..._received flags; new_... are set with them
    running,    \* BaseSimulator._running
    sim,        \* the simulation thread: "boot", "test", "torques", "ended"
    done,       \* how many reads of this step are done
    used        \* the command each read saw when it was last done

bridgeVars == <<sent, boot, queue, reader, msg, cmd, received, running, sim, done, used>>
bridge == <<cmd, received>>
simulation == <<sim, done, used>>

BridgeInit ==
    /\ sent = [s \in Streams |-> 0]
    /\ boot = 0
    /\ queue = [s \in Streams |-> NewQueue]
    /\ reader = [s \in Streams |-> "get"]
    /\ msg = [s \in Streams |-> 0]
    /\ cmd = [s \in Streams |-> 0]
    /\ received = [s \in Streams |-> FALSE]
    /\ running = TRUE
    /\ sim = "boot"
    /\ done = 0
    /\ used = [i \in DOMAIN Reads |-> 0]

-----------------------------------------------------------------------------
(* The constructor: three subscriptions, three locks, then reset().        *)

Order == <<"body", "left", "right">>
Place(s) == CHOOSE i \in 1 .. 3 : Order[i] = s

Subscribed(s) == boot >= Place(s)
Locked(s) == boot >= 3 + Place(s)
Built == boot = 9

Construct ==
    /\ ~Built
    /\ boot' = boot + 1
    /\ received' = IF boot >= 6 THEN [received EXCEPT ![Order[boot - 5]] = FALSE] ELSE received
    /\ UNCHANGED <<sent, queue, reader, msg, cmd, running, simulation>>

-----------------------------------------------------------------------------
(* The controller, and the thread of each subscription.                    *)

Publish(s) ==
    /\ sent[s] < MaxSent[s]
    /\ sent' = [sent EXCEPT ![s] = @ + 1]
    /\ \/ Subscribed(s) /\ queue' = [queue EXCEPT ![s] = Put(@, sent[s] + 1, FALSE, QueueLen)]
       \/ UNCHANGED queue
    /\ UNCHANGED <<boot, reader, msg, bridge, running, simulation>>

TakeSample(s) ==
    /\ reader[s] = "get"
    /\ ~Empty(queue[s])
    /\ msg' = [msg EXCEPT ![s] = queue[s].items[1]]
    /\ queue' = [queue EXCEPT ![s] = Popped(@)]
    /\ reader' = [reader EXCEPT ![s] = "handler"]
    /\ UNCHANGED <<sent, boot, bridge, running, simulation>>

(* A command is kept until somebody has asked for it.                      *)
Mut_KeepUnreadCommand(s) ==
    /\ reader[s] = "handler"
    /\ IF Locked(s)
       THEN /\ cmd' = IF received[s] THEN cmd ELSE [cmd EXCEPT ![s] = msg[s]]
            /\ received' = [received EXCEPT ![s] = TRUE]
            /\ reader' = [reader EXCEPT ![s] = "get"]
       ELSE reader' = [reader EXCEPT ![s] = "dead"] /\ UNCHANGED bridge
    /\ UNCHANGED <<sent, boot, queue, msg, running, simulation>>

(* LowCmdHandler and the two like it. Before the constructor has made the  *)
(* lock, naming it raises AttributeError, which ends the thread.           *)
CmdHandler(s) ==
    /\ reader[s] = "handler"
    /\ IF Locked(s)
       THEN /\ cmd' = [cmd EXCEPT ![s] = msg[s]]
            /\ received' = [received EXCEPT ![s] = TRUE]
            /\ reader' = [reader EXCEPT ![s] = "get"]
       ELSE reader' = [reader EXCEPT ![s] = "dead"] /\ UNCHANGED bridge
    /\ UNCHANGED <<sent, boot, queue, msg, running, simulation>>

-----------------------------------------------------------------------------
(* The simulation thread.                                                  *)

Start ==
    /\ sim = "boot"
    /\ Built
    /\ sim' = "test"
    /\ UNCHANGED <<sent, boot, queue, reader, msg, bridge, running, done, used>>

TestRunning ==
    /\ sim = "test"
    /\ sim' = IF running THEN "torques" ELSE "ended"
    /\ done' = 0
    /\ UNCHANGED <<sent, boot, queue, reader, msg, bridge, running, used>>

ReadNext ==
    /\ done' = done + 1
    /\ used' = [used EXCEPT ![done + 1] = cmd[Reads[done + 1]]]
    /\ UNCHANGED <<sent, boot, queue, reader, msg, bridge, running, sim>>

(* compute_body_torques: for every motor its five fields, one by one.      *)
ReadBody ==
    /\ sim = "torques"
    /\ done < Len(Reads) /\ Reads[done + 1] = "body"
    /\ ReadNext

(* compute_hand_torques: those of a left motor, then of the right one.     *)
ReadHands ==
    /\ sim = "torques"
    /\ done < Len(Reads) /\ Reads[done + 1] # "body"
    /\ ReadNext

(* A robot that has fallen is reset together with its bridge.              *)
Mut_ResetForgetsCommand ==
    /\ sim = "torques"
    /\ done = Len(Reads)
    /\ sim' = "test"
    /\ \/ UNCHANGED bridge
       \/ cmd' = [s \in Streams |-> 0] /\ received' = [s \in Streams |-> FALSE]
    /\ UNCHANGED <<sent, boot, queue, reader, msg, running, done, used>>

(* mj_step and check_fall. A fall resets the physics alone: the commands   *)
(* of the bridge stay what they are.                                       *)
Apply ==
    /\ sim = "torques"
    /\ done = Len(Reads)
    /\ sim' = "test"
    /\ UNCHANGED <<sent, boot, queue, reader, msg, bridge, running, done, used>>

Close ==
    /\ Built
    /\ running
    /\ running' = FALSE
    /\ UNCHANGED <<sent, boot, queue, reader, msg, bridge, simulation>>

-----------------------------------------------------------------------------
SimSteps == Start \/ TestRunning \/ ReadBody \/ ReadHands \/ Apply
ReaderSteps(s) == TakeSample(s) \/ CmdHandler(s)

BridgeNext ==
    \/ Construct \/ SimSteps \/ Close
    \/ \E s \in Streams : Publish(s) \/ ReaderSteps(s)

BridgeSpec == BridgeInit /\ [][BridgeNext]_bridgeVars

(* Every thread runs; nobody has to publish or to close.                   *)
Fairness ==
    /\ WF_bridgeVars(Construct) /\ WF_bridgeVars(SimSteps)
    /\ \A s \in Streams : WF_bridgeVars(ReaderSteps(s))

FairSpec == BridgeSpec /\ Fairness

-----------------------------------------------------------------------------
BridgeTypes ==
    /\ boot \in 0 .. 9
    /\ \A s \in Streams :
         /\ sent[s] \in 0 .. MaxSent[s]
         /\ queue[s].items \in Seq(1 .. sent[s])
         /\ queue[s].curLen = Len(queue[s].items) /\ queue[s].curLen <= QueueLen
         /\ msg[s] \in 0 .. sent[s] /\ cmd[s] \in 0 .. sent[s]
    /\ reader \in [Streams -> {"get", "handler", "dead"}]
    /\ done \in 0 .. Len(Reads)
    /\ used \in [DOMAIN Reads -> Nat]
    /\ received \in [Streams -> BOOLEAN]
    /\ running \in BOOLEAN
    /\ sim \in {"boot", "test", "torques", "ended"}

(* One step may mix the fields of two commands, because it reads them one  *)
(* by one while the handler replaces the command. But no read, of this     *)
(* step or the next, falls behind the one before it: motors are never      *)
(* driven back to a command that was already replaced, not by a fall       *)
(* either.                                                                 *)
ReadsForward ==
    \A i, j \in DOMAIN Reads :
        /\ Reads[i] = Reads[j]
        /\ \/ j <= done /\ done < i      \* i in the last step, j in this one
           \/ i < j /\ (j <= done \/ done < i)
        => used[i] <= used[j] /\ used[j] <= cmd[Reads[j]]

(* Types, and commands that only go forward.                               *)
BridgeInv == BridgeTypes /\ ReadsForward

Underway(s, n) ==
    \/ \E i \in DOMAIN queue[s].items : queue[s].items[i] = n
    \/ reader[s] = "handler" /\ msg[s] = n

Drives(s, n) == \A i \in DOMAIN Reads : Reads[i] = s => used[i] >= n

(* A command that was accepted drives every motor of its stream, or a      *)
(* later one does, unless the simulation ends or the stream's thread died  *)
(* while the bridge was being built.                                       *)
AcceptedDrives ==
    \A s \in Streams : \A n \in 1 .. MaxSent[s] :
        Underway(s, n) ~> (Drives(s, n) \/ ~running \/ reader[s] = "dead")

(* official_sim/README.md says that the simulator applies the command: a   *)
(* command that was accepted drives the motors, unless the simulation ends.*)
CommandApplied ==
    \A s \in Streams : \A n \in 1 .. MaxSent[s] :
        Underway(s, n) ~> (Drives(s, n) \/ ~running)
=============================================================================
