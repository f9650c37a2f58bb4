--------------------------- MODULE Simulator_proofs ---------------------------
(* Machine-checked facts about the models of the simulator and of the robot *)
(* in it, for every value of their constants: Simulator, its program and the *)
(* process that publishes its images (any configurations, cameras, parts,   *)
(* steps and interrupts); SimBridge, its command path (any reads, queue     *)
(* length and number of commands); and RobotModel, its kinematics with      *)
(* joint groups and views (any models and levels). They share nothing but   *)
(* this module.                                                             *)
EXTENDS Simulator, SimBridge, RobotModel, FiniteSetTheorems, SequenceTheorems, TLAPS

-----------------------------------------------------------------------------
(* The inductive invariant. *)

Opening == {"build", "make", "spawn"}
Looping == {"test", "step", "timers", "copy"}
Stopping == {"stop", "join", "term", "kill", "unlink", "window"}

(* What the place of the main process says of the publisher it owns.       *)
PlaceInv ==
    /\ pc \in Stopping => level \in 1 .. 3
    /\ pc \in {"step", "timers"} => count < MaxSteps
    /\ pc \in {"build", "make"} => ~assigned /\ child = "none"
    /\ pc = "spawn" => assigned /\ blocks = 1 .. Cameras
    /\ pc = "unlink" => ~Alive

(* A live publisher has its memory; what was not cleared yet is owed to    *)
(* the close that is under way, or to interrupts that cut closes short.    *)
Swept == blocks = {} /\ ~Alive
Owing ==
    \/ pc \in Opening \cup Looping
    \/ /\ pc \in Stopping \ {"window"}
       /\ \/ level = 1
          \/ level = 2 /\ interrupts >= 1
          \/ level = 3 /\ raised /\ interrupts >= 2
    \/ pc = "exit" /\ raised /\ interrupts >= 2
    \/ pc = "gone" /\ interrupts >= 3
BlockInv ==
    /\ (assigned /\ Alive) => blocks = 1 .. Cameras
    /\ assigned => Swept \/ Owing

(* While no copy is under way and the event is clear, the message being    *)
(* built has the newest images so far, and so has the last one offered.    *)
FreshInv ==
    (~ready /\ pc \in Opening \cup {"test", "step", "timers"}) =>
        /\ child = "copy" => \A u \in 1 .. got : images[u] = shm[u]
        /\ child \in {"none", "boot", "test", "wait"} => failed \/ offered = shm

IInv == TypeOK /\ PlaceInv /\ BlockInv /\ FreshInv

-----------------------------------------------------------------------------
(* Lemmas about the data. *)

LEMMA SizeFacts == Cameras * Parts \in Nat /\ MaxSteps \in Nat
BY SimulatorAssumption

\* The groups of variables and of places are expanded everywhere below.
USE DEF main, memory, publisher, Opening, Looping, Stopping

LEMMA InitInv == Init => IInv
<1> SUFFICES ASSUME Init PROVE IInv
  OBVIOUS
<1>1. window \in BOOLEAN
  BY SimulatorAssumption DEF Init, Shape
<1>2. raised \in BOOLEAN /\ assigned \in BOOLEAN /\ stop \in BOOLEAN /\ ready \in BOOLEAN /\ failed \in BOOLEAN
  BY Zenon DEF Init
<1>3. TypeOK
  BY <1>1, <1>2, SimulatorAssumption DEF Init, TypeOK
<1>4. PlaceInv /\ BlockInv /\ FreshInv
  BY DEF Init, PlaceInv, BlockInv, FreshInv
<1>5. QED
  BY <1>3, <1>4 DEF IInv

-----------------------------------------------------------------------------
(* The steps of the main process: construction and the loop. *)

LEMMA BuildStep == ASSUME IInv, Build PROVE IInv'
<1>1. TypeOK'
  BY DEF Build, IInv, TypeOK
<1>2. PlaceInv'
  BY DEF Build, IInv, PlaceInv
<1>3. BlockInv'
  BY DEF Build, IInv, PlaceInv, BlockInv
<1>4. FreshInv'
  BY DEF Build, IInv, FreshInv
<1>5. QED
  BY <1>1, <1>2, <1>3, <1>4 DEF IInv

LEMMA MakeBlockStep == ASSUME IInv, MakeBlock PROVE IInv'
<1>1. TypeOK'
  BY DEF MakeBlock, IInv, TypeOK
<1>2. PlaceInv'
  BY DEF MakeBlock, IInv, PlaceInv
<1>3. BlockInv'
  BY DEF MakeBlock, IInv, BlockInv, Owing, Alive
<1>4. FreshInv'
  BY DEF MakeBlock, IInv, FreshInv
<1>5. QED
  BY <1>1, <1>2, <1>3, <1>4 DEF IInv

LEMMA SpawnStep == ASSUME IInv, Spawn PROVE IInv'
<1>1. TypeOK'
  BY DEF Spawn, IInv, TypeOK
<1>2. PlaceInv'
  BY DEF Spawn, IInv, PlaceInv
<1>3. BlockInv'
  BY DEF Spawn, IInv, PlaceInv, BlockInv, Owing
<1>4. FreshInv'
  BY DEF Spawn, IInv, FreshInv
<1>5. QED
  BY <1>1, <1>2, <1>3, <1>4 DEF IInv

LEMMA TestLoopStep == ASSUME IInv, TestLoop PROVE IInv'
<1>1. TypeOK'
  BY DEF TestLoop, CloseFrom, IInv, TypeOK
<1>2. PlaceInv'
  BY DEF TestLoop, CloseFrom, PlaceInv
<1>3. BlockInv'
  BY DEF TestLoop, CloseFrom, IInv, BlockInv, Owing, Alive
<1>4. FreshInv'
  BY DEF TestLoop, IInv, FreshInv
<1>5. QED
  BY <1>1, <1>2, <1>3, <1>4 DEF IInv

LEMMA SimStepStep == ASSUME IInv, SimStep PROVE IInv'
<1>1. TypeOK'
  BY DEF SimStep, CloseFrom, IInv, TypeOK
<1>2. PlaceInv'
  BY DEF SimStep, CloseFrom, IInv, PlaceInv
<1>3. BlockInv'
  BY DEF SimStep, CloseFrom, IInv, BlockInv, Owing, Alive
<1>4. FreshInv'
  BY DEF SimStep, IInv, FreshInv
<1>5. QED
  BY <1>1, <1>2, <1>3, <1>4 DEF IInv

LEMMA TimersStep == ASSUME IInv, Timers PROVE IInv'
<1>1. TypeOK'
  BY SizeFacts DEF Timers, CloseFrom, IInv, TypeOK, PlaceInv
<1>2. PlaceInv'
  BY DEF Timers, CloseFrom, PlaceInv
<1>3. BlockInv'
  BY DEF Timers, CloseFrom, IInv, BlockInv, Owing, Alive
<1>4. FreshInv'
  BY DEF Timers, IInv, FreshInv
<1>5. QED
  BY <1>1, <1>2, <1>3, <1>4 DEF IInv

\* A copy that ends sets the event: nothing is claimed of what was copied.
LEMMA CopyInStep == ASSUME IInv, CopyIn PROVE IInv'
<1>1. pos' \in 0 .. Cameras * Parts /\ pc' \in {"copy", "test"} /\ ready' \in BOOLEAN
  <2>1. CASE pos < Cameras * Parts
    BY <2>1, SizeFacts DEF CopyIn, IInv, TypeOK
  <2>2. CASE ~(pos < Cameras * Parts)
    BY <2>2, Zenon DEF CopyIn, IInv, TypeOK
  <2>3. QED
    BY <2>1, <2>2
<1>2. TypeOK'
  BY <1>1 DEF CopyIn, IInv, TypeOK
<1>3. PlaceInv' /\ BlockInv'
  BY DEF CopyIn, IInv, PlaceInv, BlockInv, Owing, Alive
<1>4. FreshInv'
  BY DEF CopyIn, FreshInv
<1>5. QED
  BY <1>2, <1>3, <1>4 DEF IInv

LEMMA CloseWindowStep == ASSUME IInv, CloseWindow PROVE IInv'
<1>0. window' \in BOOLEAN
  BY Zenon DEF CloseWindow
<1>1. TypeOK'
  BY <1>0 DEF CloseWindow, IInv, TypeOK
<1>2. PlaceInv'
  BY DEF CloseWindow, IInv, PlaceInv, Alive
<1>3. BlockInv'
  BY DEF CloseWindow, IInv, BlockInv, Swept, Owing, Alive
<1>4. FreshInv'
  BY DEF CloseWindow, IInv, FreshInv
<1>5. QED
  BY <1>1, <1>2, <1>3, <1>4 DEF IInv

-----------------------------------------------------------------------------
(* The ladder of stop(), the three closes and the exit. *)

LEMMA StopSetStep == ASSUME IInv, StopSet PROVE IInv'
<1>1. TypeOK'
  BY DEF StopSet, IInv, TypeOK
<1>2. PlaceInv'
  BY DEF StopSet, IInv, PlaceInv, Alive
<1>3. BlockInv'
  BY DEF StopSet, IInv, BlockInv, Swept, Owing, Alive
<1>4. FreshInv'
  BY DEF StopSet, FreshInv
<1>5. QED
  BY <1>1, <1>2, <1>3, <1>4 DEF IInv

LEMMA GiveUpStep ==
  ASSUME IInv, Terminate \/ Kill
  PROVE  IInv'
<1>1. TypeOK'
  BY DEF Terminate, Kill, GiveUp, IInv, TypeOK
<1>2. PlaceInv' /\ BlockInv'
  BY DEF Terminate, Kill, GiveUp, IInv, PlaceInv, BlockInv, Swept, Owing
<1>3. FreshInv'
  BY DEF Terminate, Kill, GiveUp, FreshInv
<1>4. QED
  BY <1>1, <1>2, <1>3 DEF IInv

LEMMA JoinedStep == ASSUME IInv, Joined PROVE IInv'
<1>1. TypeOK'
  BY DEF Joined, IInv, TypeOK
<1>2. PlaceInv'
  BY DEF Joined, IInv, PlaceInv, Alive
<1>3. BlockInv'
  BY DEF Joined, IInv, BlockInv, Swept, Owing, Alive
<1>4. FreshInv'
  BY DEF Joined, FreshInv
<1>5. QED
  BY <1>1, <1>2, <1>3, <1>4 DEF IInv

LEMMA UnlinkStep == ASSUME IInv, Unlink PROVE IInv'
<1>1. TypeOK'
  BY DEF Unlink, IInv, TypeOK
<1>2. PlaceInv'
  BY DEF Unlink, IInv, PlaceInv, Alive
<1>3. BlockInv'
  BY DEF Unlink, IInv, PlaceInv, BlockInv, Swept, Alive
<1>4. FreshInv'
  BY DEF Unlink, FreshInv
<1>5. QED
  BY <1>1, <1>2, <1>3, <1>4 DEF IInv

\* A close that was not cut short has cleared everything when it comes to the window.
LEMMA ShutWindowStep == ASSUME IInv, ShutWindow PROVE IInv'
<1>0. window' \in BOOLEAN
  BY Zenon DEF ShutWindow
<1>1. TypeOK'
  BY <1>0 DEF ShutWindow, CloseFrom, IInv, TypeOK
<1>2. PlaceInv'
  BY DEF ShutWindow, CloseFrom, PlaceInv
<1>3. BlockInv'
  BY DEF ShutWindow, IInv, BlockInv, Swept, Owing, Alive
<1>4. FreshInv'
  BY DEF ShutWindow, CloseFrom, FreshInv
<1>5. QED
  BY <1>1, <1>2, <1>3, <1>4 DEF IInv

LEMMA NapStep == ASSUME IInv, Nap PROVE IInv'
<1>1. TypeOK'
  BY DEF Nap, CloseFrom, IInv, TypeOK
<1>2. PlaceInv'
  BY DEF Nap, CloseFrom, PlaceInv
<1>3. BlockInv'
  BY DEF Nap, IInv, BlockInv, Swept, Owing, Alive
<1>4. FreshInv'
  BY DEF Nap, CloseFrom, FreshInv
<1>5. QED
  BY <1>1, <1>2, <1>3, <1>4 DEF IInv

LEMMA ExitJoinStep == ASSUME IInv, ExitJoin PROVE IInv'
<1>1. TypeOK'
  BY DEF ExitJoin, CloseFrom, IInv, TypeOK
<1>2. PlaceInv'
  BY DEF ExitJoin, CloseFrom, PlaceInv
<1>3. BlockInv'
  BY DEF ExitJoin, CloseFrom, IInv, BlockInv, Swept, Owing, Alive
<1>4. FreshInv'
  BY DEF ExitJoin, CloseFrom, FreshInv
<1>5. QED
  BY <1>1, <1>2, <1>3, <1>4 DEF IInv

-----------------------------------------------------------------------------
(* The steps of the publishing process. *)

LEMMA AttachStep == ASSUME IInv, Attach PROVE IInv'
<1>1. TypeOK'
  BY DEF Attach, IInv, TypeOK
<1>2. PlaceInv'
  BY DEF Attach, IInv, PlaceInv, Alive
<1>3. BlockInv'
  BY DEF Attach, IInv, BlockInv, Swept, Owing, Alive
<1>4. FreshInv'
  BY DEF Attach, IInv, FreshInv
<1>5. QED
  BY <1>1, <1>2, <1>3, <1>4 DEF IInv

LEMMA TestStopStep == ASSUME IInv, TestStop PROVE IInv'
<1>1. TypeOK'
  BY DEF TestStop, IInv, TypeOK
<1>2. PlaceInv'
  BY DEF TestStop, IInv, PlaceInv, Alive
<1>3. BlockInv'
  BY DEF TestStop, IInv, BlockInv, Swept, Owing, Alive
<1>4. FreshInv'
  BY DEF TestStop, IInv, FreshInv
<1>5. QED
  BY <1>1, <1>2, <1>3, <1>4 DEF IInv

LEMMA WakeStep == ASSUME IInv, Wake PROVE IInv'
<1>1. TypeOK'
  BY DEF Wake, IInv, TypeOK
<1>2. PlaceInv'
  BY DEF Wake, IInv, PlaceInv, Alive
<1>3. BlockInv'
  BY DEF Wake, IInv, BlockInv, Swept, Owing, Alive
<1>4. FreshInv'
  BY DEF Wake, IInv, FreshInv
<1>5. QED
  BY <1>1, <1>2, <1>3, <1>4 DEF IInv

LEMMA ClearReadyStep == ASSUME IInv, ClearReady PROVE IInv'
<1>0. ready' \in BOOLEAN
  BY Zenon DEF ClearReady
<1>1. TypeOK'
  BY <1>0, SizeFacts DEF ClearReady, IInv, TypeOK
<1>2. PlaceInv'
  BY DEF ClearReady, IInv, PlaceInv, Alive
<1>3. BlockInv'
  BY DEF ClearReady, IInv, BlockInv, Swept, Owing, Alive
<1>4. FreshInv'
  BY DEF ClearReady, FreshInv
<1>5. QED
  BY <1>1, <1>2, <1>3, <1>4 DEF IInv

LEMMA CopyOutStep == ASSUME IInv, CopyOut PROVE IInv'
<1>1. got + 1 \in Units /\ got \in Nat
  BY SizeFacts DEF CopyOut, IInv, TypeOK, Units
<1>2. shm \in [Units -> 0 .. MaxSteps] /\ images \in [Units -> 0 .. MaxSteps]
  BY DEF IInv, TypeOK
<1>3. images' \in [Units -> 0 .. MaxSteps] /\ got' \in 0 .. Cameras * Parts
  BY <1>1, <1>2 DEF CopyOut, Units
<1>4. TypeOK'
  BY <1>3 DEF CopyOut, IInv, TypeOK
<1>5. PlaceInv' /\ BlockInv'
  BY DEF CopyOut, IInv, PlaceInv, BlockInv, Swept, Owing, Alive
<1>6. (\A u \in 1 .. got : images[u] = shm[u]) => \A u \in 1 .. got' : images'[u] = shm[u]
  BY <1>1, <1>2 DEF CopyOut
<1>7. FreshInv'
  BY <1>6 DEF CopyOut, IInv, FreshInv
<1>8. QED
  BY <1>4, <1>5, <1>7 DEF IInv

\* What is offered is every unit of the images.
LEMMA SendMessageStep == ASSUME IInv, SendMessage PROVE IInv'
<1>1. {shm, images, offered} \subseteq [Units -> 0 .. MaxSteps]
  BY DEF IInv, TypeOK
<1>2. offered' \in {images, offered} /\ failed' \in BOOLEAN
  BY DEF SendMessage, Offer
<1>3. TypeOK'
  BY <1>2 DEF SendMessage, IInv, TypeOK
<1>4. PlaceInv' /\ BlockInv'
  BY DEF SendMessage, IInv, PlaceInv, BlockInv, Swept, Owing, Alive
<1>5. (\A u \in 1 .. got : images[u] = shm[u]) => images = shm
  BY <1>1 DEF SendMessage, Units
<1>6. FreshInv'
  BY <1>5 DEF SendMessage, Offer, IInv, FreshInv
<1>7. QED
  BY <1>3, <1>4, <1>6 DEF IInv

LEMMA CleanUpStep == ASSUME IInv, CleanUp PROVE IInv'
<1>1. TypeOK'
  BY DEF CleanUp, IInv, TypeOK
<1>2. PlaceInv'
  BY DEF CleanUp, IInv, PlaceInv, Alive
<1>3. BlockInv'
  BY DEF CleanUp, IInv, BlockInv, Swept, Owing, Alive
<1>4. FreshInv'
  BY DEF CleanUp, FreshInv
<1>5. QED
  BY <1>1, <1>2, <1>3, <1>4 DEF IInv

LEMMA DiesStep == ASSUME IInv, NEW sig, Dies(sig) PROVE IInv'
<1>1. TypeOK' /\ FreshInv'
  BY DEF Dies, IInv, TypeOK, FreshInv
<1>2. PlaceInv' /\ BlockInv'
  BY DEF Dies, IInv, PlaceInv, BlockInv, Swept, Owing, Alive
<1>3. QED
  BY <1>1, <1>2 DEF IInv

-----------------------------------------------------------------------------
(* Ctrl-C. *)

\* Where the exception leads the main process.
LEMMA InterruptMain ==
  ASSUME IInv, Interrupt
  PROVE  \/ pc = "build" /\ pc' = "gone" /\ level' = level /\ raised' = TRUE
         \/ pc \in {"make", "spawn"} /\ CloseFrom(2) /\ raised' = raised
         \/ pc \in Looping /\ CloseFrom(1) /\ raised' = raised
         \/ pc = "nap" /\ pc' = "exit" /\ level' = level /\ raised' = TRUE
         \/ pc = "exit" /\ raised /\ CloseFrom(3) /\ raised' = raised
         \/ pc = "exit" /\ ~raised /\ pc' = "gone" /\ level' = level /\ raised' = raised
         \/ pc \in Stopping /\ level = 1 /\ CloseFrom(2) /\ raised' = raised
         \/ pc \in Stopping /\ level = 2 /\ pc' = "exit" /\ raised' = TRUE /\ level' = level
         \/ pc \in Stopping /\ level = 3 /\ level' = level /\ raised' = raised
              /\ ((pc' = "gone" /\ raised) \/ (pc' = "exit" /\ ~raised))
<1>1. CASE pc \in {"build", "nap", "exit"}
  BY <1>1 DEF Interrupt
<1>2. CASE pc \in {"make", "spawn"} \cup Looping
  BY <1>2 DEF Interrupt
<1>3. CASE pc \in Stopping
  <2>1. CASE level = 1
    BY <1>3, <2>1 DEF Interrupt
  <2>2. CASE level = 2
    BY <1>3, <2>2 DEF Interrupt
  <2>3. CASE level = 3
    BY <1>3, <2>3 DEF Interrupt
  <2>4. level \in 1 .. 3
    BY <1>3 DEF IInv, PlaceInv
  <2>5. level = 1 \/ level = 2 \/ level = 3
    BY <2>4
  <2>6. QED
    BY <2>1, <2>2, <2>3, <2>5, Zenon
<1>4. QED
  BY <1>3 DEF Interrupt, IInv, TypeOK

LEMMA InterruptRest ==
  ASSUME IInv, Interrupt
  PROVE  /\ interrupts' = interrupts + 1 /\ interrupts' \in 0 .. MaxInterrupts
         /\ raised' \in BOOLEAN
         /\ child' \in {"none", "cleanup", "dead"} /\ (child' = "none" <=> child = "none")
         /\ Alive' => Alive
<1>1. interrupts' = interrupts + 1 /\ interrupts' \in 0 .. MaxInterrupts
  BY SimulatorAssumption DEF Interrupt, IInv, TypeOK
<1>2. raised' \in BOOLEAN
  <2>1. raised' \in {TRUE, raised}
    BY InterruptMain, Zenon
  <2>2. QED
    BY <2>1 DEF IInv, TypeOK
<1>3. /\ child' \in {"none", "cleanup", "dead"} /\ (child' = "none" <=> child = "none")
      /\ Alive' => Alive
  BY DEF Interrupt, IInv, TypeOK, Alive
<1>4. QED
  BY <1>1, <1>2, <1>3

LEMMA InterruptStep == ASSUME IInv, Interrupt PROVE IInv'
<1>1. UNCHANGED <<cfg, window, count, memory, signal, got, images, offered, failed>>
  BY DEF Interrupt
<1>2. /\ pc' \in {"stop", "window", "exit", "gone"} /\ level' \in 0 .. 3
      /\ pc' \in Stopping => level' \in 1 .. 3
  <2>1. level \in 0 .. 3 /\ (pc \in Stopping => level \in 1 .. 3)
    BY DEF IInv, TypeOK, PlaceInv
  <2>2. \/ CloseFrom(1) \/ CloseFrom(2) \/ CloseFrom(3)
        \/ (pc' = "exit" \/ pc' = "gone") /\ level' = level
    BY InterruptMain, Zenon
  <2>3. QED
    BY <2>1, <2>2 DEF CloseFrom
<1>3. TypeOK' /\ PlaceInv'
  BY <1>1, <1>2, InterruptRest DEF IInv, TypeOK, PlaceInv
<1>4. BlockInv'
  <2>1. Swept => Swept'
    BY <1>1, InterruptRest DEF Swept
  <2>2. assigned /\ Owing => Owing'
    <3>1. interrupts \in Nat /\ level \in 0 .. 3
      BY DEF IInv, TypeOK
    <3>2. interrupts' = interrupts + 1 /\ interrupts' >= 1
      BY <3>1, InterruptRest
    <3>3. CASE pc \in Opening \cup Looping
      <4>1. CloseFrom(1) \/ CloseFrom(2) \/ ~assigned
        BY <3>3, InterruptMain DEF IInv, PlaceInv
      <4>2. QED
        BY <3>2, <4>1 DEF Owing, CloseFrom
    <3>4. CASE pc \in Stopping
      <4>1. Owing =>
              \/ level = 1
              \/ level = 2 /\ interrupts >= 1
              \/ level = 3 /\ raised /\ interrupts >= 2
        <5>1. pc \notin Opening \cup Looping /\ pc # "exit" /\ pc # "gone"
          BY <3>4
        <5>2. QED
          BY <5>1, Zenon DEF Owing
      <4>2. \/ level = 1 /\ CloseFrom(2)
            \/ level = 2 /\ pc' = "exit" /\ raised' = TRUE
            \/ level = 3 /\ (raised => pc' = "gone")
        BY <3>4, InterruptMain
      <4>3. QED
        BY <3>1, <3>2, <4>1, <4>2 DEF Owing, CloseFrom
    <3>5. CASE pc = "exit" /\ raised /\ interrupts >= 2
      BY <3>1, <3>2, <3>5, InterruptMain DEF Owing, CloseFrom
    <3>6. QED
      BY <3>3, <3>4, <3>5 DEF Owing, Interrupt
  <2>3. QED
    BY <1>1, <2>1, <2>2, InterruptRest DEF IInv, BlockInv
<1>5. FreshInv'
  BY InterruptMain DEF FreshInv, CloseFrom
<1>6. QED
  BY <1>3, <1>4, <1>5 DEF IInv
-----------------------------------------------------------------------------
LEMMA NextInv == ASSUME IInv, [Next]_vars PROVE IInv'
<1>1. CASE Main
  BY <1>1, BuildStep, MakeBlockStep, SpawnStep, TestLoopStep, SimStepStep, TimersStep,
     CopyInStep, StopSetStep, GiveUpStep, JoinedStep, UnlinkStep, ShutWindowStep, NapStep,
     ExitJoinStep
     DEF Main
<1>2. CASE Worker
  BY <1>2, AttachStep, TestStopStep, WakeStep, ClearReadyStep, CopyOutStep, SendMessageStep,
     CleanUpStep
     DEF Worker
<1>3. CASE UNCHANGED vars
  BY <1>3 DEF vars, IInv, TypeOK, PlaceInv, BlockInv, FreshInv, Swept, Owing, Alive
<1>4. QED
  BY <1>1, <1>2, <1>3, DiesStep, CloseWindowStep, InterruptStep DEF Next

LEMMA SimulatorInvariant == Spec => []IInv
<1>1. Init => IInv
  BY InitInv
<1>2. IInv /\ [Next]_vars => IInv'
  BY NextInv
<1>3. QED
  BY <1>1, <1>2, PTL DEF Spec

(* Whatever the options, the cameras, the size of the images and the       *)
(* interrupts: update_shared_memory never writes a frame that the          *)
(* publisher overlooks because it came during the copy of another.         *)
THEOREM FramesNoticed == Spec => []Inv
<1>1. IInv => Inv
  BY DEF IInv, FreshInv, Inv, NoFrameMissed
<1>2. QED
  BY <1>1, SimulatorInvariant, PTL

(* close(), called up to three times and interrupted up to twice, leaves   *)
(* neither a publishing process nor shared memory, and never unlinks a     *)
(* block under a live publisher.                                           *)
THEOREM EndsClean == Spec => []CleanEnd
<1>1. IInv => CleanEnd
  BY DEF IInv, TypeOK, BlockInv, CleanEnd, Swept, Owing
<1>2. QED
  BY <1>1, SimulatorInvariant, PTL

-----------------------------------------------------------------------------
(* The command path.                                                       *)

(* Plain types of the variables that are functions of the streams.         *)
Shapes ==
    /\ sent \in [Streams -> Nat] /\ msg \in [Streams -> Nat] /\ cmd \in [Streams -> Nat]
    /\ queue \in [Streams -> [items : Seq(Nat), curLen : Nat]]
    /\ reader \in [Streams -> {"get", "handler", "dead"}]
    /\ received \in [Streams -> BOOLEAN]

(* The commands of a stream are in the order in which they were published: *)
(* the current one, the one in the hands of the handler, those of the      *)
(* queue from the oldest to the newest.                                    *)
InOrder(s) ==
    /\ cmd[s] <= msg[s] /\ msg[s] <= sent[s]
    /\ \A i \in 1 .. Len(queue[s].items) :
         /\ msg[s] <= queue[s].items[i] /\ queue[s].items[i] <= sent[s]
         /\ 1 <= queue[s].items[i]
    /\ \A i, j \in 1 .. Len(queue[s].items) :
         i < j => queue[s].items[i] <= queue[s].items[j]

(* The queue counts what it holds, and not more than it may.               *)
Counted(s) ==
    /\ queue[s].curLen = Len(queue[s].items) /\ queue[s].curLen <= QueueLen

(* No read has seen a command that is not there any more.                  *)
SeenBefore == \A i \in DOMAIN Reads : used[i] <= cmd[Reads[i]]

Ascending ==
    \A i, j \in DOMAIN Reads :
        /\ Reads[i] = Reads[j]
        /\ \/ j <= done /\ done < i
           \/ i < j /\ (j <= done \/ done < i)
        => used[i] <= used[j]

Simulation ==
    /\ done \in 0 .. Len(Reads)
    /\ used \in [DOMAIN Reads -> Nat]
    /\ sim \in {"boot", "test", "torques", "ended"}
    /\ sim \in {"boot", "test"} => done \in {0, Len(Reads)}

(* The inductive invariant.                                                *)
BridgeInductive ==
    /\ Shapes
    /\ \A s \in Streams : InOrder(s) /\ Counted(s) /\ sent[s] <= MaxSent[s]
    /\ Simulation /\ SeenBefore /\ Ascending
    /\ boot \in 0 .. 9 /\ running \in BOOLEAN

Queues == [items : Seq(Nat), curLen : Nat]

-----------------------------------------------------------------------------
(* What taking the oldest command makes of a queue.                        *)
LEMMA TakeFacts ==
    ASSUME NEW q \in Queues, q.curLen = Len(q.items), ~Empty(q)
    PROVE  /\ Popped(q) \in Queues
           /\ Popped(q).curLen = q.curLen - 1
           /\ Len(q.items) \in Nat \ {0}
           /\ Len(Popped(q).items) = Len(q.items) - 1
           /\ \A i \in 1 .. Len(Popped(q).items) : Popped(q).items[i] = q.items[i + 1]
           /\ q.items[1] \in Nat
<1>1. q.items \in Seq(Nat) /\ q.items # << >> /\ Len(q.items) \in Nat \ {0}
  BY DEF Empty, Queues
<1>2. /\ Tail(q.items) \in Seq(Nat)
      /\ Len(Tail(q.items)) = Len(q.items) - 1
      /\ \A i \in 1 .. Len(q.items) - 1 : Tail(q.items)[i] = q.items[i + 1]
      /\ q.items[1] \in Nat
  BY <1>1
<1>3. /\ Popped(q).items = Tail(q.items)
      /\ Popped(q).curLen = q.curLen - 1
      /\ Popped(q) \in Queues
  BY <1>1, <1>2 DEF Popped, Queues
<1>4. QED
  BY <1>1, <1>2, <1>3

(* What a Put makes of it: nothing, or one more command at its end.        *)
LEMMA PutFacts ==
    ASSUME NEW q \in Queues, q.curLen = Len(q.items), NEW n \in Nat, q.curLen <= n, NEW x \in Nat
    PROVE  LET p == Put(q, x, FALSE, n)
           IN  /\ p \in Queues /\ p.curLen = Len(p.items) /\ p.curLen <= n
               /\ \/ p = q
                  \/ /\ Len(p.items) = Len(q.items) + 1
                     /\ p.items[Len(q.items) + 1] = x
                     /\ \A i \in 1 .. Len(q.items) : p.items[i] = q.items[i]
<1> DEFINE p == Put(q, x, FALSE, n)
<1>1. q.items \in Seq(Nat) /\ Len(q.items) \in Nat /\ q.curLen \in Nat
  BY DEF Queues
<1>2. CASE Full(q, n)
  BY <1>2 DEF Put, Accepts
<1>3. CASE ~Full(q, n)
  <2>1. p = Appended(q, x) /\ q.curLen < n
    BY <1>1, <1>3 DEF Put, Accepts, Full
  <2>2. /\ Append(q.items, x) \in Seq(Nat)
        /\ Len(Append(q.items, x)) = Len(q.items) + 1
        /\ Append(q.items, x)[Len(q.items) + 1] = x
        /\ \A i \in 1 .. Len(q.items) : Append(q.items, x)[i] = q.items[i]
    BY <1>1
  <2>3. p = [items |-> Append(q.items, x), curLen |-> q.curLen + 1]
    BY <2>1 DEF Appended
  <2> HIDE DEF p
  <2>4. p.items = Append(q.items, x) /\ p.curLen = q.curLen + 1 /\ q.curLen + 1 \in Nat
    BY <1>1, <2>3
  <2>5. p \in Queues
    BY <2>2, <2>3, <2>4 DEF Queues
  <2>6. p.curLen = Len(p.items) /\ p.curLen <= n
    BY <1>1, <2>1, <2>2, <2>4
  <2>7. QED
    BY <2>2, <2>4, <2>5, <2>6 DEF p
<1>4. QED
  BY <1>2, <1>3

-----------------------------------------------------------------------------
(* The elements of a queue of a stream.                                    *)
LEMMA ItemFacts ==
    ASSUME NEW q \in Queues
    PROVE  /\ q.items \in Seq(Nat) /\ Len(q.items) \in Nat
           /\ \A i \in 1 .. Len(q.items) : q.items[i] \in Nat
BY DEF Queues

(* The data and the part of the simulation, which no step changes at once. *)
Data ==
    /\ Shapes
    /\ \A s \in Streams : InOrder(s) /\ Counted(s) /\ sent[s] <= MaxSent[s]
    /\ boot \in 0 .. 9

Reader == Simulation /\ SeenBefore /\ Ascending

LEMMA PublishData ==
    ASSUME Data, NEW s \in Streams, Publish(s)
    PROVE  Data'
<1>1. /\ sent[s] \in Nat /\ queue[s] \in Queues /\ cmd[s] \in Nat /\ msg[s] \in Nat
      /\ queue[s].curLen = Len(queue[s].items) /\ queue[s].curLen <= QueueLen
      /\ QueueLen \in Nat /\ InOrder(s)
  BY QueueAssumption DEF Data, Shapes, Counted, Queues
<1>2. /\ sent' = [sent EXCEPT ![s] = @ + 1] /\ sent[s] < MaxSent[s]
      /\ cmd' = cmd /\ msg' = msg /\ reader' = reader /\ received' = received /\ boot' = boot
  BY DEF Publish, bridge
<1>3. PICK p : /\ queue' = [queue EXCEPT ![s] = p]
               /\ p \in {queue[s], Put(queue[s], sent[s] + 1, FALSE, QueueLen)}
  BY DEF Publish, Data, Shapes
<1>4. /\ p \in Queues /\ p.curLen = Len(p.items) /\ p.curLen <= QueueLen
      /\ \/ p = queue[s]
         \/ /\ Len(p.items) = Len(queue[s].items) + 1
            /\ p.items[Len(queue[s].items) + 1] = sent[s] + 1
            /\ \A i \in 1 .. Len(queue[s].items) : p.items[i] = queue[s].items[i]
  <2>1. CASE p = queue[s]
    BY <1>1, <2>1
  <2>2. CASE p = Put(queue[s], sent[s] + 1, FALSE, QueueLen)
    <3>1. PICK q \in Queues, x \in Nat : q = queue[s] /\ x = sent[s] + 1
      BY <1>1
    <3>2. q.curLen = Len(q.items) /\ QueueLen \in Nat /\ q.curLen <= QueueLen
      BY <1>1, <3>1
    <3>3. p = Put(q, x, FALSE, QueueLen)
      BY <2>2, <3>1
    <3>4. /\ p \in Queues /\ p.curLen = Len(p.items) /\ p.curLen <= QueueLen
          /\ \/ p = q
             \/ /\ Len(p.items) = Len(q.items) + 1
                /\ p.items[Len(q.items) + 1] = x
                /\ \A i \in 1 .. Len(q.items) : p.items[i] = q.items[i]
      BY <3>2, <3>3, PutFacts
    <3>5. QED
      BY <3>1, <3>4
  <2>3. QED
    BY <1>3, <2>1, <2>2
<1>5. Shapes'
  BY <1>1, <1>2, <1>3, <1>4 DEF Data, Shapes, Queues
<1>6. sent'[s] = sent[s] + 1 /\ queue'[s] = p /\ MaxSent[s] \in Nat
  BY <1>2, <1>3, QueueAssumption DEF Data, Shapes
<1>7. InOrder(s)'
  <2> DEFINE n == Len(queue[s].items)
  <2>1. /\ n \in Nat /\ msg[s] <= sent[s]
        /\ \A i \in 1 .. n : /\ queue[s].items[i] \in Nat
                             /\ msg[s] <= queue[s].items[i] /\ queue[s].items[i] <= sent[s]
                             /\ 1 <= queue[s].items[i]
        /\ \A i, j \in 1 .. n : i < j => queue[s].items[i] <= queue[s].items[j]
    BY <1>1, ItemFacts DEF InOrder
  <2>2. \A i \in 1 .. Len(p.items) :
          \/ i \in 1 .. n /\ p.items[i] = queue[s].items[i]
          \/ i = n + 1 /\ p.items[i] = sent[s] + 1
    BY <1>4, <2>1
  <2> HIDE DEF n
  <2>3. \A i \in 1 .. Len(p.items) :
          msg[s] <= p.items[i] /\ p.items[i] <= sent[s] + 1 /\ 1 <= p.items[i]
    <3>1. sent[s] \in Nat /\ msg[s] \in Nat
      BY <1>1
    <3>2. \A i \in 1 .. n :
            msg[s] <= queue[s].items[i] /\ queue[s].items[i] <= sent[s] + 1 /\ 1 <= queue[s].items[i]
      BY <2>1, <3>1
    <3>3. msg[s] <= sent[s] + 1 /\ sent[s] + 1 <= sent[s] + 1 /\ 1 <= sent[s] + 1
      BY <2>1, <3>1
    <3>4. QED
      BY <2>2, <3>2, <3>3
  <2>4. ASSUME NEW i \in 1 .. Len(p.items), NEW j \in 1 .. Len(p.items), i < j
        PROVE  p.items[i] <= p.items[j]
    <3>1. i \in 1 .. n /\ p.items[i] = queue[s].items[i] /\ p.items[i] \in Nat
      BY <1>4, <2>1, <2>2, <2>4 DEF n
    <3>2. CASE j \in 1 .. n /\ p.items[j] = queue[s].items[j]
      BY <2>1, <2>4, <3>1, <3>2
    <3>3. CASE j = n + 1 /\ p.items[j] = sent[s] + 1
      <4>1. queue[s].items[i] <= sent[s] /\ sent[s] \in Nat
        BY <1>1, <2>1, <3>1
      <4>2. QED
        BY <3>1, <3>3, <4>1
    <3>4. QED
      BY <2>2, <3>2, <3>3
  <2>5. cmd'[s] <= msg'[s] /\ msg'[s] <= sent'[s]
    BY <1>1, <1>2, <1>6 DEF InOrder
  <2>6. QED
    BY <1>2, <1>6, <2>3, <2>4, <2>5 DEF InOrder
<1>8. Counted(s)' /\ sent'[s] <= MaxSent'[s]
  BY <1>1, <1>2, <1>4, <1>6 DEF Counted
<1>9. \A t \in Streams \ {s} : sent'[t] = sent[t] /\ queue'[t] = queue[t]
  BY <1>2, <1>3 DEF Data, Shapes
<1>10. \A t \in Streams \ {s} : InOrder(t)' /\ Counted(t)' /\ sent'[t] <= MaxSent'[t]
  BY <1>2, <1>9 DEF Data, InOrder, Counted
<1>11. QED
  BY <1>2, <1>5, <1>7, <1>8, <1>10 DEF Data

LEMMA TakeData ==
    ASSUME Data, NEW s \in Streams, TakeSample(s)
    PROVE  Data'
<1> DEFINE q == queue[s]
           p == Popped(q)
<1>1. /\ sent[s] \in Nat /\ q \in Queues /\ cmd[s] \in Nat /\ msg[s] \in Nat
      /\ q.curLen = Len(q.items) /\ q.curLen <= QueueLen
      /\ QueueLen \in Nat /\ InOrder(s)
  BY QueueAssumption DEF Data, Shapes, Counted, Queues
<1>2. /\ ~Empty(q) /\ msg' = [msg EXCEPT ![s] = q.items[1]]
      /\ queue' = [queue EXCEPT ![s] = p] /\ reader' = [reader EXCEPT ![s] = "handler"]
      /\ sent' = sent /\ cmd' = cmd /\ received' = received /\ boot' = boot
  BY DEF TakeSample, bridge
<1>3. /\ p \in Queues /\ p.curLen = q.curLen - 1
      /\ Len(q.items) \in Nat \ {0}
      /\ Len(p.items) = Len(q.items) - 1
      /\ \A i \in 1 .. Len(p.items) : p.items[i] = q.items[i + 1]
      /\ q.items[1] \in Nat
  BY <1>1, <1>2, TakeFacts
<1>4. Shapes'
  BY <1>1, <1>2, <1>3 DEF Data, Shapes, Queues
<1>5. msg'[s] = q.items[1] /\ queue'[s] = p
  BY <1>2 DEF Data, Shapes
<1> HIDE DEF p
<1>6. InOrder(s)'
  <2>1. cmd'[s] <= msg'[s] /\ msg'[s] <= sent'[s]
    BY <1>1, <1>2, <1>3, <1>5 DEF InOrder
  <2>2. /\ \A i \in 1 .. Len(p.items) : /\ i + 1 \in 1 .. Len(q.items) /\ 1 < i + 1
                                        /\ p.items[i] = q.items[i + 1]
        /\ 1 \in 1 .. Len(q.items)
    BY <1>3
  <2>3. /\ \A i \in 1 .. Len(q.items) : 1 <= q.items[i] /\ q.items[i] <= sent[s]
        /\ \A i, j \in 1 .. Len(q.items) : i < j => q.items[i] <= q.items[j]
    BY <1>1 DEF InOrder
  <2>4. \A i \in 1 .. Len(p.items) :
          q.items[1] <= p.items[i] /\ p.items[i] <= sent[s] /\ 1 <= p.items[i]
    BY <2>2, <2>3
  <2>5. ASSUME NEW i \in 1 .. Len(p.items), NEW j \in 1 .. Len(p.items), i < j
        PROVE  p.items[i] <= p.items[j]
    <3>1. i + 1 < j + 1
      BY <1>3, <2>5
    <3>2. QED
      BY <2>2, <2>3, <3>1
  <2>6. QED
    BY <1>2, <1>5, <2>1, <2>4, <2>5 DEF InOrder
<1>7. Counted(s)'
  BY <1>1, <1>3, <1>5 DEF Counted, Queues
<1>8. \A t \in Streams \ {s} : msg'[t] = msg[t] /\ queue'[t] = queue[t]
  BY <1>2 DEF Data, Shapes
<1>9. \A t \in Streams \ {s} : InOrder(t)' /\ Counted(t)'
  BY <1>2, <1>8 DEF Data, InOrder, Counted
<1>10. QED
  BY <1>2, <1>4, <1>6, <1>7, <1>9 DEF Data

LEMMA HandlerData ==
    ASSUME Data, NEW s \in Streams, CmdHandler(s)
    PROVE  /\ Data' /\ \A t \in Streams : cmd[t] <= cmd'[t]
<1>1. /\ sent[s] \in Nat /\ cmd[s] \in Nat /\ msg[s] \in Nat
      /\ cmd[s] <= msg[s] /\ InOrder(s)
  BY DEF Data, Shapes, InOrder
<1>2. sent' = sent /\ boot' = boot /\ queue' = queue /\ msg' = msg
  BY DEF CmdHandler
<1>3. CASE Locked(s)
  <2>1. /\ cmd' = [cmd EXCEPT ![s] = msg[s]] /\ received' = [received EXCEPT ![s] = TRUE]
        /\ reader' = [reader EXCEPT ![s] = "get"]
    BY <1>3 DEF CmdHandler
  <2>2. Shapes'
    BY <1>1, <1>2, <2>1 DEF Data, Shapes
  <2>3. cmd'[s] = msg[s] /\ \A t \in Streams \ {s} : cmd'[t] = cmd[t]
    BY <2>1 DEF Data, Shapes
  <2>4. \A t \in Streams : cmd[t] <= cmd'[t] /\ cmd'[t] <= msg[t]
    <3>1. \A t \in Streams : cmd[t] \in Nat /\ msg[t] \in Nat /\ cmd[t] <= msg[t]
      BY DEF Data, Shapes, InOrder
    <3>2. QED
      BY <1>1, <2>3, <3>1
  <2>5. \A t \in Streams : InOrder(t)' /\ Counted(t)'
    BY <1>2, <2>4 DEF Data, InOrder, Counted
  <2>6. QED
    BY <1>2, <2>2, <2>4, <2>5 DEF Data
<1>4. CASE ~Locked(s)
  <2>1. cmd' = cmd /\ received' = received /\ reader' = [reader EXCEPT ![s] = "dead"]
    BY <1>4 DEF CmdHandler, bridge
  <2>2. Shapes' /\ \A t \in Streams : cmd[t] \in Nat
    BY <1>2, <2>1 DEF Data, Shapes
  <2>3. \A t \in Streams : InOrder(t)' /\ Counted(t)'
    BY <1>2, <2>1 DEF Data, InOrder, Counted
  <2>4. QED
    BY <1>2, <2>1, <2>2, <2>3 DEF Data
<1>5. QED
  BY <1>3, <1>4

(* A command that is replaced by a later one leaves the reads in order.    *)
LEMMA ForwardReader ==
    ASSUME Data, Reader, UNCHANGED simulation,
           cmd' \in [Streams -> Nat], \A t \in Streams : cmd[t] <= cmd'[t]
    PROVE  Reader'
<1>1. \A i \in DOMAIN Reads : Reads[i] \in Streams /\ used[i] \in Nat
  BY ReadsAssumption DEF Reader, Simulation
<1>2. SeenBefore'
  BY <1>1 DEF Data, Shapes, Reader, SeenBefore, simulation
<1>3. QED
  BY <1>2 DEF Reader, Simulation, Ascending, simulation

(* A step that leaves the commands alone.                                  *)
LEMMA ConstructData ==
    ASSUME Data, Construct
    PROVE  Data'
<1>1. boot \in 0 .. 9 /\ boot # 9 /\ boot' = boot + 1
  BY DEF Data, Construct, Built
<1>2. /\ sent' = sent /\ queue' = queue /\ reader' = reader /\ msg' = msg /\ cmd' = cmd
  BY DEF Construct
<1>3. received' \in [Streams -> BOOLEAN]
  <2>1. received \in [Streams -> BOOLEAN]
    BY DEF Data, Shapes
  <2>2. QED
    BY <2>1 DEF Construct
<1>4. Shapes'
  BY <1>2, <1>3 DEF Data, Shapes
<1>5. \A s \in Streams : InOrder(s)' /\ Counted(s)'
  BY <1>2 DEF Data, InOrder, Counted
<1>6. QED
  BY <1>1, <1>2, <1>4, <1>5 DEF Data

(* A read takes the current command, which is not older than any that a    *)
(* read of its stream has seen.                                            *)
LEMMA ReadReader ==
    ASSUME Data, Reader, sim = "torques", done < Len(Reads), ReadNext
    PROVE  Reader'
<1> DEFINE k == done + 1
<1>1. /\ done \in 0 .. Len(Reads) /\ Len(Reads) \in Nat /\ DOMAIN Reads = 1 .. Len(Reads)
      /\ k \in DOMAIN Reads /\ k \in 1 .. Len(Reads) /\ done \in Nat
      /\ \A i \in DOMAIN Reads : Reads[i] \in Streams
  BY ReadsAssumption DEF Reader, Simulation
<1>2. /\ done' = k /\ used' = [used EXCEPT ![k] = cmd[Reads[k]]] /\ cmd' = cmd /\ sim' = sim
  BY DEF ReadNext, bridge
<1>3. /\ used'[k] = cmd[Reads[k]] /\ cmd[Reads[k]] \in Nat
      /\ \A i \in DOMAIN Reads \ {k} : used'[i] = used[i]
      /\ \A i \in DOMAIN Reads : used[i] \in Nat
  BY <1>1, <1>2 DEF Data, Shapes, Reader, Simulation
<1>4. Simulation'
  BY <1>1, <1>2, <1>3 DEF Reader, Simulation
<1>5. SeenBefore'
  BY <1>1, <1>2, <1>3 DEF Reader, SeenBefore
<1>6. Ascending'
  <2> SUFFICES ASSUME NEW i \in DOMAIN Reads, NEW j \in DOMAIN Reads, Reads[i] = Reads[j],
                      (j <= k /\ k < i) \/ (i < j /\ (j <= k \/ k < i))
               PROVE  used'[i] <= used'[j]
    BY <1>2 DEF Ascending
  <2>1. i \in Nat /\ j \in Nat /\ i # k
    BY <1>1
  <2>2. CASE j = k
    BY <1>3, <2>1, <2>2 DEF Reader, SeenBefore
  <2>3. CASE j # k
    <3>1. (j <= done /\ done < i) \/ (i < j /\ (j <= done \/ done < i))
      BY <1>1, <2>1, <2>3
    <3>2. QED
      BY <1>3, <2>1, <2>3, <3>1 DEF Reader, Ascending
  <2>4. QED
    BY <2>2, <2>3
<1>7. QED
  BY <1>4, <1>5, <1>6 DEF Reader

(* The rest of the simulation thread: it starts, ends or begins a step.    *)
LEMMA LoopReader ==
    ASSUME Reader, Start \/ TestRunning \/ Apply
    PROVE  Reader'
<1>1. /\ done \in 0 .. Len(Reads) /\ Len(Reads) \in Nat /\ DOMAIN Reads = 1 .. Len(Reads)
  BY ReadsAssumption DEF Reader, Simulation
<1>2. cmd' = cmd /\ used' = used
  BY DEF Start, TestRunning, Apply, bridge
<1>3. Simulation' /\ SeenBefore'
  <2>1. SeenBefore'
    BY <1>2 DEF Reader, SeenBefore
  <2>2. sim' \in {"boot", "test", "torques", "ended"} /\ done' \in 0 .. Len(Reads)
    <3>1. CASE Start
      BY <3>1 DEF Start, Reader, Simulation
    <3>2. CASE TestRunning
      BY <1>1, <3>2 DEF TestRunning
    <3>3. CASE Apply
      BY <3>3 DEF Apply, Reader, Simulation
    <3>4. QED
      BY <3>1, <3>2, <3>3
  <2>3. sim' \in {"boot", "test"} => done' \in {0, Len(Reads)}
    BY <1>1 DEF Start, TestRunning, Apply, Reader, Simulation
  <2>4. QED
    BY <1>2, <2>1, <2>2, <2>3 DEF Reader, Simulation
<1>4. Ascending'
  <2>1. CASE Start \/ Apply
    BY <1>2, <2>1 DEF Start, Apply, Reader, Ascending
  <2>2. CASE TestRunning
    <3>1. (done = 0 \/ done = Len(Reads)) /\ done' = 0
      BY <2>2 DEF TestRunning, Reader, Simulation
    <3> SUFFICES ASSUME NEW i \in DOMAIN Reads, NEW j \in DOMAIN Reads, Reads[i] = Reads[j],
                        (j <= 0 /\ 0 < i) \/ (i < j /\ (j <= 0 \/ 0 < i))
                 PROVE  used[i] <= used[j]
      BY <1>2, <3>1 DEF Ascending
    <3>2. i \in Nat /\ j \in Nat /\ 0 < i /\ 0 < j /\ i <= Len(Reads) /\ j <= Len(Reads)
      BY <1>1
    <3>3. i < j
      BY <3>2
    <3>4. j <= done \/ done < i
      BY <3>1, <3>2
    <3>5. QED
      BY <3>3, <3>4 DEF Reader, Ascending
  <2>3. QED
    BY <2>1, <2>2
<1>5. QED
  BY <1>3, <1>4 DEF Reader

-----------------------------------------------------------------------------
LEMMA BridgeInitially ==
    ASSUME BridgeInit
    PROVE  BridgeInductive
<1>1. /\ \A s \in Streams : /\ sent[s] = 0 /\ msg[s] = 0 /\ cmd[s] = 0
                            /\ queue[s] = NewQueue
      /\ boot = 0 /\ done = 0 /\ sim = "boot" /\ running = TRUE
      /\ \A i \in DOMAIN Reads : used[i] = 0
  BY DEF BridgeInit
<1>2. NewQueue.items = << >> /\ NewQueue.curLen = 0 /\ NewQueue \in Queues
  BY DEF NewQueue, Queues
<1>3. Shapes
  BY <1>2 DEF BridgeInit, Shapes, Queues
<1>4. \A s \in Streams : InOrder(s) /\ Counted(s) /\ sent[s] <= MaxSent[s]
  <2>1. \A s \in Streams : MaxSent[s] \in Nat
    BY QueueAssumption
  <2>2. Len(NewQueue.items) = 0
    BY <1>2
  <2>3. QED
    BY <1>1, <1>2, <2>1, <2>2, QueueAssumption DEF InOrder, Counted
<1>5. /\ Len(Reads) \in Nat /\ \A i \in DOMAIN Reads : Reads[i] \in Streams
  BY ReadsAssumption
<1>6. Simulation /\ SeenBefore /\ Ascending
  BY <1>1, <1>5 DEF BridgeInit, Simulation, SeenBefore, Ascending
<1>7. QED
  BY <1>1, <1>3, <1>4, <1>6 DEF BridgeInductive

LEMMA SameData ==
    ASSUME Data, UNCHANGED <<sent, boot, queue, reader, msg, bridge>>
    PROVE  Data'
BY DEF Data, Shapes, InOrder, Counted, bridge

LEMMA SameCommands ==
    ASSUME Data, cmd' = cmd
    PROVE  cmd' \in [Streams -> Nat] /\ \A t \in Streams : cmd[t] <= cmd'[t]
<1>1. cmd \in [Streams -> Nat]
  BY DEF Data, Shapes
<1>2. \A t \in Streams : cmd[t] \in Nat
  BY <1>1
<1>3. QED
  BY <1>1, <1>2

LEMMA BridgeStep ==
    ASSUME BridgeInductive, [BridgeNext]_bridgeVars
    PROVE  BridgeInductive'
<1>1. Data /\ Reader /\ running \in BOOLEAN
  BY DEF BridgeInductive, Data, Reader
<1>2. CASE Construct
  <2>1. UNCHANGED simulation /\ running' = running /\ cmd' = cmd
    BY <1>2 DEF Construct
  <2>2. QED
    BY <1>1, <1>2, <2>1, ConstructData, SameCommands, ForwardReader DEF BridgeInductive, Data, Reader
<1>3. CASE Start \/ TestRunning \/ Apply
  <2>1. UNCHANGED <<sent, boot, queue, reader, msg, bridge, running>>
    BY <1>3 DEF Start, TestRunning, Apply
  <2>2. QED
    BY <1>1, <1>3, <2>1, SameData, LoopReader DEF BridgeInductive, Data, Reader
<1>4. CASE ReadBody \/ ReadHands
  <2>1. sim = "torques" /\ done < Len(Reads) /\ ReadNext
    BY <1>4 DEF ReadBody, ReadHands
  <2>2. UNCHANGED <<sent, boot, queue, reader, msg, bridge, running>>
    BY <2>1 DEF ReadNext
  <2>3. QED
    BY <1>1, <2>1, <2>2, SameData, ReadReader DEF BridgeInductive, Data, Reader
<1>5. CASE Close
  <2>1. UNCHANGED <<sent, boot, queue, reader, msg, bridge, simulation>> /\ running' = FALSE
    BY <1>5 DEF Close
  <2>2. cmd' = cmd
    BY <2>1 DEF bridge
  <2>3. QED
    BY <1>1, <2>1, <2>2, SameData, SameCommands, ForwardReader DEF BridgeInductive, Data, Reader
<1>6. ASSUME NEW s \in Streams, Publish(s) \/ TakeSample(s) PROVE BridgeInductive'
  <2>1. UNCHANGED simulation /\ running' = running /\ cmd' = cmd
    BY <1>6 DEF Publish, TakeSample, bridge
  <2>2. QED
    BY <1>1, <1>6, <2>1, PublishData, TakeData, SameCommands, ForwardReader
       DEF BridgeInductive, Data, Reader
<1>7. ASSUME NEW s \in Streams, CmdHandler(s) PROVE BridgeInductive'
  <2>1. UNCHANGED simulation /\ running' = running
    BY <1>7 DEF CmdHandler
  <2>2. Data' /\ \A t \in Streams : cmd[t] <= cmd'[t]
    BY <1>1, <1>7, HandlerData
  <2>3. cmd' \in [Streams -> Nat]
    BY <2>2 DEF Data, Shapes
  <2>4. QED
    BY <1>1, <2>1, <2>2, <2>3, ForwardReader DEF BridgeInductive, Data, Reader
<1>8. CASE UNCHANGED bridgeVars
  BY <1>8 DEF bridgeVars, bridge, simulation, BridgeInductive, Shapes, InOrder, Counted, Simulation, SeenBefore,
              Ascending
<1>9. QED
  BY <1>2, <1>3, <1>4, <1>5, <1>6, <1>7, <1>8 DEF BridgeNext, SimSteps, ReaderSteps

LEMMA BridgeInvariant == BridgeSpec => []BridgeInductive
<1>1. BridgeInit => BridgeInductive
  BY BridgeInitially
<1>2. BridgeInductive /\ [BridgeNext]_bridgeVars => BridgeInductive'
  BY BridgeStep
<1>3. QED
  BY <1>1, <1>2, PTL DEF BridgeSpec

LEMMA BridgeTyped ==
    ASSUME BridgeInductive
    PROVE  BridgeTypes
<1>1. \A s \in Streams :
        /\ sent[s] \in 0 .. MaxSent[s]
        /\ queue[s].curLen = Len(queue[s].items) /\ queue[s].curLen <= QueueLen
        /\ msg[s] \in 0 .. sent[s] /\ cmd[s] \in 0 .. sent[s]
  <2>1. ASSUME NEW s \in Streams
        PROVE  /\ sent[s] \in Nat /\ msg[s] \in Nat /\ cmd[s] \in Nat /\ MaxSent[s] \in Nat
               /\ sent[s] <= MaxSent[s] /\ cmd[s] <= msg[s] /\ msg[s] <= sent[s]
    BY QueueAssumption DEF BridgeInductive, Shapes, InOrder
  <2>2. QED
    BY <2>1 DEF BridgeInductive, Counted
<1>2. ASSUME NEW s \in Streams PROVE queue[s].items \in Seq(1 .. sent[s])
  <2>1. queue[s] \in Queues /\ sent[s] \in Nat
    BY DEF BridgeInductive, Shapes, Queues
  <2>2. \A i \in 1 .. Len(queue[s].items) : queue[s].items[i] \in 1 .. sent[s]
    BY <2>1, ItemFacts DEF BridgeInductive, InOrder
  <2>3. QED
    BY <2>1, <2>2, ItemFacts
<1>3. QED
  BY <1>1, <1>2 DEF BridgeInductive, BridgeTypes, Shapes, Simulation

(* The reads of a step go forward: motors are never driven back to a       *)
(* command that was already replaced, for any order of the reads, any      *)
(* queue and any number of commands.                                       *)
THEOREM MotorsForward == BridgeSpec => []BridgeInv
<1>1. BridgeInductive => BridgeInv
  <2> SUFFICES ASSUME BridgeInductive PROVE BridgeInv
    OBVIOUS
  <2>1. ReadsForward
    BY DEF BridgeInductive, SeenBefore, Ascending, ReadsForward
  <2>2. QED
    BY <2>1, BridgeTyped DEF BridgeInv
<1>2. QED
  BY <1>1, BridgeInvariant, PTL

-----------------------------------------------------------------------------
(* The robot model.                                                        *)
(*                                                                         *)
(* Its tables are constants, so its facts about joints and groups are found *)
(* by computing with them; the rest is about arrays, sequences of joints    *)
(* and what a view makes of them, and ends in an inductive invariant.       *)

(* Sorting a finite set of integers by counting.                           *)

LEMMA RankFacts ==
  ASSUME NEW S \in SUBSET Int, IsFiniteSet(S)
  PROVE  /\ Cardinality(S) \in Nat
         /\ \A j \in S : Rank(j, S) \in 1 .. Cardinality(S)
         /\ \A j, k \in S : j < k => Rank(j, S) < Rank(k, S)
<1> DEFINE Below(j) == {i \in S : i <= j}
<1>1. Cardinality(S) \in Nat
  BY FS_CardinalityType
<1>2. ASSUME NEW j \in S
      PROVE  /\ IsFiniteSet(Below(j)) /\ Cardinality(Below(j)) \in Nat
             /\ Cardinality(Below(j)) <= Cardinality(S) /\ Cardinality(Below(j)) # 0
  <2>1. Below(j) \in SUBSET S /\ j \in Below(j)
    OBVIOUS
  <2>2. IsFiniteSet(Below(j)) /\ Cardinality(Below(j)) <= Cardinality(S)
    BY <2>1, FS_Subset
  <2>3. Cardinality(Below(j)) \in Nat
    BY <2>2, FS_CardinalityType
  <2>4. Cardinality(Below(j)) # 0
    BY <2>1, <2>2, FS_EmptySet
  <2>5. QED
    BY <2>2, <2>3, <2>4
<1>3. ASSUME NEW j \in S, NEW k \in S, j < k
      PROVE  Cardinality(Below(j)) < Cardinality(Below(k))
  <2>1. Below(j) \in SUBSET Below(k) /\ k \in Below(k) /\ k \notin Below(j)
    <3>1. j \in Int /\ k \in Int /\ \A i \in S : i \in Int
      OBVIOUS
    <3>2. \A i \in S : i <= j => i <= k
      BY <1>3, <3>1
    <3>3. k <= k /\ ~(k <= j)
      BY <1>3, <3>1
    <3>4. QED
      BY <3>2, <3>3
  <2>2. /\ Cardinality(Below(j)) <= Cardinality(Below(k))
        /\ Cardinality(Below(k)) = Cardinality(Below(j)) => Below(k) = Below(j)
    BY <1>2, <2>1, FS_Subset
  <2>3. Cardinality(Below(j)) # Cardinality(Below(k))
    BY <2>1, <2>2
  <2>4. QED
    BY <1>2, <2>2, <2>3
<1>4. \A j \in S : Rank(j, S) = Cardinality(Below(j))
  BY DEF Rank
<1> HIDE DEF Below
<1>5. QED
  BY <1>1, <1>2, <1>3, <1>4

LEMMA SortedFacts ==
  ASSUME NEW S \in SUBSET Int, IsFiniteSet(S)
  PROVE  /\ Cardinality(S) \in Nat
         /\ Sorted(S) \in [1 .. Cardinality(S) -> S]
         /\ \A k \in 1 .. Cardinality(S) : Rank(Sorted(S)[k], S) = k
         /\ \A i, j \in 1 .. Cardinality(S) : Sorted(S)[i] = Sorted(S)[j] => i = j
         /\ \A s \in S : \E k \in 1 .. Cardinality(S) : Sorted(S)[k] = s
<1> DEFINE n == Cardinality(S)
           rank == [j \in S |-> Rank(j, S)]
<1>1. /\ n \in Nat
      /\ \A j \in S : Rank(j, S) \in 1 .. n
      /\ \A j, k \in S : j < k => Rank(j, S) < Rank(k, S)
  BY RankFacts
<1>2. \A j, k \in S : Rank(j, S) = Rank(k, S) => j = k
  <2>1. SUFFICES ASSUME NEW j \in S, NEW k \in S, j < k \/ k < j
                 PROVE  Rank(j, S) # Rank(k, S)
    OBVIOUS
  <2>2. QED
    BY <1>1, <2>1
<1>3. rank \in Injection(S, 1 .. n)
  BY <1>1, <1>2 DEF Injection, IsInjective
<1>4. IsFiniteSet(1 .. n) /\ Cardinality(1 .. n) = n
  BY <1>1, FS_Interval
<1>5. rank \in Surjection(S, 1 .. n)
  BY <1>3, <1>4, FS_Injection
<1>6. \A k \in 1 .. n : \E j \in S : Rank(j, S) = k
  BY <1>5 DEF Surjection
<1>7. \A k \in 1 .. n : Sorted(S)[k] \in S /\ Rank(Sorted(S)[k], S) = k
  BY <1>6 DEF Sorted
<1>8. Sorted(S) \in [1 .. n -> S]
  BY <1>7 DEF Sorted
<1>9. \A s \in S : Rank(s, S) \in 1 .. n /\ Sorted(S)[Rank(s, S)] = s
  BY <1>1, <1>2, <1>7
<1> HIDE DEF rank
<1>10. QED
  BY <1>1, <1>7, <1>8, <1>9

\* Induction below takes the least of the numbers at which a claim fails.
LEMMA Least ==
  ASSUME NEW S \in SUBSET Int, IsFiniteSet(S), S # {}
  PROVE  \E x \in S : \A y \in S : x <= y
<1> DEFINE x == Sorted(S)[1]
<1>1. Cardinality(S) \in Nat /\ Cardinality(S) # 0
  BY FS_CardinalityType, FS_EmptySet
<1>2. x \in S /\ Rank(x, S) = 1
  BY <1>1, SortedFacts
<1>3. \A y \in S : y < x => Rank(y, S) \in 1 .. Cardinality(S) /\ Rank(y, S) < 1
  BY <1>2, RankFacts
<1> HIDE DEF x
<1>4. \A y \in S : ~(y < x)
  BY <1>1, <1>3
<1>5. QED
  BY <1>2, <1>4

-----------------------------------------------------------------------------
(* The tables of the G1. *)

LEMMA DofFacts ==
  ASSUME floating \in BOOLEAN
  PROVE  /\ Root \in Nat /\ Root \in {0, 7} /\ Size \in Nat /\ Size = Root + 43
         /\ JointNames \in Seq(Joints) /\ Len(JointNames) = 43
         /\ \A j \in Joints : dof_index(j) \in Root + 1 .. Size /\ dof_index(j) - Root = j
<1>1. Root \in Nat /\ Root \in {0, 7}
  BY DEF Root
<1>2. JointNames \in Seq(Joints) /\ Len(JointNames) = 43
  BY DEF JointNames, Joints
<1>3. QED
  BY <1>1, <1>2 DEF Size, dof_index, Joints

LEMMA LimitFacts ==
  \A j \in Joints : JointLimits[j][1] \in Int /\ JointLimits[j][2] \in Int
<1> DEFINE Pairs == Int \X Int
           Tables(n) == {s \in Seq(Pairs) : Len(s) = n}
<1>1. /\ LegLimits \in Tables(6) /\ WaistLimits \in Tables(3)
      /\ ArmLimits \in Tables(7) /\ HandLimits \in Tables(7)
  BY DEF LegLimits, WaistLimits, ArmLimits, HandLimits, Symmetric
<1>2. ASSUME NEW n \in Nat, n >= 2, NEW s \in Tables(n)
      PROVE  MirrorRoll(s) \in Tables(n)
  <2>1. s[2] \in Pairs
    BY <1>2
  <2>2. Mirrored(s[2]) \in Pairs
    BY <2>1 DEF Mirrored
  <2> HIDE DEF Pairs
  <2>3. QED
    BY <1>2, <2>2 DEF MirrorRoll
<1>3. ASSUME NEW m \in Nat, NEW n \in Nat, NEW s \in Tables(m), NEW t \in Tables(n)
      PROVE  s \o t \in Tables(m + n)
  <2> HIDE DEF Pairs
  <2>1. QED
    BY <1>3, ConcatProperties
<1>4. ASSUME NEW s \in Tables(43), NEW j \in Joints
      PROVE  s[j] \in Pairs
  <2>1. s \in Seq(Pairs) /\ Len(s) = 43
    OBVIOUS
  <2> HIDE DEF Pairs
  <2>2. j \in 1 .. Len(s)
    BY <2>1 DEF Joints
  <2>3. QED
    BY <2>1, <2>2, ElementOfSeq
<1> HIDE DEF Tables
<1>5. MirrorRoll(LegLimits) \in Tables(6) /\ MirrorRoll(ArmLimits) \in Tables(7)
  BY <1>1, <1>2
<1>6. LegLimits \o MirrorRoll(LegLimits) \o WaistLimits \in Tables(15)
  <2>1. LegLimits \o MirrorRoll(LegLimits) \in Tables(6 + 6)
    BY <1>1, <1>3, <1>5
  <2>2. QED
    BY <1>1, <1>3, <2>1
<1>7. LegLimits \o MirrorRoll(LegLimits) \o WaistLimits \o ArmLimits \o HandLimits
        \in Tables(29)
  <2>1. LegLimits \o MirrorRoll(LegLimits) \o WaistLimits \o ArmLimits \in Tables(15 + 7)
    BY <1>1, <1>3, <1>6
  <2>2. QED
    BY <1>1, <1>3, <2>1
<1>8. JointLimits \in Tables(43)
  <2>1. LegLimits \o MirrorRoll(LegLimits) \o WaistLimits \o ArmLimits \o HandLimits
          \o MirrorRoll(ArmLimits) \in Tables(29 + 7)
    BY <1>3, <1>5, <1>7
  <2>2. JointLimits \in Tables(36 + 7)
    BY <1>1, <1>3, <2>1 DEF JointLimits
  <2>3. QED
    BY <2>2
<1>9. \A j \in Joints : JointLimits[j] \in Pairs
  BY <1>4, <1>8
<1>10. QED
  BY <1>9

\* The joints of every group, with the waist where it is.
Members(g) ==
  LET legs == LeftLeg \cup RightLeg  arms == LeftArm \cup RightArm
      hands == LeftHand \cup RightHand
      below == IF waist = "upper_body" THEN {} ELSE Waist
      above == IF waist = "lower_body" THEN {} ELSE Waist
  IN  CASE g = "waist" -> Waist
        [] g = "left_leg" -> LeftLeg [] g = "right_leg" -> RightLeg [] g = "legs" -> legs
        [] g = "left_arm" -> LeftArm [] g = "right_arm" -> RightArm [] g = "arms" -> arms
        [] g = "left_hand" -> LeftHand [] g = "right_hand" -> RightHand [] g = "hands" -> hands
        [] g = "lower_body" -> legs \cup below
        [] g = "upper_body_no_hands" -> arms \cup above
        [] g = "body" -> legs \cup arms \cup Waist
        [] g = "upper_body" -> arms \cup above \cup hands

LEMMA GroupNames ==
  /\ Len(GroupOrder) = 14 /\ DOMAIN GroupOrder = 1 .. 14
  /\ Groups = {"waist", "left_leg", "right_leg", "legs", "left_arm", "right_arm", "arms",
               "left_hand", "right_hand", "hands", "lower_body", "upper_body_no_hands",
               "body", "upper_body"}
BY DEF GroupOrder, Groups

\* Every group consists of its direct joints and of its subgroups.
LEMMA MembersFacts ==
  ASSUME waist \in Waists, NEW g \in Groups
  PROVE  /\ Members(g) = DirectJoints(g) \cup UNION {Members(h) : h \in Subgroups(waist, g)}
         /\ Members(g) \subseteq Joints
<1>1. Members(g) \subseteq Joints
  BY GroupNames DEF Members, Joints, Waist, LeftLeg, RightLeg, LeftArm, RightArm, LeftHand,
     RightHand
<1>2. CASE g \in {"waist", "left_leg", "right_leg", "left_arm", "right_arm", "left_hand", "right_hand"}
  <2>1. Subgroups(waist, g) = {}
    BY <1>2 DEF Subgroups
  <2>2. Members(g) = DirectJoints(g)
    BY <1>2 DEF Members, DirectJoints
  <2>3. QED
    BY <1>1, <2>1, <2>2
<1>3. CASE g \in {"legs", "arms", "hands", "lower_body", "upper_body_no_hands", "body", "upper_body"}
  <2>1. DirectJoints(g) = {}
    BY <1>3 DEF DirectJoints
  <2>2. \A a, b : UNION {Members(h) : h \in {a, b}} = Members(a) \cup Members(b)
    OBVIOUS
  <2>3. \A a : UNION {Members(h) : h \in {a}} = Members(a)
    OBVIOUS
  <2>4. CASE g = "legs"
    <3>1. Subgroups(waist, g) = {"left_leg", "right_leg"}
      BY <2>4 DEF Subgroups
    <3>2. Members(g) = Members("left_leg") \cup Members("right_leg")
      BY <2>4 DEF Members
    <3>3. QED
      BY <1>1, <2>1, <2>2, <3>1, <3>2
  <2>5. CASE g = "arms"
    <3>1. Subgroups(waist, g) = {"left_arm", "right_arm"}
      BY <2>5 DEF Subgroups
    <3>2. Members(g) = Members("left_arm") \cup Members("right_arm")
      BY <2>5 DEF Members
    <3>3. QED
      BY <1>1, <2>1, <2>2, <3>1, <3>2
  <2>6. CASE g = "hands"
    <3>1. Subgroups(waist, g) = {"left_hand", "right_hand"}
      BY <2>6 DEF Subgroups
    <3>2. Members(g) = Members("left_hand") \cup Members("right_hand")
      BY <2>6 DEF Members
    <3>3. QED
      BY <1>1, <2>1, <2>2, <3>1, <3>2
  <2>7. CASE g = "lower_body"
    <3>1. CASE waist = "upper_body"
      <4>1. Subgroups(waist, g) = {"legs"} /\ Members(g) = Members("legs")
        BY <2>7, <3>1 DEF Subgroups, Members
      <4>2. QED
        BY <1>1, <2>1, <2>3, <4>1
    <3>2. CASE waist # "upper_body"
      <4>1. Subgroups(waist, g) = {"waist", "legs"}
        BY <2>7, <3>2 DEF Subgroups
      <4>2. Members(g) = Members("waist") \cup Members("legs")
        BY <2>7, <3>2 DEF Members
      <4>3. QED
        BY <1>1, <2>1, <2>2, <4>1, <4>2
    <3>3. QED
      BY <3>1, <3>2
  <2>8. CASE g = "upper_body_no_hands"
    <3>1. CASE waist = "lower_body"
      <4>1. Subgroups(waist, g) = {"arms"} /\ Members(g) = Members("arms")
        BY <2>8, <3>1 DEF Subgroups, Members
      <4>2. QED
        BY <1>1, <2>1, <2>3, <4>1
    <3>2. CASE waist # "lower_body"
      <4>1. Subgroups(waist, g) = {"arms", "waist"}
        BY <2>8, <3>2 DEF Subgroups
      <4>2. Members(g) = Members("arms") \cup Members("waist")
        BY <2>8, <3>2 DEF Members
      <4>3. QED
        BY <1>1, <2>1, <2>2, <4>1, <4>2
    <3>3. QED
      BY <3>1, <3>2
  <2>9. CASE g = "body"
    <3>1. Subgroups(waist, g) = {"lower_body", "upper_body_no_hands"}
      BY <2>9 DEF Subgroups
    <3>2. Members(g) = Members("lower_body") \cup Members("upper_body_no_hands")
      BY <2>9 DEF Members, Waists
    <3>3. QED
      BY <1>1, <2>1, <2>2, <3>1, <3>2
  <2>10. CASE g = "upper_body"
    <3>1. Subgroups(waist, g) = {"upper_body_no_hands", "hands"}
      BY <2>10 DEF Subgroups
    <3>2. Members(g) = Members("upper_body_no_hands") \cup Members("hands")
      BY <2>10 DEF Members
    <3>3. QED
      BY <1>1, <2>1, <2>2, <3>1, <3>2
  <2>11. QED
    BY <1>3, <2>4, <2>5, <2>6, <2>7, <2>8, <2>9, <2>10
<1>4. QED
  BY <1>2, <1>3, GroupNames

\* A subgroup is resolved before the groups that name it.
LEMMA SubgroupsBefore ==
  ASSUME waist \in Waists
  PROVE  Resolves
<1>1. /\ GroupOrder[1] = "waist" /\ GroupOrder[2] = "left_leg" /\ GroupOrder[3] = "right_leg"
      /\ GroupOrder[4] = "legs" /\ GroupOrder[5] = "left_arm" /\ GroupOrder[6] = "right_arm"
      /\ GroupOrder[7] = "arms" /\ GroupOrder[8] = "left_hand" /\ GroupOrder[9] = "right_hand"
      /\ GroupOrder[10] = "hands" /\ GroupOrder[11] = "lower_body" /\ GroupOrder[12] = "upper_body_no_hands"
      /\ GroupOrder[13] = "body" /\ GroupOrder[14] = "upper_body"
  BY DEF GroupOrder
<1>2. \A k \in {1, 2, 3, 5, 6, 8, 9} : Subgroups(waist, GroupOrder[k]) = {}
  BY <1>1 DEF Subgroups
<1>3. /\ Subgroups(waist, GroupOrder[4]) \subseteq {GroupOrder[2], GroupOrder[3]}
      /\ Subgroups(waist, GroupOrder[7]) \subseteq {GroupOrder[5], GroupOrder[6]}
      /\ Subgroups(waist, GroupOrder[10]) \subseteq {GroupOrder[8], GroupOrder[9]}
      /\ Subgroups(waist, GroupOrder[11]) \subseteq {GroupOrder[1], GroupOrder[4]}
      /\ Subgroups(waist, GroupOrder[12]) \subseteq {GroupOrder[1], GroupOrder[7]}
      /\ Subgroups(waist, GroupOrder[13]) \subseteq {GroupOrder[11], GroupOrder[12]}
      /\ Subgroups(waist, GroupOrder[14]) \subseteq {GroupOrder[12], GroupOrder[10]}
  BY <1>1 DEF Subgroups
<1>4. ASSUME NEW k \in 1 .. 14
      PROVE  Subgroups(waist, GroupOrder[k]) \subseteq {GroupOrder[i] : i \in 1 .. k - 1}
  <2>1. \A i, j \in 1 .. k - 1 : {GroupOrder[i], GroupOrder[j]} \subseteq {GroupOrder[h] : h \in 1 .. k - 1}
    OBVIOUS
  <2>2. QED
    BY <1>2, <1>3, <2>1
<1>5. QED
  BY <1>4, GroupNames DEF Resolves

-----------------------------------------------------------------------------
(* The two resolutions of groups. Each is a recursive function: it is what  *)
(* its equation says because some function satisfies the equation.          *)

LEMMA SubgroupFacts ==
  ASSUME waist \in Waists
  PROVE  /\ \A k \in 1 .. 14 :
              /\ GroupOrder[k] \in Groups
              /\ \A h \in Subgroups(waist, GroupOrder[k]) : \E i \in 1 .. k - 1 : GroupOrder[i] = h
         /\ \A g \in Groups : /\ \E k \in 1 .. 14 : GroupOrder[k] = g
                              /\ Subgroups(waist, g) \subseteq Groups
<1>1. \A k \in 1 .. 14 : GroupOrder[k] \in Groups
  BY GroupNames DEF Groups
<1>2. \A g \in Groups : \E k \in 1 .. 14 : GroupOrder[k] = g
  BY GroupNames DEF Groups
<1>3. \A k \in 1 .. 14 : \A h \in Subgroups(waist, GroupOrder[k]) : \E i \in 1 .. k - 1 : GroupOrder[i] = h
  BY SubgroupsBefore, GroupNames DEF Resolves
<1>4. \A g \in Groups : Subgroups(waist, g) \subseteq Groups
  BY <1>1, <1>2, <1>3
<1>5. QED
  BY <1>1, <1>2, <1>3, <1>4

LEMMA PlacesFinite == IsFiniteSet(0 .. 14)
<1>1. 0 \in Int /\ 14 \in Int
  OBVIOUS
<1>2. QED
  BY <1>1, FS_Interval, Zenon

LEMMA DescendFacts ==
  ASSUME waist \in Waists
  PROVE  \A g \in Groups : Descend[g] = Members(g)
<1> DEFINE Body(D) == [g \in Groups |-> DirectJoints(g) \cup UNION {D[h] : h \in Subgroups(waist, g)}]
           M == [g \in Groups |-> Members(g)]
           Bad == {k \in 1 .. 14 : Descend[GroupOrder[k]] # Members(GroupOrder[k])}
<1>1. M = Body(M)
  <2>1. ASSUME NEW g \in Groups
        PROVE  Members(g) = DirectJoints(g) \cup UNION {M[h] : h \in Subgroups(waist, g)}
    <3>1. \A h \in Subgroups(waist, g) : M[h] = Members(h)
      BY SubgroupFacts
    <3>2. {M[h] : h \in Subgroups(waist, g)} = {Members(h) : h \in Subgroups(waist, g)}
      BY <3>1
    <3>3. QED
      BY <3>2, MembersFacts
  <2>2. QED
    BY <2>1
<1>2. Descend = Body(Descend)
  <2> HIDE DEF M
  <2>1. \E D : D = Body(D)
    BY <1>1
  <2>2. Descend = CHOOSE D : D = Body(D)
    BY DEF Descend
  <2> HIDE DEF Body
  <2>3. QED
    BY <2>1, <2>2, Zenon
<1>3. ASSUME NEW k \in 1 .. 14, \A i \in 1 .. k - 1 : Descend[GroupOrder[i]] = Members(GroupOrder[i])
      PROVE  Descend[GroupOrder[k]] = Members(GroupOrder[k])
  <2> DEFINE g == GroupOrder[k]
  <2>1. g \in Groups
    BY SubgroupFacts
  <2>2. Descend[g] = DirectJoints(g) \cup UNION {Descend[h] : h \in Subgroups(waist, g)}
    BY <1>2, <2>1
  <2>3. \A h \in Subgroups(waist, g) : Descend[h] = Members(h)
    BY <1>3, SubgroupFacts
  <2>4. {Descend[h] : h \in Subgroups(waist, g)} = {Members(h) : h \in Subgroups(waist, g)}
    BY <2>3
  <2> HIDE DEF g
  <2>5. Descend[g] = Members(g)
    BY <2>1, <2>2, <2>4, MembersFacts
  <2>6. QED
    BY <2>5 DEF g
<1>4. Bad = {}
  <2>1. Bad \in SUBSET Int /\ IsFiniteSet(Bad)
    <3>1. Bad \in SUBSET (0 .. 14)
      OBVIOUS
    <3>2. QED
      BY <3>1, PlacesFinite, FS_Subset
  <2>2. SUFFICES ASSUME NEW k \in Bad, \A i \in Bad : k <= i PROVE FALSE
    BY <2>1, Least
  <2>3. \A i \in 1 .. k - 1 : i \in 1 .. 14 /\ i \notin Bad
    BY <2>2
  <2>4. QED
    BY <1>3, <2>2, <2>3
<1>5. QED
  BY <1>4, SubgroupFacts

LEMMA ResolvedFacts ==
  ASSUME waist \in Waists
  PROVE  \A g \in Groups : get_joint_group_indices(g) = {dof_index(j) : j \in Members(g)}
<1> DEFINE Body(R) ==
             [k \in 0 .. Len(GroupOrder) |->
                IF k = 0 THEN [g \in {} |-> {}]
                ELSE LET before == R[k - 1]
                         g == GroupOrder[k]
                     IN  [h \in DOMAIN before \cup {g} |-> IF h = g THEN Indices(before, g) ELSE before[h]]]
           Found(g) == {dof_index(j) : j \in Members(g)}
           Upto(k) == {GroupOrder[i] : i \in 1 .. k}
           W(k) == [g \in Upto(k) |-> Found(g)]
           Whole == [k \in 0 .. 14 |-> W(k)]
           Bad == {k \in 0 .. 14 : Resolved[k] # W(k)}
<1>1. ASSUME NEW k \in 1 .. 14
      PROVE  W(k) = LET before == W(k - 1)
                        g == GroupOrder[k]
                    IN  [h \in DOMAIN before \cup {g} |-> IF h = g THEN Indices(before, g) ELSE before[h]]
  <2> DEFINE before == W(k - 1)
             g == GroupOrder[k]
  <2>1. DOMAIN before = Upto(k - 1) /\ Upto(k) = Upto(k - 1) \cup {g}
    OBVIOUS
  <2>2. g \in Groups /\ Subgroups(waist, g) \subseteq Upto(k - 1)
    BY SubgroupFacts
  <2>3. Found(g) = {dof_index(j) : j \in DirectJoints(g)} \cup UNION {Found(h) : h \in Subgroups(waist, g)}
    <3>1. Members(g) = DirectJoints(g) \cup UNION {Members(h) : h \in Subgroups(waist, g)}
      BY <2>2, MembersFacts
    <3> HIDE DEF g
    <3>2. QED
      BY <3>1
  <2>4. {Found(h) : h \in Subgroups(waist, g)} = {before[h] : h \in Subgroups(waist, g)}
    <3> HIDE DEF Found, Upto, g
    <3>1. QED
      BY <2>2
  <2>5. Indices(before, g) = Found(g)
    BY <2>3, <2>4 DEF Indices
  <2>6. \A h \in Upto(k - 1) : before[h] = Found(h)
    OBVIOUS
  <2> HIDE DEF Found, Upto, before, g
  <2>7. W(k) = [h \in DOMAIN before \cup {g} |-> IF h = g THEN Indices(before, g) ELSE before[h]]
    BY <2>1, <2>5, <2>6
  <2>8. QED
    BY <2>7 DEF before, g
<1>2. W(0) = [g \in {} |-> {}]
  OBVIOUS
<1>3. Whole = Body(Whole)
  <2> HIDE DEF W
  <2>1. Len(GroupOrder) = 14
    BY GroupNames
  <2>2. \A k \in 1 .. 14 : k - 1 \in 0 .. 14 /\ Whole[k - 1] = W(k - 1)
    OBVIOUS
  <2>3. QED
    BY <1>1, <1>2, <2>1, <2>2
<1>4. Resolved = Body(Resolved)
  <2> HIDE DEF Whole
  <2>1. \E R : R = Body(R)
    BY <1>3
  <2>2. Resolved = CHOOSE R : R = Body(R)
    BY DEF Resolved
  <2> HIDE DEF Body
  <2>3. QED
    BY <2>1, <2>2, Zenon
<1>5. Resolved[0] = W(0)
  BY <1>2, <1>4, GroupNames
<1>6. ASSUME NEW k \in 1 .. 14, Resolved[k - 1] = W(k - 1)
      PROVE  Resolved[k] = W(k)
  <2> HIDE DEF W
  <2>1. k \in 0 .. Len(GroupOrder) /\ k # 0
    BY GroupNames
  <2>2. Resolved[k] = LET before == Resolved[k - 1]
                          g == GroupOrder[k]
                      IN  [h \in DOMAIN before \cup {g} |-> IF h = g THEN Indices(before, g) ELSE before[h]]
    BY <1>4, <2>1
  <2>3. QED
    BY <1>1, <1>6, <2>2
<1>7. Bad = {}
  <2> HIDE DEF W
  <2>1. Bad \in SUBSET Int /\ IsFiniteSet(Bad)
    <3>1. Bad \in SUBSET (0 .. 14)
      OBVIOUS
    <3>2. QED
      BY <3>1, PlacesFinite, FS_Subset
  <2>2. SUFFICES ASSUME NEW k \in Bad, \A i \in Bad : k <= i PROVE FALSE
    BY <2>1, Least
  <2>3. k \in 1 .. 14 /\ k - 1 \in 0 .. 14 /\ k - 1 \notin Bad
    BY <1>5, <2>2
  <2>4. QED
    BY <1>6, <2>2, <2>3
<1>8. Resolved[14] = W(14)
  BY <1>7
<1>9. \A g \in Groups : g \in Upto(14)
  BY SubgroupFacts
<1>10. QED
  BY <1>8, <1>9, GroupNames DEF get_joint_group_indices

\* What a robot that was instantiated never changes.
Instance == floating \in BOOLEAN /\ waist \in Waists /\ high \in BOOLEAN

LEMMA GroupsAgreeAlways ==
  ASSUME Instance
  PROVE  GroupsAgree
<1>1. waist \in Waists /\ floating \in BOOLEAN
  BY DEF Instance
<1>2. \A g \in Groups : /\ Descend[g] = Members(g) /\ Members(g) \subseteq Joints
                        /\ Members(g) = DirectJoints(g) \cup UNION {Members(h) : h \in Subgroups(waist, g)}
                        /\ Subgroups(waist, g) \subseteq Groups
                        /\ get_joint_group_indices(g) = {dof_index(j) : j \in Members(g)}
  BY <1>1, DescendFacts, MembersFacts, SubgroupFacts, ResolvedFacts
<1>3. ASSUME NEW g \in Groups, ~floating
      PROVE  FixedBy(g) = Joints \ FixedUnless(g)
  <2>1. \A j \in Joints : dof_index(j) = j
    BY <1>3 DEF dof_index, Root, Joints
  <2>2. \A h \in Subgroups(waist, g) : get_joint_group_indices(h) = Members(h)
    <3>1. \A h \in Groups : get_joint_group_indices(h) = Members(h)
      BY <1>2, <2>1
    <3>2. QED
      BY <1>2, <3>1
  <2>3. {get_joint_group_indices(h) : h \in Subgroups(waist, g)} = {Members(h) : h \in Subgroups(waist, g)}
    BY <2>2
  <2>4. FixedBy(g) = Members(g)
    BY <1>2, <2>3 DEF FixedBy
  <2>5. QED
    BY <1>2, <2>4 DEF FixedUnless
<1>4. {"body", "hands", "lower_body", "upper_body"} \subseteq Groups
  BY GroupNames
<1>5. Members("body") \cup Members("hands") = Joints
  BY DEF Members, Joints, Waist, LeftLeg, RightLeg, LeftArm, RightArm, LeftHand, RightHand
<1>6. Members("lower_body") \cap Members("upper_body") =
        (IF waist = "lower_and_upper_body" THEN Waist ELSE {})
  BY <1>1 DEF Members, Waists, Waist, LeftLeg, RightLeg, LeftArm, RightArm, LeftHand, RightHand
<1>7. QED
  BY <1>1, <1>2, <1>3, <1>4, <1>5, <1>6, SubgroupsBefore DEF GroupsAgree

-----------------------------------------------------------------------------
(* Configurations and the orders of the motors. *)

Arrays == [1 .. Size -> Int]

LEMMA ConfigurationFacts ==
  ASSUME Instance
  PROVE  /\ q_zero \in Arrays
         /\ \A q \in Configurations : q \in Arrays /\ \A i \in 1 .. Root : q[i] = q_zero[i]
<1>1. Root \in Nat /\ Size \in Nat
  BY DofFacts DEF Instance
<1>2. q_zero \in Arrays
  BY DEF q_zero, Arrays
<1>3. /\ \A j \in DOMAIN Default(high) : j \in Joints /\ Default(high)[j] \in Int
  BY DEF Default, Joints
<1>4. default_body_pose \in Arrays /\ \A i \in 1 .. Root : default_body_pose[i] = q_zero[i]
  <2>1. \A i \in 1 .. Size : q_zero[i] \in Int
    BY <1>2 DEF Arrays
  <2>2. \A i \in 1 .. Root : i \in 1 .. Size /\ i - Root \notin DOMAIN Default(high)
    <3>1. Size = Root + 43
      BY DofFacts DEF Instance
    <3>2. \A i \in 1 .. Root : i \in 1 .. Size /\ i - Root \notin Joints
      BY <1>1, <3>1 DEF Joints
    <3>3. QED
      BY <1>3, <3>2
  <2>3. QED
    BY <1>3, <2>1, <2>2 DEF default_body_pose, Arrays
<1>5. ASSUME NEW n \in Levels
      PROVE  Uniform(n) \in Arrays /\ \A i \in 1 .. Root : Uniform(n)[i] = q_zero[i]
  <2>1. \A i \in 1 .. Size : q_zero[i] \in Int
    BY <1>2 DEF Arrays
  <2>2. \A i \in 1 .. Root : i \in 1 .. Size
    BY <1>1, DofFacts DEF Instance
  <2>3. QED
    BY <2>1, <2>2, ModelAssumption DEF Uniform, Arrays
<1>6. QED
  BY <1>2, <1>4, <1>5 DEF Configurations

LEMMA RunFacts ==
  ASSUME NEW a \in Nat, NEW b \in Nat, NEW c \in Nat, NEW d \in Nat,
         1 <= a, a <= b, b <= 43, 1 <= c, c <= d, d <= 43
  PROVE  /\ Run(a, b) \o Run(c, d) \in Seq(Joints)
         /\ \A j \in a .. b \cup c .. d : InSeq(j, Run(a, b) \o Run(c, d))
<1> DEFINE s == Run(a, b)
           t == Run(c, d)
<1>1. s \in Seq(Joints) /\ Len(s) = b - a + 1 /\ t \in Seq(Joints) /\ Len(t) = d - c + 1
  BY DEF Run, Joints
<1>2. /\ s \o t \in Seq(Joints) /\ Len(s \o t) = Len(s) + Len(t)
      /\ \A i \in 1 .. Len(s) + Len(t) :
           (s \o t)[i] = IF i <= Len(s) THEN s[i] ELSE t[i - Len(s)]
  BY <1>1, ConcatProperties
<1>3. DOMAIN (s \o t) = 1 .. b - a + 1 + d - c + 1
  BY <1>1, <1>2
<1>4. ASSUME NEW j \in a .. b PROVE InSeq(j, s \o t)
  <2> DEFINE i == j - a + 1
  <2>1. i \in DOMAIN (s \o t) /\ i <= Len(s) /\ i \in 1 .. Len(s) + Len(t)
    BY <1>1, <1>3
  <2>2. s[i] = j
    BY DEF Run
  <2>3. QED
    BY <1>2, <2>1, <2>2 DEF InSeq
<1>5. ASSUME NEW j \in c .. d PROVE InSeq(j, s \o t)
  <2> DEFINE i == b - a + 1 + j - c + 1
  <2>1. /\ i \in DOMAIN (s \o t) /\ i \in 1 .. Len(s) + Len(t)
        /\ ~(i <= Len(s)) /\ i - Len(s) = j - c + 1
    BY <1>1, <1>3
  <2>2. t[j - c + 1] = j
    BY DEF Run
  <2>3. QED
    BY <1>2, <2>1, <2>2 DEF InSeq
<1>6. QED
  BY <1>2, <1>4, <1>5

LEMMA MotorFacts ==
  /\ {BodyActuated, LeftHandActuated, RightHandActuated} \subseteq Seq(Joints)
  /\ \A j \in Joints : InSeq(j, BodyActuated) \/ InSeq(j, LeftHandActuated) \/ InSeq(j, RightHandActuated)
<1>1. /\ BodyActuated \in Seq(Joints)
      /\ \A j \in 1 .. 22 \cup 30 .. 36 : InSeq(j, BodyActuated)
  <2>1. {1, 22, 30, 36} \subseteq Nat /\ 1 <= 1 /\ 1 <= 22 /\ 22 <= 43 /\ 1 <= 30 /\ 30 <= 36 /\ 36 <= 43
    OBVIOUS
  <2>2. QED
    BY <2>1, RunFacts, Zenon DEF BodyActuated
<1>2. /\ LeftHandActuated \in Seq(Joints)
      /\ \A j \in 27 .. 29 \cup 23 .. 26 : InSeq(j, LeftHandActuated)
  <2>1. {27, 29, 23, 26} \subseteq Nat /\ 1 <= 27 /\ 27 <= 29 /\ 29 <= 43 /\ 1 <= 23 /\ 23 <= 26 /\ 26 <= 43
    OBVIOUS
  <2>2. QED
    BY <2>1, RunFacts, Zenon DEF LeftHandActuated
<1>3. /\ RightHandActuated \in Seq(Joints)
      /\ \A j \in 41 .. 43 \cup 37 .. 40 : InSeq(j, RightHandActuated)
  <2>1. {41, 43, 37, 40} \subseteq Nat /\ 1 <= 41 /\ 41 <= 43 /\ 43 <= 43 /\ 1 <= 37 /\ 37 <= 40 /\ 40 <= 43
    OBVIOUS
  <2>2. QED
    BY <2>1, RunFacts, Zenon DEF RightHandActuated
<1>4. \A j \in Joints : \/ j \in 1 .. 22 \cup 30 .. 36
                         \/ j \in 27 .. 29 \cup 23 .. 26
                         \/ j \in 41 .. 43 \cup 37 .. 40
  BY DEF Joints
<1>5. QED
  BY <1>1, <1>2, <1>3, <1>4

\* Writing back what was read at some indices.
LEMMA AssignAt ==
  ASSUME NEW p \in Arrays, NEW q \in Arrays, NEW s \in Seq(Joints), floating \in BOOLEAN
  PROVE  LET r == Assign(p, Indexed(s), At(q, Indexed(s)))
         IN  /\ r \in Arrays
             /\ \A i \in 1 .. Size : r[i] \in {p[i], q[i]}
             /\ \A j \in Joints : InSeq(j, s) => r[dof_index(j)] = q[dof_index(j)]
             /\ \A i \in 1 .. Size : i <= Root => r[i] = p[i]
             /\ \A i \in 1 .. Size : p[i] = q[i] => r[i] = q[i]
<1> DEFINE x == Indexed(s)
           r == Assign(p, x, At(q, x))
<1>1. /\ Size \in Nat /\ Root \in Nat
      /\ \A j \in Joints : dof_index(j) \in Root + 1 .. Size /\ dof_index(j) - Root = j
  BY DofFacts
<1>2. \A k \in DOMAIN s : s[k] \in Joints
  BY ElementOfSeq
<1>3. DOMAIN x = DOMAIN s /\ \A k \in DOMAIN x : x[k] = dof_index(s[k]) /\ x[k] \in Root + 1 .. Size
  BY <1>1, <1>2 DEF Indexed
<1> HIDE DEF x
<1>4. ASSUME NEW i \in 1 .. Size
      PROVE  r[i] = IF \E k \in DOMAIN x : x[k] = i THEN q[i] ELSE p[i]
  <2>1. CASE \E k \in DOMAIN x : x[k] = i
    <3> DEFINE k == CHOOSE k \in DOMAIN x : x[k] = i
    <3>1. k \in DOMAIN x /\ x[k] = i
      BY <2>1
    <3>2. r[i] = At(q, x)[k]
      BY <2>1 DEF Assign, Arrays
    <3> HIDE DEF k
    <3>3. QED
      BY <2>1, <3>1, <3>2 DEF At
  <2>2. CASE ~(\E k \in DOMAIN x : x[k] = i)
    BY <2>2 DEF Assign, Arrays
  <2>3. QED
    BY <2>1, <2>2
<1>5. r \in Arrays
  <2>1. DOMAIN r = 1 .. Size /\ r = [i \in 1 .. Size |-> r[i]]
    BY DEF Assign, Arrays
  <2>2. \A i \in 1 .. Size : r[i] \in Int
    BY <1>4 DEF Arrays
  <2> HIDE DEF r
  <2>3. QED
    BY <2>1, <2>2 DEF Arrays
<1> HIDE DEF r
<1>6. \A j \in Joints : InSeq(j, s) => r[dof_index(j)] = q[dof_index(j)]
  <2>1. SUFFICES ASSUME NEW j \in Joints, NEW k \in DOMAIN s, s[k] = j
                 PROVE  r[dof_index(j)] = q[dof_index(j)]
    BY DEF InSeq
  <2>2. dof_index(j) \in 1 .. Size /\ x[k] = dof_index(j) /\ k \in DOMAIN x
    BY <1>1, <1>3, <2>1
  <2>3. QED
    BY <1>4, <2>2
<1>7. \A i \in 1 .. Size : i <= Root => r[i] = p[i]
  BY <1>1, <1>3, <1>4
<1>8. QED
  BY <1>4, <1>5, <1>6, <1>7 DEF x, r

\* A configuration that is read in the order of the motors and written back.
LEMMA MotorsInvert ==
  ASSUME Instance, NEW q \in Configurations
  PROVE  get_configuration_from_actuated_joints(
           At(q, Indexed(BodyActuated)), At(q, Indexed(LeftHandActuated)),
           At(q, Indexed(RightHandActuated))) = q
<1> DEFINE body == Assign(q_zero, Indexed(BodyActuated), At(q, Indexed(BodyActuated)))
           left == Assign(body, Indexed(LeftHandActuated), At(q, Indexed(LeftHandActuated)))
           right == Assign(left, Indexed(RightHandActuated), At(q, Indexed(RightHandActuated)))
<1>1. /\ q_zero \in Arrays /\ q \in Arrays /\ floating \in BOOLEAN
      /\ \A i \in 1 .. Root : q[i] = q_zero[i]
      /\ BodyActuated \in Seq(Joints) /\ LeftHandActuated \in Seq(Joints)
      /\ RightHandActuated \in Seq(Joints)
  BY ConfigurationFacts, MotorFacts DEF Instance
<1>2. /\ body \in Arrays
      /\ \A j \in Joints : InSeq(j, BodyActuated) => body[dof_index(j)] = q[dof_index(j)]
      /\ \A i \in 1 .. Size : i <= Root => body[i] = q_zero[i]
  BY <1>1, AssignAt
<1> HIDE DEF body
<1>3. /\ left \in Arrays
      /\ \A j \in Joints : InSeq(j, LeftHandActuated) => left[dof_index(j)] = q[dof_index(j)]
      /\ \A i \in 1 .. Size : i <= Root => left[i] = body[i]
      /\ \A i \in 1 .. Size : body[i] = q[i] => left[i] = q[i]
  BY <1>1, <1>2, AssignAt
<1> HIDE DEF left
<1>4. /\ right \in Arrays
      /\ \A j \in Joints : InSeq(j, RightHandActuated) => right[dof_index(j)] = q[dof_index(j)]
      /\ \A i \in 1 .. Size : i <= Root => right[i] = left[i]
      /\ \A i \in 1 .. Size : left[i] = q[i] => right[i] = q[i]
  BY <1>1, <1>3, AssignAt
<1> HIDE DEF right
<1>5. ASSUME NEW i \in 1 .. Size PROVE right[i] = q[i]
  <2>1. /\ Root \in Nat /\ Size = Root + 43 /\ i \in Int
        /\ \A j \in Joints : dof_index(j) \in 1 .. Size
    BY <1>1, DofFacts
  <2>2. CASE i <= Root
    BY <1>1, <1>2, <1>3, <1>4, <2>1, <2>2
  <2>3. CASE i > Root
    <3>1. i - Root \in Joints /\ dof_index(i - Root) = i
      BY <2>1, <2>3 DEF Joints, dof_index
    <3>2. QED
      BY <1>2, <1>3, <1>4, <3>1, MotorFacts
  <2>4. QED
    BY <2>1, <2>2, <2>3
<1>6. right = q
  <2>1. right = [i \in 1 .. Size |-> right[i]] /\ q = [i \in 1 .. Size |-> q[i]]
    BY <1>1, <1>4 DEF Arrays
  <2>2. QED
    BY <1>5, <2>1
<1>7. QED
  BY <1>6 DEF get_configuration_from_actuated_joints, right, left, body

-----------------------------------------------------------------------------
(* Views. *)

Distinct(s) == \A k, l \in DOMAIN s : s[k] = s[l] => k = l
Fixes(v, i) == \E k \in DOMAIN v.fixed : dof_index(v.fixed[k]) = i

\* A view divides the degrees of freedom among its map and its fixed joints.
GoodView(v) ==
  /\ v.fixed \in Seq(Joints) /\ Distinct(v.fixed)
  /\ v.values \in Seq(Int) /\ Len(v.values) = Len(v.fixed)
  /\ v.map \in Seq(1 .. Size) /\ Distinct(v.map) /\ Len(v.map) + Len(v.fixed) = Size
  /\ \A i \in 1 .. Size : InSeq(i, v.map) <=> ~Fixes(v, i)

LEMMA JointSets ==
  ASSUME NEW S \in SUBSET Joints
  PROVE  /\ S \in SUBSET Int /\ IsFiniteSet(S)
         /\ Cardinality(S) \in Nat /\ Cardinality(Joints \ S) = 43 - Cardinality(S)
<1>1. IsFiniteSet(Joints) /\ Cardinality(Joints) = 43
  <2>1. 1 \in Int /\ 43 \in Int /\ ~(1 > 43) /\ 43 - 1 + 1 = 43
    OBVIOUS
  <2>2. QED
    BY <2>1, FS_Interval, Zenon DEF Joints
<1>2. IsFiniteSet(S) /\ Cardinality(S) \in Nat
  BY <1>1, FS_Subset, FS_CardinalityType
<1>3. Joints \cap S = S
  OBVIOUS
<1>4. Cardinality(Joints \ S) = 43 - Cardinality(S)
  BY <1>1, <1>3, FS_Difference
<1>5. QED
  BY <1>2, <1>4 DEF Joints

LEMMA OrdersFacts ==
  ASSUME NEW S \in SUBSET Joints, NEW f \in Orders(S)
  PROVE  /\ f \in Seq(Joints) /\ Len(f) = Cardinality(S) /\ Distinct(f)
         /\ \A j \in Joints : InSeq(j, f) <=> j \in S
<1> DEFINE n == Cardinality(S)
<1>1. S \in SUBSET Int /\ IsFiniteSet(S) /\ n \in Nat
  BY JointSets
<1>2. /\ f \in [1 .. n -> S] /\ Distinct(f)
      /\ \A j \in S : InSeq(j, f)
  <2>1. CASE n > 3
    <3>1. f = Sorted(S)
      BY <2>1 DEF Orders
    <3>2. QED
      BY <1>1, <3>1, SortedFacts DEF Distinct, InSeq
  <2>2. CASE ~(n > 3)
    <3>1. f \in [1 .. n -> S] /\ \A j \in S : InSeq(j, f)
      BY <2>2 DEF Orders
    <3>2. f \in Surjection(1 .. n, S)
      BY <3>1 DEF Surjection, InSeq
    <3>3. IsFiniteSet(1 .. n) /\ Cardinality(1 .. n) = n
      BY <1>1, FS_Interval
    <3>4. f \in Injection(1 .. n, S)
      BY <3>2, <3>3, FS_Surjection
    <3>5. QED
      BY <3>1, <3>4 DEF Injection, IsInjective, Distinct
  <2>3. QED
    BY <2>1, <2>2
<1>3. f \in Seq(Joints) /\ Len(f) = n
  <2> HIDE DEF n
  <2>1. f \in [1 .. n -> Joints]
    BY <1>2
  <2>2. QED
    BY <1>1, <2>1
<1>4. QED
  BY <1>2, <1>3 DEF InSeq

LEMMA MapFacts ==
  ASSUME floating \in BOOLEAN, NEW S \in SUBSET Joints, NEW f \in Seq(Joints),
         \A j \in Joints : InSeq(j, f) <=> j \in S
  PROVE  LET map == ReducedToFull(f)
         IN  /\ map \in Seq(1 .. Size) /\ Distinct(map)
             /\ Len(map) + Cardinality(S) = Size
             /\ \A i \in 1 .. Size :
                  InSeq(i, map) <=> ~(\E j \in S : dof_index(j) = i)
<1> DEFINE free == {j \in Joints : ~InSeq(j, f)}
           n == Cardinality(free)
           s == Run(1, Root)
           t == Indexed(Sorted(free))
           map == ReducedToFull(f)
<1>1. /\ Root \in Nat /\ Size \in Nat /\ Size = Root + 43
      /\ \A j \in Joints : dof_index(j) \in Root + 1 .. Size /\ dof_index(j) - Root = j
  BY DofFacts
<1>2. free = Joints \ S
  OBVIOUS
<1>3. /\ n \in Nat /\ Cardinality(S) \in Nat /\ n + Cardinality(S) = 43
      /\ free \in SUBSET Joints /\ free \in SUBSET Int /\ IsFiniteSet(free)
  <2>1. Cardinality(S) \in Nat /\ n = 43 - Cardinality(S)
    BY <1>2, JointSets
  <2>2. n \in Nat /\ free \in SUBSET Int /\ IsFiniteSet(free)
    BY JointSets
  <2> HIDE DEF free
  <2>3. QED
    BY <1>2, <2>1, <2>2
<1> HIDE DEF free
<1>4. /\ Sorted(free) \in [1 .. n -> free] /\ Distinct(Sorted(free))
      /\ \A j \in free : \E k \in 1 .. n : Sorted(free)[k] = j
  BY <1>3, SortedFacts DEF Distinct
<1>5. /\ t \in Seq(1 .. Size) /\ Len(t) = n
      /\ \A k \in 1 .. n : t[k] = dof_index(Sorted(free)[k]) /\ Sorted(free)[k] \in Joints
  <2>1. \A k \in 1 .. n : Sorted(free)[k] \in Joints
    BY <1>3, <1>4
  <2>2. \A k \in 1 .. n : dof_index(Sorted(free)[k]) \in 1 .. Size
    BY <1>1, <2>1
  <2>3. t = [k \in 1 .. n |-> dof_index(Sorted(free)[k])]
    BY <1>4 DEF Indexed
  <2> HIDE DEF t, n
  <2>4. t \in [1 .. n -> 1 .. Size] /\ \A k \in 1 .. n : t[k] = dof_index(Sorted(free)[k])
    BY <2>2, <2>3
  <2>5. t \in Seq(1 .. Size) /\ Len(t) = n
    <3>1. t \in [1 .. n -> 1 .. Size] /\ n \in Nat
      BY <1>3, <2>4
    <3>2. ASSUME NEW X, NEW g, NEW m \in Nat, g \in [1 .. m -> X]
          PROVE  g \in Seq(X) /\ Len(g) = m
      BY <3>2
    <3>3. QED
      BY <3>1, <3>2
  <2>6. QED
    BY <2>1, <2>4, <2>5
<1>6. s \in Seq(1 .. Size) /\ Len(s) = Root /\ \A i \in 1 .. Root : s[i] = i
  BY <1>1 DEF Run
<1>7. map = s \o t
  BY DEF ReducedToFull, free
<1> HIDE DEF s, t, map, n
<1>8. /\ map \in Seq(1 .. Size) /\ Len(map) = Root + n /\ DOMAIN map = 1 .. Root + n
      /\ \A i \in 1 .. Root + n :
           map[i] = IF i <= Root THEN i ELSE dof_index(Sorted(free)[i - Root])
  <2>1. /\ map \in Seq(1 .. Size) /\ Len(map) = Root + n
        /\ \A i \in 1 .. Root + n : map[i] = IF i <= Root THEN s[i] ELSE t[i - Root]
    BY <1>5, <1>6, <1>7, ConcatProperties
  <2>2. DOMAIN map = 1 .. Root + n
    BY <2>1
  <2>3. \A i \in 1 .. Root + n : IF i <= Root THEN i \in 1 .. Root ELSE i - Root \in 1 .. n
    BY <1>1, <1>3
  <2>4. QED
    BY <1>5, <1>6, <2>1, <2>2, <2>3
<1>9. Distinct(map)
  <2>1. SUFFICES ASSUME NEW k \in 1 .. Root + n, NEW l \in 1 .. Root + n, map[k] = map[l]
                 PROVE  k = l
    BY <1>8 DEF Distinct
  <2>2. \A i \in 1 .. Root + n : i > Root =>
          i - Root \in 1 .. n /\ Sorted(free)[i - Root] \in Joints /\ map[i] = dof_index(Sorted(free)[i - Root])
    BY <1>1, <1>3, <1>5, <1>8
  <2>3. \A i \in 1 .. Root + n : i > Root => map[i] > Root /\ map[i] - Root = Sorted(free)[i - Root]
    BY <1>1, <2>2
  <2>4. CASE k > Root /\ l > Root
    <3>1. Sorted(free)[k - Root] = Sorted(free)[l - Root]
      BY <2>1, <2>3, <2>4
    <3>2. k - Root \in DOMAIN Sorted(free) /\ l - Root \in DOMAIN Sorted(free)
      BY <1>4, <2>2, <2>4
    <3>3. k - Root = l - Root
      BY <1>4, <3>1, <3>2 DEF Distinct
    <3>4. QED
      BY <1>1, <1>3, <3>3
  <2>5. CASE ~(k > Root /\ l > Root)
    <3>1. \A i \in 1 .. Root + n : ~(i > Root) => map[i] = i
      BY <1>1, <1>3, <1>8
    <3>2. QED
      BY <1>1, <1>3, <2>1, <2>3, <2>5, <3>1
  <2>6. QED
    BY <2>4, <2>5
<1>10. ASSUME NEW i \in 1 .. Size
       PROVE  InSeq(i, map) <=> ~(\E j \in S : dof_index(j) = i)
  <2>1. CASE i <= Root
    <3>1. i \in 1 .. Root + n /\ map[i] = i
      BY <1>1, <1>3, <1>8, <2>1
    <3>2. \A j \in S : dof_index(j) # i
      BY <1>1, <2>1
    <3>3. QED
      BY <1>8, <3>1, <3>2 DEF InSeq
  <2>2. CASE i > Root
    <3> DEFINE j == i - Root
    <3>1. j \in Joints /\ dof_index(j) = i
      BY <1>1, <2>2 DEF Joints, dof_index
    <3>2. \A h \in Joints : dof_index(h) = i => h = j
      BY <1>1, <3>1
    <3>3. (\E h \in S : dof_index(h) = i) <=> j \in S
      BY <3>1, <3>2
    <3>4. InSeq(i, map) <=> j \in free
      <4>1. ASSUME j \in free PROVE InSeq(i, map)
        <5>1. PICK k \in 1 .. n : Sorted(free)[k] = j
          BY <1>4, <4>1
        <5>2. Root + k \in 1 .. Root + n /\ ~(Root + k <= Root) /\ Root + k - Root = k
          BY <1>1, <1>3
        <5>3. map[Root + k] = i
          <6>1. PICK m \in 1 .. Root + n : m = Root + k
            BY <5>2
          <6>2. ~(m <= Root) /\ m - Root = k
            <7>1. Root \in Nat /\ k \in Nat /\ k >= 1
              BY <1>1, <1>3
            <7>2. QED
              BY <6>1, <7>1
          <6>3. map[m] = dof_index(Sorted(free)[k])
            BY <1>8, <6>2
          <6>4. QED
            BY <3>1, <5>1, <6>1, <6>3
        <5>4. QED
          BY <1>8, <5>2, <5>3 DEF InSeq
      <4>2. ASSUME InSeq(i, map) PROVE j \in free
        <5>1. PICK k \in 1 .. Root + n : map[k] = i
          BY <1>8, <4>2 DEF InSeq
        <5>2. k > Root
          BY <1>1, <1>3, <1>8, <2>2, <5>1
        <5>3. k - Root \in 1 .. n
          BY <1>1, <1>3, <5>2
        <5>4. dof_index(Sorted(free)[k - Root]) = i
          BY <1>1, <1>3, <1>8, <5>1, <5>2
        <5>5. Sorted(free)[k - Root] = j
          BY <1>5, <3>2, <5>3, <5>4
        <5>6. QED
          BY <1>4, <5>3, <5>5
      <4>3. QED
        BY <4>1, <4>2
    <3>5. QED
      BY <1>2, <3>1, <3>3, <3>4
  <2>3. QED
    BY <1>1, <2>1, <2>2
<1>11. Len(map) + Cardinality(S) = Size
  <2>1. Root \in Nat /\ n \in Nat /\ Cardinality(S) \in Nat /\ n + Cardinality(S) = 43
    BY <1>1, <1>3
  <2>2. Len(map) = Root + n /\ Size = Root + 43
    BY <1>1, <1>8
  <2> HIDE DEF map
  <2>3. QED
    BY <2>1, <2>2
<1>12. QED
  BY <1>8, <1>9, <1>10, <1>11 DEF map


-----------------------------------------------------------------------------
(* The conversions of a view. *)

LEMMA BuildGood ==
  ASSUME Instance, NEW S \in SUBSET Joints, NEW fixed \in Orders(S),
         NEW values \in {AtZero(fixed), Explicit(fixed)}
  PROVE  GoodView(View(fixed, values))
<1> DEFINE v == View(fixed, values)
<1>1. /\ fixed \in Seq(Joints) /\ Len(fixed) = Cardinality(S) /\ Distinct(fixed)
      /\ \A j \in Joints : InSeq(j, fixed) <=> j \in S
  BY OrdersFacts
<1>2. floating \in BOOLEAN
  BY DEF Instance
<1>3. /\ ReducedToFull(fixed) \in Seq(1 .. Size) /\ Distinct(ReducedToFull(fixed))
      /\ Len(ReducedToFull(fixed)) + Cardinality(S) = Size
      /\ \A i \in 1 .. Size :
           InSeq(i, ReducedToFull(fixed)) <=> ~(\E j \in S : dof_index(j) = i)
  BY <1>1, <1>2, MapFacts
<1>4. values \in Seq(Int) /\ Len(values) = Len(fixed)
  <2>1. \A k \in 1 .. Len(fixed) : fixed[k] \in Joints
    BY <1>1
  <2>2. \A j \in Joints : q_zero[dof_index(j)] \in Int
    <3>1. \A j \in Joints : dof_index(j) \in 1 .. Size
      BY <1>2, DofFacts
    <3>2. QED
      BY <3>1, ConfigurationFacts DEF Arrays
  <2>3. /\ AtZero(fixed) \in [1 .. Len(fixed) -> Int]
        /\ Explicit(fixed) \in [1 .. Len(fixed) -> Int]
    BY <1>1, <2>1, <2>2 DEF AtZero, Explicit
  <2>4. values \in [1 .. Len(fixed) -> Int] /\ Len(fixed) \in Nat
    BY <1>1, <2>3
  <2>5. ASSUME NEW g, NEW m \in Nat, g \in [1 .. m -> Int]
        PROVE  g \in Seq(Int) /\ Len(g) = m
    BY <2>5
  <2>6. QED
    BY <2>4, <2>5
<1>5. \A i : (\E j \in S : dof_index(j) = i) <=> (\E k \in DOMAIN fixed : dof_index(fixed[k]) = i)
  <2>1. \A k \in DOMAIN fixed : fixed[k] \in Joints /\ InSeq(fixed[k], fixed)
    BY <1>1, ElementOfSeq DEF InSeq
  <2>2. \A k \in DOMAIN fixed : fixed[k] \in S
    BY <1>1, <2>1
  <2>3. \A j \in S : \E k \in DOMAIN fixed : fixed[k] = j
    BY <1>1 DEF InSeq
  <2>4. QED
    BY <2>2, <2>3
<1>6. v.map = ReducedToFull(fixed) /\ v.fixed = fixed /\ v.values = values
  BY DEF View
<1> HIDE DEF v
<1>7. QED
  BY <1>1, <1>3, <1>4, <1>5, <1>6 DEF GoodView, Fixes, v

LEMMA Elements ==
  ASSUME NEW X, NEW s \in Seq(X)
  PROVE  \A k \in DOMAIN s : s[k] \in X
OBVIOUS

\* What a view makes of a configuration of its own degrees of freedom.
LEMMA FullFacts ==
  ASSUME Instance, NEW v, GoodView(v), NEW r \in [DOMAIN v.map -> Int]
  PROVE  LET full == reduced_to_full_configuration(v, r)
         IN  /\ full \in Arrays
             /\ \A k \in DOMAIN v.map : v.map[k] \in 1 .. Size /\ full[v.map[k]] = r[k]
             /\ \A k \in DOMAIN v.fixed :
                  dof_index(v.fixed[k]) \in 1 .. Size /\ full[dof_index(v.fixed[k])] = v.values[k]
<1> DEFINE full == reduced_to_full_configuration(v, r)
<1>1. /\ v.fixed \in Seq(Joints) /\ Distinct(v.fixed)
      /\ v.values \in Seq(Int) /\ Len(v.values) = Len(v.fixed)
      /\ v.map \in Seq(1 .. Size) /\ Distinct(v.map)
      /\ \A i \in 1 .. Size : InSeq(i, v.map) <=> ~Fixes(v, i)
  BY DEF GoodView
<1>2. \A j \in Joints : dof_index(j) \in 1 .. Size /\ dof_index(j) - Root = j
  BY DofFacts DEF Instance
<1>3. /\ \A k \in DOMAIN v.map : v.map[k] \in 1 .. Size
      /\ \A k \in DOMAIN v.fixed : v.fixed[k] \in Joints /\ dof_index(v.fixed[k]) \in 1 .. Size
      /\ \A k \in DOMAIN v.fixed : v.values[k] \in Int
  <2>1. DOMAIN v.fixed = DOMAIN v.values
    BY <1>1
  <2>2. /\ \A k \in DOMAIN v.map : v.map[k] \in 1 .. Size
        /\ \A k \in DOMAIN v.fixed : v.fixed[k] \in Joints
        /\ \A k \in DOMAIN v.values : v.values[k] \in Int
    BY <1>1, Elements
  <2>3. QED
    BY <1>2, <2>1, <2>2
<1>4. ASSUME NEW k \in DOMAIN v.fixed
      PROVE  full[dof_index(v.fixed[k])] = v.values[k]
  <2> DEFINE i == dof_index(v.fixed[k])
             l == CHOOSE l \in DOMAIN v.fixed : dof_index(v.fixed[l]) = i
  <2>1. i \in 1 .. Size /\ \E h \in DOMAIN v.fixed : dof_index(v.fixed[h]) = i
    BY <1>3
  <2>2. l \in DOMAIN v.fixed /\ dof_index(v.fixed[l]) = i
    BY <2>1
  <2>3. full[i] = v.values[l]
    BY <2>1 DEF reduced_to_full_configuration, FixedValue
  <2>4. l = k
    <3>1. v.fixed[l] = v.fixed[k]
      BY <1>2, <1>3, <2>2
    <3> HIDE DEF l
    <3>2. QED
      BY <1>1, <2>2, <3>1 DEF Distinct
  <2>5. QED
    BY <2>3, <2>4
<1>5. ASSUME NEW k \in DOMAIN v.map
      PROVE  full[v.map[k]] = r[k]
  <2> DEFINE i == v.map[k]
             l == CHOOSE l \in DOMAIN v.map : v.map[l] = i
  <2>1. i \in 1 .. Size /\ InSeq(i, v.map) /\ ~Fixes(v, i)
    BY <1>1, <1>3 DEF InSeq
  <2>2. full[i] = r[l]
    BY <2>1 DEF reduced_to_full_configuration, ActiveValue, Fixes
  <2>3. l \in DOMAIN v.map /\ v.map[l] = v.map[k]
    OBVIOUS
  <2> HIDE DEF l
  <2>4. l = k
    BY <1>1, <2>3 DEF Distinct
  <2>5. QED
    BY <2>2, <2>4
<1>6. ASSUME NEW i \in 1 .. Size
      PROVE  full[i] \in Int
  <2>1. CASE Fixes(v, i)
    BY <1>3, <1>4, <2>1 DEF Fixes
  <2>2. CASE ~Fixes(v, i)
    <3>1. \E k \in DOMAIN v.map : v.map[k] = i
      BY <1>1, <2>2 DEF InSeq
    <3>2. QED
      BY <1>5, <3>1
  <2>3. QED
    BY <2>1, <2>2
<1>7. full = [i \in 1 .. Size |-> full[i]]
  BY DEF reduced_to_full_configuration
<1> HIDE DEF full
<1>8. full \in Arrays
  BY <1>6, <1>7 DEF Arrays
<1>9. QED
  BY <1>3, <1>4, <1>5, <1>8 DEF full

LEMMA ReducedFacts ==
  ASSUME Instance, NEW v, GoodView(v), NEW q \in Arrays
  PROVE  LET r == full_to_reduced_configuration(v, q)
         IN  r \in [DOMAIN v.map -> Int] /\ \A k \in DOMAIN v.map : r[k] = q[v.map[k]]
<1>1. \A k \in DOMAIN v.map : v.map[k] \in 1 .. Size
  BY Elements DEF GoodView
<1>2. QED
  BY <1>1 DEF full_to_reduced_configuration, At, Arrays

LEMMA ViewInverts ==
  ASSUME Instance, NEW v, GoodView(v), NEW r \in [DOMAIN v.map -> Int]
  PROVE  full_to_reduced_configuration(v, reduced_to_full_configuration(v, r)) = r
<1> DEFINE full == reduced_to_full_configuration(v, r)
           back == full_to_reduced_configuration(v, full)
<1>1. full \in Arrays /\ \A k \in DOMAIN v.map : full[v.map[k]] = r[k]
  BY FullFacts
<1> HIDE DEF full
<1>2. back \in [DOMAIN v.map -> Int] /\ \A k \in DOMAIN v.map : back[k] = full[v.map[k]]
  BY <1>1, ReducedFacts
<1> HIDE DEF back
<1>3. \A k \in DOMAIN v.map : back[k] = r[k]
  BY <1>1, <1>2
<1>4. back = [k \in DOMAIN v.map |-> back[k]] /\ r = [k \in DOMAIN v.map |-> r[k]]
  BY <1>2
<1>5. back = r
  BY <1>3, <1>4
<1>6. QED
  BY <1>5 DEF back, full

\* Clipping keeps a configuration, and moves one within the limits by the
\* margin at most.
LEMMA ClipFacts ==
  ASSUME Instance, NEW q \in Arrays
  PROVE  /\ clip_configuration(q) \in Arrays
         /\ \A i \in 1 .. Size : i <= Root => clip_configuration(q)[i] = q[i]
         /\ \A i \in Root + 1 .. Size : lower(i) <= q[i] /\ q[i] <= upper(i) =>
              clip_configuration(q)[i] - q[i] \in {-1, 0, 1}
<1>1. Root \in Nat /\ Size \in Nat /\ Size = Root + 43
  BY DofFacts DEF Instance
<1>2. ASSUME NEW i \in Root + 1 .. Size
      PROVE  lower(i) \in Int /\ upper(i) \in Int /\ ~(i <= Root) /\ i \in 1 .. Size /\ q[i] \in Int
  <2>1. i - Root \in Joints /\ ~(i <= Root) /\ i \in 1 .. Size
    BY <1>1 DEF Joints
  <2>2. QED
    BY <2>1, LimitFacts DEF lower, upper, Arrays
<1> DEFINE c == clip_configuration(q)
<1>3. /\ c = [i \in 1 .. Size |-> c[i]]
      /\ \A i \in 1 .. Size :
           c[i] = IF i <= Root THEN q[i] ELSE Bounded(q[i], lower(i) + 1, upper(i) - 1)
  BY DEF clip_configuration, Arrays
<1> HIDE DEF c
<1>4. ASSUME NEW x \in Int, NEW l \in Int, NEW u \in Int
      PROVE  /\ Bounded(x, l + 1, u - 1) \in Int
             /\ l <= x /\ x <= u => Bounded(x, l + 1, u - 1) - x \in {-1, 0, 1}
  BY DEF Bounded
<1>5. ASSUME NEW i \in Root + 1 .. Size
      PROVE  /\ c[i] \in Int
             /\ lower(i) <= q[i] /\ q[i] <= upper(i) => c[i] - q[i] \in {-1, 0, 1}
  <2> DEFINE b == Bounded(q[i], lower(i) + 1, upper(i) - 1)
  <2>1. PICK x \in Int, l \in Int, u \in Int : x = q[i] /\ l = lower(i) /\ u = upper(i)
    BY <1>2
  <2>2. b \in Int /\ (l <= x /\ x <= u => b - x \in {-1, 0, 1})
    BY <1>4, <2>1
  <2>3. c[i] = b
    BY <1>2, <1>3
  <2> HIDE DEF b
  <2>4. QED
    BY <2>1, <2>2, <2>3
<1>6. \A i \in 1 .. Size : c[i] \in Int
  <2>1. \A i \in 1 .. Size : i <= Root => c[i] \in Int
    BY <1>3 DEF Arrays
  <2>2. \A i \in 1 .. Size : ~(i <= Root) => i \in Root + 1 .. Size
    BY <1>1
  <2>3. QED
    BY <1>5, <2>1, <2>2
<1>7. c \in Arrays
  BY <1>3, <1>6 DEF Arrays
<1>8. QED
  BY <1>3, <1>5, <1>7 DEF c

-----------------------------------------------------------------------------
(* The cached kinematics. *)

\* A placement of the full model that agrees with that of a view in r.
Agrees(v, r, q) ==
  v.values = AtZero(v.fixed) /\ Within(LockedAtZero(v, r)) =>
    \A i \in 1 .. Size : q[i] - LockedAtZero(v, r)[i] \in {-1, 0, 1}

\* With the fixed joints at zero, the view's configuration is the full one.
LEMMA LockedFacts ==
  ASSUME Instance, NEW v, GoodView(v), NEW r \in [DOMAIN v.map -> Int],
         v.values = AtZero(v.fixed)
  PROVE  LockedAtZero(v, r) = reduced_to_full_configuration(v, r)
<1> DEFINE full == reduced_to_full_configuration(v, r)
           locked == LockedAtZero(v, r)
<1>1. /\ full \in Arrays
      /\ \A k \in DOMAIN v.map : v.map[k] \in 1 .. Size /\ full[v.map[k]] = r[k]
      /\ \A k \in DOMAIN v.fixed :
           dof_index(v.fixed[k]) \in 1 .. Size /\ full[dof_index(v.fixed[k])] = v.values[k]
  BY FullFacts
<1> HIDE DEF full
<1>2. locked = [i \in 1 .. Size |-> locked[i]]
  BY DEF LockedAtZero
<1>3. ASSUME NEW i \in 1 .. Size PROVE locked[i] = full[i]
  <2>1. CASE InSeq(i, v.map)
    <3> DEFINE k == CHOOSE k \in DOMAIN v.map : v.map[k] = i
    <3>1. k \in DOMAIN v.map /\ v.map[k] = i
      BY <2>1 DEF InSeq
    <3>2. locked[i] = r[k]
      BY <2>1 DEF LockedAtZero
    <3> HIDE DEF k, locked
    <3>3. QED
      BY <1>1, <3>1, <3>2
  <2>2. CASE ~InSeq(i, v.map)
    <3>1. PICK k \in DOMAIN v.fixed : dof_index(v.fixed[k]) = i
      BY <2>2 DEF GoodView, Fixes
    <3>2. locked[i] = q_zero[i]
      BY <2>2 DEF LockedAtZero
    <3>3. v.values[k] = q_zero[i]
      BY <3>1 DEF AtZero
    <3> HIDE DEF locked
    <3>4. QED
      BY <1>1, <3>1, <3>2, <3>3
  <2>3. QED
    BY <2>1, <2>2
<1> HIDE DEF locked
<1>4. locked = full
  <2>1. full = [i \in 1 .. Size |-> full[i]]
    BY <1>1 DEF Arrays
  <2>2. QED
    BY <1>2, <1>3, <2>1
<1>5. QED
  BY <1>4 DEF locked, full

LEMMA CacheAgrees ==
  ASSUME Instance, NEW v, GoodView(v), NEW r \in [DOMAIN v.map -> Int]
  PROVE  LET full == reduced_to_full_configuration(v, r)
         IN  /\ full \in Arrays /\ clip_configuration(full) \in Arrays
             /\ Agrees(v, r, full) /\ Agrees(v, r, clip_configuration(full))
<1> DEFINE full == reduced_to_full_configuration(v, r)
           clipped == clip_configuration(full)
<1>1. full \in Arrays
  BY FullFacts
<1>2. v.values = AtZero(v.fixed) => LockedAtZero(v, r) = full
  BY LockedFacts
<1> HIDE DEF full
<1>3. /\ clipped \in Arrays
      /\ \A i \in 1 .. Size : i <= Root => clipped[i] = full[i]
      /\ \A i \in Root + 1 .. Size : lower(i) <= full[i] /\ full[i] <= upper(i) =>
           clipped[i] - full[i] \in {-1, 0, 1}
  BY <1>1, ClipFacts
<1> HIDE DEF clipped
<1>4. Root \in Nat /\ Size \in Nat
  BY DofFacts DEF Instance
<1>5. \A i \in 1 .. Size : full[i] \in Int /\ full[i] - full[i] = 0 /\ (i <= Root \/ i \in Root + 1 .. Size)
  BY <1>1, <1>4 DEF Arrays
<1>6. Agrees(v, r, full)
  BY <1>2, <1>5 DEF Agrees
<1>7. Agrees(v, r, clipped)
  <2>1. SUFFICES ASSUME Within(full), NEW i \in 1 .. Size
                 PROVE  clipped[i] - full[i] \in {-1, 0, 1}
    BY <1>2 DEF Agrees
  <2>2. CASE i <= Root
    BY <1>3, <1>5, <2>2
  <2>3. CASE i \in Root + 1 .. Size
    BY <1>3, <2>1, <2>3 DEF Within
  <2>4. QED
    BY <1>5, <2>2, <2>3
<1>8. QED
  BY <1>1, <1>3, <1>6, <1>7 DEF clipped, full

\* The inductive invariant: a view divides the degrees of freedom, and what is
\* cached through it agrees with it.
ModelInductive ==
  /\ Instance
  /\ view = NoView \/ GoodView(view)
  /\ by \in {"none", "full", "view", "gravity"}
  /\ placed = Unplaced \/ placed \in Arrays
  /\ by \in {"view", "gravity"} => HasView /\ Agrees(view, placedView, placed)

LEMMA ModelStarts == ModelInit => ModelInductive
<1> SUFFICES ASSUME ModelInit PROVE ModelInductive
  OBVIOUS
<1>1. Instance
  BY ModelAssumption DEF ModelInit, Instance
<1>2. QED
  BY <1>1 DEF ModelInit, ModelInductive

\* Neither the degrees of freedom nor the limits of an instance change.
LEMMA ShapeKept ==
  ASSUME UNCHANGED shape
  PROVE  /\ Instance' = Instance /\ Arrays' = Arrays
         /\ \A v : v = view' => (GoodView(view)' <=> GoodView(v))
         /\ \A v, r, q : v = view' /\ r = placedView' /\ q = placed' =>
              (Agrees(view, placedView, placed)' <=> Agrees(v, r, q))
<1>1. floating' = floating /\ waist' = waist /\ high' = high
  BY DEF shape
<1>2. Instance' = Instance /\ Arrays' = Arrays
  BY <1>1 DEF Instance, Arrays, Size, Root
<1>3. ASSUME NEW v, v = view'
      PROVE  GoodView(view)' <=> GoodView(v)
  BY <1>1, <1>3 DEF GoodView, Distinct, Fixes, InSeq, Size, Root, dof_index
<1>4. ASSUME NEW v, NEW r, NEW q, v = view', r = placedView', q = placed'
      PROVE  Agrees(view, placedView, placed)' <=> Agrees(v, r, q)
  BY <1>1, <1>4 DEF Agrees, Within, LockedAtZero, AtZero, q_zero, lower, upper, InSeq, Size, Root, dof_index
<1>5. QED
  BY <1>2, <1>3, <1>4

LEMMA CacheFullKeeps ==
  ASSUME ModelInductive, NEW q \in Arrays, NEW clip \in BOOLEAN, CacheFull(q, clip)
  PROVE  ModelInductive'
<1>1. Instance /\ clip_configuration(q) \in Arrays
  BY ClipFacts DEF ModelInductive
<1>2. placed' \in Arrays /\ by' = "full" /\ view' = view
  BY <1>1 DEF CacheFull
<1>3. /\ Instance' = Instance /\ Arrays' = Arrays
      /\ GoodView(view)' <=> GoodView(view)
  BY <1>2, ShapeKept DEF CacheFull
<1>4. NoView' = NoView
  BY DEF NoView
<1>5. QED
  BY <1>1, <1>2, <1>3, <1>4 DEF ModelInductive

LEMMA CacheViewKeeps ==
  ASSUME ModelInductive, NEW r \in [DOMAIN view.map -> Int], NEW clip \in BOOLEAN,
         CacheView(r, clip)
  PROVE  ModelInductive'
<1>1. PICK v : v = view
  OBVIOUS
<1>2. PICK full : full = reduced_to_full_configuration(view, r)
  OBVIOUS
<1>3. /\ HasView /\ UNCHANGED shape /\ view' = v /\ placedView' = r
      /\ placed' = (IF clip THEN clip_configuration(full) ELSE full)
      /\ by' = (IF clip THEN "view" ELSE "gravity")
  BY <1>1, <1>2 DEF CacheView
<1>4. Instance /\ GoodView(v)
  BY <1>1, <1>3 DEF ModelInductive, HasView
<1>5. placed' \in Arrays /\ Agrees(v, r, placed')
  <2>1. /\ full \in Arrays /\ clip_configuration(full) \in Arrays
        /\ Agrees(v, r, full) /\ Agrees(v, r, clip_configuration(full))
    BY <1>1, <1>2, <1>4, CacheAgrees
  <2>2. QED
    BY <1>3, <2>1
<1>6. /\ Instance' /\ Arrays' = Arrays /\ GoodView(view)'
      /\ Agrees(view, placedView, placed)'
  BY <1>3, <1>4, <1>5, ShapeKept
<1>7. HasView'
  BY <1>1, <1>3 DEF HasView, NoView
<1>8. QED
  BY <1>3, <1>5, <1>6, <1>7 DEF ModelInductive

LEMMA ReducedGood ==
  ASSUME ModelInductive, HasView, NEW q \in Arrays
  PROVE  full_to_reduced_configuration(view, q) \in [DOMAIN view.map -> Int]
<1>1. PICK v : v = view
  OBVIOUS
<1>2. Instance /\ GoodView(v)
  BY <1>1 DEF ModelInductive, HasView
<1>3. QED
  BY <1>1, <1>2, ReducedFacts

LEMMA ClipViewGood ==
  ASSUME ModelInductive, HasView, NEW r \in [DOMAIN view.map -> Int]
  PROVE  ClipView(view, r) \in [DOMAIN view.map -> Int]
<1>1. PICK v : v = view
  OBVIOUS
<1>2. Instance /\ GoodView(v)
  BY <1>1 DEF ModelInductive, HasView
<1>3. PICK full \in Arrays : full = reduced_to_full_configuration(v, r)
  BY <1>1, <1>2, FullFacts
<1>4. PICK c \in Arrays : c = clip_configuration(full)
  BY <1>2, ClipFacts
<1>5. ClipView(view, r) = full_to_reduced_configuration(view, c)
  BY <1>1, <1>3, <1>4 DEF ClipView
<1>6. QED
  BY <1>5, ReducedGood

LEMMA BuildKeeps ==
  ASSUME ModelInductive, BuildView
  PROVE  ModelInductive'
<1>1. PICK g \in Groups : \E joints \in {FixedBy(g), FixedUnless(g)} :
        /\ joints \subseteq Joints
        /\ \E fixed \in Orders(joints) : \E values \in {AtZero(fixed), Explicit(fixed)} :
             view' = View(fixed, values)
  BY DEF BuildView
<1>2. PICK joints \in {FixedBy(g), FixedUnless(g)} :
        /\ joints \subseteq Joints
        /\ \E fixed \in Orders(joints) : \E values \in {AtZero(fixed), Explicit(fixed)} :
             view' = View(fixed, values)
  BY <1>1
<1>3. PICK fixed \in Orders(joints) : \E values \in {AtZero(fixed), Explicit(fixed)} :
        view' = View(fixed, values)
  BY <1>2
<1>4. PICK values \in {AtZero(fixed), Explicit(fixed)} : view' = View(fixed, values)
  BY <1>3
<1>5. Instance
  BY DEF ModelInductive
<1>6. PICK v : v = view' /\ GoodView(v)
  BY <1>2, <1>4, <1>5, BuildGood
<1>7. /\ ~HasView /\ UNCHANGED shape /\ placed' = placed /\ placedView' = placedView /\ by' = by
  BY DEF BuildView
<1>8. Instance' /\ Arrays' = Arrays /\ GoodView(view)'
  BY <1>5, <1>6, <1>7, ShapeKept
<1>9. by' \in {"none", "full"}
  BY <1>7 DEF ModelInductive
<1>10. QED
  BY <1>7, <1>8, <1>9 DEF ModelInductive

LEMMA ModelStep == ModelInductive /\ [ModelNext]_modelVars => ModelInductive'
<1> SUFFICES ASSUME ModelInductive, [ModelNext]_modelVars PROVE ModelInductive'
  OBVIOUS
<1>1. /\ Instance /\ q_zero \in Arrays
      /\ \A q \in Configurations : q \in Arrays
      /\ \A q \in Arrays : clip_configuration(q) \in Arrays
  BY ConfigurationFacts, ClipFacts DEF ModelInductive
<1>2. CASE BuildView
  BY <1>2, BuildKeeps
<1>3. CASE ResetFull
  BY <1>1, <1>3, CacheFullKeeps DEF ResetFull
<1>4. CASE ResetView
  <2>1. HasView /\ CacheView(full_to_reduced_configuration(view, q_zero), TRUE)
    BY <1>4 DEF ResetView
  <2>2. QED
    BY <1>1, <2>1, ReducedGood, CacheViewKeeps
<1>5. ASSUME NEW q \in Configurations, NEW clip \in BOOLEAN, CacheFull(q, clip)
      PROVE  ModelInductive'
  BY <1>1, <1>5, CacheFullKeeps
<1>6. ASSUME NEW q \in Configurations, GravityFull(q)
      PROVE  ModelInductive'
  BY <1>1, <1>6, CacheFullKeeps DEF GravityFull
<1>7. ASSUME NEW q \in Configurations, HasView,
             LET r == full_to_reduced_configuration(view, q)
             IN  GravityView(r) \/ \E clip \in BOOLEAN : CacheView(r, clip)
      PROVE  ModelInductive'
  <2>1. PICK r \in [DOMAIN view.map -> Int] :
          GravityView(r) \/ \E clip \in BOOLEAN : CacheView(r, clip)
    BY <1>1, <1>7, ReducedGood
  <2>2. CASE GravityView(r)
    BY <1>7, <2>2, ClipViewGood, CacheViewKeeps DEF GravityView
  <2>3. CASE \E clip \in BOOLEAN : CacheView(r, clip)
    BY <2>3, CacheViewKeeps
  <2>4. QED
    BY <2>1, <2>2, <2>3
<1>8. CASE UNCHANGED modelVars
  <2>1. UNCHANGED shape /\ view' = view /\ placed' = placed /\ placedView' = placedView /\ by' = by
    BY <1>8 DEF modelVars, shape
  <2>2. /\ Instance' = Instance /\ Arrays' = Arrays /\ HasView' = HasView
        /\ \A v : v = view' => (GoodView(view)' <=> GoodView(v))
        /\ \A v, r, q : v = view' /\ r = placedView' /\ q = placed' =>
             (Agrees(view, placedView, placed)' <=> Agrees(v, r, q))
    BY <2>1, ShapeKept DEF HasView, NoView
  <2>3. GoodView(view)' <=> GoodView(view)
    BY <2>1, <2>2
  <2>4. Agrees(view, placedView, placed)' <=> Agrees(view, placedView, placed)
    BY <2>1, <2>2
  <2>5. QED
    BY <2>1, <2>2, <2>3, <2>4 DEF ModelInductive
<1>9. QED
  BY <1>2, <1>3, <1>4, <1>5, <1>6, <1>7, <1>8 DEF ModelNext

LEMMA ModelAlways == ModelSpec => []ModelInductive
<1>1. QED
  BY ModelStarts, ModelStep, PTL DEF ModelSpec

-----------------------------------------------------------------------------
(* The properties. *)

LEMMA ConversionsAlways ==
  ASSUME ModelInductive
  PROVE  ConversionsInvert
<1>1. Instance
  BY DEF ModelInductive
<1>2. SUFFICES ASSUME NEW q \in Configurations, HasView
      PROVE  LET r == full_to_reduced_configuration(view, q)
                 full == reduced_to_full_configuration(view, r)
             IN  /\ full_to_reduced_configuration(view, full) = r
                 /\ \A k \in DOMAIN view.fixed : full[dof_index(view.fixed[k])] = view.values[k]
                 /\ \A g \in Groups :
                      {r[k] : k \in ViewIndices(view, get_joint_group_indices(g))} \subseteq
                        {q[i] : i \in get_joint_group_indices(g)}
  BY <1>1, MotorsInvert DEF ConversionsInvert
<1>3. PICK v : v = view
  OBVIOUS
<1>4. GoodView(v) /\ q \in Arrays
  BY <1>1, <1>2, <1>3, ConfigurationFacts DEF ModelInductive, HasView
<1>5. PICK r \in [DOMAIN v.map -> Int] :
        /\ r = full_to_reduced_configuration(v, q)
        /\ \A k \in DOMAIN v.map : r[k] = q[v.map[k]]
  BY <1>1, <1>4, ReducedFacts
<1>6. PICK full \in Arrays :
        /\ full = reduced_to_full_configuration(v, r)
        /\ \A k \in DOMAIN v.fixed : full[dof_index(v.fixed[k])] = v.values[k]
  BY <1>1, <1>4, FullFacts
<1>7. full_to_reduced_configuration(v, full) = r
  BY <1>1, <1>4, <1>6, ViewInverts
<1>8. \A g \in Groups :
        {r[k] : k \in ViewIndices(v, get_joint_group_indices(g))} \subseteq
          {q[i] : i \in get_joint_group_indices(g)}
  BY <1>5 DEF ViewIndices
<1>9. QED
  BY <1>3, <1>5, <1>6, <1>7, <1>8

\* The groups of joints are resolved alike by both algorithms, and
\* configurations survive their conversions into a view, into the order of the
\* motors and back.
THEOREM ModelConsistent == ModelSpec => []ModelInv
<1>1. ModelInductive => ModelInv
  <2> SUFFICES ASSUME ModelInductive PROVE ModelInv
    OBVIOUS
  <2>1. ModelTypes
    <3>1. Instance
      BY DEF ModelInductive
    <3>2. HasView => GoodView(view)
      BY DEF ModelInductive, HasView
    <3>3. Len(view.fixed) = Len(view.values)
      <4>1. HasView => Len(view.fixed) = Len(view.values)
        BY <3>2 DEF GoodView
      <4>2. NoView.fixed = NoView.values
        BY DEF NoView
      <4>3. QED
        BY <4>1, <4>2 DEF HasView
    <3>4. HasView => Len(view.map) + Len(view.fixed) = Size
      BY <3>2 DEF GoodView
    <3>5. placed = Unplaced \/ placed \in [1 .. Size -> Int]
      BY DEF ModelInductive, Arrays
    <3>6. QED
      BY <3>1, <3>3, <3>4, <3>5 DEF ModelTypes, Instance
  <2>2. GroupsAgree
    BY GroupsAgreeAlways DEF ModelInductive
  <2>3. QED
    BY <2>1, <2>2, ConversionsAlways DEF ModelInv
<1>2. QED
  BY <1>1, ModelAlways, PTL

\* A view whose fixed joints are at zero shows the pose of the full model that
\* it drives, up to the margin of the limits, after every query.
THEOREM PosesAgree == ModelSpec => []PlacementsAgree
<1>1. ModelInductive => PlacementsAgree
  BY DEF ModelInductive, Agrees, PlacementsAgree
<1>2. QED
  BY <1>1, ModelAlways, PTL
=============================================================================
