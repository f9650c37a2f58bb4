------------------------------ MODULE Simulator ------------------------------
(***************************************************************************)
(* The program official_sim/run_sim_loop.py from its options to its last   *)
(* statement: BaseSimulator and DefaultEnv (base_sim.py) started by        *)
(* SimulatorFactory.start_simulator(as_thread=False), and the process that *)
(* publishes the rendered images (image_publish_utils.py, sensor_server.py)*)
(* with its shared memory, its two events and its stop ladder.             *)
(*                                                                         *)
(* Images are copied into and out of shared memory without a lock. A unit  *)
(* is a part of one image that is copied in one go; its value is the       *)
(* number of the frame it was rendered from. Ctrl-C reaches both processes.*)
(***************************************************************************)
EXTENDS Naturals

CONSTANTS
    Configs,        \* records of the options that matter, see Shape
    Cameras,        \* how many cameras publish
    Parts,          \* parts of an image that are copied in one go
    MaxSteps,       \* bound: steps of the simulation
    MaxInterrupts   \* bound: times Ctrl-C is pressed

Shape == [base: {"floating", "constrained", "none"}, band: BOOLEAN, robot: {"g1", "h1"},
          onscreen: BOOLEAN, offscreen: BOOLEAN, publish: BOOLEAN,
          timers: [{"viewer", "reward", "image"} -> Nat]]

ASSUME SimulatorAssumption ==
    /\ Configs \subseteq Shape
    /\ Cameras \in Nat \ {0} /\ Parts \in Nat \ {0}
    /\ MaxSteps \in Nat /\ MaxInterrupts \in Nat

Units == 1 .. Cameras * Parts

VARIABLES
    cfg,        \* the options of this run
    pc,         \* where the main process is
    level,      \* which of the three calls of close() it is in, 0: none
    raised,     \* an exception is on its way out of main()
    window,     \* the viewer is open
    count,      \* sim_cnt
    assigned,   \* image_publish_process is set
    blocks,     \* shared memory blocks that exist
    stop,       \* stop_event
    ready,      \* data_ready_event
    shm,        \* the contents of the blocks
    pos,        \* units of this frame that were copied in
    child,      \* where the publishing process is
    signal,     \* the strongest signal it was sent: "none", "term", "kill"
    got,        \* units of this message that were copied out
    images,     \* the images of the message
    offered,    \* those of the last message the socket took
    failed,     \* the last message was dropped or not encoded
    interrupts  \* Ctrl-C so far

main == <<pc, level, raised, window, count>>
memory == <<assigned, blocks, stop, ready, shm, pos>>
publisher == <<child, signal, got, images, offered, failed>>
vars == <<cfg, main, memory, publisher, interrupts>>

Init ==
    /\ cfg \in Configs
    /\ pc = "build" /\ level = 0 /\ raised = FALSE
    /\ window = cfg.onscreen /\ count = 0
    /\ assigned = FALSE /\ blocks = {} /\ stop = FALSE /\ ready = FALSE
    /\ shm = [u \in Units |-> 0] /\ pos = 0
    /\ child = "none" /\ signal = "none"
    /\ got = 0 /\ images = [u \in Units |-> 0] /\ offered = [u \in Units |-> 0]
    /\ failed = FALSE
    /\ interrupts = 0

Alive == child \notin {"none", "dead"}

(* The l-th close(): _running is cleared, and stop() called if there is a  *)
(* publisher.                                                              *)
CloseFrom(l) ==
    /\ level' = l
    /\ pc' = IF assigned THEN "stop" ELSE "window"

-----------------------------------------------------------------------------
(* Construction, the publishing process, and the loop.                     *)

(* main() asserts that images are not published without the renderer.      *)
Asserted == cfg.publish => cfg.offscreen

(* DefaultEnv.init_scene raises if the model has no root joint.            *)
Build ==
    /\ pc = "build"
    /\ IF ~Asserted \/ cfg.base = "none"
       THEN pc' = "gone" /\ raised' = TRUE
       ELSE pc' = (IF cfg.publish THEN "make" ELSE "test") /\ UNCHANGED raised
    /\ UNCHANGED <<cfg, level, window, count, memory, publisher, interrupts>>

(* ImagePublishProcess.__init__ creates one block per camera.              *)
MakeBlock ==
    /\ pc = "make"
    /\ IF blocks = 1 .. Cameras
       THEN pc' = "spawn" /\ assigned' = TRUE /\ UNCHANGED blocks
       ELSE blocks' = blocks \cup {CHOOSE c \in 1 .. Cameras : c \notin blocks} /\ UNCHANGED <<pc, assigned>>
    /\ UNCHANGED <<cfg, level, raised, window, count, stop, ready, shm, pos, publisher, interrupts>>

(* start_process, and a second of sleep.                                   *)
Spawn ==
    /\ pc = "spawn"
    /\ IF child = "none"
       THEN child' = "boot" /\ UNCHANGED pc
       ELSE pc' = "test" /\ UNCHANGED child
    /\ UNCHANGED <<cfg, level, raised, window, count, memory, signal, got, images, offered, failed, interrupts>>

TestLoop ==
    /\ pc = "test"
    /\ IF cfg.onscreen /\ ~window
       THEN CloseFrom(1)
       ELSE count < MaxSteps /\ pc' = "step" /\ UNCHANGED level
    /\ UNCHANGED <<cfg, raised, window, count, memory, publisher, interrupts>>

(* elastic_band is only set for a floating base that enables it, odo_state *)
(* only for some robots; sim_step uses both in every step.                 *)
HasBand == cfg.band /\ cfg.base = "floating"
StepFails == cfg.robot # "g1" \/ ~HasBand

SimStep ==
    /\ pc = "step"
    /\ IF StepFails THEN CloseFrom(1) ELSE pc' = "timers" /\ UNCHANGED level
    /\ UNCHANGED <<cfg, raised, window, count, memory, publisher, interrupts>>

(* Images are handed over if there is a publisher.                         *)
Rendered == assigned /\ count % cfg.timers["image"] = 0

(* sim_cnt % int(dt / sim_dt), for the viewer, the reward and the image. A *)
(* simulation slower than a timer makes its divisor zero.                  *)
Timers ==
    /\ pc = "timers"
    /\ IF \E t \in DOMAIN cfg.timers : cfg.timers[t] = 0
       THEN CloseFrom(1) /\ UNCHANGED <<count, pos>>
       ELSE /\ count' = count + 1
            /\ pos' = 0
            /\ pc' = IF Rendered THEN "copy" ELSE "test"
            /\ UNCHANGED level
    /\ UNCHANGED <<cfg, raised, window, assigned, blocks, stop, ready, shm, publisher, interrupts>>

(* update_shared_memory: image after image, then the event.                *)
CopyIn ==
    /\ pc = "copy"
    /\ IF pos < Cameras * Parts
       THEN /\ shm' = [shm EXCEPT ![pos + 1] = count]
            /\ pos' = pos + 1
            /\ UNCHANGED <<ready, pc>>
       ELSE ready' = TRUE /\ pc' = "test" /\ UNCHANGED <<shm, pos>>
    /\ UNCHANGED <<cfg, level, raised, window, count, assigned, blocks, stop, publisher, interrupts>>

CloseWindow ==
    /\ window
    /\ window' = FALSE
    /\ UNCHANGED <<cfg, pc, level, raised, count, memory, publisher, interrupts>>

-----------------------------------------------------------------------------
(* close() and ImagePublishProcess.stop(). Each wait ends with the child   *)
(* or with its timeout, the last one only with the child.                  *)

(* Whoever set the event before has stopped the process.                   *)
Mut_StopOnce ==
    /\ pc = "stop"
    /\ stop' = TRUE
    /\ pc' = IF stop THEN "window" ELSE IF Alive THEN "join" ELSE "unlink"
    /\ UNCHANGED <<cfg, level, raised, window, count, assigned, blocks, ready, shm, pos, publisher, interrupts>>

StopSet ==
    /\ pc = "stop"
    /\ stop' = TRUE
    /\ pc' = IF Alive THEN "join" ELSE "unlink"
    /\ UNCHANGED <<cfg, level, raised, window, count, assigned, blocks, ready, shm, pos, publisher, interrupts>>

(* A timeout ends the wait `from`; then the next signal is sent.           *)
GiveUp(from, sig, to) ==
    /\ pc = from
    /\ Alive
    /\ signal' = sig /\ pc' = to
    /\ UNCHANGED <<cfg, level, raised, window, count, memory, child, got, images, offered, failed, interrupts>>

Terminate == GiveUp("join", "term", "term")
Mut_TerminateAgain == GiveUp("term", "term", "kill")
Kill == GiveUp("term", "kill", "kill")

Joined ==
    /\ pc \in {"join", "term", "kill"}
    /\ ~Alive
    /\ pc' = "unlink"
    /\ UNCHANGED <<cfg, level, raised, window, count, memory, publisher, interrupts>>

Unlink ==
    /\ pc = "unlink"
    /\ IF blocks = {}
       THEN pc' = "window" /\ UNCHANGED blocks
       ELSE blocks' = blocks \ {CHOOSE c \in blocks : TRUE} /\ UNCHANGED pc
    /\ UNCHANGED <<cfg, level, raised, window, count, assigned, stop, ready, shm, pos, publisher, interrupts>>

(* The viewer is closed and close() returns: to the finally of             *)
(* start_simulator, to its last sleep, or from __del__.                    *)
ShutWindow ==
    /\ pc = "window"
    /\ window' = FALSE
    /\ CASE level = 1 -> CloseFrom(2)
         [] level = 2 -> pc' = "nap" /\ UNCHANGED level
         [] OTHER -> pc' = (IF raised THEN "gone" ELSE "exit") /\ UNCHANGED level
    /\ UNCHANGED <<cfg, raised, count, memory, publisher, interrupts>>

(* start_simulator sleeps a second and main() returns: __del__ runs.       *)
Nap ==
    /\ pc = "nap"
    /\ CloseFrom(3)
    /\ UNCHANGED <<cfg, raised, window, count, memory, publisher, interrupts>>

(* The interpreter waits for its child processes. A traceback keeps the    *)
(* simulator, so that its __del__ comes after.                             *)
ExitJoin ==
    /\ pc = "exit"
    /\ ~Alive
    /\ IF raised THEN CloseFrom(3) ELSE pc' = "gone" /\ UNCHANGED level
    /\ UNCHANGED <<cfg, raised, window, count, memory, publisher, interrupts>>

-----------------------------------------------------------------------------
(* _image_publish_worker. The port may be taken; without its block the     *)
(* process cannot attach; both end it through a finally that fails.        *)

Attach ==
    /\ child = "boot"
    /\ \/ child' = IF blocks = 1 .. Cameras THEN "test" ELSE "dead"
       \/ child' = "dead"
    /\ UNCHANGED <<cfg, main, memory, signal, got, images, offered, failed, interrupts>>

TestStop ==
    /\ child = "test"
    /\ child' = IF stop THEN "cleanup" ELSE "wait"
    /\ UNCHANGED <<cfg, main, memory, signal, got, images, offered, failed, interrupts>>

Wake ==
    /\ child = "wait"
    /\ child' = IF ready THEN "clear" ELSE "test"
    /\ UNCHANGED <<cfg, main, memory, signal, got, images, offered, failed, interrupts>>

ClearReady ==
    /\ child = "clear"
    /\ ready' = FALSE
    /\ got' = 0
    /\ child' = "copy"
    /\ UNCHANGED <<cfg, main, assigned, blocks, stop, shm, pos, signal, images, offered, failed, interrupts>>

CopyOut ==
    /\ child = "copy"
    /\ got < Cameras * Parts
    /\ images' = [images EXCEPT ![got + 1] = shm[got + 1]]
    /\ got' = got + 1
    /\ UNCHANGED <<cfg, main, memory, child, signal, offered, failed, interrupts>>

(* A full socket drops the message, which counts as sent.                  *)
Offer ==
    \/ offered' = images /\ failed' = FALSE
    \/ failed' = TRUE /\ UNCHANGED offered

(* The event is cleared when its frame was sent.                           *)
Mut_ClearWhenSent ==
    /\ child = "copy"
    /\ got = Cameras * Parts
    /\ ready' = FALSE
    /\ Offer
    /\ child' = "test"
    /\ UNCHANGED <<cfg, main, assigned, blocks, stop, shm, pos, signal, got, images, interrupts>>

(* Encoding may raise, which is printed and looks like a dropped message.  *)
SendMessage ==
    /\ child = "copy"
    /\ got = Cameras * Parts
    /\ Offer
    /\ child' = "test"
    /\ UNCHANGED <<cfg, main, memory, signal, got, images, interrupts>>

CleanUp ==
    /\ child = "cleanup"
    /\ child' = "dead"
    /\ UNCHANGED <<cfg, main, memory, signal, got, images, offered, failed, interrupts>>

(* SIGTERM may be waited for in vain; SIGKILL may not.                     *)
Dies(sig) ==
    /\ signal = sig
    /\ Alive
    /\ child' = "dead"
    /\ UNCHANGED <<cfg, main, memory, signal, got, images, offered, failed, interrupts>>

-----------------------------------------------------------------------------
(* KeyboardInterrupt, in both processes. Before the constructor is done    *)
(* nothing is closed; from start() and start_simulator the exception leads *)
(* to the next close(); the third close() is __del__, which swallows it.   *)
Interrupt ==
    /\ interrupts < MaxInterrupts
    /\ pc # "gone"
    /\ interrupts' = interrupts + 1
    /\ CASE pc = "build" -> pc' = "gone" /\ raised' = TRUE /\ UNCHANGED level
         [] pc \in {"make", "spawn"} -> CloseFrom(2) /\ UNCHANGED raised
         [] pc \in {"test", "step", "timers", "copy"} -> CloseFrom(1) /\ UNCHANGED raised
         [] pc = "exit" -> IF raised THEN CloseFrom(3) /\ UNCHANGED raised
                                     ELSE pc' = "gone" /\ UNCHANGED <<level, raised>>
         [] pc = "nap" -> pc' = "exit" /\ raised' = TRUE /\ UNCHANGED level
         [] OTHER -> CASE level = 1 -> CloseFrom(2) /\ UNCHANGED raised
                       [] level = 2 -> pc' = "exit" /\ raised' = TRUE /\ UNCHANGED level
                       [] level = 3 -> pc' = (IF raised THEN "gone" ELSE "exit") /\ UNCHANGED <<level, raised>>
    /\ child' = CASE child \in {"boot", "cleanup"} -> "dead"
                  [] child \in {"test", "wait", "clear", "copy"} -> "cleanup"
                  [] OTHER -> child
    /\ UNCHANGED <<cfg, window, count, memory, signal, got, images, offered, failed>>

-----------------------------------------------------------------------------
Main ==
    \/ Build \/ MakeBlock \/ Spawn \/ TestLoop \/ SimStep \/ Timers \/ CopyIn
    \/ StopSet \/ Terminate \/ Kill \/ Joined \/ Unlink \/ ShutWindow \/ Nap \/ ExitJoin

Worker == Attach \/ TestStop \/ Wake \/ ClearReady \/ CopyOut \/ SendMessage \/ CleanUp

Next == Main \/ Worker \/ Dies("term") \/ Dies("kill") \/ CloseWindow \/ Interrupt

(* The main process runs, and a killed process dies. Nothing is asked of   *)
(* the publishing process: it may be stuck.                                *)
Spec == Init /\ [][Next]_vars /\ WF_vars(Main) /\ WF_vars(Dies("kill"))

-----------------------------------------------------------------------------
TypeOK ==
    /\ cfg \in Configs
    /\ pc \in {"build", "make", "spawn", "test", "step", "timers", "copy", "stop", "join",
               "term", "kill", "unlink", "window", "nap", "exit", "gone"}
    /\ level \in 0 .. 3
    /\ child \in {"none", "boot", "test", "wait", "clear", "copy", "cleanup", "dead"}
    /\ signal \in {"none", "term", "kill"}
    /\ raised \in BOOLEAN /\ window \in BOOLEAN /\ assigned \in BOOLEAN
    /\ stop \in BOOLEAN /\ ready \in BOOLEAN /\ failed \in BOOLEAN
    /\ blocks \subseteq 1 .. Cameras
    /\ count \in 0 .. MaxSteps /\ interrupts \in 0 .. MaxInterrupts
    /\ pos \in 0 .. Cameras * Parts /\ got \in 0 .. Cameras * Parts
    /\ {shm, images, offered} \subseteq [Units -> 0 .. MaxSteps]

(* Messages may mix frames, because images are copied while they are       *)
(* written. But a publisher that waits with the event clear, while no copy *)
(* is under way, has last offered every camera's newest image, or failed   *)
(* to: no frame is overlooked because it came during the copy of another.  *)
NoFrameMissed ==
    (child = "wait" /\ ~ready /\ pc \in {"test", "step", "timers"}) => (failed \/ offered = shm)

(* Types, and no frame overlooked.                                         *)
Inv == TypeOK /\ NoFrameMissed

(* However often the first two closes are interrupted or repeated, the     *)
(* program leaves no publisher behind and no shared memory, and never      *)
(* removes a block under a live publisher. A third interrupt can defeat    *)
(* it, and one within the constructor of the publisher.                    *)
CleanEnd ==
    /\ (assigned /\ Alive) => blocks = 1 .. Cameras
    /\ (pc = "gone" /\ assigned /\ interrupts <= 2) => (blocks = {} /\ ~Alive)

Closing == pc \in {"stop", "join", "term", "kill", "unlink", "window", "nap", "exit"}

(* The closing program ends, with a publisher that never answers too.      *)
(* Only after two interrupted closes does it wait for the publisher alone. *)
CloseEnds == Closing ~> (pc = "gone" \/ (pc = "exit" /\ raised /\ Alive))
=============================================================================
