---------------------------- MODULE RenderWorker ----------------------------
(***************************************************************************)
(* The render thread of the HIL client and the mailbox between it and the  *)
(* control thread: RenderWorker and the renderer parts of main() in        *)
(* scripts/mujoco_hil_client.py, LatestState in scripts/render_mailbox.py. *)
(*                                                                         *)
(* A qpos array is abstracted to two halves that each hold the number of   *)
(* the control tick that wrote them: an array whose halves differ is torn. *)
(***************************************************************************)
EXTENDS Integers

CONSTANTS
  Ticks,  \* control ticks that the control thread may run
  Faults  \* "raise": loading, launching or drawing raises; "hang": the GUI may
          \* keep stop() waiting for 2 s; "fail": the control thread raises

ASSUME TicksAssumption == Ticks \in Nat
ASSUME FaultsAssumption == Faults \subseteq {"raise", "hang", "fail"}

VARIABLES
  control,    \* where the control thread is
  connected,  \* create_connection succeeded, so the finally clause is armed
  reported,   \* stop() raised "render worker failed"
  joined,     \* join(timeout=2.0) returned because the thread had ended
  qpos,       \* data.qpos of the control thread
  copying,    \* the local snapshot of publish()
  stored,     \* LatestState._state
  lock,       \* LatestState._lock: "free" or its holder
  worker,     \* where the render thread is
  snapshot,   \* the local copy that latest() makes
  shown,      \* render_data.qpos
  open,       \* viewer.is_running()
  stopEvent,  \* RenderWorker.stop_event
  error       \* RenderWorker.error is not None

cvars == <<control, connected, reported, joined>>
mvars == <<stored, lock>>
wvars == <<worker, snapshot, shown, open, error>>
vars == <<cvars, qpos, copying, mvars, wvars, stopEvent>>

Array(tick) == [front |-> tick, back |-> tick]
Arrays == [front : 0 .. Ticks, back : 0 .. Ticks]

\* What self._state names: nothing, the simulator's own array, or a copy.
None == [kind |-> "none", array |-> Array(0)]
Alias == [kind |-> "alias", array |-> Array(0)]
Copy(array) == [kind |-> "copy", array |-> array]
Slots == [kind : {"none", "alias", "copy"}, array : Arrays]

Dereference(slot) == IF slot.kind = "alias" THEN qpos ELSE slot.array

Torn(array) == array.front # array.back
-----------------------------------------------------------------------------
(* The control thread *)

\* create_connection raises before the try block: stop() is not called.
ConnectFails ==
  /\ control = "connect"
  /\ control' = "exited"
  /\ UNCHANGED <<connected, reported, joined, qpos, copying, mvars, wvars, stopEvent>>

Connect ==
  /\ control = "connect"
  /\ connected' = TRUE
  /\ control' = "tick"
  /\ UNCHANGED <<reported, joined, qpos, copying, mvars, wvars, stopEvent>>

\* for step in range(args.steps)
TicksLeft == qpos.front < Ticks

\* mj_step of one control tick rewrites qpos in place, half by half.
StepFront ==
  /\ control = "tick"
  /\ TicksLeft
  /\ qpos' = [qpos EXCEPT !.front = @ + 1]
  /\ control' = "step"
  /\ UNCHANGED <<connected, reported, joined, copying, mvars, wvars, stopEvent>>

StepBack ==
  /\ control = "step"
  /\ qpos' = [qpos EXCEPT !.back = qpos.front]
  /\ control' = "copy"
  /\ UNCHANGED <<connected, reported, joined, copying, mvars, wvars, stopEvent>>

\* np.asarray(state, dtype=np.float64).copy(): without the copy() asarray
\* would return the simulator's own array.
Mut_NoCopy == Alias
Published == Copy(qpos)

CopyState ==
  /\ control = "copy"
  /\ copying' = Published
  /\ control' = "publish"
  /\ UNCHANGED <<connected, reported, joined, qpos, mvars, wvars, stopEvent>>

\* with self._lock: self._state = snapshot
Swap ==
  /\ control = "publish"
  /\ lock = "free"
  /\ stored' = copying
  /\ control' = "tick"
  /\ UNCHANGED <<connected, reported, joined, qpos, copying, lock, wvars, stopEvent>>

\* The loop ends, or a socket, reply or physics error is raised in it: the
\* finally clause runs stop().
LeaveLoop ==
  /\ \/ control = "tick" /\ qpos.front = Ticks
     \/ control \in {"tick", "copy"} /\ "fail" \in Faults
  /\ stopEvent' = TRUE
  /\ control' = "join"
  /\ UNCHANGED <<connected, reported, joined, qpos, copying, mvars, wvars>>

WorkerEnded == worker = "ended"

Join ==
  /\ control = "join"
  /\ WorkerEnded
  /\ joined' = TRUE
  /\ control' = "check"
  /\ UNCHANGED <<connected, reported, qpos, copying, mvars, wvars, stopEvent>>

\* join(timeout=2.0) gives up.
Mut_JoinForEver == FALSE
JoinMayGiveUp == "hang" \in Faults /\ worker \in {"launch", "sync", "close"}
JoinTimeout ==
  /\ control = "join"
  /\ JoinMayGiveUp
  /\ control' = "check"
  /\ UNCHANGED <<connected, reported, joined, qpos, copying, mvars, wvars, stopEvent>>

\* stop() raises the error of the thread if it finds one.
Mut_NeverRaise == FALSE
ErrorSeen == error
CheckError ==
  /\ control = "check"
  /\ reported' = ErrorSeen
  /\ control' = "closing"
  /\ UNCHANGED <<connected, joined, qpos, copying, mvars, wvars, stopEvent>>

\* The socket is closed, the statistics or the traceback are printed, and the
\* interpreter ends; the render thread runs until then.
Exit ==
  /\ control = "closing"
  /\ control' = "exited"
  /\ UNCHANGED <<connected, reported, joined, qpos, copying, mvars, wvars, stopEvent>>

ControlStep ==
  \/ ConnectFails \/ Connect \/ StepFront \/ StepBack \/ CopyState \/ Swap
  \/ LeaveLoop \/ Join \/ JoinTimeout \/ CheckError \/ Exit
-----------------------------------------------------------------------------
(* The render thread, a daemon: it runs until main() has returned *)

Alive == control # "exited"

Go(from, to) == worker = from /\ worker' = to /\ Alive

\* MjModel.from_xml_path, MjData, launch_passive
Launch ==
  /\ Go("launch", "while")
  /\ open' = TRUE
  /\ UNCHANGED <<cvars, qpos, copying, mvars, snapshot, shown, error, stopEvent>>

\* The loop condition.  The user may close the window.
KeepRendering == ~stopEvent /\ open

\* latest() returned None.
LookAtNothing ==
  /\ Go("while", "sync")
  /\ KeepRendering
  /\ lock = "free" /\ stored.kind = "none"
  /\ UNCHANGED <<cvars, qpos, copying, mvars, snapshot, shown, open, error, stopEvent>>

\* latest() took the lock and copies self._state, half by half.
Look ==
  /\ Go("while", "copy front")
  /\ KeepRendering
  /\ lock = "free" /\ stored.kind # "none"
  /\ lock' = "worker"
  /\ UNCHANGED <<cvars, qpos, copying, stored, snapshot, shown, open, error, stopEvent>>

CopyFront ==
  /\ Go("copy front", "copy back")
  /\ snapshot' = [snapshot EXCEPT !.front = Dereference(stored).front]
  /\ UNCHANGED <<cvars, qpos, copying, mvars, shown, open, error, stopEvent>>

\* The with statement of latest() releases the lock at its end.
CopyBack ==
  /\ Go("copy back", "draw")
  /\ snapshot' = [snapshot EXCEPT !.back = Dereference(stored).back]
  /\ lock' = "free"
  /\ UNCHANGED <<cvars, qpos, copying, stored, shown, open, error, stopEvent>>

\* render_data.qpos[:] = snapshot; mj_forward
Draw ==
  /\ Go("draw", "sync")
  /\ shown' = snapshot
  /\ UNCHANGED <<cvars, qpos, copying, mvars, snapshot, open, error, stopEvent>>

Sync ==
  /\ Go("sync", "wait")
  /\ UNCHANGED <<cvars, qpos, copying, mvars, snapshot, shown, open, error, stopEvent>>

\* stop_event.wait(1 / rate): the event or the period.
Wait ==
  /\ Go("wait", "while")
  /\ UNCHANGED <<cvars, qpos, copying, mvars, snapshot, shown, open, error, stopEvent>>

StopRendering ==
  /\ Go("while", "close")
  /\ ~KeepRendering
  /\ UNCHANGED <<cvars, qpos, copying, mvars, snapshot, shown, open, error, stopEvent>>

\* The end of the with statement closes the viewer.
Close ==
  /\ Go("close", "ended")
  /\ open' = FALSE
  /\ UNCHANGED <<cvars, qpos, copying, mvars, snapshot, shown, error, stopEvent>>

\* Loading, launching, drawing or closing raises: the error is kept.
Raise ==
  /\ "raise" \in Faults
  /\ \E place \in {"launch", "draw", "sync", "close"} : Go(place, "ended")
  /\ open' = FALSE
  /\ error' = TRUE
  /\ UNCHANGED <<cvars, qpos, copying, mvars, snapshot, shown, stopEvent>>

UserCloses ==
  /\ open /\ Alive
  /\ open' = FALSE
  /\ UNCHANGED <<cvars, qpos, copying, mvars, worker, snapshot, shown, error, stopEvent>>

\* The steps that the interpreter schedules, and those that the GUI answers.
OwnStep == LookAtNothing \/ Look \/ CopyFront \/ CopyBack \/ Draw \/ Wait \/ StopRendering
GuiStep == Launch \/ Sync \/ Close \/ Raise

Ended == ~Alive /\ UNCHANGED vars
-----------------------------------------------------------------------------
Init ==
  /\ control = "connect" /\ connected = FALSE
  /\ reported = FALSE /\ joined = FALSE
  /\ qpos = Array(0) /\ copying = None
  /\ stored = None /\ lock = "free"
  /\ worker = "launch"  \* renderer.start() comes before the connection
  /\ snapshot = Array(0) /\ shown = Array(0)
  /\ open = FALSE /\ stopEvent = FALSE /\ error = FALSE

Next == ControlStep \/ OwnStep \/ GuiStep \/ UserCloses \/ Ended

Spec == Init /\ [][Next]_vars

\* The interpreter schedules both threads; the GUI may never answer.  Between
\* two copies the render thread sleeps for a frame period with the lock free,
\* so that a waiting publish() gets it in the end.
HangSpec ==
  /\ Spec
  /\ WF_vars(ControlStep) /\ SF_vars(Swap)
  /\ WF_vars(OwnStep)

-----------------------------------------------------------------------------
(* Properties *)

FlagTypes ==
  /\ connected \in BOOLEAN /\ reported \in BOOLEAN /\ joined \in BOOLEAN
  /\ open \in BOOLEAN /\ stopEvent \in BOOLEAN /\ error \in BOOLEAN

DataTypes ==
  /\ control \in {"connect", "tick", "step", "copy", "publish", "join", "check",
                  "closing", "exited"}
  /\ worker \in {"launch", "while", "copy front", "copy back", "draw", "sync",
                 "wait", "close", "ended"}
  /\ lock \in {"free", "worker"}
  /\ qpos \in Arrays /\ copying \in Slots /\ stored \in Slots
  /\ snapshot \in Arrays /\ shown \in Arrays

\* Every variable has the type of what it models.
TypeOK == FlagTypes /\ DataTypes

\* The window never shows a robot that is half at one tick and half at the
\* next, although the simulator rewrites its array while the worker draws.
ShownWhole == ~Torn(shown)

\* The mailbox implements a place for the latest value, of which the window
\* shows what it has found: every tick is published once it is complete, and the
\* window never goes back in time, nor shows a tick that is not published.
Mailbox == INSTANCE LatestValue WITH newest <- stored.array.front, seen <- shown.front
ImplementsMailbox == Mailbox!Spec

\* The control loop does not wait for the GUI: main() returns although the
\* viewer may hang in launching, drawing or closing, for ever.
ControlEnds == <>(control = "exited")

\* An error of the render thread that ended before stop() gave up is raised.
JoinedErrorReported == control = "closing" /\ joined /\ error => reported

\* Types, and an error that a join has seen.
Inv == TypeOK /\ JoinedErrorReported
=============================================================================
