------------------------- MODULE RenderWorker_proofs -------------------------
(* Machine-checked facts about RenderWorker, for every number of ticks and *)
(* every set of faults.                                                    *)
EXTENDS RenderWorker, TLAPS

(* The lock is held exactly while latest() copies.                         *)
LockHeld == (lock = "worker") <=> worker \in {"copy front", "copy back"}

(* Within a tick the simulator's array is torn, between two it is not.     *)
QposWhole ==
  IF control = "step" THEN qpos.front = qpos.back + 1 ELSE qpos.front = qpos.back

(* The mailbox holds whole copies, the newest of the last complete tick.   *)
StoredWhole ==
  /\ stored.kind # "alias" /\ ~Torn(stored.array)
  /\ stored.array.back <= qpos.back
  /\ control = "publish" => copying = Copy(qpos)

(* What the worker copies is between what it shows and what is stored.     *)
SnapshotBetween ==
  /\ worker # "copy back" => ~Torn(snapshot)
  /\ worker = "copy back" => snapshot.front = stored.array.front
  /\ snapshot.back <= stored.array.back
  /\ shown.back <= snapshot.back
  /\ ~Torn(shown)

(* A thread that was joined has ended: it raises nothing any more.         *)
JoinedEnded ==
  /\ joined => worker = "ended"
  /\ control = "closing" /\ joined /\ error => reported

Data == DataTypes /\ LockHeld /\ QposWhole /\ StoredWhole /\ SnapshotBetween
Flags == FlagTypes /\ JoinedEnded

(* The inductive invariant.                                                *)
IInv == Data /\ Flags

(* The halves of an array, and an array of which one half was written.     *)
LEMMA ArrayFacts ==
  ASSUME NEW a \in Arrays
  PROVE  a.front \in 0 .. Ticks /\ a.back \in 0 .. Ticks
BY DEF Arrays

LEMMA WriteFront ==
  ASSUME NEW a \in Arrays, NEW n \in 0 .. Ticks
  PROVE  LET b == [a EXCEPT !.front = n]
         IN  b \in Arrays /\ b.front = n /\ b.back = a.back
BY DEF Arrays

LEMMA WriteBack ==
  ASSUME NEW a \in Arrays, NEW n \in 0 .. Ticks
  PROVE  LET b == [a EXCEPT !.back = n]
         IN  b \in Arrays /\ b.front = a.front /\ b.back = n
BY DEF Arrays

(* The numbers behind the types, and how they are ordered.                 *)
LEMMA Numbers ==
  ASSUME Data
  PROVE  /\ qpos \in Arrays /\ snapshot \in Arrays /\ stored.array \in Arrays
         /\ qpos.front \in Nat /\ qpos.back \in Nat /\ qpos.front <= Ticks
         /\ stored.array.front \in Nat /\ stored.array.back \in Nat
         /\ snapshot.front \in Nat /\ snapshot.back \in Nat
         /\ shown.front \in Nat /\ shown.back \in Nat /\ shown.front = shown.back
         /\ shown.back <= snapshot.back /\ snapshot.back <= stored.array.back
         /\ stored.array.back <= qpos.back /\ stored.array.front = stored.array.back
         /\ stored.array.front \in 0 .. Ticks /\ stored.array.back \in 0 .. Ticks
<1>1. qpos \in Arrays /\ snapshot \in Arrays /\ shown \in Arrays /\ stored.array \in Arrays
  BY DEF Data, DataTypes, Slots
<1>2. /\ qpos.front \in 0 .. Ticks /\ qpos.back \in 0 .. Ticks
      /\ stored.array.front \in 0 .. Ticks /\ stored.array.back \in 0 .. Ticks
      /\ snapshot.front \in 0 .. Ticks /\ snapshot.back \in 0 .. Ticks
      /\ shown.front \in 0 .. Ticks /\ shown.back \in 0 .. Ticks
  BY <1>1, ArrayFacts
<1>3. /\ qpos.front \in Nat /\ qpos.back \in Nat /\ qpos.front <= Ticks
      /\ stored.array.front \in Nat /\ stored.array.back \in Nat
      /\ snapshot.front \in Nat /\ snapshot.back \in Nat
      /\ shown.front \in Nat /\ shown.back \in Nat
  BY <1>2, TicksAssumption
<1>4. /\ shown.back <= snapshot.back /\ snapshot.back <= stored.array.back
      /\ stored.array.back <= qpos.back
  BY DEF Data, SnapshotBetween, StoredWhole
<1>5. shown.front = shown.back /\ stored.array.front = stored.array.back
  BY DEF Data, SnapshotBetween, StoredWhole, Torn
<1>6. QED
  BY <1>1, <1>2, <1>3, <1>4, <1>5

LEMMA InitInv ==
  ASSUME Init
  PROVE  IInv
<1>1. Data
  BY TicksAssumption
     DEF Init, Data, DataTypes, LockHeld, QposWhole, StoredWhole, SnapshotBetween, Array, Arrays,
         None, Slots, Torn
<1>2. Flags
  BY DEF Init, Flags, FlagTypes, JoinedEnded
<1>3. QED
  BY <1>1, <1>2 DEF IInv

(* The simulator writes one half of its array.                             *)
LEMMA StepFrontData ==
  ASSUME Data, StepFront
  PROVE  Data'
<1>1. /\ control = "tick" /\ control' = "step" /\ qpos.front < Ticks
      /\ qpos' = [qpos EXCEPT !.front = qpos.front + 1]
      /\ UNCHANGED <<copying, stored, lock, worker, snapshot, shown>>
  BY DEF StepFront, TicksLeft, mvars, wvars
<1>2. qpos.front + 1 \in 0 .. Ticks /\ qpos.front = qpos.back
  BY <1>1, Numbers, TicksAssumption DEF Data, QposWhole
<1>3. /\ qpos' \in Arrays /\ qpos'.front = qpos.front + 1 /\ qpos'.back = qpos.back
  BY <1>1, <1>2, Numbers, WriteFront
<1>4. DataTypes' /\ LockHeld' /\ QposWhole'
  BY <1>1, <1>2, <1>3 DEF Data, DataTypes, LockHeld, QposWhole
<1>5. StoredWhole' /\ SnapshotBetween'
  BY <1>1, <1>3 DEF Data, StoredWhole, SnapshotBetween
<1>6. QED
  BY <1>4, <1>5 DEF Data

LEMMA StepBackData ==
  ASSUME Data, StepBack
  PROVE  Data'
<1>1. /\ control = "step" /\ control' = "copy"
      /\ qpos' = [qpos EXCEPT !.back = qpos.front]
      /\ UNCHANGED <<copying, stored, lock, worker, snapshot, shown>>
  BY DEF StepBack, mvars, wvars
<1>2. qpos.front \in 0 .. Ticks /\ qpos.front = qpos.back + 1
  BY <1>1, Numbers, ArrayFacts DEF Data, QposWhole
<1>3. qpos' \in Arrays /\ qpos'.front = qpos.front /\ qpos'.back = qpos.front
  BY <1>1, <1>2, Numbers, WriteBack
<1>4. DataTypes' /\ LockHeld' /\ QposWhole'
  BY <1>1, <1>2, <1>3 DEF Data, DataTypes, LockHeld, QposWhole
<1>5. stored.array.back <= qpos'.back
  BY <1>2, <1>3, Numbers
<1>6. StoredWhole' /\ SnapshotBetween'
  BY <1>1, <1>5 DEF Data, StoredWhole, SnapshotBetween
<1>7. QED
  BY <1>4, <1>6 DEF Data

(* The mailbox takes over the copy of the last tick.                       *)
LEMMA SwapData ==
  ASSUME Data, Swap
  PROVE  Data'
<1>1. /\ control = "publish" /\ control' = "tick" /\ lock = "free" /\ stored' = Copy(qpos)
      /\ UNCHANGED <<qpos, copying, lock, worker, snapshot, shown>>
  BY DEF Swap, wvars, Data, StoredWhole
<1>2. /\ stored'.array = qpos /\ stored'.kind = "copy" /\ stored' \in Slots
      /\ qpos.front = qpos.back
  BY <1>1, Numbers DEF Copy, Slots, Data, QposWhole
<1>3. worker # "copy back"
  BY <1>1 DEF Data, LockHeld
<1>4. snapshot.back <= stored'.array.back /\ stored'.array.back <= qpos.back
  BY <1>2, Numbers
<1>5. DataTypes' /\ LockHeld' /\ QposWhole'
  BY <1>1, <1>2 DEF Data, DataTypes, LockHeld, QposWhole
<1>6. StoredWhole' /\ SnapshotBetween'
  BY <1>1, <1>2, <1>3, <1>4 DEF Data, StoredWhole, SnapshotBetween, Torn
<1>7. QED
  BY <1>5, <1>6 DEF Data

(* latest() copies one half of what is stored.                             *)
LEMMA CopyFrontData ==
  ASSUME Data, CopyFront
  PROVE  Data'
<1>1. /\ worker = "copy front" /\ worker' = "copy back"
      /\ snapshot' = [snapshot EXCEPT !.front = stored.array.front]
      /\ UNCHANGED <<control, qpos, copying, stored, lock, shown>>
  BY DEF CopyFront, Go, Dereference, Data, StoredWhole, cvars, mvars
<1>2. /\ snapshot' \in Arrays /\ snapshot'.front = stored.array.front
      /\ snapshot'.back = snapshot.back
  BY <1>1, Numbers, WriteFront
<1>3. DataTypes' /\ LockHeld' /\ QposWhole' /\ StoredWhole'
  BY <1>1, <1>2 DEF Data, DataTypes, LockHeld, QposWhole, StoredWhole
<1>4. SnapshotBetween'
  BY <1>1, <1>2 DEF Data, SnapshotBetween
<1>5. QED
  BY <1>3, <1>4 DEF Data

LEMMA CopyBackData ==
  ASSUME Data, CopyBack
  PROVE  Data'
<1>1. /\ worker = "copy back" /\ worker' = "draw" /\ lock' = "free"
      /\ snapshot' = [snapshot EXCEPT !.back = stored.array.back]
      /\ UNCHANGED <<control, qpos, copying, stored, shown>>
  BY DEF CopyBack, Go, Dereference, Data, StoredWhole, cvars
<1>2. /\ snapshot' \in Arrays /\ snapshot'.front = snapshot.front
      /\ snapshot'.back = stored.array.back
  BY <1>1, Numbers, WriteBack
<1>3. DataTypes' /\ LockHeld' /\ QposWhole' /\ StoredWhole'
  BY <1>1, <1>2 DEF Data, DataTypes, LockHeld, QposWhole, StoredWhole
<1>4. snapshot'.front = snapshot'.back
  BY <1>1, <1>2, Numbers DEF Data, SnapshotBetween
<1>5. snapshot'.back <= stored.array.back /\ shown.back <= snapshot'.back
  BY <1>2, Numbers
<1>6. SnapshotBetween'
  BY <1>1, <1>4, <1>5 DEF Data, SnapshotBetween, Torn
<1>7. QED
  BY <1>3, <1>6 DEF Data

(* The control thread.                                                     *)
LEMMA ControlData ==
  ASSUME Data, ControlStep
  PROVE  Data'
<1> USE TicksAssumption
    DEF Data, DataTypes, LockHeld, QposWhole, StoredWhole, SnapshotBetween, Array, Arrays, None,
        Copy, Slots, Torn, mvars, wvars
<1>1. CASE ConnectFails
  BY <1>1 DEF ConnectFails
<1>2. CASE Connect
  BY <1>2 DEF Connect
<1>3. CASE StepFront
  BY <1>3, StepFrontData
<1>4. CASE StepBack
  BY <1>4, StepBackData
<1>5. CASE CopyState
  BY <1>5 DEF CopyState, Published
<1>6. CASE Swap
  BY <1>6, SwapData
<1>7. CASE LeaveLoop
  BY <1>7 DEF LeaveLoop
<1>8. CASE Join
  BY <1>8 DEF Join, WorkerEnded
<1>9. CASE JoinTimeout
  BY <1>9 DEF JoinTimeout
<1>10. CASE CheckError
  BY <1>10 DEF CheckError, ErrorSeen
<1>11. CASE Exit
  BY <1>11 DEF Exit
<1>12. QED
  BY <1>1, <1>2, <1>3, <1>4, <1>5, <1>6, <1>7, <1>8, <1>9, <1>10, <1>11 DEF ControlStep

LEMMA ControlFlags ==
  ASSUME Flags, ControlStep
  PROVE  Flags'
<1> USE DEF Flags, FlagTypes, JoinedEnded, mvars, wvars
<1>1. CASE ConnectFails
  BY <1>1 DEF ConnectFails
<1>2. CASE Connect
  BY <1>2 DEF Connect
<1>3. CASE StepFront
  BY <1>3 DEF StepFront
<1>4. CASE StepBack
  BY <1>4 DEF StepBack
<1>5. CASE CopyState
  BY <1>5 DEF CopyState, Published
<1>6. CASE Swap
  BY <1>6 DEF Swap
<1>7. CASE LeaveLoop
  BY <1>7 DEF LeaveLoop
<1>8. CASE Join
  BY <1>8 DEF Join, WorkerEnded
<1>9. CASE JoinTimeout
  BY <1>9 DEF JoinTimeout
<1>10. CASE CheckError
  BY <1>10 DEF CheckError, ErrorSeen
<1>11. CASE Exit
  BY <1>11 DEF Exit
<1>12. QED
  BY <1>1, <1>2, <1>3, <1>4, <1>5, <1>6, <1>7, <1>8, <1>9, <1>10, <1>11 DEF ControlStep

(* The render thread, as the interpreter schedules it.                     *)
LEMMA OwnData ==
  ASSUME Data, OwnStep
  PROVE  Data'
<1> USE TicksAssumption
    DEF Data, DataTypes, LockHeld, QposWhole, StoredWhole, SnapshotBetween, Array, Arrays, None,
        Copy, Slots, Torn, cvars, mvars, Go
<1>1. CASE LookAtNothing
  BY <1>1 DEF LookAtNothing
<1>2. CASE Look
  BY <1>2 DEF Look
<1>3. CASE CopyFront
  BY <1>3, CopyFrontData
<1>4. CASE CopyBack
  BY <1>4, CopyBackData
<1>5. CASE Draw
  BY <1>5 DEF Draw
<1>6. CASE Wait
  BY <1>6 DEF Wait
<1>7. CASE StopRendering
  BY <1>7 DEF StopRendering
<1>8. QED
  BY <1>1, <1>2, <1>3, <1>4, <1>5, <1>6, <1>7 DEF OwnStep

LEMMA OwnFlags ==
  ASSUME Flags, OwnStep
  PROVE  Flags'
<1> USE DEF Flags, FlagTypes, JoinedEnded, cvars, mvars, Go
<1>1. CASE LookAtNothing
  BY <1>1 DEF LookAtNothing
<1>2. CASE Look
  BY <1>2 DEF Look
<1>3. CASE CopyFront
  BY <1>3 DEF CopyFront
<1>4. CASE CopyBack
  BY <1>4 DEF CopyBack
<1>5. CASE Draw
  BY <1>5 DEF Draw
<1>6. CASE Wait
  BY <1>6 DEF Wait
<1>7. CASE StopRendering
  BY <1>7 DEF StopRendering
<1>8. QED
  BY <1>1, <1>2, <1>3, <1>4, <1>5, <1>6, <1>7 DEF OwnStep

(* What the GUI answers, and the user.                                     *)
LEMMA GuiData ==
  ASSUME Data, GuiStep \/ UserCloses
  PROVE  Data'
<1> USE TicksAssumption
    DEF Data, DataTypes, LockHeld, QposWhole, StoredWhole, SnapshotBetween, Array, Arrays, None,
        Copy, Slots, Torn, cvars, mvars, Go
<1>1. CASE Launch
  BY <1>1 DEF Launch
<1>2. CASE Sync
  BY <1>2 DEF Sync
<1>3. CASE Close
  BY <1>3 DEF Close
<1>4. CASE Raise
  BY <1>4 DEF Raise
<1>5. CASE UserCloses
  BY <1>5 DEF UserCloses
<1>6. QED
  BY <1>1, <1>2, <1>3, <1>4, <1>5 DEF GuiStep

LEMMA GuiFlags ==
  ASSUME Flags, GuiStep \/ UserCloses
  PROVE  Flags'
<1> USE DEF Flags, FlagTypes, JoinedEnded, cvars, mvars, Go
<1>1. CASE Launch
  BY <1>1 DEF Launch
<1>2. CASE Sync
  BY <1>2 DEF Sync
<1>3. CASE Close
  BY <1>3 DEF Close
<1>4. CASE Raise
  BY <1>4 DEF Raise
<1>5. CASE UserCloses
  BY <1>5 DEF UserCloses
<1>6. QED
  BY <1>1, <1>2, <1>3, <1>4, <1>5 DEF GuiStep

LEMMA StutterInv ==
  ASSUME IInv, UNCHANGED vars
  PROVE  IInv'
<1>1. UNCHANGED <<control, connected, reported, joined, qpos, copying, stored, lock, worker,
                  snapshot, shown, open, error, stopEvent>>
  BY DEF vars, cvars, mvars, wvars
<1>2. FlagTypes' /\ DataTypes'
  <2>1. FlagTypes'
    BY <1>1, Zenon DEF IInv, Flags, FlagTypes
  <2>2. DataTypes'
    BY <1>1 DEF IInv, Data, DataTypes
  <2>3. QED
    BY <2>1, <2>2
<1>3. LockHeld' /\ QposWhole'
  BY <1>1 DEF IInv, Data, LockHeld, QposWhole
<1>4. StoredWhole'
  BY <1>1 DEF IInv, Data, StoredWhole
<1>5. SnapshotBetween'
  BY <1>1 DEF IInv, Data, SnapshotBetween
<1>6. JoinedEnded'
  BY <1>1 DEF IInv, Flags, JoinedEnded
<1>7. QED
  BY <1>2, <1>3, <1>4, <1>5, <1>6 DEF IInv, Data, Flags

LEMMA NextInv ==
  ASSUME IInv, [Next]_vars
  PROVE  IInv'
<1>1. Data /\ Flags
  BY DEF IInv
<1>2. CASE ControlStep
  BY <1>1, <1>2, ControlData, ControlFlags DEF IInv
<1>3. CASE OwnStep
  BY <1>1, <1>3, OwnData, OwnFlags DEF IInv
<1>4. CASE GuiStep \/ UserCloses
  BY <1>1, <1>4, GuiData, GuiFlags DEF IInv
<1>5. CASE UNCHANGED vars
  BY <1>5, StutterInv
<1>6. QED
  BY <1>2, <1>3, <1>4, <1>5 DEF Next, Ended

(* The inductive invariant holds in every reachable state.                 *)
LEMMA Invariance == Spec => []IInv
<1>1. Init => IInv
  BY InitInv
<1>2. IInv /\ [Next]_vars => IInv'
  BY NextInv
<1>3. QED
  BY <1>1, <1>2, PTL DEF Spec

(* Types, and an error of a thread that stop() has joined is raised by it. *)
THEOREM ErrorReported == Spec => []Inv
<1>1. IInv => Inv
  BY DEF IInv, Data, Flags, Inv, TypeOK, JoinedEnded, JoinedErrorReported
<1>2. QED
  BY <1>1, Invariance, PTL

(* The window never shows a torn robot, however the simulator's stores and *)
(* the worker's loads interleave.                                          *)
THEOREM WholeRobot == Spec => []ShownWhole
<1>1. IInv => ShownWhole
  BY DEF IInv, Data, SnapshotBetween, ShownWhole
<1>2. QED
  BY <1>1, Invariance, PTL

(* What is stored is the tick before the one under way, and the newest     *)
(* complete one from Swap to the next StepFront.                           *)
StoredNewest ==
  /\ control \in {"connect", "tick", "step"} => stored.array.front = qpos.back
  /\ control \in {"copy", "publish"} => stored.array.front + 1 = qpos.back

LEMMA NewestKept ==
  ASSUME IInv, StoredNewest, [Next]_vars
  PROVE  StoredNewest'
<1>1. /\ qpos \in Arrays /\ qpos.front \in Nat /\ qpos.back \in Nat
      /\ stored.array.front \in Nat
  BY Numbers DEF IInv
<1>2. QposWhole /\ StoredWhole
  BY DEF IInv, Data
<1>3. CASE StepFront
  <2>1. /\ control = "tick" /\ control' = "step" /\ stored' = stored
        /\ qpos' = [qpos EXCEPT !.front = qpos.front + 1]
    BY <1>3 DEF StepFront, mvars
  <2>2. qpos'.back = qpos.back
    BY <1>1, <2>1 DEF Arrays
  <2>3. QED
    BY <2>1, <2>2 DEF StoredNewest
<1>4. CASE StepBack
  <2>1. /\ control = "step" /\ control' = "copy" /\ stored' = stored
        /\ qpos' = [qpos EXCEPT !.back = qpos.front]
    BY <1>4 DEF StepBack, mvars
  <2>2. qpos'.back = qpos.front /\ qpos.front = qpos.back + 1
    BY <1>1, <1>2, <2>1 DEF Arrays, QposWhole
  <2>3. QED
    BY <2>1, <2>2 DEF StoredNewest
<1>5. CASE Swap
  <2>1. /\ control = "publish" /\ control' = "tick" /\ qpos' = qpos
        /\ stored' = Copy(qpos) /\ qpos.front = qpos.back
    BY <1>2, <1>5 DEF Swap, StoredWhole, QposWhole
  <2>2. QED
    BY <2>1 DEF StoredNewest, Copy
<1>6. CASE ~(StepFront \/ StepBack \/ Swap)
  <2>1. UNCHANGED <<qpos, stored>>
    BY <1>6 DEF Next, ControlStep, OwnStep, GuiStep, UserCloses, Ended, ConnectFails, Connect,
         CopyState, LeaveLoop, Join, JoinTimeout, CheckError, Exit, LookAtNothing, Look,
         CopyFront, CopyBack, Draw, Wait, StopRendering, Launch, Sync, Close, Raise, vars, mvars
  <2>2. \/ control' = control
        \/ control = "connect" /\ control' = "tick"
        \/ control = "copy" /\ control' = "publish"
        \/ control' \in {"join", "check", "closing", "exited"}
    BY <1>6 DEF Next, ControlStep, OwnStep, GuiStep, UserCloses, Ended, ConnectFails, Connect,
         CopyState, LeaveLoop, Join, JoinTimeout, CheckError, Exit, LookAtNothing, Look,
         CopyFront, CopyBack, Draw, Wait, StopRendering, Launch, Sync, Close, Raise, vars, cvars
  <2>3. QED
    BY <2>1, <2>2 DEF StoredNewest
<1>7. QED
  BY <1>3, <1>4, <1>5, <1>6

(* Publishing is Swap, looking is Draw, and all else a stutter.            *)
LEMMA MailboxStep ==
  ASSUME IInv, StoredNewest, [Next]_vars
  PROVE  [Mailbox!Next]_(Mailbox!vars)
<1>1. /\ stored.array.front \in Nat /\ shown.front \in Nat /\ snapshot.front \in Nat
      /\ snapshot.back \in Nat /\ stored.array.front = stored.array.back
      /\ shown.front = shown.back /\ shown.back <= snapshot.back
      /\ snapshot.back <= stored.array.back
  BY Numbers DEF IInv
<1>2. CASE Swap
  <2>1. stored' = Copy(qpos) /\ qpos.front = stored.array.front + 1 /\ shown' = shown
    BY <1>2 DEF Swap, IInv, Data, StoredWhole, QposWhole, StoredNewest, wvars
  <2>2. QED
    BY <2>1 DEF Copy, Mailbox!Next, Mailbox!Publish
<1>3. CASE Draw
  <2>1. worker = "draw" /\ shown' = snapshot /\ stored' = stored
    BY <1>3 DEF Draw, Go, mvars
  <2>2. snapshot.front = snapshot.back
    BY <2>1 DEF IInv, Data, SnapshotBetween, Torn
  <2>3. snapshot.front \in shown.front .. stored.array.front
    BY <1>1, <2>2
  <2>4. QED
    BY <2>1, <2>3 DEF Mailbox!Next, Mailbox!Look
<1>4. CASE ~(Swap \/ Draw)
  <2>1. UNCHANGED <<stored, shown>>
    BY <1>4 DEF Next, ControlStep, OwnStep, GuiStep, UserCloses, Ended, ConnectFails, Connect,
         StepFront, StepBack, CopyState, LeaveLoop, Join, JoinTimeout, CheckError, Exit,
         LookAtNothing, Look, CopyFront, CopyBack, Wait, StopRendering, Launch, Sync, Close,
         Raise, vars, mvars, wvars
  <2>2. QED
    BY <2>1 DEF Mailbox!vars
<1>5. QED
  BY <1>2, <1>3, <1>4

(* The mailbox and the window implement a place for the latest value: every *)
(* tick is published in turn, and the window never goes back in time nor    *)
(* shows one that is not published.                                         *)
THEOREM MailboxIsLatest == Spec => ImplementsMailbox
<1>1. Init => Mailbox!Init /\ StoredNewest
  BY DEF Init, None, Array, Mailbox!Init, StoredNewest
<1>2. IInv /\ StoredNewest /\ [Next]_vars => StoredNewest' /\ [Mailbox!Next]_(Mailbox!vars)
  BY NewestKept, MailboxStep
<1>3. QED
  BY <1>1, <1>2, Invariance, PTL DEF Spec, ImplementsMailbox, Mailbox!Spec
=============================================================================
