# TLA+ models of the SONIC RK deployment

This repository deploys a whole-body control policy for the Unitree G1 on a
Rockchip NPU. A host runs MuJoCo and the control loop, the board runs the
encoder and the decoder, and an official simulator takes robot commands over
DDS. The models cover the parts that run concurrently, talk over a network or
leave files for each other, and the tables of the robot where they can be
inconsistent. Each definition is a translation of code, not of a document or a
comment, and `PROJECT.json` ("map") gives the lines it stands for. Numbers in
brackets are lines of TLA+.

Contents: [the system](#the-system), [modules](#modules),
[runs](#runs-and-what-they-show), [bounds](#bounds),
[fairness](#fairness), [theorems](#theorems),
[findings](#findings), [limits](#not-modelled), [plan](#plan).

## The system

```
 host                                              board
 mujoco_hil_client.py                              hil_server.cpp
   control thread ==== TCP, one request/reply ====  encoder -> decoder (RKNN)
     |  publish()          per control tick
     v
   LatestState  --->  render thread (MuJoCo viewer)

 controller process                                simulator process            image process
   DDS publishers ===== lossy topics ============>  UnitreeSdk2Bridge
   RPC clients    <==== request/response topics ==>   3 reader threads -> cmd
     lease thread                                     simulation thread reads cmd
                                                      renders  == shared memory ==> ZMQ

 collect_onnx_mujoco_calibration.py -> files -> rknn_pipeline.py -> models -> main.cpp (benchmark)
```

| Part (source) | State it keeps | Operations | What makes it hard |
|---|---|---|---|
| HIL client (`scripts/mujoco_hil_client.py`, `scripts/hil_protocol.py`) | step, sequence, history of 10 frames, last action, socket | connect, observe, send, receive, check and apply, finish; every raise | a 10 s timeout races an answer that is on its way; the peer stops in mid-packet; the sequence field overflows |
| NPU server (`inference/src/hil_server.cpp`) | loaded models, accepted socket, steps, vectors that survive an iteration | load, accept, read, encode, decode, write, count, exit | one client at a time with others queueing; reads and writes have no timeout; closing with unread data resets the connection |
| Render worker (same script, `scripts/render_mailbox.py`) | mailbox and its lock, stop event, error | publish, latest, draw, stop | the simulator rewrites its array in place; the GUI may hang; a daemon thread outlives the join |
| DDS channel (`unitree_sdk2py/core/channel.py`, `utils/bqueue.py`) | one-sample cache, bounded queue, event, thread | write, listener, get, handler, Close, Init | wait without a loop; Close races with the reader's wait; handlers that raise |
| RPC (`unitree_sdk2py/rpc`) | table of futures, two server queues | call, handle, respond, time out | every client reads every response; late answers; replaced requests; two queues |
| Robot service clients (`unitree_sdk2py/{go2,b2,g1,h1,comm}`) | registered apis, the stage of ShakeHand | every method of thirteen services | registrations and methods are two lists; streamed commands want no reply, stops do; one code is made of a status, others are dropped |
| Lease (`rpc/lease_server.py`, `lease_client.py`, `server.py`) | one lease and its age; what each client believes | apply, renew, expire, check a request, start its handler | belief and fact differ after loss, delay or a crash; the lock is released between check and handler |
| Simulator bridge and loop (`gear_sonic/utils/mujoco_sim/unitree_sdk2py_bridge.py`, `base_sim.py`) | commands in force, flags, physics | construct, handlers, read and apply, reset, close | handlers run before the constructor ends; commands are read field by field while they are replaced |
| Simulator program and image publisher (`run_sim_loop.py`, `simulator_factory.py`, `base_sim.py`, `image_publish_utils.py`, `sensor_server.py`) | options, shared memory blocks, two events, a child process | build, step, timers, copy in and out, send, three closes with a stop ladder, Ctrl-C | copies without a lock; a child that is stuck; a close that Ctrl-C cuts short |
| Calibration, conversion, benchmark (`collect_onnx_mujoco_calibration.py`, `rknn_pipeline.py`, `inference/src/main.cpp`) | episode history, three arrays, a dataset and its manifest, converted models | collect, save, make-calibration, convert, run | each can stop between or within two of its writes, and the next program reads what is there |
| Robot model (`gear_sonic/data/robot_model`) | joint tables, groups, limits, cached kinematics | resolve groups, build a view with fixed joints, convert, clip, cache | two indexings (with and without the floating base), two resolutions of groups, caches of a view and of the model it drives |
| Reference motion, RKNN validation, simulator metrics, SDK utilities, messages, launch script | | | pure, generated or unused: see [not modelled](#not-modelled) |

Within a process they interact by calls and shared variables. Across processes
there are four media: the TCP stream of the HIL session, DDS topics (best
effort, a cache of one sample), shared memory with two events between simulator
and image publisher, and files between the calibration programs. No running
session persists anything, so a HIL client or server that ended is started
again from its initial state.

What correct means, part by part:

- **HIL session.** The action that drives the robot at a tick was computed by
  the encoder and by the decoder from this client's observation of this tick.
  A disturbed exchange ends the run; it never shifts the answers by one.
  No client waits for ever. A server that returns 0 has delivered what it computed.
- **Render worker.** The window shows whole states in order, the control loop
  never depends on the GUI, the thread's error surfaces.
- **Channel.** Handlers see samples in order, each once; an accepted sample is
  handled; once Close has set the event the handler is called at most once more.
- **RPC.** A call returns the answer to its own request, its result tells the
  truth about the handler, a call with a timeout returns.
- **Service clients.** What was acknowledged stays in force until somebody
  changes it; a code that is passed on never claims more, or less, than what the robot did.
- **Lease.** A prompt client keeps its lease, only its own requests are admitted under
  it, meanwhile no handler starts that another living client got admitted with a lease of
  its own, and the lease is never lost to everybody.
- **Bridge.** Motors are never driven back to a replaced command, and an
  accepted command takes effect.
- **Simulator program.** No frame is overlooked; however it ends, it leaves
  neither a process nor shared memory, and it does end.
- **Calibration.** Samples do not mix episodes; what is on disk is whole or can
  be told from what is; exit code 0 stands for a complete measurement.
- **Robot model.** A group means the same joints wherever it is resolved,
  conversions are inverse, a view shows the pose of the model it drives.

`PROJECT.json` lists the hazards behind these at their lines.

## Modules

| Module | Models | State and actions in the code |
|---|---|---|
| `HilControl` [63] | the contract: a closed control loop | abstract: one owner; observe, act, finish or fail |
| `HilSession` [595] | both mains and the TCP stream between them | `cpc` and `spc` are the places in the two `main`s; `outbuf` and `inbuf` are what `sendall` and `recv_full` hold; `up` and `down` are the kernels' buffers; one action per statement that can block, fail or be observed |
| `HilSessionInv` [137] | the inductive invariant of `HilSession` | |
| `HilSession_proofs` [3031] | its theorems | |
| `LatestValue` [25] | what a mailbox promises to its reader | abstract: values may be missed, none is found early or after a newer one |
| `RenderWorker` [297] | both threads and `LatestState` | `control` and `worker` are the places of the threads; an array is two halves with the tick that wrote each |
| `RenderWorker_proofs` [502] | its theorems | |
| `BQueue` [36] | the queue class as a value | the deque and the count beside it, as two fields |
| `LossyTopic` [29] | what a channel promises to its users | abstract: any sample may be missing, none comes twice or early |
| `Channel` [270] | a subscription with its DDS listener, queue, thread, Close and Init | `held` is what `OnDataAvailable` has taken and not yet put; `thread` is the place in `__ChannelReaderThreadFunc` and in `BQueue.Get`; `app` in `Close`; `late` counts calls of the handler after the event is set |
| `Channel_proofs` [468] | its theorems | |
| `Rpc` [377] | client base, stubs, futures, server queues | `pc` is the place in `_CallBase`; `table` is `__futureQueue`; `queues` and `worker` are the two queues and threads of `ServerStub` |
| `Rpc_proofs` [2437] | its theorems | |
| `RobotServices` [350] | thirteen service clients | a method is a record of the way it calls, its api and its argument; `Registered` is what `Init` registers; `calls` is what callers were told, which is nothing where a wrapper drops the code |
| `RobotServices_proofs` [1761] | its theorems | |
| `SimBridge` [236] | bridge construction, command threads, simulation loop | `boot` counts the statements of `__init__`; `done` counts the reads of `compute_body_torques` and `compute_hand_torques` |
| `Simulator` [361] | `run_sim_loop.py` from its options to its end, with the publishing process | `pc` is the place in `main`, `sim_step`, `update_shared_memory`, `close` and `stop`; `level` is which of the three calls of `close` it is in; `child` is the place in the worker process |
| `Simulator_proofs` [2645] | the theorems of `SimBridge`, `Simulator` and `RobotModel` | |
| `Lease` [295] | lease server, client thread, check of guarded requests | `lease` is `__cache` (id and age), `ctx` is the client's `__context.id`; `ask` is a guarded request, before its check or between check and handler |
| `Lease_proofs` [1087] | its theorems | |
| `Calibration` [314] | collector, dataset, conversion, benchmark, and their files | a file is the number of the program run that wrote it, or torn; a history entry is the set of physics epochs it is from |
| `Calibration_proofs` [918] | its theorems | |
| `G1Info` [82] | the tables of the G1 | joints, limits, default poses, groups |
| `RobotModel` [247] | degrees of freedom, groups, views, conversions, cached kinematics | a configuration is an array of integers; `placed` and `placedView` are what Pinocchio's data were last computed from |
| `MCHilSession`, `MCRpc`, `MCSimBridge`, `MCLease`, `MCSimulator`, `MCRobotModel`, `MCRobotServices` | instances for TLC | |

How they fit: `Channel` uses `BQueue` and implements `LossyTopic`. `Rpc` uses
`BQueue` for the server's queues, and for its two topics only what
`LossyTopic` grants: per writer a subsequence of what was written. `SimBridge`
has three queues of `BQueue`, each with the thread of `Channel` in the steps
that matter there. `Lease` and `RobotServices` use what `Rpc` shows of a call:
requests of a client are handled in order or lost, and a late answer reaches
nobody. `HilSession` implements `HilControl`, and the mailbox of `RenderWorker`
`LatestValue`. `RobotModel` extends `G1Info`.

Abstractions worth knowing:

- `HilSession`: a packet is a header part and a body part. A float vector
  is the (client, tick) it came from, so a mixture of two ticks is visible.
  `finite` is the outcome of `np.isfinite`. A close with unread input lets any
  prefix of the undelivered data survive, as a reset does. A process that
  crashes closes its sockets; a host that is lost (`silent`) closes nothing.
  Argument parsing, statistics and the optional ONNX comparison change no
  session state.
- `Rpc`: request ids are clock readings in nanoseconds and are taken to be
  distinct; the mutant of `OwnAnswer` shows what happens if they are not.
  `Remove` does nothing, because the code tests the builtin `id` and not its
  argument.
- `RobotServices`: the argument of a method stands for the whole parameter.
  What an api changes in the robot (`Changes`, `Reads`) is the robot's side and
  follows the names of the methods.
- `Lease`: age instead of a time stamp. The server's clock reading is taken with
  the lock. A wall clock that is set back is not modelled. The pause after a failed
  application is the same `RenewWait` as after a renewal: this holds for the default term.
- `SimBridge`: physics, rendering and published state are data without
  control. `GetAction` has no caller in the repository.
- `Simulator`: an image is a few parts that are copied one at a time; its value
  is the frame it was rendered from. The options that change control are a
  record. A signal ends the child at once or after a while, SIGTERM perhaps never.
- `Calibration`: a write truncates a file and then fills it. What the RKNN
  toolkit and runtime compute is left out; each of their calls may fail.
- `RobotModel`: angles are integers in microradians; what Pinocchio computes
  from a configuration is the configuration.

## Runs and what they show

| Run | States | Question | Properties |
|---|---|---|---|
| `hil_budget` | 77 k | three clients compete for a server with `max_steps` 2 under every fault | `Framing`, `CleanExit` |
| `hil_unlimited` | 31 k | two clients, no budget, every fault, the sequence counter overflows at tick 4; only the host is fair | `ActionFromOwnObservation`, `LockStep`, `HistoryWindow`, `IInv`, `Contract`, `ClientsEnd`, `ServerEnds`, `RunCompletes` |
| `render` | 2 k | both threads, the GUI raises or hangs, the loop raises | `Inv`, `ShownWhole`, `ImplementsMailbox`, `ControlEnds` |
| `channel` | 10 k | publisher, listener, reader and Close interleaved over several subscriptions | `QueueCount`, `Pipeline`, `LastCall`, `ImplementsTopic`, `AcceptedIsHandled`, `CloseReturns` |
| `rpc` | 51 k | two clients, two calls each way or of either class, queues of one, no fault or every fault | `Inv`, `OwnAnswer`, `TruthfulResult`, `ExecutionOrder`, `CallReturns`, `Answered` |
| `robot_services` | 2.5 M | two clients of each of thirteen services, every method, losses, late replies, refusals, timeouts | `AckedWins`, `Inv` |
| `lease` | 1.9 M | two clients renew and crash; the network is prompt, or bad until it recovers | `Inv`, `Exclusive`, `LeaseIsHeld` |
| `sim_bridge` | 66 k | three command streams, the constructor, the simulation thread | `BridgeInv`, `AcceptedDrives` |
| `simulator` | 871 k | nine configurations, a publisher that may be stuck or die, three Ctrl-C | `Inv`, `CleanEnd`, `CloseEnds` |
| `calibration` | 19 M | five program runs in any order, each broken off anywhere | `Inv`, `DatasetWhole` |
| `robot_model` | 21 k | three waists, both elbow poses, a fixed and a floating base, every group fixed or active, inside and outside the limits | `ModelInv`, `PlacementsAgree` |
| `sim_command_lost` | | see [findings](#findings) | `CommandApplied`, violated |

`Inv` is a module's type invariant together with the properties that are cheap
to state beside it: `JoinedErrorReported` (`RenderWorker`), `LeftInTable`
(`Rpc`), `TruthfulCode` (`RobotServices`), `KeepsLease` (`Lease`),
`ReadsForward` (`BridgeInv` of `SimBridge`), `NoFrameMissed` (`Simulator`), `EpisodesApart`,
`CollectionWhole` and `MeasuredInFull` (`Calibration`), `GroupsAgree` and
`ConversionsInvert` (`ModelInv` of `RobotModel`). `TypeOK` of `HilSession` is a part of `IInv`;
that of `Channel` is proved.

The properties in words stand above their definitions. Those that read
less simply than their names:

- `LockStep` is the reason the client may compare sequence numbers at all:
  a client that takes its next observation has nothing of an earlier exchange
  under way in either direction. It holds because every timeout ends the client;
  the mutant that retries after a timeout breaks it.
- `CleanExit`: the server closes right after its last write, while the client
  may already have sent its next request. The last response is not destroyed,
  because the client sends only after it has received the whole of it.
- `ClientsEnd` and `ControlEnds` assume nothing of the board or of the GUI.
- `LastCall`: a thread that tested the event just before it was set handles one sample
  more, from a queue that still holds several or from one into which a callback puts
  late. It handles no second one, and none after Close has returned. The mutant, which
  drains the queue first, handles all of them.
- `CloseReturns` excludes a reader thread that stands between its test of the
  event and its wait. There Close can hang for ever: it sets the
  event, interrupts nobody, and then joins.
- `Answered` excuses a run whose requests do not fit their queues, because
  the server's `Put` throws the oldest request away.
- `ReadsForward` allows a step to mix two commands (the code reads them without
  the lock) and forbids only going back.
- `Exclusive` is about the start of a handler, not about its check. The server checks the
  lease under its lock and calls the handler after it released it, so a handler may start while
  another client holds an unexpired lease; the run reaches such states. `Exclusive` says when:
  the handler was not admitted under that lease, and in a prompt network it was admitted
  with no lease held, or its client crashed after the check. The check that finds a lease expired
  takes it back and lets that one request through, whatever id it carries: it counts as
  admitted with no lease held.
- `AckedWins` rests on every api being registered with priority 0: its mutant
  gives StopMove the priority queue, and an acknowledged stop is then followed
  by the moves it overtook. `TruthfulCode` names the exceptions it allows: two
  apis of the Go2 that no `Init` registers, and FreeWalk, which sends True. It speaks of
  callers that are told a code. The wrappers of the G1 and H1 locomotion clients return
  nothing, so for them the model records nothing; of ServiceSwitch it keeps the status the
  robot sent and the code the client makes of it.
- `NoFrameMissed` allows a message to mix frames. It holds because the
  publisher clears the event before it copies; clearing it afterwards, the
  mutant, overlooks a frame.
- `CleanEnd` holds for up to two Ctrl-C, because `close` runs three times and
  the last is `__del__`. A third interrupt can leave a publisher and its memory
  behind, and so can one within the publisher's constructor.
- `CollectionWhole` and `DatasetWhole` say what a reader can rely on after a
  break: metadata that is not newer than its arrays, samples that are not older
  than their manifest. A manifest that is cut lists fewer samples, and the toolkit reads
  only what it lists. They do not say that a broken dataset is recognised:
  nothing in the code does.
- `EpisodesApart` excuses physics that became non-finite: the code then
  re-starts the physics but neither history nor last action.
- `GroupsAgree` exempts `from_fixed_groups` on a floating base, which counts
  the base's seven coordinates in one index and not in the other.
- `PlacementsAgree` exempts fixed values other than `q0` and poses beyond the
  limits: a view is cached unclipped, with its fixed joints at `q0`.

Where the code really does what a hazard warns of, no property can exclude it, and the note at the hazard in
`PROJECT.json` says what the model shows instead: the wait that begins after Close's interrupt
(`channel.py:112`), the order between the server's two queues (`server_stub.py:61`), futures
of calls that timed out (`request_future.py:45`), the mixed command and the command that survives
a fall (`base_sim.py:262` and `:527`), `from_fixed_groups` on a floating base
(`robot_model.py:646`). For five more the property covers a part: the change of holder between check and handler
(`server.py:101`), history after non-finite physics and pairs of arrays from two
collections (`collect_onnx_mujoco_calibration.py:87` and `:151`), an old or a cut manifest
over new samples (`rknn_pipeline.py:109`), and views whose fixed joints are not at `q0` (`robot_model.py:789`).

Every property of a passing run has a mutant of the code ("mutants", most defined
beside the original as `Mut_...`) under which TLC finds the property violated.

## Bounds

Every bound is a constant of its module.

- `hil_*`: `Steps` 3 or 4 with `History` 2, so the window is padded, filled and
  shifted. `MaxSteps` 2 is less than `Steps` (the server stops first), 0 is no
  limit. `MaxSequence` 3 stands for 2^32 - 1 and is reached; 9 is not. `SocketBuffer`
  1 blocks a writer within a packet, 2 holds a packet; there is at most one packet
  per direction, so more makes no difference. `Backlog` 1 with three clients and 0
  with two fill the accept queue (Linux takes one more than the argument).
  Clients are symmetric in `hil_budget`, which checks no liveness. The theorems
  remove these bounds for every safety property.
- `render`: four ticks; the worker can be behind by all of them.
- `channel`: `QueueLen` 2 and five samples: the queue fills, refuses, empties and
  is cleared, and a second subscription meets samples of before.
- `rpc`: two calls cover two clients with one each and one client with two
  in either order of class; queues of one overflow at the second.
- `robot_services`: a property relates two calls, of one client or of two;
  `MaxCalls` 2 has both. Clients are symmetric.
- `sim_bridge`: two fields per motor is the least that can be torn; one motor
  per stream, two body commands and one of each hand, since the streams share nothing
  but the constructor and the simulation step. A queue of one is the code's.
- `simulator`: two cameras (blocks come and go one at a time) with two parts to
  an image (a copy can be overtaken within an image and between two), three
  frames, three interrupts: one more than `CleanEnd` bears. The configurations
  take every branch: images or not, window or not, each way the constructor and
  the step can raise, a timer of zero, a timer that skips steps.
- `calibration`: collections of one or three samples and synthetic datasets of
  two, so that a dataset shrinks and grows; an episode of two ends within a
  collection of three; a history of two spans episodes; five program runs reach
  collect, make, convert, a broken second make, and a benchmark or another conversion.
- `lease`: `Term` 3 ticks, `RenewWait` 1, `CallTimeout` 2, `MaxDelay` 1. A renewal
  that is lost, late or answered late crosses the expiry. `MaxId` 6 is the number of
  ids known to somebody at one time: ids nobody knows are reused, which keeps the state space finite and
  is sound because the code only compares ids. `MaxLate` is how many requests of one client are on their way.
- `robot_model`: the real tables; one level below every joint's limit and one
  that most joints reach.

## Fairness

- `HostSpec` (`HilSession`): weak fairness of each client's steps. The operating system
  schedules the process, every socket call has a timeout, so a step is always
  enabled until it has ended. Nothing is assumed of the server; `ServerEnds` and
  `RunCompletes` assume weak fairness of its steps in their own formulas
  (`WF_vars(ServerStep) => ...`). Crashes, lost hosts and NPU failures are never fair.
- `HangSpec` (`RenderWorker`): weak fairness of the control thread and of the worker's own
  steps, none of the GUI's. Strong fairness of `Swap`, which waits for the
  mailbox lock: the worker sleeps for a frame period between two copies with the lock free.
- `Channel`: both steps of the listener, reader thread and a Close that was entered go on; nobody
  has to publish, close or subscribe.
- `Rpc`: the callers' threads and their timeouts. The service's threads and the topics
  are fair in the runs without faults only.
- `SimBridge`: constructor, readers and simulation thread; nobody has to publish or close.
- `Simulator`: the main process, and that a process that got SIGKILL dies. Nothing
  is assumed of the publisher: it may be stuck for ever.
- `Lease`: the lease threads, the server and time. A bad network may stay bad.
- `Calibration`, `RobotModel`, `RobotServices`: no liveness is claimed. The
  programs are started by hand, and the ends of calls are those of `Rpc`.

## Theorems

Proved by TLAPS for every value of the constants that satisfies the named
assumptions of the module.

**`HilSession_proofs`**, from `ClientsAssumption`, `StepsAssumption`,
`SizesAssumption` and `FaultsAssumption`: any number of clients, ticks, history
frames, any buffers, backlog and faults.

| Theorem | Statement |
|---|---|
| `InductiveInvariant` | `Spec => []IInv` |
| `TypeCorrect` | `Spec => []TypeOK` |
| `OwnObservation` | `Spec => []ActionFromOwnObservation` |
| `Alternation` | `Spec => []LockStep` |
| `FramingKept` | `Spec => []Framing` |
| `HistoryKept` | `Spec => []HistoryWindow` |
| `LoopImplemented` | `Spec => Contract` |
| `ExitIsClean` | `Spec => []CleanExit` |

None of the properties is inductive. That the client applies its own action
follows from the response it holds, this from the vectors the server computed
with, these from the request on its way, and that from the client's place in
`main`. `IInv` says all of it at once: for the client's place which parts it
still has to send and has received (`ClientShape`), and for the server's place
where the parts of the exchange are: not read yet by anyone (`UnservedShape`), waiting between
two exchanges (`IdleShape`), header read (`BodyShape`), computing
(`BusyShape`), writing (`WriteShape`). `ActionInv` and `CauseInv` carry what is
left of a finished exchange, `ServerInv` ties the server's header, request and
decoder input together. A shape takes the values of one client as parameters,
so a step of one client leaves the shapes of all others alone (`OtherClient`, `ServerFrame`): each action is
one lemma about the client it touches, and `NextInv` puts them together. TLC checks `IInv` in
`hil_unlimited`.

The other theorems build on it. `HistoryKept` adds only the window itself: the
frame that is pushed carries the action that `ActionInv` describes. For the
refinement, `FromOwner` says that only the accepted client ever gets
a part, so who acts is the owner; every step then maps to one of the contract or
to a stutter. For `CleanExit` a count is needed: `BalanceOf` says that the answers written
are the actions applied plus the one complete answer under way, `LeftOf` and
`WaysOf` say what a client that has left can have left behind. The close after
the last write destroys data only if a request is on its way, and `ClientShape`
says that then no answer is.

**`RenderWorker_proofs`**, from `TicksAssumption` and `FaultsAssumption`.

| Theorem | Statement |
|---|---|
| `ErrorReported` | `Spec => []Inv` |
| `WholeRobot` | `Spec => []ShownWhole` |
| `MailboxIsLatest` | `Spec => ImplementsMailbox` |

The invariant orders the ticks along the path of a state: shown, snapshot,
stored, simulator's array; and says where an array can be torn: the simulator's
within a step, the snapshot within its copy, nothing else.
For the refinement, `StoredNewest` adds that the mailbox holds the tick before the one under way until
`Swap`: so `Swap` is the publishing of the next value, `Draw` is a look, all else a stutter.

**`Channel_proofs`**, from `QueueLenAssumption` and `MaxSentAssumption`.

| Theorem | Statement |
|---|---|
| `ChannelTypes` | `Spec => []TypeOK` |
| `CountIsLength` | `Spec => []QueueCount` |
| `PipelineOrder` | `Spec => []Pipeline` |
| `ReaderImplementsTopic` | `Spec => ImplementsTopic` |
| `HandlerCalledOnceMore` | `Spec => []LastCall` |

`TypeOK /\ QueueCount /\ Pipeline` is inductive together with `LateCaller`: before the event is set no
call counts, and a thread whose call has counted is on its way to the test, not to the queue.
The refinement follows since a step that
calls the handler takes the head of a queue that `Pipeline` orders after everything handled, and is at most `sent`.

**`Rpc_proofs`**, from `SizesAssumption`: any number of clients, apis and calls,
any sizes of the two queues, any faults.

| Theorem | Statement |
|---|---|
| `WellFormed` | `Spec => []Inv` |
| `AnswersAreOwn` | `Spec => []OwnAnswer` |
| `ResultsAreTrue` | `Spec => []TruthfulResult` |
| `InOrder` | `Spec => []ExecutionOrder` |

The invariant has two halves. `Pipe` and `Newest` order the requests of a client and a
queue along their path: executed, then queued, then on the wire, then the
call under way. Hence a request that was refused or not written is nowhere on that path any more
and cannot come back (`Gone`), and that is kept by every step. `Books` says of each place an answer
can be in (thread of the server, wire, hands of the reader, future) that it
carries its own call's id and that its code is true in this sense, and of each
future in a table that it has no answer yet.

**`Simulator_proofs`** is about three modules. `SimBridge` and `RobotModel` have prefixed names
(`BridgeSpec`, `ModelInv`) so that all can be extended. From `ReadsAssumption` and
`QueueAssumption`, any number of motors and fields in the order of the code, any queue,
any commands; from `SimulatorAssumption`, any configurations of the
options, cameras, parts of an image, steps and interrupts; from `ModelAssumption`, any
combinations of base, waist and elbow pose, and configurations at any levels:

| Theorem | Statement |
|---|---|
| `MotorsForward` | `BridgeSpec => []BridgeInv` |
| `FramesNoticed` | `Spec => []Inv` |
| `EndsClean` | `Spec => []CleanEnd` |
| `ModelConsistent` | `ModelSpec => []ModelInv` |
| `PosesAgree` | `ModelSpec => []PlacementsAgree` |

`MotorsForward`: the commands of a stream are ordered along their path (in force, in the
handler's hands, queued, published), and a read sees the one in force.

`FramesNoticed`: `FreshInv` follows one message through the publisher. While the event is
clear and no copy is under way, the units copied out so far equal those in shared memory,
in the message under construction and then in the one offered. An arriving frame breaks
this and sets the event, which excuses it until the publisher clears the event, before it copies.

`EndsClean`: `BlockInv` counts. While a publisher lives or its memory exists, either the program is
still working, or the close under way is the first, or an interrupt was spent for each
earlier close that left something; the third spends two.

`ModelConsistent`: the tables are constants, so `Members` writes down what every group should
consist of, and `DescendFacts` and `ResolvedFacts` show that both algorithms find it, group by
group in the order of the dictionary (every subgroup comes before, `SubgroupsBefore`). That
conversions are inverse rests on `GoodView`: the map of a view and its fixed joints list every
degree of freedom exactly once, whatever the order of the fixed joints (`MapFacts`, by counting, on `SortedFacts`).
`PosesAgree`: with the fixed joints at zero, what `buildReducedModel` locks and what
`reduced_to_full_configuration` fills in are the same array (`LockedFacts`), and clipping
moves a joint within its limits by the margin at most (`ClipFacts`). `ModelInductive` adds
that nothing is built or cached in between that would separate the view from the model it drives.

**`Lease_proofs`**, from `TimesAssumption`: any number of clients, any times with
`RenewWait + 2 * MaxDelay <= Term` and `MaxDelay < CallTimeout`.

| Theorem | Statement |
|---|---|
| `LeaseKept` | `Spec => []Inv` |
| `ExclusiveStart` | `Spec => Exclusive` |

No two clients know the same id (`Apart`), wherever an id is: believed, in a
request, in an answer, in a guarded request. On a prompt network (`OnTime`) the age of the
lease is bounded by how long ago its holder was last answered. Two delays are needed
in the assumption, that of the answer before the sleep and that of the next
request; with one, the induction fails and a lease can expire. For the handlers that start late,
`StillOwn` says that in a prompt network a client that lives still believes in the lease
its guarded request was made or admitted with, from `Ask` to `StartHandler`: by `Inv` it then holds it, so nobody else does.

**`RobotServices_proofs`**, from `ServicesAssumption` and `BoundAssumption`: any of the
thirteen services, any number of clients and calls.

| Theorem | Statement |
|---|---|
| `AckedStays` | `Spec => []AckedWins` |
| `CodesTrue` | `Spec => []Inv` |

`WayInv` says that the priority queue is never used and that a client's requests
are handled in the order of its calls: what was handled is before what is queued, which is before what is
on its way. So when a call is handled no later one of the client was, and `AnswerInv` can
say of every answered call what the robot did for it and what its setting has become
since. `CallInv` ties what the caller was told to that answer, through `Result`: what `SwitchCode`
and the wrappers make of it. The tables of the services enter
only where they must: which apis are registered, and that a client reads and changes what its methods name.

**`Calibration_proofs`**, from `CalibrationAssumption`: any counts of samples, any lengths of
episode and history, any number of program runs, each broken off anywhere.

| Theorem | Statement |
|---|---|
| `CollectionKept` | `Spec => []Inv` |
| `ModelsFromOneMake` | `Spec => []DatasetWhole` |

`EpochInv`: until physics was blown up, history and last action are of this episode.
`FileInv` says for each place in `save` which files are torn and which are the run's own.
`DataInv` does so for the samples that `make` has overwritten so far, for
the manifest of every model however much of it is written, and for the samples a conversion has read. TLC checked
this invariant, and those of `Simulator`, `RobotModel` and `RobotServices`, before they were proved.

Every safety property of a passing run has a theorem. Only model-checked: liveness
(`ClientsEnd`, `ServerEnds`, `RunCompletes`, `ControlEnds`, `AcceptedIsHandled`, `CloseReturns`,
`CallReturns`, `Answered`, `AcceptedDrives`, `CloseEnds`, `LeaseIsHeld`), which needs `ENABLED`
and fairness and is out of the prover's reach.

## Findings

`sim_command_lost`. The bridge subscribes (`unitree_sdk2py_bridge.py`, lines 90,
94, 97) before it creates the locks of the handlers (99 to 101). A command
delivered in between raises `AttributeError` in the reader thread, which ends:
every later command of that stream is queued or dropped, and the default
command stays in force. `official_sim/README.md:11` says that the simulator
applies the command.

Noticed while modelling, with no run of their own, because one test shows each,
or nothing in the repository says what is meant. The models do what the code does.

- HIL and rendering: an error that the viewer raises after `stop()` gave up its 2 s join is never
  reported; `publish()` waits for the lock while `latest()` copies, one copy
  long; `STATUS_BAD_PACKET` (`hil_protocol.py:18`) is never sent.
- SDK: a second `Close` of a subscriber raises; a full queue drops the newest sample;
  `_RegistBinaryHandler` calls `add` on a dict; the check of an expired lease
  lets that request through; `FreeWalk(False)` sends True; GetFootRaiseHeight and
  GetSpeedLevel are not registered; the index of `TtsMaker` stays 0; `SetReportFreq`
  passes a dict and raises; `b2/robot_state` cannot be imported.
- Simulator: `with a and b and c` in `GetAction` takes one lock of three; `reset()` at the
  end of the bridge's constructor clears the received flag of a command that has
  arrived; without elastic band `sim_step` raises; a constrained base raises; below 50 Hz the timers divide by zero;
  `prepare_obs` assumes a floating base; Ctrl-C in the publisher's constructor
  leaves its blocks; the configured `MP_START_METHOD` overrides the argument (`base_sim.py:81`).
- Robot model: `from_fixed_groups` on a floating base fixes other joints; a view
  caches itself unclipped and with its fixed joints at `q0`.
- Tools: `validate_rknn.py:84` and `:89` use an attribute `.path` that the object lacks; the
  collector's reset of an episode leaves `reference_frame`, and its reset after
  non-finite physics leaves the history.

## Not modelled

- Floating-point arithmetic: observations, torques, quaternions, resampling,
  the numerical comparison in `validate_rknn.py`. The models say which data a
  computation uses, not what it yields.
- The RKNN toolkit and runtime, the MuJoCo engine and viewer, Pinocchio, the DDS library, ZMQ and the TCP
  stack: modelled as far as the code depends on them ("external" in the map).
- `motion_reference.py`: pure functions; one joint permutation is the argsort of
  the other and the future window is one clip of its indices, so what could be
  checked holds by construction.
- `validate_rknn.py`, metrics and helpers of the simulator: sequential, without state.
- SDK utilities (recurrent threads, checksums, gamepad): neither the deployment
  nor the simulator uses their state. Generated messages. The launch script.
- Parts of modelled components: subscriptions without handler or without queue; domain and participant
  creation; registration of handlers after the first call; physics, rewards and published state of the simulator;
  argument parsing, statistics and printing everywhere.

## Plan

Done, in this order: the HIL session with its contract and proofs; render
worker; queue, channel, RPC, lease, bridge; the simulator program with its
publisher; calibration, conversion and benchmark; robot model; service clients;
proofs of everything the runs check for
safety.

Left:

1. A composition of `Rpc` and `Lease`, so that the order of requests, the
   lateness of answers and the id are those of one model.
2. The controller's side of the DDS topics, if its source comes into the repository.
