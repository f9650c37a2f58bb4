------------------------------ MODULE Channel -------------------------------
(***************************************************************************)
(* A subscribed topic of unitree_sdk2py/core/channel.py with a handler and *)
(* a queue, the way the simulator bridge and both RPC stubs use it. Four   *)
(* parties share the reader: the publisher, the DDS thread that calls      *)
(* OnDataAvailable, the "ch_reader" thread that takes from the queue and   *)
(* calls the handler, and the application thread that calls Init and Close.*)
(*                                                                         *)
(* A sample is its number in the order of publication; what it carries     *)
(* does not matter here. The topic is subscribed with the default QoS:     *)
(* best effort, and a cache of one sample that a later one overwrites.     *)
(***************************************************************************)
EXTENDS BQueue

CONSTANTS
    QueueLen,   \* the queueLen given to Init
    MaxSent     \* bound: samples published in a run

ASSUME QueueLenAssumption == QueueLen \in Nat \ {0}
ASSUME MaxSentAssumption == MaxSent \in Nat

VARIABLES
    sent,       \* how many samples were published
    cache,      \* the sample in the DataReader that was not taken yet, or 0
    held,       \* the sample OnDataAvailable has taken and not yet put, or 0
    queue,      \* __queue
    event,      \* __threadEvent is set
    thread,     \* where __ChannelReaderThreadFunc is
    app,        \* where the application's Init and Close are
    handled,    \* the samples the handler was called with, oldest first
    late        \* history: calls of the handler since the event was set

vars == <<sent, cache, held, queue, event, thread, app, handled, late>>

ThreadPlace == {"test", "get", "waiting", "woken", "handler", "ended", "dead"}
AppPlace == {"open", "deleted", "set", "interrupted", "cleared", "closed"}

Topic == INSTANCE LossyTopic

Init ==
    /\ sent = 0
    /\ cache = 0
    /\ held = 0
    /\ queue = NewQueue
    /\ event = FALSE
    /\ thread = "test"
    /\ app = "open"
    /\ handled = << >>
    /\ late = 0

-----------------------------------------------------------------------------
(* The publisher and the network.                                          *)

(* A sample is lost when nobody is subscribed or on the way.               *)
Write ==
    /\ sent < MaxSent
    /\ sent' = sent + 1
    /\ \/ app = "open" /\ cache' = sent + 1
       \/ UNCHANGED cache
    /\ UNCHANGED <<held, queue, event, thread, app, handled, late>>

-----------------------------------------------------------------------------
(* The DDS thread, which calls OnDataAvailable for one sample at a time.   *)

(* read(1) for take(1): the sample stays in the reader.                    *)
Mut_ReadForTake ==
    /\ app = "open"
    /\ cache # 0 /\ held = 0
    /\ held' = cache
    /\ UNCHANGED <<sent, cache, queue, event, thread, app, handled, late>>

(* An error or an invalid sample ends the callback, and nothing is put.    *)
TakeSample ==
    /\ app = "open"
    /\ cache # 0 /\ held = 0
    /\ held' \in {cache, 0}
    /\ cache' = 0
    /\ UNCHANGED <<sent, queue, event, thread, app, handled, late>>

(* Put appends without notifying.                                          *)
Mut_PutWithoutNotify ==
    /\ held # 0
    /\ queue' = Put(queue, held, FALSE, QueueLen)
    /\ held' = 0
    /\ UNCHANGED <<sent, cache, thread, event, app, handled, late>>

(* Put without replace: a sample that meets a full queue is dropped. Close *)
(* only drops its reference to the reader, and nothing in it waits for the *)
(* callback: the Put may come at any point of Close, or after it.          *)
PutSample ==
    /\ held # 0
    /\ queue' = Put(queue, held, FALSE, QueueLen)
    /\ thread' = IF thread = "waiting" /\ Accepts(queue, FALSE, QueueLen)
                 THEN "woken" ELSE thread
    /\ held' = 0
    /\ UNCHANGED <<sent, cache, event, app, handled, late>>

OnDataAvailable == TakeSample \/ PutSample

-----------------------------------------------------------------------------
(* The reader thread.                                                      *)

(* The thread drains the queue before it ends.                             *)
Mut_DrainFirst ==
    /\ thread = "test"
    /\ thread' = IF event /\ Empty(queue) THEN "ended" ELSE "get"
    /\ UNCHANGED <<sent, cache, held, queue, event, app, handled, late>>

TestEvent ==
    /\ thread = "test"
    /\ thread' = IF event THEN "ended" ELSE "get"
    /\ UNCHANGED <<sent, cache, held, queue, event, app, handled, late>>

CallHandler ==
    /\ handled' = Append(handled, queue.items[1])
    /\ queue' = Popped(queue)
    /\ late' = IF event THEN late + 1 ELSE late
    /\ thread' = "handler"

Get ==
    /\ thread = "get"
    /\ \/ Empty(queue) /\ thread' = "waiting" /\ UNCHANGED <<queue, handled, late>>
       \/ ~Empty(queue) /\ CallHandler
    /\ UNCHANGED <<sent, cache, held, event, app>>

(* The wait of Get is not a loop: woken over an empty queue it returns     *)
(* None, and the thread goes back to its test.                             *)
Resume ==
    /\ thread = "woken"
    /\ \/ Empty(queue) /\ thread' = "test" /\ UNCHANGED <<queue, handled, late>>
       \/ ~Empty(queue) /\ CallHandler
    /\ UNCHANGED <<sent, cache, held, event, app>>

HandlerReturns ==
    /\ thread = "handler"
    /\ thread' = "test"
    /\ UNCHANGED <<sent, cache, held, queue, event, app, handled, late>>

(* Nothing catches what a handler raises: the thread is gone.              *)
HandlerRaises ==
    /\ thread = "handler"
    /\ thread' = "dead"
    /\ UNCHANGED <<sent, cache, held, queue, event, app, handled, late>>

-----------------------------------------------------------------------------
(* The application: Close step by step, and Init of a closed subscriber.   *)

DeleteReader ==
    /\ app = "open"
    /\ app' = "deleted"
    /\ cache' = 0
    /\ UNCHANGED <<sent, held, queue, event, thread, handled, late>>

SetEvent ==
    /\ app = "deleted"
    /\ app' = "set"
    /\ event' = TRUE
    /\ UNCHANGED <<sent, cache, held, queue, thread, handled, late>>

(* Close sets the event and leaves the waiting thread alone.               *)
Mut_NoInterrupt ==
    /\ app = "set"
    /\ app' = "interrupted"
    /\ UNCHANGED <<sent, cache, held, queue, event, thread, handled, late>>

(* Interrupt notifies every waiter when it is asked not to notify all; the *)
(* thread is the only one there is.                                        *)
Interrupt ==
    /\ app = "set"
    /\ app' = "interrupted"
    /\ thread' = IF thread = "waiting" THEN "woken" ELSE thread
    /\ UNCHANGED <<sent, cache, held, queue, event, handled, late>>

ClearQueue ==
    /\ app = "interrupted"
    /\ app' = "cleared"
    /\ queue' = Clear(queue)
    /\ UNCHANGED <<sent, cache, held, event, thread, handled, late>>

Join ==
    /\ app = "cleared"
    /\ thread \in {"ended", "dead"}
    /\ app' = "closed"
    /\ UNCHANGED <<sent, cache, held, queue, event, thread, handled, late>>

Subscribe ==
    /\ app = "closed"
    /\ app' = "open"
    /\ queue' = NewQueue
    /\ event' = FALSE
    /\ thread' = "test"
    /\ cache' = 0
    /\ late' = 0
    /\ UNCHANGED <<sent, held, handled>>

-----------------------------------------------------------------------------
ReaderThread == TestEvent \/ Get \/ Resume \/ HandlerReturns \/ HandlerRaises
Close == DeleteReader \/ SetEvent \/ Interrupt \/ ClearQueue \/ Join

Next == Write \/ OnDataAvailable \/ ReaderThread \/ Close \/ Subscribe

(* The operating system schedules every thread, the DDS library calls the  *)
(* listener for every sample that arrived, and a Close that was entered is *)
(* carried on. Handlers return or raise. Nothing is said of when the       *)
(* application closes or subscribes.                                       *)
Fairness ==
    /\ WF_vars(TakeSample)
    /\ WF_vars(PutSample)
    /\ WF_vars(ReaderThread)
    /\ WF_vars(SetEvent \/ Interrupt \/ ClearQueue \/ Join)

Spec == Init /\ [][Next]_vars
FairSpec == Spec /\ Fairness

-----------------------------------------------------------------------------
TypeOK ==
    /\ sent \in 0 .. MaxSent
    /\ cache \in 0 .. MaxSent
    /\ held \in 0 .. MaxSent
    /\ queue \in [items : Seq(1 .. MaxSent), curLen : Nat]
    /\ event \in BOOLEAN
    /\ thread \in ThreadPlace
    /\ app \in AppPlace
    /\ handled \in Seq(1 .. MaxSent)
    /\ late \in Nat

(* The counter that decides whether the queue is full is the number of     *)
(* samples in it, through refused samples, waits that end with nothing and *)
(* the Clear that races with a Get.                                        *)
QueueCount == queue.curLen = Len(queue.items) /\ queue.curLen <= QueueLen

(* The newest sample anybody has touched decreases from the publisher to   *)
(* the handler: the cache is newer than the sample the DDS thread holds,   *)
(* that is newer than the queue, the queue is in order and newer than what *)
(* the handler has had. Nothing is handled twice or out of order, not even *)
(* across a Close and a new Init.                                          *)
Pipeline ==
    /\ Topic!Newest(handled) <= sent
    /\ \A i \in 1 .. Len(queue.items) :
         Topic!Newest(handled) < queue.items[i] /\ queue.items[i] <= sent
    /\ \A i, j \in 1 .. Len(queue.items) : i < j => queue.items[i] < queue.items[j]
    /\ \A n \in {held, cache} : n # 0 =>
         /\ Topic!Newest(handled) < n /\ n <= sent
         /\ \A i \in 1 .. Len(queue.items) : queue.items[i] < n
    /\ cache # 0 => held < cache

(* From the moment Close sets the event the handler is called at most once *)
(* more, whatever waits in the queue or is still put there: not after that *)
(* call has ended, not when the interrupt or a late sample wakes a thread  *)
(* that waits, and not while a Close that found the thread between its     *)
(* test and its wait is stuck in its join.                                 *)
LastCall == late <= 1

(* The reader implements the lossy topic.                                  *)
ImplementsTopic == Topic!Spec

(* A sample the queue has accepted reaches the handler unless the          *)
(* subscription is closed or an earlier call of the handler raised: no     *)
(* notification is lost between Put and Get.                               *)
AcceptedIsHandled ==
    \A n \in 1 .. MaxSent :
        (\E i \in 1 .. Len(queue.items) : queue.items[i] = n)
            ~> (Topic!Newest(handled) >= n \/ app # "open" \/ thread = "dead")

(* Close returns, wherever the reader thread is when the event is set,     *)
(* except between its test of the event and its wait: there the interrupt  *)
(* may come before the wait, and Close may then never return.              *)
CloseReturns == (app = "set" /\ thread # "get") ~> app = "closed"

=============================================================================
