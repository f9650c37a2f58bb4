--------------------------- MODULE Channel_proofs ---------------------------
(* Machine-checked facts about Channel, for every queue length and every   *)
(* number of samples.                                                      *)
EXTENDS Channel, TLAPS

(* Once the event is set a thread that has called the handler will find it *)
(* so; before, no call counts.                                             *)
LateCaller ==
    /\ late <= 1
    /\ ~event => late = 0
    /\ late = 1 => thread \in {"handler", "test", "ended", "dead"}

(* The inductive invariant: the safety properties are inductive together.  *)
Inv == TypeOK /\ QueueCount /\ Pipeline /\ LateCaller

-----------------------------------------------------------------------------
(* What a Put that accepts makes of a sequence.                            *)
LEMMA AppendFacts ==
    ASSUME NEW S, NEW s \in Seq(S), NEW x \in S
    PROVE  /\ Append(s, x) \in Seq(S)
           /\ Len(Append(s, x)) = Len(s) + 1
           /\ Append(s, x)[Len(s) + 1] = x
           /\ \A i \in 1 .. Len(s) : Append(s, x)[i] = s[i]
OBVIOUS

(* What taking the oldest item makes of a queue.                           *)
LEMMA PoppedFacts ==
    ASSUME NEW S, NEW q \in [items : Seq(S), curLen : Nat],
           q.curLen = Len(q.items), ~Empty(q)
    PROVE  /\ Popped(q) \in [items : Seq(S), curLen : Nat]
           /\ Popped(q).curLen = q.curLen - 1
           /\ Len(q.items) \in Nat \ {0}
           /\ Len(Popped(q).items) = Len(q.items) - 1
           /\ \A i \in 1 .. Len(Popped(q).items) : Popped(q).items[i] = q.items[i + 1]
           /\ q.items[1] \in S
<1>1. q.items \in Seq(S) /\ q.items # << >> /\ Len(q.items) \in Nat \ {0}
  BY DEF Empty
<1>2. /\ Tail(q.items) \in Seq(S)
      /\ Len(Tail(q.items)) = Len(q.items) - 1
      /\ \A i \in 1 .. Len(q.items) - 1 : Tail(q.items)[i] = q.items[i + 1]
      /\ q.items[1] \in S
  BY <1>1
<1>3. /\ Popped(q).items = Tail(q.items)
      /\ Popped(q).curLen = q.curLen - 1
      /\ Popped(q) \in [items : Seq(S), curLen : Nat]
  BY <1>1, <1>2 DEF Popped
<1>4. QED
  BY <1>1, <1>2, <1>3

LEMMA NewQueueFacts ==
    ASSUME NEW S
    PROVE  /\ NewQueue \in [items : Seq(S), curLen : Nat]
           /\ NewQueue.curLen = 0 /\ Len(NewQueue.items) = 0
BY DEF NewQueue

LEMMA SeqElement ==
    ASSUME NEW S, NEW s \in Seq(S), NEW i \in 1 .. Len(s)
    PROVE  s[i] \in S
OBVIOUS

(* The newest of a sequence that has just been extended.                   *)
LEMMA NewestAppend ==
    ASSUME NEW S, NEW s \in Seq(S), NEW x \in S
    PROVE  Topic!Newest(Append(s, x)) = x
BY DEF Topic!Newest

LEMMA NewestType ==
    ASSUME TypeOK
    PROVE  Topic!Newest(handled) \in Nat
<1> DEFINE S == 1 .. MaxSent
<1>1. handled \in Seq(S)
  BY DEF TypeOK
<1>2. CASE handled = << >>
  BY <1>2 DEF Topic!Newest
<1>3. CASE handled # << >>
  <2>1. Len(handled) \in 1 .. Len(handled)
    BY <1>1, <1>3
  <2>2. handled[Len(handled)] \in S
    <3> HIDE DEF S
    <3>1. QED
      BY <1>1, <2>1, SeqElement
  <2>3. QED
    BY <1>3, <2>2 DEF Topic!Newest
<1>4. QED
  BY <1>2, <1>3

-----------------------------------------------------------------------------
(* The steps of the queue: a Put, and a Get or a woken wait that takes.    *)
LEMMA PutKeeps ==
    ASSUME Inv, PutSample
    PROVE  Inv'
<1> DEFINE S == 1 .. MaxSent
<1>1. /\ queue \in [items : Seq(S), curLen : Nat]
      /\ queue.curLen = Len(queue.items) /\ queue.curLen <= QueueLen
      /\ held \in S /\ held' = 0 /\ cache' = cache /\ QueueLen \in Nat
      /\ sent' = sent /\ handled' = handled /\ event' = event /\ app' = app /\ late' = late
  BY QueueLenAssumption DEF Inv, TypeOK, QueueCount, PutSample
<1>2. thread' \in ThreadPlace /\ LateCaller'
  BY DEF Inv, TypeOK, LateCaller, PutSample, ThreadPlace
<1>3. CASE Full(queue, QueueLen)
  <2>1. queue' = queue
    BY <1>3 DEF PutSample, Put, Accepts
  <2>2. QED
    BY <1>1, <1>2, <2>1, MaxSentAssumption DEF Inv, TypeOK, QueueCount, Pipeline, Topic!Newest
<1>4. CASE ~Full(queue, QueueLen)
  <2>1. queue' = Appended(queue, held)
    BY <1>4 DEF PutSample, Put, Accepts
  <2>2. /\ queue' \in [items : Seq(S), curLen : Nat]
        /\ queue'.curLen = queue.curLen + 1
        /\ Len(queue'.items) = Len(queue.items) + 1
        /\ queue'.items[Len(queue.items) + 1] = held
        /\ \A i \in 1 .. Len(queue.items) : queue'.items[i] = queue.items[i]
    <3> HIDE DEF S
    <3>1. /\ queue \in [items : Seq(S), curLen : Nat] /\ held \in S
          /\ queue.items \in Seq(S)
      BY <1>1
    <3>2. /\ Append(queue.items, held) \in Seq(S)
          /\ Len(Append(queue.items, held)) = Len(queue.items) + 1
          /\ Append(queue.items, held)[Len(queue.items) + 1] = held
          /\ \A i \in 1 .. Len(queue.items) :
               Append(queue.items, held)[i] = queue.items[i]
      BY <3>1, AppendFacts
    <3>3. queue'.items = Append(queue.items, held) /\ queue'.curLen = queue.curLen + 1
      BY <2>1 DEF Appended
    <3>4. queue' \in [items : Seq(S), curLen : Nat]
      BY <2>1, <3>1, <3>2 DEF Appended
    <3>5. QED
      BY <3>2, <3>3, <3>4
  <2>3. TypeOK'
    BY <1>1, <1>2, <2>2, MaxSentAssumption DEF Inv, TypeOK
  <2>4. QueueCount'
    BY <1>1, <1>4, <2>2 DEF QueueCount, Full
  <2>5. Len(queue.items) \in Nat
    BY <1>1
  <2>6. \A i \in 1 .. Len(queue'.items) :
          \/ i \in 1 .. Len(queue.items) /\ queue'.items[i] = queue.items[i]
          \/ i = Len(queue.items) + 1 /\ queue'.items[i] = held
    BY <2>2, <2>5
  <2>7. Pipeline'
    <3> DEFINE N == Topic!Newest(handled)
               a == queue.items
               b == queue'.items
    <3>1. /\ N <= sent /\ N < held /\ held <= sent
          /\ \A i \in 1 .. Len(a) : N < a[i] /\ a[i] <= sent /\ a[i] < held
          /\ cache # 0 => N < cache /\ cache <= sent /\ held < cache
                         /\ \A i \in 1 .. Len(a) : a[i] < cache
          /\ \A i, j \in 1 .. Len(a) : i < j => a[i] < a[j]
      BY <1>1 DEF Inv, Pipeline
    <3>2. \A i \in 1 .. Len(b) : N < b[i] /\ b[i] <= sent
      BY <2>6, <3>1
    <3>3. \A i, j \in 1 .. Len(b) : i < j => b[i] < b[j]
      <4> SUFFICES ASSUME NEW i \in 1 .. Len(b), NEW j \in 1 .. Len(b), i < j
                   PROVE  b[i] < b[j]
        OBVIOUS
      <4>1. i \in 1 .. Len(a) /\ b[i] = a[i]
        BY <2>2, <2>5
      <4>2. QED
        BY <2>6, <3>1, <4>1
    <3>4. Topic!Newest(handled)' = N
      BY <1>1 DEF Topic!Newest
    <3>5. cache # 0 => \A i \in 1 .. Len(b) : b[i] < cache
      BY <2>6, <3>1
    <3>6. cache \in Nat
      BY DEF Inv, TypeOK
    <3> HIDE DEF N
    <3>7. QED
      BY <1>1, <3>1, <3>2, <3>3, <3>4, <3>5, <3>6 DEF Pipeline
  <2>8. QED
    BY <1>2, <2>3, <2>4, <2>7 DEF Inv
<1>5. QED
  BY <1>3, <1>4

LEMMA TakeKeeps ==
    ASSUME Inv, thread \in {"get", "woken"}, ~Empty(queue), CallHandler,
           UNCHANGED <<sent, cache, held, event, app>>
    PROVE  Inv' /\ Topic!Handle
<1> DEFINE S == 1 .. MaxSent
<1>1. /\ queue \in [items : Seq(S), curLen : Nat] /\ handled \in Seq(S)
      /\ queue.curLen = Len(queue.items) /\ queue.curLen <= QueueLen
      /\ QueueLen \in Nat /\ sent \in Nat
      /\ queue' = Popped(queue) /\ handled' = Append(handled, queue.items[1])
      /\ thread' = "handler"
  BY QueueLenAssumption, MaxSentAssumption
     DEF Inv, TypeOK, QueueCount, CallHandler
<1>2. /\ queue' \in [items : Seq(S), curLen : Nat]
      /\ queue'.curLen = queue.curLen - 1
      /\ Len(queue.items) \in Nat \ {0}
      /\ Len(queue'.items) = Len(queue.items) - 1
      /\ \A i \in 1 .. Len(queue'.items) : queue'.items[i] = queue.items[i + 1]
      /\ queue.items[1] \in S
  <2> HIDE DEF S
  <2>1. QED
    BY <1>1, PoppedFacts
<1>3. TypeOK'
  <2>1. handled' \in Seq(S)
    BY <1>1, <1>2
  <2>2. late' \in Nat
    BY DEF Inv, TypeOK, CallHandler
  <2>3. QED
    BY <1>1, <1>2, <2>1, <2>2 DEF Inv, TypeOK, ThreadPlace
<1>4. QueueCount'
  BY <1>1, <1>2 DEF QueueCount
<1>5. Topic!Newest(handled') = queue.items[1]
  <2> HIDE DEF S
  <2>1. QED
    BY <1>1, <1>2, NewestAppend
<1>6. /\ Topic!Newest(handled) < queue.items[1] /\ queue.items[1] <= sent
      /\ Topic!Newest(handled) \in Nat
  <2>1. Topic!Newest(handled) \in Nat
    BY NewestType DEF Inv
  <2>2. QED
    BY <1>2, <2>1 DEF Inv, Pipeline
<1>7. Pipeline'
  <2> DEFINE a == queue.items
             b == queue'.items
  <2>1. /\ \A i \in 1 .. Len(a) : a[i] <= sent
        /\ \A i, j \in 1 .. Len(a) : i < j => a[i] < a[j]
        /\ \A n \in {held, cache} : n # 0 => n <= sent /\ \A i \in 1 .. Len(a) : a[i] < n
        /\ cache # 0 => held < cache
    BY DEF Inv, Pipeline
  <2>2. \A i \in 1 .. Len(b) : i + 1 \in 1 .. Len(a) /\ 1 < i + 1 /\ b[i] = a[i + 1]
    BY <1>2
  <2>3. \A i \in 1 .. Len(b) : a[1] < b[i] /\ b[i] <= sent
    BY <1>2, <2>1, <2>2
  <2>4. \A i, j \in 1 .. Len(b) : i < j => b[i] < b[j]
    <3> SUFFICES ASSUME NEW i \in 1 .. Len(b), NEW j \in 1 .. Len(b), i < j
                 PROVE  b[i] < b[j]
      OBVIOUS
    <3>1. i + 1 < j + 1
      BY <1>2
    <3>2. QED
      BY <2>1, <2>2, <3>1
  <2>5. \A n \in {held, cache} : n # 0 => a[1] < n /\ \A i \in 1 .. Len(b) : b[i] < n
    BY <1>2, <2>1, <2>2
  <2>6. sent' = sent /\ cache' = cache /\ held' = held
    OBVIOUS
  <2>7. Topic!Newest(handled)' = a[1]
    BY <1>5 DEF Topic!Newest
  <2>8. QED
    BY <1>6, <2>1, <2>3, <2>4, <2>5, <2>6, <2>7 DEF Pipeline
<1>8. Topic!Handle
  <2>1. queue.items[1] \in Topic!Newest(handled) + 1 .. sent
    BY <1>1, <1>2, <1>6
  <2>2. QED
    BY <1>1, <2>1 DEF Topic!Handle
<1>9. LateCaller'
  <2>1. late = 0 /\ event' = event
    BY DEF Inv, TypeOK, LateCaller
  <2>2. QED
    BY <1>1, <2>1 DEF LateCaller, CallHandler
<1>10. QED
  BY <1>3, <1>4, <1>7, <1>8, <1>9 DEF Inv

-----------------------------------------------------------------------------
(* The other steps.                                                        *)
LEMMA WriteKeeps ==
    ASSUME Inv, Write
    PROVE  Inv' /\ Topic!Publish
<1> DEFINE N == Topic!Newest(handled)
<1>1. /\ sent' = sent + 1 /\ sent' \in 0 .. MaxSent /\ sent \in Nat
      /\ cache' \in {cache, sent + 1} /\ held' = held /\ N \in Nat
      /\ queue' = queue /\ event' = event /\ thread' = thread /\ app' = app
      /\ handled' = handled /\ late' = late
  BY NewestType, MaxSentAssumption DEF Inv, TypeOK, Write
<1>2. \A i \in 1 .. Len(queue.items) : queue.items[i] \in Nat
  <2>1. queue.items \in Seq(1 .. MaxSent)
    BY DEF Inv, TypeOK
  <2>2. \A i \in 1 .. Len(queue.items) : queue.items[i] \in 1 .. MaxSent
    BY <2>1, SeqElement
  <2>3. QED
    BY <2>2, MaxSentAssumption
<1>3. TypeOK' /\ QueueCount' /\ LateCaller'
  BY <1>1, MaxSentAssumption DEF Inv, TypeOK, QueueCount, LateCaller
<1>4. Topic!Newest(handled)' = N
  BY <1>1 DEF Topic!Newest
<1>5. Pipeline'
  <2>1. /\ N <= sent
        /\ \A i \in 1 .. Len(queue.items) : N < queue.items[i] /\ queue.items[i] <= sent
        /\ \A i, j \in 1 .. Len(queue.items) : i < j => queue.items[i] < queue.items[j]
        /\ \A n \in {held, cache} : n # 0 =>
             /\ N < n /\ n <= sent
             /\ \A i \in 1 .. Len(queue.items) : queue.items[i] < n
        /\ cache # 0 => held < cache
    BY DEF Inv, Pipeline
  <2>2. cache \in Nat /\ held \in Nat
    BY DEF Inv, TypeOK
  <2>3. held <= sent
    BY <1>1, <2>1, <2>2
  <2> HIDE DEF N
  <2>4. QED
    BY <1>1, <1>2, <1>4, <2>1, <2>2, <2>3 DEF Pipeline
<1>6. Topic!Publish
  BY <1>1 DEF Topic!Publish
<1>7. QED
  BY <1>3, <1>5, <1>6 DEF Inv

(* Steps that leave the samples where they are, or throw them away.        *)
LEMMA ThreadKeeps ==
    ASSUME Inv, \/ TestEvent \/ HandlerReturns \/ HandlerRaises
                \/ DeleteReader \/ SetEvent \/ Interrupt \/ Join
                \/ UNCHANGED vars
    PROVE  Inv' /\ UNCHANGED <<sent, handled>>
<1>1. /\ sent' = sent /\ queue' = queue /\ handled' = handled /\ cache' \in {cache, 0}
      /\ held' = held /\ late' = late
      /\ thread' \in ThreadPlace /\ app' \in AppPlace /\ event' \in BOOLEAN
  BY DEF Inv, TypeOK, TestEvent, HandlerReturns, HandlerRaises, DeleteReader,
         SetEvent, Interrupt, Join, vars, ThreadPlace, AppPlace
<1>2. TypeOK' /\ QueueCount'
  BY <1>1, MaxSentAssumption DEF Inv, TypeOK, QueueCount
<1>3. Pipeline'
  BY <1>1 DEF Inv, Pipeline, Topic!Newest
<1>4. LateCaller'
  <2>1. ~event' => ~event
    BY DEF TestEvent, HandlerReturns, HandlerRaises, DeleteReader, SetEvent, Interrupt, Join, vars
  <2>2. late = 1 => thread' \in {"handler", "test", "ended", "dead"}
    BY DEF Inv, LateCaller, TestEvent, HandlerReturns, HandlerRaises, DeleteReader,
           SetEvent, Interrupt, Join, vars
  <2>3. QED
    BY <1>1, <2>1, <2>2 DEF Inv, LateCaller
<1>5. QED
  BY <1>1, <1>2, <1>3, <1>4 DEF Inv

LEMMA TakeSampleKeeps ==
    ASSUME Inv, TakeSample
    PROVE  Inv' /\ UNCHANGED <<sent, handled>>
<1>1. /\ sent' = sent /\ queue' = queue /\ handled' = handled /\ late' = late
      /\ cache' = 0 /\ held' \in {cache, 0}
      /\ thread' = thread /\ app' = app /\ event' = event
  BY DEF TakeSample
<1>2. TypeOK' /\ QueueCount' /\ LateCaller'
  BY <1>1, MaxSentAssumption DEF Inv, TypeOK, QueueCount, LateCaller
<1>3. Pipeline'
  BY <1>1 DEF Inv, Pipeline, Topic!Newest
<1>4. QED
  BY <1>1, <1>2, <1>3 DEF Inv

LEMMA EmptyingKeeps ==
    ASSUME Inv, ClearQueue \/ Subscribe
    PROVE  Inv' /\ UNCHANGED <<sent, handled>>
<1>1. /\ sent' = sent /\ handled' = handled /\ cache' \in {cache, 0} /\ held' = held
      /\ thread' \in ThreadPlace /\ app' \in AppPlace /\ event' \in BOOLEAN
      /\ queue' \in {queue, NewQueue}
  BY DEF Inv, TypeOK, ClearQueue, Subscribe, Clear, ThreadPlace, AppPlace
<1>2. late' \in Nat /\ LateCaller'
  <2>1. CASE ClearQueue
    BY <2>1 DEF Inv, TypeOK, LateCaller, ClearQueue
  <2>2. CASE Subscribe
    BY <2>2 DEF LateCaller, Subscribe
  <2>3. QED
    BY <2>1, <2>2
<1>3. TypeOK' /\ QueueCount'
  BY <1>1, <1>2, MaxSentAssumption, QueueLenAssumption, NewQueueFacts
     DEF Inv, TypeOK, QueueCount
<1>4. Pipeline'
  <2>1. CASE queue' = queue
    BY <1>1, <2>1 DEF Inv, Pipeline, Topic!Newest
  <2>2. CASE queue' = NewQueue
    <3>1. Len(queue'.items) = 0
      BY <2>2 DEF NewQueue
    <3>2. 1 .. Len(queue'.items) = {}
      BY <3>1
    <3>3. QED
      BY <1>1, <3>2 DEF Inv, Pipeline, Topic!Newest
  <2>3. QED
    BY <1>1, <2>1, <2>2
<1>5. QED
  BY <1>1, <1>2, <1>3, <1>4 DEF Inv

LEMMA GetKeeps ==
    ASSUME Inv, Get \/ Resume
    PROVE  Inv' /\ (Topic!Handle \/ UNCHANGED <<sent, handled>>)
<1>1. CASE CallHandler /\ ~Empty(queue)
  BY <1>1, TakeKeeps DEF Get, Resume
<1>2. CASE thread' \in {"waiting", "test"} /\ UNCHANGED <<queue, handled, late>>
  <2>1. /\ sent' = sent /\ queue' = queue /\ handled' = handled /\ cache' = cache
        /\ held' = held /\ late' = late /\ thread \in {"get", "woken"}
        /\ thread' \in ThreadPlace /\ app' = app /\ event' = event
    BY <1>2 DEF Get, Resume, ThreadPlace
  <2>2. QED
    BY <2>1 DEF Inv, TypeOK, QueueCount, Pipeline, LateCaller, Topic!Newest
<1>3. QED
  BY <1>1, <1>2 DEF Get, Resume

-----------------------------------------------------------------------------
LEMMA InitInv == Init => Inv
<1> SUFFICES ASSUME Init PROVE Inv
  OBVIOUS
<1>1. TypeOK /\ QueueCount
  <2>1. << >> \in Seq(1 .. MaxSent)
    OBVIOUS
  <2>2. /\ queue \in [items : Seq(1 .. MaxSent), curLen : Nat]
        /\ queue.curLen = 0 /\ Len(queue.items) = 0
    BY NewQueueFacts DEF Init
  <2>3. QueueCount
    BY <2>2, QueueLenAssumption DEF QueueCount
  <2>4. sent \in 0 .. MaxSent /\ cache \in 0 .. MaxSent /\ held \in 0 .. MaxSent /\ late \in Nat
    BY MaxSentAssumption DEF Init
  <2>5. event \in BOOLEAN /\ thread \in ThreadPlace /\ app \in AppPlace
    BY DEF Init, ThreadPlace, AppPlace
  <2>6. handled \in Seq(1 .. MaxSent)
    BY <2>1, Zenon DEF Init
  <2>7. QED
    BY <2>2, <2>3, <2>4, <2>5, <2>6 DEF TypeOK
<1>2. Pipeline
  <2>1. Len(queue.items) = 0
    BY DEF Init, NewQueue
  <2>2. 1 .. Len(queue.items) = {}
    BY <2>1
  <2>3. QED
    BY <2>2 DEF Init, Pipeline, Topic!Newest
<1>3. QED
  BY <1>1, <1>2 DEF Inv, LateCaller, Init

LEMMA StepInv ==
    ASSUME Inv, [Next]_vars
    PROVE  Inv' /\ [Topic!Next]_<<sent, handled>>
<1>1. CASE Write
  BY <1>1, WriteKeeps DEF Topic!Next
<1>2. CASE OnDataAvailable
  BY <1>2, PutKeeps, TakeSampleKeeps DEF OnDataAvailable, PutSample
<1>3. CASE TestEvent \/ HandlerReturns \/ HandlerRaises
           \/ DeleteReader \/ SetEvent \/ Interrupt \/ Join \/ UNCHANGED vars
  BY <1>3, ThreadKeeps
<1>4. CASE Get \/ Resume
  BY <1>4, GetKeeps DEF Topic!Next
<1>5. CASE ClearQueue \/ Subscribe
  BY <1>5, EmptyingKeeps
<1>6. QED
  BY <1>1, <1>2, <1>3, <1>4, <1>5 DEF Next, ReaderThread, Close

(* Type correctness of the reader, its queue and its thread.               *)
THEOREM ChannelTypes == Spec => []TypeOK
<1>1. Inv => TypeOK
  BY DEF Inv
<1>2. QED
  BY <1>1, InitInv, StepInv, PTL DEF Spec

(* The length the queue counts is the length it has, never above its limit.*)
THEOREM CountIsLength == Spec => []QueueCount
<1>1. Inv => QueueCount
  BY DEF Inv
<1>2. QED
  BY <1>1, InitInv, StepInv, PTL DEF Spec

(* Samples stay in the order of publication from the publisher to the      *)
(* handler, across every Close and Init.                                   *)
THEOREM PipelineOrder == Spec => []Pipeline
<1>1. Inv => Pipeline
  BY DEF Inv
<1>2. QED
  BY <1>1, InitInv, StepInv, PTL DEF Spec

(* The reader, with its cache, queue, threads and lifecycle, implements    *)
(* the lossy topic: the handler sees a subsequence of what was published.  *)
THEOREM ReaderImplementsTopic == Spec => ImplementsTopic
<1>1. Init => Topic!Init
  BY DEF Init, Topic!Init
<1>2. QED
  BY <1>1, InitInv, StepInv, PTL DEF Spec, ImplementsTopic, Topic!Spec, Topic!vars

(* After Close has set the event the handler is called at most once more,  *)
(* with any queue, however Close and the DDS thread's Put interleave.      *)
THEOREM HandlerCalledOnceMore == Spec => []LastCall
<1>1. Inv => LastCall
  BY DEF Inv, LateCaller, LastCall
<1>2. QED
  BY <1>1, InitInv, StepInv, PTL DEF Spec
=============================================================================
