-------------------------------- MODULE Rpc ---------------------------------
(***************************************************************************)
(* A call of the unitree_sdk2py RPC, from ClientBase._CallBase to the      *)
(* server's handler and back (rpc/client_base.py, client_stub.py,          *)
(* request_future.py, utils/future.py, rpc/server_stub.py, server.py).     *)
(*                                                                         *)
(* Requests and responses travel on two topics. A topic is used through    *)
(* what LossyTopic says of it: per writer, the reader sees a subsequence   *)
(* of what was written. Every client reads every response of the service   *)
(* and finds its own by the request id.                                    *)
(*                                                                         *)
(* A call is its number in "calls"; a thread of the application per client.*)
(***************************************************************************)
EXTENDS BQueue, FiniteSets

CONSTANTS
    Clients,        \* the clients of the service
    Apis,           \* the registered api ids
    PriorityApis,   \* the apis registered with a priority above 0
    EnablePriority, \* Server.Start(enablePrioQueue)
    QueueMax,       \* size of the server's queue (10 in the code)
    PrioMax,        \* size of its priority queue (5 in the code)
    MaxCalls,       \* bound: calls made in a run
    FaultSets       \* the sets of faults a run may be exposed to

ASSUME ApisAssumption == PriorityApis \subseteq Apis
ASSUME SizesAssumption == QueueMax \in Nat \ {0} /\ PrioMax \in Nat \ {0} /\ MaxCalls \in Nat
ASSUME FaultsAssumption ==
    /\ EnablePriority \in BOOLEAN
    /\ FaultSets \subseteq SUBSET {"loss", "unmatched", "timeout", "badreply"}

VARIABLES
    faults,     \* what may go wrong in this run: it never changes
    calls,      \* every call made: its request, its future and its result
    pc,         \* where the application's thread is in _CallBase
    cur,        \* the number of its call
    table,      \* __futureQueue of each client: request id -> call number
    reqWire,    \* each client's requests on their way
    queues,     \* the server's two queues of call numbers
    worker,     \* what the thread of each queue is doing
    executed,   \* the calls whose handler ran, in the order they ran
    respWire,   \* responses on their way to each client
    handling    \* the response and future in the hands of a client's reader

vars == <<faults, calls, pc, cur, table, reqWire, queues, worker, executed, respWire, handling>>
client == <<pc, cur, table>>
server == <<queues, worker, executed>>
net == <<reqWire, respWire, handling>>

Classes == {"normal", "priority"}
Codes == {"ok", "refused"}
None == "none"
Nothing == [n |-> 0]        \* no answer, or no answer in hand
Idle == [pc |-> "idle"]
Numbers == 1 .. MaxCalls
Responses == [n : Numbers, id : Numbers, api : Apis, code : Codes]

Init ==
    /\ faults \in FaultSets
    /\ calls = << >>
    /\ pc = [c \in Clients |-> "idle"]
    /\ cur = [c \in Clients |-> 0]
    /\ table = [c \in Clients |-> << >>]
    /\ reqWire = [c \in Clients |-> << >>]
    /\ queues = [k \in Classes |-> NewQueue]
    /\ worker = [k \in Classes |-> Idle]
    /\ executed = << >>
    /\ respWire = [c \in Clients |-> << >>]
    /\ handling = [c \in Clients |-> Nothing]

-----------------------------------------------------------------------------
(* The client's thread.                                                    *)

(* A client numbers its own calls.                                         *)
Mut_OwnCounter(c) == Cardinality({n \in DOMAIN calls : calls[n].client = c}) + 1

(* SetHeader takes the id from the clock in nanoseconds. Readings, of one  *)
(* client or of two, are taken to be different.                            *)
NewId(c) == Len(calls) + 1

With(t, id, n) == [i \in DOMAIN t \cup {id} |-> IF i = id THEN n ELSE t[i]]
Without(t, id) == [i \in DOMAIN t \ {id} |-> t[i]]

(* Remove asks whether the builtin function id is a key of the table: it   *)
(* never is, and nothing is removed.                                       *)
Remove(t, requestId) == t

(* SetHeader and, for a call that wants a reply, the registration of its   *)
(* future, before the request is written.                                  *)
Call(c, api, noReply) ==
    /\ pc[c] = "idle"
    /\ Len(calls) < MaxCalls
    /\ calls' = Append(calls, [client |-> c, api |-> api, noReply |-> noReply,
                               id |-> NewId(c), future |-> Nothing, result |-> None])
    /\ cur' = [cur EXCEPT ![c] = Len(calls) + 1]
    /\ table' = IF noReply THEN table
                ELSE [table EXCEPT ![c] = With(@, NewId(c), Len(calls) + 1)]
    /\ pc' = [pc EXCEPT ![c] = "writing"]
    /\ UNCHANGED <<server, net>>

Return(c, result) ==
    /\ calls' = [calls EXCEPT ![cur[c]].result = result]
    /\ pc' = [pc EXCEPT ![c] = "idle"]
    /\ UNCHANGED cur

Send(c) ==
    /\ pc[c] = "writing"
    /\ reqWire' = [reqWire EXCEPT ![c] = Append(@, cur[c])]
    /\ IF calls[cur[c]].noReply THEN Return(c, "sent")
       ELSE pc' = [pc EXCEPT ![c] = "get"] /\ UNCHANGED <<calls, cur>>
    /\ UNCHANGED <<table, server, respWire, handling>>

(* Write found no reader of the topic before the timeout was used up.      *)
SendFails(c) ==
    /\ "unmatched" \in faults
    /\ pc[c] = "writing"
    /\ Return(c, "unsent")
    /\ table' = [table EXCEPT ![c] = Remove(@, calls[cur[c]].id)]
    /\ UNCHANGED <<server, net>>

(* The answer's api must be the one that was called.                       *)
Outcome(n) ==
    LET response == calls[n].future
    IN IF response.api # calls[n].api THEN "mismatch" ELSE response.code

(* GetResult waits whether or not the answer is there.                     *)
Mut_WaitAnyway(c) ==
    /\ pc[c] = "get"
    /\ pc' = [pc EXCEPT ![c] = "waiting"]
    /\ UNCHANGED <<calls, cur, table, server, net>>

(* GetResult: an answer that came before the wait is taken at once.        *)
GetResult(c) ==
    /\ pc[c] = "get"
    /\ IF calls[cur[c]].future = Nothing
       THEN pc' = [pc EXCEPT ![c] = "waiting"] /\ UNCHANGED <<calls, cur>>
       ELSE Return(c, Outcome(cur[c]))
    /\ UNCHANGED <<table, server, net>>

WaitEnds(c) ==
    /\ pc[c] = "woken"
    /\ Return(c, Outcome(cur[c]))
    /\ UNCHANGED <<table, server, net>>

(* Wait with no timeout.                                                   *)
Mut_WaitForEver(c) == FALSE

(* From here on the call reports a timeout, even if the answer is set      *)
(* before the thread has the condition's lock again.                       *)
WaitTimesOut(c) ==
    /\ "timeout" \in faults
    /\ pc[c] = "waiting"
    /\ pc' = [pc EXCEPT ![c] = "timedout"]
    /\ UNCHANGED <<calls, cur, table, server, net>>

ReportTimeout(c) ==
    /\ pc[c] = "timedout"
    /\ Return(c, "timeout")
    /\ table' = [table EXCEPT ![c] = Remove(@, calls[cur[c]].id)]
    /\ UNCHANGED <<server, net>>

-----------------------------------------------------------------------------
(* The server: reader thread, queues and the thread of each queue.         *)

ClassOf(n) ==
    IF EnablePriority /\ calls[n].api \in PriorityApis THEN "priority" ELSE "normal"

MaxLen(class) == IF class = "priority" THEN PrioMax ELSE QueueMax

(* The newest first.                                                       *)
Mut_EnqueueFirst(n) ==
    [queues EXCEPT ![ClassOf(n)] =
        [items |-> <<n>> \o @.items, curLen |-> @.curLen + 1]]

(* Put with replace: a full queue gives up its oldest request.             *)
Enqueue(n) == [queues EXCEPT ![ClassOf(n)] = Put(@, n, TRUE, MaxLen(ClassOf(n)))]

ReceiveRequest(c) ==
    /\ \E k \in 1 .. Len(reqWire[c]) :
         /\ k = 1 \/ "loss" \in faults
         /\ queues' = Enqueue(reqWire[c][k])
         /\ reqWire' = [reqWire EXCEPT ![c] = SubSeq(@, k + 1, Len(@))]
    /\ UNCHANGED <<calls, client, worker, executed, respWire, handling>>

(* A refused request falls through to its handler.                         *)
Mut_RefusedRuns(k) ==
    /\ worker[k].pc = "idle"
    /\ ~Empty(queues[k])
    /\ \E code \in Codes :
         LET n == queues[k].items[1]
         IN /\ worker' = [worker EXCEPT ![k] = [pc |-> "respond", n |-> n, code |-> code]]
            /\ executed' = Append(executed, n)
    /\ queues' = [queues EXCEPT ![k] = Popped(@)]
    /\ UNCHANGED <<calls, client, net>>

(* The thread of a queue takes the oldest request. Its handler runs, or it *)
(* is refused: the api is not implemented or the lease is denied.          *)
HandleRequest(k) ==
    /\ worker[k].pc = "idle"
    /\ ~Empty(queues[k])
    /\ \E code \in Codes :
         LET n == queues[k].items[1]
         IN /\ worker' = [worker EXCEPT ![k] = [pc |-> "respond", n |-> n, code |-> code]]
            /\ executed' = IF code = "ok" THEN Append(executed, n) ELSE executed
    /\ queues' = [queues EXCEPT ![k] = Popped(@)]
    /\ UNCHANGED <<calls, client, net>>

(* The response carries the identity of the request, and goes to everyone. *)
(* A client that has no future of this id ignores it; since a future is    *)
(* registered before its request is written, it need not be on its wire.   *)
Response(k) ==
    LET n == worker[k].n
    IN [n |-> n, id |-> calls[n].id, api |-> calls[n].api, code |-> worker[k].code]

Respond(k) ==
    /\ worker[k].pc = "respond"
    /\ worker' = [worker EXCEPT ![k] = Idle]
    /\ respWire' = IF calls[worker[k].n].noReply THEN respWire
                   ELSE [c \in Clients |-> IF Response(k).id \in DOMAIN table[c]
                                           THEN Append(respWire[c], Response(k))
                                           ELSE respWire[c]]
    /\ UNCHANGED <<calls, client, queues, executed, reqWire, handling>>

(* A response the writer cannot serialise: Write calls e.args, which is a  *)
(* tuple, in its own except clause, and nothing above it catches that.     *)
RespondRaises(k) ==
    /\ "badreply" \in faults
    /\ worker[k].pc = "respond"
    /\ ~calls[worker[k].n].noReply
    /\ worker' = [worker EXCEPT ![k] = [pc |-> "dead"]]
    /\ UNCHANGED <<calls, client, queues, executed, net>>

-----------------------------------------------------------------------------
(* The reader thread of a client: ResponseHandler.                         *)

(* Get leaves the future in the table.                                     *)
Mut_GetKeeps(c) ==
    /\ handling[c] = Nothing
    /\ \E k \in 1 .. Len(respWire[c]) :
         LET response == respWire[c][k]
         IN /\ k = 1 \/ "loss" \in faults
            /\ respWire' = [respWire EXCEPT ![c] = SubSeq(@, k + 1, Len(@))]
            /\ handling' = IF response.id \in DOMAIN table[c]
                           THEN [handling EXCEPT ![c] = [response |-> response,
                                                         n |-> table[c][response.id]]]
                           ELSE handling
    /\ UNCHANGED <<calls, client, server, reqWire>>

(* RequestFutureQueue.Get takes the future out of the table.               *)
ReceiveResponse(c) ==
    /\ handling[c] = Nothing
    /\ \E k \in 1 .. Len(respWire[c]) :
         LET response == respWire[c][k]
         IN /\ k = 1 \/ "loss" \in faults
            /\ respWire' = [respWire EXCEPT ![c] = SubSeq(@, k + 1, Len(@))]
            /\ IF response.id \in DOMAIN table[c]
               THEN /\ handling' = [handling EXCEPT ![c] =
                                      [response |-> response, n |-> table[c][response.id]]]
                    /\ table' = [table EXCEPT ![c] = Without(@, response.id)]
               ELSE UNCHANGED <<handling, table>>
    /\ UNCHANGED <<calls, pc, cur, server, reqWire>>

(* Future.Ready: set the answer and notify the thread, if it waits.        *)
Ready(c) ==
    /\ handling[c] # Nothing
    /\ calls' = [calls EXCEPT ![handling[c].n].future = handling[c].response]
    /\ pc' = IF pc[c] = "waiting" /\ cur[c] = handling[c].n
             THEN [pc EXCEPT ![c] = "woken"] ELSE pc
    /\ handling' = [handling EXCEPT ![c] = Nothing]
    /\ UNCHANGED <<cur, table, server, reqWire, respWire>>

-----------------------------------------------------------------------------
CallSteps(c) == Send(c) \/ SendFails(c) \/ GetResult(c) \/ WaitEnds(c) \/ ReportTimeout(c)
WorkerSteps(k) == HandleRequest(k) \/ Respond(k) \/ RespondRaises(k)

Next ==
    /\ \/ \E c \in Clients :
            \/ \E api \in Apis, noReply \in BOOLEAN : Call(c, api, noReply)
            \/ CallSteps(c) \/ WaitTimesOut(c)
            \/ ReceiveRequest(c) \/ ReceiveResponse(c) \/ Ready(c)
       \/ \E k \in Classes : WorkerSteps(k)
    /\ UNCHANGED faults

Spec == Init /\ [][Next]_vars

(* The calling threads run, and a wait with a timeout ends.                *)
CallerFairness ==
    \A c \in Clients :
        WF_vars(CallSteps(c) /\ UNCHANGED faults) /\ WF_vars(WaitTimesOut(c) /\ UNCHANGED faults)

(* In a run without faults the other threads run and the topics deliver.   *)
(* In any other nothing is assumed of them.                                *)
ServiceFairness ==
    /\ \A c \in Clients :
         /\ WF_vars(faults = {} /\ ReceiveRequest(c) /\ UNCHANGED faults)
         /\ WF_vars(faults = {} /\ (ReceiveResponse(c) \/ Ready(c)) /\ UNCHANGED faults)
    /\ \A k \in Classes : WF_vars(faults = {} /\ WorkerSteps(k) /\ UNCHANGED faults)

FairSpec == Spec /\ CallerFairness /\ ServiceFairness

-----------------------------------------------------------------------------
Executed == {executed[i] : i \in DOMAIN executed}

Call_ == [client : Clients, api : Apis, noReply : BOOLEAN, id : Numbers,
          future : Responses \cup {Nothing},
          result : Codes \cup {None, "sent", "unsent", "timeout", "mismatch"}]

TypeOK ==
    /\ calls \in Seq(Call_) /\ Len(calls) <= MaxCalls
    /\ pc \in [Clients -> {"idle", "writing", "get", "waiting", "woken", "timedout"}]
    /\ cur \in [Clients -> 0 .. Len(calls)]
    /\ \A c \in Clients : \A id \in DOMAIN table[c] : table[c][id] \in 1 .. Len(calls)
    /\ reqWire \in [Clients -> Seq(1 .. Len(calls))]
    /\ queues \in [Classes -> [items : Seq(1 .. Len(calls)), curLen : Nat]]
    /\ \A k \in Classes : worker[k].pc \in {"idle", "respond", "dead"}
    /\ executed \in Seq(1 .. Len(calls))
    /\ respWire \in [Clients -> Seq(Responses)]
    /\ \A c \in Clients :
         handling[c] # Nothing => handling[c] \in [response : Responses, n : 1 .. Len(calls)]

(* A call returns the answer to its own request or none: not that of       *)
(* another client, whose responses it reads too, and not the late answer   *)
(* to an earlier call that timed out.                                      *)
OwnAnswer ==
    \A n \in DOMAIN calls :
        calls[n].future # Nothing => calls[n].future.n = n /\ calls[n].result # "mismatch"

(* What a call reports of its handler is what happened: "ok" only when it  *)
(* ran, a refusal only when it never did and never will, and a request     *)
(* that could not be sent is not executed. A timeout says nothing.         *)
TruthfulResult ==
    \A n \in DOMAIN calls :
        /\ calls[n].result = "ok" => n \in Executed
        /\ calls[n].result \in {"refused", "unsent"} => n \notin Executed

(* Two requests of a client in the same queue are executed in the order it *)
(* made the calls and neither of them twice: what comes late, after its    *)
(* call timed out, never comes after a later one. Between the two queues   *)
(* there is no such order.                                                 *)
ExecutionOrder ==
    \A i, j \in DOMAIN executed :
        /\ i < j
        /\ calls[executed[i]].client = calls[executed[j]].client
        /\ ClassOf(executed[i]) = ClassOf(executed[j])
        => executed[i] < executed[j]

(* A future that stays in a client's table belongs to a call that is under *)
(* way, timed out or could not be sent; one that was answered is gone.     *)
LeftInTable ==
    \A c \in Clients : \A id \in DOMAIN table[c] :
        calls[table[c][id]].result \in {None, "timeout", "unsent"}

(* The shape of a call's record and of the tables that hold it.            *)
Inv == TypeOK /\ LeftInTable

(* Every call made with a timeout returns, whatever happens to the network *)
(* and the server, and though nothing is assumed of either.                *)
CallReturns ==
    \A c \in Clients :
        ("timeout" \in faults /\ pc[c] # "idle") ~> pc[c] = "idle"

(* The requests made so far fit into their queues, were none executed.     *)
Uncrowded ==
    \A k \in Classes :
        Cardinality({n \in DOMAIN calls : ClassOf(n) = k}) <= MaxLen(k)

Settled == {n \in DOMAIN calls : calls[n].result \in {"ok", "refused", "sent"}}

(* When nothing fails and no queue can overflow, every request and every   *)
(* answer finds its way: a call that wants a reply gets it without the     *)
(* help of a timeout, however its wait and the arrival of the answer       *)
(* interleave.                                                             *)
Answered ==
    \A n \in Numbers :
        (faults = {} /\ n \in DOMAIN calls)
            ~> (~Uncrowded \/ n \in Settled)
=============================================================================
