-------------------------------- MODULE Lease --------------------------------
(***************************************************************************)
(* The lease of a unitree_sdk2py service: LeaseServer (rpc/lease_server.py)*)
(* on its own RPC service, the thread of LeaseClient (rpc/lease_client.py) *)
(* that applies for the lease and renews it, and the check Server makes    *)
(* before it calls a guarded handler (rpc/server.py).                      *)
(*                                                                         *)
(* The calls are those of module Rpc: requests of a client are handled in  *)
(* order or lost, a late answer is ignored. Time passes in ticks. Instead  *)
(* of lastModified the model has the lease's age, which is what the code   *)
(* compares with the term. A tick is a part of a second: the server reads  *)
(* its clock and takes the lock of the lease, which nobody holds for long, *)
(* within one.                                                             *)
(***************************************************************************)
EXTENDS Integers, Sequences

CONSTANTS
    Clients,        \* processes with a LeaseClient
    Term,           \* the term of the lease
    RenewWait,      \* 0.3 of the term: pause between two calls
    CallTimeout,    \* the timeout of a lease call, 1 second
    MaxDelay,       \* how long a lease call takes in a prompt network
    MaxLate,        \* bound: requests of a client that are on their way
    MaxId           \* bound: ids that are known to somebody at one time

ASSUME TimesAssumption ==
    /\ {Term, RenewWait, CallTimeout, MaxDelay, MaxLate, MaxId} \subseteq Nat \ {0}
    /\ RenewWait + 2 * MaxDelay <= Term
    /\ MaxDelay < CallTimeout

VARIABLES
    net,        \* "prompt" from the start, "bad", or "recovered" after that
    lease,      \* __cache of the server: the id, 0 for none, and its age
    ctx,        \* __context.id of each client
    pc,         \* its thread: "asleep", "waiting" in a call, "crashed"
    timer,      \* ticks left of the wait or the sleep
    wire,       \* its lease requests on their way, oldest first
    reply,      \* the answer to its call on its way
    ask         \* the guarded request not yet handled: at most one of all clients

vars == <<net, lease, ctx, pc, timer, wire, reply, ask>>

None == "none"
Ids == 0 .. MaxId
Requests == [id : Ids, live : BOOLEAN]
Codes == {"ok", "exists", "notexist"}
Replies == [code : Codes, id : Ids]
NoReply == [code |-> None, id |-> 0]
MaxAge == Term + 1      \* older makes no difference

Init ==
    /\ net \in {"prompt", "bad"}
    /\ lease = [id |-> 0, age |-> 0]
    /\ ctx = [c \in Clients |-> 0]
    /\ pc = [c \in Clients |-> "asleep"]
    /\ timer = [c \in Clients |-> 0]
    /\ wire = [c \in Clients |-> << >>]
    /\ reply = [c \in Clients |-> NoReply]
    /\ ask = {}

Alive(c) == pc[c] # "crashed"

-----------------------------------------------------------------------------
(* The client's thread.                                                    *)

(* A request carries the id to renew; 0 applies for a lease. What is older *)
(* than the bound is taken as lost.                                        *)
Call(c) ==
    /\ pc[c] = "asleep"
    /\ timer[c] = 0
    /\ pc' = [pc EXCEPT ![c] = "waiting"]
    /\ timer' = [timer EXCEPT ![c] = CallTimeout]
    /\ LET sent == Append(wire[c], [id |-> ctx[c], live |-> TRUE])
       IN wire' = [wire EXCEPT ![c] =
                     IF Len(sent) > MaxLate THEN Tail(sent) ELSE sent]
    /\ UNCHANGED <<net, lease, ctx, reply, ask>>

(* Sleep one term.                                                         *)
Mut_WaitOneTerm(c) ==
    /\ pc' = [pc EXCEPT ![c] = "asleep"]
    /\ timer' = [timer EXCEPT ![c] = Term]

Sleep(c) ==
    /\ pc' = [pc EXCEPT ![c] = "asleep"]
    /\ timer' = [timer EXCEPT ![c] = RenewWait]

(* A lease that does not exist any more is kept.                           *)
Mut_KeepContext(c) ==
    /\ pc[c] = "waiting"
    /\ reply[c] # NoReply
    /\ ctx' = IF ctx[c] = 0 /\ reply[c].code = "ok" THEN [ctx EXCEPT ![c] = reply[c].id] ELSE ctx
    /\ reply' = [reply EXCEPT ![c] = NoReply]
    /\ Sleep(c)
    /\ UNCHANGED <<net, lease, wire, ask>>

(* A granted lease is stored, and one the server does not know is dropped. *)
ReceiveReply(c) ==
    /\ pc[c] = "waiting"
    /\ reply[c] # NoReply
    /\ ctx' = CASE ctx[c] = 0 /\ reply[c].code = "ok" -> [ctx EXCEPT ![c] = reply[c].id]
                [] reply[c].code = "notexist" -> [ctx EXCEPT ![c] = 0]
                [] OTHER -> ctx
    /\ reply' = [reply EXCEPT ![c] = NoReply]
    /\ Sleep(c)
    /\ UNCHANGED <<net, lease, wire, ask>>

Stale(r) == [r EXCEPT !.live = FALSE]

(* The call returns an error and the context stays. The request may still  *)
(* be handled, its answer is ignored.                                      *)
CallTimesOut(c) ==
    /\ pc[c] = "waiting"
    /\ timer[c] = 0
    /\ wire' = [wire EXCEPT ![c] = [i \in DOMAIN @ |-> Stale(@[i])]]
    /\ reply' = [reply EXCEPT ![c] = NoReply]
    /\ Sleep(c)
    /\ UNCHANGED <<net, lease, ctx, ask>>

(* The process ends. What it has sent is still on its way.                 *)
Crash(c) ==
    /\ Alive(c)
    /\ pc' = [pc EXCEPT ![c] = "crashed"]
    /\ ctx' = [ctx EXCEPT ![c] = 0]
    /\ timer' = [timer EXCEPT ![c] = 0]
    /\ wire' = [wire EXCEPT ![c] = [i \in DOMAIN @ |-> Stale(@[i])]]
    /\ reply' = [reply EXCEPT ![c] = NoReply]
    /\ UNCHANGED <<net, lease, ask>>

-----------------------------------------------------------------------------
(* The thread of the lease server.                                         *)

LoseRequest(c) ==
    /\ net = "bad"
    /\ wire[c] # << >>
    /\ wire' = [wire EXCEPT ![c] = Tail(@)]
    /\ UNCHANGED <<net, lease, ctx, pc, timer, reply, ask>>

Expired == lease.age > Term

KnownIds ==
    {lease.id} \cup {ctx[c] : c \in Clients} \cup {r.id : r \in ask}
    \cup {r.id : r \in UNION {{wire[c][i] : i \in DOMAIN wire[c]} : c \in Clients}}
    \cup {reply[c].id : c \in Clients}

FreshIds == Ids \ ({0} \cup KnownIds)

(* An id of the clock in seconds.                                          *)
Mut_CoarseId == 1

(* __GenerateId: the clock in microseconds, different from every id before.*)
GenerateId == CHOOSE i \in FreshIds : TRUE

(* __Apply: nobody's lease, or one that has expired, goes to the applicant.*)
Applied ==
    IF lease.id = 0 \/ Expired
    THEN [lease |-> [id |-> GenerateId, age |-> 0], reply |-> [code |-> "ok", id |-> GenerateId]]
    ELSE [lease |-> lease, reply |-> [code |-> "exists", id |-> 0]]

NoLease == [id |-> 0, age |-> 0]

(* __Renewal.                                                              *)
Renewed(id) ==
    LET refused == [code |-> "notexist", id |-> 0]
    IN  IF lease.id # id THEN [lease |-> lease, reply |-> refused]
        ELSE IF Expired THEN [lease |-> NoLease, reply |-> refused]
        ELSE [lease |-> [lease EXCEPT !.age = 0], reply |-> [code |-> "ok", id |-> 0]]

(* The answer goes to a call that still waits, or is lost.                 *)
Serve(c) ==
    /\ wire[c] # << >>
    /\ FreshIds # {}    \* the bound MaxId
    /\ LET request == Head(wire[c])
           result == IF request.id = 0 THEN Applied ELSE Renewed(request.id)
       IN /\ lease' = result.lease
          /\ \/ request.live /\ reply' = [reply EXCEPT ![c] = result.reply]
             \/ (~request.live \/ net = "bad") /\ UNCHANGED reply
    /\ wire' = [wire EXCEPT ![c] = Tail(@)]
    /\ UNCHANGED <<net, ctx, pc, timer, ask>>

-----------------------------------------------------------------------------
(* Guarded requests, which the service's own server thread handles.        *)

Ask(c) ==
    /\ Alive(c)
    /\ ask = {}
    /\ ask' = {[client |-> c, id |-> ctx[c], admitted |-> FALSE]}
    /\ UNCHANGED <<net, lease, ctx, pc, timer, wire, reply>>

(* CheckRequestLeaseDenied. With no lease held only a request without one  *)
(* is let through; a lease that has expired is taken back, and whatever    *)
(* the request carries it is let through.                                  *)
Denied(id) == lease.id # id /\ (lease.id = 0 \/ ~Expired)

(* The request is denied, or admitted under the lease that is then held:   *)
(* its own, or none. The lock of the lease is released with that.          *)
Check ==
    /\ lease' = IF lease.id # 0 /\ Expired THEN NoLease ELSE lease
    /\ \E r \in ask :
         /\ ~r.admitted
         /\ ask' = IF Denied(r.id) THEN {}
                   ELSE {[client |-> r.client, id |-> lease'.id, admitted |-> TRUE]}
    /\ UNCHANGED <<net, ctx, pc, timer, wire, reply>>

(* The handler is called without another look at the lease. What it does,  *)
(* and the answer, no longer matter to the lease.                          *)
StartHandler ==
    /\ \E r \in ask : r.admitted
    /\ ask' = {}
    /\ UNCHANGED <<net, lease, ctx, pc, timer, wire, reply>>

-----------------------------------------------------------------------------
(* Time. A prompt network and prompt threads leave no work undone while it *)
(* passes, and a call is answered within MaxDelay.                         *)

Prompt ==
    \A c \in Clients : Alive(c) =>
        /\ timer[c] > 0
        /\ wire[c] # << >> \/ reply[c] # NoReply => CallTimeout - timer[c] < MaxDelay

Tick ==
    /\ net # "bad" => Prompt
    /\ lease' = IF lease.id = 0 \/ lease.age = MaxAge THEN lease ELSE [lease EXCEPT !.age = @ + 1]
    /\ timer' = [c \in Clients |-> IF timer[c] = 0 THEN 0 ELSE timer[c] - 1]
    /\ UNCHANGED <<net, ctx, pc, wire, reply, ask>>

Recover ==
    /\ net = "bad"
    /\ net' = "recovered"
    /\ UNCHANGED <<lease, ctx, pc, timer, wire, reply, ask>>

-----------------------------------------------------------------------------
ClientSteps(c) == Call(c) \/ ReceiveReply(c) \/ CallTimesOut(c)

Next ==
    \/ \E c \in Clients :
         \/ ClientSteps(c) \/ Crash(c)
         \/ Serve(c) \/ LoseRequest(c)
         \/ Ask(c)
    \/ Check \/ StartHandler \/ Tick \/ Recover

Spec == Init /\ [][Next]_vars

(* Threads run and time passes. In a bad network requests may still be     *)
(* lost and answers too.                                                   *)
Fairness ==
    /\ \A c \in Clients : WF_vars(ClientSteps(c)) /\ WF_vars(Serve(c))
    /\ WF_vars(Tick)

FairSpec == Spec /\ Fairness

-----------------------------------------------------------------------------
TypeOK ==
    /\ net \in {"prompt", "bad", "recovered"}
    /\ lease \in [id : Ids, age : 0 .. MaxAge]
    /\ ctx \in [Clients -> Ids]
    /\ pc \in [Clients -> {"waiting", "asleep", "crashed"}]
    /\ timer \in [Clients -> Nat]
    /\ \A c \in Clients :
         wire[c] \in Seq(Requests) /\ Len(wire[c]) <= MaxLate
    /\ ask \subseteq [client : Clients, id : Ids, admitted : BOOLEAN] /\ \A r, q \in ask : r = q
    /\ reply \in [Clients -> Replies \cup {NoReply}]

Holds(c) == ctx[c] # 0 /\ ctx[c] = lease.id

(* In a prompt network a client keeps its lease: it is renewed before it   *)
(* expires, however its renewals and the requests and applications of      *)
(* others interleave, so that what a client believes to hold it does hold. *)
KeepsLease ==
    net = "prompt" => \A c \in Clients : ctx[c] # 0 => Holds(c) /\ ~Expired

(* Types, and a lease that its holder keeps.                               *)
Inv == TypeOK /\ KeepsLease

Starts(r) == r.admitted /\ ask' = {}

(* The lease may expire and be granted anew between the check of a request *)
(* and the call of its handler, so that a handler may start while another  *)
(* client d holds the lease. Then it was admitted before d was granted it: *)
(* under that very lease only d's own requests start. And in a prompt      *)
(* network it was admitted without a lease or its client has crashed: the  *)
(* lease of a client that lives is renewed for as long as the handler is   *)
(* put off, and nobody else's.                                             *)
Exclusive ==
    [][\A d \in Clients, r \in ask :
          Starts(r) /\ Holds(d) /\ ~Expired /\ r.client # d =>
            /\ r.id # lease.id
            /\ net = "prompt" => r.id = 0 \/ ~Alive(r.client)]_vars

(* Once the network is prompt, a client gets the lease again and again     *)
(* while there is one left: the lease of one that crashed or was cut off   *)
(* expires, the one that lost it learns so, and a grant whose answer was   *)
(* lost blocks nobody for ever.                                            *)
LeaseIsHeld ==
    net # "bad" ~> (\E c \in Clients : Holds(c)) \/ ~\E c \in Clients : Alive(c)
=============================================================================
