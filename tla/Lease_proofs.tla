----------------------------- MODULE Lease_proofs -----------------------------
(* Machine-checked facts about Lease, for any number of clients and all    *)
(* times that satisfy TimesAssumption.                                     *)
EXTENDS Lease, TLAPS

(* The types of TypeOK, without its bounds.                                *)
Shapes ==
    /\ net \in {"prompt", "bad", "recovered"}
    /\ lease \in [id : Ids, age : 0 .. MaxAge]
    /\ ctx \in [Clients -> Ids]
    /\ pc \in [Clients -> {"waiting", "asleep", "crashed"}]
    /\ timer \in [Clients -> Nat]
    /\ wire \in [Clients -> Seq(Requests)]
    /\ \A c \in Clients : Len(wire[c]) <= MaxLate
    /\ ask \subseteq [client : Clients, id : Ids, admitted : BOOLEAN]
    /\ \A r, q \in ask : r = q
    /\ reply \in [Clients -> Replies \cup {NoReply}]

(* Where a client, or what it has under way, knows an id.                  *)
Knows(c, i) ==
    \/ ctx[c] = i
    \/ \E k \in DOMAIN wire[c] : wire[c][k].id = i
    \/ reply[c].id = i
    \/ \E r \in ask : r.client = c /\ r.id = i

(* No two clients know the same id.                                        *)
Apart ==
    \A c, d \in Clients, i \in Ids \ {0} : Knows(c, i) /\ Knows(d, i) => c = d

(* How long ago the call of a waiting client was made.                     *)
Elapsed(c) == CallTimeout - timer[c]

(* The server knows the id and its lease is not older than the bound.      *)
LeasedTo(i, age) == lease.id = i /\ lease.age <= age

(* A sleeping client has nothing under way, and its lease is as old as one *)
(* answer and the sleep so far.                                            *)
Asleep(c) ==
    /\ wire[c] = << >> /\ reply[c] = NoReply /\ timer[c] <= RenewWait
    /\ ctx[c] # 0 => LeasedTo(ctx[c], MaxDelay + RenewWait - timer[c])

(* The request of a waiting client is on its way, or its answer is.        *)
Requested(c) ==
    /\ wire[c] = <<[id |-> ctx[c], live |-> TRUE]>> /\ reply[c] = NoReply
    /\ ctx[c] # 0 => LeasedTo(ctx[c], MaxDelay + RenewWait + Elapsed(c))
AnsweredCall(c) ==
    /\ wire[c] = << >> /\ reply[c] # NoReply
    /\ ctx[c] # 0 => reply[c].code = "ok" /\ LeasedTo(ctx[c], Elapsed(c))
    /\ ctx[c] = 0 => /\ reply[c].code # "notexist"
                     /\ reply[c].code = "ok" =>
                          reply[c].id # 0 /\ LeasedTo(reply[c].id, Elapsed(c))

(* A prompt network answers every call within MaxDelay.                    *)
OnTime(c) ==
    /\ pc[c] = "asleep" => Asleep(c)
    /\ pc[c] = "waiting" => /\ timer[c] <= CallTimeout /\ Elapsed(c) <= MaxDelay
                            /\ Requested(c) \/ AnsweredCall(c)
    /\ pc[c] = "crashed" => ctx[c] = 0
Prompted == net = "prompt" => \A c \in Clients : OnTime(c)

(* The inductive invariant.                                                *)
IInv == Shapes /\ Apart /\ Prompted

-----------------------------------------------------------------------------
(* The sequences of requests.                                              *)
LEMMA WireFacts ==
    ASSUME Shapes, NEW c \in Clients
    PROVE  /\ wire[c] \in Seq(Requests) /\ Len(wire[c]) \in Nat /\ Len(wire[c]) <= MaxLate
           /\ DOMAIN wire[c] = 1 .. Len(wire[c])
           /\ \A k \in DOMAIN wire[c] : wire[c][k] \in Requests
BY DEF Shapes

LEMMA StaleFacts ==
    ASSUME NEW s \in Seq(Requests)
    PROVE  LET t == [k \in DOMAIN s |-> Stale(s[k])]
           IN  /\ t \in Seq(Requests) /\ Len(t) = Len(s) /\ DOMAIN t = DOMAIN s
               /\ \A k \in DOMAIN t : t[k].id = s[k].id
<1>1. \A k \in DOMAIN s : s[k] \in Requests
  OBVIOUS
<1>2. \A r \in Requests : Stale(r) \in Requests /\ Stale(r).id = r.id
  BY DEF Requests, Stale
<1>3. DOMAIN s = 1 .. Len(s) /\ Len(s) \in Nat
  OBVIOUS
<1> DEFINE t == [k \in DOMAIN s |-> Stale(s[k])]
<1>4. \A k \in DOMAIN s : t[k] = Stale(s[k]) /\ t[k] \in Requests /\ t[k].id = s[k].id
  BY <1>1, <1>2
<1>5. t \in [1 .. Len(s) -> Requests]
  BY <1>3, <1>4
<1>6. DOMAIN t = DOMAIN s
  OBVIOUS
<1> HIDE DEF t
<1>7. t \in Seq(Requests) /\ Len(t) = Len(s)
  BY <1>3, <1>5
<1>8. QED
  BY <1>4, <1>6, <1>7 DEF t

LEMMA TailFacts ==
    ASSUME NEW s \in Seq(Requests), s # << >>
    PROVE  /\ Tail(s) \in Seq(Requests) /\ Len(Tail(s)) = Len(s) - 1 /\ Head(s) \in Requests
           /\ Len(s) \in Nat \ {0} /\ Head(s) = s[1] /\ 1 \in DOMAIN s
           /\ \A k \in DOMAIN Tail(s) : k + 1 \in DOMAIN s /\ Tail(s)[k] = s[k + 1]
OBVIOUS

LEMMA AppendFacts ==
    ASSUME NEW s \in Seq(Requests), NEW r \in Requests
    PROVE  /\ Append(s, r) \in Seq(Requests) /\ Len(Append(s, r)) = Len(s) + 1
           /\ Len(s) \in Nat /\ Append(s, r) # << >>
           /\ \A k \in DOMAIN Append(s, r) :
                Append(s, r)[k] = r \/ (k \in DOMAIN s /\ Append(s, r)[k] = s[k])
<1>1. /\ Append(s, r) \in Seq(Requests) /\ Len(Append(s, r)) = Len(s) + 1 /\ Len(s) \in Nat
      /\ Append(s, r)[Len(s) + 1] = r
      /\ \A k \in 1 .. Len(s) : Append(s, r)[k] = s[k]
      /\ DOMAIN Append(s, r) = 1 .. (Len(s) + 1) /\ DOMAIN s = 1 .. Len(s)
  OBVIOUS
<1>2. QED
  BY <1>1

(* A fresh id is known to nobody.                                          *)
LEMMA FreshFacts ==
    ASSUME Shapes, FreshIds # {}
    PROVE  /\ GenerateId \in Ids \ {0}
           /\ \A c \in Clients : ~Knows(c, GenerateId)
<1>1. GenerateId \in FreshIds
  BY DEF GenerateId
<1>2. GenerateId \in Ids \ {0} /\ GenerateId \notin KnownIds
  BY <1>1 DEF FreshIds
<1>3. ASSUME NEW c \in Clients, Knows(c, GenerateId) PROVE FALSE
  <2>1. CASE ctx[c] = GenerateId
    BY <1>2, <2>1 DEF KnownIds
  <2>2. CASE \E k \in DOMAIN wire[c] : wire[c][k].id = GenerateId
    <3>1. PICK k \in DOMAIN wire[c] : wire[c][k].id = GenerateId
      BY <2>2
    <3>2. wire[c][k] \in UNION {{wire[e][i] : i \in DOMAIN wire[e]} : e \in Clients}
      OBVIOUS
    <3>3. QED
      BY <1>2, <3>1, <3>2 DEF KnownIds
  <2>3. CASE reply[c].id = GenerateId
    BY <1>2, <2>3 DEF KnownIds
  <2>4. CASE \E r \in ask : r.client = c /\ r.id = GenerateId
    BY <1>2, <2>4 DEF KnownIds
  <2>5. QED
    BY <1>3, <2>1, <2>2, <2>3, <2>4 DEF Knows
<1>4. QED
  BY <1>2, <1>3

LEMMA KnowsLess ==
    ASSUME Apart, \A c \in Clients, i \in Ids \ {0} : Knows(c, i)' => Knows(c, i)
    PROVE  Apart'
BY DEF Apart

LEMMA Times ==
    /\ Term \in Nat \ {0} /\ RenewWait \in Nat \ {0} /\ CallTimeout \in Nat \ {0}
    /\ MaxDelay \in Nat \ {0} /\ MaxLate \in Nat \ {0} /\ MaxId \in Nat \ {0}
    /\ RenewWait + 2 * MaxDelay <= Term /\ MaxDelay < CallTimeout
BY TimesAssumption

(* What a prompt network means for a lease: its holder's has not expired.  *)
LEMMA NotExpired ==
    ASSUME Shapes, Prompted, net = "prompt", NEW c \in Clients, ctx[c] # 0
    PROVE  Holds(c) /\ ~Expired /\ lease.id # 0
<1>1. OnTime(c) /\ timer[c] \in Nat /\ lease.age \in Nat /\ pc[c] \in {"waiting", "asleep", "crashed"}
  BY DEF Prompted, Shapes
<1>2. pc[c] # "crashed"
  BY <1>1 DEF OnTime
<1>3. lease.id = ctx[c] /\ lease.age <= Term
  <2>1. CASE pc[c] = "asleep"
    BY <1>1, <2>1, Times DEF OnTime, Asleep, LeasedTo
  <2>2. CASE pc[c] = "waiting" /\ Requested(c)
    BY <1>1, <2>2, Times DEF OnTime, Requested, LeasedTo, Elapsed
  <2>3. CASE pc[c] = "waiting" /\ AnsweredCall(c)
    BY <1>1, <2>3, Times DEF OnTime, AnsweredCall, LeasedTo, Elapsed
  <2>4. QED
    BY <1>1, <1>2, <2>1, <2>2, <2>3 DEF OnTime
<1>4. QED
  BY <1>1, <1>3, Times DEF Holds, Expired

-----------------------------------------------------------------------------
(* What a step does not touch.                                             *)
LEMMA KnowsFrame ==
    ASSUME NEW e, NEW i, ctx'[e] = ctx[e], wire'[e] = wire[e], reply'[e] = reply[e], ask' = ask,
           Knows(e, i)'
    PROVE  Knows(e, i)
BY DEF Knows

(* A lease that has not expired stays with its holder, or gets younger.    *)
Kept ==
    lease.id # 0 /\ lease.age <= Term => lease'.id = lease.id /\ lease'.age <= lease.age

LEMMA LeaseFacts ==
    ASSUME Shapes
    PROVE  lease.id \in Ids /\ lease.id \in Nat /\ lease.age \in Nat /\ MaxAge \in Nat
BY Times DEF Shapes, Ids, MaxAge

LEMMA OnTimeFrame ==
    ASSUME Shapes, lease' \in [id : Ids, age : 0 .. MaxAge], NEW c \in Clients, OnTime(c), Kept,
           pc'[c] = pc[c], timer'[c] = timer[c], ctx'[c] = ctx[c], wire'[c] = wire[c],
           reply'[c] = reply[c]
    PROVE  OnTime(c)'
<1>1. /\ lease.id \in Nat /\ lease.age \in Nat /\ lease'.age \in Nat /\ timer[c] \in Nat
  BY LeaseFacts, Times DEF Shapes, MaxAge
<1>2. ASSUME NEW i, NEW n \in Int, n <= Term, i # 0, LeasedTo(i, n)
      PROVE  lease'.id = i /\ lease'.age <= n
  BY <1>1, <1>2, Times DEF LeasedTo, Kept
<1>3. CASE pc[c] = "asleep"
  <2>1. Asleep(c) /\ MaxDelay + RenewWait - timer[c] \in Int
        /\ MaxDelay + RenewWait - timer[c] <= Term
    BY <1>1, <1>3, Times DEF OnTime
  <2>2. ctx[c] # 0 => lease'.id = ctx[c] /\ lease'.age <= MaxDelay + RenewWait - timer[c]
    BY <1>2, <2>1 DEF Asleep
  <2>3. QED
    BY <1>3, <2>1, <2>2 DEF OnTime, Asleep, LeasedTo
<1>4. CASE pc[c] = "waiting"
  <2>1. /\ Elapsed(c) \in Int /\ Elapsed(c) <= MaxDelay /\ timer[c] <= CallTimeout
        /\ MaxDelay + RenewWait + Elapsed(c) \in Int
        /\ MaxDelay + RenewWait + Elapsed(c) <= Term /\ Elapsed(c) <= Term
        /\ Elapsed(c)' = Elapsed(c)
    BY <1>1, <1>4, Times DEF OnTime, Elapsed
  <2>2. CASE Requested(c)
    <3>1. ctx[c] # 0 => /\ lease'.id = ctx[c]
                        /\ lease'.age <= MaxDelay + RenewWait + Elapsed(c)
      BY <1>2, <2>1, <2>2 DEF Requested
    <3>2. Requested(c)'
      BY <2>1, <2>2, <3>1 DEF Requested, LeasedTo
    <3>3. QED
      BY <1>4, <2>1, <3>2 DEF OnTime
  <2>3. CASE AnsweredCall(c)
    <3>1. /\ ctx[c] # 0 => lease'.id = ctx[c] /\ lease'.age <= Elapsed(c)
          /\ ctx[c] = 0 /\ reply[c].code = "ok" =>
               lease'.id = reply[c].id /\ lease'.age <= Elapsed(c)
      BY <1>2, <2>1, <2>3 DEF AnsweredCall
    <3>2. AnsweredCall(c)'
      BY <2>1, <2>3, <3>1 DEF AnsweredCall, LeasedTo
    <3>3. QED
      BY <1>4, <2>1, <3>2 DEF OnTime
  <2>4. QED
    BY <1>4, <2>2, <2>3 DEF OnTime
<1>5. CASE pc[c] = "crashed"
  BY <1>5 DEF OnTime
<1>6. QED
  BY <1>3, <1>4, <1>5 DEF Shapes

-----------------------------------------------------------------------------
LEMMA CallInv ==
    ASSUME IInv, NEW c \in Clients, Call(c)
    PROVE  IInv'
<1> DEFINE request == [id |-> ctx[c], live |-> TRUE]
           sent == Append(wire[c], request)
           new == IF Len(sent) > MaxLate THEN Tail(sent) ELSE sent
<1>1. /\ pc[c] = "asleep" /\ timer[c] = 0
      /\ pc' = [pc EXCEPT ![c] = "waiting"] /\ timer' = [timer EXCEPT ![c] = CallTimeout]
      /\ wire' = [wire EXCEPT ![c] = new]
      /\ net' = net /\ lease' = lease /\ ctx' = ctx /\ reply' = reply /\ ask' = ask
  BY DEF Call
<1>2. /\ Shapes /\ wire[c] \in Seq(Requests) /\ Len(wire[c]) <= MaxLate
      /\ request \in Requests /\ request.id = ctx[c]
  BY WireFacts DEF IInv, Shapes, Requests
<1>3. /\ sent \in Seq(Requests) /\ Len(sent) = Len(wire[c]) + 1 /\ Len(wire[c]) \in Nat
      /\ sent # << >>
      /\ \A k \in DOMAIN sent : sent[k] = request \/ (k \in DOMAIN wire[c] /\ sent[k] = wire[c][k])
  BY <1>2, AppendFacts
<1>4. /\ new \in Seq(Requests) /\ Len(new) <= MaxLate
      /\ \A k \in DOMAIN new :
           new[k].id = ctx[c] \/ \E j \in DOMAIN wire[c] : new[k].id = wire[c][j].id
  <2> HIDE DEF sent
  <2>1. CASE Len(sent) > MaxLate
    BY <1>2, <1>3, <2>1, TailFacts, Times
  <2>2. CASE ~(Len(sent) > MaxLate)
    BY <1>2, <1>3, <2>2, Times
  <2>3. QED
    BY <2>1, <2>2
<1>5. ASSUME wire[c] = << >> PROVE new = <<request>>
  <2> HIDE DEF request
  <2>1. sent = <<request>> /\ Len(<<request>>) = 1
    BY <1>5
  <2> HIDE DEF sent
  <2>2. ~(Len(sent) > MaxLate)
    BY <2>1, Times
  <2>3. QED
    BY <2>1, <2>2
<1> HIDE DEF new, sent, request
<1>6. /\ wire'[c] = new /\ pc'[c] = "waiting" /\ timer'[c] = CallTimeout
      /\ \A e \in Clients \ {c} :
           wire'[e] = wire[e] /\ pc'[e] = pc[e] /\ timer'[e] = timer[e]
  BY <1>1, <1>2 DEF Shapes
<1>7. Shapes'
  <2>1. /\ wire' \in [Clients -> Seq(Requests)] /\ \A e \in Clients : Len(wire'[e]) <= MaxLate
    BY <1>1, <1>2, <1>4, <1>6 DEF Shapes
  <2>2. /\ pc' \in [Clients -> {"waiting", "asleep", "crashed"}] /\ timer' \in [Clients -> Nat]
    BY <1>1, <1>2, Times DEF Shapes
  <2>3. QED
    BY <1>1, <1>2, <2>1, <2>2 DEF Shapes
<1>8. Apart'
  <2>1. ASSUME NEW e \in Clients, NEW i \in Ids \ {0}, Knows(e, i)' PROVE Knows(e, i)
    <3>1. CASE e = c
      BY <1>1, <1>4, <1>6, <2>1, <3>1 DEF Knows
    <3>2. CASE e # c
      BY <1>1, <1>6, <2>1, <3>2, KnowsFrame
    <3>3. QED
      BY <3>1, <3>2
  <2>2. QED
    BY <2>1, KnowsLess DEF IInv
<1>9. Prompted'
  <2> SUFFICES ASSUME net = "prompt", NEW e \in Clients PROVE OnTime(e)'
    BY <1>1 DEF Prompted
  <2>1. OnTime(e) /\ Kept
    BY <1>1, LeaseFacts DEF IInv, Prompted, Kept
  <2>2. CASE e = c
    <3>1. /\ wire[c] = << >> /\ reply[c] = NoReply
          /\ ctx[c] # 0 => LeasedTo(ctx[c], MaxDelay + RenewWait)
      BY <1>1, <2>1, <2>2, Times DEF OnTime, Asleep
    <3>2. Elapsed(c)' = 0 /\ timer'[c] <= CallTimeout
      BY <1>6, Times DEF Elapsed
    <3>3. Requested(c)'
      <4>1. wire'[c] = <<[id |-> ctx'[c], live |-> TRUE]>> /\ reply'[c] = NoReply
        BY <1>1, <1>5, <1>6, <3>1 DEF request
      <4>2. ctx'[c] # 0 => LeasedTo(ctx[c], MaxDelay + RenewWait)'
        BY <1>1, <3>1 DEF LeasedTo
      <4>3. MaxDelay + RenewWait + Elapsed(c)' = MaxDelay + RenewWait
        BY <3>2, Times
      <4>4. QED
        BY <1>1, <4>1, <4>2, <4>3 DEF Requested, LeasedTo
    <3>4. QED
      BY <1>6, <2>2, <3>2, <3>3, Times DEF OnTime
  <2>3. CASE e # c
    BY <1>1, <1>2, <1>6, <1>7, <2>1, <2>3, OnTimeFrame DEF Shapes
  <2>4. QED
    BY <2>2, <2>3
<1>10. QED
  BY <1>7, <1>8, <1>9 DEF IInv

LEMMA ReceiveInv ==
    ASSUME IInv, NEW c \in Clients, ReceiveReply(c)
    PROVE  IInv'
<1>1. /\ pc[c] = "waiting" /\ reply[c] # NoReply
      /\ pc' = [pc EXCEPT ![c] = "asleep"] /\ timer' = [timer EXCEPT ![c] = RenewWait]
      /\ reply' = [reply EXCEPT ![c] = NoReply]
      /\ net' = net /\ lease' = lease /\ wire' = wire /\ ask' = ask
      /\ ctx' = CASE ctx[c] = 0 /\ reply[c].code = "ok" -> [ctx EXCEPT ![c] = reply[c].id]
                  [] reply[c].code = "notexist" -> [ctx EXCEPT ![c] = 0]
                  [] OTHER -> ctx
  BY DEF ReceiveReply, Sleep
<1>2. /\ Shapes /\ reply[c] \in Replies /\ reply[c].id \in Ids /\ ctx[c] \in Ids /\ 0 \in Ids
      /\ NoReply.id = 0
  <2>1. Shapes /\ reply[c] \in Replies \cup {NoReply} /\ ctx[c] \in Ids
    BY DEF IInv, Shapes
  <2>2. reply[c] \in Replies
    BY <1>1, <2>1
  <2>3. reply[c].id \in Ids
    BY <2>2 DEF Replies
  <2>4. 0 \in Ids
    BY Times DEF Ids
  <2>5. QED
    BY <2>1, <2>2, <2>3, <2>4 DEF NoReply
<1>3. PICK n \in Ids :
        /\ ctx' = [ctx EXCEPT ![c] = n]
        /\ \/ ctx[c] = 0 /\ reply[c].code = "ok" /\ n = reply[c].id
           \/ ~(ctx[c] = 0 /\ reply[c].code = "ok") /\ reply[c].code = "notexist" /\ n = 0
           \/ ~(ctx[c] = 0 /\ reply[c].code = "ok") /\ reply[c].code # "notexist" /\ n = ctx[c]
  <2>1. CASE ctx[c] = 0 /\ reply[c].code = "ok"
    BY <1>1, <1>2, <2>1
  <2>2. CASE ~(ctx[c] = 0 /\ reply[c].code = "ok") /\ reply[c].code = "notexist"
    BY <1>1, <1>2, <2>2
  <2>3. CASE ~(ctx[c] = 0 /\ reply[c].code = "ok") /\ reply[c].code # "notexist"
    <3>1. ctx' = ctx /\ ctx = [ctx EXCEPT ![c] = ctx[c]]
      BY <1>1, <1>2, <2>3 DEF Shapes
    <3>2. QED
      BY <1>2, <2>3, <3>1
  <2>4. QED
    BY <2>1, <2>2, <2>3
<1>4. /\ ctx'[c] = n /\ pc'[c] = "asleep" /\ timer'[c] = RenewWait /\ reply'[c] = NoReply
      /\ \A e \in Clients \ {c} :
           ctx'[e] = ctx[e] /\ reply'[e] = reply[e] /\ pc'[e] = pc[e] /\ timer'[e] = timer[e]
  BY <1>1, <1>2, <1>3 DEF Shapes
<1>5. Shapes'
  <2>1. /\ pc' \in [Clients -> {"waiting", "asleep", "crashed"}] /\ timer' \in [Clients -> Nat]
        /\ ctx' \in [Clients -> Ids] /\ reply' \in [Clients -> Replies \cup {NoReply}]
    BY <1>1, <1>2, <1>3, Times DEF Shapes
  <2>2. QED
    BY <1>1, <1>2, <2>1 DEF Shapes
<1>6. Apart'
  <2>1. ASSUME NEW e \in Clients, NEW i \in Ids \ {0}, Knows(e, i)' PROVE Knows(e, i)
    <3>1. CASE e = c
      BY <1>1, <1>2, <1>3, <1>4, <2>1, <3>1 DEF Knows
    <3>2. CASE e # c
      BY <1>1, <1>4, <2>1, <3>2, KnowsFrame
    <3>3. QED
      BY <3>1, <3>2
  <2>2. QED
    BY <2>1, KnowsLess DEF IInv
<1>7. Prompted'
  <2> SUFFICES ASSUME net = "prompt", NEW e \in Clients PROVE OnTime(e)'
    BY <1>1 DEF Prompted
  <2>1. OnTime(e) /\ Kept
    BY <1>1, LeaseFacts DEF IInv, Prompted, Kept
  <2>2. CASE e = c
    <3>1. AnsweredCall(c) /\ Elapsed(c) <= MaxDelay
      BY <1>1, <2>1, <2>2 DEF OnTime, Requested
    <3>2. Elapsed(c) \in Int /\ lease.age \in Nat
      BY <1>2, LeaseFacts, Times DEF Shapes, Elapsed
    <3>3. n # 0 => LeasedTo(n, Elapsed(c))
      BY <1>3, <3>1 DEF AnsweredCall
    <3>4. n # 0 => lease.id = n /\ lease.age <= MaxDelay + RenewWait - RenewWait
      BY <3>1, <3>2, <3>3, Times DEF LeasedTo
    <3>5. Asleep(c)'
      BY <1>1, <1>4, <3>1, <3>4, Times DEF Asleep, AnsweredCall, LeasedTo
    <3>6. QED
      BY <1>4, <2>2, <3>5 DEF OnTime
  <2>3. CASE e # c
    BY <1>1, <1>2, <1>4, <1>5, <2>1, <2>3, OnTimeFrame DEF Shapes
  <2>4. QED
    BY <2>2, <2>3
<1>8. QED
  BY <1>5, <1>6, <1>7 DEF IInv

(* A call that timed out, or a process that ended: what was sent goes on.  *)
LEMMA StaleInv ==
    ASSUME IInv, NEW c \in Clients, CallTimesOut(c) \/ Crash(c)
    PROVE  IInv'
<1> DEFINE new == [i \in DOMAIN wire[c] |-> Stale(wire[c][i])]
<1>1. /\ wire' = [wire EXCEPT ![c] = new] /\ reply' = [reply EXCEPT ![c] = NoReply]
      /\ net' = net /\ lease' = lease /\ ask' = ask
  BY DEF CallTimesOut, Crash, Sleep
<1>2. PICK p \in {"asleep", "crashed"}, t \in {0, RenewWait}, n \in {0, ctx[c]} :
        /\ pc' = [pc EXCEPT ![c] = p] /\ timer' = [timer EXCEPT ![c] = t]
        /\ ctx' = [ctx EXCEPT ![c] = n]
        /\ \/ p = "crashed" /\ n = 0
           \/ p = "asleep" /\ pc[c] = "waiting" /\ timer[c] = 0
  <2>1. CASE CallTimesOut(c)
    <3>1. ctx' = [ctx EXCEPT ![c] = ctx[c]]
      BY <2>1 DEF CallTimesOut, Sleep, IInv, Shapes
    <3>2. QED
      BY <2>1, <3>1 DEF CallTimesOut, Sleep
  <2>2. CASE Crash(c)
    BY <2>2 DEF Crash
  <2>3. QED
    BY <2>1, <2>2
<1>3. /\ Shapes /\ wire[c] \in Seq(Requests) /\ Len(wire[c]) <= MaxLate /\ 0 \in Ids
      /\ ctx[c] \in Ids /\ NoReply.id = 0
  BY WireFacts, Times DEF IInv, Shapes, Ids, NoReply
<1>4. /\ new \in Seq(Requests) /\ Len(new) = Len(wire[c]) /\ DOMAIN new = DOMAIN wire[c]
      /\ \A k \in DOMAIN new : new[k].id = wire[c][k].id
  BY <1>3, StaleFacts
<1> HIDE DEF new
<1>5. /\ wire'[c] = new /\ reply'[c] = NoReply /\ pc'[c] = p /\ ctx'[c] = n
      /\ \A e \in Clients \ {c} : /\ wire'[e] = wire[e] /\ reply'[e] = reply[e]
                                  /\ pc'[e] = pc[e] /\ timer'[e] = timer[e] /\ ctx'[e] = ctx[e]
  BY <1>1, <1>2, <1>3 DEF Shapes
<1>6. Shapes'
  <2>1. /\ wire' \in [Clients -> Seq(Requests)] /\ \A e \in Clients : Len(wire'[e]) <= MaxLate
    BY <1>1, <1>3, <1>4, <1>5 DEF Shapes
  <2>2. /\ pc' \in [Clients -> {"waiting", "asleep", "crashed"}] /\ timer' \in [Clients -> Nat]
        /\ ctx' \in [Clients -> Ids] /\ reply' \in [Clients -> Replies \cup {NoReply}]
    BY <1>1, <1>2, <1>3, Times DEF Shapes
  <2>3. QED
    BY <1>1, <1>3, <2>1, <2>2 DEF Shapes
<1>7. Apart'
  <2>1. ASSUME NEW e \in Clients, NEW i \in Ids \ {0}, Knows(e, i)' PROVE Knows(e, i)
    <3>1. CASE e = c
      BY <1>1, <1>2, <1>3, <1>4, <1>5, <2>1, <3>1 DEF Knows
    <3>2. CASE e # c
      BY <1>1, <1>5, <2>1, <3>2, KnowsFrame
    <3>3. QED
      BY <3>1, <3>2
  <2>2. QED
    BY <2>1, KnowsLess DEF IInv
<1>8. Prompted'
  <2> SUFFICES ASSUME net = "prompt", NEW e \in Clients PROVE OnTime(e)'
    BY <1>1 DEF Prompted
  <2>1. OnTime(e) /\ Kept
    BY <1>1, LeaseFacts DEF IInv, Prompted, Kept
  <2>2. CASE e = c
    <3>1. p = "crashed"
      BY <1>2, <2>1, <2>2, Times DEF OnTime, Elapsed
    <3>2. QED
      BY <1>2, <1>5, <2>2, <3>1 DEF OnTime
  <2>3. CASE e # c
    BY <1>1, <1>3, <1>5, <1>6, <2>1, <2>3, OnTimeFrame DEF Shapes
  <2>4. QED
    BY <2>2, <2>3
<1>9. QED
  BY <1>6, <1>7, <1>8 DEF IInv

LEMMA LoseInv ==
    ASSUME IInv, NEW c \in Clients, LoseRequest(c)
    PROVE  IInv'
<1>1. /\ net = "bad" /\ wire[c] # << >> /\ wire' = [wire EXCEPT ![c] = Tail(wire[c])]
      /\ net' = net /\ lease' = lease /\ ctx' = ctx /\ pc' = pc /\ timer' = timer
      /\ reply' = reply /\ ask' = ask
  BY DEF LoseRequest
<1>2. /\ Shapes /\ Tail(wire[c]) \in Seq(Requests) /\ Len(Tail(wire[c])) <= MaxLate
      /\ \A k \in DOMAIN Tail(wire[c]) :
           k + 1 \in DOMAIN wire[c] /\ Tail(wire[c])[k] = wire[c][k + 1]
  BY <1>1, WireFacts, TailFacts, Times DEF IInv
<1>3. wire'[c] = Tail(wire[c]) /\ \A e \in Clients \ {c} : wire'[e] = wire[e]
  BY <1>1, <1>2 DEF Shapes
<1>4. Shapes'
  <2>1. wire' \in [Clients -> Seq(Requests)] /\ \A e \in Clients : Len(wire'[e]) <= MaxLate
    BY <1>1, <1>2, <1>3 DEF Shapes
  <2>2. QED
    BY <1>1, <1>2, <2>1 DEF Shapes
<1>5. Apart'
  <2>1. ASSUME NEW e \in Clients, NEW i \in Ids \ {0}, Knows(e, i)' PROVE Knows(e, i)
    <3>1. CASE e = c
      BY <1>1, <1>2, <1>3, <2>1, <3>1 DEF Knows
    <3>2. CASE e # c
      BY <1>1, <1>3, <2>1, <3>2, KnowsFrame
    <3>3. QED
      BY <3>1, <3>2
  <2>2. QED
    BY <2>1, KnowsLess DEF IInv
<1>6. QED
  BY <1>1, <1>4, <1>5 DEF IInv, Prompted

LEMMA RecoverInv ==
    ASSUME IInv, Recover
    PROVE  IInv'
<1>1. /\ net' = "recovered" /\ lease' = lease /\ ctx' = ctx /\ pc' = pc /\ timer' = timer
      /\ wire' = wire /\ reply' = reply /\ ask' = ask
  BY DEF Recover
<1>2. Shapes'
  BY <1>1 DEF IInv, Shapes
<1>3. Apart'
  BY <1>1, KnowsFrame, KnowsLess DEF IInv
<1>4. QED
  BY <1>1, <1>2, <1>3 DEF IInv, Prompted

-----------------------------------------------------------------------------
(* What the lease server makes of the lease, and what it answers.          *)
LEMMA ServeFacts ==
    ASSUME Shapes, FreshIds # {}, NEW i \in Ids
    PROVE  LET result == IF i = 0 THEN Applied ELSE Renewed(i)
           IN  /\ result.lease \in [id : Ids, age : 0 .. MaxAge]
               /\ result.reply \in Replies /\ result.reply # NoReply
               /\ result.reply.id \in {0, GenerateId}
               /\ lease.id # 0 /\ lease.age <= Term =>
                    result.lease.id = lease.id /\ result.lease.age <= lease.age
               /\ i # 0 /\ lease.id = i /\ lease.age <= Term =>
                    result.lease = [id |-> i, age |-> 0] /\ result.reply.code = "ok"
               /\ i = 0 => /\ result.reply.code # "notexist"
                           /\ result.reply.code = "ok" =>
                                /\ result.lease = [id |-> GenerateId, age |-> 0]
                                /\ result.reply.id = GenerateId
<1> DEFINE result == IF i = 0 THEN Applied ELSE Renewed(i)
<1>1. /\ lease \in [id : Ids, age : 0 .. MaxAge] /\ lease.id \in Ids /\ lease.age \in Nat
      /\ GenerateId \in Ids /\ 0 \in Ids /\ 0 \in 0 .. MaxAge
  BY LeaseFacts, FreshFacts, Times DEF Shapes, Ids, MaxAge
<1>2. CASE i = 0 /\ (lease.id = 0 \/ lease.age > Term)
  <2>1. result = [lease |-> [id |-> GenerateId, age |-> 0],
                  reply |-> [code |-> "ok", id |-> GenerateId]]
    BY <1>2 DEF Applied, Expired
  <2> HIDE DEF result
  <2>2. /\ result.lease = [id |-> GenerateId, age |-> 0]
        /\ result.reply = [code |-> "ok", id |-> GenerateId]
    BY <2>1
  <2>3. QED
    BY <1>1, <1>2, <2>2, Times DEF Replies, Codes, NoReply, None, result
<1>3. CASE i = 0 /\ ~(lease.id = 0 \/ lease.age > Term)
  <2>1. result = [lease |-> lease, reply |-> [code |-> "exists", id |-> 0]]
    BY <1>3 DEF Applied, Expired
  <2> HIDE DEF result
  <2>2. result.lease = lease /\ result.reply = [code |-> "exists", id |-> 0]
    BY <2>1
  <2>3. QED
    BY <1>1, <1>3, <2>2, Times DEF Replies, Codes, NoReply, None, result
<1>4. CASE i # 0 /\ lease.id # i
  <2>1. result = [lease |-> lease, reply |-> [code |-> "notexist", id |-> 0]]
    BY <1>4 DEF Renewed
  <2> HIDE DEF result
  <2>2. result.lease = lease /\ result.reply = [code |-> "notexist", id |-> 0]
    BY <2>1
  <2>3. QED
    BY <1>1, <1>4, <2>2, Times DEF Replies, Codes, NoReply, None, result
<1>5. CASE i # 0 /\ lease.id = i /\ lease.age > Term
  <2>1. result = [lease |-> NoLease, reply |-> [code |-> "notexist", id |-> 0]]
    BY <1>5 DEF Renewed, Expired
  <2> HIDE DEF result
  <2>2. result.lease = [id |-> 0, age |-> 0] /\ result.reply = [code |-> "notexist", id |-> 0]
    BY <2>1 DEF NoLease
  <2>3. QED
    BY <1>1, <1>5, <2>2, Times DEF Replies, Codes, NoReply, None, result
<1>6. CASE i # 0 /\ lease.id = i /\ ~(lease.age > Term)
  <2>1. result = [lease |-> [lease EXCEPT !.age = 0], reply |-> [code |-> "ok", id |-> 0]]
    BY <1>6 DEF Renewed, Expired
  <2>2. [lease EXCEPT !.age = 0] = [id |-> i, age |-> 0]
    BY <1>1, <1>6
  <2> HIDE DEF result
  <2>3. result.lease = [id |-> i, age |-> 0] /\ result.reply = [code |-> "ok", id |-> 0]
    BY <2>1, <2>2
  <2>4. QED
    BY <1>1, <1>6, <2>3, Times DEF Replies, Codes, NoReply, None, result
<1>7. QED
  BY <1>2, <1>3, <1>4, <1>5, <1>6

LEMMA ServeInv ==
    ASSUME IInv, NEW c \in Clients, Serve(c)
    PROVE  IInv'
<1> DEFINE i == Head(wire[c]).id
           result == IF i = 0 THEN Applied ELSE Renewed(i)
<1>1. /\ wire[c] # << >> /\ FreshIds # {}
      /\ lease' = result.lease
      /\ \/ Head(wire[c]).live /\ reply' = [reply EXCEPT ![c] = result.reply]
         \/ (~Head(wire[c]).live \/ net = "bad") /\ reply' = reply
      /\ wire' = [wire EXCEPT ![c] = Tail(wire[c])]
      /\ net' = net /\ ctx' = ctx /\ pc' = pc /\ timer' = timer /\ ask' = ask
  BY DEF Serve
<1>2. /\ Shapes /\ Tail(wire[c]) \in Seq(Requests) /\ Len(Tail(wire[c])) <= MaxLate
      /\ Head(wire[c]) = wire[c][1] /\ 1 \in DOMAIN wire[c] /\ i \in Ids
      /\ Len(Tail(wire[c])) = Len(wire[c]) - 1
      /\ \A k \in DOMAIN Tail(wire[c]) :
           k + 1 \in DOMAIN wire[c] /\ Tail(wire[c])[k] = wire[c][k + 1]
  <2>1. Shapes /\ wire[c] \in Seq(Requests) /\ wire[c] # << >> /\ Len(wire[c]) <= MaxLate
    BY <1>1, WireFacts DEF IInv
  <2>2. /\ Tail(wire[c]) \in Seq(Requests) /\ Len(Tail(wire[c])) = Len(wire[c]) - 1
        /\ Head(wire[c]) \in Requests /\ Len(wire[c]) \in Nat \ {0}
        /\ Head(wire[c]) = wire[c][1] /\ 1 \in DOMAIN wire[c]
        /\ \A k \in DOMAIN Tail(wire[c]) :
             k + 1 \in DOMAIN wire[c] /\ Tail(wire[c])[k] = wire[c][k + 1]
    BY <2>1, TailFacts
  <2>3. i \in Ids
    BY <2>2 DEF Requests
  <2>4. QED
    BY <2>1, <2>2, <2>3, Times
<1>3. /\ result.lease \in [id : Ids, age : 0 .. MaxAge]
      /\ result.reply \in Replies /\ result.reply # NoReply
      /\ result.reply.id \in {0, GenerateId}
      /\ lease.id # 0 /\ lease.age <= Term =>
           result.lease.id = lease.id /\ result.lease.age <= lease.age
      /\ i # 0 /\ lease.id = i /\ lease.age <= Term =>
           result.lease = [id |-> i, age |-> 0] /\ result.reply.code = "ok"
      /\ i = 0 => /\ result.reply.code # "notexist"
                  /\ result.reply.code = "ok" =>
                       /\ result.lease = [id |-> GenerateId, age |-> 0]
                       /\ result.reply.id = GenerateId
  BY <1>1, <1>2, ServeFacts
<1> HIDE DEF result
<1>4. /\ GenerateId \in Ids \ {0} /\ \A e \in Clients : ~Knows(e, GenerateId)
  BY <1>1, <1>2, FreshFacts
<1>5. /\ wire'[c] = Tail(wire[c]) /\ reply'[c] \in {reply[c], result.reply}
      /\ \A e \in Clients \ {c} : wire'[e] = wire[e] /\ reply'[e] = reply[e]
  BY <1>1, <1>2 DEF Shapes
<1>6. Shapes'
  <2>1. wire' \in [Clients -> Seq(Requests)] /\ \A e \in Clients : Len(wire'[e]) <= MaxLate
    BY <1>1, <1>2, <1>5 DEF Shapes
  <2>2. reply' \in [Clients -> Replies \cup {NoReply}]
    BY <1>1, <1>2, <1>3 DEF Shapes
  <2>3. QED
    BY <1>1, <1>2, <1>3, <2>1, <2>2 DEF Shapes
<1>7. Apart'
  <2>1. ASSUME NEW e \in Clients, NEW j \in Ids \ {0}, Knows(e, j)'
        PROVE  Knows(e, j) \/ (e = c /\ j = GenerateId)
    <3>1. CASE e = c
      BY <1>1, <1>2, <1>3, <1>5, <2>1, <3>1 DEF Knows
    <3>2. CASE e # c
      BY <1>1, <1>5, <2>1, <3>2, KnowsFrame
    <3>3. QED
      BY <3>1, <3>2
  <2>2. QED
    BY <1>4, <2>1 DEF IInv, Apart
<1>8. Prompted'
  <2> SUFFICES ASSUME net = "prompt", NEW e \in Clients PROVE OnTime(e)'
    BY <1>1 DEF Prompted
  <2>1. OnTime(e) /\ Kept
    BY <1>1, <1>3 DEF IInv, Prompted, Kept
  <2>2. CASE e = c
    <3>1. pc[c] # "asleep"
      BY <1>1, <2>1, <2>2 DEF OnTime, Asleep
    <3>2. CASE pc[c] = "crashed"
      BY <1>1, <2>1, <2>2, <3>2 DEF OnTime
    <3>3. CASE pc[c] = "waiting"
      <4>1. Requested(c) /\ timer[c] <= CallTimeout /\ Elapsed(c) <= MaxDelay /\ timer[c] \in Nat
        BY <1>1, <1>2, <2>1, <2>2, <3>3 DEF OnTime, AnsweredCall, Shapes
      <4>2. /\ i = ctx[c] /\ Head(wire[c]).live /\ Tail(wire[c]) = << >>
        BY <4>1 DEF Requested
      <4>3. wire'[c] = << >> /\ reply'[c] = result.reply
        BY <1>1, <1>2, <1>5, <4>2 DEF Shapes
      <4>4. Elapsed(c)' = Elapsed(c) /\ 0 <= Elapsed(c) /\ Elapsed(c) \in Int
        BY <1>1, <4>1, Times DEF Elapsed
      <4>5. ctx[c] # 0 => reply'[c].code = "ok" /\ lease' = [id |-> ctx[c], age |-> 0]
        <5>1. ctx[c] # 0 => lease.id = ctx[c] /\ lease.age <= Term
          BY <1>2, LeaseFacts, NotExpired, Times DEF IInv, Holds, Expired
        <5>2. QED
          BY <1>1, <1>3, <4>2, <4>3, <5>1
      <4>6. ctx[c] = 0 => /\ reply'[c].code # "notexist"
                          /\ reply'[c].code = "ok" =>
                               /\ reply'[c].id = GenerateId /\ GenerateId # 0
                               /\ lease' = [id |-> GenerateId, age |-> 0]
        BY <1>1, <1>3, <1>4, <4>2, <4>3
      <4>7. AnsweredCall(c)'
        BY <1>1, <1>3, <4>3, <4>4, <4>5, <4>6 DEF AnsweredCall, LeasedTo
      <4>8. QED
        BY <1>1, <2>2, <3>3, <4>1, <4>4, <4>7 DEF OnTime
    <3>4. QED
      BY <1>2, <3>1, <3>2, <3>3 DEF Shapes
  <2>3. CASE e # c
    BY <1>1, <1>2, <1>5, <1>6, <2>1, <2>3, OnTimeFrame DEF Shapes
  <2>4. QED
    BY <2>2, <2>3
<1>9. QED
  BY <1>6, <1>7, <1>8 DEF IInv

-----------------------------------------------------------------------------
(* Guarded requests.                                                       *)
LEMMA AskInv ==
    ASSUME IInv, NEW c \in Clients, Ask(c)
    PROVE  IInv'
<1>1. /\ ask' = {[client |-> c, id |-> ctx[c], admitted |-> FALSE]}
      /\ net' = net /\ lease' = lease /\ ctx' = ctx /\ pc' = pc /\ timer' = timer
      /\ wire' = wire /\ reply' = reply
  BY DEF Ask
<1>2. Shapes'
  BY <1>1 DEF IInv, Shapes
<1>3. Apart'
  <2>1. ASSUME NEW e \in Clients, NEW i \in Ids \ {0}, Knows(e, i)' PROVE Knows(e, i)
    BY <1>1, <2>1 DEF Knows
  <2>2. QED
    BY <2>1, KnowsLess DEF IInv
<1>4. Prompted'
  <2> SUFFICES ASSUME net = "prompt", NEW e \in Clients PROVE OnTime(e)'
    BY <1>1 DEF Prompted
  <2>1. Shapes /\ OnTime(e) /\ Kept
    BY <1>1, LeaseFacts DEF IInv, Prompted, Kept
  <2>2. QED
    BY <1>1, <1>2, <2>1, OnTimeFrame DEF Shapes
<1>5. QED
  BY <1>2, <1>3, <1>4 DEF IInv

(* A request is admitted under the lease that is held: its own, or none.   *)
LEMMA CheckAdmits ==
    ASSUME Check
    PROVE  \E r \in ask :
             /\ ask' \subseteq {[client |-> r.client, id |-> lease'.id, admitted |-> TRUE]}
             /\ ask' # {} => lease'.id \in {r.id, 0}
<1>1. PICK r \in ask :
        ask' = IF Denied(r.id) THEN {}
               ELSE {[client |-> r.client, id |-> lease'.id, admitted |-> TRUE]}
  BY DEF Check
<1>2. ~Denied(r.id) => lease'.id \in {r.id, 0}
  BY DEF Check, Denied, NoLease
<1>3. QED
  BY <1>1, <1>2

LEMMA CheckInv ==
    ASSUME IInv, Check
    PROVE  IInv'
<1>1. /\ net' = net /\ ctx' = ctx /\ pc' = pc /\ timer' = timer /\ wire' = wire
      /\ reply' = reply
  BY DEF Check
<1>2. PICK r \in ask : ask' \subseteq {[client |-> r.client, id |-> lease'.id, admitted |-> TRUE]}
                        /\ (ask' # {} => lease'.id \in {r.id, 0})
  BY CheckAdmits
<1>3. /\ Shapes /\ r \in [client : Clients, id : Ids, admitted : BOOLEAN] /\ 0 \in Ids
  BY Times DEF IInv, Shapes, Ids
<1>4. lease' = lease \/ (lease.id # 0 /\ lease.age > Term /\ lease' = [id |-> 0, age |-> 0])
  BY DEF Check, Expired, NoLease
<1>5. Kept /\ lease' \in [id : Ids, age : 0 .. MaxAge]
  <2>1. 0 \in 0 .. MaxAge
    BY Times DEF MaxAge
  <2>2. QED
    BY <1>3, <1>4, <2>1, LeaseFacts, Times DEF Kept, Shapes
<1>6. lease'.id \in Ids
  BY <1>5
<1>7. Shapes'
  <2>1. [client |-> r.client, id |-> lease'.id, admitted |-> TRUE]
          \in [client : Clients, id : Ids, admitted : BOOLEAN]
    BY <1>3, <1>6
  <2>2. QED
    BY <1>1, <1>2, <1>3, <1>5, <2>1 DEF Shapes
<1>8. Apart'
  <2>1. ASSUME NEW e \in Clients, NEW i \in Ids \ {0}, Knows(e, i)' PROVE Knows(e, i)
    BY <1>1, <1>2, <2>1 DEF Knows
  <2>2. QED
    BY <2>1, KnowsLess DEF IInv
<1>9. Prompted'
  <2> SUFFICES ASSUME net = "prompt", NEW e \in Clients PROVE OnTime(e)'
    BY <1>1 DEF Prompted
  <2>1. OnTime(e)
    BY DEF IInv, Prompted
  <2>2. QED
    BY <1>1, <1>3, <1>5, <2>1, OnTimeFrame
<1>10. QED
  BY <1>7, <1>8, <1>9 DEF IInv

LEMMA StartInv ==
    ASSUME IInv, StartHandler
    PROVE  IInv'
<1>1. /\ ask' = {} /\ net' = net /\ lease' = lease /\ ctx' = ctx /\ pc' = pc /\ timer' = timer
      /\ wire' = wire /\ reply' = reply
  BY DEF StartHandler
<1>2. Shapes'
  BY <1>1 DEF IInv, Shapes
<1>3. Apart'
  <2>1. ASSUME NEW e \in Clients, NEW i \in Ids \ {0}, Knows(e, i)' PROVE Knows(e, i)
    BY <1>1, <2>1 DEF Knows
  <2>2. QED
    BY <2>1, KnowsLess DEF IInv
<1>4. Prompted'
  <2> SUFFICES ASSUME net = "prompt", NEW e \in Clients PROVE OnTime(e)'
    BY <1>1 DEF Prompted
  <2>1. Shapes /\ OnTime(e) /\ Kept
    BY <1>1, LeaseFacts DEF IInv, Prompted, Kept
  <2>2. QED
    BY <1>1, <1>2, <2>1, OnTimeFrame DEF Shapes
<1>5. QED
  BY <1>2, <1>3, <1>4 DEF IInv

-----------------------------------------------------------------------------
(* A tick makes the lease older by one and every wait shorter by one.      *)
LEMMA TickInv ==
    ASSUME IInv, Tick
    PROVE  IInv'
<1>1. /\ net # "bad" => Prompt
      /\ lease' = IF lease.id = 0 \/ lease.age = MaxAge THEN lease
                  ELSE [lease EXCEPT !.age = lease.age + 1]
      /\ timer' = [c \in Clients |-> IF timer[c] = 0 THEN 0 ELSE timer[c] - 1]
      /\ net' = net /\ ctx' = ctx /\ pc' = pc /\ wire' = wire /\ reply' = reply /\ ask' = ask
  BY DEF Tick
<1>2. /\ Shapes /\ lease \in [id : Ids, age : 0 .. MaxAge] /\ MaxAge \in Nat
      /\ lease.age \in 0 .. MaxAge
  BY LeaseFacts DEF IInv, Shapes
<1>3. /\ lease' \in [id : Ids, age : 0 .. MaxAge] /\ lease'.id = lease.id
      /\ lease'.age \in Nat /\ lease'.age <= lease.age + 1
  <2>1. CASE lease.id = 0 \/ lease.age = MaxAge
    BY <1>1, <1>2, <2>1
  <2>2. CASE ~(lease.id = 0 \/ lease.age = MaxAge)
    <3>1. lease.age + 1 \in 0 .. MaxAge /\ lease' = [lease EXCEPT !.age = lease.age + 1]
      BY <1>1, <1>2, <2>2
    <3>2. QED
      BY <1>2, <3>1
  <2>3. QED
    BY <2>1, <2>2
<1>4. \A c \in Clients : /\ timer[c] \in Nat /\ timer'[c] \in Nat
                         /\ timer[c] > 0 => timer'[c] = timer[c] - 1
  BY <1>1, <1>2 DEF Shapes
<1>5. Shapes'
  <2>1. timer' \in [Clients -> Nat]
    BY <1>1, <1>4
  <2>2. QED
    BY <1>1, <1>2, <1>3, <2>1 DEF Shapes
<1>6. Apart'
  <2>1. ASSUME NEW e \in Clients, NEW i \in Ids \ {0}, Knows(e, i)' PROVE Knows(e, i)
    BY <1>1, <2>1, KnowsFrame
  <2>2. QED
    BY <2>1, KnowsLess DEF IInv
<1>7. Prompted'
  <2> SUFFICES ASSUME net = "prompt", NEW c \in Clients PROVE OnTime(c)'
    BY <1>1 DEF Prompted
  <2>1. OnTime(c) /\ Prompt /\ lease.age \in Nat
    BY <1>1, <1>2 DEF IInv, Prompted
  <2>2. CASE pc[c] = "crashed"
    BY <1>1, <2>1, <2>2 DEF OnTime
  <2>3. CASE pc[c] # "crashed"
    <3>1. /\ timer[c] > 0 /\ timer'[c] = timer[c] - 1 /\ timer[c] \in Nat
          /\ wire[c] # << >> \/ reply[c] # NoReply => Elapsed(c) < MaxDelay
      BY <1>4, <2>1, <2>3 DEF Prompt, Alive, Elapsed
    <3>2. Elapsed(c)' = Elapsed(c) + 1 /\ Elapsed(c) \in Int
      BY <3>1, Times DEF Elapsed
    <3>3. CASE pc[c] = "asleep"
      <4>1. timer'[c] <= RenewWait
        BY <2>1, <3>1, <3>3, Times DEF OnTime, Asleep
      <4>2. ctx[c] # 0 => /\ lease'.id = ctx[c]
                          /\ lease'.age <= MaxDelay + RenewWait - timer'[c]
        BY <1>3, <2>1, <3>1, <3>3, Times DEF OnTime, Asleep, LeasedTo
      <4>3. QED
        BY <1>1, <2>1, <3>3, <4>1, <4>2 DEF OnTime, Asleep, LeasedTo
    <3>4. CASE pc[c] = "waiting" /\ Requested(c)
      <4>1. timer'[c] <= CallTimeout /\ Elapsed(c)' <= MaxDelay
        BY <2>1, <3>1, <3>2, <3>4, Times DEF OnTime, Requested
      <4>2. ctx[c] # 0 => /\ lease'.id = ctx[c]
                          /\ lease'.age <= MaxDelay + RenewWait + Elapsed(c)'
        BY <1>3, <2>1, <3>2, <3>4, Times DEF Requested, LeasedTo
      <4>3. Requested(c)'
        BY <1>1, <3>4, <4>2 DEF Requested, LeasedTo
      <4>4. QED
        BY <1>1, <3>4, <4>1, <4>3 DEF OnTime
    <3>5. CASE pc[c] = "waiting" /\ AnsweredCall(c)
      <4>1. timer'[c] <= CallTimeout /\ Elapsed(c)' <= MaxDelay
        BY <2>1, <3>1, <3>2, <3>5, Times DEF OnTime, AnsweredCall
      <4>2. \A i : LeasedTo(i, Elapsed(c)) =>
                     lease'.id = i /\ lease'.age <= Elapsed(c)'
        BY <1>3, <2>1, <3>2 DEF LeasedTo
      <4>3. AnsweredCall(c)'
        BY <1>1, <3>5, <4>2 DEF AnsweredCall, LeasedTo
      <4>4. QED
        BY <1>1, <3>5, <4>1, <4>3 DEF OnTime
    <3>6. QED
      BY <1>2, <2>1, <2>3, <3>3, <3>4, <3>5 DEF OnTime, Shapes
  <2>4. QED
    BY <2>2, <2>3
<1>8. QED
  BY <1>5, <1>6, <1>7 DEF IInv

-----------------------------------------------------------------------------
LEMMA InitInv ==
    ASSUME Init
    PROVE  IInv
<1>1. /\ net \in {"prompt", "bad"} /\ lease = [id |-> 0, age |-> 0] /\ ask = {}
      /\ ctx = [c \in Clients |-> 0] /\ pc = [c \in Clients |-> "asleep"]
      /\ timer = [c \in Clients |-> 0] /\ wire = [c \in Clients |-> << >>]
      /\ reply = [c \in Clients |-> NoReply]
  BY DEF Init
<1>2. 0 \in Ids /\ 0 \in 0 .. MaxAge
  BY Times DEF Ids, MaxAge
<1>3. Shapes
  <2>1. \A c \in Clients : wire[c] = << >>
    BY <1>1
  <2>2. 0 <= MaxLate /\ Len(<< >>) = 0
    BY Times
  <2>3. \A c \in Clients : Len(wire[c]) <= MaxLate
    BY <2>1, <2>2
  <2>4. QED
    BY <1>1, <1>2, <2>3 DEF Shapes
<1>4. Apart
  BY <1>1 DEF Apart, Knows, NoReply
<1>5. Prompted
  <2>1. ASSUME NEW c \in Clients PROVE OnTime(c)
    <3>1. pc[c] = "asleep" /\ ctx[c] = 0 /\ wire[c] = << >> /\ reply[c] = NoReply /\ timer[c] = 0
      BY <1>1
    <3>2. QED
      BY <3>1, Times DEF OnTime, Asleep
  <2>2. QED
    BY <2>1 DEF Prompted
<1>6. QED
  BY <1>3, <1>4, <1>5 DEF IInv

LEMMA StutterInv ==
    ASSUME IInv, UNCHANGED vars
    PROVE  IInv'
BY DEF vars, IInv, Shapes, Apart, Knows, Prompted, OnTime, Asleep, Requested, AnsweredCall,
       LeasedTo, Elapsed

LEMMA NextInv ==
    ASSUME IInv, [Next]_vars
    PROVE  IInv'
<1>1. ASSUME NEW c \in Clients,
             ClientSteps(c) \/ Crash(c) \/ Serve(c) \/ LoseRequest(c) \/ Ask(c)
      PROVE  IInv'
  BY <1>1, CallInv, ReceiveInv, StaleInv, ServeInv, LoseInv, AskInv DEF ClientSteps
<1>2. QED
  BY <1>1, CheckInv, StartInv, TickInv, RecoverInv, StutterInv DEF Next

LEMMA Invariance == Spec => []IInv
<1>1. Init => IInv
  BY InitInv
<1>2. IInv /\ [Next]_vars => IInv'
  BY NextInv
<1>3. QED
  BY <1>1, <1>2, PTL DEF Spec

(* In a prompt network no client ever loses its lease, whatever the others *)
(* do: three tenths of the term and two delays fit into the term.          *)
THEOREM LeaseKept == Spec => []Inv
<1>1. IInv => Inv
  <2> SUFFICES ASSUME IInv PROVE Inv
    OBVIOUS
  <2>1. TypeOK
    BY WireFacts DEF IInv, Shapes, TypeOK
  <2>2. KeepsLease
    BY NotExpired DEF IInv, KeepsLease
  <2>3. QED
    BY <2>1, <2>2 DEF Inv
<1>2. QED
  BY <1>1, Invariance, PTL

-----------------------------------------------------------------------------
(* In a prompt network a client that lives still has the lease that its    *)
(* request carries, or carried when it was admitted.                       *)
StillOwn ==
    net = "prompt" => \A r \in ask : r.id # 0 /\ Alive(r.client) => ctx[r.client] = r.id

(* An answer never takes a lease from a client in a prompt network.        *)
LEMMA ReceiveKeeps ==
    ASSUME IInv, net = "prompt", NEW c \in Clients, ReceiveReply(c), ctx[c] # 0
    PROVE  ctx' = ctx
<1>1. OnTime(c) /\ pc[c] = "waiting" /\ reply[c] # NoReply
  BY DEF IInv, Prompted, ReceiveReply
<1>2. reply[c].code = "ok"
  BY <1>1 DEF OnTime, Requested, AnsweredCall
<1>3. QED
  BY <1>2 DEF ReceiveReply

LEMMA OwnInv ==
    ASSUME IInv, StillOwn, [Next]_vars
    PROVE  StillOwn'
<1>1. net' = "prompt" => net = "prompt"
  BY DEF Next, ClientSteps, Call, ReceiveReply, CallTimesOut, Crash, Serve, LoseRequest, Ask,
         Check, StartHandler, Tick, Recover, vars
<1> SUFFICES ASSUME net = "prompt", NEW q \in ask', q.id # 0, Alive(q.client)'
             PROVE  ctx'[q.client] = q.id
  BY <1>1 DEF StillOwn
<1>2. /\ ctx \in [Clients -> Ids] /\ pc \in [Clients -> {"waiting", "asleep", "crashed"}]
      /\ ask \subseteq [client : Clients, id : Ids, admitted : BOOLEAN]
  BY DEF IInv, Shapes
<1>3. CASE /\ q \in ask
           /\ Alive(q.client)
           /\ ctx'[q.client] = ctx[q.client]
  BY <1>3 DEF StillOwn
<1>4. CASE ask' = ask /\ ctx' = ctx /\ pc' = pc
  BY <1>3, <1>4 DEF Alive
<1>5. ASSUME NEW c \in Clients, ReceiveReply(c)
      PROVE  ctx'[q.client] = q.id
  <2>1. /\ q \in ask /\ q.client \in Clients /\ pc[c] = "waiting"
        /\ pc' = [pc EXCEPT ![c] = "asleep"]
    BY <1>2, <1>5 DEF ReceiveReply, Sleep
  <2>2. Alive(q.client)
    BY <1>2, <2>1 DEF Alive
  <2>3. ctx[q.client] = q.id
    BY <2>1, <2>2 DEF StillOwn
  <2>4. CASE q.client = c
    BY <1>5, <2>3, <2>4, ReceiveKeeps
  <2>5. CASE q.client # c
    BY <1>2, <1>5, <2>3, <2>5 DEF ReceiveReply
  <2>6. QED
    BY <2>4, <2>5
<1>6. ASSUME NEW c \in Clients, Crash(c)
      PROVE  ctx'[q.client] = q.id
  <2>1. q \in ask /\ q.client \in Clients /\ q.client # c /\ pc'[q.client] = pc[q.client]
    BY <1>2, <1>6 DEF Crash, Alive
  <2>2. QED
    BY <1>2, <1>3, <1>6, <2>1 DEF Crash, Alive
<1>7. ASSUME NEW c \in Clients, Call(c) \/ CallTimesOut(c)
      PROVE  ctx'[q.client] = q.id
  <2>1. /\ q \in ask /\ q.client \in Clients /\ ctx' = ctx
        /\ pc[c] # "crashed" /\ \A e \in Clients \ {c} : pc'[e] = pc[e]
    BY <1>2, <1>7 DEF Call, CallTimesOut, Sleep
  <2>2. QED
    BY <1>3, <2>1 DEF Alive
<1>8. ASSUME NEW c \in Clients, Ask(c)
      PROVE  ctx'[q.client] = q.id
  BY <1>8 DEF Ask
<1>9. CASE Check
  <2>1. PICK r \in ask : /\ ask' \subseteq {[client |-> r.client, id |-> lease'.id, admitted |-> TRUE]}
                         /\ ask' # {} => lease'.id \in {r.id, 0}
    BY <1>9, CheckAdmits
  <2>2. q.client = r.client /\ q.id = r.id /\ ctx' = ctx /\ pc' = pc
    BY <1>9, <2>1 DEF Check
  <2>3. QED
    BY <2>2 DEF StillOwn, Alive
<1>10. CASE StartHandler
  BY <1>10 DEF StartHandler
<1>11. QED
  BY <1>4, <1>5, <1>6, <1>7, <1>8, <1>9, <1>10
     DEF Next, ClientSteps, Serve, LoseRequest, Tick, Recover, vars

(* Whose handler starts while a client holds the lease.                    *)
LEMMA StartsExclusively ==
    ASSUME IInv, StillOwn, NEW d \in Clients, NEW r \in ask, Holds(d), r.client # d
    PROVE  /\ r.id # lease.id
           /\ net = "prompt" => r.id = 0 \/ ~Alive(r.client)
<1>1. /\ Shapes /\ Apart /\ Prompted /\ r.client \in Clients
      /\ lease.id \in Ids \ {0} /\ ctx[d] = lease.id
  BY DEF IInv, Shapes, Holds
<1>2. Knows(d, lease.id)
  BY <1>1 DEF Knows
<1>3. r.id # lease.id
  <2>1. ASSUME r.id = lease.id PROVE FALSE
    <3>1. Knows(r.client, lease.id)
      BY <2>1 DEF Knows
    <3>2. QED
      BY <1>1, <1>2, <3>1 DEF Apart
  <2>2. QED
    BY <2>1
<1>4. ASSUME net = "prompt", r.id # 0, Alive(r.client) PROVE FALSE
  <2>1. ctx[r.client] = r.id
    BY <1>4 DEF StillOwn
  <2>2. Holds(r.client)
    BY <1>1, <1>4, <2>1, NotExpired
  <2>3. QED
    BY <1>3, <2>1, <2>2 DEF Holds
<1>5. QED
  BY <1>3, <1>4

(* However long the server puts off a handler after its check: under a     *)
(* lease only its holder's requests start, in any network, and in a prompt *)
(* one no living client's admitted request outlives its lease.             *)
THEOREM ExclusiveStart == Spec => Exclusive
<1>1. Init => StillOwn
  BY DEF Init, StillOwn
<1>2. IInv /\ StillOwn /\ [Next]_vars =>
        /\ StillOwn'
        /\ [\A d \in Clients, r \in ask :
               Starts(r) /\ Holds(d) /\ ~Expired /\ r.client # d =>
                 /\ r.id # lease.id
                 /\ net = "prompt" => r.id = 0 \/ ~Alive(r.client)]_vars
  BY OwnInv, StartsExclusively
<1>3. QED
  BY <1>1, <1>2, Invariance, PTL DEF Spec, Exclusive
=============================================================================
