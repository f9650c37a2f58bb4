----------------------------- MODULE Rpc_proofs -----------------------------
(* Machine-checked facts about Rpc, for any number of clients, apis and    *)
(* calls, any queue sizes and any faults.                                  *)
EXTENDS Rpc, TLAPS

(* The elements of a sequence.                                             *)
Of(s) == {s[i] : i \in 1 .. Len(s)}

(* Calls of one lane, a client and a class, are in the order of the calls. *)
Ordered(s, lane) ==
    \A i, j \in 1 .. Len(s) : i < j /\ lane[s[i]] = lane[s[j]] => s[i] < s[j]

(* Those of one set come before those of another.                          *)
Before(A, B, lane) == \A n \in A, m \in B : lane[n] = lane[m] => n < m

Lane == [n \in DOMAIN calls |-> <<calls[n].client, ClassOf(n)>>]

(* The types of TypeOK, without the bounds that depend on the calls.       *)
Tables == UNION {[ids -> Nat] : ids \in SUBSET Nat}
Workers == {Idle, [pc |-> "dead"]} \cup [pc : {"respond"}, n : Nat, code : Codes]
Hands == [response : Responses, n : Nat]
Shapes ==
    /\ calls \in Seq(Call_) /\ Len(calls) <= MaxCalls
    /\ pc \in [Clients -> {"idle", "writing", "get", "waiting", "woken", "timedout"}]
    /\ cur \in [Clients -> 0 .. Len(calls)]
    /\ table \in [Clients -> Tables]
    /\ reqWire \in [Clients -> Seq(Nat)]
    /\ queues \in [Classes -> [items : Seq(Nat), curLen : Nat]]
    /\ \A k \in Classes : queues[k].curLen = Len(queues[k].items)
    /\ worker \in [Classes -> Workers]
    /\ executed \in Seq(Nat)
    /\ respWire \in [Clients -> Seq(Responses)]
    /\ handling \in [Clients -> {Nothing} \cup Hands]

-----------------------------------------------------------------------------
(* The pipeline of the requests.                                           *)

(* The requests that were written and are not lost or refused.             *)
Items(k) == Of(queues[k].items)
Written ==
    Executed \cup (UNION {Items(k) : k \in Classes})
             \cup (UNION {Of(reqWire[c]) : c \in Clients})

(* In front are the executed ones, then the queues, then the wires; and a  *)
(* client has written none that is newer than the call under way.          *)
Pipe ==
    /\ \A c \in Clients :
         /\ Of(reqWire[c]) \subseteq {n \in DOMAIN calls : calls[n].client = c}
         /\ Ordered(reqWire[c], Lane)
         /\ Before(Executed, Of(reqWire[c]), Lane)
         /\ \A k \in Classes : Before(Items(k), Of(reqWire[c]), Lane)
    /\ \A k \in Classes :
         /\ Items(k) \subseteq {n \in DOMAIN calls : ClassOf(n) = k}
         /\ Ordered(queues[k].items, Lane)
         /\ Before(Executed, Items(k), Lane)
    /\ Executed \subseteq DOMAIN calls
    /\ Ordered(executed, Lane)
Newest ==
    \A c \in Clients : \A n \in Written :
        calls[n].client = c => n <= cur[c] /\ (pc[c] = "writing" => n # cur[c])

(* The calls that are not executed and never will be.                      *)
Gone ==
    {n \in Nat : n \notin Written /\ \A c \in Clients : pc[c] = "writing" => cur[c] # n}

-----------------------------------------------------------------------------
(* The answers.                                                            *)

(* What the code of an answer to call n stands for.                        *)
True_(n, code) ==
    /\ n \in DOMAIN calls
    /\ code = "ok" => n \in Executed
    /\ code = "refused" => n \in Gone
Genuine(r) == r.id = r.n /\ True_(r.n, r.code) /\ r.api = calls[r.n].api

(* The call under way has no result yet.                                   *)
Current ==
    \A c \in Clients : pc[c] # "idle" =>
        /\ cur[c] \in DOMAIN calls /\ calls[cur[c]].client = c /\ calls[cur[c]].result = None
        /\ pc[c] # "writing" => ~calls[cur[c]].noReply
        /\ pc[c] = "woken" => calls[cur[c]].future # Nothing

(* A future in the table has not been answered.                            *)
Tabled ==
    \A c \in Clients : \A id \in DOMAIN table[c] :
        /\ table[c][id] = id /\ id \in DOMAIN calls
        /\ calls[id].client = c /\ calls[id].future = Nothing /\ ~calls[id].noReply
        /\ calls[id].result \in {None, "timeout", "unsent"}

Working == \A k \in Classes : worker[k].pc = "respond" => True_(worker[k].n, worker[k].code)
OnWire == \A c \in Clients : \A i \in 1 .. Len(respWire[c]) : Genuine(respWire[c][i])
InHand ==
    \A c \in Clients : handling[c] # Nothing =>
        /\ Genuine(handling[c].response) /\ handling[c].n = handling[c].response.n
        /\ calls[handling[c].n].client = c /\ handling[c].n \notin DOMAIN table[c]

Answers ==
    \A n \in DOMAIN calls :
        /\ calls[n].id = n
        /\ calls[n].future # Nothing => Genuine(calls[n].future) /\ calls[n].future.n = n
        /\ calls[n].result # "mismatch"
        /\ calls[n].result = "ok" => n \in Executed
        /\ calls[n].result \in {"refused", "unsent"} => n \in Gone

(* The inductive invariant.                                                *)
Books == Current /\ Tabled /\ Working /\ OnWire /\ InHand /\ Answers
IInv == Shapes /\ Pipe /\ Newest /\ Books

-----------------------------------------------------------------------------
(* Sequences.                                                              *)
LEMMA OfAppend ==
    ASSUME NEW S, NEW s \in Seq(S), NEW x \in S
    PROVE  /\ Append(s, x) \in Seq(S)
           /\ Of(Append(s, x)) = Of(s) \cup {x}
           /\ Len(Append(s, x)) = Len(s) + 1
           /\ \A i \in 1 .. Len(s) : Append(s, x)[i] = s[i]
           /\ Append(s, x)[Len(s) + 1] = x
<1>1. /\ Append(s, x) \in Seq(S)
      /\ Len(Append(s, x)) = Len(s) + 1
      /\ \A i \in 1 .. Len(s) : Append(s, x)[i] = s[i]
      /\ Append(s, x)[Len(s) + 1] = x
      /\ Len(s) \in Nat
  OBVIOUS
<1>2. ASSUME NEW y \in Of(Append(s, x))
      PROVE  y \in Of(s) \cup {x}
  BY <1>1 DEF Of
<1>3. ASSUME NEW y \in Of(s)
      PROVE  y \in Of(Append(s, x))
  <2>1. PICK i \in 1 .. Len(s) : y = s[i]
    BY DEF Of
  <2>2. QED
    BY <1>1, <2>1 DEF Of
<1>4. x \in Of(Append(s, x))
  BY <1>1 DEF Of
<1>5. QED
  BY <1>1, <1>2, <1>3, <1>4

LEMMA OfDrop ==
    ASSUME NEW S, NEW s \in Seq(S), NEW k \in 1 .. Len(s)
    PROVE  /\ SubSeq(s, k + 1, Len(s)) \in Seq(S)
           /\ Len(SubSeq(s, k + 1, Len(s))) = Len(s) - k
           /\ \A i \in 1 .. Len(s) - k : SubSeq(s, k + 1, Len(s))[i] = s[i + k]
           /\ Of(SubSeq(s, k + 1, Len(s))) \subseteq Of(s)
           /\ s[k] \in Of(s) /\ s[k] \in S
<1> DEFINE t == SubSeq(s, k + 1, Len(s))
<1>1. /\ t \in Seq(S)
      /\ Len(t) = Len(s) - k
      /\ \A i \in 1 .. Len(s) - k : t[i] = s[i + k]
      /\ s[k] \in S
  OBVIOUS
<1>2. s[k] \in Of(s)
  BY DEF Of
<1> HIDE DEF t
<1>3. ASSUME NEW y \in Of(t)
      PROVE  y \in Of(s)
  <2>1. PICK i \in 1 .. Len(s) - k : y = t[i]
    BY <1>1 DEF Of
  <2>2. i + k \in 1 .. Len(s) /\ y = s[i + k]
    BY <1>1, <2>1
  <2>3. QED
    BY <2>2 DEF Of
<1>4. QED
  BY <1>1, <1>2, <1>3 DEF t

LEMMA OfTail ==
    ASSUME NEW S, NEW s \in Seq(S), s # << >>
    PROVE  /\ Tail(s) \in Seq(S)
           /\ Len(s) \in Nat \ {0}
           /\ Len(Tail(s)) = Len(s) - 1
           /\ \A i \in 1 .. Len(s) - 1 : Tail(s)[i] = s[i + 1]
           /\ Of(Tail(s)) \subseteq Of(s)
           /\ s[1] \in Of(s) /\ s[1] \in S
<1>1. /\ Tail(s) \in Seq(S)
      /\ Len(s) \in Nat \ {0}
      /\ Len(Tail(s)) = Len(s) - 1
      /\ \A i \in 1 .. Len(s) - 1 : Tail(s)[i] = s[i + 1]
      /\ s[1] \in S
  OBVIOUS
<1>2. s[1] \in Of(s)
  BY <1>1 DEF Of
<1>3. ASSUME NEW y \in Of(Tail(s))
      PROVE  y \in Of(s)
  <2>1. PICK i \in 1 .. Len(s) - 1 : y = Tail(s)[i]
    BY <1>1 DEF Of
  <2>2. i + 1 \in 1 .. Len(s) /\ y = s[i + 1]
    BY <1>1, <2>1
  <2>3. QED
    BY <2>2 DEF Of
<1>4. QED
  BY <1>1, <1>2, <1>3

(* A calls record with one field set anew.                                 *)
WithResult(s, n, r) == [s EXCEPT ![n].result = r]
WithFuture(s, n, r) == [s EXCEPT ![n].future = r]

LEMMA ResultSet ==
    ASSUME NEW s \in Seq(Call_), NEW n \in DOMAIN s, NEW t,
           NEW r \in Codes \cup {None, "sent", "unsent", "timeout", "mismatch"},
           t = WithResult(s, n, r)
    PROVE  /\ t \in Seq(Call_) /\ Len(t) = Len(s) /\ DOMAIN t = DOMAIN s
           /\ \A m \in DOMAIN s :
                /\ t[m].client = s[m].client /\ t[m].api = s[m].api
                /\ t[m].noReply = s[m].noReply /\ t[m].id = s[m].id
                /\ t[m].future = s[m].future
                /\ t[m].result = IF m = n THEN r ELSE s[m].result
<1> DEFINE x == [s[n] EXCEPT !.result = r]
<1>1. /\ s[n] \in Call_ /\ DOMAIN s = 1 .. Len(s)
      /\ \A m \in DOMAIN s : s[m] \in Call_
  OBVIOUS
<1>2. /\ x \in Call_
      /\ x.client = s[n].client /\ x.api = s[n].api /\ x.noReply = s[n].noReply
      /\ x.id = s[n].id /\ x.future = s[n].future /\ x.result = r
  BY <1>1 DEF Call_
<1>3. t = [s EXCEPT ![n] = x]
  BY DEF WithResult
<1> HIDE DEF x
<1>4. t \in Seq(Call_) /\ Len(t) = Len(s) /\ DOMAIN t = DOMAIN s
  BY <1>1, <1>2, <1>3
<1>5. \A m \in DOMAIN s : t[m] = IF m = n THEN x ELSE s[m]
  BY <1>3
<1>6. QED
  BY <1>2, <1>4, <1>5

LEMMA FutureSet ==
    ASSUME NEW s \in Seq(Call_), NEW n \in DOMAIN s, NEW t, NEW r \in Responses,
           t = WithFuture(s, n, r)
    PROVE  /\ t \in Seq(Call_) /\ Len(t) = Len(s) /\ DOMAIN t = DOMAIN s
           /\ \A m \in DOMAIN s :
                /\ t[m].client = s[m].client /\ t[m].api = s[m].api
                /\ t[m].noReply = s[m].noReply /\ t[m].id = s[m].id
                /\ t[m].future = IF m = n THEN r ELSE s[m].future
                /\ t[m].result = s[m].result
<1> DEFINE x == [s[n] EXCEPT !.future = r]
<1>1. /\ s[n] \in Call_ /\ DOMAIN s = 1 .. Len(s)
      /\ \A m \in DOMAIN s : s[m] \in Call_
  OBVIOUS
<1>2. /\ x \in Call_
      /\ x.client = s[n].client /\ x.api = s[n].api /\ x.noReply = s[n].noReply
      /\ x.id = s[n].id /\ x.future = r /\ x.result = s[n].result
  BY <1>1 DEF Call_
<1>3. t = [s EXCEPT ![n] = x]
  BY DEF WithFuture
<1> HIDE DEF x
<1>4. t \in Seq(Call_) /\ Len(t) = Len(s) /\ DOMAIN t = DOMAIN s
  BY <1>1, <1>2, <1>3
<1>5. \A m \in DOMAIN s : t[m] = IF m = n THEN x ELSE s[m]
  BY <1>3
<1>6. QED
  BY <1>2, <1>4, <1>5

-----------------------------------------------------------------------------
(* Order in sequences.                                                     *)
LEMMA OrderedAppend ==
    ASSUME NEW s \in Seq(Nat), NEW x \in Nat, NEW lane,
           Ordered(s, lane), Before(Of(s), {x}, lane)
    PROVE  Ordered(Append(s, x), lane)
<1> DEFINE t == Append(s, x)
<1>1. /\ Len(t) = Len(s) + 1 /\ Len(s) \in Nat
      /\ \A i \in 1 .. Len(s) : t[i] = s[i]
      /\ t[Len(s) + 1] = x
  OBVIOUS
<1>2. \A i \in 1 .. Len(s) : s[i] \in Of(s)
  BY DEF Of
<1> HIDE DEF t
<1>3. SUFFICES ASSUME NEW i \in 1 .. Len(t), NEW j \in 1 .. Len(t), i < j,
                      lane[t[i]] = lane[t[j]]
               PROVE  t[i] < t[j]
  BY DEF Ordered, t
<1>4. i \in 1 .. Len(s)
  BY <1>1, <1>3
<1>5. CASE j = Len(s) + 1
  BY <1>1, <1>2, <1>3, <1>4, <1>5 DEF Before
<1>6. CASE j # Len(s) + 1
  <2>1. j \in 1 .. Len(s)
    BY <1>1, <1>6
  <2>2. QED
    BY <1>1, <1>3, <1>4, <2>1 DEF Ordered
<1>7. QED
  BY <1>5, <1>6

LEMMA OrderedDrop ==
    ASSUME NEW s \in Seq(Nat), NEW k \in 1 .. Len(s), NEW lane, Ordered(s, lane)
    PROVE  /\ Ordered(SubSeq(s, k + 1, Len(s)), lane)
           /\ Before({s[k]}, Of(SubSeq(s, k + 1, Len(s))), lane)
<1> DEFINE t == SubSeq(s, k + 1, Len(s))
<1>1. /\ Len(t) = Len(s) - k /\ Len(s) \in Nat
      /\ \A i \in 1 .. Len(t) : t[i] = s[i + k]
  OBVIOUS
<1> HIDE DEF t
<1>2. ASSUME NEW i \in 1 .. Len(t)
      PROVE  i + k \in 1 .. Len(s) /\ k < i + k /\ t[i] = s[i + k]
  BY <1>1
<1>3. ASSUME NEW i \in 1 .. Len(t), NEW j \in 1 .. Len(t), i < j,
             lane[t[i]] = lane[t[j]]
      PROVE  t[i] < t[j]
  <2>1. i + k < j + k
    BY <1>1, <1>3
  <2>2. QED
    BY <1>2, <1>3, <2>1 DEF Ordered
<1>4. ASSUME NEW i \in 1 .. Len(t), lane[s[k]] = lane[t[i]]
      PROVE  s[k] < t[i]
  BY <1>2, <1>4 DEF Ordered
<1>5. Ordered(t, lane)
  BY <1>3 DEF Ordered
<1>6. Before({s[k]}, Of(t), lane)
  BY <1>4 DEF Before, Of
<1>7. QED
  BY <1>5, <1>6 DEF t

LEMMA OrderedTail ==
    ASSUME NEW s \in Seq(Nat), s # << >>, NEW lane, Ordered(s, lane)
    PROVE  Ordered(Tail(s), lane) /\ Before({s[1]}, Of(Tail(s)), lane)
<1> DEFINE t == Tail(s)
<1>1. /\ Len(t) = Len(s) - 1 /\ Len(s) \in Nat \ {0}
      /\ \A i \in 1 .. Len(t) : t[i] = s[i + 1]
  OBVIOUS
<1> HIDE DEF t
<1>2. ASSUME NEW i \in 1 .. Len(t)
      PROVE  i + 1 \in 1 .. Len(s) /\ 1 < i + 1 /\ t[i] = s[i + 1]
  BY <1>1
<1>3. ASSUME NEW i \in 1 .. Len(t), NEW j \in 1 .. Len(t), i < j,
             lane[t[i]] = lane[t[j]]
      PROVE  t[i] < t[j]
  <2>1. i + 1 < j + 1
    BY <1>1, <1>3
  <2>2. QED
    BY <1>2, <1>3, <2>1 DEF Ordered
<1>4. ASSUME NEW i \in 1 .. Len(t), lane[s[1]] = lane[t[i]]
      PROVE  s[1] < t[i]
  <2>1. 1 \in 1 .. Len(s)
    BY <1>1
  <2>2. QED
    BY <1>2, <1>4, <2>1 DEF Ordered
<1>5. Ordered(t, lane)
  BY <1>3 DEF Ordered
<1>6. Before({s[1]}, Of(t), lane)
  BY <1>4 DEF Before, Of
<1>7. QED
  BY <1>5, <1>6 DEF t

(* The order depends on the lanes of the members only.                     *)
LEMMA OrderedSame ==
    ASSUME NEW s, NEW lane, NEW other,
           \A n \in Of(s) : other[n] = lane[n], Ordered(s, lane)
    PROVE  Ordered(s, other)
<1>1. \A i \in 1 .. Len(s) : s[i] \in Of(s)
  BY DEF Of
<1>2. QED
  BY <1>1 DEF Ordered

LEMMA BeforeSame ==
    ASSUME NEW A, NEW B, NEW lane, NEW other,
           \A n \in A \cup B : other[n] = lane[n], Before(A, B, lane)
    PROVE  Before(A, B, other)
BY DEF Before

(* A queue that takes one more item: everything it holds it held or is new.*)
IsQueue(q) == q \in [items : Seq(Nat), curLen : Nat] /\ q.curLen = Len(q.items)

LEMMA PutFacts ==
    ASSUME NEW q, IsQueue(q), NEW n \in Nat, NEW maxLen \in Nat \ {0}, NEW lane,
           Ordered(q.items, lane), Before(Of(q.items), {n}, lane),
           NEW p, p = Put(q, n, TRUE, maxLen)
    PROVE  /\ IsQueue(p)
           /\ Of(p.items) \subseteq Of(q.items) \cup {n}
           /\ Ordered(p.items, lane)
<1>0. PICK r : r = IF Full(q, maxLen) THEN Popped(q) ELSE q
  OBVIOUS
<1>1. /\ q \in [items : Seq(Nat), curLen : Nat] /\ q.curLen = Len(q.items)
      /\ q.items \in Seq(Nat) /\ q.curLen \in Nat
  BY DEF IsQueue
<1>2. /\ r \in [items : Seq(Nat), curLen : Nat] /\ r.curLen = Len(r.items)
      /\ Of(r.items) \subseteq Of(q.items) /\ Ordered(r.items, lane)
  <2>1. CASE Full(q, maxLen)
    <3>1. q.items # << >>
      BY <1>1, <2>1 DEF Full
    <3>2. /\ Tail(q.items) \in Seq(Nat) /\ Len(q.items) \in Nat \ {0}
          /\ Len(Tail(q.items)) = Len(q.items) - 1
          /\ Of(Tail(q.items)) \subseteq Of(q.items)
          /\ Ordered(Tail(q.items), lane)
      BY <1>1, <3>1, OfTail, OrderedTail
    <3>3. r = [items |-> Tail(q.items), curLen |-> q.curLen - 1]
      BY <1>0, <2>1 DEF Popped
    <3>4. r.items = Tail(q.items) /\ r.curLen = Len(r.items) /\ r.curLen \in Nat
      BY <1>1, <3>2, <3>3
    <3>5. r \in [items : Seq(Nat), curLen : Nat]
      BY <3>2, <3>3, <3>4
    <3>6. QED
      BY <3>2, <3>4, <3>5
  <2>2. CASE ~Full(q, maxLen)
    BY <1>0, <1>1, <2>2
  <2>3. QED
    BY <2>1, <2>2
<1>3. p = Appended(r, n)
  BY <1>0 DEF Put, Accepts
<1>4. r.items \in Seq(Nat) /\ r.curLen \in Nat
  BY <1>2
<1>5. /\ Append(r.items, n) \in Seq(Nat)
      /\ Of(Append(r.items, n)) = Of(r.items) \cup {n}
      /\ Len(Append(r.items, n)) = Len(r.items) + 1
  BY <1>4, OfAppend
<1>6. Before(Of(r.items), {n}, lane)
  BY <1>2 DEF Before
<1>7. Ordered(Append(r.items, n), lane)
  BY <1>2, <1>4, <1>6, OrderedAppend
<1>8. p.items = Append(r.items, n) /\ p.curLen = Len(p.items) /\ p.curLen \in Nat
  <2>1. p.items = Append(r.items, n)
    <3>1. Appended(r, n).items = Append(r.items, n)
      BY DEF Appended
    <3>2. QED
      BY <1>3, <3>1
  <2>2. p.curLen = r.curLen + 1
    <3>1. Appended(r, n).curLen = r.curLen + 1
      BY DEF Appended
    <3>2. QED
      BY <1>3, <3>1
  <2>3. r.curLen = Len(r.items)
    BY <1>2
  <2>4. p.curLen = Len(p.items)
    BY <1>5, <2>1, <2>2, <2>3, Zenon
  <2>5. r.curLen + 1 \in Nat
    BY <1>4
  <2>6. QED
    BY <2>1, <2>2, <2>4, <2>5, Zenon
<1>9. p \in [items : Seq(Nat), curLen : Nat]
  BY <1>3, <1>5, <1>8 DEF Appended
<1>10. QED
  BY <1>2, <1>5, <1>7, <1>8, <1>9 DEF IsQueue

-----------------------------------------------------------------------------
(* What a step leaves of the calls.                                        *)

(* The calls that were made keep their requests.                           *)
SameCalls ==
    /\ DOMAIN calls \subseteq DOMAIN calls'
    /\ \A n \in DOMAIN calls :
         /\ calls'[n].client = calls[n].client /\ calls'[n].api = calls[n].api
         /\ calls'[n].noReply = calls[n].noReply /\ calls'[n].id = calls[n].id

(* What was true of them stays true.                                       *)
Onward ==
    /\ SameCalls
    /\ Executed \subseteq Executed'
    /\ DOMAIN calls \cap Gone \subseteq Gone'

LEMMA LaneSame ==
    ASSUME SameCalls
    PROVE  \A n \in DOMAIN calls : Lane'[n] = Lane[n] /\ ClassOf(n)' = ClassOf(n)
<1>1. TAKE n \in DOMAIN calls
<1>2. n \in DOMAIN calls' /\ calls'[n].client = calls[n].client
      /\ calls'[n].api = calls[n].api
  BY DEF SameCalls
<1>3. ClassOf(n)' = ClassOf(n)
  BY <1>2 DEF ClassOf
<1>4. Lane[n] = <<calls[n].client, ClassOf(n)>>
  BY DEF Lane
<1>5. Lane'[n] = <<calls'[n].client, ClassOf(n)'>>
  BY <1>2 DEF Lane
<1>6. QED
  BY <1>2, <1>3, <1>4, <1>5

LEMMA PipeMembers ==
    ASSUME Pipe
    PROVE  /\ Written \subseteq DOMAIN calls /\ Executed \subseteq Written
           /\ \A c \in Clients : Of(reqWire[c]) \subseteq Written
           /\ \A k \in Classes : Items(k) \subseteq Written
<1>1. /\ \A c \in Clients : Of(reqWire[c]) \subseteq DOMAIN calls
      /\ \A k \in Classes : Items(k) \subseteq DOMAIN calls
      /\ Executed \subseteq DOMAIN calls
  BY DEF Pipe
<1>2. UNION {Items(k) : k \in Classes} \subseteq DOMAIN calls
  BY <1>1
<1>3. UNION {Of(reqWire[c]) : c \in Clients} \subseteq DOMAIN calls
  BY <1>1
<1>4. QED
  BY <1>1, <1>2, <1>3 DEF Written

LEMMA OfElements ==
    ASSUME NEW S, NEW s \in Seq(S)
    PROVE  {s[i] : i \in DOMAIN s} = Of(s)
BY DEF Of

(* A step that moves no request keeps the pipeline.                        *)
LEMMA PipeSame ==
    ASSUME Shapes, Pipe, SameCalls, UNCHANGED <<reqWire, queues, executed>>
    PROVE  Pipe' /\ Written' = Written /\ Executed' = Executed
<1>1. \A n \in DOMAIN calls : Lane'[n] = Lane[n] /\ ClassOf(n)' = ClassOf(n)
  BY LaneSame
<1>2. \A k \in Classes : Items(k)' = Items(k)
  BY DEF Items
<1>3. Executed' = Executed
  BY DEF Executed
<1>4. Written' = Written
  BY <1>2, <1>3 DEF Written
<1>5. ASSUME NEW c \in Clients
      PROVE  /\ Of(reqWire[c])' = Of(reqWire[c])
             /\ Of(reqWire[c])' \subseteq {n \in DOMAIN calls' : calls'[n].client = c}
             /\ Ordered(reqWire[c], Lane)'
             /\ Before(Executed, Of(reqWire[c]), Lane)'
             /\ \A k \in Classes : Before(Items(k), Of(reqWire[c]), Lane)'
  <2>1. Of(reqWire[c])' = Of(reqWire[c])
    OBVIOUS
  <2>2. Of(reqWire[c]) \subseteq DOMAIN calls
    BY DEF Pipe
  <2>3. Ordered(reqWire[c], Lane)'
    BY <1>1, <2>2, OrderedSame DEF Pipe
  <2>4. Before(Executed, Of(reqWire[c]), Lane)'
    BY <1>1, <1>3, <2>2, BeforeSame DEF Pipe
  <2>5. ASSUME NEW k \in Classes
        PROVE  Before(Items(k), Of(reqWire[c]), Lane)'
    BY <1>1, <1>2, <2>2, BeforeSame DEF Pipe
  <2>6. QED
    BY <2>1, <2>2, <2>3, <2>4, <2>5 DEF Pipe, SameCalls
<1>6. ASSUME NEW k \in Classes
      PROVE  /\ Items(k)' \subseteq {n \in DOMAIN calls' : ClassOf(n)' = k}
             /\ Ordered(queues[k].items, Lane)'
             /\ Before(Executed, Items(k), Lane)'
  <2>1. Items(k) \subseteq DOMAIN calls
    BY DEF Pipe
  <2>2. Ordered(queues[k].items, Lane)'
    BY <1>1, <2>1, OrderedSame DEF Pipe, Items
  <2>3. Before(Executed, Items(k), Lane)'
    BY <1>1, <1>2, <1>3, <2>1, BeforeSame DEF Pipe
  <2>4. QED
    BY <1>1, <1>2, <2>1, <2>2, <2>3 DEF Pipe, SameCalls
<1>7. Executed' \subseteq DOMAIN calls'
  BY <1>3 DEF Pipe, SameCalls
<1>8. Ordered(executed, Lane)'
  <2>1. Of(executed) = Executed
    BY OfElements DEF Shapes, Executed
  <2>2. QED
    BY <1>1, <1>3, <1>7, <2>1, OrderedSame DEF Pipe
<1>9. QED
  BY <1>3, <1>4, <1>5, <1>6, <1>7, <1>8 DEF Pipe

-----------------------------------------------------------------------------
(* What a step leaves of the answers.                                      *)

(* A call is gone for good when no request of it appears.                  *)
LEMMA GoneOn ==
    ASSUME Shapes, DOMAIN calls \cap Written' \subseteq Written \cup
               {cur[c] : c \in {x \in Clients : pc[x] = "writing"}},
           \A c \in Clients : pc'[c] = "writing" =>
               (pc[c] = "writing" /\ cur'[c] = cur[c]) \/ cur'[c] \notin DOMAIN calls
    PROVE  DOMAIN calls \cap Gone \subseteq Gone'
<1>1. SUFFICES ASSUME NEW n \in DOMAIN calls \cap Gone
               PROVE  n \in Gone'
  OBVIOUS
<1>2. n \notin Written /\ n \in Nat /\ \A c \in Clients : pc[c] = "writing" => cur[c] # n
  BY DEF Gone
<1>3. n \notin Written'
  BY <1>2
<1>4. ASSUME NEW c \in Clients, pc'[c] = "writing"
      PROVE  cur'[c] # n
  BY <1>2, <1>4
<1>5. QED
  BY <1>2, <1>3, <1>4 DEF Gone

LEMMA WorkingSame ==
    ASSUME Onward, Working, worker' = worker
    PROVE  Working'
BY DEF Onward, SameCalls, Working, True_

LEMMA OnWireSame ==
    ASSUME Onward, OnWire, respWire' = respWire
    PROVE  OnWire'
BY DEF Onward, SameCalls, OnWire, Genuine, True_

LEMMA InHandSame ==
    ASSUME Onward, InHand, handling' = handling,
           \A c \in Clients : DOMAIN calls \cap DOMAIN table'[c] \subseteq DOMAIN table[c]
    PROVE  InHand'
BY DEF Onward, SameCalls, InHand, Genuine, True_

(* The part of Answers about the call n.                                   *)
LEMMA AnswersSame ==
    ASSUME Onward, Answers, calls' = calls
    PROVE  Answers'
BY DEF Onward, SameCalls, Answers, Genuine, True_

(* A call that returns.                                                    *)
LEMMA ReturnCalls ==
    ASSUME Shapes, Current, NEW c \in Clients, pc[c] # "idle",
           NEW r \in Codes \cup {"sent", "unsent", "timeout"}, Return(c, r)
    PROVE  /\ cur[c] \in DOMAIN calls /\ calls[cur[c]].client = c
           /\ cur' = cur /\ pc' = [pc EXCEPT ![c] = "idle"]
           /\ calls' \in Seq(Call_) /\ Len(calls') = Len(calls) /\ DOMAIN calls' = DOMAIN calls
           /\ \A m \in DOMAIN calls :
                /\ calls'[m].client = calls[m].client /\ calls'[m].api = calls[m].api
                /\ calls'[m].noReply = calls[m].noReply /\ calls'[m].id = calls[m].id
                /\ calls'[m].future = calls[m].future
                /\ calls'[m].result = IF m = cur[c] THEN r ELSE calls[m].result
<1>1. cur[c] \in DOMAIN calls /\ calls[cur[c]].client = c
  BY DEF Current
<1>2. PICK n : n = cur[c]
  OBVIOUS
<1>3. /\ calls' = WithResult(calls, n, r) /\ cur' = cur
      /\ pc' = [pc EXCEPT ![c] = "idle"]
  BY <1>2 DEF Return, WithResult
<1>4. calls \in Seq(Call_) /\ n \in DOMAIN calls
  BY <1>1, <1>2 DEF Shapes
<1>5. r \in Codes \cup {None, "sent", "unsent", "timeout", "mismatch"}
  OBVIOUS
<1>6. /\ calls' \in Seq(Call_) /\ Len(calls') = Len(calls) /\ DOMAIN calls' = DOMAIN calls
      /\ \A m \in DOMAIN calls :
           /\ calls'[m].client = calls[m].client /\ calls'[m].api = calls[m].api
           /\ calls'[m].noReply = calls[m].noReply /\ calls'[m].id = calls[m].id
           /\ calls'[m].future = calls[m].future
           /\ calls'[m].result = IF m = n THEN r ELSE calls[m].result
  BY <1>3, <1>4, <1>5, ResultSet
<1>7. QED
  BY <1>1, <1>2, <1>3, <1>6

LEMMA ReturnKeeps ==
    ASSUME Shapes, Books, NEW c \in Clients, pc[c] # "idle",
           NEW r \in Codes \cup {"sent", "unsent", "timeout"}, Return(c, r),
           Onward, UNCHANGED <<table, worker, respWire, handling>>,
           r = "ok" => cur[c] \in Executed,
           r \in {"refused", "unsent"} => cur[c] \in Gone',
           cur[c] \notin DOMAIN table[c] \/ r \in {"unsent", "timeout"}
    PROVE  /\ calls' \in Seq(Call_) /\ Len(calls') = Len(calls)
           /\ cur' = cur /\ pc' = [pc EXCEPT ![c] = "idle"] /\ Books'
<1>1. cur[c] \in DOMAIN calls /\ calls[cur[c]].client = c
  BY DEF Books, Current
<1>2. PICK n : n = cur[c]
  OBVIOUS
<1>3. cur' = cur /\ pc' = [pc EXCEPT ![c] = "idle"]
  BY DEF Return
<1>4. /\ calls' \in Seq(Call_) /\ Len(calls') = Len(calls) /\ DOMAIN calls' = DOMAIN calls
      /\ \A m \in DOMAIN calls :
           /\ calls'[m].client = calls[m].client /\ calls'[m].api = calls[m].api
           /\ calls'[m].noReply = calls[m].noReply /\ calls'[m].id = calls[m].id
           /\ calls'[m].future = calls[m].future
           /\ calls'[m].result = IF m = n THEN r ELSE calls[m].result
  BY <1>2, ReturnCalls DEF Books
<1>5. Current'
  <2>1. ASSUME NEW d \in Clients, pc'[d] # "idle"
        PROVE  /\ cur'[d] \in DOMAIN calls' /\ calls'[cur'[d]].client = d
               /\ calls'[cur'[d]].result = None
               /\ pc'[d] # "writing" => ~calls'[cur'[d]].noReply
               /\ pc'[d] = "woken" => calls'[cur'[d]].future # Nothing
    <3>1. d # c /\ pc'[d] = pc[d]
      BY <1>3, <2>1 DEF Shapes
    <3>2. cur[d] # n
      BY <1>1, <1>2, <2>1, <3>1 DEF Books, Current
    <3>3. QED
      BY <1>3, <1>4, <2>1, <3>1, <3>2 DEF Books, Current
  <2>2. QED
    BY <2>1 DEF Current
<1>6. Tabled'
  <2>1. ASSUME NEW d \in Clients, NEW id \in DOMAIN table[d]
        PROVE  /\ table[d][id] = id /\ id \in DOMAIN calls'
               /\ calls'[id].client = d /\ calls'[id].future = Nothing /\ ~calls'[id].noReply
               /\ calls'[id].result \in {None, "timeout", "unsent"}
    <3>1. /\ table[d][id] = id /\ id \in DOMAIN calls
          /\ calls[id].client = d /\ calls[id].future = Nothing /\ ~calls[id].noReply
          /\ calls[id].result \in {None, "timeout", "unsent"}
      BY DEF Books, Tabled
    <3>2. id = n => d = c /\ r \in {"unsent", "timeout"}
      BY <1>1, <1>2, <3>1
    <3>3. QED
      BY <1>4, <3>1, <3>2
  <2>2. QED
    BY <2>1 DEF Tabled
<1>7. Working' /\ OnWire' /\ InHand'
  BY WorkingSame, OnWireSame, InHandSame DEF Books
<1>8. Answers'
  <2>1. ASSUME NEW m \in DOMAIN calls
        PROVE  /\ calls'[m].id = m
               /\ calls'[m].future # Nothing =>
                    Genuine(calls[m].future)' /\ calls'[m].future.n = m
               /\ calls'[m].result # "mismatch"
               /\ calls'[m].result = "ok" => m \in Executed'
               /\ calls'[m].result \in {"refused", "unsent"} => m \in Gone'
    <3>1. /\ calls[m].id = m
          /\ calls[m].future # Nothing =>
               Genuine(calls[m].future) /\ calls[m].future.n = m
          /\ calls[m].result # "mismatch"
          /\ calls[m].result = "ok" => m \in Executed
          /\ calls[m].result \in {"refused", "unsent"} => m \in Gone
      BY DEF Books, Answers
    <3>2. calls'[m].id = m
      BY <1>4, <3>1
    <3>3. ASSUME calls'[m].future # Nothing
          PROVE  Genuine(calls[m].future)' /\ calls'[m].future.n = m
      BY <1>4, <3>1, <3>3 DEF Genuine, True_, Onward, SameCalls
    <3>4. CASE m = n
      BY <1>2, <1>4, <3>2, <3>3, <3>4 DEF Onward, Codes
    <3>5. CASE m # n
      BY <1>4, <3>1, <3>2, <3>3, <3>5 DEF Onward
    <3>6. QED
      BY <3>4, <3>5
  <2>2. QED
    BY <1>4, <2>1 DEF Answers
<1>9. QED
  BY <1>3, <1>4, <1>5, <1>6, <1>7, <1>8 DEF Books

(* The calls that are written are old or are the client's own next one.    *)
Moves ==
    \A c \in Clients :
        \/ cur'[c] = cur[c] /\ (pc'[c] = "writing" => pc[c] = "writing")
        \/ cur'[c] = Len(calls) + 1

LEMMA NewCall ==
    ASSUME Shapes
    PROVE  /\ DOMAIN calls = 1 .. Len(calls) /\ Len(calls) \in Nat
           /\ \A n \in DOMAIN calls : n \in Nat /\ n < Len(calls) + 1
BY DEF Shapes

(* A step that moves no request.                                           *)
LEMMA QuietStep ==
    ASSUME Shapes, Pipe, Newest, SameCalls, Moves, UNCHANGED <<reqWire, queues, executed>>
    PROVE  Onward /\ Pipe' /\ Newest'
<1>1. Pipe' /\ Written' = Written /\ Executed' = Executed
  BY PipeSame
<1>2. /\ DOMAIN calls = 1 .. Len(calls) /\ Len(calls) \in Nat
      /\ \A n \in DOMAIN calls : n \in Nat /\ n < Len(calls) + 1
  BY NewCall
<1>3. DOMAIN calls \cap Gone \subseteq Gone'
  <2>1. \A c \in Clients : pc'[c] = "writing" =>
            (pc[c] = "writing" /\ cur'[c] = cur[c]) \/ cur'[c] \notin DOMAIN calls
    BY <1>2 DEF Moves
  <2>2. DOMAIN calls \cap Written' \subseteq Written \cup
            {cur[c] : c \in {x \in Clients : pc[x] = "writing"}}
    BY <1>1
  <2>3. QED
    BY <2>1, <2>2, GoneOn
<1>4. Newest'
  <2>1. SUFFICES ASSUME NEW c \in Clients, NEW n \in Written, calls'[n].client = c
                 PROVE  n <= cur'[c] /\ (pc'[c] = "writing" => n # cur'[c])
    BY <1>1 DEF Newest
  <2>2. n \in DOMAIN calls
    BY PipeMembers
  <2>3. n <= cur[c] /\ (pc[c] = "writing" => n # cur[c])
    BY <2>1, <2>2 DEF Newest, SameCalls
  <2>4. n < Len(calls) + 1 /\ n \in Nat /\ Len(calls) + 1 \in Nat
    BY <1>2, <2>2
  <2>5. CASE cur'[c] = cur[c] /\ (pc'[c] = "writing" => pc[c] = "writing")
    BY <2>3, <2>5
  <2>6. CASE cur'[c] = Len(calls) + 1
    BY <2>4, <2>6
  <2>7. QED
    BY <2>5, <2>6 DEF Moves
<1>5. QED
  BY <1>1, <1>3, <1>4 DEF Onward

(* A call that returns, and no message moves.                              *)
LEMMA QuietReturn ==
    ASSUME IInv, NEW c \in Clients, pc[c] # "idle",
           NEW r \in Codes \cup {"unsent", "timeout"}, Return(c, r),
           UNCHANGED <<table, server, net>>,
           r = "ok" => cur[c] \in Executed,
           r = "refused" => cur[c] \in Gone,
           r = "unsent" => pc[c] = "writing",
           cur[c] \notin DOMAIN table[c] \/ r \in {"unsent", "timeout"}
    PROVE  IInv'
<1>1. Shapes /\ Pipe /\ Newest /\ Books
  BY DEF IInv
<1>2. /\ cur[c] \in DOMAIN calls /\ calls[cur[c]].client = c
      /\ cur' = cur /\ pc' = [pc EXCEPT ![c] = "idle"]
      /\ calls' \in Seq(Call_) /\ Len(calls') = Len(calls)
      /\ SameCalls
  BY <1>1, ReturnCalls DEF Books, SameCalls
<1>3. Moves
  BY <1>1, <1>2 DEF Moves, Shapes
<1>4. Onward /\ Pipe' /\ Newest'
  BY <1>1, <1>2, <1>3, QuietStep DEF server, net
<1>5. ASSUME r \in {"refused", "unsent"}
      PROVE  cur[c] \in Gone'
  <2>1. CASE r = "refused"
    BY <1>2, <1>4, <2>1 DEF Onward
  <2>2. CASE r = "unsent"
    <3>1. cur[c] \notin Written' /\ cur[c] \in Nat
      <4>1. cur[c] \notin Written /\ cur[c] \in Nat
        BY <1>1, <1>2, <2>2, NewCall DEF Newest
      <4>2. Written' = Written
        BY <1>1, <1>2, PipeSame DEF server, net
      <4>3. QED
        BY <4>1, <4>2
    <3>2. ASSUME NEW d \in Clients, pc'[d] = "writing"
          PROVE  cur'[d] # cur[c]
      <4>1. d # c /\ pc[d] = "writing" /\ cur'[d] = cur[d]
        BY <1>1, <1>2, <3>2 DEF Shapes
      <4>2. QED
        BY <1>1, <1>2, <4>1 DEF Books, Current
    <3>3. QED
      BY <3>1, <3>2 DEF Gone
  <2>3. QED
    BY <1>5, <2>1, <2>2
<1>6. Books'
  <2>1. r \in Codes \cup {"sent", "unsent", "timeout"}
    OBVIOUS
  <2>2. QED
    BY <1>1, <1>4, <1>5, <2>1, ReturnKeeps DEF server, net
<1>7. Shapes'
  <2>1. /\ cur' \in [Clients -> 0 .. Len(calls')]
        /\ pc' \in [Clients -> {"idle", "writing", "get", "waiting", "woken", "timedout"}]
        /\ Len(calls') <= MaxCalls
    BY <1>1, <1>2 DEF Shapes
  <2>2. QED
    BY <1>1, <1>2, <2>1 DEF Shapes, server, net
<1>8. QED
  BY <1>4, <1>6, <1>7 DEF IInv

-----------------------------------------------------------------------------
(* The client's thread.                                                    *)
LEMMA SendFailsKeeps ==
    ASSUME IInv, NEW c \in Clients, SendFails(c)
    PROVE  IInv'
<1>1. pc[c] = "writing" /\ Return(c, "unsent") /\ UNCHANGED <<server, net>>
  BY DEF SendFails
<1>2. table' = table
  <2>1. table \in [Clients -> Tables]
    BY DEF IInv, Shapes
  <2>2. QED
    BY <2>1 DEF SendFails, Remove
<1>3. PICK r : r = "unsent"
  OBVIOUS
<1>4. QED
  BY <1>1, <1>2, <1>3, QuietReturn

LEMMA ReportTimeoutKeeps ==
    ASSUME IInv, NEW c \in Clients, ReportTimeout(c)
    PROVE  IInv'
<1>1. pc[c] = "timedout" /\ Return(c, "timeout") /\ UNCHANGED <<server, net>>
  BY DEF ReportTimeout
<1>2. table' = table
  <2>1. table \in [Clients -> Tables]
    BY DEF IInv, Shapes
  <2>2. QED
    BY <2>1 DEF ReportTimeout, Remove
<1>3. PICK r : r = "timeout"
  OBVIOUS
<1>4. QED
  BY <1>1, <1>2, <1>3, QuietReturn

(* The result of a call that has its answer.                               *)
LEMMA OutcomeIsTrue ==
    ASSUME IInv, NEW c \in Clients, pc[c] # "idle", calls[cur[c]].future # Nothing
    PROVE  /\ Outcome(cur[c]) \in Codes
           /\ Outcome(cur[c]) = "ok" => cur[c] \in Executed
           /\ Outcome(cur[c]) = "refused" => cur[c] \in Gone
           /\ cur[c] \notin DOMAIN table[c]
<1>1. cur[c] \in DOMAIN calls /\ calls[cur[c]] \in Call_
  BY DEF IInv, Books, Current, Shapes
<1>2. Genuine(calls[cur[c]].future) /\ calls[cur[c]].future.n = cur[c]
  BY <1>1 DEF IInv, Books, Answers
<1>3. calls[cur[c]].future \in Responses
  BY <1>1 DEF Call_
<1>4. Outcome(cur[c]) = calls[cur[c]].future.code
  BY <1>2 DEF Outcome, Genuine
<1>5. cur[c] \notin DOMAIN table[c]
  BY DEF IInv, Books, Tabled
<1>6. QED
  BY <1>2, <1>3, <1>4, <1>5 DEF Genuine, True_, Responses

LEMMA AnswerReturns ==
    ASSUME IInv, NEW c \in Clients, pc[c] # "idle", calls[cur[c]].future # Nothing,
           Return(c, Outcome(cur[c])), UNCHANGED <<table, server, net>>
    PROVE  IInv'
<1>1. PICK r : r = Outcome(cur[c])
  OBVIOUS
<1>2. /\ r \in Codes /\ (r = "ok" => cur[c] \in Executed)
      /\ (r = "refused" => cur[c] \in Gone) /\ cur[c] \notin DOMAIN table[c]
  BY <1>1, OutcomeIsTrue
<1>3. r \in Codes \cup {"unsent", "timeout"} /\ r # "unsent"
  BY <1>2 DEF Codes
<1>4. Return(c, r)
  BY <1>1 DEF Return
<1>5. QED
  BY <1>2, <1>3, <1>4, QuietReturn

LEMMA WaitEndsKeeps ==
    ASSUME IInv, NEW c \in Clients, WaitEnds(c)
    PROVE  IInv'
<1>1. pc[c] = "woken" /\ Return(c, Outcome(cur[c])) /\ UNCHANGED <<table, server, net>>
  BY DEF WaitEnds
<1>2. calls[cur[c]].future # Nothing
  BY <1>1 DEF IInv, Books, Current
<1>3. QED
  BY <1>1, <1>2, AnswerReturns

(* The thread goes on and nothing else changes.                            *)
LEMMA ThreadMoves ==
    ASSUME IInv, NEW c \in Clients, pc[c] \in {"get", "waiting"},
           NEW place \in {"waiting", "timedout"}, pc' = [pc EXCEPT ![c] = place],
           UNCHANGED <<calls, cur, table, server, net>>
    PROVE  IInv'
<1>1. Shapes /\ Pipe /\ Newest /\ Books
  BY DEF IInv
<1>2. SameCalls /\ Moves
  BY <1>1 DEF SameCalls, Moves, Shapes
<1>3. Onward /\ Pipe' /\ Newest'
  BY <1>1, <1>2, QuietStep DEF server, net
<1>4. Current'
  <2>1. ASSUME NEW d \in Clients, pc'[d] # "idle"
        PROVE  /\ pc[d] # "idle" /\ (pc'[d] # "writing" => pc[d] # "writing")
               /\ (pc'[d] = "woken" => pc[d] = "woken")
    BY <1>1, <2>1 DEF Shapes
  <2>2. QED
    BY <1>1, <2>1 DEF Books, Current
<1>5. Tabled'
  BY <1>1 DEF Books, Tabled
<1>6. Working' /\ OnWire' /\ InHand' /\ Answers'
  BY <1>1, <1>3, WorkingSame, OnWireSame, InHandSame, AnswersSame DEF Books, server, net
<1>7. Shapes'
  BY <1>1 DEF Shapes, server, net
<1>8. QED
  BY <1>3, <1>4, <1>5, <1>6, <1>7 DEF IInv, Books

LEMMA GetResultKeeps ==
    ASSUME IInv, NEW c \in Clients, GetResult(c)
    PROVE  IInv'
<1>1. pc[c] = "get" /\ UNCHANGED <<table, server, net>>
  BY DEF GetResult
<1>2. CASE calls[cur[c]].future = Nothing
  <2>1. PICK place : place = "waiting"
    OBVIOUS
  <2>2. pc' = [pc EXCEPT ![c] = place] /\ UNCHANGED <<calls, cur>>
    BY <1>2, <2>1 DEF GetResult
  <2>3. QED
    BY <1>1, <2>1, <2>2, ThreadMoves
<1>3. CASE calls[cur[c]].future # Nothing
  <2>1. Return(c, Outcome(cur[c]))
    BY <1>3 DEF GetResult
  <2>2. QED
    BY <1>1, <1>3, <2>1, AnswerReturns
<1>4. QED
  BY <1>2, <1>3

LEMMA WaitTimesOutKeeps ==
    ASSUME IInv, NEW c \in Clients, WaitTimesOut(c)
    PROVE  IInv'
<1>1. PICK place : place = "timedout"
  OBVIOUS
<1>2. /\ pc[c] = "waiting" /\ pc' = [pc EXCEPT ![c] = place]
      /\ UNCHANGED <<calls, cur, table, server, net>>
  BY <1>1 DEF WaitTimesOut
<1>3. QED
  BY <1>1, <1>2, ThreadMoves

LEMMA AppendCall ==
    ASSUME NEW s \in Seq(Call_), NEW x \in Call_, NEW t, t = Append(s, x)
    PROVE  /\ t \in Seq(Call_) /\ Len(t) = Len(s) + 1
           /\ DOMAIN t = DOMAIN s \cup {Len(s) + 1} /\ Len(s) + 1 \notin DOMAIN s
           /\ t[Len(s) + 1] = x
           /\ \A m \in DOMAIN s : t[m] = s[m]
<1>1. /\ Append(s, x) \in Seq(Call_) /\ Len(Append(s, x)) = Len(s) + 1 /\ Len(s) \in Nat
      /\ \A i \in 1 .. Len(s) : Append(s, x)[i] = s[i]
      /\ Append(s, x)[Len(s) + 1] = x
      /\ DOMAIN s = 1 .. Len(s) /\ DOMAIN Append(s, x) = 1 .. Len(s) + 1
  OBVIOUS
<1>2. QED
  BY <1>1

LEMMA CallKeeps ==
    ASSUME IInv, NEW c \in Clients, NEW api \in Apis, NEW noReply \in BOOLEAN,
           Call(c, api, noReply)
    PROVE  IInv'
<1>1. Shapes /\ Pipe /\ Newest /\ Books
  BY DEF IInv
<1>2. PICK n : n = Len(calls) + 1
  OBVIOUS
<1>3. PICK x : x = [client |-> c, api |-> api, noReply |-> noReply,
                    id |-> n, future |-> Nothing, result |-> None]
  OBVIOUS
<1>4. /\ pc[c] = "idle" /\ Len(calls) < MaxCalls /\ calls' = Append(calls, x)
      /\ cur' = [cur EXCEPT ![c] = n] /\ pc' = [pc EXCEPT ![c] = "writing"]
      /\ table' = IF noReply THEN table ELSE [table EXCEPT ![c] = With(@, n, n)]
      /\ UNCHANGED <<server, net>>
  BY <1>2, <1>3 DEF Call, NewId
<1>5. n \in Numbers /\ Len(calls) \in Nat /\ n \in Nat
  BY <1>1, <1>2, <1>4, SizesAssumption DEF Shapes, Numbers
<1>6. /\ x \in Call_ /\ x.client = c /\ x.noReply = noReply /\ x.id = n
      /\ x.future = Nothing /\ x.result = None
  BY <1>3, <1>5 DEF Call_
<1>7. /\ calls' \in Seq(Call_) /\ Len(calls') = n
      /\ DOMAIN calls' = DOMAIN calls \cup {n} /\ n \notin DOMAIN calls
      /\ calls'[n] = x /\ \A m \in DOMAIN calls : calls'[m] = calls[m]
  <2>1. calls \in Seq(Call_)
    BY <1>1 DEF Shapes
  <2>2. QED
    BY <1>2, <1>4, <1>6, <2>1, AppendCall
<1>8. SameCalls /\ Moves
  <2>1. SameCalls
    BY <1>7 DEF SameCalls
  <2>2. Moves
    BY <1>1, <1>2, <1>4 DEF Moves, Shapes
  <2>3. QED
    BY <2>1, <2>2
<1>9. Onward /\ Pipe' /\ Newest'
  BY <1>1, <1>4, <1>8, QuietStep DEF server, net
<1>10. Current'
  <2>1. ASSUME NEW d \in Clients, pc'[d] # "idle"
        PROVE  /\ cur'[d] \in DOMAIN calls' /\ calls'[cur'[d]].client = d
               /\ calls'[cur'[d]].result = None
               /\ pc'[d] # "writing" => ~calls'[cur'[d]].noReply
               /\ pc'[d] = "woken" => calls'[cur'[d]].future # Nothing
    <3>1. CASE d = c
      <4>1. cur'[d] = n /\ pc'[d] = "writing"
        BY <1>1, <1>4, <3>1 DEF Shapes
      <4>2. QED
        BY <1>6, <1>7, <3>1, <4>1
    <3>2. CASE d # c
      <4>1. cur'[d] = cur[d] /\ pc'[d] = pc[d]
        BY <1>1, <1>4, <3>2 DEF Shapes
      <4>2. QED
        BY <1>1, <1>7, <2>1, <4>1 DEF Books, Current
    <3>3. QED
      BY <3>1, <3>2
  <2>2. QED
    BY <2>1 DEF Current
<1>11. ASSUME NEW d \in Clients
       PROVE  /\ table'[d] \in Tables
              /\ DOMAIN table'[d] \subseteq DOMAIN table[d] \cup {n}
              /\ n \in DOMAIN table'[d] => d = c /\ ~noReply /\ table'[d][n] = n
              /\ \A id \in DOMAIN table[d] : table'[d][id] = table[d][id]
  <2>1. table[d] \in Tables /\ n \notin DOMAIN table[d]
    BY <1>1, <1>7 DEF Shapes, Books, Tabled
  <2>2. CASE ~noReply /\ d = c
    <3>1. table'[d] = With(table[d], n, n)
      BY <1>1, <1>4, <2>2 DEF Shapes
    <3>2. With(table[d], n, n) =
              [i \in DOMAIN table[d] \cup {n} |-> IF i = n THEN n ELSE table[d][i]]
      BY DEF With
    <3>3. PICK ids \in SUBSET Nat : table[d] \in [ids -> Nat]
      BY <2>1 DEF Tables
    <3>4. With(table[d], n, n) \in [ids \cup {n} -> Nat] /\ ids \cup {n} \in SUBSET Nat
      BY <1>5, <3>2, <3>3
    <3>5. With(table[d], n, n) \in Tables
      BY <3>4 DEF Tables
    <3>6. QED
      BY <2>1, <2>2, <3>1, <3>2, <3>5
  <2>3. CASE noReply \/ d # c
    <3>1. table'[d] = table[d]
      BY <1>1, <1>4, <2>3 DEF Shapes
    <3>2. QED
      BY <2>1, <3>1
  <2>4. QED
    BY <2>2, <2>3
<1>12. Tabled'
  <2>1. ASSUME NEW d \in Clients, NEW id \in DOMAIN table'[d]
        PROVE  /\ table'[d][id] = id /\ id \in DOMAIN calls'
               /\ calls'[id].client = d /\ calls'[id].future = Nothing /\ ~calls'[id].noReply
               /\ calls'[id].result \in {None, "timeout", "unsent"}
    <3>1. CASE id = n
      BY <1>6, <1>7, <1>11, <3>1
    <3>2. CASE id # n
      <4>1. id \in DOMAIN table[d]
        BY <1>11, <3>2
      <4>2. QED
        BY <1>1, <1>7, <1>11, <4>1 DEF Books, Tabled
    <3>3. QED
      BY <3>1, <3>2
  <2>2. QED
    BY <2>1 DEF Tabled
<1>13. Working' /\ OnWire' /\ InHand'
  <2>1. \A d \in Clients : DOMAIN calls \cap DOMAIN table'[d] \subseteq DOMAIN table[d]
    BY <1>7, <1>11
  <2>2. QED
    BY <1>1, <1>4, <1>9, <2>1, WorkingSame, OnWireSame, InHandSame DEF Books, server, net
<1>14. Answers'
  <2>1. ASSUME NEW m \in DOMAIN calls
        PROVE  /\ calls[m].id = m
               /\ calls[m].future # Nothing =>
                    Genuine(calls[m].future)' /\ calls[m].future.n = m
               /\ calls[m].result # "mismatch"
               /\ calls[m].result = "ok" => m \in Executed'
               /\ calls[m].result \in {"refused", "unsent"} => m \in Gone'
    <3>1. /\ calls[m].id = m
          /\ calls[m].future # Nothing =>
               Genuine(calls[m].future) /\ calls[m].future.n = m
          /\ calls[m].result # "mismatch"
          /\ calls[m].result = "ok" => m \in Executed
          /\ calls[m].result \in {"refused", "unsent"} => m \in Gone
      BY <1>1 DEF Books, Answers
    <3>2. ASSUME calls[m].future # Nothing
          PROVE  Genuine(calls[m].future)'
      BY <1>7, <1>9, <3>1, <3>2 DEF Genuine, True_, Onward, SameCalls
    <3>3. QED
      BY <1>9, <3>1, <3>2 DEF Onward
  <2>2. QED
    BY <1>6, <1>7, <2>1 DEF Answers, None
<1>15. Shapes'
  <2>1. cur' \in [Clients -> 0 .. Len(calls')]
    BY <1>1, <1>2, <1>4, <1>5, <1>7 DEF Shapes
  <2>2. pc' \in [Clients -> {"idle", "writing", "get", "waiting", "woken", "timedout"}]
    BY <1>1, <1>4 DEF Shapes
  <2>3. table' \in [Clients -> Tables]
    <3>1. table' = [d \in Clients |-> table'[d]]
      BY <1>1, <1>4 DEF Shapes
    <3>2. QED
      BY <1>11, <3>1
  <2>4. Len(calls') <= MaxCalls
    BY <1>5, <1>7 DEF Numbers
  <2>5. QED
    BY <1>1, <1>4, <1>7, <2>1, <2>2, <2>3, <2>4 DEF Shapes, server, net
<1>16. QED
  BY <1>9, <1>10, <1>12, <1>13, <1>14, <1>15 DEF IInv, Books

(* The request of the call under way joins the client's wire.              *)
LEMMA SendPipe ==
    ASSUME IInv, NEW c \in Clients, pc[c] = "writing",
           NEW place \in {"idle", "get"}, pc' = [pc EXCEPT ![c] = place],
           reqWire' = [reqWire EXCEPT ![c] = Append(@, cur[c])],
           SameCalls, UNCHANGED <<cur, queues, executed>>
    PROVE  Onward /\ Pipe' /\ Newest' /\ reqWire' \in [Clients -> Seq(Nat)]
<1>1. Shapes /\ Pipe /\ Newest /\ Books
  BY DEF IInv
<1>2. PICK n : n = cur[c]
  OBVIOUS
<1>3. n \in DOMAIN calls /\ n \in Nat /\ calls[n].client = c
  BY <1>1, <1>2, NewCall DEF Books, Current
<1>4. reqWire[c] \in Seq(Nat) /\ reqWire' = [reqWire EXCEPT ![c] = Append(reqWire[c], n)]
  BY <1>1, <1>2 DEF Shapes
<1>5. /\ Append(reqWire[c], n) \in Seq(Nat)
      /\ Of(Append(reqWire[c], n)) = Of(reqWire[c]) \cup {n}
  BY <1>3, <1>4, OfAppend
<1>6. /\ \A d \in Clients : reqWire'[d] = IF d = c THEN Append(reqWire[c], n) ELSE reqWire[d]
      /\ reqWire' \in [Clients -> Seq(Nat)]
  BY <1>1, <1>4, <1>5 DEF Shapes
<1>7. \A d \in Clients :
          Of(reqWire'[d]) = IF d = c THEN Of(reqWire[c]) \cup {n} ELSE Of(reqWire[d])
  BY <1>5, <1>6
<1>8. Executed' = Executed /\ \A k \in Classes : Items(k)' = Items(k)
  BY DEF Executed, Items
<1>9. Written' = Written \cup {n}
  <2>1. (UNION {Of(reqWire[d]) : d \in Clients})' = (UNION {Of(reqWire[d]) : d \in Clients}) \cup {n}
    BY <1>7
  <2>2. QED
    BY <1>8, <2>1 DEF Written
<1>10. /\ Written \subseteq DOMAIN calls /\ Executed \subseteq Written
       /\ \A d \in Clients : Of(reqWire[d]) \subseteq Written
       /\ \A k \in Classes : Items(k) \subseteq Written
  BY <1>1, PipeMembers
<1>11. \A m \in DOMAIN calls : Lane'[m] = Lane[m] /\ ClassOf(m)' = ClassOf(m)
  BY LaneSame
<1>12. \A m \in Written : calls[m].client = c => m < n
  <2>1. TAKE m \in Written
  <2>2. m \in Nat
    BY <1>1, <1>10, NewCall
  <2>3. QED
    BY <1>1, <1>2, <1>3, <2>2 DEF Newest
<1>13. \A m \in Written : Lane[m] = Lane[n] => m < n
  <2>1. \A m \in DOMAIN calls : Lane[m] = <<calls[m].client, ClassOf(m)>>
    BY DEF Lane
  <2>2. QED
    BY <1>3, <1>10, <1>12, <2>1
<1>14. ASSUME NEW A, A \subseteq Written
       PROVE  Before(A, {n}, Lane)
  BY <1>13, <1>14 DEF Before
<1>15. ASSUME NEW d \in Clients
       PROVE  /\ Of(reqWire'[d]) \subseteq {m \in DOMAIN calls' : calls'[m].client = d}
              /\ Ordered(reqWire'[d], Lane')
              /\ Before(Executed', Of(reqWire'[d]), Lane')
              /\ \A k \in Classes : Before(Items(k)', Of(reqWire'[d]), Lane')
  <2>1. Of(reqWire'[d]) \subseteq DOMAIN calls
    BY <1>3, <1>7, <1>10
  <2>2. Of(reqWire'[d]) \subseteq {m \in DOMAIN calls' : calls'[m].client = d}
    BY <1>1, <1>3, <1>7 DEF Pipe, SameCalls
  <2>3. Ordered(reqWire'[d], Lane)
    <3>1. Ordered(reqWire[d], Lane)
      BY <1>1 DEF Pipe
    <3>2. CASE d = c
      <4>1. Before(Of(reqWire[c]), {n}, Lane)
        BY <1>10, <1>14
      <4>2. Ordered(Append(reqWire[c], n), Lane)
        BY <1>3, <1>4, <3>1, <3>2, <4>1, OrderedAppend
      <4>3. QED
        BY <1>6, <3>2, <4>2
    <3>3. CASE d # c
      BY <1>6, <3>1, <3>3
    <3>4. QED
      BY <3>2, <3>3
  <2>4. Ordered(reqWire'[d], Lane')
    BY <1>11, <2>1, <2>3, OrderedSame
  <2>5. ASSUME NEW A, A \subseteq Written, Before(A, Of(reqWire[d]), Lane)
        PROVE  Before(A, Of(reqWire'[d]), Lane')
    <3>1. Before(A, Of(reqWire'[d]), Lane)
      BY <1>7, <1>14, <2>5 DEF Before
    <3>2. QED
      BY <1>10, <1>11, <2>1, <2>5, <3>1, BeforeSame
  <2>6. Before(Executed', Of(reqWire'[d]), Lane')
    BY <1>1, <1>8, <1>10, <2>5 DEF Pipe
  <2>7. \A k \in Classes : Before(Items(k)', Of(reqWire'[d]), Lane')
    BY <1>1, <1>8, <1>10, <2>5 DEF Pipe
  <2>8. QED
    BY <2>2, <2>4, <2>6, <2>7
<1>16. ASSUME NEW k \in Classes
       PROVE  /\ Items(k)' \subseteq {m \in DOMAIN calls' : ClassOf(m)' = k}
              /\ Ordered(queues[k].items, Lane)'
              /\ Before(Executed', Items(k)', Lane')
  <2>1. Items(k) \subseteq DOMAIN calls /\ Executed \subseteq DOMAIN calls
    BY <1>10
  <2>2. Ordered(queues[k].items, Lane)'
    BY <1>1, <1>11, <2>1, OrderedSame DEF Pipe, Items
  <2>3. Before(Executed', Items(k)', Lane')
    BY <1>1, <1>8, <1>11, <2>1, BeforeSame DEF Pipe
  <2>4. QED
    BY <1>1, <1>8, <1>11, <2>1, <2>2, <2>3 DEF Pipe, SameCalls
<1>17. Executed' \subseteq DOMAIN calls' /\ Ordered(executed, Lane)'
  <2>1. Of(executed) = Executed
    BY <1>1, OfElements DEF Shapes, Executed
  <2>2. QED
    BY <1>1, <1>8, <1>11, <2>1, OrderedSame DEF Pipe, SameCalls
<1>18. Pipe'
  BY <1>15, <1>16, <1>17 DEF Pipe
<1>19. \A d \in Clients : pc'[d] = "writing" => d # c /\ pc[d] = "writing"
  BY <1>1 DEF Shapes
<1>20. DOMAIN calls \cap Gone \subseteq Gone'
  <2>1. DOMAIN calls \cap Written' \subseteq Written \cup
            {cur[d] : d \in {x \in Clients : pc[x] = "writing"}}
    BY <1>2, <1>9
  <2>2. QED
    BY <1>1, <1>19, <2>1, GoneOn
<1>21. Newest'
  <2>1. SUFFICES ASSUME NEW d \in Clients, NEW m \in Written', calls'[m].client = d
                 PROVE  m <= cur'[d] /\ (pc'[d] = "writing" => m # cur'[d])
    BY DEF Newest
  <2>2. CASE m \in Written
    BY <1>1, <1>10, <1>19, <2>1, <2>2 DEF Newest, SameCalls
  <2>3. CASE m = n
    BY <1>2, <1>3, <1>19, <2>1, <2>3 DEF SameCalls
  <2>4. QED
    BY <1>9, <2>2, <2>3
<1>22. QED
  BY <1>6, <1>8, <1>18, <1>20, <1>21 DEF Onward

LEMMA SendKeeps ==
    ASSUME IInv, NEW c \in Clients, Send(c)
    PROVE  IInv'
<1>1. Shapes /\ Pipe /\ Newest /\ Books
  BY DEF IInv
<1>2. /\ pc[c] = "writing" /\ reqWire' = [reqWire EXCEPT ![c] = Append(@, cur[c])]
      /\ UNCHANGED <<table, server, respWire, handling>>
  BY DEF Send
<1>3. CASE calls[cur[c]].noReply
  <2>1. PICK r : r = "sent"
    OBVIOUS
  <2>2. Return(c, r) /\ r \in Codes \cup {"sent", "unsent", "timeout"}
    BY <1>3, <2>1 DEF Send
  <2>3. /\ cur[c] \in DOMAIN calls /\ cur' = cur /\ SameCalls
        /\ pc' = [pc EXCEPT ![c] = "idle"]
    BY <1>1, <1>2, <2>2, ReturnCalls DEF Books, SameCalls
  <2>4. PICK place : place = "idle"
    OBVIOUS
  <2>5. Onward /\ Pipe' /\ Newest' /\ reqWire' \in [Clients -> Seq(Nat)]
    BY <1>2, <2>3, <2>4, SendPipe DEF server
  <2>6. cur[c] \notin DOMAIN table[c]
    BY <1>1, <1>3 DEF Books, Tabled
  <2>7. Books' /\ calls' \in Seq(Call_) /\ Len(calls') = Len(calls)
    BY <1>1, <1>2, <2>1, <2>2, <2>5, <2>6, ReturnKeeps DEF server
  <2>8. Shapes'
    <3>1. /\ cur' \in [Clients -> 0 .. Len(calls')] /\ Len(calls') <= MaxCalls
          /\ pc' \in [Clients -> {"idle", "writing", "get", "waiting", "woken", "timedout"}]
      BY <1>1, <2>3, <2>7 DEF Shapes
    <3>2. QED
      BY <1>1, <1>2, <2>5, <2>7, <3>1 DEF Shapes, server
  <2>9. QED
    BY <2>5, <2>7, <2>8 DEF IInv
<1>4. CASE ~calls[cur[c]].noReply
  <2>1. PICK place : place = "get"
    OBVIOUS
  <2>2. pc' = [pc EXCEPT ![c] = place] /\ UNCHANGED <<calls, cur>>
    BY <1>4, <2>1 DEF Send
  <2>3. SameCalls
    BY <2>2 DEF SameCalls
  <2>4. Onward /\ Pipe' /\ Newest' /\ reqWire' \in [Clients -> Seq(Nat)]
    BY <1>2, <2>1, <2>2, <2>3, SendPipe DEF server
  <2>5. Current'
    <3>1. \A d \in Clients : pc'[d] = IF d = c THEN "get" ELSE pc[d]
      BY <1>1, <2>1, <2>2 DEF Shapes
    <3>2. QED
      BY <1>1, <1>2, <1>4, <2>2, <3>1 DEF Books, Current
  <2>6. Tabled'
    BY <1>1, <1>2, <2>2 DEF Books, Tabled
  <2>7. Working' /\ OnWire' /\ InHand' /\ Answers'
    BY <1>1, <1>2, <2>2, <2>4, WorkingSame, OnWireSame, InHandSame, AnswersSame DEF Books, server
  <2>8. Shapes'
    BY <1>1, <1>2, <2>1, <2>2, <2>4 DEF Shapes, server
  <2>9. QED
    BY <2>4, <2>5, <2>6, <2>7, <2>8 DEF IInv, Books
<1>5. QED
  BY <1>3, <1>4

-----------------------------------------------------------------------------
(* The server.                                                             *)

(* A step of the server in which no call, table or thread of a client      *)
(* changes: what is left to show of the answers.                           *)
LEMMA ServerStep ==
    ASSUME Shapes, Pipe, Newest, Books, UNCHANGED <<calls, client>>,
           Pipe', Written' \subseteq Written, Executed \subseteq Executed'
    PROVE  Onward /\ Newest' /\ Current' /\ Tabled' /\ Answers'
<1>1. SameCalls
  BY DEF SameCalls
<1>2. DOMAIN calls \cap Gone \subseteq Gone'
  BY GoneOn DEF client
<1>3. Onward
  BY <1>1, <1>2 DEF Onward
<1>4. Newest'
  BY DEF Newest, client
<1>5. Current' /\ Tabled'
  BY DEF Books, Current, Tabled, client
<1>6. QED
  BY <1>3, <1>4, <1>5, AnswersSame DEF Books

LEMMA ReceiveRequestKeeps ==
    ASSUME IInv, NEW c \in Clients, ReceiveRequest(c)
    PROVE  IInv'
<1>1. Shapes /\ Pipe /\ Newest /\ Books
  BY DEF IInv
<1>2. PICK k \in 1 .. Len(reqWire[c]) :
          /\ queues' = Enqueue(reqWire[c][k])
          /\ reqWire' = [reqWire EXCEPT ![c] = SubSeq(@, k + 1, Len(@))]
  BY DEF ReceiveRequest
<1>3. UNCHANGED <<calls, client, worker, executed, respWire, handling>>
  BY DEF ReceiveRequest
<1>4. PICK n : n = reqWire[c][k]
  OBVIOUS
<1>5. PICK rest : rest = SubSeq(reqWire[c], k + 1, Len(reqWire[c]))
  OBVIOUS
<1>6. reqWire[c] \in Seq(Nat) /\ Ordered(reqWire[c], Lane)
  BY <1>1 DEF Shapes, Pipe
<1>7. /\ rest \in Seq(Nat) /\ Of(rest) \subseteq Of(reqWire[c])
      /\ n \in Of(reqWire[c]) /\ n \in Nat
  BY <1>4, <1>5, <1>6, OfDrop
<1>8. Ordered(rest, Lane) /\ Before({n}, Of(rest), Lane)
  BY <1>4, <1>5, <1>6, OrderedDrop
<1>9. /\ reqWire' \in [Clients -> Seq(Nat)]
      /\ \A d \in Clients : reqWire'[d] = IF d = c THEN rest ELSE reqWire[d]
  <2>1. reqWire' = [reqWire EXCEPT ![c] = rest]
    BY <1>2, <1>5
  <2>2. QED
    BY <1>1, <1>7, <2>1 DEF Shapes
<1>10. n \in DOMAIN calls /\ calls[n].client = c
  BY <1>1, <1>7 DEF Pipe
<1>11. PICK class : class = ClassOf(n)
  OBVIOUS
<1>12. class \in Classes
  BY <1>11 DEF ClassOf, Classes
<1>13. PICK maxLen : maxLen = MaxLen(class)
  OBVIOUS
<1>14. maxLen \in Nat \ {0}
  BY <1>13, SizesAssumption DEF MaxLen
<1>15. PICK p : p = Put(queues[class], n, TRUE, maxLen)
  OBVIOUS
<1>16. queues' = [queues EXCEPT ![class] = p]
  BY <1>2, <1>4, <1>11, <1>13, <1>15 DEF Enqueue
<1>17. /\ p \in [items : Seq(Nat), curLen : Nat] /\ p.curLen = Len(p.items)
       /\ Of(p.items) \subseteq Items(class) \cup {n}
       /\ Ordered(p.items, Lane)
  <2>1. /\ queues[class] \in [items : Seq(Nat), curLen : Nat]
        /\ queues[class].curLen = Len(queues[class].items)
        /\ Ordered(queues[class].items, Lane)
    BY <1>1, <1>12 DEF Shapes, Pipe
  <2>2. Before(Of(queues[class].items), {n}, Lane)
    BY <1>1, <1>7, <1>12 DEF Pipe, Items, Before
  <2>3. PICK q : q = queues[class]
    OBVIOUS
  <2>4. /\ IsQueue(q)
        /\ Ordered(q.items, Lane) /\ Before(Of(q.items), {n}, Lane)
        /\ p = Put(q, n, TRUE, maxLen)
    BY <1>15, <2>1, <2>2, <2>3 DEF IsQueue
  <2>5. /\ IsQueue(p)
        /\ Of(p.items) \subseteq Of(q.items) \cup {n}
        /\ Ordered(p.items, Lane)
    BY <1>7, <1>14, <2>4, PutFacts
  <2>6. QED
    BY <2>3, <2>5 DEF Items, IsQueue
<1>18. \A j \in Classes : queues'[j] = IF j = class THEN p ELSE queues[j]
  BY <1>1, <1>12, <1>16 DEF Shapes
<1>19. /\ queues' \in [Classes -> [items : Seq(Nat), curLen : Nat]]
       /\ \A j \in Classes : queues'[j].curLen = Len(queues'[j].items)
  <2>1. queues' \in [Classes -> [items : Seq(Nat), curLen : Nat]]
    BY <1>1, <1>16, <1>17 DEF Shapes
  <2>2. ASSUME NEW j \in Classes
        PROVE  queues'[j].curLen = Len(queues'[j].items)
    BY <1>1, <1>17, <1>18 DEF Shapes
  <2>3. QED
    BY <2>1, <2>2
<1>20. \A j \in Classes : Items(j)' = IF j = class THEN Of(p.items) ELSE Items(j)
  BY <1>18 DEF Items
<1>21. Lane' = Lane /\ Executed' = Executed /\ \A m : ClassOf(m)' = ClassOf(m)
  BY <1>3 DEF Lane, Executed, ClassOf
<1>22. \A d \in Clients : Of(reqWire'[d]) \subseteq Of(reqWire[d])
  BY <1>7, <1>9
<1>23. Written' \subseteq Written
  <2>1. n \in Written
    BY <1>7 DEF Written
  <2>2. ASSUME NEW d \in Clients
        PROVE  Of(reqWire'[d]) \subseteq Written
    BY <1>22 DEF Written
  <2>3. ASSUME NEW j \in Classes
        PROVE  Items(j)' \subseteq Written
    BY <1>12, <1>17, <1>20, <2>1 DEF Written
  <2>4. Executed' \subseteq Written
    BY <1>21 DEF Written
  <2>5. (UNION {Of(reqWire[d]) : d \in Clients})' \subseteq Written
    BY <2>2
  <2>6. (UNION {Items(j) : j \in Classes})' \subseteq Written
    BY <2>3
  <2>7. QED
    BY <2>4, <2>5, <2>6 DEF Written
<1>24. ASSUME NEW d \in Clients
       PROVE  /\ Of(reqWire'[d]) \subseteq {m \in DOMAIN calls : calls[m].client = d}
              /\ Ordered(reqWire'[d], Lane)
              /\ Before(Executed, Of(reqWire'[d]), Lane)
              /\ \A j \in Classes : Before(Items(j)', Of(reqWire'[d]), Lane)
  <2>1. Of(reqWire'[d]) \subseteq {m \in DOMAIN calls : calls[m].client = d}
    BY <1>1, <1>22 DEF Pipe
  <2>2. Ordered(reqWire'[d], Lane)
    BY <1>1, <1>8, <1>9 DEF Pipe
  <2>3. Before(Executed, Of(reqWire'[d]), Lane)
    BY <1>1, <1>22 DEF Pipe, Before
  <2>4. \A j \in Classes : Before(Items(j), Of(reqWire'[d]), Lane)
    BY <1>1, <1>22 DEF Pipe, Before
  <2>5. Before({n}, Of(reqWire'[d]), Lane)
    <3>1. CASE d = c
      BY <1>8, <1>9, <3>1
    <3>2. CASE d # c
      <4>1. \A m \in DOMAIN calls : Lane[m] = <<calls[m].client, ClassOf(m)>>
        BY DEF Lane
      <4>2. \A m \in Of(reqWire'[d]) : Lane[m] # Lane[n]
        BY <1>10, <2>1, <3>2, <4>1
      <4>3. QED
        BY <4>2 DEF Before
    <3>3. QED
      BY <3>1, <3>2
  <2>6. ASSUME NEW j \in Classes
        PROVE  Before(Items(j)', Of(reqWire'[d]), Lane)
    <3>1. Items(j)' \subseteq Items(j) \cup {n}
      BY <1>17, <1>20
    <3>2. Before(Items(j), Of(reqWire'[d]), Lane)
      BY <2>4
    <3>3. QED
      BY <2>5, <3>1, <3>2 DEF Before
  <2>7. QED
    BY <2>1, <2>2, <2>3, <2>6
<1>25. ASSUME NEW j \in Classes
       PROVE  /\ Items(j)' \subseteq {m \in DOMAIN calls : ClassOf(m) = j}
              /\ Ordered(queues'[j].items, Lane)
              /\ Before(Executed, Items(j)', Lane)
  <2>1. CASE j = class
    <3>1. Items(j)' \subseteq Items(j) \cup {n}
      BY <1>17, <1>20, <2>1
    <3>2. Ordered(queues'[j].items, Lane)
      BY <1>17, <1>18, <2>1
    <3>3. Before(Executed, Items(j), Lane) /\ Before(Executed, Of(reqWire[c]), Lane)
      BY <1>1 DEF Pipe
    <3>4. Items(j) \subseteq {m \in DOMAIN calls : ClassOf(m) = j}
      BY <1>1 DEF Pipe
    <3>5. QED
      BY <1>7, <1>10, <1>11, <2>1, <3>1, <3>2, <3>3, <3>4 DEF Before
  <2>2. CASE j # class
    BY <1>1, <1>18, <1>20, <2>2 DEF Pipe
  <2>3. QED
    BY <2>1, <2>2
<1>26. Pipe'
  BY <1>1, <1>3, <1>21, <1>24, <1>25 DEF Pipe
<1>27. Onward /\ Newest' /\ Current' /\ Tabled' /\ Answers'
  BY <1>1, <1>3, <1>21, <1>23, <1>26, ServerStep
<1>28. Working' /\ OnWire' /\ InHand'
  BY <1>1, <1>3, <1>27, WorkingSame, OnWireSame, InHandSame DEF Books, client
<1>29. Shapes'
  BY <1>1, <1>3, <1>9, <1>19 DEF Shapes, client
<1>30. QED
  BY <1>26, <1>27, <1>28, <1>29 DEF IInv, Books

LEMMA HandleRequestKeeps ==
    ASSUME IInv, NEW k \in Classes, HandleRequest(k)
    PROVE  IInv'
<1>1. Shapes /\ Pipe /\ Newest /\ Books
  BY DEF IInv
<1>2. PICK n : n = queues[k].items[1]
  OBVIOUS
<1>3. PICK code \in Codes :
          /\ worker' = [worker EXCEPT ![k] = [pc |-> "respond", n |-> n, code |-> code]]
          /\ executed' = IF code = "ok" THEN Append(executed, n) ELSE executed
  BY <1>2 DEF HandleRequest
<1>4. /\ ~Empty(queues[k]) /\ queues' = [queues EXCEPT ![k] = Popped(@)]
      /\ UNCHANGED <<calls, client, net>>
  BY DEF HandleRequest
<1>5. /\ queues[k] \in [items : Seq(Nat), curLen : Nat]
      /\ queues[k].curLen = Len(queues[k].items)
      /\ Ordered(queues[k].items, Lane)
  BY <1>1 DEF Shapes, Pipe
<1>6. PICK s : s = queues[k].items
  OBVIOUS
<1>7. s \in Seq(Nat) /\ s # << >> /\ Ordered(s, Lane) /\ Items(k) = Of(s) /\ n = s[1]
  BY <1>2, <1>4, <1>5, <1>6 DEF Empty, Items
<1>8. PICK rest : rest = Tail(s)
  OBVIOUS
<1>9. /\ rest \in Seq(Nat) /\ Len(rest) = Len(s) - 1 /\ Len(s) \in Nat \ {0}
      /\ Of(rest) \subseteq Items(k) /\ n \in Items(k) /\ n \in Nat
  BY <1>7, <1>8, OfTail
<1>10. Ordered(rest, Lane) /\ Before({n}, Of(rest), Lane)
  BY <1>7, <1>8, OrderedTail
<1>11. PICK p : p = Popped(queues[k])
  OBVIOUS
<1>12. /\ p \in [items : Seq(Nat), curLen : Nat] /\ p.items = rest
       /\ p.curLen = Len(p.items)
  <2>1. p = [items |-> rest, curLen |-> queues[k].curLen - 1]
    BY <1>6, <1>8, <1>11 DEF Popped
  <2>2. queues[k].curLen - 1 = Len(rest) /\ Len(rest) \in Nat
    BY <1>5, <1>6, <1>9
  <2>3. QED
    BY <1>9, <2>1, <2>2
<1>13. queues' = [queues EXCEPT ![k] = p]
  BY <1>4, <1>11
<1>14. \A j \in Classes : queues'[j] = IF j = k THEN p ELSE queues[j]
  BY <1>1, <1>13 DEF Shapes
<1>15. /\ queues' \in [Classes -> [items : Seq(Nat), curLen : Nat]]
       /\ \A j \in Classes : queues'[j].curLen = Len(queues'[j].items)
  <2>1. queues' \in [Classes -> [items : Seq(Nat), curLen : Nat]]
    BY <1>1, <1>12, <1>13 DEF Shapes
  <2>2. ASSUME NEW j \in Classes
        PROVE  queues'[j].curLen = Len(queues'[j].items)
    BY <1>1, <1>12, <1>14 DEF Shapes
  <2>3. QED
    BY <2>1, <2>2
<1>16. \A j \in Classes : Items(j)' = IF j = k THEN Of(rest) ELSE Items(j)
  BY <1>12, <1>14 DEF Items
<1>17. \A j \in Classes : Items(j)' \subseteq Items(j)
  BY <1>9, <1>16
<1>18. /\ Lane' = Lane /\ \A m : ClassOf(m)' = ClassOf(m)
       /\ \A d \in Clients : reqWire'[d] = reqWire[d]
  BY <1>4 DEF Lane, ClassOf, net
<1>19. n \in DOMAIN calls /\ ClassOf(n) = k
  BY <1>1, <1>9 DEF Pipe
<1>20. executed \in Seq(Nat) /\ Of(executed) = Executed
  BY <1>1, OfElements DEF Shapes, Executed
<1>21. Before(Executed, {n}, Lane)
  BY <1>1, <1>9 DEF Pipe, Before
<1>22. /\ executed' \in Seq(Nat) /\ Ordered(executed', Lane)
       /\ Executed' = IF code = "ok" THEN Executed \cup {n} ELSE Executed
  <2>1. CASE code = "ok"
    <3>1. executed' = Append(executed, n)
      BY <1>3, <2>1
    <3>2. executed' \in Seq(Nat) /\ Of(executed') = Executed \cup {n}
      BY <1>9, <1>20, <3>1, OfAppend
    <3>3. Executed' = Of(executed')
      BY <3>2, OfElements DEF Executed
    <3>4. Ordered(executed, Lane)
      BY <1>1 DEF Pipe
    <3>5. Ordered(Append(executed, n), Lane)
      BY <1>9, <1>20, <1>21, <3>4, OrderedAppend
    <3>6. QED
      BY <2>1, <3>1, <3>2, <3>3, <3>5
  <2>2. CASE code # "ok"
    <3>1. executed' = executed
      BY <1>3, <2>2
    <3>2. Executed' = Executed
      BY <3>1 DEF Executed
    <3>3. QED
      BY <1>1, <1>20, <2>2, <3>1, <3>2 DEF Pipe
  <2>3. QED
    BY <2>1, <2>2
<1>23. Written' \subseteq Written /\ Executed \subseteq Executed'
  <2>1. (UNION {Of(reqWire[d]) : d \in Clients})' = UNION {Of(reqWire[d]) : d \in Clients}
    BY <1>18
  <2>2. ASSUME NEW j \in Classes
        PROVE  Items(j)' \subseteq Written
    BY <1>17 DEF Written
  <2>3. (UNION {Items(j) : j \in Classes})' \subseteq Written
    BY <2>2
  <2>4. n \in Written
    BY <1>9 DEF Written
  <2>5. Executed' \subseteq Written
    BY <1>22, <2>4 DEF Written
  <2>6. UNION {Of(reqWire[d]) : d \in Clients} \subseteq Written
    BY DEF Written
  <2>7. Written' \subseteq Written
    BY <2>1, <2>3, <2>5, <2>6 DEF Written
  <2>8. QED
    BY <1>22, <2>7
<1>24. ASSUME NEW d \in Clients
       PROVE  /\ Before(Executed', Of(reqWire[d]), Lane)
              /\ \A j \in Classes : Before(Items(j)', Of(reqWire[d]), Lane)
  BY <1>1, <1>9, <1>17, <1>22 DEF Pipe, Before
<1>25. ASSUME NEW j \in Classes
       PROVE  /\ Ordered(queues'[j].items, Lane)
              /\ Before(Executed', Items(j)', Lane)
              /\ n \notin Items(j)'
  <2>1. CASE j = k
    <3>1. Ordered(queues'[j].items, Lane)
      BY <1>10, <1>12, <1>14, <2>1
    <3>2. Before(Executed, Items(j), Lane)
      BY <1>1 DEF Pipe
    <3>3. Before(Executed', Items(j)', Lane)
      BY <1>10, <1>16, <1>17, <1>22, <2>1, <3>2 DEF Before
    <3>4. n \notin Items(j)'
      BY <1>9, <1>10, <1>16, <2>1 DEF Before
    <3>5. QED
      BY <3>1, <3>3, <3>4
  <2>2. CASE j # k
    <3>1. Items(j)' = Items(j) /\ queues'[j] = queues[j]
      BY <1>14, <1>16, <2>2
    <3>2. \A m \in Items(j) : m \in DOMAIN calls /\ ClassOf(m) = j
      BY <1>1 DEF Pipe
    <3>3. \A m \in DOMAIN calls : Lane[m] = <<calls[m].client, ClassOf(m)>>
      BY DEF Lane
    <3>4. \A m \in Items(j) : Lane[m] # Lane[n]
      BY <1>19, <2>2, <3>2, <3>3
    <3>5. Before(Executed, Items(j), Lane) /\ Ordered(queues[j].items, Lane)
      BY <1>1 DEF Pipe
    <3>6. QED
      BY <1>22, <3>1, <3>4, <3>5 DEF Before
  <2>3. QED
    BY <2>1, <2>2
<1>26. Pipe'
  <2>1. ASSUME NEW d \in Clients
        PROVE  /\ Of(reqWire'[d]) \subseteq {m \in DOMAIN calls' : calls'[m].client = d}
               /\ Ordered(reqWire'[d], Lane')
               /\ Before(Executed', Of(reqWire'[d]), Lane')
               /\ \A j \in Classes : Before(Items(j)', Of(reqWire'[d]), Lane')
    BY <1>1, <1>4, <1>18, <1>24 DEF Pipe
  <2>2. ASSUME NEW j \in Classes
        PROVE  /\ Items(j)' \subseteq {m \in DOMAIN calls' : ClassOf(m)' = j}
               /\ Ordered(queues'[j].items, Lane')
               /\ Before(Executed', Items(j)', Lane')
    BY <1>1, <1>4, <1>17, <1>18, <1>25 DEF Pipe
  <2>3. Executed' \subseteq DOMAIN calls' /\ Ordered(executed', Lane')
    BY <1>1, <1>4, <1>18, <1>19, <1>22 DEF Pipe
  <2>4. QED
    BY <2>1, <2>2, <2>3 DEF Pipe
<1>27. Onward /\ Newest' /\ Current' /\ Tabled' /\ Answers'
  BY <1>1, <1>4, <1>23, <1>26, ServerStep
<1>28. ASSUME code = "refused"
       PROVE  n \in Gone'
  <2>1. Executed' = Executed
    BY <1>22, <1>28
  <2>2. n \notin Executed
    BY <1>9, <1>21 DEF Before
  <2>3. \A j \in Classes : n \notin Items(j)'
    BY <1>25
  <2>4. ASSUME NEW d \in Clients
        PROVE  n \notin Of(reqWire'[d])
    <3>1. Before(Items(k), Of(reqWire[d]), Lane)
      BY <1>1 DEF Pipe
    <3>2. n \notin Of(reqWire[d])
      BY <1>9, <3>1 DEF Before
    <3>3. QED
      BY <1>18, <3>2
  <2>5. n \notin Written'
    BY <2>1, <2>2, <2>3, <2>4 DEF Written
  <2>6. ASSUME NEW d \in Clients, pc'[d] = "writing"
        PROVE  cur'[d] # n
    <3>1. n \in Written
      BY <1>9 DEF Written
    <3>2. pc[d] = "writing" /\ cur'[d] = cur[d]
      BY <1>4, <2>6 DEF client
    <3>3. calls[n].client = d => n # cur[d]
      BY <1>1, <3>1, <3>2 DEF Newest
    <3>4. calls[cur[d]].client = d
      BY <1>1, <3>2 DEF Books, Current
    <3>5. QED
      BY <3>2, <3>3, <3>4
  <2>7. QED
    BY <1>9, <2>5, <2>6 DEF Gone
<1>29. \A j \in Classes : worker'[j] =
           IF j = k THEN [pc |-> "respond", n |-> n, code |-> code] ELSE worker[j]
  BY <1>1, <1>3 DEF Shapes
<1>30. Working'
  <2>1. True_(n, code)'
    BY <1>4, <1>19, <1>22, <1>28 DEF True_
  <2>2. ASSUME NEW j \in Classes, worker'[j].pc = "respond"
        PROVE  True_(worker[j].n, worker[j].code)'
    <3>1. CASE j = k
      <4>1. worker'[j].n = n /\ worker'[j].code = code
        BY <1>29, <3>1
      <4>2. QED
        BY <2>1, <4>1 DEF True_
    <3>2. CASE j # k
      <4>1. worker'[j] = worker[j]
        BY <1>29, <3>2
      <4>2. QED
        BY <1>1, <1>27, <2>2, <4>1 DEF Books, Working, True_, Onward, SameCalls
    <3>3. QED
      BY <3>1, <3>2
  <2>3. QED
    BY <2>2 DEF Working
<1>31. OnWire' /\ InHand'
  BY <1>1, <1>4, <1>27, OnWireSame, InHandSame DEF Books, net, client
<1>32. Shapes'
  <2>1. worker' \in [Classes -> Workers]
    BY <1>1, <1>3, <1>9 DEF Shapes, Workers
  <2>2. QED
    BY <1>1, <1>4, <1>15, <1>22, <2>1 DEF Shapes, net, client
<1>33. QED
  BY <1>26, <1>27, <1>30, <1>31, <1>32 DEF IInv, Books

(* A step of the server that takes no request.                             *)
LEMMA QuietServer ==
    ASSUME IInv, UNCHANGED <<calls, client, queues, executed, reqWire>>
    PROVE  Onward /\ Pipe' /\ Newest' /\ Current' /\ Tabled' /\ Answers'
<1>1. Shapes /\ Pipe /\ Newest /\ Books
  BY DEF IInv
<1>2. SameCalls
  BY DEF SameCalls
<1>3. Pipe' /\ Written' = Written /\ Executed' = Executed
  BY <1>1, <1>2, PipeSame
<1>4. QED
  BY <1>1, <1>3, ServerStep

LEMMA ResponseIsGenuine ==
    ASSUME IInv, NEW k \in Classes, worker[k].pc = "respond"
    PROVE  Response(k) \in Responses /\ Genuine(Response(k))
<1>1. PICK n : n = worker[k].n
  OBVIOUS
<1>2. PICK code : code = worker[k].code
  OBVIOUS
<1>3. True_(n, code)
  BY <1>1, <1>2 DEF IInv, Books, Working
<1>4. n \in DOMAIN calls /\ calls[n].id = n
  BY <1>3 DEF True_, IInv, Books, Answers
<1>5. calls[n] \in Call_ /\ n \in Numbers
  <2>1. calls \in Seq(Call_) /\ Len(calls) <= MaxCalls /\ Len(calls) \in Nat
    BY DEF IInv, Shapes
  <2>2. QED
    BY <1>4, <2>1, SizesAssumption DEF Numbers
<1>6. code \in Codes
  <2>1. worker[k] \in Workers
    BY DEF IInv, Shapes
  <2>2. worker[k] \in [pc : {"respond"}, n : Nat, code : Codes]
    BY <2>1 DEF Workers, Idle
  <2>3. QED
    BY <1>2, <2>2
<1>7. PICK api : api = calls[n].api
  OBVIOUS
<1>8. api \in Apis
  BY <1>5, <1>7 DEF Call_
<1>9. Response(k) = [n |-> n, id |-> n, api |-> api, code |-> code]
  BY <1>1, <1>2, <1>4, <1>7 DEF Response
<1>10. QED
  BY <1>3, <1>5, <1>6, <1>7, <1>8, <1>9 DEF Responses, Genuine

LEMMA RespondKeeps ==
    ASSUME IInv, NEW k \in Classes, Respond(k)
    PROVE  IInv'
<1>1. Shapes /\ Pipe /\ Newest /\ Books
  BY DEF IInv
<1>2. /\ worker[k].pc = "respond" /\ worker' = [worker EXCEPT ![k] = Idle]
      /\ UNCHANGED <<calls, client, queues, executed, reqWire, handling>>
  BY DEF Respond
<1>3. PICK r : r = Response(k)
  OBVIOUS
<1>4. r \in Responses /\ Genuine(r)
  BY <1>2, <1>3, ResponseIsGenuine
<1>5. Onward /\ Pipe' /\ Newest' /\ Current' /\ Tabled' /\ Answers'
  BY <1>2, QuietServer
<1>6. Working'
  <2>1. \A j \in Classes : worker'[j] = IF j = k THEN Idle ELSE worker[j]
    BY <1>1, <1>2 DEF Shapes
  <2>2. QED
    BY <1>1, <1>5, <2>1 DEF Books, Working, True_, Onward, SameCalls, Idle
<1>7. /\ respWire' \in [Clients -> Seq(Responses)]
      /\ \A d \in Clients : respWire'[d] = respWire[d] \/ respWire'[d] = Append(respWire[d], r)
  <2>1. CASE calls[worker[k].n].noReply
    BY <1>1, <2>1 DEF Respond, Shapes
  <2>2. CASE ~calls[worker[k].n].noReply
    <3>1. respWire' = [d \in Clients |-> IF r.id \in DOMAIN table[d]
                                         THEN Append(respWire[d], r) ELSE respWire[d]]
      BY <1>3, <2>2 DEF Respond
    <3>2. ASSUME NEW d \in Clients
          PROVE  respWire[d] \in Seq(Responses) /\ Append(respWire[d], r) \in Seq(Responses)
      BY <1>1, <1>4 DEF Shapes
    <3>3. QED
      BY <3>1, <3>2
  <2>3. QED
    BY <2>1, <2>2
<1>8. OnWire'
  <2>1. Genuine(r)'
    BY <1>4, <1>5 DEF Genuine, True_, Onward, SameCalls
  <2>2. SUFFICES ASSUME NEW d \in Clients, NEW i \in 1 .. Len(respWire'[d])
                 PROVE  Genuine(respWire[d][i])'
    BY DEF OnWire
  <2>3. PICK x : x = respWire'[d][i]
    OBVIOUS
  <2>4. x = r \/ \E j \in 1 .. Len(respWire[d]) : x = respWire[d][j]
    <3>1. CASE respWire'[d] = respWire[d]
      BY <2>2, <2>3, <3>1
    <3>2. CASE respWire'[d] = Append(respWire[d], r)
      <4>1. respWire[d] \in Seq(Responses)
        BY <1>1 DEF Shapes
      <4>2. /\ Len(Append(respWire[d], r)) = Len(respWire[d]) + 1
            /\ \A j \in 1 .. Len(respWire[d]) : Append(respWire[d], r)[j] = respWire[d][j]
            /\ Append(respWire[d], r)[Len(respWire[d]) + 1] = r
        BY <1>4, <4>1, OfAppend
      <4>3. i \in 1 .. Len(respWire[d]) + 1 /\ Len(respWire[d]) \in Nat
        BY <2>2, <3>2, <4>1, <4>2
      <4>4. i \in 1 .. Len(respWire[d]) \/ i = Len(respWire[d]) + 1
        BY <4>3
      <4>5. QED
        BY <2>3, <3>2, <4>2, <4>4
    <3>3. QED
      BY <1>7, <3>1, <3>2
  <2>5. Genuine(x)'
    <3>1. CASE x = r
      BY <2>1, <3>1
    <3>2. CASE \E j \in 1 .. Len(respWire[d]) : x = respWire[d][j]
      <4>1. Genuine(x)
        BY <1>1, <3>2 DEF Books, OnWire
      <4>2. QED
        BY <1>5, <4>1 DEF Genuine, True_, Onward, SameCalls
    <3>3. QED
      BY <2>4, <3>1, <3>2
  <2>6. QED
    BY <2>3, <2>5 DEF Genuine, True_
<1>9. InHand'
  BY <1>1, <1>2, <1>5, InHandSame DEF Books, client
<1>10. Shapes'
  <2>1. worker' \in [Classes -> Workers]
    BY <1>1, <1>2 DEF Shapes, Workers
  <2>2. QED
    BY <1>1, <1>2, <1>7, <2>1 DEF Shapes, client
<1>11. QED
  BY <1>5, <1>6, <1>8, <1>9, <1>10 DEF IInv, Books

LEMMA RespondRaisesKeeps ==
    ASSUME IInv, NEW k \in Classes, RespondRaises(k)
    PROVE  IInv'
<1>1. Shapes /\ Pipe /\ Newest /\ Books
  BY DEF IInv
<1>2. /\ worker' = [worker EXCEPT ![k] = [pc |-> "dead"]]
      /\ UNCHANGED <<calls, client, queues, executed, net>>
  BY DEF RespondRaises
<1>3. Onward /\ Pipe' /\ Newest' /\ Current' /\ Tabled' /\ Answers'
  BY <1>2, QuietServer DEF net
<1>4. Working'
  <2>1. \A j \in Classes : worker'[j] = IF j = k THEN [pc |-> "dead"] ELSE worker[j]
    BY <1>1, <1>2 DEF Shapes
  <2>2. QED
    BY <1>1, <1>3, <2>1 DEF Books, Working, True_, Onward, SameCalls
<1>5. OnWire' /\ InHand'
  BY <1>1, <1>2, <1>3, OnWireSame, InHandSame DEF Books, net, client
<1>6. Shapes'
  <2>1. worker' \in [Classes -> Workers]
    BY <1>1, <1>2 DEF Shapes, Workers
  <2>2. QED
    BY <1>1, <1>2, <2>1 DEF Shapes, net, client
<1>7. QED
  BY <1>3, <1>4, <1>5, <1>6 DEF IInv, Books

-----------------------------------------------------------------------------
(* The reader thread of a client.                                          *)
LEMMA ReceiveResponseKeeps ==
    ASSUME IInv, NEW c \in Clients, ReceiveResponse(c)
    PROVE  IInv'
<1>1. Shapes /\ Pipe /\ Newest /\ Books
  BY DEF IInv
<1>2. PICK k \in 1 .. Len(respWire[c]) :
          /\ respWire' = [respWire EXCEPT ![c] = SubSeq(@, k + 1, Len(@))]
          /\ IF respWire[c][k].id \in DOMAIN table[c]
             THEN /\ handling' = [handling EXCEPT ![c] =
                         [response |-> respWire[c][k], n |-> table[c][respWire[c][k].id]]]
                  /\ table' = [table EXCEPT ![c] = Without(@, respWire[c][k].id)]
             ELSE UNCHANGED <<handling, table>>
  BY DEF ReceiveResponse
<1>3. UNCHANGED <<calls, pc, cur, server, reqWire>>
  BY DEF ReceiveResponse
<1>4. PICK r : r = respWire[c][k]
  OBVIOUS
<1>5. PICK rest : rest = SubSeq(respWire[c], k + 1, Len(respWire[c]))
  OBVIOUS
<1>6. respWire[c] \in Seq(Responses)
  BY <1>1 DEF Shapes
<1>7. /\ rest \in Seq(Responses) /\ Of(rest) \subseteq Of(respWire[c])
      /\ r \in Responses
  BY <1>4, <1>5, <1>6, OfDrop
<1>8. Genuine(r)
  BY <1>1, <1>4 DEF Books, OnWire
<1>9. /\ respWire' \in [Clients -> Seq(Responses)]
      /\ \A d \in Clients : respWire'[d] = IF d = c THEN rest ELSE respWire[d]
  <2>1. respWire' = [respWire EXCEPT ![c] = rest]
    BY <1>2, <1>5
  <2>2. QED
    BY <1>1, <1>7, <2>1 DEF Shapes
<1>10. SameCalls /\ Moves
  BY <1>3 DEF SameCalls, Moves
<1>11. Onward /\ Pipe' /\ Newest'
  BY <1>1, <1>3, <1>10, QuietStep DEF server
<1>12. Current' /\ Answers' /\ Working'
  <2>1. Current'
    BY <1>1, <1>3 DEF Books, Current
  <2>2. Answers' /\ Working'
    BY <1>1, <1>3, <1>11, AnswersSame, WorkingSame DEF Books, server
  <2>3. QED
    BY <2>1, <2>2
<1>13. OnWire'
  <2>1. SUFFICES ASSUME NEW d \in Clients, NEW i \in 1 .. Len(respWire'[d])
                 PROVE  Genuine(respWire[d][i])'
    BY DEF OnWire
  <2>2. PICK x : x = respWire'[d][i]
    OBVIOUS
  <2>3. x \in Of(respWire'[d])
    BY <2>1, <2>2 DEF Of
  <2>4. x \in Of(respWire[d])
    BY <1>7, <1>9, <2>3
  <2>5. PICK j \in 1 .. Len(respWire[d]) : x = respWire[d][j]
    BY <2>4 DEF Of
  <2>6. Genuine(x)
    BY <1>1, <2>5 DEF Books, OnWire
  <2>7. Genuine(x)'
    BY <1>11, <2>6 DEF Genuine, True_, Onward, SameCalls
  <2>8. QED
    BY <2>2, <2>7 DEF Genuine, True_
<1>14. CASE r.id \notin DOMAIN table[c]
  <2>1. UNCHANGED <<handling, table>>
    BY <1>2, <1>4, <1>14
  <2>2. Tabled' /\ InHand'
    <3>1. Tabled'
      BY <1>1, <1>3, <2>1 DEF Books, Tabled
    <3>2. InHand'
      BY <1>1, <1>11, <2>1, InHandSame DEF Books
    <3>3. QED
      BY <3>1, <3>2
  <2>3. Shapes'
    BY <1>1, <1>3, <1>9, <2>1 DEF Shapes, server
  <2>4. QED
    BY <1>11, <1>12, <1>13, <2>2, <2>3 DEF IInv, Books
<1>15. CASE r.id \in DOMAIN table[c]
  <2>1. PICK n : n = r.n
    OBVIOUS
  <2>2. r.id = n /\ n \in DOMAIN table[c] /\ table[c][n] = n
    BY <1>1, <1>8, <1>15, <2>1 DEF Genuine, Books, Tabled
  <2>3. n \in DOMAIN calls /\ n \in Nat /\ calls[n].client = c
    BY <1>1, <2>2, NewCall DEF Books, Tabled
  <2>4. PICK h : h = [response |-> r, n |-> n]
    OBVIOUS
  <2>5. handling' = [handling EXCEPT ![c] = h] /\ table' = [table EXCEPT ![c] = Without(@, n)]
    BY <1>2, <1>4, <1>15, <2>2, <2>4
  <2>6. h \in Hands /\ h.response = r /\ h.n = n
    BY <1>7, <2>3, <2>4 DEF Hands
  <2>7. PICK t : t = Without(table[c], n)
    OBVIOUS
  <2>8. /\ t \in Tables /\ DOMAIN t = DOMAIN table[c] \ {n}
        /\ \A id \in DOMAIN t : t[id] = table[c][id]
    <3>1. t = [i \in DOMAIN table[c] \ {n} |-> table[c][i]]
      BY <2>7 DEF Without
    <3>2. table[c] \in Tables
      BY <1>1 DEF Shapes
    <3>3. PICK ids \in SUBSET Nat : table[c] \in [ids -> Nat]
      BY <3>2 DEF Tables
    <3>4. t \in [ids \ {n} -> Nat] /\ ids \ {n} \in SUBSET Nat
      BY <3>1, <3>3
    <3>5. t \in Tables
      BY <3>4 DEF Tables
    <3>6. QED
      BY <3>1, <3>5
  <2>9. /\ table' \in [Clients -> Tables]
        /\ \A d \in Clients : table'[d] = IF d = c THEN t ELSE table[d]
    <3>1. table' = [table EXCEPT ![c] = t]
      BY <2>5, <2>7
    <3>2. QED
      BY <1>1, <2>8, <3>1 DEF Shapes
  <2>10. /\ handling' \in [Clients -> {Nothing} \cup Hands]
         /\ \A d \in Clients : handling'[d] = IF d = c THEN h ELSE handling[d]
    BY <1>1, <2>5, <2>6 DEF Shapes
  <2>11. Tabled'
    <3>1. ASSUME NEW d \in Clients, NEW id \in DOMAIN table'[d]
          PROVE  id \in DOMAIN table[d] /\ table'[d][id] = table[d][id]
      BY <2>8, <2>9
    <3>2. QED
      BY <1>1, <1>3, <3>1 DEF Books, Tabled
  <2>12. InHand'
    <3>1. ASSUME NEW d \in Clients, handling'[d] # Nothing
          PROVE  /\ Genuine(handling[d].response)' /\ handling'[d].n = handling'[d].response.n
                 /\ calls'[handling'[d].n].client = d /\ handling'[d].n \notin DOMAIN table'[d]
      <4>1. CASE d = c
        <5>1. handling'[d] = h
          BY <2>10, <4>1
        <5>2. Genuine(r)'
          BY <1>8, <1>11 DEF Genuine, True_, Onward, SameCalls
        <5>3. n \notin DOMAIN table'[d]
          BY <2>8, <2>9, <4>1
        <5>4. Genuine(handling[d].response)'
          BY <2>6, <5>1, <5>2 DEF Genuine, True_
        <5>5. QED
          BY <1>3, <2>1, <2>3, <2>6, <4>1, <5>1, <5>3, <5>4
      <4>2. CASE d # c
        <5>1. handling'[d] = handling[d] /\ table'[d] = table[d]
          BY <2>9, <2>10, <4>2
        <5>2. /\ Genuine(handling[d].response) /\ handling[d].n = handling[d].response.n
              /\ calls[handling[d].n].client = d /\ handling[d].n \notin DOMAIN table[d]
          BY <1>1, <3>1, <5>1 DEF Books, InHand
        <5>3. Genuine(handling[d].response)'
          BY <1>11, <5>1, <5>2 DEF Genuine, True_, Onward, SameCalls
        <5>4. QED
          BY <1>3, <5>1, <5>2, <5>3
      <4>3. QED
        BY <4>1, <4>2
    <3>2. QED
      BY <3>1 DEF InHand
  <2>13. Shapes'
    BY <1>1, <1>3, <1>9, <2>9, <2>10 DEF Shapes, server
  <2>14. QED
    BY <1>11, <1>12, <1>13, <2>11, <2>12, <2>13 DEF IInv, Books
<1>16. QED
  BY <1>14, <1>15

LEMMA ReadyKeeps ==
    ASSUME IInv, NEW c \in Clients, Ready(c)
    PROVE  IInv'
<1>1. Shapes /\ Pipe /\ Newest /\ Books
  BY DEF IInv
<1>2. PICK n : n = handling[c].n
  OBVIOUS
<1>3. PICK r : r = handling[c].response
  OBVIOUS
<1>4. /\ handling[c] # Nothing
      /\ calls' = WithFuture(calls, n, r)
      /\ pc' = IF pc[c] = "waiting" /\ cur[c] = n THEN [pc EXCEPT ![c] = "woken"] ELSE pc
      /\ handling' = [handling EXCEPT ![c] = Nothing]
      /\ UNCHANGED <<cur, table, server, reqWire, respWire>>
  BY <1>2, <1>3 DEF Ready, WithFuture
<1>5. /\ Genuine(r) /\ n = r.n /\ n \in DOMAIN calls
      /\ calls[n].client = c /\ n \notin DOMAIN table[c]
  BY <1>1, <1>2, <1>3, <1>4 DEF Books, InHand, Genuine, True_
<1>6. r \in Responses /\ r # Nothing
  <2>1. handling[c] \in Hands
    BY <1>1, <1>4 DEF Shapes
  <2>2. r \in Responses
    BY <1>3, <2>1 DEF Hands
  <2>3. r.n \in Numbers /\ Nothing.n = 0
    BY <2>2 DEF Responses, Nothing
  <2>4. QED
    BY <2>2, <2>3, SizesAssumption DEF Numbers
<1>7. /\ calls' \in Seq(Call_) /\ Len(calls') = Len(calls) /\ DOMAIN calls' = DOMAIN calls
      /\ \A m \in DOMAIN calls :
           /\ calls'[m].client = calls[m].client /\ calls'[m].api = calls[m].api
           /\ calls'[m].noReply = calls[m].noReply /\ calls'[m].id = calls[m].id
           /\ calls'[m].future = IF m = n THEN r ELSE calls[m].future
           /\ calls'[m].result = calls[m].result
  <2>1. calls \in Seq(Call_)
    BY <1>1 DEF Shapes
  <2>2. QED
    BY <1>4, <1>5, <1>6, <2>1, FutureSet
<1>8. ASSUME NEW d \in Clients
      PROVE  \/ pc'[d] = pc[d]
             \/ d = c /\ pc[d] = "waiting" /\ pc'[d] = "woken" /\ cur[d] = n
  BY <1>1, <1>4 DEF Shapes
<1>9. SameCalls /\ Moves
  <2>1. SameCalls
    BY <1>7 DEF SameCalls
  <2>2. Moves
    BY <1>4, <1>8 DEF Moves
  <2>3. QED
    BY <2>1, <2>2
<1>10. Onward /\ Pipe' /\ Newest'
  BY <1>1, <1>4, <1>9, QuietStep DEF server
<1>11. Current'
  <2>1. ASSUME NEW d \in Clients, pc'[d] # "idle"
        PROVE  /\ cur'[d] \in DOMAIN calls' /\ calls'[cur'[d]].client = d
               /\ calls'[cur'[d]].result = None
               /\ pc'[d] # "writing" => ~calls'[cur'[d]].noReply
               /\ pc'[d] = "woken" => calls'[cur'[d]].future # Nothing
    <3>1. pc[d] # "idle" /\ (pc'[d] # "writing" => pc[d] # "writing")
      BY <1>8, <2>1
    <3>2. /\ cur[d] \in DOMAIN calls /\ calls[cur[d]].client = d
          /\ calls[cur[d]].result = None
          /\ pc[d] # "writing" => ~calls[cur[d]].noReply
          /\ pc[d] = "woken" => calls[cur[d]].future # Nothing
      BY <1>1, <3>1 DEF Books, Current
    <3>3. pc'[d] = "woken" => cur[d] = n \/ pc[d] = "woken"
      BY <1>8
    <3>4. QED
      BY <1>4, <1>6, <1>7, <3>1, <3>2, <3>3
  <2>2. QED
    BY <2>1 DEF Current
<1>12. Tabled'
  <2>1. ASSUME NEW d \in Clients, NEW id \in DOMAIN table[d]
        PROVE  /\ table[d][id] = id /\ id \in DOMAIN calls'
               /\ calls'[id].client = d /\ calls'[id].future = Nothing /\ ~calls'[id].noReply
               /\ calls'[id].result \in {None, "timeout", "unsent"}
    <3>1. /\ table[d][id] = id /\ id \in DOMAIN calls
          /\ calls[id].client = d /\ calls[id].future = Nothing /\ ~calls[id].noReply
          /\ calls[id].result \in {None, "timeout", "unsent"}
      BY <1>1 DEF Books, Tabled
    <3>2. id # n
      BY <1>5, <3>1
    <3>3. QED
      BY <1>7, <3>1, <3>2
  <2>2. QED
    BY <1>4, <2>1 DEF Tabled
<1>13. Working' /\ OnWire'
  BY <1>1, <1>4, <1>10, WorkingSame, OnWireSame DEF Books, server
<1>14. InHand'
  <2>1. ASSUME NEW d \in Clients, handling'[d] # Nothing
        PROVE  /\ Genuine(handling[d].response)' /\ handling'[d].n = handling'[d].response.n
               /\ calls'[handling'[d].n].client = d /\ handling'[d].n \notin DOMAIN table'[d]
    <3>1. handling'[d] = handling[d]
      BY <1>1, <1>4, <2>1 DEF Shapes
    <3>2. /\ Genuine(handling[d].response) /\ handling[d].n = handling[d].response.n
          /\ calls[handling[d].n].client = d /\ handling[d].n \notin DOMAIN table[d]
      BY <1>1, <2>1, <3>1 DEF Books, InHand
    <3>3. handling[d].n \in DOMAIN calls
      BY <3>2 DEF Genuine, True_
    <3>4. Genuine(handling[d].response)'
      BY <1>10, <3>1, <3>2 DEF Genuine, True_, Onward, SameCalls
    <3>5. QED
      BY <1>4, <1>7, <3>1, <3>2, <3>3, <3>4
  <2>2. QED
    BY <2>1 DEF InHand
<1>15. Answers'
  <2>1. Genuine(r)'
    BY <1>5, <1>10 DEF Genuine, True_, Onward, SameCalls
  <2>2. ASSUME NEW m \in DOMAIN calls
        PROVE  /\ calls'[m].id = m
               /\ calls'[m].future # Nothing =>
                    Genuine(calls[m].future)' /\ calls'[m].future.n = m
               /\ calls'[m].result # "mismatch"
               /\ calls'[m].result = "ok" => m \in Executed'
               /\ calls'[m].result \in {"refused", "unsent"} => m \in Gone'
    <3>1. /\ calls[m].id = m
          /\ calls[m].future # Nothing =>
               Genuine(calls[m].future) /\ calls[m].future.n = m
          /\ calls[m].result # "mismatch"
          /\ calls[m].result = "ok" => m \in Executed
          /\ calls[m].result \in {"refused", "unsent"} => m \in Gone
      BY <1>1 DEF Books, Answers
    <3>2. calls'[m].id = m /\ calls'[m].result = calls[m].result
      BY <1>7, <3>1
    <3>3. ASSUME calls'[m].future # Nothing
          PROVE  Genuine(calls[m].future)' /\ calls'[m].future.n = m
      <4>1. CASE m = n
        <5>1. calls'[m].future = r
          BY <1>7, <4>1
        <5>2. QED
          BY <1>5, <2>1, <4>1, <5>1 DEF Genuine, True_
      <4>2. CASE m # n
        <5>1. calls'[m].future = calls[m].future
          BY <1>7, <4>2
        <5>2. QED
          BY <1>10, <3>1, <3>3, <5>1 DEF Genuine, True_, Onward, SameCalls
      <4>3. QED
        BY <4>1, <4>2
    <3>4. QED
      BY <1>10, <3>1, <3>2, <3>3 DEF Onward
  <2>3. QED
    BY <1>7, <2>2 DEF Answers
<1>16. Shapes'
  <2>1. pc' \in [Clients -> {"idle", "writing", "get", "waiting", "woken", "timedout"}]
    BY <1>1, <1>4 DEF Shapes
  <2>2. cur' \in [Clients -> 0 .. Len(calls')] /\ Len(calls') <= MaxCalls
    BY <1>1, <1>4, <1>7 DEF Shapes
  <2>3. handling' \in [Clients -> {Nothing} \cup Hands]
    BY <1>1, <1>4 DEF Shapes
  <2>4. QED
    BY <1>1, <1>4, <1>7, <2>1, <2>2, <2>3 DEF Shapes, server
<1>17. QED
  BY <1>10, <1>11, <1>12, <1>13, <1>14, <1>15, <1>16 DEF IInv, Books

-----------------------------------------------------------------------------
LEMMA InitKeeps ==
    ASSUME Init
    PROVE  IInv
<1>1. DOMAIN calls = {} /\ Len(calls) = 0 /\ calls = << >>
  BY DEF Init
<1>2. \A k \in Classes : queues[k] = NewQueue /\ worker[k] = Idle
  BY DEF Init
<1>3. \A c \in Clients : /\ reqWire[c] = << >> /\ respWire[c] = << >>
                         /\ table[c] = << >> /\ handling[c] = Nothing /\ pc[c] = "idle"
  BY DEF Init
<1>4. \A s : s = << >> => Of(s) = {} /\ Len(s) = 0
  BY DEF Of
<1>5. /\ \A k \in Classes : Items(k) = {} /\ Ordered(queues[k].items, Lane)
      /\ \A c \in Clients : Of(reqWire[c]) = {} /\ Ordered(reqWire[c], Lane)
      /\ Executed = {} /\ Ordered(executed, Lane)
  <2>1. \A k \in Classes : queues[k].items = << >>
    BY <1>2 DEF NewQueue
  <2>2. executed = << >>
    BY DEF Init
  <2>3. \A s : s = << >> => Ordered(s, Lane)
    BY DEF Ordered
  <2>4. Executed = {}
    BY <2>2 DEF Executed
  <2>5. QED
    BY <1>3, <1>4, <2>1, <2>2, <2>3, <2>4 DEF Items
<1>6. Shapes
  <2>1. /\ calls \in Seq(Call_) /\ Len(calls) <= MaxCalls
        /\ cur \in [Clients -> 0 .. Len(calls)]
    BY <1>1, SizesAssumption DEF Init
  <2>2. << >> \in Tables
    <3>1. << >> \in [{} -> Nat] /\ {} \in SUBSET Nat
      OBVIOUS
    <3>2. QED
      BY <3>1 DEF Tables
  <2>3. table \in [Clients -> Tables] /\ reqWire \in [Clients -> Seq(Nat)]
        /\ respWire \in [Clients -> Seq(Responses)] /\ executed \in Seq(Nat)
    BY <2>2 DEF Init
  <2>4. /\ queues \in [Classes -> [items : Seq(Nat), curLen : Nat]]
        /\ \A k \in Classes : queues[k].curLen = Len(queues[k].items)
    BY <1>2 DEF Init, NewQueue
  <2>5. worker \in [Classes -> Workers] /\ handling \in [Clients -> {Nothing} \cup Hands]
        /\ pc \in [Clients -> {"idle", "writing", "get", "waiting", "woken", "timedout"}]
    BY DEF Init, Workers
  <2>6. QED
    BY <2>1, <2>3, <2>4, <2>5 DEF Shapes
<1>7. Pipe
  BY <1>5 DEF Pipe, Before
<1>8. Newest
  BY <1>5 DEF Newest, Written
<1>9. Books
  <2>1. Current
    BY <1>3 DEF Current
  <2>2. Tabled
    BY <1>3 DEF Tabled
  <2>3. Working
    BY <1>2 DEF Working, Idle
  <2>4. OnWire
    BY <1>3, <1>4 DEF OnWire
  <2>5. InHand /\ Answers
    BY <1>1, <1>3 DEF InHand, Answers
  <2>6. QED
    BY <2>1, <2>2, <2>3, <2>4, <2>5 DEF Books
<1>10. QED
  BY <1>6, <1>7, <1>8, <1>9 DEF IInv

LEMMA StutterKeeps ==
    ASSUME IInv, UNCHANGED vars
    PROVE  IInv'
<1>1. UNCHANGED <<calls, client, queues, executed, reqWire, worker, respWire, handling>>
  BY DEF vars, client
<1>2. Shapes /\ Pipe /\ Newest /\ Books
  BY DEF IInv
<1>3. Onward /\ Pipe' /\ Newest' /\ Current' /\ Tabled' /\ Answers'
  BY <1>1, QuietServer
<1>4. Working' /\ OnWire' /\ InHand'
  BY <1>1, <1>2, <1>3, WorkingSame, OnWireSame, InHandSame DEF Books, client
<1>5. Shapes'
  BY <1>1, <1>2 DEF Shapes, client
<1>6. QED
  BY <1>3, <1>4, <1>5 DEF IInv, Books

LEMMA NextKeeps ==
    ASSUME IInv, [Next]_vars
    PROVE  IInv'
<1>1. ASSUME NEW c \in Clients,
             \/ \E api \in Apis, noReply \in BOOLEAN : Call(c, api, noReply)
             \/ CallSteps(c) \/ WaitTimesOut(c)
             \/ ReceiveRequest(c) \/ ReceiveResponse(c) \/ Ready(c)
      PROVE  IInv'
  <2>1. CASE \E api \in Apis, noReply \in BOOLEAN : Call(c, api, noReply)
    BY <2>1, CallKeeps
  <2>2. CASE Send(c)
    BY <2>2, SendKeeps
  <2>3. CASE SendFails(c)
    BY <2>3, SendFailsKeeps
  <2>4. CASE GetResult(c)
    BY <2>4, GetResultKeeps
  <2>5. CASE WaitEnds(c)
    BY <2>5, WaitEndsKeeps
  <2>6. CASE ReportTimeout(c)
    BY <2>6, ReportTimeoutKeeps
  <2>7. CASE WaitTimesOut(c)
    BY <2>7, WaitTimesOutKeeps
  <2>8. CASE ReceiveRequest(c)
    BY <2>8, ReceiveRequestKeeps
  <2>9. CASE ReceiveResponse(c)
    BY <2>9, ReceiveResponseKeeps
  <2>10. CASE Ready(c)
    BY <2>10, ReadyKeeps
  <2>11. QED
    BY <1>1, <2>1, <2>2, <2>3, <2>4, <2>5, <2>6, <2>7, <2>8, <2>9, <2>10 DEF CallSteps
<1>2. ASSUME NEW k \in Classes, WorkerSteps(k)
      PROVE  IInv'
  BY <1>2, HandleRequestKeeps, RespondKeeps, RespondRaisesKeeps DEF WorkerSteps
<1>3. CASE Next
  BY <1>1, <1>2, <1>3 DEF Next
<1>4. CASE UNCHANGED vars
  BY <1>4, StutterKeeps
<1>5. QED
  BY <1>3, <1>4

-----------------------------------------------------------------------------
(* What the invariant says.                                                *)
LEMMA SeqOf ==
    ASSUME NEW s \in Seq(Nat), NEW S, Of(s) \subseteq S
    PROVE  s \in Seq(S)
<1>1. s = [i \in 1 .. Len(s) |-> s[i]] /\ Len(s) \in Nat
  OBVIOUS
<1>2. \A i \in 1 .. Len(s) : s[i] \in S
  BY DEF Of
<1>3. QED
  BY <1>1, <1>2

LEMMA ShapesAreTypes ==
    ASSUME IInv
    PROVE  Inv
<1>1. Shapes /\ Pipe /\ Newest /\ Books
  BY DEF IInv
<1>2. DOMAIN calls = 1 .. Len(calls) /\ Len(calls) \in Nat
  BY <1>1, NewCall
<1>3. \A c \in Clients : \A id \in DOMAIN table[c] :
          /\ table[c][id] \in 1 .. Len(calls)
          /\ calls[table[c][id]].result \in {None, "timeout", "unsent"}
  BY <1>1, <1>2 DEF Books, Tabled
<1>4. reqWire \in [Clients -> Seq(1 .. Len(calls))]
  <2>1. ASSUME NEW c \in Clients
        PROVE  reqWire[c] \in Seq(1 .. Len(calls))
    <3>1. reqWire[c] \in Seq(Nat) /\ Of(reqWire[c]) \subseteq DOMAIN calls
      BY <1>1 DEF Shapes, Pipe
    <3>2. QED
      BY <1>2, <3>1, SeqOf
  <2>2. QED
    BY <1>1, <2>1 DEF Shapes
<1>5. queues \in [Classes -> [items : Seq(1 .. Len(calls)), curLen : Nat]]
  <2>1. ASSUME NEW k \in Classes
        PROVE  queues[k] \in [items : Seq(1 .. Len(calls)), curLen : Nat]
    <3>1. /\ queues[k] \in [items : Seq(Nat), curLen : Nat]
          /\ Of(queues[k].items) \subseteq DOMAIN calls
      BY <1>1 DEF Shapes, Pipe, Items
    <3>2. queues[k].items \in Seq(1 .. Len(calls))
      <4>1. queues[k].items \in Seq(Nat)
        BY <3>1
      <4>2. QED
        BY <1>2, <3>1, <4>1, SeqOf
    <3>3. QED
      BY <3>1, <3>2
  <2>2. QED
    BY <1>1, <2>1 DEF Shapes
<1>6. executed \in Seq(1 .. Len(calls))
  <2>1. executed \in Seq(Nat)
    BY <1>1 DEF Shapes
  <2>2. Of(executed) \subseteq DOMAIN calls
    BY <1>1, <2>1, OfElements DEF Executed, Pipe
  <2>3. QED
    BY <1>2, <2>1, <2>2, SeqOf
<1>7. \A k \in Classes : worker[k].pc \in {"idle", "respond", "dead"}
  <2>1. \A w \in Workers : w.pc \in {"idle", "respond", "dead"}
    BY DEF Workers, Idle
  <2>2. QED
    BY <1>1, <2>1 DEF Shapes
<1>8. \A c \in Clients :
          handling[c] # Nothing => handling[c] \in [response : Responses, n : 1 .. Len(calls)]
  <2>1. ASSUME NEW c \in Clients, handling[c] # Nothing
        PROVE  handling[c] \in [response : Responses, n : 1 .. Len(calls)]
    <3>1. handling[c] \in Hands
      BY <1>1, <2>1 DEF Shapes
    <3>2. handling[c].n \in DOMAIN calls
      BY <1>1, <2>1 DEF Books, InHand, Genuine, True_
    <3>3. QED
      BY <1>2, <3>1, <3>2 DEF Hands
  <2>2. QED
    BY <2>1
<1>9. TypeOK
  BY <1>1, <1>3, <1>4, <1>5, <1>6, <1>7, <1>8 DEF TypeOK, Shapes
<1>10. QED
  BY <1>3, <1>9 DEF Inv, LeftInTable

LEMMA BooksAreTrue ==
    ASSUME IInv
    PROVE  OwnAnswer /\ TruthfulResult
<1>1. \A n \in DOMAIN calls :
          /\ calls[n].future # Nothing => calls[n].future.n = n
          /\ calls[n].result # "mismatch"
          /\ calls[n].result = "ok" => n \in Executed
          /\ calls[n].result \in {"refused", "unsent"} => n \in Gone
  BY DEF IInv, Books, Answers
<1>2. \A n \in Gone : n \notin Executed
  BY DEF Gone, Written
<1>3. QED
  BY <1>1, <1>2 DEF OwnAnswer, TruthfulResult

LEMMA ExecutedInOrder ==
    ASSUME IInv
    PROVE  ExecutionOrder
<1>1. SUFFICES ASSUME NEW i \in DOMAIN executed, NEW j \in DOMAIN executed, i < j,
                      calls[executed[i]].client = calls[executed[j]].client,
                      ClassOf(executed[i]) = ClassOf(executed[j])
               PROVE  executed[i] < executed[j]
  BY DEF ExecutionOrder
<1>2. executed \in Seq(Nat) /\ DOMAIN executed = 1 .. Len(executed)
  BY DEF IInv, Shapes
<1>3. executed[i] \in DOMAIN calls /\ executed[j] \in DOMAIN calls
  BY DEF IInv, Pipe, Executed
<1>4. Lane[executed[i]] = Lane[executed[j]]
  <2>1. \A m \in DOMAIN calls : Lane[m] = <<calls[m].client, ClassOf(m)>>
    BY DEF Lane
  <2>2. PICK m1 : m1 = executed[i]
    OBVIOUS
  <2>3. PICK m2 : m2 = executed[j]
    OBVIOUS
  <2>4. Lane[m1] = <<calls[m1].client, ClassOf(m1)>> /\ Lane[m2] = <<calls[m2].client, ClassOf(m2)>>
    BY <1>3, <2>1, <2>2, <2>3
  <2>5. calls[m1].client = calls[m2].client /\ ClassOf(m1) = ClassOf(m2)
    BY <1>1, <2>2, <2>3
  <2>6. QED
    BY <2>2, <2>3, <2>4, <2>5
<1>5. Ordered(executed, Lane)
  BY DEF IInv, Pipe
<1>6. QED
  BY <1>1, <1>2, <1>4, <1>5 DEF Ordered

-----------------------------------------------------------------------------
LEMMA InvariantHolds == Spec => []IInv
<1>1. Init => IInv
  BY InitKeeps
<1>2. IInv /\ [Next]_vars => IInv'
  BY NextKeeps
<1>3. QED
  BY <1>1, <1>2, PTL DEF Spec

(* Every record of a call and every table that holds one is well formed,   *)
(* and a client's table keeps no future that was answered: what Get takes  *)
(* out of RequestFutureQueue stays out.                                    *)
THEOREM WellFormed == Spec => []Inv
<1>1. IInv => Inv
  BY ShapesAreTypes
<1>2. QED
  BY <1>1, InvariantHolds, PTL

(* No call is ever given the answer to another one, for any number of      *)
(* clients that read the same topic and any answers that come late.        *)
THEOREM AnswersAreOwn == Spec => []OwnAnswer
<1>1. IInv => OwnAnswer
  BY BooksAreTrue
<1>2. QED
  BY <1>1, InvariantHolds, PTL

(* What a call reports of its handler is what happened: a request that was *)
(* refused, or could not be sent, is not executed later either.            *)
THEOREM ResultsAreTrue == Spec => []TruthfulResult
<1>1. IInv => TruthfulResult
  BY BooksAreTrue
<1>2. QED
  BY <1>1, InvariantHolds, PTL

(* A client's requests of one queue are executed in the order it called,   *)
(* and none twice, whatever the topic loses and the full queue gives up.   *)
THEOREM InOrder == Spec => []ExecutionOrder
<1>1. IInv => ExecutionOrder
  BY ExecutedInOrder
<1>2. QED
  BY <1>1, InvariantHolds, PTL
=============================================================================
