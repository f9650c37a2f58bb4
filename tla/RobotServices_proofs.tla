------------------------- MODULE RobotServices_proofs -------------------------
(***************************************************************************)
(* Machine-checked facts about RobotServices, for every value of its       *)
(* constants: any of the services, any number of clients and calls.        *)
(***************************************************************************)
EXTENDS RobotServices, TLAPS

-----------------------------------------------------------------------------
(* The way of the requests: w is what a client has on its way, q the queue *)
(* of the server, x the calls that were handled, S the client's calls.     *)

Elems(s) == {s[i] : i \in 1 .. Len(s)}
IncreasingIn(s, S) ==
  \A i, j \in 1 .. Len(s) : i < j /\ s[i] \in S /\ s[j] \in S => s[i] < s[j]
InOrder(w, q, x, S) ==
  /\ Elems(w) \subseteq S /\ IncreasingIn(w, S) /\ IncreasingIn(q, S)
  /\ \A n \in Elems(q) \cap S : \A m \in Elems(w) : n < m
  /\ \A n \in x \cap S : \A m \in (Elems(q) \cap S) \cup Elems(w) : n < m

-----------------------------------------------------------------------------
(* The inductive invariant. *)

Kinds == {"set", "get", "stream", "wrapped", "version", "shake", "switch", "unserialisable"}
NeverSent == {"unregistered", "path", "raised", "unsent"}
Refusals == {"refused", "protected", "switch"}
Told == NeverSent \cup Refusals \cup {"none", "sent", "ok", "timeout", "nothing"}
MethodSet ==
  {m \in [kind : Kinds, api : Nat, arg : Int] : m.kind = "shake" => m.arg \in {-1, 0, 1}}
Calls ==
  [client : Clients, method : MethodSet, sent : Int, init : BOOLEAN, told : Told, data : Nat]

Own(c) == {n \in Names : calls[n].client = c}
OnTheWay == (UNION {Elems(wire[c]) : c \in Clients}) \cup Elems(queues[FALSE])
Changing(n) == calls[n].method.kind \notin {"get", "version"}
Changed(n) == Changes(service, calls[n].method.api)
Known == {Changes(service, api) : api \in Apis(service)}

(* What a method makes of the answer that the robot gave to its call.      *)
Result(n) == SwitchCode(calls[n].method, answers[n])

(* v is call n itself or a later one, or of another client.                *)
Holds(n, v) == v >= n \/ (v # 0 /\ ~Mine(n, v))

Types ==
  /\ service \in Services /\ ready \subseteq Clients /\ raised \in [Clients -> {-1, 0, 1}]
  /\ calls \in Seq(Calls) /\ waiting \in [Clients -> 0 .. Len(calls)]
  /\ wire \in [Clients -> Seq(Nat)] /\ queues \in [BOOLEAN -> Seq(Nat)]
  /\ done \subseteq DOMAIN answers /\ DOMAIN answers \subseteq Names
  /\ setting \in [Known -> done \cup {0}]

(* The requests of a client are handled in the order of its calls.         *)
WayInv ==
  /\ queues[TRUE] = <<>> /\ OnTheWay \subseteq Names
  /\ \A c \in Clients : InOrder(wire[c], queues[FALSE], DOMAIN answers, Own(c))
  /\ \A n \in OnTheWay \cup DOMAIN answers : calls[n].told \notin NeverSent

(* What a method sends, and which api its own Init leaves out.             *)
SentAsAsked(s, m, sent) ==
  m.kind \in {"set", "switch"} => sent = m.arg \/ (s = "go2 sport" /\ m.api = 1045)
LeftOut(s, m) == s = "go2 sport" /\ m.api \in {1025, 1026}

(* What a call is, and what its caller was told of its answer.             *)
CallInv ==
  /\ \A c \in Clients : waiting[c] # 0 => calls[waiting[c]].client = c /\ calls[waiting[c]].told = "none"
  /\ \A n \in Names :
       /\ calls[n].method \in Methods(service) \cup Version
       /\ SentAsAsked(service, calls[n].method, calls[n].sent)
       /\ calls[n].told = "unregistered" /\ calls[n].init => LeftOut(service, calls[n].method)
       /\ calls[n].told \in {"ok"} \cup Refusals =>
            /\ n \in DOMAIN answers /\ Result(n) = calls[n].told
            /\ calls[n].method.kind = "get" => answers[n].data = calls[n].data

(* What the robot did for a call that was handled, and what is left of it. *)
AnswerInv ==
  \A n \in DOMAIN answers :
    /\ Result(n) \in {"ok"} \cup Refusals /\ answers[n].data \in Nat
    /\ Result(n) = "ok" <=> n \in done
    /\ n \in done /\ Changing(n) => Holds(n, setting[Changed(n)])
    /\ n \in done /\ calls[n].method.kind = "get" =>
         /\ answers[n].data \in done \cup {0}
         /\ \A m \in done :
              m < n /\ Mine(m, n) /\ Changing(m) /\ Changed(m) = Reads(service, calls[n].method.api)
                => Holds(m, answers[n].data)

IInv == Types /\ WayInv /\ CallInv /\ AnswerInv

-----------------------------------------------------------------------------
(* Lemmas about sequences and about the way of the requests. *)

LEMMA TailElems ==
  ASSUME NEW s \in Seq(Nat), s # <<>>
  PROVE  /\ Head(s) \in Nat /\ Tail(s) \in Seq(Nat)
         /\ Head(s) \in Elems(s) /\ Elems(Tail(s)) \subseteq Elems(s)
         /\ Elems(s) = {Head(s)} \cup Elems(Tail(s))
<1>1. /\ Len(s) \in Nat /\ Len(s) >= 1 /\ Head(s) = s[1] /\ s[1] \in Nat
      /\ Tail(s) \in Seq(Nat) /\ Len(Tail(s)) = Len(s) - 1
      /\ \A i \in 1 .. Len(Tail(s)) : Tail(s)[i] = s[i + 1]
  OBVIOUS
<1>2. \A n \in Elems(Tail(s)) : n \in Elems(s)
  BY <1>1 DEF Elems
<1>3. \A n \in Elems(s) : n = Head(s) \/ n \in Elems(Tail(s))
  <2>1. SUFFICES ASSUME NEW i \in 1 .. Len(s), i # 1
                 PROVE  s[i] \in Elems(Tail(s))
    BY <1>1 DEF Elems
  <2>2. i - 1 \in 1 .. Len(Tail(s)) /\ Tail(s)[i - 1] = s[i]
    BY <1>1, <2>1
  <2>3. QED
    BY <2>2 DEF Elems
<1>4. Head(s) \in Elems(s)
  BY <1>1 DEF Elems
<1>5. QED
  BY <1>1, <1>2, <1>3, <1>4

LEMMA AppendElems ==
  ASSUME NEW s \in Seq(Nat), NEW n \in Nat
  PROVE  Append(s, n) \in Seq(Nat) /\ Elems(Append(s, n)) = Elems(s) \cup {n}
<1>1. /\ Append(s, n) \in Seq(Nat) /\ Len(s) \in Nat /\ Len(Append(s, n)) = Len(s) + 1
      /\ Append(s, n)[Len(s) + 1] = n
      /\ \A i \in 1 .. Len(s) : Append(s, n)[i] = s[i]
  OBVIOUS
<1>2. \A m \in Elems(Append(s, n)) : m \in Elems(s) \cup {n}
  BY <1>1 DEF Elems
<1>3. \A m \in Elems(s) \cup {n} : m \in Elems(Append(s, n))
  BY <1>1 DEF Elems
<1>4. QED
  BY <1>1, <1>2, <1>3

LEMMA TailIncreasing ==
  ASSUME NEW s \in Seq(Nat), s # <<>>, NEW S, IncreasingIn(s, S)
  PROVE  /\ IncreasingIn(Tail(s), S)
         /\ Head(s) \in S => \A m \in Elems(Tail(s)) \cap S : Head(s) < m
<1>1. /\ Len(s) \in Nat /\ Len(s) >= 1 /\ Head(s) = s[1]
      /\ Tail(s) \in Seq(Nat) /\ Len(Tail(s)) = Len(s) - 1
      /\ \A i \in 1 .. Len(Tail(s)) : Tail(s)[i] = s[i + 1]
  OBVIOUS
<1>2. IncreasingIn(Tail(s), S)
  <2>1. SUFFICES ASSUME NEW i \in 1 .. Len(Tail(s)), NEW j \in 1 .. Len(Tail(s)),
                        i < j, Tail(s)[i] \in S, Tail(s)[j] \in S
                 PROVE  Tail(s)[i] < Tail(s)[j]
    BY DEF IncreasingIn
  <2>2. i + 1 \in 1 .. Len(s) /\ j + 1 \in 1 .. Len(s) /\ i + 1 < j + 1
    BY <1>1, <2>1
  <2>3. QED
    BY <1>1, <2>1, <2>2 DEF IncreasingIn
<1>3. ASSUME NEW i \in 1 .. Len(Tail(s)), Head(s) \in S, Tail(s)[i] \in S
      PROVE  Head(s) < Tail(s)[i]
  <2>1. 1 \in 1 .. Len(s) /\ i + 1 \in 1 .. Len(s) /\ 1 < i + 1
    BY <1>1
  <2>2. QED
    BY <1>1, <1>3, <2>1 DEF IncreasingIn
<1>4. QED
  BY <1>2, <1>3 DEF Elems

LEMMA AppendIncreasing ==
  ASSUME NEW s \in Seq(Nat), NEW n \in Nat, NEW S, IncreasingIn(s, S),
         n \in S => \A m \in Elems(s) \cap S : m < n
  PROVE  IncreasingIn(Append(s, n), S)
<1>1. /\ Len(s) \in Nat /\ Len(Append(s, n)) = Len(s) + 1
      /\ Append(s, n)[Len(s) + 1] = n
      /\ \A i \in 1 .. Len(s) : Append(s, n)[i] = s[i] /\ s[i] \in Elems(s)
  BY DEF Elems
<1>2. SUFFICES ASSUME NEW i \in 1 .. Len(s) + 1, NEW j \in 1 .. Len(s) + 1, i < j,
                      Append(s, n)[i] \in S, Append(s, n)[j] \in S
               PROVE  Append(s, n)[i] < Append(s, n)[j]
  BY <1>1 DEF IncreasingIn
<1>3. i \in 1 .. Len(s)
  BY <1>1, <1>2
<1>4. CASE j = Len(s) + 1
  BY <1>1, <1>2, <1>3, <1>4
<1>5. CASE j \in 1 .. Len(s)
  BY <1>1, <1>2, <1>3, <1>5 DEF IncreasingIn
<1>6. QED
  BY <1>1, <1>4, <1>5

\* A call that is newer than every other does not disturb the order, and can be sent.
LEMMA InOrderNew ==
  ASSUME NEW w \in Seq(Nat), NEW q \in Seq(Nat), NEW x, NEW S, NEW n \in Nat,
         InOrder(w, q, x, S), \A m \in x \cup Elems(q) \cup Elems(w) : m \in Nat /\ m < n
  PROVE  InOrder(w, q, x, S \cup {n}) /\ InOrder(Append(w, n), q, x, S \cup {n})
<1>1. /\ \A m \in Elems(w) : m # n /\ m < n
      /\ \A m \in Elems(q) : m # n /\ m < n
      /\ \A m \in x : m # n /\ m < n
  OBVIOUS
<1>2. Elems(Append(w, n)) = Elems(w) \cup {n}
  BY AppendElems
<1>3. IncreasingIn(w, S \cup {n}) /\ IncreasingIn(q, S \cup {n})
  BY <1>1 DEF IncreasingIn, InOrder, Elems
<1>4. IncreasingIn(Append(w, n), S \cup {n})
  BY <1>1, <1>3, AppendIncreasing
<1>5. QED
  BY <1>1, <1>2, <1>3, <1>4 DEF InOrder

LEMMA InOrderArrive ==
  ASSUME NEW w \in Seq(Nat), NEW q \in Seq(Nat), NEW x, NEW S, w # <<>>, InOrder(w, q, x, S)
  PROVE  InOrder(Tail(w), q, x, S) /\ InOrder(Tail(w), Append(q, Head(w)), x, S)
<1>1. /\ Head(w) \in Nat /\ Tail(w) \in Seq(Nat) /\ Head(w) \in Elems(w)
      /\ Elems(Tail(w)) \subseteq Elems(w)
  BY TailElems
<1>2. Elems(Append(q, Head(w))) = Elems(q) \cup {Head(w)}
  BY <1>1, AppendElems
<1>3. IncreasingIn(Tail(w), S) /\ \A m \in Elems(Tail(w)) : Head(w) < m
  BY <1>1, TailIncreasing DEF InOrder
<1>4. IncreasingIn(Append(q, Head(w)), S)
  BY <1>1, AppendIncreasing DEF InOrder
<1>5. QED
  BY <1>1, <1>2, <1>3, <1>4 DEF InOrder

LEMMA InOrderOther ==
  ASSUME NEW w \in Seq(Nat), NEW q \in Seq(Nat), NEW x, NEW S, NEW n \in Nat,
         n \notin S, InOrder(w, q, x, S)
  PROVE  InOrder(w, Append(q, n), x, S)
<1>1. Elems(Append(q, n)) = Elems(q) \cup {n} /\ IncreasingIn(Append(q, n), S)
  BY AppendElems, AppendIncreasing DEF InOrder
<1>2. QED
  BY <1>1 DEF InOrder

LEMMA InOrderExecute ==
  ASSUME NEW w \in Seq(Nat), NEW q \in Seq(Nat), NEW x, NEW S, q # <<>>, InOrder(w, q, x, S)
  PROVE  InOrder(w, Tail(q), x \cup {Head(q)}, S)
<1>1. /\ Head(q) \in Elems(q) /\ Elems(Tail(q)) \subseteq Elems(q)
  BY TailElems
<1>2. /\ IncreasingIn(Tail(q), S)
      /\ Head(q) \in S => \A m \in Elems(Tail(q)) \cap S : Head(q) < m
  BY TailIncreasing DEF InOrder
<1>3. QED
  BY <1>1, <1>2 DEF InOrder

-----------------------------------------------------------------------------
(* Lemmas about the methods. *)

LEMMA InvocationTypes ==
  ASSUME NEW kind \in Kinds, NEW apis \in SUBSET Nat, NEW args \in SUBSET Int,
         kind = "shake" => args \subseteq {-1, 0, 1}
  PROVE  Invocations(kind, apis, args) \subseteq MethodSet
BY DEF Invocations, MethodSet

\* Every method of every client is a record of the way it calls, its api and its argument.
LEMMA MethodTypes ==
  ASSUME NEW s \in Services
  PROVE  Methods(s) \cup Version \subseteq MethodSet
<1> USE DEF Kinds
<1>1. ASSUME NEW apis \in SUBSET Nat
      PROVE  /\ Commands(apis) \subseteq MethodSet /\ Settings(apis) \subseteq MethodSet
             /\ Queries(apis) \subseteq MethodSet /\ Streams(apis) \subseteq MethodSet
             /\ \A args \in SUBSET Int : Wrapped(apis, args) \subseteq MethodSet
  BY InvocationTypes DEF Commands, Settings, Queries, Streams, Wrapped
<1>2. /\ Version \subseteq MethodSet /\ Paths \subseteq MethodSet
      /\ Invocations("shake", {7106}, {-1}) \subseteq MethodSet
      /\ Invocations("shake", {7106}, {0, 1}) \subseteq MethodSet
      /\ Invocations("set", {1001}, {0}) \subseteq MethodSet
      /\ Invocations("switch", {1001}, {0, 1}) \subseteq MethodSet
      /\ Invocations("unserialisable", {1002}, {0}) \subseteq MethodSet
  BY InvocationTypes DEF Version, Paths, SPORT_PATH_POINT_SIZE
<1>3. /\ Go2Basic \cup Go2Performing \cup Go2Modes \subseteq MethodSet
      /\ B2Basic \cup B2Modes \subseteq MethodSet
  BY <1>1, <1>2 DEF Go2Basic, Go2Performing, Go2Modes, B2Basic, B2Modes
<1>4. /\ G1Setters \cup G1Wrappers \subseteq MethodSet
      /\ H1Loco \subseteq MethodSet /\ Audio \subseteq MethodSet
  <2>1. \A apis \in SUBSET Nat : /\ Wrapped(apis, {0, 1}) \subseteq MethodSet
                                  /\ Wrapped(apis, FsmIds) \subseteq MethodSet
                                  /\ Wrapped(apis, {0, 1, 2, 204}) \subseteq MethodSet
    BY <1>1 DEF FsmIds
  <2>2. G1Setters \cup G1Wrappers \subseteq MethodSet
    BY <1>1, <1>2, <2>1 DEF G1Setters, G1Wrappers
  <2>3. H1Loco \subseteq MethodSet
    BY <1>1, <2>1 DEF H1Loco
  <2>4. Audio \subseteq MethodSet
    BY <1>1, <1>2 DEF Audio, TtsIndex
  <2>5. QED
    BY <2>2, <2>3, <2>4
<1>5. /\ MotionSwitcher \subseteq MethodSet /\ ObstaclesAvoid \subseteq MethodSet
      /\ Vui \subseteq MethodSet /\ B2Vui \subseteq MethodSet /\ RobotState \subseteq MethodSet
      /\ Video \subseteq MethodSet /\ FrontVideo \subseteq MethodSet /\ BackVideo \subseteq MethodSet
  BY <1>1, <1>2 DEF MotionSwitcher, ObstaclesAvoid, Vui, B2Vui, RobotState, Video, FrontVideo, BackVideo
<1>6. Methods(s) \subseteq MethodSet
  <2>1. CASE s = "go2 sport" \/ s = "b2 sport"
    BY <1>3, <2>1 DEF Methods
  <2>2. CASE s = "g1 loco" \/ s = "h1 loco" \/ s = "voice"
    BY <1>4, <2>2 DEF Methods
  <2>3. CASE s = "motion_switcher" \/ s = "obstacles_avoid" \/ s = "go2 vui" \/ s = "b2 vui"
    BY <1>5, <2>3 DEF Methods
  <2>4. CASE s = "robot_state" \/ s = "videohub" \/ s = "front_videohub" \/ s = "back_videohub"
    BY <1>5, <2>4 DEF Methods
  <2>5. QED
    BY <2>1, <2>2, <2>3, <2>4, ServicesAssumption
<1>7. QED
  BY <1>2, <1>6

\* The apis of each client's methods, and what its Init registers.
ApisIn(methods, apis) == \A m \in methods : m.api \in apis

LEMMA ApisOfMethods ==
  /\ ApisIn(Go2Basic, Go2Registered)
  /\ ApisIn(Go2Performing, Go2Registered \cup {1025, 1026})
  /\ ApisIn(Go2Modes, Go2Registered)
  /\ ApisIn(B2Basic, B2Registered)
  /\ ApisIn(B2Modes, B2Registered)
  /\ ApisIn(G1Setters, G1Registered)
  /\ ApisIn(G1Wrappers, G1Registered)
  /\ ApisIn(H1Loco, H1Registered)
  /\ ApisIn(Audio, AudioRegistered)
  /\ ApisIn(MotionSwitcher, 1001 .. 1005)
  /\ ApisIn(ObstaclesAvoid, 1001 .. 1004)
  /\ ApisIn(Vui, 1001 .. 1006)
  /\ ApisIn(B2Vui, 1001 .. 1006)
  /\ ApisIn(RobotState, 1001 .. 1003)
  /\ ApisIn(Video, {1001})
  /\ ApisIn(FrontVideo, {1001})
  /\ ApisIn(BackVideo, {1001})
<1> USE DEF ApisIn, Invocations
<1>1. ApisIn(Go2Basic, Go2Registered)
  BY DEF Go2Basic, Go2Registered, Commands, Settings, Streams
<1>2. ApisIn(Go2Performing, Go2Registered \cup {1025, 1026})
  BY DEF Go2Performing, Go2Registered, Commands, Settings, Queries, Streams, Paths
<1>3. ApisIn(Go2Modes, Go2Registered)
  BY DEF Go2Modes, Go2Registered, Commands, Settings
<1>4. ApisIn(B2Basic, B2Registered)
  BY DEF B2Basic, B2Registered, Commands, Settings, Streams
<1>5. ApisIn(B2Modes, B2Registered)
  BY DEF B2Modes, B2Registered, Commands, Settings, Paths
<1>6. ApisIn(G1Setters, G1Registered)
  BY DEF G1Setters, G1Registered, Settings
<1>7. ApisIn(G1Wrappers, G1Registered)
  BY DEF G1Wrappers, G1Registered, Wrapped
<1>8. ApisIn(H1Loco, H1Registered)
  BY DEF H1Loco, H1Registered, Settings, Wrapped
<1>9. ApisIn(Audio, AudioRegistered)
  BY DEF Audio, AudioRegistered, Settings, Queries
<1>10. ApisIn(MotionSwitcher, 1001 .. 1005)
  BY DEF MotionSwitcher, Commands, Settings, Queries
<1>11. ApisIn(ObstaclesAvoid, 1001 .. 1004)
  BY DEF ObstaclesAvoid, Settings, Queries, Streams
<1>12. ApisIn(Vui, 1001 .. 1006)
  BY DEF Vui, Settings, Queries
<1>13. ApisIn(B2Vui, 1001 .. 1006)
  BY DEF B2Vui, Settings, Queries
<1>14. ApisIn(RobotState, 1001 .. 1003)
  BY DEF RobotState, Queries
<1>15. ApisIn(Video, {1001})
  BY DEF Video, Queries
<1>16. ApisIn(FrontVideo, {1001})
  BY DEF FrontVideo, Queries
<1>17. ApisIn(BackVideo, {1001})
  BY DEF BackVideo, Queries
<1>18. QED
  BY <1>1, <1>2, <1>3, <1>4, <1>5, <1>6, <1>7, <1>8, <1>9,
     <1>10, <1>11, <1>12, <1>13, <1>14, <1>15, <1>16, <1>17

LEMMA RegisteredApis ==
  /\ ApisIn(Go2Basic \cup Go2Performing \cup Go2Modes, Registered("go2 sport") \cup {1025, 1026})
  /\ ApisIn(B2Basic \cup B2Modes, Registered("b2 sport"))
  /\ ApisIn(G1Setters \cup G1Wrappers, Registered("g1 loco"))
  /\ ApisIn(H1Loco, Registered("h1 loco"))
  /\ ApisIn(Audio, Registered("voice"))
  /\ ApisIn(MotionSwitcher, Registered("motion_switcher"))
  /\ ApisIn(ObstaclesAvoid, Registered("obstacles_avoid"))
  /\ ApisIn(Vui, Registered("go2 vui"))
  /\ ApisIn(B2Vui, Registered("b2 vui"))
  /\ ApisIn(RobotState, Registered("robot_state"))
  /\ ApisIn(Video, Registered("videohub"))
  /\ ApisIn(FrontVideo, Registered("front_videohub"))
  /\ ApisIn(BackVideo, Registered("back_videohub"))
<1>1. ApisIn(Go2Basic \cup Go2Performing \cup Go2Modes, Registered("go2 sport") \cup {1025, 1026})
  BY ApisOfMethods DEF ApisIn, Registered
<1>2. ApisIn(B2Basic \cup B2Modes, Registered("b2 sport"))
  BY ApisOfMethods DEF ApisIn, Registered
<1>3. ApisIn(G1Setters \cup G1Wrappers, Registered("g1 loco"))
  BY ApisOfMethods DEF ApisIn, Registered
<1>4. ApisIn(H1Loco, Registered("h1 loco"))
  BY ApisOfMethods DEF ApisIn, Registered
<1>5. ApisIn(Audio, Registered("voice"))
  BY ApisOfMethods DEF ApisIn, Registered
<1>6. ApisIn(MotionSwitcher, Registered("motion_switcher"))
  BY ApisOfMethods DEF ApisIn, Registered
<1>7. ApisIn(ObstaclesAvoid, Registered("obstacles_avoid"))
  BY ApisOfMethods DEF ApisIn, Registered
<1>8. ApisIn(Vui, Registered("go2 vui"))
  BY ApisOfMethods DEF ApisIn, Registered
<1>9. ApisIn(B2Vui, Registered("b2 vui"))
  BY ApisOfMethods DEF ApisIn, Registered
<1>10. ApisIn(RobotState, Registered("robot_state"))
  BY ApisOfMethods DEF ApisIn, Registered
<1>11. ApisIn(Video, Registered("videohub"))
  BY ApisOfMethods DEF ApisIn, Registered
<1>12. ApisIn(FrontVideo, Registered("front_videohub"))
  BY ApisOfMethods DEF ApisIn, Registered
<1>13. ApisIn(BackVideo, Registered("back_videohub"))
  BY ApisOfMethods DEF ApisIn, Registered
<1>14. QED
  BY <1>1, <1>2, <1>3, <1>4, <1>5, <1>6, <1>7, <1>8, <1>9, <1>10, <1>11, <1>12, <1>13

\* Only two queries of the Go2 are not registered by the Init of their own client.
LEMMA OwnApisRegistered ==
  ASSUME NEW s \in Services, NEW m \in Methods(s), m.api \notin Registered(s)
  PROVE  LeftOut(s, m)
<1>1. CASE s = "go2 sport"
  <2>1. m \in Go2Basic \cup Go2Performing \cup Go2Modes
    BY <1>1 DEF Methods
  <2>2. ApisIn(Go2Basic \cup Go2Performing \cup Go2Modes, Registered(s) \cup {1025, 1026})
    BY <1>1, RegisteredApis, Zenon
  <2>3. m.api \in {1025, 1026}
    BY <2>1, <2>2 DEF ApisIn
  <2>4. QED
    BY <1>1, <2>3, Zenon DEF LeftOut
<1>2. CASE s = "b2 sport"
  <2>1. m \in B2Basic \cup B2Modes
    BY <1>2 DEF Methods
  <2>2. ApisIn(B2Basic \cup B2Modes, Registered(s))
    BY <1>2, RegisteredApis, Zenon
  <2>3. QED
    BY <2>1, <2>2 DEF ApisIn
<1>3. CASE s = "g1 loco"
  <2>1. m \in G1Setters \cup G1Wrappers
    BY <1>3 DEF Methods
  <2>2. ApisIn(G1Setters \cup G1Wrappers, Registered(s))
    BY <1>3, RegisteredApis, Zenon
  <2>3. QED
    BY <2>1, <2>2 DEF ApisIn
<1>4. CASE s = "h1 loco"
  <2>1. m \in H1Loco
    BY <1>4 DEF Methods
  <2>2. ApisIn(H1Loco, Registered(s))
    BY <1>4, RegisteredApis, Zenon
  <2>3. QED
    BY <2>1, <2>2 DEF ApisIn
<1>5. CASE s = "voice"
  <2>1. m \in Audio
    BY <1>5 DEF Methods
  <2>2. ApisIn(Audio, Registered(s))
    BY <1>5, RegisteredApis, Zenon
  <2>3. QED
    BY <2>1, <2>2 DEF ApisIn
<1>6. CASE s = "motion_switcher"
  <2>1. m \in MotionSwitcher
    BY <1>6 DEF Methods
  <2>2. ApisIn(MotionSwitcher, Registered(s))
    BY <1>6, RegisteredApis, Zenon
  <2>3. QED
    BY <2>1, <2>2 DEF ApisIn
<1>7. CASE s = "obstacles_avoid"
  <2>1. m \in ObstaclesAvoid
    BY <1>7 DEF Methods
  <2>2. ApisIn(ObstaclesAvoid, Registered(s))
    BY <1>7, RegisteredApis, Zenon
  <2>3. QED
    BY <2>1, <2>2 DEF ApisIn
<1>8. CASE s = "go2 vui"
  <2>1. m \in Vui
    BY <1>8 DEF Methods
  <2>2. ApisIn(Vui, Registered(s))
    BY <1>8, RegisteredApis, Zenon
  <2>3. QED
    BY <2>1, <2>2 DEF ApisIn
<1>9. CASE s = "b2 vui"
  <2>1. m \in B2Vui
    BY <1>9 DEF Methods
  <2>2. ApisIn(B2Vui, Registered(s))
    BY <1>9, RegisteredApis, Zenon
  <2>3. QED
    BY <2>1, <2>2 DEF ApisIn
<1>10. CASE s = "robot_state"
  <2>1. m \in RobotState
    BY <1>10 DEF Methods
  <2>2. ApisIn(RobotState, Registered(s))
    BY <1>10, RegisteredApis, Zenon
  <2>3. QED
    BY <2>1, <2>2 DEF ApisIn
<1>11. CASE s = "videohub"
  <2>1. m \in Video
    BY <1>11 DEF Methods
  <2>2. ApisIn(Video, Registered(s))
    BY <1>11, RegisteredApis, Zenon
  <2>3. QED
    BY <2>1, <2>2 DEF ApisIn
<1>12. CASE s = "front_videohub"
  <2>1. m \in FrontVideo
    BY <1>12 DEF Methods
  <2>2. ApisIn(FrontVideo, Registered(s))
    BY <1>12, RegisteredApis, Zenon
  <2>3. QED
    BY <2>1, <2>2 DEF ApisIn
<1>13. CASE s = "back_videohub"
  <2>1. m \in BackVideo
    BY <1>13 DEF Methods
  <2>2. ApisIn(BackVideo, Registered(s))
    BY <1>13, RegisteredApis, Zenon
  <2>3. QED
    BY <2>1, <2>2 DEF ApisIn
<1>14. QED
  BY <1>1, <1>2, <1>3, <1>4, <1>5, <1>6, <1>7,
     <1>8, <1>9, <1>10, <1>11, <1>12, <1>13, ServicesAssumption

-----------------------------------------------------------------------------
(* What every step leaves alone. *)

\* The calls that were made stay, with their client and their method.
Kept ==
  /\ service' = service
  /\ \A n \in Names : /\ n \in Names' /\ calls'[n].client = calls[n].client
                      /\ calls'[n].method = calls[n].method

LEMMA HoldsKept ==
  ASSUME Kept, NEW n \in Names, NEW v \in Names \cup {0}
  PROVE  /\ Holds(n, v)' <=> Holds(n, v)
         /\ Changing(n)' <=> Changing(n)
         /\ Changed(n)' = Changed(n)
<1>1. /\ calls'[n].client = calls[n].client /\ calls'[n].method = calls[n].method
      /\ v # 0 => calls'[v].client = calls[v].client
      /\ service' = service
  BY DEF Kept
<1>2. v # 0 => (Mine(n, v)' <=> Mine(n, v))
  BY <1>1 DEF Mine
<1>3. QED
  BY <1>1, <1>2 DEF Holds, Changing, Changed

LEMMA ServiceMethods ==
  ASSUME IInv, NEW n \in Names
  PROVE  /\ calls[n] \in Calls /\ calls[n].method \in MethodSet
         /\ Changing(n) => Changed(n) \in Known
<1>1. calls[n] \in Calls /\ calls[n].method \in MethodSet
  <2>1. calls[n] \in Calls
    BY DEF IInv, Types, Names
  <2>2. QED
    BY <2>1 DEF Calls
<1>2. calls[n].method \in Methods(service) \cup Version
  BY DEF IInv, CallInv
<1>3. calls[n].method \in Version => calls[n].method.kind = "version"
  BY DEF Version, Invocations
<1>4. Changing(n) => calls[n].method.api \in Apis(service)
  BY <1>2, <1>3 DEF Changing, Apis
<1>5. QED
  BY <1>1, <1>4 DEF Changed, Known

\* What the robot did stays true while it does nothing else.
LEMMA AnswersKept ==
  ASSUME IInv, Kept, UNCHANGED <<done, answers, setting>>
  PROVE  AnswerInv'
<1>1. /\ done \subseteq DOMAIN answers /\ DOMAIN answers \subseteq Names
      /\ setting \in [Known -> done \cup {0}]
  BY DEF IInv, Types
<1>2. SUFFICES ASSUME NEW n \in DOMAIN answers
      PROVE  /\ Result(n)' \in {"ok"} \cup Refusals /\ answers[n].data \in Nat
             /\ Result(n)' = "ok" <=> n \in done
             /\ n \in done /\ Changing(n)' => Holds(n, setting[Changed(n)])'
             /\ n \in done /\ calls'[n].method.kind = "get" =>
                  /\ answers[n].data \in done \cup {0}
                  /\ \A m \in done :
                       /\ m < n /\ Mine(m, n)' /\ Changing(m)'
                       /\ Changed(m)' = Reads(service', calls'[n].method.api)
                       => Holds(m, answers[n].data)'
  BY DEF AnswerInv
<1>3. Result(n)' \in {"ok"} \cup Refusals /\ answers[n].data \in Nat
      /\ (Result(n)' = "ok" <=> n \in done)
  <2>1. Result(n)' = Result(n)
    BY <1>1 DEF Kept, Result
  <2>2. QED
    BY <1>2, <2>1 DEF IInv, AnswerInv
<1>4. ASSUME n \in done, Changing(n)'
      PROVE  Holds(n, setting[Changed(n)])'
  <2>1. Changing(n) /\ Changed(n)' = Changed(n)
    BY <1>1, <1>4, HoldsKept
  <2>2. PICK v \in Names \cup {0} : v = setting[Changed(n)]
    BY <1>1, <2>1, ServiceMethods
  <2>3. Holds(n, v)
    BY <1>4, <2>1, <2>2 DEF IInv, AnswerInv
  <2>4. Holds(n, v)'
    BY <1>1, <2>3, HoldsKept
  <2>5. v = setting'[Changed(n)']
    BY <2>1, <2>2
  <2>6. QED
    BY <2>4, <2>5 DEF Holds, Mine
<1>5. ASSUME n \in done, calls'[n].method.kind = "get"
      PROVE  /\ answers[n].data \in done \cup {0}
             /\ \A m \in done :
                  /\ m < n /\ Mine(m, n)' /\ Changing(m)'
                  /\ Changed(m)' = Reads(service', calls'[n].method.api)
                  => Holds(m, answers[n].data)'
  <2>1. /\ calls'[n].method = calls[n].method /\ calls'[n].client = calls[n].client
        /\ service' = service
    BY <1>1 DEF Kept
  <2>2. /\ answers[n].data \in done \cup {0}
        /\ \A m \in done :
             m < n /\ Mine(m, n) /\ Changing(m) /\ Changed(m) = Reads(service, calls[n].method.api)
               => Holds(m, answers[n].data)
    BY <1>5, <2>1 DEF IInv, AnswerInv
  <2>3. PICK v \in Names \cup {0} : v = answers[n].data
    BY <1>1, <2>2
  <2>4. ASSUME NEW m \in done, m < n, Mine(m, n)', Changing(m)',
               Changed(m)' = Reads(service', calls'[n].method.api)
        PROVE  Holds(m, answers[n].data)'
    <3>1. /\ Changing(m) /\ Changed(m) = Changed(m)' /\ (Holds(m, v)' <=> Holds(m, v))
          /\ calls'[m].client = calls[m].client
      BY <1>1, <2>4, HoldsKept DEF Kept
    <3>2. Mine(m, n)
      BY <2>1, <2>4, <3>1 DEF Mine
    <3>3. Holds(m, v)'
      BY <2>1, <2>2, <2>3, <2>4, <3>1, <3>2
    <3>4. QED
      BY <2>3, <3>3 DEF Holds, Mine
  <2>5. QED
    BY <2>2, <2>4
<1>6. QED
  BY <1>3, <1>4, <1>5

-----------------------------------------------------------------------------
(* What a caller is told. *)

\* The record of call n, and of no other, takes a code and a value.
Tells(n, code, d) ==
  /\ calls' \in Seq(Calls) /\ Len(calls') = Len(calls)
  /\ \A m \in Names : m # n => calls'[m] = calls[m]
  /\ calls'[n].told = code /\ calls'[n].data = d
  /\ calls'[n].client = calls[n].client /\ calls'[n].method = calls[n].method
  /\ calls'[n].sent = calls[n].sent /\ calls'[n].init = calls[n].init

LEMMA CallFields ==
  ASSUME NEW r \in Calls
  PROVE  /\ r.client \in Clients /\ r.method \in MethodSet /\ r.sent \in Int
         /\ r.init \in BOOLEAN /\ r.told \in Told /\ r.data \in Nat
         /\ \A code \in Told, d \in Nat :
              /\ [r EXCEPT !.told = code] \in Calls
              /\ [r EXCEPT !.told = code, !.data = d] \in Calls
BY DEF Calls

\* What a method may tell its caller when it returns.
Codes == {"ok", "timeout", "nothing"} \cup Refusals

LEMMA ReturnTells ==
  ASSUME IInv, NEW c \in Clients, NEW n, n = waiting[c], Return(c)
  PROVE  /\ n \in DOMAIN answers /\ n \in Names
         /\ \E code, d :
              /\ code \in {"nothing", Result(n)} \cap Codes /\ Tells(n, code, d)
              /\ calls[n].method.kind = "get" => d = answers[n].data
<1>1. /\ n \in DOMAIN answers /\ n \in Names /\ calls \in Seq(Calls)
      /\ Result(n) \in {"ok"} \cup Refusals /\ answers[n].data \in Nat
  BY DEF Return, IInv, Types, AnswerInv
<1>2. PICK code, d : /\ code = Learns(calls[n].method, Result(n))
                     /\ d = IF calls[n].method.kind = "get" THEN answers[n].data ELSE 0
  OBVIOUS
<1>3. code \in {"nothing", Result(n)} /\ code \in Codes /\ code \in Told /\ d \in Nat
  <2>1. code \in {"nothing", Result(n)} /\ d \in Nat
    BY <1>1, <1>2 DEF Learns
  <2>2. QED
    BY <1>1, <2>1 DEF Codes, Told
<1>4. calls[n] \in Calls /\ calls' = [calls EXCEPT ![n].told = code, ![n].data = d]
  BY <1>1, <1>2 DEF Return, Result, Names
<1>5. PICK r : r = [calls[n] EXCEPT !.told = code, !.data = d]
  OBVIOUS
<1>6. /\ r \in Calls /\ r.told = code /\ r.data = d
      /\ r.client = calls[n].client /\ r.method = calls[n].method
      /\ r.sent = calls[n].sent /\ r.init = calls[n].init
  BY <1>3, <1>4, <1>5 DEF Calls
<1>7. calls' = [calls EXCEPT ![n] = r]
  BY <1>4, <1>5, Zenon
<1>8. /\ calls' \in Seq(Calls) /\ Len(calls') = Len(calls) /\ calls'[n] = r
      /\ \A m \in Names : m # n => calls'[m] = calls[m]
  BY <1>1, <1>6, <1>7 DEF Names
<1>9. Tells(n, code, d)
  BY <1>6, <1>8 DEF Tells
<1>10. QED
  BY <1>1, <1>2, <1>3, <1>9

LEMMA TimeoutTells ==
  ASSUME IInv, NEW c \in Clients, NEW n, n = waiting[c], Timeout(c)
  PROVE  n \in Names /\ \E code \in {"timeout", "nothing"} : Tells(n, code, calls[n].data)
<1>1. n \in Names /\ calls \in Seq(Calls) /\ {"timeout", "nothing"} \subseteq Told
  BY DEF Timeout, IInv, Types, Names, Told
<1>2. PICK code : code = Learns(calls[n].method, "timeout")
  OBVIOUS
<1>3. code \in {"timeout", "nothing"}
  BY <1>2 DEF Learns
<1>4. calls[n] \in Calls /\ calls' = [calls EXCEPT ![n] = [calls[n] EXCEPT !.told = code]]
  BY <1>1, <1>2 DEF Timeout, Names
<1>5. PICK r : r = [calls[n] EXCEPT !.told = code]
  OBVIOUS
<1>6. /\ r \in Calls /\ r.told = code /\ r.data = calls[n].data
      /\ r.client = calls[n].client /\ r.method = calls[n].method
      /\ r.sent = calls[n].sent /\ r.init = calls[n].init
  BY <1>1, <1>3, <1>4, <1>5 DEF Calls
<1>7. calls' = [calls EXCEPT ![n] = r]
  BY <1>4, <1>5
<1>8. /\ calls' \in Seq(Calls) /\ Len(calls') = Len(calls) /\ calls'[n] = r
      /\ \A m \in Names : m # n => calls'[m] = calls[m]
  BY <1>1, <1>6, <1>7 DEF Names
<1>9. Tells(n, code, calls[n].data)
  BY <1>6, <1>8 DEF Tells
<1>10. QED
  BY <1>1, <1>3, <1>9

\* A client is told the answer, that it waited too long, or nothing.
LEMMA TellsInv ==
  ASSUME IInv, NEW c \in Clients, NEW n \in Names, n = waiting[c],
         NEW code \in Codes, NEW d, Tells(n, code, d),
         code \notin {"timeout", "nothing"} =>
           /\ n \in DOMAIN answers /\ Result(n) = code
           /\ calls[n].method.kind = "get" => answers[n].data = d,
         waiting' = [waiting EXCEPT ![c] = 0], UNCHANGED <<service, ready, raised, wire, rvars>>
  PROVE  IInv'
<1>1. Kept /\ Names' = Names
  BY DEF Tells, Kept, Names
<1>2. AnswerInv'
  BY <1>1, AnswersKept DEF rvars
<1>3. /\ waiting \in [Clients -> 0 .. Len(calls)] /\ Known' = Known
      /\ calls' \in Seq(Calls) /\ Len(calls') = Len(calls)
  BY DEF IInv, Types, Tells, Known
<1>4. Types'
  BY <1>1, <1>3 DEF IInv, Types, rvars
<1>5. \A e \in Clients : Own(e)' = Own(e)
  BY <1>1 DEF Own, Kept
<1>6. OnTheWay' = OnTheWay
  BY DEF OnTheWay, rvars
<1>7. WayInv'
  <2>1. code \notin NeverSent
    BY DEF NeverSent, Refusals, Codes
  <2>2. \A m \in OnTheWay \cup DOMAIN answers : m \in Names /\ calls'[m].told \notin NeverSent
    BY <2>1 DEF IInv, Types, WayInv, Tells
  <2>3. QED
    BY <1>1, <1>5, <1>6, <2>2 DEF IInv, WayInv, rvars
<1>8. CallInv'
  <2>1. ASSUME NEW e \in Clients, waiting'[e] # 0
        PROVE  calls'[waiting'[e]].client = e /\ calls'[waiting'[e]].told = "none"
    <3>1. e # c /\ waiting'[e] = waiting[e] /\ waiting[e] \in Names
      BY <1>3, <2>1 DEF Names
    <3>2. calls[waiting[e]].client = e /\ calls[waiting[e]].told = "none"
      BY <2>1, <3>1 DEF IInv, CallInv
    <3>5. n # 0 /\ calls[n].client = c
      BY DEF IInv, CallInv, Names
    <3>3. waiting[e] # n
      BY <3>1, <3>2, <3>5
    <3>4. QED
      BY <3>1, <3>2, <3>3 DEF Tells
  <2>2. ASSUME NEW m \in Names, m # n PROVE calls'[m] = calls[m]
    BY <2>2 DEF Tells
  <2>3. answers' = answers /\ service' = service
    BY DEF rvars
  <2>4. ASSUME NEW m \in Names
        PROVE  /\ calls'[m].method = calls[m].method /\ calls'[m].sent = calls[m].sent
               /\ calls'[m].init = calls[m].init
               /\ calls'[m].told = "unregistered" => calls[m].told = "unregistered"
               /\ calls'[m].told \in {"ok"} \cup Refusals =>
                    /\ m \in DOMAIN answers /\ Result(m) = calls'[m].told
                    /\ calls[m].method.kind = "get" => answers[m].data = calls'[m].data
    <3>1. CASE m = n
      BY <3>1 DEF Tells, Refusals, Codes
    <3>2. CASE m # n
      BY <2>2, <3>2 DEF IInv, CallInv
    <3>3. QED
      BY <3>1, <3>2
  <2>5. ASSUME NEW m \in Names
        PROVE  /\ calls[m].method \in Methods(service) \cup Version
               /\ SentAsAsked(service, calls[m].method, calls[m].sent)
               /\ calls[m].told = "unregistered" /\ calls[m].init =>
                    LeftOut(service, calls[m].method)
    BY DEF IInv, CallInv
  <2>6. \A m \in Names : Result(m)' = Result(m)
    BY <2>3, <2>4 DEF Result
  <2>7. QED
    BY <1>1, <2>1, <2>3, <2>4, <2>5, <2>6 DEF CallInv
<1>9. QED
  BY <1>2, <1>4, <1>7, <1>8 DEF IInv

LEMMA ReturnStep ==
  ASSUME IInv, NEW c \in Clients, Return(c)
  PROVE  IInv'
<1>1. PICK n : n = waiting[c]
  OBVIOUS
<1>2. n \in DOMAIN answers /\ n \in Names
  BY <1>1, ReturnTells
<1>3. PICK code, d :
        /\ code \in {"nothing", Result(n)} \cap Codes /\ Tells(n, code, d)
        /\ calls[n].method.kind = "get" => d = answers[n].data
  BY <1>1, ReturnTells
<1>4. waiting' = [waiting EXCEPT ![c] = 0] /\ UNCHANGED <<service, ready, raised, wire, rvars>>
  BY DEF Return
<1>5. QED
  BY <1>1, <1>2, <1>3, <1>4, TellsInv

LEMMA TimeoutStep ==
  ASSUME IInv, NEW c \in Clients, Timeout(c)
  PROVE  IInv'
<1>1. PICK n : n = waiting[c]
  OBVIOUS
<1>2. n \in Names
  BY <1>1, TimeoutTells
<1>3. PICK code \in {"timeout", "nothing"} : Tells(n, code, calls[n].data)
  BY <1>1, TimeoutTells
<1>4. waiting' = [waiting EXCEPT ![c] = 0] /\ UNCHANGED <<service, ready, raised, wire, rvars>>
  BY DEF Timeout
<1>5. QED
  BY <1>1, <1>2, <1>3, <1>4, TellsInv DEF Codes

LEMMA InitClientStep ==
  ASSUME IInv, NEW c \in Clients, InitClient(c)
  PROVE  IInv'
<1>1. ready' \subseteq Clients /\ UNCHANGED <<service, raised, calls, waiting, wire, rvars>>
  BY DEF InitClient, IInv, Types
<1>2. Kept /\ Names' = Names
  BY <1>1 DEF Kept, Names
<1>3. AnswerInv'
  BY <1>1, <1>2, AnswersKept DEF rvars
<1>4. Types'
  BY <1>1, <1>2 DEF IInv, Types, Known, rvars
<1>5. \A e \in Clients : Own(e)' = Own(e)
  BY <1>1, <1>2 DEF Own
<1>6. WayInv'
  BY <1>1, <1>2, <1>5 DEF IInv, WayInv, OnTheWay, rvars
<1>7. CallInv'
  BY <1>1, <1>2 DEF IInv, CallInv, Result, rvars
<1>8. QED
  BY <1>3, <1>4, <1>6, <1>7 DEF IInv

-----------------------------------------------------------------------------
(* A new call. *)

LEMMA SentFacts ==
  ASSUME NEW c, NEW m \in MethodSet, raised[c] \in {-1, 0, 1}
  PROVE  /\ Sent(c, m) \in Int /\ SentAsAsked(service, m, Sent(c, m))
         /\ m.kind = "shake" => Stage(c, m) \in {-1, 0, 1}
<1>1. /\ m.arg \in Int /\ m.kind \in Kinds
      /\ m.kind = "shake" => m.arg \in {-1, 0, 1}
  BY DEF MethodSet
<1>2. Stage(c, m) \in Int /\ (m.kind = "shake" => Stage(c, m) \in {-1, 0, 1})
  BY <1>1 DEF Stage
<1>3. Sent(c, m) \in Int
  <2>1. Sent(c, m) = 2 + Stage(c, m) \/ Sent(c, m) = 1 \/ Sent(c, m) = m.arg
    BY Zenon DEF Sent
  <2>2. QED
    BY <1>1, <1>2, <2>1
<1>4. SentAsAsked(service, m, Sent(c, m))
  BY <1>1 DEF SentAsAsked, Sent
<1>5. QED
  BY <1>2, <1>3, <1>4

\* What a record adds, and that it is newer than all there were.
Adds(n, c, m, told) ==
  /\ calls' \in Seq(Calls) /\ Len(calls') = n /\ n = Len(calls) + 1
  /\ \A k \in Names : calls'[k] = calls[k]
  /\ calls'[n].client = c /\ calls'[n].method = m /\ calls'[n].told = told
  /\ SentAsAsked(service, m, calls'[n].sent) /\ calls'[n].init = (c \in ready)

LEMMA RecordAdds ==
  ASSUME IInv, NEW c \in Clients, NEW m \in Methods(service) \cup Version, NEW told \in Told,
         Record(c, m, told)
  PROVE  Adds(Len(calls) + 1, c, m, told)
<1>1. /\ m \in MethodSet /\ raised[c] \in {-1, 0, 1} /\ calls \in Seq(Calls)
  BY MethodTypes DEF IInv, Types
<1>2. Sent(c, m) \in Int /\ SentAsAsked(service, m, Sent(c, m))
  BY <1>1, SentFacts
<1>3. PICK r : r = [client |-> c, method |-> m, sent |-> Sent(c, m), init |-> c \in ready,
                    told |-> told, data |-> 0]
  OBVIOUS
<1>4. r \in Calls
  BY <1>1, <1>2, <1>3 DEF Calls
<1>5. /\ r.client = c /\ r.method = m /\ r.told = told
      /\ SentAsAsked(service, m, r.sent) /\ r.init = (c \in ready)
  BY <1>2, <1>3
<1>6. calls' = Append(calls, r)
  BY <1>3 DEF Record
<1>7. /\ calls' \in Seq(Calls) /\ Len(calls') = Len(calls) + 1 /\ calls'[Len(calls) + 1] = r
      /\ \A k \in Names : calls'[k] = calls[k]
  BY <1>1, <1>4, <1>6 DEF Names
<1>8. QED
  BY <1>5, <1>7 DEF Adds

LEMMA AddsNames ==
  ASSUME IInv, NEW n, NEW c, NEW m, NEW told, Adds(n, c, m, told), service' = service
  PROVE  /\ n \in Nat \ {0} /\ n \notin Names /\ Names' = Names \cup {n} /\ Kept
         /\ \A k \in Names : k \in Nat /\ k < n
         /\ Own(c)' = Own(c) \cup {n}
         /\ \A e \in Clients \ {c} : Own(e)' = Own(e)
<1>1. /\ Len(calls) \in Nat /\ n = Len(calls) + 1 /\ Len(calls') = n
      /\ \A k \in Names : calls'[k] = calls[k]
      /\ calls'[n].client = c
  BY DEF Adds, IInv, Types
<1>2. /\ n \in Nat \ {0} /\ n \notin Names /\ Names' = Names \cup {n}
      /\ \A k \in Names : k \in Nat /\ k < n
  BY <1>1 DEF Names
<1>3. QED
  BY <1>1, <1>2 DEF Kept, Own

\* Whatever is on its way is a call that was made.
LEMMA OnTheWayNames ==
  ASSUME IInv, NEW c \in Clients
  PROVE  Elems(queues[FALSE]) \subseteq Names /\ Elems(wire[c]) \subseteq Names
<1>1. OnTheWay \subseteq Names
  BY DEF IInv, WayInv
<1>2. PICK sent : sent = UNION {Elems(wire[e]) : e \in Clients}
  OBVIOUS
<1>3. OnTheWay = sent \cup Elems(queues[FALSE])
  BY <1>2 DEF OnTheWay
<1>4. Elems(wire[c]) \subseteq sent
  BY <1>2
<1>5. QED
  BY <1>1, <1>3, <1>4

\* The new call is waited for, or it is not: then it was refused, or answers nobody.
LEMMA AddsCallInv ==
  ASSUME IInv, NEW n, NEW c \in Clients, NEW m \in Methods(service) \cup Version, NEW told,
         Adds(n, c, m, told), told \notin {"ok"} \cup Refusals,
         told = "unregistered" /\ c \in ready => LeftOut(service, m),
         waiting' = waiting \/ (waiting' = [waiting EXCEPT ![c] = n] /\ told = "none"),
         UNCHANGED <<service, answers>>
  PROVE  CallInv' /\ waiting' \in [Clients -> 0 .. Len(calls')]
<1>1. /\ n \in Nat \ {0} /\ Names' = Names \cup {n} /\ n \notin Names /\ Len(calls') = n
      /\ Len(calls) \in Nat /\ n = Len(calls) + 1
      /\ waiting \in [Clients -> 0 .. Len(calls)]
  BY AddsNames DEF Adds, IInv, Types
<1>2. \A e \in Clients : waiting'[e] \in {waiting[e], n} /\ waiting[e] \in 0 .. Len(calls)
  BY <1>1
<1>3. waiting' \in [Clients -> 0 .. Len(calls')]
  BY <1>1, <1>2
<1>4. ASSUME NEW e \in Clients, waiting'[e] # 0
      PROVE  calls'[waiting'[e]].client = e /\ calls'[waiting'[e]].told = "none"
  <2>1. CASE waiting'[e] = n
    <3>1. waiting'[e] # waiting[e]
      BY <1>1, <1>2, <2>1
    <3>2. e = c /\ told = "none"
      BY <1>1, <3>1
    <3>3. QED
      BY <2>1, <3>2 DEF Adds
  <2>2. CASE waiting'[e] = waiting[e]
    <3>1. waiting[e] \in Names
      BY <1>2, <1>4, <2>2 DEF Names
    <3>2. calls[waiting[e]].client = e /\ calls[waiting[e]].told = "none"
      BY <1>4, <2>2 DEF IInv, CallInv
    <3>3. QED
      BY <2>2, <3>1, <3>2 DEF Adds
  <2>3. QED
    BY <1>2, <2>1, <2>2
<1>5. \A k \in Names : calls'[k] = calls[k]
  BY DEF Adds
<1>6. /\ calls'[n].method \in Methods(service) \cup Version
      /\ SentAsAsked(service, calls'[n].method, calls'[n].sent)
      /\ calls'[n].told = "unregistered" /\ calls'[n].init => LeftOut(service, calls'[n].method)
      /\ calls'[n].told \notin {"ok"} \cup Refusals
  BY DEF Adds
<1>7. CallInv'
  BY <1>1, <1>4, <1>5, <1>6 DEF IInv, CallInv, Result
<1>8. QED
  BY <1>3, <1>7

\* The way of a call that is not sent stays empty.
LEMMA AddsUnsent ==
  ASSUME IInv, NEW n, NEW c \in Clients, NEW m, NEW told, Adds(n, c, m, told),
         UNCHANGED <<service, wire, rvars>>
  PROVE  WayInv'
<1>1. /\ n \in Nat \ {0} /\ Names' = Names \cup {n} /\ \A k \in Names : k \in Nat /\ k < n
      /\ Own(c)' = Own(c) \cup {n} /\ \A e \in Clients \ {c} : Own(e)' = Own(e)
  BY AddsNames
<1>2. /\ queues' = queues /\ wire' = wire /\ answers' = answers /\ OnTheWay' = OnTheWay
      /\ wire \in [Clients -> Seq(Nat)] /\ queues[FALSE] \in Seq(Nat)
      /\ DOMAIN answers \subseteq Names /\ OnTheWay \subseteq Names
  BY DEF rvars, OnTheWay, IInv, Types, WayInv
<1>3. ASSUME NEW e \in Clients
      PROVE  InOrder(wire[e], queues[FALSE], DOMAIN answers, Own(e)')
  <2>1. InOrder(wire[e], queues[FALSE], DOMAIN answers, Own(e))
    BY DEF IInv, WayInv
  <2>2. \A k \in DOMAIN answers \cup Elems(queues[FALSE]) \cup Elems(wire[e]) : k \in Nat /\ k < n
    <3>1. Elems(queues[FALSE]) \subseteq Names /\ Elems(wire[e]) \subseteq Names
      BY OnTheWayNames
    <3>2. QED
      BY <1>1, <1>2, <3>1
  <2>3. wire[e] \in Seq(Nat)
    BY <1>2
  <2>4. InOrder(wire[e], queues[FALSE], DOMAIN answers, Own(e) \cup {n})
    BY <1>1, <1>2, <2>1, <2>2, <2>3, InOrderNew
  <2>5. QED
    BY <1>1, <2>1, <2>4
<1>4. \A k \in OnTheWay \cup DOMAIN answers : calls'[k].told \notin NeverSent
  BY <1>2 DEF Adds, IInv, WayInv
<1>5. QED
  BY <1>1, <1>2, <1>3, <1>4 DEF IInv, WayInv

LEMMA AddsSent ==
  ASSUME IInv, NEW n, NEW c \in Clients, NEW m, NEW told, Adds(n, c, m, told),
         told \notin NeverSent, wire' = [wire EXCEPT ![c] = Append(@, n)],
         UNCHANGED <<service, rvars>>
  PROVE  WayInv' /\ wire' \in [Clients -> Seq(Nat)]
<1>1. /\ n \in Nat \ {0} /\ Names' = Names \cup {n} /\ \A k \in Names : k \in Nat /\ k < n
      /\ Own(c)' = Own(c) \cup {n} /\ \A e \in Clients \ {c} : Own(e)' = Own(e)
  BY AddsNames
<1>2. /\ queues' = queues /\ answers' = answers
      /\ wire \in [Clients -> Seq(Nat)] /\ queues[FALSE] \in Seq(Nat)
      /\ DOMAIN answers \subseteq Names /\ OnTheWay \subseteq Names
      /\ wire' = [wire EXCEPT ![c] = Append(wire[c], n)]
  BY DEF rvars, OnTheWay, IInv, Types, WayInv
<1>3. /\ wire[c] \in Seq(Nat) /\ Append(wire[c], n) \in Seq(Nat)
      /\ Elems(Append(wire[c], n)) = Elems(wire[c]) \cup {n}
  BY <1>1, <1>2, AppendElems
<1>4. /\ wire' \in [Clients -> Seq(Nat)] /\ wire'[c] = Append(wire[c], n)
      /\ \A e \in Clients \ {c} : wire'[e] = wire[e]
  BY <1>2, <1>3
<1>5. ASSUME NEW e \in Clients
      PROVE  InOrder(wire'[e], queues[FALSE], DOMAIN answers, Own(e)')
  <2>1. InOrder(wire[e], queues[FALSE], DOMAIN answers, Own(e)) /\ wire[e] \in Seq(Nat)
    BY <1>2 DEF IInv, WayInv
  <2>2. \A k \in DOMAIN answers \cup Elems(queues[FALSE]) \cup Elems(wire[e]) : k \in Nat /\ k < n
    <3>1. Elems(queues[FALSE]) \subseteq Names /\ Elems(wire[e]) \subseteq Names
      BY OnTheWayNames
    <3>2. QED
      BY <1>1, <1>2, <3>1
  <2>3. InOrder(Append(wire[e], n), queues[FALSE], DOMAIN answers, Own(e) \cup {n})
    BY <1>1, <1>2, <2>1, <2>2, InOrderNew
  <2>4. CASE e = c
    BY <1>1, <1>4, <2>3, <2>4
  <2>5. CASE e # c
    BY <1>1, <1>4, <2>1, <2>5
  <2>6. QED
    BY <2>4, <2>5
<1>6. \A k \in OnTheWay' : k = n \/ k \in OnTheWay
  <2>1. ASSUME NEW e \in Clients, NEW k \in Elems(wire'[e])
        PROVE  k = n \/ k \in Elems(wire[e])
    BY <1>3, <1>4
  <2>2. QED
    BY <1>2, <2>1 DEF OnTheWay
<1>7. OnTheWay' \subseteq Names'
  BY <1>1, <1>2, <1>6
<1>8. \A k \in OnTheWay' \cup DOMAIN answers : calls'[k].told \notin NeverSent
  <2>1. ASSUME NEW k \in OnTheWay \cup DOMAIN answers PROVE calls'[k].told \notin NeverSent
    BY <1>2, <2>1 DEF Adds, IInv, WayInv
  <2>2. calls'[n].told \notin NeverSent
    BY DEF Adds
  <2>3. QED
    BY <1>6, <2>1, <2>2
<1>9. QED
  BY <1>2, <1>4, <1>5, <1>7, <1>8 DEF IInv, WayInv

\* A method that is refused before anything is sent is refused for a reason.
LEMMA RefusalFacts ==
  ASSUME IInv, NEW c \in Clients, NEW m \in Methods(service) \cup Version
  PROVE  /\ Refusal(c, m) \in {"path", "unregistered", "none"}
         /\ Refusal(c, m) = "unregistered" /\ c \in ready => LeftOut(service, m)
<1>1. Refusal(c, m) \in {"path", "unregistered", "none"}
  BY DEF Refusal
<1>2. ASSUME Refusal(c, m) = "unregistered", c \in ready
      PROVE  LeftOut(service, m)
  <2>1. ~CheckApi(c, m)
    BY <1>2 DEF Refusal
  <2>2. m.kind # "version" /\ m.api \notin Registered(service)
    BY <1>2, <2>1 DEF CheckApi
  <2>3. m \in Methods(service)
    BY <2>2 DEF Version, Invocations
  <2>4. service \in Services
    BY DEF IInv, Types
  <2>5. QED
    BY <2>2, <2>3, <2>4, OwnApisRegistered
<1>3. QED
  BY <1>1, <1>2

\* An application calls a method: it is refused, fails, or is on its way.
LEMMA InvokeStep ==
  ASSUME IInv, NEW c \in Clients, NEW m \in Methods(service) \cup Version, Invoke(c, m)
  PROVE  IInv'
<1>1. UNCHANGED <<service, ready, rvars>> /\ Len(calls) \in Nat
  BY DEF Invoke, IInv, Types
<1>2. PICK n : n = Len(calls) + 1
  OBVIOUS
<1>3. raised' \in [Clients -> {-1, 0, 1}]
  <2>1. raised \in [Clients -> {-1, 0, 1}] /\ m \in MethodSet
    BY MethodTypes DEF IInv, Types
  <2>2. m.kind = "shake" => Stage(c, m) \in {-1, 0, 1}
    BY <2>1, SentFacts
  <2>3. CASE m.kind = "shake"
    BY <2>1, <2>2, <2>3 DEF Invoke
  <2>4. CASE m.kind # "shake"
    BY <2>1, <2>4 DEF Invoke
  <2>5. QED
    BY <2>3, <2>4
<1>4. PICK told \in Told :
        /\ Record(c, m, told) /\ told \notin {"ok"} \cup Refusals
        /\ told = "unregistered" /\ c \in ready => LeftOut(service, m)
        /\ \/ UNCHANGED <<waiting, wire>>
           \/ /\ told \notin NeverSent /\ wire' = [wire EXCEPT ![c] = Append(@, n)]
              /\ waiting' = waiting \/ (waiting' = [waiting EXCEPT ![c] = n] /\ told = "none")
  <2> DEFINE Way(told) ==
        \/ UNCHANGED <<waiting, wire>>
        \/ /\ told \notin NeverSent /\ wire' = [wire EXCEPT ![c] = Append(@, n)]
           /\ waiting' = waiting \/ (waiting' = [waiting EXCEPT ![c] = n] /\ told = "none")
  <2>1. /\ {"nothing", "raised", "unsent", "sent", "none", "path", "unregistered"} \subseteq Told
        /\ {"nothing", "raised", "unsent", "sent", "none", "path", "unregistered"}
             \cap ({"ok"} \cup Refusals) = {}
        /\ "sent" \notin NeverSent /\ "none" \notin NeverSent
    BY DEF Told, NeverSent, Refusals
  <2>2. CASE Refusal(c, m) # "none"
    <3>1. /\ UNCHANGED <<waiting, wire>>
          /\ Record(c, m, Refusal(c, m)) \/ Record(c, m, "nothing")
      BY <2>2 DEF Invoke, Learns
    <3>2. QED
      BY <2>1, <2>2, <3>1, RefusalFacts
  <2>3. CASE Refusal(c, m) = "none"
    <3>1. \/ Record(c, m, "raised") /\ UNCHANGED <<waiting, wire>>
          \/ Record(c, m, "unsent") /\ UNCHANGED <<waiting, wire>>
          \/ Record(c, m, "nothing") /\ UNCHANGED <<waiting, wire>>
          \/ Record(c, m, "sent") /\ Way("sent")
          \/ Record(c, m, "none") /\ Way("none")
      BY <1>2, <2>1, <2>3 DEF Invoke, Learns
    <3>2. QED
      BY <2>1, <3>1
  <2>4. QED
    BY <2>2, <2>3
<1>5. Adds(n, c, m, told)
  BY <1>2, <1>4, RecordAdds
<1>6. CallInv' /\ waiting' \in [Clients -> 0 .. Len(calls')]
  BY <1>1, <1>4, <1>5, AddsCallInv DEF rvars
<1>7. WayInv' /\ wire' \in [Clients -> Seq(Nat)]
  <2>1. CASE UNCHANGED <<waiting, wire>>
    BY <1>1, <1>5, <2>1, AddsUnsent DEF IInv, Types
  <2>2. CASE told \notin NeverSent /\ wire' = [wire EXCEPT ![c] = Append(@, n)]
    BY <1>1, <1>5, <2>2, AddsSent
  <2>3. QED
    BY <1>4, <2>1, <2>2
<1>8. Kept /\ Names \subseteq Names'
  BY <1>1, <1>5, AddsNames
<1>9. AnswerInv'
  BY <1>1, <1>8, AnswersKept DEF rvars
<1>10. Types'
  <2>1. calls' \in Seq(Calls) /\ Known' = Known
    BY <1>1, <1>5 DEF Adds, Known
  <2>2. QED
    BY <1>1, <1>3, <1>6, <1>7, <1>8, <2>1 DEF IInv, Types, rvars
<1>11. QED
  BY <1>6, <1>7, <1>9, <1>10 DEF IInv

-----------------------------------------------------------------------------
(* The service. *)

\* A request reaches the queue, or is lost; the other clients' requests keep their order.
LEMMA ArriveStep ==
  ASSUME IInv, NEW c \in Clients, Arrive(c)
  PROVE  IInv'
<1>1. /\ wire[c] # <<>> /\ wire' = [wire EXCEPT ![c] = Tail(wire[c])]
      /\ UNCHANGED <<service, cvars, done, answers, setting>>
      /\ wire \in [Clients -> Seq(Nat)] /\ queues \in [BOOLEAN -> Seq(Nat)]
      /\ queues[TRUE] = <<>> /\ OnTheWay \subseteq Names
  BY DEF Arrive, IInv, Types, WayInv
<1>2. PICK n : n = Head(wire[c])
  OBVIOUS
<1>3. queues' = [queues EXCEPT ![FALSE] = Append(queues[FALSE], n)] \/ queues' = queues
  <2>1. (Priority(service, calls[n].method.api) > 0) = FALSE
    BY DEF Priority
  <2>2. QED
    BY <1>2, <2>1 DEF Arrive
<1>4. /\ wire[c] \in Seq(Nat) /\ n \in Nat /\ n \in Elems(wire[c])
      /\ Tail(wire[c]) \in Seq(Nat) /\ Elems(Tail(wire[c])) \subseteq Elems(wire[c])
  BY <1>1, <1>2, TailElems
<1>5. /\ wire' \in [Clients -> Seq(Nat)] /\ wire'[c] = Tail(wire[c])
      /\ \A e \in Clients \ {c} : wire'[e] = wire[e]
  BY <1>1, <1>4
<1>6. /\ queues[FALSE] \in Seq(Nat) /\ Append(queues[FALSE], n) \in Seq(Nat)
      /\ Elems(Append(queues[FALSE], n)) = Elems(queues[FALSE]) \cup {n}
  BY <1>1, <1>4, AppendElems
<1>7. /\ queues' \in [BOOLEAN -> Seq(Nat)] /\ queues'[TRUE] = <<>>
      /\ queues'[FALSE] = Append(queues[FALSE], n) \/ queues'[FALSE] = queues[FALSE]
  BY <1>1, <1>3, <1>6
<1>8. Kept /\ Names' = Names /\ Known' = Known
  BY <1>1 DEF Kept, Names, Known, cvars
<1>9. AnswerInv'
  BY <1>1, <1>8, AnswersKept
<1>10. Types'
  BY <1>1, <1>5, <1>7, <1>8 DEF IInv, Types, cvars
<1>11. CallInv'
  BY <1>1, <1>8 DEF IInv, CallInv, Result, cvars
<1>12. OnTheWay' \subseteq OnTheWay
  <2>1. n \in OnTheWay
    BY <1>4 DEF OnTheWay
  <2>2. \A e \in Clients : Elems(wire'[e]) \subseteq Elems(wire[e])
    BY <1>4, <1>5
  <2>3. Elems(queues'[FALSE]) \subseteq Elems(queues[FALSE]) \cup {n}
    BY <1>6, <1>7
  <2>4. QED
    BY <2>1, <2>2, <2>3 DEF OnTheWay
<1>13. ASSUME NEW e \in Clients
       PROVE  InOrder(wire'[e], queues'[FALSE], DOMAIN answers, Own(e))
  <2>1. InOrder(wire[e], queues[FALSE], DOMAIN answers, Own(e)) /\ wire[e] \in Seq(Nat)
    BY <1>1 DEF IInv, WayInv
  <2>2. CASE e = c
    <3>1. /\ InOrder(Tail(wire[e]), queues[FALSE], DOMAIN answers, Own(e))
          /\ InOrder(Tail(wire[e]), Append(queues[FALSE], Head(wire[e])), DOMAIN answers, Own(e))
      BY <1>1, <1>6, <2>1, <2>2, InOrderArrive
    <3>2. QED
      BY <1>2, <1>5, <1>7, <2>2, <3>1
  <2>3. CASE e # c
    <3>1. n \in Own(c)
      BY <1>4 DEF IInv, WayInv, InOrder
    <3>2. n \notin Own(e)
      BY <2>3, <3>1 DEF Own
    <3>3. InOrder(wire[e], Append(queues[FALSE], n), DOMAIN answers, Own(e))
      BY <1>4, <1>6, <2>1, <3>2, InOrderOther
    <3>4. QED
      BY <1>5, <1>7, <2>1, <2>3, <3>3
  <2>4. QED
    BY <2>2, <2>3
<1>14. WayInv'
  <2>1. /\ calls' = calls /\ answers' = answers
        /\ \A e \in Clients : Own(e)' = Own(e)
    BY <1>1 DEF Own, Names, cvars
  <2>2. \A k \in OnTheWay' \cup DOMAIN answers : calls[k].told \notin NeverSent
    BY <1>12 DEF IInv, WayInv
  <2>3. QED
    BY <1>1, <1>7, <1>8, <1>12, <1>13, <2>1, <2>2 DEF WayInv
<1>15. QED
  BY <1>9, <1>10, <1>11, <1>14 DEF IInv

\* Call n, and no other, takes an answer, of which its method makes a code.
Answers(n, code, d) ==
  /\ DOMAIN answers' = DOMAIN answers \cup {n}
  /\ \A k \in DOMAIN answers : answers'[k] = answers[k]
  /\ SwitchCode(calls[n].method, answers'[n]) = code /\ answers'[n].data = d

LEMMA AnswerAnswers ==
  ASSUME NEW n, n \notin DOMAIN answers, NEW code, NEW d, Answer(n, code, d)
  PROVE  /\ code # "ok" \/ calls[n].method.kind # "switch" \/ d \in {0, 1} => Answers(n, code, d)
         /\ calls[n].method.kind = "switch" /\ code = "ok" /\ d = 5 => Answers(n, "protected", d)
         /\ calls[n].method.kind = "switch" /\ code = "ok" /\ d = 2 => Answers(n, "switch", d)
<1>1. /\ DOMAIN answers' = DOMAIN answers \cup {n}
      /\ \A k \in DOMAIN answers : answers'[k] = answers[k]
      /\ answers'[n].code = code /\ answers'[n].data = d
  BY DEF Answer
<1>2. QED
  BY <1>1 DEF Answers, SwitchCode

\* What the robot does with a request: whether, and with what, it changes a setting.
Handles(n, code, d) ==
  /\ Answers(n, code, d) /\ code \in {"ok"} \cup Refusals /\ d \in Nat
  /\ done' = IF code = "ok" THEN done \cup {n} ELSE done
  /\ setting' = IF code = "ok" /\ Changing(n)
                THEN [setting EXCEPT ![Changed(n)] = n] ELSE setting
  /\ code = "ok" /\ calls[n].method.kind = "get" =>
       /\ d \in done \cup {0}
       /\ \A m \in done :
            Changing(m) /\ Changed(m) = Reads(service, calls[n].method.api) => d = setting[Changed(m)]

\* A call that waits in the queue is handled once, after the earlier ones of its client.
LEMMA OldestRequest ==
  ASSUME IInv, NEW high \in BOOLEAN, Execute(high)
  PROVE  /\ high = FALSE /\ queues[FALSE] # <<>> /\ queues[FALSE] \in Seq(Nat)
         /\ Head(queues[FALSE]) \in Names \ DOMAIN answers
         /\ Head(queues[FALSE]) \in Elems(queues[FALSE])
         /\ \A k \in DOMAIN answers : Mine(k, Head(queues[FALSE])) => k < Head(queues[FALSE])
<1>1. high = FALSE /\ queues[FALSE] # <<>> /\ queues[FALSE] \in Seq(Nat)
  BY DEF Execute, Dequeue, IInv, WayInv, Types
<1>2. PICK n : n = Head(queues[FALSE])
  OBVIOUS
<1>3. n \in Nat /\ n \in Elems(queues[FALSE])
  BY <1>1, <1>2, TailElems
<1>4. n \in Names
  <2>1. OnTheWay \subseteq Names
    BY DEF IInv, WayInv
  <2>2. QED
    BY <1>3, <2>1 DEF OnTheWay
<1>5. PICK c \in Clients : c = calls[n].client
  BY <1>4, ServiceMethods, CallFields
<1>6. \A k \in DOMAIN answers \cap Own(c) : k < n
  <2>1. InOrder(wire[c], queues[FALSE], DOMAIN answers, Own(c)) /\ n \in Own(c)
    BY <1>4, <1>5 DEF IInv, WayInv, Own
  <2>2. QED
    BY <1>3, <2>1 DEF InOrder
<1>7. \A k \in DOMAIN answers : Mine(k, n) => k \in Own(c)
  BY <1>5 DEF Mine, Own, IInv, Types
<1>8. n \notin DOMAIN answers
  <2>1. n \in DOMAIN answers => n < n
    BY <1>6, <1>7 DEF Mine
  <2>2. QED
    BY <1>3, <2>1
<1>9. QED
  BY <1>1, <1>2, <1>3, <1>4, <1>6, <1>7, <1>8

LEMMA ExecuteHandles ==
  ASSUME IInv, NEW high \in BOOLEAN, Execute(high)
  PROVE  \E code, d : Handles(Head(queues[FALSE]), code, d)
<1>1. PICK n : n = Head(queues[FALSE])
  OBVIOUS
<1>2. high = FALSE /\ n \in Names /\ n \notin DOMAIN answers
  BY <1>1, OldestRequest
<1>3. PICK m : m = calls[n].method
  OBVIOUS
<1>4. PICK r : r = Reads(service, m.api)
  OBVIOUS
<1>5. setting \in [Known -> done \cup {0}] /\ done \subseteq Names
  BY DEF IInv, Types
<1>6. CASE /\ m.kind \in {"get", "version"}
           /\ done' = done \cup {n} /\ UNCHANGED setting
           /\ Answer(n, "ok", IF r \in DOMAIN setting THEN setting[r] ELSE 0)
  <2>1. PICK d : d = IF r \in DOMAIN setting THEN setting[r] ELSE 0
    OBVIOUS
  <2>2. d \in done \cup {0} /\ d \in Nat
    BY <1>5, <2>1 DEF Names
  <2>3. Answers(n, "ok", d)
    BY <1>2, <1>3, <1>6, <2>1, AnswerAnswers
  <2>4. ASSUME NEW k \in done, Changing(k), Changed(k) = r
        PROVE  d = setting[Changed(k)]
    BY <1>5, <2>1, <2>4, ServiceMethods
  <2>5. ~Changing(n)
    BY <1>3, <1>6 DEF Changing
  <2>6. Handles(n, "ok", d)
    BY <1>3, <1>4, <1>6, <2>2, <2>3, <2>4, <2>5 DEF Handles
  <2>7. QED
    BY <1>1, <2>6
<1>7. CASE /\ m.kind \notin {"get", "version"}
           /\ done' = done \cup {n} /\ setting' = [setting EXCEPT ![Changed(n)] = n]
           /\ \E status \in {0, 1} : Answer(n, "ok", status)
  <2>1. PICK status \in {0, 1} : Answer(n, "ok", status)
    BY <1>7
  <2>2. Answers(n, "ok", status)
    BY <1>2, <2>1, AnswerAnswers
  <2>3. Changing(n) /\ m.kind # "get"
    BY <1>3, <1>7 DEF Changing
  <2>4. Handles(n, "ok", status)
    BY <1>3, <1>7, <2>1, <2>2, <2>3 DEF Handles
  <2>5. QED
    BY <1>1, <2>4
<1>8. CASE /\ UNCHANGED <<done, setting>>
           /\ \/ Answer(n, "refused", 0)
              \/ m.kind = "switch" /\ \E status \in {2, 5} : Answer(n, "ok", status)
  <2>1. PICK code \in Refusals, d \in Nat : Answers(n, code, d)
    BY <1>2, <1>3, <1>8, AnswerAnswers DEF Refusals
  <2>2. Handles(n, code, d)
    BY <1>8, <2>1 DEF Handles, Refusals
  <2>3. QED
    BY <1>1, <2>2
<1>9. QED
  BY <1>1, <1>2, <1>3, <1>4, <1>6, <1>7, <1>8 DEF Execute, Statuses, Failures, Changed

\* The robot's own record of what it did, after one more request.
LEMMA HandlesAnswers ==
  ASSUME IInv, NEW n \in Names, NEW code, NEW d, Handles(n, code, d), n \notin DOMAIN answers,
         \A k \in DOMAIN answers : Mine(k, n) => k < n, UNCHANGED <<service, calls>>
  PROVE  AnswerInv' /\ done' \subseteq DOMAIN answers' /\ setting' \in [Known -> done' \cup {0}]
<1>1. /\ done \subseteq DOMAIN answers /\ DOMAIN answers \subseteq Names /\ n \in Nat \ {0}
      /\ setting \in [Known -> done \cup {0}] /\ \A k \in Names : k \in Nat
  BY DEF IInv, Types, Names
<1>2. /\ DOMAIN answers' = DOMAIN answers \cup {n} /\ \A k \in DOMAIN answers : answers'[k] = answers[k]
      /\ Result(n)' = code /\ answers'[n].data = d
      /\ code \in {"ok"} \cup Refusals /\ d \in Nat
  BY DEF Handles, Answers, Result
<1>3. /\ code = "ok" => done' = done \cup {n}
      /\ code # "ok" => done' = done
      /\ done' \subseteq done \cup {n} /\ done \subseteq done'
  BY DEF Handles
<1>4. /\ code = "ok" /\ Changing(n) => setting' = [setting EXCEPT ![Changed(n)] = n]
      /\ ~(code = "ok" /\ Changing(n)) => setting' = setting
  BY DEF Handles
<1>5. Changing(n) => Changed(n) \in Known
  BY ServiceMethods
<1>6. setting' \in [Known -> done' \cup {0}]
  BY <1>1, <1>3, <1>4, <1>5
<1>7. ASSUME NEW k \in DOMAIN answers
      PROVE  k \in Nat /\ Holds(k, n) /\ (Mine(k, n) => k < n)
  <2>1. k \in Nat /\ (Mine(k, n) => k < n)
    BY <1>1
  <2>2. QED
    BY <1>1, <2>1 DEF Holds
<1>8. ASSUME NEW k \in Names
      PROVE  /\ Changing(k)' <=> Changing(k)
             /\ Changed(k)' = Changed(k)
             /\ \A j \in Names : Mine(k, j)' <=> Mine(k, j)
             /\ \A v \in Names \cup {0} : Holds(k, v)' <=> Holds(k, v)
  BY DEF Changing, Changed, Mine, Holds
<1>9. ASSUME NEW k \in done', Changing(k)
      PROVE  Holds(k, setting'[Changed(k)])
  <2>1. CASE code = "ok" /\ Changing(n) /\ Changed(k) = Changed(n)
    <3>1. setting'[Changed(k)] = n
      BY <1>1, <1>4, <1>5, <2>1
    <3>2. Holds(k, n)
      BY <1>1, <1>3, <1>7 DEF Holds
    <3>3. QED
      BY <3>1, <3>2
  <2>2. CASE ~(code = "ok" /\ Changing(n) /\ Changed(k) = Changed(n))
    <3>1. k \in done
      BY <1>3, <1>9, <2>2
    <3>2. Changed(k) \in Known
      BY <1>1, <1>9, <3>1, ServiceMethods
    <3>3. setting'[Changed(k)] = setting[Changed(k)]
      <4>1. CASE code = "ok" /\ Changing(n)
        BY <1>1, <1>4, <1>5, <2>2, <3>2, <4>1
      <4>2. CASE ~(code = "ok" /\ Changing(n))
        BY <1>4, <4>2
      <4>3. QED
        BY <4>1, <4>2
    <3>4. Holds(k, setting[Changed(k)])
      BY <1>1, <1>9, <3>1 DEF IInv, AnswerInv
    <3>5. QED
      BY <3>3, <3>4
  <2>3. QED
    BY <2>1, <2>2
<1>10. ASSUME NEW k \in done', calls[k].method.kind = "get"
       PROVE  /\ answers'[k].data \in done' \cup {0}
              /\ \A m \in done' :
                   m < k /\ Mine(m, k) /\ Changing(m) /\ Changed(m) = Reads(service, calls[k].method.api)
                     => Holds(m, answers'[k].data)
  <2>1. CASE k = n
    <3>1. code = "ok"
      BY <1>1, <1>3, <2>1
    <3>2. /\ d \in done \cup {0}
          /\ \A m \in done : Changing(m) /\ Changed(m) = Reads(service, calls[n].method.api)
                               => d = setting[Changed(m)]
      BY <1>10, <2>1, <3>1 DEF Handles
    <3>3. ASSUME NEW m \in done, Changing(m) PROVE Holds(m, setting[Changed(m)])
      BY <1>1, <3>3 DEF IInv, AnswerInv
    <3>4. \A m \in done' : m < n => m \in done
      BY <1>1, <1>3
    <3>5. QED
      BY <1>2, <1>3, <2>1, <3>2, <3>3, <3>4
  <2>2. CASE k # n
    <3>1. k \in done /\ k \in DOMAIN answers /\ answers'[k] = answers[k]
      BY <1>1, <1>2, <1>3, <2>2
    <3>2. /\ answers[k].data \in done \cup {0}
          /\ \A m \in done :
               m < k /\ Mine(m, k) /\ Changing(m) /\ Changed(m) = Reads(service, calls[k].method.api)
                 => Holds(m, answers[k].data)
      BY <1>10, <3>1 DEF IInv, AnswerInv
    <3>3. ASSUME NEW m \in done', m < k, Mine(m, k) PROVE m \in done
      <4>1. ASSUME m = n PROVE FALSE
        <5>1. Mine(k, n) /\ k \in Nat
          BY <1>7, <3>1, <3>3, <4>1 DEF Mine
        <5>2. k < n /\ n < k
          BY <1>7, <3>1, <3>3, <4>1, <5>1
        <5>3. QED
          BY <1>1, <5>1, <5>2
      <4>2. m # n
        BY <4>1
      <4>3. QED
        BY <1>3, <4>2
    <3>4. QED
      BY <1>3, <3>1, <3>2, <3>3
  <2>3. QED
    BY <2>1, <2>2
<1>11. ASSUME NEW k \in DOMAIN answers'
       PROVE  /\ Result(k)' \in {"ok"} \cup Refusals /\ answers'[k].data \in Nat
              /\ Result(k)' = "ok" <=> k \in done'
  <2>1. CASE k = n
    BY <1>1, <1>2, <1>3, <2>1
  <2>2. CASE k # n
    <3>1. /\ k \in DOMAIN answers /\ Result(k)' = Result(k) /\ answers'[k].data = answers[k].data
          /\ k \in done' <=> k \in done
      BY <1>2, <1>3, <2>2 DEF Result
    <3>2. QED
      BY <3>1 DEF IInv, AnswerInv
  <2>3. QED
    BY <2>1, <2>2
<1>12. done' \subseteq DOMAIN answers' /\ done' \subseteq Names /\ DOMAIN answers' \subseteq Names
  BY <1>1, <1>2, <1>3
<1>13. AnswerInv'
  <2>1. SUFFICES ASSUME NEW k \in DOMAIN answers'
                 PROVE  /\ k \in done' /\ Changing(k)' => Holds(k, setting[Changed(k)])'
                        /\ k \in done' /\ calls'[k].method.kind = "get" =>
                             /\ answers'[k].data \in done' \cup {0}
                             /\ \A m \in done' :
                                  /\ m < k /\ Mine(m, k)' /\ Changing(m)'
                                  /\ Changed(m)' = Reads(service', calls'[k].method.api)
                                  => Holds(m, answers[k].data)'
    BY <1>11 DEF AnswerInv
  <2>2. ASSUME k \in done', Changing(k)'
        PROVE  Holds(k, setting[Changed(k)])'
    <3>1. Changing(k) /\ Changed(k)' = Changed(k) /\ k \in Names
      BY <1>8, <1>12, <2>2
    <3>2. PICK v : v = setting'[Changed(k)]
      OBVIOUS
    <3>3. Holds(k, v)
      BY <1>9, <2>2, <3>1, <3>2
    <3>4. Holds(k, v)'
      BY <3>3 DEF Holds, Mine
    <3>5. v = setting'[Changed(k)']
      BY <3>1, <3>2
    <3>6. QED
      BY <3>4, <3>5 DEF Holds, Mine
  <2>3. ASSUME k \in done', calls'[k].method.kind = "get"
        PROVE  /\ answers'[k].data \in done' \cup {0}
               /\ \A m \in done' :
                    /\ m < k /\ Mine(m, k)' /\ Changing(m)'
                    /\ Changed(m)' = Reads(service', calls'[k].method.api)
                    => Holds(m, answers[k].data)'
    <3>1. PICK v : v = answers'[k].data
      OBVIOUS
    <3>2. /\ v \in done' \cup {0}
          /\ \A m \in done' :
               m < k /\ Mine(m, k) /\ Changing(m) /\ Changed(m) = Reads(service, calls[k].method.api)
                 => Holds(m, v)
      BY <1>10, <2>3, <3>1
    <3>3. ASSUME NEW m \in done', m < k, Mine(m, k)', Changing(m)',
                 Changed(m)' = Reads(service', calls'[k].method.api)
          PROVE  Holds(m, answers[k].data)'
      <4>1. Changing(m) /\ Changed(m) = Reads(service, calls[k].method.api) /\ Mine(m, k)
        BY <3>3 DEF Changing, Changed, Mine
      <4>2. Holds(m, v)'
        BY <3>2, <3>3, <4>1 DEF Holds, Mine
      <4>3. QED
        BY <3>1, <4>2 DEF Holds, Mine
    <3>4. QED
      BY <3>1, <3>2, <3>3
  <2>4. QED
    BY <2>2, <2>3
<1>14. QED
  BY <1>6, <1>12, <1>13

LEMMA ExecuteStep ==
  ASSUME IInv, NEW high \in BOOLEAN, Execute(high)
  PROVE  IInv'
<1>1. PICK n : n = Head(queues[FALSE])
  OBVIOUS
<1>2. /\ high = FALSE /\ queues[FALSE] # <<>> /\ queues[FALSE] \in Seq(Nat)
      /\ n \in Names /\ n \notin DOMAIN answers /\ n \in Elems(queues[FALSE])
      /\ \A k \in DOMAIN answers : Mine(k, n) => k < n
  BY <1>1, OldestRequest
<1>3. /\ UNCHANGED <<service, cvars, wire>>
      /\ queues' = [queues EXCEPT ![FALSE] = Tail(queues[FALSE])]
  BY <1>2 DEF Execute, Dequeue
<1>4. PICK code, d : Handles(n, code, d)
  BY <1>1, ExecuteHandles
<1>5. AnswerInv' /\ done' \subseteq DOMAIN answers' /\ setting' \in [Known -> done' \cup {0}]
  BY <1>2, <1>3, <1>4, HandlesAnswers DEF cvars
<1>6. /\ DOMAIN answers' = DOMAIN answers \cup {n}
      /\ \A k \in DOMAIN answers : answers'[k] = answers[k]
  BY <1>4 DEF Handles, Answers
<1>7. /\ Tail(queues[FALSE]) \in Seq(Nat)
      /\ Elems(Tail(queues[FALSE])) \subseteq Elems(queues[FALSE])
  BY <1>2, TailElems
<1>8. /\ queues' \in [BOOLEAN -> Seq(Nat)] /\ queues'[TRUE] = <<>>
      /\ queues'[FALSE] = Tail(queues[FALSE])
  BY <1>3, <1>7 DEF IInv, Types, WayInv
<1>9. Names' = Names /\ Known' = Known /\ \A e \in Clients : Own(e)' = Own(e)
  BY <1>3 DEF Names, Known, Own, cvars
<1>10. Types'
  BY <1>2, <1>3, <1>5, <1>6, <1>8, <1>9 DEF IInv, Types, cvars
<1>11. n \in OnTheWay /\ OnTheWay' \subseteq OnTheWay
  BY <1>2, <1>3, <1>7, <1>8 DEF OnTheWay
<1>12. ASSUME NEW e \in Clients
       PROVE  InOrder(wire[e], Tail(queues[FALSE]), DOMAIN answers \cup {n}, Own(e))
  <2>1. InOrder(wire[e], queues[FALSE], DOMAIN answers, Own(e)) /\ wire[e] \in Seq(Nat)
    BY DEF IInv, WayInv, Types
  <2>2. QED
    BY <1>1, <1>2, <2>1, InOrderExecute
<1>13. WayInv'
  <2>1. \A k \in OnTheWay' \cup DOMAIN answers' : calls'[k].told \notin NeverSent
    BY <1>3, <1>6, <1>11 DEF IInv, WayInv, cvars
  <2>2. OnTheWay' \subseteq Names'
    BY <1>9, <1>11 DEF IInv, WayInv
  <2>3. QED
    BY <1>3, <1>6, <1>8, <1>9, <1>12, <2>1, <2>2 DEF WayInv
<1>14. CallInv'
  <2>1. \A k \in Names : calls[k].told \in {"ok"} \cup Refusals =>
          /\ k \in DOMAIN answers' /\ Result(k)' = calls[k].told
          /\ calls[k].method.kind = "get" => answers'[k].data = calls[k].data
    BY <1>3, <1>6 DEF IInv, CallInv, Result, cvars
  <2>2. QED
    BY <1>3, <1>9, <2>1 DEF IInv, CallInv, cvars
<1>15. QED
  BY <1>5, <1>10, <1>13, <1>14 DEF IInv

-----------------------------------------------------------------------------
(* The invariant, and what it gives. *)

LEMMA InitInv ==
  ASSUME Init
  PROVE  IInv
<1>1. /\ Names = {} /\ OnTheWay = {} /\ DOMAIN answers = {}
      /\ \A c \in Clients : Elems(wire[c]) = {} /\ wire[c] = <<>>
      /\ Elems(queues[FALSE]) = {} /\ queues[FALSE] = <<>> /\ queues[TRUE] = <<>>
  BY DEF Init, Names, OnTheWay, Elems
<1>2. Types
  BY <1>1 DEF Init, Types, Known
<1>3. WayInv
  <2>1. ASSUME NEW c \in Clients
        PROVE  InOrder(wire[c], queues[FALSE], DOMAIN answers, Own(c))
    BY <1>1 DEF InOrder, IncreasingIn
  <2>2. QED
    BY <1>1, <2>1 DEF WayInv
<1>4. CallInv
  BY <1>1 DEF Init, CallInv
<1>5. AnswerInv
  BY <1>1 DEF AnswerInv
<1>6. QED
  BY <1>2, <1>3, <1>4, <1>5 DEF IInv

LEMMA StutterInv ==
  ASSUME IInv, UNCHANGED vars
  PROVE  IInv'
<1>1. /\ service' = service /\ ready' = ready /\ raised' = raised /\ calls' = calls
      /\ waiting' = waiting /\ wire' = wire /\ UNCHANGED rvars
  BY DEF vars, cvars
<1>2. Kept /\ Names' = Names /\ Known' = Known /\ OnTheWay' = OnTheWay
      /\ \A e \in Clients : Own(e)' = Own(e)
  BY <1>1 DEF Kept, Names, Known, OnTheWay, Own, rvars
<1>3. AnswerInv'
  BY <1>1, <1>2, AnswersKept DEF rvars
<1>4. Types'
  BY <1>1, <1>2 DEF IInv, Types, rvars
<1>5. WayInv'
  BY <1>1, <1>2 DEF IInv, WayInv, rvars
<1>6. CallInv'
  BY <1>1, <1>2 DEF IInv, CallInv, Result, rvars
<1>7. QED
  BY <1>3, <1>4, <1>5, <1>6 DEF IInv

LEMMA NextInv ==
  ASSUME IInv, [Next]_vars
  PROVE  IInv'
<1>1. ASSUME NEW c \in Clients, ClientStep(c) PROVE IInv'
  BY <1>1, InitClientStep, ReturnStep, TimeoutStep, InvokeStep DEF ClientStep
<1>2. ASSUME NEW c \in Clients, Arrive(c) PROVE IInv'
  BY <1>2, ArriveStep
<1>3. ASSUME NEW high \in BOOLEAN, Execute(high) PROVE IInv'
  BY <1>3, ExecuteStep
<1>4. QED
  BY <1>1, <1>2, <1>3, StutterInv DEF Next

LEMMA ServicesInvariant == Spec => []IInv
<1>1. Init => IInv
  BY InitInv
<1>2. IInv /\ [Next]_vars => IInv'
  BY NextInv
<1>3. QED
  BY <1>1, <1>2, PTL DEF Spec

\* A call whose caller was told a code was answered with it; success means that it was carried out.
LEMMA ToldTrue ==
  ASSUME IInv, NEW n \in Names
  PROVE  /\ calls[n].told = "ok" =>
              /\ n \in done /\ n \in DOMAIN answers
              /\ calls[n].method.kind = "get" => answers[n].data = calls[n].data
         /\ calls[n].told \in NeverSent \cup Refusals => n \notin done
<1>1. done \subseteq DOMAIN answers
  BY DEF IInv, Types
<1>2. ASSUME calls[n].told = "ok"
      PROVE  /\ n \in done /\ n \in DOMAIN answers
             /\ calls[n].method.kind = "get" => answers[n].data = calls[n].data
  <2>1. /\ n \in DOMAIN answers /\ Result(n) = "ok"
        /\ calls[n].method.kind = "get" => answers[n].data = calls[n].data
    BY <1>2 DEF IInv, CallInv
  <2>2. QED
    BY <2>1 DEF IInv, AnswerInv
<1>3. ASSUME calls[n].told \in Refusals
      PROVE  n \notin done
  <2>1. n \in DOMAIN answers /\ Result(n) = calls[n].told /\ calls[n].told # "ok"
    BY <1>3 DEF IInv, CallInv, Refusals
  <2>2. QED
    BY <2>1 DEF IInv, AnswerInv
<1>4. ASSUME calls[n].told \in NeverSent
      PROVE  n \notin done
  BY <1>1, <1>4 DEF IInv, WayInv
<1>5. QED
  BY <1>2, <1>3, <1>4

\* A setting that a client was told is in force stays so until a later call, or another
\* client's, changes it: whatever of its earlier calls timed out is not applied after it.
THEOREM AckedStays == Spec => []AckedWins
<1>1. ASSUME IInv, NEW n \in Names, NEW r, r = Changed(n), calls[n].told = "ok",
             r \in DOMAIN setting, Changing(n)
      PROVE  setting[r] >= n \/ (setting[r] # 0 /\ ~Mine(n, setting[r]))
  <2>1. n \in done /\ n \in DOMAIN answers
    BY <1>1, ToldTrue
  <2>2. Holds(n, setting[Changed(n)])
    BY <1>1, <2>1 DEF IInv, AnswerInv
  <2>3. QED
    BY <1>1, <2>2 DEF Holds
<1>2. IInv => AckedWins
  BY <1>1 DEF AckedWins, Changed, Changing
<1>3. QED
  BY <1>2, ServicesInvariant, PTL

\* What a caller is told is what the robot did: success is done and with the argument asked for,
\* a refusal is not, and a query reads the client's own acknowledged setting or a newer one.
THEOREM CodesTrue == Spec => []Inv
<1>1. ASSUME IInv PROVE TypeOK
  <2>1. /\ service \in Services /\ ready \subseteq Clients /\ raised \in [Clients -> {-1, 0, 1}]
        /\ waiting \in [Clients -> 0 .. Len(calls)]
        /\ done \subseteq Names /\ DOMAIN answers \subseteq Names
        /\ \A r \in DOMAIN setting : setting[r] \in done \cup {0}
    BY <1>1 DEF IInv, Types
  <2>2. \A n \in Names : calls[n].client \in Clients
    BY <1>1, ServiceMethods, CallFields
  <2>3. ASSUME NEW s \in Seq(Nat), Elems(s) \subseteq Names
        PROVE  s \in Seq(Names)
    <3>1. \A i \in 1 .. Len(s) : s[i] \in Names
      BY <2>3 DEF Elems
    <3>2. QED
      BY <3>1
  <2>4. wire \in [Clients -> Seq(Names)]
    <3>1. wire \in [Clients -> Seq(Nat)]
      BY <1>1 DEF IInv, Types
    <3>2. \A c \in Clients : wire[c] \in Seq(Names)
      BY <1>1, <2>3, <3>1, OnTheWayNames
    <3>3. QED
      BY <3>1, <3>2
  <2>5. queues \in [BOOLEAN -> Seq(Names)]
    <3>1. /\ queues \in [BOOLEAN -> Seq(Nat)] /\ queues[TRUE] = <<>>
          /\ OnTheWay \subseteq Names
      BY <1>1 DEF IInv, Types, WayInv
    <3>2. Elems(queues[FALSE]) \subseteq Names
      BY <3>1 DEF OnTheWay
    <3>3. queues[FALSE] \in Seq(Names)
      BY <2>3, <3>1, <3>2
    <3>4. queues[TRUE] \in Seq(Names)
      BY <3>1
    <3>5. QED
      BY <3>1, <3>3, <3>4
  <2>6. QED
    BY <2>1, <2>2, <2>4, <2>5 DEF TypeOK
<1>2. ASSUME IInv PROVE TruthfulCode
  <2>1. SUFFICES ASSUME NEW n \in Names
                 PROVE  /\ calls[n].told = "ok" => n \in done
                        /\ calls[n].told = "ok" /\ calls[n].method.kind \in {"set", "switch"} =>
                             \/ calls[n].sent = calls[n].method.arg
                             \/ (service = "go2 sport" /\ calls[n].method.api = 1045)
                        /\ calls[n].told \in {"unregistered", "path", "raised", "unsent",
                                             "refused", "protected", "switch"} => n \notin done
                        /\ calls[n].told = "unregistered" /\ calls[n].init =>
                             service = "go2 sport" /\ calls[n].method.api \in {1025, 1026}
                        /\ calls[n].told = "ok" /\ calls[n].method.kind = "get" =>
                             \A m \in 1 .. n - 1 :
                               /\ Mine(m, n) /\ calls[m].told = "ok"
                               /\ calls[m].method.kind \notin {"get", "version"}
                               /\ Changes(service, calls[m].method.api)
                                    = Reads(service, calls[n].method.api)
                               => \/ calls[n].data >= m
                                  \/ (calls[n].data # 0 /\ ~Mine(m, calls[n].data))
    BY DEF TruthfulCode
  <2>2. calls[n].told = "ok" => n \in done
    BY <1>2, ToldTrue
  <2>3. calls[n].told \in {"unregistered", "path", "raised", "unsent",
                          "refused", "protected", "switch"} => n \notin done
    BY <1>2, ToldTrue DEF NeverSent, Refusals
  <2>4. /\ SentAsAsked(service, calls[n].method, calls[n].sent)
        /\ calls[n].told = "unregistered" /\ calls[n].init => LeftOut(service, calls[n].method)
    BY <1>2 DEF IInv, CallInv
  <2>5. ASSUME calls[n].told = "ok", calls[n].method.kind = "get", NEW m \in 1 .. n - 1,
               Mine(m, n), calls[m].told = "ok", Changing(m),
               Changed(m) = Reads(service, calls[n].method.api)
        PROVE  Holds(m, calls[n].data)
    <3>1. n \in done /\ n \in DOMAIN answers /\ answers[n].data = calls[n].data
      BY <1>2, <2>5, ToldTrue
    <3>2. m \in Names /\ m < n
      BY <2>5 DEF Names, IInv, Types
    <3>3. m \in done
      BY <1>2, <2>5, <3>2, ToldTrue
    <3>4. Holds(m, answers[n].data)
      BY <1>2, <2>5, <3>1, <3>2, <3>3 DEF IInv, AnswerInv
    <3>5. QED
      BY <3>1, <3>4
  <2>6. calls[n].told = "ok" /\ calls[n].method.kind = "get" =>
          \A m \in 1 .. n - 1 :
            /\ Mine(m, n) /\ calls[m].told = "ok"
            /\ calls[m].method.kind \notin {"get", "version"}
            /\ Changes(service, calls[m].method.api) = Reads(service, calls[n].method.api)
            => \/ calls[n].data >= m
               \/ (calls[n].data # 0 /\ ~Mine(m, calls[n].data))
    BY <2>5 DEF Changing, Changed, Holds
  <2>7. calls[n].told = "ok" /\ calls[n].method.kind \in {"set", "switch"} =>
          \/ calls[n].sent = calls[n].method.arg
          \/ (service = "go2 sport" /\ calls[n].method.api = 1045)
    BY <2>4, Zenon DEF SentAsAsked
  <2>8. calls[n].told = "unregistered" /\ calls[n].init =>
          service = "go2 sport" /\ calls[n].method.api \in {1025, 1026}
    BY <2>4, Zenon DEF LeftOut
  <2>9. QED
    BY <2>2, <2>3, <2>6, <2>7, <2>8, Zenon
<1>3. IInv => Inv
  BY <1>1, <1>2 DEF Inv
<1>4. QED
  BY <1>3, ServicesInvariant, PTL
=============================================================================
