---------------------------- MODULE RobotServices ----------------------------
(***************************************************************************)
(* The service clients of unitree_sdk2py (go2, b2, g1, h1, comm): what     *)
(* each registers in Init, what each method sends, what it tells its       *)
(* caller, and what the robot has then done.                               *)
(*                                                                         *)
(* A method is its api id. An invocation is a record of the way it calls   *)
(* (kind), its api and its argument, which stands for the whole parameter. *)
(* The call below is that of module Rpc: the requests of a client arrive   *)
(* in order or are lost, a priority queue overtakes, and the reply may     *)
(* come after the caller has given up.                                     *)
(***************************************************************************)
EXTENDS Integers, Sequences, FiniteSets

CONSTANTS
  Services,  \* the services a run may talk to
  Clients,   \* client objects of that service
  MaxCalls   \* bound: calls made in a run

ASSUME ServicesAssumption ==
  Services \subseteq {"go2 sport", "b2 sport", "g1 loco", "h1 loco", "voice",
                      "motion_switcher", "obstacles_avoid", "go2 vui", "b2 vui",
                      "robot_state", "videohub", "front_videohub", "back_videohub"}
ASSUME BoundAssumption == MaxCalls \in Nat

Invocations(kind, apis, args) == [kind : {kind}, api : apis, arg : args]

\* _Call with an empty parameter; with the argument; for a value that is
\* returned; _CallNoReply; a wrapper that returns nothing; _CallBase beside the
\* registrations.
Commands(apis) == Invocations("set", apis, {0})
Settings(apis) == Invocations("set", apis, {0, 1})
Queries(apis) == Invocations("get", apis, {0})
Streams(apis) == Invocations("stream", apis, {0, 1})
Wrapped(apis, args) == Invocations("wrapped", apis, args)
Version == Invocations("version", {1}, {0})

\* TrajectoryFollow takes a path of SPORT_PATH_POINT_SIZE points.
SPORT_PATH_POINT_SIZE == 30
Paths == Invocations("stream", {1018}, {SPORT_PATH_POINT_SIZE - 1, SPORT_PATH_POINT_SIZE})
-----------------------------------------------------------------------------
(* The clients of the two quadrupeds *)

Go2Registered ==
  (1001 .. 1019) \cup (1021 .. 1023) \cup (1027 .. 1036) \cup {1042} \cup (1044 .. 1051)

Go2Basic ==
  Commands((1001 .. 1006) \cup {1009, 1010, 1012, 1016, 1017})
    \cup Settings({1007, 1011, 1013, 1014, 1015}) \cup Streams({1008})

Go2Performing ==
  Commands((1021 .. 1023) \cup (1029 .. 1033)) \cup Settings({1019, 1027, 1028})
    \cup Queries({1025, 1026, 1034}) \cup Paths

Go2Modes ==
  Commands({1036, 1042, 1044}) \cup Settings({1035} \cup (1045 .. 1051))

B2Registered ==
  (1001 .. 1009) \cup {1011, 1013, 1014, 1015, 1018, 1019, 1028, 1031} \cup (1035 .. 1038)

B2Basic ==
  Commands((1001 .. 1006) \cup {1009})
    \cup Settings({1007, 1011, 1013, 1014, 1015}) \cup Streams({1008})

B2Modes ==
  Commands({1031}) \cup Settings({1019, 1028} \cup (1035 .. 1038)) \cup Paths
-----------------------------------------------------------------------------
(* The clients of the two humanoids *)

G1Registered == (7001 .. 7006) \cup (7101 .. 7106)

\* The setters answer with a code; the named postures, stand heights, moves
\* and gestures call them with constants and return nothing.  ShakeHand without
\* a stage returns what SetTaskId returns.
G1Setters == Settings({7101, 7102, 7104, 7105, 7106}) \cup Invocations("shake", {7106}, {-1})

FsmIds == {0, 1, 3, 200, 702, 706}
G1Wrappers ==
  Wrapped({7101}, FsmIds) \cup Wrapped({7102, 7104, 7105, 7106}, {0, 1})
    \cup Invocations("shake", {7106}, {0, 1})

H1Registered == (8001 .. 8006) \cup (8101 .. 8105)

H1Loco ==
  Settings({8101, 8104, 8105}) \cup Wrapped({8101}, {0, 1, 2, 204})
    \cup Wrapped({8104, 8105}, {0, 1})

AudioRegistered == (1001 .. 1006) \cup {1010}

\* TtsMaker adds its index to itself: it starts at 0 and stays there.
TtsIndex == 0
Audio == Invocations("set", {1001}, {TtsIndex}) \cup Queries({1005}) \cup Settings({1006, 1010})
-----------------------------------------------------------------------------
(* The services that every robot has *)

MotionSwitcher == Queries({1001}) \cup Settings({1002}) \cup Commands({1003})

ObstaclesAvoid == Settings({1001, 1004}) \cup Queries({1002}) \cup Streams({1003})

Vui == Settings({1001, 1003, 1005}) \cup Queries({1002, 1004, 1006})
B2Vui == Settings({1001, 1003, 1005}) \cup Queries({1002, 1004, 1006})

\* SetReportFreq passes the dictionary itself, which cannot be serialised.
RobotState ==
  Queries({1003}) \cup Invocations("switch", {1001}, {0, 1})
    \cup Invocations("unserialisable", {1002}, {0})

Video == Queries({1001})
FrontVideo == Queries({1001})
BackVideo == Queries({1001})
-----------------------------------------------------------------------------
Methods(service) ==
  CASE service = "go2 sport" -> Go2Basic \cup Go2Performing \cup Go2Modes
    [] service = "b2 sport" -> B2Basic \cup B2Modes
    [] service = "g1 loco" -> G1Setters \cup G1Wrappers
    [] service = "h1 loco" -> H1Loco
    [] service = "voice" -> Audio
    [] service = "motion_switcher" -> MotionSwitcher
    [] service = "obstacles_avoid" -> ObstaclesAvoid
    [] service = "go2 vui" -> Vui
    [] service = "b2 vui" -> B2Vui
    [] service = "robot_state" -> RobotState
    [] service = "videohub" -> Video
    [] service = "front_videohub" -> FrontVideo
    [] service = "back_videohub" -> BackVideo

Registered(service) ==
  CASE service = "go2 sport" -> Go2Registered
    [] service = "b2 sport" -> B2Registered
    [] service = "g1 loco" -> G1Registered
    [] service = "h1 loco" -> H1Registered
    [] service = "voice" -> AudioRegistered
    [] service = "motion_switcher" -> 1001 .. 1005
    [] service = "obstacles_avoid" -> 1001 .. 1004
    [] service \in {"go2 vui", "b2 vui"} -> 1001 .. 1006
    [] service = "robot_state" -> 1001 .. 1003
    [] OTHER -> {1001}

\* Every Init registers every api with priority 0.
Mut_StopFirst(service, api) == IF service = "go2 sport" /\ api = 1003 THEN 1 ELSE 0
Priority(service, api) == 0

\* What an api changes in the robot: the moves and their stop steer one
\* velocity, selecting and releasing a mode one mode.
Changes(service, api) ==
  IF service \in {"go2 sport", "b2 sport"} /\ api \in {1003, 1008, 1018} THEN 1008
  ELSE IF service = "motion_switcher" /\ api = 1003 THEN 1002 ELSE api

\* The setting that a query reads.
Reads(service, api) ==
  CASE service = "go2 sport" /\ api = 1025 -> 1014
    [] service = "go2 sport" /\ api = 1026 -> 1015
    [] service = "voice" /\ api = 1005 -> 1006
    [] service = "motion_switcher" /\ api = 1001 -> 1002
    [] service = "obstacles_avoid" /\ api = 1002 -> 1001
    [] service \in {"go2 vui", "b2 vui"} -> api - 1
    [] service = "robot_state" /\ api = 1003 -> 1001
    [] OTHER -> api
-----------------------------------------------------------------------------
VARIABLES
  service,  \* the service of this run
  ready,    \* the clients whose Init has run
  raised,   \* first_shake_hand_stage_ of each client: -1, 0 or 1
  calls,    \* every call: who, what, what it was told and what it read
  waiting,  \* the call each client waits for, or 0
  wire,     \* each client's requests on their way
  queues,   \* the two queues of the service's server
  done,     \* the calls that the robot has carried out
  answers,  \* the answers given: call -> [code, data]
  setting   \* the call that last changed each setting, or 0

cvars == <<ready, raised, calls, waiting>>
rvars == <<queues, done, answers, setting>>
vars == <<service, cvars, wire, rvars>>

Names == 1 .. Len(calls)
Apis(s) == {m.api : m \in Methods(s)}

Init ==
  /\ service \in Services
  /\ ready = {} /\ raised = [c \in Clients |-> -1]
  /\ calls = <<>> /\ waiting = [c \in Clients |-> 0]
  /\ wire = [c \in Clients |-> <<>>]
  /\ queues = [priority \in BOOLEAN |-> <<>>]
  /\ done = {} /\ answers = <<>>
  /\ setting = [r \in {Changes(service, api) : api \in Apis(service)} |-> 0]

InitClient(c) ==
  /\ ready' = ready \cup {c}
  /\ UNCHANGED <<service, raised, calls, waiting, wire, rvars>>

\* Client.__CheckApi: 3103 for an api that Init has not registered.
CheckApi(c, m) == m.kind = "version" \/ (c \in ready /\ m.api \in Registered(service))

\* The parameter that is sent: FreeWalk sends True whatever its flag, and a
\* ShakeHand without a stage the other one than the last.
Stage(c, m) == IF m.arg # -1 THEN m.arg ELSE IF raised[c] = 0 THEN 1 ELSE 0
Sent(c, m) ==
  IF m.kind = "shake" THEN 2 + Stage(c, m)
  ELSE IF service = "go2 sport" /\ m.api = 1045 THEN 1 ELSE m.arg

\* What the caller of a method learns of a code: a wrapper has no return value.
Wraps(m) == m.kind = "wrapped" \/ (m.kind = "shake" /\ m.arg # -1)
Learns(m, code) == IF Wraps(m) THEN "nothing" ELSE code

\* What a method answers before anything is sent.
Refusal(c, m) ==
  IF m.api = 1018 /\ m.arg = SPORT_PATH_POINT_SIZE - 1 THEN "path"
  ELSE IF ~CheckApi(c, m) THEN "unregistered" ELSE "none"

Record(c, m, told) ==
  calls' = Append(calls, [client |-> c, method |-> m, sent |-> Sent(c, m),
                          init |-> c \in ready, told |-> told, data |-> 0])

\* An application calls a method.  ShakeHand changes its stage first.
Invoke(c, m) ==
  /\ waiting[c] = 0 /\ Len(calls) < MaxCalls
  /\ raised' = IF m.kind = "shake" THEN [raised EXCEPT ![c] = Stage(c, m)] ELSE raised
  /\ IF Refusal(c, m) # "none"
     THEN Record(c, m, Learns(m, Refusal(c, m))) /\ UNCHANGED <<waiting, wire>>
     ELSE \/ m.kind = "unserialisable" /\ Record(c, m, "raised") /\ UNCHANGED <<waiting, wire>>
          \/ /\ m.kind # "unserialisable"
             /\ Record(c, m, IF m.kind = "stream" THEN "sent" ELSE "none")
             /\ wire' = [wire EXCEPT ![c] = Append(@, Len(calls) + 1)]
             /\ waiting' = IF m.kind = "stream" THEN waiting
                           ELSE [waiting EXCEPT ![c] = Len(calls) + 1]
          \/ Record(c, m, Learns(m, "unsent")) /\ UNCHANGED <<waiting, wire>>  \* 3102: no server
  /\ UNCHANGED <<service, ready, rvars>>

\* ServiceSwitch looks at the code and not at the status.
Mut_AnyStatus(m, answer) == answer.code

\* The code of ServiceSwitch: a reply without error carries a status, of which
\* 0 and 1 are a success, 5 is 5202 and any other 5201.
SwitchCode(m, answer) ==
  IF m.kind # "switch" \/ answer.code # "ok" THEN answer.code
  ELSE IF answer.data = 5 THEN "protected"
  ELSE IF answer.data \notin {0, 1} THEN "switch" ELSE "ok"

\* The reply arrives: the method tells its caller, and a query what it read.
Return(c) ==
  LET n == waiting[c]
      m == calls[n].method
      answer == answers[n]
  IN  /\ n # 0 /\ n \in DOMAIN answers
      /\ calls' = [calls EXCEPT ![n].told = Learns(m, SwitchCode(m, answer)),
                                ![n].data = IF m.kind = "get" THEN answer.data ELSE 0]
      /\ waiting' = [waiting EXCEPT ![c] = 0]
      /\ UNCHANGED <<service, ready, raised, wire, rvars>>

Timeout(c) ==
  LET n == waiting[c]
  IN  /\ n # 0
      /\ calls' = [calls EXCEPT ![n].told = Learns(calls[n].method, "timeout")]
      /\ waiting' = [waiting EXCEPT ![c] = 0]
      /\ UNCHANGED <<service, ready, raised, wire, rvars>>

ClientStep(c) ==
  \/ InitClient(c) \/ Return(c) \/ Timeout(c)
  \/ \E m \in Methods(service) \cup Version : Invoke(c, m)
-----------------------------------------------------------------------------
(* The service, which is the robot's own program *)

Arrive(c) ==
  /\ wire[c] # <<>>
  /\ wire' = [wire EXCEPT ![c] = Tail(@)]
  /\ LET n == Head(wire[c])
         high == Priority(service, calls[n].method.api) > 0
     IN  \/ queues' = [queues EXCEPT ![high] = Append(@, n)]
         \/ UNCHANGED queues  \* lost on the way, or pushed out of a full queue
  /\ UNCHANGED <<service, cvars, done, answers, setting>>

Answer(n, code, data) ==
  answers' = [i \in DOMAIN answers \cup {n} |->
                IF i = n THEN [code |-> code, data |-> data] ELSE answers[i]]

Dequeue(high) == queues[high] # <<>> /\ queues' = [queues EXCEPT ![high] = Tail(@)]

\* The status of a service that was switched, is protected, or was not.
Statuses == {0, 1}
Failures == {2, 5}

\* The handler of the oldest request runs; it may refuse.
Execute(high) ==
  /\ Dequeue(high)
  /\ LET n == Head(queues[high])
         m == calls[n].method
     IN  \/ /\ m.kind \in {"get", "version"}
            /\ done' = done \cup {n} /\ UNCHANGED setting
            /\ Answer(n, "ok", IF Reads(service, m.api) \in DOMAIN setting
                               THEN setting[Reads(service, m.api)] ELSE 0)
         \/ /\ m.kind \notin {"get", "version"}
            /\ done' = done \cup {n}
            /\ setting' = [setting EXCEPT ![Changes(service, m.api)] = n]
            /\ \E status \in IF m.kind = "switch" THEN Statuses ELSE {0} : Answer(n, "ok", status)
         \/ /\ m.kind # "version"
            /\ UNCHANGED <<done, setting>>
            /\ \/ Answer(n, "refused", 0)
               \/ m.kind = "switch" /\ \E status \in Failures : Answer(n, "ok", status)
  /\ UNCHANGED <<service, cvars, wire>>

Next ==
  \/ \E c \in Clients : ClientStep(c) \/ Arrive(c)
  \/ \E high \in BOOLEAN : Execute(high)

Spec == Init /\ [][Next]_vars
-----------------------------------------------------------------------------
TypeOK ==
  /\ service \in Services /\ ready \subseteq Clients
  /\ raised \in [Clients -> {-1, 0, 1}]
  /\ \A n \in Names : calls[n].client \in Clients
  /\ waiting \in [Clients -> 0 .. Len(calls)]
  /\ wire \in [Clients -> Seq(Names)] /\ queues \in [BOOLEAN -> Seq(Names)]
  /\ done \subseteq Names /\ DOMAIN answers \subseteq Names
  /\ \A r \in DOMAIN setting : setting[r] \in done \cup {0}

Mine(n, m) == calls[n].client = calls[m].client

\* What a client was told is done stays in force until a later call of it, or
\* one of another client, changes it: a slow move never comes after the stop
\* that was acknowledged, and an old value never after a new one, whichever
\* calls timed out in between.
AckedWins ==
  \A n \in Names : LET r == Changes(service, calls[n].method.api) IN
    calls[n].told = "ok" /\ r \in DOMAIN setting
        /\ calls[n].method.kind \notin {"get", "version"} =>
      \/ setting[r] >= n
      \/ setting[r] # 0 /\ ~Mine(n, setting[r])

\* A code is true: success means that the robot has done it, and with the
\* argument of the call except for FreeWalk; a refusal that it never will; and
\* a query reads the client's own last acknowledged setting or a newer one.
TruthfulCode ==
  \A n \in Names : LET call == calls[n] IN
    /\ call.told = "ok" => n \in done
    /\ call.told = "ok" /\ call.method.kind \in {"set", "switch"} =>
         call.sent = call.method.arg \/ (service = "go2 sport" /\ call.method.api = 1045)
    /\ call.told \in {"unregistered", "path", "raised", "unsent", "refused",
                      "protected", "switch"} => n \notin done
    /\ call.told = "unregistered" /\ call.init =>
         service = "go2 sport" /\ call.method.api \in {1025, 1026}
    /\ call.told = "ok" /\ call.method.kind = "get" =>
         \A m \in 1 .. n - 1 :
           /\ Mine(m, n) /\ calls[m].told = "ok"
           /\ calls[m].method.kind \notin {"get", "version"}
           /\ Changes(service, calls[m].method.api) = Reads(service, call.method.api)
           => call.data >= m \/ (call.data # 0 /\ ~Mine(m, call.data))

Inv == TypeOK /\ TruthfulCode
=============================================================================
