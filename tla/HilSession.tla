----------------------------- MODULE HilSession -----------------------------
(***************************************************************************)
(* The hardware-in-the-loop session: MuJoCo control clients                *)
(* (scripts/mujoco_hil_client.py, scripts/hil_protocol.py) and the NPU     *)
(* server (inference/src/hil_server.cpp) over TCP.                         *)
(*                                                                         *)
(* Bytes are abstracted to parts: a packet is a header part and a body     *)
(* part, written and read in order, so that a packet can be half written   *)
(* or half read when a peer stops, closes or times out.  A float vector is *)
(* abstracted to the observation (client, control tick) it was built from. *)
(***************************************************************************)
EXTENDS Integers, Sequences

CONSTANTS
  Clients,       \* client processes that are run against this server
  NoClient,      \* "no accepted socket yet"
  Steps,         \* --steps of each client, which are started apart
  MaxSteps,      \* max_steps of the server, 0 for no limit
  History,       \* frames in the decoder history (10 in the code)
  MaxSequence,   \* largest value of the unsigned sequence field (2^32 - 1)
  SocketBuffer,  \* parts that a kernel socket buffer holds in one direction
  Backlog,       \* argument of listen() (1 in the code)
  Faults         \* what the environment may do, a subset of FaultKinds

FaultKinds == {"npu", "nonfinite", "physics", "late", "crash", "silent"}

ASSUME ClientsAssumption == NoClient \notin Clients
ASSUME StepsAssumption == /\ Steps \in [Clients -> Nat \ {0}]
                          /\ MaxSteps \in Nat /\ MaxSequence \in Nat
ASSUME SizesAssumption == /\ History \in Nat \ {0}
                          /\ SocketBuffer \in Nat \ {0}
                          /\ Backlog \in Nat
ASSUME FaultsAssumption == Faults \subseteq FaultKinds

VARIABLES
  \* main() of each client
  cpc,           \* where the client is
  cause,         \* why it left main(), "none" while it runs
  step,          \* control ticks whose physics is done
  sequence,      \* the request counter
  history,       \* the History newest state frames
  lastAction,    \* last_action
  outbuf,        \* parts of the request that sendall has not handed over
  inbuf,         \* parts of the response that recv_full has collected
  \* main() of the server
  spc,           \* where the server is
  conn,          \* the accepted client
  steps,         \* steps
  requestHeader, \* request_header
  request,       \* the request vector, kept across iterations
  decoderInput,  \* the decoder_input vector, kept across iterations
  response,      \* parts of response_packet that write_full has not handed over
  \* the kernels and the network
  up,            \* parts on their way from each client
  down,          \* parts on their way to each client
  backlog        \* connected clients that are not accepted yet

cvars == <<cpc, cause, step, sequence, history, lastAction, outbuf, inbuf>>
svars == <<spc, conn, steps, requestHeader, request, decoderInput, response>>
nvars == <<up, down, backlog>>
vars == <<cvars, svars, nvars>>
-----------------------------------------------------------------------------
(* Data *)

Blank == [client |-> NoClient, tick |-> 0]
Observations == [client : Clients \cup {NoClient}, tick : Nat]
Actions == [enc : Observations, dec : Observations, finite : BOOLEAN]

\* np.zeros(29): the action before the first tick.
ZeroAction == [enc |-> Blank, dec |-> Blank, finite |-> TRUE]
\* np.zeros(93): the frames that pad the history before the first ticks.
ZeroFrame == [tick |-> 0, prev |-> ZeroAction]
Frames == [tick : Nat, prev : Actions]

Header(type, n, status) ==
  [part |-> "header", type |-> type, sequence |-> n, status |-> status]
RequestBody(enc, dec) == [part |-> "request body", enc |-> enc, dec |-> dec]
ResponseBody(action) == [part |-> "response body", action |-> action]

Headers == [part : {"header"}, type : {"request", "response"},
            sequence : Nat, status : {0}]
RequestBodies == [part : {"request body"}, enc : Observations, dec : Observations]
ResponseBodies == [part : {"response body"}, action : Actions]
Parts == Headers \cup RequestBodies \cup ResponseBodies

\* pack_request: the header and the two observation vectors of one tick.
PackRequest(n, enc, dec) == <<Header("request", n, 0), RequestBody(enc, dec)>>

IsHeader(part, type) == part.part = "header" /\ part.type = type

\* history.pop(0); history.append(state)
Mut_PopNewest(frames, frame) == Append(SubSeq(frames, 1, Len(frames) - 1), frame)
PushFrame(frames, frame) == Append(Tail(frames), frame)
-----------------------------------------------------------------------------
(* The life of the sockets *)

ClientRunning == {"connect", "observe", "send", "recv", "apply"}
ClientStates == ClientRunning \cup {"done", "failed", "lost"}
Causes == {"none", "finished", "refused", "timeout", "peer", "pack",
           "reply", "nonfinite", "physics", "crash"}
ServerServing == {"header", "body", "encode", "decode", "write"}
ServerStates == {"load", "accept", "exit0", "exit1", "killed", "lost"} \cup ServerServing

\* The kernel of a process that ended has closed its sockets.  A host that
\* was lost (power, cable) closes nothing.
ClientClosed(c) == cpc[c] \in {"done", "failed"}
ServerClosed == spc \in {"exit0", "exit1", "killed"}
Listening == spc \in {"accept"} \cup ServerServing

\* A close with unread input resets the connection: of what is on its way to
\* the other side some prefix still arrives.
Surviving(stream) == {SubSeq(stream, 1, k) : k \in 0 .. Len(stream)}

CloseClient(c) ==
  /\ down' = [down EXCEPT ![c] = <<>>]
  /\ \E rest \in IF down[c] = <<>> THEN {up[c]} ELSE Surviving(up[c]) :
       up' = [up EXCEPT ![c] = rest]
  /\ UNCHANGED backlog

CloseServer ==
  /\ up' = [c \in Clients |-> <<>>]
  /\ IF conn \in Clients /\ up[conn] # <<>>
     THEN \E rest \in Surviving(down[conn]) : down' = [down EXCEPT ![conn] = rest]
     ELSE UNCHANGED down
  /\ backlog' = <<>>
-----------------------------------------------------------------------------
(* The client: mujoco_hil_client.main *)

\* Leaving main(), by its end or by an exception: the with statement closes
\* the socket and the locals are gone.
Leave(c, how, why) ==
  /\ cpc' = [cpc EXCEPT ![c] = how]
  /\ cause' = [cause EXCEPT ![c] = why]
  /\ outbuf' = [outbuf EXCEPT ![c] = <<>>]
  /\ inbuf' = [inbuf EXCEPT ![c] = <<>>]
  /\ CloseClient(c)
  /\ UNCHANGED svars

Fail(c, why) ==
  /\ Leave(c, "failed", why)
  /\ UNCHANGED <<step, sequence, history, lastAction>>

\* Linux queues one connection more than the backlog that listen() names.
Connect(c) ==
  /\ cpc[c] = "connect"
  /\ Listening
  /\ Len(backlog) <= Backlog
  /\ backlog' = Append(backlog, c)
  /\ cpc' = [cpc EXCEPT ![c] = "observe"]
  /\ UNCHANGED <<cause, step, sequence, history, lastAction, outbuf, inbuf, svars, up, down>>

ConnectRefused(c) ==
  /\ cpc[c] = "connect"
  /\ ~Listening /\ spc # "lost"
  /\ Fail(c, "refused")

ConnectTimeout(c) ==
  /\ cpc[c] = "connect"
  /\ spc = "lost" \/ (Listening /\ Len(backlog) > Backlog)
  /\ Fail(c, "timeout")

\* The next frame of the history is the state at this tick with the action
\* that led to it; the request carries the window that ends with it.
NextFrame(c) == [tick |-> step[c] + 1, prev |-> lastAction[c]]
Observation(c) == [client |-> c, tick |-> step[c] + 1]

Observe(c) ==
  /\ cpc[c] = "observe"
  /\ step[c] < Steps[c]
  /\ sequence[c] < MaxSequence
  /\ history' = [history EXCEPT ![c] = PushFrame(@, NextFrame(c))]
  /\ sequence' = [sequence EXCEPT ![c] = @ + 1]
  /\ outbuf' = [outbuf EXCEPT ![c] =
                 PackRequest(sequence[c] + 1, Observation(c), Observation(c))]
  /\ cpc' = [cpc EXCEPT ![c] = "send"]
  /\ UNCHANGED <<cause, step, lastAction, inbuf, svars, nvars>>

\* struct.pack of "I" raises when the counter no longer fits.
SequenceOverflow(c) ==
  /\ cpc[c] = "observe"
  /\ step[c] < Steps[c]
  /\ sequence[c] >= MaxSequence
  /\ history' = [history EXCEPT ![c] = PushFrame(@, NextFrame(c))]
  /\ sequence' = [sequence EXCEPT ![c] = @ + 1]
  /\ Leave(c, "failed", "pack")
  /\ UNCHANGED <<step, lastAction>>

\* sendall: hand one more part to the kernel.  The kernel still takes data
\* after the peer has closed, until the reset arrives.
Send(c) ==
  /\ cpc[c] = "send"
  /\ outbuf[c] # <<>>
  /\ \/ ServerClosed /\ UNCHANGED up
     \/ /\ ~ServerClosed
        /\ Len(up[c]) < SocketBuffer
        /\ up' = [up EXCEPT ![c] = Append(@, Head(outbuf[c]))]
  /\ outbuf' = [outbuf EXCEPT ![c] = Tail(@)]
  /\ cpc' = [cpc EXCEPT ![c] = IF Len(outbuf[c]) = 1 THEN "recv" ELSE @]
  /\ UNCHANGED <<cause, step, sequence, history, lastAction, inbuf, svars, down, backlog>>

SendFails(c) ==
  /\ cpc[c] = "send"
  /\ ServerClosed
  /\ Fail(c, "peer")

\* recv_full: collect one more part of the fixed-size response.
Recv(c) ==
  /\ cpc[c] = "recv"
  /\ down[c] # <<>>
  /\ inbuf' = [inbuf EXCEPT ![c] = Append(@, Head(down[c]))]
  /\ down' = [down EXCEPT ![c] = Tail(@)]
  /\ cpc' = [cpc EXCEPT ![c] = IF Len(inbuf[c]) = 1 THEN "apply" ELSE @]
  /\ UNCHANGED <<cause, step, sequence, history, lastAction, outbuf, svars, up, backlog>>

RecvFails(c) ==
  /\ cpc[c] = "recv"
  /\ down[c] = <<>>
  /\ ServerClosed
  /\ Fail(c, "peer")

\* The 10 s socket timeout.  Without the fault "late" the NPU and the network
\* answer the accepted client in time.
Mut_NoTimeout(c) == FALSE
Late(c) == "late" \in Faults \/ spc = "lost" \/ conn \notin {c, NoClient}

Mut_RetryAfterTimeout(c) ==
  /\ cpc[c] = "recv" /\ down[c] = <<>>
  /\ Late(c)
  /\ cpc' = [cpc EXCEPT ![c] = "observe"]
  /\ UNCHANGED <<cause, step, sequence, history, lastAction, outbuf, inbuf, svars, nvars>>
SocketTimeout(c) ==
  /\ ~ServerClosed  \* a closed peer answers at once
  /\ \/ cpc[c] = "recv" /\ down[c] = <<>>
     \/ cpc[c] = "send" /\ Len(up[c]) >= SocketBuffer
  /\ Late(c)
  /\ Fail(c, "timeout")

\* unpack_response and the test of main(): the right type, sequence, status.
ReplyMatches(c) ==
  /\ IsHeader(inbuf[c][1], "response")
  /\ inbuf[c][1].sequence = sequence[c]
  /\ inbuf[c][1].status = 0

Reply(c) == inbuf[c][2].action

\* Clip, remember and apply the action through the PD substeps.
Apply(c) ==
  /\ cpc[c] = "apply"
  /\ IF ~ReplyMatches(c) THEN Fail(c, "reply")
     ELSE IF ~Reply(c).finite THEN Fail(c, "nonfinite")
     ELSE /\ lastAction' = [lastAction EXCEPT ![c] = Reply(c)]
          /\ step' = [step EXCEPT ![c] = @ + 1]
          /\ inbuf' = [inbuf EXCEPT ![c] = <<>>]
          /\ cpc' = [cpc EXCEPT ![c] = "observe"]
          /\ UNCHANGED <<cause, sequence, history, outbuf, svars, nvars>>

\* qpos or qvel became non-finite in a substep: last_action is already set.
PhysicsDiverges(c) ==
  /\ "physics" \in Faults
  /\ cpc[c] = "apply"
  /\ ReplyMatches(c)
  /\ Reply(c).finite
  /\ lastAction' = [lastAction EXCEPT ![c] = Reply(c)]
  /\ Leave(c, "failed", "physics")
  /\ UNCHANGED <<step, sequence, history>>

Finish(c) ==
  /\ cpc[c] = "observe"
  /\ step[c] = Steps[c]
  /\ Leave(c, "done", "finished")
  /\ UNCHANGED <<step, sequence, history, lastAction>>

ClientStep(c) ==
  \/ Connect(c) \/ ConnectRefused(c) \/ ConnectTimeout(c)
  \/ Observe(c) \/ SequenceOverflow(c)
  \/ Send(c) \/ SendFails(c)
  \/ Recv(c) \/ RecvFails(c) \/ SocketTimeout(c)
  \/ Apply(c) \/ PhysicsDiverges(c)
  \/ Finish(c)

\* Ctrl-C or a kill: the process ends and its kernel closes the socket.
ClientCrash(c) ==
  /\ "crash" \in Faults
  /\ cpc[c] \in ClientRunning
  /\ Fail(c, "crash")

\* The host disappears and closes nothing.
ClientLost(c) ==
  /\ "silent" \in Faults
  /\ cpc[c] \in ClientRunning
  /\ cpc' = [cpc EXCEPT ![c] = "lost"]
  /\ UNCHANGED <<cause, step, sequence, history, lastAction, outbuf, inbuf, svars, nvars>>
-----------------------------------------------------------------------------
(* The server: main of hil_server.cpp *)

\* Return or exception: both sockets are closed, queued connections reset.
Exit(how) ==
  /\ spc' = how
  /\ CloseServer
  /\ UNCHANGED <<conn, steps, requestHeader, request, decoderInput, response, cvars>>

\* The two Model constructors and make_server_socket.
Load ==
  /\ spc = "load"
  /\ spc' = "accept"
  /\ UNCHANGED <<conn, steps, requestHeader, request, decoderInput, response, cvars, nvars>>

\* The loop condition of main(), for the value of steps that it would read.
Mut_OneStepMore(n) == MaxSteps = 0 \/ n <= MaxSteps
Mut_ZeroIsALimit(n) == n < MaxSteps
BudgetLeft(n) == MaxSteps = 0 \/ n < MaxSteps

Accept ==
  /\ spc = "accept"
  /\ backlog # <<>>
  /\ conn' = Head(backlog)
  /\ backlog' = Tail(backlog)
  /\ spc' = "header"
  /\ UNCHANGED <<steps, requestHeader, request, decoderInput, response, cvars, up, down>>

\* read_full of the header and the test of magic, version and type.
ReadHeader ==
  /\ spc = "header"
  /\ up[conn] # <<>>
  /\ IF ~IsHeader(Head(up[conn]), "request") THEN Exit("exit1")
     ELSE /\ requestHeader' = Head(up[conn])
          /\ up' = [up EXCEPT ![conn] = Tail(@)]
          /\ spc' = "body"
          /\ UNCHANGED <<conn, steps, request, decoderInput, response, cvars, down, backlog>>

\* read_full of the two observation vectors.
ReadBody ==
  /\ spc = "body"
  /\ up[conn] # <<>>
  /\ request' = Head(up[conn])
  /\ up' = [up EXCEPT ![conn] = Tail(@)]
  /\ spc' = "encode"
  /\ UNCHANGED <<conn, steps, requestHeader, decoderInput, response, cvars, down, backlog>>

Mut_AcceptAgain ==
  /\ spc \in {"header", "body"}
  /\ up[conn] = <<>>
  /\ ClientClosed(conn)
  /\ spc' = "accept"
  /\ UNCHANGED <<conn, steps, requestHeader, request, decoderInput, response, cvars, nvars>>
Mut_IgnoreEndOfStream ==
  /\ spc = "body"
  /\ up[conn] = <<>>
  /\ ClientClosed(conn)
  /\ Exit("exit1")
\* recv returned 0 or an error.
PeerClosed ==
  /\ spc \in {"header", "body"}
  /\ up[conn] = <<>>
  /\ ClientClosed(conn)
  /\ Exit("exit1")

\* Unacknowledged data to a host that was lost: retransmission gives up and
\* recv returns an error.  Without such data recv waits for ever.
PeerUnreachable ==
  /\ spc \in {"header", "body"}
  /\ up[conn] = <<>> /\ down[conn] # <<>>
  /\ cpc[conn] = "lost"
  /\ Exit("exit1")

\* The two memcpy into decoder_input: all of the context, then the token over
\* its first elements.
Mut_StaleContext == [token |-> request.enc, context |-> decoderInput.context]
AssembledInput == [token |-> request.enc, context |-> request.dec]

\* encoder.run and the assembly of the decoder input.
Encode ==
  /\ spc = "encode"
  /\ decoderInput' = AssembledInput
  /\ spc' = "decode"
  /\ UNCHANGED <<conn, steps, requestHeader, request, response, cvars, nvars>>

Mut_HeaderFromCounter == Header("response", steps, 0)
ResponseHeader == Header("response", requestHeader.sequence, 0)

\* decoder.run and the response packet.
Decode ==
  /\ spc = "decode"
  /\ \E finite \in IF "nonfinite" \in Faults THEN BOOLEAN ELSE {TRUE} :
       response' = <<ResponseHeader,
                     ResponseBody([enc |-> decoderInput.token,
                                   dec |-> decoderInput.context,
                                   finite |-> finite])>>
  /\ spc' = "write"
  /\ UNCHANGED <<conn, steps, requestHeader, request, decoderInput, cvars, nvars>>

\* An rknn call failed: Model::Model before listen, Model::run afterwards.
NpuFails ==
  /\ "npu" \in Faults
  /\ spc \in {"load", "encode", "decode"}
  /\ Exit("exit1")

\* write_full: hand one more part to the kernel.
Write ==
  /\ spc = "write"
  /\ response # <<>>
  /\ \/ ClientClosed(conn) /\ UNCHANGED down
     \/ /\ ~ClientClosed(conn)
        /\ Len(down[conn]) < SocketBuffer
        /\ down' = [down EXCEPT ![conn] = Append(@, Head(response))]
  /\ response' = Tail(response)
  /\ UNCHANGED <<spc, conn, steps, requestHeader, request, decoderInput, cvars, up, backlog>>

WriteFails ==
  /\ spc = "write"
  /\ response # <<>>
  /\ ClientClosed(conn)
  /\ Exit("exit1")

\* ++steps and back to the loop condition.
NextIteration ==
  /\ spc = "write"
  /\ response = <<>>
  /\ BudgetLeft(steps + 1)
  /\ steps' = steps + 1
  /\ spc' = "header"
  /\ UNCHANGED <<conn, requestHeader, request, decoderInput, response, cvars, nvars>>

\* ++steps reached max_steps: close both sockets and return 0.
BudgetSpent ==
  /\ spc = "write"
  /\ response = <<>>
  /\ ~BudgetLeft(steps + 1)
  /\ steps' = steps + 1
  /\ spc' = "exit0"
  /\ CloseServer
  /\ UNCHANGED <<conn, requestHeader, request, decoderInput, response, cvars>>

ServerStep ==
  \/ Load \/ Accept \/ ReadHeader \/ ReadBody \/ PeerClosed \/ PeerUnreachable
  \/ Encode \/ Decode \/ NpuFails \/ Write \/ WriteFails
  \/ NextIteration \/ BudgetSpent

ServerCrash ==
  /\ "crash" \in Faults
  /\ spc \in {"load", "accept"} \cup ServerServing
  /\ Exit("killed")

ServerLost ==
  /\ "silent" \in Faults
  /\ spc \in {"load", "accept"} \cup ServerServing
  /\ spc' = "lost"
  /\ UNCHANGED <<conn, steps, requestHeader, request, decoderInput, response, cvars, nvars>>
-----------------------------------------------------------------------------
Init ==
  /\ cpc = [c \in Clients |-> "connect"]
  /\ cause = [c \in Clients |-> "none"]
  /\ step = [c \in Clients |-> 0]
  /\ sequence = [c \in Clients |-> 0]
  /\ history = [c \in Clients |-> [i \in 1 .. History |-> ZeroFrame]]
  /\ lastAction = [c \in Clients |-> ZeroAction]
  /\ outbuf = [c \in Clients |-> <<>>]
  /\ inbuf = [c \in Clients |-> <<>>]
  /\ spc = "load"
  /\ conn = NoClient
  /\ steps = 0
  /\ requestHeader = Header("request", 0, 0)
  /\ request = RequestBody(Blank, Blank)
  /\ decoderInput = [token |-> Blank, context |-> Blank]
  /\ response = <<>>
  /\ up = [c \in Clients |-> <<>>]
  /\ down = [c \in Clients |-> <<>>]
  /\ backlog = <<>>

\* Everything that happens ends: stutter once no process runs.
Ended ==
  /\ \A c \in Clients : cpc[c] \notin ClientRunning
  /\ UNCHANGED vars

Next ==
  \/ \E c \in Clients : ClientStep(c) \/ ClientCrash(c) \/ ClientLost(c)
  \/ ServerStep \/ ServerCrash \/ ServerLost
  \/ Ended

\* Only the host is scheduled fairly: nothing is promised of the board.
HostFairness == \A c \in Clients : WF_vars(ClientStep(c))
HostSpec == Init /\ [][Next]_vars /\ HostFairness

Spec == Init /\ [][Next]_vars
-----------------------------------------------------------------------------
(* Properties *)

\* Every variable has the type of what it models; in particular the history
\* always holds History frames.
TypeOK ==
  /\ cpc \in [Clients -> ClientStates] /\ cause \in [Clients -> Causes]
  /\ step \in [Clients -> Nat] /\ sequence \in [Clients -> Nat]
  /\ history \in [Clients -> [1 .. History -> Frames]]
  /\ lastAction \in [Clients -> Actions]
  /\ outbuf \in [Clients -> Seq(Parts)] /\ inbuf \in [Clients -> Seq(Parts)]
  /\ spc \in ServerStates /\ conn \in Clients \cup {NoClient} /\ steps \in Nat
  /\ requestHeader \in Headers /\ request \in RequestBodies
  /\ decoderInput \in [token : Observations, context : Observations]
  /\ response \in Seq(Parts)
  /\ up \in [Clients -> Seq(Parts)] /\ down \in [Clients -> Seq(Parts)]
  /\ backlog \in Seq(Clients)

\* The action that drives a client's physics was computed, encoder and decoder
\* alike, from the observation of that same client at that same tick: neither
\* from an earlier tick, nor from another client, nor half from each.
ActionFromOwnObservation ==
  \A c \in Clients :
    step[c] > 0 /\ cause[c] # "physics" =>
      LET own == [client |-> c, tick |-> step[c]]
      IN  lastAction[c].enc = own /\ lastAction[c].dec = own

\* Request and response alternate: a client that takes its next observation
\* has no part of an earlier exchange under way in either direction, and a
\* server that waits for a header has no unsent part of a response.
LockStep ==
  /\ \A c \in Clients :
       cpc[c] = "observe" => /\ up[c] = <<>> /\ down[c] = <<>>
                            /\ outbuf[c] = <<>> /\ inbuf[c] = <<>>
  /\ spc = "header" => response = <<>>

\* The two sides never lose the framing: whatever stops or is late, no client
\* rejects the sequence number of a reply, and the header that the server
\* answers is the one of the observation that it has read.
Framing ==
  /\ \A c \in Clients : cause[c] # "reply"
  /\ spc \in {"encode", "decode", "write"} =>
       /\ request.enc = [client |-> conn, tick |-> requestHeader.sequence]
       /\ request.dec = request.enc

\* The decoder history is the window of the newest ticks, oldest first and
\* padded with zero frames, and every frame after the first tick carries the
\* action of the tick before it.
HistoryWindow ==
  \A c \in Clients : \A i \in 1 .. History :
    LET newest == sequence[c]
        tick == newest - History + i
        frame == history[c][i]
    IN  IF tick < 1 THEN frame = ZeroFrame
        ELSE /\ frame.tick = tick
             /\ IF tick = 1 THEN frame.prev = ZeroAction
                ELSE frame.prev.enc = [client |-> c, tick |-> tick - 1]

\* A server that returns 0 has served exactly max_steps ticks: closing its
\* sockets never destroys a response, so its client has applied max_steps
\* actions, or is about to, unless it gave up for a reason of its own.
CleanExit ==
  spc = "exit0" =>
    \/ cpc[conn] = "lost"
    \/ cause[conn] \in {"timeout", "nonfinite", "physics", "crash"}
    \/ step[conn] = MaxSteps
    \/ /\ step[conn] + 1 = MaxSteps
       /\ Len(inbuf[conn]) + Len(down[conn]) = 2

\* No client hangs, whatever the board does: with only the host scheduled
\* fairly every client leaves main() (or its host is lost).
ClientsEnd == \A c \in Clients : <>(cpc[c] \notin ClientRunning)

\* If the board runs, a server that has accepted a client returns, unless the
\* client's host vanishes silently: read_full has no timeout.
ServerEnds ==
  WF_vars(ServerStep) =>
    ((conn # NoClient) ~> \/ ServerClosed
                          \/ spc = "lost"
                          \/ conn # NoClient /\ cpc[conn] = "lost")

\* If the board runs, a server without a budget never ends a run that goes
\* well: the accepted client completes all of its ticks, unless it failed by
\* itself or was too late, or the server failed.  It is never the peer that
\* just stops.
RunCompletes ==
  WF_vars(ServerStep) =>
    \A c \in Clients :
      (conn = c) ~> \/ cpc[c] \in {"done", "lost"}
                    \/ cause[c] \in {"pack", "timeout", "nonfinite", "physics", "crash"}
                    \/ spc \in {"exit1", "killed", "lost"}

\* The session implements the closed-loop contract.
AppliedTick(c) ==
  LET a == lastAction[c]
  IN  IF a = ZeroAction THEN 0
      ELSE IF a.enc = a.dec /\ a.enc.client = c THEN a.enc.tick ELSE -1

Control == INSTANCE HilControl WITH
  owner <- conn,
  tick <- step,
  waiting <- [c \in Clients |-> cpc[c] \in {"send", "recv", "apply"}],
  applied <- [c \in Clients |-> AppliedTick(c)],
  status <- [c \in Clients |->
               IF cpc[c] = "done" THEN "done"
               ELSE IF cpc[c] \in {"failed", "lost"} THEN "failed" ELSE "running"]

\* Every behaviour of the session is one of the contract: one owner, one action
\* per observation, computed from exactly that observation.
Contract == Control!Spec
=============================================================================
