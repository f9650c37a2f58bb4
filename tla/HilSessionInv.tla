--------------------------- MODULE HilSessionInv ---------------------------
(***************************************************************************)
(* The inductive invariant of HilSession: where the parts of the one       *)
(* exchange that a client has under way can be, and what they contain.     *)
(*                                                                         *)
(* The shapes take the values of one client as parameters (its place at,   *)
(* its sequence number n, the request parts out and u that wait in the     *)
(* client and on the way up, the response parts in and d that the client   *)
(* has and that are on the way down), so that a step that leaves a client  *)
(* alone leaves its shapes alone.                                          *)
(***************************************************************************)
EXTENDS HilSession

\* The parts of the exchange with sequence number n of client c.
Own(c, n) == [client |-> c, tick |-> n]
ReqH(n) == Header("request", n, 0)
ReqB(c, n) == RequestBody(Own(c, n), Own(c, n))
OwnAction(c, n, f) == [enc |-> Own(c, n), dec |-> Own(c, n), finite |-> f]
RespH(n) == Header("response", n, 0)
RespB(c, n, f) == ResponseBody(OwnAction(c, n, f))

\* What of a response a client may have collected and still be sent.
AnswerShape(c, n, in, d) ==
  \E f \in BOOLEAN :
    \/ in = <<>> /\ d = <<RespH(n), RespB(c, n, f)>>
    \/ in = <<RespH(n)>> /\ d = <<RespB(c, n, f)>>
PartialShape(c, n, in, d) ==
  \/ in = <<>> /\ d = <<>>
  \/ in = <<>> /\ d = <<RespH(n)>>
  \/ in = <<RespH(n)>> /\ d = <<>>
  \/ AnswerShape(c, n, in, d)

\* The local state of a client agrees with its place in main().
ClientShape(c, at, k, n, out, in, u, d) ==
  /\ at \in {"connect", "observe"} =>
       n = k /\ k <= Steps[c] /\ out = <<>> /\ in = <<>> /\ u = <<>> /\ d = <<>>
  /\ at \in {"send", "recv", "apply"} => n = k + 1 /\ k < Steps[c]
  /\ at = "send" =>
       /\ in = <<>> /\ d = <<>>
       /\ \/ out = <<ReqH(n), ReqB(c, n)>> /\ u = <<>>
          \/ out = <<ReqB(c, n)>> /\ u \in {<<>>, <<ReqH(n)>>}
  /\ at = "recv" =>
       /\ out = <<>>
       /\ u \in {<<>>, <<ReqB(c, n)>>, <<ReqH(n), ReqB(c, n)>>}
       /\ PartialShape(c, n, in, d)
       /\ u # <<>> => in = <<>> /\ d = <<>>
  /\ at = "apply" =>
       /\ out = <<>> /\ u = <<>> /\ d = <<>>
       /\ \E f \in BOOLEAN : in = <<RespH(n), RespB(c, n, f)>>
  /\ at \in {"done", "failed"} => out = <<>> /\ in = <<>> /\ d = <<>>
  /\ u \in {<<>>, <<ReqH(n)>>, <<ReqB(c, n)>>, <<ReqH(n), ReqB(c, n)>>}

\* No part of the client's request has been read by a server yet, or all of it.
UnreadShape(c, at, n, out, u) ==
  /\ u \in {<<>>, <<ReqH(n)>>, <<ReqH(n), ReqB(c, n)>>}
  /\ at = "send" /\ out = <<ReqB(c, n)>> => u = <<ReqH(n)>>

\* A client that no server serves has had nothing read and got nothing.
UnservedShape(c, at, n, out, u) ==
  /\ UnreadShape(c, at, n, out, u)
  /\ at # "apply"
  /\ at = "recv" => u # <<>>

\* The exchange while the server waits for a header.
IdleShape(c, at, n, out, in, u, d) ==
  /\ UnreadShape(c, at, n, out, u)
  /\ at = "recv" /\ u = <<>> => AnswerShape(c, n, in, d)

\* The exchange while the server has read the header only.
BodyShape(c, at, n, out, u) ==
  /\ u \in {<<>>, <<ReqB(c, n)>>}
  /\ at \notin {"connect", "observe", "apply"}
  /\ at = "send" => out = <<ReqB(c, n)>> /\ u = <<>>
  /\ at = "recv" => u # <<>>

\* The exchange while the server computes.
BusyShape(at, in, u, d) ==
  /\ u = <<>>
  /\ at \in {"recv", "done", "failed", "lost"}
  /\ at = "recv" => in = <<>> /\ d = <<>>

\* The exchange while the server writes the rest rs of its response.
WriteShape(c, at, n, in, u, d, rs) ==
  /\ u = <<>>
  /\ at \in {"recv", "done", "failed", "lost"}
  /\ \E f \in BOOLEAN :
       \/ rs = <<RespH(n), RespB(c, n, f)>> /\ (at = "recv" => in = <<>> /\ d = <<>>)
       \/ /\ rs = <<RespB(c, n, f)>>
          /\ at = "recv" => \/ in = <<RespH(n)>> /\ d = <<>>
                            \/ in = <<>> /\ d = <<RespH(n)>>

ServedShape(c, at, n, out, in, u, d, sp, rh, rq, di, rs) ==
  /\ sp = "header" => IdleShape(c, at, n, out, in, u, d)
  /\ sp = "body" => rh = ReqH(n) /\ BodyShape(c, at, n, out, u)
  /\ sp \in {"encode", "decode"} =>
       rh = ReqH(n) /\ rq = ReqB(c, n) /\ BusyShape(at, in, u, d)
  /\ sp = "decode" => di = [token |-> Own(c, n), context |-> Own(c, n)]
  /\ sp = "write" => IF rs = <<>> THEN IdleShape(c, at, n, out, in, u, d)
                     ELSE WriteShape(c, at, n, in, u, d, rs)

\* The shapes of the clients of this session.
ClientInv(c) ==
  ClientShape(c, cpc[c], step[c], sequence[c], outbuf[c], inbuf[c], up[c], down[c])
Unserved(c) == spc \in {"load", "accept"} \/ (conn # c /\ spc \in ServerServing)
UnservedInv(c) ==
  Unserved(c) => UnservedShape(c, cpc[c], sequence[c], outbuf[c], up[c])
ServedInv(c) ==
  conn = c => ServedShape(c, cpc[c], sequence[c], outbuf[c], inbuf[c], up[c], down[c],
                          spc, requestHeader, request, decoderInput, response)
ClosedInv(c) == ServerClosed => up[c] = <<>>

\* The remembered action is the one of the newest completed tick.
ActionInv(c) ==
  cause[c] # "physics" =>
    IF step[c] = 0 THEN lastAction[c] = ZeroAction
    ELSE \E f \in BOOLEAN : lastAction[c] = OwnAction(c, step[c], f)

\* No reply was rejected, and only a client that has left has a cause.
CauseInv(c) ==
  /\ cause[c] # "reply"
  /\ cpc[c] \in ClientRunning => cause[c] = "none"

\* The data of the server belong together.
ServerInv ==
  /\ spc \in ServerServing => conn \in Clients
  /\ spc \in {"load", "accept"} => conn = NoClient
  /\ spc \in {"encode", "decode", "write"} =>
       /\ requestHeader = ReqH(requestHeader.sequence)
       /\ request = ReqB(conn, requestHeader.sequence)
  /\ spc \in {"load", "accept", "header", "body", "encode", "decode"} => response = <<>>

PerClient(c) ==
  /\ ClientInv(c) /\ UnservedInv(c) /\ ServedInv(c) /\ ClosedInv(c)
  /\ ActionInv(c) /\ CauseInv(c)

IInv == TypeOK /\ ServerInv /\ \A c \in Clients : PerClient(c)
=============================================================================
