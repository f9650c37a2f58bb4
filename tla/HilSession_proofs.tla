-------------------------- MODULE HilSession_proofs --------------------------
(* Machine-checked facts about HilSession, for every value of its constants. *)
EXTENDS HilSessionInv, SequenceTheorems, TLAPS

-----------------------------------------------------------------------------
(* Lemmas about the data. *)

\* Shifting a window keeps its length and its element type.
LEMMA PushFrameType ==
  ASSUME NEW S, NEW frames \in [1 .. History -> S], NEW frame \in S
  PROVE  PushFrame(frames, frame) \in [1 .. History -> S]
<1>1. frames \in Seq(S) /\ Len(frames) = History /\ frames # <<>>
  BY SizesAssumption
<1>2. Tail(frames) \in Seq(S) /\ Len(Tail(frames)) = History - 1
  BY <1>1, SizesAssumption
<1>3. /\ Append(Tail(frames), frame) \in Seq(S)
      /\ Len(Append(Tail(frames), frame)) = History
  BY <1>2, SizesAssumption
<1>4. QED
  BY <1>3, LenProperties DEF PushFrame

\* What a reset leaves of a stream is a stream of the same parts.
LEMMA SurvivingType ==
  ASSUME NEW S, NEW s \in Seq(S), NEW rest \in Surviving(s)
  PROVE  rest \in Seq(S)
<1>1. PICK k \in 0 .. Len(s) : rest = SubSeq(s, 1, k)
  BY DEF Surviving
<1>2. QED
  BY <1>1

LEMMA DataTypes ==
  /\ ZeroAction \in Actions /\ ZeroFrame \in Frames /\ Blank \in Observations
  /\ \A n \in Nat : Header("request", n, 0) \in Headers /\ Header("response", n, 0) \in Headers
  /\ \A enc, dec \in Observations : RequestBody(enc, dec) \in RequestBodies
  /\ \A a \in Actions : ResponseBody(a) \in ResponseBodies
<1>1. Blank \in Observations
  BY DEF Blank, Observations
<1>2. ZeroAction \in Actions
  BY <1>1 DEF ZeroAction, Actions
<1>3. ZeroFrame \in Frames
  BY <1>2 DEF ZeroFrame, Frames
<1>4. QED
  BY <1>1, <1>2, <1>3
     DEF Header, Headers, RequestBody, RequestBodies, ResponseBody, ResponseBodies
\* Packets have two parts; these are the sequences that the streams can hold.
LEMMA AppendPair ==
  ASSUME NEW a, NEW b PROVE Append(<<a>>, b) = <<a, b>>
<1> DEFINE S == {a, b}
<1>1. /\ <<a, b>> \in Seq(S) /\ Len(<<a, b>>) = 2
      /\ <<a, b>>[1] = a /\ <<a, b>>[2] = b
  OBVIOUS
<1>2. <<a>> \in Seq(S) /\ Len(<<a>>) = 1 /\ <<a>>[1] = a
  OBVIOUS
<1>3. /\ Append(<<a>>, b) \in Seq(S) /\ Len(Append(<<a>>, b)) = 2
      /\ Append(<<a>>, b)[1] = a /\ Append(<<a>>, b)[2] = b
  BY <1>2
<1>4. \A i \in 1 .. 2 : Append(<<a>>, b)[i] = <<a, b>>[i]
  BY <1>1, <1>3
<1> HIDE DEF S
<1>5. QED
  BY <1>1, <1>3, <1>4, SeqEqual

LEMMA Pairs ==
  /\ Len(<<>>) = 0
  /\ \A a : /\ Len(<<a>>) = 1 /\ <<a>> # <<>> /\ <<a>>[1] = a
            /\ Head(<<a>>) = a /\ Tail(<<a>>) = <<>> /\ Append(<<>>, a) = <<a>>
  /\ \A a, b : /\ Len(<<a, b>>) = 2 /\ <<a, b>> # <<>> /\ <<a, b>>[1] = a /\ <<a, b>>[2] = b
               /\ Head(<<a, b>>) = a /\ Tail(<<a, b>>) = <<b>>
               /\ Append(<<a>>, b) = <<a, b>>
               /\ \A x : <<x>> # <<a, b>>
<1>1. \A a : /\ Len(<<a>>) = 1 /\ <<a>> # <<>> /\ <<a>>[1] = a
             /\ Head(<<a>>) = a /\ Tail(<<a>>) = <<>> /\ Append(<<>>, a) = <<a>>
  OBVIOUS
<1>2. \A a, b : /\ Len(<<a, b>>) = 2 /\ <<a, b>> # <<>> /\ <<a, b>>[1] = a /\ <<a, b>>[2] = b
  OBVIOUS
<1>3. \A a, b : Head(<<a, b>>) = a /\ Tail(<<a, b>>) = <<b>>
  OBVIOUS
<1>4. \A a, b, x : <<x>> # <<a, b>>
  OBVIOUS
<1>5. QED
  BY <1>1, <1>2, <1>3, <1>4, AppendPair

LEMMA SubSeqPair ==
  ASSUME NEW a, NEW b PROVE SubSeq(<<a, b>>, 1, 1) = <<a>>
<1> DEFINE S == {a, b}
<1>1. /\ <<a, b>> \in Seq(S) /\ Len(<<a, b>>) = 2 /\ <<a, b>>[1] = a
      /\ <<a>> \in Seq(S) /\ Len(<<a>>) = 1 /\ <<a>>[1] = a
  OBVIOUS
<1>2. /\ SubSeq(<<a, b>>, 1, 1) \in Seq(S) /\ Len(SubSeq(<<a, b>>, 1, 1)) = 1
      /\ SubSeq(<<a, b>>, 1, 1)[1] = a
  BY <1>1, SubSeqProperties
<1>3. \A i \in 1 .. 1 : SubSeq(<<a, b>>, 1, 1)[i] = <<a>>[i]
  BY <1>1, <1>2
<1> HIDE DEF S
<1>4. QED
  BY <1>1, <1>2, <1>3, SeqEqual

\* What a reset can leave of a packet.
LEMMA PairPrefixes ==
  /\ Surviving(<<>>) = {<<>>}
  /\ \A a : Surviving(<<a>>) = {<<>>, <<a>>}
  /\ \A a, b : Surviving(<<a, b>>) = {<<>>, <<a>>, <<a, b>>}
<1>1. /\ SubSeq(<<>>, 1, 0) = <<>>
      /\ \A a : SubSeq(<<a>>, 1, 0) = <<>>
      /\ \A a, b : SubSeq(<<a, b>>, 1, 0) = <<>>
  OBVIOUS
<1>2. \A a : SubSeq(<<a>>, 1, 1) = <<a>>
  <2>1. \A a : <<a>> \in Seq({a}) /\ Len(<<a>>) = 1
    OBVIOUS
  <2>2. QED
    BY <2>1, SubSeqFull
<1>3. \A a, b : SubSeq(<<a, b>>, 1, 2) = <<a, b>>
  <2>1. \A a, b : <<a, b>> \in Seq({a, b}) /\ Len(<<a, b>>) = 2
    OBVIOUS
  <2>2. QED
    BY <2>1, SubSeqFull
<1>4. 0 .. 0 = {0} /\ 0 .. 1 = {0, 1} /\ 0 .. 2 = {0, 1, 2}
  OBVIOUS
<1>5. Surviving(<<>>) = {<<>>}
  BY <1>1, <1>4, Pairs DEF Surviving
<1>6. ASSUME NEW a PROVE Surviving(<<a>>) = {<<>>, <<a>>}
  <2>1. Surviving(<<a>>) = {SubSeq(<<a>>, 1, k) : k \in {0, 1}}
    BY <1>4, Pairs DEF Surviving
  <2>2. QED
    BY <2>1, <1>1, <1>2
<1>7. ASSUME NEW a, NEW b PROVE Surviving(<<a, b>>) = {<<>>, <<a>>, <<a, b>>}
  <2>1. Surviving(<<a, b>>) = {SubSeq(<<a, b>>, 1, k) : k \in {0, 1, 2}}
    BY <1>4, Pairs DEF Surviving
  <2>2. /\ SubSeq(<<a, b>>, 1, 0) = <<>> /\ SubSeq(<<a, b>>, 1, 1) = <<a>>
        /\ SubSeq(<<a, b>>, 1, 2) = <<a, b>>
    BY <1>1, <1>3, SubSeqPair
  <2>3. QED
    BY <2>1, <2>2
<1>8. QED
  BY <1>5, <1>6, <1>7
-----------------------------------------------------------------------------
(* The inductive invariant. *)

LEMMA PartFacts ==
  /\ \A n \in Nat : /\ IsHeader(ReqH(n), "request") /\ IsHeader(RespH(n), "response")
                    /\ ~IsHeader(RespH(n), "request")
                    /\ ReqH(n).sequence = n /\ RespH(n).sequence = n /\ RespH(n).status = 0
                    /\ ReqH(n) \in Headers /\ RespH(n) \in Headers
  /\ \A c \in Clients, n \in Nat :
       /\ ReqB(c, n) \in RequestBodies /\ ReqB(c, n).enc = Own(c, n) /\ ReqB(c, n).dec = Own(c, n)
       /\ ~IsHeader(ReqB(c, n), "request")
       /\ PackRequest(n, Own(c, n), Own(c, n)) = <<ReqH(n), ReqB(c, n)>>
       /\ Own(c, n) \in Observations
  /\ \A c \in Clients, n \in Nat, f \in BOOLEAN :
       /\ RespB(c, n, f) \in ResponseBodies /\ OwnAction(c, n, f) \in Actions
       /\ RespB(c, n, f).action = OwnAction(c, n, f) /\ OwnAction(c, n, f).finite = f
       /\ OwnAction(c, n, f).enc = Own(c, n) /\ OwnAction(c, n, f).dec = Own(c, n)
<1>1. \A c \in Clients, n \in Nat : Own(c, n) \in Observations
  BY DEF Own, Observations
<1>2. \A n \in Nat : /\ IsHeader(ReqH(n), "request") /\ IsHeader(RespH(n), "response")
                     /\ ~IsHeader(RespH(n), "request")
                     /\ ReqH(n).sequence = n /\ RespH(n).sequence = n /\ RespH(n).status = 0
                     /\ ReqH(n) \in Headers /\ RespH(n) \in Headers
  BY DEF ReqH, RespH, Header, Headers, IsHeader
<1>3. \A c \in Clients, n \in Nat :
        /\ ReqB(c, n) \in RequestBodies /\ ReqB(c, n).enc = Own(c, n) /\ ReqB(c, n).dec = Own(c, n)
        /\ ~IsHeader(ReqB(c, n), "request")
        /\ PackRequest(n, Own(c, n), Own(c, n)) = <<ReqH(n), ReqB(c, n)>>
  BY <1>1 DEF ReqB, RequestBody, RequestBodies, IsHeader, PackRequest, ReqH
<1>4. \A c \in Clients, n \in Nat, f \in BOOLEAN :
        /\ OwnAction(c, n, f) \in Actions /\ OwnAction(c, n, f).finite = f
        /\ OwnAction(c, n, f).enc = Own(c, n) /\ OwnAction(c, n, f).dec = Own(c, n)
  BY <1>1 DEF OwnAction, Actions
<1>5. \A c \in Clients, n \in Nat, f \in BOOLEAN :
        RespB(c, n, f) \in ResponseBodies /\ RespB(c, n, f).action = OwnAction(c, n, f)
  BY <1>4 DEF RespB, ResponseBody, ResponseBodies
<1>6. QED
  BY <1>1, <1>2, <1>3, <1>4, <1>5

\* A step that leaves the server and the values of a client alone preserves
\* the invariant of that client.
LEMMA Untouched ==
  ASSUME NEW c \in Clients, PerClient(c), UNCHANGED svars,
         cpc'[c] = cpc[c], cause'[c] = cause[c], step'[c] = step[c],
         sequence'[c] = sequence[c], lastAction'[c] = lastAction[c],
         outbuf'[c] = outbuf[c], inbuf'[c] = inbuf[c], up'[c] = up[c], down'[c] = down[c]
  PROVE  PerClient(c)'
BY DEF PerClient, ClientInv, UnservedInv, ServedInv, ClosedInv, ActionInv, CauseInv,
       Unserved, ServerClosed, svars

LEMMA ServerUntouched ==
  ASSUME ServerInv, UNCHANGED svars
  PROVE  ServerInv'
BY DEF ServerInv, svars

\* A client step leaves the invariant to its own client.
LEMMA ClientFrame ==
  ASSUME IInv, NEW c \in Clients, UNCHANGED svars, TypeOK', PerClient(c)',
         \A d \in Clients \ {c} :
           /\ cpc'[d] = cpc[d] /\ cause'[d] = cause[d] /\ step'[d] = step[d]
           /\ sequence'[d] = sequence[d] /\ lastAction'[d] = lastAction[d]
           /\ outbuf'[d] = outbuf[d] /\ inbuf'[d] = inbuf[d]
           /\ up'[d] = up[d] /\ down'[d] = down[d]
  PROVE  IInv'
<1>1. \A d \in Clients \ {c} : PerClient(d)'
  BY Untouched DEF IInv
<1>2. ServerInv'
  BY ServerUntouched DEF IInv
<1>3. QED
  BY <1>1, <1>2 DEF IInv

\* What a client pushes into its history is a frame, and the window stays one.
LEMMA HistoryType ==
  ASSUME TypeOK, NEW c \in Clients,
         history' = [history EXCEPT ![c] = PushFrame(@, NextFrame(c))]
  PROVE  history' \in [Clients -> [1 .. History -> Frames]]
<1>1. NextFrame(c) \in Frames
  BY DEF NextFrame, Frames, TypeOK
<1>2. history[c] \in [1 .. History -> Frames]
  BY DEF TypeOK
<1>3. PushFrame(history[c], NextFrame(c)) \in [1 .. History -> Frames]
  BY <1>1, <1>2, PushFrameType
<1>4. QED
  BY <1>3 DEF TypeOK

LEMMA ConnectInv ==
  ASSUME IInv, NEW c \in Clients, Connect(c)
  PROVE  IInv'
<1>1. TypeOK /\ PerClient(c) /\ UNCHANGED svars
  BY DEF IInv, Connect
<1>2. /\ cpc' = [cpc EXCEPT ![c] = "observe"] /\ backlog' = Append(backlog, c)
      /\ cause' = cause /\ step' = step /\ sequence' = sequence /\ history' = history
      /\ lastAction' = lastAction /\ outbuf' = outbuf /\ inbuf' = inbuf
      /\ up' = up /\ down' = down /\ cpc[c] = "connect"
  BY DEF Connect
<1>3. TypeOK'
  <2>1. backlog' \in Seq(Clients)
    BY <1>1, <1>2 DEF TypeOK
  <2>2. cpc' \in [Clients -> ClientStates]
    BY <1>1, <1>2 DEF TypeOK, ClientStates, ClientRunning
  <2>3. QED
    BY <1>1, <1>2, <2>1, <2>2 DEF TypeOK, svars
<1>4. cpc'[c] = "observe" /\ \A d \in Clients \ {c} : cpc'[d] = cpc[d]
  BY <1>1, <1>2 DEF TypeOK
<1>5. PerClient(c)'
  <2>1. ClientInv(c)'
    BY <1>1, <1>2, <1>4 DEF PerClient, ClientInv, ClientShape
  <2>2. UnservedInv(c)'
    BY <1>1, <1>2, <1>4 DEF PerClient, UnservedInv, Unserved, UnservedShape, UnreadShape, svars
  <2>3. ServedInv(c)'
    BY <1>1, <1>2, <1>4
       DEF PerClient, ServedInv, ServedShape, IdleShape, BodyShape, BusyShape, WriteShape,
           UnreadShape, AnswerShape, svars
  <2>4. ClosedInv(c)' /\ ActionInv(c)' /\ CauseInv(c)'
    BY <1>1, <1>2, <1>4
       DEF PerClient, ClosedInv, ActionInv, CauseInv, ClientRunning, ServerClosed, svars
  <2>5. QED
    BY <2>1, <2>2, <2>3, <2>4 DEF PerClient
<1>6. QED
  BY <1>1, <1>2, <1>3, <1>4, <1>5, ClientFrame

LEMMA SendInv ==
  ASSUME IInv, NEW c \in Clients, Send(c)
  PROVE  IInv'
<1> DEFINE n == sequence[c]
<1>1. TypeOK /\ PerClient(c) /\ ServerInv /\ n \in Nat /\ UNCHANGED svars
  BY DEF IInv, TypeOK, Send
<1>2. /\ cpc' = [cpc EXCEPT ![c] = IF Len(outbuf[c]) = 1 THEN "recv" ELSE "send"]
      /\ outbuf' = [outbuf EXCEPT ![c] = Tail(outbuf[c])]
      /\ up' = IF ServerClosed THEN up ELSE [up EXCEPT ![c] = Append(up[c], Head(outbuf[c]))]
      /\ cause' = cause /\ step' = step /\ sequence' = sequence /\ history' = history
      /\ lastAction' = lastAction /\ inbuf' = inbuf /\ down' = down /\ backlog' = backlog
  BY DEF Send
<1>3. TypeOK'
  <2>1. outbuf[c] \in Seq(Parts) /\ outbuf[c] # <<>> /\ up[c] \in Seq(Parts)
    BY <1>1 DEF TypeOK, Send
  <2>2. Tail(outbuf[c]) \in Seq(Parts) /\ Append(up[c], Head(outbuf[c])) \in Seq(Parts)
    BY <2>1
  <2>3. outbuf' \in [Clients -> Seq(Parts)] /\ up' \in [Clients -> Seq(Parts)]
    BY <1>1, <1>2, <2>2 DEF TypeOK
  <2>4. cpc' \in [Clients -> ClientStates]
    BY <1>1, <1>2 DEF TypeOK, ClientStates, ClientRunning
  <2>5. QED
    BY <1>1, <1>2, <2>3, <2>4 DEF TypeOK, svars
<1>4. \A d \in Clients \ {c} :
        /\ cpc'[d] = cpc[d] /\ outbuf'[d] = outbuf[d] /\ up'[d] = up[d]
  BY <1>1, <1>2 DEF TypeOK
<1>5. PerClient(c)'
  <2>1. /\ cpc[c] = "send" /\ inbuf[c] = <<>> /\ down[c] = <<>> /\ n = step[c] + 1 /\ step[c] < Steps[c]
        /\ \/ outbuf[c] = <<ReqH(n), ReqB(c, n)>> /\ up[c] = <<>>
           \/ outbuf[c] = <<ReqB(c, n)>> /\ up[c] = <<>>
           \/ outbuf[c] = <<ReqB(c, n)>> /\ up[c] = <<ReqH(n)>>
    BY <1>1 DEF Send, PerClient, ClientInv, ClientShape, IInv
  <2>2. /\ step'[c] = step[c] /\ sequence'[c] = n /\ inbuf'[c] = <<>> /\ down'[c] = <<>>
        /\ cause'[c] = cause[c] /\ lastAction'[c] = lastAction[c]
        /\ cpc'[c] = IF Len(outbuf[c]) = 1 THEN "recv" ELSE "send"
        /\ outbuf'[c] = Tail(outbuf[c])
        /\ up'[c] = IF ServerClosed THEN up[c] ELSE Append(up[c], Head(outbuf[c]))
    BY <1>1, <1>2, <2>1 DEF TypeOK
  <2>3. /\ ServerClosed => up[c] = <<>>
        /\ ServerClosed' = ServerClosed
    BY <1>1 DEF PerClient, ClosedInv, ServerClosed, svars
  <2>7. ClosedInv(c)' /\ ActionInv(c)' /\ CauseInv(c)'
    BY <1>1, <2>1, <2>2, <2>3 DEF PerClient, ClosedInv, ActionInv, CauseInv, ClientRunning
  <2>4. CASE outbuf[c] = <<ReqH(n), ReqB(c, n)>> /\ up[c] = <<>>
    <3>1. /\ cpc'[c] = "send" /\ outbuf'[c] = <<ReqB(c, n)>>
          /\ up'[c] = IF ServerClosed THEN <<>> ELSE <<ReqH(n)>>
      BY <2>2, <2>4, Pairs
    <3>2. ClientInv(c)'
      BY <2>1, <2>2, <2>3, <3>1, Pairs DEF ClientInv, ClientShape, PartialShape
    <3>3. UnservedInv(c)'
      BY <1>1, <2>1, <2>2, <2>4, <3>1, Pairs
         DEF PerClient, UnservedInv, Unserved, UnservedShape, UnreadShape, svars,
             ServerClosed, ServerServing
    <3>4. ServedInv(c)'
      BY <1>1, <2>1, <2>2, <2>4, <3>1, Pairs
         DEF PerClient, ServedInv, ServedShape, IdleShape, BodyShape, BusyShape, WriteShape,
             UnreadShape, AnswerShape, svars, ServerClosed
    <3>5. QED
      BY <2>7, <3>2, <3>3, <3>4 DEF PerClient
  <2>5. CASE outbuf[c] = <<ReqB(c, n)>> /\ up[c] = <<>>
    <3>1. /\ cpc'[c] = "recv" /\ outbuf'[c] = <<>>
          /\ up'[c] = IF ServerClosed THEN <<>> ELSE <<ReqB(c, n)>>
      BY <2>2, <2>5, Pairs
    <3>2. ClientInv(c)'
      BY <2>1, <2>2, <2>3, <3>1, Pairs DEF ClientInv, ClientShape, PartialShape
    <3>3. UnservedInv(c)'
      BY <1>1, <2>1, <2>2, <2>5, <3>1, Pairs
         DEF PerClient, UnservedInv, Unserved, UnservedShape, UnreadShape, svars,
             ServerClosed, ServerServing
    <3>4. ServedInv(c)'
      BY <1>1, <2>1, <2>2, <2>5, <3>1, Pairs
         DEF PerClient, ServedInv, ServedShape, IdleShape, BodyShape, BusyShape, WriteShape,
             UnreadShape, AnswerShape, svars, ServerClosed
    <3>5. QED
      BY <2>7, <3>2, <3>3, <3>4 DEF PerClient
  <2>6. CASE outbuf[c] = <<ReqB(c, n)>> /\ up[c] = <<ReqH(n)>>
    <3>1. /\ cpc'[c] = "recv" /\ outbuf'[c] = <<>>
          /\ up'[c] = <<ReqH(n), ReqB(c, n)>>
      BY <2>2, <2>3, <2>6, Pairs
    <3>2. ClientInv(c)'
      BY <2>1, <2>2, <2>3, <3>1, Pairs DEF ClientInv, ClientShape, PartialShape
    <3>3. UnservedInv(c)'
      BY <1>1, <2>1, <2>2, <2>6, <3>1, Pairs
         DEF PerClient, UnservedInv, Unserved, UnservedShape, UnreadShape, svars,
             ServerClosed, ServerServing
    <3>4. ServedInv(c)'
      BY <1>1, <2>1, <2>2, <2>6, <3>1, Pairs
         DEF PerClient, ServedInv, ServedShape, IdleShape, BodyShape, BusyShape, WriteShape,
             UnreadShape, AnswerShape, svars, ServerClosed
    <3>5. QED
      BY <2>7, <3>2, <3>3, <3>4 DEF PerClient
  <2>8. QED
    BY <2>1, <2>4, <2>5, <2>6
<1>6. QED
  BY <1>1, <1>2, <1>3, <1>4, <1>5, ClientFrame

LEMMA ObserveInv ==
  ASSUME IInv, NEW c \in Clients, Observe(c)
  PROVE  IInv'
<1> DEFINE n == sequence[c]
<1>1. TypeOK /\ PerClient(c) /\ n \in Nat /\ UNCHANGED svars
  BY DEF IInv, TypeOK, Observe
<1>2. /\ cpc' = [cpc EXCEPT ![c] = "send"]
      /\ sequence' = [sequence EXCEPT ![c] = n + 1]
      /\ outbuf' = [outbuf EXCEPT ![c] = PackRequest(n + 1, Observation(c), Observation(c))]
      /\ cause' = cause /\ step' = step /\ lastAction' = lastAction /\ inbuf' = inbuf
      /\ up' = up /\ down' = down /\ backlog' = backlog
      /\ cpc[c] = "observe"
  BY DEF Observe, nvars
<1>3. /\ n = step[c] /\ inbuf[c] = <<>> /\ up[c] = <<>> /\ down[c] = <<>>
      /\ Observation(c) = Own(c, n + 1)
  BY <1>1, <1>2 DEF PerClient, ClientInv, ClientShape, Observation, Own
<1>4. PackRequest(n + 1, Observation(c), Observation(c)) = <<ReqH(n + 1), ReqB(c, n + 1)>>
  BY <1>1, <1>3, PartFacts
<1>5. <<ReqH(n + 1), ReqB(c, n + 1)>> \in Seq(Parts)
  <2>1. ReqH(n + 1) \in Parts /\ ReqB(c, n + 1) \in Parts
    BY <1>1, PartFacts DEF Parts
  <2>2. QED
    BY <2>1
<1>6. TypeOK'
  <2>1. history' \in [Clients -> [1 .. History -> Frames]]
    BY <1>1, HistoryType DEF Observe
  <2>2. sequence' \in [Clients -> Nat] /\ outbuf' \in [Clients -> Seq(Parts)]
    <3>1. sequence \in [Clients -> Nat] /\ outbuf \in [Clients -> Seq(Parts)]
      BY <1>1 DEF TypeOK
    <3>2. outbuf' = [outbuf EXCEPT ![c] = <<ReqH(n + 1), ReqB(c, n + 1)>>]
      BY <1>2, <1>4
    <3>3. outbuf' \in [Clients -> Seq(Parts)]
      BY <1>5, <3>1, <3>2
    <3>4. sequence' \in [Clients -> Nat]
      BY <1>1, <1>2, <3>1
    <3>5. QED
      BY <3>3, <3>4
  <2>3. cpc' \in [Clients -> ClientStates]
    BY <1>1, <1>2 DEF TypeOK, ClientStates, ClientRunning
  <2>4. QED
    BY <1>1, <1>2, <2>1, <2>2, <2>3 DEF TypeOK, svars
<1>7. /\ cpc'[c] = "send" /\ sequence'[c] = n + 1
      /\ outbuf'[c] = <<ReqH(n + 1), ReqB(c, n + 1)>>
      /\ \A d \in Clients \ {c} :
           cpc'[d] = cpc[d] /\ sequence'[d] = sequence[d] /\ outbuf'[d] = outbuf[d]
  BY <1>1, <1>2, <1>4 DEF TypeOK
<1>8. step[c] < Steps[c]
  BY DEF Observe
<1>9. PerClient(c)'
  <2>1. ClientInv(c)'
    <3>1. step'[c] = step[c] /\ inbuf'[c] = <<>> /\ down'[c] = <<>> /\ up'[c] = <<>>
      BY <1>2, <1>3
    <3>2. ClientShape(c, "send", step[c], n + 1, <<ReqH(n + 1), ReqB(c, n + 1)>>,
                      <<>>, <<>>, <<>>)
      BY <1>3, <1>8 DEF ClientShape
    <3>3. QED
      BY <1>7, <3>1, <3>2 DEF ClientInv, ClientShape
  <2>2. UnservedInv(c)'
    <3>1. outbuf'[c] # <<ReqB(c, n + 1)>>
      BY <1>7, Pairs
    <3>2. up'[c] = <<>> /\ cpc'[c] = "send"
      BY <1>2, <1>3, <1>7
    <3>3. UnservedShape(c, cpc'[c], sequence'[c], outbuf'[c], up'[c])
      BY <1>7, <3>1, <3>2 DEF UnservedShape, UnreadShape
    <3>4. QED
      BY <3>3 DEF UnservedInv, UnservedShape, UnreadShape
  <2>3. ServedInv(c)'
    <3>1. conn = c => /\ spc \notin {"body", "encode", "decode"}
                      /\ spc = "write" => response = <<>>
      BY <1>1, <1>2 DEF PerClient, ServedInv, ServedShape, BodyShape, BusyShape, WriteShape
    <3>2. outbuf'[c] # <<ReqB(c, n + 1)>>
      BY <1>7, Pairs
    <3>3. /\ up'[c] = <<>> /\ cpc'[c] = "send" /\ sequence'[c] = n + 1
      BY <1>2, <1>3, <1>7
    <3>4. IdleShape(c, cpc'[c], sequence'[c], outbuf'[c], inbuf'[c], up'[c], down'[c])
      BY <3>2, <3>3 DEF IdleShape, UnreadShape
    <3>5. QED
      BY <1>1, <3>1, <3>4 DEF ServedInv, ServedShape, svars
  <2>4. ClosedInv(c)' /\ ActionInv(c)' /\ CauseInv(c)'
    BY <1>1, <1>2, <1>7
       DEF PerClient, ClosedInv, ActionInv, CauseInv, ClientRunning, ServerClosed, svars
  <2>5. QED
    BY <2>1, <2>2, <2>3, <2>4 DEF PerClient
<1>10. QED
  BY <1>1, <1>2, <1>6, <1>7, <1>9, ClientFrame

LEMMA RecvInv ==
  ASSUME IInv, NEW c \in Clients, Recv(c)
  PROVE  IInv'
<1> DEFINE n == sequence[c]
<1>1. TypeOK /\ PerClient(c) /\ n \in Nat /\ UNCHANGED svars
  BY DEF IInv, TypeOK, Recv
<1>2. /\ cpc' = [cpc EXCEPT ![c] = IF Len(inbuf[c]) = 1 THEN "apply" ELSE "recv"]
      /\ inbuf' = [inbuf EXCEPT ![c] = Append(inbuf[c], Head(down[c]))]
      /\ down' = [down EXCEPT ![c] = Tail(down[c])]
      /\ cause' = cause /\ step' = step /\ sequence' = sequence /\ history' = history
      /\ lastAction' = lastAction /\ outbuf' = outbuf /\ up' = up /\ backlog' = backlog
      /\ cpc[c] = "recv" /\ down[c] # <<>>
  BY DEF Recv
<1>3. TypeOK'
  <2>1. down[c] \in Seq(Parts) /\ inbuf[c] \in Seq(Parts)
    BY <1>1 DEF TypeOK
  <2>2. Tail(down[c]) \in Seq(Parts) /\ Append(inbuf[c], Head(down[c])) \in Seq(Parts)
    BY <1>2, <2>1
  <2>3. inbuf' \in [Clients -> Seq(Parts)] /\ down' \in [Clients -> Seq(Parts)]
    BY <1>1, <1>2, <2>2 DEF TypeOK
  <2>4. cpc' \in [Clients -> ClientStates]
    BY <1>1, <1>2 DEF TypeOK, ClientStates, ClientRunning
  <2>5. QED
    BY <1>1, <1>2, <2>3, <2>4 DEF TypeOK, svars
<1>4. /\ cpc'[c] = IF Len(inbuf[c]) = 1 THEN "apply" ELSE "recv"
      /\ inbuf'[c] = Append(inbuf[c], Head(down[c])) /\ down'[c] = Tail(down[c])
      /\ \A d \in Clients \ {c} :
           cpc'[d] = cpc[d] /\ inbuf'[d] = inbuf[d] /\ down'[d] = down[d]
  BY <1>1, <1>2 DEF TypeOK
<1>5. PerClient(c)'
  <2>1. /\ n = step[c] + 1 /\ step[c] < Steps[c] /\ outbuf[c] = <<>> /\ up[c] = <<>>
        /\ PartialShape(c, n, inbuf[c], down[c])
    BY <1>1, <1>2 DEF PerClient, ClientInv, ClientShape
  <2>2. PICK f \in BOOLEAN :
          \/ inbuf[c] = <<>> /\ down[c] = <<RespH(n)>>
          \/ inbuf[c] = <<>> /\ down[c] = <<RespH(n), RespB(c, n, f)>>
          \/ inbuf[c] = <<RespH(n)>> /\ down[c] = <<RespB(c, n, f)>>
    BY <1>2, <2>1 DEF PartialShape, AnswerShape
  <2>3. \/ cpc'[c] = "recv" /\ inbuf'[c] = <<RespH(n)>> /\ down'[c] = <<>>
           /\ inbuf[c] = <<>> /\ down[c] = <<RespH(n)>>
        \/ cpc'[c] = "recv" /\ inbuf'[c] = <<RespH(n)>> /\ down'[c] = <<RespB(c, n, f)>>
           /\ inbuf[c] = <<>> /\ down[c] = <<RespH(n), RespB(c, n, f)>>
        \/ cpc'[c] = "apply" /\ inbuf'[c] = <<RespH(n), RespB(c, n, f)>> /\ down'[c] = <<>>
           /\ inbuf[c] = <<RespH(n)>> /\ down[c] = <<RespB(c, n, f)>>
    <3>1. CASE inbuf[c] = <<>> /\ down[c] = <<RespH(n)>>
      BY <1>4, <3>1, Pairs
    <3>2. CASE inbuf[c] = <<>> /\ down[c] = <<RespH(n), RespB(c, n, f)>>
      BY <1>4, <3>2, Pairs
    <3>3. CASE inbuf[c] = <<RespH(n)>> /\ down[c] = <<RespB(c, n, f)>>
      BY <1>4, <3>3, Pairs
    <3>4. QED
      BY <2>2, <3>1, <3>2, <3>3
  <2>4. ClosedInv(c)' /\ ActionInv(c)' /\ CauseInv(c)'
    BY <1>1, <1>2, <1>4
       DEF PerClient, ClosedInv, ActionInv, CauseInv, ClientRunning, ServerClosed, svars
  <2>5. ClientInv(c)'
    BY <1>2, <2>1, <2>3 DEF ClientInv, ClientShape, PartialShape, AnswerShape
  <2>6. ~Unserved(c)
    BY <1>1, <1>2, <2>1 DEF PerClient, UnservedInv, UnservedShape
  <2>7. UnservedInv(c)'
    BY <1>1, <2>6 DEF UnservedInv, Unserved, svars
  <2>8. ServedInv(c)'
    <3>1. ASSUME conn = c PROVE spc \notin {"body", "encode", "decode"}
      BY <1>1, <1>2, <2>1, <3>1 DEF PerClient, ServedInv, ServedShape, BodyShape, BusyShape
    <3>2. CASE conn = c /\ (spc = "header" \/ (spc = "write" /\ response = <<>>))
      <4>1. AnswerShape(c, n, inbuf[c], down[c])
        BY <1>1, <1>2, <2>1, <3>2 DEF PerClient, ServedInv, ServedShape, IdleShape
      <4>2. cpc'[c] = "recv" => AnswerShape(c, n, inbuf'[c], down'[c])
        BY <2>3, <4>1, Pairs DEF AnswerShape
      <4>3. IdleShape(c, cpc'[c], n, outbuf[c], inbuf'[c], up[c], down'[c])
        BY <2>1, <2>3, <4>2 DEF IdleShape, UnreadShape
      <4>4. QED
        BY <1>1, <1>2, <3>2, <4>3 DEF ServedInv, ServedShape, svars
    <3>3. CASE conn = c /\ spc = "write" /\ response # <<>>
      <4>1. WriteShape(c, "recv", n, inbuf[c], up[c], down[c], response)
        BY <1>1, <1>2, <3>3 DEF PerClient, ServedInv, ServedShape
      <4>2. inbuf[c] = <<>> /\ down[c] = <<RespH(n)>>
        BY <1>2, <2>2, <4>1, Pairs DEF WriteShape
      <4>3. inbuf'[c] = <<RespH(n)>> /\ down'[c] = <<>> /\ cpc'[c] = "recv"
        BY <2>3, <4>2, Pairs
      <4>4. WriteShape(c, "recv", n, inbuf'[c], up[c], down'[c], response)
        BY <4>1, <4>2, <4>3, Pairs DEF WriteShape
      <4>5. QED
        BY <1>1, <1>2, <3>3, <4>3, <4>4 DEF ServedInv, ServedShape, svars
    <3>4. CASE conn # c \/ spc \notin {"header", "body", "encode", "decode", "write"}
      BY <1>1, <3>4 DEF ServedInv, ServedShape, svars
    <3>5. QED
      BY <3>1, <3>2, <3>3, <3>4
  <2>9. QED
    BY <2>4, <2>5, <2>7, <2>8 DEF PerClient
<1>6. QED
  BY <1>1, <1>2, <1>3, <1>4, <1>5, ClientFrame

\* What leaving main() keeps: the parts of the request that were handed over,
\* or a prefix of them.
LEMMA LeaveInv ==
  ASSUME IInv, NEW c \in Clients, NEW how \in {"done", "failed"}, NEW why \in Causes \ {"reply"},
         Leave(c, how, why), cpc[c] \in ClientRunning,
         step' = step, sequence' \in [Clients -> Nat],
         history' \in [Clients -> [1 .. History -> Frames]], lastAction' \in [Clients -> Actions],
         \A d \in Clients \ {c} : sequence'[d] = sequence[d] /\ lastAction'[d] = lastAction[d],
         sequence'[c] = sequence[c] \/ cpc[c] = "observe",
         lastAction'[c] = lastAction[c] \/ why = "physics"
  PROVE  IInv'
<1> DEFINE n == sequence[c]
<1>1. TypeOK /\ PerClient(c) /\ n \in Nat /\ UNCHANGED svars
  BY DEF IInv, TypeOK, Leave
<1>2. PICK rest \in IF down[c] = <<>> THEN {up[c]} ELSE Surviving(up[c]) :
        up' = [up EXCEPT ![c] = rest]
  BY DEF Leave, CloseClient
<1>3. /\ cpc' = [cpc EXCEPT ![c] = how] /\ cause' = [cause EXCEPT ![c] = why]
      /\ outbuf' = [outbuf EXCEPT ![c] = <<>>] /\ inbuf' = [inbuf EXCEPT ![c] = <<>>]
      /\ down' = [down EXCEPT ![c] = <<>>] /\ backlog' = backlog
  BY DEF Leave, CloseClient
<1>4. TypeOK'
  <2>1. up \in [Clients -> Seq(Parts)] /\ <<>> \in Seq(Parts)
    BY <1>1, EmptySeq DEF TypeOK
  <2>2. rest \in Seq(Parts)
    BY <1>2, <2>1, SurvivingType
  <2>3. up' \in [Clients -> Seq(Parts)]
    BY <1>2, <2>1, <2>2
  <2>4. /\ outbuf' \in [Clients -> Seq(Parts)] /\ inbuf' \in [Clients -> Seq(Parts)]
        /\ down' \in [Clients -> Seq(Parts)]
    BY <1>1, <1>3, <2>1 DEF TypeOK
  <2>5. cpc' \in [Clients -> ClientStates] /\ cause' \in [Clients -> Causes]
    BY <1>1, <1>3 DEF TypeOK, ClientStates
  <2>6. QED
    BY <1>1, <1>3, <2>3, <2>4, <2>5 DEF TypeOK, svars
<1>5. /\ cpc'[c] = how /\ cause'[c] = why /\ outbuf'[c] = <<>> /\ inbuf'[c] = <<>>
      /\ down'[c] = <<>> /\ up'[c] = rest
      /\ \A d \in Clients \ {c} :
           /\ cpc'[d] = cpc[d] /\ cause'[d] = cause[d] /\ outbuf'[d] = outbuf[d]
           /\ inbuf'[d] = inbuf[d] /\ down'[d] = down[d] /\ up'[d] = up[d]
  BY <1>1, <1>2, <1>3 DEF TypeOK
<1>6. PerClient(c)'
  <2>1. ClientShape(c, cpc[c], step[c], n, outbuf[c], inbuf[c], up[c], down[c])
    BY <1>1 DEF PerClient, ClientInv
  <2>2. /\ up[c] \in {<<>>, <<ReqH(n)>>, <<ReqB(c, n)>>, <<ReqH(n), ReqB(c, n)>>}
        /\ cpc[c] = "observe" => up[c] = <<>>
    BY <2>1 DEF ClientShape
  <2>3. /\ up[c] = <<>> => rest = <<>>
        /\ up[c] = <<ReqH(n)>> => rest \in {<<>>, <<ReqH(n)>>}
        /\ up[c] = <<ReqB(c, n)>> => rest \in {<<>>, <<ReqB(c, n)>>}
        /\ up[c] = <<ReqH(n), ReqB(c, n)>> =>
             rest \in {<<>>, <<ReqH(n)>>, <<ReqH(n), ReqB(c, n)>>}
    <3>1. PICK s : s = up[c]
      OBVIOUS
    <3>2. rest \in {s} \/ rest \in Surviving(s)
      BY <1>2, <3>1
    <3>3. /\ s = <<>> => rest = <<>>
          /\ s = <<ReqH(n)>> => rest \in {<<>>, <<ReqH(n)>>}
          /\ s = <<ReqB(c, n)>> => rest \in {<<>>, <<ReqB(c, n)>>}
      BY <3>2, PairPrefixes
    <3>4. s = <<ReqH(n), ReqB(c, n)>> =>
            rest \in {<<>>, <<ReqH(n)>>, <<ReqH(n), ReqB(c, n)>>}
      BY <3>2, PairPrefixes
    <3>5. QED
      BY <3>1, <3>3, <3>4
  <2>4. sequence'[c] = n \/ rest = <<>>
    BY <2>2, <2>3
  <2>5. ClientInv(c)'
    BY <1>5, <2>2, <2>3, <2>4 DEF ClientInv, ClientShape
  <2>6. UnservedInv(c)'
    <3>1. ASSUME Unserved(c)
          PROVE  UnreadShape(c, how, sequence'[c], <<>>, rest)
      <4>1. up[c] \in {<<>>, <<ReqH(n)>>, <<ReqH(n), ReqB(c, n)>>}
        BY <1>1, <3>1 DEF PerClient, UnservedInv, UnservedShape, UnreadShape
      <4>2. QED
        BY <2>3, <2>4, <4>1 DEF UnreadShape
    <3>2. Unserved(c)' = Unserved(c)
      BY <1>1 DEF Unserved, svars
    <3>3. QED
      BY <1>5, <3>1, <3>2 DEF UnservedInv, UnservedShape
  <2>7. ServedInv(c)'
    <3>1. ASSUME conn = c, spc = "header" \/ (spc = "write" /\ response = <<>>)
          PROVE  IdleShape(c, how, sequence'[c], <<>>, <<>>, rest, <<>>)
      <4>1. up[c] \in {<<>>, <<ReqH(n)>>, <<ReqH(n), ReqB(c, n)>>}
        BY <1>1, <3>1 DEF PerClient, ServedInv, ServedShape, IdleShape, UnreadShape
      <4>2. QED
        BY <2>3, <2>4, <4>1 DEF IdleShape, UnreadShape
    <3>2. ASSUME conn = c, spc = "body"
          PROVE  /\ requestHeader = ReqH(sequence'[c])
                 /\ BodyShape(c, how, sequence'[c], <<>>, rest)
      <4>1. requestHeader = ReqH(n) /\ BodyShape(c, cpc[c], n, outbuf[c], up[c])
        BY <1>1, <3>2 DEF PerClient, ServedInv, ServedShape
      <4>2. up[c] \in {<<>>, <<ReqB(c, n)>>} /\ sequence'[c] = n
        BY <4>1 DEF BodyShape
      <4>3. rest \in {<<>>, <<ReqB(c, n)>>}
        BY <2>3, <4>2
      <4>4. QED
        BY <4>1, <4>2, <4>3 DEF BodyShape
    <3>3. ASSUME conn = c, spc \in {"encode", "decode"} \/ (spc = "write" /\ response # <<>>)
          PROVE  up[c] = <<>> /\ rest = <<>> /\ sequence'[c] = n
      BY <1>1, <2>3, <3>3 DEF PerClient, ServedInv, ServedShape, BusyShape, WriteShape
    <3>4. CASE conn = c /\ (spc = "header" \/ (spc = "write" /\ response = <<>>))
      BY <1>1, <1>5, <3>1, <3>4 DEF ServedInv, ServedShape, svars
    <3>5. CASE conn = c /\ spc = "body"
      BY <1>1, <1>5, <3>2, <3>5 DEF ServedInv, ServedShape, svars
    <3>6. CASE conn = c /\ spc \in {"encode", "decode"}
      BY <1>1, <1>5, <3>3, <3>6 DEF PerClient, ServedInv, ServedShape, BusyShape, svars
    <3>7. CASE conn = c /\ spc = "write" /\ response # <<>>
      <4>1. WriteShape(c, cpc[c], n, inbuf[c], up[c], down[c], response)
        BY <1>1, <3>7 DEF PerClient, ServedInv, ServedShape
      <4>2. WriteShape(c, how, n, <<>>, <<>>, <<>>, response)
        BY <4>1 DEF WriteShape
      <4>3. QED
        BY <1>1, <1>5, <3>3, <3>7, <4>2 DEF ServedInv, ServedShape, svars
    <3>8. CASE conn # c \/ spc \notin {"header", "body", "encode", "decode", "write"}
      BY <1>1, <3>8 DEF ServedInv, ServedShape, svars
    <3>9. QED
      BY <3>4, <3>5, <3>6, <3>7, <3>8
  <2>8. ClosedInv(c)'
    BY <1>1, <1>5, <2>3 DEF PerClient, ClosedInv, ServerClosed, svars
  <2>9. ActionInv(c)' /\ CauseInv(c)'
    BY <1>1, <1>5 DEF PerClient, ActionInv, CauseInv, ClientRunning
  <2>10. QED
    BY <2>5, <2>6, <2>7, <2>8, <2>9 DEF PerClient
<1>7. QED
  BY <1>1, <1>4, <1>5, <1>6, ClientFrame

LEMMA FailInv ==
  ASSUME IInv, NEW c \in Clients, NEW why \in Causes \ {"reply"}, Fail(c, why),
         cpc[c] \in ClientRunning
  PROVE  IInv'
BY LeaveInv DEF Fail, IInv, TypeOK

LEMMA SequenceOverflowInv ==
  ASSUME IInv, NEW c \in Clients, SequenceOverflow(c)
  PROVE  IInv'
<1>1. TypeOK
  BY DEF IInv
<1>2. history' \in [Clients -> [1 .. History -> Frames]]
  BY <1>1, HistoryType DEF SequenceOverflow
<1>3. sequence' \in [Clients -> Nat] /\ \A d \in Clients \ {c} : sequence'[d] = sequence[d]
  BY <1>1 DEF TypeOK, SequenceOverflow
<1>4. Leave(c, "failed", "pack") /\ step' = step /\ lastAction' = lastAction /\ cpc[c] = "observe"
  BY DEF SequenceOverflow
<1>5. QED
  BY <1>1, <1>2, <1>3, <1>4, LeaveInv DEF TypeOK, Causes, ClientRunning

LEMMA FinishInv ==
  ASSUME IInv, NEW c \in Clients, Finish(c)
  PROVE  IInv'
BY LeaveInv DEF Finish, IInv, TypeOK, Causes, ClientRunning

\* A client that has its response accepts it.
LEMMA ReplyFacts ==
  ASSUME IInv, NEW c \in Clients, cpc[c] = "apply"
  PROVE  /\ ReplyMatches(c) /\ sequence[c] = step[c] + 1 /\ step[c] < Steps[c]
         /\ outbuf[c] = <<>> /\ up[c] = <<>> /\ down[c] = <<>>
         /\ \E f \in BOOLEAN : Reply(c) = OwnAction(c, sequence[c], f)
<1> DEFINE n == sequence[c]
<1>1. TypeOK /\ PerClient(c) /\ n \in Nat
  BY DEF IInv, TypeOK
<1>2. /\ n = step[c] + 1 /\ step[c] < Steps[c]
      /\ outbuf[c] = <<>> /\ up[c] = <<>> /\ down[c] = <<>>
      /\ \E f \in BOOLEAN : inbuf[c] = <<RespH(n), RespB(c, n, f)>>
  BY <1>1 DEF PerClient, ClientInv, ClientShape
<1>3. PICK f \in BOOLEAN : inbuf[c] = <<RespH(n), RespB(c, n, f)>>
  BY <1>2
<1>4. inbuf[c][1] = RespH(n) /\ inbuf[c][2] = RespB(c, n, f)
  BY <1>3, Pairs
<1>5. ReplyMatches(c) /\ Reply(c) = OwnAction(c, n, f)
  BY <1>1, <1>4, PartFacts DEF ReplyMatches, Reply
<1>6. QED
  BY <1>2, <1>5

LEMMA PhysicsDivergesInv ==
  ASSUME IInv, NEW c \in Clients, PhysicsDiverges(c)
  PROVE  IInv'
<1>1. TypeOK
  BY DEF IInv
<1>2. PICK f \in BOOLEAN : Reply(c) = OwnAction(c, sequence[c], f)
  BY ReplyFacts DEF PhysicsDiverges
<1>3. Reply(c) \in Actions
  BY <1>1, <1>2, PartFacts DEF TypeOK
<1>4. lastAction' \in [Clients -> Actions] /\ \A d \in Clients \ {c} : lastAction'[d] = lastAction[d]
  BY <1>1, <1>3 DEF TypeOK, PhysicsDiverges
<1>5. /\ Leave(c, "failed", "physics") /\ step' = step /\ sequence' = sequence
      /\ history' = history /\ cpc[c] = "apply"
  BY DEF PhysicsDiverges
<1>6. QED
  BY <1>1, <1>4, <1>5, LeaveInv DEF TypeOK, Causes, ClientRunning

LEMMA ApplyInv ==
  ASSUME IInv, NEW c \in Clients, Apply(c)
  PROVE  IInv'
<1> DEFINE n == sequence[c]
<1>1. TypeOK /\ PerClient(c) /\ n \in Nat /\ cpc[c] = "apply" /\ UNCHANGED svars
  BY DEF IInv, TypeOK, Apply, Fail, Leave
<1>2. /\ ReplyMatches(c) /\ n = step[c] + 1 /\ step[c] < Steps[c]
      /\ outbuf[c] = <<>> /\ up[c] = <<>> /\ down[c] = <<>>
  BY <1>1, ReplyFacts
<1>3. PICK f \in BOOLEAN : Reply(c) = OwnAction(c, n, f)
  BY <1>1, ReplyFacts
<1>4. CASE ~Reply(c).finite
  <2>1. Fail(c, "nonfinite")
    BY <1>2, <1>4 DEF Apply
  <2>2. QED
    BY <1>1, <2>1, FailInv DEF Causes, ClientRunning
<1>5. CASE Reply(c).finite
  <2>1. /\ lastAction' = [lastAction EXCEPT ![c] = OwnAction(c, n, f)]
        /\ step' = [step EXCEPT ![c] = step[c] + 1]
        /\ inbuf' = [inbuf EXCEPT ![c] = <<>>]
        /\ cpc' = [cpc EXCEPT ![c] = "observe"]
        /\ cause' = cause /\ sequence' = sequence /\ history' = history /\ outbuf' = outbuf
        /\ up' = up /\ down' = down /\ backlog' = backlog
    BY <1>2, <1>3, <1>5 DEF Apply, nvars
  <2>2. TypeOK'
    <3>1. OwnAction(c, n, f) \in Actions
      BY <1>1, PartFacts
    <3>2. lastAction' \in [Clients -> Actions] /\ step' \in [Clients -> Nat]
      BY <1>1, <2>1, <3>1 DEF TypeOK
    <3>3. inbuf' \in [Clients -> Seq(Parts)]
      BY <1>1, <2>1, EmptySeq DEF TypeOK
    <3>4. cpc' \in [Clients -> ClientStates]
      BY <1>1, <2>1 DEF TypeOK, ClientStates, ClientRunning
    <3>5. QED
      BY <1>1, <2>1, <3>2, <3>3, <3>4 DEF TypeOK, svars
  <2>3. /\ lastAction'[c] = OwnAction(c, n, f) /\ step'[c] = n /\ inbuf'[c] = <<>>
        /\ cpc'[c] = "observe"
        /\ \A d \in Clients \ {c} :
             /\ lastAction'[d] = lastAction[d] /\ step'[d] = step[d] /\ inbuf'[d] = inbuf[d]
             /\ cpc'[d] = cpc[d]
    BY <1>1, <1>2, <2>1 DEF TypeOK
  <2>4. PerClient(c)'
    <3>1. ClientInv(c)'
      <4>1. n <= Steps[c]
        BY <1>1, <1>2, StepsAssumption DEF TypeOK
      <4>2. QED
        BY <1>2, <2>1, <2>3, <4>1 DEF ClientInv, ClientShape
    <3>2. ~Unserved(c)
      BY <1>1 DEF PerClient, UnservedInv, UnservedShape
    <3>3. UnservedInv(c)'
      BY <1>1, <3>2 DEF UnservedInv, Unserved, svars
    <3>4. ServedInv(c)'
      <4>1. ASSUME conn = c
            PROVE  /\ spc \notin {"body", "encode", "decode"}
                   /\ spc = "write" => response = <<>>
        BY <1>1, <4>1 DEF PerClient, ServedInv, ServedShape, BodyShape, BusyShape, WriteShape
      <4>2. IdleShape(c, cpc'[c], sequence'[c], outbuf'[c], inbuf'[c], up'[c], down'[c])
        BY <1>2, <2>1, <2>3 DEF IdleShape, UnreadShape
      <4>3. QED
        BY <1>1, <4>1, <4>2 DEF ServedInv, ServedShape, svars
    <3>5. ClosedInv(c)' /\ ActionInv(c)' /\ CauseInv(c)'
      <4>1. step'[c] # 0
        BY <1>1, <1>2, <2>3 DEF TypeOK
      <4>2. QED
        BY <1>1, <2>1, <2>3, <4>1
           DEF PerClient, ClosedInv, ActionInv, CauseInv, ClientRunning, ServerClosed, svars
    <3>6. QED
      BY <3>1, <3>3, <3>4, <3>5 DEF PerClient
  <2>5. QED
    BY <1>1, <2>1, <2>2, <2>3, <2>4, ClientFrame
<1>6. QED
  BY <1>4, <1>5

LEMMA ClientLostInv ==
  ASSUME IInv, NEW c \in Clients, ClientLost(c)
  PROVE  IInv'
<1>1. TypeOK /\ PerClient(c) /\ UNCHANGED svars
  BY DEF IInv, ClientLost
<1>2. /\ cpc' = [cpc EXCEPT ![c] = "lost"] /\ backlog' = backlog
      /\ cause' = cause /\ step' = step /\ sequence' = sequence /\ history' = history
      /\ lastAction' = lastAction /\ outbuf' = outbuf /\ inbuf' = inbuf
      /\ up' = up /\ down' = down
  BY DEF ClientLost, nvars
<1>3. TypeOK'
  <2>1. cpc' \in [Clients -> ClientStates]
    BY <1>1, <1>2 DEF TypeOK, ClientStates
  <2>2. QED
    BY <1>1, <1>2, <2>1 DEF TypeOK, svars
<1>4. cpc'[c] = "lost" /\ \A d \in Clients \ {c} : cpc'[d] = cpc[d]
  BY <1>1, <1>2 DEF TypeOK
<1>5. PerClient(c)'
  <2>1. ClientInv(c)'
    BY <1>1, <1>2, <1>4 DEF PerClient, ClientInv, ClientShape
  <2>2. UnservedInv(c)'
    BY <1>1, <1>2, <1>4 DEF PerClient, UnservedInv, Unserved, UnservedShape, UnreadShape, svars
  <2>3. ServedInv(c)'
    BY <1>1, <1>2, <1>4
       DEF PerClient, ServedInv, ServedShape, IdleShape, BodyShape, BusyShape, WriteShape,
           UnreadShape, AnswerShape, svars
  <2>4. ClosedInv(c)' /\ ActionInv(c)' /\ CauseInv(c)'
    BY <1>1, <1>2, <1>4
       DEF PerClient, ClosedInv, ActionInv, CauseInv, ClientRunning, ServerClosed, svars
  <2>5. QED
    BY <2>1, <2>2, <2>3, <2>4 DEF PerClient
<1>6. QED
  BY <1>1, <1>2, <1>3, <1>4, <1>5, ClientFrame
\* A server step that leaves alone what a client and the server share, and
\* that client, preserves the invariant of that client.
LEMMA OtherClient ==
  ASSUME IInv, NEW c \in Clients, conn # c, conn' = conn,
         spc \in ServerServing, spc' \in ServerServing,
         UNCHANGED cvars, up'[c] = up[c], down'[c] = down[c]
  PROVE  PerClient(c)'
<1>1. PerClient(c)
  BY DEF IInv
<1>2. ~ServerClosed /\ ~ServerClosed' /\ Unserved(c) /\ Unserved(c)'
  BY DEF ServerClosed, Unserved, ServerServing
<1>3. QED
  BY <1>1, <1>2
     DEF PerClient, ClientInv, UnservedInv, ServedInv, ClosedInv, ActionInv, CauseInv, cvars

\* The invariants of the accepted client do not depend on the server's data
\* but in ServedInv.
LEMMA OwnClient ==
  ASSUME IInv, conn \in Clients, conn' = conn, spc \in ServerServing, spc' \in ServerServing,
         UNCHANGED cvars, ClientInv(conn)', ServedInv(conn)'
  PROVE  PerClient(conn)'
<1>1. PerClient(conn)
  BY DEF IInv
<1>2. UnservedInv(conn)'
  BY DEF UnservedInv, Unserved, ServerServing
<1>3. ClosedInv(conn)'
  BY DEF ClosedInv, ServerClosed, ServerServing
<1>4. ActionInv(conn)' /\ CauseInv(conn)'
  BY <1>1 DEF PerClient, ActionInv, CauseInv, cvars
<1>5. QED
  BY <1>2, <1>3, <1>4 DEF PerClient

\* A step of the serving server is about the accepted client only.
LEMMA ServerFrame ==
  ASSUME IInv, spc \in ServerServing, spc' \in ServerServing, conn' = conn, UNCHANGED cvars,
         \A d \in Clients \ {conn} : up'[d] = up[d] /\ down'[d] = down[d],
         TypeOK', ServerInv', ClientInv(conn)', ServedInv(conn)'
  PROVE  IInv'
<1>1. conn \in Clients
  BY DEF IInv, ServerInv
<1>2. PerClient(conn)'
  BY <1>1, OwnClient
<1>3. \A d \in Clients \ {conn} : PerClient(d)'
  BY OtherClient
<1>4. QED
  BY <1>1, <1>2, <1>3 DEF IInv

LEMMA LoadInv ==
  ASSUME IInv, Load
  PROVE  IInv'
<1>1. TypeOK /\ ServerInv /\ \A c \in Clients : PerClient(c)
  BY DEF IInv
<1>2. /\ spc = "load" /\ spc' = "accept" /\ UNCHANGED <<conn, steps, requestHeader, request,
                                                      decoderInput, response, cvars, nvars>>
  BY DEF Load
<1>3. TypeOK'
  BY <1>1, <1>2 DEF TypeOK, ServerStates, cvars, nvars
<1>4. ServerInv'
  BY <1>1, <1>2 DEF ServerInv, ServerServing
<1>5. ASSUME NEW c \in Clients PROVE PerClient(c)'
  <2>1. conn # c
    BY <1>1, <1>2, ClientsAssumption DEF ServerInv
  <2>2. QED
    BY <1>1, <1>2, <2>1 DEF PerClient, ClientInv, UnservedInv, ServedInv, ClosedInv, ActionInv,
       CauseInv, Unserved, ServerClosed, cvars, nvars
<1>6. QED
  BY <1>3, <1>4, <1>5 DEF IInv

LEMMA AcceptInv ==
  ASSUME IInv, Accept
  PROVE  IInv'
<1>1. TypeOK /\ ServerInv /\ \A c \in Clients : PerClient(c)
  BY DEF IInv
<1>2. /\ spc = "accept" /\ spc' = "header" /\ backlog # <<>>
      /\ conn' = Head(backlog) /\ backlog' = Tail(backlog)
      /\ UNCHANGED <<steps, requestHeader, request, decoderInput, response, cvars, up, down>>
  BY DEF Accept
<1>3. conn' \in Clients /\ backlog' \in Seq(Clients)
  BY <1>1, <1>2 DEF TypeOK
<1>4. TypeOK'
  BY <1>1, <1>2, <1>3 DEF TypeOK, ServerStates, ServerServing, cvars
<1>5. ServerInv'
  BY <1>1, <1>2, <1>3 DEF ServerInv, ServerServing
<1>6. ASSUME NEW c \in Clients PROVE PerClient(c)'
  <2>1. PerClient(c) /\ Unserved(c)
    BY <1>1, <1>2 DEF Unserved
  <2>2. UnservedShape(c, cpc[c], sequence[c], outbuf[c], up[c])
    BY <2>1 DEF PerClient, UnservedInv
  <2>3. ClientInv(c)' /\ UnservedInv(c)' /\ ClosedInv(c)' /\ ActionInv(c)' /\ CauseInv(c)'
    BY <1>2, <2>1, <2>2 DEF PerClient, ClientInv, UnservedInv, ClosedInv, ActionInv, CauseInv,
       ServerClosed, cvars
  <2>4. IdleShape(c, cpc[c], sequence[c], outbuf[c], inbuf[c], up[c], down[c])
    BY <2>2 DEF UnservedShape, IdleShape
  <2>5. ServedInv(c)'
    BY <1>2, <2>4 DEF ServedInv, ServedShape, cvars
  <2>6. QED
    BY <2>3, <2>5 DEF PerClient
<1>7. QED
  BY <1>4, <1>5, <1>6 DEF IInv

LEMMA NextIterationInv ==
  ASSUME IInv, NextIteration
  PROVE  IInv'
<1>1. TypeOK /\ ServerInv /\ conn \in Clients /\ PerClient(conn)
  BY DEF IInv, ServerInv, NextIteration, ServerServing
<1>2. /\ spc = "write" /\ spc' = "header" /\ response = <<>> /\ steps' = steps + 1
      /\ UNCHANGED <<conn, requestHeader, request, decoderInput, response, cvars, nvars>>
  BY DEF NextIteration
<1>3. TypeOK'
  BY <1>1, <1>2 DEF TypeOK, ServerStates, ServerServing, cvars, nvars
<1>4. ServerInv'
  BY <1>1, <1>2 DEF ServerInv, ServerServing
<1>5. ClientInv(conn)'
  BY <1>1, <1>2 DEF PerClient, ClientInv, cvars, nvars
<1>6. ServedInv(conn)'
  BY <1>1, <1>2 DEF PerClient, ServedInv, ServedShape, cvars, nvars
<1>7. QED
  BY <1>2, <1>3, <1>4, <1>5, <1>6, ServerFrame DEF IInv, ServerServing, nvars

LEMMA ReadHeaderInv ==
  ASSUME IInv, ReadHeader
  PROVE  IInv'
<1> DEFINE n == sequence[conn]
<1>1. /\ TypeOK /\ ServerInv /\ conn \in Clients /\ PerClient(conn) /\ n \in Nat
      /\ spc = "header" /\ up[conn] # <<>>
  BY DEF IInv, TypeOK, ServerInv, ReadHeader, ServerServing
<1>2. /\ ClientShape(conn, cpc[conn], step[conn], n, outbuf[conn], inbuf[conn], up[conn], down[conn])
      /\ IdleShape(conn, cpc[conn], n, outbuf[conn], inbuf[conn], up[conn], down[conn])
  BY <1>1 DEF PerClient, ClientInv, ServedInv, ServedShape
<1>3. up[conn] \in {<<ReqH(n)>>, <<ReqH(n), ReqB(conn, n)>>}
  BY <1>1, <1>2 DEF IdleShape, UnreadShape
<1>4. /\ Head(up[conn]) = ReqH(n)
      /\ up[conn] = <<ReqH(n)>> => Tail(up[conn]) = <<>>
      /\ up[conn] = <<ReqH(n), ReqB(conn, n)>> => Tail(up[conn]) = <<ReqB(conn, n)>>
  <2>1. CASE up[conn] = <<ReqH(n)>>
    BY <2>1, Pairs
  <2>2. CASE up[conn] = <<ReqH(n), ReqB(conn, n)>>
    BY <2>2, Pairs
  <2>3. QED
    BY <1>3, <2>1, <2>2
<1>5. /\ spc' = "body" /\ requestHeader' = ReqH(n) /\ up' = [up EXCEPT ![conn] = Tail(up[conn])]
      /\ UNCHANGED <<conn, steps, request, decoderInput, response, cvars, down, backlog>>
  BY <1>1, <1>4, PartFacts DEF ReadHeader
<1>6. up'[conn] = Tail(up[conn]) /\ \A d \in Clients \ {conn} : up'[d] = up[d]
  BY <1>1, <1>5 DEF TypeOK
<1>7. TypeOK'
  <2>1. up[conn] \in Seq(Parts)
    BY <1>1 DEF TypeOK
  <2>2. Tail(up[conn]) \in Seq(Parts)
    BY <1>1, <2>1
  <2>3. up' \in [Clients -> Seq(Parts)]
    BY <1>1, <1>5, <2>2 DEF TypeOK
  <2>4. requestHeader' \in Headers
    BY <1>1, <1>5, PartFacts
  <2>5. QED
    BY <1>1, <1>5, <2>3, <2>4 DEF TypeOK, ServerStates, ServerServing, cvars
<1>8. ServerInv'
  BY <1>1, <1>5 DEF ServerInv, ServerServing
<1>9. /\ cpc[conn] \notin {"connect", "observe", "apply"}
      /\ cpc[conn] = "send" => outbuf[conn] = <<ReqB(conn, n)>> /\ up[conn] = <<ReqH(n)>>
      /\ cpc[conn] = "recv" => up[conn] = <<ReqH(n), ReqB(conn, n)>>
                               /\ inbuf[conn] = <<>> /\ down[conn] = <<>>
  <2>1. up[conn] # <<>> /\ <<ReqH(n)>> # <<ReqH(n), ReqB(conn, n)>>
    BY <1>1, Pairs
  <2>2. cpc[conn] \notin {"connect", "observe", "apply"}
    BY <1>2, <2>1 DEF ClientShape
  <2>3. cpc[conn] = "send" => outbuf[conn] = <<ReqB(conn, n)>> /\ up[conn] = <<ReqH(n)>>
    BY <1>2, <2>1 DEF ClientShape
  <2>4. ASSUME cpc[conn] = "recv"
        PROVE  up[conn] = <<ReqH(n), ReqB(conn, n)>> /\ inbuf[conn] = <<>> /\ down[conn] = <<>>
    <3>1. /\ up[conn] \in {<<>>, <<ReqB(conn, n)>>, <<ReqH(n), ReqB(conn, n)>>}
          /\ up[conn] # <<>> => inbuf[conn] = <<>> /\ down[conn] = <<>>
      BY <1>2, <2>4 DEF ClientShape
    <3>2. <<ReqH(n)>> # <<>> /\ <<ReqH(n)>> # <<ReqB(conn, n)>>
      <4>1. ReqH(n) # ReqB(conn, n)
        BY <1>1, PartFacts
      <4>2. <<ReqH(n)>>[1] = ReqH(n) /\ <<ReqB(conn, n)>>[1] = ReqB(conn, n)
        BY Pairs
      <4>3. QED
        BY <4>1, <4>2, Pairs
    <3>3. QED
      BY <1>3, <2>1, <3>1, <3>2
  <2>5. QED
    BY <2>2, <2>3, <2>4
<1>10. ClientInv(conn)'
  <2>1. ClientShape(conn, cpc[conn], step[conn], n, outbuf[conn], inbuf[conn], Tail(up[conn]),
                    down[conn])
    <3>1. CASE cpc[conn] = "send"
      <4>1. outbuf[conn] = <<ReqB(conn, n)>> /\ Tail(up[conn]) = <<>>
        BY <1>4, <1>9, <3>1
      <4>2. QED
        BY <1>2, <3>1, <4>1 DEF ClientShape
    <3>2. CASE cpc[conn] = "recv"
      <4>1. inbuf[conn] = <<>> /\ down[conn] = <<>> /\ Tail(up[conn]) = <<ReqB(conn, n)>>
        BY <1>4, <1>9, <3>2
      <4>2. QED
        BY <1>2, <3>2, <4>1 DEF ClientShape
    <3>3. CASE cpc[conn] \notin {"send", "recv"}
      BY <1>2, <1>3, <1>4, <1>9, <3>3 DEF ClientShape
    <3>4. QED
      BY <3>1, <3>2, <3>3
  <2>2. QED
    BY <1>5, <1>6, <2>1 DEF ClientInv, cvars
<1>11. ServedInv(conn)'
  <2>1. BodyShape(conn, cpc[conn], n, outbuf[conn], Tail(up[conn]))
    <3>1. /\ Tail(up[conn]) \in {<<>>, <<ReqB(conn, n)>>}
          /\ cpc[conn] = "send" => Tail(up[conn]) = <<>>
          /\ cpc[conn] = "recv" => Tail(up[conn]) = <<ReqB(conn, n)>>
      BY <1>3, <1>4, <1>9
    <3>2. <<ReqB(conn, n)>> # <<>>
      BY Pairs
    <3>3. QED
      BY <1>9, <3>1, <3>2 DEF BodyShape
  <2>2. QED
    BY <1>5, <1>6, <2>1 DEF ServedInv, ServedShape, cvars
<1>12. QED
  BY <1>1, <1>5, <1>6, <1>7, <1>8, <1>10, <1>11, ServerFrame DEF ServerServing

LEMMA ReadBodyInv ==
  ASSUME IInv, ReadBody
  PROVE  IInv'
<1> DEFINE n == sequence[conn]
<1>1. /\ TypeOK /\ ServerInv /\ conn \in Clients /\ PerClient(conn) /\ n \in Nat
      /\ spc = "body" /\ up[conn] # <<>>
  BY DEF IInv, TypeOK, ServerInv, ReadBody, ServerServing
<1>2. /\ ClientShape(conn, cpc[conn], step[conn], n, outbuf[conn], inbuf[conn], up[conn], down[conn])
      /\ requestHeader = ReqH(n)
      /\ BodyShape(conn, cpc[conn], n, outbuf[conn], up[conn])
  BY <1>1 DEF PerClient, ClientInv, ServedInv, ServedShape
<1>3. up[conn] = <<ReqB(conn, n)>>
  BY <1>1, <1>2 DEF BodyShape
<1>4. Head(up[conn]) = ReqB(conn, n) /\ Tail(up[conn]) = <<>>
  BY <1>3, Pairs
<1>5. /\ spc' = "encode" /\ request' = ReqB(conn, n) /\ up' = [up EXCEPT ![conn] = <<>>]
      /\ UNCHANGED <<conn, steps, requestHeader, decoderInput, response, cvars, down, backlog>>
  BY <1>4 DEF ReadBody
<1>6. up'[conn] = <<>> /\ \A d \in Clients \ {conn} : up'[d] = up[d]
  BY <1>1, <1>5 DEF TypeOK
<1>7. TypeOK'
  <2>1. up' \in [Clients -> Seq(Parts)]
    BY <1>1, <1>5, EmptySeq DEF TypeOK
  <2>2. request' \in RequestBodies
    BY <1>1, <1>5, PartFacts
  <2>3. QED
    BY <1>1, <1>5, <2>1, <2>2 DEF TypeOK, ServerStates, ServerServing, cvars
<1>8. ServerInv'
  <2>1. requestHeader.sequence = n
    BY <1>1, <1>2, PartFacts
  <2>2. QED
    BY <1>1, <1>2, <1>5, <2>1 DEF ServerInv, ServerServing
<1>9. /\ cpc[conn] \in {"recv", "done", "failed", "lost"}
      /\ cpc[conn] = "recv" => inbuf[conn] = <<>> /\ down[conn] = <<>>
  BY <1>1, <1>2 DEF ClientShape, BodyShape, TypeOK, ClientStates, ClientRunning
<1>10. ClientInv(conn)'
  <2>1. ClientShape(conn, cpc[conn], step[conn], n, outbuf[conn], inbuf[conn], <<>>, down[conn])
    BY <1>2, <1>9 DEF ClientShape
  <2>2. QED
    BY <1>5, <1>6, <2>1 DEF ClientInv, cvars
<1>11. ServedInv(conn)'
  BY <1>2, <1>5, <1>6, <1>9 DEF ServedInv, ServedShape, BusyShape, cvars
<1>12. QED
  BY <1>1, <1>5, <1>6, <1>7, <1>8, <1>10, <1>11, ServerFrame DEF ServerServing

LEMMA EncodeInv ==
  ASSUME IInv, Encode
  PROVE  IInv'
<1> DEFINE n == sequence[conn]
<1>1. /\ TypeOK /\ ServerInv /\ conn \in Clients /\ PerClient(conn) /\ n \in Nat
      /\ spc = "encode" /\ spc' = "decode" /\ decoderInput' = AssembledInput
      /\ UNCHANGED <<conn, steps, requestHeader, request, response, cvars, nvars>>
  BY DEF IInv, TypeOK, ServerInv, Encode, ServerServing
<1>2. /\ requestHeader = ReqH(n) /\ request = ReqB(conn, n)
      /\ BusyShape(cpc[conn], inbuf[conn], up[conn], down[conn])
  BY <1>1 DEF PerClient, ServedInv, ServedShape
<1>3. decoderInput' = [token |-> Own(conn, n), context |-> Own(conn, n)]
  BY <1>1, <1>2, PartFacts DEF AssembledInput
<1>4. TypeOK'
  <2>1. Own(conn, n) \in Observations
    BY <1>1, PartFacts
  <2>2. decoderInput' \in [token : Observations, context : Observations]
    BY <1>3, <2>1
  <2>3. QED
    BY <1>1, <2>2 DEF TypeOK, ServerStates, ServerServing, cvars, nvars
<1>5. ServerInv'
  BY <1>1 DEF ServerInv, ServerServing
<1>6. ClientInv(conn)'
  BY <1>1 DEF PerClient, ClientInv, cvars, nvars
<1>7. ServedInv(conn)'
  BY <1>1, <1>2, <1>3 DEF ServedInv, ServedShape, cvars, nvars
<1>8. QED
  BY <1>1, <1>4, <1>5, <1>6, <1>7, ServerFrame DEF ServerServing, nvars

LEMMA DecodeInv ==
  ASSUME IInv, Decode
  PROVE  IInv'
<1> DEFINE n == sequence[conn]
<1>1. /\ TypeOK /\ ServerInv /\ conn \in Clients /\ PerClient(conn) /\ n \in Nat
      /\ spc = "decode" /\ spc' = "write"
      /\ UNCHANGED <<conn, steps, requestHeader, request, decoderInput, cvars, nvars>>
  BY DEF IInv, TypeOK, ServerInv, Decode, ServerServing
<1>2. /\ requestHeader = ReqH(n) /\ decoderInput = [token |-> Own(conn, n), context |-> Own(conn, n)]
      /\ BusyShape(cpc[conn], inbuf[conn], up[conn], down[conn])
  BY <1>1 DEF PerClient, ServedInv, ServedShape
<1>3. PICK f \in BOOLEAN :
        response' = <<ResponseHeader, ResponseBody([enc |-> decoderInput.token,
                                                    dec |-> decoderInput.context,
                                                    finite |-> f])>>
  BY DEF Decode
<1>4. response' = <<RespH(n), RespB(conn, n, f)>>
  <2>1. ResponseHeader = RespH(n)
    BY <1>1, <1>2, PartFacts DEF ResponseHeader, RespH
  <2>2. decoderInput.token = Own(conn, n) /\ decoderInput.context = Own(conn, n)
    BY <1>2
  <2>3. QED
    BY <1>3, <2>1, <2>2 DEF RespB, OwnAction
<1>5. TypeOK'
  <2>1. RespH(n) \in Parts /\ RespB(conn, n, f) \in Parts
    BY <1>1, PartFacts DEF Parts
  <2>2. response' \in Seq(Parts)
    BY <1>4, <2>1
  <2>3. QED
    BY <1>1, <2>2 DEF TypeOK, ServerStates, ServerServing, cvars, nvars
<1>6. ServerInv'
  BY <1>1 DEF ServerInv, ServerServing
<1>7. ClientInv(conn)'
  BY <1>1 DEF PerClient, ClientInv, cvars, nvars
<1>8. ServedInv(conn)'
  <2>1. WriteShape(conn, cpc[conn], n, inbuf[conn], up[conn], down[conn], response')
    BY <1>2, <1>4 DEF BusyShape, WriteShape
  <2>2. response' # <<>>
    BY <1>4, Pairs
  <2>3. QED
    BY <1>1, <2>1, <2>2 DEF ServedInv, ServedShape, cvars, nvars
<1>9. QED
  BY <1>1, <1>5, <1>6, <1>7, <1>8, ServerFrame DEF ServerServing, nvars

LEMMA WriteInv ==
  ASSUME IInv, Write
  PROVE  IInv'
<1> DEFINE n == sequence[conn]
<1>1. /\ TypeOK /\ ServerInv /\ conn \in Clients /\ PerClient(conn) /\ n \in Nat
      /\ spc = "write" /\ response # <<>> /\ response' = Tail(response) /\ spc' = spc
      /\ UNCHANGED <<conn, steps, requestHeader, request, decoderInput, cvars, up, backlog>>
  BY DEF IInv, TypeOK, ServerInv, Write, ServerServing
<1>2. down' = IF ClientClosed(conn) THEN down
              ELSE [down EXCEPT ![conn] = Append(down[conn], Head(response))]
  BY DEF Write
<1>3. /\ ClientShape(conn, cpc[conn], step[conn], n, outbuf[conn], inbuf[conn], up[conn], down[conn])
      /\ WriteShape(conn, cpc[conn], n, inbuf[conn], up[conn], down[conn], response)
  BY <1>1 DEF PerClient, ClientInv, ServedInv, ServedShape
<1>4. /\ down'[conn] = IF ClientClosed(conn) THEN down[conn]
                       ELSE Append(down[conn], Head(response))
      /\ \A d \in Clients \ {conn} : down'[d] = down[d]
  BY <1>1, <1>2 DEF TypeOK
<1>5. TypeOK'
  <2>1. response \in Seq(Parts) /\ down[conn] \in Seq(Parts)
    BY <1>1 DEF TypeOK
  <2>2. Tail(response) \in Seq(Parts) /\ Append(down[conn], Head(response)) \in Seq(Parts)
    BY <1>1, <2>1
  <2>3. down' \in [Clients -> Seq(Parts)]
    BY <1>1, <1>2, <2>2 DEF TypeOK
  <2>4. QED
    BY <1>1, <2>2, <2>3 DEF TypeOK, cvars
<1>6. ServerInv'
  BY <1>1 DEF ServerInv, ServerServing
<1>7. PICK f \in BOOLEAN :
        \/ response = <<RespH(n), RespB(conn, n, f)>>
           /\ (cpc[conn] = "recv" => inbuf[conn] = <<>> /\ down[conn] = <<>>)
        \/ response = <<RespB(conn, n, f)>>
           /\ (cpc[conn] = "recv" => \/ inbuf[conn] = <<RespH(n)>> /\ down[conn] = <<>>
                                     \/ inbuf[conn] = <<>> /\ down[conn] = <<RespH(n)>>)
  BY <1>3 DEF WriteShape
<1>8. up[conn] = <<>> /\ cpc[conn] \in {"recv", "done", "failed", "lost"}
  BY <1>3 DEF WriteShape
<1>9. CASE cpc[conn] # "recv"
  <2>1. cpc[conn] \in {"done", "failed"} => down'[conn] = down[conn]
    BY <1>4 DEF ClientClosed
  <2>2. ClientShape(conn, cpc[conn], step[conn], n, outbuf[conn], inbuf[conn], up[conn], down'[conn])
    <3>1. CASE cpc[conn] \in {"done", "failed"}
      BY <1>3, <2>1, <3>1
    <3>2. CASE cpc[conn] = "lost"
      BY <1>8, <3>2 DEF ClientShape
    <3>3. QED
      BY <1>8, <1>9, <3>1, <3>2
  <2>3. response' \in {<<>>, <<RespB(conn, n, f)>>}
    <3>1. CASE response = <<RespH(n), RespB(conn, n, f)>>
      BY <1>1, <3>1, Pairs
    <3>2. CASE response = <<RespB(conn, n, f)>>
      BY <1>1, <3>2, Pairs
    <3>3. QED
      BY <1>7, <3>1, <3>2
  <2>4. response' # <<>> =>
          WriteShape(conn, cpc[conn], n, inbuf[conn], up[conn], down'[conn], response')
    BY <1>8, <1>9, <2>3 DEF WriteShape
  <2>5. IdleShape(conn, cpc[conn], n, outbuf[conn], inbuf[conn], up[conn], down'[conn])
    BY <1>8, <1>9 DEF IdleShape, UnreadShape
  <2>6. ClientInv(conn)' /\ ServedInv(conn)'
    BY <1>1, <2>2, <2>4, <2>5 DEF ClientInv, ServedInv, ServedShape, cvars
  <2>7. QED
    BY <1>1, <1>4, <1>5, <1>6, <2>6, ServerFrame DEF ServerServing
<1>10. CASE cpc[conn] = "recv"
  <2>1. down'[conn] = Append(down[conn], Head(response))
    BY <1>4, <1>10 DEF ClientClosed
  <2>2. outbuf[conn] = <<>>
    BY <1>3, <1>10 DEF ClientShape
  <2>3. CASE response = <<RespH(n), RespB(conn, n, f)>>
    <3>1. inbuf[conn] = <<>> /\ down[conn] = <<>>
      BY <1>7, <1>10, <2>3, Pairs
    <3>2. response' = <<RespB(conn, n, f)>> /\ down'[conn] = <<RespH(n)>>
      BY <1>1, <2>1, <2>3, <3>1, Pairs
    <3>3. ClientInv(conn)'
      BY <1>1, <1>3, <1>8, <1>10, <3>1, <3>2, Pairs
         DEF ClientInv, ClientShape, PartialShape, cvars
    <3>4. WriteShape(conn, cpc[conn], n, inbuf[conn], up[conn], down'[conn], response')
      BY <1>8, <3>1, <3>2 DEF WriteShape
    <3>5. ServedInv(conn)'
      BY <1>1, <3>2, <3>4, Pairs DEF ServedInv, ServedShape, cvars
    <3>6. QED
      BY <1>1, <1>4, <1>5, <1>6, <3>3, <3>5, ServerFrame DEF ServerServing
  <2>4. CASE response = <<RespB(conn, n, f)>>
    <3>1. \/ inbuf[conn] = <<RespH(n)>> /\ down[conn] = <<>>
          \/ inbuf[conn] = <<>> /\ down[conn] = <<RespH(n)>>
      BY <1>7, <1>10, <2>4, Pairs
    <3>2. response' = <<>>
      BY <1>1, <2>4, Pairs
    <3>3. \/ inbuf[conn] = <<RespH(n)>> /\ down'[conn] = <<RespB(conn, n, f)>>
          \/ inbuf[conn] = <<>> /\ down'[conn] = <<RespH(n), RespB(conn, n, f)>>
      <4>1. Head(response) = RespB(conn, n, f)
        BY <2>4, Pairs
      <4>2. CASE inbuf[conn] = <<RespH(n)>> /\ down[conn] = <<>>
        BY <2>1, <4>1, <4>2, Pairs
      <4>3. CASE inbuf[conn] = <<>> /\ down[conn] = <<RespH(n)>>
        BY <2>1, <4>1, <4>3, Pairs
      <4>4. QED
        BY <3>1, <4>2, <4>3
    <3>4. AnswerShape(conn, n, inbuf[conn], down'[conn])
      BY <3>3 DEF AnswerShape
    <3>5. ClientInv(conn)'
      <4>1. ClientShape(conn, cpc[conn], step[conn], n, outbuf[conn], inbuf[conn], up[conn],
                        down'[conn])
        BY <1>3, <1>8, <1>10, <3>4 DEF ClientShape, PartialShape
      <4>2. QED
        BY <1>1, <4>1 DEF ClientInv, cvars
    <3>6. IdleShape(conn, cpc[conn], n, outbuf[conn], inbuf[conn], up[conn], down'[conn])
      BY <1>8, <1>10, <3>4 DEF IdleShape, UnreadShape
    <3>7. ServedInv(conn)'
      BY <1>1, <3>2, <3>6 DEF ServedInv, ServedShape, cvars
    <3>8. QED
      BY <1>1, <1>4, <1>5, <1>6, <3>5, <3>7, ServerFrame DEF ServerServing
  <2>5. QED
    BY <1>7, <2>3, <2>4
<1>11. QED
  BY <1>9, <1>10

\* A response cut short is still the beginning of the response.
LEMMA PartialPrefix ==
  ASSUME NEW c, NEW n, NEW in, NEW d, PartialShape(c, n, in, d), NEW rest \in Surviving(d)
  PROVE  PartialShape(c, n, in, rest)
<1>1. PICK f \in BOOLEAN :
        \/ in = <<>> /\ d = <<>>
        \/ in = <<>> /\ d = <<RespH(n)>>
        \/ in = <<RespH(n)>> /\ d = <<>>
        \/ in = <<>> /\ d = <<RespH(n), RespB(c, n, f)>>
        \/ in = <<RespH(n)>> /\ d = <<RespB(c, n, f)>>
  BY DEF PartialShape, AnswerShape
<1>2. CASE in = <<>> /\ d = <<>>
  BY <1>2, PairPrefixes DEF PartialShape
<1>3. CASE in = <<>> /\ d = <<RespH(n)>>
  BY <1>3, PairPrefixes DEF PartialShape
<1>4. CASE in = <<RespH(n)>> /\ d = <<>>
  BY <1>4, PairPrefixes DEF PartialShape
<1>5. CASE in = <<>> /\ d = <<RespH(n), RespB(c, n, f)>>
  BY <1>5, PairPrefixes DEF PartialShape, AnswerShape
<1>6. CASE in = <<RespH(n)>> /\ d = <<RespB(c, n, f)>>
  BY <1>6, PairPrefixes DEF PartialShape, AnswerShape
<1>7. QED
  BY <1>1, <1>2, <1>3, <1>4, <1>5, <1>6

\* Closing both sockets keeps, of every exchange, a beginning.
LEMMA CloseServerInv ==
  ASSUME IInv, spc \in {"load", "accept"} \cup ServerServing,
         spc' \in {"exit0", "exit1", "killed"}, CloseServer, steps' \in Nat,
         UNCHANGED <<conn, requestHeader, request, decoderInput, response, cvars>>
  PROVE  IInv'
<1>1. TypeOK /\ ServerInv /\ \A c \in Clients : PerClient(c)
  BY DEF IInv
<1>2. up' = [c \in Clients |-> <<>>] /\ backlog' = <<>>
  BY DEF CloseServer
<1>3. /\ down' \in [Clients -> Seq(Parts)]
      /\ \A c \in Clients : down'[c] = down[c] \/ down'[c] \in Surviving(down[c])
  <2>1. CASE down' = down
    BY <1>1, <2>1 DEF TypeOK
  <2>2. CASE down' # down
    <3>1. conn \in Clients
      BY <2>2 DEF CloseServer
    <3>2. PICK rest \in Surviving(down[conn]) : down' = [down EXCEPT ![conn] = rest]
      BY <2>2 DEF CloseServer
    <3>3. down[conn] \in Seq(Parts) /\ down \in [Clients -> Seq(Parts)]
      BY <1>1, <3>1 DEF TypeOK
    <3>4. rest \in Seq(Parts)
      BY <3>2, <3>3, SurvivingType
    <3>5. QED
      BY <3>1, <3>2, <3>3, <3>4
  <2>3. QED
    BY <2>1, <2>2
<1>4. TypeOK'
  <2>1. up' \in [Clients -> Seq(Parts)] /\ backlog' \in Seq(Clients)
    BY <1>2, EmptySeq
  <2>2. QED
    BY <1>1, <1>3, <2>1 DEF TypeOK, ServerStates, cvars
<1>5. ServerInv'
  BY DEF ServerInv, ServerServing
<1>6. ASSUME NEW c \in Clients PROVE PerClient(c)'
  <2>1. PerClient(c) /\ up'[c] = <<>>
    BY <1>1, <1>2
  <2>2. ClientInv(c)'
    <3>1. ClientShape(c, cpc[c], step[c], sequence[c], outbuf[c], inbuf[c], up[c], down[c])
      BY <2>1 DEF PerClient, ClientInv
    <3>2. down[c] = <<>> => down'[c] = <<>>
      BY <1>3, PairPrefixes
    <3>3. PartialShape(c, sequence[c], inbuf[c], down[c]) =>
            PartialShape(c, sequence[c], inbuf[c], down'[c])
      BY <1>3, PartialPrefix
    <3>4. ClientShape(c, cpc[c], step[c], sequence[c], outbuf[c], inbuf[c], <<>>, down'[c])
      BY <3>1, <3>2, <3>3 DEF ClientShape
    <3>5. QED
      BY <2>1, <3>4 DEF ClientInv, cvars
  <2>3. UnservedInv(c)' /\ ServedInv(c)'
    BY DEF UnservedInv, ServedInv, Unserved, ServedShape, ServerServing
  <2>4. ClosedInv(c)' /\ ActionInv(c)' /\ CauseInv(c)'
    BY <2>1 DEF PerClient, ClosedInv, ActionInv, CauseInv, cvars
  <2>5. QED
    BY <2>2, <2>3, <2>4 DEF PerClient
<1>7. QED
  BY <1>4, <1>5, <1>6 DEF IInv

LEMMA ExitInv ==
  ASSUME IInv, spc \in {"load", "accept"} \cup ServerServing,
         NEW how \in {"exit0", "exit1", "killed"}, Exit(how)
  PROVE  IInv'
BY CloseServerInv DEF Exit, IInv, TypeOK

LEMMA BudgetSpentInv ==
  ASSUME IInv, BudgetSpent
  PROVE  IInv'
<1>1. steps' \in Nat /\ spc \in ServerServing
  BY DEF BudgetSpent, IInv, TypeOK, ServerServing
<1>2. QED
  BY <1>1, CloseServerInv DEF BudgetSpent

LEMMA ServerLostInv ==
  ASSUME IInv, ServerLost
  PROVE  IInv'
<1>1. TypeOK /\ ServerInv /\ \A c \in Clients : PerClient(c)
  BY DEF IInv
<1>2. /\ spc' = "lost"
      /\ UNCHANGED <<conn, steps, requestHeader, request, decoderInput, response, cvars, nvars>>
  BY DEF ServerLost
<1>3. TypeOK'
  BY <1>1, <1>2 DEF TypeOK, ServerStates, cvars, nvars
<1>4. ServerInv'
  BY <1>2 DEF ServerInv, ServerServing
<1>5. ASSUME NEW c \in Clients PROVE PerClient(c)'
  <2>1. ClientInv(c)' /\ ActionInv(c)' /\ CauseInv(c)'
    BY <1>1, <1>2 DEF PerClient, ClientInv, ActionInv, CauseInv, cvars, nvars
  <2>2. UnservedInv(c)' /\ ServedInv(c)' /\ ClosedInv(c)'
    BY <1>2
       DEF UnservedInv, ServedInv, ClosedInv, Unserved, ServedShape, ServerClosed,
           ServerServing
  <2>3. QED
    BY <2>1, <2>2 DEF PerClient
<1>6. QED
  BY <1>3, <1>4, <1>5 DEF IInv

-----------------------------------------------------------------------------
(* The steps together. *)

LEMMA ClientStepInv ==
  ASSUME IInv, NEW c \in Clients, ClientStep(c) \/ ClientCrash(c) \/ ClientLost(c)
  PROVE  IInv'
<1>1. CASE Connect(c)
  BY <1>1, ConnectInv
<1>2. CASE ConnectRefused(c)
  BY <1>2, FailInv DEF ConnectRefused, Causes, ClientRunning
<1>3. CASE ConnectTimeout(c)
  BY <1>3, FailInv DEF ConnectTimeout, Causes, ClientRunning
<1>4. CASE Observe(c)
  BY <1>4, ObserveInv
<1>5. CASE SequenceOverflow(c)
  BY <1>5, SequenceOverflowInv
<1>6. CASE Send(c)
  BY <1>6, SendInv
<1>7. CASE SendFails(c)
  BY <1>7, FailInv DEF SendFails, Causes, ClientRunning
<1>8. CASE Recv(c)
  BY <1>8, RecvInv
<1>9. CASE RecvFails(c)
  BY <1>9, FailInv DEF RecvFails, Causes, ClientRunning
<1>10. CASE SocketTimeout(c)
  BY <1>10, FailInv DEF SocketTimeout, Causes, ClientRunning
<1>11. CASE Apply(c)
  BY <1>11, ApplyInv
<1>12. CASE PhysicsDiverges(c)
  BY <1>12, PhysicsDivergesInv
<1>13. CASE Finish(c)
  BY <1>13, FinishInv
<1>14. CASE ClientCrash(c)
  BY <1>14, FailInv DEF ClientCrash, Causes
<1>15. CASE ClientLost(c)
  BY <1>15, ClientLostInv
<1>16. QED
  BY <1>1, <1>2, <1>3, <1>4, <1>5, <1>6, <1>7, <1>8, <1>9, <1>10, <1>11, <1>12, <1>13, <1>14,
      <1>15
  DEF ClientStep

LEMMA ServerStepInv ==
  ASSUME IInv, ServerStep \/ ServerCrash \/ ServerLost
  PROVE  IInv'
<1>1. CASE Load
  BY <1>1, LoadInv
<1>2. CASE Accept
  BY <1>2, AcceptInv
<1>3. CASE ReadHeader
  BY <1>3, ReadHeaderInv
<1>4. CASE ReadBody
  BY <1>4, ReadBodyInv
<1>5. CASE PeerClosed
  BY <1>5, ExitInv DEF PeerClosed, ServerServing
<1>6. CASE PeerUnreachable
  BY <1>6, ExitInv DEF PeerUnreachable, ServerServing
<1>7. CASE Encode
  BY <1>7, EncodeInv
<1>8. CASE Decode
  BY <1>8, DecodeInv
<1>9. CASE NpuFails
  BY <1>9, ExitInv DEF NpuFails, ServerServing
<1>10. CASE Write
  BY <1>10, WriteInv
<1>11. CASE WriteFails
  BY <1>11, ExitInv DEF WriteFails, ServerServing
<1>12. CASE NextIteration
  BY <1>12, NextIterationInv
<1>13. CASE BudgetSpent
  BY <1>13, BudgetSpentInv
<1>14. CASE ServerCrash
  BY <1>14, ExitInv DEF ServerCrash
<1>15. CASE ServerLost
  BY <1>15, ServerLostInv
<1>16. QED
  BY <1>1, <1>2, <1>3, <1>4, <1>5, <1>6, <1>7, <1>8, <1>9, <1>10, <1>11, <1>12, <1>13, <1>14,
      <1>15
  DEF ServerStep

LEMMA InitInv ==
  ASSUME Init
  PROVE  IInv
<1>1. /\ \A c \in Clients : /\ cpc[c] = "connect" /\ cause[c] = "none" /\ step[c] = 0
                            /\ sequence[c] = 0 /\ lastAction[c] = ZeroAction
                            /\ outbuf[c] = <<>> /\ inbuf[c] = <<>> /\ up[c] = <<>> /\ down[c] = <<>>
      /\ spc = "load" /\ conn = NoClient /\ response = <<>>
  BY DEF Init
<1>2. TypeOK
  <2>1. /\ outbuf \in [Clients -> Seq(Parts)] /\ inbuf \in [Clients -> Seq(Parts)]
        /\ up \in [Clients -> Seq(Parts)] /\ down \in [Clients -> Seq(Parts)]
        /\ response \in Seq(Parts) /\ backlog \in Seq(Clients)
    BY EmptySeq DEF Init
  <2>2. history \in [Clients -> [1 .. History -> Frames]] /\ lastAction \in [Clients -> Actions]
    BY DataTypes DEF Init
  <2>3. /\ requestHeader \in Headers /\ request \in RequestBodies
        /\ decoderInput \in [token : Observations, context : Observations]
    BY DataTypes DEF Init
  <2>4. /\ cpc \in [Clients -> ClientStates] /\ cause \in [Clients -> Causes]
        /\ step \in [Clients -> Nat] /\ sequence \in [Clients -> Nat]
        /\ spc \in ServerStates /\ conn \in Clients \cup {NoClient} /\ steps \in Nat
    BY DEF Init, ClientStates, ClientRunning, Causes, ServerStates
  <2>5. QED
    BY <2>1, <2>2, <2>3, <2>4 DEF TypeOK
<1>3. ServerInv
  BY <1>1 DEF ServerInv, ServerServing
<1>4. ASSUME NEW c \in Clients PROVE PerClient(c)
  <2>1. ClientInv(c)
    BY <1>1, StepsAssumption DEF ClientInv, ClientShape
  <2>2. UnservedInv(c)
    BY <1>1 DEF UnservedInv, UnservedShape, UnreadShape
  <2>3. ServedInv(c)
    BY <1>1, ClientsAssumption DEF ServedInv
  <2>4. ClosedInv(c) /\ ActionInv(c) /\ CauseInv(c)
    BY <1>1 DEF ClosedInv, ActionInv, CauseInv, ClientRunning
  <2>5. QED
    BY <2>1, <2>2, <2>3, <2>4 DEF PerClient
<1>5. QED
  BY <1>2, <1>3, <1>4 DEF IInv

LEMMA NextInv ==
  ASSUME IInv, [Next]_vars
  PROVE  IInv'
<1>1. CASE \E c \in Clients : ClientStep(c) \/ ClientCrash(c) \/ ClientLost(c)
  BY <1>1, ClientStepInv
<1>2. CASE ServerStep \/ ServerCrash \/ ServerLost
  BY <1>2, ServerStepInv
<1>3. CASE UNCHANGED vars
  <2>1. UNCHANGED svars /\ ServerInv'
    BY <1>3, ServerUntouched DEF IInv, vars
  <2>2. \A c \in Clients : PerClient(c)'
    BY <1>3, Untouched DEF IInv, vars, cvars, nvars
  <2>3. TypeOK'
    BY <1>3 DEF IInv, TypeOK, vars, cvars, svars, nvars
  <2>4. QED
    BY <2>1, <2>2, <2>3 DEF IInv
<1>4. QED
  BY <1>1, <1>2, <1>3 DEF Next, Ended

\* The inductive invariant holds in every reachable state, whatever the number
\* of clients, ticks, faults and the sizes of the buffers: every part of an
\* exchange is where main() of the client and main() of the server expect it.
THEOREM InductiveInvariant == Spec => []IInv
<1>1. Init => IInv
  BY InitInv
<1>2. IInv /\ [Next]_vars => IInv'
  BY NextInv
<1>3. QED
  BY <1>1, <1>2, PTL DEF Spec

\* Type correctness of the session, at every step of both programs.
THEOREM TypeCorrect == Spec => []TypeOK
<1>1. IInv => TypeOK
  BY DEF IInv
<1>2. QED
  BY <1>1, InductiveInvariant, PTL

\* The action that a client applies comes, encoder and decoder alike, from the
\* observation that the same client sent in the same control tick.
THEOREM OwnObservation == Spec => []ActionFromOwnObservation
<1>1. IInv => ActionFromOwnObservation
  <2>1. SUFFICES ASSUME IInv, NEW c \in Clients, step[c] > 0, cause[c] # "physics"
                 PROVE  lastAction[c].enc = Own(c, step[c]) /\ lastAction[c].dec = Own(c, step[c])
    BY DEF ActionFromOwnObservation, Own
  <2>2. step[c] \in Nat /\ step[c] # 0 /\ ActionInv(c)
    BY <2>1 DEF IInv, TypeOK, PerClient
  <2>3. PICK f \in BOOLEAN : lastAction[c] = OwnAction(c, step[c], f)
    BY <2>1, <2>2 DEF ActionInv
  <2>4. QED
    BY <2>2, <2>3, PartFacts
<1>2. QED
  BY <1>1, InductiveInvariant, PTL

\* Request and response alternate: no part of an earlier exchange is under way
\* when a client takes its next observation.
THEOREM Alternation == Spec => []LockStep
<1>1. IInv => LockStep
  BY DEF IInv, PerClient, ClientInv, ClientShape, ServerInv, LockStep
<1>2. QED
  BY <1>1, InductiveInvariant, PTL

\* No reply is ever rejected for its sequence number, and the header that the
\* server answers belongs to the observation vectors that it has read.
THEOREM FramingKept == Spec => []Framing
<1>1. IInv => Framing
  <2>1. SUFFICES ASSUME IInv
                 PROVE  Framing
    OBVIOUS
  <2>2. \A c \in Clients : cause[c] # "reply"
    BY <2>1 DEF IInv, PerClient, CauseInv
  <2>3. ASSUME spc \in {"encode", "decode", "write"}
        PROVE  /\ request.enc = Own(conn, requestHeader.sequence)
               /\ request.dec = request.enc
    <3>1. conn \in Clients /\ requestHeader.sequence \in Nat
      BY <2>1, <2>3 DEF IInv, ServerInv, TypeOK, ServerServing, Headers
    <3>2. request = ReqB(conn, requestHeader.sequence)
      BY <2>1, <2>3 DEF IInv, ServerInv
    <3>3. QED
      BY <3>1, <3>2, PartFacts
  <2>4. QED
    BY <2>2, <2>3 DEF Framing, Own
<1>2. QED
  BY <1>1, InductiveInvariant, PTL
-----------------------------------------------------------------------------
(* Consequences of the inductive invariant: the history a client sends, the *)
(* closed control loop that the session implements, and what a server that  *)
(* returned 0 has delivered.                                                *)

-----------------------------------------------------------------------------
(* The decoder history. *)

\* Frame i of the window that ends with tick newest.
FrameShape(c, frame, tick) ==
  IF tick < 1 THEN frame = ZeroFrame
  ELSE /\ frame.tick = tick
       /\ IF tick = 1 THEN frame.prev = ZeroAction
          ELSE frame.prev.enc = [client |-> c, tick |-> tick - 1]

WindowShape(c, frames, n) ==
  \A i \in 1 .. History : FrameShape(c, frames[i], n - History + i)
WindowOf(c) == WindowShape(c, history[c], sequence[c])

LEMMA WindowMeans == HistoryWindow <=> \A c \in Clients : WindowOf(c)
BY DEF HistoryWindow, WindowOf, WindowShape, FrameShape

\* The frame of the tick that begins carries the action of the tick before.
LEMMA NewFrame ==
  ASSUME IInv, NEW c \in Clients, cpc[c] = "observe", step[c] < Steps[c]
  PROVE  /\ sequence[c] \in Nat /\ NextFrame(c) \in Frames
         /\ FrameShape(c, NextFrame(c), sequence[c] + 1)
<1>1. /\ TypeOK /\ ActionInv(c) /\ CauseInv(c)
      /\ sequence[c] = step[c] /\ step[c] \in Nat
  BY DEF IInv, PerClient, ClientInv, ClientShape, TypeOK
<1>2. cause[c] = "none"
  BY <1>1 DEF CauseInv, ClientRunning
<1>3. NextFrame(c) \in Frames
  BY <1>1 DEF NextFrame, Frames, TypeOK
<1>4. NextFrame(c).tick = sequence[c] + 1 /\ NextFrame(c).prev = lastAction[c]
  BY <1>1 DEF NextFrame
<1>5. CASE step[c] = 0
  <2>1. lastAction[c] = ZeroAction
    BY <1>1, <1>2, <1>5 DEF ActionInv
  <2>2. QED
    BY <1>1, <1>3, <1>4, <1>5, <2>1 DEF FrameShape
<1>6. CASE step[c] # 0
  <2>1. PICK f \in BOOLEAN : lastAction[c] = OwnAction(c, step[c], f)
    BY <1>1, <1>2, <1>6 DEF ActionInv
  <2>2. lastAction[c].enc = [client |-> c, tick |-> sequence[c]]
    BY <1>1, <2>1, PartFacts DEF Own
  <2>3. QED
    BY <1>1, <1>3, <1>4, <1>6, <2>2 DEF FrameShape
<1>7. QED
  BY <1>5, <1>6

\* The new frame comes last, the others move one place forward.
LEMMA PushFrameAt ==
  ASSUME NEW S, NEW frames \in [1 .. History -> S], NEW frame \in S, NEW i \in 1 .. History
  PROVE  PushFrame(frames, frame)[i] = IF i = History THEN frame ELSE frames[i + 1]
<1>1. frames \in Seq(S) /\ Len(frames) = History /\ frames # <<>>
  BY SizesAssumption
<1>2. Tail(frames) \in Seq(S) /\ Len(Tail(frames)) = History - 1
  BY <1>1, SizesAssumption
<1>3. i # History => Tail(frames)[i] = frames[i + 1]
  BY <1>1, SizesAssumption
<1>4. QED
  BY <1>2, <1>3, SizesAssumption DEF PushFrame

\* A window that takes in the frame of the next tick is the next window.
LEMMA ShiftedWindow ==
  ASSUME NEW c, NEW frames \in [1 .. History -> Frames], NEW n \in Nat, NEW frame \in Frames,
         WindowShape(c, frames, n), FrameShape(c, frame, n + 1)
  PROVE  WindowShape(c, PushFrame(frames, frame), n + 1)
<1>1. SUFFICES ASSUME NEW i \in 1 .. History
               PROVE  FrameShape(c, PushFrame(frames, frame)[i], (n + 1) - History + i)
  BY DEF WindowShape
<1>2. PushFrame(frames, frame)[i] = IF i = History THEN frame ELSE frames[i + 1]
  BY PushFrameAt
<1>3. History \in Nat \ {0}
  BY SizesAssumption
<1>4. CASE i = History
  <2>1. (n + 1) - History + i = n + 1
    BY <1>3, <1>4
  <2>2. QED
    BY <1>2, <1>4, <2>1
<1>5. CASE i # History
  <2>1. i + 1 \in 1 .. History /\ (n + 1) - History + i = n - History + (i + 1)
    BY <1>3, <1>5
  <2>2. FrameShape(c, frames[i + 1], n - History + (i + 1))
    BY <2>1 DEF WindowShape
  <2>3. QED
    BY <1>2, <1>5, <2>1, <2>2
<1>6. QED
  BY <1>4, <1>5

\* Both ways of pushing that frame, before a request and before an overflow.
LEMMA PushKeeps ==
  ASSUME IInv, NEW c \in Clients, cpc[c] = "observe", step[c] < Steps[c], HistoryWindow,
         history' = [history EXCEPT ![c] = PushFrame(@, NextFrame(c))],
         sequence' = [sequence EXCEPT ![c] = @ + 1]
  PROVE  HistoryWindow'
<1>1. /\ history \in [Clients -> [1 .. History -> Frames]]
      /\ sequence \in [Clients -> Nat]
  BY DEF IInv, TypeOK
<1>2. /\ history'[c] = PushFrame(history[c], NextFrame(c)) /\ sequence'[c] = sequence[c] + 1
      /\ \A d \in Clients \ {c} : history'[d] = history[d] /\ sequence'[d] = sequence[d]
  BY <1>1
<1>3. \A d \in Clients : WindowOf(d)
  BY WindowMeans
<1>4. \A d \in Clients \ {c} : WindowOf(d)'
  BY <1>2, <1>3 DEF WindowOf, WindowShape, FrameShape
<1>5. WindowShape(c, PushFrame(history[c], NextFrame(c)), sequence[c] + 1)
  <2>1. NextFrame(c) \in Frames /\ FrameShape(c, NextFrame(c), sequence[c] + 1)
    BY NewFrame
  <2>2. WindowShape(c, history[c], sequence[c])
    BY <1>3 DEF WindowOf
  <2>3. history[c] \in [1 .. History -> Frames] /\ sequence[c] \in Nat
    BY <1>1
  <2>4. QED
    BY <2>1, <2>2, <2>3, ShiftedWindow
<1>6. WindowOf(c)'
  <2>1. WindowShape(c, history'[c], sequence'[c])
    BY <1>2, <1>5, Zenon
  <2>2. QED
    BY <2>1 DEF WindowOf, WindowShape, FrameShape
<1>7. QED
  BY <1>4, <1>6 DEF HistoryWindow, WindowOf, WindowShape, FrameShape

\* The decoder history is always the window of the newest ticks, oldest first,
\* whatever the length of the history and wherever a client stops.
THEOREM HistoryKept == Spec => []HistoryWindow
<1>1. Init => HistoryWindow
  <2>1. SUFFICES ASSUME Init, NEW c \in Clients, NEW i \in 1 .. History
                 PROVE  FrameShape(c, history[c][i], sequence[c] - History + i)
    BY WindowMeans DEF WindowOf, WindowShape
  <2>2. sequence[c] = 0 /\ history[c][i] = ZeroFrame
    BY <2>1 DEF Init
  <2>3. QED
    BY <2>2, SizesAssumption DEF FrameShape
<1>2. ASSUME IInv, HistoryWindow, [Next]_vars
      PROVE  HistoryWindow'
  <2>1. CASE UNCHANGED <<history, sequence>>
    BY <1>2, <2>1 DEF HistoryWindow
  <2>2. ASSUME NEW c \in Clients, Observe(c) \/ SequenceOverflow(c)
        PROVE  HistoryWindow'
    BY <1>2, <2>2, PushKeeps DEF Observe, SequenceOverflow
  <2>3. ASSUME NEW c \in Clients, ClientStep(c) \/ ClientCrash(c) \/ ClientLost(c),
               ~Observe(c), ~SequenceOverflow(c)
        PROVE  UNCHANGED <<history, sequence>>
    BY <2>3 DEF ClientStep, ClientCrash, ClientLost, Connect, ConnectRefused, ConnectTimeout,
       Send, SendFails, Recv, RecvFails, SocketTimeout, Apply, PhysicsDiverges, Finish, Fail
  <2>4. ServerStep \/ ServerCrash \/ ServerLost => UNCHANGED <<history, sequence>>
    BY DEF ServerStep, ServerCrash, ServerLost, Load, Accept, ReadHeader, ReadBody, PeerClosed,
       PeerUnreachable, Encode, Decode, NpuFails, Write, WriteFails, NextIteration, BudgetSpent,
       Exit, cvars
  <2>5. UNCHANGED vars => UNCHANGED <<history, sequence>>
    BY DEF vars, cvars
  <2>6. QED
    BY <1>2, <2>1, <2>2, <2>3, <2>4, <2>5 DEF Next, Ended
<1>3. QED
  BY <1>1, <1>2, InductiveInvariant, PTL DEF Spec
-----------------------------------------------------------------------------
(* The closed control loop. *)

\* What has come to a client came from the server that accepted it.
FromOwner == \A c \in Clients : conn # c => down[c] = <<>> /\ inbuf[c] = <<>>

LoopInv == IInv /\ FromOwner

LEMMA FromOwnerStep ==
  ASSUME LoopInv, [Next]_vars
  PROVE  FromOwner'
<1>1. TypeOK /\ FromOwner /\ ServerInv
  BY DEF LoopInv, IInv
<1>2. SUFFICES ASSUME NEW c \in Clients, conn' # c
               PROVE  down'[c] = <<>> /\ inbuf'[c] = <<>>
  BY DEF FromOwner
<1>3. CASE UNCHANGED <<conn, down, inbuf>>
  BY <1>1, <1>2, <1>3 DEF FromOwner
<1>4. ASSUME NEW d \in Clients, ClientStep(d) \/ ClientCrash(d) \/ ClientLost(d)
      PROVE  down'[c] = <<>> /\ inbuf'[c] = <<>>
  <2>1. conn' = conn
    BY <1>4 DEF ClientStep, ClientCrash, ClientLost, Connect, ConnectRefused, ConnectTimeout,
       Observe, SequenceOverflow, Send, SendFails, Recv, RecvFails, SocketTimeout, Apply,
       PhysicsDiverges, Finish, Fail, Leave, svars, nvars
  <2>2. down[c] = <<>> /\ inbuf[c] = <<>>
    BY <1>1, <1>2, <2>1 DEF FromOwner
  <2>3. ASSUME NEW how, NEW why, Leave(d, how, why)
        PROVE  down'[c] = <<>> /\ inbuf'[c] = <<>>
    BY <1>1, <2>2, <2>3 DEF Leave, CloseClient, TypeOK
  <2>4. CASE Recv(d)
    BY <1>1, <2>2, <2>4 DEF Recv, TypeOK
  <2>5. CASE Apply(d) /\ ~Fail(d, "reply") /\ ~Fail(d, "nonfinite")
    BY <1>1, <2>2, <2>5 DEF Apply, TypeOK, nvars
  <2>6. CASE UNCHANGED <<down, inbuf>>
    BY <2>2, <2>6
  <2>7. Connect(d) \/ Observe(d) \/ Send(d) \/ ClientLost(d) => UNCHANGED <<down, inbuf>>
    BY DEF Connect, Observe, Send, ClientLost, nvars
  <2>8. QED
    BY <1>4, <2>3, <2>4, <2>5, <2>6, <2>7
       DEF ClientStep, ClientCrash, ConnectRefused, ConnectTimeout, SequenceOverflow, SendFails,
           RecvFails, SocketTimeout, PhysicsDiverges, Finish, Fail
<1>5. CASE ServerStep \/ ServerCrash \/ ServerLost
  <2>1. inbuf' = inbuf
    BY <1>5 DEF ServerStep, ServerCrash, ServerLost, Load, Accept, ReadHeader, ReadBody,
       PeerClosed, PeerUnreachable, Encode, Decode, NpuFails, Write, WriteFails, NextIteration,
       BudgetSpent, Exit, cvars
  <2>2. CASE Accept
    <3>1. conn = NoClient /\ down' = down
      BY <1>1, <2>2 DEF Accept, ServerInv
    <3>2. QED
      BY <1>1, <2>1, <3>1, ClientsAssumption DEF FromOwner
  <2>3. CASE conn' = conn /\ CloseServer
    BY <1>1, <1>2, <2>1, <2>3 DEF CloseServer, FromOwner, TypeOK
  <2>4. CASE Write
    BY <1>1, <1>2, <2>1, <2>4 DEF Write, FromOwner, TypeOK
  <2>5. CASE conn' = conn /\ down' = down
    BY <1>1, <1>2, <2>1, <2>5 DEF FromOwner
  <2>6. QED
    BY <1>5, <2>2, <2>3, <2>4, <2>5
       DEF ServerStep, ServerCrash, ServerLost, Load, ReadHeader, ReadBody, PeerClosed,
           PeerUnreachable, Encode, Decode, NpuFails, WriteFails, NextIteration, BudgetSpent,
           Exit, nvars
<1>6. QED
  BY <1>3, <1>4, <1>5 DEF Next, Ended, vars, cvars, svars, nvars

\* The client that holds an answer is the one the server has accepted.
LEMMA OwnerActs ==
  ASSUME LoopInv, NEW c \in Clients, cpc[c] = "apply"
  PROVE  conn = c
<1>1. PICK f \in BOOLEAN : inbuf[c] = <<RespH(sequence[c]), RespB(c, sequence[c], f)>>
  BY DEF LoopInv, IInv, PerClient, ClientInv, ClientShape
<1>2. inbuf[c] # <<>>
  BY <1>1, Pairs
<1>3. QED
  BY <1>2 DEF LoopInv, FromOwner

\* The abstract values of one client.
TickOf(c, action) ==
  IF action = ZeroAction THEN 0
  ELSE IF action.enc = action.dec /\ action.enc.client = c THEN action.enc.tick ELSE -1
WaitingAt == {"send", "recv", "apply"}
StatusAt(place) ==
  IF place = "done" THEN "done" ELSE IF place \in {"failed", "lost"} THEN "failed" ELSE "running"

\* The abstract state: tick is step and owner is conn.
Waiting == [c \in Clients |-> cpc[c] \in WaitingAt]
AppliedTicks == [c \in Clients |-> TickOf(c, lastAction[c])]
Status == [c \in Clients |-> StatusAt(cpc[c])]

LEMMA AnswerTick ==
  ASSUME NEW c \in Clients, NEW n \in Nat, NEW f \in BOOLEAN
  PROVE  TickOf(c, OwnAction(c, n, f)) = n
<1>1. /\ OwnAction(c, n, f).enc = Own(c, n) /\ OwnAction(c, n, f).dec = Own(c, n)
      /\ Own(c, n).client = c /\ Own(c, n).tick = n
  BY PartFacts DEF Own
<1>2. ZeroAction.enc.client = NoClient
  BY DEF ZeroAction, Blank
<1>3. OwnAction(c, n, f) # ZeroAction
  BY <1>1, <1>2, ClientsAssumption
<1>4. QED
  BY <1>1, <1>3 DEF TickOf

\* A step that leaves places, actions, ticks and the owner alone is a stutter.
LEMMA LoopStutters ==
  ASSUME UNCHANGED <<conn, step>>, UNCHANGED <<Waiting, AppliedTicks, Status>>
  PROVE  UNCHANGED Control!vars
BY DEF Control!vars, Waiting, AppliedTicks, Status, AppliedTick, TickOf, StatusAt, WaitingAt

LEMMA LoopMoves ==
  ASSUME NEW c \in Clients,
         \/ /\ conn = NoClient /\ conn' = c /\ UNCHANGED <<step, Waiting, AppliedTicks, Status>>
         \/ /\ Status[c] = "running" /\ ~Waiting[c] /\ step[c] < Steps[c]
            /\ Waiting' = [Waiting EXCEPT ![c] = TRUE]
            /\ UNCHANGED <<conn, step, AppliedTicks, Status>>
         \/ /\ Status[c] = "running" /\ Waiting[c] /\ conn = c
            /\ AppliedTicks' = [AppliedTicks EXCEPT ![c] = step[c] + 1]
            /\ step' = [step EXCEPT ![c] = step[c] + 1]
            /\ Waiting' = [Waiting EXCEPT ![c] = FALSE]
            /\ UNCHANGED <<conn, Status>>
         \/ /\ Status[c] = "running" /\ ~Waiting[c] /\ step[c] = Steps[c]
            /\ Status' = [Status EXCEPT ![c] = "done"]
            /\ UNCHANGED <<conn, step, Waiting, AppliedTicks>>
         \/ /\ Status[c] = "running"
            /\ Status' = [Status EXCEPT ![c] = "failed"]
            /\ Waiting' = [Waiting EXCEPT ![c] = FALSE]
            /\ \/ UNCHANGED AppliedTicks
               \/ /\ Waiting[c] /\ conn = c
                  /\ AppliedTicks' = [AppliedTicks EXCEPT ![c] = step[c] + 1]
            /\ UNCHANGED <<conn, step>>
  PROVE  Control!Next
BY DEF Control!Next, Control!Own, Control!Observe, Control!Act, Control!Finish, Control!Fail,
   Waiting, AppliedTicks, Status, AppliedTick, TickOf, StatusAt, WaitingAt

\* The wait of a client ends, the others' is not touched.
LEMMA WaitEnds ==
  ASSUME TypeOK, NEW c \in Clients, NEW place, place \notin WaitingAt,
         cpc' = [cpc EXCEPT ![c] = place]
  PROVE  Waiting' = [Waiting EXCEPT ![c] = FALSE]
<1>1. cpc'[c] = place /\ \A d \in Clients \ {c} : cpc'[d] = cpc[d]
  BY DEF TypeOK
<1>2. \A d \in Clients \ {c} : (cpc'[d] \in WaitingAt) = (cpc[d] \in WaitingAt)
  BY <1>1
<1>3. (cpc'[c] \in WaitingAt) = FALSE
  BY <1>1
<1>4. Waiting' = [d \in Clients |-> cpc'[d] \in WaitingAt]
  BY DEF Waiting, WaitingAt
<1>5. [Waiting EXCEPT ![c] = FALSE]
        = [d \in Clients |-> IF d = c THEN FALSE ELSE cpc[d] \in WaitingAt]
  BY Zenon DEF Waiting
<1>6. QED
  BY <1>2, <1>3, <1>4, <1>5, Zenon

\* Leaving main() by an exception, and losing the host, are failures.
LEMMA FailureMoves ==
  ASSUME TypeOK, NEW c \in Clients, NEW how \in {"failed", "lost"}, cpc[c] \in ClientRunning,
         cpc' = [cpc EXCEPT ![c] = how], UNCHANGED <<conn, step, lastAction>>
  PROVE  Control!Next
<1>1. Status[c] = "running" /\ Status' = [Status EXCEPT ![c] = "failed"]
  BY DEF TypeOK, Status, StatusAt, ClientRunning
<1>2. Waiting' = [Waiting EXCEPT ![c] = FALSE]
  BY WaitEnds DEF WaitingAt
<1>3. UNCHANGED AppliedTicks
  BY DEF AppliedTicks
<1>4. QED
  BY <1>1, <1>2, <1>3, LoopMoves

\* A client that goes on within main() with the same action changes nothing
\* that the contract sees, unless it begins or ends to wait.
LEMMA PlaceStutters ==
  ASSUME TypeOK, NEW c \in Clients, NEW place \in ClientRunning,
         cpc[c] \in ClientRunning, cpc[c] \in WaitingAt <=> place \in WaitingAt,
         cpc' = [cpc EXCEPT ![c] = place], UNCHANGED <<conn, step, lastAction>>
  PROVE  UNCHANGED Control!vars
<1>1. UNCHANGED Status
  BY DEF TypeOK, Status, StatusAt, ClientRunning
<1>2. UNCHANGED Waiting
  <2>1. \A d \in Clients : cpc'[d] \in WaitingAt <=> cpc[d] \in WaitingAt
    BY DEF TypeOK
  <2>2. QED
    BY <2>1 DEF Waiting
<1>3. UNCHANGED AppliedTicks
  BY DEF AppliedTicks
<1>4. QED
  BY <1>1, <1>2, <1>3, LoopStutters

\* The action taken over is the answer to the observation of this tick.
LEMMA AnswerApplied ==
  ASSUME LoopInv, NEW c \in Clients, cpc[c] = "apply",
         lastAction' = [lastAction EXCEPT ![c] = Reply(c)]
  PROVE  /\ conn = c
         /\ AppliedTicks' = [AppliedTicks EXCEPT ![c] = step[c] + 1]
<1>1. PICK f \in BOOLEAN : Reply(c) = OwnAction(c, sequence[c], f)
  BY ReplyFacts DEF LoopInv
<1>2. sequence[c] = step[c] + 1 /\ sequence[c] \in Nat /\ TypeOK
  BY ReplyFacts DEF LoopInv, IInv, TypeOK
<1>3. TickOf(c, Reply(c)) = step[c] + 1
  BY <1>1, <1>2, AnswerTick
<1>4. AppliedTicks' = [AppliedTicks EXCEPT ![c] = TickOf(c, Reply(c))]
  BY <1>2 DEF AppliedTicks, TypeOK
<1>5. QED
  BY <1>3, <1>4, OwnerActs

LEMMA ObserveMoves ==
  ASSUME LoopInv, NEW c \in Clients, Observe(c)
  PROVE  Control!Next
<1>1. /\ TypeOK /\ cpc[c] = "observe" /\ step[c] < Steps[c]
      /\ cpc' = [cpc EXCEPT ![c] = "send"] /\ UNCHANGED <<conn, step, lastAction>>
  BY DEF LoopInv, IInv, Observe, svars
<1>2. Status[c] = "running" /\ ~Waiting[c] /\ UNCHANGED Status
  BY <1>1 DEF TypeOK, Status, StatusAt, Waiting, WaitingAt
<1>3. Waiting' = [Waiting EXCEPT ![c] = TRUE]
  BY <1>1 DEF TypeOK, Waiting, WaitingAt
<1>4. UNCHANGED AppliedTicks
  BY <1>1 DEF AppliedTicks
<1>5. QED
  BY <1>1, <1>2, <1>3, <1>4, LoopMoves

LEMMA ApplyMoves ==
  ASSUME LoopInv, NEW c \in Clients, Apply(c)
  PROVE  Control!Next
<1>1. TypeOK /\ cpc[c] = "apply" /\ ReplyMatches(c)
  BY ReplyFacts DEF LoopInv, IInv, Apply
<1>2. CASE ~Reply(c).finite
  <2>1. cpc' = [cpc EXCEPT ![c] = "failed"] /\ UNCHANGED <<conn, step, lastAction>>
    BY <1>1, <1>2 DEF Apply, Fail, Leave, svars
  <2>2. QED
    BY <1>1, <2>1, FailureMoves DEF ClientRunning
<1>3. CASE Reply(c).finite
  <2>1. /\ lastAction' = [lastAction EXCEPT ![c] = Reply(c)]
        /\ step' = [step EXCEPT ![c] = step[c] + 1]
        /\ cpc' = [cpc EXCEPT ![c] = "observe"] /\ UNCHANGED conn
    BY <1>1, <1>3 DEF Apply, svars
  <2>2. Status[c] = "running" /\ Waiting[c] /\ UNCHANGED Status
    BY <1>1, <2>1 DEF TypeOK, Status, StatusAt, Waiting, WaitingAt
  <2>3. Waiting' = [Waiting EXCEPT ![c] = FALSE]
    BY <1>1, <2>1, WaitEnds DEF WaitingAt
  <2>4. QED
    BY <1>1, <2>1, <2>2, <2>3, AnswerApplied, LoopMoves
<1>4. QED
  BY <1>2, <1>3

LEMMA PhysicsMoves ==
  ASSUME LoopInv, NEW c \in Clients, PhysicsDiverges(c)
  PROVE  Control!Next
<1>1. /\ TypeOK /\ cpc[c] = "apply" /\ cpc' = [cpc EXCEPT ![c] = "failed"]
      /\ lastAction' = [lastAction EXCEPT ![c] = Reply(c)] /\ UNCHANGED <<conn, step>>
  BY DEF LoopInv, IInv, PhysicsDiverges, Leave, svars
<1>2. Status[c] = "running" /\ Waiting[c] /\ Status' = [Status EXCEPT ![c] = "failed"]
  BY <1>1 DEF TypeOK, Status, StatusAt, Waiting, WaitingAt
<1>3. Waiting' = [Waiting EXCEPT ![c] = FALSE]
  BY <1>1, WaitEnds DEF WaitingAt
<1>4. QED
  BY <1>1, <1>2, <1>3, AnswerApplied, LoopMoves

LEMMA FinishMoves ==
  ASSUME LoopInv, NEW c \in Clients, Finish(c)
  PROVE  Control!Next
<1>1. /\ TypeOK /\ cpc[c] = "observe" /\ step[c] = Steps[c]
      /\ cpc' = [cpc EXCEPT ![c] = "done"] /\ UNCHANGED <<conn, step, lastAction>>
  BY DEF LoopInv, IInv, Finish, Leave, svars
<1>2. Status[c] = "running" /\ ~Waiting[c] /\ Status' = [Status EXCEPT ![c] = "done"]
  BY <1>1 DEF TypeOK, Status, StatusAt, Waiting, WaitingAt
<1>3. UNCHANGED Waiting
  <2>1. \A d \in Clients : cpc'[d] \in WaitingAt <=> cpc[d] \in WaitingAt
    BY <1>1 DEF TypeOK, WaitingAt
  <2>2. QED
    BY <2>1 DEF Waiting
<1>4. UNCHANGED AppliedTicks
  BY <1>1 DEF AppliedTicks
<1>5. QED
  BY <1>1, <1>2, <1>3, <1>4, LoopMoves

LEMMA ClientLoop ==
  ASSUME LoopInv, NEW c \in Clients, ClientStep(c) \/ ClientCrash(c) \/ ClientLost(c)
  PROVE  Control!Next \/ UNCHANGED Control!vars
<1>1. TypeOK
  BY DEF LoopInv, IInv
<1>2. ASSUME NEW why, Fail(c, why), cpc[c] \in ClientRunning
      PROVE  Control!Next
  <2>1. cpc' = [cpc EXCEPT ![c] = "failed"] /\ UNCHANGED <<conn, step, lastAction>>
    BY <1>2 DEF Fail, Leave, svars
  <2>2. QED
    BY <1>1, <1>2, <2>1, FailureMoves
<1>3. CASE Observe(c) \/ Apply(c) \/ PhysicsDiverges(c) \/ Finish(c)
  BY <1>3, ObserveMoves, ApplyMoves, PhysicsMoves, FinishMoves
<1>4. CASE \/ ConnectRefused(c) \/ ConnectTimeout(c) \/ SendFails(c) \/ RecvFails(c)
           \/ SocketTimeout(c) \/ ClientCrash(c)
  BY <1>2, <1>4 DEF ConnectRefused, ConnectTimeout, SendFails, RecvFails, SocketTimeout,
     ClientCrash, ClientRunning
<1>5. CASE SequenceOverflow(c)
  <2>1. /\ cpc' = [cpc EXCEPT ![c] = "failed"] /\ UNCHANGED <<conn, step, lastAction>>
        /\ cpc[c] \in ClientRunning
    BY <1>5 DEF SequenceOverflow, Leave, svars, ClientRunning
  <2>2. QED
    BY <1>1, <2>1, FailureMoves
<1>6. CASE ClientLost(c)
  <2>1. /\ cpc' = [cpc EXCEPT ![c] = "lost"] /\ UNCHANGED <<conn, step, lastAction>>
        /\ cpc[c] \in ClientRunning
    BY <1>6 DEF ClientLost, svars
  <2>2. QED
    BY <1>1, <2>1, FailureMoves
<1>7. CASE Connect(c)
  <2>1. /\ cpc' = [cpc EXCEPT ![c] = "observe"] /\ UNCHANGED <<conn, step, lastAction>>
        /\ cpc[c] = "connect"
    BY <1>7 DEF Connect, svars
  <2>2. QED
    BY <1>1, <2>1, PlaceStutters DEF ClientRunning, WaitingAt
<1>8. CASE Send(c)
  <2>1. /\ cpc' = [cpc EXCEPT ![c] = IF Len(outbuf[c]) = 1 THEN "recv" ELSE cpc[c]]
        /\ UNCHANGED <<conn, step, lastAction>> /\ cpc[c] = "send"
    BY <1>8 DEF Send, svars
  <2>2. QED
    BY <1>1, <2>1, PlaceStutters DEF ClientRunning, WaitingAt
<1>9. CASE Recv(c)
  <2>1. /\ cpc' = [cpc EXCEPT ![c] = IF Len(inbuf[c]) = 1 THEN "apply" ELSE cpc[c]]
        /\ UNCHANGED <<conn, step, lastAction>> /\ cpc[c] = "recv"
    BY <1>9 DEF Recv, svars
  <2>2. QED
    BY <1>1, <2>1, PlaceStutters DEF ClientRunning, WaitingAt
<1>10. QED
  BY <1>3, <1>4, <1>5, <1>6, <1>7, <1>8, <1>9 DEF ClientStep

LEMMA ServerLoop ==
  ASSUME LoopInv, ServerStep \/ ServerCrash \/ ServerLost
  PROVE  Control!Next \/ UNCHANGED Control!vars
<1>1. UNCHANGED cvars
  BY DEF ServerStep, ServerCrash, ServerLost, Load, Accept, ReadHeader, ReadBody, PeerClosed,
     PeerUnreachable, Encode, Decode, NpuFails, Write, WriteFails, NextIteration, BudgetSpent,
     Exit
<1>2. UNCHANGED <<step, Waiting, AppliedTicks, Status>>
  BY <1>1 DEF cvars, Waiting, AppliedTicks, Status
<1>3. CASE Accept
  <2>1. conn = NoClient /\ backlog # <<>> /\ backlog \in Seq(Clients) /\ conn' = Head(backlog)
    BY <1>3 DEF LoopInv, IInv, ServerInv, TypeOK, Accept
  <2>2. conn' \in Clients
    BY <2>1
  <2>3. QED
    BY <1>2, <2>1, <2>2, LoopMoves
<1>4. CASE ~Accept
  <2>1. UNCHANGED conn
    BY <1>4 DEF ServerStep, ServerCrash, ServerLost, Load, ReadHeader, ReadBody, PeerClosed,
       PeerUnreachable, Encode, Decode, NpuFails, Write, WriteFails, NextIteration, BudgetSpent,
       Exit
  <2>2. QED
    BY <1>2, <2>1, LoopStutters
<1>5. QED
  BY <1>3, <1>4

\* The session is a closed control loop: one owner, an action per observation
\* and computed from it, for any number of clients and ticks and any faults.
THEOREM LoopImplemented == Spec => Contract
<1>1. Init => LoopInv /\ Control!Init
  <2>1. SUFFICES ASSUME Init PROVE LoopInv /\ Control!Init
    OBVIOUS
  <2>2. IInv
    BY <2>1, InitInv
  <2>3. FromOwner
    BY <2>1 DEF Init, FromOwner
  <2>4. Control!Init
    <3>1. \A c \in Clients : cpc[c] = "connect" /\ lastAction[c] = ZeroAction
      BY <2>1 DEF Init
    <3>2. [c \in Clients |-> cpc[c] \in WaitingAt] = [c \in Clients |-> FALSE]
      <4>1. ASSUME NEW c \in Clients PROVE (cpc[c] \in WaitingAt) = FALSE
        BY <3>1 DEF WaitingAt
      <4>2. QED
        BY <4>1, Zenon
    <3>3. conn = NoClient /\ step = [c \in Clients |-> 0]
      BY <2>1 DEF Init
    <3>4. [c \in Clients |-> AppliedTick(c)] = [c \in Clients |-> 0]
      BY <3>1 DEF AppliedTick
    <3>5. [c \in Clients |-> StatusAt(cpc[c])] = [c \in Clients |-> "running"]
      BY <3>1 DEF StatusAt
    <3>6. QED
      BY <3>2, <3>3, <3>4, <3>5 DEF Control!Init, WaitingAt, StatusAt
  <2>5. QED
    BY <2>2, <2>3, <2>4 DEF LoopInv
<1>2. LoopInv /\ [Next]_vars => LoopInv'
  BY NextInv, FromOwnerStep DEF LoopInv
<1>3. LoopInv /\ [Next]_vars => [Control!Next]_Control!vars
  <2>1. SUFFICES ASSUME LoopInv, [Next]_vars
                 PROVE  Control!Next \/ UNCHANGED Control!vars
    OBVIOUS
  <2>2. CASE UNCHANGED vars
    <3>1. UNCHANGED <<conn, step>> /\ UNCHANGED <<Waiting, AppliedTicks, Status>>
      BY <2>2 DEF vars, cvars, svars, Waiting, AppliedTicks, Status
    <3>2. QED
      BY <3>1, LoopStutters
  <2>3. QED
    BY <2>1, <2>2, ClientLoop, ServerLoop DEF Next, Ended
<1>4. QED
  BY <1>1, <1>2, <1>3, PTL DEF Spec, Contract, Control!Spec

-----------------------------------------------------------------------------
(* What a server that returned 0 has delivered. *)

\* A client that gave up for a reason of its own, or vanished.
Excused(c) == cpc[c] = "lost" \/ cause[c] \in {"timeout", "nonfinite", "physics", "crash"}

\* The answers that are complete but not applied yet, and those written.
Unapplied(c) ==
  IF cpc[c] \in {"recv", "apply"} /\ Len(inbuf[c]) + Len(down[c]) = 2 THEN 1 ELSE 0
Written == IF spc = "write" /\ response = <<>> THEN steps + 1 ELSE steps
Between == spc = "header" \/ (spc = "write" /\ response = <<>>)
Connected(c) == conn = c \/ \E i \in 1 .. Len(backlog) : backlog[i] = c

\* Every answer written has been applied, or is there to be applied.
BalanceOf(c) ==
  conn = c /\ ~Excused(c) /\ spc \in ServerServing \cup {"exit0"} =>
    Written = step[c] + Unapplied(c)
\* Who left between two exchanges left nothing behind, and no exchange begins.
LeftOf(c) ==
  cause[c] \in {"finished", "pack"} =>
    /\ up[c] = <<>> /\ down[c] = <<>>
    /\ conn = c /\ spc \in ServerServing => Between
\* The other ways to leave that are not the client's own.
WaysOf(c) ==
  /\ conn # c => step[c] = 0
  /\ Connected(c) => cpc[c] # "connect" /\ cause[c] # "refused"
  /\ cause[c] = "peer" => ServerClosed
  /\ cpc[c] \in {"done", "failed"} => cause[c] # "none"
CountOf(c) == BalanceOf(c) /\ LeftOf(c) /\ WaysOf(c)

BudgetInv ==
  /\ spc \in {"load", "accept"} => steps = 0
  /\ spc \in {"load", "accept"} \cup ServerServing => BudgetLeft(steps)
  /\ spc = "exit0" => steps = MaxSteps /\ conn \in Clients

CountInv == LoopInv /\ BudgetInv /\ \A c \in Clients : CountOf(c)

\* The answers that are not applied yet, from how many of their parts there are.
Complete(at, in, d) == IF at \in {"recv", "apply"} /\ Len(in) + Len(d) = 2 THEN 1 ELSE 0

LEMMA CompleteIs ==
  ASSUME NEW at, NEW in, NEW d, at \in {"recv", "apply"}
  PROVE  /\ Len(in) = 0 /\ Len(d) = 0 => Complete(at, in, d) = 0
         /\ Len(in) = 1 /\ Len(d) = 0 => Complete(at, in, d) = 0
         /\ Len(in) = 0 /\ Len(d) = 1 => Complete(at, in, d) = 0
         /\ Len(in) = 1 /\ Len(d) = 1 => Complete(at, in, d) = 1
         /\ Len(in) = 0 /\ Len(d) = 2 => Complete(at, in, d) = 1
<1>1. 0 + 0 # 2 /\ 1 + 0 # 2 /\ 0 + 1 # 2 /\ 1 + 1 = 2 /\ 0 + 2 = 2
  OBVIOUS
<1>2. QED
  BY <1>1, Zenon DEF Complete

LEMMA UnappliedIs ==
  ASSUME NEW c
  PROVE  /\ Unapplied(c) = Complete(cpc[c], inbuf[c], down[c])
         /\ Unapplied(c)' = Complete(cpc'[c], inbuf'[c], down'[c])
BY DEF Unapplied, Complete

\* What a client step leaves alone of the others.
LEMMA OthersCount ==
  ASSUME NEW c \in Clients, CountOf(c), UNCHANGED <<svars, backlog>>,
         cpc'[c] = cpc[c], cause'[c] = cause[c], step'[c] = step[c],
         inbuf'[c] = inbuf[c], up'[c] = up[c], down'[c] = down[c]
  PROVE  CountOf(c)'
BY DEF CountOf, BalanceOf, LeftOf, WaysOf, Excused, Unapplied, Written, Between, Connected,
   ServerClosed, svars

LEMMA BudgetUntouched ==
  ASSUME BudgetInv, UNCHANGED svars
  PROVE  BudgetInv'
BY DEF BudgetInv, BudgetLeft, svars

\* A client step is about its own client only.
LEMMA CountFrame ==
  ASSUME CountInv, NEW c \in Clients, UNCHANGED <<svars, backlog>>, TypeOK', CountOf(c)',
         \A d \in Clients \ {c} :
           /\ cpc'[d] = cpc[d] /\ cause'[d] = cause[d] /\ step'[d] = step[d]
           /\ inbuf'[d] = inbuf[d] /\ up'[d] = up[d] /\ down'[d] = down[d]
  PROVE  BudgetInv' /\ \A d \in Clients : CountOf(d)'
<1>1. \A d \in Clients \ {c} : CountOf(d)'
  BY OthersCount DEF CountInv
<1>2. BudgetInv'
  BY BudgetUntouched DEF CountInv
<1>3. QED
  BY <1>1, <1>2

\* Where a client is between two exchanges the server is too.
LEMMA ObserveCount ==
  ASSUME CountInv, NEW c \in Clients, cpc[c] = "observe"
  PROVE  /\ inbuf[c] = <<>> /\ up[c] = <<>> /\ down[c] = <<>> /\ cause[c] = "none"
         /\ conn = c /\ spc \in ServerServing => Between
         /\ Unapplied(c) = 0
<1>1. IInv /\ PerClient(c)
  BY DEF CountInv, LoopInv, IInv
<1>2. inbuf[c] = <<>> /\ up[c] = <<>> /\ down[c] = <<>> /\ cause[c] = "none"
  BY <1>1 DEF PerClient, ClientInv, ClientShape, CauseInv, ClientRunning
<1>3. ASSUME conn = c, spc \in ServerServing
      PROVE  Between
  <2>1. ServedShape(c, cpc[c], sequence[c], outbuf[c], inbuf[c], up[c], down[c],
                    spc, requestHeader, request, decoderInput, response)
    BY <1>1, <1>3 DEF PerClient, ServedInv
  <2>2. QED
    BY <1>3, <2>1 DEF ServedShape, BodyShape, BusyShape, WriteShape, Between, ServerServing
<1>4. QED
  BY <1>2, <1>3 DEF Unapplied

\* A client that leaves: what its cause must be for the count to stay.
LEMMA LeaveCount ==
  ASSUME CountInv, TypeOK', NEW c \in Clients, NEW how \in {"done", "failed"}, NEW why \in Causes,
         Leave(c, how, why), UNCHANGED step, cpc[c] \in ClientRunning,
         \/ why \in {"timeout", "nonfinite", "physics", "crash"}
         \/ cpc[c] = "connect" /\ why = "refused"
         \/ cpc[c] = "observe" /\ why \in {"finished", "pack"}
         \/ ServerClosed /\ why = "peer" /\ Unapplied(c) = 0
  PROVE  BudgetInv' /\ \A d \in Clients : CountOf(d)'
<1>1. TypeOK /\ CountOf(c) /\ cause[c] = "none"
  BY DEF CountInv, LoopInv, IInv, PerClient, CauseInv
<1>2. /\ cpc'[c] = how /\ cause'[c] = why /\ inbuf'[c] = <<>> /\ down'[c] = <<>>
      /\ UNCHANGED <<svars, backlog>> /\ step'[c] = step[c]
      /\ \A d \in Clients \ {c} :
           /\ cpc'[d] = cpc[d] /\ cause'[d] = cause[d] /\ step'[d] = step[d]
           /\ inbuf'[d] = inbuf[d] /\ up'[d] = up[d] /\ down'[d] = down[d]
  BY <1>1 DEF Leave, CloseClient, TypeOK
<1>3. Unapplied(c)' = 0
  BY <1>2 DEF Unapplied
<1>4. BalanceOf(c)'
  <2>1. CASE why \in {"timeout", "nonfinite", "physics", "crash"}
    BY <1>2, <2>1 DEF BalanceOf, Excused
  <2>2. CASE cpc[c] = "connect" /\ why = "refused"
    <3>1. conn # c
      BY <1>1, <2>2 DEF CountOf, WaysOf, Connected
    <3>2. QED
      BY <1>2, <3>1 DEF BalanceOf, svars
  <2>3. CASE Unapplied(c) = 0 /\ ~Excused(c)
    BY <1>1, <1>2, <1>3, <2>3 DEF CountOf, BalanceOf, Written, svars
  <2>4. cpc[c] = "observe" => Unapplied(c) = 0
    BY DEF Unapplied
  <2>5. ~Excused(c)
    BY <1>1 DEF Excused, ClientRunning
  <2>6. QED
    BY <2>1, <2>2, <2>3, <2>4, <2>5
<1>5. LeftOf(c)'
  <2>1. CASE why \notin {"finished", "pack"}
    BY <1>2, <2>1 DEF LeftOf
  <2>2. CASE cpc[c] = "observe"
    <3>1. up[c] = <<>> /\ down[c] = <<>> /\ (conn = c /\ spc \in ServerServing => Between)
      BY <2>2, ObserveCount
    <3>2. up'[c] = <<>>
      BY <1>1, <3>1 DEF Leave, CloseClient, TypeOK
    <3>3. QED
      BY <1>2, <3>1, <3>2 DEF LeftOf, Between, svars
  <2>3. QED
    BY <2>1, <2>2
<1>6. WaysOf(c)'
  <2>1. Connected(c)' = Connected(c)
    BY <1>2 DEF Connected, svars
  <2>2. Connected(c) => cpc[c] # "connect"
    BY <1>1 DEF CountOf, WaysOf
  <2>3. QED
    BY <1>1, <1>2, <2>1, <2>2 DEF CountOf, WaysOf, ServerClosed, svars
<1>7. CountOf(c)'
  BY <1>4, <1>5, <1>6 DEF CountOf
<1>8. QED
  BY <1>2, <1>7, CountFrame

\* A step within main() that keeps the number of applied answers and of those
\* there to be applied.
LEMMA PlaceCount ==
  ASSUME CountInv, TypeOK', NEW c \in Clients, UNCHANGED <<svars, backlog, cause, step>>,
         NEW place \in ClientRunning \cup {"lost"}, cpc' = [cpc EXCEPT ![c] = place],
         cpc[c] \in ClientRunning, place = "connect" => cpc[c] = "connect",
         place # "lost" => Unapplied(c)' = Unapplied(c),
         \A d \in Clients \ {c} :
           inbuf'[d] = inbuf[d] /\ up'[d] = up[d] /\ down'[d] = down[d]
  PROVE  BudgetInv' /\ \A d \in Clients : CountOf(d)'
<1>1. TypeOK /\ CountOf(c) /\ cause[c] = "none"
  BY DEF CountInv, LoopInv, IInv, PerClient, CauseInv
<1>2. /\ cpc'[c] = place /\ cause'[c] = "none" /\ step'[c] = step[c]
      /\ \A d \in Clients \ {c} :
           cpc'[d] = cpc[d] /\ cause'[d] = cause[d] /\ step'[d] = step[d]
  BY <1>1 DEF TypeOK
<1>3. BalanceOf(c)'
  <2>1. CASE place = "lost"
    BY <1>2, <2>1 DEF BalanceOf, Excused
  <2>2. CASE place # "lost"
    <3>1. ~Excused(c)
      BY <1>1 DEF Excused, ClientRunning
    <3>2. UNCHANGED <<Written, conn, spc>>
      BY DEF Written, svars
    <3>3. QED
      BY <1>1, <1>2, <2>2, <3>1, <3>2 DEF CountOf, BalanceOf
  <2>3. QED
    BY <2>1, <2>2
<1>4. LeftOf(c)'
  BY <1>2 DEF LeftOf
<1>5. WaysOf(c)'
  <2>1. Connected(c)' = Connected(c)
    BY DEF Connected, svars
  <2>2. QED
    BY <1>1, <1>2, <2>1 DEF CountOf, WaysOf, ClientRunning, svars
<1>6. CountOf(c)'
  BY <1>3, <1>4, <1>5 DEF CountOf
<1>7. QED
  BY <1>2, <1>6, CountFrame

LEMMA ConnectCount ==
  ASSUME CountInv, TypeOK', NEW c \in Clients, Connect(c)
  PROVE  BudgetInv' /\ \A d \in Clients : CountOf(d)'
<1>1. /\ TypeOK /\ \A d \in Clients : CountOf(d)
      /\ cpc[c] = "connect" /\ cause[c] = "none"
  BY DEF CountInv, LoopInv, IInv, PerClient, CauseInv, ClientRunning, Connect
<1>2. /\ cpc'[c] = "observe" /\ \A d \in Clients \ {c} : cpc'[d] = cpc[d]
      /\ backlog' = Append(backlog, c) /\ UNCHANGED <<svars, cause, step, inbuf, up, down>>
  BY <1>1 DEF Connect, TypeOK
<1>3. \A d \in Clients : d # c => (Connected(d)' => Connected(d))
  <2>1. /\ backlog \in Seq(Clients) /\ Len(Append(backlog, c)) = Len(backlog) + 1
        /\ \A i \in 1 .. Len(backlog) : Append(backlog, c)[i] = backlog[i]
        /\ Append(backlog, c)[Len(backlog) + 1] = c
    BY <1>1 DEF TypeOK
  <2>2. conn' = conn /\ Len(backlog) \in Nat
    BY <1>2, <2>1 DEF svars
  <2>3. QED
    BY <1>2, <2>1, <2>2 DEF Connected
<1>4. ASSUME NEW d \in Clients
      PROVE  CountOf(d)'
  <2>1. conn # c
    BY <1>1 DEF CountOf, WaysOf, Connected
  <2>2. BalanceOf(d)'
    <3>1. CASE d = c
      BY <1>2, <2>1, <3>1 DEF BalanceOf, svars
    <3>2. CASE d # c
      BY <1>1, <1>2, <3>2 DEF CountOf, BalanceOf, Excused, Unapplied, Written, svars
    <3>3. QED
      BY <3>1, <3>2
  <2>3. LeftOf(d)'
    BY <1>1, <1>2 DEF CountOf, LeftOf, Between, svars
  <2>4. WaysOf(d)'
    <3>1. CASE d = c
      BY <1>1, <1>2, <3>1 DEF CountOf, WaysOf, svars
    <3>2. CASE d # c
      BY <1>1, <1>2, <1>3, <3>2 DEF CountOf, WaysOf, ServerClosed, svars
    <3>3. QED
      BY <3>1, <3>2
  <2>5. QED
    BY <2>2, <2>3, <2>4 DEF CountOf
<1>5. QED
  BY <1>2, <1>4, BudgetUntouched DEF CountInv

LEMMA ObserveStepCount ==
  ASSUME CountInv, TypeOK', NEW c \in Clients, Observe(c)
  PROVE  BudgetInv' /\ \A d \in Clients : CountOf(d)'
<1>1. /\ cpc[c] = "observe" /\ cpc' = [cpc EXCEPT ![c] = "send"]
      /\ UNCHANGED <<svars, backlog, cause, step, inbuf, up, down>>
  BY DEF Observe, nvars
<1>2. cpc'[c] = "send"
  BY <1>1 DEF CountInv, LoopInv, IInv, TypeOK
<1>3. Unapplied(c)' = Unapplied(c)
  BY <1>1, <1>2 DEF Unapplied
<1>4. QED
  BY <1>1, <1>3, PlaceCount DEF ClientRunning

LEMMA SendCount ==
  ASSUME CountInv, TypeOK', NEW c \in Clients, Send(c)
  PROVE  BudgetInv' /\ \A d \in Clients : CountOf(d)'
<1> DEFINE place == IF Len(outbuf[c]) = 1 THEN "recv" ELSE "send"
<1>1. TypeOK /\ cpc[c] = "send" /\ inbuf[c] = <<>> /\ down[c] = <<>>
  BY DEF CountInv, LoopInv, IInv, PerClient, ClientInv, ClientShape, Send
<1>2. /\ cpc' = [cpc EXCEPT ![c] = place]
      /\ UNCHANGED <<svars, backlog, cause, step, inbuf, down>>
      /\ \A d \in Clients \ {c} : up'[d] = up[d]
  BY <1>1 DEF Send, TypeOK
<1>3. Unapplied(c) = 0 /\ Unapplied(c)' = 0
  <2>1. Len(inbuf[c]) = 0 /\ Len(down[c]) = 0
    BY <1>1, Pairs
  <2>2. inbuf' = inbuf /\ down' = down
    BY <1>2
  <2>3. Len(inbuf'[c]) = 0 /\ Len(down'[c]) = 0
    BY <2>1, <2>2, Zenon
  <2>4. QED
    BY <2>1, <2>3 DEF Unapplied
<1>4. QED
  BY <1>1, <1>2, <1>3, PlaceCount DEF ClientRunning

LEMMA RecvCount ==
  ASSUME CountInv, TypeOK', NEW c \in Clients, Recv(c)
  PROVE  BudgetInv' /\ \A d \in Clients : CountOf(d)'
<1> DEFINE place == IF Len(inbuf[c]) = 1 THEN "apply" ELSE "recv"
<1>1. TypeOK /\ cpc[c] = "recv" /\ down[c] # <<>>
  BY DEF CountInv, LoopInv, IInv, Recv
<1>2. /\ cpc' = [cpc EXCEPT ![c] = place] /\ cpc'[c] = place
      /\ inbuf'[c] = Append(inbuf[c], Head(down[c])) /\ down'[c] = Tail(down[c])
      /\ UNCHANGED <<svars, backlog, cause, step, up>>
      /\ \A d \in Clients \ {c} : inbuf'[d] = inbuf[d] /\ down'[d] = down[d]
  BY <1>1 DEF Recv, TypeOK
<1>3. inbuf[c] \in Seq(Parts) /\ down[c] \in Seq(Parts)
  BY <1>1 DEF TypeOK
<1>4. Len(inbuf'[c]) + Len(down'[c]) = Len(inbuf[c]) + Len(down[c])
  <2>1. Len(inbuf[c]) \in Nat /\ Len(down[c]) \in Nat
    BY <1>3
  <2>2. Len(Tail(down[c])) = Len(down[c]) - 1
    BY <1>1, <1>3
  <2>3. Head(down[c]) \in Parts
    BY <1>1, <1>3
  <2>4. Len(Append(inbuf[c], Head(down[c]))) = Len(inbuf[c]) + 1
    BY <1>3, <2>3
  <2>5. Len(inbuf'[c]) = Len(inbuf[c]) + 1
    BY <1>2, <2>4, Zenon
  <2>6. Len(down'[c]) = Len(down[c]) - 1
    BY <1>2, <2>2, Zenon
  <2>7. (Len(inbuf[c]) + 1) + (Len(down[c]) - 1) = Len(inbuf[c]) + Len(down[c])
    <3>1. \A i, j \in Nat : (i + 1) + (j - 1) = i + j
      OBVIOUS
    <3>2. QED
      BY <2>1, <3>1, Zenon
  <2>8. QED
    BY <2>5, <2>6, <2>7, Zenon
<1>5. Unapplied(c)' = Unapplied(c)
  BY <1>1, <1>2, <1>4 DEF Unapplied
<1>6. QED
  BY <1>1, <1>2, <1>5, PlaceCount DEF ClientRunning

LEMMA ApplyCount ==
  ASSUME CountInv, TypeOK', NEW c \in Clients, Apply(c)
  PROVE  BudgetInv' /\ \A d \in Clients : CountOf(d)'
<1>1. /\ TypeOK /\ CountOf(c) /\ cause[c] = "none" /\ cpc[c] = "apply" /\ ReplyMatches(c)
      /\ conn = c
  BY ReplyFacts, OwnerActs DEF CountInv, LoopInv, IInv, PerClient, CauseInv, Apply, ClientRunning
<1>2. CASE ~Reply(c).finite
  <2>1. Leave(c, "failed", "nonfinite") /\ UNCHANGED step
    BY <1>1, <1>2 DEF Apply, Fail
  <2>2. QED
    BY <1>1, <2>1, LeaveCount DEF Causes, ClientRunning
<1>3. CASE Reply(c).finite
  <2>1. /\ cpc'[c] = "observe" /\ step'[c] = step[c] + 1
        /\ UNCHANGED <<svars, cause, backlog, up, down>>
        /\ \A d \in Clients \ {c} : cpc'[d] = cpc[d] /\ step'[d] = step[d] /\ inbuf'[d] = inbuf[d]
    BY <1>1, <1>3 DEF Apply, TypeOK, nvars
  <2>2. Unapplied(c) = 1
    <3>1. PICK f \in BOOLEAN : inbuf[c] = <<RespH(sequence[c]), RespB(c, sequence[c], f)>>
      BY <1>1 DEF CountInv, LoopInv, IInv, PerClient, ClientInv, ClientShape
    <3>2. down[c] = <<>>
      BY <1>1 DEF CountInv, LoopInv, IInv, PerClient, ClientInv, ClientShape
    <3>3. Len(inbuf[c]) = 2 /\ Len(down[c]) = 0
      BY <3>1, <3>2, Pairs
    <3>4. QED
      BY <1>1, <3>3 DEF Unapplied
  <2>3. Unapplied(c)' = 0
    BY <2>1 DEF Unapplied
  <2>4. BalanceOf(c)'
    <3>1. ~Excused(c) /\ step[c] \in Nat /\ UNCHANGED <<Written, conn, spc>>
      BY <1>1, <2>1 DEF Excused, Written, TypeOK, svars
    <3>2. QED
      BY <1>1, <2>1, <2>2, <2>3, <3>1 DEF CountOf, BalanceOf
  <2>5. LeftOf(c)'
    BY <1>1, <2>1 DEF LeftOf
  <2>6. WaysOf(c)'
    BY <1>1, <2>1 DEF CountOf, WaysOf, Connected, svars
  <2>7. CountOf(c)'
    BY <2>4, <2>5, <2>6 DEF CountOf
  <2>8. QED
    BY <2>1, <2>7, CountFrame
<1>4. QED
  BY <1>2, <1>3

LEMMA ClientCount ==
  ASSUME CountInv, TypeOK', NEW c \in Clients, ClientStep(c) \/ ClientCrash(c) \/ ClientLost(c)
  PROVE  BudgetInv' /\ \A d \in Clients : CountOf(d)'
<1>1. CASE Connect(c) \/ Observe(c) \/ Send(c) \/ Recv(c) \/ Apply(c)
  BY <1>1, ConnectCount, ObserveStepCount, SendCount, RecvCount, ApplyCount
<1>2. CASE ConnectRefused(c) \/ ConnectTimeout(c) \/ SocketTimeout(c) \/ ClientCrash(c)
  BY <1>2, LeaveCount DEF ConnectRefused, ConnectTimeout, SocketTimeout, ClientCrash, Fail,
     Causes, ClientRunning
<1>3. CASE PhysicsDiverges(c) \/ SequenceOverflow(c)
  BY <1>3, LeaveCount DEF PhysicsDiverges, SequenceOverflow, Causes, ClientRunning
<1>4. CASE Finish(c)
  BY <1>4, LeaveCount DEF Finish, Causes, ClientRunning
<1>5. CASE SendFails(c)
  <2>1. cpc[c] = "send" /\ ServerClosed /\ Leave(c, "failed", "peer") /\ UNCHANGED step
    BY <1>5 DEF SendFails, Fail
  <2>2. Unapplied(c) = 0
    BY <2>1 DEF Unapplied
  <2>3. QED
    BY <2>1, <2>2, LeaveCount DEF Causes, ClientRunning
<1>6. CASE RecvFails(c)
  <2>1. /\ cpc[c] = "recv" /\ ServerClosed /\ down[c] = <<>>
        /\ Leave(c, "failed", "peer") /\ UNCHANGED step
    BY <1>6 DEF RecvFails, Fail
  <2>2. inbuf[c] \in {<<>>, <<RespH(sequence[c])>>}
    BY <2>1, Pairs DEF CountInv, LoopInv, IInv, PerClient, ClientInv, ClientShape, PartialShape,
       AnswerShape
  <2>3. Len(inbuf[c]) + Len(down[c]) # 2
    <3>1. Len(inbuf[c]) \in {0, 1}
      BY <2>2, Pairs
    <3>2. Len(down[c]) = 0
      BY <2>1, Pairs
    <3>3. QED
      BY <3>1, <3>2
  <2>4. Unapplied(c) = 0
    BY <2>3 DEF Unapplied
  <2>5. QED
    BY <2>1, <2>4, LeaveCount DEF Causes, ClientRunning
<1>7. CASE ClientLost(c)
  BY <1>7, PlaceCount DEF ClientLost, nvars, ClientRunning
<1>8. QED
  BY <1>1, <1>2, <1>3, <1>4, <1>5, <1>6, <1>7 DEF ClientStep

-----------------------------------------------------------------------------
(* The same for the server. *)

\* A client that an exchange is under way for waits for the answer, or has
\* given up for a reason of its own.
LEMMA BusyClient ==
  ASSUME CountInv, conn \in Clients, spc \in {"body", "encode", "decode", "write"},
         spc = "write" => response # <<>>, ~Excused(conn)
  PROVE  cpc[conn] \in {"send", "recv"} /\ (spc # "body" => cpc[conn] = "recv")
<1> DEFINE c == conn
<1>1. TypeOK /\ PerClient(c) /\ CountOf(c)
  BY DEF CountInv, LoopInv, IInv
<1>2. spc \in ServerServing /\ ~Between /\ ~ServerClosed
  BY DEF ServerServing, Between, ServerClosed
<1>3. cause[c] \notin {"finished", "pack", "peer", "refused", "reply"}
  BY <1>1, <1>2 DEF CountOf, LeftOf, WaysOf, Connected, PerClient, CauseInv
<1>4. cpc[c] \notin {"done", "failed", "lost"}
  BY <1>1, <1>3 DEF CountOf, WaysOf, TypeOK, Causes, Excused
<1>5. /\ spc = "body" => cpc[c] \notin {"connect", "observe", "apply"}
      /\ spc # "body" => cpc[c] \in {"recv", "done", "failed", "lost"}
  BY <1>1 DEF PerClient, ServedInv, ServedShape, BodyShape, BusyShape, WriteShape
<1>6. QED
  BY <1>1, <1>4, <1>5 DEF TypeOK, ClientStates, ClientRunning

\* What remains to be shown of a step of a server that goes on serving.
LEMMA ServingCount ==
  ASSUME CountInv, UNCHANGED <<cvars, conn, backlog>>, conn \in Clients,
         spc \in ServerServing, spc' \in ServerServing \cup {"exit0"},
         \A c \in Clients \ {conn} : up'[c] = up[c] /\ down'[c] = down[c],
         BudgetInv', BalanceOf(conn)', LeftOf(conn)'
  PROVE  \A c \in Clients : CountOf(c)'
<1>1. SUFFICES ASSUME NEW c \in Clients PROVE CountOf(c)'
  OBVIOUS
<1>2. CountOf(c) /\ ~ServerClosed
  BY DEF CountInv, ServerClosed, ServerServing
<1>3. WaysOf(c)'
  BY <1>2 DEF CountOf, WaysOf, Connected, cvars
<1>4. CASE c = conn
  BY <1>3, <1>4 DEF CountOf
<1>5. CASE c # conn
  <2>1. BalanceOf(c)'
    BY <1>5 DEF BalanceOf
  <2>2. LeftOf(c)'
    BY <1>2, <1>5 DEF CountOf, LeftOf, cvars
  <2>3. QED
    BY <1>3, <2>1, <2>2 DEF CountOf
<1>6. QED
  BY <1>4, <1>5

\* A step within main() of the server that reads or computes.
LEMMA ReadCount ==
  ASSUME CountInv, UNCHANGED <<cvars, conn, steps, down, backlog>>, conn \in Clients,
         spc \in ServerServing, spc' \in ServerServing \ {"header"},
         Written = steps, Written' = steps',
         \A c \in Clients \ {conn} : up'[c] = up[c],
         up[conn] # <<>> \/ ~Between
  PROVE  BudgetInv' /\ \A c \in Clients : CountOf(c)'
<1>1. BudgetInv /\ CountOf(conn)
  BY DEF CountInv
<1>2. BudgetInv'
  BY <1>1 DEF BudgetInv, BudgetLeft, ServerServing
<1>3. BalanceOf(conn)'
  BY <1>1 DEF CountOf, BalanceOf, Excused, Unapplied, cvars
<1>4. LeftOf(conn)'
  BY <1>1 DEF CountOf, LeftOf, cvars
<1>5. QED
  BY <1>2, <1>3, <1>4, ServingCount

LEMMA WriteCount ==
  ASSUME CountInv, Write
  PROVE  BudgetInv' /\ \A c \in Clients : CountOf(c)'
<1>0. PICK c \in Clients : c = conn
  BY DEF CountInv, LoopInv, IInv, ServerInv, ServerServing, Write
<1>1. /\ TypeOK /\ BudgetInv /\ spc = "write" /\ response # <<>> /\ conn = c /\ conn' = c
      /\ CountOf(c) /\ PerClient(c)
      /\ UNCHANGED <<spc, steps, cvars, up, backlog>> /\ response' = Tail(response)
  BY <1>0 DEF CountInv, LoopInv, IInv, ServerInv, ServerServing, Write
<1>2. spc \in ServerServing /\ ~Between
  BY <1>1 DEF ServerServing, Between
<1>3. BudgetInv'
  BY <1>1 DEF BudgetInv, BudgetLeft
<1>4. \A d \in Clients \ {c} : up'[d] = up[d] /\ down'[d] = down[d]
  BY <1>1 DEF Write, TypeOK
<1>5. LeftOf(c)'
  BY <1>1, <1>2 DEF CountOf, LeftOf, cvars
<1>6. ASSUME ~Excused(c)
      PROVE  Written' = step[c] + Unapplied(c)'
  <2>1. cpc[c] = "recv"
    BY <1>1, <1>6, BusyClient
  <2>2. down'[c] = Append(down[c], Head(response))
    BY <1>1, <2>1 DEF Write, TypeOK, ClientClosed
  <2>3. \E f \in BOOLEAN :
          \/ response = <<RespH(sequence[c]), RespB(c, sequence[c], f)>>
             /\ inbuf[c] = <<>> /\ down[c] = <<>>
          \/ /\ response = <<RespB(c, sequence[c], f)>>
             /\ \/ inbuf[c] = <<RespH(sequence[c])>> /\ down[c] = <<>>
                \/ inbuf[c] = <<>> /\ down[c] = <<RespH(sequence[c])>>
    BY <1>1, <2>1 DEF PerClient, ServedInv, ServedShape, WriteShape
  <2>4. steps = step[c] + Unapplied(c) /\ steps \in Nat /\ step[c] \in Nat
    BY <1>1, <1>2, <1>6 DEF CountOf, BalanceOf, Written, TypeOK
  <2>5. CASE Len(response) = 2
    <3>1. inbuf[c] = <<>> /\ down[c] = <<>> /\ \E a, b : response = <<a, b>>
      BY <2>3, <2>5, Pairs
    <3>2. response' # <<>> /\ Len(inbuf[c]) = 0 /\ Len(down[c]) = 0 /\ Len(down'[c]) = 1
      BY <1>1, <2>2, <3>1, Pairs
    <3>3. Unapplied(c) = 0 /\ Unapplied(c)' = 0
      <4>1. inbuf'[c] = inbuf[c]
        BY <1>1 DEF cvars
      <4>2. Len(inbuf'[c]) = 0
        BY <3>2, <4>1, Zenon
      <4>3. cpc[c] \in {"recv", "apply"} /\ cpc'[c] \in {"recv", "apply"}
        BY <1>1, <2>1 DEF cvars
      <4>4. Complete(cpc[c], inbuf[c], down[c]) = 0
        BY <3>2, <4>3, CompleteIs
      <4>5. Complete(cpc'[c], inbuf'[c], down'[c]) = 0
        BY <3>2, <4>2, <4>3, CompleteIs
      <4>6. QED
        BY <4>4, <4>5, UnappliedIs, Zenon
    <3>4. QED
      BY <1>1, <2>4, <3>2, <3>3 DEF Written
  <2>6. CASE Len(response) # 2
    <3>1. /\ response = <<response[1]>>
          /\ \/ inbuf[c] = <<RespH(sequence[c])>> /\ down[c] = <<>>
             \/ inbuf[c] = <<>> /\ down[c] = <<RespH(sequence[c])>>
      BY <2>3, <2>6, Pairs
    <3>2. response' = <<>> /\ inbuf'[c] = inbuf[c] /\ cpc'[c] = "recv"
      BY <1>1, <2>1, <3>1, Pairs DEF cvars
    <3>3. \/ Len(inbuf[c]) = 1 /\ Len(down[c]) = 0 /\ Len(down'[c]) = 1
          \/ Len(inbuf[c]) = 0 /\ Len(down[c]) = 1 /\ Len(down'[c]) = 2
      <4>1. Head(response) = response[1]
        BY <3>1, Pairs, Zenon
      <4>2. CASE inbuf[c] = <<RespH(sequence[c])>> /\ down[c] = <<>>
        <5>1. down'[c] = <<response[1]>>
          BY <2>2, <4>1, <4>2, Pairs, Zenon
        <5>2. QED
          BY <4>2, <5>1, Pairs, Zenon
      <4>3. CASE inbuf[c] = <<>> /\ down[c] = <<RespH(sequence[c])>>
        <5>1. Append(<<RespH(sequence[c])>>, response[1]) = <<RespH(sequence[c]), response[1]>>
          BY Pairs, Zenon
        <5>2. down'[c] = <<RespH(sequence[c]), response[1]>>
          BY <2>2, <4>1, <4>3, <5>1, Zenon
        <5>3. QED
          BY <4>3, <5>2, Pairs, Zenon
      <4>4. QED
        BY <3>1, <4>2, <4>3
    <3>4. Unapplied(c) = 0 /\ Unapplied(c)' = 1
      <4>1. Len(inbuf'[c]) = Len(inbuf[c])
        BY <3>2, Zenon
      <4>2. cpc[c] \in {"recv", "apply"} /\ cpc'[c] \in {"recv", "apply"}
        BY <2>1, <3>2
      <4>3. CASE Len(inbuf[c]) = 1 /\ Len(down[c]) = 0 /\ Len(down'[c]) = 1
        <5>1. Complete(cpc[c], inbuf[c], down[c]) = 0
          BY <4>2, <4>3, CompleteIs
        <5>2. Len(inbuf'[c]) = 1
          BY <4>1, <4>3, Zenon
        <5>3. Complete(cpc'[c], inbuf'[c], down'[c]) = 1
          BY <4>2, <4>3, <5>2, CompleteIs
        <5>4. QED
          BY <5>1, <5>3, UnappliedIs, Zenon
      <4>4. CASE Len(inbuf[c]) = 0 /\ Len(down[c]) = 1 /\ Len(down'[c]) = 2
        <5>1. Complete(cpc[c], inbuf[c], down[c]) = 0
          BY <4>2, <4>4, CompleteIs
        <5>2. Len(inbuf'[c]) = 0
          BY <4>1, <4>4, Zenon
        <5>3. Complete(cpc'[c], inbuf'[c], down'[c]) = 1
          BY <4>2, <4>4, <5>2, CompleteIs
        <5>4. QED
          BY <5>1, <5>3, UnappliedIs, Zenon
      <4>5. QED
        BY <3>3, <4>3, <4>4
    <3>5. QED
      BY <1>1, <2>4, <3>2, <3>4 DEF Written
  <2>7. QED
    BY <2>5, <2>6
<1>7. BalanceOf(c)'
  BY <1>1, <1>6 DEF BalanceOf, Excused, cvars
<1>8. QED
  BY <1>1, <1>2, <1>3, <1>4, <1>5, <1>7, ServingCount

LEMMA NextIterationCount ==
  ASSUME CountInv, NextIteration
  PROVE  BudgetInv' /\ \A c \in Clients : CountOf(c)'
<1>1. /\ BudgetInv /\ conn \in Clients /\ CountOf(conn) /\ spc = "write" /\ response = <<>>
      /\ spc' = "header" /\ steps' = steps + 1 /\ BudgetLeft(steps + 1)
      /\ UNCHANGED <<conn, response, cvars, up, down, backlog>>
  BY DEF CountInv, LoopInv, IInv, ServerInv, ServerServing, NextIteration, nvars
<1>2. BudgetInv'
  BY <1>1 DEF BudgetInv, BudgetLeft
<1>3. BalanceOf(conn)'
  BY <1>1 DEF CountOf, BalanceOf, Excused, Unapplied, Written, ServerServing, cvars
<1>4. LeftOf(conn)'
  BY <1>1 DEF CountOf, LeftOf, Between, cvars
<1>5. QED
  BY <1>1, <1>2, <1>3, <1>4, ServingCount DEF ServerServing
\* A server that reads or computes writes nothing.
LEMMA ComputeCount ==
  ASSUME CountInv, spc' # "exit1",
         ReadHeader \/ ReadBody \/ Encode \/ Decode
  PROVE  BudgetInv' /\ \A c \in Clients : CountOf(c)'
<1>1. TypeOK /\ conn \in Clients /\ spc \in {"header", "body", "encode", "decode"}
  BY DEF CountInv, LoopInv, IInv, ServerInv, ServerServing, ReadHeader, ReadBody, Encode, Decode
<1>2. UNCHANGED <<cvars, conn, steps, down, backlog>>
  BY DEF ReadHeader, ReadBody, Encode, Decode, Exit, nvars
<1>3. spc' \in {"body", "encode", "decode", "write"} /\ (spc' = "write" => response' # <<>>)
  BY <1>1, Pairs DEF ReadHeader, ReadBody, Encode, Decode, Exit
<1>4. \A c \in Clients \ {conn} : up'[c] = up[c]
  BY <1>1 DEF ReadHeader, ReadBody, Encode, Decode, Exit, TypeOK, nvars
<1>5. up[conn] # <<>> \/ ~Between
  BY DEF ReadHeader, ReadBody, Encode, Decode, Between
<1>6. Written = steps /\ Written' = steps'
  BY <1>1, <1>3 DEF Written
<1>7. QED
  BY <1>1, <1>2, <1>3, <1>4, <1>5, <1>6, ReadCount DEF ServerServing

LEMMA LoadCount ==
  ASSUME CountInv, Load
  PROVE  BudgetInv' /\ \A c \in Clients : CountOf(c)'
<1>1. BudgetInv'
  BY DEF CountInv, BudgetInv, BudgetLeft, Load
<1>2. ASSUME NEW c \in Clients PROVE CountOf(c)'
  <2>1. CountOf(c)
    BY DEF CountInv
  <2>2. QED
    BY <2>1 DEF CountOf, BalanceOf, LeftOf, WaysOf, Connected, ServerClosed, ServerServing,
       Load, cvars, nvars
<1>3. QED
  BY <1>1, <1>2

\* The client whose connection is accepted has had no answer yet.
LEMMA AcceptCount ==
  ASSUME CountInv, Accept
  PROVE  BudgetInv' /\ \A c \in Clients : CountOf(c)'
<1>1. /\ TypeOK /\ BudgetInv /\ spc = "accept" /\ spc' = "header" /\ conn = NoClient
      /\ backlog # <<>> /\ conn' = Head(backlog) /\ backlog' = Tail(backlog)
      /\ UNCHANGED <<steps, cvars, up, down>>
  BY DEF CountInv, LoopInv, IInv, ServerInv, Accept
<1>2. BudgetInv'
  BY <1>1 DEF BudgetInv, BudgetLeft
<1>3. ASSUME NEW c \in Clients PROVE CountOf(c)'
  <2>1. CountOf(c) /\ PerClient(c) /\ conn # c /\ step[c] = 0
    BY <1>1, ClientsAssumption DEF CountInv, LoopInv, IInv, CountOf, WaysOf
  <2>2. BalanceOf(c)'
    <3>1. steps = 0
      BY <1>1 DEF BudgetInv
    <3>2. cpc[c] # "apply" /\ (cpc[c] = "recv" => inbuf[c] = <<>> /\ down[c] = <<>>)
      BY <1>1, <2>1 DEF PerClient, UnservedInv, Unserved, UnservedShape, ClientInv, ClientShape
    <3>3. Unapplied(c) = 0
      <4>1. cpc[c] = "recv" => Len(inbuf[c]) = 0 /\ Len(down[c]) = 0
        BY <3>2, Pairs, Zenon
      <4>2. CASE cpc[c] = "recv"
        BY <4>1, <4>2, CompleteIs, UnappliedIs
      <4>3. CASE cpc[c] # "recv"
        BY <3>2, <4>3 DEF Unapplied
      <4>4. QED
        BY <4>2, <4>3
    <3>4. Unapplied(c)' = 0
      BY <1>1, <3>3 DEF Unapplied, cvars
    <3>5. Written' = 0
      BY <1>1, <3>1 DEF Written
    <3>6. step'[c] = 0
      BY <1>1, <2>1 DEF cvars
    <3>7. QED
      BY <3>4, <3>5, <3>6 DEF BalanceOf
  <2>3. LeftOf(c)'
    BY <1>1, <2>1 DEF CountOf, LeftOf, Between, cvars
  <2>4. WaysOf(c)'
    <3>1. Connected(c)' => Connected(c)
      <4>1. conn' = c => Connected(c)
        <5>1. Head(backlog) = backlog[1] /\ 1 \in 1 .. Len(backlog)
          BY <1>1 DEF TypeOK
        <5>2. QED
          BY <1>1, <5>1 DEF Connected
      <4>2. ASSUME NEW i \in 1 .. Len(backlog'), backlog'[i] = c
            PROVE  Connected(c)
        <5>1. i + 1 \in 1 .. Len(backlog) /\ backlog[i + 1] = c
          BY <1>1, <4>2 DEF TypeOK
        <5>2. QED
          BY <5>1 DEF Connected
      <4>3. QED
        BY <4>1, <4>2 DEF Connected
    <3>2. QED
      BY <1>1, <2>1, <3>1 DEF CountOf, WaysOf, ServerClosed, cvars
  <2>5. QED
    BY <2>2, <2>3, <2>4 DEF CountOf
<1>4. QED
  BY <1>2, <1>3

\* Closing the sockets takes nothing from a client that left nothing behind.
LEMMA CloseCount ==
  ASSUME CountInv, CloseServer, UNCHANGED <<conn, cvars>>, ServerClosed', NEW c \in Clients
  PROVE  LeftOf(c)' /\ WaysOf(c)'
<1>1. CountOf(c) /\ TypeOK
  BY DEF CountInv, LoopInv, IInv
<1>2. up' = [d \in Clients |-> <<>>] /\ backlog' = <<>>
  BY DEF CloseServer
<1>3. cause'[c] \in {"finished", "pack"} => up'[c] = <<>> /\ down'[c] = <<>>
  BY <1>1, <1>2 DEF CountOf, LeftOf, CloseServer, TypeOK, cvars
<1>4. LeftOf(c)'
  BY <1>3 DEF LeftOf, ServerClosed, ServerServing
<1>5. Connected(c)' => Connected(c)
  BY <1>2, Pairs DEF Connected
<1>6. WaysOf(c)'
  BY <1>1, <1>5 DEF CountOf, WaysOf, cvars
<1>7. QED
  BY <1>4, <1>6

LEMMA ExitCount ==
  ASSUME CountInv, NEW how \in {"exit1", "killed"}, Exit(how)
  PROVE  BudgetInv' /\ \A c \in Clients : CountOf(c)'
<1>1. spc' = how /\ CloseServer /\ UNCHANGED <<conn, cvars>>
  BY DEF Exit
<1>2. BudgetInv'
  BY <1>1 DEF BudgetInv, ServerServing
<1>3. ASSUME NEW c \in Clients PROVE BalanceOf(c)'
  BY <1>1 DEF BalanceOf, ServerServing
<1>4. ServerClosed'
  BY <1>1 DEF ServerClosed
<1>5. QED
  BY <1>1, <1>2, <1>3, <1>4, CloseCount DEF CountOf

LEMMA LostCount ==
  ASSUME CountInv, ServerLost
  PROVE  BudgetInv' /\ \A c \in Clients : CountOf(c)'
<1>1. spc' = "lost" /\ ~ServerClosed /\ UNCHANGED <<conn, cvars, nvars>>
  BY DEF ServerLost, ServerClosed, ServerServing
<1>2. BudgetInv'
  BY <1>1 DEF BudgetInv, ServerServing
<1>3. ASSUME NEW c \in Clients PROVE CountOf(c)'
  <2>1. CountOf(c)
    BY DEF CountInv
  <2>2. QED
    BY <1>1, <2>1 DEF CountOf, BalanceOf, LeftOf, WaysOf, Connected, ServerClosed,
       ServerServing, cvars, nvars
<1>4. QED
  BY <1>2, <1>3

\* The last answer of the budget is complete when the server closes: the close
\* destroys an answer only when a request is on its way, and then none is.
LEMMA SpentCount ==
  ASSUME CountInv, BudgetSpent
  PROVE  BudgetInv' /\ \A c \in Clients : CountOf(c)'
<1>0. PICK c \in Clients : c = conn
  BY DEF CountInv, LoopInv, IInv, ServerInv, ServerServing, BudgetSpent
<1>1. /\ TypeOK /\ BudgetInv /\ CountOf(c) /\ PerClient(c) /\ conn = c /\ conn' = c
      /\ spc = "write" /\ response = <<>> /\ steps' = steps + 1 /\ ~BudgetLeft(steps + 1)
      /\ spc' = "exit0" /\ CloseServer /\ UNCHANGED <<conn, response, cvars>>
  BY <1>0 DEF CountInv, LoopInv, IInv, BudgetSpent
<1>2. BudgetInv'
  <2>1. BudgetLeft(steps) /\ steps \in Nat /\ MaxSteps \in Nat
    BY <1>1, StepsAssumption DEF BudgetInv, ServerServing, TypeOK
  <2>2. steps + 1 = MaxSteps
    BY <1>1, <2>1 DEF BudgetLeft
  <2>3. QED
    BY <1>1, <2>2 DEF BudgetInv, ServerServing
<1>3. BalanceOf(c)'
  <2>1. SUFFICES ASSUME ~Excused(c) PROVE Written' = step'[c] + Unapplied(c)'
    BY <1>1 DEF BalanceOf, Excused, cvars
  <2>2. down'[c] = down[c]
    <3>1. CASE up[c] = <<>>
      BY <1>1, <3>1 DEF CloseServer
    <3>2. CASE up[c] # <<>>
      <4>1. down[c] = <<>>
        BY <1>1, <2>1, <3>2 DEF PerClient, ClientInv, ClientShape, Excused, TypeOK, ClientStates,
           ClientRunning
      <4>2. \E rest \in {<<>>} : down' = [down EXCEPT ![c] = rest]
        BY <1>1, <3>2, <4>1, PairPrefixes DEF CloseServer
      <4>3. QED
        BY <1>1, <4>1, <4>2 DEF TypeOK
    <3>3. QED
      BY <3>1, <3>2
  <2>3. Unapplied(c)' = Unapplied(c)
    BY <1>1, <2>2 DEF Unapplied, cvars
  <2>4. steps + 1 = step[c] + Unapplied(c)
    BY <1>1, <2>1 DEF CountOf, BalanceOf, Written, ServerServing
  <2>5. Written' = steps + 1
    BY <1>1 DEF Written
  <2>6. step' = step
    BY <1>1 DEF cvars
  <2>7. QED
    BY <2>3, <2>4, <2>5, <2>6
<1>4. ASSUME NEW d \in Clients PROVE CountOf(d)'
  <2>1. LeftOf(d)' /\ WaysOf(d)'
    BY <1>1, CloseCount DEF ServerClosed
  <2>2. BalanceOf(d)'
    BY <1>1, <1>3 DEF BalanceOf
  <2>3. QED
    BY <2>1, <2>2 DEF CountOf
<1>5. QED
  BY <1>2, <1>4

LEMMA ServerCount ==
  ASSUME CountInv, ServerStep \/ ServerCrash \/ ServerLost
  PROVE  BudgetInv' /\ \A c \in Clients : CountOf(c)'
<1>1. CASE Load \/ Accept \/ Write \/ NextIteration \/ BudgetSpent \/ ServerLost
  BY <1>1, LoadCount, AcceptCount, WriteCount, NextIterationCount, SpentCount, LostCount
<1>2. CASE Exit("exit1") \/ Exit("killed")
  BY <1>2, ExitCount
<1>3. CASE ReadBody \/ Encode \/ Decode
  <2>1. spc' # "exit1"
    BY <1>3 DEF ReadBody, Encode, Decode
  <2>2. QED
    BY <1>3, <2>1, ComputeCount
<1>4. CASE ReadHeader
  <2>1. Exit("exit1") \/ spc' # "exit1"
    BY <1>4 DEF ReadHeader
  <2>2. QED
    BY <1>2, <1>4, <2>1, ComputeCount
<1>5. CASE PeerClosed \/ PeerUnreachable \/ NpuFails \/ WriteFails \/ ServerCrash
  BY <1>2, <1>5 DEF PeerClosed, PeerUnreachable, NpuFails, WriteFails, ServerCrash
<1>6. QED
  BY <1>1, <1>3, <1>4, <1>5 DEF ServerStep

LEMMA CountStep ==
  ASSUME CountInv, [Next]_vars
  PROVE  CountInv'
<1>1. LoopInv' /\ TypeOK'
  BY NextInv, FromOwnerStep DEF CountInv, LoopInv, IInv
<1>2. CASE UNCHANGED vars
  <2>1. BudgetInv'
    BY <1>2, BudgetUntouched DEF CountInv, vars
  <2>2. ASSUME NEW c \in Clients PROVE CountOf(c)'
    BY <1>2, OthersCount DEF CountInv, vars, cvars, nvars
  <2>3. QED
    BY <1>1, <2>1, <2>2 DEF CountInv
<1>3. QED
  BY <1>1, <1>2, ClientCount, ServerCount DEF Next, Ended, CountInv

\* A server that returned 0 has served exactly max_steps ticks, and its client
\* has applied max_steps actions or holds the last one complete: closing the
\* sockets destroyed no answer, whatever faults occurred before.
THEOREM ExitIsClean == Spec => []CleanExit
<1>1. Init => CountInv
  <2>1. SUFFICES ASSUME Init PROVE CountInv
    OBVIOUS
  <2>2. LoopInv
    BY <2>1, InitInv DEF Init, LoopInv, FromOwner
  <2>3. BudgetInv
    BY <2>1, StepsAssumption DEF Init, BudgetInv, BudgetLeft
  <2>4. ASSUME NEW c \in Clients PROVE CountOf(c)
    BY <2>1, ClientsAssumption, Pairs DEF Init, CountOf, BalanceOf, LeftOf, WaysOf, Connected,
       ServerServing
  <2>5. QED
    BY <2>2, <2>3, <2>4 DEF CountInv
<1>2. CountInv /\ [Next]_vars => CountInv'
  BY CountStep
<1>3. CountInv => CleanExit
  <2>1. SUFFICES ASSUME CountInv, spc = "exit0", ~Excused(conn)
                 PROVE  \/ step[conn] = MaxSteps
                        \/ /\ step[conn] + 1 = MaxSteps
                           /\ Len(inbuf[conn]) + Len(down[conn]) = 2
    BY DEF CleanExit, Excused
  <2>2. PICK c \in Clients : c = conn
    BY <2>1 DEF CountInv, BudgetInv
  <2>3. steps = MaxSteps /\ step[c] \in Nat /\ CountOf(c)
    BY <2>1, <2>2 DEF CountInv, BudgetInv, LoopInv, IInv, TypeOK
  <2>4. MaxSteps = step[c] + Unapplied(c)
    BY <2>1, <2>2, <2>3 DEF CountOf, BalanceOf, Written
  <2>5. CASE Unapplied(c) = 0
    <3>1. step[c] = MaxSteps
      <4>1. \A i \in Nat : i + 0 = i
        OBVIOUS
      <4>2. QED
        BY <2>3, <2>4, <2>5, <4>1, Zenon
    <3>2. QED
      BY <2>2, <3>1
  <2>6. CASE Unapplied(c) # 0
    BY <2>2, <2>3, <2>4, <2>6 DEF Unapplied
  <2>7. QED
    BY <2>5, <2>6
<1>4. QED
  BY <1>1, <1>2, <1>3, PTL DEF Spec
=============================================================================
