---------------------------- MODULE RecvPktProofs ---------------------------
(***************************************************************************)
(* RecvPkt for every stream of packets: types, deadlines, and the framing. *)
(* The stream is a concatenation of packets; SeqFacts gives what is left   *)
(* of it after each packet, and the invariant says that what is read and   *)
(* what is still to come make what is left after the packets delivered.    *)
(***************************************************************************)
EXTENDS RecvPkt, SeqFacts, TLAPS

\* The units read by a call are a sequence, and the deadline on the socket is
\* that of the call under way.
IsSeq(s) == \E R : s \in Seq(R)
Owned == deadline => timeout
IInv == TypeOK /\ IsSeq(frame) /\ Owned

LEMMA FrameGrows ==
  ASSUME NEW s, IsSeq(s), NEW u
  PROVE  IsSeq(Append(s, u)) /\ Len(Append(s, u)) = Len(s) + 1 /\ Len(s) \in Nat
<1>1. PICK R : s \in Seq(R)
  BY DEF IsSeq
<1>2. s \in Seq(R \cup {u}) /\ u \in R \cup {u}
  BY <1>1
<1>3. Append(s, u) \in Seq(R \cup {u}) /\ Len(Append(s, u)) = Len(s) + 1
  BY <1>2
<1>4. IsSeq(Append(s, u))
  BY <1>3, Zenon DEF IsSeq
<1>5. Len(s) \in Nat
  BY <1>1
<1>6. QED
  BY <1>3, <1>4, <1>5

\* An aligned header is that of a packet.
LEMMA AlignedHeader ==
  ASSUME IsSeq(frame), Len(frame) >= HeaderLen, Aligned
  PROVE  frame[1].pkt \in 1..Pkts /\ frame[1].len \in 0..MaxBody
<1>1. PICK R : frame \in Seq(R)
  BY DEF IsSeq
<1>2. PICK k \in 1..Pkts, len \in 0..MaxBody :
        SubSeq(frame, 1, HeaderLen) = HeaderOf(k, len)
  BY DEF Aligned
<1>3. SubSeq(frame, 1, HeaderLen)[1] = frame[1]
  BY <1>1 DEF HeaderLen
<1>a. HeaderOf(k, len)[1] = Unit(k, "h1", len)
  BY DEF HeaderOf
<1>4. frame[1] = Unit(k, "h1", len)
  BY <1>2, <1>3, <1>a
<1>5. QED
  BY <1>4 DEF Unit

LEMMA NoUnits == /\ 0 \in 0..MaxBody /\ Len(<< >>) <= HeaderLen + 0
                 /\ << >> \in Seq(0..Pkts)
BY RecvAssumption DEF HeaderLen

LEMMA InvInit == Init => IInv
<1> SUFFICES ASSUME Init PROVE IInv
  OBVIOUS
<1>1. TypeOK
  BY NoUnits DEF Init, TypeOK
<1>2. IsSeq(frame)
  <2>1. frame \in Seq({})
    BY DEF Init
  <2>2. QED
    BY <2>1, Zenon DEF IsSeq
<1>3. QED
  BY <1>1, <1>2 DEF IInv, Init, Owned

\* A unit is read.
LEMMA ReadStep ==
  ASSUME IInv, ReadHeaderUnit \/ ReadBodyUnit
  PROVE  IInv'
<1> USE DEF IInv
<1>1. /\ frame' = Append(frame, Head(buf)) /\ Len(frame) < HeaderLen + need
      /\ UNCHANGED <<who, coming, eof, closed, rpc, need, timeout, deadline,
                     first, torn, delivered>>
  BY DEF ReadHeaderUnit, ReadBodyUnit, ReadUnit, restVars, peerVars, HeaderLen,
         TypeOK
<1>2. IsSeq(frame') /\ Len(frame') = Len(frame) + 1 /\ Len(frame) \in Nat
  BY <1>1, FrameGrows
<1>3. Len(frame') <= HeaderLen + need
  BY <1>1, <1>2 DEF TypeOK, HeaderLen
<1>4. QED
  BY <1>1, <1>2, <1>3 DEF TypeOK, Owned

\* The call ends, with or without a packet.
LEMMA ReturnStep ==
  ASSUME IInv, NEW to \in {"idle", "stopped"}, Return(to),
         UNCHANGED <<who, eof, closed, frame, need, timeout, first>>,
         torn' \in BOOLEAN, delivered' \in Seq(0..Pkts)
  PROVE  IInv'
<1>1. rpc' = to /\ deadline' = FALSE
  BY DEF Return
<1>2. TypeOK'
  BY <1>1 DEF IInv, TypeOK
<1>3. QED
  BY <1>1, <1>2 DEF IInv, Owned

LEMMA EndSteps ==
  ASSUME IInv,
         HeaderTimeout \/ HeaderEnds \/ RefuseHeader \/ BodyTimeout \/ BodyEnds
           \/ Deliver \/ RefuseBody
  PROVE  IInv'
<1> USE DEF IInv
<1>1. CASE HeaderTimeout
  <2>1. /\ AfterTimeout \in {"idle", "stopped"} /\ Return(AfterTimeout)
        /\ UNCHANGED <<who, eof, closed, frame, need, timeout, first, delivered>>
    BY <1>1 DEF HeaderTimeout, AfterTimeout, restVars, peerVars
  <2>2. torn' \in BOOLEAN /\ delivered' \in Seq(0..Pkts)
    BY <1>1, <2>1 DEF HeaderTimeout, TypeOK
  <2>3. QED
    BY <2>1, <2>2, ReturnStep, Zenon
<1>2. CASE HeaderEnds \/ RefuseHeader \/ BodyTimeout \/ BodyEnds \/ RefuseBody
  <2>1. Fails
    BY <1>2 DEF HeaderEnds, RefuseHeader, BodyTimeout, BodyEnds, RefuseBody
  <2>2. /\ Return("stopped") /\ torn' \in BOOLEAN /\ delivered' \in Seq(0..Pkts)
        /\ UNCHANGED <<who, eof, closed, frame, need, timeout, first>>
    BY <2>1 DEF Fails, restVars, peerVars, TypeOK
  <2>3. QED
    BY <2>2, ReturnStep
<1>3. CASE Deliver
  <2>1. /\ Return("idle")
        /\ UNCHANGED <<who, eof, closed, frame, need, timeout, first, torn>>
        /\ delivered' = Append(delivered, IF Aligned THEN frame[1].pkt ELSE 0)
        /\ Len(frame) = HeaderLen + need
    BY <1>3 DEF Deliver, restVars, peerVars
  <2>2. (IF Aligned THEN frame[1].pkt ELSE 0) \in 0..Pkts
    <3>1. Aligned => frame[1].pkt \in 1..Pkts
      BY <2>1, AlignedHeader, RecvAssumption DEF TypeOK, HeaderLen
    <3>2. QED
      BY <3>1, RecvAssumption
  <2>3. torn' \in BOOLEAN /\ delivered' \in Seq(0..Pkts)
    BY <2>1, <2>2 DEF TypeOK
  <2>4. QED
    BY <2>1, <2>3, ReturnStep
<1>4. QED
  BY <1>1, <1>2, <1>3

LEMMA ParseStep ==
  ASSUME IInv, ParseHeader
  PROVE  IInv'
<1> USE DEF IInv
<1>1. /\ rpc = "header" /\ rpc' = "body" /\ Len(frame) = HeaderLen
      /\ need' \in IF Aligned THEN {frame[1].len} ELSE 0..MaxBody
      /\ deadline' = (deadline \/ timeout)
      /\ UNCHANGED <<who, eof, closed, frame, timeout, first, torn, delivered>>
  BY DEF ParseHeader, restVars, peerVars
<1>2. need' \in 0..MaxBody
  BY <1>1, AlignedHeader DEF HeaderLen
<1>3. Len(frame') <= HeaderLen + need'
  <2>1. Len(frame') = 2 /\ need' \in Nat
    BY <1>1, <1>2, RecvAssumption DEF HeaderLen
  <2>2. \A n \in Nat : 2 <= HeaderLen + n
    BY DEF HeaderLen
  <2>3. QED
    BY <2>1, <2>2, Zenon
<1>4. deadline' \in BOOLEAN /\ Owned'
  BY <1>1 DEF Owned, TypeOK
<1>5. QED
  BY <1>1, <1>2, <1>3, <1>4 DEF TypeOK

LEMMA CallStep ==
  ASSUME IInv, Call
  PROVE  IInv'
<1> USE DEF IInv
<1>1. /\ rpc = "idle" /\ ~deadline /\ rpc' = "header"
      /\ timeout' = (who = "serve" \/ first) /\ deadline' = timeout'
      /\ first' = FALSE /\ frame' = << >> /\ need' = 0
      /\ UNCHANGED <<who, eof, closed, torn, delivered>>
  BY DEF Call, TypeOK, restVars, peerVars
<1>2. IsSeq(frame')
  <2>1. << >> \in Seq({})
    OBVIOUS
  <2>2. QED
    BY <1>1, <2>1, Zenon DEF IsSeq
<1>3. TypeOK'
  BY <1>1, NoUnits DEF TypeOK
<1>4. QED
  BY <1>1, <1>2, <1>3 DEF Owned

LEMMA OtherSteps ==
  ASSUME IInv,
         Arrive \/ PeerCloses \/ Disconnect \/ CallRefused \/ Stopped
           \/ UNCHANGED vars
  PROVE  IInv'
<1>1. /\ UNCHANGED <<who, frame, need, timeout, deadline, first, torn, delivered>>
      /\ eof' \in BOOLEAN /\ closed' \in BOOLEAN
      /\ rpc' = rpc \/ (rpc = "idle" /\ rpc' = "stopped")
  BY DEF IInv, TypeOK, Arrive, PeerCloses, Disconnect, CallRefused, Stopped,
         vars, restVars, peerVars
<1>2. QED
  BY <1>1 DEF IInv, TypeOK, Owned

LEMMA InvStep == IInv /\ [Next]_vars => IInv'
BY ReadStep, EndSteps, ParseStep, CallStep, OtherSteps, Zenon DEF Next, Receive

\* The inductive invariant: types, and a deadline on the socket only while the
\* call that set it runs (connection.go:142-150, 166-170).
THEOREM Invariance == Spec => []IInv
BY InvInit, InvStep, PTL DEF Spec

\* The variables of RecvPkt keep their types; between two calls the socket has
\* no deadline, and no call reads more than the header told it
\* (connection.go:142-184).
THEOREM TypeCorrect == Spec => []TypeOK
<1>1. IInv => TypeOK
  BY DEF IInv
<1>2. QED
  BY <1>1, Invariance, PTL

\* No call without a timeout ends by a deadline, however the calls of Connect
\* and of the receive loop follow each other (connection.go:143-150).
THEOREM DeadlinesAreOwned == Spec => NoStaleDeadline
<1>1. IInv /\ [Next]_vars => [HeaderTimeout \/ BodyTimeout => timeout]_vars
  BY DEF IInv, Owned, HeaderTimeout, BodyTimeout
<1>2. QED
  BY <1>1, Invariance, PTL DEF Spec, NoStaleDeadline

-----------------------------------------------------------------------------
(* Framing: what is read and what is still to be read is the rest of the   *)
(* stream after the packets delivered.                                     *)

Units == [pkt : 1..Pkts, part : {"h1", "h2", "b"}, len : 0..MaxBody]
Lengths == [1..Pkts -> 0..MaxBody]
Packets(len) == [k \in 1..Pkts |-> PacketOf(k, len[k])]
\* rest[m] is the stream from packet m + 1 on.
Stream(len, rest) == len \in Lengths /\ Rest(rest, Seq(Units), Packets(len), Pkts)

LEMMA PacketUnits ==
  ASSUME NEW k \in 1..Pkts, NEW l \in 0..MaxBody
  PROVE  /\ PacketOf(k, l) \in Seq(Units) /\ Len(PacketOf(k, l)) = HeaderLen + l
         /\ PacketOf(k, l)[1] = Unit(k, "h1", l)
         /\ PacketOf(k, l)[2] = Unit(k, "h2", l)
<1> DEFINE h == HeaderOf(k, l)
           b == [j \in 1..l |-> Unit(k, "b", l)]
<1>1. /\ Unit(k, "h1", l) \in Units /\ Unit(k, "h2", l) \in Units
      /\ Unit(k, "b", l) \in Units
  BY DEF Unit, Units
<1>2. h = <<Unit(k, "h1", l), Unit(k, "h2", l)>>
  BY DEF HeaderOf
<1>3. l \in Nat
  BY RecvAssumption
<1>4. h \in Seq(Units) /\ Len(h) = 2 /\ h[1] = Unit(k, "h1", l)
      /\ h[2] = Unit(k, "h2", l)
  <2> HIDE DEF h
  <2>1. QED
    BY <1>1, <1>2
<1>5. b \in Seq(Units) /\ Len(b) = l
  BY <1>1, <1>3
<1>6. PacketOf(k, l) = h \o b
  BY DEF PacketOf
<1> HIDE DEF h, b
<1>7. h \o b \in Seq(Units) /\ Len(h \o b) = Len(h) + Len(b)
  BY <1>4, <1>5, Concat
<1>8. (h \o b)[1] = h[1] /\ (h \o b)[2] = h[2]
  <2>1. \A i \in 1..Len(h) : (h \o b)[i] = h[i]
    BY <1>4, <1>5, ConcatParts
  <2>2. 1 \in 1..Len(h) /\ 2 \in 1..Len(h)
    BY <1>4
  <2>3. QED
    BY <2>1, <2>2, Zenon
<1>9. QED
  BY <1>4, <1>5, <1>6, <1>7, <1>8 DEF HeaderLen

LEMMA StreamExists ==
  ASSUME NEW len \in Lengths
  PROVE  \E rest : /\ Stream(len, rest)
                   /\ FlattenSeq(Packets(len)) = rest[0]
<1> DEFINE X == Seq(Units)
           seqs == Packets(len)
<1>1. \A k \in 1..Pkts : seqs[k] \in X
  BY PacketUnits DEF Lengths, Packets
<1>2. Monoid(X) /\ Pkts \in Nat
  BY SeqMonoid, RecvAssumption
<1>3. seqs \in Seq(X) /\ Len(seqs) = Pkts
  BY <1>1, <1>2 DEF Packets
<1>4. PICK rest : Rest(rest, X, seqs, Pkts)
  <2> HIDE DEF X, seqs
  <2>1. QED
    BY <1>1, <1>2, RestExists
<1>5. CASE Pkts = 0
  <2>1. FlattenSeq(seqs) = << >>
    <3> HIDE DEF X
    <3>1. seqs = << >>
      BY <1>3, <1>5
    <3>2. QED
      BY <3>1 DEF FlattenSeq
  <2>2. rest[0] = << >>
    BY <1>4, <1>5, Zenon DEF Rest
  <2>3. QED
    BY <1>4, <2>1, <2>2, Zenon DEF Stream
<1>6. CASE Pkts > 0
  <2>1. FlattenSeq(seqs) = rest[0]
    <3> HIDE DEF seqs
    <3>1. QED
      BY <1>1, <1>2, <1>3, <1>4, <1>6, Flattened
  <2>2. QED
    BY <1>4, <2>1, Zenon DEF Stream
<1>7. QED
  BY <1>2, <1>5, <1>6

\* A sequence of units and what follows it make the stream after m packets: a
\* header's worth of it is the header of the next packet, ...
LEMMA HeadOfRest ==
  ASSUME NEW len, NEW rest, Stream(len, rest), NEW m \in 0..Pkts,
         NEW s \in Seq(Units), NEW t \in Seq(Units), s \o t = rest[m],
         Len(s) >= HeaderLen
  PROVE  /\ m + 1 \in 1..Pkts /\ len[m + 1] \in 0..MaxBody
         /\ s[1] = Unit(m + 1, "h1", len[m + 1])
         /\ s[2] = Unit(m + 1, "h2", len[m + 1])
<1> DEFINE p == PacketOf(m + 1, len[m + 1])
<1>1. Len(s \o t) = Len(s) + Len(t) /\ Len(s) \in Nat /\ Len(t) \in Nat /\ Len(s) >= 2
  <2>1. Len(s \o t) = Len(s) + Len(t)
    BY LenConcat, Zenon
  <2>2. Len(s) \in Nat /\ Len(t) \in Nat /\ Len(s) >= 2
    BY DEF HeaderLen
  <2>3. QED
    BY <2>1, <2>2
<1>2. m # Pkts
  <2>1. SUFFICES ASSUME m = Pkts PROVE FALSE
    OBVIOUS
  <2>2. s \o t = << >>
    BY <2>1, Zenon DEF Stream, Rest
  <2>3. Len(s \o t) = 0
    BY <2>2
  <2>4. QED
    BY <1>1, <2>3
<1>3. m + 1 \in 1..Pkts /\ (m + 1) - 1 = m /\ m + 1 \in 0..Pkts
  BY <1>2, RecvAssumption
<1>4. len[m + 1] \in 0..MaxBody
  BY <1>3 DEF Stream, Lengths
<1>5. /\ p \in Seq(Units) /\ Len(p) = HeaderLen + len[m + 1]
      /\ p[1] = Unit(m + 1, "h1", len[m + 1])
      /\ p[2] = Unit(m + 1, "h2", len[m + 1])
  BY <1>3, <1>4, PacketUnits
<1>6. rest[m] = p \o rest[m + 1] /\ rest[m + 1] \in Seq(Units)
  <2>1. Packets(len)[m + 1] = p
    BY <1>3, Zenon DEF Packets
  <2>2. QED
    BY <1>3, <2>1, Zenon DEF Stream, Rest
<1> HIDE DEF p
<1>7. (s \o t)[1] = s[1] /\ (s \o t)[2] = s[2]
  <2>1. \A i \in 1..Len(s) : (s \o t)[i] = s[i]
    BY ConcatParts
  <2>2. 1 \in 1..Len(s) /\ 2 \in 1..Len(s)
    BY <1>1
  <2>3. QED
    BY <2>1, <2>2, Zenon
<1>8. (p \o rest[m + 1])[1] = p[1] /\ (p \o rest[m + 1])[2] = p[2]
  <2>1. \A i \in 1..Len(p) : (p \o rest[m + 1])[i] = p[i]
    BY <1>5, <1>6, ConcatParts
  <2>2. 1 \in 1..Len(p) /\ 2 \in 1..Len(p)
    BY <1>4, <1>5, RecvAssumption DEF HeaderLen
  <2>3. QED
    BY <2>1, <2>2, Zenon
<1>9. QED
  BY <1>3, <1>4, <1>5, <1>6, <1>7, <1>8, Zenon

\* ... and the header with the body it announces is that packet.
LEMMA WholePacket ==
  ASSUME NEW len, NEW rest, Stream(len, rest), NEW m \in 0..Pkts, m + 1 \in 1..Pkts,
         NEW s \in Seq(Units), NEW t \in Seq(Units), s \o t = rest[m],
         Len(s) = HeaderLen + len[m + 1]
  PROVE  t = rest[m + 1]
<1> DEFINE p == PacketOf(m + 1, len[m + 1])
<1>1. len[m + 1] \in 0..MaxBody /\ (m + 1) - 1 = m /\ m + 1 \in 0..Pkts
  BY DEF Stream, Lengths
<1>2. p \in Seq(Units) /\ Len(p) = Len(s)
  BY <1>1, PacketUnits
<1>3. rest[m] = p \o rest[m + 1] /\ rest[m + 1] \in Seq(Units)
  <2>1. Packets(len)[m + 1] = p
    BY Zenon DEF Packets
  <2>2. QED
    BY <1>1, <2>1, Zenon DEF Stream, Rest
<1>4. SameConcat(s, t, p, rest[m + 1])
  BY <1>3, Zenon DEF SameConcat
<1> HIDE DEF p
<1>5. QED
  BY <1>2, <1>3, <1>4, Cancel, Zenon

-----------------------------------------------------------------------------
\* The invariant: no unit is lost, and a body is read with its own length.

Read == IF rpc = "idle" THEN << >> ELSE frame
Following(rest) == rest[Len(delivered)]
UnitsOK == coming \in Seq(Units) /\ buf \in Seq(Units) /\ frame \in Seq(Units)
InStep(len, rest) ==
  ~torn /\ rpc # "stopped" =>
    /\ Len(delivered) \in 0..Pkts
    /\ Read \o (buf \o coming) = Following(rest)
    /\ rpc = "body" => /\ Len(frame) >= HeaderLen
                       /\ need = len[Len(delivered) + 1]
Framing ==
  /\ UnitsOK /\ FramesIntact
  /\ \E len, rest : Stream(len, rest) /\ InStep(len, rest)

LEMMA FramingInit == Init => Framing
<1> SUFFICES ASSUME Init PROVE Framing
  OBVIOUS
<1>1. PICK len \in Lengths : coming = FlattenSeq(Packets(len))
  BY DEF Init, Lengths, Packets
<1>2. PICK rest : Stream(len, rest) /\ FlattenSeq(Packets(len)) = rest[0]
  BY StreamExists, Zenon
<1>3. coming \in Seq(Units)
  <2>1. 0 \in 0..Pkts
    BY RecvAssumption
  <2>2. QED
    BY <1>1, <1>2, <2>1, Zenon DEF Stream, Rest
<1>4. buf = << >> /\ frame = << >> /\ rpc = "idle" /\ delivered = << >>
  BY DEF Init
<1>5. UnitsOK
  BY <1>3, <1>4 DEF UnitsOK
<1>6. Len(delivered) = 0
  BY <1>4
<1>7. FramesIntact
  BY <1>6 DEF FramesIntact
<1>8. InStep(len, rest)
  <2>1. Read = << >>
    BY <1>4 DEF Read
  <2>2. << >> \o (<< >> \o coming) = coming
    BY <1>3
  <2>3. Read \o (buf \o coming) = Following(rest)
    BY <1>1, <1>2, <1>4, <1>6, <2>1, <2>2, Zenon DEF Following
  <2>4. Len(delivered) \in 0..Pkts
    BY <1>6, RecvAssumption
  <2>5. QED
    BY <1>4, <2>3, <2>4 DEF InStep
<1>9. QED
  BY <1>2, <1>5, <1>7, <1>8, Zenon DEF Framing

\* A step that keeps what is delivered keeps the framing with the same stream.
LEMMA FramingBy ==
  ASSUME Framing, UnitsOK', torn => torn', delivered' = delivered,
         \A len, rest : Stream(len, rest) /\ InStep(len, rest) => InStep(len, rest)'
  PROVE  Framing'
<1>1. PICK len, rest : Stream(len, rest) /\ InStep(len, rest)
  BY Zenon DEF Framing
<1>2. FramesIntact'
  BY Zenon DEF Framing, FramesIntact
<1>3. Stream(len, rest)'
  BY <1>1, Zenon DEF Stream, Rest
<1>4. QED
  BY <1>1, <1>2, <1>3, Zenon DEF Framing

LEMMA FramingStops ==
  ASSUME Framing, rpc' = "stopped", torn => torn',
         UNCHANGED <<coming, buf, frame, delivered>>
  PROVE  Framing'
<1>1. UnitsOK'
  BY DEF Framing, UnitsOK
<1>2. \A len, rest : InStep(len, rest)'
  BY DEF InStep
<1>3. QED
  BY <1>1, <1>2, FramingBy

\* The units move on: what is read and what is not are the same stream.
LEMMA FramingMoves ==
  ASSUME Framing, UnitsOK', rpc' # "body" \/ (rpc = "body" /\ need' = need),
         rpc # "stopped", rpc = "body" => Len(frame') >= Len(frame),
         torn' = torn, delivered' = delivered,
         Read' \o (buf' \o coming') = Read \o (buf \o coming)
  PROVE  Framing'
<1>1. ASSUME NEW len, NEW rest, InStep(len, rest)
      PROVE  InStep(len, rest)'
  <2>1. Following(rest)' = Following(rest)
    BY DEF Following
  <2>2. Len(frame) \in Nat /\ Len(frame') \in Nat
    BY DEF Framing, UnitsOK
  <2> DEFINE now == Read \o (buf \o coming)
             then == Read' \o (buf' \o coming')
  <2>3. then = now
    OBVIOUS
  <2>4. ASSUME ~torn', rpc' # "stopped"
        PROVE  /\ Len(delivered') \in 0..Pkts
               /\ then = Following(rest)'
               /\ rpc' = "body" => /\ Len(frame') >= HeaderLen
                                   /\ need' = len[Len(delivered') + 1]
    <3>1. /\ Len(delivered) \in 0..Pkts /\ now = Following(rest)
          /\ rpc = "body" => /\ Len(frame) >= HeaderLen
                             /\ need = len[Len(delivered) + 1]
      BY <1>1, <2>4 DEF InStep
    <3> HIDE DEF now, then
    <3>2. QED
      BY <2>1, <2>2, <2>3, <3>1 DEF HeaderLen
  <2>5. QED
    BY <2>4 DEF InStep
<1>2. QED
  BY <1>1, FramingBy

LEMMA FramingSame ==
  ASSUME Framing, UNCHANGED <<coming, buf, frame, rpc, need, torn, delivered>>
  PROVE  Framing'
<1>1. UnitsOK'
  BY DEF Framing, UnitsOK
<1>2. \A len, rest : InStep(len, rest) => InStep(len, rest)'
  BY DEF InStep, Read, Following
<1>3. QED
  BY <1>1, <1>2, FramingBy

LEMMA FramingArrive ==
  ASSUME Framing, Arrive
  PROVE  Framing'
<1>1. /\ buf' = Append(buf, Head(coming)) /\ coming' = Tail(coming)
      /\ coming # << >> /\ UNCHANGED <<rpc, frame, need, torn, delivered>>
  BY DEF Arrive
<1>2. buf \in Seq(Units) /\ coming \in Seq(Units) /\ frame \in Seq(Units)
  BY DEF Framing, UnitsOK
<1>3. buf' \o coming' = buf \o coming /\ buf' \in Seq(Units) /\ coming' \in Seq(Units)
  BY <1>1, <1>2, MoveHead
<1>4. Read' = Read
  BY <1>1 DEF Read
<1>5. UnitsOK'
  BY <1>1, <1>2, <1>3 DEF UnitsOK
<1>6. CASE rpc = "stopped"
  <2>1. \A len, rest : InStep(len, rest)'
    BY <1>1, <1>6 DEF InStep
  <2>2. QED
    BY <1>1, <1>5, <2>1, FramingBy
<1>7. CASE rpc # "stopped"
  <2>1. Read' \o (buf' \o coming') = Read \o (buf \o coming)
    BY <1>3, <1>4, Zenon
  <2>2. rpc = "body" => Len(frame') >= Len(frame)
    BY <1>1, <1>2
  <2>3. QED
    BY <1>1, <1>5, <1>7, <2>1, <2>2, FramingMoves, Zenon
<1>8. QED
  BY <1>6, <1>7

LEMMA FramingCall ==
  ASSUME Framing, Call
  PROVE  Framing'
<1>1. /\ rpc = "idle" /\ rpc' = "header" /\ frame' = << >>
      /\ UNCHANGED <<coming, buf, torn, delivered>>
  BY DEF Call, peerVars
<1>2. Read' = Read
  BY <1>1 DEF Read
<1>3. UnitsOK'
  BY <1>1 DEF Framing, UnitsOK
<1>4. Read' \o (buf' \o coming') = Read \o (buf \o coming)
  BY <1>1, <1>2, Zenon
<1>5. QED
  BY <1>1, <1>3, <1>4, FramingMoves

LEMMA FramingRead ==
  ASSUME Framing, ReadHeaderUnit \/ ReadBodyUnit
  PROVE  Framing'
<1>1. /\ frame' = Append(frame, Head(buf)) /\ buf' = Tail(buf) /\ buf # << >>
      /\ rpc \in {"header", "body"}
      /\ UNCHANGED <<coming, rpc, need, torn, delivered>>
  BY DEF ReadHeaderUnit, ReadBodyUnit, ReadUnit, peerVars
<1>2. buf \in Seq(Units) /\ coming \in Seq(Units) /\ frame \in Seq(Units)
  BY DEF Framing, UnitsOK
<1>3. frame' \in Seq(Units) /\ buf' \in Seq(Units)
  BY <1>1, <1>2, MoveHead
<1>4. frame' \o (buf' \o coming) = frame \o (buf \o coming)
  <2>1. Append(frame, Head(buf)) \o (Tail(buf) \o coming)
          = frame \o (buf \o coming)
    BY <1>1, <1>2, MoveHeadBefore, SMTT(30)
  <2>2. QED
    BY <1>1, <2>1, Zenon
<1>5. Read = frame /\ Read' = frame'
  BY <1>1 DEF Read
<1>6. UnitsOK'
  BY <1>1, <1>2, <1>3 DEF UnitsOK
<1>7. Read' \o (buf' \o coming') = Read \o (buf \o coming)
  BY <1>1, <1>4, <1>5, Zenon
<1>8. Len(frame') >= Len(frame)
  <2>1. Len(frame') = Len(frame) + 1 /\ Len(frame) \in Nat
    BY <1>1, <1>2
  <2>2. QED
    BY <2>1
<1>9. rpc # "stopped"
  BY <1>1
<1>10. QED
  BY <1>1, <1>6, <1>7, <1>8, <1>9, FramingMoves, Zenon

\* A timeout that finds nothing of a header read loses nothing.
LEMMA FramingTimeout ==
  ASSUME Framing, HeaderTimeout
  PROVE  Framing'
<1>1. /\ rpc = "header" /\ rpc' = AfterTimeout
      /\ torn' = (torn \/ (frame # << >> /\ who = "serve"))
      /\ UNCHANGED <<coming, buf, frame, need, delivered>>
  BY DEF HeaderTimeout, Return, peerVars
<1>2. UnitsOK' /\ (torn => torn')
  BY <1>1 DEF Framing, UnitsOK
<1>3. CASE who # "serve"
  <2>1. rpc' = "stopped"
    BY <1>1, <1>3 DEF AfterTimeout
  <2>2. QED
    BY <1>1, <1>2, <2>1, FramingStops
<1>4. CASE who = "serve" /\ frame # << >>
  <2>1. \A len, rest : InStep(len, rest)'
    BY <1>1, <1>4 DEF InStep
  <2>2. QED
    BY <1>1, <1>2, <2>1, FramingBy
<1>5. CASE who = "serve" /\ frame = << >>
  <2>1. rpc' = "idle" /\ (torn' <=> torn) /\ Read' = << >> /\ Read = << >>
    BY <1>1, <1>5 DEF AfterTimeout, Read
  <2>2. Read' \o (buf' \o coming') = Read \o (buf \o coming)
    BY <1>1, <2>1, Zenon
  <2>3. \A len, rest : InStep(len, rest) => InStep(len, rest)'
    BY <1>1, <2>1, <2>2 DEF InStep, Following
  <2>4. QED
    BY <1>1, <1>2, <2>3, FramingBy
<1>6. QED
  BY <1>3, <1>4, <1>5

\* The first two elements of a sequence.
LEMMA FirstTwo ==
  ASSUME NEW U, NEW s \in Seq(U), Len(s) >= 2
  PROVE  SubSeq(s, 1, 2) = <<s[1], s[2]>>
<1>1. Len(s) \in Nat /\ SubSeq(s, 1, 2) \in Seq(U) /\ s[1] \in U /\ s[2] \in U
  OBVIOUS
<1>2. Len(SubSeq(s, 1, 2)) = 2
  OBVIOUS
<1>3. SubSeq(s, 1, 2)[1] = s[1] /\ SubSeq(s, 1, 2)[2] = s[2]
  OBVIOUS
<1>4. <<s[1], s[2]>> \in Seq(U) /\ Len(<<s[1], s[2]>>) = 2
  BY <1>1
<1> DEFINE a == SubSeq(s, 1, 2)
           b == <<s[1], s[2]>>
<1>5. \A i \in 1..2 : a[i] = b[i]
  BY <1>3
<1> HIDE DEF a, b
<1>6. a \in Seq(U) /\ b \in Seq(U) /\ Len(a) = 2 /\ Len(b) = 2
  BY <1>1, <1>2, <1>4 DEF a, b
<1>7. a = b
  BY <1>5, <1>6, SeqEqual
<1>8. QED
  BY <1>7 DEF a, b

\* In step with the stream, a header's worth read is the next packet's header.
LEMMA NextHeader ==
  ASSUME Framing, ~torn, rpc \in {"header", "body"}, Len(frame) >= HeaderLen,
         NEW len, NEW rest, Stream(len, rest), InStep(len, rest)
  PROVE  /\ Len(delivered) + 1 \in 1..Pkts /\ Aligned
         /\ frame[1].pkt = Len(delivered) + 1
         /\ frame[1].len = len[Len(delivered) + 1]
<1> DEFINE m == Len(delivered)
           tail == buf \o coming
<1>1. m \in 0..Pkts /\ frame \o tail = rest[m]
  <2>1. Read = frame
    BY DEF Read
  <2>2. QED
    BY <2>1 DEF InStep, Following
<1>2. frame \in Seq(Units) /\ tail \in Seq(Units)
  BY Concat DEF Framing, UnitsOK
<1> HIDE DEF m, tail
<1>3. /\ m + 1 \in 1..Pkts /\ len[m + 1] \in 0..MaxBody
      /\ frame[1] = Unit(m + 1, "h1", len[m + 1])
      /\ frame[2] = Unit(m + 1, "h2", len[m + 1])
  BY <1>1, <1>2, HeadOfRest
<1>4. SubSeq(frame, 1, HeaderLen) = <<frame[1], frame[2]>>
  BY <1>2, FirstTwo DEF HeaderLen
<1>5. SubSeq(frame, 1, HeaderLen) = HeaderOf(m + 1, len[m + 1])
  BY <1>3, <1>4, Zenon DEF HeaderOf
<1>6. Aligned
  BY <1>3, <1>5, Zenon DEF Aligned
<1>7. frame[1].pkt = m + 1 /\ frame[1].len = len[m + 1]
  BY <1>3 DEF Unit
<1>8. QED
  BY <1>3, <1>6, <1>7 DEF m

LEMMA FramingParse ==
  ASSUME IInv, Framing, ParseHeader
  PROVE  Framing'
<1>1. /\ rpc = "header" /\ rpc' = "body" /\ Len(frame) = HeaderLen
      /\ need' \in IF Aligned THEN {frame[1].len} ELSE 0..MaxBody
      /\ UNCHANGED <<coming, buf, frame, torn, delivered>>
  BY DEF ParseHeader, peerVars
<1>2. UnitsOK'
  BY <1>1 DEF Framing, UnitsOK
<1>3. ASSUME NEW len, NEW rest, Stream(len, rest), InStep(len, rest)
      PROVE  InStep(len, rest)'
  <2>1. SUFFICES ASSUME ~torn
                 PROVE  /\ Len(delivered) \in 0..Pkts
                        /\ frame \o (buf \o coming) = rest[Len(delivered)]
                        /\ Len(frame) >= HeaderLen
                        /\ need' = len[Len(delivered) + 1]
    BY <1>1 DEF InStep, Read, Following
  <2>2. /\ Len(delivered) \in 0..Pkts
        /\ frame \o (buf \o coming) = rest[Len(delivered)]
    BY <1>1, <1>3, <2>1 DEF InStep, Read, Following
  <2>3. Len(frame) >= HeaderLen
    BY <1>1 DEF HeaderLen
  <2>4. Aligned /\ frame[1].len = len[Len(delivered) + 1]
    BY <1>1, <1>3, <2>1, <2>3, NextHeader
  <2>5. QED
    BY <1>1, <2>2, <2>3, <2>4
<1>4. QED
  BY <1>1, <1>2, <1>3, FramingBy

LEMMA FramingDeliver ==
  ASSUME IInv, Framing, Deliver
  PROVE  Framing'
<1>1. /\ rpc = "body" /\ rpc' = "idle" /\ Len(frame) = HeaderLen + need
      /\ delivered' = Append(delivered, IF Aligned THEN frame[1].pkt ELSE 0)
      /\ UNCHANGED <<coming, buf, frame, torn>>
  BY DEF Deliver, Return, peerVars
<1>2. UnitsOK'
  BY <1>1 DEF Framing, UnitsOK
<1>3. delivered \in Seq(0..Pkts)
  BY DEF IInv, TypeOK
<1>4. PICK len, rest : Stream(len, rest) /\ InStep(len, rest)
  BY Zenon DEF Framing
<1>5. Stream(len, rest)'
  BY <1>4, Zenon DEF Stream, Rest
<1>6. CASE torn
  BY <1>1, <1>2, <1>4, <1>5, <1>6 DEF Framing, FramesIntact, InStep
<1>7. CASE ~torn
  <2> DEFINE m == Len(delivered)
             tail == buf \o coming
  <2>1. Len(frame) >= HeaderLen /\ need = len[m + 1]
    BY <1>1, <1>4, <1>7 DEF InStep
  <2>2. m + 1 \in 1..Pkts /\ Aligned /\ frame[1].pkt = m + 1
    BY <1>1, <1>4, <1>7, <2>1, NextHeader
  <2>3. frame \in Seq(Units) /\ tail \in Seq(Units)
    BY Concat DEF Framing, UnitsOK
  <2>4. m \in 0..Pkts /\ frame \o tail = rest[m]
    BY <1>1, <1>4, <1>7 DEF InStep, Read, Following
  <2>5. tail = rest[m + 1]
    <3> HIDE DEF m, tail
    <3>1. Len(frame) = HeaderLen + len[m + 1]
      BY <1>1, <2>1
    <3>2. QED
      BY <1>4, <2>2, <2>3, <2>4, <3>1, WholePacket, Zenon
  <2>6. delivered' = Append(delivered, m + 1)
    BY <1>1, <2>2
  <2>7. Len(delivered') = m + 1 /\ m + 1 \in 0..Pkts
    BY <1>3, <2>2, <2>6
  <2>8. InStep(len, rest)'
    <3>1. Read' = << >> /\ << >> \o tail = tail
      BY <1>1, <2>3, Concat DEF Read
    <3>2. Read' \o (buf' \o coming') = rest[m + 1]
      BY <1>1, <2>5, <3>1, Zenon
    <3>3. Read' \o (buf' \o coming') = Following(rest)'
      BY <2>7, <3>2 DEF Following
    <3>4. QED
      BY <1>1, <2>7, <3>3 DEF InStep
  <2>9. FramesIntact'
    <3>1. \A i \in 1..m : delivered[i] = i
      BY <1>7 DEF Framing, FramesIntact
    <3>2. \A i \in 1..(m + 1) : delivered'[i] = i
      BY <1>3, <2>6, <3>1
    <3>3. QED
      BY <2>7, <3>2 DEF FramesIntact
  <2>10. QED
    BY <1>2, <1>5, <2>8, <2>9, Zenon DEF Framing
<1>8. QED
  BY <1>6, <1>7

LEMMA FramingStep == IInv /\ Framing /\ [Next]_vars => Framing'
<1> SUFFICES ASSUME IInv, Framing, [Next]_vars PROVE Framing'
  OBVIOUS
<1>1. CASE HeaderEnds \/ RefuseHeader \/ BodyTimeout \/ BodyEnds \/ RefuseBody
           \/ CallRefused
  <2>1. rpc' = "stopped" /\ UNCHANGED <<coming, buf, frame, torn, delivered>>
    BY <1>1 DEF HeaderEnds, RefuseHeader, BodyTimeout, BodyEnds, RefuseBody,
         CallRefused, Fails, Return, peerVars
  <2>2. QED
    BY <2>1, FramingStops
<1>2. CASE PeerCloses \/ Disconnect \/ Stopped \/ UNCHANGED vars
  <2>1. UNCHANGED <<coming, buf, frame, rpc, need, torn, delivered>>
    BY <1>2 DEF PeerCloses, Disconnect, Stopped, vars, peerVars
  <2>2. QED
    BY <2>1, FramingSame
<1>3. QED
  BY <1>1, <1>2, FramingArrive, FramingCall, FramingRead, FramingTimeout,
     FramingParse, FramingDeliver, Zenon DEF Next, Receive

\* The packets delivered are those of the stream, each once and in order, for
\* every number and length of packets and every way the stream is cut into
\* reads, as long as no timeout has torn a header (connection.go:153-184).
THEOREM FramingKept == Spec => []FramesIntact
<1>1. Framing => FramesIntact
  BY DEF Framing
<1>2. QED
  BY <1>1, FramingInit, FramingStep, Invariance, PTL DEF Spec

-----------------------------------------------------------------------------
(* Refinement.  The abstract state of the stream, by name.                  *)

StreamNow == IF rpc = "stopped" THEN "ended" ELSE IF torn THEN "cut"
             ELSE "whole"

\* A step of the delivery, or none, in the terms of RecvPkt.
DeliverySteps ==
  \/ /\ StreamNow = "whole" /\ Len(delivered) < Pkts
     /\ delivered' = Append(delivered, Len(delivered) + 1)
     /\ UNCHANGED <<who, StreamNow>>
  \/ /\ StreamNow = "whole" /\ who = "serve" /\ StreamNow' = "cut"
     /\ UNCHANGED <<who, delivered>>
  \/ /\ StreamNow = "cut"
     /\ \E k \in 0..Pkts : delivered' = Append(delivered, k)
     /\ UNCHANGED <<who, StreamNow>>
  \/ /\ StreamNow # "ended" /\ StreamNow' = "ended"
     /\ UNCHANGED <<who, delivered>>
  \/ UNCHANGED <<who, delivered, StreamNow>>

LEMMA DeliveryNames ==
  /\ Init => AsDelivery!DInit
  /\ DeliverySteps => [AsDelivery!DNext]_(AsDelivery!dvars)
<1>1. Init => AsDelivery!DInit
  BY DEF Init, AsDelivery!DInit
<1>2. DeliverySteps => [AsDelivery!DNext]_(AsDelivery!dvars)
  BY Zenon DEF DeliverySteps, StreamNow, AsDelivery!DNext, AsDelivery!Take,
     AsDelivery!Cut, AsDelivery!TakeAny, AsDelivery!End, AsDelivery!dvars
<1>3. QED
  BY <1>1, <1>2

\* A packet is handed over: the next one as long as the framing holds.
LEMMA DeliverySends ==
  ASSUME IInv, Framing, Framing', Deliver
  PROVE  DeliverySteps
<1>1. /\ rpc = "body" /\ rpc' = "idle" /\ Len(frame) = HeaderLen + need
      /\ delivered' = Append(delivered, IF Aligned THEN frame[1].pkt ELSE 0)
      /\ UNCHANGED <<who, torn>>
  BY DEF Deliver, Return, restVars
<1>2. UNCHANGED StreamNow
  BY <1>1 DEF StreamNow
<1>3. CASE torn
  <2>1. StreamNow = "cut"
    BY <1>1, <1>3 DEF StreamNow
  <2>2. (IF Aligned THEN frame[1].pkt ELSE 0) \in 0..Pkts
    <3>1. Len(frame) >= HeaderLen /\ IsSeq(frame)
      BY <1>1, RecvAssumption DEF IInv, TypeOK, HeaderLen
    <3>2. Aligned => frame[1].pkt \in 1..Pkts
      BY <3>1, AlignedHeader
    <3>3. QED
      BY <3>2, RecvAssumption
  <2>3. \E k \in 0..Pkts : delivered' = Append(delivered, k)
    BY <1>1, <2>2, Zenon
  <2>4. QED
    BY <1>1, <1>2, <2>1, <2>3 DEF DeliverySteps
<1>4. CASE ~torn
  <2>1. StreamNow = "whole"
    BY <1>1, <1>4 DEF StreamNow
  <2>2. PICK len, rest : Stream(len, rest) /\ InStep(len, rest)
    BY Zenon DEF Framing
  <2>3. Len(frame) >= HeaderLen
    BY <1>1, <1>4, <2>2 DEF InStep
  <2>4. /\ Len(delivered) + 1 \in 1..Pkts /\ Aligned
        /\ frame[1].pkt = Len(delivered) + 1
    BY <1>1, <1>4, <2>2, <2>3, NextHeader
  <2>5. delivered' = Append(delivered, Len(delivered) + 1)
    BY <1>1, <2>4
  <2>6. Len(delivered) < Pkts
    BY <2>4, RecvAssumption DEF IInv, TypeOK
  <2>7. QED
    BY <1>1, <1>2, <2>1, <2>5, <2>6 DEF DeliverySteps
<1>5. QED
  BY <1>3, <1>4

\* A timeout inside a header cuts the stream for serve and ends the client's.
LEMMA DeliveryCut ==
  ASSUME IInv, HeaderTimeout
  PROVE  DeliverySteps
<1>1. /\ rpc = "header" /\ rpc' = AfterTimeout
      /\ torn' = (torn \/ (frame # << >> /\ who = "serve"))
      /\ UNCHANGED <<who, delivered>>
  BY DEF HeaderTimeout, Return, restVars
<1>2. who \in {"serve", "client"} /\ torn \in BOOLEAN
  BY DEF IInv, TypeOK
<1>3. CASE who = "client"
  <2>1. StreamNow # "ended" /\ StreamNow' = "ended"
    BY <1>1, <1>3 DEF AfterTimeout, StreamNow
  <2>2. QED
    BY <1>1, <2>1 DEF DeliverySteps
<1>4. CASE who = "serve" /\ ~torn /\ frame # << >>
  <2>1. StreamNow = "whole" /\ StreamNow' = "cut"
    BY <1>1, <1>4 DEF AfterTimeout, StreamNow
  <2>2. QED
    BY <1>1, <1>4, <2>1 DEF DeliverySteps
<1>5. CASE who = "serve" /\ (torn \/ frame = << >>)
  <2>1. (torn' <=> torn) /\ rpc' = "idle"
    BY <1>1, <1>5 DEF AfterTimeout
  <2>2. UNCHANGED StreamNow
    BY <1>1, <2>1 DEF StreamNow
  <2>3. QED
    BY <1>1, <2>2 DEF DeliverySteps
<1>6. QED
  BY <1>2, <1>3, <1>4, <1>5

LEMMA DeliveryStep == IInv /\ Framing /\ Framing' /\ [Next]_vars => DeliverySteps
<1> SUFFICES ASSUME IInv, Framing, Framing', [Next]_vars PROVE DeliverySteps
  OBVIOUS
<1>1. CASE HeaderEnds \/ RefuseHeader \/ BodyTimeout \/ BodyEnds \/ RefuseBody
           \/ CallRefused
  <2>1. rpc # "stopped" /\ rpc' = "stopped" /\ UNCHANGED <<who, delivered>>
    BY <1>1 DEF HeaderEnds, RefuseHeader, BodyTimeout, BodyEnds, RefuseBody,
         CallRefused, Fails, Return, restVars
  <2>2. StreamNow # "ended" /\ StreamNow' = "ended"
    BY <2>1 DEF StreamNow
  <2>3. QED
    BY <2>1, <2>2 DEF DeliverySteps
<1>2. CASE Arrive \/ PeerCloses \/ Disconnect \/ Call \/ ReadHeaderUnit
           \/ ParseHeader \/ ReadBodyUnit \/ Stopped \/ UNCHANGED vars
  <2>1. /\ UNCHANGED <<who, delivered, torn>>
        /\ rpc' = rpc \/ (rpc # "stopped" /\ rpc' # "stopped")
    BY <1>2 DEF Arrive, PeerCloses, Disconnect, Call, ReadHeaderUnit, ParseHeader,
         ReadBodyUnit, Stopped, vars, restVars, peerVars
  <2>2. UNCHANGED StreamNow
    BY <2>1 DEF StreamNow
  <2>3. QED
    BY <2>1, <2>2 DEF DeliverySteps
<1>3. QED
  BY <1>1, <1>2, DeliverySends, DeliveryCut, Zenon DEF Next, Receive

\* RecvPkt implements Delivery: for every stream of packets, caller and
\* order of arrivals, deadlines, errors and Disconnect, the caller is handed
\* the next packet of a whole stream, and only serve can cut one
\* (connection.go:138-226, server.go:319-325).
THEOREM DeliveryKept == Spec => ImplementsDelivery
BY DeliveryNames, DeliveryStep, FramingInit, FramingStep, Invariance, PTL
DEF Spec, ImplementsDelivery, AsDelivery!DSpec
=============================================================================
