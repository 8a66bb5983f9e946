-------------------------- MODULE ServerConnProofs --------------------------
(***************************************************************************)
(* Theorems about ServerConn for every N, every capacity of the buffers    *)
(* and every peer: its variables keep their types, every active test is    *)
(* accounted for, the counter stays in range, the connection implements    *)
(* the watchdog of module Watchdog, and responses keep the order of the    *)
(* requests.                                                               *)
(***************************************************************************)
EXTENDS ServerConn, TLAPS, FiniteSetTheorems, FunctionTheorems,
        SequenceTheorems

-----------------------------------------------------------------------------
(* Counting the packets of a tag in a sequence *)

\* Counting yields a natural number, 0 for the empty sequence.
LEMMA CountType ==
  ASSUME NEW S, NEW s \in Seq(S), NEW t
  PROVE  /\ IsFiniteSet(Tagged(s, t))
         /\ HowMany(s, t) \in Nat
<1>1. Len(s) \in Nat
  BY LenProperties
<1>2. IsFiniteSet(1..Len(s))
  BY <1>1, FS_Interval
<1>3. Tagged(s, t) \in SUBSET (1..Len(s))
  BY DEF Tagged
<1>4. IsFiniteSet(Tagged(s, t))
  BY <1>2, <1>3, FS_Subset
<1>5. QED
  BY <1>4, FS_CardinalityType DEF HowMany

LEMMA CountEmpty ==
  ASSUME NEW t
  PROVE  HowMany(<<>>, t) = 0
<1>1. Tagged(<<>>, t) = {}
  BY DEF Tagged
<1>2. QED
  BY <1>1, FS_EmptySet DEF HowMany

\* Appending a packet counts it if it has the tag.
LEMMA CountAppend ==
  ASSUME NEW S, NEW s \in Seq(S), NEW e \in S, NEW t
  PROVE  HowMany(Append(s, e), t) = HowMany(s, t) + B2N(e.tag = t)
<1> DEFINE n == Len(s)
<1>1. n \in Nat /\ Append(s, e) \in Seq(S) /\ Len(Append(s, e)) = n + 1
  BY LenProperties
<1>2. \A i \in 1..n : Append(s, e)[i] = s[i]
  BY <1>1
<1>3. Append(s, e)[n + 1] = e
  BY <1>1
<1>4. n + 1 \notin Tagged(s, t)
  BY <1>1 DEF Tagged
<1>5. Tagged(Append(s, e), t)
        = Tagged(s, t) \cup (IF e.tag = t THEN {n + 1} ELSE {})
  BY <1>1, <1>2, <1>3 DEF Tagged
<1>6. IsFiniteSet(Tagged(s, t)) /\ Cardinality(Tagged(s, t)) \in Nat
  BY CountType DEF HowMany
<1>7. CASE e.tag = t
  <2>1. Tagged(Append(s, e), t) = Tagged(s, t) \cup {n + 1}
    BY <1>5, <1>7
  <2>2. Cardinality(Tagged(s, t) \cup {n + 1}) = Cardinality(Tagged(s, t)) + 1
    BY <1>4, <1>6, FS_AddElement
  <2>3. QED
    BY <1>7, <2>1, <2>2 DEF HowMany, B2N
<1>8. CASE e.tag # t
  <2>1. Tagged(Append(s, e), t) = Tagged(s, t)
    BY <1>5, <1>8
  <2>2. QED
    BY <1>6, <1>8, <2>1 DEF HowMany, B2N
<1>9. QED
  BY <1>7, <1>8

\* Taking the first packet off counts it out if it had the tag.
LEMMA CountTail ==
  ASSUME NEW S, NEW s \in Seq(S), s # <<>>, NEW t
  PROVE  HowMany(s, t) = HowMany(Tail(s), t) + B2N(Head(s).tag = t)
<1> DEFINE T == Tagged(s, t) \ {1}
           U == Tagged(Tail(s), t)
           f == [i \in U |-> i + 1]
<1>1. /\ Len(s) \in Nat \ {0} /\ Head(s) = s[1]
      /\ Tail(s) \in Seq(S) /\ Len(Tail(s)) = Len(s) - 1
      /\ \A i \in 1..(Len(s) - 1) : Tail(s)[i] = s[i + 1]
  BY EmptySeq, HeadTailProperties
<1>2. /\ IsFiniteSet(Tagged(s, t)) /\ Cardinality(Tagged(s, t)) \in Nat
      /\ IsFiniteSet(U) /\ Cardinality(U) \in Nat
  BY <1>1, CountType DEF HowMany
<1>3. U = {i \in 1..(Len(s) - 1) : s[i + 1].tag = t}
  BY <1>1 DEF Tagged
<1>4. T = {i \in 2..Len(s) : s[i].tag = t}
  BY <1>1 DEF Tagged
<1>5. f \in Bijection(U, T)
  <2>1. f \in [U -> T]
    BY <1>1, <1>3, <1>4
  <2>2. \A a, b \in U : f[a] = f[b] => a = b
    BY <1>1, <1>3
  <2>3. \A y \in T : \E x \in U : f[x] = y
    <3> TAKE y \in T
    <3>1. y - 1 \in U /\ f[y - 1] = y
      BY <1>1, <1>3, <1>4
    <3> QED
      BY <3>1
  <2>4. QED
    BY <2>1, <2>2, <2>3, Fun_IsBij
<1>6. Cardinality(T) = Cardinality(U)
  BY <1>2, <1>5, FS_Bijection, Fun_ExistsBij
<1>7. (1 \in Tagged(s, t)) <=> (Head(s).tag = t)
  BY <1>1 DEF Tagged
<1>8. Cardinality(T) = IF 1 \in Tagged(s, t)
                       THEN Cardinality(Tagged(s, t)) - 1
                       ELSE Cardinality(Tagged(s, t))
  BY <1>2, FS_RemoveElement
<1>9. QED
  BY <1>2, <1>6, <1>7, <1>8 DEF HowMany, B2N

-----------------------------------------------------------------------------
(* Type correctness *)

LEMMA PktType ==
  ASSUME NEW op \in Ops, NEW id \in Nat
  PROVE  /\ Pkt(op, id) \in OutPkt
         /\ Pkt(op, id).tag = WireTag(op)
BY DEF Pkt, OutPkt, WireTag, Ops

LEMMA RespOfType ==
  ASSUME NEW tag \in Requests
  PROVE  RespOf(tag) \in Ops
BY DEF Requests, RespOf, Ops

\* A packet of the peer is told from no packet by its tag.
LEMMA NoPktTag ==
  /\ NoPkt \notin InPkt
  /\ NoPkt.tag = "none"
BY DEF NoPkt, InPkt, Tags, Requests, Responses

LEMMA B2NType == \A b \in BOOLEAN : B2N(b) \in Nat
BY DEF B2N

\* The two outcomes of SendPkt keep the types of what they may change.
LEMMA SendType ==
  ASSUME TypeOK, NEW op \in Ops, NEW id \in Nat,
         SendPktOK(op, id) \/ SendPktFails(op)
  PROVE  outq' \in Seq(OutPkt) /\ lost' \in Nat
<1>1. Pkt(op, id) \in OutPkt
  BY PktType
<1>2. outq \in Seq(OutPkt) /\ lost \in Nat
  BY DEF TypeOK
<1>3. B2N(WireTag(op) = "ActiveTestReq") \in Nat
  BY DEF B2N
<1>4. CASE SendPktOK(op, id)
  BY <1>1, <1>2, <1>3, <1>4 DEF SendPktOK
<1>5. CASE SendPktFails(op)
  BY <1>2, <1>5 DEF SendPktFails
<1>6. QED
  BY <1>4, <1>5

\* The typing conjuncts by the part of the state they are about.
TypeSrv ==
  /\ spc \in InLoop \cup Closing \cup {"closed"}
  /\ cur \in InPkt \cup {NoPkt}
  /\ (spc \in {"handle", "finish"}) <=> (cur # NoPkt)
  /\ herr \in BOOLEAN
TypeTst == tpc \in {"select", "check", "exceed", "send", "count", "stopped"}
           /\ counter \in Int
TypeLife == done \in BOOLEAN /\ sock \in {"open", "closed"} /\ pending \in Nat
            /\ exitSent \in BOOLEAN
TypeNet == inq \in Seq(InPkt) /\ outq \in Seq(OutPkt) /\ lost \in Nat
TypePeer == /\ peerOpen \in BOOLEAN /\ mute \in BOOLEAN
            /\ owed \in [{"ActiveTestReq", "DeliverReq"} -> Nat]
            /\ reqs \in Nat /\ got \in Nat /\ unasked \in Nat

LEMMA TypeParts ==
  /\ TypeOK <=> TypeSrv /\ TypeTst /\ TypeLife /\ TypeNet /\ TypePeer
  /\ TypeOK' <=> TypeSrv' /\ TypeTst' /\ TypeLife' /\ TypeNet' /\ TypePeer'
<1>1. TypeOK <=> TypeSrv /\ TypeTst /\ TypeLife /\ TypeNet /\ TypePeer
  BY Zenon DEF TypeOK, TypeSrv, TypeTst, TypeLife, TypeNet, TypePeer
<1>2. TypeOK' <=> TypeSrv' /\ TypeTst' /\ TypeLife' /\ TypeNet' /\ TypePeer'
  BY Zenon DEF TypeOK, TypeSrv, TypeTst, TypeLife, TypeNet, TypePeer
<1>3. QED
  BY <1>1, <1>2

\* A part that a step leaves alone keeps its type.
LEMMA TypeKeep ==
  /\ TypeSrv /\ UNCHANGED srvVars => TypeSrv'
  /\ TypeTst /\ UNCHANGED tstVars => TypeTst'
  /\ TypeLife /\ UNCHANGED lifeVars => TypeLife'
  /\ TypeNet /\ UNCHANGED netVars => TypeNet'
  /\ TypePeer /\ UNCHANGED peerVars => TypePeer'
<1>1. TypeSrv /\ UNCHANGED srvVars => TypeSrv'
  BY DEF TypeSrv, srvVars
<1>2. TypeTst /\ UNCHANGED tstVars => TypeTst'
  BY DEF TypeTst, tstVars
<1>3. TypeLife /\ UNCHANGED lifeVars => TypeLife'
  BY DEF TypeLife, lifeVars
<1>4. TypeNet /\ UNCHANGED netVars => TypeNet'
  BY DEF TypeNet, netVars
<1>5. TypePeer /\ UNCHANGED peerVars => TypePeer'
  BY DEF TypePeer, peerVars
<1>6. QED
  BY <1>1, <1>2, <1>3, <1>4, <1>5

\* Type correctness: no step of any goroutine or of the peer leaves the types
\* of the variables (server.go, the fields of conn).
LEMMA TypeStep == TypeOK /\ [Next]_vars => TypeOK'
<1> SUFFICES ASSUME TypeSrv, TypeTst, TypeLife, TypeNet, TypePeer, TypeOK,
                    [Next]_vars
             PROVE  TypeSrv' /\ TypeTst' /\ TypeLife' /\ TypeNet' /\ TypePeer'
  BY TypeParts
<1>1. CASE ServeTakesExceed
  <2>1. TypeSrv'
    BY <1>1 DEF ServeTakesExceed, TypeSrv, InLoop, Closing
  <2>2. TypeTst' /\ UNCHANGED <<lifeVars, netVars, peerVars>>
    BY <1>1 DEF ServeTakesExceed, TypeTst
  <2>3. QED
    BY <2>1, <2>2, TypeKeep
<1>2. CASE ServePollEmpty \/ ServeTimeout
  <2>1. TypeSrv'
    BY <1>2 DEF ServePollEmpty, ServeTimeout, TypeSrv, InLoop, Closing
  <2>2. UNCHANGED <<tstVars, lifeVars, netVars, peerVars>>
    BY <1>2 DEF ServePollEmpty, ServeTimeout
  <2>3. QED
    BY <2>1, <2>2, TypeKeep
<1>3. CASE ServeReadErr
  <2>1. TypeSrv'
    BY <1>3 DEF ServeReadErr, TypeSrv, InLoop, Closing
  <2>2. /\ UNCHANGED <<tstVars, lifeVars, peerVars, outq, lost>>
        /\ inq' = inq \/ (inq # <<>> /\ inq' = Tail(inq))
    BY <1>3 DEF ServeReadErr
  <2>3. TypeNet'
    BY <2>2 DEF TypeNet
  <2>4. QED
    BY <2>1, <2>2, <2>3, TypeKeep
<1>4. CASE ServeRead
  <2>1. /\ inq # <<>> /\ inq \in Seq(InPkt) /\ inq' = Tail(inq)
        /\ cur' = Head(inq) /\ spc' = "handle" /\ herr' = herr
        /\ UNCHANGED <<tstVars, lifeVars, peerVars, outq, lost>>
    BY <1>4 DEF ServeRead, TypeNet
  <2>2. cur' \in InPkt /\ inq' \in Seq(InPkt)
    BY <2>1, HeadTailProperties
  <2>3. cur' # NoPkt
    BY <2>2, NoPktTag
  <2>4. TypeSrv'
    BY <2>1, <2>2, <2>3 DEF TypeSrv, InLoop
  <2>5. TypeNet'
    BY <2>1, <2>2 DEF TypeNet
  <2>6. QED
    BY <2>1, <2>4, <2>5, TypeKeep
<1>5. CASE ServeHandle
  <2>1. TypeSrv'
    BY <1>5 DEF ServeHandle, TypeSrv, InLoop
  <2>2. pending' \in Nat
    BY <1>5 DEF ServeHandle, TypeLife, B2N
  <2>3. TypeLife' /\ UNCHANGED <<tstVars, netVars, peerVars>>
    BY <1>5, <2>2 DEF ServeHandle, TypeLife
  <2>4. QED
    BY <2>1, <2>3, TypeKeep
<1>6. CASE ServePanic
  <2>1. TypeSrv'
    BY <1>6 DEF ServePanic, TypeSrv, InLoop, Closing
  <2>2. lost' \in Nat
    BY <1>6 DEF ServePanic, TypeNet, B2N
  <2>3. TypeNet' /\ UNCHANGED <<tstVars, lifeVars, peerVars>>
    BY <1>6, <2>2 DEF ServePanic, TypeNet
  <2>4. QED
    BY <2>1, <2>3, TypeKeep
<1>7. CASE FinishActiveResp
  <2>1. TypeSrv'
    BY <1>7 DEF FinishActiveResp, AfterFinish, TypeSrv, InLoop, Closing
  <2>2. TypeTst' /\ UNCHANGED <<lifeVars, netVars, peerVars>>
    BY <1>7 DEF FinishActiveResp, TypeTst
  <2>3. QED
    BY <2>1, <2>2, TypeKeep
<1>8. CASE FinishSilent
  <2>1. TypeSrv'
    BY <1>8 DEF FinishSilent, AfterFinish, TypeSrv, InLoop, Closing
  <2>2. UNCHANGED <<tstVars, lifeVars, netVars, peerVars>>
    BY <1>8 DEF FinishSilent
  <2>3. QED
    BY <2>1, <2>2, TypeKeep
<1>9. CASE FinishReply
  <2>1. TypeSrv'
    BY <1>9 DEF FinishReply, AfterFinish, TypeSrv, InLoop, Closing
  <2>2. cur.id \in Nat /\ RespOf(cur.tag) \in Ops
    BY <1>9, RespOfType DEF TypeSrv, FinishReply, InPkt, NoPkt
  <2>3. outq' \in Seq(OutPkt) /\ lost' \in Nat
    BY <1>9, <2>2, SendType DEF FinishReply
  <2>4. TypeNet' /\ UNCHANGED <<tstVars, lifeVars, peerVars>>
    BY <1>9, <2>3 DEF FinishReply, TypeNet
  <2>5. QED
    BY <2>1, <2>4, TypeKeep
<1>10. CASE FinishReplyFails
  <2>1. TypeSrv'
    BY <1>10 DEF FinishReplyFails, TypeSrv, InLoop, Closing
  <2>2. RespOf(cur.tag) \in Ops
    BY <1>10, RespOfType DEF FinishReplyFails
  <2>3. outq' \in Seq(OutPkt) /\ lost' \in Nat
    BY <1>10, <2>2, SendType DEF FinishReplyFails
  <2>4. TypeNet' /\ UNCHANGED <<tstVars, lifeVars, peerVars>>
    BY <1>10, <2>3 DEF FinishReplyFails, TypeNet
  <2>5. QED
    BY <2>1, <2>4, TypeKeep
<1>11. CASE ServeExit
  <2>1. TypeSrv'
    BY <1>11 DEF ServeExit, TypeSrv, InLoop, Closing
  <2>2. "ExitReq" \in Ops
    BY DEF Ops
  <2>3. outq' \in Seq(OutPkt) /\ lost' \in Nat
    BY <1>11, <2>2, SendType DEF ServeExit
  <2>4. TypeNet' /\ TypeLife' /\ UNCHANGED <<tstVars, peerVars>>
    BY <1>11, <2>3 DEF ServeExit, TypeNet, TypeLife
  <2>5. QED
    BY <2>1, <2>4, TypeKeep
<1>12. CASE ServeCloseDone \/ ServeCloseSock
  <2>1. TypeSrv'
    BY <1>12 DEF ServeCloseDone, ServeCloseSock, TypeSrv, InLoop, Closing
  <2>2. TypeLife' /\ UNCHANGED <<tstVars, netVars, peerVars>>
    BY <1>12 DEF ServeCloseDone, ServeCloseSock, TypeLife
  <2>3. QED
    BY <2>1, <2>2, TypeKeep
<1>13. CASE TesterDone \/ TesterTick \/ TesterGivesUp \/ TesterProceeds
  <2>1. TypeTst' /\ UNCHANGED <<srvVars, lifeVars, netVars, peerVars>>
    BY <1>13
    DEF TesterDone, TesterTick, TesterGivesUp, TesterProceeds, TypeTst
  <2>2. QED
    BY <2>1, TypeKeep
<1>14. CASE TesterSend
  <2>1. "ActiveTestReq" \in Ops
    BY DEF Ops
  <2>2. outq' \in Seq(OutPkt) /\ lost' \in Nat
    BY <1>14, <2>1, SendType DEF TesterSend
  <2>3. TypeTst' /\ TypeNet' /\ UNCHANGED <<srvVars, lifeVars, peerVars>>
    BY <1>14, <2>2 DEF TesterSend, TypeTst, TypeNet
  <2>4. QED
    BY <2>3, TypeKeep
<1>15. CASE TesterCount
  <2>1. TypeTst' /\ UNCHANGED <<srvVars, lifeVars, netVars, peerVars>>
    BY <1>15 DEF TesterCount, TypeTst
  <2>2. QED
    BY <2>1, TypeKeep
<1>16. CASE MockDeliver
  <2>1. "DeliverReq" \in Ops
    BY DEF Ops
  <2>2. outq' \in Seq(OutPkt) /\ lost' \in Nat
    BY <1>16, <2>1, SendType DEF MockDeliver
  <2>3. pending' \in Nat
    BY <1>16 DEF TypeLife, MockDeliver
  <2>4. TypeLife' /\ TypeNet' /\ UNCHANGED <<srvVars, tstVars, peerVars>>
    BY <1>16, <2>2, <2>3 DEF MockDeliver, TypeLife, TypeNet
  <2>5. QED
    BY <2>4, TypeKeep
<1>17. ASSUME NEW tag \in PeerTags, PeerSend(tag)
       PROVE  TypeNet' /\ TypePeer' /\ UNCHANGED <<srvVars, tstVars, lifeVars>>
  <2>1. [tag |-> tag, id |-> reqs + 1] \in InPkt
    BY ServerConnAssumption DEF TypePeer, InPkt, Tags
  <2>2. TypeNet'
    BY <1>17, <2>1 DEF PeerSend, TypeNet
  <2>3. TypePeer'
    BY <1>17 DEF PeerSend, TypePeer
  <2>4. QED
    BY <1>17, <2>2, <2>3 DEF PeerSend
<1>18. CASE PeerRecv
  <2>1. outq' \in Seq(OutPkt) /\ Head(outq) \in OutPkt
    BY <1>18, HeadTailProperties DEF TypeNet, PeerRecv
  <2>2. got' \in Nat
    BY <1>18, <2>1 DEF TypePeer, PeerRecv, OutPkt
  <2>3. owed' \in [{"ActiveTestReq", "DeliverReq"} -> Nat]
    BY <1>18 DEF TypePeer, PeerRecv, B2N
  <2>4. TypeNet' /\ TypePeer' /\ UNCHANGED <<srvVars, tstVars, lifeVars>>
    BY <1>18, <2>1, <2>2, <2>3 DEF PeerRecv, TypeNet, TypePeer
  <2>5. QED
    BY <2>4, TypeKeep
<1>19. ASSUME NEW t \in DOMAIN owed, PeerAnswer(t)
       PROVE  TypeNet' /\ TypePeer' /\ UNCHANGED <<srvVars, tstVars, lifeVars>>
  <2>1. t \in {"ActiveTestReq", "DeliverReq"}
    BY DEF TypePeer
  <2>2. [tag |-> RespOf(t), id |-> 0] \in InPkt
    BY <2>1 DEF InPkt, Tags, Responses, RespOf
  <2>3. TypeNet'
    BY <1>19, <2>2 DEF PeerAnswer, TypeNet
  <2>4. owed' \in [{"ActiveTestReq", "DeliverReq"} -> Nat]
    BY <1>19, <2>1 DEF TypePeer, PeerAnswer
  <2>5. TypePeer'
    BY <1>19, <2>4 DEF PeerAnswer, TypePeer
  <2>6. QED
    BY <1>19, <2>3, <2>5 DEF PeerAnswer
<1>20. CASE PeerUnasked
  <2>1. [tag |-> "ActiveTestResp", id |-> 0] \in InPkt
    BY DEF InPkt, Tags, Responses
  <2>2. TypeNet'
    BY <1>20, <2>1 DEF PeerUnasked, TypeNet
  <2>3. TypePeer' /\ UNCHANGED <<srvVars, tstVars, lifeVars>>
    BY <1>20 DEF PeerUnasked, TypePeer
  <2>4. QED
    BY <2>2, <2>3, TypeKeep
<1>21. CASE PeerMute
  <2>1. TypePeer' /\ UNCHANGED <<srvVars, tstVars, lifeVars, netVars>>
    BY <1>21 DEF PeerMute, TypePeer
  <2>2. QED
    BY <2>1, TypeKeep
<1>22. CASE PeerClose
  <2>1. TypePeer' /\ UNCHANGED <<srvVars, tstVars, lifeVars, netVars>>
    BY <1>22 DEF PeerClose, TypePeer
  <2>2. QED
    BY <2>1, TypeKeep
<1>23. CASE UNCHANGED vars
  <2>1. UNCHANGED <<srvVars, tstVars, lifeVars, netVars, peerVars>>
    BY <1>23, Zenon DEF vars
  <2>2. QED
    BY <2>1, TypeKeep
<1>24. CASE PeerStep
  <2>1. ASSUME NEW tag \in PeerTags, PeerSend(tag)
        PROVE  TypeSrv' /\ TypeTst' /\ TypeLife' /\ TypeNet' /\ TypePeer'
    BY <1>17, <2>1, TypeKeep
  <2>2. ASSUME NEW t \in DOMAIN owed, PeerAnswer(t)
        PROVE  TypeSrv' /\ TypeTst' /\ TypeLife' /\ TypeNet' /\ TypePeer'
    BY <1>19, <2>2, TypeKeep
  <2>3. QED
    BY <1>18, <1>20, <1>21, <1>22, <1>24, <2>1, <2>2, Zenon DEF PeerStep
<1>25. QED
  BY <1>1, <1>2, <1>3, <1>4, <1>5, <1>6, <1>7, <1>8, <1>9, <1>10, <1>11,
     <1>12, <1>13, <1>14, <1>15, <1>16, <1>23, <1>24, Zenon
  DEF Next, ServeStep, Finish, TesterStep, Terminated

LEMMA TypeInit == Init => TypeOK
<1> SUFFICES ASSUME Init PROVE TypeOK
  OBVIOUS
<1>1. owed \in [{"ActiveTestReq", "DeliverReq"} -> Nat]
  BY DEF Init
<1>2. inq \in Seq(InPkt) /\ outq \in Seq(OutPkt)
  BY DEF Init
<1>3. /\ herr \in BOOLEAN /\ done \in BOOLEAN /\ exitSent \in BOOLEAN
      /\ peerOpen \in BOOLEAN /\ mute \in BOOLEAN
  BY DEF Init
<1>4. /\ spc \in InLoop /\ spc \notin {"handle", "finish"} /\ cur = NoPkt
      /\ tpc = "select" /\ sock = "open"
      /\ counter = 0 /\ pending = 0 /\ lost = 0 /\ reqs = 0 /\ got = 0
      /\ unasked = 0
  BY DEF Init, InLoop
<1>5. QED
  BY <1>1, <1>2, <1>3, <1>4 DEF TypeOK

\* The variables of the connection keep their types in every behaviour.
THEOREM TypeCorrect == Spec => []TypeOK
BY TypeInit, TypeStep, PTL DEF Spec
-----------------------------------------------------------------------------
(* The inductive invariant.  TestsConserved alone is not inductive: that a  *)
(* dropped answer leaves the counter at zero or above needs that no exit    *)
(* request is out while packets are served, and that the counter stays at N *)
(* needs that the tester passed the check of server.go:283 on its way to    *)
(* the increment of 294.                                                    *)

\* What close() has done is told by where serve is in it.
Lifecycle ==
  /\ done <=> spc \in {"closesock", "closed"}
  /\ sock = "closed" <=> spc = "closed"
  /\ exitSent => spc \in {"closedone", "closesock", "closed"}
  /\ tpc = "stopped" => done

\* Nobody raises the counter between the tester's check and its increment.
RoomForTest == tpc \in {"send", "count"} => counter < N

IInv == TypeOK /\ TestsConserved /\ CounterInRange /\ Lifecycle /\ RoomForTest

A == "ActiveTestReq"
R == "ActiveTestResp"

\* The terms of TestsConserved are natural numbers.
LEMMA TermsType ==
  ASSUME TypeOK
  PROVE  /\ HowMany(outq, A) \in Nat /\ HowMany(inq, R) \in Nat
         /\ owed[A] \in Nat /\ lost \in Nat /\ counter \in Int
         /\ B2N(tpc = "count") \in {0, 1} /\ B2N(exitSent) \in {0, 1}
         /\ B2N(cur.tag = R) \in {0, 1}
<1>1. HowMany(outq, A) \in Nat /\ HowMany(inq, R) \in Nat
  BY CountType DEF TypeOK
<1>2. owed[A] \in Nat /\ lost \in Nat /\ counter \in Int
  BY DEF TypeOK, A
<1>3. QED
  BY <1>1, <1>2 DEF B2N

\* A packet that SendPkt accepts is in the buffers or lost; one it refuses
\* changes neither.
LEMMA SendCount ==
  ASSUME TypeOK, NEW op \in Ops, NEW id \in Nat
  PROVE  /\ SendPktOK(op, id) =>
              HowMany(outq', A) + lost'
                = HowMany(outq, A) + lost + B2N(WireTag(op) = A)
         /\ SendPktFails(op) => HowMany(outq', A) + lost'
                                  = HowMany(outq, A) + lost
<1>1. Pkt(op, id) \in OutPkt /\ Pkt(op, id).tag = WireTag(op)
  BY PktType
<1>2. outq \in Seq(OutPkt) /\ lost \in Nat
  BY DEF TypeOK
<1>3. HowMany(outq, A) \in Nat /\ B2N(WireTag(op) = A) \in Nat
  BY <1>2, CountType DEF B2N
<1>4. HowMany(Append(outq, Pkt(op, id)), A)
        = HowMany(outq, A) + B2N(WireTag(op) = A)
  BY <1>1, <1>2, CountAppend
<1>5. SendPktOK(op, id) =>
        \/ outq' = Append(outq, Pkt(op, id)) /\ lost' = lost
        \/ outq' = outq /\ lost' = lost + B2N(WireTag(op) = A)
  BY DEF SendPktOK, A
<1>6. SendPktFails(op) => outq' = outq /\ lost' = lost
  BY DEF SendPktFails
<1>7. ASSUME SendPktOK(op, id)
      PROVE  HowMany(outq', A) + lost'
               = HowMany(outq, A) + lost + B2N(WireTag(op) = A)
  <2> DEFINE b == B2N(WireTag(op) = A)
  <2>1. b \in Nat /\ HowMany(Append(outq, Pkt(op, id)), A)
                        = HowMany(outq, A) + b
    BY <1>3, <1>4
  <2>2. \/ outq' = Append(outq, Pkt(op, id)) /\ lost' = lost
        \/ outq' = outq /\ lost' = lost + b
    BY <1>5, <1>7
  <2> HIDE DEF b
  <2>3. \/ HowMany(outq', A) = HowMany(outq, A) + b /\ lost' = lost
        \/ HowMany(outq', A) = HowMany(outq, A) /\ lost' = lost + b
    BY <2>1, <2>2, Zenon
  <2>4. HowMany(outq, A) \in Nat /\ lost \in Nat
    BY <1>2, <1>3
  <2>5. HowMany(outq', A) + lost' = HowMany(outq, A) + lost + b
    BY <2>1, <2>3, <2>4
  <2>6. QED
    BY <2>5 DEF b
<1>8. QED
  BY <1>6, <1>7

\* Only the request of an active test and the exit request of close() go out
\* with the tag of a test.
LEMMA ReplyTag ==
  /\ \A tag \in Requests : WireTag(RespOf(tag)) # A
  /\ WireTag("DeliverReq") # A
  /\ WireTag("ExitReq") = A /\ WireTag("ActiveTestReq") = A
BY DEF Requests, RespOf, WireTag, A

\* The five places of a test, and the two amends of the counter, by name.
Inc   == B2N(tpc = "count")
Ex    == B2N(exitSent)
Going == HowMany(outq, A)
Back  == HowMany(inq, R)
Hand  == B2N(cur.tag = R)

LEMMA Balance ==
  /\ TestsConserved <=>
       counter + Inc + Ex + unasked
         = Going + owed[A] + lost + Back + Hand
  /\ TestsConserved' <=>
       counter' + Inc' + Ex' + unasked'
         = Going' + owed'[A] + lost' + Back' + Hand'
BY Zenon DEF TestsConserved, Inc, Ex, Going, Back, Hand, A, R

LEMMA BalanceType ==
  ASSUME TypeOK
  PROVE  /\ Going \in Nat /\ Back \in Nat /\ owed[A] \in Nat /\ lost \in Nat
         /\ counter \in Int /\ unasked \in Nat
         /\ Inc \in {0, 1} /\ Ex \in {0, 1} /\ Hand \in {0, 1}
BY TermsType DEF TypeOK, Inc, Ex, Going, Back, Hand

\* What decides the 0 or 1 of an amend and of the packet in hand.
LEMMA Bits ==
  /\ tpc = "count" => Inc = 1
  /\ tpc # "count" => Inc = 0
  /\ cur.tag = R => Hand = 1
  /\ cur.tag # R => Hand = 0
  /\ tpc' = "count" => Inc' = 1
  /\ tpc' # "count" => Inc' = 0
  /\ cur'.tag = R => Hand' = 1
  /\ cur'.tag # R => Hand' = 0
  /\ UNCHANGED tpc => UNCHANGED Inc
  /\ UNCHANGED exitSent => UNCHANGED Ex
  /\ UNCHANGED outq => UNCHANGED Going
  /\ UNCHANGED inq => UNCHANGED Back
  /\ UNCHANGED cur => UNCHANGED Hand
BY DEF Inc, Ex, Going, Back, Hand, B2N

\* Only an answer sent unasked adds to those.
LEMMA UnaskedStep == [Next]_vars => PeerUnasked \/ unasked' = unasked
<1> SUFFICES ASSUME [Next]_vars, ~PeerUnasked
             PROVE  unasked' = unasked
  OBVIOUS
<1>1. CASE \/ ServeTakesExceed \/ ServePollEmpty \/ ServeTimeout
           \/ ServeReadErr \/ ServeRead \/ ServeHandle \/ ServePanic
  BY <1>1
  DEF ServeTakesExceed, ServePollEmpty, ServeTimeout, ServeReadErr, ServeRead,
      ServeHandle, ServePanic, peerVars
<1>2. CASE Finish \/ ServeExit \/ ServeCloseDone \/ ServeCloseSock
  BY <1>2
  DEF Finish, FinishActiveResp, FinishSilent, FinishReply, FinishReplyFails,
      ServeExit, ServeCloseDone, ServeCloseSock, peerVars
<1>3. CASE TesterStep \/ MockDeliver \/ UNCHANGED vars
  BY <1>3
  DEF TesterStep, TesterDone, TesterTick, TesterGivesUp, TesterProceeds,
      TesterSend, TesterCount, MockDeliver, vars, peerVars
<1>4. CASE PeerStep
  BY <1>4 DEF PeerStep, PeerSend, PeerRecv, PeerAnswer, PeerMute, PeerClose
<1>5. QED
  BY <1>1, <1>2, <1>3, <1>4, Zenon DEF Next, ServeStep, Terminated

\* Arithmetic of the balance: what close() and an unasked answer add to it.
LEMMA ExitBalance ==
  ASSUME counter \in Int, Inc \in Int, Ex = 0, Ex' \in Nat,
         unasked \in Nat, Going \in Nat, Going' \in Nat, owed[A] \in Nat,
         lost \in Nat, lost' \in Nat, Back \in Nat, Hand \in Int,
         counter + Inc + Ex + unasked = Going + owed[A] + lost + Back + Hand,
         Going' + lost' = Going + lost + Ex'
  PROVE  counter + Inc + Ex' + unasked
           = Going' + owed[A] + lost' + Back + Hand
OBVIOUS

LEMMA UnaskedBalance ==
  ASSUME counter \in Int, Inc \in Int, Ex \in Int, unasked \in Nat,
         Going \in Nat, owed[A] \in Nat, lost \in Nat, Back \in Nat,
         Hand \in Int,
         counter + Inc + Ex + unasked = Going + owed[A] + lost + Back + Hand
  PROVE  counter + Inc + Ex + (unasked + 1)
           = Going + owed[A] + lost + (Back + 1) + Hand
OBVIOUS

\* Every step but an answer sent unasked keeps every test accounted for.
LEMMA ConservedAsked ==
  ASSUME TypeOK, TypeOK', TestsConserved, Lifecycle, [Next]_vars,
         unasked' = unasked
  PROVE  TestsConserved'
<1> SUFFICES counter' + Inc' + Ex' + unasked
               = Going' + owed'[A] + lost' + Back' + Hand'
  BY Balance
<1>a. counter + Inc + Ex + unasked
        = Going + owed[A] + lost + Back + Hand
  BY Balance
<1>b. /\ Going \in Nat /\ Back \in Nat /\ owed[A] \in Nat /\ lost \in Nat
      /\ counter \in Int /\ unasked \in Nat
      /\ Inc \in {0, 1} /\ Ex \in {0, 1} /\ Hand \in {0, 1}
  BY BalanceType
<1>c. cur.tag # R \/ spc \in {"handle", "finish"}
  BY NoPktTag DEF TypeOK, R
<1>1. CASE \/ ServeTakesExceed \/ ServePollEmpty \/ ServeTimeout
           \/ ServeHandle \/ ServeCloseDone \/ ServeCloseSock
  <2>1. /\ UNCHANGED <<counter, exitSent, outq, inq, owed, lost, cur>>
        /\ (tpc' = "count") <=> (tpc = "count")
    BY <1>1
    DEF ServeTakesExceed, ServePollEmpty, ServeTimeout, ServeHandle,
        ServeCloseDone, ServeCloseSock, srvVars, tstVars, lifeVars, netVars,
        peerVars
  <2>2. QED
    BY <1>a, <1>b, <2>1, Bits
<1>2. CASE TesterDone \/ TesterTick \/ TesterGivesUp \/ TesterProceeds
  <2>1. /\ UNCHANGED <<counter, exitSent, outq, inq, owed, lost, cur>>
        /\ tpc' # "count" /\ tpc # "count"
    BY <1>2
    DEF TesterDone, TesterTick, TesterGivesUp, TesterProceeds, srvVars,
        lifeVars, netVars, peerVars
  <2>2. QED
    BY <1>a, <1>b, <2>1, Bits
<1>3. CASE PeerMute \/ PeerClose \/ UNCHANGED vars
  <2>1. UNCHANGED <<counter, tpc, exitSent, outq, inq, owed, lost, cur>>
    BY <1>3
    DEF PeerMute, PeerClose, vars, srvVars, tstVars, lifeVars, netVars,
        peerVars
  <2>2. QED
    BY <1>a, <1>b, <2>1, Bits
<1>4. CASE ServeReadErr
  <2>1. UNCHANGED <<counter, tpc, exitSent, outq, owed, lost, cur>>
    BY <1>4 DEF ServeReadErr, tstVars, lifeVars, peerVars
  <2>2. \/ inq' = inq
        \/ inq # <<>> /\ Head(inq).tag # R /\ inq' = Tail(inq)
    BY <1>4 DEF ServeReadErr, R
  <2>3. ASSUME inq # <<>>, Head(inq).tag # R, inq' = Tail(inq)
        PROVE  Back' = Back
    <3>1. HowMany(inq, R) = HowMany(Tail(inq), R) + 0
      BY <2>3, CountTail DEF TypeOK, B2N
    <3>2. HowMany(Tail(inq), R) \in Nat
      BY <2>3, CountType DEF TypeOK
    <3>3. QED
      BY <2>3, <3>1, <3>2 DEF Back
  <2>4. Back' = Back
    BY <2>2, <2>3, Bits
  <2>5. QED
    BY <1>a, <1>b, <2>1, <2>4, Bits
<1>5. CASE ServeRead
  <2>1. UNCHANGED <<counter, tpc, exitSent, outq, owed, lost>>
    BY <1>5 DEF ServeRead, tstVars, lifeVars, peerVars
  <2>2. Hand = 0
    BY <1>5, <1>c, Bits DEF ServeRead
  <2>3. Back = Back' + Hand'
    <3>1. inq \in Seq(InPkt) /\ inq # <<>>
      BY <1>5 DEF TypeOK, ServeRead
    <3>2. HowMany(inq, R) = HowMany(Tail(inq), R) + B2N(Head(inq).tag = R)
      BY <3>1, CountTail
    <3>3. inq' = Tail(inq) /\ cur' = Head(inq)
      BY <1>5 DEF ServeRead
    <3>4. QED
      BY <3>2, <3>3, Zenon DEF Back, Hand
  <2>4. Back' \in Nat /\ Hand' \in Nat
    BY CountType DEF TypeOK, Back, Hand, B2N
  <2>5. QED
    BY <1>a, <1>b, <2>1, <2>2, <2>3, <2>4, Bits
<1>6. CASE ServePanic
  <2>1. /\ UNCHANGED <<counter, tpc, exitSent, outq, inq, owed>>
        /\ cur' = NoPkt
    BY <1>6 DEF ServePanic, tstVars, lifeVars, peerVars
  <2>2. lost' = lost + Hand
    BY <1>6, Zenon DEF ServePanic, Hand, R
  <2>3. Hand' = 0
    BY <2>1, NoPktTag, Bits DEF R
  <2>4. QED
    BY <1>a, <1>b, <2>1, <2>2, <2>3, Bits
<1>7. CASE FinishActiveResp
  <2>1. /\ UNCHANGED <<tpc, exitSent, outq, inq, owed, lost>>
        /\ counter' = counter - 1 /\ cur' = NoPkt
    BY <1>7 DEF FinishActiveResp, AfterFinish, lifeVars, netVars, peerVars
  <2>2. Hand = 1 /\ Hand' = 0
    BY <1>7, <2>1, NoPktTag, Bits DEF FinishActiveResp, R
  <2>3. QED
    BY <1>a, <1>b, <2>1, <2>2, Bits
<1>8. CASE FinishSilent
  <2>1. /\ UNCHANGED <<counter, tpc, exitSent, outq, inq, owed, lost>>
        /\ cur' = NoPkt
    BY <1>8 DEF FinishSilent, AfterFinish, tstVars, lifeVars, netVars,
                peerVars
  <2>2. Hand = 0 /\ Hand' = 0
    BY <1>8, <2>1, NoPktTag, Bits DEF FinishSilent, R
  <2>3. QED
    BY <1>a, <1>b, <2>1, <2>2, Bits
<1>9. CASE FinishReply \/ FinishReplyFails
  <2>1. /\ UNCHANGED <<counter, tpc, exitSent, inq, owed>>
        /\ cur' = NoPkt /\ cur.tag \in Requests
    BY <1>9 DEF FinishReply, FinishReplyFails, AfterFinish, tstVars, lifeVars,
                peerVars
  <2>2. Hand = 0 /\ Hand' = 0
    BY <2>1, NoPktTag, Bits DEF Requests, R
  <2>3. /\ RespOf(cur.tag) \in Ops /\ B2N(WireTag(RespOf(cur.tag)) = A) = 0
        /\ spc = "finish" => cur.id \in Nat
    BY <2>1, RespOfType, ReplyTag DEF B2N, TypeOK, InPkt, NoPkt
  <2>4. \/ SendPktOK(RespOf(cur.tag), cur.id) /\ cur.id \in Nat
        \/ SendPktFails(RespOf(cur.tag))
    BY <1>9, <2>3 DEF FinishReply, FinishReplyFails
  <2>5. Going' + lost' = Going + lost
    <3>1. CASE SendPktOK(RespOf(cur.tag), cur.id) /\ cur.id \in Nat
      <4>1. HowMany(outq', A) + lost' = HowMany(outq, A) + lost + 0
        BY <2>3, <3>1, SendCount, Zenon
      <4>2. QED
        BY <1>b, <4>1 DEF Going
    <3>2. CASE SendPktFails(RespOf(cur.tag))
      BY <2>3, <3>2, SendCount, Zenon DEF Going
    <3>3. QED
      BY <2>4, <3>1, <3>2
  <2>6. Going' \in Nat /\ lost' \in Nat
    BY CountType DEF TypeOK, Going
  <2>7. UNCHANGED <<counter, Inc, Ex, Back, owed>>
    BY <2>1, Bits, Zenon
  <2>8. /\ counter' = counter /\ Inc' = Inc /\ Ex' = Ex /\ Back' = Back
        /\ Hand' = Hand /\ owed'[A] = owed[A]
    BY <2>2, <2>7
  <2>9. QED
    BY <1>a, <1>b, <2>5, <2>6, <2>8
<1>10. CASE ServeExit
  <2>1. /\ UNCHANGED <<counter, tpc, inq, owed, cur>> /\ ~exitSent
        /\ "ExitReq" \in Ops /\ 0 \in Nat
    BY <1>10 DEF ServeExit, tstVars, peerVars, Lifecycle, Ops
  <2>2. /\ Ex = 0
        /\ exitSent' = TRUE => Ex' = 1
        /\ UNCHANGED exitSent => Ex' = 0
    BY <2>1 DEF Ex, B2N
  <2>3. UNCHANGED <<counter, Inc, Back, Hand, owed>>
    BY <2>1, Bits, Zenon
  <2>4. Going' + lost' + Ex = Going + lost + Ex'
    <3>1. CASE SendPktOK("ExitReq", 0) /\ exitSent' = TRUE
      <4>1. B2N(WireTag("ExitReq") = A) = 1
        BY ReplyTag DEF B2N
      <4>2. HowMany(outq', A) + lost'
              = HowMany(outq, A) + lost + B2N(WireTag("ExitReq") = A)
        BY <2>1, <3>1, SendCount
      <4>3. QED
        BY <1>b, <2>2, <3>1, <4>1, <4>2 DEF Going
    <3>2. CASE SendPktFails("ExitReq") /\ UNCHANGED exitSent
      <4>1. HowMany(outq', A) + lost' = HowMany(outq, A) + lost
        BY <2>1, <3>2, SendCount
      <4>2. QED
        BY <1>b, <2>2, <3>2, <4>1 DEF Going
    <3>3. QED
      BY <1>10, <3>1, <3>2 DEF ServeExit
  <2>5. Going' \in Nat /\ lost' \in Nat /\ Ex' \in {0, 1}
    BY CountType DEF TypeOK, Going, Ex, B2N
  <2>6. counter + Inc + Ex' + unasked
          = Going' + owed[A] + lost' + Back + Hand
    <3>1. Inc \in Int /\ Hand \in Int /\ Ex' \in Nat
      BY <1>b, <2>5
    <3>2. Going' + lost' = Going + lost + Ex'
      BY <1>b, <2>2, <2>4, <2>5
    <3>3. QED
      BY <1>a, <1>b, <2>2, <2>5, <3>1, <3>2, ExitBalance, Zenon
  <2>7. QED
    BY <2>3, <2>6
<1>11. CASE TesterSend
  <2>1. /\ UNCHANGED <<counter, exitSent, inq, owed, cur>> /\ tpc = "send"
        /\ "ActiveTestReq" \in Ops /\ 0 \in Nat
    BY <1>11 DEF TesterSend, srvVars, lifeVars, peerVars, Ops
  <2>2. Inc = 0
    BY <2>1, Bits
  <2>3. UNCHANGED <<counter, Ex, Back, Hand, owed>>
    BY <2>1, Bits, Zenon
  <2>4. Going' + lost' = Going + lost + Inc'
    <3>1. CASE SendPktOK("ActiveTestReq", 0) /\ tpc' = "count"
      <4>1. B2N(WireTag("ActiveTestReq") = A) = 1
        BY ReplyTag DEF B2N
      <4>2. HowMany(outq', A) + lost'
              = HowMany(outq, A) + lost + B2N(WireTag("ActiveTestReq") = A)
        BY <2>1, <3>1, SendCount
      <4>3. QED
        BY <3>1, <4>1, <4>2, Bits DEF Going
    <3>2. CASE SendPktFails("ActiveTestReq") /\ tpc' = "select"
      <4>1. HowMany(outq', A) + lost' = HowMany(outq, A) + lost
        BY <2>1, <3>2, SendCount
      <4>2. Inc' = 0
        BY <3>2, Bits
      <4>3. QED
        BY <1>b, <4>1, <4>2 DEF Going
    <3>3. QED
      BY <1>11, <3>1, <3>2 DEF TesterSend
  <2>5. Going' \in Nat /\ lost' \in Nat /\ Inc' \in {0, 1}
    BY CountType DEF TypeOK, Going, Inc, B2N
  <2>6. QED
    BY <1>a, <1>b, <2>2, <2>3, <2>4, <2>5
<1>12. CASE TesterCount
  <2>1. /\ UNCHANGED <<exitSent, outq, inq, owed, lost, cur>>
        /\ counter' = counter + 1 /\ tpc = "count" /\ tpc' = "select"
    BY <1>12 DEF TesterCount, srvVars, lifeVars, netVars, peerVars
  <2>2. Inc = 1 /\ Inc' = 0
    BY <2>1, Bits
  <2>3. QED
    BY <1>a, <1>b, <2>1, <2>2, Bits
<1>13. CASE MockDeliver
  <2>1. /\ UNCHANGED <<counter, tpc, exitSent, inq, owed, cur>>
        /\ "DeliverReq" \in Ops /\ 0 \in Nat
        /\ SendPktOK("DeliverReq", 0) \/ SendPktFails("DeliverReq")
    BY <1>13 DEF MockDeliver, srvVars, tstVars, peerVars, Ops
  <2>2. UNCHANGED <<counter, Inc, Ex, Back, Hand, owed>>
    BY <2>1, Bits, Zenon
  <2>3. Going' + lost' = Going + lost
    <3>1. B2N(WireTag("DeliverReq") = A) = 0
      BY ReplyTag DEF B2N
    <3>2. CASE SendPktOK("DeliverReq", 0)
      <4>1. HowMany(outq', A) + lost' = HowMany(outq, A) + lost + 0
        BY <2>1, <3>1, <3>2, SendCount, Zenon
      <4>2. QED
        BY <1>b, <4>1 DEF Going
    <3>3. CASE SendPktFails("DeliverReq")
      BY <2>1, <3>3, SendCount DEF Going
    <3>4. QED
      BY <2>1, <3>2, <3>3
  <2>4. Going' \in Nat /\ lost' \in Nat
    BY CountType DEF TypeOK, Going
  <2>5. /\ counter' = counter /\ Inc' = Inc /\ Ex' = Ex /\ Back' = Back
        /\ Hand' = Hand /\ owed'[A] = owed[A]
    BY <2>2
  <2>6. QED
    BY <1>a, <1>b, <2>3, <2>4, <2>5
<1>14. ASSUME NEW tag \in PeerTags, PeerSend(tag)
       PROVE  TestsConserved'
  <2> DEFINE p == [tag |-> tag, id |-> reqs + 1]
  <2>1. /\ UNCHANGED <<counter, tpc, exitSent, outq, owed, lost, cur>>
        /\ inq' = Append(inq, p)
    BY <1>14 DEF PeerSend, srvVars, tstVars, lifeVars
  <2>2. p \in InPkt /\ p.tag # R
    BY ServerConnAssumption DEF TypeOK, InPkt, Tags, Requests, R
  <2>3. HowMany(inq', R) = HowMany(inq, R) + B2N(p.tag = R)
    BY <2>1, <2>2, CountAppend DEF TypeOK
  <2>4. B2N(p.tag = R) = 0
    BY <2>2 DEF B2N
  <2>5. Back' = Back
    <3>1. HowMany(inq', R) = HowMany(inq, R) + 0
      BY <2>3, <2>4, Zenon
    <3>2. QED
      BY <1>b, <3>1 DEF Back
  <2>6. QED
    BY <1>a, <1>b, <2>1, <2>5, Bits, Balance
<1>15. CASE PeerRecv
  <2>1. /\ UNCHANGED <<counter, tpc, exitSent, inq, lost, cur>>
        /\ outq # <<>> /\ outq' = Tail(outq)
    BY <1>15 DEF PeerRecv, srvVars, tstVars, lifeVars
  <2>2. owed'[A] = owed[A] + B2N(Head(outq).tag = A)
    BY <1>15 DEF PeerRecv, TypeOK, A
  <2>3. Going = Going' + B2N(Head(outq).tag = A)
    <3>1. HowMany(outq, A) = HowMany(Tail(outq), A) + B2N(Head(outq).tag = A)
      BY <2>1, CountTail DEF TypeOK
    <3>2. QED
      BY <2>1, <3>1, Zenon DEF Going
  <2>4. Going' \in Nat /\ B2N(Head(outq).tag = A) \in {0, 1}
    BY CountType DEF TypeOK, Going, B2N
  <2>5. Going' + owed'[A] = Going + owed[A]
    <3> DEFINE b == B2N(Head(outq).tag = A)
    <3>1. /\ owed'[A] = owed[A] + b /\ Going = Going' + b
          /\ b \in {0, 1}
      BY <2>2, <2>3, <2>4
    <3> HIDE DEF b
    <3>2. QED
      BY <1>b, <2>4, <3>1
  <2>6. UNCHANGED <<counter, Inc, Ex, Back, Hand, lost>>
    BY <2>1, Bits, Zenon
  <2>7. owed'[A] \in Nat
    BY DEF TypeOK, A
  <2>8. QED
    BY <1>a, <1>b, <2>4, <2>5, <2>6, <2>7
<1>16. ASSUME NEW t \in DOMAIN owed, PeerAnswer(t)
       PROVE  TestsConserved'
  <2> DEFINE p == [tag |-> RespOf(t), id |-> 0]
  <2>1. /\ UNCHANGED <<counter, tpc, exitSent, outq, lost, cur>>
        /\ inq' = Append(inq, p) /\ owed' = [owed EXCEPT ![t] = @ - 1]
    BY <1>16 DEF PeerAnswer, srvVars, tstVars, lifeVars
  <2>2. t \in {A, "DeliverReq"} /\ p \in InPkt
    BY DEF TypeOK, InPkt, RespOf, Tags, Responses, A
  <2>3. HowMany(inq', R) = HowMany(inq, R) + B2N(p.tag = R)
    BY <2>1, <2>2, CountAppend DEF TypeOK
  <2>4. UNCHANGED <<counter, Inc, Ex, Going, Hand, lost>>
    BY <2>1, Bits, Zenon
  <2>5. CASE t = A
    <3>1. B2N(p.tag = R) = 1
      BY <2>5 DEF B2N, RespOf, A, R
    <3>2. HowMany(inq', R) = HowMany(inq, R) + 1
      BY <2>3, <3>1, Zenon
    <3>3. owed'[A] = owed[A] - 1
      BY <2>1, <2>5 DEF TypeOK, A
    <3>4. QED
      BY <1>a, <1>b, <2>4, <3>2, <3>3, Balance DEF Back
  <2>6. CASE t # A
    <3>1. B2N(p.tag = R) = 0
      BY <2>2, <2>6 DEF B2N, RespOf, A, R
    <3>2. HowMany(inq', R) = HowMany(inq, R) + 0
      BY <2>3, <3>1, Zenon
    <3>3. owed'[A] = owed[A]
      BY <2>1, <2>6 DEF TypeOK, A
    <3>4. QED
      BY <1>a, <1>b, <2>4, <3>2, <3>3, Balance DEF Back
  <2>7. QED
    BY <2>5, <2>6
<1>17. ~PeerUnasked
  BY DEF PeerUnasked, TypeOK
<1>18. QED
  BY <1>1, <1>2, <1>3, <1>4, <1>5, <1>6, <1>7, <1>8, <1>9,
     <1>10, <1>11, <1>12, <1>13, <1>14, <1>15, <1>16, <1>17, Balance
  DEF Next, ServeStep, Finish, TesterStep, PeerStep, Terminated

\* Every test stays accounted for.
LEMMA ConservedStep ==
  TypeOK /\ TypeOK' /\ TestsConserved /\ Lifecycle /\ [Next]_vars
    => TestsConserved'
<1> SUFFICES ASSUME TypeOK, TypeOK', TestsConserved, Lifecycle, [Next]_vars
             PROVE  TestsConserved'
  OBVIOUS
<1>1. CASE PeerUnasked
  <2> DEFINE p == [tag |-> R, id |-> 0]
  <2>1. /\ UNCHANGED <<counter, tpc, exitSent, outq, owed, lost, cur>>
        /\ inq' = Append(inq, p) /\ unasked' = unasked + 1
    BY <1>1 DEF PeerUnasked, srvVars, tstVars, lifeVars, R
  <2>2. p \in InPkt
    BY DEF InPkt, Tags, Responses, R
  <2>3. HowMany(inq', R) = HowMany(inq, R) + B2N(p.tag = R)
    BY <2>1, <2>2, CountAppend DEF TypeOK
  <2>4. B2N(p.tag = R) = 1
    BY DEF B2N
  <2>5. Back' = Back + 1
    BY <2>3, <2>4, Zenon DEF Back
  <2>6. UNCHANGED <<counter, Inc, Ex, Going, Hand, owed, lost>>
    BY <2>1, Bits, Zenon
  <2>7. counter + Inc + Ex + unasked = Going + owed[A] + lost + Back + Hand
    BY Balance
  <2>8. counter + Inc + Ex + (unasked + 1)
          = Going + owed[A] + lost + (Back + 1) + Hand
    <3>1. /\ Going \in Nat /\ Back \in Nat /\ owed[A] \in Nat /\ lost \in Nat
          /\ counter \in Int /\ unasked \in Nat
          /\ Inc \in Int /\ Ex \in Int /\ Hand \in Int
      BY BalanceType
    <3>2. QED
      BY <2>7, <3>1, UnaskedBalance, Zenon
  <2>9. /\ counter' = counter /\ Inc' = Inc /\ Ex' = Ex /\ Going' = Going
        /\ owed'[A] = owed[A] /\ lost' = lost /\ Hand' = Hand
        /\ unasked' = unasked + 1
    BY <2>1, <2>6
  <2>10. counter' + Inc' + Ex' + unasked'
           = Going' + owed'[A] + lost' + Back' + Hand'
    BY <2>5, <2>8, <2>9, Zenon
  <2>11. QED
    BY <2>10, Balance
<1>2. QED
  BY <1>1, UnaskedStep, ConservedAsked

\* done, the socket and the exit request follow the order of close()
\* (server.go:244-255).
LEMMA LifecycleStep == TypeOK /\ Lifecycle /\ [Next]_vars => Lifecycle'
<1> SUFFICES ASSUME TypeOK, Lifecycle, [Next]_vars
             PROVE  Lifecycle'
  OBVIOUS
<1>1. CASE \/ ServeTakesExceed \/ ServePollEmpty \/ ServeTimeout
           \/ ServeReadErr \/ ServeRead
  BY <1>1
  DEF Lifecycle, ServeTakesExceed, ServePollEmpty, ServeTimeout, ServeReadErr,
      ServeRead, tstVars, lifeVars
<1>2. CASE ServeHandle \/ ServePanic \/ Finish
  <2>1. /\ UNCHANGED <<done, sock, exitSent, tpc>>
        /\ spc \in {"handle", "finish"} /\ spc' \in {"poll", "finish", "exit"}
    BY <1>2
    DEF ServeHandle, ServePanic, Finish, FinishActiveResp, FinishSilent,
        FinishReply, FinishReplyFails, AfterFinish, tstVars, lifeVars
  <2>2. QED
    BY <2>1 DEF Lifecycle
<1>3. CASE ServeExit \/ ServeCloseDone \/ ServeCloseSock
  <2>1. CASE ServeExit
    <3>1. /\ UNCHANGED <<done, sock, tpc>>
          /\ spc = "exit" /\ spc' = "closedone"
      BY <2>1 DEF ServeExit, tstVars
    <3>2. QED
      BY <3>1 DEF Lifecycle
  <2>2. CASE ServeCloseDone
    BY <2>2 DEF Lifecycle, ServeCloseDone, tstVars
  <2>3. CASE ServeCloseSock
    BY <2>3 DEF Lifecycle, ServeCloseSock, tstVars
  <2>4. QED
    BY <1>3, <2>1, <2>2, <2>3
<1>4. CASE TesterStep
  BY <1>4
  DEF Lifecycle, TesterStep, TesterDone, TesterTick, TesterGivesUp,
      TesterProceeds, TesterSend, TesterCount, srvVars, lifeVars
<1>5. CASE MockDeliver \/ PeerStep \/ UNCHANGED vars
  <2>1. UNCHANGED <<spc, tpc, done, sock, exitSent>>
    BY <1>5
    DEF MockDeliver, PeerStep, PeerSend, PeerRecv, PeerAnswer, PeerUnasked,
        PeerMute, PeerClose, vars, srvVars, tstVars, lifeVars
  <2>2. QED
    BY <2>1 DEF Lifecycle
<1>6. QED
  BY <1>1, <1>2, <1>3, <1>4, <1>5 DEF Next, ServeStep, Terminated

\* Taking an answer off leaves the counter at zero or above: the answer in
\* hand is one of the tests TestsConserved counts, and no exit request is out.
LEMMA AnswerCounted ==
  ASSUME TypeOK, TestsConserved, Lifecycle, FinishActiveResp
  PROVE  counter + Inc + unasked > 0
<1>1. Hand = 1
  BY Bits DEF FinishActiveResp, R
<1>2. Ex = 0
  BY DEF FinishActiveResp, Lifecycle, Ex, B2N
<1>3. QED
  BY <1>1, <1>2, Balance, BalanceType

\* Arithmetic of the bounds: an answer takes one off where one is counted,
\* and answers sent unasked only widen the lower bound.
LEMMA OneLess ==
  ASSUME NEW n \in Nat, NEW c \in Int, NEW i \in {0, 1}, NEW u \in Nat,
         NEW v \in Nat, v >= u, c <= n, c + i + u > 0
  PROVE  c - 1 <= n /\ (c - 1) + i + v >= 0
OBVIOUS

LEMMA MoreUnasked ==
  ASSUME NEW c \in Int, NEW i \in {0, 1}, NEW u \in Nat, NEW v \in Nat,
         v >= u, c + i + u >= 0
  PROVE  c + i + v >= 0
OBVIOUS

LEMMA OneMoreTest ==
  ASSUME NEW n \in Nat, NEW c \in Int, NEW u \in Nat, NEW v \in Nat,
         v >= u, c < n, c + 0 + u >= 0 \/ c + 1 + u >= 0
  PROVE  c + 1 <= n /\ c + 1 + v >= 0 /\ (c + 1) + 0 + v >= 0
OBVIOUS

\* The counter stays in range, and room is left for a test under way.
LEMMA CounterStep == IInv /\ [Next]_vars => CounterInRange' /\ RoomForTest'
<1> SUFFICES ASSUME TypeOK, TestsConserved, CounterInRange, Lifecycle,
                    RoomForTest, [Next]_vars
             PROVE  /\ counter' <= N /\ counter' + Inc' + unasked' >= 0
                    /\ RoomForTest'
  BY Zenon DEF IInv, CounterInRange, Inc
<1>a. /\ counter <= N /\ counter + Inc + unasked >= 0
      /\ counter \in Int /\ N \in Nat /\ unasked \in Nat
      /\ Inc \in {0, 1} /\ unasked' \in Nat /\ unasked' >= unasked
  <2>1. counter <= N /\ counter + Inc + unasked >= 0
    BY Zenon DEF CounterInRange, Inc
  <2>2. QED
    BY <2>1, BalanceType, ServerConnAssumption, UnaskedStep
    DEF PeerUnasked
<1>1. CASE FinishActiveResp
  <2>1. counter' = counter - 1 /\ tpc' = tpc
    BY <1>1 DEF FinishActiveResp
  <2>2. Inc' = Inc
    BY <2>1, Bits
  <2>3. counter' <= N /\ counter' + Inc' + unasked' >= 0
    BY <1>1, <1>a, <2>1, <2>2, AnswerCounted, OneLess, Zenon
  <2>4. RoomForTest'
    BY <1>a, <2>1 DEF RoomForTest
  <2>5. QED
    BY <2>3, <2>4
<1>b. ASSUME counter' = counter, Inc' = Inc
      PROVE  counter' <= N /\ counter' + Inc' + unasked' >= 0
  BY <1>a, <1>b, MoreUnasked, Zenon
<1>2. CASE TesterProceeds
  <2>1. counter' = counter /\ counter < N /\ tpc = "check" /\ tpc' = "send"
    BY <1>2 DEF TesterProceeds
  <2>2. Inc' = Inc
    BY <2>1, Bits
  <2>3. QED
    BY <1>b, <2>1, <2>2 DEF RoomForTest
<1>3. CASE TesterSend
  <2>1. /\ counter' = counter /\ tpc = "send" /\ tpc' \in {"count", "select"}
        /\ counter < N
    BY <1>3 DEF TesterSend, RoomForTest
  <2>2. Inc = 0 /\ RoomForTest'
    BY <2>1, Bits DEF RoomForTest
  <2>3. CASE tpc' = "count"
    <3>1. Inc' = 1
      BY <2>3, Bits
    <3>2. counter' <= N
      BY <1>a, <2>1
    <3>3. QED
      BY <1>a, <2>1, <2>2, <3>1, <3>2, OneMoreTest, Zenon
  <2>4. CASE tpc' = "select"
    BY <1>b, <2>1, <2>2, <2>4, Bits
  <2>5. QED
    BY <2>1, <2>3, <2>4
<1>4. CASE TesterCount
  <2>1. /\ counter' = counter + 1 /\ tpc = "count" /\ tpc' = "select"
        /\ counter < N
    BY <1>4 DEF TesterCount, RoomForTest
  <2>2. Inc = 1 /\ Inc' = 0 /\ RoomForTest'
    BY <2>1, Bits DEF RoomForTest
  <2>3. QED
    BY <1>a, <2>1, <2>2, OneMoreTest, Zenon
<1>5. CASE ServeTakesExceed \/ TesterDone \/ TesterTick \/ TesterGivesUp
  <2>1. /\ counter' = counter /\ tpc # "count"
        /\ tpc' \notin {"send", "count"}
    BY <1>5 DEF ServeTakesExceed, TesterDone, TesterTick, TesterGivesUp
  <2>2. Inc' = Inc
    BY <2>1, Bits
  <2>3. QED
    BY <1>b, <2>1, <2>2 DEF RoomForTest
<1>6. ASSUME UNCHANGED tstVars
      PROVE  /\ counter' <= N /\ counter' + Inc' + unasked' >= 0
             /\ RoomForTest'
  <2>1. counter' = counter /\ tpc' = tpc
    BY <1>6 DEF tstVars
  <2>2. Inc' = Inc
    BY <2>1, Bits
  <2>3. QED
    BY <1>b, <2>1, <2>2 DEF RoomForTest
<1>7. CASE ServePollEmpty \/ ServeTimeout \/ ServeReadErr \/ ServeRead
  BY <1>6, <1>7 DEF ServePollEmpty, ServeTimeout, ServeReadErr, ServeRead
<1>8. CASE ServeHandle \/ ServePanic \/ FinishSilent \/ FinishReply
           \/ FinishReplyFails
  BY <1>6, <1>8
  DEF ServeHandle, ServePanic, FinishSilent, FinishReply, FinishReplyFails
<1>9. CASE ServeExit \/ ServeCloseDone \/ ServeCloseSock \/ MockDeliver
  BY <1>6, <1>9 DEF ServeExit, ServeCloseDone, ServeCloseSock, MockDeliver
<1>10. CASE PeerStep \/ UNCHANGED vars
  BY <1>6, <1>10
  DEF PeerStep, PeerSend, PeerRecv, PeerAnswer, PeerUnasked, PeerMute,
      PeerClose, vars
<1>11. QED
  BY <1>1, <1>2, <1>3, <1>4, <1>5, <1>7, <1>8, <1>9, <1>10
  DEF Next, ServeStep, Finish, TesterStep, Terminated

LEMMA InvInit == Init => IInv
<1> SUFFICES ASSUME Init PROVE IInv
  OBVIOUS
<1>1. TypeOK
  BY TypeInit
<1>2. Going = 0 /\ Back = 0
  BY CountEmpty DEF Init, Going, Back
<1>3. counter = 0 /\ owed[A] = 0 /\ lost = 0 /\ unasked = 0
  BY DEF Init, A
<1>4. Inc = 0 /\ Ex = 0 /\ Hand = 0
  BY NoPktTag DEF Init, Inc, Ex, Hand, R, B2N
<1>5. TestsConserved
  BY <1>2, <1>3, <1>4, Balance
<1>6. CounterInRange
  <2>1. counter <= N /\ counter + Inc + unasked >= 0
    BY <1>3, <1>4, ServerConnAssumption
  <2>2. QED
    BY <2>1, Zenon DEF CounterInRange, Inc
<1>7. Lifecycle /\ RoomForTest
  BY DEF Init, Lifecycle, RoomForTest
<1>8. QED
  BY <1>1, <1>5, <1>6, <1>7 DEF IInv

LEMMA InvStep == IInv /\ [Next]_vars => IInv'
BY TypeStep, ConservedStep, LifecycleStep, CounterStep DEF IInv

\* The strengthened invariant holds in every behaviour.
THEOREM Invariance == Spec => []IInv
BY InvInit, InvStep, PTL DEF Spec

\* Every active test is accounted for (startActiveTest, finishPacket, close).
THEOREM TestsAreConserved == Spec => []TestsConserved
<1>1. IInv => TestsConserved
  BY DEF IInv
<1>2. QED
  BY <1>1, Invariance, PTL

\* The counter never passes N and is never negative but for the increment
\* still to come (server.go:283-294).
THEOREM CounterStaysInRange == Spec => []CounterInRange
<1>1. IInv => CounterInRange
  BY DEF IInv
<1>2. QED
  BY <1>1, Invariance, PTL
-----------------------------------------------------------------------------
(* Refinement.  The abstract variables of the watchdog, by name.            *)

Unanswered == counter + B2N(tpc = "count")
Alarm == CASE tpc = "exceed"  -> "raised"
           [] tpc = "stopped" -> "off"
           [] OTHER           -> "quiet"
Link == CASE spc \in InLoop  -> "up"
          [] spc \in Closing -> "closing"
          [] OTHER           -> "down"

\* The mapping seen through the program counters.
LEMMA MapValues ==
  ASSUME TypeOK
  PROVE  /\ tpc = "exceed" => Alarm = "raised"
         /\ tpc = "stopped" => Alarm = "off"
         /\ tpc \notin {"exceed", "stopped"} => Alarm = "quiet"
         /\ spc \in InLoop => Link = "up"
         /\ spc \in Closing => Link = "closing"
         /\ spc = "closed" => Link = "down"
BY DEF Alarm, Link, InLoop, Closing

LEMMA WatchInit == Init => Watch!WInit
<1> SUFFICES ASSUME Init PROVE Watch!WInit
  OBVIOUS
<1>1. Unanswered = 0 /\ unasked = 0
  BY DEF Init, Unanswered, B2N
<1>2. Alarm = "quiet" /\ Link = "up"
  BY TypeInit, MapValues DEF Init, InLoop
<1>3. QED
  BY <1>1, <1>2, Zenon DEF Watch!WInit, Unanswered, Alarm, Link

\* A step that moves neither the tester nor serve's place in the mapping is a
\* stutter of the watchdog.
LEMMA WatchStutter ==
  ASSUME UNCHANGED <<counter, tpc>>, TypeOK, TypeOK',
         \/ spc \in InLoop /\ spc' \in InLoop
         \/ spc \in Closing /\ spc' \in Closing
         \/ UNCHANGED spc
  PROVE  UNCHANGED <<Unanswered, Alarm, Link>>
<1>1. UNCHANGED <<Unanswered, Alarm>>
  BY Zenon DEF Unanswered, Alarm
<1>2. UNCHANGED Link
  BY DEF Link, InLoop, Closing
<1>3. QED
  BY <1>1, <1>2

\* The steps of the watchdog over the named abstract variables.
WTest == /\ Alarm = "quiet" /\ Link # "down" /\ Unanswered < N
         /\ Unanswered' = Unanswered + 1 /\ UNCHANGED <<unasked, Alarm, Link>>
WVolunteer == unasked' = unasked + 1 /\ UNCHANGED <<Unanswered, Alarm, Link>>
WAnswer == /\ Link = "up" /\ Unanswered + unasked > 0
           /\ Unanswered' = Unanswered - 1 /\ Link' \in {"up", "closing"}
           /\ UNCHANGED <<unasked, Alarm>>
WRaise == /\ Alarm = "quiet" /\ Unanswered = N /\ Alarm' = "raised"
          /\ UNCHANGED <<Unanswered, unasked, Link>>
WHear == /\ Alarm = "raised" /\ Link = "up" /\ Alarm' = "quiet"
         /\ Link' = "closing" /\ UNCHANGED <<Unanswered, unasked>>
WLeave == /\ Link = "up" /\ Link' = "closing"
          /\ UNCHANGED <<Unanswered, unasked, Alarm>>
WDown == /\ Link = "closing" /\ Link' = "down"
         /\ UNCHANGED <<Unanswered, unasked, Alarm>>
WStop == /\ Alarm = "quiet" /\ Link # "up" /\ Alarm' = "off"
         /\ UNCHANGED <<Unanswered, unasked, Link>>
WStep == \/ WTest \/ WVolunteer \/ WAnswer \/ WRaise \/ WHear \/ WLeave
         \/ WDown \/ WStop \/ UNCHANGED <<Unanswered, unasked, Alarm, Link>>

LEMMA WatchNames == WStep => [Watch!WNext]_(Watch!wvars)
BY Zenon
DEF WStep, WTest, WVolunteer, WAnswer, WRaise, WHear, WLeave, WDown, WStop, Unanswered,
    Alarm, Link, Watch!WNext, Watch!Test, Watch!Volunteer, Watch!Answer,
    Watch!Raise, Watch!Hear, Watch!Leave, Watch!Down, Watch!Stop, Watch!wvars

LEMMA MapValuesNext ==
  ASSUME TypeOK'
  PROVE  /\ tpc' = "exceed" => Alarm' = "raised"
         /\ tpc' = "stopped" => Alarm' = "off"
         /\ tpc' \notin {"exceed", "stopped"} => Alarm' = "quiet"
         /\ spc' \in InLoop => Link' = "up"
         /\ spc' \in Closing => Link' = "closing"
         /\ spc' = "closed" => Link' = "down"
BY DEF Alarm, Link, InLoop, Closing

\* Every step of the connection is a step of the watchdog or a stutter.
LEMMA WatchStep == IInv /\ IInv' /\ [Next]_vars => WStep
<1> SUFFICES ASSUME IInv, IInv', [Next]_vars
             PROVE  WStep
  OBVIOUS
<1>0. CASE PeerUnasked
  <2>1. UNCHANGED <<counter, tpc, spc>> /\ unasked' = unasked + 1
    BY <1>0 DEF PeerUnasked, srvVars, tstVars
  <2>2. UNCHANGED <<Unanswered, Alarm, Link>>
    BY <2>1, WatchStutter DEF IInv
  <2>3. QED
    BY <2>1, <2>2, Zenon DEF WStep, WVolunteer
<1>u. ASSUME ~PeerUnasked
      PROVE  unasked' = unasked
  BY <1>u, UnaskedStep
<1>v. SUFFICES ASSUME ~PeerUnasked, unasked' = unasked
               PROVE  WStep
  BY <1>0, <1>u
<1>a. TypeOK /\ TypeOK' /\ Lifecycle /\ TestsConserved /\ RoomForTest
  BY DEF IInv
<1>b. /\ Unanswered = counter + Inc /\ Unanswered' = counter' + Inc'
      /\ UNCHANGED <<counter, tpc>> => UNCHANGED <<Unanswered, Alarm>>
      /\ UNCHANGED tpc => UNCHANGED Alarm
      /\ UNCHANGED spc => UNCHANGED Link
  BY Zenon DEF Unanswered, Inc, Alarm, Link
<1>c. /\ counter \in Int /\ Inc \in {0, 1} /\ counter <= N /\ N \in Nat
  BY <1>a, BalanceType, ServerConnAssumption DEF IInv, CounterInRange
<1>1. CASE ServeTakesExceed
  <2>1. /\ tpc = "exceed" /\ tpc' = "select" /\ spc \in InLoop
        /\ spc' \in Closing /\ counter' = counter
    BY <1>1 DEF ServeTakesExceed, InLoop, Closing
  <2>2. Unanswered' = Unanswered
    BY <1>b, <2>1, Bits
  <2>3. /\ Alarm = "raised" /\ Alarm' = "quiet" /\ Link = "up"
        /\ Link' = "closing"
    BY <1>a, <2>1, MapValues, MapValuesNext
  <2>4. QED
    BY <1>v, <2>2, <2>3, Zenon DEF WStep, WHear
<1>2. CASE ServePollEmpty \/ ServeTimeout \/ ServeRead \/ ServeHandle
  <2>1. UNCHANGED <<counter, tpc>> /\ spc \in InLoop /\ spc' \in InLoop
    BY <1>2 DEF ServePollEmpty, ServeTimeout, ServeRead, ServeHandle, tstVars,
                InLoop
  <2>2. QED
    BY <1>v, <1>a, <2>1, WatchStutter, Zenon DEF WStep
<1>3. ASSUME UNCHANGED <<counter, tpc>>, spc \in InLoop,
             spc' \in InLoop \cup Closing
      PROVE  WStep
  <2>1. CASE spc' \in InLoop
    BY <1>v, <1>a, <1>3, <2>1, WatchStutter, Zenon DEF WStep
  <2>2. CASE spc' \in Closing
    <3>1. Link = "up" /\ Link' = "closing"
      BY <1>a, <1>3, <2>2, MapValues, MapValuesNext
    <3>2. UNCHANGED <<Unanswered, Alarm>>
      BY <1>b, <1>3
    <3>3. QED
      BY <1>v, <3>1, <3>2, Zenon DEF WStep, WLeave
  <2>3. QED
    BY <1>3, <2>1, <2>2
<1>4. CASE ServeReadErr \/ ServePanic \/ FinishSilent \/ FinishReply
           \/ FinishReplyFails
  <2>1. /\ UNCHANGED <<counter, tpc>> /\ spc \in InLoop
        /\ spc' \in InLoop \cup Closing
    BY <1>4 DEF ServeReadErr, ServePanic, FinishSilent, FinishReply,
                FinishReplyFails, AfterFinish, tstVars, InLoop, Closing
  <2>2. QED
    BY <1>3, <2>1
<1>5. CASE FinishActiveResp
  <2>1. /\ counter' = counter - 1 /\ tpc' = tpc /\ spc \in InLoop
        /\ spc' \in InLoop \/ spc' \in Closing
    BY <1>5 DEF FinishActiveResp, AfterFinish, InLoop, Closing
  <2>2. Inc' = Inc
    BY <2>1, Bits
  <2>3. Unanswered + unasked > 0 /\ Unanswered' = Unanswered - 1
    <3>1. counter + Inc + unasked > 0
      BY <1>5, <1>a, AnswerCounted
    <3>2. (counter - 1) + Inc = (counter + Inc) - 1
      BY <1>c
    <3>3. QED
      BY <1>b, <2>1, <2>2, <3>1, <3>2, Zenon
  <2>4. Link = "up" /\ Link' \in {"up", "closing"} /\ UNCHANGED Alarm
    BY <1>a, <1>b, <2>1, MapValues, MapValuesNext
  <2>5. QED
    BY <1>v, <2>3, <2>4, Zenon DEF WStep, WAnswer
<1>6. CASE ServeExit \/ ServeCloseDone
  <2>1. UNCHANGED <<counter, tpc>> /\ spc \in Closing /\ spc' \in Closing
    BY <1>6 DEF ServeExit, ServeCloseDone, tstVars, Closing
  <2>2. QED
    BY <1>v, <1>a, <2>1, WatchStutter, Zenon DEF WStep
<1>7. CASE ServeCloseSock
  <2>1. UNCHANGED <<counter, tpc>> /\ spc \in Closing /\ spc' = "closed"
    BY <1>7 DEF ServeCloseSock, tstVars, Closing
  <2>2. Link = "closing" /\ Link' = "down" /\ UNCHANGED <<Unanswered, Alarm>>
    BY <1>a, <1>b, <2>1, MapValues, MapValuesNext
  <2>3. QED
    BY <1>v, <2>2, Zenon DEF WStep, WDown
<1>8. CASE TesterDone
  <2>1. /\ tpc = "select" /\ tpc' = "stopped" /\ spc' = spc
        /\ counter' = counter /\ spc \in {"closesock", "closed"}
    BY <1>8, <1>a DEF TesterDone, srvVars, Lifecycle
  <2>2. /\ Alarm = "quiet" /\ Alarm' = "off" /\ Link # "up"
        /\ UNCHANGED Link
    BY <1>a, <1>b, <2>1, MapValues, MapValuesNext DEF Closing
  <2>3. UNCHANGED Unanswered
    BY <1>b, <2>1, Bits
  <2>4. QED
    BY <1>v, <2>2, <2>3, Zenon DEF WStep, WStop
<1>9. CASE TesterTick \/ TesterProceeds
  <2>1. /\ tpc \notin {"exceed", "stopped", "count"} /\ counter' = counter
        /\ tpc' \notin {"exceed", "stopped", "count"} /\ spc' = spc
    BY <1>9 DEF TesterTick, TesterProceeds, srvVars
  <2>2. UNCHANGED <<Alarm, Link>>
    BY <1>a, <1>b, <2>1, MapValues, MapValuesNext
  <2>3. UNCHANGED Unanswered
    BY <1>b, <2>1, Bits
  <2>4. QED
    BY <1>v, <2>2, <2>3, Zenon DEF WStep
<1>10. CASE TesterGivesUp
  <2>1. /\ tpc = "check" /\ tpc' = "exceed" /\ counter' = counter
        /\ spc' = spc /\ counter >= N
    BY <1>10 DEF TesterGivesUp, srvVars
  <2>2. Alarm = "quiet" /\ Alarm' = "raised" /\ UNCHANGED Link
    BY <1>a, <1>b, <2>1, MapValues, MapValuesNext
  <2>3. Unanswered = N /\ UNCHANGED Unanswered
    BY <1>b, <1>c, <2>1, Bits
  <2>4. QED
    BY <1>v, <2>2, <2>3, Zenon DEF WStep, WRaise
<1>11. CASE TesterSend
  <2>1. tpc = "send" /\ counter' = counter /\ spc' = spc /\ counter < N
    BY <1>11, <1>a DEF TesterSend, srvVars, RoomForTest
  <2>2. Alarm = "quiet" /\ Inc = 0 /\ UNCHANGED Link
    BY <1>a, <1>b, <2>1, MapValues, Bits
  <2>3. CASE SendPktOK("ActiveTestReq", 0) /\ tpc' = "count"
    <3>1. Link # "down"
      BY <1>a, <2>3, MapValues DEF SendPktOK, Lifecycle, TypeOK
    <3>2. Alarm' = "quiet" /\ Inc' = 1
      BY <1>a, <2>3, MapValuesNext, Bits
    <3>3. Unanswered < N /\ Unanswered' = Unanswered + 1
      BY <1>b, <1>c, <2>1, <2>2, <3>2
    <3>4. QED
      BY <1>v, <2>2, <3>1, <3>2, <3>3, Zenon DEF WStep, WTest
  <2>4. CASE tpc' = "select"
    <3>1. Alarm' = "quiet" /\ Inc' = 0
      BY <1>a, <2>4, MapValuesNext, Bits
    <3>2. UNCHANGED Unanswered
      BY <1>b, <2>1, <2>2, <3>1
    <3>3. QED
      BY <1>v, <2>2, <3>1, <3>2, Zenon DEF WStep
  <2>5. QED
    BY <1>11, <2>3, <2>4 DEF TesterSend
<1>12. CASE TesterCount
  <2>1. /\ tpc = "count" /\ tpc' = "select" /\ counter' = counter + 1
        /\ spc' = spc
    BY <1>12 DEF TesterCount, srvVars
  <2>2. UNCHANGED <<Alarm, Link>>
    BY <1>a, <1>b, <2>1, MapValues, MapValuesNext
  <2>3. UNCHANGED Unanswered
    BY <1>b, <1>c, <2>1, Bits
  <2>4. QED
    BY <1>v, <2>2, <2>3, Zenon DEF WStep
<1>13. CASE MockDeliver \/ PeerStep \/ UNCHANGED vars
  <2>1. UNCHANGED <<counter, tpc, spc>>
    BY <1>13, <1>v
    DEF MockDeliver, PeerStep, PeerSend, PeerRecv, PeerAnswer, PeerMute,
        PeerClose, vars, srvVars, tstVars
  <2>2. QED
    BY <1>v, <1>a, <2>1, WatchStutter, Zenon DEF WStep
<1>14. QED
  BY <1>1, <1>2, <1>4, <1>5, <1>6, <1>7, <1>8, <1>9, <1>10, <1>11, <1>12,
     <1>13
  DEF Next, ServeStep, Finish, TesterStep, Terminated

\* The connection implements the watchdog: what serve, the active-test
\* goroutine and close() do together is what Watchdog promises.
THEOREM Refinement == Spec => ImplementsWatchdog
<1>1. Init => Watch!WInit
  BY WatchInit
<1>2. IInv /\ IInv' /\ [Next]_vars => [Watch!WNext]_(Watch!wvars)
  BY WatchStep, WatchNames
<1>3. QED
  BY <1>1, <1>2, Invariance, PTL DEF Spec, ImplementsWatchdog, Watch!WSpec

-----------------------------------------------------------------------------
(* The pipeline of packets.  Runs of ids grow at the end, shrink at the     *)
(* head and join.                                                           *)

HasIds(U) == \A u \in U : u.id \in Nat
IdsOf(s) == {s[i].id : i \in 1..Len(s)} \ {0}

LEMMA RunEmpty ==
  ASSUME NEW lo \in Nat, NEW hi \in Nat
  PROVE  Run(<< >>, lo, hi) <=> lo = hi
<1>1. {<< >>[i].id : i \in 1..Len(<< >>)} = {}
  OBVIOUS
<1>2. lo <= hi => ((lo + 1)..hi = {} <=> lo = hi)
  <2>1. lo < hi => lo + 1 \in (lo + 1)..hi
    OBVIOUS
  <2>2. QED
    BY <2>1
<1>3. QED
  BY <1>1, <1>2 DEF Run

\* A packet with the next id, or without one, at the end.
LEMMA RunAppend ==
  ASSUME NEW U, HasIds(U), NEW s \in Seq(U), NEW u \in U,
         NEW lo \in Nat, NEW hi \in Nat, Run(s, lo, hi)
  PROVE  /\ u.id = 0 => Run(Append(s, u), lo, hi)
         /\ u.id = hi + 1 => Run(Append(s, u), lo, hi + 1)
<1> DEFINE t == Append(s, u)
           n == Len(s)
<1>1. n \in Nat /\ Len(t) = n + 1 /\ t[n + 1] = u /\ \A i \in 1..n : t[i] = s[i]
  OBVIOUS
<1>2. IdsOf(s) = (lo + 1)..hi /\ lo <= hi
      /\ \A i, j \in 1..n : i < j /\ s[j].id # 0 => s[i].id < s[j].id
  BY DEF Run, IdsOf
<1>3. \A i \in 1..n : s[i].id \in Nat /\ s[i].id <= hi
  <2>1. \A i \in 1..n : s[i].id \in Nat
    BY DEF HasIds
  <2>2. ASSUME NEW i \in 1..n, s[i].id # 0 PROVE s[i].id <= hi
    <3>1. s[i].id \in IdsOf(s)
      BY <2>2 DEF IdsOf
    <3>2. QED
      BY <1>2, <3>1
  <2>3. QED
    BY <2>1, <2>2
<1>4. IdsOf(t) = IdsOf(s) \cup ({u.id} \ {0})
  <2> HIDE DEF t, n
  <2>1. {t[i].id : i \in 1..(n + 1)} = {s[i].id : i \in 1..n} \cup {u.id}
    BY <1>1
  <2>2. QED
    BY <1>1, <2>1 DEF IdsOf, n
<1> HIDE DEF t, n
<1>5. CASE u.id = 0
  <2>1. \A i, j \in 1..(n + 1) : i < j /\ t[j].id # 0 => t[i].id < t[j].id
    <3>1. ASSUME NEW i \in 1..(n + 1), NEW j \in 1..(n + 1), i < j, t[j].id # 0
          PROVE  i \in 1..n /\ j \in 1..n
      BY <1>1, <1>5, <3>1
    <3>2. QED
      BY <1>1, <1>2, <3>1
  <2>2. IdsOf(t) = (lo + 1)..hi
    BY <1>2, <1>4, <1>5
  <2>3. Run(t, lo, hi)
    BY <1>1, <1>2, <2>1, <2>2 DEF Run, IdsOf
  <2>4. QED
    BY <1>5, <2>3 DEF t
<1>6. CASE u.id = hi + 1
  <2>1. \A i, j \in 1..(n + 1) : i < j /\ t[j].id # 0 => t[i].id < t[j].id
    <3>1. \A i \in 1..n : t[i].id < hi + 1
      BY <1>1, <1>3
    <3>2. ASSUME NEW i \in 1..(n + 1), NEW j \in 1..(n + 1), i < j, t[j].id # 0
          PROVE  t[i].id < t[j].id
      <4>1. i \in 1..n /\ (j \in 1..n \/ j = n + 1)
        BY <1>1, <3>2
      <4>2. CASE j = n + 1
        BY <1>1, <1>6, <3>1, <4>1, <4>2, Zenon
      <4>3. CASE j \in 1..n
        BY <1>1, <1>2, <3>2, <4>1, <4>3, Zenon
      <4>4. QED
        BY <4>1, <4>2, <4>3
    <3>3. QED
      BY <3>2
  <2>2. IdsOf(t) = (lo + 1)..(hi + 1)
    BY <1>2, <1>4, <1>6
  <2>3. Run(t, lo, hi + 1)
    BY <1>1, <1>2, <2>1, <2>2 DEF Run, IdsOf
  <2>4. QED
    BY <1>6, <2>3 DEF t
<1>7. QED
  BY <1>5, <1>6 DEF t

\* The first packet off: it has no id, or the lowest.
LEMMA RunTail ==
  ASSUME NEW U, HasIds(U), NEW s \in Seq(U), s # << >>,
         NEW lo \in Nat, NEW hi \in Nat, Run(s, lo, hi)
  PROVE  /\ Head(s).id = 0 => Run(Tail(s), lo, hi)
         /\ Head(s).id # 0 => Head(s).id = lo + 1 /\ Run(Tail(s), lo + 1, hi)
<1> DEFINE t == Tail(s)
           h == Head(s)
           n == Len(t)
<1>1. /\ n \in Nat /\ Len(s) = n + 1 /\ s[1] = h /\ h \in U
      /\ \A i \in 1..n : t[i] = s[i + 1]
  BY EmptySeq, HeadTailProperties
<1>2. IdsOf(s) = (lo + 1)..hi /\ lo <= hi
      /\ \A i, j \in 1..(n + 1) : i < j /\ s[j].id # 0 => s[i].id < s[j].id
  BY <1>1 DEF Run, IdsOf
<1>3. h.id \in Nat
  BY <1>1 DEF HasIds
<1> HIDE DEF t, h, n
<1>4. IdsOf(s) = IdsOf(t) \cup ({h.id} \ {0})
  <2>1. {s[i].id : i \in 1..(n + 1)} = {t[i].id : i \in 1..n} \cup {h.id}
    <3>1. \A i \in 1..n : i + 1 \in 1..(n + 1) /\ t[i] = s[i + 1]
      BY <1>1
    <3>2. \A i \in 1..(n + 1) : i = 1 \/ (i - 1 \in 1..n /\ s[i] = t[i - 1])
      BY <1>1
    <3>3. 1 \in 1..(n + 1)
      BY <1>1
    <3>4. {s[i].id : i \in 1..(n + 1)} \subseteq {t[i].id : i \in 1..n} \cup {h.id}
      BY <1>1, <3>2
    <3>5. {t[i].id : i \in 1..n} \cup {h.id} \subseteq {s[i].id : i \in 1..(n + 1)}
      BY <1>1, <3>1, <3>3
    <3>6. QED
      BY <3>4, <3>5
  <2>2. QED
    BY <1>1, <2>1 DEF IdsOf, n
<1>5. \A i, j \in 1..n : i < j /\ t[j].id # 0 => t[i].id < t[j].id
  BY <1>1, <1>2
<1>6. \A x \in IdsOf(t) : h.id < x
  <2>1. ASSUME NEW i \in 1..n, t[i].id # 0 PROVE h.id < t[i].id
    BY <1>1, <1>2, <2>1
  <2>2. QED
    BY <2>1 DEF IdsOf, n
<1>7. CASE h.id = 0
  <2>1. Run(t, lo, hi)
    BY <1>1, <1>2, <1>4, <1>5, <1>7 DEF Run, IdsOf, n
  <2>2. QED
    BY <1>7, <2>1 DEF t, h
<1>8. CASE h.id # 0
  <2>1. h.id \in (lo + 1)..hi /\ lo + 1 \in (lo + 1)..hi
    BY <1>2, <1>3, <1>4, <1>8
  <2>2. h.id = lo + 1
    <3>1. lo + 1 \in IdsOf(t) \/ lo + 1 = h.id
      BY <1>2, <1>4, <2>1
    <3>2. ~(h.id < lo + 1)
      BY <2>1
    <3>3. QED
      BY <1>6, <3>1, <3>2, Zenon
  <2>3. IdsOf(t) = (lo + 2)..hi
    <3>1. IdsOf(t) = ((lo + 1)..hi) \ {lo + 1}
      BY <1>2, <1>4, <1>6, <1>8, <2>2
    <3>2. ((lo + 1)..hi) \ {lo + 1} = (lo + 2)..hi
      OBVIOUS
    <3>3. QED
      BY <3>1, <3>2
  <2>4. Run(t, lo + 1, hi)
    <3>1. (lo + 1) + 1 = lo + 2 /\ lo + 1 <= hi
      BY <2>1
    <3>2. QED
      BY <1>5, <2>3, <3>1 DEF Run, IdsOf, n
  <2>5. QED
    BY <1>8, <2>2, <2>4 DEF t, h
<1>9. QED
  BY <1>7, <1>8 DEF h, t

LEMMA RunJoin ==
  ASSUME NEW U, HasIds(U), NEW s \in Seq(U), NEW t \in Seq(U),
         NEW lo \in Nat, NEW m \in Nat, NEW hi \in Nat,
         Run(s, lo, m), Run(t, m, hi)
  PROVE  Run(s \o t, lo, hi)
<1> DEFINE c == s \o t
           p == Len(s)
           q == Len(t)
<1>1. /\ p \in Nat /\ q \in Nat /\ Len(c) = p + q
      /\ \A i \in 1..p : c[i] = s[i]
      /\ \A i \in 1..q : c[p + i] = t[i]
  OBVIOUS
<1>2. /\ IdsOf(s) = (lo + 1)..m /\ lo <= m
      /\ \A i, j \in 1..p : i < j /\ s[j].id # 0 => s[i].id < s[j].id
  BY DEF Run, IdsOf
<1>3. /\ IdsOf(t) = (m + 1)..hi /\ m <= hi
      /\ \A i, j \in 1..q : i < j /\ t[j].id # 0 => t[i].id < t[j].id
  BY DEF Run, IdsOf
<1>4. /\ \A i \in 1..p : s[i].id \in Nat
      /\ \A i \in 1..q : t[i].id \in Nat
  BY DEF HasIds
<1>5. \A i \in 1..p : s[i].id <= m
  <2>1. ASSUME NEW i \in 1..p, s[i].id # 0 PROVE s[i].id <= m
    <3>1. s[i].id \in IdsOf(s)
      BY <2>1 DEF IdsOf
    <3>2. QED
      BY <1>2, <3>1
  <2>2. QED
    BY <1>4, <2>1
<1>6. \A i \in 1..q : t[i].id # 0 => t[i].id > m
  <2>1. ASSUME NEW i \in 1..q, t[i].id # 0 PROVE t[i].id > m
    <3>1. t[i].id \in IdsOf(t)
      BY <2>1 DEF IdsOf
    <3>2. QED
      BY <1>3, <3>1
  <2>2. QED
    BY <2>1
<1>7. \A i \in 1..(p + q) : \/ i \in 1..p /\ c[i] = s[i]
                           \/ /\ i - p \in 1..q /\ i > p
                              /\ c[i] = t[i - p]
  <2> HIDE DEF c, p, q
  <2>1. ASSUME NEW i \in 1..(p + q), i > p
        PROVE  i - p \in 1..q /\ c[i] = t[i - p]
    <3>1. i - p \in 1..q /\ p + (i - p) = i
      BY <1>1, <2>1
    <3>2. QED
      BY <1>1, <3>1
  <2>2. QED
    BY <1>1, <2>1
<1> HIDE DEF c, p, q
<1>8. IdsOf(c) = IdsOf(s) \cup IdsOf(t)
  <2>1. {c[i].id : i \in 1..(p + q)}
          = {s[i].id : i \in 1..p} \cup {t[i].id : i \in 1..q}
    <3>1. \A i \in 1..p : i \in 1..(p + q)
      BY <1>1
    <3>2. \A i \in 1..q : p + i \in 1..(p + q)
      BY <1>1
    <3>3. QED
      BY <1>1, <1>7, <3>1, <3>2
  <2>2. QED
    BY <1>1, <2>1 DEF IdsOf, p, q
<1>9. IdsOf(c) = (lo + 1)..hi
  BY <1>2, <1>3, <1>8
<1>10. ASSUME NEW i \in 1..(p + q), NEW j \in 1..(p + q), i < j, c[j].id # 0
       PROVE  c[i].id < c[j].id
  <2>1. CASE j \in 1..p /\ c[j] = s[j]
    <3>1. p \in Nat /\ q \in Nat
      BY <1>1
    <3>2. i \in 1..p
      BY <1>10, <2>1, <3>1
    <3>3. c[i] = s[i]
      BY <1>1, <3>2
    <3>4. QED
      BY <1>2, <1>10, <2>1, <3>2, <3>3
  <2>2. CASE j - p \in 1..q /\ c[j] = t[j - p]
    <3>1. CASE i \in 1..p /\ c[i] = s[i]
      BY <1>4, <1>5, <1>6, <1>10, <2>2, <3>1
    <3>2. CASE i - p \in 1..q /\ c[i] = t[i - p]
      <4>1. i - p < j - p
        BY <1>1, <1>10
      <4>2. QED
        BY <1>3, <1>10, <2>2, <3>2, <4>1
    <3>3. QED
      BY <1>7, <3>1, <3>2
  <2>3. QED
    BY <1>7, <2>1, <2>2
<1>11. lo <= hi
  BY <1>2, <1>3
<1>12. QED
  BY <1>1, <1>9, <1>10, <1>11 DEF Run, IdsOf, c

-----------------------------------------------------------------------------
\* The pipeline invariant.  Answers carry no id; up to a the replies are under
\* way to the peer, a + 1 may be in service, and the rest is on its way in.

Incoming == {p \in InPkt : p.tag \in Responses => p.id = 0}
Unnumbered == inq \in Seq(Incoming) /\ cur \in Incoming \cup {NoPkt}
Served(a) == IF cur.id = 0 THEN a ELSE a + 1
PipeAt(a) ==
  /\ Run(outq, got, a)
  /\ cur.id # 0 => cur.id = a + 1
  /\ Run(inq, Served(a), reqs)
Pipe == spc \in InLoop /\ peerOpen => \E a \in Nat : PipeAt(a)

LEMMA PacketIds == /\ HasIds(InPkt) /\ HasIds(OutPkt) /\ NoPkt.id = 0
                   /\ HasIds(InPkt \cup OutPkt \cup {NoPkt})
BY DEF HasIds, InPkt, OutPkt, NoPkt

LEMMA AnswerTags ==
  /\ \A t \in {"ActiveTestReq", "DeliverReq"} : RespOf(t) \in Responses
  /\ "ActiveTestResp" \in Responses /\ Responses \subseteq Tags
  /\ \A t \in PeerTags : t \in Tags /\ t \notin Responses
  /\ \A t \in Requests : t \notin Responses
BY ServerConnAssumption DEF RespOf, Responses, Requests, Tags

LEMMA UnnumberedStep == TypeOK /\ Unnumbered /\ [Next]_vars => Unnumbered'
<1> SUFFICES ASSUME TypeOK, Unnumbered, [Next]_vars PROVE Unnumbered'
  OBVIOUS
<1> USE DEF Unnumbered
<1>1. CASE ServeRead
  <2>1. inq # << >> /\ inq' = Tail(inq) /\ cur' = Head(inq)
    BY <1>1 DEF ServeRead
  <2>2. QED
    BY <2>1, HeadTailProperties
<1>2. CASE ServeReadErr
  <2>1. cur' = cur /\ (inq' = inq \/ (inq # << >> /\ inq' = Tail(inq)))
    BY <1>2 DEF ServeReadErr
  <2>2. QED
    BY <2>1, HeadTailProperties
<1>3. CASE PeerStep
  <2>1. cur' = cur
    BY <1>3 DEF PeerStep, PeerSend, PeerRecv, PeerAnswer, PeerUnasked, PeerMute,
           PeerClose, srvVars
  <2>2. inq' = inq \/ \E p \in Incoming : inq' = Append(inq, p)
    <3>1. ASSUME NEW tag \in PeerTags, PeerSend(tag)
          PROVE  \E p \in Incoming : inq' = Append(inq, p)
      <4>1. inq' = Append(inq, [tag |-> tag, id |-> reqs + 1]) /\ reqs + 1 \in Nat
        BY <3>1 DEF PeerSend, TypeOK
      <4>2. [tag |-> tag, id |-> reqs + 1] \in Incoming
        BY <4>1, AnswerTags DEF Incoming, InPkt
      <4>3. QED
        BY <4>1, <4>2
    <3>2. ASSUME NEW tag \in Responses, inq' = Append(inq, [tag |-> tag, id |-> 0])
          PROVE  \E p \in Incoming : inq' = Append(inq, p)
      <4>1. [tag |-> tag, id |-> 0] \in Incoming
        BY AnswerTags DEF Incoming, InPkt
      <4>2. QED
        BY <3>2, <4>1
    <3>3. ASSUME NEW t \in DOMAIN owed, PeerAnswer(t)
          PROVE  \E p \in Incoming : inq' = Append(inq, p)
      BY <3>2, <3>3, AnswerTags DEF PeerAnswer, TypeOK
    <3>4. PeerUnasked => \E p \in Incoming : inq' = Append(inq, p)
      BY <3>2, AnswerTags DEF PeerUnasked
    <3>5. PeerRecv \/ PeerMute \/ PeerClose => inq' = inq
      BY DEF PeerRecv, PeerMute, PeerClose, netVars
    <3>6. QED
      BY <1>3, <3>1, <3>3, <3>4, <3>5, Zenon DEF PeerStep
  <2>3. QED
    BY <2>1, <2>2
<1>4. CASE \/ ServeTakesExceed \/ ServePollEmpty \/ ServeTimeout \/ ServeHandle
           \/ ServePanic \/ Finish \/ ServeExit \/ ServeCloseDone \/ ServeCloseSock
  <2>1. inq' = inq /\ cur' \in {cur, NoPkt}
    BY <1>4 DEF ServeTakesExceed, ServePollEmpty, ServeTimeout, ServeHandle,
         ServePanic, Finish, FinishActiveResp, FinishSilent, FinishReply,
         FinishReplyFails, AfterFinish, ServeExit, ServeCloseDone, ServeCloseSock,
         srvVars, netVars
  <2>2. QED
    BY <2>1
<1>5. CASE TesterStep \/ MockDeliver \/ Terminated \/ UNCHANGED vars
  <2>1. inq' = inq /\ cur' = cur
    BY <1>5 DEF TesterStep, TesterDone, TesterTick, TesterGivesUp, TesterProceeds,
         TesterSend, TesterCount, MockDeliver, Terminated, vars, srvVars, netVars
  <2>2. QED
    BY <2>1
<1>6. QED
  BY <1>1, <1>2, <1>3, <1>4, <1>5, Zenon DEF Next, ServeStep

\* How a step moves the pipeline while the connection is served.
NoMove == UNCHANGED <<outq, inq, got, reqs>>
          /\ (cur' = cur \/ (cur.id = 0 /\ cur' = NoPkt))
SendsOther == \E p \in OutPkt : /\ p.id = 0 /\ outq' = Append(outq, p)
                                /\ UNCHANGED <<inq, cur, got, reqs>>
Takes == /\ cur = NoPkt /\ inq # << >> /\ cur' = Head(inq) /\ inq' = Tail(inq)
         /\ UNCHANGED <<outq, got, reqs>>
Replies == \E p \in OutPkt : /\ p.id = cur.id /\ outq' = Append(outq, p)
                             /\ cur' = NoPkt /\ UNCHANGED <<inq, got, reqs>>
Leaves == /\ outq # << >> /\ outq' = Tail(outq)
          /\ got' = (IF Head(outq).id # 0 THEN Head(outq).id ELSE got)
          /\ UNCHANGED <<inq, cur, reqs>>
Enters == \E p \in InPkt : /\ inq' = Append(inq, p)
                           /\ \/ p.id = 0 /\ reqs' = reqs
                              \/ p.id = reqs + 1 /\ reqs' = reqs + 1
                           /\ UNCHANGED <<outq, cur, got>>

LEMMA SendMoves ==
  ASSUME TypeOK, NEW op \in Ops, NEW id \in Nat, peerOpen,
         SendPktOK(op, id) \/ SendPktFails(op)
  PROVE  outq' = outq \/ \E p \in OutPkt : p.id = id /\ outq' = Append(outq, p)
<1>1. Pkt(op, id) \in OutPkt /\ Pkt(op, id).id = id
  BY PktType DEF Pkt
<1>2. QED
  BY <1>1 DEF SendPktOK, SendPktFails

LEMMA PipeMoves ==
  ASSUME TypeOK, Unnumbered, [Next]_vars, spc' \in InLoop, peerOpen'
  PROVE  /\ spc \in InLoop /\ peerOpen
         /\ NoMove \/ SendsOther \/ Takes \/ Replies \/ Leaves \/ Enters
<1>1. CASE ServePollEmpty \/ ServeTimeout \/ ServeHandle
  BY <1>1 DEF ServePollEmpty, ServeTimeout, ServeHandle, InLoop, NoMove, netVars,
       peerVars
<1>2. CASE ServeRead
  <2>1. cur = NoPkt
    BY <1>2 DEF ServeRead, TypeOK
  <2>2. QED
    BY <1>2, <2>1 DEF ServeRead, InLoop, Takes, peerVars
<1>3. CASE FinishActiveResp \/ FinishSilent
  <2>1. cur.tag \in Responses /\ cur # NoPkt /\ spc = "finish"
    BY <1>3, AnswerTags DEF FinishActiveResp, FinishSilent, TypeOK
  <2>2. cur.id = 0
    BY <2>1 DEF Unnumbered, Incoming
  <2>3. QED
    BY <1>3, <2>1, <2>2 DEF FinishActiveResp, FinishSilent, AfterFinish, InLoop,
         NoMove, netVars, peerVars
<1>4. CASE FinishReply
  <2>1. /\ spc = "finish" /\ cur.tag \in Requests /\ cur' = NoPkt
        /\ SendPktOK(RespOf(cur.tag), cur.id)
        /\ UNCHANGED <<inq, peerOpen, got, reqs>>
    BY <1>4 DEF FinishReply, AfterFinish, peerVars
  <2>2. cur.id \in Nat /\ RespOf(cur.tag) \in Ops
    BY <2>1, RespOfType DEF TypeOK, InPkt
  <2>3. Pkt(RespOf(cur.tag), cur.id) \in OutPkt
        /\ Pkt(RespOf(cur.tag), cur.id).id = cur.id
    BY <2>2, PktType DEF Pkt
  <2>4. outq' = Append(outq, Pkt(RespOf(cur.tag), cur.id))
    BY <2>1 DEF SendPktOK
  <2>5. Replies
    BY <2>1, <2>3, <2>4 DEF Replies
  <2>6. QED
    BY <2>1, <2>5 DEF InLoop
<1>5. CASE \/ ServeTakesExceed \/ ServeReadErr \/ ServePanic \/ FinishReplyFails
           \/ ServeExit \/ ServeCloseDone \/ ServeCloseSock
  BY <1>5 DEF ServeTakesExceed, ServeReadErr, ServePanic, FinishReplyFails,
       ServeExit, ServeCloseDone, ServeCloseSock, InLoop
<1>6. CASE TesterDone \/ TesterTick \/ TesterGivesUp \/ TesterProceeds \/ TesterCount
           \/ PeerMute \/ PeerClose \/ Terminated \/ UNCHANGED vars
  BY <1>6 DEF TesterDone, TesterTick, TesterGivesUp, TesterProceeds, TesterCount,
       PeerMute, PeerClose, Terminated, vars, NoMove, srvVars, netVars, peerVars
<1>7. CASE TesterSend \/ MockDeliver
  <2>1. \E op \in {"ActiveTestReq", "DeliverReq"} :
          SendPktOK(op, 0) \/ SendPktFails(op)
    BY <1>7 DEF TesterSend, MockDeliver
  <2>2. UNCHANGED <<spc, peerOpen, inq, cur, got, reqs>>
    BY <1>7 DEF TesterSend, MockDeliver, srvVars, peerVars
  <2>3. {"ActiveTestReq", "DeliverReq"} \subseteq Ops
    BY DEF Ops
  <2>4. outq' = outq \/ \E p \in OutPkt : p.id = 0 /\ outq' = Append(outq, p)
    BY <2>1, <2>2, <2>3, SendMoves
  <2>5. NoMove \/ SendsOther
    BY <2>2, <2>4 DEF NoMove, SendsOther
  <2>6. QED
    BY <2>2, <2>5
<1>8. CASE \E tag \in PeerTags : PeerSend(tag)
  <2>1. PICK tag \in PeerTags : PeerSend(tag)
    BY <1>8
  <2>2. [tag |-> tag, id |-> reqs + 1] \in InPkt
    BY AnswerTags DEF InPkt, TypeOK
  <2>3. Enters
    BY <2>1, <2>2 DEF PeerSend, Enters, srvVars
  <2>4. QED
    BY <2>1, <2>3 DEF PeerSend, srvVars
<1>9. CASE PeerUnasked \/ \E t \in DOMAIN owed : PeerAnswer(t)
  <2>1. PICK tag \in Responses : inq' = Append(inq, [tag |-> tag, id |-> 0])
    BY <1>9, AnswerTags DEF PeerUnasked, PeerAnswer, TypeOK
  <2>2. UNCHANGED <<spc, peerOpen, outq, cur, got, reqs>>
    BY <1>9 DEF PeerUnasked, PeerAnswer, srvVars
  <2>3. [tag |-> tag, id |-> 0] \in InPkt
    BY AnswerTags DEF InPkt
  <2>4. Enters
    BY <2>1, <2>2, <2>3 DEF Enters
  <2>5. QED
    BY <2>2, <2>4
<1>10. CASE PeerRecv
  BY <1>10 DEF PeerRecv, Leaves, srvVars
<1>11. QED
  BY <1>1, <1>2, <1>3, <1>4, <1>5, <1>6, <1>7, <1>8, <1>9, <1>10, Zenon
  DEF Next, ServeStep, Finish, TesterStep, PeerStep

\* The ids are numbers, and a packet in service has one or none.
LEMMA PipeTypes ==
  ASSUME TypeOK, NEW a \in Nat
  PROVE  /\ outq \in Seq(OutPkt) /\ inq \in Seq(InPkt)
         /\ got \in Nat /\ reqs \in Nat /\ cur.id \in Nat
         /\ Served(a) \in Nat
BY DEF TypeOK, Served, InPkt, NoPkt

LEMMA PipeStep == TypeOK /\ Unnumbered /\ Pipe /\ [Next]_vars => Pipe'
<1> SUFFICES ASSUME TypeOK, Unnumbered, Pipe, [Next]_vars, spc' \in InLoop, peerOpen'
             PROVE  \E b \in Nat : PipeAt(b)'
  BY DEF Pipe
<1>1. /\ spc \in InLoop /\ peerOpen
      /\ NoMove \/ SendsOther \/ Takes \/ Replies \/ Leaves \/ Enters
  BY PipeMoves
<1>2. PICK a \in Nat : PipeAt(a)
  BY <1>1 DEF Pipe
<1>3. /\ outq \in Seq(OutPkt) /\ inq \in Seq(InPkt) /\ got \in Nat /\ reqs \in Nat
      /\ cur.id \in Nat /\ Served(a) \in Nat
  BY PipeTypes
<1>4. /\ Run(outq, got, a) /\ Run(inq, Served(a), reqs)
      /\ cur.id # 0 => cur.id = a + 1
  BY <1>2 DEF PipeAt
<1>5. HasIds(InPkt) /\ HasIds(OutPkt) /\ NoPkt.id = 0
  BY PacketIds
<1>6. CASE NoMove
  <2>1. PipeAt(a)'
    BY <1>4, <1>5, <1>6 DEF NoMove, PipeAt, Served
  <2>2. QED
    BY <2>1
<1>7. CASE SendsOther
  <2>1. PICK p \in OutPkt : /\ p.id = 0 /\ outq' = Append(outq, p)
                            /\ UNCHANGED <<inq, cur, got, reqs>>
    BY <1>7 DEF SendsOther
  <2>2. Run(outq', got, a)
    BY <1>3, <1>4, <1>5, <2>1, RunAppend
  <2>3. PipeAt(a)'
    BY <1>4, <2>1, <2>2 DEF PipeAt, Served
  <2>4. QED
    BY <2>3
<1>8. CASE Takes
  <2>1. /\ cur.id = 0 /\ inq # << >> /\ cur' = Head(inq) /\ inq' = Tail(inq)
        /\ UNCHANGED <<outq, got, reqs>> /\ Served(a) = a
    BY <1>5, <1>8 DEF Takes, Served
  <2>2. /\ Head(inq).id = 0 => Run(Tail(inq), a, reqs)
        /\ Head(inq).id # 0 => Head(inq).id = a + 1 /\ Run(Tail(inq), a + 1, reqs)
    BY <1>3, <1>4, <1>5, <2>1, RunTail
  <2>3. PipeAt(a)'
    BY <1>4, <2>1, <2>2 DEF PipeAt, Served
  <2>4. QED
    BY <2>3
<1>9. CASE Replies
  <2>1. PICK p \in OutPkt : /\ p.id = cur.id /\ outq' = Append(outq, p)
                            /\ cur' = NoPkt /\ UNCHANGED <<inq, got, reqs>>
    BY <1>9 DEF Replies
  <2>2. Run(outq', got, Served(a))
    <3>1. CASE cur.id = 0
      BY <1>3, <1>4, <1>5, <2>1, <3>1, RunAppend DEF Served
    <3>2. CASE cur.id # 0
      BY <1>3, <1>4, <1>5, <2>1, <3>2, RunAppend DEF Served
    <3>3. QED
      BY <3>1, <3>2
  <2>3. PICK b \in Nat : b = Served(a)
    BY <1>3
  <2>4. cur'.id = 0 /\ Run(outq', got', b) /\ Run(inq', b, reqs')
    BY <1>4, <1>5, <2>1, <2>2, <2>3
  <2>5. PipeAt(b)'
    BY <2>4 DEF PipeAt, Served
  <2>6. QED
    BY <2>5
<1>10. CASE Leaves
  <2>1. /\ outq # << >> /\ outq' = Tail(outq)
        /\ got' = (IF Head(outq).id # 0 THEN Head(outq).id ELSE got)
        /\ UNCHANGED <<inq, cur, reqs>>
    BY <1>10 DEF Leaves
  <2>2. /\ Head(outq).id = 0 => Run(Tail(outq), got, a)
        /\ Head(outq).id # 0 => Head(outq).id = got + 1 /\ Run(Tail(outq), got + 1, a)
    BY <1>3, <1>4, <1>5, <2>1, RunTail
  <2>3. PipeAt(a)'
    BY <1>4, <2>1, <2>2 DEF PipeAt, Served
  <2>4. QED
    BY <2>3
<1>11. CASE Enters
  <2>1. PICK p \in InPkt : /\ inq' = Append(inq, p)
                           /\ \/ p.id = 0 /\ reqs' = reqs
                              \/ p.id = reqs + 1 /\ reqs' = reqs + 1
                           /\ UNCHANGED <<outq, cur, got>>
    BY <1>11 DEF Enters
  <2>2. Run(inq', Served(a), reqs')
    BY <1>3, <1>4, <1>5, <2>1, RunAppend
  <2>3. PipeAt(a)'
    BY <1>4, <2>1, <2>2 DEF PipeAt, Served
  <2>4. QED
    BY <2>3
<1>12. QED
  BY <1>1, <1>6, <1>7, <1>8, <1>9, <1>10, <1>11

LEMMA PipeInit == Init => Unnumbered /\ Pipe
<1> SUFFICES ASSUME Init PROVE Unnumbered /\ Pipe
  OBVIOUS
<1>1. /\ inq = << >> /\ outq = << >> /\ cur = NoPkt /\ cur.id = 0 /\ got = 0 /\ reqs = 0
  BY DEF Init, NoPkt
<1>2. Unnumbered
  BY <1>1 DEF Unnumbered
<1>3. Run(<< >>, 0, 0)
  BY RunEmpty
<1>4. PipeAt(0)
  BY <1>1, <1>3 DEF PipeAt, Served
<1>5. QED
  BY <1>2, <1>4 DEF Pipe

\* The three runs of the invariant are one run of the whole line.
LEMMA PipeJoins == TypeOK /\ Pipe => PipelineIntact
<1> SUFFICES ASSUME TypeOK, Pipe, spc \in InLoop, peerOpen
             PROVE  Run(outq \o <<cur>> \o inq, got, reqs)
  BY DEF PipelineIntact
<1>1. PICK a \in Nat : PipeAt(a)
  BY DEF Pipe
<1> DEFINE U == InPkt \cup OutPkt \cup {NoPkt}
<1>2. HasIds(U) /\ outq \in Seq(U) /\ inq \in Seq(U) /\ cur \in U
  BY PacketIds DEF TypeOK
<1>3. got \in Nat /\ reqs \in Nat /\ Served(a) \in Nat
  BY PipeTypes
<1>4. Run(outq, got, a) /\ Run(inq, Served(a), reqs)
  BY <1>1 DEF PipeAt
<1>5. Run(Append(outq, cur), got, Served(a))
  <2>1. cur.id = 0 \/ cur.id = a + 1
    BY <1>1 DEF PipeAt
  <2> HIDE DEF U
  <2>2. /\ cur.id = 0 => Run(Append(outq, cur), got, a)
        /\ cur.id = a + 1 => Run(Append(outq, cur), got, a + 1)
    BY <1>2, <1>3, <1>4, RunAppend
  <2>3. QED
    BY <2>1, <2>2 DEF Served
<1> HIDE DEF U
<1>6. Append(outq, cur) \in Seq(U) /\ outq \o <<cur>> = Append(outq, cur)
  BY <1>2
<1>7. QED
  BY <1>2, <1>3, <1>4, <1>5, <1>6, RunJoin

\* Responses leave in the order of the requests, none skipped and none sent
\* twice, for every bound on the requests and every capacity of the buffers
\* (server.go: serve, readPacket, finishPacket).
THEOREM PipelineKept == Spec => []PipelineIntact
<1> DEFINE PInv == TypeOK /\ Unnumbered /\ Pipe
<1>1. Init => PInv
  BY TypeInit, PipeInit
<1>2. PInv /\ [Next]_vars => PInv'
  BY TypeStep, UnnumberedStep, PipeStep
<1>3. PInv => PipelineIntact
  BY PipeJoins
<1> HIDE DEF PInv
<1>4. QED
  BY <1>1, <1>2, <1>3, PTL DEF Spec
=============================================================================
