------------------------------ MODULE RecvPkt -------------------------------
(***************************************************************************)
(* Conn.RecvAndUnpackPkt (src/pkg/connection.go) on a byte stream, called  *)
(* in a loop by the server (serve, always with a deadline, going on after  *)
(* a timeout) or by a client (Connect with a deadline, then the receive    *)
(* loop without one, stopping at any error).                               *)
(*                                                                         *)
(* The stream is cut into units, the pieces in which it can arrive: two    *)
(* for a header, one or none for each part of a body.  A header that is    *)
(* not the header of one packet (units of two packets, or of a body) is    *)
(* read as arbitrary values, which the length and id checks may or may not *)
(* refuse.                                                                 *)
(***************************************************************************)
EXTENDS Integers, Sequences, SequencesExt

CONSTANTS
  Pkts,      \* bound: packets the peer sends
  MaxBody    \* bound: units of a body

ASSUME RecvAssumption == Pkts \in Nat /\ MaxBody \in Nat

VARIABLES
  who,       \* the caller: "serve" or "client"
  coming,    \* units that have not arrived
  eof,       \* the peer has closed its side
  closed,    \* the client has called Disconnect from another goroutine
  buf,       \* units that have arrived and are not read
  rpc,       \* "idle" between two calls, "header", "body", "stopped"
  frame,     \* units read by this call
  need,      \* units of the body this call reads
  timeout,   \* this call was given a timeout
  deadline,  \* a read deadline is set on the socket
  first,     \* the caller has not made its first call
  torn,      \* a timeout threw away part of a header and the caller went on
  delivered  \* packets returned to the caller; 0 is one the peer never sent

vars == <<who, coming, eof, closed, buf, rpc, frame, need, timeout, deadline,
          first, torn, delivered>>
peerVars == <<coming, eof>>
restVars == <<who, closed>>

HeaderLen == 2
Unit(k, part, len) == [pkt |-> k, part |-> part, len |-> len]
HeaderOf(k, len) == <<Unit(k, "h1", len), Unit(k, "h2", len)>>
PacketOf(k, len) == HeaderOf(k, len) \o [j \in 1..len |-> Unit(k, "b", len)]

Init ==
  /\ who \in {"serve", "client"}
  /\ \E len \in [1..Pkts -> 0..MaxBody] :
       coming = FlattenSeq([k \in 1..Pkts |-> PacketOf(k, len[k])])
  /\ eof = FALSE /\ closed = FALSE /\ buf = <<>>
  /\ rpc = "idle" /\ frame = <<>> /\ need = 0
  /\ timeout = FALSE /\ deadline = FALSE /\ first = TRUE
  /\ torn = FALSE /\ delivered = <<>>

-----------------------------------------------------------------------------
\* The network: some more of the stream arrives, or the peer closes.

Arrive ==
  /\ ~eof /\ coming # <<>>
  /\ buf' = Append(buf, Head(coming))
  /\ coming' = Tail(coming)
  /\ UNCHANGED <<restVars, eof, rpc, frame, need, timeout, deadline, first,
                 torn, delivered>>

PeerCloses ==
  /\ ~eof
  /\ eof' = TRUE
  /\ UNCHANGED <<restVars, coming, buf, rpc, frame, need, timeout, deadline,
                 first, torn, delivered>>

\* Client.Disconnect while a receive is under way or between two.
Disconnect ==
  /\ who = "client" /\ ~first /\ ~closed
  /\ closed' = TRUE
  /\ UNCHANGED <<who, peerVars, buf, rpc, frame, need, timeout, deadline,
                 first, torn, delivered>>

-----------------------------------------------------------------------------
\* RecvAndUnpackPkt.  Actions named ..._faulty are not part of Next: each is
\* the definition after it with one plausible programming error.

\* if timeout != 0 { SetReadDeadline }
Call ==
  /\ rpc = "idle"
  /\ timeout' = (who = "serve" \/ first)
  /\ deadline' = (deadline \/ timeout')
  /\ first' = FALSE
  /\ rpc' = "header" /\ frame' = <<>> /\ need' = 0
  /\ UNCHANGED <<restVars, peerVars, buf, torn, delivered>>

\* CallRefused: State says CONNECTION_CLOSED.  The field is not synchronised,
\* so a call may also miss it.
CallRefused ==
  /\ rpc = "idle" /\ closed
  /\ rpc' = "stopped"
  /\ UNCHANGED <<restVars, peerVars, buf, frame, need, timeout, deadline,
                 first, torn, delivered>>

ReadUnit ==
  /\ buf # <<>> /\ ~closed
  /\ frame' = Append(frame, Head(buf))
  /\ buf' = Tail(buf)

ReadHeaderUnit ==
  /\ rpc = "header" /\ Len(frame) < HeaderLen
  /\ ReadUnit
  /\ UNCHANGED <<restVars, peerVars, rpc, need, timeout, deadline, first,
                 torn, delivered>>

\* The deadline is left on the socket.
Return_faulty(to) ==
  /\ rpc' = to
  /\ UNCHANGED deadline

\* The deferred calls: Put, and SetReadDeadline(time.Time{}).
Return(to) ==
  /\ rpc' = to
  /\ deadline' = FALSE

\* Any caller goes on after a timeout.
AfterTimeout_faulty == "idle"

\* A caller gives up on an error; serve goes on after a net.Error timeout.
AfterTimeout == IF who = "serve" THEN "idle" ELSE "stopped"

\* binary.Read returns the timeout of the socket as it is, however much of
\* the header it has consumed.
HeaderTimeout ==
  /\ rpc = "header" /\ deadline /\ ~closed
  /\ Len(frame) < HeaderLen
  /\ Return(AfterTimeout)
  /\ torn' = (torn \/ (frame # <<>> /\ who = "serve"))
  /\ UNCHANGED <<restVars, peerVars, buf, frame, need, timeout, first,
                 delivered>>

Fails ==
  /\ Return("stopped")
  /\ UNCHANGED <<restVars, peerVars, buf, frame, need, timeout, first, torn,
                 delivered>>

\* The peer has closed its side, or a Disconnect this one.
HeaderEnds ==
  /\ rpc = "header" /\ Len(frame) < HeaderLen
  /\ closed \/ (eof /\ buf = <<>>)
  /\ Fails

Aligned == \E k \in 1..Pkts, len \in 0..MaxBody :
             SubSeq(frame, 1, HeaderLen) = HeaderOf(k, len)

\* The deadline is cleared instead of set anew.
ParseHeader_faulty ==
  /\ rpc = "header" /\ Len(frame) = HeaderLen
  /\ need' \in IF Aligned THEN {frame[1].len} ELSE 0..MaxBody
  /\ rpc' = "body"
  /\ deadline' = FALSE
  /\ UNCHANGED <<restVars, peerVars, buf, frame, timeout, first, torn, delivered>>

\* The length and id checks, then the deadline of the body.
ParseHeader ==
  /\ rpc = "header" /\ Len(frame) = HeaderLen
  /\ need' \in IF Aligned THEN {frame[1].len} ELSE 0..MaxBody
  /\ rpc' = "body"
  /\ deadline' = (deadline \/ timeout)
  /\ UNCHANGED <<restVars, peerVars, buf, frame, timeout, first, torn, delivered>>

\* A length out of bounds or an unknown id: of bytes that are no header, or of
\* a packet the peer did send.
RefuseHeader ==
  /\ rpc = "header" /\ Len(frame) = HeaderLen
  /\ Fails

ReadBodyUnit ==
  /\ rpc = "body" /\ Len(frame) < HeaderLen + need
  /\ ReadUnit
  /\ UNCHANGED <<restVars, peerVars, rpc, need, timeout, deadline, first,
                 torn, delivered>>

\* It is handed to the caller like the timeout of a header.
BodyTimeout_faulty ==
  /\ rpc = "body" /\ deadline /\ ~closed
  /\ Len(frame) < HeaderLen + need
  /\ Return(AfterTimeout)
  /\ UNCHANGED <<restVars, peerVars, buf, frame, need, timeout, first, torn,
                 delivered>>

\* ErrReadPktBodyTimeout is no net.Error: it ends serve as well.
BodyTimeout ==
  /\ rpc = "body" /\ deadline /\ ~closed
  /\ Len(frame) < HeaderLen + need
  /\ Fails

BodyEnds ==
  /\ rpc = "body" /\ Len(frame) < HeaderLen + need
  /\ closed \/ (eof /\ buf = <<>>)
  /\ Fails

Deliver ==
  /\ rpc = "body" /\ Len(frame) = HeaderLen + need
  /\ LET k == IF Aligned THEN frame[1].pkt ELSE 0
     IN delivered' = Append(delivered, k)
  /\ Return("idle")
  /\ UNCHANGED <<restVars, peerVars, buf, frame, need, timeout, first, torn>>

\* An id without a case in the switch, or an error of Unpack.
RefuseBody ==
  /\ rpc = "body" /\ Len(frame) = HeaderLen + need
  /\ Fails

Receive ==
  \/ ReadHeaderUnit \/ HeaderTimeout \/ HeaderEnds \/ ParseHeader
  \/ RefuseHeader \/ ReadBodyUnit \/ BodyTimeout \/ BodyEnds
  \/ Deliver \/ RefuseBody

Stopped == rpc = "stopped" /\ UNCHANGED vars

Next == Arrive \/ PeerCloses \/ Disconnect \/ Call \/ CallRefused \/ Receive
        \/ Stopped

\* Reads go on as data or deadlines come; nothing is asked of the peer.
Spec == Init /\ [][Next]_vars /\ WF_vars(Receive)

-----------------------------------------------------------------------------
\* Properties

TypeOK ==
  /\ who \in {"serve", "client"} /\ eof \in BOOLEAN /\ closed \in BOOLEAN
  /\ rpc \in {"idle", "header", "body", "stopped"}
  /\ need \in 0..MaxBody /\ Len(frame) <= HeaderLen + need
  /\ timeout \in BOOLEAN /\ first \in BOOLEAN /\ torn \in BOOLEAN
  /\ deadline \in BOOLEAN /\ (rpc \in {"idle", "stopped"} => ~deadline)
  /\ delivered \in Seq(0..Pkts)

\* The caller gets the packets of the stream, each once and in order, however
\* the stream is cut and whenever deadlines pass (connection.go:153-184).  The
\* one way to lose the framing is a deadline that passes inside a header and a
\* caller that goes on, which only serve does (server.go:321).
FramesIntact == ~torn => \A i \in 1..Len(delivered) : delivered[i] = i

\* A call without a timeout is never ended by the deadline of an earlier call:
\* the client's receive loop follows Connect on the same socket
\* (connection.go:143-150, client.go:55).
NoStaleDeadline == [][HeaderTimeout \/ BodyTimeout => timeout]_vars

\* A call with a timeout returns, whatever the peer sends or holds back.
TimedCallReturns ==
  (rpc \in {"header", "body"} /\ timeout) ~> rpc \in {"idle", "stopped"}

\* To the loop that calls it, RecvAndUnpackPkt is the stream of module Delivery:
\* the next packet each time, until an error ends it or a timeout of serve has
\* cut it (connection.go:138-226, server.go:319-325).
AsDelivery == INSTANCE Delivery WITH
  caller <- who, taken <- delivered,
  stream <- IF rpc = "stopped" THEN "ended" ELSE IF torn THEN "cut"
            ELSE "whole"
ImplementsDelivery == AsDelivery!DSpec
=============================================================================
