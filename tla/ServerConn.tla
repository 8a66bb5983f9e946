----------------------------- MODULE ServerConn -----------------------------
(***************************************************************************)
(* One connection of the SMGP server (src/server/server.go): the goroutine *)
(* of serve, the active-test goroutine of startActiveTest, the goroutines  *)
(* a submit handler leaves behind to deliver status reports                *)
(* (src/examples/server/main.go), and the peer at the other end.           *)
(*                                                                         *)
(* A program counter per goroutine stops at every point where another      *)
(* goroutine or the peer can be seen or can see it: channel operations,    *)
(* atomic accesses of the counter, reads and writes of the socket.         *)
(* Drawing a sequence number never blocks (module Conn) and is part of the *)
(* send that uses it.  Time is abstracted: a tick, a timeout or a timer    *)
(* may fire whenever the code waits for it.                                *)
(***************************************************************************)
EXTENDS Integers, Sequences, FiniteSets

CONSTANTS
  N,          \* Server.N: unanswered tests that end the connection
  OutCap,     \* packets the two kernels buffer from server to peer
  InCap,      \* packets the two kernels buffer from peer to server
  MaxReq,     \* bound: packets the peer originates
  MaxUnasked, \* bound: answers the peer sends unasked
  PeerTags    \* the packets the peer originates

\* Packets for which readPacket prepares a response.
Requests == {"LoginReq", "SubmitReq", "DeliverReq", "ActiveTestReq",
             "ExitReq", "QueryReq"}
\* Packets readPacket hands to the handler without preparing a response.
Responses == {"ActiveTestResp", "DeliverResp", "ExitResp", "QueryResp"}
\* "Bad" is any packet readPacket refuses: a frame that fails the length or
\* request-id check, a body that never comes or that Unpack refuses (with an
\* error or a panic), a login of another version, a SubmitResp or LoginResp.
Tags == Requests \cup Responses \cup {"Bad"}
\* What the server sends: replies, its tests, its exit and its deliveries.
Ops == {"LoginResp", "SubmitResp", "DeliverResp", "ActiveTestResp",
        "ExitResp", "QueryResp", "ActiveTestReq", "ExitReq", "DeliverReq"}

ASSUME ServerConnAssumption ==
  /\ N \in Nat \ {0}
  /\ OutCap \in Nat \ {0}
  /\ InCap \in Nat \ {0}
  /\ MaxReq \in Nat /\ MaxUnasked \in Nat
  /\ PeerTags \subseteq Requests \cup {"Bad"}

VARIABLES
  spc,        \* where serve is
  cur,        \* the packet serve is working on
  herr,       \* whether the handler returned an error for cur
  tpc,        \* where the active-test goroutine is
  counter,    \* conn.counter
  done,       \* conn.done is closed
  sock,       \* the server's side of the socket: "open" or "closed"
  pending,    \* delivery goroutines started and not finished
  inq,        \* packets under way from peer to server
  outq,       \* packets under way from server to peer
  peerOpen,   \* the peer has not closed its side
  mute,       \* the peer has stopped answering
  owed,       \* what the peer has read and not answered, by tag
  lost,       \* tests nobody will ever take off the counter
  exitSent,   \* close() got its exit request out
  reqs,       \* packets the peer has originated; the last one's id
  got,        \* id of the last reply the peer has read
  unasked     \* answers to no test that the peer has sent

srvVars  == <<spc, cur, herr>>
tstVars  == <<tpc, counter>>
lifeVars == <<done, sock, pending, exitSent>>
netVars  == <<inq, outq, lost>>
peerVars == <<peerOpen, mute, owed, reqs, got, unasked>>
vars == <<srvVars, tstVars, lifeVars, netVars, peerVars>>

InLoop  == {"poll", "read", "handle", "finish"}
Closing == {"exit", "closedone", "closesock"}
NoPkt   == [tag |-> "none", id |-> 0]
InPkt   == [tag : Tags, id : Nat]

B2N(b) == IF b THEN 1 ELSE 0

\* The request id Pack writes for a packet.  Exit packets are written with
\* the ids of the active-test packets (exit.go).
WireTag(op) == CASE op = "ExitReq"  -> "ActiveTestReq"
                 [] op = "ExitResp" -> "ActiveTestResp"
                 [] OTHER           -> op

OutPkt == {p \in [op : Ops, tag : Ops, id : Nat] : p.tag = WireTag(p.op)}

\* The response readPacket prepares for a request.
RespOf(tag) == CASE tag = "LoginReq"      -> "LoginResp"
                 [] tag = "SubmitReq"     -> "SubmitResp"
                 [] tag = "DeliverReq"    -> "DeliverResp"
                 [] tag = "ActiveTestReq" -> "ActiveTestResp"
                 [] tag = "ExitReq"       -> "ExitResp"
                 [] tag = "QueryReq"      -> "QueryResp"

\* Packets whose Pack returns an error for a string longer than its field.
PackMayFail == {"QueryResp", "DeliverReq"}

Pkt(op, id) == [op |-> op, tag |-> WireTag(op), id |-> id]

-----------------------------------------------------------------------------
Init ==
  /\ spc = "poll" /\ cur = NoPkt /\ herr = FALSE
  /\ tpc = "select" /\ counter = 0
  /\ done = FALSE /\ sock = "open" /\ pending = 0
  /\ inq = <<>> /\ outq = <<>>
  /\ peerOpen = TRUE /\ mute = FALSE
  /\ owed = [t \in {"ActiveTestReq", "DeliverReq"} |-> 0]
  /\ lost = 0 /\ exitSent = FALSE
  /\ reqs = 0 /\ got = 0 /\ unasked = 0

\* SendPkt returns nil: the packet is in the buffers, or the kernel took it
\* for a peer that has gone.  With a live peer and full buffers Write blocks.
SendPktOK(op, id) ==
  /\ sock = "open"
  /\ \/ /\ peerOpen
        /\ Len(outq) < OutCap
        /\ outq' = Append(outq, Pkt(op, id))
        /\ UNCHANGED lost
     \/ /\ ~peerOpen
        /\ lost' = lost + B2N(WireTag(op) = "ActiveTestReq")
        /\ UNCHANGED outq

\* SendPkt returns an error: Conn.Close has run, the peer has gone, or Pack
\* refuses the packet.
SendPktFails(op) ==
  /\ sock = "closed" \/ ~peerOpen \/ op \in PackMayFail
  /\ UNCHANGED <<outq, lost>>

-----------------------------------------------------------------------------
\* serve

\* The actions named ..._faulty are not part of Next.  Each is the action that
\* follows it with one plausible programming error, kept to show that a
\* property of this module tells the two apart.

\* The loop goes on after the alarm.
ServeTakesExceed_faulty ==
  /\ spc = "poll" /\ tpc = "exceed"
  /\ tpc' = "select"
  /\ UNCHANGED <<srvVars, counter, lifeVars, netVars, peerVars>>

\* select { case <-c.exceed: return; default: }
ServeTakesExceed ==
  /\ spc = "poll" /\ tpc = "exceed"
  /\ spc' = "exit"
  /\ tpc' = "select"
  /\ UNCHANGED <<cur, herr, counter, lifeVars, netVars, peerVars>>

ServePollEmpty ==
  /\ spc = "poll" /\ tpc # "exceed"
  /\ spc' = "read"
  /\ UNCHANGED <<cur, herr, tstVars, lifeVars, netVars, peerVars>>

\* The read deadline of two seconds has passed: continue.  It is looked at
\* before the socket is, so it may pass although a packet has arrived.
ServeTimeout ==
  /\ spc = "read"
  /\ spc' = "poll"
  /\ UNCHANGED <<cur, herr, tstVars, lifeVars, netVars, peerVars>>

\* readPacket returns any other error: break.
ServeReadErr ==
  /\ spc = "read"
  /\ spc' = "exit"
  /\ \/ ~peerOpen /\ UNCHANGED inq
     \/ /\ inq # <<>> /\ Head(inq).tag = "Bad"
        /\ inq' = Tail(inq)
  /\ UNCHANGED <<cur, herr, tstVars, lifeVars, outq, lost, peerVars>>

ServeRead ==
  /\ spc = "read" /\ inq # <<>> /\ Head(inq).tag # "Bad"
  /\ cur' = Head(inq)
  /\ inq' = Tail(inq)
  /\ spc' = "handle"
  /\ UNCHANGED <<herr, tstVars, lifeVars, outq, lost, peerVars>>

\* A handler's error ends the connection at once.
ServeHandle_faulty ==
  /\ spc = "handle"
  /\ herr' \in BOOLEAN
  /\ pending' = pending + B2N(~herr' /\ cur.tag = "SubmitReq")
  /\ spc' = IF herr' THEN "exit" ELSE "finish"
  /\ UNCHANGED <<cur, tstVars, done, sock, exitSent, netVars, peerVars>>

\* The handlers return; the one for submits leaves a delivery goroutine.
ServeHandle ==
  /\ spc = "handle"
  /\ herr' \in BOOLEAN
  /\ pending' = pending + B2N(~herr' /\ cur.tag = "SubmitReq")
  /\ spc' = "finish"
  /\ UNCHANGED <<cur, tstVars, done, sock, exitSent, netVars, peerVars>>

\* A handler panics: the deferred close runs, finishPacket does not.
ServePanic ==
  /\ spc = "handle"
  /\ lost' = lost + B2N(cur.tag = "ActiveTestResp")
  /\ cur' = NoPkt
  /\ spc' = "exit"
  /\ UNCHANGED <<herr, tstVars, lifeVars, inq, outq, peerVars>>

\* The finished packet is not dropped.
AfterFinish_faulty ==
  /\ spc' = IF herr THEN "exit" ELSE "poll"
  /\ herr' = FALSE
  /\ UNCHANGED cur

\* Where serve goes after finishPacket returned nil.
AfterFinish ==
  /\ spc' = IF herr THEN "exit" ELSE "poll"
  /\ cur' = NoPkt
  /\ herr' = FALSE

\* finishPacket of an ActiveTestResp: one test less is unanswered.
FinishActiveResp ==
  /\ spc = "finish" /\ cur.tag = "ActiveTestResp"
  /\ counter' = counter - 1
  /\ AfterFinish
  /\ UNCHANGED <<tpc, lifeVars, netVars, peerVars>>

\* A request is finished without sending its response.
FinishSilent_faulty ==
  /\ spc = "finish" /\ cur.tag # "ActiveTestResp"
  /\ AfterFinish
  /\ UNCHANGED <<tstVars, lifeVars, netVars, peerVars>>

\* finishPacket of another packet without a response.
FinishSilent ==
  /\ spc = "finish" /\ cur.tag \in Responses \ {"ActiveTestResp"}
  /\ AfterFinish
  /\ UNCHANGED <<tstVars, lifeVars, netVars, peerVars>>

FinishReply ==
  /\ spc = "finish" /\ cur.tag \in Requests
  /\ SendPktOK(RespOf(cur.tag), cur.id)
  /\ AfterFinish
  /\ UNCHANGED <<tstVars, lifeVars, inq, peerVars>>

FinishReplyFails ==
  /\ spc = "finish" /\ cur.tag \in Requests
  /\ SendPktFails(RespOf(cur.tag))
  /\ spc' = "exit" /\ cur' = NoPkt /\ herr' = FALSE
  /\ UNCHANGED <<tstVars, lifeVars, inq, peerVars>>

\* close(): the exit request, then close(c.done), then Conn.Close.
ServeExit ==
  /\ spc = "exit"
  /\ \/ SendPktOK("ExitReq", 0) /\ exitSent' = TRUE
     \/ SendPktFails("ExitReq") /\ UNCHANGED exitSent
  /\ spc' = "closedone"
  /\ UNCHANGED <<cur, herr, tstVars, done, sock, pending, inq, peerVars>>

ServeCloseDone ==
  /\ spc = "closedone"
  /\ done' = TRUE
  /\ spc' = "closesock"
  /\ UNCHANGED <<cur, herr, tstVars, sock, pending, exitSent, netVars,
                 peerVars>>

ServeCloseSock ==
  /\ spc = "closesock"
  /\ sock' = "closed"
  /\ spc' = "closed"
  /\ UNCHANGED <<cur, herr, tstVars, done, pending, exitSent, netVars,
                 peerVars>>

Finish == FinishActiveResp \/ FinishSilent \/ FinishReply \/ FinishReplyFails
ServeStep ==
  \/ ServeTakesExceed \/ ServePollEmpty
  \/ ServeTimeout \/ ServeReadErr \/ ServeRead
  \/ ServeHandle \/ ServePanic \/ Finish
  \/ ServeExit \/ ServeCloseDone \/ ServeCloseSock

-----------------------------------------------------------------------------
\* The active-test goroutine

\* break instead of return: it leaves the select, not the loop.
TesterDone_faulty ==
  /\ tpc = "select" /\ done
  /\ UNCHANGED vars

\* select { case <-done: return
TesterDone ==
  /\ tpc = "select" /\ done
  /\ tpc' = "stopped"
  /\ UNCHANGED <<srvVars, counter, lifeVars, netVars, peerVars>>

\*          case <-t.C: ... }
TesterTick ==
  /\ tpc = "select"
  /\ tpc' = "check"
  /\ UNCHANGED <<srvVars, counter, lifeVars, netVars, peerVars>>

\* The alarm comes one test late.
TesterProceeds_faulty ==
  /\ tpc = "check" /\ counter <= N
  /\ tpc' = "send"
  /\ UNCHANGED <<srvVars, counter, lifeVars, netVars, peerVars>>

\* counter >= n: it blocks on c.exceed until serve polls it.
TesterGivesUp ==
  /\ tpc = "check" /\ counter >= N
  /\ tpc' = "exceed"
  /\ UNCHANGED <<srvVars, counter, lifeVars, netVars, peerVars>>

TesterProceeds ==
  /\ tpc = "check" /\ counter < N
  /\ tpc' = "send"
  /\ UNCHANGED <<srvVars, counter, lifeVars, netVars, peerVars>>

\* A test whose Write failed is counted too.
TesterSend_faulty ==
  /\ tpc = "send"
  /\ SendPktOK("ActiveTestReq", 0) \/ SendPktFails("ActiveTestReq")
  /\ tpc' = "count"
  /\ UNCHANGED <<srvVars, counter, lifeVars, inq, peerVars>>

\* Only after Write has returned is the test counted, in a step of its own.
TesterSend ==
  /\ tpc = "send"
  /\ \/ SendPktOK("ActiveTestReq", 0) /\ tpc' = "count"
     \/ SendPktFails("ActiveTestReq") /\ tpc' = "select"
  /\ UNCHANGED <<srvVars, counter, lifeVars, inq, peerVars>>

TesterCount ==
  /\ tpc = "count"
  /\ counter' = counter + 1
  /\ tpc' = "select"
  /\ UNCHANGED <<srvVars, lifeVars, netVars, peerVars>>

TesterStep == TesterDone \/ TesterTick \/ TesterGivesUp \/ TesterProceeds
              \/ TesterSend \/ TesterCount

-----------------------------------------------------------------------------
\* A delivery goroutine's timer fires: it sends its report and ends, or ends
\* on the error.
MockDeliver ==
  /\ pending > 0
  /\ SendPktOK("DeliverReq", 0) \/ SendPktFails("DeliverReq")
  /\ pending' = pending - 1
  /\ UNCHANGED <<srvVars, tstVars, done, sock, exitSent, inq, peerVars>>

-----------------------------------------------------------------------------
\* The peer: any SMGP endpoint, one that answers more than it was asked too.

PeerSend(tag) ==
  /\ peerOpen /\ reqs < MaxReq /\ Len(inq) < InCap
  /\ inq' = Append(inq, [tag |-> tag, id |-> reqs + 1])
  /\ reqs' = reqs + 1
  /\ UNCHANGED <<srvVars, tstVars, lifeVars, outq, lost, peerOpen, mute, owed,
                 got, unasked>>

PeerRecv ==
  /\ peerOpen /\ outq # <<>>
  /\ outq' = Tail(outq)
  /\ LET p == Head(outq)
     IN /\ owed' = [t \in DOMAIN owed |-> owed[t] + B2N(p.tag = t)]
        /\ got' = IF p.id # 0 THEN p.id ELSE got
  /\ UNCHANGED <<srvVars, tstVars, lifeVars, inq, lost, peerOpen, mute, reqs,
                 unasked>>

PeerAnswer(t) ==
  /\ peerOpen /\ ~mute /\ owed[t] > 0 /\ Len(inq) < InCap
  /\ inq' = Append(inq, [tag |-> RespOf(t), id |-> 0])
  /\ owed' = [owed EXCEPT ![t] = @ - 1]
  /\ UNCHANGED <<srvVars, tstVars, lifeVars, outq, lost, peerOpen, mute, reqs,
                 got, unasked>>

\* An answer to a test that was never sent, or a second answer to one that was:
\* finishPacket does not tell it from the others (server.go:258).
PeerUnasked ==
  /\ peerOpen /\ ~mute /\ unasked < MaxUnasked /\ Len(inq) < InCap
  /\ inq' = Append(inq, [tag |-> "ActiveTestResp", id |-> 0])
  /\ unasked' = unasked + 1
  /\ UNCHANGED <<srvVars, tstVars, lifeVars, outq, lost, peerOpen, mute, owed,
                 reqs, got>>

PeerMute ==
  /\ ~mute
  /\ mute' = TRUE
  /\ UNCHANGED <<srvVars, tstVars, lifeVars, netVars, peerOpen, owed, reqs,
                 got, unasked>>

PeerClose ==
  /\ peerOpen
  /\ peerOpen' = FALSE
  /\ UNCHANGED <<srvVars, tstVars, lifeVars, netVars, mute, owed, reqs, got,
                 unasked>>

PeerStep ==
  \/ \E tag \in PeerTags : PeerSend(tag)
  \/ PeerRecv
  \/ \E t \in DOMAIN owed : PeerAnswer(t)
  \/ PeerUnasked \/ PeerMute \/ PeerClose

\* The connection is over: serve has returned and the tester has returned or
\* waits for ever on c.exceed.
Terminated ==
  /\ spc = "closed" /\ tpc \in {"stopped", "exceed"} /\ pending = 0
  /\ UNCHANGED vars

Next == ServeStep \/ TesterStep \/ MockDeliver \/ PeerStep \/ Terminated

Spec == Init /\ [][Next]_vars

-----------------------------------------------------------------------------
\* Fairness.  The runtime schedules every goroutine; handlers return; a
\* blocked Write is first in line for the descriptor; a select with a closed
\* channel does not pass it over for ever, nor does the deadline of a read
\* always pass before a packet that is there is read.  Nothing is asked of the
\* peer, which may stop reading, sending or answering.
Fairness ==
  /\ WF_vars(ServeStep)
  /\ SF_vars(ServeReadErr \/ ServeRead)
  /\ SF_vars(Finish) /\ SF_vars(ServeExit)
  /\ WF_vars(TesterTick \/ TesterGivesUp \/ TesterProceeds \/ TesterCount)
  /\ SF_vars(TesterSend) /\ SF_vars(TesterDone)
  /\ SF_vars(MockDeliver)

LiveSpec == Spec /\ Fairness

-----------------------------------------------------------------------------
\* Properties

TypeOK ==
  /\ spc \in InLoop \cup Closing \cup {"closed"}
  /\ cur \in InPkt \cup {NoPkt}
  /\ (spc \in {"handle", "finish"}) <=> (cur # NoPkt)
  /\ herr \in BOOLEAN /\ done \in BOOLEAN /\ exitSent \in BOOLEAN
  /\ tpc \in {"select", "check", "exceed", "send", "count", "stopped"}
  /\ counter \in Int
  /\ sock \in {"open", "closed"}
  /\ pending \in Nat /\ lost \in Nat
  /\ inq \in Seq(InPkt) /\ outq \in Seq(OutPkt)
  /\ peerOpen \in BOOLEAN /\ mute \in BOOLEAN
  /\ owed \in [{"ActiveTestReq", "DeliverReq"} -> Nat]
  /\ reqs \in Nat /\ got \in Nat /\ unasked \in Nat

Tagged(s, tag) == {i \in 1..Len(s) : s[i].tag = tag}
HowMany(s, tag) == Cardinality(Tagged(s, tag))

\* Every test that went out is in exactly one place: on its way to the peer,
\* with the peer, on its way back as an answer, in serve's hands, or lost for
\* good; and the counter of server.go, read together with the increment still
\* to come (294 runs after the Write of 290), the exit request (a test on the
\* wire, exit.go:26) and the answers nobody asked for (259 takes each of them
\* off as well), says how many those are.
TestsConserved ==
  counter + B2N(tpc = "count") + B2N(exitSent) + unasked
    = HowMany(outq, "ActiveTestReq") + owed["ActiveTestReq"] + lost
      + HowMany(inq, "ActiveTestResp") + B2N(cur.tag = "ActiveTestResp")

\* The counter never passes N, although the test of server.go:283 and the
\* increment of 294 are steps apart; it falls below zero by one in the window
\* between a Write and its increment, and by one for every answer the peer
\* sent unasked, each of which lets one more test go unanswered.
CounterInRange ==
  /\ counter <= N
  /\ counter + B2N(tpc = "count") + unasked >= 0

\* The ids of s are lo + 1 to hi, each once and in order, among packets
\* without one (id 0).
Run(s, lo, hi) ==
  /\ lo <= hi
  /\ {s[i].id : i \in 1..Len(s)} \ {0} = (lo + 1)..hi
  /\ \A i, j \in 1..Len(s) : i < j /\ s[j].id # 0 => s[i].id < s[j].id

\* Responses leave in the order of the requests, none skipped and none sent
\* twice: while the connection is served, the replies under way, the request
\* in service and the requests under way are one run of consecutive ids.
PipelineIntact ==
  spc \in InLoop /\ peerOpen => Run(outq \o <<cur>> \o inq, got, reqs)

\* When the tester logs that no answer came back for N tests (server.go:284)
\* and raises the alarm, at least one test is unanswered by the peer.  It need
\* not be so: answers that have come back and wait behind a handler, a blocked
\* Write or the scheduler are still counted as missing.
AlarmMeansSilence ==
  [][tpc = "check" /\ tpc' = "exceed" =>
       HowMany(outq, "ActiveTestReq") + owed["ActiveTestReq"] + lost > 0]_vars

\* The buffers towards the peer are full for good: the peer has stopped
\* reading.
NeverReadAgain == [](Len(outq) = OutCap)

\* A peer that stops answering tests is dropped, whatever else it goes on
\* sending (startActiveTest and serve).  It keeps the connection in one way
\* only: it has stopped reading too, and a Write without a deadline never
\* returns (connection.go:115).
SilentPeerDropped == mute ~> (sock = "closed" \/ NeverReadAgain)

\* Every request is answered, unless the connection ends first or the peer
\* stops reading.  One whose handler has returned, with an error too, is answered
\* before the connection ends (server.go:327-334): what can prevent it is a peer
\* that has gone, one that does not read, and a response Pack refuses.
Answered(k) == got >= k \/ \E i \in 1..Len(outq) : outq[i].id >= k
Handled(k) == /\ cur.id = k /\ (spc = "finish" \/ herr)
              /\ cur.tag \in Requests /\ RespOf(cur.tag) \notin PackMayFail
RequestsAnswered ==
  \A k \in 1..MaxReq :
    /\ reqs >= k ~> Answered(k) \/ sock = "closed" \/ ~peerOpen \/ NeverReadAgain
    /\ Handled(k) ~> Answered(k) \/ ~peerOpen \/ NeverReadAgain

\* After close(c.done) the active-test goroutine returns or is stuck on
\* c.exceed: it does not go on testing for ever (server.go:280, 286).
TesterWindsDown == done ~> [](tpc \in {"stopped", "exceed"})

\* The connection implements the watchdog of module Watchdog.
Watch == INSTANCE Watchdog WITH
  unanswered <- counter + B2N(tpc = "count"),
  surplus <- unasked,
  alarm <- CASE tpc = "exceed"  -> "raised"
             [] tpc = "stopped" -> "off"
             [] OTHER           -> "quiet",
  link <- CASE spc \in InLoop  -> "up"
            [] spc \in Closing -> "closing"
            [] OTHER            -> "down"
ImplementsWatchdog == Watch!WSpec
=============================================================================
