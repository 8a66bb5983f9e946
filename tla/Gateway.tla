------------------------------ MODULE Gateway -------------------------------
(***************************************************************************)
(* The example server as a whole: the accept loop (module Listener), and   *)
(* on every connection it serves the handler of submits, which draws a     *)
(* message id (module MsgId) from the connection's own generator, answers, *)
(* and starts a goroutine that delivers a status report per destination    *)
(* (examples/server/main.go:56-123, src/pkg/deliver.go).  A client program *)
(* may hold several connections and compares the ids in the reports with   *)
(* those in the responses.                                                 *)
(***************************************************************************)
EXTENDS Listener, MsgId, FiniteSets

CONSTANTS
  SpIds,       \* numbers of the six-digit SMGW codes in use
  Clock,       \* minutes at which submits may arrive: <<month, day, h, min>>
  Starts,      \* first numbers a generator may pick
  Dests,       \* numbers of destinations of a submit
  MaxSubmits   \* bound: submits handled

ASSUME GatewayAssumption ==
  /\ SpIds \subseteq SixDigits /\ Starts \subseteq 0..(NumMod - 2)
  /\ Clock \subseteq [1..4 -> 0..99]
  /\ Dests \subseteq 0..100 /\ MaxSubmits \in Nat

VARIABLES
  spId,      \* the gateway's code
  start,     \* per connection: where its generator began
  next,      \* per connection: the number its generator offers
  ended,     \* connections that have ended
  deaf,      \* those that are up and whose client has stopped reading
  submits,   \* submits handled: connection, minute, destinations, MsgID
  going,     \* submits whose mockDeliver goroutine runs
  reports    \* per submit: the SubmitMsgIDs of its status reports at the client

conVars == <<spId, start, next, ended, deaf, submits, going, reports>>
vars == <<lisVars, conVars>>

Init ==
  /\ LInit
  /\ spId \in SpIds
  /\ start = [c \in Clients |-> 0] /\ next = [c \in Clients |-> 0]
  /\ ended = {} /\ deaf = {} /\ submits = << >> /\ going = {} /\ reports = << >>

\* The steps of the loop that concern no connection.
Loop == (AcceptTemporary \/ Wake \/ AcceptFatal) /\ UNCHANGED conVars

Connect(c) == Knock(c) /\ UNCHANGED conVars

\* NewConnection gives the accepted connection a generator with a random start.
Accept ==
  /\ AcceptOK
  /\ \E n \in Starts :
       /\ start' = [start EXCEPT ![Head(backlog)] = n]
       /\ next' = [next EXCEPT ![Head(backlog)] = n]
  /\ UNCHANGED <<spId, ended, deaf, submits, going, reports>>

\* The content of a report carries the id's bytes (Encode), and they are read
\* back from their place (DecodeDeliverMsgContent).  The faulty content is cut
\* at a zero byte, as the MsgID in the header is.
Content_faulty(id) ==
  IF \E i \in 1..Len(id) : id[i] = 0
  THEN SubSeq(id, 1, (CHOOSE i \in 1..Len(id) :
                        id[i] = 0 /\ \A j \in 1..(i - 1) : id[j] # 0) - 1)
  ELSE id
Content(id) == id

\* handleSubmit: the submit is given an id, a report for each destination is
\* built, and mockDeliver started.
Submit(c) ==
  /\ c \in served \ ended /\ Len(submits) < MaxSubmits
  /\ \E t \in Clock, d \in Dests :
       submits' = Append(submits, [c |-> c, time |-> t, dests |-> d,
                                   msgID |-> GenMsgID(spId, t, next[c])])
  /\ next' = [next EXCEPT ![c] = Bump(@)]
  /\ going' = going \cup {Len(submits')} /\ reports' = Append(reports, << >>)
  /\ UNCHANGED <<lisVars, spId, start, ended, deaf>>

\* mockDeliver sends the next report of a submit; it returns after the last
\* one, or when SendPkt fails.  Write has no deadline: where the client does not
\* read, the buffers take the report, or Write waits (Fairness).  The faulty
\* goroutine returns at once.
Report(k) ==
  /\ k \in going /\ submits[k].c \notin ended
  /\ Len(reports[k]) < submits[k].dests
  /\ reports' = [reports EXCEPT ![k] = Append(@, Content(submits[k].msgID))]
  /\ UNCHANGED <<lisVars, spId, start, next, ended, deaf, submits, going>>

DeliverReturns_faulty(k) ==
  /\ k \in going
  /\ going' = going \ {k}
  /\ UNCHANGED <<lisVars, spId, start, next, ended, deaf, submits, reports>>
DeliverReturns(k) ==
  /\ k \in going
  /\ Len(reports[k]) = submits[k].dests \/ submits[k].c \in ended
  /\ going' = going \ {k}
  /\ UNCHANGED <<lisVars, spId, start, next, ended, deaf, submits, reports>>

\* A connection ends, whatever the reason.
End(c) ==
  /\ c \in served \ ended
  /\ ended' = ended \cup {c} /\ deaf' = deaf \ {c}
  /\ UNCHANGED <<lisVars, spId, start, next, submits, going, reports>>

\* A client stops reading, for a while or for ever.
StopReading(c) ==
  /\ c \in served \ ended
  /\ deaf' = deaf \cup {c}
  /\ UNCHANGED <<lisVars, spId, start, next, ended, submits, going, reports>>

ReadAgain(c) ==
  /\ c \in deaf
  /\ deaf' = deaf \ {c}
  /\ UNCHANGED <<lisVars, spId, start, next, ended, submits, going, reports>>

\* The accept loop has returned, and with it main: the process exits, with all
\* its goroutines and connections.
Exit ==
  /\ lpc = "returned"
  /\ ended' = served /\ deaf' = {} /\ going' = {}
  /\ UNCHANGED <<lisVars, spId, start, next, submits, reports>>

\* Nothing is left to do, but the loop may have to wait for connections.
Idle == going = {} /\ UNCHANGED vars

Next ==
  \/ Loop \/ Accept \/ Exit \/ Idle
  \/ \E c \in Clients : Connect(c) \/ Submit(c) \/ End(c)
                        \/ StopReading(c) \/ ReadAgain(c)
  \/ \E k \in 1..Len(submits) : Report(k) \/ DeliverReturns(k)

Spec == Init /\ [][Next]_vars

\* Sleeping ends and goroutines run.  A connection that waits while Accept is
\* called again and again is accepted some time: "temporary" errors pass.  A
\* Write ends if the client reads again and again; no client has to.
Sends(k) == k <= Len(submits) /\ submits[k].c \notin deaf /\ Report(k)
Fairness ==
  /\ WF_vars(Wake /\ UNCHANGED conVars) /\ SF_vars(Accept)
  /\ \A k \in 1..MaxSubmits :
       SF_vars(Sends(k)) /\ WF_vars(k <= Len(submits) /\ DeliverReturns(k))
LiveSpec == Spec /\ Fairness

-----------------------------------------------------------------------------
\* Properties

Ids == {id \in Seq(0..255) : Len(id) = 10}
TypeOK ==
  /\ ListenerTypes
  /\ start \in [Clients -> SixDigits]
  /\ next \in [Clients -> SixDigits]
  /\ spId \in SpIds /\ ended \subseteq served
  /\ deaf \subseteq served \ ended
  /\ going \subseteq 1..Len(submits) /\ Len(reports) = Len(submits)
  /\ submits \in Seq([c : served, time : Clock, dests : Dests, msgID : Ids])
  /\ reports \in Seq(Seq(Ids))

\* The number the generator of its connection gave to a submit.
Before(k) == {j \in 1..(k - 1) : submits[j].c = submits[k].c}
Number(k) == (start[submits[k].c] + Cardinality(Before(k))) % NumMod

\* The SubmitMsgID of a status report is the id of the submit it is about and
\* of no other, on any connection, unless two generators that began apart have
\* come to the same number within the same minute; one connection alone cannot
\* repeat an id within a cycle (utils.go:98, connection.go:59-63,
\* deliver.go:25-43).
Clash(j, k) == /\ submits[j].c # submits[k].c
               /\ submits[j].time = submits[k].time /\ Number(j) = Number(k)
ReportFindsItsSubmit ==
  \A k, j \in 1..Len(submits) : \A i \in 1..Len(reports[k]) :
    reports[k][i] = submits[j].msgID <=> j = k \/ Clash(j, k)

\* UnpackMsgId (utils.go:101-109) recovers the fields of every id GenMsgID
\* made: the numbers of the connection from its start on, without a gap.
FieldsRecovered ==
  \A k \in 1..Len(submits) :
    LET f == UnpackMsgId(submits[k].msgID)
    IN f.sp = spId /\ f.time = submits[k].time /\ f.num = Number(k)

\* Every destination of a submit that was handled is reported on, unless its
\* connection ends or its client stops reading for good: then the goroutine
\* stays in Write (examples/server/main.go:101-123, connection.go:115).
NeverReadAgain(k) == <>[](k <= Len(submits) /\ submits[k].c \in deaf)
AllReported ==
  \A k \in 1..MaxSubmits :
    \/ k \in going ~> k <= Len(submits) /\ (Len(reports[k]) = submits[k].dests
                                            \/ submits[k].c \in ended)
    \/ NeverReadAgain(k)
=============================================================================
