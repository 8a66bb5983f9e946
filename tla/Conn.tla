-------------------------------- MODULE Conn --------------------------------
(***************************************************************************)
(* pkg.Conn (src/pkg/connection.go) as the goroutines of one connection    *)
(* share it: the two generator goroutines behind SequenceID and            *)
(* SequenceNum, goroutines that draw a number and call SendPkt (serve, the *)
(* active tester, deliveries, a client's callers), goroutines that call    *)
(* Close (serve's deferred close, Connect's deferred close, Disconnect, a  *)
(* handler that holds the connection), and SetState: by newConn before     *)
(* anybody else has the connection, by Connect while others may use it.    *)
(*                                                                         *)
(* Which numbers are handed out is module MsgId's subject; here a number   *)
(* is genuine (a generator offered it) or the zero of a closed channel.    *)
(*                                                                         *)
(* The field State is read and written without synchronisation: a          *)
(* goroutine may read the value it has written last itself or any that     *)
(* another one has written since (view).                                   *)
(***************************************************************************)
EXTENDS Integers

CONSTANTS
  Users,      \* goroutines that draw and send
  Closers,    \* goroutines that call Close
  Connector,  \* the one of them that runs Connect
  MaxOps,     \* bound: numbers a user draws
  MaxCalls    \* bound: calls of Close by a closer

ASSUME ConnAssumption ==
  MaxOps \in Nat /\ MaxCalls \in Nat /\ Connector \in Closers

VARIABLES
  gen,        \* per generator: "offer", "stopping" (saw done) or "exited"
  doneClosed, \* generators whose done channel is closed
  netOpen,    \* the underlying net.Conn is open
  view,       \* per goroutine: the values of State it may read
  sets,       \* calls of SetState made
  upc,        \* per user: "idle", the generator it waits for, "check", "write"
  genuine,    \* per user: its id came from the generator, not a closed channel
  ops,        \* per user: numbers drawn
  cpc,        \* per closer: "idle", "done", "num", "net", "state", "panicked"
  calls,      \* per closer: calls of Close made
  overwritten,\* SetState was called after Close had set CLOSED
  sent,       \* packets written to the net.Conn
  forged,     \* those of them that carry the zero of a closed channel
  returned    \* a Close has returned, other than to an unset State

userVars  == <<upc, genuine, ops>>
closeVars == <<doneClosed, netOpen, cpc, calls, returned>>
stateVars == <<view, sets, overwritten>>
wireVars  == <<sent, forged>>
vars == <<gen, userVars, closeVars, stateVars, wireVars>>

Gens == {"id", "num"}

\* "unset" is the zero NewConnection leaves, the value of CONNECTION_CLOSED;
\* "up" is CONNECTED or AUTHOK, "closed" the CLOSED of Close.
States == {"unset", "up", "closed"}

\* Connect's connection is shared before State is set (client.go:30), newConn's
\* after.
Init ==
  /\ gen = [g \in Gens |-> "offer"]
  /\ doneClosed = {} /\ netOpen = TRUE
  /\ \/ sets = 0 /\ view = [x \in Users \cup Closers |-> {"unset"}]
     \/ sets = 2 /\ view = [x \in Users \cup Closers |-> {"up"}]
  /\ upc = [u \in Users |-> "idle"]
  /\ genuine = [u \in Users |-> TRUE]
  /\ ops = [u \in Users |-> 0]
  /\ cpc = [c \in Closers |-> "idle"]
  /\ calls = [c \in Closers |-> 0]
  /\ overwritten = FALSE /\ returned = FALSE
  /\ sent = 0 /\ forged = 0

\* Actions named ..._faulty are not part of Next: each is the action after it
\* with one plausible programming error, which a property must expose.

-----------------------------------------------------------------------------
\* Generator goroutines

\* case out <- i, with a user that receives.
Give(g, u) ==
  /\ gen[g] = "offer" /\ upc[u] = g
  /\ genuine' = [genuine EXCEPT ![u] = TRUE]
  /\ upc' = [upc EXCEPT ![u] = IF g = "id" THEN "check" ELSE "idle"]
  /\ UNCHANGED <<gen, ops, closeVars, stateVars, wireVars>>

\* case <-done
GenDone(g) ==
  /\ gen[g] = "offer" /\ g \in doneClosed
  /\ gen' = [gen EXCEPT ![g] = "stopping"]
  /\ UNCHANGED <<userVars, closeVars, stateVars, wireVars>>

\* It returns without closing out.
GenExit_faulty(g) == UNCHANGED vars

\* close(out); return
GenExit(g) ==
  /\ gen[g] = "stopping"
  /\ gen' = [gen EXCEPT ![g] = "exited"]
  /\ UNCHANGED <<userVars, closeVars, stateVars, wireVars>>

-----------------------------------------------------------------------------
\* Users: seq := <-c.SequenceID; c.SendPkt(p, seq), or <-c.SequenceNum

Draw(u, g) ==
  /\ upc[u] = "idle" /\ ops[u] < MaxOps
  /\ upc' = [upc EXCEPT ![u] = g]
  /\ ops' = [ops EXCEPT ![u] = @ + 1]
  /\ UNCHANGED <<gen, genuine, closeVars, stateVars, wireVars>>

\* A receive from the closed channel yields 0.
DrawZero(g, u) ==
  /\ gen[g] = "exited" /\ upc[u] = g
  /\ genuine' = [genuine EXCEPT ![u] = FALSE]
  /\ upc' = [upc EXCEPT ![u] = IF g = "id" THEN "check" ELSE "idle"]
  /\ UNCHANGED <<gen, ops, closeVars, stateVars, wireVars>>

\* if c.State == CONNECTION_CLOSED, which is also the zero value
CheckClosed(u) ==
  /\ upc[u] = "check" /\ view[u] \cap {"unset", "closed"} # {}
  /\ upc' = [upc EXCEPT ![u] = "idle"]
  /\ UNCHANGED <<gen, genuine, ops, closeVars, stateVars, wireVars>>

CheckOpen(u) ==
  /\ upc[u] = "check" /\ "up" \in view[u]
  /\ upc' = [upc EXCEPT ![u] = "write"]
  /\ UNCHANGED <<gen, genuine, ops, closeVars, stateVars, wireVars>>

Write(u) ==
  /\ upc[u] = "write"
  /\ upc' = [upc EXCEPT ![u] = "idle"]
  /\ IF netOpen
     THEN /\ sent' = sent + 1
          /\ forged' = forged + (IF genuine[u] THEN 0 ELSE 1)
     ELSE UNCHANGED wireVars
  /\ UNCHANGED <<gen, genuine, ops, closeVars, stateVars>>

-----------------------------------------------------------------------------
\* c.State = v, by goroutine x: it reads this from now on, the others may.
Assign(x, v) ==
  view' = [y \in DOMAIN view |-> IF y = x THEN {v} ELSE view[y] \cup {v}]

\* It sets nothing.
SetState_faulty ==
  /\ sets < 2 /\ calls[Connector] = 0
  /\ sets' = sets + 1
  /\ UNCHANGED <<gen, userVars, closeVars, wireVars, view, overwritten>>

\* Connect sets CONNECTED and, logged in, AUTHOK; where it fails in between, its
\* Close comes instead.
SetState ==
  /\ sets < 2 /\ calls[Connector] = 0
  /\ sets' = sets + 1
  /\ Assign(Connector, "up")
  /\ overwritten' = (overwritten \/ \E c \in Closers : "closed" \in view[c])
  /\ UNCHANGED <<gen, userVars, closeVars, wireVars>>

-----------------------------------------------------------------------------
\* Close

Moves(c, from, to) == cpc[c] = from /\ cpc' = [cpc EXCEPT ![c] = to]

\* The goroutine that connects calls Close after SetState(CONNECTED).
Calls(c) ==
  /\ cpc[c] = "idle" /\ calls[c] < MaxCalls
  /\ c = Connector => sets > 0
  /\ calls' = [calls EXCEPT ![c] = @ + 1]

\* It returns when another Close is under way.
CloseReturns_faulty(c) ==
  /\ Calls(c)
  /\ doneClosed # {}
  /\ returned' = TRUE
  /\ UNCHANGED <<gen, userVars, stateVars, wireVars, doneClosed, netOpen, cpc>>

\* if c.State == CONNECTION_CLOSED { return }
CloseReturns(c) ==
  /\ Calls(c)
  /\ "closed" \in view[c]
  /\ returned' = TRUE
  /\ UNCHANGED <<gen, userVars, stateVars, wireVars, doneClosed, netOpen, cpc>>

\* State has not been set, or so it seems: Close does nothing.
CloseUnset(c) ==
  /\ Calls(c)
  /\ "unset" \in view[c]
  /\ UNCHANGED <<gen, userVars, stateVars, wireVars, doneClosed, netOpen, cpc,
                 returned>>

\* It does not look at State.
CloseBegins_faulty(c) ==
  /\ Calls(c)
  /\ Moves(c, "idle", "done")
  /\ UNCHANGED <<gen, userVars, stateVars, wireVars, doneClosed, netOpen,
                 returned>>

CloseBegins(c) ==
  /\ Calls(c)
  /\ "up" \in view[c]
  /\ Moves(c, "idle", "done")
  /\ UNCHANGED <<gen, userVars, stateVars, wireVars, doneClosed, netOpen,
                 returned>>

\* close(c.done), close(c.numDone): closing a closed channel panics.
CloseChan(c, g, from, to) ==
  /\ IF g \in doneClosed
     THEN Moves(c, from, "panicked") /\ UNCHANGED doneClosed
     ELSE Moves(c, from, to) /\ doneClosed' = doneClosed \cup {g}
  /\ UNCHANGED <<gen, userVars, stateVars, wireVars, netOpen, calls, returned>>

CloseDone(c) == CloseChan(c, "id", "done", "num")
CloseNum(c)  == CloseChan(c, "num", "num", "net")

\* State is set while the socket is still open.
CloseNet_faulty(c) ==
  /\ Moves(c, "net", "state")
  /\ Assign(c, "closed")
  /\ UNCHANGED <<gen, userVars, wireVars, doneClosed, netOpen, calls, returned,
                 sets, overwritten>>

CloseNet(c) ==
  /\ Moves(c, "net", "state")
  /\ netOpen' = FALSE
  /\ UNCHANGED <<gen, userVars, stateVars, wireVars, doneClosed, calls,
                 returned>>

CloseState(c) ==
  /\ Moves(c, "state", "idle")
  /\ Assign(c, "closed")
  /\ returned' = TRUE
  /\ UNCHANGED <<gen, userVars, wireVars, doneClosed, netOpen, calls, sets,
                 overwritten>>

-----------------------------------------------------------------------------
GenStep(g) == GenDone(g) \/ GenExit(g)

Receive(u) == \E g \in Gens : Give(g, u) \/ DrawZero(g, u)

UserStep(u) ==
  \/ \E g \in Gens : Draw(u, g)
  \/ Receive(u)
  \/ CheckClosed(u) \/ CheckOpen(u) \/ Write(u)

CloseStep(c) ==
  \/ CloseReturns(c) \/ CloseUnset(c) \/ CloseBegins(c)
  \/ CloseDone(c) \/ CloseNum(c) \/ CloseNet(c) \/ CloseState(c)

\* Everyone is idle; the generators of a connection nobody closes live on.
Quiet ==
  /\ \A u \in Users : upc[u] = "idle"
  /\ \A c \in Closers : cpc[c] \in {"idle", "panicked"}
  /\ UNCHANGED vars

Next ==
  \/ \E g \in Gens : GenStep(g)
  \/ \E u \in Users : UserStep(u)
  \/ \E c \in Closers : CloseStep(c)
  \/ SetState
  \/ Quiet

Spec == Init /\ [][Next]_vars

\* Goroutines run; receivers queue first in, first out; a select with a closed
\* done channel does not pass it over for ever.
LiveSpec ==
  /\ Spec
  /\ \A g \in Gens : SF_vars(GenDone(g)) /\ WF_vars(GenExit(g))
  /\ \A u \in Users : SF_vars(Receive(u))
                      /\ WF_vars(CheckClosed(u) \/ CheckOpen(u) \/ Write(u))
  /\ \A c \in Closers : WF_vars(CloseDone(c) \/ CloseNum(c) \/ CloseNet(c)
                                \/ CloseState(c))

-----------------------------------------------------------------------------
\* Properties

TypeOK ==
  /\ gen \in [Gens -> {"offer", "stopping", "exited"}]
  /\ doneClosed \subseteq Gens
  /\ netOpen \in BOOLEAN /\ overwritten \in BOOLEAN /\ returned \in BOOLEAN
  /\ upc \in [Users -> Gens \cup {"idle", "check", "write"}]
  /\ genuine \in [Users -> BOOLEAN]
  /\ ops \in [Users -> 0..MaxOps]
  /\ cpc \in [Closers -> {"idle", "done", "num", "net", "state", "panicked"}]
  /\ calls \in [Closers -> 0..MaxCalls]
  /\ view \in [Users \cup Closers -> SUBSET States]
  /\ sets \in 0..2 /\ (sets > 0 => "unset" \notin view[Connector])
  /\ sent \in Nat /\ forged \in Nat /\ forged <= sent

\* Close takes the connection down in one order, whoever runs which part of it:
\* the generators' channels, the socket, State: nobody reads its CLOSED while
\* the socket is open (connection.go:94-97).
TornDownInOrder ==
  /\ \A g \in Gens : gen[g] # "offer" => g \in doneClosed
  /\ ~netOpen => doneClosed = Gens
  /\ \A x \in Users \cup Closers : "closed" \in view[x] => ~netOpen

\* Once a call of Close has returned to anyone who has closed the connection or
\* read that another has (not the zero State had before), no packet reaches the
\* wire, however stale the State a sender reads: the socket is closed before
\* State says so (connection.go:96-97).  ImplementsChannel implies it.
NothingAfterClose == [][returned => sent' = sent]_vars

\* A packet can carry the zero of a closed SequenceID channel only in the
\* window Close leaves between close(c.done) and the close of the socket
\* (connection.go:94-96): never while nobody is closing the connection.
ForgedOnlyWhileClosing ==
  [][forged' # forged => \E c \in Closers : cpc[c] \in {"num", "net"}]_vars

\* Close panics (close of a closed channel) only where two goroutines call it,
\* or where SetState has overwritten the CLOSED of a Close before: a Disconnect
\* while Connect is under way, and client.go:70 after it.  Otherwise, and in
\* the goroutine that connects always, one goroutine may call Close as often as
\* it likes (connection.go:91).
PanicNeedsTwoClosers ==
  \A c \in Closers : cpc[c] = "panicked" =>
    \/ \E d \in Closers \ {c} : calls[d] > 0
    \/ overwritten /\ c # Connector

\* Whoever panics, a Close that got past its check is finished by somebody:
\* both generators exit and the socket is closed (connection.go:94-96, "let
\* the SeqId goroutine exit").
CloseCompletes ==
  \A c \in Closers :
    cpc[c] = "done" ~> (~netOpen /\ \A g \in Gens : gen[g] = "exited")

\* No goroutine is left waiting for a number, closed connection or not: the
\* generators offer or their channels are closed.
DrawNeverHangs ==
  \A u \in Users : \A g \in Gens : upc[u] = g ~> upc[u] # g

\* To the goroutines that share it, the connection is the channel of module
\* Channel: SendPkt and the four steps of Close, run by anyone at any time, do
\* what Send, Begin, Shut and Tell say (connection.go:89-121).
AsChannel == INSTANCE Channel WITH
  link <- IF ~netOpen THEN "shut" ELSE IF doneClosed # {} THEN "closing"
          ELSE "open",
  out <- sent, zeros <- forged, told <- returned
ImplementsChannel == AsChannel!CSpec
=============================================================================
