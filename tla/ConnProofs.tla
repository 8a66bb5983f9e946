----------------------------- MODULE ConnProofs -----------------------------
(***************************************************************************)
(* Proofs about module Conn: its types and the safety properties of Close  *)
(* and SendPkt, for any number of senders, of goroutines that call Close,  *)
(* of draws and of calls.                                                  *)
(***************************************************************************)
EXTENDS Conn, TLAPS

-----------------------------------------------------------------------------
(* The inductive invariant.                                                 *)

\* What a goroutine inside Close has already done.
Phases ==
  /\ \A c \in Closers : cpc[c] \in {"num", "net", "state"} => "id" \in doneClosed
  /\ \A c \in Closers : cpc[c] \in {"net", "state"} => "num" \in doneClosed
  /\ \A c \in Closers : cpc[c] = "state" => ~netOpen
  /\ returned => ~netOpen

\* While the socket is open, whoever closed a generator's channel is still
\* inside Close, and a number is the zero of a closed channel only after that.
Window ==
  /\ netOpen /\ "id" \in doneClosed =>
       \E c \in Closers : cpc[c] \in {"num", "net"}
  /\ netOpen /\ "num" \in doneClosed => \E c \in Closers : cpc[c] = "net"
  /\ \A u \in Users : ~genuine[u] => doneClosed # {}

\* A goroutine that reads only the CLOSED of Close has set it and reads nothing
\* a SetState has put over it.
Settled(c) == view[c] = {"closed"}

\* A closed channel has been closed by a goroutine that called Close and will
\* not meet it again, unless State is overwritten: it is past it, it has
\* panicked, or it has set State.  SetState comes before the Close of Connect.
Blame ==
  /\ \A c \in Closers : view[c] # {}
  /\ \A c \in Closers : cpc[c] # "idle" => "up" \in view[c]
  /\ \A c \in Closers : cpc[c] # "idle" \/ Settled(c) => calls[c] > 0
  /\ overwritten => \E c \in Closers \ {Connector} : calls[c] > 0
  /\ "id" \in doneClosed /\ ~overwritten =>
       \E c \in Closers : cpc[c] \in {"num", "net", "state", "panicked"}
                          \/ Settled(c)
  /\ "num" \in doneClosed /\ ~overwritten =>
       \E c \in Closers : cpc[c] \in {"net", "state"} \/ Settled(c)
  /\ \A c \in Closers : "closed" \in view[c] =>
       \E d \in Closers : calls[d] > 0

IInv == TypeOK /\ TornDownInOrder /\ Phases /\ Window /\ Blame
        /\ PanicNeedsTwoClosers

-----------------------------------------------------------------------------
(* The steps, sorted by what they may change.                               *)

CloseChanges(c) ==
  CloseReturns(c) \/ CloseUnset(c) \/ CloseBegins(c) \/ CloseDone(c)
  \/ CloseNum(c) \/ CloseNet(c) \/ CloseState(c)

\* Only Close and SetState change what they share with the others.
LEMMA CloseFrame ==
  ASSUME [Next]_vars
  PROVE  \/ UNCHANGED <<closeVars, stateVars>>
         \/ SetState
         \/ \E c \in Closers : CloseChanges(c)
<1>1. ASSUME NEW g \in Gens, GenStep(g)
      PROVE  UNCHANGED <<closeVars, stateVars>>
  BY <1>1 DEF GenStep, GenDone, GenExit
<1>2. ASSUME NEW u \in Users, UserStep(u)
      PROVE  UNCHANGED <<closeVars, stateVars>>
  BY <1>2 DEF UserStep, Receive, Draw, Give, DrawZero, CheckClosed, CheckOpen,
              Write
<1>3. ASSUME NEW c \in Closers, CloseStep(c)
      PROVE  CloseChanges(c)
  BY <1>3 DEF CloseStep, CloseChanges
<1>4. CASE UNCHANGED vars
  BY <1>4 DEF vars
<1>5. QED
  BY <1>1, <1>2, <1>3, <1>4 DEF Next, Quiet

\* They change nothing else.
LEMMA RestFrame ==
  ASSUME NEW c \in Closers, CloseChanges(c)
  PROVE  UNCHANGED <<gen, userVars, wireVars>>
BY DEF CloseChanges, CloseReturns, CloseUnset, CloseBegins, CloseDone, CloseNum,
       CloseChan, CloseNet, CloseState

\* What an assignment to State leaves each goroutine to read.
LEMMA Assigned ==
  ASSUME TypeOK, NEW x \in Users \cup Closers, NEW v \in States, Assign(x, v)
  PROVE  /\ view' \in [Users \cup Closers -> SUBSET States]
         /\ view'[x] = {v}
         /\ \A y \in Users \cup Closers : y # x => view'[y] = view[y] \cup {v}
BY DEF TypeOK, Assign

\* The steps of Close one by one: where the goroutine goes, and what changes.
LEMMA CloseCases ==
  ASSUME TypeOK, NEW c \in Closers, CloseChanges(c)
  PROVE
    /\ \A d \in Closers : d # c => cpc'[d] = cpc[d]
    /\ UNCHANGED <<sets, overwritten>>
    /\ \/ /\ cpc[c] = "idle" /\ cpc'[c] = "idle"
          /\ "closed" \in view[c] /\ returned' = TRUE
          /\ UNCHANGED <<doneClosed, netOpen, view>>
       \/ /\ cpc[c] = "idle" /\ cpc'[c] = "idle"
          /\ UNCHANGED <<doneClosed, netOpen, view, returned>>
       \/ /\ cpc[c] = "idle" /\ cpc'[c] = "done" /\ "up" \in view[c]
          /\ UNCHANGED <<doneClosed, netOpen, view, returned>>
       \/ /\ \/ cpc[c] = "done" /\ "id" \in doneClosed
             \/ cpc[c] = "num" /\ "num" \in doneClosed
          /\ cpc'[c] = "panicked"
          /\ UNCHANGED <<doneClosed, netOpen, view, returned>>
       \/ /\ cpc[c] = "done" /\ cpc'[c] = "num"
          /\ doneClosed' = doneClosed \cup {"id"}
          /\ UNCHANGED <<netOpen, view, returned>>
       \/ /\ cpc[c] = "num" /\ cpc'[c] = "net"
          /\ doneClosed' = doneClosed \cup {"num"}
          /\ UNCHANGED <<netOpen, view, returned>>
       \/ /\ cpc[c] = "net" /\ cpc'[c] = "state" /\ netOpen' = FALSE
          /\ UNCHANGED <<doneClosed, view, returned>>
       \/ /\ cpc[c] = "state" /\ cpc'[c] = "idle"
          /\ Assign(c, "closed") /\ returned' = TRUE
          /\ UNCHANGED <<doneClosed, netOpen>>
<1> USE DEF TypeOK, Moves, Gens
<1>1. CASE CloseReturns(c) \/ CloseUnset(c)
  BY <1>1 DEF CloseReturns, CloseUnset, Calls, stateVars
<1>2. CASE CloseBegins(c)
  BY <1>2 DEF CloseBegins, stateVars
<1>3. CASE CloseDone(c) \/ CloseNum(c)
  BY <1>3 DEF CloseDone, CloseNum, CloseChan, stateVars
<1>4. CASE CloseNet(c) \/ CloseState(c)
  BY <1>4 DEF CloseNet, CloseState, stateVars
<1>5. QED
  BY <1>1, <1>2, <1>3, <1>4 DEF CloseChanges

\* Close counts its calls as they begin or return at once.
LEMMA CallsGrow ==
  ASSUME TypeOK, NEW c \in Closers, CloseChanges(c)
  PROVE  /\ calls' \in [Closers -> 0..MaxCalls]
         /\ \A d \in Closers : calls[d] \in Nat /\ calls'[d] >= calls[d]
         /\ cpc[c] = "idle" => calls'[c] > 0
<1>1. calls \in [Closers -> 0..MaxCalls] /\ MaxCalls \in Nat
  BY ConnAssumption DEF TypeOK
<1>2. \/ calls[c] < MaxCalls /\ calls' = [calls EXCEPT ![c] = @ + 1]
      \/ cpc[c] # "idle" /\ calls' = calls
  BY DEF CloseChanges, CloseReturns, CloseBegins, CloseDone, CloseNum,
         CloseChan, CloseNet, CloseState, CloseUnset, Calls, Moves
<1>3. QED
  BY <1>1, <1>2

-----------------------------------------------------------------------------
(* Every step keeps the invariant.                                          *)

\* Types: the fields of pkg.Conn and where each goroutine is.
LEMMA TypeStep == TypeOK /\ [Next]_vars => TypeOK'
<1> SUFFICES ASSUME TypeOK, [Next]_vars
             PROVE  TypeOK'
  OBVIOUS
<1> USE DEF closeVars, stateVars, userVars, wireVars
<1>1. ASSUME NEW g \in Gens, GenStep(g)
      PROVE  TypeOK'
  BY <1>1 DEF TypeOK, GenStep, GenDone, GenExit
<1>2. ASSUME NEW u \in Users, NEW g \in Gens, Draw(u, g)
      PROVE  TypeOK'
  BY <1>2, ConnAssumption DEF TypeOK, Draw
<1>3. ASSUME NEW u \in Users, NEW g \in Gens, Give(g, u) \/ DrawZero(g, u)
      PROVE  TypeOK'
  <2>1. /\ genuine \in [Users -> BOOLEAN]
        /\ \/ genuine' = [genuine EXCEPT ![u] = TRUE]
           \/ genuine' = [genuine EXCEPT ![u] = FALSE]
    BY <1>3 DEF TypeOK, Give, DrawZero
  <2>2. genuine' \in [Users -> BOOLEAN]
    BY <2>1
  <2>3. upc' \in [Users -> Gens \cup {"idle", "check", "write"}]
    BY <1>3 DEF TypeOK, Give, DrawZero
  <2>4. UNCHANGED <<gen, ops, closeVars, stateVars, wireVars>>
    BY <1>3 DEF Give, DrawZero
  <2>5. QED
    BY <2>2, <2>3, <2>4 DEF TypeOK
<1>4. ASSUME NEW u \in Users, CheckClosed(u) \/ CheckOpen(u)
      PROVE  TypeOK'
  BY <1>4 DEF TypeOK, CheckClosed, CheckOpen
<1>5. ASSUME NEW u \in Users, Write(u)
      PROVE  TypeOK'
  <2>1. sent' \in Nat /\ forged' \in Nat /\ forged' <= sent'
    BY <1>5 DEF TypeOK, Write
  <2>2. QED
    BY <1>5, <2>1 DEF TypeOK, Write
<1>6. ASSUME NEW c \in Closers, CloseChanges(c)
      PROVE  TypeOK'
  <2>1. calls' \in [Closers -> 0..MaxCalls]
    BY <1>6, CallsGrow
  <2>2. cpc' \in [Closers -> {"idle", "done", "num", "net", "state", "panicked"}]
    BY <1>6 DEF TypeOK, CloseChanges, CloseReturns, CloseUnset, CloseBegins,
                CloseDone, CloseNum, CloseChan, CloseNet, CloseState, Moves
  <2>3. doneClosed' \subseteq Gens
    BY <1>6, CloseCases, ZenonT(60) DEF TypeOK, Gens
  <2>4. netOpen' \in BOOLEAN /\ returned' \in BOOLEAN
    BY <1>6, CloseCases DEF TypeOK
  <2>5. /\ view' \in [Users \cup Closers -> SUBSET States]
        /\ sets' \in 0..2 /\ overwritten' \in BOOLEAN
        /\ sets' > 0 => "unset" \notin view'[Connector]
    <3>1. UNCHANGED <<sets, overwritten>>
      BY <1>6, CloseCases
    <3>2. CASE UNCHANGED view
      BY <3>1, <3>2 DEF TypeOK
    <3>3. CASE Assign(c, "closed")
      BY <3>1, <3>3, Assigned, ConnAssumption DEF TypeOK, States
    <3>4. QED
      BY <1>6, <3>2, <3>3, CloseCases
  <2>6. QED
    BY <1>6, <2>1, <2>2, <2>3, <2>4, <2>5, RestFrame DEF TypeOK
<1>9. CASE SetState
  <2>1. /\ view' \in [Users \cup Closers -> SUBSET States]
        /\ view'[Connector] = {"up"}
    BY <1>9, Assigned, ConnAssumption DEF SetState, States
  <2>2. overwritten' \in BOOLEAN
    BY <1>9 DEF SetState, TypeOK
  <2>3. sets' \in 0..2
    BY <1>9 DEF SetState, TypeOK
  <2>4. QED
    BY <1>9, <2>1, <2>2, <2>3 DEF SetState, TypeOK
<1>7. CASE UNCHANGED vars
  BY <1>7 DEF TypeOK, vars
<1>8. QED
  BY <1>1, <1>2, <1>3, <1>4, <1>5, <1>6, <1>7, <1>9
  DEF Next, Quiet, UserStep, Receive, CloseStep, CloseChanges

\* The generators stop only after their channel is closed; Close goes on from
\* there.
LEMMA OrderStep ==
  TypeOK /\ TornDownInOrder /\ Phases /\ [Next]_vars
    => TornDownInOrder' /\ Phases'
<1> SUFFICES ASSUME TypeOK, TornDownInOrder, Phases, [Next]_vars
             PROVE  TornDownInOrder' /\ Phases'
  OBVIOUS
<1>1. CASE UNCHANGED <<closeVars, stateVars>> \/ SetState
  <2>1. \A g \in Gens : gen'[g] # "offer" => g \in doneClosed
    <3>1. ASSUME NEW g \in Gens, GenStep(g)
          PROVE  \A h \in Gens : gen'[h] # "offer" => h \in doneClosed
      BY <3>1 DEF TypeOK, TornDownInOrder, GenStep, GenDone, GenExit
    <3>2. ASSUME NEW u \in Users, UserStep(u)
          PROVE  UNCHANGED gen
      BY <3>2 DEF UserStep, Receive, Draw, Give, DrawZero, CheckClosed,
                  CheckOpen, Write
    <3>3. ASSUME NEW c \in Closers, CloseStep(c)
          PROVE  UNCHANGED gen
      BY <3>3, RestFrame DEF CloseStep, CloseChanges
    <3>4. QED
      BY <3>1, <3>2, <3>3 DEF Next, Quiet, vars, SetState, TornDownInOrder
  <2>2. UNCHANGED closeVars
    BY <1>1 DEF SetState
  <2>3. \A x \in Users \cup Closers : "closed" \in view'[x] => "closed" \in view[x]
    <3>1. CASE SetState
      BY <3>1, Assigned, ConnAssumption DEF SetState, States
    <3>2. QED
      BY <1>1, <3>1 DEF stateVars
  <2>4. QED
    BY <2>1, <2>2, <2>3 DEF closeVars, TornDownInOrder, Phases
<1>2. ASSUME NEW c \in Closers, CloseChanges(c)
      PROVE  TornDownInOrder' /\ Phases'
  <2>1. UNCHANGED gen
    BY <1>2, RestFrame
  <2>2. doneClosed \subseteq doneClosed' /\ (~netOpen => ~netOpen')
    BY <1>2, CloseCases
  <2>3. ASSUME NEW d \in Closers
        PROVE  /\ cpc'[d] \in {"num", "net", "state"} => "id" \in doneClosed'
               /\ cpc'[d] \in {"net", "state"} => "num" \in doneClosed'
               /\ cpc'[d] = "state" => ~netOpen'
    <3>1. CASE d # c
      BY <1>2, <2>2, <3>1, CloseCases DEF Phases
    <3>2. CASE d = c
      BY <1>2, <3>2, CloseCases DEF Phases
    <3>3. QED
      BY <3>1, <3>2
  <2>4. /\ returned' => ~netOpen'
        /\ \A x \in Users \cup Closers : "closed" \in view'[x] => ~netOpen'
    <3>1. CASE UNCHANGED view
      BY <1>2, <3>1, <2>2, CloseCases DEF Phases, TornDownInOrder, Assign
    <3>2. CASE cpc[c] = "state" /\ UNCHANGED netOpen
      BY <3>2 DEF Phases
    <3>3. QED
      BY <1>2, <3>1, <3>2, CloseCases
  <2>5. ~netOpen' => doneClosed' = Gens
    <3>1. doneClosed' \subseteq Gens
      BY <1>2, CloseCases, ZenonT(60) DEF TypeOK, Gens
    <3>2. CASE ~netOpen
      BY <2>2, <3>1, <3>2 DEF TornDownInOrder
    <3>3. CASE netOpen /\ ~netOpen'
      <4>1. cpc[c] = "net"
        BY <1>2, <3>3, CloseCases
      <4>2. {"id", "num"} \subseteq doneClosed
        BY <4>1 DEF Phases
      <4>3. QED
        BY <2>2, <3>1, <4>2 DEF Gens
    <3>4. QED
      BY <3>2, <3>3
  <2>6. \A g \in Gens : gen'[g] # "offer" => g \in doneClosed'
    BY <2>1, <2>2 DEF TornDownInOrder
  <2>7. QED
    BY <2>3, <2>4, <2>5, <2>6 DEF TornDownInOrder, Phases
<1>3. QED
  BY <1>1, <1>2, CloseFrame

\* Somebody is between the first channel and the socket while it is open.
LEMMA WindowStep ==
  TypeOK /\ TornDownInOrder /\ Window /\ [Next]_vars => Window'
<1> SUFFICES ASSUME TypeOK, TornDownInOrder, Window, [Next]_vars
             PROVE  Window'
  OBVIOUS
<1>1. CASE UNCHANGED <<closeVars, stateVars>> \/ SetState
  <2>1. \A u \in Users : ~genuine'[u] => doneClosed # {}
    <3>1. ASSUME NEW u \in Users, UserStep(u)
          PROVE  \A v \in Users : ~genuine'[v] => doneClosed # {}
      BY <3>1 DEF TypeOK, TornDownInOrder, Window, UserStep, Receive, Draw,
                  Give, DrawZero, CheckClosed, CheckOpen, Write
    <3>2. ASSUME NEW g \in Gens, GenStep(g)
          PROVE  UNCHANGED genuine
      BY <3>2 DEF GenStep, GenDone, GenExit, userVars
    <3>3. ASSUME NEW c \in Closers, CloseStep(c)
          PROVE  UNCHANGED genuine
      BY <3>3, RestFrame DEF CloseStep, CloseChanges, userVars
    <3>4. QED
      BY <3>1, <3>2, <3>3 DEF Next, Quiet, SetState, vars, userVars, Window
  <2>2. QED
    BY <1>1, <2>1 DEF SetState, closeVars, Window
<1>2. ASSUME NEW c \in Closers, CloseChanges(c)
      PROVE  Window'
  <2>1. UNCHANGED genuine
    BY <1>2, RestFrame DEF userVars
  <2>2. doneClosed \subseteq doneClosed' /\ (netOpen' => netOpen)
    BY <1>2, CloseCases
  <2>3. \A u \in Users : ~genuine'[u] => doneClosed' # {}
    BY <2>1, <2>2 DEF Window
  <2>4. ASSUME netOpen', "num" \in doneClosed'
        PROVE  \E d \in Closers : cpc'[d] = "net"
    <3>1. CASE "num" \in doneClosed
      <4>1. PICK d \in Closers : cpc[d] = "net"
        BY <2>2, <2>4, <3>1 DEF Window
      <4>2. cpc'[d] = "net"
        BY <1>2, <2>4, <3>1, <4>1, CloseCases DEF TornDownInOrder
      <4>3. QED
        BY <4>2
    <3>2. CASE "num" \notin doneClosed
      BY <1>2, <2>4, <3>2, CloseCases
    <3>3. QED
      BY <3>1, <3>2
  <2>5. ASSUME netOpen', "id" \in doneClosed'
        PROVE  \E d \in Closers : cpc'[d] \in {"num", "net"}
    <3>1. CASE "id" \in doneClosed
      <4>1. PICK d \in Closers : cpc[d] \in {"num", "net"}
        BY <2>2, <2>5, <3>1 DEF Window
      <4>2. CASE cpc'[d] \in {"num", "net"}
        BY <4>2
      <4>3. CASE cpc'[d] \notin {"num", "net"}
        <5>1. cpc[d] = "num" /\ "num" \in doneClosed /\ UNCHANGED doneClosed
          BY <1>2, <2>5, <4>1, <4>3, CloseCases
        <5>2. QED
          BY <2>4, <2>5, <5>1
      <4>4. QED
        BY <4>2, <4>3
    <3>2. CASE "id" \notin doneClosed
      BY <1>2, <2>5, <3>2, CloseCases
    <3>3. QED
      BY <3>1, <3>2
  <2>6. QED
    BY <2>3, <2>4, <2>5 DEF Window
<1>3. QED
  BY <1>1, <1>2, CloseFrame

\* A panic is somebody else's doing.
LEMMA BlameStep ==
  TypeOK /\ Blame /\ PanicNeedsTwoClosers /\ [Next]_vars
    => Blame' /\ PanicNeedsTwoClosers'
<1> SUFFICES ASSUME TypeOK, Blame, PanicNeedsTwoClosers, [Next]_vars
             PROVE  Blame' /\ PanicNeedsTwoClosers'
  OBVIOUS
<1>1. CASE UNCHANGED <<closeVars, stateVars>>
  BY <1>1 DEF closeVars, stateVars, Blame, Settled, PanicNeedsTwoClosers
<1>2. ASSUME NEW c \in Closers, CloseChanges(c)
      PROVE  Blame' /\ PanicNeedsTwoClosers'
  <2>1. \A d \in Closers : calls[d] > 0 => calls'[d] > 0
    <3>1. \A d \in Closers : calls[d] \in Nat /\ calls'[d] \in Nat
                             /\ calls'[d] >= calls[d]
      BY <1>2, CallsGrow, ConnAssumption
    <3>2. QED
      BY <3>1
  <2>2. UNCHANGED overwritten
    BY <1>2, CloseCases
  <2>3. ASSUME NEW d \in Closers, d # c
        PROVE  /\ view[d] \subseteq view'[d] /\ cpc'[d] = cpc[d]
               /\ Settled(d) => Settled(d)'
               /\ Settled(d)' => Settled(d)
               /\ UNCHANGED view \/ view'[d] = view[d] \cup {"closed"}
    <3>1. cpc'[d] = cpc[d] /\ view[d] # {}
      BY <1>2, <2>3, CloseCases DEF Blame
    <3>2. UNCHANGED view \/ view'[d] = view[d] \cup {"closed"}
      <4>1. Assign(c, "closed") => view'[d] = view[d] \cup {"closed"}
        BY <2>3, Assigned DEF States
      <4>2. QED
        BY <1>2, <4>1, CloseCases
    <3>3. QED
      BY <3>1, <3>2 DEF Settled
  <2>4. /\ cpc[c] = "state" => cpc'[c] = "idle" /\ view'[c] = {"closed"}
        /\ cpc[c] # "state" =>
             /\ UNCHANGED view
             /\ cpc[c] = "idle" /\ cpc'[c] # "idle" => "up" \in view[c]
    <3>1. Assign(c, "closed") => view'[c] = {"closed"}
      BY Assigned DEF States
    <3>2. QED
      BY <1>2, <3>1, CloseCases
  <2>5. \A d \in Closers : /\ view'[d] # {}
                           /\ cpc'[d] # "idle" => "up" \in view'[d]
    BY <2>3, <2>4 DEF Blame
  <2>6. ASSUME NEW d \in Closers, cpc'[d] # "idle" \/ Settled(d)'
        PROVE  calls'[d] > 0
    <3>1. (cpc[d] # "idle" \/ Settled(d)) \/ (d = c /\ cpc[c] = "idle")
      BY <2>3, <2>4, <2>6 DEF Settled
    <3>2. CASE cpc[d] # "idle" \/ Settled(d)
      <4>1. calls[d] > 0
        BY <3>2 DEF Blame
      <4>2. QED
        BY <2>1, <4>1
    <3>3. CASE d = c /\ cpc[c] = "idle"
      BY <1>2, <3>3, CallsGrow
    <3>4. QED
      BY <3>1, <3>2, <3>3
  <2>7. overwritten' => \E d \in Closers \ {Connector} : calls'[d] > 0
    BY <2>1, <2>2 DEF Blame
  <2>8. ASSUME "id" \in doneClosed', ~overwritten'
        PROVE  \E d \in Closers : cpc'[d] \in {"num", "net", "state", "panicked"}
                                  \/ Settled(d)'
    <3>1. CASE "id" \in doneClosed
      <4>1. PICK d \in Closers : cpc[d] \in {"num", "net", "state", "panicked"}
                                 \/ Settled(d)
        BY <2>2, <2>8, <3>1 DEF Blame
      <4>2. CASE d # c
        BY <2>3, <4>1, <4>2
      <4>3. CASE d = c
        BY <1>2, <2>4, <4>1, <4>3, CloseCases DEF Blame, Settled
      <4>4. QED
        BY <4>2, <4>3
    <3>2. CASE "id" \notin doneClosed
      BY <1>2, <2>8, <3>2, CloseCases
    <3>3. QED
      BY <3>1, <3>2
  <2>9. ASSUME "num" \in doneClosed', ~overwritten'
        PROVE  \E d \in Closers : cpc'[d] \in {"net", "state"} \/ Settled(d)'
    <3>1. CASE "num" \in doneClosed
      <4>1. PICK d \in Closers : cpc[d] \in {"net", "state"} \/ Settled(d)
        BY <2>2, <2>9, <3>1 DEF Blame
      <4>2. CASE d # c
        BY <2>3, <4>1, <4>2
      <4>3. CASE d = c
        BY <1>2, <2>4, <4>1, <4>3, CloseCases DEF Blame, Settled
      <4>4. QED
        BY <4>2, <4>3
    <3>2. CASE "num" \notin doneClosed
      BY <1>2, <2>9, <3>2, CloseCases
    <3>3. QED
      BY <3>1, <3>2
  <2>10. ASSUME NEW d \in Closers, "closed" \in view'[d]
         PROVE  \E e \in Closers : calls'[e] > 0
    <3>1. "closed" \in view[d] \/ cpc[c] = "state"
      BY <2>3, <2>4, <2>10
    <3>2. \E e \in Closers : calls[e] > 0
      BY <3>1 DEF Blame
    <3>3. QED
      BY <2>1, <3>2
  <2>11. PanicNeedsTwoClosers'
    <3>1. ASSUME cpc'[c] = "panicked", cpc[c] # "panicked", ~overwritten
          PROVE  \E e \in Closers \ {c} : calls[e] > 0
      <4>1. "up" \in view[c] /\ ~Settled(c)
        BY <1>2, <3>1, CloseCases DEF Blame, Settled
      <4>2. CASE cpc[c] = "done" /\ "id" \in doneClosed
        BY <3>1, <4>1, <4>2 DEF Blame
      <4>3. CASE cpc[c] = "num" /\ "num" \in doneClosed
        BY <3>1, <4>1, <4>3 DEF Blame
      <4>4. QED
        BY <1>2, <3>1, <4>2, <4>3, CloseCases
    <3>2. ASSUME NEW d \in Closers, cpc'[d] = "panicked"
          PROVE  \/ \E e \in Closers \ {d} : calls[e] > 0
                 \/ overwritten /\ d # Connector
      <4>1. CASE cpc[d] = "panicked"
        BY <4>1 DEF PanicNeedsTwoClosers
      <4>2. CASE d = c /\ cpc[c] # "panicked"
        BY <3>1, <3>2, <4>2 DEF Blame
      <4>3. QED
        BY <2>3, <3>2, <4>1, <4>2
    <3>3. QED
      BY <2>1, <2>2, <3>2 DEF PanicNeedsTwoClosers
  <2>12. QED
    BY <2>5, <2>6, <2>7, <2>8, <2>9, <2>10, <2>11 DEF Blame
<1>3. CASE SetState
  <2>1. UNCHANGED closeVars /\ calls[Connector] = 0 /\ Connector \in Closers
    BY <1>3, ConnAssumption DEF SetState
  <2>2. /\ view'[Connector] = {"up"}
        /\ \A c \in Closers : c # Connector => view'[c] = view[c] \cup {"up"}
    BY <1>3, <2>1, Assigned DEF SetState, States
  <2>3. overwritten' = (overwritten \/ \E c \in Closers : "closed" \in view[c])
    BY <1>3 DEF SetState
  <2>4. \A c \in Closers : "up" \in view'[c] /\ ~Settled(c)'
    BY <2>2 DEF Settled
  <2>5. overwritten' => \E c \in Closers \ {Connector} : calls[c] > 0
    <3>1. ASSUME overwritten'
          PROVE  \E c \in Closers : calls[c] > 0
      BY <2>3, <3>1 DEF Blame
    <3>2. QED
      BY <2>1, <3>1
  <2>6. \A c \in Closers : "closed" \in view'[c] => "closed" \in view[c]
    BY <2>2
  <2>7. ~overwritten' => \A c \in Closers : ~Settled(c)
    BY <2>3 DEF Settled
  <2>8. Blame'
    BY <2>1, <2>3, <2>4, <2>5, <2>6, <2>7 DEF Blame, closeVars
  <2>9. PanicNeedsTwoClosers'
    BY <2>1, <2>3 DEF PanicNeedsTwoClosers, closeVars
  <2>10. QED
    BY <2>8, <2>9
<1>4. QED
  BY <1>1, <1>2, <1>3, CloseFrame

LEMMA InvInit == Init => IInv
<1> SUFFICES ASSUME Init PROVE IInv
  OBVIOUS
<1>1. TypeOK
  <2>1. genuine \in [Users -> BOOLEAN]
    BY DEF Init
  <2>2. /\ ops \in [Users -> 0..MaxOps] /\ calls \in [Closers -> 0..MaxCalls]
    BY ConnAssumption DEF Init
  <2>3. /\ gen \in [Gens -> {"offer", "stopping", "exited"}]
        /\ upc \in [Users -> Gens \cup {"idle", "check", "write"}]
        /\ cpc \in [Closers -> {"idle", "done", "num", "net", "state",
                               "panicked"}]
    BY DEF Init
  <2>4. netOpen \in BOOLEAN /\ overwritten \in BOOLEAN /\ returned \in BOOLEAN
    BY DEF Init
  <2>7. /\ view \in [Users \cup Closers -> SUBSET States]
        /\ sets \in 0..2 /\ (sets > 0 => "unset" \notin view[Connector])
    BY ConnAssumption DEF Init, States
  <2>5. /\ doneClosed \subseteq Gens
        /\ sent \in Nat /\ forged \in Nat /\ forged <= sent
    BY DEF Init
  <2>6. QED
    BY <2>1, <2>2, <2>3, <2>4, <2>5, <2>7 DEF TypeOK
<1>2. TornDownInOrder /\ Phases /\ Window
  BY DEF Init, TornDownInOrder, Phases, Window
<1>3. Blame /\ PanicNeedsTwoClosers
  BY DEF Init, Blame, Settled, PanicNeedsTwoClosers
<1>4. QED
  BY <1>1, <1>2, <1>3 DEF IInv

LEMMA InvStep == IInv /\ [Next]_vars => IInv'
BY TypeStep, OrderStep, WindowStep, BlameStep DEF IInv

-----------------------------------------------------------------------------
(* The theorems.                                                            *)

\* The strengthened invariant holds in every behaviour.
THEOREM Invariance == Spec => []IInv
BY InvInit, InvStep, PTL DEF Spec

\* The fields of pkg.Conn and the goroutines' places keep their types.
THEOREM TypeCorrect == Spec => []TypeOK
<1>1. IInv => TypeOK
  BY DEF IInv
<1>2. QED
  BY <1>1, Invariance, PTL

\* Close takes the connection down in one order (connection.go:94-97).
THEOREM OrderedTeardown == Spec => []TornDownInOrder
<1>1. IInv => TornDownInOrder
  BY DEF IInv
<1>2. QED
  BY <1>1, Invariance, PTL

\* A goroutine that closes alone panics only where SetState has overwritten the
\* CLOSED it set (connection.go:91, client.go:70).
THEOREM PanicsNeedTwo == Spec => []PanicNeedsTwoClosers
<1>1. IInv => PanicNeedsTwoClosers
  BY DEF IInv
<1>2. QED
  BY <1>1, Invariance, PTL

\* Nothing is written once a Close has returned (connection.go:96-97, 115).
THEOREM SilentAfterClose == Spec => NothingAfterClose
<1>1. IInv /\ [Next]_vars => [returned => sent' = sent]_vars
  <2> SUFFICES ASSUME IInv, [Next]_vars, returned
               PROVE  sent' = sent
    OBVIOUS
  <2>1. ~netOpen
    BY DEF IInv, Phases
  <2>2. ASSUME NEW u \in Users, UserStep(u)
        PROVE  sent' = sent
    BY <2>1, <2>2 DEF UserStep, Receive, Draw, Give, DrawZero, CheckClosed,
                      CheckOpen, Write, wireVars
  <2>3. ASSUME NEW c \in Closers, CloseStep(c)
        PROVE  sent' = sent
    BY <2>3, RestFrame DEF CloseStep, CloseChanges, wireVars
  <2>4. QED
    BY <2>2, <2>3 DEF Next, GenStep, GenDone, GenExit, Quiet, SetState, vars, wireVars
<1>2. QED
  BY <1>1, Invariance, PTL DEF Spec, NothingAfterClose

\* The zero of a closed channel is sent only inside the window Close leaves
\* (connection.go:94-96).
THEOREM ForgeryNeedsClosing == Spec => ForgedOnlyWhileClosing
<1> DEFINE Forgery ==
      forged' # forged => \E c \in Closers : cpc[c] \in {"num", "net"}
<1>1. IInv /\ [Next]_vars => [Forgery]_vars
  <2> SUFFICES ASSUME IInv, [Next]_vars, forged' # forged
               PROVE  \E c \in Closers : cpc[c] \in {"num", "net"}
    OBVIOUS
  <2>1. ASSUME NEW c \in Closers, CloseStep(c)
        PROVE  forged' = forged
    BY <2>1, RestFrame DEF CloseStep, CloseChanges, wireVars
  <2>2. \E u \in Users : UserStep(u)
    BY <2>1 DEF Next, GenStep, GenDone, GenExit, Quiet, SetState, vars, wireVars
  <2>3. PICK u \in Users : Write(u)
    BY <2>2 DEF UserStep, Receive, Draw, Give, DrawZero, CheckClosed,
                CheckOpen, wireVars
  <2>4. netOpen /\ ~genuine[u]
    BY <2>3 DEF IInv, TypeOK, Write, wireVars
  <2>5. doneClosed # {} /\ doneClosed \subseteq Gens
    BY <2>4 DEF IInv, TypeOK, Window
  <2>6. QED
    BY <2>4, <2>5 DEF IInv, Window, Gens
<1>2. QED
  BY <1>1, Invariance, PTL DEF Spec, ForgedOnlyWhileClosing

-----------------------------------------------------------------------------
(* Refinement.  The abstract state of the channel, by name.                 *)

Link == IF ~netOpen THEN "shut" ELSE IF doneClosed # {} THEN "closing"
        ELSE "open"

\* A step of the channel, or none, in the terms of Conn.
ChannelSteps ==
  \/ Link # "shut" /\ sent' = sent + 1
     /\ UNCHANGED <<Link, forged, returned>>
  \/ Link = "closing" /\ sent' = sent + 1 /\ forged' = forged + 1
     /\ UNCHANGED <<Link, returned>>
  \/ Link = "open" /\ Link' = "closing" /\ UNCHANGED <<sent, forged, returned>>
  \/ Link = "closing" /\ Link' = "shut" /\ UNCHANGED <<sent, forged, returned>>
  \/ Link = "shut" /\ returned' = TRUE /\ UNCHANGED <<Link, sent, forged>>
  \/ UNCHANGED <<Link, sent, forged, returned>>

LEMMA ChannelNames ==
  /\ Init => AsChannel!CInit
  /\ ChannelSteps => [AsChannel!CNext]_(AsChannel!cvars)
<1>1. Init => AsChannel!CInit
  BY DEF Init, AsChannel!CInit
<1>2. ChannelSteps => [AsChannel!CNext]_(AsChannel!cvars)
  BY Zenon DEF ChannelSteps, Link, AsChannel!CNext, AsChannel!Send,
     AsChannel!SendZero, AsChannel!Begin, AsChannel!Shut, AsChannel!Tell,
     AsChannel!cvars
<1>3. QED
  BY <1>1, <1>2

\* What a goroutine that draws and sends does to the channel: packets go out
\* while the socket is open, and a zero only after a Close has begun.
LEMMA ChannelSends ==
  ASSUME IInv, NEW u \in Users, UserStep(u)
  PROVE  ChannelSteps
<1>1. UNCHANGED <<doneClosed, netOpen, returned>>
  BY DEF UserStep, Receive, Draw, Give, DrawZero, CheckClosed, CheckOpen, Write,
         closeVars
<1>2. UNCHANGED Link
  BY <1>1 DEF Link
<1>3. CASE Write(u) /\ netOpen
  <2>1. sent' = sent + 1
    BY <1>3 DEF Write
  <2>2. Link # "shut"
    BY <1>3 DEF Link
  <2>3. CASE genuine[u]
    <3>1. forged' = forged
      BY <1>3, <2>3 DEF Write, IInv, TypeOK
    <3>2. QED
      BY <1>1, <1>2, <2>1, <2>2, <3>1 DEF ChannelSteps
  <2>4. CASE ~genuine[u]
    <3>1. forged' = forged + 1
      BY <1>3, <2>4 DEF Write
    <3>2. Link = "closing"
      BY <1>3, <2>4 DEF Link, IInv, Window
    <3>3. QED
      BY <1>1, <1>2, <2>1, <3>1, <3>2 DEF ChannelSteps
  <2>5. QED
    BY <2>3, <2>4
<1>4. CASE ~(Write(u) /\ netOpen)
  <2>1. UNCHANGED <<sent, forged>>
    BY <1>4 DEF UserStep, Receive, Draw, Give, DrawZero, CheckClosed, CheckOpen,
                Write, wireVars
  <2>2. QED
    BY <1>1, <1>2, <2>1 DEF ChannelSteps
<1>5. QED
  BY <1>3, <1>4

\* Close begins with the first channel, shuts with the socket, and tells only
\* then, whichever goroutine takes which of the steps.
LEMMA ChannelCloses ==
  ASSUME IInv, NEW c \in Closers, CloseChanges(c)
  PROVE  ChannelSteps
<1>1. UNCHANGED <<sent, forged>>
  BY RestFrame DEF wireVars
<1>2. TypeOK /\ TornDownInOrder /\ Phases
  BY DEF IInv
<1>3. CASE UNCHANGED <<doneClosed, netOpen>>
  <2>1. UNCHANGED Link
    BY <1>3 DEF Link
  <2>2. returned' = returned \/ (returned' = TRUE /\ ~netOpen)
    BY <1>2, CloseCases DEF TornDownInOrder, Phases
  <2>3. QED
    BY <1>1, <2>1, <2>2 DEF ChannelSteps, Link
<1>4. CASE doneClosed' # doneClosed
  <2>1. UNCHANGED <<netOpen, returned>> /\ doneClosed' # {}
    BY <1>2, <1>4, CloseCases
  <2>2. UNCHANGED Link \/ (Link = "open" /\ Link' = "closing")
    BY <2>1 DEF Link
  <2>3. QED
    BY <1>1, <2>1, <2>2 DEF ChannelSteps
<1>5. CASE UNCHANGED doneClosed /\ netOpen' # netOpen
  <2>1. cpc[c] = "net" /\ netOpen' = FALSE /\ UNCHANGED returned
    BY <1>2, <1>5, CloseCases
  <2>2. netOpen /\ doneClosed # {}
    BY <1>2, <1>5, <2>1 DEF TypeOK, Phases
  <2>3. Link = "closing" /\ Link' = "shut"
    BY <2>1, <2>2 DEF Link
  <2>4. QED
    BY <1>1, <2>1, <2>3 DEF ChannelSteps
<1>6. QED
  BY <1>3, <1>4, <1>5

LEMMA ChannelStep == IInv /\ [Next]_vars => ChannelSteps
<1> SUFFICES ASSUME IInv, [Next]_vars PROVE ChannelSteps
  OBVIOUS
<1>1. ASSUME NEW g \in Gens, GenStep(g)
      PROVE  ChannelSteps
  BY <1>1 DEF GenStep, GenDone, GenExit, closeVars, wireVars, ChannelSteps, Link
<1>2. ASSUME NEW c \in Closers, CloseStep(c)
      PROVE  ChannelSteps
  BY <1>2, ChannelCloses DEF CloseStep, CloseChanges
<1>3. CASE UNCHANGED vars
  BY <1>3 DEF vars, closeVars, wireVars, ChannelSteps, Link
<1>5. CASE SetState
  BY <1>5 DEF SetState, closeVars, wireVars, ChannelSteps, Link
<1>4. QED
  BY <1>1, <1>2, <1>3, <1>5, ChannelSends DEF Next, Quiet

\* Conn implements Channel: for any number of goroutines that send and close,
\* packets go out until the socket is shut, none without a number before a
\* Close has begun, and a Close returns only to silence
\* (connection.go:89-121).
THEOREM ChannelKept == Spec => ImplementsChannel
BY ChannelNames, ChannelStep, Invariance, PTL
DEF Spec, ImplementsChannel, AsChannel!CSpec
=============================================================================
