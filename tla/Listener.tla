------------------------------ MODULE Listener ------------------------------
(***************************************************************************)
(* The accept loop of src/server/server.go: Serve takes one connection     *)
(* after the other from the listener, waits longer and longer while Accept *)
(* fails for reasons that may pass, and returns on any other error.        *)
(* Delays are in milliseconds.                                             *)
(***************************************************************************)
EXTENDS Integers, Sequences

CONSTANTS
  Clients,   \* connections that may be made
  MaxFails   \* bound: temporary failures one after the other

ASSUME ListenerAssumption == MaxFails \in Nat

VARIABLES
  lpc,        \* "accept", "sleep", "returned"
  tempDelay,
  fails,      \* temporary failures since the last connection was taken
  backlog,    \* connections made and not yet accepted, oldest first
  served      \* those a serve goroutine was started for

lisVars == <<lpc, tempDelay, fails, backlog, served>>

LInit ==
  /\ lpc = "accept" /\ tempDelay = 0 /\ fails = 0
  /\ backlog = << >> /\ served = {}

FirstDelay == 5
MaxDelay == 1000

\* A client connects; the listener is closed when Serve has returned.
Knock(c) ==
  /\ lpc # "returned" /\ c \notin served
  /\ \A i \in 1..Len(backlog) : backlog[i] # c
  /\ backlog' = Append(backlog, c)
  /\ UNCHANGED <<lpc, tempDelay, fails, served>>

\* Accept returns the oldest connection; newConn never fails, and a serve
\* goroutine is started.  The faulty one keeps the delay.
AcceptOK_faulty ==
  /\ lpc = "accept" /\ backlog # << >>
  /\ fails' = 0
  /\ backlog' = Tail(backlog) /\ served' = served \cup {Head(backlog)}
  /\ UNCHANGED <<lpc, tempDelay>>
AcceptOK ==
  /\ lpc = "accept" /\ backlog # << >>
  /\ tempDelay' = 0 /\ fails' = 0
  /\ backlog' = Tail(backlog) /\ served' = served \cup {Head(backlog)}
  /\ UNCHANGED lpc

\* Accept fails with a net.Error that is temporary (a bound: as long as a
\* connection is still to come).
AcceptTemporary ==
  /\ lpc = "accept" /\ fails < MaxFails /\ served # Clients
  /\ LET longer == IF tempDelay = 0 THEN FirstDelay ELSE tempDelay * 2
     IN tempDelay' = IF longer > MaxDelay THEN MaxDelay ELSE longer
  /\ fails' = fails + 1 /\ lpc' = "sleep"
  /\ UNCHANGED <<backlog, served>>

Wake_faulty ==
  /\ lpc = "sleep" /\ tempDelay < MaxDelay
  /\ lpc' = "accept"
  /\ UNCHANGED <<tempDelay, fails, backlog, served>>
Wake ==
  /\ lpc = "sleep"
  /\ lpc' = "accept"
  /\ UNCHANGED <<tempDelay, fails, backlog, served>>

\* Any other error: Serve returns and closes the listener, which resets the
\* connections that wait.  Those that are served go on as long as the program
\* does (Gateway!Exit).
AcceptFatal ==
  /\ lpc = "accept"
  /\ lpc' = "returned" /\ backlog' = << >>
  /\ UNCHANGED <<tempDelay, fails, served>>

-----------------------------------------------------------------------------
\* Properties

ListenerTypes ==
  /\ lpc \in {"accept", "sleep", "returned"}
  /\ tempDelay \in 0..MaxDelay /\ fails \in Nat
  /\ backlog \in Seq(Clients) /\ served \subseteq Clients

\* FirstDelay, doubled k times.
Doubled[k \in 0..MaxFails] == IF k = 0 THEN FirstDelay ELSE 2 * Doubled[k - 1]

\* The delay after k failures in a row is 5, 10, 20, ... milliseconds, at most
\* a second, and none is left over from failures before the last connection
\* (server.go:70-88).
BackoffRight ==
  tempDelay = IF fails = 0 THEN 0
              ELSE IF Doubled[fails - 1] > MaxDelay THEN MaxDelay
              ELSE Doubled[fails - 1]

\* A connection that waits is taken, or the listener has failed: failures that
\* pass keep nobody out for ever (server.go:74-84).
Waits(c) == \E i \in 1..Len(backlog) : backlog[i] = c
KnockServed == \A c \in Clients : Waits(c) ~> (c \in served \/ lpc = "returned")
=============================================================================
