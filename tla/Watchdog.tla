------------------------------ MODULE Watchdog ------------------------------
(***************************************************************************)
(* What the active-test watchdog of a server connection promises, without  *)
(* goroutines, channels or packets (src/server/server.go, startActiveTest  *)
(* and serve).  The watchdog keeps a number of unanswered tests, raises an *)
(* alarm when there are N of them, and the link is given up by whoever     *)
(* hears the alarm.  It takes every answer for one to a test, so each      *)
(* answer in excess puts the alarm off by a test.  ServerConn implements   *)
(* this specification.                                                     *)
(***************************************************************************)
EXTENDS Integers

CONSTANT N    \* tests that may be unanswered before the alarm, at least one

VARIABLES
  unanswered,   \* tests sent less answers served
  surplus,      \* answers sent to no test
  alarm,        \* "quiet", "raised", or "off" once the watchdog is stopped
  link          \* "up", "closing" (no packet is served any more), "down"

wvars == <<unanswered, surplus, alarm, link>>

WTypeOK ==
  /\ surplus \in Nat /\ unanswered \in (-surplus)..N
  /\ alarm \in {"quiet", "raised", "off"}
  /\ link \in {"up", "closing", "down"}

WInit ==
  /\ unanswered = 0 /\ surplus = 0
  /\ alarm = "quiet"
  /\ link = "up"

\* A test leaves on a link that is not yet down.
Test ==
  /\ alarm = "quiet"
  /\ link # "down"
  /\ unanswered < N
  /\ unanswered' = unanswered + 1
  /\ UNCHANGED <<surplus, alarm, link>>

\* The other end answers what it was not asked.
Volunteer ==
  /\ surplus' = surplus + 1
  /\ UNCHANGED <<unanswered, alarm, link>>

\* An answer is taken off the count; the link may be given up on the way.
Answer ==
  /\ link = "up"
  /\ unanswered + surplus > 0
  /\ unanswered' = unanswered - 1
  /\ link' \in {"up", "closing"}
  /\ UNCHANGED <<surplus, alarm>>

Raise ==
  /\ alarm = "quiet"
  /\ unanswered = N
  /\ alarm' = "raised"
  /\ UNCHANGED <<unanswered, surplus, link>>

\* A raised alarm goes quiet in one way only: the link is given up.
Hear ==
  /\ alarm = "raised"
  /\ link = "up"
  /\ alarm' = "quiet"
  /\ link' = "closing"
  /\ UNCHANGED <<unanswered, surplus>>

Leave ==
  /\ link = "up"
  /\ link' = "closing"
  /\ UNCHANGED <<unanswered, surplus, alarm>>

Down ==
  /\ link = "closing"
  /\ link' = "down"
  /\ UNCHANGED <<unanswered, surplus, alarm>>

\* The watchdog retires only when the link is no longer served.
Stop ==
  /\ alarm = "quiet"
  /\ link # "up"
  /\ alarm' = "off"
  /\ UNCHANGED <<unanswered, surplus, link>>

WNext == Test \/ Volunteer \/ Answer \/ Raise \/ Hear \/ Leave \/ Down \/ Stop

WSpec == WInit /\ [][WNext]_wvars
=============================================================================
