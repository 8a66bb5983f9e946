------------------------------ MODULE Channel -------------------------------
(***************************************************************************)
(* What a pkg.Conn promises the goroutines that share it, without          *)
(* generators and unsynchronised reads (src/pkg/connection.go): packets go *)
(* out until the socket is shut, each with a number of its generator but   *)
(* for those that meet a Close under way, and whoever is told that the     *)
(* connection is closed may rely on the silence.  Conn implements this     *)
(* specification.                                                          *)
(***************************************************************************)
EXTENDS Integers

VARIABLES
  link,     \* "open", "closing" (some Close is under way), "shut"
  out,      \* packets that went out
  zeros,    \* those of them without a number
  told      \* a Close has returned

cvars == <<link, out, zeros, told>>

CInit == link = "open" /\ out = 0 /\ zeros = 0 /\ told = FALSE

Send ==
  /\ link # "shut"
  /\ out' = out + 1
  /\ UNCHANGED <<link, zeros, told>>

\* The generator is gone, the socket is not.
SendZero ==
  /\ link = "closing"
  /\ out' = out + 1 /\ zeros' = zeros + 1
  /\ UNCHANGED <<link, told>>

Begin ==
  /\ link = "open"
  /\ link' = "closing"
  /\ UNCHANGED <<out, zeros, told>>

Shut ==
  /\ link = "closing"
  /\ link' = "shut"
  /\ UNCHANGED <<out, zeros, told>>

Tell ==
  /\ link = "shut"
  /\ told' = TRUE
  /\ UNCHANGED <<link, out, zeros>>

CNext == Send \/ SendZero \/ Begin \/ Shut \/ Tell

CSpec == CInit /\ [][CNext]_cvars
=============================================================================
