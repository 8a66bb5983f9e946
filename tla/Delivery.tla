------------------------------ MODULE Delivery ------------------------------
(***************************************************************************)
(* What RecvAndUnpackPkt promises the loop that calls it, without units,   *)
(* buffers or deadlines (src/pkg/connection.go): the packets of the        *)
(* stream, one after the other, until the stream ends.  A caller that goes *)
(* on after a timeout may lose its place in the stream, once and for all,  *)
(* and take for packets what are none.  RecvPkt implements this            *)
(* specification.                                                          *)
(***************************************************************************)
EXTENDS Integers, Sequences

CONSTANT Pkts     \* packets of the stream

VARIABLES
  caller,   \* "serve" goes on after a timeout, "client" does not
  taken,    \* packets handed to the caller; 0 is one the peer never sent
  stream    \* "whole", "cut" inside a header, or "ended"

dvars == <<caller, taken, stream>>

DInit == caller \in {"serve", "client"} /\ taken = << >> /\ stream = "whole"

\* The next packet, and no other.
Take ==
  /\ stream = "whole" /\ Len(taken) < Pkts
  /\ taken' = Append(taken, Len(taken) + 1)
  /\ UNCHANGED <<caller, stream>>

Cut ==
  /\ stream = "whole" /\ caller = "serve"
  /\ stream' = "cut"
  /\ UNCHANGED <<caller, taken>>

\* Anything, of a stream that was cut.
TakeAny ==
  /\ stream = "cut"
  /\ \E k \in 0..Pkts : taken' = Append(taken, k)
  /\ UNCHANGED <<caller, stream>>

End ==
  /\ stream # "ended"
  /\ stream' = "ended"
  /\ UNCHANGED <<caller, taken>>

DNext == Take \/ Cut \/ TakeAny \/ End

DSpec == DInit /\ [][DNext]_dvars
=============================================================================
