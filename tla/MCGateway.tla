----------------------------- MODULE MCGateway ------------------------------
(* Values of Gateway for TLC: the code of the documentation's example, a     *)
(* minute with a zero field, generators that begin one apart, just before    *)
(* the end of the range, and submits to two destinations.                    *)
EXTENDS Gateway

CONSTANTS c1, c2
MCClients == {c1, c2}
MCSpIds == {10061}
MCClock == {<<1, 16, 17, 0>>}
MCStarts == {999997, 999998}
MCDests == {2}
=============================================================================
