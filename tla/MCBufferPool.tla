---------------------------- MODULE MCBufferPool ----------------------------
(* Model values and symmetry of BufferPool for TLC.                          *)
EXTENDS BufferPool, TLC

CONSTANTS s1, s2, b1, b2, b3

MCConns == {s1, s2}
MCBufs == {b1, b2, b3}
MCSymmetry == Permutations(MCConns) \cup Permutations(MCBufs)
=============================================================================
