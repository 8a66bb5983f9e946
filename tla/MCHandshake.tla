---------------------------- MODULE MCHandshake -----------------------------
(* Model values of Handshake for TLC.                                       *)
EXTENDS Handshake

MCNames == {"us", "other"}
MCLens == {3, 8}
MCSecrets == {"agreed", "guess"}
MCVersions == {30, 20}
=============================================================================
