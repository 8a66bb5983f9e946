------------------------------- MODULE MCConn -------------------------------
(* Model values and symmetry of Conn for TLC.                                *)
EXTENDS Conn, TLC

CONSTANTS u1, u2, c1, c2

MCUsers == {u1, u2}
MCClosers == {c1, c2}
=============================================================================
