---------------------------- MODULE MCServerConn ----------------------------
(* Model values of ServerConn for TLC.                                       *)
EXTENDS ServerConn

MCTags == {"SubmitReq", "ExitReq", "Bad"}
MCFewTags == {"SubmitReq"}
=============================================================================
