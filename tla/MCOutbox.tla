------------------------------ MODULE MCOutbox ------------------------------
(* Values of the constants of Outbox for TLC. *)
EXTENDS Outbox, TLC

CONSTANTS g1, g2
MCSenders == {g1, g2}
MCSymmetry == Permutations(MCSenders)
\* One, two and three parts, the last of one byte or full; 255 parts.
MCLens == {140, 141, 402}
MCLongLens == {255 * 134}
MCDests == {1, 100}
MCFirstRefs == {0, 254}

\* The widths of the fields, as the protocol gives them.
Widths(tag) ==
  LET cells == PackCells([tag |-> tag, dests |-> 1, count |-> 1, text |-> 60,
                          said |-> 60, report |-> FALSE, opts |-> << >>])
  IN [f \in {cells[i].f : i \in 1..Len(cells)} |->
        cells[CHOOSE i \in 1..Len(cells) : cells[i].f = f].w]
Octets == {"MsgID", "AuthenticatorClient", "AuthenticatorServer"}
Binary == Octets \cup {"SubmitMsgID"}
Report == ReportWidths @@ [Txt |-> 20]
NoReport == 60
ReportLen == 102 + 20

Blank(tag) == [tag |-> tag, val |-> << >>, dests |-> 1, count |-> 1,
               text |-> NoReport, said |-> NoReport, report |-> FALSE,
               opts |-> IF tag \in {"SubmitReq", "DeliverReq"} THEN <<1, 1>>
                        ELSE << >>]
Filled(tag) ==
  [Blank(tag) EXCEPT !.val = [f \in DOMAIN Widths(tag) |->
                                Value(Widths(tag)[f], Widths(tag)[f])]]
ReportPkt ==
  LET w == Report @@ [f \in DOMAIN Widths("DeliverReq") \ {"MsgContent"} |->
                        Widths("DeliverReq")[f]]
  IN [Blank("DeliverReq") EXCEPT
        !.val = [f \in DOMAIN w |-> Value(w[f], w[f])], !.report = TRUE,
        !.text = ReportLen, !.said = ReportLen]

\* A packet with another value in one field: an empty, a shorter or a too long
\* text or octet string, a binary value with a zero byte, a time left out.
Odd(p) ==
  LET Of(f) == p.val[f].len
      Texts == {f \in DOMAIN p.val : \E i \in 1..Len(PackCells(p)) :
                  PackCells(p)[i].f = f /\ PackCells(p)[i].how = "text"}
  IN {[p EXCEPT !.val[f] = Value(n, n)] :
        f \in Texts \cup (Octets \cap DOMAIN p.val), n \in {0, 1, 7, 22}}
     \cup {[p EXCEPT !.val[f].zero = n] : f \in Binary \cap DOMAIN p.val, n \in {0, 9}}
     \cup {[p EXCEPT !.val[f] = Unset(4)] : f \in {"TimeStamp"} \cap DOMAIN p.val}

Submits == {[Filled("SubmitReq") EXCEPT !.dests = d, !.count = c, !.opts = o] :
              d \in {2, 100}, c \in {0, 2, 100},
              o \in {<< >>, <<20, 1>>, <<65535>>, <<65537, 1>>}}
MCPackets == UNION {{Filled(t)} \cup Odd(Filled(t)) : t \in Tags}
             \cup {ReportPkt} \cup Odd(ReportPkt)
             \cup {[p EXCEPT !.said = 59] : p \in {Filled("SubmitReq"), ReportPkt}}
             \cup Submits
MCScripts == {<<p>> : p \in MCPackets} \cup {<< >>}

\* A status report whose gateway code has a zero byte, and the end of a session.
MCSession == {<<[ReportPkt EXCEPT !.val["MsgID"].zero = 0], Filled("ExitReq")>>}
=============================================================================
