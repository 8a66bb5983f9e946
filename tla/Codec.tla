------------------------------- MODULE Codec --------------------------------
(***************************************************************************)
(* Pack and Unpack of every packet of src/pkg, as the cells they write and *)
(* read one after the other.                                               *)
(*                                                                         *)
(* A value is its number of bytes, the number of them before the first     *)
(* zero byte, and who filled it in: the caller, nobody (it is zero or      *)
(* empty) or Pack itself.  A packet is                                     *)
(*   tag     its type,                                                     *)
(*   val     the values of its fields, by name,                            *)
(*   dests, count   len(DestTermID) and DestTermIDCount of a submit,       *)
(*   text, said     len(MsgContent) and MsgLength of a submit or deliver,  *)
(*   report  IsReport = 1: the content is an encoded report,               *)
(*   opts    the lengths of the values of its options.                     *)
(***************************************************************************)
EXTENDS Integers, Sequences, SequencesExt

Value(len, zero) == [len |-> len, zero |-> zero, by |-> "caller"]
Unset(len) == [len |-> len, zero |-> 0, by |-> "nobody"]
Made(len, zero) == [len |-> len, zero |-> zero, by |-> "Pack"]
Garbled == Value(-1, -1)
HasZero(v) == v.zero < v.len

\* A value padded with zeros or cut to w bytes.
Fit(v, w) == [v EXCEPT !.len = w, !.zero = IF v.zero < w THEN v.zero ELSE w]

\* A cell: the field, its width, and how it is written or read.
\*   num   WriteByte, WriteInt; ReadByte, ReadInt
\*   text  WriteFixedSizeString; ReadCString
\*   bin   OctetString.Byte, WriteBytes of a slice of the width; ReadBytes
\*   raw   WriteString or WriteBytes of a value of any length; ReadBytes
Num(f, w)  == [f |-> f, w |-> w, how |-> "num"]
Text(f, w) == [f |-> f, w |-> w, how |-> "text"]
Bin(f, w)  == [f |-> f, w |-> w, how |-> "bin"]
Raw(f, w)  == [f |-> f, w |-> w, how |-> "raw"]

HeaderLen == 12
Sum(ws) == LET upto[i \in 0..Len(ws)] == IF i = 0 THEN 0
                                          ELSE upto[i - 1] + ws[i]
           IN upto[Len(ws)]
Width(cells) == Sum([i \in 1..Len(cells) |-> cells[i].w])

\* Options.Len, from the Length of each TLV, which NewTLV makes a uint16, and
\* what TLV.Byte writes, which is all of the value.
OptionsLen(opts) == Sum([i \in 1..Len(opts) |-> 2 + 2 + (opts[i] % 65536)])
OptionsWidth(opts) == Sum([i \in 1..Len(opts) |-> 2 + 2 + opts[i]])

-----------------------------------------------------------------------------
\* What Pack writes after the header

\* SmgpDeliverMsgContent.Encode: labels and values, with no padding.
EncodeReport(p) ==
  LET Of(f) == Raw(f, p.val[f].len)
  IN << Raw("", 3), Of("SubmitMsgID"), Raw("", 5), Of("Sub"),
        Raw("", 7), Of("Dlvrd"), Raw("", 13), Of("SubmitDate"),
        Raw("", 11), Of("DoneDate"), Raw("", 6), Of("Stat"),
        Raw("", 5), Of("Err"), Raw("", 6), Of("Txt") >>

PackSubmit(p) ==
  << Num("MsgType", 1), Num("NeedReport", 1), Num("Priority", 1),
     Text("ServiceID", 10), Text("FeeType", 2), Text("FeeCode", 6),
     Text("FixedFee", 6), Num("MsgFormat", 1), Text("ValidTime", 17),
     Text("AtTime", 17), Text("SrcTermID", 21), Text("ChargeTermID", 21),
     Num("DestTermIDCount", 1) >>
  \o [i \in 1..p.dests |-> Text("DestTermID", 21)]
  \o << Num("MsgLength", 1), Raw("MsgContent", p.text), Text("Reserve", 8) >>

PackDeliver(p) ==
  << Bin("MsgID", 10), Num("IsReport", 1), Num("MsgFormat", 1),
     Text("RecvTime", 14), Text("SrcTermID", 21), Text("DestTermID", 21),
     Num("MsgLength", 1) >>
  \o (IF p.report THEN EncodeReport(p) ELSE << Raw("MsgContent", p.text) >>)
  \o << Text("Reserve", 8) >>

PackLogin ==
  << Text("ClientID", 8), Bin("AuthenticatorClient", 16), Num("LoginMode", 1),
     Num("TimeStamp", 4), Num("ClientVersion", 1) >>
PackLoginResp ==
  << Num("Status", 4), Bin("AuthenticatorServer", 16), Num("ServerVersion", 1) >>
PackSubmitResp  == << Bin("MsgID", 10), Num("Status", 4) >>
PackDeliverResp == << Bin("MsgID", 10), Num("Status", 4) >>
PackQuery ==
  << Text("QueryTime", 8), Num("QueryType", 1), Text("QueryCode", 10) >>
PackQueryResp ==
  << Text("QueryTime", 8), Num("QueryType", 1), Text("QueryCode", 10),
     Num("MT_TLMsg", 4), Num("MT_Tlusr", 4), Num("MT_Scs", 4), Num("MT_WT", 4),
     Num("MT_FL", 4), Num("MO_Scs", 4), Num("MO_WT", 4), Num("MO_FL", 4),
     Text("Reserve", 8) >>

PackCells(p) == CASE p.tag = "SubmitReq"   -> PackSubmit(p)
                  [] p.tag = "DeliverReq"  -> PackDeliver(p)
                  [] p.tag = "LoginReq"    -> PackLogin
                  [] p.tag = "LoginResp"   -> PackLoginResp
                  [] p.tag = "SubmitResp"  -> PackSubmitResp
                  [] p.tag = "DeliverResp" -> PackDeliverResp
                  [] p.tag = "QueryReq"    -> PackQuery
                  [] p.tag = "QueryResp"   -> PackQueryResp
                  [] OTHER                 -> << >>

\* The length Pack announces in the header: from the two counters, not from
\* what it writes.
Announced_faulty(p) == HeaderLen + Width(PackCells(p))
Announced(p) ==
  CASE p.tag = "SubmitReq" ->
         HeaderLen + 114 + p.count * 21 + p.said + OptionsLen(p.opts)
    [] p.tag = "DeliverReq" -> HeaderLen + 77 + p.said + OptionsLen(p.opts)
    [] p.tag = "LoginReq"   -> HeaderLen + 8 + 16 + 1 + 4 + 1
    [] p.tag = "LoginResp"  -> HeaderLen + 4 + 16 + 1
    [] p.tag \in {"SubmitResp", "DeliverResp"} -> HeaderLen + 10 + 4
    [] p.tag = "QueryReq"   -> HeaderLen + 8 + 1 + 10
    [] p.tag = "QueryResp"  -> HeaderLen + 8 + 1 + 10 + 4 * 8 + 8
    [] OTHER                -> HeaderLen
Written(p) == HeaderLen + Width(PackCells(p)) + OptionsWidth(p.opts)

\* What Pack changes in the packet before it writes it: a login pads or cuts
\* its ClientID, takes the time when it has none and an MD5 sum of its own for
\* an authenticator, its response a sum of its own as well.  The sum and the
\* time may have a zero byte anywhere.
Digests == {Made(16, z) : z \in 0..16}
Stamps == {Made(4, z) : z \in 0..4}
Authenticators == {"AuthenticatorClient", "AuthenticatorServer"}
PackedField(f, v, digest, stamp) ==
  CASE f \in Authenticators -> digest
    [] f = "ClientID" -> Fit(v, 8)
    [] f = "TimeStamp" /\ v.by = "nobody" -> stamp
    [] OTHER -> v
Packed(p, digest, stamp) ==
  [p EXCEPT !.val = [f \in DOMAIN p.val |->
                       PackedField(f, p.val[f], digest, stamp)]]

\* Pack refuses a text longer than its cell.
PackFails(p) == \E i \in 1..Len(PackCells(p)) :
                  LET c == PackCells(p)[i]
                  IN c.how = "text" /\ p.val[c.f].len > c.w

\* The request id in the header.
PackTag(tag) == CASE tag = "ExitReq"  -> "ActiveTestReq"
                  [] tag = "ExitResp" -> "ActiveTestResp"
                  [] OTHER            -> tag
-----------------------------------------------------------------------------
\* What Unpack reads

\* DecodeDeliverMsgContent: slices at fixed places, the last one open.
DecodeReport(said) ==
  << Raw("", 3), Raw("SubmitMsgID", 10), Raw("", 5), Raw("Sub", 3),
     Raw("", 7), Raw("Dlvrd", 3), Raw("", 13), Raw("SubmitDate", 10),
     Raw("", 11), Raw("DoneDate", 10), Raw("", 6), Raw("Stat", 7),
     Raw("", 5), Raw("Err", 3), Raw("", 6), Raw("Txt", said - 102) >>

UnpackSubmit(p) ==
  << Num("MsgType", 1), Num("NeedReport", 1), Num("Priority", 1),
     Text("ServiceID", 10), Text("FeeType", 2), Text("FeeCode", 6),
     Text("FixedFee", 6), Num("MsgFormat", 1), Text("ValidTime", 17),
     Text("AtTime", 17), Text("SrcTermID", 21), Text("ChargeTermID", 21),
     Num("DestTermIDCount", 1) >>
  \o [i \in 1..p.count |-> Text("DestTermID", 21)]
  \o << Num("MsgLength", 1), Raw("MsgContent", p.said), Text("Reserve", 8) >>

UnpackDeliver(p) ==
  << Text("MsgID", 10), Num("IsReport", 1), Num("MsgFormat", 1),
     Text("RecvTime", 14), Text("SrcTermID", 21), Text("DestTermID", 21),
     Num("MsgLength", 1) >>
  \o (IF p.report THEN DecodeReport(p.said) ELSE << Raw("MsgContent", p.said) >>)
  \o << Text("Reserve", 8) >>

UnpackLogin ==
  << Bin("ClientID", 8), Bin("AuthenticatorClient", 16), Num("LoginMode", 1),
     Num("TimeStamp", 4), Num("ClientVersion", 1) >>
UnpackLoginResp ==
  << Num("Status", 4), Bin("AuthenticatorServer", 16), Num("ServerVersion", 1) >>
UnpackSubmitResp  == << Bin("MsgID", 10), Num("Status", 4) >>
UnpackDeliverResp == << Bin("MsgID", 10), Num("Status", 4) >>
UnpackQuery ==
  << Text("QueryTime", 8), Num("QueryType", 1), Text("QueryCode", 10) >>
UnpackQueryResp ==
  << Text("QueryTime", 8), Num("QueryType", 1), Text("QueryCode", 10),
     Num("MT_TLMsg", 4), Num("MT_Tlusr", 4), Num("MT_Scs", 4), Num("MT_WT", 4),
     Num("MT_FL", 4), Num("MO_Scs", 4), Num("MO_WT", 4), Num("MO_FL", 4),
     Text("Reserve", 8) >>

UnpackCells(p) == CASE p.tag = "SubmitReq"   -> UnpackSubmit(p)
                    [] p.tag = "DeliverReq"  -> UnpackDeliver(p)
                    [] p.tag = "LoginReq"    -> UnpackLogin
                    [] p.tag = "LoginResp"   -> UnpackLoginResp
                    [] p.tag = "SubmitResp"  -> UnpackSubmitResp
                    [] p.tag = "DeliverResp" -> UnpackDeliverResp
                    [] p.tag = "QueryReq"    -> UnpackQuery
                    [] p.tag = "QueryResp"   -> UnpackQueryResp
                    [] OTHER                 -> << >>

\* Where Unpack looks for the options: a sum of its own in the code.
OptionsAt(p) ==
  IF p.tag = "SubmitReq"
  THEN 1 + 1 + 1 + 10 + 2 + 6 + 6 + 1 + 17 + 17 + 21 + 21 + 1
       + 21 * p.count + 1 + p.said + 8
  ELSE 10 + 1 + 1 + 14 + 21 + 21 + 1 + p.said + 8

\* Where a cell begins.
At(cells, i) == Width(SubSeq(cells, 1, i - 1))

\* The bytes of a value in its cell, padded with zeros or cut to the width,
\* and what a reader of the cell makes of them.
InCell_faulty(c, v) == IF c.how = "raw" THEN v
                       ELSE [Fit(v, c.w) EXCEPT
                               !.zero = IF v.zero < c.w THEN v.zero ELSE c.w - 1]
InCell(c, v) == IF c.how = "raw" THEN v ELSE Fit(v, c.w)
UpToZero(v) == [v EXCEPT !.len = v.zero]
ReadCell(c, v) == IF c.how = "text" THEN UpToZero(v) ELSE v

\* The value Unpack finds in cell j of its own: the one Pack wrote to just
\* these bytes, if it wrote one to just these bytes.
Arrives(p, j) ==
  LET from == PackCells(p)
      to == UnpackCells(p)
      Same == {i \in 1..Len(from) : /\ from[i].f = to[j].f
                                    /\ from[i].w = to[j].w
                                    /\ At(from, i) = At(to, j)}
  IN IF Same = {} THEN Garbled
     ELSE ReadCell(to[j], InCell(from[CHOOSE i \in Same : TRUE],
                                 p.val[to[j].f]))

\* The packet Unpack makes of what Pack wrote of p.  Of several destinations
\* the last is looked at.
Got(p) ==
  [tag |-> PackTag(p.tag),
   val |-> [f \in DOMAIN p.val |->
              LET Of == {j \in 1..Len(UnpackCells(p)) : UnpackCells(p)[j].f = f}
              IN IF Of = {} THEN Garbled
                 ELSE Arrives(p, CHOOSE j \in Of : \A k \in Of : k <= j)]]
=============================================================================
