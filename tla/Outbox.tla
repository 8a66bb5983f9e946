------------------------------- MODULE Outbox -------------------------------
(***************************************************************************)
(* What goes out on a connection and how it arrives: packets handed to     *)
(* SendPkt one by one (module Codec), and long texts that goroutines of    *)
(* the caller split with GetMsgPkgs and send part by part (module          *)
(* LongSms).  The goroutines share the package variable TpUdhiSeq, which   *)
(* SplitLongSms reads, loads and stores without a lock (utils.go:175-176). *)
(*                                                                         *)
(* SendPkt writes a packet in one Write, so packets of two goroutines do   *)
(* not mix; the parts of two texts do.  A behaviour either sends the       *)
(* packets of a script or long texts (a bound: the two do not interact).   *)
(***************************************************************************)
EXTENDS LongSms, Codec

CONSTANTS
  Senders,   \* goroutines that send long texts
  Lens,      \* the lengths of the texts, in bytes
  LongLens,  \* bound: lengths of texts that are sent alone
  Dests,     \* the numbers of destinations
  MaxTexts,  \* bound: texts sent
  FirstRefs, \* values TpUdhiSeq may have at first
  Scripts    \* bound: the sequences of other packets that may be sent

ASSUME OutboxAssumption ==
  /\ Lens \subseteq Nat /\ LongLens \subseteq Nat /\ Dests \subseteq 0..100
  /\ MaxTexts \in Nat /\ FirstRefs \subseteq 0..255

\* The packets of the scripts, as a caller fills them in: numbers as wide as
\* their type, octet strings of any length, texts without a zero byte, contents
\* of the length the packet has of them, reports with the fields of the
\* protocol, which end with a text of any length, and options made by NewTLV.
Packets == UNION {Range(script) : script \in Scripts}
Tags == {"LoginReq", "LoginResp", "SubmitReq", "SubmitResp", "DeliverReq",
         "DeliverResp", "QueryReq", "QueryResp", "ActiveTestReq",
         "ActiveTestResp", "ExitReq", "ExitResp"}
Suits(c, v) == /\ v \in {Value(v.len, v.zero), Unset(v.len)}
               /\ v.len \in Nat /\ v.zero \in 0..v.len
               /\ c.how = "text" => v.zero = v.len
               /\ c.how \in {"num", "raw"} => v.len = c.w
ReportWidths == [SubmitMsgID |-> 10, Sub |-> 3, Dlvrd |-> 3, SubmitDate |-> 10,
                 DoneDate |-> 10, Stat |-> 7, Err |-> 3]
IsReport(p) == /\ DOMAIN ReportWidths \cup {"Txt"} \subseteq DOMAIN p.val
               /\ \A f \in DOMAIN ReportWidths : p.val[f].len = ReportWidths[f]
               /\ p.val["Txt"].len \in Nat /\ p.text = 102 + p.val["Txt"].len
IsPacket(p) ==
  /\ p = [tag |-> p.tag, val |-> p.val, dests |-> p.dests, count |-> p.count,
          text |-> p.text, said |-> p.said, report |-> p.report, opts |-> p.opts]
  /\ p.tag \in Tags /\ p.val = [f \in DOMAIN p.val |-> p.val[f]]
  /\ p.dests \in Nat /\ p.count \in Nat /\ p.text \in Nat /\ p.said \in Nat
  /\ p.report \in BOOLEAN /\ (p.report => IsReport(p))
  /\ p.opts \in Seq(Nat)
  /\ p.tag \notin {"SubmitReq", "DeliverReq"} => p.opts = << >>
  /\ LET cells == PackCells(p)
     IN \A f \in DOMAIN p.val :
          /\ \E i \in 1..Len(cells) : cells[i].f = f
          /\ \A i \in 1..Len(cells) : cells[i].f = f => Suits(cells[i], p.val[f])

ASSUME ScriptsAssumption ==
  Scripts \subseteq Seq(Packets) /\ \A p \in Packets : IsPacket(p)

VARIABLES
  todo,      \* packets of the script still to be sent
  arrived,   \* for each packet sent, the packet and what the peer has read
  first,     \* TpUdhiSeq at first
  TpUdhiSeq,
  pc,        \* per sender: "idle", "header", "load", "store", "send"
  cur,       \* per sender: the text it sends, an index of texts
  loaded,    \* per sender: what TpUdhiSeq++ has loaded
  texts,     \* the texts begun: length, destinations, reference, parts out
  refs,      \* references in the order in which texts took them
  raced,     \* a sender began a read, load and store inside another's
  wire       \* the parts that are out, each with its text

scriptVars == <<todo, arrived>>
vars == <<scriptVars, first, TpUdhiSeq, pc, cur, loaded, texts, refs, raced,
          wire>>

Init ==
  /\ todo \in Scripts /\ arrived = << >>
  /\ first \in FirstRefs /\ TpUdhiSeq = first
  /\ pc = [s \in Senders |-> "idle"] /\ cur = [s \in Senders |-> 0]
  /\ loaded = [s \in Senders |-> 0]
  /\ texts = << >> /\ refs = << >> /\ raced = FALSE /\ wire = << >>

-----------------------------------------------------------------------------
\* SendPkt of the next packet, and RecvAndUnpackPkt at the peer: nothing goes
\* out when Pack returns an error.

SendPlain ==
  /\ todo # << >>
  /\ todo' = Tail(todo)
  /\ \E digest \in Digests, stamp \in Stamps :
       LET p == Head(todo)
           q == Packed(p, digest, stamp)
       IN arrived' = IF PackFails(q) THEN arrived
                     ELSE Append(arrived, [packet |-> p, got |-> Got(q)])
  /\ UNCHANGED <<first, TpUdhiSeq, pc, cur, loaded, texts, refs, raced, wire>>

-----------------------------------------------------------------------------
\* GetMsgPkgs and the loop that sends its packets

TextOf(len, dests) == [len |-> len, dests |-> dests, ref |-> 0, out |-> 0]

\* The caller has a text; SplitLongSms takes no reference for a short one.
Begin(s) ==
  /\ pc[s] = "idle" /\ todo = << >> /\ arrived = << >>
  /\ Len(texts) < MaxTexts
  /\ \A k \in 1..Len(texts) : texts[k].len \notin LongLens
  /\ \E len \in Lens \cup (IF texts = << >> THEN LongLens ELSE {}),
        dests \in Dests :
       /\ texts' = Append(texts, TextOf(len, dests))
       /\ pc' = [pc EXCEPT ![s] = IF NumParts(len) = 1 THEN "send" ELSE "header"]
  /\ cur' = [cur EXCEPT ![s] = Len(texts')]
  /\ UNCHANGED <<scriptVars, first, TpUdhiSeq, loaded, refs, raced, wire>>

InWindow(s) == pc[s] \in {"load", "store"}

\* The header literal reads TpUdhiSeq.
ReadRef(s) ==
  /\ pc[s] = "header"
  /\ texts' = [texts EXCEPT ![cur[s]].ref = TpUdhiSeq]
  /\ refs' = Append(refs, TpUdhiSeq)
  /\ raced' = (raced \/ \E o \in Senders : InWindow(o))
  /\ pc' = [pc EXCEPT ![s] = "load"]
  /\ UNCHANGED <<scriptVars, first, TpUdhiSeq, cur, loaded, wire>>

\* TpUdhiSeq++ loads it, and stores one more.
LoadRef(s) ==
  /\ pc[s] = "load"
  /\ loaded' = [loaded EXCEPT ![s] = TpUdhiSeq]
  /\ pc' = [pc EXCEPT ![s] = "store"]
  /\ UNCHANGED <<scriptVars, first, TpUdhiSeq, cur, texts, refs, raced, wire>>

\* An increment that does not wrap, and one that stops at 255.
StoreRef_unbounded(s) ==
  /\ pc[s] = "store"
  /\ TpUdhiSeq' = loaded[s] + 1
  /\ pc' = [pc EXCEPT ![s] = "send"]
  /\ UNCHANGED <<scriptVars, first, cur, loaded, texts, refs, raced, wire>>
StoreRef_saturated(s) ==
  /\ pc[s] = "store"
  /\ TpUdhiSeq' = IF loaded[s] = 255 THEN 255 ELSE loaded[s] + 1
  /\ pc' = [pc EXCEPT ![s] = "send"]
  /\ UNCHANGED <<scriptVars, first, cur, loaded, texts, refs, raced, wire>>

StoreRef(s) ==
  /\ pc[s] = "store"
  /\ TpUdhiSeq' = Byte(loaded[s] + 1)
  /\ pc' = [pc EXCEPT ![s] = "send"]
  /\ UNCHANGED <<scriptVars, first, cur, loaded, texts, refs, raced, wire>>

\* One packet of the slice GetMsgPkgs returned.
SendPart(s) ==
  /\ pc[s] = "send"
  /\ LET k == cur[s]
         t == texts[k]
         pkgs == GetMsgPkgs(t.len, t.ref)
     IN /\ wire' = Append(wire, [of |-> k, pkg |-> pkgs[t.out + 1]])
        /\ texts' = [texts EXCEPT ![k].out = t.out + 1]
        /\ pc' = [pc EXCEPT ![s] = IF t.out + 1 = Len(pkgs) THEN "idle"
                                   ELSE "send"]
  /\ UNCHANGED <<scriptVars, first, TpUdhiSeq, cur, loaded, refs, raced>>

Done ==
  /\ todo = << >> /\ \A s \in Senders : pc[s] = "idle"
  /\ Len(texts) = MaxTexts \/ arrived # << >>
     \/ \E k \in 1..Len(texts) : texts[k].len \in LongLens
  /\ UNCHANGED vars

Next ==
  \/ SendPlain
  \/ \E s \in Senders : Begin(s) \/ ReadRef(s) \/ LoadRef(s) \/ StoreRef(s)
                        \/ SendPart(s)
  \/ Done

Spec == Init /\ [][Next]_vars

-----------------------------------------------------------------------------
\* Properties of long texts

TextRec == [len : Nat, dests : 0..100, ref : 0..255, out : Nat]
Part == [chunk : [udh : Seq(0..255), from : Nat, to : Nat],
         MsgLength : 0..255, udhi : BOOLEAN,
         PkTotal : 0..255, PkNumber : 0..255]

TypeOK ==
  /\ first \in 0..255 /\ TpUdhiSeq \in 0..255
  /\ pc \in [Senders -> {"idle", "header", "load", "store", "send"}]
  /\ loaded \in [Senders -> 0..255]
  /\ texts \in Seq(TextRec)
  /\ cur \in [Senders -> 0..Len(texts)]
  /\ refs \in Seq(0..255) /\ raced \in BOOLEAN
  /\ wire \in Seq([of : Nat, pkg : Part])

\* As long as no SplitLongSms ran inside another's read, load and store of
\* TpUdhiSeq, the references are consecutive (utils.go:175-176): two texts
\* share one only when 256 others lie between.
RefsInOrder ==
  ~raced => \A i \in 1..Len(refs) : refs[i] = Byte(first + i - 1)

\* A part never is longer than a message may be, announces its own length in
\* a byte, and makes a packet the receiver takes, with up to a hundred
\* destinations (utils.go:161-190, submit.go:40, connection.go:158).
PartsFit ==
  \A i \in 1..Len(wire) :
    LET p == wire[i].pkg
    IN /\ ChunkLen(p.chunk) <= SmsLength /\ p.MsgLength = ChunkLen(p.chunk)
       /\ SubmitLen(texts[wire[i].of].dests, p.MsgLength, FourOptions)
            <= PacketMax

\* The parts that carry a reference are those of one text, numbered from one
\* to the total in header and options alike, and their bodies in the order of
\* the numbers are the text; no two-byte character is cut in two
\* (utils.go:161-233).  Only after a race can parts of two texts be mixed up.
MaxText == 255 * SmsBodyLen
Sharing(ref) == {i \in 1..Len(wire) : /\ wire[i].pkg.udhi
                                      /\ wire[i].pkg.chunk.udh[4] = ref}
TextsReassemble ==
  \A k \in 1..Len(texts) :
    LET t == texts[k]
        Mine == Sharing(t.ref)
        n == NumParts(t.len)
        Body(i) == wire[i].pkg.chunk
    IN ~raced /\ n > 1 /\ t.out = n /\ t.len <= MaxText =>
         /\ \A i \in Mine : wire[i].of = k
         /\ \A i \in Mine : /\ Body(i).udh[5] = n /\ wire[i].pkg.PkTotal = n
                            /\ Body(i).udh[6] = wire[i].pkg.PkNumber
         /\ \A no \in 1..n : \E i \in Mine :
              /\ Body(i).udh[6] = no
              /\ Body(i).from = 0 <=> no = 1
              /\ Body(i).to = t.len <=> no = n
              /\ no > 1 => \E j \in Mine : /\ Body(j).udh[6] = no - 1
                                           /\ Body(j).to = Body(i).from
              /\ t.len % 2 = 0 => Body(i).from % 2 = 0
-----------------------------------------------------------------------------
\* Properties of single packets

\* How much more a packet has of destinations and content than its counters
\* say.
Uncounted(p) ==
  CASE p.tag = "SubmitReq"  -> 21 * (p.dests - p.count) + (p.text - p.said)
    [] p.tag = "DeliverReq" -> p.text - p.said
    [] OTHER                -> 0

\* What the lengths of its options lose, each a uint16.
Lost(opts) == Sum([k \in 1..Len(opts) |-> 65536 * (opts[k] \div 65536)])

\* The length in the header falls short of what Pack writes by just what the
\* caller's counters leave out and by what the length of an option loses
\* (submit.go:40, deliver.go:80, types.go:81): nothing else puts the stream out
\* of step.  The options are as far from where Unpack looks for
\* them, but never does it look beyond the body that was announced, where the
\* slice would panic (submit.go:106, deliver.go:129).
StaysInStep ==
  \A i \in 1..Len(arrived) :
    LET p == arrived[i].packet
    IN /\ Written(p) - Announced(p) = Uncounted(p) + Lost(p.opts)
       /\ p.tag \in {"SubmitReq", "DeliverReq"} =>
            /\ Width(PackCells(p)) - OptionsAt(p) = Uncounted(p)
            /\ OptionsAt(p) <= Announced(p) - HeaderLen

\* A packet whose counters tell its lengths, that the receiver takes.
Counted(p) == /\ p.dests = p.count /\ p.text = p.said
              /\ \A k \in 1..Len(p.opts) : p.opts[k] < 65536
              /\ Announced(p) <= PacketMax

\* The fields that do not arrive as the caller filled them in, and how they do:
\* both authenticators, which are Pack's own (login.go:44, 115); the client's
\* id, in eight bytes (login.go:39); a time left out (login.go:41); and message
\* ids, in ten bytes (submit.go:161, deliver.go:174), in a deliver up to their
\* first zero byte (deliver.go:110).
Altered(tag, f, v, a) ==
  \/ f \in Authenticators /\ a \in Digests
  \/ f = "ClientID" /\ a = Fit(v, 8)
  \/ f = "TimeStamp" /\ v.by = "nobody" /\ a \in Stamps
  \/ f = "MsgID" /\ tag # "DeliverReq" /\ a = Fit(v, 10)
  \/ f = "MsgID" /\ tag = "DeliverReq" /\ a = UpToZero(Fit(v, 10))

\* A packet that goes out arrives as the type it is, with every field as the
\* caller filled it in: a text of the full width of its cell, a number with zero
\* bytes, the fields of a report in its content too.  The exceptions are exit
\* packets (exit.go:26) and the fields of Altered.
FieldsArrive ==
  \A i \in 1..Len(arrived) :
    LET p == arrived[i].packet
        g == arrived[i].got
    IN Counted(p) =>
         /\ g.tag = p.tag \/ p.tag \in {"ExitReq", "ExitResp"}
         /\ \A f \in DOMAIN p.val :
              g.val[f] = p.val[f] \/ Altered(p.tag, f, p.val[f], g.val[f])

\* What a packet is for: it arrives as its type and with its fields
\* ("smgp exit request packet", server.go:249; "10*2" digits, utils.go:90).
SessionArrives ==
  todo = << >> => \A i \in 1..Len(arrived) :
                    /\ arrived[i].got.tag = arrived[i].packet.tag
                    /\ arrived[i].got.val = arrived[i].packet.val
=============================================================================
