---------------------------- MODULE OutboxProofs ----------------------------
(***************************************************************************)
(* Theorems about LongSms, Codec and Outbox for every text, every number   *)
(* of senders and texts, every first reference and every packet: long      *)
(* texts first, then single packets.                                       *)
(***************************************************************************)
EXTENDS Outbox, SeqFacts, FiniteSetTheorems, TLAPS

-----------------------------------------------------------------------------
(* Splitting a text *)

\* The quotient rounded up, as bounds.
LEMMA NumPartsBounds ==
  ASSUME NEW len \in Nat
  PROVE  /\ NumParts(len) \in Nat \ {0}
         /\ len <= SmsLength <=> NumParts(len) = 1
         /\ NumParts(len) > 1 => /\ (NumParts(len) - 1) * 134 < len
                                 /\ len <= NumParts(len) * 134
<1>1. CASE len <= 140
  BY <1>1 DEF NumParts, SmsLength
<1>2. CASE len > 140
  <2> DEFINE n == (len + 133) \div 134
  <2>1. /\ n \in Int /\ n * 134 <= len + 133 /\ len + 133 < (n + 1) * 134
    OBVIOUS
  <2>2. NumParts(len) = n
    BY <1>2 DEF NumParts, SmsLength, SmsBodyLen, SmsHeaderLength
  <2> HIDE DEF n
  <2>3. n > 1 /\ (n - 1) * 134 < len /\ len <= n * 134
    BY <1>2, <2>1
  <2>4. QED
    BY <1>2, <2>1, <2>2, <2>3 DEF SmsLength
<1>3. QED
  BY <1>1, <1>2

\* The body of part i of a text of several parts: 134 bytes, but for the last,
\* which has the one to 134 bytes that are left.
LEMMA BodyBounds ==
  ASSUME NEW len \in Nat, NumParts(len) > 1, NEW i \in 1..NumParts(len)
  PROVE  /\ EndOfPart(len, i) \in Nat
         /\ EndOfPart(len, i) - (i - 1) * 134 \in 1..134
         /\ EndOfPart(len, i) = len <=> i = NumParts(len)
         /\ i < NumParts(len) => EndOfPart(len, i) = i * 134
<1> DEFINE n == NumParts(len)
<1>1. /\ n \in Nat /\ (n - 1) * 134 < len /\ len <= n * 134 /\ i \in 1..n
  BY NumPartsBounds
<1>2. EndOfPart(len, i) = IF i * 134 > len THEN len ELSE i * 134
  BY DEF EndOfPart, SmsBodyLen, SmsLength, SmsHeaderLength
<1> HIDE DEF n
<1>3. CASE i < n
  <2>1. i * 134 <= (n - 1) * 134 /\ i * 134 < len
    BY <1>1, <1>3
  <2>2. QED
    BY <1>1, <1>2, <1>3, <2>1 DEF n
<1>4. CASE i = n
  <2>1. EndOfPart(len, i) = len
    BY <1>1, <1>2, <1>4
  <2>2. QED
    BY <1>1, <1>4, <2>1 DEF n
<1>5. QED
  BY <1>1, <1>3, <1>4

LEMMA NumberOfParts ==
  ASSUME NEW len \in Nat, NEW ref \in 0..255
  PROVE  /\ Len(SplitLongSms(len, ref)) = NumParts(len)
         /\ Len(GetMsgPkgs(len, ref)) = NumParts(len)
<1>1. NumParts(len) \in Nat
  BY NumPartsBounds
<1>2. Len(SplitLongSms(len, ref)) = NumParts(len)
  BY <1>1 DEF SplitLongSms
<1>3. QED
  BY <1>1, <1>2 DEF GetMsgPkgs

\* The chunks of SplitLongSms are the text, cut without a gap or an overlap
\* and none of them empty, each with its number and the total while a byte
\* can hold them (utils.go:161-190).
THEOREM SplitCovers ==
  ASSUME NEW len \in Nat, NEW ref \in 0..255, NumParts(len) > 1
  PROVE  LET c == SplitLongSms(len, ref)
             n == NumParts(len)
         IN /\ c[1].from = 0 /\ c[n].to = len
            /\ \A i \in 1..n : c[i].from < c[i].to
            /\ \A i \in 1..(n - 1) : c[i + 1].from = c[i].to
            /\ len <= MaxText =>
                 \A i \in 1..n : c[i].udh = <<5, 0, 3, ref, n, i>>
<1> DEFINE c == SplitLongSms(len, ref)
           n == NumParts(len)
<1>1. n \in Nat /\ n > 1 /\ (n - 1) * 134 < len
  BY NumPartsBounds
<1>2. \A i \in 1..n : /\ c[i].from = (i - 1) * 134
                      /\ c[i].to = EndOfPart(len, i)
                      /\ c[i].udh = <<5, 0, 3, ref, Byte(n), Byte(i)>>
  BY <1>1 DEF SplitLongSms, SmsBodyLen, SmsLength, SmsHeaderLength
<1>3. \A i \in 1..n : /\ EndOfPart(len, i) \in Nat
                      /\ EndOfPart(len, i) - (i - 1) * 134 \in 1..134
                      /\ EndOfPart(len, i) = len <=> i = n
                      /\ i < n => EndOfPart(len, i) = i * 134
  BY BodyBounds
<1> HIDE DEF c, n
<1>4. c[1].from = 0 /\ c[n].to = len
  BY <1>1, <1>2, <1>3
<1>5. ASSUME NEW i \in 1..n
      PROVE  c[i].from < c[i].to
  BY <1>1, <1>2, <1>3
<1>6. ASSUME NEW i \in 1..(n - 1)
      PROVE  c[i + 1].from = c[i].to
  BY <1>1, <1>2, <1>3
<1>7. ASSUME len <= MaxText, NEW i \in 1..n
      PROVE  c[i].udh = <<5, 0, 3, ref, n, i>>
  <2>1. n <= 255
    BY <1>1, <1>7 DEF MaxText, SmsBodyLen, SmsLength, SmsHeaderLength
  <2>2. Byte(n) = n /\ Byte(i) = i
    BY <1>1, <2>1 DEF Byte
  <2>3. QED
    BY <1>2, <2>2
<1>8. QED
  BY <1>4, <1>5, <1>6, <1>7 DEF c, n

LEMMA ByteType == \A m \in Nat : Byte(m) \in 0..255
BY DEF Byte

\* A chunk and its length.
LEMMA ChunkBounds ==
  ASSUME NEW len \in Nat, NEW ref \in 0..255, NEW i \in 1..NumParts(len)
  PROVE  /\ SplitLongSms(len, ref)[i]
              \in [udh : Seq(0..255), from : Nat, to : Nat]
         /\ ChunkLen(SplitLongSms(len, ref)[i]) \in 0..140
<1> DEFINE n == NumParts(len)
           c == SplitLongSms(len, ref)[i]
<1>1. n \in Nat \ {0}
  BY NumPartsBounds
<1>2. CASE n = 1
  <2>1. len \in 0..140
    BY <1>2, NumPartsBounds DEF SmsLength
  <2>2. i = 1 /\ c = [udh |-> << >>, from |-> 0, to |-> len]
    BY <1>2 DEF SplitLongSms
  <2>3. << >> \in Seq(0..255) /\ Len(<< >>) = 0
    OBVIOUS
  <2>4. c.udh = << >> /\ c.from = 0 /\ c.to = len
    BY <2>2
  <2> HIDE DEF c
  <2>5. c \in [udh : Seq(0..255), from : Nat, to : Nat]
    BY <2>1, <2>2, <2>3
  <2>6. ChunkLen(c) = 0 + (len - 0)
    BY <2>3, <2>4, Zenon DEF ChunkLen
  <2>7. QED
    BY <2>1, <2>5, <2>6 DEF c
<1>3. CASE n > 1
  <2>1. c = [udh |-> <<5, 0, 3, ref, Byte(n), Byte(i)>>,
             from |-> (i - 1) * 134, to |-> EndOfPart(len, i)]
    BY <1>1, <1>3 DEF SplitLongSms, SmsBodyLen, SmsLength, SmsHeaderLength
  <2>2. Byte(n) \in 0..255 /\ Byte(i) \in 0..255
    BY <1>1 DEF Byte
  <2>3. /\ EndOfPart(len, i) \in Nat
        /\ EndOfPart(len, i) - (i - 1) * 134 \in 1..134
    BY <1>3, BodyBounds
  <2>4. (i - 1) * 134 \in Nat
    BY <1>1
  <2> HIDE DEF n, c
  <2>5. /\ <<5, 0, 3, ref, Byte(n), Byte(i)>> \in Seq(0..255)
        /\ Len(<<5, 0, 3, ref, Byte(n), Byte(i)>>) = 6
    BY <2>2
  <2>6. c \in [udh : Seq(0..255), from : Nat, to : Nat]
    BY <2>1, <2>3, <2>4, <2>5
  <2>7. ChunkLen(c) = 6 + (EndOfPart(len, i) - (i - 1) * 134)
    BY <2>1, <2>5 DEF ChunkLen
  <2>8. ChunkLen(c) \in 0..140
    BY <2>3, <2>7
  <2>9. QED
    BY <2>6, <2>8, Zenon DEF c
<1>4. QED
  BY <1>1, <1>2, <1>3

\* The packet of a part.
LEMMA PartPackets ==
  ASSUME NEW len \in Nat, NEW ref \in 0..255, NEW i \in 1..NumParts(len)
  PROVE  LET p == GetMsgPkgs(len, ref)[i]
         IN /\ p \in Part
            /\ p.chunk = SplitLongSms(len, ref)[i]
            /\ p.MsgLength = Byte(ChunkLen(p.chunk))
<1> DEFINE c == SplitLongSms(len, ref)[i]
<1>1. NumParts(len) \in Nat
  BY NumPartsBounds
<1>2. GetMsgPkgs(len, ref)[i]
        = [chunk |-> c, MsgLength |-> Byte(ChunkLen(c)),
           udhi |-> NumParts(len) > 1,
           PkTotal |-> Byte(NumParts(len)), PkNumber |-> Byte(i)]
  BY <1>1, NumberOfParts DEF GetMsgPkgs, PartPkg
<1>3. c \in [udh : Seq(0..255), from : Nat, to : Nat]
  BY ChunkBounds
<1>a. ChunkLen(c) \in 0..140
  BY ChunkBounds
<1> HIDE DEF c
<1>4. /\ Byte(ChunkLen(c)) \in 0..255 /\ Byte(NumParts(len)) \in 0..255
      /\ Byte(i) \in 0..255
  <2>1. ChunkLen(c) \in Nat /\ i \in Nat
    BY <1>1, <1>a
  <2>2. QED
    BY <1>1, <2>1, ByteType, Zenon
<1>5. QED
  BY <1>2, <1>3, <1>4 DEF Part, c

\* Every part is a message of at most 140 bytes whose length a byte can hold,
\* in a packet of at most 2477 bytes for up to a hundred destinations
\* (utils.go:161-233, submit.go:27, submit.go:40, packet.go:12).
THEOREM PartFits ==
  ASSUME NEW len \in Nat, NEW ref \in 0..255, NEW dests \in 0..100,
         NEW i \in 1..NumParts(len)
  PROVE  LET p == GetMsgPkgs(len, ref)[i]
         IN /\ ChunkLen(p.chunk) <= SmsLength
            /\ p.MsgLength = ChunkLen(p.chunk)
            /\ SubmitLen(dests, p.MsgLength, FourOptions) <= PacketMax
<1> DEFINE p == GetMsgPkgs(len, ref)[i]
<1>1. ChunkLen(p.chunk) \in 0..140 /\ p.MsgLength = Byte(ChunkLen(p.chunk))
  <2>1. /\ p.chunk = SplitLongSms(len, ref)[i]
        /\ p.MsgLength = Byte(ChunkLen(p.chunk))
    BY PartPackets
  <2>2. ChunkLen(SplitLongSms(len, ref)[i]) \in 0..140
    BY ChunkBounds
  <2> HIDE DEF p
  <2>3. QED
    BY <2>1, <2>2, Zenon
<1> HIDE DEF p
<1>2. p.MsgLength = ChunkLen(p.chunk)
  BY <1>1 DEF Byte
<1>3. SubmitLen(dests, p.MsgLength, FourOptions) <= PacketMax
  BY <1>1, <1>2 DEF SubmitLen, FourOptions, PacketMax
<1>4. QED
  BY <1>1, <1>2, <1>3 DEF p, SmsLength

-----------------------------------------------------------------------------
(* The senders *)

\* Without a race at most one sender is between its read and its store, and
\* TpUdhiSeq has not been stored since that read.
Behind == \E s \in Senders : InWindow(s)
RefInv ==
  ~raced =>
    /\ RefsInOrder
    /\ \A s, o \in Senders : InWindow(s) /\ InWindow(o) => s = o
    /\ ~Behind => TpUdhiSeq = Byte(first + Len(refs))
    /\ Behind => Len(refs) > 0 /\ TpUdhiSeq = Byte(first + Len(refs) - 1)
    /\ \A s \in Senders : pc[s] = "store" => loaded[s] = TpUdhiSeq

\* A sender that is not idle has a text of its own, and a part of it to send.
SenderInv ==
  /\ \A s \in Senders :
       pc[s] # "idle" => /\ cur[s] \in 1..Len(texts)
                         /\ texts[cur[s]].out < NumParts(texts[cur[s]].len)
  /\ \A s, o \in Senders :
       pc[s] # "idle" /\ pc[o] # "idle" /\ cur[s] = cur[o] => s = o

\* What is out is a packet GetMsgPkgs made, of a text there is.
Offered(pkg) == \E len \in Nat, ref \in 0..255 : \E j \in 1..NumParts(len) :
               pkg = GetMsgPkgs(len, ref)[j]
WireInv ==
  \A i \in 1..Len(wire) :
    wire[i].of \in 1..Len(texts) /\ Offered(wire[i].pkg)

\* What a packet must be for the receiver to take it.
Fits(p, dests) ==
  /\ ChunkLen(p.chunk) <= SmsLength
  /\ p.MsgLength = ChunkLen(p.chunk)
  /\ SubmitLen(dests, p.MsgLength, FourOptions) <= PacketMax
LEMMA PacketFits ==
  ASSUME NEW len \in Nat, NEW ref \in 0..255, NEW dests \in 0..100,
         NEW i \in 1..NumParts(len)
  PROVE  Fits(GetMsgPkgs(len, ref)[i], dests)
BY PartFits DEF Fits

LEMMA OfferedFits ==
  ASSUME NEW pkg, Offered(pkg), NEW dests \in 0..100
  PROVE  Fits(pkg, dests)
<1>1. PICK len \in Nat, ref \in 0..255 : \E j \in 1..NumParts(len) :
             pkg = GetMsgPkgs(len, ref)[j]
  BY Zenon DEF Offered
<1>2. PICK j \in 1..NumParts(len) : pkg = GetMsgPkgs(len, ref)[j]
  BY <1>1
<1>3. Fits(GetMsgPkgs(len, ref)[j], dests)
  BY PacketFits
<1>4. QED
  BY <1>2, <1>3

IInv == TypeOK /\ RefInv /\ SenderInv /\ WireInv

LEMMA InvInit == Init => IInv
<1> SUFFICES ASSUME Init PROVE IInv
  OBVIOUS
<1>1. TypeOK
  <2>1. /\ texts = << >> /\ refs = << >> /\ wire = << >> /\ raced = FALSE
        /\ first \in 0..255 /\ TpUdhiSeq \in 0..255
    BY OutboxAssumption DEF Init
  <2>2. /\ pc \in [Senders -> {"idle", "header", "load", "store", "send"}]
        /\ loaded \in [Senders -> 0..255]
        /\ cur \in [Senders -> 0..0]
    BY DEF Init
  <2>3. Len(texts) = 0 /\ \A S : << >> \in Seq(S)
    BY <2>1
  <2>4. QED
    BY <2>1, <2>2, <2>3, Zenon DEF TypeOK
<1>2. RefInv
  BY OutboxAssumption DEF Init, RefInv, RefsInOrder, Behind, InWindow, Byte
<1>3. SenderInv
  BY DEF Init, SenderInv
<1>4. WireInv
  BY DEF Init, WireInv
<1>5. QED
  BY <1>1, <1>2, <1>3, <1>4 DEF IInv

\* A text of the list, and the list when one text changes.
LEMMA TextTypes ==
  ASSUME NEW k \in 1..Len(texts), TypeOK
  PROVE  /\ texts[k] \in TextRec
         /\ texts[k].len \in Nat /\ texts[k].dests \in 0..100
         /\ texts[k].ref \in 0..255 /\ texts[k].out \in Nat
<1>1. texts \in Seq(TextRec)
  BY DEF TypeOK
<1>2. texts[k] \in TextRec
  BY <1>1
<1>3. QED
  BY <1>2 DEF TextRec

\* A text when its reference, or the number of its parts that are out, changes.
LEMMA RefChange ==
  ASSUME NEW t \in TextRec, NEW r \in 0..255
  PROVE  LET u == [t EXCEPT !.ref = r]
         IN u \in TextRec /\ u.len = t.len /\ u.out = t.out /\ u.ref = r
BY DEF TextRec

LEMMA OutChange ==
  ASSUME NEW t \in TextRec, NEW n \in Nat
  PROVE  LET u == [t EXCEPT !.out = n]
         IN u \in TextRec /\ u.len = t.len /\ u.out = n /\ u.ref = t.ref
BY DEF TextRec

LEMMA ListChange ==
  ASSUME NEW R, NEW list \in Seq(R), NEW k \in 1..Len(list), NEW r \in R
  PROVE  LET new == [list EXCEPT ![k] = r]
         IN /\ new \in Seq(R) /\ Len(new) = Len(list) /\ new[k] = r
            /\ \A j \in 1..Len(list) \ {k} : new[j] = list[j]
OBVIOUS

LEMMA TextChange ==
  ASSUME NEW k \in 1..Len(texts), NEW t \in TextRec, TypeOK,
         texts' = [texts EXCEPT ![k] = t]
  PROVE  /\ texts' \in Seq(TextRec) /\ Len(texts') = Len(texts)
         /\ texts'[k] = t
         /\ \A j \in 1..Len(texts) \ {k} : texts'[j] = texts[j]
<1>1. texts \in Seq(TextRec)
  BY DEF TypeOK
<1>2. QED
  BY <1>1, ListChange

\* The steps, with the sender that takes them.
LEMMA BeginStep ==
  ASSUME IInv, NEW s \in Senders, Begin(s)
  PROVE  IInv'
<1> USE DEF IInv
<1>1. PICK len \in Nat, dests \in 0..100 :
        /\ texts' = Append(texts, TextOf(len, dests))
        /\ pc' = [pc EXCEPT ![s] = IF NumParts(len) = 1 THEN "send"
                                   ELSE "header"]
  <2>1. PICK l \in Lens \cup (IF texts = << >> THEN LongLens ELSE {}),
              d \in Dests :
          /\ texts' = Append(texts, TextOf(l, d))
          /\ pc' = [pc EXCEPT ![s] = IF NumParts(l) = 1 THEN "send"
                                     ELSE "header"]
    BY Zenon DEF Begin
  <2>2. l \in Nat /\ d \in 0..100
    BY OutboxAssumption
  <2>3. QED
    BY <2>1, <2>2, Zenon
<1>2. /\ pc[s] = "idle" /\ cur' = [cur EXCEPT ![s] = Len(texts')]
      /\ UNCHANGED <<first, TpUdhiSeq, loaded, refs, raced, wire>>
  BY DEF Begin, scriptVars
<1>3. /\ texts \in Seq(TextRec) /\ TextOf(len, dests) \in TextRec
      /\ texts' \in Seq(TextRec) /\ Len(texts') = Len(texts) + 1
      /\ \A k \in 1..Len(texts) : texts'[k] = texts[k]
      /\ texts'[Len(texts')] = TextOf(len, dests)
      /\ Len(texts) \in Nat
  BY <1>1 DEF TypeOK, TextOf, TextRec
<1>4. TypeOK'
  <2>1. pc' \in [Senders -> {"idle", "header", "load", "store", "send"}]
    BY <1>1 DEF TypeOK
  <2>2. cur' \in [Senders -> 0..Len(texts')]
    BY <1>2, <1>3 DEF TypeOK
  <2>3. QED
    BY <1>2, <1>3, <2>1, <2>2 DEF TypeOK
<1>5. RefInv'
  <2>1. \A o \in Senders : /\ InWindow(o)' <=> InWindow(o)
                           /\ pc'[o] = "store" <=> pc[o] = "store"
    BY <1>1, <1>2 DEF InWindow, TypeOK
  <2>2. Behind' <=> Behind
    BY <2>1 DEF Behind
  <2>3. QED
    BY <1>2, <2>1, <2>2 DEF RefInv, RefsInOrder
<1>6. SenderInv'
  <2>1. NumParts(len) \in Nat \ {0}
    BY NumPartsBounds
  <2>2. texts'[Len(texts')].out = 0 /\ texts'[Len(texts')].len = len
    BY <1>3 DEF TextOf
  <2>3. \A o \in Senders \ {s} : pc'[o] = pc[o] /\ cur'[o] = cur[o]
    BY <1>1, <1>2 DEF TypeOK
  <2>4. cur'[s] = Len(texts')
    BY <1>2 DEF TypeOK
  <2>5. QED
    BY <1>3, <2>1, <2>2, <2>3, <2>4 DEF SenderInv
<1>7. WireInv'
  <2>1. wire' = wire /\ 1..Len(texts) \subseteq 1..Len(texts')
    BY <1>2, <1>3
  <2>2. QED
    BY <2>1, Zenon DEF WireInv
<1>8. QED
  BY <1>4, <1>5, <1>6, <1>7

LEMMA ReadRefStep ==
  ASSUME IInv, NEW s \in Senders, ReadRef(s)
  PROVE  IInv'
<1> USE DEF IInv
<1>1. /\ pc[s] = "header" /\ pc' = [pc EXCEPT ![s] = "load"]
      /\ texts' = [texts EXCEPT ![cur[s]].ref = TpUdhiSeq]
      /\ refs' = Append(refs, TpUdhiSeq)
      /\ raced' = (raced \/ Behind)
      /\ UNCHANGED <<first, TpUdhiSeq, cur, loaded, wire>>
  BY Zenon DEF ReadRef, Behind
<1>2. /\ texts \in Seq(TextRec) /\ cur[s] \in 1..Len(texts)
      /\ TpUdhiSeq \in 0..255 /\ refs \in Seq(0..255)
  BY <1>1 DEF TypeOK, SenderInv
<1>3. /\ texts' \in Seq(TextRec) /\ Len(texts') = Len(texts)
      /\ \A k \in 1..Len(texts) : /\ texts'[k].len = texts[k].len
                                  /\ texts'[k].out = texts[k].out
  <2> DEFINE t == texts[cur[s]]
             u == [t EXCEPT !.ref = TpUdhiSeq]
  <2>1. t \in TextRec
    BY <1>2, TextTypes
  <2>2. u \in TextRec /\ u.len = t.len /\ u.out = t.out
    BY <1>2, <2>1, RefChange
  <2>3. texts' = [texts EXCEPT ![cur[s]] = u]
    BY <1>1
  <2>4. /\ texts' \in Seq(TextRec) /\ Len(texts') = Len(texts)
        /\ texts'[cur[s]] = u
        /\ \A j \in 1..Len(texts) \ {cur[s]} : texts'[j] = texts[j]
    <3> HIDE DEF u
    <3>1. QED
      BY <1>2, <2>2, <2>3, TextChange
  <2>5. QED
    BY <2>2, <2>4
<1>4. /\ refs' \in Seq(0..255) /\ Len(refs') = Len(refs) + 1
      /\ \A i \in 1..Len(refs) : refs'[i] = refs[i]
      /\ refs'[Len(refs) + 1] = TpUdhiSeq
  BY <1>1, <1>2
<1>5. /\ pc'[s] = "load" /\ pc[s] = "header"
      /\ \A o \in Senders \ {s} : pc'[o] = pc[o]
  BY <1>1 DEF TypeOK
<1>6. TypeOK'
  <2>1. pc' \in [Senders -> {"idle", "header", "load", "store", "send"}]
    BY <1>1 DEF TypeOK
  <2>2. raced' \in BOOLEAN
    BY <1>1
  <2>3. QED
    BY <1>1, <1>3, <1>4, <2>1, <2>2, Zenon DEF TypeOK
<1>7. RefInv'
  <2> SUFFICES ASSUME ~raced'
               PROVE  RefInv'
    BY DEF RefInv
  <2>1. ~raced /\ ~Behind
    BY <1>1 DEF TypeOK
  <2>2. /\ RefsInOrder /\ TpUdhiSeq = Byte(first + Len(refs))
    BY <2>1 DEF RefInv
  <2>3. \A o \in Senders \ {s} : ~InWindow(o)'
    BY <1>5, <2>1 DEF Behind, InWindow
  <2>4. RefsInOrder'
    BY <1>1, <1>2, <1>4, <2>1, <2>2 DEF RefsInOrder
  <2>5. TpUdhiSeq' = Byte(first' + Len(refs') - 1) /\ Len(refs') > 0
    BY <1>1, <1>2, <1>4, <2>2 DEF TypeOK
  <2>6. Behind'
    BY <1>5 DEF Behind, InWindow
  <2>7. \A o \in Senders : pc'[o] # "store"
    BY <1>5, <2>3 DEF InWindow
  <2>8. QED
    BY <2>3, <2>4, <2>5, <2>6, <2>7 DEF RefInv
<1>8. SenderInv'
  BY <1>1, <1>3, <1>5 DEF SenderInv
<1>9. WireInv'
  BY <1>1, <1>3 DEF WireInv
<1>10. QED
  BY <1>6, <1>7, <1>8, <1>9

LEMMA LoadRefStep ==
  ASSUME IInv, NEW s \in Senders, LoadRef(s)
  PROVE  IInv'
<1> USE DEF IInv
<1>1. /\ pc[s] = "load" /\ pc' = [pc EXCEPT ![s] = "store"]
      /\ loaded' = [loaded EXCEPT ![s] = TpUdhiSeq]
      /\ UNCHANGED <<first, TpUdhiSeq, cur, texts, refs, raced, wire>>
  BY Zenon DEF LoadRef
<1>2. /\ pc'[s] = "store" /\ loaded'[s] = TpUdhiSeq
      /\ \A o \in Senders \ {s} : pc'[o] = pc[o] /\ loaded'[o] = loaded[o]
  BY <1>1 DEF TypeOK
<1>3. TypeOK'
  <2>1. /\ pc' \in [Senders -> {"idle", "header", "load", "store", "send"}]
        /\ loaded' \in [Senders -> 0..255]
    BY <1>1 DEF TypeOK
  <2>2. QED
    BY <1>1, <2>1, Zenon DEF TypeOK
<1>4. RefInv'
  <2>1. \A o \in Senders : InWindow(o)' <=> InWindow(o)
    BY <1>1, <1>2 DEF InWindow
  <2>2. Behind' <=> Behind
    BY <2>1 DEF Behind
  <2>3. RefsInOrder' <=> RefsInOrder
    BY <1>1 DEF RefsInOrder
  <2>4. QED
    BY <1>1, <1>2, <2>1, <2>2, <2>3 DEF RefInv
<1>5. SenderInv'
  BY <1>1, <1>2 DEF SenderInv
<1>6. WireInv'
  BY <1>1 DEF WireInv
<1>7. QED
  BY <1>3, <1>4, <1>5, <1>6

LEMMA StoreRefStep ==
  ASSUME IInv, NEW s \in Senders, StoreRef(s)
  PROVE  IInv'
<1> USE DEF IInv
<1>1. /\ pc[s] = "store" /\ pc' = [pc EXCEPT ![s] = "send"]
      /\ TpUdhiSeq' = Byte(loaded[s] + 1)
      /\ UNCHANGED <<first, cur, loaded, texts, refs, raced, wire>>
  BY Zenon DEF StoreRef
<1>2. /\ pc'[s] = "send"
      /\ \A o \in Senders \ {s} : pc'[o] = pc[o]
  BY <1>1 DEF TypeOK
<1>3. loaded[s] \in 0..255 /\ TpUdhiSeq' \in 0..255
  <2>1. loaded[s] \in 0..255
    BY DEF TypeOK
  <2>2. loaded[s] + 1 \in Nat
    BY <2>1
  <2>3. QED
    BY <1>1, <2>1, <2>2, ByteType, Zenon
<1>4. TypeOK'
  <2>1. pc' \in [Senders -> {"idle", "header", "load", "store", "send"}]
    BY <1>1 DEF TypeOK
  <2>2. QED
    BY <1>1, <1>3, <2>1, Zenon DEF TypeOK
<1>5. RefInv'
  <2> SUFFICES ASSUME ~raced
               PROVE  RefInv'
    BY <1>1 DEF RefInv
  <2>1. InWindow(s) /\ Behind
    BY <1>1 DEF InWindow, Behind
  <2>2. /\ RefsInOrder
        /\ \A o \in Senders : InWindow(o) => o = s
        /\ Len(refs) > 0 /\ TpUdhiSeq = Byte(first + Len(refs) - 1)
        /\ loaded[s] = TpUdhiSeq
    BY <1>1, <2>1 DEF RefInv
  <2>3. \A o \in Senders : ~InWindow(o)' /\ pc'[o] # "store"
    BY <1>2, <2>2 DEF InWindow
  <2>4. TpUdhiSeq' = Byte(first + Len(refs))
    BY <1>1, <2>2 DEF TypeOK, Byte
  <2>5. RefsInOrder' /\ ~Behind'
    BY <1>1, <2>2, <2>3 DEF RefsInOrder, Behind
  <2>6. QED
    BY <1>1, <2>3, <2>4, <2>5 DEF RefInv
<1>6. SenderInv'
  BY <1>1, <1>2 DEF SenderInv
<1>7. WireInv'
  BY <1>1 DEF WireInv
<1>8. QED
  BY <1>4, <1>5, <1>6, <1>7

LEMMA SendPartStep ==
  ASSUME IInv, NEW s \in Senders, SendPart(s)
  PROVE  IInv'
<1> USE DEF IInv
<1> DEFINE k == cur[s]
           t == texts[k]
           p == GetMsgPkgs(t.len, t.ref)[t.out + 1]
           part == [of |-> k, pkg |-> p]
<1>1. /\ pc[s] = "send" /\ wire' = Append(wire, part)
      /\ texts' = [texts EXCEPT ![k].out = t.out + 1]
      /\ pc' = [pc EXCEPT ![s] = IF t.out + 1 = Len(GetMsgPkgs(t.len, t.ref))
                                 THEN "idle" ELSE "send"]
      /\ UNCHANGED <<first, TpUdhiSeq, cur, loaded, refs, raced>>
  BY Zenon DEF SendPart
<1>2. /\ texts \in Seq(TextRec) /\ k \in 1..Len(texts) /\ t \in TextRec
      /\ t.len \in Nat /\ t.ref \in 0..255 /\ t.out \in Nat
      /\ t.out < NumParts(t.len)
  <2>1. /\ k \in 1..Len(texts) /\ t.out < NumParts(t.len)
    BY <1>1 DEF SenderInv
  <2>2. texts \in Seq(TextRec)
    BY DEF TypeOK
  <2>3. t \in TextRec
    BY <2>1, <2>2
  <2> HIDE DEF t
  <2>4. t.len \in Nat /\ t.ref \in 0..255 /\ t.out \in Nat
    BY <2>3 DEF TextRec
  <2>5. QED
    BY <2>1, <2>2, <2>3, <2>4
<1>3. /\ NumParts(t.len) \in Nat
      /\ Len(GetMsgPkgs(t.len, t.ref)) = NumParts(t.len)
  BY <1>2, NumPartsBounds, NumberOfParts
<1>4. t.out + 1 \in 1..NumParts(t.len)
  <2> HIDE DEF t
  <2>1. QED
    BY <1>2, <1>3
<1>5. p \in Part
  BY <1>2, <1>4, PartPackets
<1>6. Offered(p)
  BY <1>2, <1>4, Zenon DEF Offered
<1> HIDE DEF p
<1>7. /\ texts' \in Seq(TextRec) /\ Len(texts') = Len(texts)
      /\ texts'[k].len = t.len /\ texts'[k].out = t.out + 1
      /\ \A j \in 1..Len(texts) \ {k} : texts'[j] = texts[j]
  <2> DEFINE u == [t EXCEPT !.out = t.out + 1]
  <2> HIDE DEF t, k
  <2>1. u \in TextRec /\ u.len = t.len /\ u.out = t.out + 1
    <3>1. t.out + 1 \in Nat
      BY <1>2
    <3>2. QED
      BY <1>2, <3>1, OutChange
  <2>2. texts' = [texts EXCEPT ![k] = u]
    BY <1>1 DEF t
  <2> HIDE DEF u
  <2>3. QED
    BY <1>2, <2>1, <2>2, TextChange
<1>8. \A o \in Senders \ {s} : pc'[o] = pc[o]
  BY <1>1 DEF TypeOK
<1>9. pc'[s] \in {"idle", "send"} /\ (pc'[s] = "send" =>
        texts'[k].out < NumParts(texts'[k].len))
  <2>1. pc'[s] = IF t.out + 1 = NumParts(t.len) THEN "idle" ELSE "send"
    BY <1>1, <1>3 DEF TypeOK
  <2> HIDE DEF t, k
  <2>2. QED
    BY <1>3, <1>4, <1>7, <2>1
<1>10. /\ wire \in Seq([of : Nat, pkg : Part])
       /\ part \in [of : Nat, pkg : Part]
  BY <1>2, <1>5 DEF TypeOK
<1> HIDE DEF part
<1>11. /\ wire' \in Seq([of : Nat, pkg : Part]) /\ Len(wire') = Len(wire) + 1
       /\ \A i \in 1..Len(wire) : wire'[i] = wire[i]
       /\ wire'[Len(wire) + 1] = part
  BY <1>1, <1>10
<1>12. TypeOK'
  <2>1. pc' \in [Senders -> {"idle", "header", "load", "store", "send"}]
    BY <1>1 DEF TypeOK
  <2>2. cur' \in [Senders -> 0..Len(texts')]
    BY <1>1, <1>7 DEF TypeOK
  <2>3. QED
    BY <1>1, <1>7, <1>11, <2>1, <2>2, Zenon DEF TypeOK
<1>13. RefInv'
  <2>1. \A o \in Senders : /\ InWindow(o)' <=> InWindow(o)
                           /\ pc'[o] = "store" <=> pc[o] = "store"
    BY <1>1, <1>8, <1>9 DEF InWindow
  <2>2. Behind' <=> Behind
    BY <2>1 DEF Behind
  <2>3. RefsInOrder' <=> RefsInOrder
    BY <1>1 DEF RefsInOrder
  <2>4. QED
    BY <1>1, <2>1, <2>2, <2>3 DEF RefInv
<1>14. SenderInv'
  <2>1. \A o \in Senders \ {s} : pc[o] # "idle" =>
          /\ cur[o] \in 1..Len(texts) \ {k}
          /\ texts[cur[o]].out < NumParts(texts[cur[o]].len)
    BY <1>1 DEF SenderInv
  <2>2. ASSUME NEW o \in Senders, pc'[o] # "idle"
        PROVE  /\ cur'[o] \in 1..Len(texts')
               /\ texts'[cur'[o]].out < NumParts(texts'[cur'[o]].len)
    <3>1. CASE o = s
      BY <1>1, <1>2, <1>7, <1>9, <2>2, <3>1
    <3>2. CASE o # s
      BY <1>1, <1>7, <1>8, <2>1, <2>2, <3>2
    <3>3. QED
      BY <3>1, <3>2
  <2>3. ASSUME NEW o \in Senders, NEW q \in Senders,
               pc'[o] # "idle", pc'[q] # "idle", cur'[o] = cur'[q]
        PROVE  o = q
    <3>1. pc[o] # "idle" /\ pc[q] # "idle" /\ cur[o] = cur[q]
      BY <1>1, <1>8, <2>3
    <3>2. QED
      BY <3>1 DEF SenderInv
  <2>4. QED
    BY <2>2, <2>3 DEF SenderInv
<1>15. WireInv'
  <2> SUFFICES ASSUME NEW i \in 1..Len(wire')
               PROVE  wire'[i].of \in 1..Len(texts') /\ Offered(wire'[i].pkg)
    BY Zenon DEF WireInv, Offered
  <2>1. CASE i \in 1..Len(wire)
    BY <1>7, <1>11, <2>1 DEF WireInv
  <2>2. CASE i = Len(wire) + 1
    BY <1>2, <1>6, <1>7, <1>11, <2>2 DEF part
  <2>3. QED
    BY <1>10, <1>11, <2>1, <2>2
<1>16. QED
  BY <1>12, <1>13, <1>14, <1>15

\* The script and the end change nothing here.
LEMMA OtherStep ==
  ASSUME IInv,
         UNCHANGED <<first, TpUdhiSeq, pc, cur, loaded, texts, refs, raced, wire>>
  PROVE  IInv'
<1>1. /\ TypeOK' <=> TypeOK
      /\ SenderInv' <=> SenderInv
      /\ WireInv' <=> WireInv
  BY Zenon DEF TypeOK, SenderInv, WireInv
<1>2. RefInv' <=> RefInv
  BY DEF RefInv, RefsInOrder, Behind, InWindow
<1>3. QED
  BY <1>1, <1>2 DEF IInv

LEMMA InvStep == IInv /\ [Next]_vars => IInv'
<1> SUFFICES ASSUME IInv, [Next]_vars
             PROVE  IInv'
  OBVIOUS
<1>1. CASE \E s \in Senders : Begin(s) \/ ReadRef(s) \/ LoadRef(s)
                               \/ StoreRef(s) \/ SendPart(s)
  BY <1>1, BeginStep, ReadRefStep, LoadRefStep, StoreRefStep, SendPartStep,
     Zenon
<1>2. CASE SendPlain
  BY <1>2, OtherStep, Zenon DEF SendPlain
<1>3. CASE Done \/ UNCHANGED vars
  BY <1>3, OtherStep, Zenon DEF Done, vars
<1>4. QED
  BY <1>1, <1>2, <1>3, Zenon DEF Next

\* The inductive invariant of Outbox: types, where TpUdhiSeq stands against
\* the references taken (utils.go:175-176), whose text a sender sends, and
\* where the parts that are out come from (utils.go:161-233).
THEOREM Invariance == Spec => []IInv
BY InvInit, InvStep, PTL DEF Spec

\* The variables of Outbox keep their types, TpUdhiSeq that of a byte
\* (utils.go:159), for any number of senders and texts of any length.
THEOREM TypeCorrect == Spec => []TypeOK
<1>1. IInv => TypeOK
  BY DEF IInv
<1>2. QED
  BY <1>1, Invariance, PTL

\* While reads of TpUdhiSeq do not fall between another's read and store, the
\* references of the texts are consecutive, whatever else is interleaved
\* (utils.go:175-176).
THEOREM ReferencesInOrder == Spec => []RefsInOrder
<1>1. IInv => RefsInOrder
  BY DEF IInv, RefInv, RefsInOrder
<1>2. QED
  BY <1>1, Invariance, PTL

\* Every part that is out is a message of at most 140 bytes in a packet the
\* receiver takes (utils.go:161-233, submit.go:40, connection.go:158).
THEOREM PartsAlwaysFit == Spec => []PartsFit
<1>1. ASSUME IInv PROVE PartsFit
  <2> SUFFICES ASSUME NEW i \in 1..Len(wire)
               PROVE  LET p == wire[i].pkg
                      IN /\ ChunkLen(p.chunk) <= SmsLength
                         /\ p.MsgLength = ChunkLen(p.chunk)
                         /\ SubmitLen(texts[wire[i].of].dests, p.MsgLength,
                                      FourOptions) <= PacketMax
    BY Zenon DEF PartsFit
  <2>1. wire[i].of \in 1..Len(texts) /\ Offered(wire[i].pkg)
    BY <1>1, Zenon DEF IInv, WireInv
  <2>2. texts[wire[i].of].dests \in 0..100
    <3> DEFINE t == texts[wire[i].of]
    <3>1. texts \in Seq(TextRec)
      BY <1>1 DEF IInv, TypeOK
    <3>2. t \in TextRec
      BY <2>1, <3>1
    <3> HIDE DEF t
    <3>3. t.dests \in 0..100
      BY <3>2 DEF TextRec
    <3>4. QED
      BY <3>3 DEF t
  <2>3. QED
    BY <2>1, <2>2, OfferedFits DEF Fits
<1>2. QED
  BY <1>1, Invariance, PTL

-----------------------------------------------------------------------------
(* Reassembly.  The texts that have taken a reference, and their parts.     *)

Waiting == {cur[s] : s \in {o \in Senders : pc[o] = "header"}}
Taken == {k \in 1..Len(texts) : NumParts(texts[k].len) > 1} \ Waiting

\* Every reference was taken by a text of its own, which sends no part before.
TakenInv ==
  /\ Len(texts) <= MaxTexts /\ Len(refs) = Cardinality(Taken)
  /\ \A s \in Senders : pc[s] = "header" => /\ NumParts(texts[cur[s]].len) > 1
                                            /\ texts[cur[s]].out = 0
  /\ \A k \in Taken : \E i \in 1..Len(refs) : texts[k].ref = refs[i]

ApartInv == ~raced => \A j, k \in Taken : texts[j].ref = texts[k].ref => j = k

\* What is out are the parts 1 to out of the texts.
Is(i, k, j) == /\ wire[i].of = k
               /\ wire[i].pkg = GetMsgPkgs(texts[k].len, texts[k].ref)[j]
PartsInv ==
  /\ \A i \in 1..Len(wire) :
       \E k \in 1..Len(texts) : \E j \in 1..texts[k].out : Is(i, k, j)
  /\ \A k \in 1..Len(texts) :
       /\ texts[k].out <= NumParts(texts[k].len)
       /\ \A j \in 1..texts[k].out : \E i \in 1..Len(wire) : Is(i, k, j)
WholeInv == TakenInv /\ ApartInv /\ PartsInv

\* The header and the options of part j.
IsPart(p, len, ref, j) ==
  /\ p.udhi <=> NumParts(len) > 1
  /\ p.PkTotal = Byte(NumParts(len)) /\ p.PkNumber = Byte(j)
  /\ NumParts(len) > 1 =>
       /\ p.chunk.udh[4] = ref /\ p.chunk.udh[5] = Byte(NumParts(len))
       /\ p.chunk.udh[6] = Byte(j)
       /\ p.chunk.from = (j - 1) * 134
       /\ p.chunk.to = EndOfPart(len, j)
LEMMA PartFields ==
  ASSUME NEW len \in Nat, NEW ref \in 0..255, NEW j \in 1..NumParts(len)
  PROVE  IsPart(GetMsgPkgs(len, ref)[j], len, ref, j)
<1> DEFINE c == SplitLongSms(len, ref)[j]
           n == NumParts(len)
           p == GetMsgPkgs(len, ref)[j]
<1>1. n \in Nat
  BY NumPartsBounds
<1>2. p = [chunk |-> c, MsgLength |-> Byte(ChunkLen(c)), udhi |-> n > 1,
           PkTotal |-> Byte(n), PkNumber |-> Byte(j)]
  BY <1>1, NumberOfParts DEF GetMsgPkgs, PartPkg
<1>3. n > 1 => c = [udh |-> <<5, 0, 3, ref, Byte(n), Byte(j)>>,
                    from |-> (j - 1) * 134, to |-> EndOfPart(len, j)]
  BY <1>1 DEF SplitLongSms, SmsBodyLen, SmsLength, SmsHeaderLength
<1> HIDE DEF c, p
<1>4. /\ p.udhi = (n > 1) /\ p.PkTotal = Byte(n) /\ p.PkNumber = Byte(j)
      /\ p.chunk = c
  BY <1>2
<1>5. n > 1 => /\ c.udh[4] = ref /\ c.udh[5] = Byte(n) /\ c.udh[6] = Byte(j)
               /\ c.from = (j - 1) * 134 /\ c.to = EndOfPart(len, j)
  <2> SUFFICES ASSUME n > 1
               PROVE  /\ c.udh[4] = ref /\ c.udh[5] = Byte(n)
                      /\ c.udh[6] = Byte(j) /\ c.from = (j - 1) * 134
                      /\ c.to = EndOfPart(len, j)
    OBVIOUS
  <2>1. /\ c.udh = <<5, 0, 3, ref, Byte(n), Byte(j)>>
        /\ c.from = (j - 1) * 134 /\ c.to = EndOfPart(len, j)
    BY <1>3
  <2>2. QED
    BY <2>1
<1>6. QED
  BY <1>4, <1>5, Zenon DEF p, IsPart

LEMMA UpTo ==
  ASSUME NEW n \in Nat
  PROVE  IsFiniteSet(1..n) /\ Cardinality(1..n) = n
BY FS_Interval

LEMMA TakenFinite ==
  ASSUME TypeOK
  PROVE  /\ IsFiniteSet(Taken) /\ Cardinality(Taken) \in Nat
         /\ Cardinality(Taken) <= Len(texts) /\ Len(texts) \in Nat
<1>1. Len(texts) \in Nat /\ Taken \subseteq 1..Len(texts)
  BY DEF TypeOK, Taken
<1>2. IsFiniteSet(1..Len(texts)) /\ Cardinality(1..Len(texts)) = Len(texts)
  BY <1>1, UpTo
<1>3. QED
  BY <1>1, <1>2, FS_Subset, FS_CardinalityType

\* A step that leaves the taken texts, their references and the wire alone.
LEMMA KeptStep ==
  ASSUME IInv, WholeInv, Taken' = Taken, Len(texts') <= MaxTexts,
         UNCHANGED <<refs, raced, wire>>,
         \A s \in Senders : pc'[s] = "header" =>
           /\ NumParts(texts'[cur'[s]].len) > 1 /\ texts'[cur'[s]].out = 0,
         Len(texts') >= Len(texts), Len(texts') \in Nat,
         \A k \in 1..Len(texts) : texts'[k] = texts[k],
         \A k \in 1..Len(texts') : k > Len(texts) =>
           texts'[k].out = 0 /\ texts'[k].len \in Nat
  PROVE  WholeInv'
<1>1. Len(texts) \in Nat /\ Taken \subseteq 1..Len(texts)
  BY DEF IInv, TypeOK, Taken
<1>2. \A k \in Taken : texts'[k].ref = texts[k].ref
  BY <1>1
<1>3. TakenInv' /\ ApartInv'
  BY <1>2 DEF WholeInv, TakenInv, ApartInv
<1>4. \A k \in 1..Len(texts) : \A i, j : Is(i, k, j)' <=> Is(i, k, j)
  BY DEF Is
<1>5. 1..Len(texts) \subseteq 1..Len(texts')
  BY <1>1
<1>6. ASSUME NEW i \in 1..Len(wire')
      PROVE  \E k \in 1..Len(texts') : \E j \in 1..texts'[k].out : Is(i, k, j)'
  <2>1. PICK k \in 1..Len(texts) : \E j \in 1..texts[k].out : Is(i, k, j)
    BY <1>6, Zenon DEF WholeInv, PartsInv
  <2>2. texts'[k] = texts[k]
    OBVIOUS
  <2>3. QED
    BY <1>4, <1>5, <2>1, <2>2, Zenon
<1>7. ASSUME NEW k \in 1..Len(texts')
      PROVE  /\ texts'[k].out <= NumParts(texts'[k].len)
             /\ \A j \in 1..texts'[k].out : \E i \in 1..Len(wire') : Is(i, k, j)'
  <2>1. CASE k \in 1..Len(texts)
    BY <1>4, <2>1 DEF WholeInv, PartsInv
  <2>2. CASE k > Len(texts)
    <3>1. texts'[k].out = 0 /\ NumParts(texts'[k].len) \in Nat
      BY <2>2, NumPartsBounds
    <3>2. QED
      BY <3>1
  <2>3. QED
    BY <1>1, <2>1, <2>2
<1>8. PartsInv'
  BY <1>6, <1>7, Zenon DEF PartsInv
<1>9. QED
  BY <1>3, <1>8 DEF WholeInv

LEMMA BeginWhole ==
  ASSUME IInv, WholeInv, NEW s \in Senders, Begin(s)
  PROVE  WholeInv'
<1>1. PICK len \in Nat, dests \in 0..100 :
        /\ texts' = Append(texts, TextOf(len, dests))
        /\ pc' = [pc EXCEPT ![s] = IF NumParts(len) = 1 THEN "send"
                                   ELSE "header"]
  <2>1. PICK l \in Lens \cup (IF texts = << >> THEN LongLens ELSE {}),
              d \in Dests :
          /\ texts' = Append(texts, TextOf(l, d))
          /\ pc' = [pc EXCEPT ![s] = IF NumParts(l) = 1 THEN "send"
                                     ELSE "header"]
    BY Zenon DEF Begin
  <2>2. l \in Nat /\ d \in 0..100
    BY OutboxAssumption
  <2>3. QED
    BY <2>1, <2>2, Zenon
<1>2. /\ pc[s] = "idle" /\ cur' = [cur EXCEPT ![s] = Len(texts')]
      /\ Len(texts) < MaxTexts /\ UNCHANGED <<refs, raced, wire>>
  BY DEF Begin
<1>3. /\ Len(texts) \in Nat /\ Len(texts') = Len(texts) + 1
      /\ \A k \in 1..Len(texts) : texts'[k] = texts[k]
      /\ texts'[Len(texts) + 1] = TextOf(len, dests)
  BY <1>1 DEF IInv, TypeOK, TextOf, TextRec
<1>4. /\ NumParts(len) \in Nat \ {0}
      /\ texts'[Len(texts) + 1].len = len /\ texts'[Len(texts) + 1].out = 0
  BY <1>3, NumPartsBounds DEF TextOf
<1>5. /\ cur'[s] = Len(texts) + 1
      /\ pc'[s] = (IF NumParts(len) = 1 THEN "send" ELSE "header")
      /\ \A o \in Senders \ {s} : pc'[o] = pc[o] /\ cur'[o] = cur[o]
      /\ \A o \in Senders : cur[o] \in 0..Len(texts)
  BY <1>1, <1>2, <1>3 DEF IInv, TypeOK
<1>6. \A k \in 1..Len(texts) : k \in Waiting' <=> k \in Waiting
  <2> SUFFICES ASSUME NEW k \in 1..Len(texts)
               PROVE  k \in Waiting' <=> k \in Waiting
    OBVIOUS
  <2>1. ASSUME k \in Waiting' PROVE k \in Waiting
    <3>1. PICK o \in Senders : pc'[o] = "header" /\ cur'[o] = k
      BY <2>1 DEF Waiting
    <3>2. o # s
      BY <1>3, <1>5, <3>1
    <3>3. QED
      BY <1>5, <3>1, <3>2, Zenon DEF Waiting
  <2>2. ASSUME k \in Waiting PROVE k \in Waiting'
    <3>1. PICK o \in Senders : pc[o] = "header" /\ cur[o] = k
      BY <2>2 DEF Waiting
    <3>2. o # s
      BY <1>2, <3>1
    <3>3. QED
      BY <1>5, <3>1, <3>2, Zenon DEF Waiting
  <2>3. QED
    BY <2>1, <2>2
<1>7. Len(texts) + 1 \notin Taken'
  <2>1. CASE NumParts(len) = 1
    BY <1>4, <2>1 DEF Taken
  <2>2. CASE NumParts(len) # 1
    <3>1. pc'[s] = "header" /\ cur'[s] = Len(texts) + 1
      BY <1>5, <2>2
    <3>2. Len(texts) + 1 \in Waiting'
      BY <3>1, Zenon DEF Waiting
    <3>3. QED
      BY <3>2 DEF Taken
  <2>3. QED
    BY <2>1, <2>2
<1>8. Taken' = Taken
  <2>1. ASSUME NEW k \in 1..Len(texts)
        PROVE  k \in Taken' <=> k \in Taken
    BY <1>3, <1>6 DEF Taken
  <2>2. Taken \subseteq 1..Len(texts)
    BY DEF Taken
  <2>3. Taken' \subseteq 1..(Len(texts) + 1)
    BY <1>3 DEF Taken
  <2>4. Taken' \subseteq 1..Len(texts)
    BY <1>3, <1>7, <2>3
  <2>5. QED
    BY <2>1, <2>2, <2>4
<1>9. ASSUME NEW o \in Senders, pc'[o] = "header"
      PROVE  NumParts(texts'[cur'[o]].len) > 1 /\ texts'[cur'[o]].out = 0
  <2>1. CASE o = s
    BY <1>4, <1>5, <1>9, <2>1
  <2>2. CASE o # s
    <3>1. pc[o] = "header" /\ cur'[o] = cur[o]
      BY <1>5, <1>9, <2>2
    <3>2. cur[o] \in 1..Len(texts)
      BY <3>1 DEF IInv, SenderInv
    <3>3. NumParts(texts[cur[o]].len) > 1 /\ texts[cur[o]].out = 0
      BY <3>1 DEF WholeInv, TakenInv
    <3>4. QED
      BY <1>3, <3>1, <3>2, <3>3
  <2>3. QED
    BY <2>1, <2>2
<1>10. MaxTexts \in Nat
  BY OutboxAssumption
<1>11. \A k \in 1..Len(texts') : k > Len(texts) => k = Len(texts) + 1
  BY <1>3
<1>12. QED
  BY <1>2, <1>3, <1>4, <1>8, <1>9, <1>10, <1>11, KeptStep

\* TpUdhiSeq++ and the steps that are not those of a sender.
LEMMA CountWhole ==
  ASSUME IInv, WholeInv, UNCHANGED <<cur, texts, refs, raced, wire>>,
         \A s \in Senders : pc'[s] = "header" <=> pc[s] = "header"
  PROVE  WholeInv'
<1>1. Waiting' = Waiting
  BY DEF Waiting
<1>2. Taken' = Taken
  BY <1>1 DEF Taken
<1>3. Len(texts) \in Nat
  BY DEF IInv, TypeOK
<1>4. Len(texts) <= MaxTexts
  BY DEF WholeInv, TakenInv
<1>5. \A s \in Senders : pc'[s] = "header" =>
        NumParts(texts[cur[s]].len) > 1 /\ texts[cur[s]].out = 0
  BY DEF WholeInv, TakenInv
<1>6. QED
  BY <1>2, <1>3, <1>4, <1>5, KeptStep

\* Bytes of numbers less than 256 apart differ.
LEMMA BytesApart ==
  ASSUME NEW a \in Nat, NEW b \in Nat, a < b, b < a + 256
  PROVE  Byte(a) # Byte(b)
BY DEF Byte

\* The reference that is read is none that a text has.
LEMMA NewRef ==
  ASSUME IInv, WholeInv, ~raced, ~Behind, Len(refs) < 256
  PROVE  \A j \in Taken : texts[j].ref # TpUdhiSeq
<1>1. RefsInOrder /\ TpUdhiSeq = Byte(first + Len(refs))
  BY DEF IInv, RefInv
<1>2. Len(refs) \in Nat /\ first \in Nat
  BY DEF IInv, TypeOK
<1>3. ASSUME NEW j \in Taken
      PROVE  texts[j].ref # TpUdhiSeq
  <2>1. PICK i \in 1..Len(refs) : texts[j].ref = refs[i]
    BY Zenon DEF WholeInv, TakenInv
  <2>2. texts[j].ref = Byte(first + i - 1)
    BY <1>1, <2>1 DEF RefsInOrder
  <2> DEFINE a == first + i - 1
             b == first + Len(refs)
  <2>3. a \in Nat /\ b \in Nat /\ a < b /\ b < a + 256
    BY <1>2
  <2> HIDE DEF a, b
  <2>4. Byte(a) # Byte(b)
    BY <2>3, BytesApart
  <2>5. QED
    BY <1>1, <2>2, <2>4 DEF a, b
<1>4. QED
  BY <1>3

LEMMA ReadRefWhole ==
  ASSUME MaxTexts <= 256, IInv, WholeInv, NEW s \in Senders, ReadRef(s)
  PROVE  WholeInv'
<1>1. PICK k \in 1..Len(texts) : k = cur[s]
  BY DEF ReadRef, IInv, SenderInv
<1>2. /\ pc[s] = "header" /\ pc' = [pc EXCEPT ![s] = "load"]
      /\ texts' = [texts EXCEPT ![k].ref = TpUdhiSeq]
      /\ refs' = Append(refs, TpUdhiSeq)
      /\ raced' = (raced \/ Behind)
      /\ UNCHANGED <<cur, wire>>
  BY <1>1, Zenon DEF ReadRef, Behind
<1>3. /\ TpUdhiSeq \in 0..255 /\ Len(texts) \in Nat
      /\ texts[k] \in TextRec
  BY TextTypes DEF IInv, TypeOK
<1>4. /\ Len(texts') = Len(texts)
      /\ texts'[k].len = texts[k].len /\ texts'[k].out = texts[k].out
      /\ texts'[k].ref = TpUdhiSeq
      /\ \A j \in 1..Len(texts) \ {k} : texts'[j] = texts[j]
  <2> DEFINE u == [texts[k] EXCEPT !.ref = TpUdhiSeq]
  <2>1. /\ u \in TextRec /\ u.len = texts[k].len /\ u.out = texts[k].out
        /\ u.ref = TpUdhiSeq
    BY <1>3, RefChange
  <2>2. texts' = [texts EXCEPT ![k] = u]
    BY <1>2
  <2> HIDE DEF u
  <2>3. /\ Len(texts') = Len(texts) /\ texts'[k] = u
        /\ \A j \in 1..Len(texts) \ {k} : texts'[j] = texts[j]
    BY <2>1, <2>2, TextChange DEF IInv
  <2>4. QED
    BY <2>1, <2>3
<1>5. /\ Len(refs) \in Nat /\ Len(refs') = Len(refs) + 1
      /\ \A i \in 1..Len(refs) : refs'[i] = refs[i]
      /\ refs'[Len(refs) + 1] = TpUdhiSeq
  BY <1>2, <1>3 DEF IInv, TypeOK
<1>6. /\ pc'[s] = "load" /\ \A o \in Senders \ {s} : pc'[o] = pc[o]
  BY <1>2 DEF IInv, TypeOK
<1>7. /\ NumParts(texts[k].len) > 1 /\ texts[k].out = 0
  BY <1>1, <1>2 DEF WholeInv, TakenInv
<1>8. Waiting' = Waiting \ {k} /\ k \in Waiting
  <2>1. \A o \in Senders : pc[o] = "header" /\ cur[o] = k => o = s
    BY <1>1, <1>2 DEF IInv, SenderInv
  <2>2. \A o \in Senders : pc'[o] = "header" <=> pc[o] = "header" /\ o # s
    BY <1>6
  <2>3. \A j : j \in Waiting' <=>
          \E o \in Senders : pc'[o] = "header" /\ cur[o] = j
    BY <1>2 DEF Waiting
  <2>4. \A j : j \in Waiting <=>
          \E o \in Senders : pc[o] = "header" /\ cur[o] = j
    BY DEF Waiting
  <2>5. ASSUME NEW j
        PROVE  j \in Waiting' <=> j \in Waiting /\ j # k
    BY <1>1, <2>1, <2>2, <2>3, <2>4, Zenon
  <2>6. k \in Waiting
    BY <1>1, <1>2, <2>4, Zenon
  <2>7. QED
    BY <2>5, <2>6, Zenon
<1>9. Taken' = Taken \cup {k} /\ k \notin Taken /\ Taken \subseteq 1..Len(texts)
  <2>1. \A j \in 1..Len(texts) : texts'[j].len = texts[j].len
    BY <1>4
  <2>2. ASSUME NEW j \in 1..Len(texts)
        PROVE  j \in Taken' <=> j \in Taken \/ j = k
    <3>1. j \in Taken' <=> NumParts(texts[j].len) > 1 /\ j \notin Waiting'
      BY <1>4, <2>1 DEF Taken
    <3>2. j \in Taken <=> NumParts(texts[j].len) > 1 /\ j \notin Waiting
      BY DEF Taken
    <3>3. QED
      BY <1>7, <1>8, <3>1, <3>2
  <2>3. Taken' \subseteq 1..Len(texts) /\ Taken \subseteq 1..Len(texts)
    BY <1>4 DEF Taken
  <2>4. k \notin Taken
    BY <1>8 DEF Taken
  <2>5. QED
    BY <2>2, <2>3, <2>4
<1>10. /\ Cardinality(Taken') = Cardinality(Taken) + 1
       /\ Cardinality(Taken) < Len(texts)
  <2>1. IsFiniteSet(Taken) /\ Cardinality(Taken) \in Nat
    BY TakenFinite DEF IInv
  <2>2. Cardinality(Taken') = Cardinality(Taken) + 1
    BY <1>9, <2>1, FS_AddElement
  <2>3. IsFiniteSet(1..Len(texts)) /\ Cardinality(1..Len(texts)) = Len(texts)
    BY <1>3, UpTo
  <2>4. Taken' \subseteq 1..Len(texts)
    BY <1>9
  <2>5. Cardinality(Taken') <= Len(texts)
    BY <2>3, <2>4, FS_Subset
  <2>6. QED
    BY <1>3, <2>1, <2>2, <2>5
<1>11. TakenInv'
  <2>1. Len(texts') <= MaxTexts /\ Len(refs') = Cardinality(Taken')
    BY <1>4, <1>5, <1>10 DEF WholeInv, TakenInv
  <2>2. ASSUME NEW o \in Senders, pc'[o] = "header"
        PROVE  /\ NumParts(texts'[cur'[o]].len) > 1
               /\ texts'[cur'[o]].out = 0
    <3>1. pc[o] = "header" /\ cur'[o] = cur[o]
      BY <1>2, <1>6, <2>2
    <3>2. cur[o] \in 1..Len(texts)
      BY <3>1 DEF IInv, SenderInv
    <3>3. NumParts(texts[cur[o]].len) > 1 /\ texts[cur[o]].out = 0
      BY <3>1 DEF WholeInv, TakenInv
    <3>4. QED
      BY <1>4, <3>1, <3>2, <3>3
  <2>3. ASSUME NEW j \in Taken'
        PROVE  \E i \in 1..Len(refs') : texts'[j].ref = refs'[i]
    <3>1. CASE j = k
      BY <1>4, <1>5, <3>1
    <3>2. CASE j # k
      <4>1. j \in Taken /\ j \in 1..Len(texts) \ {k}
        BY <1>9, <3>2
      <4>2. PICK i \in 1..Len(refs) : texts[j].ref = refs[i]
        BY <4>1, Zenon DEF WholeInv, TakenInv
      <4>3. texts'[j].ref = refs'[i] /\ i \in 1..Len(refs')
        BY <1>4, <1>5, <4>1, <4>2
      <4>4. QED
        BY <4>3
    <3>3. QED
      BY <3>1, <3>2
  <2>4. QED
    BY <2>1, <2>2, <2>3 DEF TakenInv
<1>12. ApartInv'
  <2> SUFFICES ASSUME ~raced', NEW i \in Taken', NEW j \in Taken',
                      texts'[i].ref = texts'[j].ref
               PROVE  i = j
    BY DEF ApartInv
  <2>1. ~raced /\ ~Behind
    BY <1>2 DEF IInv, TypeOK
  <2>2. Len(refs) < 256
    <3>1. Len(refs) = Cardinality(Taken) /\ Len(texts) <= MaxTexts
      BY DEF WholeInv, TakenInv
    <3>2. QED
      BY <1>3, <1>5, <1>10, <3>1, OutboxAssumption
  <2>3. \A q \in Taken : texts[q].ref # TpUdhiSeq
    BY <2>1, <2>2, NewRef
  <2>4. \A q \in Taken : q # k /\ texts'[q] = texts[q]
    BY <1>4, <1>9
  <2>5. CASE i = k \/ j = k
    BY <1>4, <1>9, <2>3, <2>4, <2>5
  <2>6. CASE i \in Taken /\ j \in Taken
    <3>1. texts[i].ref = texts[j].ref
      BY <2>4, <2>6
    <3>2. QED
      BY <2>1, <2>6, <3>1, Zenon DEF WholeInv, ApartInv
  <2>7. QED
    BY <1>9, <2>5, <2>6
<1>13. PartsInv'
  <2>1. \A q \in 1..Len(texts) : texts'[q].len = texts[q].len
                              /\ texts'[q].out = texts[q].out
    BY <1>4
  <2>2. ASSUME NEW q \in 1..Len(texts), NEW j \in 1..texts[q].out, NEW i
        PROVE  Is(i, q, j)' <=> Is(i, q, j)
    <3>1. q # k
      BY <1>7, <2>2
    <3>2. texts'[q] = texts[q] /\ wire' = wire
      BY <1>2, <1>4, <3>1
    <3>3. QED
      BY <3>2 DEF Is
  <2>3. ASSUME NEW i \in 1..Len(wire')
        PROVE  \E q \in 1..Len(texts') : \E j \in 1..texts'[q].out : Is(i, q, j)'
    <3>1. PICK q \in 1..Len(texts) : \E j \in 1..texts[q].out : Is(i, q, j)
      BY <1>2, <2>3, Zenon DEF WholeInv, PartsInv
    <3>2. PICK j \in 1..texts[q].out : Is(i, q, j)
      BY <3>1
    <3>3. QED
      BY <1>4, <2>1, <2>2, <3>2, Zenon
  <2>4. ASSUME NEW q \in 1..Len(texts')
        PROVE  texts'[q].out <= NumParts(texts'[q].len)
    BY <1>4, <2>1, <2>4 DEF WholeInv, PartsInv
  <2>5. ASSUME NEW q \in 1..Len(texts'), NEW j \in 1..texts'[q].out
        PROVE  \E i \in 1..Len(wire') : Is(i, q, j)'
    <3>1. q \in 1..Len(texts) /\ j \in 1..texts[q].out
      BY <1>4, <2>1
    <3>2. PICK i \in 1..Len(wire) : Is(i, q, j)
      BY <3>1, Zenon DEF WholeInv, PartsInv
    <3>3. QED
      BY <1>2, <2>2, <3>1, <3>2, Zenon
  <2>6. QED
    BY <2>3, <2>4, <2>5, Zenon DEF PartsInv
<1>14. QED
  BY <1>11, <1>12, <1>13 DEF WholeInv

LEMMA SendPartWhole ==
  ASSUME IInv, WholeInv, NEW s \in Senders, SendPart(s)
  PROVE  WholeInv'
<1>1. PICK k \in 1..Len(texts) :
        k = cur[s] /\ texts[k].out < NumParts(texts[k].len)
  BY DEF SendPart, IInv, SenderInv
<1> DEFINE t == texts[k]
           p == GetMsgPkgs(t.len, t.ref)[t.out + 1]
           part == [of |-> k, pkg |-> p]
<1>2. /\ pc[s] = "send" /\ wire' = Append(wire, part)
      /\ texts' = [texts EXCEPT ![k].out = t.out + 1]
      /\ pc' = [pc EXCEPT ![s] = IF t.out + 1 = Len(GetMsgPkgs(t.len, t.ref))
                                 THEN "idle" ELSE "send"]
      /\ UNCHANGED <<cur, refs, raced>>
  BY <1>1, Zenon DEF SendPart
<1>3. /\ t \in TextRec /\ t.len \in Nat /\ t.ref \in 0..255 /\ t.out \in Nat
      /\ Len(texts) \in Nat /\ NumParts(t.len) \in Nat
  <2>1. /\ t \in TextRec /\ t.len \in Nat /\ t.ref \in 0..255 /\ t.out \in Nat
    BY TextTypes DEF IInv
  <2>2. Len(texts) \in Nat
    BY DEF IInv, TypeOK
  <2> HIDE DEF t
  <2>3. QED
    BY <2>1, <2>2, NumPartsBounds
<1>4. t.out + 1 \in 1..NumParts(t.len)
  <2> HIDE DEF t
  <2>1. t.out < NumParts(t.len)
    BY <1>1 DEF t
  <2>2. QED
    BY <1>3, <2>1
<1>5. p \in Part
  BY <1>3, <1>4, PartPackets
<1> HIDE DEF p
<1>6. /\ Len(texts') = Len(texts)
      /\ texts'[k].len = t.len /\ texts'[k].ref = t.ref
      /\ texts'[k].out = t.out + 1
      /\ \A j \in 1..Len(texts) \ {k} : texts'[j] = texts[j]
  <2> DEFINE u == [t EXCEPT !.out = t.out + 1]
  <2> HIDE DEF t
  <2>1. /\ u \in TextRec /\ u.len = t.len /\ u.out = t.out + 1
        /\ u.ref = t.ref
    <3>1. t.out + 1 \in Nat
      BY <1>3
    <3>2. QED
      BY <1>3, <3>1, OutChange
  <2>2. texts' = [texts EXCEPT ![k] = u]
    BY <1>2 DEF t
  <2> HIDE DEF u
  <2>3. /\ Len(texts') = Len(texts) /\ texts'[k] = u
        /\ \A j \in 1..Len(texts) \ {k} : texts'[j] = texts[j]
    BY <2>1, <2>2, TextChange DEF IInv
  <2>4. QED
    BY <2>1, <2>3
<1>7. /\ Len(wire) \in Nat /\ Len(wire') = Len(wire) + 1
      /\ \A i \in 1..Len(wire) : wire'[i] = wire[i]
      /\ wire'[Len(wire) + 1] = part
  <2>1. /\ wire \in Seq([of : Nat, pkg : Part])
        /\ part \in [of : Nat, pkg : Part]
    BY <1>3, <1>5 DEF IInv, TypeOK
  <2> HIDE DEF part
  <2>2. QED
    BY <1>2, <2>1
<1>8. \A o \in Senders : pc'[o] = "header" <=> pc[o] = "header"
  BY <1>2 DEF IInv, TypeOK
<1>9. \A q \in 1..Len(texts) : /\ texts'[q].len = texts[q].len
                               /\ texts'[q].ref = texts[q].ref
  BY <1>6 DEF t
<1>10. Taken' = Taken /\ Taken \subseteq 1..Len(texts)
  <2>1. Waiting' = Waiting
    BY <1>2, <1>8 DEF Waiting
  <2>2. QED
    BY <1>6, <1>9, <2>1 DEF Taken
<1>11. TakenInv'
  <2>1. Len(texts') <= MaxTexts /\ Len(refs') = Cardinality(Taken')
    BY <1>2, <1>6, <1>10 DEF WholeInv, TakenInv
  <2>2. ASSUME NEW o \in Senders, pc'[o] = "header"
        PROVE  /\ NumParts(texts'[cur'[o]].len) > 1
               /\ texts'[cur'[o]].out = 0
    <3>1. pc[o] = "header" /\ cur'[o] = cur[o]
      BY <1>2, <1>8, <2>2
    <3>2. cur[o] \in 1..Len(texts) \ {k}
      BY <1>1, <1>2, <3>1 DEF IInv, SenderInv
    <3>3. NumParts(texts[cur[o]].len) > 1 /\ texts[cur[o]].out = 0
      BY <3>1 DEF WholeInv, TakenInv
    <3>4. QED
      BY <1>6, <3>1, <3>2, <3>3
  <2>3. ASSUME NEW j \in Taken'
        PROVE  \E i \in 1..Len(refs') : texts'[j].ref = refs'[i]
    BY <1>2, <1>9, <1>10, <2>3 DEF WholeInv, TakenInv
  <2>4. QED
    BY <2>1, <2>2, <2>3 DEF TakenInv
<1>12. ApartInv'
  BY <1>2, <1>9, <1>10 DEF WholeInv, ApartInv
<1>13. PartsInv'
  <2>1. ASSUME NEW i \in 1..Len(wire), NEW q \in 1..Len(texts), NEW j
        PROVE  Is(i, q, j)' <=> Is(i, q, j)
    <3>1. wire'[i] = wire[i]
      BY <1>7
    <3>2. texts'[q].len = texts[q].len /\ texts'[q].ref = texts[q].ref
      BY <1>9
    <3>3. QED
      BY <3>1, <3>2, Zenon DEF Is
  <2>a. PICK last \in Nat, m \in Nat : last = Len(wire) + 1 /\ m = t.out + 1
    <3>1. Len(wire) + 1 \in Nat /\ t.out + 1 \in Nat
      BY <1>3, <1>7
    <3>2. QED
      BY <3>1, Zenon
  <2>2. Is(last, k, m)'
    <3>1. wire'[last].of = k /\ wire'[last].pkg = p
      BY <1>7, <2>a
    <3>2. p = GetMsgPkgs(texts'[k].len, texts'[k].ref)[m]
      BY <1>6, <2>a, Zenon DEF p
    <3>3. QED
      BY <3>1, <3>2, Zenon DEF Is
  <2>3. \A q \in 1..Len(texts) : /\ texts[q].out \in Nat
                                 /\ 1..texts[q].out \subseteq 1..texts'[q].out
    <3> SUFFICES ASSUME NEW q \in 1..Len(texts)
                 PROVE  /\ texts[q].out \in Nat
                        /\ 1..texts[q].out \subseteq 1..texts'[q].out
      OBVIOUS
    <3>1. texts[q].out \in Nat
      BY TextTypes DEF IInv
    <3>2. texts'[q].out = texts[q].out \/ texts'[q].out = texts[q].out + 1
      BY <1>6 DEF t
    <3>3. QED
      BY <3>1, <3>2
  <2>4. 1..Len(wire) \subseteq 1..Len(wire')
    BY <1>7
  <2>5. ASSUME NEW i \in 1..Len(wire')
        PROVE  \E q \in 1..Len(texts') : \E j \in 1..texts'[q].out : Is(i, q, j)'
    <3>1. CASE i \in 1..Len(wire)
      <4>1. PICK q \in 1..Len(texts) : \E j \in 1..texts[q].out : Is(i, q, j)
        BY <3>1, Zenon DEF WholeInv, PartsInv
      <4>2. PICK j \in 1..texts[q].out : Is(i, q, j)
        BY <4>1
      <4>3. Is(i, q, j)' /\ j \in 1..texts'[q].out /\ q \in 1..Len(texts')
        BY <1>6, <2>1, <2>3, <3>1, <4>2, Zenon
      <4>4. QED
        BY <4>3, Zenon
    <3>2. CASE i = last
      <4>1. m \in 1..texts'[k].out
        BY <1>3, <1>6, <2>a
      <4>2. QED
        BY <1>6, <2>2, <3>2, <4>1, Zenon
    <3>3. QED
      BY <1>7, <2>a, <3>1, <3>2
  <2>6. ASSUME NEW q \in 1..Len(texts')
        PROVE  texts'[q].out <= NumParts(texts'[q].len)
    <3>1. CASE q = k
      BY <1>3, <1>4, <1>6, <3>1
    <3>2. CASE q # k
      BY <1>6, <2>6, <3>2 DEF WholeInv, PartsInv
    <3>3. QED
      BY <3>1, <3>2
  <2>7. ASSUME NEW q \in 1..Len(texts'), NEW j \in 1..texts'[q].out
        PROVE  \E i \in 1..Len(wire') : Is(i, q, j)'
    <3>1. CASE j \in 1..texts[q].out
      <4>1. q \in 1..Len(texts)
        BY <1>6
      <4>2. PICK i \in 1..Len(wire) : Is(i, q, j)
        BY <3>1, <4>1, Zenon DEF WholeInv, PartsInv
      <4>3. QED
        BY <2>1, <2>4, <4>1, <4>2, Zenon
    <3>2. CASE j \notin 1..texts[q].out
      <4>1. q = k
        BY <1>6, <3>2
      <4>2. j = m
        BY <1>3, <1>6, <2>a, <3>2, <4>1
      <4>3. last \in 1..Len(wire')
        BY <1>7, <2>a
      <4>4. QED
        BY <2>2, <4>1, <4>2, <4>3, Zenon
    <3>3. QED
      BY <3>1, <3>2
  <2>8. QED
    BY <2>5, <2>6, <2>7, Zenon DEF PartsInv
<1>14. QED
  BY <1>11, <1>12, <1>13 DEF WholeInv

LEMMA WholeInit == Init => WholeInv
<1> SUFFICES ASSUME Init PROVE WholeInv
  OBVIOUS
<1>1. /\ texts = << >> /\ refs = << >> /\ wire = << >>
      /\ \A s \in Senders : pc[s] = "idle"
  BY DEF Init
<1>2. Len(texts) = 0 /\ Len(refs) = 0 /\ Len(wire) = 0
  BY <1>1
<1>3. Taken = {} /\ Cardinality(Taken) = 0
  <2>1. Taken = {}
    BY <1>2 DEF Taken
  <2>2. QED
    BY <2>1, FS_EmptySet
<1>4. TakenInv
  BY <1>1, <1>2, <1>3, OutboxAssumption DEF TakenInv
<1>5. ApartInv /\ PartsInv
  BY <1>2, <1>3 DEF ApartInv, PartsInv
<1>6. QED
  BY <1>4, <1>5 DEF WholeInv

LEMMA WholeStep ==
  ASSUME MaxTexts <= 256, IInv, WholeInv, [Next]_vars
  PROVE  WholeInv'
<1>1. CASE \E s \in Senders : LoadRef(s) \/ StoreRef(s)
  <2>1. PICK s \in Senders : LoadRef(s) \/ StoreRef(s)
    BY <1>1
  <2>2. UNCHANGED <<cur, texts, refs, raced, wire>>
    BY <2>1, Zenon DEF LoadRef, StoreRef
  <2>3. \A o \in Senders : pc'[o] = "header" <=> pc[o] = "header"
    BY <2>1 DEF LoadRef, StoreRef, IInv, TypeOK
  <2>4. QED
    BY <2>2, <2>3, CountWhole
<1>2. CASE \E s \in Senders : Begin(s) \/ ReadRef(s) \/ SendPart(s)
  BY <1>2, BeginWhole, ReadRefWhole, SendPartWhole, Zenon
<1>3. CASE SendPlain \/ Done \/ UNCHANGED vars
  <2>1. UNCHANGED <<pc, cur, texts, refs, raced, wire>>
    BY <1>3, Zenon DEF SendPlain, Done, vars
  <2>2. QED
    BY <2>1, CountWhole
<1>4. QED
  BY <1>1, <1>2, <1>3, Zenon DEF Next

\* A text that is out in full, taken without a race.
Whole(k) == /\ ~raced /\ NumParts(texts[k].len) > 1
            /\ texts[k].out = NumParts(texts[k].len) /\ texts[k].len <= MaxText

\* Part j of such a text, at place i.
LEMMA PartOf ==
  ASSUME IInv, NEW k \in 1..Len(texts), Whole(k),
         NEW j \in 1..NumParts(texts[k].len), NEW i \in 1..Len(wire), Is(i, k, j)
  PROVE  LET p == wire[i].pkg
         IN /\ i \in Sharing(texts[k].ref) /\ wire[i].of = k
            /\ p.chunk.udh[5] = NumParts(texts[k].len)
            /\ p.PkTotal = NumParts(texts[k].len)
            /\ p.chunk.udh[6] = j /\ p.PkNumber = j
            /\ p.chunk.from = (j - 1) * 134
            /\ p.chunk.to = EndOfPart(texts[k].len, j)
<1> DEFINE len == texts[k].len
           ref == texts[k].ref
           n == NumParts(len)
           p == wire[i].pkg
<1>1. len \in Nat /\ ref \in 0..255 /\ n > 1 /\ len <= MaxText
  BY TextTypes DEF IInv, Whole
<1>2. wire[i].of = k /\ p = GetMsgPkgs(len, ref)[j]
  BY DEF Is
<1> HIDE DEF len, ref
<1>3. n \in Nat /\ n <= 255
  <2>1. n \in Nat /\ (n - 1) * 134 < len
    BY <1>1, NumPartsBounds
  <2>2. len <= 255 * 134
    BY <1>1 DEF MaxText, SmsBodyLen, SmsLength, SmsHeaderLength
  <2> HIDE DEF n
  <2>3. QED
    BY <1>1, <2>1, <2>2
<1> HIDE DEF p
<1>4. j \in 1..n
  BY DEF len
<1>5. Byte(n) = n /\ Byte(j) = j
  <2> HIDE DEF n
  <2>1. QED
    BY <1>3, <1>4 DEF Byte
<1>6. /\ p.udhi /\ p.PkTotal = Byte(n) /\ p.PkNumber = Byte(j)
      /\ p.chunk.udh[4] = ref /\ p.chunk.udh[5] = Byte(n)
      /\ p.chunk.udh[6] = Byte(j)
      /\ p.chunk.from = (j - 1) * 134 /\ p.chunk.to = EndOfPart(len, j)
  <2>1. IsPart(p, len, ref, j)
    BY <1>1, <1>2, <1>4, PartFields, Zenon
  <2>2. QED
    BY <1>1, <2>1, Zenon DEF IsPart
<1>7. i \in Sharing(ref)
  BY <1>6 DEF Sharing, p
<1>8. QED
  BY <1>2, <1>5, <1>6, <1>7 DEF p, len, ref

\* Nothing else carries its reference.
LEMMA OnlyItsParts ==
  ASSUME IInv, WholeInv, NEW k \in 1..Len(texts), Whole(k),
         NEW i \in Sharing(texts[k].ref)
  PROVE  i \in 1..Len(wire) /\ \E j \in 1..NumParts(texts[k].len) : Is(i, k, j)
<1>1. /\ i \in 1..Len(wire) /\ wire[i].pkg.udhi
      /\ wire[i].pkg.chunk.udh[4] = texts[k].ref
  BY DEF Sharing
<1>2. PICK q \in 1..Len(texts) : \E j \in 1..texts[q].out : Is(i, q, j)
  BY <1>1, Zenon DEF WholeInv, PartsInv
<1>3. PICK j \in 1..texts[q].out : Is(i, q, j)
  BY <1>2
<1>4. /\ texts[q].len \in Nat /\ texts[q].ref \in 0..255 /\ texts[q].out \in Nat
      /\ texts[q].out <= NumParts(texts[q].len)
      /\ NumParts(texts[q].len) \in Nat
  <2>1. /\ texts[q].len \in Nat /\ texts[q].ref \in 0..255
        /\ texts[q].out \in Nat
    BY TextTypes DEF IInv
  <2>2. texts[q].out <= NumParts(texts[q].len)
    BY DEF WholeInv, PartsInv
  <2>3. NumParts(texts[q].len) \in Nat
    BY <2>1, NumPartsBounds
  <2>4. QED
    BY <2>1, <2>2, <2>3
<1>5. j \in 1..NumParts(texts[q].len) /\ texts[q].out # 0
  BY <1>4
<1>6. wire[i].pkg = GetMsgPkgs(texts[q].len, texts[q].ref)[j]
  BY <1>3 DEF Is
<1>7. NumParts(texts[q].len) > 1 /\ texts[q].ref = texts[k].ref
  <2>1. IsPart(wire[i].pkg, texts[q].len, texts[q].ref, j)
    BY <1>4, <1>5, <1>6, PartFields, Zenon
  <2>2. QED
    BY <1>1, <2>1, Zenon DEF IsPart
<1>8. \A r \in 1..Len(texts) :
        NumParts(texts[r].len) > 1 /\ texts[r].out # 0 => r \in Taken
  BY DEF Taken, Waiting, WholeInv, TakenInv
<1>9. NumParts(texts[k].len) > 1 /\ texts[k].out # 0
  BY DEF Whole
<1>10. q = k
  BY <1>5, <1>7, <1>8, <1>9, Zenon DEF Whole, WholeInv, ApartInv
<1>11. QED
  BY <1>1, <1>3, <1>5, <1>10

\* Without a race the parts that carry a text's reference are its own, complete,
\* and their numbers put it together again, for any number of senders and any
\* lengths (utils.go:161-233).  A byte has 256 references: the theorem is about
\* the first 256 texts, and the 257th of several parts takes the first one's.
THEOREM TextsAreWhole ==
  ASSUME MaxTexts <= 256
  PROVE  Spec => []TextsReassemble
<1>1. ASSUME IInv, WholeInv PROVE TextsReassemble
  <2> SUFFICES ASSUME NEW k \in 1..Len(texts), Whole(k)
      PROVE  LET t == texts[k]
                 Mine == Sharing(t.ref)
                 n == NumParts(t.len)
                 Body(i) == wire[i].pkg.chunk
             IN /\ \A i \in Mine : wire[i].of = k
                /\ \A i \in Mine : /\ Body(i).udh[5] = n
                                   /\ wire[i].pkg.PkTotal = n
                                   /\ Body(i).udh[6] = wire[i].pkg.PkNumber
                /\ \A no \in 1..n : \E i \in Mine :
                     /\ Body(i).udh[6] = no
                     /\ Body(i).from = 0 <=> no = 1
                     /\ Body(i).to = t.len <=> no = n
                     /\ no > 1 => \E j \in Mine : /\ Body(j).udh[6] = no - 1
                                                  /\ Body(j).to = Body(i).from
                     /\ t.len % 2 = 0 => Body(i).from % 2 = 0
    BY DEF TextsReassemble, Whole
  <2> DEFINE len == texts[k].len
             Mine == Sharing(texts[k].ref)
             n == NumParts(len)
             Body(i) == wire[i].pkg.chunk
  <2>1. len \in Nat /\ n \in Nat /\ n > 1 /\ texts[k].out = n
    BY <1>1, TextTypes, NumPartsBounds DEF IInv, Whole
  <2>2. ASSUME NEW i \in Mine
        PROVE  /\ wire[i].of = k /\ Body(i).udh[5] = n
               /\ wire[i].pkg.PkTotal = n
               /\ Body(i).udh[6] = wire[i].pkg.PkNumber
    <3>1. PICK j \in 1..n : i \in 1..Len(wire) /\ Is(i, k, j)
      BY <1>1, OnlyItsParts
    <3>2. k \in 1..Len(texts) /\ Whole(k) /\ j \in 1..NumParts(texts[k].len)
      BY <1>1
    <3> HIDE DEF len, n, Mine
    <3>3. LET p == wire[i].pkg
          IN /\ wire[i].of = k /\ p.chunk.udh[5] = NumParts(texts[k].len)
             /\ p.PkTotal = NumParts(texts[k].len)
             /\ p.chunk.udh[6] = j /\ p.PkNumber = j
      BY <1>1, <3>1, <3>2, PartOf
    <3>4. QED
      BY <3>3, Zenon DEF n, len
  <2>3. ASSUME NEW j \in 1..n
        PROVE  \E i \in Mine : /\ Body(i).udh[6] = j
                               /\ Body(i).from = (j - 1) * 134
                               /\ Body(i).to = EndOfPart(len, j)
    <3>1. PICK i \in 1..Len(wire) : Is(i, k, j)
      BY <1>1, <2>1, Zenon DEF WholeInv, PartsInv
    <3>2. QED
      BY <1>1, <3>1, PartOf
  <2>4. ASSUME NEW no \in 1..n
        PROVE  \E i \in Mine :
                 /\ Body(i).udh[6] = no
                 /\ Body(i).from = 0 <=> no = 1
                 /\ Body(i).to = len <=> no = n
                 /\ no > 1 => \E j \in Mine : /\ Body(j).udh[6] = no - 1
                                              /\ Body(j).to = Body(i).from
                 /\ len % 2 = 0 => Body(i).from % 2 = 0
    <3>1. PICK i \in Mine : /\ Body(i).udh[6] = no
                            /\ Body(i).from = (no - 1) * 134
                            /\ Body(i).to = EndOfPart(len, no)
      BY <2>3
    <3>2. EndOfPart(len, no) = len <=> no = n
      BY <2>1, BodyBounds
    <3>3. ASSUME no > 1
          PROVE  \E j \in Mine : /\ Body(j).udh[6] = no - 1
                                 /\ Body(j).to = (no - 1) * 134
      <4> DEFINE m == no - 1
      <4>1. m \in 1..n /\ m < n
        BY <2>1, <3>3
      <4> HIDE DEF m
      <4>2. PICK j \in Mine : /\ Body(j).udh[6] = m
                              /\ Body(j).to = EndOfPart(len, m)
        BY <2>3, <4>1
      <4>3. EndOfPart(len, m) = m * 134
        BY <2>1, <4>1, BodyBounds
      <4>4. QED
        BY <4>2, <4>3 DEF m
    <3> HIDE DEF Mine, Body, n, len
    <3>4. (no - 1) * 134 = 0 <=> no = 1
      BY <2>1
    <3>5. ((no - 1) * 134) % 2 = 0
      BY <2>1
    <3>6. /\ Body(i).from = 0 <=> no = 1
          /\ Body(i).to = len <=> no = n
          /\ len % 2 = 0 => Body(i).from % 2 = 0
      BY <3>1, <3>2, <3>4, <3>5, Zenon
    <3>7. ASSUME no > 1
          PROVE  \E j \in Mine : /\ Body(j).udh[6] = no - 1
                                 /\ Body(j).to = Body(i).from
      BY <3>1, <3>3, <3>7, Zenon
    <3>8. QED
      BY <3>1, <3>6, <3>7, Zenon
  <2>5. QED
    BY <2>2, <2>4
<1>2. Init => IInv /\ WholeInv
  BY InvInit, WholeInit
<1>3. IInv /\ WholeInv /\ [Next]_vars => (IInv /\ WholeInv)'
  BY InvStep, WholeStep
<1>4. QED
  BY <1>1, <1>2, <1>3, PTL DEF Spec

-----------------------------------------------------------------------------
(* Widths.  A sum is a function of the number of its terms. *)

Upto(g, ws) ==
  g = [i \in 0..Len(ws) |-> IF i = 0 THEN 0 ELSE g[i - 1] + ws[i]]

Sums(g, ws, n) == /\ g[0] = 0 /\ \A i \in 0..n : g[i] \in Nat
                  /\ \A i \in 1..n : g[i] = g[i - 1] + ws[i]
LEMMA SumSteps ==
  ASSUME NEW n \in Nat, NEW ws \in [1..n -> Nat], Len(ws) = n
  PROVE  \E g : Sums(g, ws, n) /\ Sum(ws) = g[n]
<1> DEFINE step == [i \in 1..n |-> [a \in Nat |-> a + ws[i]]]
           h == CHOOSE g : Upto(g, ws)
<1>1. step \in [1..n -> [Nat -> Nat]] /\ 0 \in Nat
  OBVIOUS
<1>2. \A i \in 1..n : \A a \in Nat : step[i][a] = a + ws[i]
  OBVIOUS
<1> HIDE DEF step
<1>3. PICK g : Steps(g, Nat, 0, n, step)
  BY <1>1, Recursion
<1>4. /\ g \in [0..n -> Nat] /\ g[0] = 0
      /\ \A i \in 1..n : g[i] = step[i][g[i - 1]]
  BY <1>3 DEF Steps
<1>5. ASSUME NEW i \in 1..n PROVE g[i] = g[i - 1] + ws[i]
  <2>1. i - 1 \in 0..n
    OBVIOUS
  <2>2. g[i - 1] \in Nat /\ g[i] = step[i][g[i - 1]]
    BY <1>4, <2>1, Zenon
  <2>3. QED
    BY <1>2, <2>2, Zenon
<1>6. Upto(g, ws)
  <2>1. \A i \in 0..n : i = 0 \/ i \in 1..n
    OBVIOUS
  <2>2. ASSUME NEW i \in 0..n
        PROVE  g[i] = IF i = 0 THEN 0 ELSE g[i - 1] + ws[i]
    <3>1. CASE i = 0
      BY <1>4, <3>1, Zenon
    <3>2. CASE i \in 1..n
      <4>1. i # 0
        BY <3>2
      <4>2. QED
        BY <1>5, <3>2, <4>1, Zenon
    <3>3. QED
      BY <2>1, <3>1, <3>2, Zenon
  <2>3. g = [i \in 0..n |-> g[i]]
    BY <1>4
  <2>4. g = [i \in 0..n |-> IF i = 0 THEN 0 ELSE g[i - 1] + ws[i]]
    BY <2>2, <2>3, Zenon
  <2>5. QED
    BY <2>4, Zenon DEF Upto
<1>7. Upto(h, ws)
  BY <1>6, Zenon
<1>8. Sum(ws) = h[n]
  BY DEF Sum, Upto
<1> HIDE DEF h
<1>9. h = [i \in 0..n |-> IF i = 0 THEN 0 ELSE h[i - 1] + ws[i]]
  BY <1>7, Zenon DEF Upto
<1>10. h[0] = 0
  <2>1. 0 \in 0..n
    OBVIOUS
  <2>2. QED
    BY <1>9, <2>1, Zenon
<1>11. ASSUME NEW i \in 1..n PROVE h[i] = h[i - 1] + ws[i]
  <2>1. i \in 0..n /\ i # 0
    OBVIOUS
  <2>2. QED
    BY <1>9, <2>1, Zenon
<1> DEFINE S == {m \in Nat : m <= n => h[m] \in Nat}
<1>12. ASSUME NEW m \in Nat, m \in S PROVE m + 1 \in S
  <2>1. ASSUME m + 1 <= n PROVE h[m + 1] \in Nat
    <3>1. m + 1 \in 1..n /\ (m + 1) - 1 = m /\ m <= n
      BY <2>1
    <3>2. h[m + 1] = h[m] + ws[m + 1]
      BY <1>11, <3>1, Zenon
    <3>3. h[m] \in Nat /\ ws[m + 1] \in Nat
      BY <1>12, <3>1
    <3>4. QED
      BY <3>2, <3>3
  <2>2. QED
    BY <2>1
<1>13. 0 \in S
  BY <1>10
<1>14. \A m \in Nat : m \in S
  <2> HIDE DEF S
  <2>1. QED
    BY <1>12, <1>13, SetInduction
<1>15. \A i \in 0..n : h[i] \in Nat
  BY <1>14
<1>16. Sums(h, ws, n)
  BY <1>10, <1>11, <1>15, Zenon DEF Sums
<1>17. QED
  BY <1>8, <1>16, Zenon

\* From the a-th on, v has the terms of w, and its sums grow by those of w.
Within(g, v, p, a, h, w, n) ==
  /\ a \in Nat /\ n \in Nat /\ p \in Nat /\ a + n <= p
  /\ Sums(g, v, p) /\ Sums(h, w, n)
  /\ \A i \in 1..n : v[a + i] \in Nat /\ v[a + i] = w[i]
Grown(g, a, h, n) == g[a + n] = g[a] + h[n]
LEMMA SameSums ==
  ASSUME NEW g, NEW v, NEW p, NEW a, NEW h, NEW w, NEW n,
         Within(g, v, p, a, h, w, n)
  PROVE  Grown(g, a, h, n)
<1>0. /\ a \in Nat /\ n \in Nat /\ p \in Nat /\ a + n <= p
      /\ Sums(g, v, p) /\ Sums(h, w, n)
      /\ \A i \in 1..n : v[a + i] \in Nat /\ v[a + i] = w[i]
  BY Zenon DEF Within
<1> DEFINE Good(m) == g[a + m] = g[a] + h[m]
           S == {m \in Nat : m <= n => Good(m)}
<1>1. 0 \in S
  <2>1. a + 0 = a /\ a \in 0..p
    BY <1>0
  <2>2. g[a] \in Int /\ h[0] = 0
    BY <1>0, <2>1 DEF Sums
  <2>3. QED
    BY <2>1, <2>2
<1>2. ASSUME NEW m \in Nat, m \in S PROVE m + 1 \in S
  <2> SUFFICES ASSUME m + 1 <= n PROVE Good(m + 1)
    OBVIOUS
  <2>1. /\ a + (m + 1) \in 1..p /\ (a + (m + 1)) - 1 = a + m
        /\ m + 1 \in 1..n /\ (m + 1) - 1 = m /\ m <= n
        /\ a + m \in 0..p /\ a \in 0..p /\ m \in 0..n
    BY <1>0
  <2>2. /\ g[a + (m + 1)] = g[a + m] + v[a + (m + 1)]
        /\ h[m + 1] = h[m] + w[m + 1]
    BY <1>0, <2>1, Zenon DEF Sums
  <2>3. v[a + (m + 1)] \in Nat /\ v[a + (m + 1)] = w[m + 1]
    BY <1>0, <2>1, Zenon
  <2>4. /\ g[a + m] \in Nat /\ g[a] \in Nat /\ h[m] \in Nat
    BY <1>0, <2>1, Zenon DEF Sums
  <2>5. Good(m)
    BY <1>2, <2>1
  <2>6. QED
    BY <2>2, <2>3, <2>4, <2>5
<1> HIDE DEF Good
<1>3. \A m \in Nat : m \in S
  <2> HIDE DEF S
  <2>1. QED
    BY <1>1, <1>2, SetInduction
<1>4. Good(n)
  BY <1>0, <1>3
<1>5. QED
  BY <1>4 DEF Good, Grown

LEMMA SumType ==
  ASSUME NEW ws \in Seq(Nat)
  PROVE  Sum(ws) \in Nat /\ \E g : Sums(g, ws, Len(ws)) /\ Sum(ws) = g[Len(ws)]
<1>1. Len(ws) \in Nat /\ ws \in [1..Len(ws) -> Nat]
  OBVIOUS
<1>2. PICK g : Sums(g, ws, Len(ws)) /\ Sum(ws) = g[Len(ws)]
  BY <1>1, SumSteps, Zenon
<1>3. Len(ws) \in 0..Len(ws)
  BY <1>1
<1>4. QED
  BY <1>2, <1>3, Zenon DEF Sums

LEMMA SumConcat ==
  ASSUME NEW v \in Seq(Nat), NEW w \in Seq(Nat)
  PROVE  Sum(v \o w) = Sum(v) + Sum(w)
<1> DEFINE a == Len(v)
           b == Len(w)
           vw == v \o w
<1>1. /\ vw \in Seq(Nat) /\ Len(vw) = a + b
      /\ a \in Nat /\ b \in Nat /\ a + b \in Nat /\ a <= a + b
      /\ \A i \in 1..a : v[i] \in Nat /\ vw[i] = v[i]
      /\ \A i \in 1..b : w[i] \in Nat /\ vw[a + i] = w[i]
  BY Concat, ConcatParts
<1> HIDE DEF vw
<1>2. PICK g : Sums(g, vw, a + b) /\ Sum(vw) = g[a + b]
  BY <1>1, SumType
<1>3. PICK gv : Sums(gv, v, a) /\ Sum(v) = gv[a]
  BY SumType
<1>4. PICK gw : Sums(gw, w, b) /\ Sum(w) = gw[b]
  BY SumType
<1> HIDE DEF a, b
<1>5. Grown(g, 0, gv, a)
  <2>1. /\ 0 \in Nat /\ 0 + a = a /\ 0 + a <= a + b /\ \A i \in 1..a : 0 + i = i
    BY <1>1
  <2>2. Within(g, vw, a + b, 0, gv, v, a)
    BY <1>1, <1>2, <1>3, <2>1, Zenon DEF Within
  <2>3. QED
    BY <2>2, SameSums, Zenon
<1>6. Grown(g, a, gw, b)
  <2>1. a + b <= a + b
    BY <1>1
  <2>2. Within(g, vw, a + b, a, gw, w, b)
    BY <1>1, <1>2, <1>4, <2>1, Zenon DEF Within
  <2>3. QED
    BY <2>2, SameSums, Zenon
<1>7. gv[a] \in Nat /\ gw[b] \in Nat /\ g[0] = 0
  <2>1. a \in 0..a /\ b \in 0..b
    BY <1>1
  <2>2. QED
    BY <1>2, <1>3, <1>4, <2>1, Zenon DEF Sums
<1>8. g[a + b] = gv[a] + gw[b]
  BY <1>1, <1>5, <1>6, <1>7 DEF Grown
<1>9. QED
  BY <1>2, <1>3, <1>4, <1>8, Zenon DEF vw

Adds(g, u, m, l) == g[l] = g[m] + u[l]
Crossed(a, b, c, d) == (a + b) + (c + d) = (a + c) + (b + d)
LEMMA CrossedSums == \A a, b, c, d \in Nat : Crossed(a, b, c, d)
BY DEF Crossed

\* The sum of sums.
Termwise(u, v, w, n) == \A i \in 1..n : u[i] = v[i] + w[i]
LEMMA SumOfSums ==
  ASSUME NEW n \in Nat, NEW u \in Seq(Nat), NEW v \in Seq(Nat), NEW w \in Seq(Nat),
         Len(u) = n, Len(v) = n, Len(w) = n, Termwise(u, v, w, n)
  PROVE  Sum(u) = Sum(v) + Sum(w)
<1>1. PICK g : Sums(g, u, n) /\ Sum(u) = g[n]
  BY SumType
<1>2. PICK h : Sums(h, v, n) /\ Sum(v) = h[n]
  BY SumType
<1>3. PICK k : Sums(k, w, n) /\ Sum(w) = k[n]
  BY SumType
<1>4. \A i \in 1..n : v[i] \in Nat /\ w[i] \in Nat
  OBVIOUS
<1> DEFINE Good(m) == g[m] = h[m] + k[m]
           S == {m \in Nat : m <= n => Good(m)}
<1>5. 0 \in S
  <2>1. g[0] = 0 /\ h[0] = 0 /\ k[0] = 0
    BY <1>1, <1>2, <1>3, Zenon DEF Sums
  <2>2. QED
    BY <2>1
<1>6. ASSUME NEW m \in Nat, m \in S PROVE m + 1 \in S
  <2> SUFFICES ASSUME m + 1 <= n PROVE Good(m + 1)
    OBVIOUS
  <2>1. m + 1 \in 1..n /\ (m + 1) - 1 = m /\ m <= n /\ m \in 0..n
    OBVIOUS
  <2>2. /\ Adds(g, u, m, m + 1) /\ Adds(h, v, m, m + 1)
        /\ Adds(k, w, m, m + 1)
    BY <1>1, <1>2, <1>3, <2>1, Zenon DEF Sums, Adds
  <2>3. u[m + 1] = v[m + 1] + w[m + 1] /\ v[m + 1] \in Nat /\ w[m + 1] \in Nat
    BY <1>4, <2>1, Zenon DEF Termwise
  <2>4. h[m] \in Nat /\ k[m] \in Nat
    BY <1>2, <1>3, <2>1, Zenon DEF Sums
  <2>5. Good(m)
    BY <1>6, <2>1
  <2>6. /\ h[m] \in Nat /\ k[m] \in Nat /\ v[m + 1] \in Nat /\ w[m + 1] \in Nat
        /\ u[m + 1] = v[m + 1] + w[m + 1] /\ g[m] = h[m] + k[m]
    BY <2>3, <2>4, <2>5, Zenon
  <2>7. Crossed(h[m], k[m], v[m + 1], w[m + 1])
    BY <2>6, CrossedSums, Zenon
  <2>8. g[m + 1] = h[m + 1] + k[m + 1]
    BY <2>2, <2>6, <2>7, Zenon DEF Crossed, Adds
  <2>9. QED
    BY <2>8
<1> HIDE DEF Good
<1>7. \A m \in Nat : m \in S
  <2> HIDE DEF S
  <2>1. QED
    BY <1>5, <1>6, SetInduction
<1>8. Good(n)
  BY <1>7
<1>9. QED
  BY <1>1, <1>2, <1>3, <1>8 DEF Good

\* The sum of n equal terms.
LEMMA SumSame ==
  ASSUME NEW n \in Nat, NEW c \in Nat
  PROVE  Sum([i \in 1..n |-> c]) = n * c
<1> DEFINE ws == [i \in 1..n |-> c]
           S == {m \in Nat : Sum([i \in 1..m |-> c]) = m * c}
<1>1. 0 \in S
  <2>1. [i \in 1..0 |-> c] = << >> /\ << >> \in Seq(Nat)
    OBVIOUS
  <2>2. PICK g : Sums(g, << >>, Len(<< >>)) /\ Sum(<< >>) = g[Len(<< >>)]
    BY <2>1, SumType
  <2>3. Sum(<< >>) = 0
    BY <2>2 DEF Sums
  <2>4. Sum([i \in 1..0 |-> c]) = 0 * c
    BY <2>1, <2>3
  <2>5. QED
    BY <2>4
<1>2. ASSUME NEW m \in Nat, m \in S PROVE m + 1 \in S
  <2> DEFINE v == [i \in 1..m |-> c]
             w == [i \in 1..(m + 1) |-> c]
  <2>1. v \in Seq(Nat) /\ <<c>> \in Seq(Nat) /\ w = v \o <<c>>
    OBVIOUS
  <2>2. Sum(<<c>>) = c
    <3>1. PICK g : Sums(g, <<c>>, 1) /\ Sum(<<c>>) = g[1]
      BY SumType
    <3>2. g[0] = 0 /\ g[1] = g[0] + <<c>>[1]
      <4>1. 1 \in 1..1 /\ 1 - 1 = 0
        OBVIOUS
      <4>2. QED
        BY <3>1, <4>1, Zenon DEF Sums
    <3>3. QED
      BY <3>1, <3>2
  <2>3. Sum(v) = m * c
    BY <1>2
  <2>4. Sum(w) = Sum(v) + Sum(<<c>>)
    <3> HIDE DEF v, w
    <3>1. QED
      BY <2>1, SumConcat
  <2> HIDE DEF v
  <2>5. Sum(w) = (m + 1) * c
    <3> HIDE DEF w
    <3>1. QED
      BY <2>2, <2>3, <2>4
  <2>6. QED
    BY <2>5
<1>3. \A m \in Nat : m \in S
  <2> HIDE DEF S
  <2>1. QED
    BY <1>1, <1>2, SetInduction
<1>4. QED
  BY <1>3

\* A sum of at most sixteen terms.
Term(ws, i) == IF i <= Len(ws) THEN ws[i] ELSE 0
SumIsShort(ws) ==
  Sum(ws) = Term(ws, 1) + Term(ws, 2) + Term(ws, 3) + Term(ws, 4)
            + Term(ws, 5) + Term(ws, 6) + Term(ws, 7) + Term(ws, 8)
            + Term(ws, 9) + Term(ws, 10) + Term(ws, 11) + Term(ws, 12)
            + Term(ws, 13) + Term(ws, 14) + Term(ws, 15) + Term(ws, 16)
LEMMA ShortSum ==
  ASSUME NEW ws \in Seq(Nat), Len(ws) <= 16
  PROVE  SumIsShort(ws)
<1> DEFINE n == Len(ws)
<1>1. PICK g : Sums(g, ws, n) /\ Sum(ws) = g[n]
  BY SumType
<1> DEFINE G(i) == IF i <= n THEN g[i] ELSE g[n]
<1>a. \A i \in 1..n : ws[i] \in Nat
  OBVIOUS
<1>b. n \in 0..16
  <2>1. n \in Nat /\ n <= 16
    OBVIOUS
  <2> HIDE DEF n
  <2>2. QED
    BY <2>1
<1>2. n \in 0..16 /\ \A i \in 1..n : ws[i] \in Nat
  BY <1>a, <1>b, Zenon
<1>3. g[0] = 0 /\ \A i \in 0..n : g[i] \in Nat
  BY <1>1, Zenon DEF Sums
<1>4. ASSUME NEW i \in 1..16
      PROVE  G(i) = G(i - 1) + Term(ws, i) /\ Term(ws, i) \in Nat
  <2>1. CASE i <= n
    <3>1. i \in 1..n /\ i - 1 \in 0..n
      BY <1>2, <2>1
    <3>2. g[i] = g[i - 1] + ws[i]
      BY <1>1, <3>1, Zenon DEF Sums
    <3>3. Term(ws, i) = ws[i] /\ G(i) = g[i] /\ G(i - 1) = g[i - 1]
      BY <2>1, <3>1 DEF Term
    <3>4. QED
      BY <1>2, <3>1, <3>2, <3>3
  <2>2. CASE ~(i <= n)
    <3>1. Term(ws, i) = 0 /\ G(i) = g[n] /\ G(i - 1) = g[n] /\ n \in 0..n
      BY <1>2, <2>2 DEF Term
    <3>2. QED
      BY <1>3, <3>1
  <2>3. QED
    BY <2>1, <2>2
<1>5. G(0) = 0 /\ G(16) = g[n]
  BY <1>2, <1>3
<1> HIDE DEF G
<1>6. G(4) = Term(ws, 1) + Term(ws, 2) + Term(ws, 3) + Term(ws, 4)
  <2>1. /\ G(1) = G(0) + Term(ws, 1) /\ G(2) = G(1) + Term(ws, 2)
        /\ G(3) = G(2) + Term(ws, 3) /\ G(4) = G(3) + Term(ws, 4)
        /\ Term(ws, 1) \in Nat /\ Term(ws, 2) \in Nat
        /\ Term(ws, 3) \in Nat /\ Term(ws, 4) \in Nat
    BY <1>4
  <2>2. QED
    BY <1>5, <2>1
<1>7. G(8) = G(4) + Term(ws, 5) + Term(ws, 6) + Term(ws, 7) + Term(ws, 8)
  <2>1. /\ G(5) = G(4) + Term(ws, 5) /\ G(6) = G(5) + Term(ws, 6)
        /\ G(7) = G(6) + Term(ws, 7) /\ G(8) = G(7) + Term(ws, 8)
        /\ Term(ws, 5) \in Nat /\ Term(ws, 6) \in Nat
        /\ Term(ws, 7) \in Nat /\ Term(ws, 8) \in Nat
    BY <1>4
  <2>2. QED
    BY <2>1
<1>8. G(12) = G(8) + Term(ws, 9) + Term(ws, 10) + Term(ws, 11) + Term(ws, 12)
  <2>1. /\ G(9) = G(8) + Term(ws, 9) /\ G(10) = G(9) + Term(ws, 10)
        /\ G(11) = G(10) + Term(ws, 11) /\ G(12) = G(11) + Term(ws, 12)
        /\ Term(ws, 9) \in Nat /\ Term(ws, 10) \in Nat
        /\ Term(ws, 11) \in Nat /\ Term(ws, 12) \in Nat
    BY <1>4
  <2>2. QED
    BY <2>1
<1>9. G(16) = G(12) + Term(ws, 13) + Term(ws, 14) + Term(ws, 15) + Term(ws, 16)
  <2>1. /\ G(13) = G(12) + Term(ws, 13) /\ G(14) = G(13) + Term(ws, 14)
        /\ G(15) = G(14) + Term(ws, 15) /\ G(16) = G(15) + Term(ws, 16)
        /\ Term(ws, 13) \in Nat /\ Term(ws, 14) \in Nat
        /\ Term(ws, 15) \in Nat /\ Term(ws, 16) \in Nat
    BY <1>4
  <2>2. QED
    BY <2>1
<1>10. QED
  BY <1>1, <1>5, <1>6, <1>7, <1>8, <1>9 DEF SumIsShort

\* The cells Pack writes: how one is written is a matter of its field.
Numbers == {"MsgType", "NeedReport", "Priority", "MsgFormat", "DestTermIDCount",
            "MsgLength", "IsReport", "LoginMode", "ClientVersion",
            "Status", "ServerVersion", "QueryType", "MT_TLMsg", "MT_Tlusr",
            "MT_Scs", "MT_WT", "MT_FL", "MO_Scs", "MO_WT", "MO_FL"}
Texts == {"ServiceID", "FeeType", "FeeCode", "FixedFee", "ValidTime", "AtTime",
          "SrcTermID", "ChargeTermID", "DestTermID", "Reserve", "RecvTime",
          "QueryTime", "QueryCode"}
Binaries == {"MsgID"} \cup Authenticators
Raws == {"", "MsgContent", "SubmitMsgID", "Sub", "Dlvrd", "SubmitDate",
         "DoneDate", "Stat", "Err", "Txt"}
Cells == [f : Numbers, w : Nat, how : {"num"}]
         \cup [f : Texts, w : Nat, how : {"text"}]
         \cup [f : Raws, w : Nat, how : {"raw"}]
         \cup {Bin("MsgID", 10), Text("ClientID", 8), Num("TimeStamp", 4)}
         \cup {Bin(f, 16) : f \in Authenticators}
AllNumbers == Numbers \cup {"TimeStamp"}
AllTexts == Texts \cup {"ClientID"}
LEMMA CellKinds ==
  \A c \in Cells : /\ c.w \in Nat
                   /\ \/ c.f \in AllNumbers /\ c.how = "num"
                      \/ c.f \in AllTexts /\ c.how = "text"
                      \/ c.f \in Binaries /\ c.how = "bin"
                      \/ c.f \in Raws /\ c.how = "raw"
<1> SUFFICES ASSUME NEW c \in Cells
             PROVE  /\ c.w \in Nat
                    /\ \/ c.f \in AllNumbers /\ c.how = "num"
                       \/ c.f \in AllTexts /\ c.how = "text"
                       \/ c.f \in Binaries /\ c.how = "bin"
                       \/ c.f \in Raws /\ c.how = "raw"
  OBVIOUS
<1>1. CASE \/ c \in [f : Numbers, w : Nat, how : {"num"}]
           \/ c \in [f : Texts, w : Nat, how : {"text"}]
           \/ c \in [f : Raws, w : Nat, how : {"raw"}]
  BY <1>1 DEF AllNumbers, AllTexts
<1>2. CASE c \in {Bin("MsgID", 10), Text("ClientID", 8), Num("TimeStamp", 4)}
  BY <1>2 DEF AllNumbers, AllTexts, Binaries, Bin, Text, Num
<1>3. CASE c \in {Bin(f, 16) : f \in Authenticators}
  BY <1>3 DEF Binaries, Bin
<1>4. QED
  BY <1>1, <1>2, <1>3 DEF Cells
LEMMA OneWay == \A c, d \in Cells : c.f = d.f => c.how = d.how
<1>1. AllNumbers \cap AllTexts = {}
  BY DEF AllNumbers, AllTexts, Numbers, Texts
<1>2. Binaries \cap (AllNumbers \cup AllTexts) = {}
  BY DEF AllNumbers, AllTexts, Numbers, Texts, Binaries, Authenticators
<1>3. Raws \cap (AllNumbers \cup AllTexts) = {}
  BY DEF AllNumbers, AllTexts, Numbers, Texts, Raws
<1>4. Raws \cap Binaries = {}
  BY DEF Binaries, Raws, Authenticators
<1>5. QED
  BY <1>1, <1>2, <1>3, <1>4, CellKinds
LEMMA CellTypes ==
  /\ \A w \in Nat : /\ \A f \in Numbers : Num(f, w) \in Cells
                    /\ \A f \in Texts : Text(f, w) \in Cells
                    /\ \A f \in Raws : Raw(f, w) \in Cells
  /\ Bin("MsgID", 10) \in Cells /\ Bin("AuthenticatorClient", 16) \in Cells
  /\ Bin("AuthenticatorServer", 16) \in Cells
  /\ Text("ClientID", 8) \in Cells /\ Num("TimeStamp", 4) \in Cells
<1>1. \A w \in Nat : /\ \A f \in Numbers : Num(f, w) \in Cells
                     /\ \A f \in Texts : Text(f, w) \in Cells
                     /\ \A f \in Raws : Raw(f, w) \in Cells
  BY DEF Cells, Num, Text, Raw
<1>2. /\ Bin("MsgID", 10) \in Cells /\ Text("ClientID", 8) \in Cells
      /\ Num("TimeStamp", 4) \in Cells
  BY Zenon DEF Cells
<1>3. \A f \in Authenticators : Bin(f, 16) \in Cells
  BY Zenon DEF Cells
<1>4. /\ "AuthenticatorClient" \in Authenticators
      /\ "AuthenticatorServer" \in Authenticators
  BY DEF Authenticators
<1>5. QED
  BY <1>1, <1>2, <1>3, <1>4, Zenon

Widths(cells) == [i \in 1..Len(cells) |-> cells[i].w]
LEMMA WidthType ==
  ASSUME NEW cells \in Seq(Cells)
  PROVE  /\ Widths(cells) \in Seq(Nat) /\ Len(Widths(cells)) = Len(cells)
         /\ Width(cells) = Sum(Widths(cells)) /\ Width(cells) \in Nat
<1>1. Len(cells) \in Nat /\ \A i \in 1..Len(cells) : cells[i].w \in Nat
  <2>1. \A i \in 1..Len(cells) : cells[i] \in Cells
    OBVIOUS
  <2>2. \A c \in Cells : c.w \in Nat
    BY CellKinds
  <2>3. QED
    BY <2>1, <2>2
<1>2. Widths(cells) \in Seq(Nat) /\ Len(Widths(cells)) = Len(cells)
  BY <1>1 DEF Widths
<1>3. Width(cells) = Sum(Widths(cells))
  BY Zenon DEF Width, Widths
<1>4. QED
  BY <1>2, <1>3, SumType

LEMMA WidthConcat ==
  ASSUME NEW a \in Seq(Cells), NEW b \in Seq(Cells)
  PROVE  a \o b \in Seq(Cells) /\ Width(a \o b) = Width(a) + Width(b)
<1>1. /\ a \o b \in Seq(Cells) /\ Len(a \o b) = Len(a) + Len(b)
      /\ \A i \in 1..Len(a) : (a \o b)[i] = a[i]
      /\ \A i \in 1..Len(b) : (a \o b)[Len(a) + i] = b[i]
  BY Concat, ConcatParts
<1>2. Widths(a \o b) = Widths(a) \o Widths(b)
  <2> DEFINE ab == a \o b
             u == Widths(ab)
             v == Widths(a) \o Widths(b)
  <2>1. u \in Seq(Nat) /\ Len(u) = Len(a) + Len(b)
    BY <1>1, WidthType
  <2>2. /\ Widths(a) \in Seq(Nat) /\ Len(Widths(a)) = Len(a)
        /\ Widths(b) \in Seq(Nat) /\ Len(Widths(b)) = Len(b)
    BY WidthType
  <2>3. v \in Seq(Nat) /\ Len(v) = Len(a) + Len(b)
    <3>1. v \in Seq(Nat) /\ Len(v) = Len(Widths(a)) + Len(Widths(b))
      BY <2>2, Concat, Zenon
    <3>2. QED
      BY <2>2, <3>1
  <2>4. ASSUME NEW i \in 1..Len(a) PROVE u[i] = v[i]
    <3>1. i \in 1..Len(ab) /\ ab[i] = a[i]
      BY <1>1
    <3>2. u[i] = a[i].w
      BY <3>1 DEF Widths
    <3>3. Widths(a)[i] = a[i].w
      BY DEF Widths
    <3>4. v[i] = Widths(a)[i]
      BY <2>2, ConcatParts
    <3>5. QED
      BY <3>2, <3>3, <3>4
  <2>5. ASSUME NEW i \in 1..Len(b) PROVE u[Len(a) + i] = v[Len(a) + i]
    <3>1. Len(a) + i \in 1..Len(ab) /\ ab[Len(a) + i] = b[i]
      BY <1>1
    <3>2. u[Len(a) + i] = b[i].w
      BY <3>1 DEF Widths
    <3>3. Widths(b)[i] = b[i].w
      BY DEF Widths
    <3>4. v[Len(a) + i] = Widths(b)[i]
      BY <2>2, ConcatParts
    <3>5. QED
      BY <3>2, <3>3, <3>4
  <2> HIDE DEF u, v
  <2>6. ASSUME NEW i \in 1..Len(u) PROVE u[i] = v[i]
    <3>1. CASE i \in 1..Len(a)
      BY <2>4, <3>1
    <3>2. CASE i \notin 1..Len(a)
      <4>1. PICK j \in 1..Len(b) : i = Len(a) + j
        <5>1. i - Len(a) \in 1..Len(b) /\ i = Len(a) + (i - Len(a))
          BY <2>1, <3>2
        <5>2. QED
          BY <5>1, Zenon
      <4>2. QED
        BY <2>5, <4>1
    <3>3. QED
      BY <3>1, <3>2
  <2>7. u = v
    BY <2>1, <2>3, <2>6, SeqEqual
  <2>8. QED
    BY <2>7 DEF u, v
<1>3. Sum(Widths(a) \o Widths(b)) = Sum(Widths(a)) + Sum(Widths(b))
  BY WidthType, SumConcat
<1>4. QED
  BY <1>1, <1>2, <1>3, WidthType

LEMMA WidthSame ==
  ASSUME NEW n \in Nat, NEW c \in Cells
  PROVE  LET cells == [i \in 1..n |-> c]
         IN /\ cells \in Seq(Cells) /\ Len(cells) = n
            /\ Width(cells) = n * c.w
<1> DEFINE cells == [i \in 1..n |-> c]
<1>1. cells \in Seq(Cells) /\ Len(cells) = n /\ c.w \in Nat
  BY CellKinds
<1>2. Widths(cells) = [i \in 1..n |-> c.w]
  BY <1>1 DEF Widths
<1> HIDE DEF cells
<1>3. Width(cells) = Sum([i \in 1..n |-> c.w])
  BY <1>1, <1>2, WidthType
<1>4. Width(cells) = n * c.w
  BY <1>1, <1>3, SumSame
<1>5. QED
  BY <1>1, <1>4 DEF cells

\* The width of at most sixteen cells.
W(cells, i) == IF i <= Len(cells) THEN cells[i].w ELSE 0
WidthIsShort(cells) ==
  Width(cells) = W(cells, 1) + W(cells, 2) + W(cells, 3) + W(cells, 4)
                 + W(cells, 5) + W(cells, 6) + W(cells, 7) + W(cells, 8)
                 + W(cells, 9) + W(cells, 10) + W(cells, 11) + W(cells, 12)
                 + W(cells, 13) + W(cells, 14) + W(cells, 15) + W(cells, 16)
LEMMA ShortWidth ==
  ASSUME NEW cells \in Seq(Cells), Len(cells) <= 16
  PROVE  WidthIsShort(cells)
<1> DEFINE ws == Widths(cells)
<1>1. ws \in Seq(Nat) /\ Len(ws) = Len(cells) /\ Width(cells) = Sum(ws)
  BY WidthType
<1>2. \A i \in 1..16 : Term(ws, i) = W(cells, i)
  BY <1>1 DEF Term, W, Widths
<1> HIDE DEF ws
<1>3. SumIsShort(ws)
  BY <1>1, ShortSum, Zenon
<1>4. /\ Term(ws, 1) = W(cells, 1) /\ Term(ws, 2) = W(cells, 2)
      /\ Term(ws, 3) = W(cells, 3) /\ Term(ws, 4) = W(cells, 4)
      /\ Term(ws, 5) = W(cells, 5) /\ Term(ws, 6) = W(cells, 6)
      /\ Term(ws, 7) = W(cells, 7) /\ Term(ws, 8) = W(cells, 8)
      /\ Term(ws, 9) = W(cells, 9) /\ Term(ws, 10) = W(cells, 10)
      /\ Term(ws, 11) = W(cells, 11) /\ Term(ws, 12) = W(cells, 12)
      /\ Term(ws, 13) = W(cells, 13) /\ Term(ws, 14) = W(cells, 14)
      /\ Term(ws, 15) = W(cells, 15) /\ Term(ws, 16) = W(cells, 16)
  BY <1>2
<1>5. QED
  BY <1>1, <1>3, <1>4 DEF SumIsShort, WidthIsShort

Wide(cells, n) == cells \in Seq(Cells) /\ Width(cells) = n

SubmitHead ==
  << Num("MsgType", 1), Num("NeedReport", 1), Num("Priority", 1),
     Text("ServiceID", 10), Text("FeeType", 2), Text("FeeCode", 6),
     Text("FixedFee", 6), Num("MsgFormat", 1), Text("ValidTime", 17),
     Text("AtTime", 17), Text("SrcTermID", 21), Text("ChargeTermID", 21),
     Num("DestTermIDCount", 1) >>
LEMMA SubmitHeadWide == Wide(SubmitHead, 105)
<1>1. SubmitHead \in Seq(Cells) /\ Len(SubmitHead) <= 16
  BY CellTypes DEF SubmitHead, Numbers, Texts
<1>2. WidthIsShort(SubmitHead)
  BY <1>1, ShortWidth, Zenon
<1>3. QED
  BY <1>1, <1>2 DEF Wide, WidthIsShort, W, SubmitHead, Num, Text

SubmitTail(text) ==
  << Num("MsgLength", 1), Raw("MsgContent", text), Text("Reserve", 8) >>
LEMMA SubmitTailWide ==
  ASSUME NEW text \in Nat
  PROVE  Wide(SubmitTail(text), text + 9)
<1> DEFINE cells == SubmitTail(text)
<1>1. cells \in Seq(Cells) /\ Len(cells) <= 16
  <2>1. /\ Num("MsgLength", 1) \in Cells /\ Raw("MsgContent", text) \in Cells
        /\ Text("Reserve", 8) \in Cells
    BY CellTypes DEF Numbers, Texts, Raws
  <2>2. QED
    BY <2>1 DEF SubmitTail
<1>2. WidthIsShort(cells)
  <2> HIDE DEF cells
  <2>1. QED
    BY <1>1, ShortWidth, Zenon
<1>3. QED
  BY <1>1, <1>2 DEF Wide, WidthIsShort, W, SubmitTail, Num, Text, Raw

DestCells(n) == [i \in 1..n |-> Text("DestTermID", 21)]
LEMMA DestsWide ==
  ASSUME NEW n \in Nat
  PROVE  Wide(DestCells(n), n * 21) /\ Len(DestCells(n)) = n
<1>1. Text("DestTermID", 21) \in Cells /\ Text("DestTermID", 21).w = 21
  BY CellTypes DEF Texts, Text
<1>2. QED
  BY <1>1, WidthSame DEF Wide, DestCells

LEMMA WideConcat ==
  ASSUME NEW a, NEW b, NEW m \in Nat, NEW n \in Nat, Wide(a, m), Wide(b, n)
  PROVE  Wide(a \o b, m + n)
BY WidthConcat DEF Wide

LEMMA SubmitWide ==
  ASSUME NEW p, p.dests \in Nat, p.text \in Nat
  PROVE  Wide(PackSubmit(p), 114 + p.dests * 21 + p.text)
<1>1. PackSubmit(p) = (SubmitHead \o DestCells(p.dests)) \o SubmitTail(p.text)
  BY Zenon DEF PackSubmit, SubmitHead, DestCells, SubmitTail
<1>2. PICK d \in Nat, t \in Nat, m \in Nat :
        d = p.dests * 21 /\ t = p.text + 9 /\ m = 105 + d
  OBVIOUS
<1>3. Wide(SubmitHead \o DestCells(p.dests), m)
  BY <1>2, SubmitHeadWide, DestsWide, WideConcat
<1>4. Wide(SubmitTail(p.text), t)
  BY <1>2, SubmitTailWide
<1>5. Wide(PackSubmit(p), m + t)
  <2> DEFINE a == SubmitHead \o DestCells(p.dests)
             b == SubmitTail(p.text)
  <2> HIDE DEF a, b
  <2>1. m \in Nat /\ t \in Nat /\ Wide(a, m) /\ Wide(b, t)
    BY <1>2, <1>3, <1>4, Zenon DEF a, b
  <2>2. Wide(a \o b, m + t)
    BY <2>1, WideConcat, Zenon
  <2>3. QED
    BY <1>1, <2>2, Zenon DEF a, b
<1>6. m + t = 114 + p.dests * 21 + p.text
  BY <1>2
<1>7. QED
  BY <1>5, <1>6

DeliverHead ==
  << Bin("MsgID", 10), Num("IsReport", 1), Num("MsgFormat", 1),
     Text("RecvTime", 14), Text("SrcTermID", 21), Text("DestTermID", 21),
     Num("MsgLength", 1) >>
LEMMA DeliverHeadWide == Wide(DeliverHead, 69)
<1>1. DeliverHead \in Seq(Cells) /\ Len(DeliverHead) <= 16
  BY CellTypes DEF DeliverHead, Numbers, Texts
<1>2. WidthIsShort(DeliverHead)
  BY <1>1, ShortWidth, Zenon
<1>3. QED
  BY <1>1, <1>2 DEF Wide, WidthIsShort, W, DeliverHead, Num, Text, Bin

\* A content, a report and the padding.
LEMMA ContentWide ==
  ASSUME NEW n \in Nat
  PROVE  Wide(<< Raw("MsgContent", n) >>, n)
<1> DEFINE cells == << Raw("MsgContent", n) >>
<1>1. cells \in Seq(Cells) /\ Len(cells) <= 16
  <2>1. Raw("MsgContent", n) \in Cells
    BY CellTypes DEF Raws
  <2>2. QED
    BY <2>1
<1>2. WidthIsShort(cells)
  <2> HIDE DEF cells
  <2>1. QED
    BY <1>1, ShortWidth, Zenon
<1>3. QED
  BY <1>1, <1>2 DEF Wide, WidthIsShort, W, Raw

LEMMA PaddingWide == Wide(<< Text("Reserve", 8) >>, 8)
<1> DEFINE cells == << Text("Reserve", 8) >>
<1>1. cells \in Seq(Cells) /\ Len(cells) <= 16
  BY CellTypes DEF Texts
<1>2. WidthIsShort(cells)
  <2> HIDE DEF cells
  <2>1. QED
    BY <1>1, ShortWidth, Zenon
<1>3. QED
  BY <1>1, <1>2 DEF Wide, WidthIsShort, W, Text

\* A report is what Decode slices it into.
LEMMA ReportIsRead ==
  ASSUME NEW p, IsReport(p)
  PROVE  EncodeReport(p) = DecodeReport(p.text)
<1>1. /\ p.val["SubmitMsgID"].len = 10 /\ p.val["Sub"].len = 3
      /\ p.val["Dlvrd"].len = 3 /\ p.val["SubmitDate"].len = 10
      /\ p.val["DoneDate"].len = 10 /\ p.val["Stat"].len = 7
      /\ p.val["Err"].len = 3
  BY DEF IsReport, ReportWidths
<1>2. p.val["Txt"].len = p.text - 102
  BY DEF IsReport
<1>3. QED
  BY <1>1, <1>2, Zenon DEF EncodeReport, DecodeReport

LEMMA Sixteen ==
  ASSUME NEW C, NEW a \in C, NEW b \in C, NEW c \in C, NEW d \in C,
         NEW e \in C, NEW f \in C, NEW g \in C, NEW h \in C,
         NEW i \in C, NEW j \in C, NEW k \in C, NEW l \in C,
         NEW m \in C, NEW n \in C, NEW o \in C, NEW p \in C
  PROVE  <<a, b, c, d, e, f, g, h, i, j, k, l, m, n, o, p>> \in Seq(C)
OBVIOUS

LEMMA ReportWide ==
  ASSUME NEW said \in Nat, said >= 102
  PROVE  Wide(DecodeReport(said), said)
<1> DEFINE cells == DecodeReport(said)
<1>0. said - 102 \in Nat
  OBVIOUS
<1>1. cells \in Seq(Cells) /\ Len(cells) <= 16
  <2>1. /\ "" \in Raws /\ "SubmitMsgID" \in Raws /\ "Sub" \in Raws
        /\ "Dlvrd" \in Raws /\ "SubmitDate" \in Raws /\ "DoneDate" \in Raws
        /\ "Stat" \in Raws /\ "Err" \in Raws /\ "Txt" \in Raws
    BY DEF Raws
  <2>2. Raw("Txt", said - 102) \in Cells
    BY <1>0, <2>1, CellTypes, Zenon
  <2>3. /\ Raw("", 3) \in Cells /\ Raw("", 5) \in Cells
        /\ Raw("", 7) \in Cells /\ Raw("", 13) \in Cells
        /\ Raw("", 11) \in Cells /\ Raw("", 6) \in Cells
        /\ Raw("SubmitMsgID", 10) \in Cells /\ Raw("Sub", 3) \in Cells
        /\ Raw("Dlvrd", 3) \in Cells /\ Raw("SubmitDate", 10) \in Cells
        /\ Raw("DoneDate", 10) \in Cells /\ Raw("Stat", 7) \in Cells
        /\ Raw("Err", 3) \in Cells
    BY <2>1, CellTypes
  <2> DEFINE last == Raw("Txt", said - 102)
  <2>4. cells = << Raw("", 3), Raw("SubmitMsgID", 10), Raw("", 5), Raw("Sub", 3),
                   Raw("", 7), Raw("Dlvrd", 3), Raw("", 13),
                   Raw("SubmitDate", 10), Raw("", 11), Raw("DoneDate", 10),
                   Raw("", 6), Raw("Stat", 7), Raw("", 5), Raw("Err", 3),
                   Raw("", 6), last >>
    BY Zenon DEF DecodeReport
  <2> HIDE DEF last, cells
  <2>5. last \in Cells
    BY <2>2, Zenon DEF last
  <2>6. cells \in Seq(Cells)
    BY <2>3, <2>4, <2>5, Sixteen, Zenon
  <2>7. Len(cells) = 16
    BY <2>4
  <2>8. QED
    BY <2>6, <2>7
<1>2. WidthIsShort(cells)
  <2> HIDE DEF cells
  <2>1. QED
    BY <1>1, ShortWidth, Zenon
<1>3. QED
  <2>1. Len(cells) = 16
    BY DEF DecodeReport
  <2>2. /\ cells[1].w = 3 /\ cells[2].w = 10 /\ cells[3].w = 5 /\ cells[4].w = 3
        /\ cells[5].w = 7 /\ cells[6].w = 3 /\ cells[7].w = 13
        /\ cells[8].w = 10 /\ cells[9].w = 11 /\ cells[10].w = 10
        /\ cells[11].w = 6 /\ cells[12].w = 7 /\ cells[13].w = 5
        /\ cells[14].w = 3 /\ cells[15].w = 6 /\ cells[16].w = said - 102
    BY DEF DecodeReport, Raw
  <2> HIDE DEF cells
  <2>3. Width(cells) = said
    BY <1>2, <2>1, <2>2 DEF WidthIsShort, W
  <2>4. QED
    BY <1>1, <2>3 DEF Wide, cells

LEMMA DeliverWide ==
  ASSUME NEW p, p.text \in Nat, p.report \in BOOLEAN, p.report => IsReport(p)
  PROVE  Wide(PackDeliver(p), 77 + p.text)
<1> DEFINE content == IF p.report THEN EncodeReport(p)
                      ELSE << Raw("MsgContent", p.text) >>
<1>1. PackDeliver(p) = (DeliverHead \o content) \o << Text("Reserve", 8) >>
  BY Zenon DEF PackDeliver, DeliverHead
<1>2. PICK t \in Nat, m \in Nat : t = p.text /\ m = 69 + t
  OBVIOUS
<1>3. Wide(content, t)
  <2>1. CASE p.report
    <3>1. IsReport(p)
      BY <2>1
    <3>2. content = DecodeReport(t)
      BY <1>2, <2>1, <3>1, ReportIsRead, Zenon
    <3>3. t >= 102
      BY <1>2, <3>1 DEF IsReport
    <3>4. QED
      BY <3>2, <3>3, ReportWide
  <2>2. CASE ~p.report
    BY <1>2, <2>2, ContentWide, Zenon
  <2>3. QED
    BY <2>1, <2>2
<1> HIDE DEF content
<1>4. Wide(DeliverHead \o content, m)
  BY <1>2, <1>3, DeliverHeadWide, WideConcat
<1>5. Wide(PackDeliver(p), m + 8)
  BY <1>1, <1>4, PaddingWide, WideConcat
<1>6. QED
  BY <1>2, <1>5

LEMMA LoginWide == Wide(PackLogin, 30) /\ Wide(PackLoginResp, 21)
<1>1. /\ PackLogin \in Seq(Cells) /\ Len(PackLogin) <= 16
      /\ PackLoginResp \in Seq(Cells) /\ Len(PackLoginResp) <= 16
  BY CellTypes DEF PackLogin, PackLoginResp, Numbers, Texts
<1>2. WidthIsShort(PackLogin) /\ WidthIsShort(PackLoginResp)
  BY <1>1, ShortWidth, Zenon
<1>3. Wide(PackLogin, 30)
  BY <1>1, <1>2 DEF Wide, WidthIsShort, W, PackLogin, Num, Text, Bin
<1>4. Wide(PackLoginResp, 21)
  BY <1>1, <1>2 DEF Wide, WidthIsShort, W, PackLoginResp, Num, Bin
<1>5. QED
  BY <1>3, <1>4

LEMMA RespWide == Wide(PackSubmitResp, 14) /\ Wide(PackDeliverResp, 14)
<1>1. /\ PackSubmitResp \in Seq(Cells) /\ Len(PackSubmitResp) <= 16
      /\ PackDeliverResp = PackSubmitResp
  BY CellTypes DEF PackSubmitResp, PackDeliverResp, Numbers
<1>2. WidthIsShort(PackSubmitResp)
  BY <1>1, ShortWidth, Zenon
<1>3. Wide(PackSubmitResp, 14)
  BY <1>1, <1>2 DEF Wide, WidthIsShort, W, PackSubmitResp, Num, Bin
<1>4. QED
  BY <1>1, <1>3, Zenon

LEMMA QueryWide == Wide(PackQuery, 19) /\ Wide(PackQueryResp, 59)
<1>1. /\ PackQuery \in Seq(Cells) /\ Len(PackQuery) <= 16
      /\ PackQueryResp \in Seq(Cells) /\ Len(PackQueryResp) <= 16
  BY CellTypes DEF PackQuery, PackQueryResp, Numbers, Texts
<1>2. WidthIsShort(PackQuery) /\ WidthIsShort(PackQueryResp)
  BY <1>1, ShortWidth, Zenon
<1>3. Wide(PackQuery, 19)
  BY <1>1, <1>2 DEF Wide, WidthIsShort, W, PackQuery, Num, Text
<1>4. Wide(PackQueryResp, 59)
  <2>1. Len(PackQueryResp) = 12
    BY DEF PackQueryResp
  <2>2. /\ W(PackQueryResp, 1) = 8 /\ W(PackQueryResp, 2) = 1
        /\ W(PackQueryResp, 3) = 10 /\ W(PackQueryResp, 4) = 4
        /\ W(PackQueryResp, 5) = 4 /\ W(PackQueryResp, 6) = 4
        /\ W(PackQueryResp, 7) = 4 /\ W(PackQueryResp, 8) = 4
        /\ W(PackQueryResp, 9) = 4 /\ W(PackQueryResp, 10) = 4
        /\ W(PackQueryResp, 11) = 4 /\ W(PackQueryResp, 12) = 8
    BY <2>1 DEF W, PackQueryResp, Num, Text
  <2>3. /\ W(PackQueryResp, 13) = 0 /\ W(PackQueryResp, 14) = 0
        /\ W(PackQueryResp, 15) = 0 /\ W(PackQueryResp, 16) = 0
    BY <2>1 DEF W
  <2>4. Width(PackQueryResp) = 8 + 1 + 10 + 4 + 4 + 4 + 4 + 4 + 4 + 4 + 4 + 8
                               + 0 + 0 + 0 + 0
    BY <1>2, <2>2, <2>3, Zenon DEF WidthIsShort
  <2>5. QED
    BY <1>1, <2>4 DEF Wide
<1>5. QED
  BY <1>3, <1>4

LEMMA EmptyWide == Wide(<< >>, 0) /\ OptionsLen(<< >>) = 0
<1>1. Sum(<< >>) = 0
  <2>1. << >> \in Seq(Nat) /\ Len(<< >>) = 0
    OBVIOUS
  <2>2. PICK g : Sums(g, << >>, 0) /\ Sum(<< >>) = g[0]
    BY <2>1, SumType, Zenon
  <2>3. QED
    BY <2>2, Zenon DEF Sums
<1>2. Width(<< >>) = Sum(<< >>) /\ OptionsLen(<< >>) = Sum(<< >>)
  BY DEF Width, OptionsLen
<1>3. << >> \in Seq(Cells)
  OBVIOUS
<1>4. QED
  BY <1>1, <1>2, <1>3 DEF Wide

\* What is written of the options, and how much of it is announced.
LEMMA OptionsWide ==
  ASSUME NEW opts \in Seq(Nat)
  PROVE  /\ OptionsLen(opts) \in Nat /\ Lost(opts) \in Nat
         /\ OptionsWidth(opts) = OptionsLen(opts) + Lost(opts)
<1> DEFINE n == Len(opts)
           u == [i \in 1..n |-> 2 + 2 + opts[i]]
           v == [i \in 1..n |-> 2 + 2 + (opts[i] % 65536)]
           w == [i \in 1..n |-> 65536 * (opts[i] \div 65536)]
           Good(m) == /\ 2 + 2 + m \in Nat /\ 2 + 2 + (m % 65536) \in Nat
                      /\ 65536 * (m \div 65536) \in Nat
                      /\ 2 + 2 + m = (2 + 2 + (m % 65536)) + 65536 * (m \div 65536)
<1>1. \A m \in Nat : Good(m)
  OBVIOUS
<1>2. n \in Nat /\ \A i \in 1..n : opts[i] \in Nat
  OBVIOUS
<1>3. \A i \in 1..n : Good(opts[i])
  <2> HIDE DEF Good
  <2>1. QED
    BY <1>1, <1>2
<1>4. u \in [1..n -> Nat] /\ v \in [1..n -> Nat] /\ w \in [1..n -> Nat]
  BY <1>2
<1>5. Termwise(u, v, w, n)
  <2>1. ASSUME NEW i \in 1..n PROVE u[i] = v[i] + w[i]
    BY <1>3
  <2> HIDE DEF n, u, v, w
  <2>2. QED
    BY <2>1, Zenon DEF Termwise
<1>6. /\ OptionsWidth(opts) = Sum(u) /\ OptionsLen(opts) = Sum(v)
      /\ Lost(opts) = Sum(w)
  BY DEF OptionsWidth, OptionsLen, Lost
<1> HIDE DEF n, u, v, w
<1>7. /\ u \in Seq(Nat) /\ v \in Seq(Nat) /\ w \in Seq(Nat)
      /\ Len(u) = n /\ Len(v) = n /\ Len(w) = n
  BY <1>2, <1>4
<1>8. Sum(u) = Sum(v) + Sum(w) /\ Sum(v) \in Nat /\ Sum(w) \in Nat
  <2>1. Sum(u) = Sum(v) + Sum(w)
    BY <1>2, <1>5, <1>7, SumOfSums
  <2>2. Sum(v) \in Nat
    BY <1>7, SumType, Zenon
  <2>3. Sum(w) \in Nat
    BY <1>7, SumType, Zenon
  <2>4. QED
    BY <2>1, <2>2, <2>3
<1>9. QED
  BY <1>6, <1>8, Zenon

\* What the header announces, and where the options are looked for, as what is
\* written.
LEMMA PackWide ==
  ASSUME NEW p, IsPacket(p)
  PROVE  /\ PackCells(p) \in Seq(Cells) /\ Width(PackCells(p)) \in Nat
         /\ OptionsLen(p.opts) \in Nat /\ Uncounted(p) \in Int
         /\ Announced(p) = HeaderLen + Width(PackCells(p)) - Uncounted(p)
                           + OptionsLen(p.opts)
         /\ p.tag \in {"SubmitReq", "DeliverReq"} =>
              OptionsAt(p) = Width(PackCells(p)) - Uncounted(p)
<1>1. /\ p.tag \in Tags /\ p.dests \in Nat /\ p.text \in Nat
      /\ p.count \in Nat /\ p.said \in Nat
      /\ p.report \in BOOLEAN /\ (p.report => IsReport(p))
      /\ p.opts \in Seq(Nat)
      /\ p.tag \notin {"SubmitReq", "DeliverReq"} => p.opts = << >>
  BY DEF IsPacket
<1>2. OptionsLen(p.opts) \in Nat
  BY <1>1, OptionsWide
<1>3. CASE p.tag = "SubmitReq"
  <2>1. PackCells(p) = PackSubmit(p)
    BY <1>3 DEF PackCells
  <2>2. Wide(PackCells(p), 114 + p.dests * 21 + p.text)
    BY <1>1, <2>1, SubmitWide
  <2>3. Announced(p) = HeaderLen + 114 + p.count * 21 + p.said
                       + OptionsLen(p.opts)
    BY <1>3 DEF Announced
  <2>4. OptionsAt(p) = 1 + 1 + 1 + 10 + 2 + 6 + 6 + 1 + 17 + 17 + 21 + 21 + 1
                       + 21 * p.count + 1 + p.said + 8
    BY <1>3 DEF OptionsAt
  <2>5. Uncounted(p) = 21 * (p.dests - p.count) + (p.text - p.said)
    BY <1>3 DEF Uncounted
  <2>6. PICK d \in Nat, c \in Nat, t \in Nat, s \in Nat, o \in Nat :
          /\ d = p.dests /\ c = p.count /\ t = p.text /\ s = p.said
          /\ o = OptionsLen(p.opts)
    BY <1>1, <1>2, Zenon
  <2>7. /\ PackCells(p) \in Seq(Cells) /\ Width(PackCells(p)) = 114 + d * 21 + t
        /\ Announced(p) = HeaderLen + 114 + c * 21 + s + o
        /\ OptionsAt(p) = 1 + 1 + 1 + 10 + 2 + 6 + 6 + 1 + 17 + 17 + 21 + 21 + 1
                          + 21 * c + 1 + s + 8
        /\ Uncounted(p) = 21 * (d - c) + (t - s)
    BY <2>2, <2>3, <2>4, <2>5, <2>6, Zenon DEF Wide
  <2> DEFINE width == Width(PackCells(p))
             rest == Uncounted(p)
  <2> HIDE DEF width, rest
  <2>8. /\ width \in Nat /\ rest \in Int /\ OptionsAt(p) = width - rest
        /\ Announced(p) = HeaderLen + width - rest + o
    BY <2>7 DEF width, rest, HeaderLen
  <2>9. QED
    BY <2>6, <2>7, <2>8, Zenon DEF width, rest
<1>4. CASE p.tag = "DeliverReq"
  <2>1. PackCells(p) = PackDeliver(p)
    BY <1>4 DEF PackCells
  <2>2. Wide(PackCells(p), 77 + p.text)
    BY <1>1, <2>1, DeliverWide
  <2>3. Announced(p) = HeaderLen + 77 + p.said + OptionsLen(p.opts)
    BY <1>4 DEF Announced
  <2>4. OptionsAt(p) = 10 + 1 + 1 + 14 + 21 + 21 + 1 + p.said + 8
    BY <1>4 DEF OptionsAt
  <2>5. Uncounted(p) = p.text - p.said
    BY <1>4 DEF Uncounted
  <2>6. PICK t \in Nat, s \in Nat, o \in Nat :
          t = p.text /\ s = p.said /\ o = OptionsLen(p.opts)
    BY <1>1, <1>2, Zenon
  <2>7. /\ PackCells(p) \in Seq(Cells) /\ Width(PackCells(p)) = 77 + t
        /\ Announced(p) = HeaderLen + 77 + s + o
        /\ OptionsAt(p) = 10 + 1 + 1 + 14 + 21 + 21 + 1 + s + 8
        /\ Uncounted(p) = t - s
    BY <2>2, <2>3, <2>4, <2>5, <2>6, Zenon DEF Wide
  <2> DEFINE width == Width(PackCells(p))
             rest == Uncounted(p)
  <2> HIDE DEF width, rest
  <2>8. /\ width \in Nat /\ rest \in Int /\ OptionsAt(p) = width - rest
        /\ Announced(p) = HeaderLen + width - rest + o
    BY <2>7 DEF width, rest, HeaderLen
  <2>9. QED
    BY <2>6, <2>7, <2>8, Zenon DEF width, rest
<1>5. CASE p.tag \notin {"SubmitReq", "DeliverReq"}
  <2>1. OptionsLen(p.opts) = 0
    BY <1>1, <1>5, EmptyWide, Zenon
  <2> SUFFICES /\ PackCells(p) \in Seq(Cells) /\ Width(PackCells(p)) \in Nat
               /\ Announced(p) = HeaderLen + Width(PackCells(p))
    <3>1. Uncounted(p) = 0
      BY <1>5 DEF Uncounted
    <3>2. QED
      BY <1>5, <2>1, <3>1 DEF HeaderLen
  <2>2. CASE p.tag = "LoginReq"
    <3>1. PackCells(p) = PackLogin /\ Announced(p) = HeaderLen + 30
      BY <2>2 DEF PackCells, Announced, HeaderLen
    <3>2. QED
      BY <3>1, LoginWide DEF Wide
  <2>3. CASE p.tag = "LoginResp"
    <3>1. PackCells(p) = PackLoginResp /\ Announced(p) = HeaderLen + 21
      BY <2>3 DEF PackCells, Announced, HeaderLen
    <3>2. QED
      BY <3>1, LoginWide DEF Wide
  <2>4. CASE p.tag \in {"SubmitResp", "DeliverResp"}
    <3>1. /\ PackCells(p) \in {PackSubmitResp, PackDeliverResp}
          /\ Announced(p) = HeaderLen + 14
      BY <2>4 DEF PackCells, Announced, HeaderLen
    <3>2. QED
      BY <3>1, RespWide DEF Wide
  <2>5. CASE p.tag = "QueryReq"
    <3>1. PackCells(p) = PackQuery /\ Announced(p) = HeaderLen + 19
      BY <2>5 DEF PackCells, Announced, HeaderLen
    <3>2. QED
      BY <3>1, QueryWide DEF Wide
  <2>6. CASE p.tag = "QueryResp"
    <3>1. PackCells(p) = PackQueryResp /\ Announced(p) = HeaderLen + 59
      BY <2>6 DEF PackCells, Announced, HeaderLen
    <3>2. QED
      BY <3>1, QueryWide DEF Wide
  <2>7. CASE p.tag \in {"ActiveTestReq", "ActiveTestResp", "ExitReq", "ExitResp"}
    <3>1. PackCells(p) = << >> /\ Announced(p) = HeaderLen
      BY <2>7 DEF PackCells, Announced
    <3>2. QED
      BY <3>1, EmptyWide DEF Wide, HeaderLen
  <2>8. QED
    BY <1>1, <1>5, <2>2, <2>3, <2>4, <2>5, <2>6, <2>7 DEF Tags
<1>6. QED
  BY <1>3, <1>4, <1>5

\* Pack changes values, and in a login and its response only.
LEMMA PackedFields ==
  ASSUME NEW p, IsPacket(p), NEW digest, NEW stamp
  PROVE  LET q == Packed(p, digest, stamp)
         IN /\ q.tag = p.tag /\ q.dests = p.dests /\ q.count = p.count
            /\ q.text = p.text /\ q.said = p.said /\ q.opts = p.opts
            /\ q.report = p.report /\ DOMAIN q.val = DOMAIN p.val
            /\ \A f \in DOMAIN p.val :
                 q.val[f] = PackedField(f, p.val[f], digest, stamp)
<1> DEFINE v == [f \in DOMAIN p.val |->
                   PackedField(f, p.val[f], digest, stamp)]
           q == Packed(p, digest, stamp)
<1>1. p = [tag |-> p.tag, val |-> p.val, dests |-> p.dests, count |-> p.count,
           text |-> p.text, said |-> p.said, report |-> p.report,
           opts |-> p.opts]
  BY DEF IsPacket
<1>2. q = [p EXCEPT !.val = v]
  BY Zenon DEF Packed
<1>3. /\ DOMAIN v = DOMAIN p.val
      /\ \A f \in DOMAIN p.val :
           v[f] = PackedField(f, p.val[f], digest, stamp)
  BY Zenon
<1> HIDE DEF v, q
<1>4. q = [tag |-> p.tag, val |-> v, dests |-> p.dests, count |-> p.count,
           text |-> p.text, said |-> p.said, report |-> p.report,
           opts |-> p.opts]
  BY <1>1, <1>2
<1>5. /\ q.tag = p.tag /\ q.dests = p.dests /\ q.count = p.count
      /\ q.text = p.text /\ q.said = p.said /\ q.opts = p.opts
      /\ q.report = p.report /\ q.val = v
  BY <1>4
<1>6. QED
  BY <1>3, <1>5, Zenon DEF q

\* The cells do not depend on what Pack changes.
LEMMA PackedCells ==
  ASSUME NEW p, IsPacket(p), NEW digest, NEW stamp
  PROVE  LET q == Packed(p, digest, stamp)
         IN PackCells(q) = PackCells(p) /\ UnpackCells(q) = UnpackCells(p)
<1> DEFINE q == Packed(p, digest, stamp)
<1>1. /\ q.tag = p.tag /\ q.dests = p.dests /\ q.count = p.count
      /\ q.text = p.text /\ q.said = p.said /\ q.report = p.report
      /\ \A f \in DOMAIN p.val :
           q.val[f] = PackedField(f, p.val[f], digest, stamp)
  BY PackedFields
<1> HIDE DEF q
<1>2. p.report => EncodeReport(q) = EncodeReport(p)
  <2> SUFFICES ASSUME p.report PROVE EncodeReport(q) = EncodeReport(p)
    OBVIOUS
  <2>1. DOMAIN ReportWidths \cup {"Txt"} \subseteq DOMAIN p.val
    BY DEF IsPacket, IsReport
  <2> DEFINE fields == {"SubmitMsgID", "Sub", "Dlvrd", "SubmitDate", "DoneDate",
                        "Stat", "Err", "Txt"}
  <2>2. \A f \in fields : f \in DOMAIN p.val
    BY <2>1 DEF ReportWidths
  <2>3. \A f \in fields : f \notin Authenticators \cup {"ClientID", "TimeStamp"}
    BY DEF Authenticators
  <2>4. \A f \in fields : q.val[f] = p.val[f]
    BY <1>1, <2>2, <2>3 DEF PackedField
  <2>5. QED
    BY <2>4 DEF EncodeReport
<1>3. PackSubmit(q) = PackSubmit(p) /\ UnpackSubmit(q) = UnpackSubmit(p)
  BY <1>1, Zenon DEF PackSubmit, UnpackSubmit
<1>4. PackDeliver(q) = PackDeliver(p) /\ UnpackDeliver(q) = UnpackDeliver(p)
  <2>1. p.report \in BOOLEAN
    BY DEF IsPacket
  <2>2. CASE p.report
    BY <1>1, <1>2, <2>2, Zenon DEF PackDeliver, UnpackDeliver
  <2>3. CASE ~p.report
    BY <1>1, <2>3, Zenon DEF PackDeliver, UnpackDeliver
  <2>4. QED
    BY <2>1, <2>2, <2>3
<1>5. QED
  BY <1>1, <1>3, <1>4, Zenon DEF PackCells, UnpackCells, q

InStep(p) == /\ Written(p) - Announced(p) = Uncounted(p) + Lost(p.opts)
             /\ p.tag \in {"SubmitReq", "DeliverReq"} =>
                  /\ Width(PackCells(p)) - OptionsAt(p) = Uncounted(p)
                  /\ OptionsAt(p) <= Announced(p) - HeaderLen
LEMMA PacketInStep ==
  ASSUME NEW p, IsPacket(p)
  PROVE  InStep(p)
<1>1. PICK width \in Nat, rest \in Int, said \in Nat, lost \in Nat, all \in Nat :
        /\ width = Width(PackCells(p)) /\ rest = Uncounted(p)
        /\ said = OptionsLen(p.opts) /\ lost = Lost(p.opts)
        /\ all = OptionsWidth(p.opts) /\ all = said + lost
  <2>1. p.opts \in Seq(Nat)
    BY DEF IsPacket
  <2>2. /\ OptionsLen(p.opts) \in Nat /\ Lost(p.opts) \in Nat
        /\ OptionsWidth(p.opts) = OptionsLen(p.opts) + Lost(p.opts)
    BY <2>1, OptionsWide
  <2>3. OptionsWidth(p.opts) \in Nat
    BY <2>2
  <2>4. QED
    BY <2>2, <2>3, PackWide, Zenon
<1>2. /\ Announced(p) = HeaderLen + width - rest + said
      /\ Written(p) = HeaderLen + width + all
      /\ p.tag \in {"SubmitReq", "DeliverReq"} => OptionsAt(p) = width - rest
  BY <1>1, PackWide, Zenon DEF Written
<1>3. /\ Written(p) - Announced(p) = rest + lost
      /\ p.tag \in {"SubmitReq", "DeliverReq"} =>
           width - OptionsAt(p) = rest /\ OptionsAt(p) <= Announced(p) - HeaderLen
  BY <1>1, <1>2 DEF HeaderLen
<1>4. QED
  BY <1>1, <1>3, Zenon DEF InStep

-----------------------------------------------------------------------------
(* What Unpack reads in the cells Pack wrote.                              *)

ReadCells == Cells \cup {Text("MsgID", 10), Bin("ClientID", 8)}

\* Cells a and b hold the same field in the same place.
Facing(a, b) == /\ a \in Seq(ReadCells) /\ b \in Seq(ReadCells) /\ Len(a) = Len(b)
                /\ \A i \in 1..Len(a) : a[i].f = b[i].f /\ a[i].w = b[i].w

LEMMA SameStart ==
  ASSUME NEW a, NEW b, Facing(a, b), NEW j \in 1..Len(a)
  PROVE  At(a, j) = At(b, j)
<1> DEFINE c == SubSeq(a, 1, j - 1)
           d == SubSeq(b, 1, j - 1)
<1>1. /\ a \in Seq(ReadCells) /\ b \in Seq(ReadCells) /\ Len(a) = Len(b)
      /\ \A i \in 1..Len(a) : a[i].w = b[i].w
  BY DEF Facing
<1>2. /\ Len(c) = j - 1 /\ Len(d) = j - 1
      /\ \A i \in 1..(j - 1) : c[i] = a[i] /\ d[i] = b[i] /\ i \in 1..Len(a)
  BY <1>1
<1> HIDE DEF c, d
<1>3. \A i \in 1..(j - 1) : c[i].w = d[i].w
  BY <1>1, <1>2
<1>4. [i \in 1..Len(c) |-> c[i].w] = [i \in 1..Len(d) |-> d[i].w]
  BY <1>2, <1>3
<1>5. Width(c) = Width(d)
  BY <1>4, Zenon DEF Width
<1>6. QED
  BY <1>5 DEF At, c, d

\* How a cell is read: as it was written, but for two.
Reread(tag, f) == \/ tag = "LoginReq" /\ f = "ClientID"
                  \/ tag = "DeliverReq" /\ f = "MsgID"
ReadAs(tag, c, d) ==
  \/ d = c /\ ~Reread(tag, c.f)
  \/ tag = "DeliverReq" /\ c = Bin("MsgID", 10) /\ d = Text("MsgID", 10)
  \/ tag = "LoginReq" /\ c = Text("ClientID", 8) /\ d = Bin("ClientID", 8)
Matching(tag, a, b) ==
  Facing(a, b) /\ \A i \in 1..Len(a) : ReadAs(tag, a[i], b[i])

LEMMA SameCells ==
  ASSUME NEW tag, NEW a \in Seq(Cells), tag \notin {"LoginReq", "DeliverReq"}
  PROVE  Matching(tag, a, a)
<1>1. a \in Seq(ReadCells)
  <2>1. Cells \subseteq ReadCells
    BY DEF ReadCells
  <2>2. QED
    BY <2>1
<1>2. QED
  BY <1>1 DEF Matching, Facing, ReadAs, Reread

\* The same cells behind other heads.
LEMMA MatchingHeads ==
  ASSUME NEW tag, NEW a, NEW b, NEW rest \in Seq(Cells), Matching(tag, a, b),
         \A i \in 1..Len(rest) : ~Reread(tag, rest[i].f)
  PROVE  Matching(tag, a \o rest, b \o rest)
<1>1. /\ a \in Seq(ReadCells) /\ b \in Seq(ReadCells) /\ Len(a) = Len(b)
      /\ \A i \in 1..Len(a) : /\ a[i].f = b[i].f /\ a[i].w = b[i].w
                              /\ ReadAs(tag, a[i], b[i])
  BY DEF Matching, Facing
<1>2. rest \in Seq(ReadCells)
  <2>1. Cells \subseteq ReadCells
    BY DEF ReadCells
  <2>2. QED
    BY <2>1
<1> DEFINE c == a \o rest
           d == b \o rest
<1>3. /\ c \in Seq(ReadCells) /\ d \in Seq(ReadCells)
      /\ Len(c) = Len(a) + Len(rest) /\ Len(d) = Len(b) + Len(rest)
      /\ \A i \in 1..Len(a) : c[i] = a[i]
      /\ \A i \in 1..Len(b) : d[i] = b[i]
      /\ \A i \in 1..Len(rest) : c[Len(a) + i] = rest[i]
      /\ \A i \in 1..Len(rest) : d[Len(b) + i] = rest[i]
  <2>1. /\ c \in Seq(ReadCells) /\ Len(c) = Len(a) + Len(rest)
        /\ d \in Seq(ReadCells) /\ Len(d) = Len(b) + Len(rest)
    <3>1. c \in Seq(ReadCells) /\ Len(c) = Len(a) + Len(rest)
      BY <1>1, <1>2, Concat, Zenon
    <3>2. d \in Seq(ReadCells) /\ Len(d) = Len(b) + Len(rest)
      BY <1>1, <1>2, Concat, Zenon
    <3>3. QED
      BY <3>1, <3>2, Zenon
  <2>2. /\ \A i \in 1..Len(a) : c[i] = a[i]
        /\ \A i \in 1..Len(rest) : c[Len(a) + i] = rest[i]
    BY <1>1, <1>2, ConcatParts
  <2>3. /\ \A i \in 1..Len(b) : d[i] = b[i]
        /\ \A i \in 1..Len(rest) : d[Len(b) + i] = rest[i]
    BY <1>1, <1>2, ConcatParts
  <2>4. QED
    BY <2>1, <2>2, <2>3, Zenon
<1> HIDE DEF c, d
<1>4. ASSUME NEW i \in 1..Len(c)
      PROVE  /\ c[i].f = d[i].f /\ c[i].w = d[i].w /\ ReadAs(tag, c[i], d[i])
  <2>1. CASE i \in 1..Len(a)
    BY <1>1, <1>3, <2>1
  <2>2. CASE i \notin 1..Len(a)
    <3>1. PICK j \in 1..Len(rest) : i = Len(a) + j
      <4>1. i - Len(a) \in 1..Len(rest) /\ i = Len(a) + (i - Len(a))
        BY <1>1, <1>2, <1>3, <2>2
      <4>2. QED
        BY <4>1, Zenon
    <3>2. c[i] = rest[j] /\ d[i] = rest[j]
      BY <1>1, <1>3, <3>1
    <3>3. QED
      BY <3>2 DEF ReadAs
  <2>3. QED
    BY <2>1, <2>2
<1>5. QED
  BY <1>1, <1>3, <1>4 DEF Matching, Facing, c, d

LEMMA LoginRead == Matching("LoginReq", PackLogin, UnpackLogin)
<1> DEFINE rest == << Bin("AuthenticatorClient", 16), Num("LoginMode", 1),
                      Num("TimeStamp", 4), Num("ClientVersion", 1) >>
           a == << Text("ClientID", 8) >>
           b == << Bin("ClientID", 8) >>
<1>1. PackLogin = a \o rest /\ UnpackLogin = b \o rest
  <2>1. PackLogin = a \o rest
    BY DEF PackLogin
  <2>2. UnpackLogin = b \o rest
    BY DEF UnpackLogin
  <2>3. QED
    BY <2>1, <2>2
<1>2. rest \in Seq(Cells) /\ \A i \in 1..Len(rest) : ~Reread("LoginReq", rest[i].f)
  <2>1. rest \in Seq(Cells)
    BY CellTypes DEF Numbers
  <2>2. Len(rest) = 4 /\ \A i \in 1..4 : rest[i].f # "ClientID"
    BY DEF Bin, Num
  <2>3. QED
    BY <2>1, <2>2 DEF Reread
<1>3. Matching("LoginReq", a, b)
  <2>1. Text("ClientID", 8) \in Cells
    BY CellTypes
  <2>2. a \in Seq(ReadCells) /\ b \in Seq(ReadCells) /\ Len(a) = Len(b)
    BY <2>1 DEF ReadCells
  <2>3. Text("ClientID", 8).f = Bin("ClientID", 8).f
        /\ Text("ClientID", 8).w = Bin("ClientID", 8).w
    BY DEF Text, Bin
  <2>4. QED
    BY <2>2, <2>3 DEF Matching, Facing, ReadAs
<1> HIDE DEF rest, a, b
<1>4. QED
  BY <1>1, <1>2, <1>3, MatchingHeads

ReadHead ==
  << Text("MsgID", 10), Num("IsReport", 1), Num("MsgFormat", 1),
     Text("RecvTime", 14), Text("SrcTermID", 21), Text("DestTermID", 21),
     Num("MsgLength", 1) >>
LEMMA ReportRaw ==
  ASSUME NEW said
  PROVE  \A i \in 1..Len(DecodeReport(said)) : DecodeReport(said)[i].f \in Raws
<1> DEFINE widths == {3, 5, 6, 7, 10, 11, 13} \cup {said - 102}
           C == {Raw(f, w) : f \in Raws, w \in widths}
           last == Raw("Txt", said - 102)
           cells == DecodeReport(said)
<1>1. \A x \in C : x.f \in Raws
  BY DEF Raw
<1>2. \A f \in Raws, w \in widths : Raw(f, w) \in C
  OBVIOUS
<1>3. /\ \A w \in {3, 5, 6, 7, 10, 11, 13} : w \in widths
      /\ said - 102 \in widths
  OBVIOUS
<1>4. last \in C
  <2>1. "Txt" \in Raws
    BY DEF Raws
  <2> HIDE DEF C, widths
  <2>2. QED
    BY <1>2, <1>3, <2>1
<1>5. /\ Raw("", 3) \in C /\ Raw("", 5) \in C /\ Raw("", 7) \in C
      /\ Raw("", 13) \in C /\ Raw("", 11) \in C /\ Raw("", 6) \in C
      /\ Raw("SubmitMsgID", 10) \in C /\ Raw("Sub", 3) \in C
      /\ Raw("Dlvrd", 3) \in C /\ Raw("SubmitDate", 10) \in C
      /\ Raw("DoneDate", 10) \in C /\ Raw("Stat", 7) \in C
      /\ Raw("Err", 3) \in C
  <2> HIDE DEF C, widths
  <2>1. QED
    BY <1>2, <1>3 DEF Raws
<1>6. cells = << Raw("", 3), Raw("SubmitMsgID", 10), Raw("", 5), Raw("Sub", 3),
                 Raw("", 7), Raw("Dlvrd", 3), Raw("", 13),
                 Raw("SubmitDate", 10), Raw("", 11), Raw("DoneDate", 10),
                 Raw("", 6), Raw("Stat", 7), Raw("", 5), Raw("Err", 3),
                 Raw("", 6), last >>
  BY Zenon DEF DecodeReport
<1> HIDE DEF C, last, cells
<1>7. cells \in Seq(C)
  BY <1>4, <1>5, <1>6, Sixteen, Zenon
<1>8. \A i \in 1..Len(cells) : cells[i].f \in Raws
  BY <1>1, <1>7
<1>9. QED
  BY <1>8, Zenon DEF cells

LEMMA DeliverRead ==
  ASSUME NEW p, p.text \in Nat, p.report \in BOOLEAN, p.report => IsReport(p),
         p.text = p.said
  PROVE  Matching("DeliverReq", PackDeliver(p), UnpackDeliver(p))
<1> DEFINE content == IF p.report THEN EncodeReport(p)
                      ELSE << Raw("MsgContent", p.text) >>
           padding == << Text("Reserve", 8) >>
           same == << Num("IsReport", 1), Num("MsgFormat", 1),
                      Text("RecvTime", 14), Text("SrcTermID", 21),
                      Text("DestTermID", 21), Num("MsgLength", 1) >>
           a == << Bin("MsgID", 10) >>
           b == << Text("MsgID", 10) >>
<1>1. PackDeliver(p) = (DeliverHead \o content) \o padding
  BY Zenon DEF PackDeliver, DeliverHead
<1>2. UnpackDeliver(p) = (ReadHead \o content) \o padding
  <2>1. content = IF p.report THEN DecodeReport(p.said)
                  ELSE << Raw("MsgContent", p.said) >>
    <3>1. CASE p.report
      BY <3>1, ReportIsRead, Zenon
    <3>2. CASE ~p.report
      BY <3>2, Zenon
    <3>3. QED
      BY <3>1, <3>2
  <2>2. QED
    BY <2>1, Zenon DEF UnpackDeliver, ReadHead
<1>3. DeliverHead = a \o same /\ ReadHead = b \o same
  BY DEF DeliverHead, ReadHead
<1>4. content \in Seq(Cells)
  <2>1. CASE p.report
    <3>1. IsReport(p) /\ content = DecodeReport(p.text)
      BY <2>1, ReportIsRead, Zenon
    <3>2. p.text >= 102
      BY <3>1 DEF IsReport
    <3>3. QED
      BY <3>1, <3>2, ReportWide DEF Wide
  <2>2. CASE ~p.report
    BY <2>2, ContentWide, Zenon DEF Wide
  <2>3. QED
    BY <2>1, <2>2
<1>5. padding \in Seq(Cells)
  BY PaddingWide DEF Wide
<1>6. same \in Seq(Cells)
  BY CellTypes DEF Numbers, Texts
<1>7. Matching("DeliverReq", a, b)
  <2>1. Bin("MsgID", 10) \in Cells
    BY CellTypes
  <2>2. a \in Seq(ReadCells) /\ b \in Seq(ReadCells) /\ Len(a) = Len(b)
    BY <2>1 DEF ReadCells
  <2>3. Bin("MsgID", 10).f = Text("MsgID", 10).f
        /\ Bin("MsgID", 10).w = Text("MsgID", 10).w
    BY DEF Text, Bin
  <2>4. QED
    BY <2>2, <2>3 DEF Matching, Facing, ReadAs
<1> DEFINE Other(cells) == \A i \in 1..Len(cells) : ~Reread("DeliverReq", cells[i].f)
<1>8. Other(same) /\ Other(padding)
  <2>1. Len(same) = 6 /\ \A i \in 1..6 : same[i].f # "MsgID"
    BY DEF Num, Text
  <2>2. Len(padding) = 1 /\ padding[1].f # "MsgID"
    BY DEF Text
  <2>3. QED
    BY <2>1, <2>2 DEF Reread
<1>9. Other(content)
  <2>1. CASE p.report
    <3>1. content = DecodeReport(p.text)
      BY <2>1, ReportIsRead, Zenon
    <3>2. \A i \in 1..Len(content) : content[i].f \in Raws
      BY <3>1, ReportRaw
    <3>3. "MsgID" \notin Raws
      BY DEF Raws
    <3> HIDE DEF content
    <3>4. QED
      BY <3>2, <3>3 DEF Reread
  <2>2. CASE ~p.report
    <3>1. content = << Raw("MsgContent", p.text) >>
      BY <2>2, Zenon
    <3>2. QED
      BY <3>1 DEF Reread, Raw
  <2>3. QED
    BY <2>1, <2>2
<1> HIDE DEF content, padding, same, a, b
<1>10. Matching("DeliverReq", DeliverHead, ReadHead)
  BY <1>3, <1>6, <1>7, <1>8, MatchingHeads
<1>11. Matching("DeliverReq", DeliverHead \o content, ReadHead \o content)
  BY <1>4, <1>9, <1>10, MatchingHeads
<1>12. QED
  BY <1>1, <1>2, <1>5, <1>8, <1>11, MatchingHeads

\* Unpack reads the cells of Pack when the counters tell the lengths.
LEMMA UnpackMatches ==
  ASSUME NEW p, IsPacket(p), Counted(p)
  PROVE  Matching(p.tag, PackCells(p), UnpackCells(p))
<1>1. /\ p.tag \in Tags /\ p.dests = p.count /\ p.text = p.said /\ p.text \in Nat
      /\ p.report \in BOOLEAN /\ (p.report => IsReport(p))
      /\ PackCells(p) \in Seq(Cells)
  BY PackWide DEF IsPacket, Counted
<1>2. CASE p.tag = "LoginReq"
  <2>1. PackCells(p) = PackLogin /\ UnpackCells(p) = UnpackLogin
    BY <1>2 DEF PackCells, UnpackCells
  <2>2. QED
    BY <1>2, <2>1, LoginRead
<1>3. CASE p.tag = "DeliverReq"
  <2>1. PackCells(p) = PackDeliver(p) /\ UnpackCells(p) = UnpackDeliver(p)
    BY <1>3 DEF PackCells, UnpackCells
  <2>2. QED
    BY <1>1, <1>3, <2>1, DeliverRead
<1>4. CASE p.tag \notin {"LoginReq", "DeliverReq"}
  <2>1. PackSubmit(p) = UnpackSubmit(p)
    BY <1>1, Zenon DEF PackSubmit, UnpackSubmit
  <2>2. /\ PackLoginResp = UnpackLoginResp /\ PackQuery = UnpackQuery
        /\ PackSubmitResp = UnpackSubmitResp
        /\ PackDeliverResp = UnpackDeliverResp
        /\ PackQueryResp = UnpackQueryResp
    BY Zenon DEF PackLoginResp, UnpackLoginResp, PackQuery, UnpackQuery,
       PackSubmitResp, UnpackSubmitResp, PackDeliverResp, UnpackDeliverResp,
       PackQueryResp, UnpackQueryResp
  <2>3. UnpackCells(p) = PackCells(p)
    BY <1>1, <1>4, <2>1, <2>2 DEF PackCells, UnpackCells, Tags
  <2>4. QED
    BY <1>1, <1>4, <2>3, SameCells
<1>5. QED
  BY <1>2, <1>3, <1>4

\* What Fit does to a value.
LEMMA Fitted ==
  ASSUME NEW v, v = [len |-> v.len, zero |-> v.zero, by |-> v.by],
         v.len \in Nat, v.zero \in 0..v.len, NEW w \in Nat
  PROVE  /\ v.len = w => Fit(v, w) = v
         /\ Fit(Fit(v, w), w) = Fit(v, w)
         /\ v.zero = v.len /\ v.len <= w => UpToZero(Fit(v, w)) = v
         /\ v.zero = v.len /\ v.len > w => UpToZero(Fit(v, w)) = Fit(v, w)
<1> DEFINE z == IF v.zero < w THEN v.zero ELSE w
<1>1. Fit(v, w) = [len |-> w, zero |-> z, by |-> v.by]
  <2>1. PICK l, s, b : /\ v = [len |-> l, zero |-> s, by |-> b]
                       /\ l = v.len /\ s = v.zero /\ b = v.by
    BY Zenon
  <2>2. Fit(v, w) = [[v EXCEPT !.len = w] EXCEPT !.zero = z]
    BY <2>1 DEF Fit
  <2> HIDE DEF z
  <2>3. QED
    BY <2>1, <2>2
<1>2. z \in 0..w /\ (v.len = w => z = v.zero)
  OBVIOUS
<1>3. Fit(Fit(v, w), w) = [len |-> w, zero |-> z, by |-> v.by]
  <2> HIDE DEF z
  <2>1. (IF z < w THEN z ELSE w) = z
    BY <1>2
  <2>2. QED
    BY <1>1, <2>1 DEF Fit
<1>4. UpToZero(Fit(v, w)) = [len |-> z, zero |-> z, by |-> v.by]
  <2> HIDE DEF z
  <2>1. QED
    BY <1>1 DEF UpToZero
<1>5. /\ v.zero = v.len /\ v.len <= w => z = v.len
      /\ v.zero = v.len /\ v.len > w => z = w
  OBVIOUS
<1> HIDE DEF z
<1>6. QED
  BY <1>1, <1>2, <1>3, <1>4, <1>5

LEMMA SuitsType ==
  ASSUME NEW c, NEW v, Suits(c, v)
  PROVE  /\ v = [len |-> v.len, zero |-> v.zero, by |-> v.by]
         /\ v.len \in Nat /\ v.zero \in 0..v.len
BY DEF Suits, Value, Unset

\* What is written to a cell and read from it.
LEMMA RoundTrip ==
  ASSUME NEW tag, NEW c \in Cells, NEW d, ReadAs(tag, c, d), NEW v, Suits(c, v),
         NEW digest \in Digests, NEW stamp \in Stamps,
         NEW x, x = PackedField(c.f, v, digest, stamp),
         c.how = "text" => x.len <= c.w
  PROVE  LET a == ReadCell(d, InCell(c, x)) IN a = v \/ Altered(tag, c.f, v, a)
<1> DEFINE a == ReadCell(d, InCell(c, x))
<1>1. /\ v = [len |-> v.len, zero |-> v.zero, by |-> v.by]
      /\ v.len \in Nat /\ v.zero \in 0..v.len
  BY SuitsType
<1>2. CASE c.f \in Authenticators
  <2>1. c = Bin(c.f, 16) /\ d = c
    <3>1. /\ c.f \notin Numbers /\ c.f \notin Texts /\ c.f \notin Raws
          /\ c.f \notin {"MsgID", "ClientID", "TimeStamp"}
      BY <1>2 DEF Authenticators, Numbers, Texts, Raws
    <3>2. c \in {Bin(f, 16) : f \in Authenticators}
      BY <3>1 DEF Cells, Bin, Num, Text
    <3>3. c = Bin(c.f, 16)
      BY <3>2 DEF Bin
    <3>4. QED
      BY <3>1, <3>3 DEF ReadAs, Bin, Text
  <2>2. x = digest
    BY <1>2 DEF PackedField, Authenticators
  <2>3. /\ digest = [len |-> digest.len, zero |-> digest.zero, by |-> digest.by]
        /\ digest.len = 16 /\ digest.zero \in 0..16
    BY DEF Digests, Made
  <2>4. Fit(digest, 16) = digest
    BY <2>3, Fitted
  <2>5. a = digest
    <3>1. c.w = 16 /\ c.how = "bin" /\ d.how = "bin"
      BY <2>1 DEF Bin
    <3>2. QED
      BY <2>2, <2>4, <3>1 DEF InCell, ReadCell
  <2>6. QED
    BY <1>2, <2>5 DEF Altered
<1>3. CASE c.f = "ClientID"
  <2>1. c = Text("ClientID", 8)
    <3>1. /\ c.f \notin Numbers /\ c.f \notin Texts /\ c.f \notin Raws
          /\ c.f \notin Authenticators \cup {"MsgID", "TimeStamp"}
      BY <1>3 DEF Authenticators, Numbers, Texts, Raws
    <3>2. QED
      BY <3>1 DEF Cells, Bin, Num
  <2>2. c.w = 8 /\ c.how = "text" /\ (d = c \/ d.how = "bin")
    BY <2>1 DEF ReadAs, Text, Bin
  <2>3. x = Fit(v, 8)
    BY <1>3 DEF PackedField, Authenticators
  <2>4. InCell(c, x) = Fit(v, 8)
    <3>1. Fit(Fit(v, 8), 8) = Fit(v, 8)
      BY <1>1, Fitted
    <3>2. QED
      BY <2>2, <2>3, <3>1 DEF InCell
  <2>5. CASE d.how = "bin"
    BY <1>3, <2>4, <2>5 DEF ReadCell, Altered
  <2>6. CASE d = c
    <3>1. a = UpToZero(Fit(v, 8))
      BY <2>2, <2>4, <2>6 DEF ReadCell
    <3>2. v.zero = v.len
      BY <2>2 DEF Suits
    <3>3. UpToZero(Fit(v, 8)) = v \/ UpToZero(Fit(v, 8)) = Fit(v, 8)
      BY <1>1, <3>2, Fitted
    <3>4. QED
      BY <1>3, <3>1, <3>3 DEF Altered
  <2>7. QED
    BY <2>2, <2>5, <2>6
<1>4. CASE c.f = "MsgID"
  <2>1. c = Bin("MsgID", 10)
    <3>1. /\ c.f \notin Numbers /\ c.f \notin Texts /\ c.f \notin Raws
          /\ c.f \notin Authenticators \cup {"ClientID", "TimeStamp"}
      BY <1>4 DEF Authenticators, Numbers, Texts, Raws
    <3>2. QED
      BY <3>1 DEF Cells, Text, Num, Bin
  <2>2. x = v
    BY <1>4 DEF PackedField, Authenticators
  <2>3. c.w = 10 /\ c.how = "bin"
    BY <2>1 DEF Bin
  <2>4. InCell(c, x) = Fit(v, 10)
    BY <2>2, <2>3 DEF InCell
  <2>5. CASE tag # "DeliverReq"
    <3>1. d.how = "bin"
      BY <2>1, <2>3, <2>5 DEF ReadAs, Bin, Text
    <3>2. QED
      BY <1>4, <2>4, <2>5, <3>1 DEF ReadCell, Altered
  <2>6. CASE tag = "DeliverReq"
    <3>1. d.how = "text"
      BY <1>4, <2>6 DEF ReadAs, Reread, Text
    <3>2. QED
      BY <1>4, <2>4, <2>6, <3>1 DEF ReadCell, Altered
  <2>7. QED
    BY <2>5, <2>6
<1>5. CASE c.f = "TimeStamp"
  <2>1. c = Num("TimeStamp", 4) /\ d = c
    <3>1. /\ c.f \notin Numbers /\ c.f \notin Texts /\ c.f \notin Raws
          /\ c.f \notin Authenticators \cup {"ClientID", "MsgID"}
      BY <1>5 DEF Authenticators, Numbers, Texts, Raws
    <3>2. c = Num("TimeStamp", 4)
      BY <3>1 DEF Cells, Text, Bin
    <3>3. QED
      BY <1>5, <3>2 DEF ReadAs, Text, Bin, Num
  <2>2. c.w = 4 /\ c.how = "num" /\ d.how = "num"
    BY <2>1 DEF Num
  <2>3. a = Fit(x, 4)
    BY <2>2 DEF InCell, ReadCell
  <2>4. CASE v.by = "nobody"
    <3>1. x = stamp
      BY <1>5, <2>4 DEF PackedField, Authenticators
    <3>2. /\ stamp = [len |-> stamp.len, zero |-> stamp.zero, by |-> stamp.by]
          /\ stamp.len = 4 /\ stamp.zero \in 0..4
      BY DEF Stamps, Made
    <3>3. Fit(stamp, 4) = stamp
      BY <3>2, Fitted
    <3>4. QED
      BY <1>5, <2>3, <2>4, <3>1, <3>3 DEF Altered
  <2>5. CASE v.by # "nobody"
    <3>1. x = v
      BY <1>5, <2>5 DEF PackedField, Authenticators
    <3>2. v.len = 4
      BY <2>2 DEF Suits
    <3>3. Fit(v, 4) = v
      BY <1>1, <3>2, Fitted
    <3>4. QED
      BY <2>3, <3>1, <3>3
  <2>6. QED
    BY <2>4, <2>5
<1>6. CASE c.f \notin Authenticators \cup {"ClientID", "MsgID", "TimeStamp"}
  <2>1. x = v /\ d = c
    BY <1>6 DEF PackedField, ReadAs, Bin, Text
  <2>2. c.w \in Nat /\ c.how \in {"num", "text", "raw"}
    <3>1. c.f \notin Binaries
      BY <1>6 DEF Binaries
    <3>2. QED
      BY <3>1, CellKinds
  <2>3. CASE c.how = "raw"
    BY <2>1, <2>3 DEF InCell, ReadCell
  <2>4. CASE c.how = "num"
    <3>1. v.len = c.w
      BY <2>4 DEF Suits
    <3>2. Fit(v, c.w) = v
      BY <1>1, <2>2, <3>1, Fitted
    <3>3. QED
      BY <2>1, <2>4, <3>2 DEF InCell, ReadCell
  <2>5. CASE c.how = "text"
    <3>1. v.zero = v.len /\ v.len <= c.w
      BY <2>1, <2>5 DEF Suits
    <3>2. UpToZero(Fit(v, c.w)) = v
      BY <1>1, <2>2, <3>1, Fitted
    <3>3. QED
      BY <2>1, <2>5, <3>2 DEF InCell, ReadCell
  <2>6. QED
    BY <2>2, <2>3, <2>4, <2>5
<1>7. QED
  BY <1>2, <1>3, <1>4, <1>5, <1>6

\* A set of places in a sequence has a last one.
LEMMA LastPlace ==
  ASSUME NEW n \in Nat, NEW T \in SUBSET (1..n), T # {}
  PROVE  \E m \in T : \A k \in T : k <= m
<1> DEFINE Ends(U) == \E m \in U : \A k \in U : k <= m
           S == {m \in Nat : \A U \in SUBSET (1..m) : U # {} => Ends(U)}
<1>1. 0 \in S
  <2>1. 1..0 = {}
    OBVIOUS
  <2>2. QED
    BY <2>1
<1>2. ASSUME NEW m \in Nat, m \in S PROVE m + 1 \in S
  <2> SUFFICES ASSUME NEW U \in SUBSET (1..(m + 1)), U # {} PROVE Ends(U)
    OBVIOUS
  <2>1. CASE m + 1 \in U
    BY <2>1
  <2>2. CASE m + 1 \notin U
    <3>1. U \in SUBSET (1..m)
      BY <2>2
    <3>2. QED
      BY <1>2, <3>1
  <2>3. QED
    BY <2>1, <2>2
<1>3. \A m \in Nat : m \in S
  <2> HIDE DEF S
  <2>1. QED
    BY <1>1, <1>2, SetInduction
<1>4. QED
  BY <1>3

\* What a field is when it has been read.
Arrived(p, f, a) == a = p.val[f] \/ Altered(p.tag, f, p.val[f], a)
LEMMA CellArrives ==
  ASSUME NEW p, IsPacket(p), Counted(p), NEW digest \in Digests,
         NEW stamp \in Stamps, NEW q, q = Packed(p, digest, stamp), ~PackFails(q),
         NEW f \in DOMAIN p.val,
         NEW j \in 1..Len(UnpackCells(p)), UnpackCells(p)[j].f = f
  PROVE  Arrived(p, f, Arrives(q, j))
<1> DEFINE from == PackCells(p)
           to == UnpackCells(p)
           v == p.val[f]
           x == q.val[f]
           Same == {i \in 1..Len(from) : /\ from[i].f = to[j].f
                                         /\ from[i].w = to[j].w
                                         /\ At(from, i) = At(to, j)}
           i == CHOOSE h \in Same : TRUE
<1>0. /\ PackCells(q) = from /\ UnpackCells(q) = to
      /\ x = PackedField(f, v, digest, stamp)
  <2>1. PackCells(q) = from /\ UnpackCells(q) = to
    BY PackedCells
  <2>2. x = PackedField(f, v, digest, stamp)
    BY PackedFields
  <2>3. QED
    BY <2>1, <2>2
<1>1. Facing(from, to) /\ \A h \in 1..Len(from) : ReadAs(p.tag, from[h], to[h])
  BY UnpackMatches DEF Matching
<1>2. /\ j \in 1..Len(from) /\ from[j].f = f /\ from[j].w = to[j].w
      /\ from \in Seq(Cells) /\ At(from, j) = At(to, j)
  <2>1. Len(from) = Len(to) /\ \A h \in 1..Len(from) : /\ from[h].f = to[h].f
                                                       /\ from[h].w = to[h].w
    BY <1>1, Zenon DEF Facing
  <2>2. At(from, j) = At(to, j)
    <3>1. j \in 1..Len(from)
      BY <2>1
    <3> HIDE DEF from, to
    <3>2. QED
      BY <1>1, <3>1, SameStart, Zenon
  <2>3. QED
    BY <2>1, <2>2, PackWide
<1>3. j \in Same
  BY <1>2
<1>4. i \in Same
  BY <1>3, Zenon
<1>5. Arrives(q, j) = ReadCell(to[j], InCell(from[i], x))
  <2>1. to[j].f = f
    OBVIOUS
  <2>2. QED
    BY <1>0, <1>3, <2>1, Zenon DEF Arrives
<1> HIDE DEF from, to, v, x, Same, i
<1>6. i \in 1..Len(from) /\ from[i].f = f /\ from[i].w = from[j].w
  BY <1>2, <1>4 DEF Same, to
<1>7. from[i] \in Cells /\ from[j] \in Cells
  BY <1>2, <1>6
<1>8. from[i].how = from[j].how
  BY <1>2, <1>6, <1>7, OneWay
<1>9. InCell(from[i], x) = InCell(from[j], x)
  BY <1>6, <1>8, Zenon DEF InCell
<1>10. Suits(from[j], v)
  BY <1>2, Zenon DEF IsPacket, from, v
<1>11. ASSUME from[j].how = "text" PROVE x.len <= from[j].w
  <2>1. ~(x.len > from[j].w)
    BY <1>0, <1>2, <1>11 DEF PackFails, x
  <2>2. from[j].w \in Int
    BY <1>7, CellKinds
  <2>3. x.len \in Int
    <3>1. /\ v = [len |-> v.len, zero |-> v.zero, by |-> v.by]
          /\ v.len \in Nat /\ v.zero \in 0..v.len
      BY <1>10, SuitsType, Zenon
    <3>2. digest.len = 16 /\ stamp.len = 4
      BY DEF Digests, Stamps, Made
    <3>3. Fit(v, 8).len = 8
      BY <3>1 DEF Fit
    <3>4. x \in {digest, stamp, v, Fit(v, 8)}
      BY <1>0 DEF PackedField
    <3>5. QED
      BY <3>1, <3>2, <3>3, <3>4
  <2>4. QED
    BY <2>1, <2>2, <2>3
<1>12. ReadAs(p.tag, from[j], to[j])
  BY <1>1, <1>2
<1>13. Arrived(p, f, ReadCell(to[j], InCell(from[j], x)))
  <2> DEFINE c == from[j]
             d == to[j]
             tag == p.tag
  <2>1. /\ c \in Cells /\ c.f = f /\ ReadAs(tag, c, d) /\ Suits(c, v)
        /\ x = PackedField(c.f, v, digest, stamp)
        /\ c.how = "text" => x.len <= c.w
    BY <1>0, <1>2, <1>7, <1>10, <1>11, <1>12, Zenon
  <2> DEFINE a == ReadCell(d, InCell(c, x))
  <2> HIDE DEF c, d, tag
  <2>2. a = v \/ Altered(tag, c.f, v, a)
    BY <2>1, RoundTrip, Zenon
  <2>3. QED
    BY <2>1, <2>2, Zenon DEF Arrived, c, d, tag, v
<1>14. QED
  BY <1>5, <1>9, <1>13, Zenon

LEMMA PacketArrives ==
  ASSUME NEW p, IsPacket(p), Counted(p), NEW digest \in Digests,
         NEW stamp \in Stamps, NEW q, q = Packed(p, digest, stamp), ~PackFails(q)
  PROVE  /\ Got(q).tag = p.tag \/ p.tag \in {"ExitReq", "ExitResp"}
         /\ \A f \in DOMAIN p.val : Arrived(p, f, Got(q).val[f])
<1>0. /\ q.tag = p.tag /\ DOMAIN q.val = DOMAIN p.val
      /\ UnpackCells(q) = UnpackCells(p)
  BY PackedFields, PackedCells
<1>1. Got(q).tag = p.tag \/ p.tag \in {"ExitReq", "ExitResp"}
  BY <1>0 DEF Got, PackTag
<1>2. ASSUME NEW f \in DOMAIN p.val PROVE Arrived(p, f, Got(q).val[f])
  <2> DEFINE to == UnpackCells(p)
             Of == {j \in 1..Len(to) : to[j].f = f}
             m == CHOOSE j \in Of : \A k \in Of : k <= j
  <2>1. PICK i \in 1..Len(PackCells(p)) : PackCells(p)[i].f = f
    BY DEF IsPacket
  <2>2. i \in Of /\ Len(to) \in Nat
    <3>1. Facing(PackCells(p), to)
      BY UnpackMatches DEF Matching
    <3>2. QED
      BY <2>1, <3>1 DEF Facing
  <2>3. \E j \in Of : \A k \in Of : k <= j
    <3>1. Of \in SUBSET (1..Len(to)) /\ Of # {}
      BY <2>2
    <3> HIDE DEF Of
    <3>2. QED
      BY <2>2, <3>1, LastPlace, Zenon
  <2>4. m \in Of
    BY <2>3, Zenon
  <2>5. Got(q).val[f] = Arrives(q, m)
    <3>1. Of # {}
      BY <2>2
    <3> DEFINE G(c, g) == {j \in 1..Len(c) : c[j].f = g}
               Latest(S) == CHOOSE j \in S : \A k \in S : k <= j
               Found(c, g) == IF G(c, g) = {} THEN Garbled
                               ELSE Arrives(q, Latest(G(c, g)))
    <3>2. Got(q).val = [g \in DOMAIN q.val |-> Found(UnpackCells(q), g)]
      BY DEF Got
    <3>3. Got(q).val[f] = Found(UnpackCells(q), f)
      <4> HIDE DEF Found
      <4>1. QED
        BY <1>0, <3>2
    <3>4. Got(q).val[f] = Found(to, f)
      <4> HIDE DEF Found, to
      <4>1. to = UnpackCells(q)
        BY <1>0, Zenon DEF to
      <4>2. QED
        BY <3>3, <4>1, Zenon
    <3>5. G(to, f) = Of
      OBVIOUS
    <3>6. QED
      BY <3>1, <3>4, <3>5, Zenon
  <2>6. m \in 1..Len(to) /\ to[m].f = f
    BY <2>4
  <2> HIDE DEF m
  <2>7. QED
    BY <2>5, <2>6, CellArrives, Zenon
<1>3. QED
  BY <1>1, <1>2

-----------------------------------------------------------------------------
(* The packets sent. *)

Arrival(p, digest, stamp) ==
  [packet |-> p, got |-> Got(Packed(p, digest, stamp))]
Sent(a) == \E p \in Packets, digest \in Digests, stamp \in Stamps :
              /\ ~PackFails(Packed(p, digest, stamp))
              /\ a = Arrival(p, digest, stamp)
Base == {Arrival(p, d, t) : p \in Packets, d \in Digests, t \in Stamps}
Arrivals == {a \in Base : Sent(a)}
SentInv == todo \in Seq(Packets) /\ arrived \in Seq(Arrivals)

LEMMA SentInit == Init => SentInv
<1> SUFFICES ASSUME Init PROVE SentInv
  OBVIOUS
<1>1. todo \in Scripts /\ arrived = << >>
  BY DEF Init
<1>2. todo \in Seq(Packets)
  BY <1>1, ScriptsAssumption
<1>3. arrived \in Seq(Arrivals)
  BY <1>1
<1>4. QED
  BY <1>2, <1>3 DEF SentInv

LEMMA SentStep == SentInv /\ [Next]_vars => SentInv'
<1> SUFFICES ASSUME SentInv, [Next]_vars PROVE SentInv'
  OBVIOUS
<1>1. CASE SendPlain
  <2>1. todo # << >> /\ todo \in Seq(Packets) /\ arrived \in Seq(Arrivals)
    BY <1>1 DEF SendPlain, SentInv
  <2>2. Head(todo) \in Packets /\ Tail(todo) \in Seq(Packets)
    BY <2>1
  <2>3. todo' \in Seq(Packets)
    BY <1>1, <2>2 DEF SendPlain
  <2> DEFINE p == Head(todo)
  <2>4. PICK digest \in Digests, stamp \in Stamps :
          arrived' = IF PackFails(Packed(p, digest, stamp)) THEN arrived
                     ELSE Append(arrived, Arrival(p, digest, stamp))
    BY <1>1, Zenon DEF SendPlain, Arrival
  <2> DEFINE q == Packed(p, digest, stamp)
             a == Arrival(p, digest, stamp)
  <2>5. ~PackFails(q) => a \in Arrivals
    <3>1. ~PackFails(q) => Sent(a)
      BY <2>2, Zenon DEF Sent
    <3>2. a \in Base
      BY <2>2 DEF Base
    <3>3. QED
      BY <3>1, <3>2, Zenon DEF Arrivals
  <2> HIDE DEF p, q, a
  <2>6. CASE PackFails(q)
    BY <2>1, <2>3, <2>4, <2>6 DEF SentInv, q
  <2>7. CASE ~PackFails(q)
    <3>1. Append(arrived, a) \in Seq(Arrivals)
      BY <2>1, <2>5, <2>7
    <3>2. QED
      BY <2>3, <2>4, <2>7, <3>1, Zenon DEF SentInv, q, a
  <2>8. QED
    BY <2>6, <2>7
<1>2. CASE UNCHANGED scriptVars
  BY <1>2, Zenon DEF SentInv, scriptVars
<1>3. ASSUME NEW s \in Senders,
             Begin(s) \/ ReadRef(s) \/ LoadRef(s) \/ StoreRef(s) \/ SendPart(s)
      PROVE  UNCHANGED scriptVars
  BY <1>3, Zenon DEF Begin, ReadRef, LoadRef, StoreRef, SendPart
<1>4. ASSUME Done \/ UNCHANGED vars PROVE UNCHANGED scriptVars
  BY <1>4, Zenon DEF Done, vars
<1>5. QED
  BY <1>1, <1>2, <1>3, <1>4, Zenon DEF Next

LEMMA SentArrival ==
  ASSUME SentInv, NEW i \in 1..Len(arrived)
  PROVE  \E p \in Packets, digest \in Digests, stamp \in Stamps :
           /\ ~PackFails(Packed(p, digest, stamp)) /\ IsPacket(p)
           /\ arrived[i].packet = p
           /\ arrived[i].got = Got(Packed(p, digest, stamp))
<1>1. arrived[i] \in Arrivals
  BY DEF SentInv
<1>2. PICK p \in Packets, digest \in Digests, stamp \in Stamps :
        /\ ~PackFails(Packed(p, digest, stamp))
        /\ arrived[i] = Arrival(p, digest, stamp)
  <2>1. Sent(arrived[i])
    BY <1>1, Zenon DEF Arrivals
  <2>2. QED
    BY <2>1, Zenon DEF Sent
<1>3. IsPacket(p)
  BY ScriptsAssumption, Zenon
<1>4. /\ arrived[i].packet = p
      /\ arrived[i].got = Got(Packed(p, digest, stamp))
  <2> DEFINE g == Got(Packed(p, digest, stamp))
  <2> HIDE DEF g
  <2>1. arrived[i] = [packet |-> p, got |-> g]
    BY <1>2, Zenon DEF Arrival, g
  <2>2. QED
    BY <2>1 DEF g
<1>5. QED
  BY <1>2, <1>3, <1>4, Zenon

LEMMA SentKept == Spec => []SentInv
<1>1. Init => SentInv
  BY SentInit
<1>2. SentInv /\ [Next]_vars => SentInv'
  BY SentStep
<1>3. QED
  BY <1>1, <1>2, PTL DEF Spec

\* For every packet, whatever is in its fields, its counters and its options:
\* what is written beyond the announced length is what the counters leave out
\* and the lengths of the options lose, and the options are looked for within
\* the announced body.
THEOREM PacketsStayInStep == Spec => []StaysInStep
<1>1. SentInv => StaysInStep
  <2> SUFFICES ASSUME SentInv, NEW i \in 1..Len(arrived)
               PROVE  InStep(arrived[i].packet)
    BY Zenon DEF StaysInStep, InStep
  <2>1. IsPacket(arrived[i].packet)
    BY SentArrival, Zenon
  <2>2. QED
    BY <2>1, PacketInStep, Zenon
<1>2. QED
  BY <1>1, SentKept, PTL

\* Every packet that goes out with the right counters arrives as its type with
\* every field as the caller filled it in, but for exit packets and the fields
\* named in Altered.
THEOREM PacketsArrive == Spec => []FieldsArrive
<1>1. SentInv => FieldsArrive
  <2> SUFFICES ASSUME SentInv, NEW i \in 1..Len(arrived), Counted(arrived[i].packet)
               PROVE  LET p == arrived[i].packet
                          g == arrived[i].got
                      IN /\ g.tag = p.tag \/ p.tag \in {"ExitReq", "ExitResp"}
                         /\ \A f \in DOMAIN p.val : Arrived(p, f, g.val[f])
    BY Zenon DEF FieldsArrive, Arrived
  <2> DEFINE p == arrived[i].packet
             g == arrived[i].got
  <2>1. PICK digest \in Digests, stamp \in Stamps :
          /\ ~PackFails(Packed(p, digest, stamp)) /\ IsPacket(p)
          /\ g = Got(Packed(p, digest, stamp))
    BY SentArrival, Zenon
  <2> DEFINE q == Packed(p, digest, stamp)
  <2>2. /\ q = Packed(p, digest, stamp) /\ ~PackFails(q) /\ IsPacket(p)
        /\ Counted(p) /\ g = Got(q)
    BY <2>1, Zenon
  <2> HIDE DEF p, g, q
  <2>3. /\ Got(q).tag = p.tag \/ p.tag \in {"ExitReq", "ExitResp"}
        /\ \A f \in DOMAIN p.val : Arrived(p, f, Got(q).val[f])
    BY <2>2, PacketArrives, Zenon
  <2>4. QED
    BY <2>2, <2>3, Zenon DEF p, g
<1>2. QED
  BY <1>1, SentKept, PTL
=============================================================================
