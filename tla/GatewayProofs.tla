---------------------------- MODULE GatewayProofs ---------------------------
(***************************************************************************)
(* Message ids for every gateway code, minute and number, and the reports  *)
(* of Gateway for any number of connections and submits.                   *)
(***************************************************************************)
EXTENDS Gateway, SeqFacts, FiniteSetTheorems

-----------------------------------------------------------------------------
(* The format of an id *)

\* (Zenon cannot read numbers as large as those of these definitions.)
LEMMA HexDigits ==
  ASSUME NEW n \in SixDigits
  PROVE  /\ Hex3(n) \in Seq(0..255) /\ Len(Hex3(n)) = 3
         /\ FromHex3(Hex3(n)) = n
<1>1. n \in Nat /\ n < 16777216
  <2>1. NumMod - 1 < 16777216 /\ NumMod - 1 \in Nat
    BY SMT DEF NumMod
  <2>2. QED
    BY <2>1, SMT DEF SixDigits
<1> DEFINE q == n \div 256
           x == n \div 65536
           y == q % 256
           z == n % 256
<1>2. /\ x \in 0..255 /\ y \in 0..255 /\ z \in 0..255
      /\ 65536 * x + 256 * y + z = n
  <2>1. n = 256 * q + z /\ z \in 0..255 /\ q \in Nat
    BY <1>1, SMT
  <2>2. n \div 65536 = q \div 256
    BY <1>1, SMT
  <2> HIDE DEF q, z
  <2>3. q = 256 * (q \div 256) + y /\ y \in 0..255 /\ q \div 256 \in Nat
    BY <2>1, SMT
  <2>4. x = q \div 256
    BY <2>2, SMT
  <2> HIDE DEF x, y
  <2>5. x \in Nat /\ q = 256 * x + y
    BY <2>3, <2>4, SMT
  <2>6. QED
    BY <1>1, <2>1, <2>3, <2>5, SMT
<1>3. Hex3(n) = <<x, y, z>>
  BY SMT DEF Hex3
<1>4. FromHex3(<<x, y, z>>) = 65536 * x + 256 * y + z
  BY SMT DEF FromHex3
<1> HIDE DEF x, y, z
<1>5. QED
  BY <1>2, <1>3, <1>4, SMT

LEMMA DecimalDigits ==
  ASSUME NEW n \in 0..99
  PROVE  BcdByte(n) \in 0..255 /\ FromBcd(BcdByte(n)) = n
BY DEF BcdByte, FromBcd

\* A function of four bytes is a string of four bytes.
LEMMA FourBytes ==
  ASSUME NEW f \in [1..4 -> 0..255]
  PROVE  f \in Seq(0..255) /\ Len(f) = 4
<1>1. 4 \in Nat
  OBVIOUS
<1>2. [1..4 -> 0..255] \in {[1..n -> 0..255] : n \in Nat}
  BY <1>1, Zenon
<1>3. Seq(0..255) = UNION {[1..n -> 0..255] : n \in Nat}
  BY SeqDef, Zenon
<1>4. f \in UNION {[1..n -> 0..255] : n \in Nat}
  BY <1>2, Zenon
<1>5. f \in Seq(0..255)
  BY <1>3, <1>4, Zenon
<1>6. QED
  BY <1>5, LenProperties

\* The byte string that has u's m bytes first, and then v's.
Joined(w, u, m, v, len) ==
  /\ w \in Seq(0..255) /\ Len(w) = len
  /\ \A i \in 1..len : w[i] = IF i <= m THEN u[i] ELSE v[i - m]
LEMMA JoinBytes ==
  ASSUME NEW u \in Seq(0..255), NEW v \in Seq(0..255)
  PROVE  Joined(u \o v, u, Len(u), v, Len(u) + Len(v))
BY DEF Joined

\* The ten bytes of an id.
LEMMA IdBytes ==
  ASSUME NEW sp \in SixDigits, NEW t \in [1..4 -> 0..99], NEW n \in SixDigits
  PROVE  LET id == GenMsgID(sp, t, n)
         IN /\ id \in Ids
            /\ \A i \in 1..3 : id[i] = Hex3(sp)[i]
            /\ \A i \in 1..4 : id[3 + i] = BcdByte(t[i])
            /\ \A i \in 1..3 : id[7 + i] = Hex3(n)[i]
<1> DEFINE a == Hex3(sp)
           b == BcdTime(t)
           c == Hex3(n)
<1>1. a \in Seq(0..255) /\ Len(a) = 3 /\ c \in Seq(0..255) /\ Len(c) = 3
  BY HexDigits
<1>2. \A i \in 1..4 : BcdByte(t[i]) \in 0..255
  BY DecimalDigits
<1>3. b \in Seq(0..255) /\ Len(b) = 4 /\ \A i \in 1..4 : b[i] = BcdByte(t[i])
  <2>1. b = [i \in 1..4 |-> BcdByte(t[i])]
    BY DEF BcdTime
  <2> HIDE DEF b
  <2>2. b \in [1..4 -> 0..255] /\ \A i \in 1..4 : b[i] = BcdByte(t[i])
    BY <1>2, <2>1
  <2>3. b \in Seq(0..255) /\ Len(b) = 4
    BY <2>2, FourBytes
  <2>4. QED
    BY <2>2, <2>3
<1>4. GenMsgID(sp, t, n) = a \o b \o c
  BY DEF GenMsgID
<1> HIDE DEF a, b, c
<1>5. /\ a \o b \in Seq(0..255) /\ Len(a \o b) = 7
      /\ \A i \in 1..7 : (a \o b)[i] = IF i <= 3 THEN a[i] ELSE b[i - 3]
  <2>1. Joined(a \o b, a, Len(a), b, Len(a) + Len(b))
    BY <1>1, <1>3, JoinBytes
  <2>2. Len(a) = 3 /\ Len(a) + Len(b) = 7
    BY <1>1, <1>3
  <2>3. Joined(a \o b, a, 3, b, 7)
    BY <2>1, <2>2
  <2>4. QED
    BY <2>3 DEF Joined
<1> DEFINE ab == a \o b
<1>6. /\ ab \o c \in Seq(0..255) /\ Len(ab \o c) = 10
      /\ \A i \in 1..10 : (ab \o c)[i] = IF i <= 7 THEN ab[i] ELSE c[i - 7]
  <2>1. ab \in Seq(0..255) /\ Len(ab) = 7
    BY <1>5
  <2> HIDE DEF ab
  <2>2. Joined(ab \o c, ab, Len(ab), c, Len(ab) + Len(c))
    BY <1>1, <2>1, JoinBytes
  <2>3. Len(ab) = 7 /\ Len(ab) + Len(c) = 10
    BY <1>1, <2>1
  <2>4. Joined(ab \o c, ab, 7, c, 10)
    BY <2>2, <2>3
  <2>5. QED
    BY <2>4 DEF Joined
<1> DEFINE id == GenMsgID(sp, t, n)
<1> HIDE DEF id
<1>7. /\ id \in Seq(0..255) /\ Len(id) = 10
      /\ \A i \in 1..10 : id[i] = IF i <= 7 THEN IF i <= 3 THEN a[i] ELSE b[i - 3]
                                ELSE c[i - 7]
  <2>1. id = ab \o c
    BY <1>4 DEF id
  <2> HIDE DEF ab
  <2>2. \A i \in 1..7 : ab[i] = IF i <= 3 THEN a[i] ELSE b[i - 3]
    BY <1>5 DEF ab
  <2>3. /\ id \in Seq(0..255) /\ Len(id) = 10
        /\ \A i \in 1..10 : id[i] = IF i <= 7 THEN ab[i] ELSE c[i - 7]
    BY <2>1, <1>6, Zenon DEF ab
  <2>4. ASSUME NEW i \in 1..10
        PROVE  id[i] = IF i <= 7 THEN IF i <= 3 THEN a[i] ELSE b[i - 3] ELSE c[i - 7]
    <3>1. CASE i <= 7
      BY <3>1, <2>2, <2>3, SMT
    <3>2. CASE ~(i <= 7)
      BY <3>2, <2>3, SMT
    <3>3. QED
      BY <3>1, <3>2
  <2>5. QED
    BY <2>3, <2>4, Zenon
<1>8. /\ \A i \in 1..3 : id[i] = a[i] /\ id[7 + i] = c[i]
      /\ \A i \in 1..4 : id[3 + i] = b[i]
  BY <1>7
<1>9. QED
  BY <1>3, <1>7, <1>8 DEF Ids, a, c, id

\* UnpackMsgId is the inverse of GenMsgID, for every code of six digits, every
\* time and every number of the generator (utils.go:91-109).
THEOREM IdRoundTrip ==
  ASSUME NEW sp \in SixDigits, NEW t \in [1..4 -> 0..99], NEW n \in SixDigits
  PROVE  UnpackMsgId(GenMsgID(sp, t, n)) = [sp |-> sp, time |-> t, num |-> n]
<1> DEFINE id == GenMsgID(sp, t, n)
<1>1. /\ id \in Seq(0..255) /\ Len(id) = 10
      /\ \A i \in 1..3 : id[i] = Hex3(sp)[i]
      /\ \A i \in 1..4 : id[3 + i] = BcdByte(t[i])
      /\ \A i \in 1..3 : id[7 + i] = Hex3(n)[i]
  BY IdBytes DEF Ids
<1> HIDE DEF id
<1>2. SubSeq(id, 1, 3) = Hex3(sp) /\ SubSeq(id, 8, 10) = Hex3(n)
  <2>1. /\ Hex3(sp) \in Seq(0..255) /\ Len(Hex3(sp)) = 3
        /\ Hex3(n) \in Seq(0..255) /\ Len(Hex3(n)) = 3
    BY HexDigits
  <2>2. /\ SubSeq(id, 1, 3) \in Seq(0..255) /\ Len(SubSeq(id, 1, 3)) = 3
        /\ \A i \in 1..3 : SubSeq(id, 1, 3)[i] = id[i]
        /\ SubSeq(id, 8, 10) \in Seq(0..255) /\ Len(SubSeq(id, 8, 10)) = 3
        /\ \A i \in 1..3 : SubSeq(id, 8, 10)[i] = id[7 + i]
    <3>1. ASSUME NEW i \in 1..10
          PROVE  id[i] \in 0..255
      <4>1. i \in 1..Len(id)
        BY <1>1, SMT
      <4>2. id \in Seq(0..255)
        BY <1>1
      <4>3. QED
        BY <4>1, <4>2, ElementOfSeq
    <3>2. QED
      BY <3>1, SubSeqProperties
  <2>3. \A u, v \in Seq(0..255) :
          Len(u) = 3 /\ Len(v) = 3 /\ (\A i \in 1..3 : u[i] = v[i]) => u = v
    OBVIOUS
  <2>4. QED
    BY <1>1, <2>1, <2>2, <2>3
<1>3. [i \in 1..4 |-> FromBcd(id[3 + i])] = t
  <2>1. \A i \in 1..4 : FromBcd(id[3 + i]) = t[i]
    BY <1>1, DecimalDigits
  <2>2. QED
    BY <2>1
<1>4. QED
  BY <1>2, <1>3, HexDigits DEF UnpackMsgId, id

\* No two ids are equal that differ in a field (utils.go:91-99).
THEOREM IdsDiffer ==
  ASSUME NEW sp1 \in SixDigits, NEW t1 \in [1..4 -> 0..99], NEW n1 \in SixDigits,
         NEW sp2 \in SixDigits, NEW t2 \in [1..4 -> 0..99], NEW n2 \in SixDigits,
         GenMsgID(sp1, t1, n1) = GenMsgID(sp2, t2, n2)
  PROVE  sp1 = sp2 /\ t1 = t2 /\ n1 = n2
<1>1. [sp |-> sp1, time |-> t1, num |-> n1] = [sp |-> sp2, time |-> t2, num |-> n2]
  BY IdRoundTrip
<1>2. QED
  BY <1>1

-----------------------------------------------------------------------------
(* The inductive invariant *)

\* The connections that wait are different ones, and none is served.
QueueInv ==
  /\ \A i \in 1..Len(backlog) : backlog[i] \notin served
  /\ \A i, j \in 1..Len(backlog) : backlog[i] = backlog[j] => i = j

\* The submits handled on a connection, and the number its generator offers.
Mine(c) == {j \in 1..Len(submits) : submits[j].c = c}
NextInv == \A c \in Clients : next[c] = (start[c] + Cardinality(Mine(c))) % NumMod

\* The id of a submit has the number its place on the connection gives it, and
\* its reports carry that id.
SubmitInv == \A k \in 1..Len(submits) :
               submits[k].msgID = GenMsgID(spId, submits[k].time, Number(k))
ReportInv == \A k \in 1..Len(submits) : \A i \in 1..Len(reports[k]) :
               reports[k][i] = submits[k].msgID
\* The bound on the submits.
BoundInv == Len(submits) <= MaxSubmits

IInv == TypeOK /\ QueueInv /\ NextInv /\ SubmitInv /\ ReportInv /\ BoundInv

-----------------------------------------------------------------------------
(* Arithmetic and counting *)

\* (The provers list the elements of a set of numbers whose ends they know, so
\* NumMod is not expanded where there is one.)
LEMMA NumModSize == NumMod \in Nat /\ NumMod > 2
BY SMT DEF NumMod

LEMMA SixDigitNumbers == \A n : n \in SixDigits <=> n \in Nat /\ n < NumMod
BY NumModSize, SMT DEF SixDigits

LEMMA NextNumber ==
  ASSUME NEW s \in Nat, NEW n \in Nat
  PROVE  /\ (s + n) % NumMod \in SixDigits
         /\ Bump((s + n) % NumMod) = (s + (n + 1)) % NumMod
         /\ Bump((s + n) % NumMod) \in SixDigits
<1> DEFINE x == s + n
<1>1. x \in Nat /\ s + (n + 1) = x + 1
  BY SMT
<1> HIDE DEF x
<1>2. ((x % NumMod) + 1) % NumMod = (x + 1) % NumMod
  BY <1>1, SMT DEF NumMod
<1>3. x % NumMod \in Nat /\ x % NumMod < NumMod
  BY <1>1, SMT DEF NumMod
<1>4. (x + 1) % NumMod \in Nat /\ (x + 1) % NumMod < NumMod
  BY <1>1, SMT DEF NumMod
<1>5. QED
  BY <1>1, <1>2, <1>3, <1>4, SixDigitNumbers, Zenon DEF Bump, x

LEMMA FirstNumber ==
  ASSUME NEW s \in Nat, s < NumMod
  PROVE  s \in SixDigits /\ (s + 0) % NumMod = s
<1>1. (s + 0) % NumMod = s
  BY SMT DEF NumMod
<1>2. QED
  BY <1>1, SixDigitNumbers

LEMMA NumbersDiffer ==
  ASSUME NEW s \in Nat, NEW m \in Nat, NEW n \in Nat, m < n, n - m < NumMod
  PROVE  (s + m) % NumMod # (s + n) % NumMod
BY SMT DEF NumMod

\* What the provers need of the constants and of a state of the right types.
LEMMA Fields ==
  ASSUME TypeOK, NEW k \in 1..Len(submits)
  PROVE  /\ submits[k] \in [c : served, time : Clock, dests : Dests, msgID : Ids]
         /\ submits[k].c \in Clients /\ submits[k].c \in served
         /\ submits[k].time \in [1..4 -> 0..99]
         /\ spId \in SixDigits /\ start[submits[k].c] \in Nat
<1>1. submits[k] \in [c : served, time : Clock, dests : Dests, msgID : Ids]
  BY ElementOfSeq DEF TypeOK
<1>2. submits[k].c \in served /\ submits[k].c \in Clients
  BY <1>1 DEF TypeOK, ListenerTypes
<1>3. start[submits[k].c] \in SixDigits /\ spId \in SixDigits
  BY <1>2, GatewayAssumption DEF TypeOK
<1>4. start[submits[k].c] \in Nat
  BY <1>3, SMT DEF SixDigits
<1>5. QED
  BY <1>1, <1>2, <1>3, <1>4, GatewayAssumption

LEMMA Counted ==
  ASSUME TypeOK, NEW k \in 1..Len(submits)
  PROVE  /\ Before(k) \subseteq 1..(k - 1) /\ IsFiniteSet(Before(k))
         /\ Cardinality(Before(k)) \in 0..(k - 1)
<1>1. k - 1 \in Nat /\ Before(k) \subseteq 1..(k - 1)
  BY DEF TypeOK, Before
<1>2. IsFiniteSet(1..(k - 1)) /\ Cardinality(1..(k - 1)) = k - 1
  BY <1>1, FS_Interval
<1>3. IsFiniteSet(Before(k)) /\ Cardinality(Before(k)) <= k - 1
  BY <1>1, <1>2, FS_Subset
<1>4. QED
  BY <1>1, <1>3, FS_CardinalityType

LEMMA MineCounted ==
  ASSUME TypeOK, NEW c \in Clients
  PROVE  IsFiniteSet(Mine(c)) /\ Cardinality(Mine(c)) \in Nat
<1>1. Len(submits) \in Nat /\ Mine(c) \subseteq 1..Len(submits)
  BY DEF TypeOK, Mine
<1>2. IsFiniteSet(1..Len(submits))
  BY <1>1, FS_Interval
<1>3. QED
  BY <1>1, <1>2, FS_Subset, FS_CardinalityType

-----------------------------------------------------------------------------
(* The invariants follow from IInv *)

LEMMA FieldsFollow == IInv => FieldsRecovered
<1> SUFFICES ASSUME IInv, NEW k \in 1..Len(submits)
             PROVE  LET f == UnpackMsgId(submits[k].msgID)
                    IN f.sp = spId /\ f.time = submits[k].time /\ f.num = Number(k)
  BY DEF FieldsRecovered
<1>1. TypeOK /\ submits[k].msgID = GenMsgID(spId, submits[k].time, Number(k))
  BY DEF IInv, SubmitInv
<1>2. Number(k) \in SixDigits
  <2>1. Cardinality(Before(k)) \in Nat /\ start[submits[k].c] \in Nat
    BY <1>1, Counted, Fields
  <2>2. QED
    BY <2>1, NextNumber, Zenon DEF Number
<1>3. UnpackMsgId(GenMsgID(spId, submits[k].time, Number(k)))
        = [sp |-> spId, time |-> submits[k].time, num |-> Number(k)]
  BY <1>1, <1>2, Fields, IdRoundTrip
<1>4. QED
  BY <1>1, <1>3

\* Two submits of one connection have different numbers within a cycle.
LEMMA OneConnection ==
  ASSUME IInv, MaxSubmits <= NumMod,
         NEW j \in 1..Len(submits), NEW k \in 1..Len(submits),
         j < k, submits[j].c = submits[k].c
  PROVE  Number(j) # Number(k)
<1>1. TypeOK /\ Len(submits) <= MaxSubmits /\ Len(submits) \in Nat
  BY DEF IInv, BoundInv, TypeOK
<1>2. Before(j) \subseteq Before(k) /\ j \in Before(k) /\ j \notin Before(j)
  BY DEF Before
<1>3. /\ Cardinality(Before(j)) \in Nat /\ Cardinality(Before(k)) \in Nat
      /\ Cardinality(Before(k)) <= k - 1 /\ IsFiniteSet(Before(k))
  BY <1>1, Counted
<1>4. Before(j) # Before(k)
  BY <1>2
<1>5. Cardinality(Before(j)) < Cardinality(Before(k))
  BY <1>2, <1>3, <1>4, FS_Subset
<1>6. Cardinality(Before(k)) - Cardinality(Before(j)) < NumMod
  <2>1. NumMod \in Nat /\ MaxSubmits \in Nat
    BY GatewayAssumption, NumModSize
  <2>2. QED
    BY <1>1, <1>3, <2>1
<1>7. start[submits[k].c] \in Nat
  BY <1>1, Fields
<1>8. QED
  BY <1>3, <1>5, <1>6, <1>7, NumbersDiffer DEF Number

LEMMA ReportsFollow == IInv /\ MaxSubmits <= NumMod => ReportFindsItsSubmit
<1> SUFFICES ASSUME IInv, MaxSubmits <= NumMod,
                    NEW k \in 1..Len(submits), NEW j \in 1..Len(submits),
                    NEW i \in 1..Len(reports[k])
             PROVE  reports[k][i] = submits[j].msgID <=> j = k \/ Clash(j, k)
  BY DEF ReportFindsItsSubmit
<1>1. TypeOK
  BY DEF IInv
<1>2. reports[k][i] = submits[k].msgID
  BY DEF IInv, ReportInv
<1>3. /\ submits[k].msgID = GenMsgID(spId, submits[k].time, Number(k))
      /\ submits[j].msgID = GenMsgID(spId, submits[j].time, Number(j))
  BY DEF IInv, SubmitInv
<1>4. Number(k) \in SixDigits /\ Number(j) \in SixDigits
  <2>1. /\ Cardinality(Before(k)) \in Nat /\ start[submits[k].c] \in Nat
        /\ Cardinality(Before(j)) \in Nat /\ start[submits[j].c] \in Nat
    BY <1>1, Counted, Fields
  <2>2. QED
    BY <2>1, NextNumber, Zenon DEF Number
<1>5. submits[k].msgID = submits[j].msgID
        <=> submits[k].time = submits[j].time /\ Number(k) = Number(j)
  <2>1. /\ submits[k].time \in [1..4 -> 0..99] /\ spId \in SixDigits
        /\ submits[j].time \in [1..4 -> 0..99]
    BY <1>1, Fields
  <2>2. submits[k].msgID = submits[j].msgID
          => submits[k].time = submits[j].time /\ Number(k) = Number(j)
    <3> DEFINE nk == Number(k)
               nj == Number(j)
               tk == submits[k].time
               tj == submits[j].time
    <3>1. /\ nk \in SixDigits /\ nj \in SixDigits /\ spId \in SixDigits
          /\ tk \in [1..4 -> 0..99] /\ tj \in [1..4 -> 0..99]
      BY <1>4, <2>1
    <3> HIDE DEF nk, nj, tk, tj
    <3>2. ASSUME GenMsgID(spId, tk, nk) = GenMsgID(spId, tj, nj)
          PROVE  tk = tj /\ nk = nj
      BY <3>1, <3>2, IdsDiffer
    <3>3. QED
      BY <1>3, <3>2, Zenon DEF nk, nj, tk, tj
  <2>3. QED
    BY <1>3, <2>2
<1>6. submits[j].c = submits[k].c /\ Number(j) = Number(k) => j = k
  BY OneConnection
<1>7. QED
  BY <1>2, <1>5, <1>6 DEF Clash

-----------------------------------------------------------------------------
(* IInv is inductive *)

LEMMA InvInit == Init => IInv
<1> SUFFICES ASSUME Init PROVE IInv
  OBVIOUS
<1>1. 0 \in SixDigits /\ 0 \in 0..MaxDelay
  <2>1. 0 \in 0..MaxDelay
    BY SMT DEF MaxDelay
  <2>2. QED
    BY <2>1, NumModSize, SixDigitNumbers
<1>2. TypeOK
  BY <1>1 DEF Init, LInit, TypeOK, ListenerTypes
<1>3. QueueInv /\ SubmitInv /\ ReportInv
  BY DEF Init, LInit, QueueInv, SubmitInv, ReportInv
<1>4. BoundInv
  BY GatewayAssumption DEF Init, BoundInv
<1>5. ASSUME NEW c \in Clients
      PROVE  next[c] = (start[c] + Cardinality(Mine(c))) % NumMod
  <2>1. Mine(c) = {}
    BY DEF Mine, Init
  <2>2. Cardinality(Mine(c)) = 0
    BY <2>1, FS_EmptySet
  <2>3. start[c] = 0 /\ next[c] = 0
    BY DEF Init
  <2>4. 0 < NumMod
    BY NumModSize
  <2>5. QED
    BY <2>2, <2>3, <2>4, FirstNumber
<1>6. QED
  BY <1>2, <1>3, <1>4, <1>5 DEF IInv, NextInv

LEMMA SeqGrows ==
  ASSUME NEW S, NEW T, S \subseteq T, NEW s \in Seq(S)
  PROVE  s \in Seq(T)
<1>1. Len(s) \in Nat /\ s \in [1..Len(s) -> S]
  BY LenProperties
<1>2. s \in [1..Len(s) -> T]
  BY <1>1
<1>3. QED
  BY <1>1, <1>2

\* The numbers stay right as long as nothing is submitted or accepted.
LEMMA SameNumbers ==
  ASSUME IInv, UNCHANGED <<spId, start, next, submits>>
  PROVE  NextInv' /\ SubmitInv' /\ BoundInv'
BY DEF IInv, NextInv, SubmitInv, BoundInv, Mine, Number, Before

\* A step of the loop alone.
LEMMA LoopSteps ==
  ASSUME IInv, Loop \/ (\E c \in Clients : Connect(c))
  PROVE  IInv'
<1> USE DEF IInv
<1>1. UNCHANGED conVars
  BY DEF Loop, Connect
<1>2. NextInv' /\ SubmitInv' /\ BoundInv' /\ ReportInv'
  BY <1>1, SameNumbers DEF conVars, ReportInv
<1>3. ListenerTypes' /\ QueueInv' /\ served' = served
  <2>1. CASE AcceptTemporary
    <3>1. tempDelay' \in 0..MaxDelay /\ fails' \in Nat
      BY <2>1 DEF AcceptTemporary, TypeOK, ListenerTypes, FirstDelay, MaxDelay
    <3>2. QED
      BY <2>1, <3>1 DEF AcceptTemporary, TypeOK, ListenerTypes, QueueInv
  <2>2. CASE Wake
    BY <2>2 DEF Wake, TypeOK, ListenerTypes, QueueInv
  <2>3. CASE AcceptFatal
    BY <2>3 DEF AcceptFatal, TypeOK, ListenerTypes, QueueInv
  <2>4. ASSUME NEW c \in Clients, Knock(c) PROVE ListenerTypes' /\ QueueInv' /\ served' = served
    <3>1. ListenerTypes'
      BY <2>4 DEF Knock, TypeOK, ListenerTypes
    <3>2. /\ Len(backlog) \in Nat /\ Len(backlog') = Len(backlog) + 1
          /\ \A i \in 1..Len(backlog) : backlog'[i] = backlog[i]
          /\ backlog'[Len(backlog) + 1] = c
      BY <2>4 DEF Knock, TypeOK, ListenerTypes
    <3>3. /\ c \notin served /\ served' = served
          /\ \A i \in 1..Len(backlog) : backlog[i] # c
      BY <2>4 DEF Knock
    <3>4. QueueInv'
      BY <3>2, <3>3 DEF QueueInv
    <3>5. QED
      BY <3>1, <3>3, <3>4
  <2>5. QED
    BY <2>1, <2>2, <2>3, <2>4 DEF Loop, Connect
<1>4. TypeOK'
  BY <1>1, <1>3 DEF TypeOK, conVars
<1>5. QED
  BY <1>2, <1>3, <1>4

\* A connection is taken: none of the submits is its own.
LEMMA AcceptStep ==
  ASSUME IInv, Accept
  PROVE  IInv'
<1> DEFINE h == Head(backlog)
<1>1. /\ TypeOK /\ backlog # << >> /\ backlog \in Seq(Clients)
      /\ backlog' = Tail(backlog) /\ served' = served \cup {h}
      /\ tempDelay' = 0 /\ fails' = 0 /\ lpc' = lpc
      /\ UNCHANGED <<spId, ended, deaf, submits, going, reports>>
  BY DEF IInv, TypeOK, ListenerTypes, Accept, AcceptOK
<1>2. h \in Clients /\ h = backlog[1] /\ 1 \in 1..Len(backlog)
  BY <1>1, HeadTailProperties
<1>3. /\ Len(backlog') = Len(backlog) - 1 /\ backlog' \in Seq(Clients)
      /\ \A i \in 1..Len(backlog') : backlog'[i] = backlog[i + 1]
  BY <1>1, HeadTailProperties
<1>4. PICK n \in Starts : /\ start' = [start EXCEPT ![h] = n]
                          /\ next' = [next EXCEPT ![h] = n]
  BY DEF Accept
<1>5. n \in Nat /\ n < NumMod
  BY GatewayAssumption, NumModSize
<1>6. n \in SixDigits /\ (n + 0) % NumMod = n
  BY <1>5, FirstNumber
<1> HIDE DEF h
<1>7. TypeOK'
  <2>1. ListenerTypes'
    <3>1. 0 \in 0..MaxDelay
      BY SMT DEF MaxDelay
    <3>2. QED
      BY <1>1, <1>2, <1>3, <3>1 DEF TypeOK, ListenerTypes
  <2>2. start' \in [Clients -> SixDigits] /\ next' \in [Clients -> SixDigits]
    BY <1>1, <1>4, <1>6 DEF TypeOK
  <2>3. submits' \in Seq([c : served', time : Clock, dests : Dests, msgID : Ids])
    <3> DEFINE R == [c : served, time : Clock, dests : Dests, msgID : Ids]
               S == [c : served', time : Clock, dests : Dests, msgID : Ids]
    <3>1. submits \in Seq(R) /\ submits' = submits
      BY <1>1 DEF TypeOK
    <3>2. R \subseteq S
      BY <1>1
    <3> HIDE DEF R, S
    <3>3. submits' \in Seq(S)
      BY <3>1, <3>2, SeqGrows
    <3>4. QED
      BY <3>3 DEF S
  <2>4. QED
    BY <1>1, <2>1, <2>2, <2>3 DEF TypeOK
<1>8. QueueInv'
  BY <1>1, <1>2, <1>3 DEF IInv, QueueInv
<1>9. h \notin served
  BY <1>2 DEF IInv, QueueInv
<1>10. NextInv'
  <2> SUFFICES ASSUME NEW c \in Clients
               PROVE  next'[c] = (start'[c] + Cardinality(Mine(c)')) % NumMod
    BY DEF NextInv
  <2>1. Mine(c)' = Mine(c)
    BY <1>1 DEF Mine
  <2>2. CASE c = h
    <3>1. Mine(c) = {}
      BY <1>1, <1>9, <2>2, Fields DEF Mine
    <3>2. Cardinality(Mine(c)) = 0
      BY <3>1, FS_EmptySet
    <3>3. start'[c] = n /\ next'[c] = n
      BY <1>1, <1>4, <2>2 DEF TypeOK
    <3>4. QED
      BY <2>1, <3>2, <3>3, <1>6
  <2>3. CASE c # h
    <3>1. start'[c] = start[c] /\ next'[c] = next[c]
      BY <1>1, <1>4, <2>3 DEF TypeOK
    <3>2. QED
      BY <2>1, <3>1 DEF IInv, NextInv
  <2>4. QED
    BY <2>2, <2>3
<1>11. SubmitInv'
  <2> SUFFICES ASSUME NEW k \in 1..Len(submits)
               PROVE  submits[k].msgID = GenMsgID(spId, submits[k].time, Number(k)')
    BY <1>1 DEF SubmitInv
  <2>1. submits[k].c # h /\ submits[k].c \in Clients
    BY <1>1, <1>9, Fields
  <2>2. start'[submits[k].c] = start[submits[k].c]
    BY <1>1, <1>4, <2>1 DEF TypeOK
  <2>3. Number(k)' = Number(k)
    BY <1>1, <2>2 DEF Number, Before
  <2>4. QED
    BY <2>3 DEF IInv, SubmitInv
<1>12. BoundInv' /\ ReportInv'
  BY <1>1 DEF IInv, BoundInv, ReportInv
<1>13. QED
  BY <1>7, <1>8, <1>10, <1>11, <1>12 DEF IInv

\* A report is sent with the id of its submit, a goroutine returns, a client
\* stops reading or begins again, and a connection or all of them end.
LEMMA OtherSteps ==
  ASSUME IInv, (\E k \in 1..Len(submits) : Report(k) \/ DeliverReturns(k))
               \/ (\E c \in Clients : End(c) \/ StopReading(c) \/ ReadAgain(c))
               \/ Exit
  PROVE  IInv'
<1> USE DEF IInv
<1>1. /\ UNCHANGED lisVars /\ UNCHANGED <<spId, start, next, submits>>
  BY DEF Report, DeliverReturns, End, StopReading, ReadAgain, Exit
<1>2. NextInv' /\ SubmitInv' /\ BoundInv'
  BY <1>1, SameNumbers
<1>3. QueueInv' /\ ListenerTypes'
  BY <1>1 DEF lisVars, QueueInv, TypeOK, ListenerTypes
<1>4. /\ ended' \subseteq served /\ deaf' \subseteq served \ ended'
      /\ going' \subseteq 1..Len(submits)
      /\ Len(reports') = Len(reports) /\ reports' \in Seq(Seq(Ids)) /\ ReportInv'
  <2>1. ASSUME NEW k \in 1..Len(submits), Report(k)
        PROVE  /\ ended' = ended /\ deaf' = deaf /\ going' = going
               /\ Len(reports') = Len(reports) /\ reports' \in Seq(Seq(Ids))
               /\ ReportInv'
    <3> DEFINE id == submits[k].msgID
    <3>1. /\ id \in Ids /\ reports \in Seq(Seq(Ids)) /\ k \in 1..Len(reports)
          /\ reports[k] \in Seq(Ids)
      BY Fields, ElementOfSeq DEF TypeOK
    <3>2. /\ reports' = [reports EXCEPT ![k] = Append(@, id)]
          /\ submits' = submits /\ ended' = ended /\ deaf' = deaf
          /\ going' = going
      BY <2>1 DEF Report, Content
    <3> HIDE DEF id
    <3>3. Append(reports[k], id) \in Seq(Ids)
      BY <3>1
    <3>4. Len(reports') = Len(reports) /\ reports' \in Seq(Seq(Ids))
      BY <3>1, <3>2, <3>3, ExceptSeq
    <3>5. \A m \in 1..Len(submits) :
            reports'[m] = IF m = k THEN Append(reports[k], id) ELSE reports[m]
      BY <3>1, <3>2 DEF TypeOK
    <3>6. \A i \in 1..Len(Append(reports[k], id)) : Append(reports[k], id)[i] = id
      <4>1. \A i \in 1..Len(reports[k]) : reports[k][i] = id
        BY DEF ReportInv, id
      <4>2. QED
        BY <3>1, <4>1, AppendProperties
    <3>7. ReportInv'
      BY <3>2, <3>5, <3>6 DEF ReportInv, id
    <3>8. QED
      BY <3>2, <3>4, <3>7
  <2>2. ASSUME NEW k \in 1..Len(submits), DeliverReturns(k)
        PROVE  /\ going' \subseteq going
               /\ UNCHANGED <<ended, deaf, submits, reports>>
    BY <2>2 DEF DeliverReturns
  <2>3. ASSUME NEW c \in Clients, End(c) \/ StopReading(c) \/ ReadAgain(c)
        PROVE  /\ ended' \subseteq served /\ deaf' \subseteq served \ ended'
               /\ going' = going /\ UNCHANGED <<submits, reports>>
    BY <2>3 DEF End, StopReading, ReadAgain, TypeOK
  <2>4. ASSUME Exit
        PROVE  /\ ended' = served /\ deaf' = {} /\ going' = {}
               /\ UNCHANGED <<submits, reports>>
    BY <2>4 DEF Exit
  <2>5. QED
    BY <2>1, <2>2, <2>3, <2>4 DEF TypeOK, ReportInv
<1>5. TypeOK'
  BY <1>1, <1>3, <1>4 DEF TypeOK, lisVars
<1>6. QED
  BY <1>2, <1>3, <1>4, <1>5

\* A submit gets the number its place on the connection gives it.
LEMMA SubmitStep ==
  ASSUME IInv, NEW c \in Clients, Submit(c)
  PROVE  IInv'
<1> DEFINE len == Len(submits)
           R == [c : served, time : Clock, dests : Dests, msgID : Ids]
<1>1. TypeOK /\ c \in served /\ UNCHANGED <<lisVars, spId, start, ended, deaf>>
  BY DEF IInv, Submit
<1>2. PICK t \in Clock, d \in Dests :
        submits' = Append(submits, [c |-> c, time |-> t, dests |-> d,
                                    msgID |-> GenMsgID(spId, t, next[c])])
  BY DEF Submit
<1> DEFINE s == [c |-> c, time |-> t, dests |-> d, msgID |-> GenMsgID(spId, t, next[c])]
<1>3. next[c] \in SixDigits /\ spId \in SixDigits /\ t \in [1..4 -> 0..99]
  BY <1>1, GatewayAssumption DEF TypeOK
<1>4. GenMsgID(spId, t, next[c]) \in Ids
  BY <1>3, IdBytes
<1>5. s \in R /\ submits \in Seq(R)
  BY <1>1, <1>4 DEF TypeOK
<1>6. s.c = c /\ s.time = t /\ s.msgID = GenMsgID(spId, t, next[c])
  OBVIOUS
<1>7. submits' = Append(submits, s)
  BY <1>2
<1> HIDE DEF s, R
<1>8. /\ submits' \in Seq(R) /\ Len(submits') = len + 1 /\ submits'[len + 1] = s
      /\ \A k \in 1..len : submits'[k] = submits[k]
      /\ len \in Nat
  BY <1>5, <1>7, AppendProperties
<1>9. /\ next' = [next EXCEPT ![c] = Bump(@)] /\ going' = going \cup {len + 1}
      /\ reports' = Append(reports, << >>) /\ len < MaxSubmits
  BY <1>8 DEF Submit
<1> HIDE DEF len
<1>10. /\ Len(reports) = len /\ reports' \in Seq(Seq(Ids)) /\ Len(reports') = len + 1
       /\ reports'[len + 1] = << >> /\ \A k \in 1..len : reports'[k] = reports[k]
  <2>1. reports \in Seq(Seq(Ids)) /\ Len(reports) = len /\ << >> \in Seq(Ids)
    BY <1>1 DEF TypeOK, len
  <2>2. QED
    BY <2>1, <1>9, AppendProperties
<1>11. QueueInv' /\ ListenerTypes' /\ served' = served
  BY <1>1 DEF lisVars, IInv, QueueInv, TypeOK, ListenerTypes
<1>12. /\ Mine(c)' = Mine(c) \cup {len + 1} /\ len + 1 \notin Mine(c)
       /\ \A e \in Clients \ {c} : Mine(e)' = Mine(e)
  BY <1>6, <1>8 DEF Mine, len
<1>13. next[c] = (start[c] + Cardinality(Mine(c))) % NumMod /\ start[c] \in Nat
  BY <1>1, SixDigitNumbers DEF IInv, NextInv, TypeOK
<1>14. NextInv' /\ next'[c] \in SixDigits
  <2>1. /\ IsFiniteSet(Mine(c)) /\ Cardinality(Mine(c)) \in Nat
        /\ Cardinality(Mine(c)') = Cardinality(Mine(c)) + 1
    <3>1. IsFiniteSet(Mine(c)) /\ Cardinality(Mine(c)) \in Nat
      BY <1>1, MineCounted
    <3>2. Cardinality(Mine(c) \cup {len + 1}) = Cardinality(Mine(c)) + 1
      BY <3>1, <1>12, FS_AddElement
    <3>3. QED
      BY <3>1, <3>2, <1>12
  <2>2. next'[c] = Bump(next[c])
    BY <1>1, <1>9 DEF TypeOK
  <2>3. /\ next'[c] = (start[c] + (Cardinality(Mine(c)) + 1)) % NumMod
        /\ next'[c] \in SixDigits
    BY <2>1, <2>2, <1>13, NextNumber
  <2>4. ASSUME NEW e \in Clients, e # c
        PROVE  next'[e] = (start[e] + Cardinality(Mine(e)')) % NumMod
    <3>1. next'[e] = next[e] /\ Mine(e)' = Mine(e)
      BY <1>1, <1>9, <1>12, <2>4 DEF TypeOK
    <3>2. QED
      BY <3>1 DEF IInv, NextInv
  <2>5. ASSUME NEW e \in Clients
        PROVE  next'[e] = (start'[e] + Cardinality(Mine(e)')) % NumMod
    <3>1. start' = start
      BY <1>1
    <3>2. CASE e = c
      BY <3>1, <3>2, <2>1, <2>3
    <3>3. CASE e # c
      BY <3>1, <3>3, <2>4
    <3>4. QED
      BY <3>2, <3>3
  <2>6. QED
    BY <2>3, <2>5 DEF NextInv
<1>15. TypeOK'
  <2>1. next' \in [Clients -> SixDigits]
    BY <1>1, <1>9, <1>14 DEF TypeOK
  <2>2. going' \subseteq 1..(len + 1)
    <3>1. going \subseteq 1..len
      BY <1>1 DEF TypeOK, len
    <3>2. QED
      BY <1>8, <1>9, <3>1
  <2>3. submits' \in Seq([c : served', time : Clock, dests : Dests, msgID : Ids])
    BY <1>8, <1>11 DEF R
  <2>4. QED
    BY <1>1, <1>8, <1>10, <1>11, <2>1, <2>2, <2>3 DEF TypeOK
<1>16. SubmitInv'
  <2>1. ASSUME NEW k \in 1..len
        PROVE  submits'[k].msgID = GenMsgID(spId', submits'[k].time, Number(k)')
    <3>1. Before(k)' = Before(k) /\ submits'[k] = submits[k]
      BY <1>8 DEF Before
    <3>2. Number(k)' = Number(k) /\ spId' = spId
      BY <1>1, <3>1 DEF Number
    <3>3. submits[k].msgID = GenMsgID(spId, submits[k].time, Number(k))
      BY DEF IInv, SubmitInv, len
    <3>4. QED
      BY <3>1, <3>2, <3>3
  <2>2. ASSUME NEW k \in 1..(len + 1), k = len + 1
        PROVE  submits'[k].msgID = GenMsgID(spId', submits'[k].time, Number(k)')
    <3>1. submits'[k] = s /\ k - 1 = len
      BY <1>8, <2>2
    <3>2. \A j \in 1..len : submits'[j] = submits[j]
      BY <1>8
    <3>3. Before(k)' = Mine(c)
      BY <1>6, <3>1, <3>2 DEF Before, Mine, len
    <3>4. Number(k)' = next[c]
      BY <1>1, <1>6, <1>13, <3>1, <3>3 DEF Number
    <3>5. QED
      BY <1>1, <1>6, <3>1, <3>4
  <2>3. ASSUME NEW k \in 1..(len + 1)
        PROVE  submits'[k].msgID = GenMsgID(spId', submits'[k].time, Number(k)')
    <3>1. k \in 1..len \/ k = len + 1
      BY <1>8
    <3>2. QED
      BY <2>1, <2>2, <3>1
  <2>4. QED
    BY <1>8, <2>3 DEF SubmitInv
<1>17. ReportInv'
  <2> SUFFICES ASSUME NEW k \in 1..Len(submits')
               PROVE  \A i \in 1..Len(reports'[k]) :
                        reports'[k][i] = submits'[k].msgID
    BY DEF ReportInv
  <2>1. CASE k \in 1..len
    <3>1. reports'[k] = reports[k] /\ submits'[k] = submits[k]
      BY <1>8, <1>10, <2>1
    <3>2. \A i \in 1..Len(reports[k]) : reports[k][i] = submits[k].msgID
      BY <2>1 DEF IInv, ReportInv, len
    <3>3. QED
      BY <3>1, <3>2
  <2>2. CASE k = len + 1
    <3>1. reports'[k] = << >>
      BY <1>10, <2>2
    <3>2. QED
      BY <3>1
  <2>3. k \in 1..len \/ k = len + 1
    BY <1>8
  <2>4. QED
    BY <2>1, <2>2, <2>3
<1>18. BoundInv'
  BY <1>8, <1>9, GatewayAssumption DEF BoundInv
<1>19. QED
  BY <1>11, <1>14, <1>15, <1>16, <1>17, <1>18 DEF IInv

\* IInv holds in every reachable state.
THEOREM Invariance == Spec => []IInv
<1>1. IInv /\ [Next]_vars => IInv'
  <2> SUFFICES ASSUME IInv, [Next]_vars PROVE IInv'
    OBVIOUS
  <2>1. CASE UNCHANGED vars
    <3>1. TypeOK'
      BY <2>1 DEF vars, lisVars, conVars, IInv, TypeOK, ListenerTypes
    <3>2. QueueInv' /\ ReportInv' /\ BoundInv'
      BY <2>1 DEF vars, lisVars, conVars, IInv, QueueInv, ReportInv, BoundInv
    <3>3. NextInv'
      BY <2>1 DEF vars, lisVars, conVars, IInv, NextInv, Mine
    <3>4. SubmitInv'
      BY <2>1 DEF vars, lisVars, conVars, IInv, SubmitInv, Number, Before
    <3>5. QED
      BY <3>1, <3>2, <3>3, <3>4 DEF IInv
  <2>2. CASE Next
    BY <2>1, <2>2, LoopSteps, AcceptStep, OtherSteps, SubmitStep DEF Next, Idle
  <2>3. QED
    BY <2>1, <2>2
<1>2. QED
  BY InvInit, <1>1, PTL DEF Spec

\* Every variable keeps its type, message ids their ten bytes and the numbers
\* of the generators their six digits (connection.go:53-71, utils.go:91-99).
THEOREM TypeCorrect == Spec => []TypeOK
<1>1. IInv => TypeOK
  BY DEF IInv
<1>2. QED
  BY Invariance, <1>1, PTL

\* UnpackMsgId recovers the gateway's code, the minute and the number from the
\* id of every submit, and the number is the one that the submit's place on its
\* connection gives it (utils.go:91-109).
THEOREM IdsAreReadable == Spec => []FieldsRecovered
BY Invariance, FieldsFollow, PTL

\* A status report names its submit and no other, unless the generators of two
\* connections have come to the same number within a minute, as long as there
\* are no more submits than sequence numbers (utils.go:98, deliver.go:25-43).
THEOREM ReportsAreFound ==
  ASSUME MaxSubmits <= NumMod
  PROVE  Spec => []ReportFindsItsSubmit
<1>1. IInv => ReportFindsItsSubmit
  BY ReportsFollow
<1>2. QED
  BY Invariance, <1>1, PTL

-----------------------------------------------------------------------------
(* The waits of the accept loop.                                            *)

\* The definition of Doubled, as a fact.
IsDoubled(f) ==
  f = [k \in 0..MaxFails |-> IF k = 0 THEN FirstDelay ELSE 2 * f[k - 1]]

LEMMA DoubledExists == \E f : IsDoubled(f)
<1> DEFINE D == {n \in Nat : n >= FirstDelay}
           step == [i \in 1..MaxFails |-> [x \in D |-> 2 * x]]
<1>1. FirstDelay \in D /\ MaxFails \in Nat /\ step \in [1..MaxFails -> [D -> D]]
  BY ListenerAssumption DEF FirstDelay
<1>2. \A i \in 1..MaxFails : \A x \in D : step[i][x] = 2 * x
  OBVIOUS
<1> HIDE DEF D, step
<1>3. PICK g : Steps(g, D, FirstDelay, MaxFails, step)
  BY <1>1, Recursion
<1>4. /\ g \in [0..MaxFails -> D] /\ g[0] = FirstDelay
      /\ \A i \in 1..MaxFails : g[i] = step[i][g[i - 1]]
  BY <1>3, Zenon DEF Steps
<1>5. ASSUME NEW k \in 1..MaxFails PROVE g[k] = 2 * g[k - 1]
  <2>1. k - 1 \in 0..MaxFails
    BY <1>1
  <2>2. g[k - 1] \in D /\ g[k] = step[k][g[k - 1]]
    BY <1>4, <2>1, Zenon
  <2>3. QED
    BY <1>2, <2>2, Zenon
<1>6. ASSUME NEW k \in 0..MaxFails
      PROVE  g[k] = IF k = 0 THEN FirstDelay ELSE 2 * g[k - 1]
  BY <1>1, <1>4, <1>5
<1>7. g = [k \in 0..MaxFails |-> g[k]]
  BY <1>4
<1>8. IsDoubled(g)
  BY <1>6, <1>7 DEF IsDoubled
<1>9. QED
  BY <1>8

LEMMA Doubling ==
  /\ Doubled[0] = FirstDelay
  /\ \A k \in 1..MaxFails : Doubled[k] = 2 * Doubled[k - 1]
<1>1. Doubled = CHOOSE f : IsDoubled(f)
  BY DEF Doubled, IsDoubled
<1>2. IsDoubled(Doubled)
  BY <1>1, DoubledExists, Zenon
<1> DEFINE d == Doubled
<1> HIDE DEF d
<1>3. /\ d[0] = FirstDelay
      /\ \A k \in 1..MaxFails : d[k] = 2 * d[k - 1]
  <2>1. d = [k \in 0..MaxFails |-> IF k = 0 THEN FirstDelay ELSE 2 * d[k - 1]]
    BY <1>2, Zenon DEF IsDoubled, d
  <2>2. 0 \in 0..MaxFails /\ \A k \in 1..MaxFails : k \in 0..MaxFails /\ k # 0
    BY ListenerAssumption
  <2>3. QED
    BY <2>1, <2>2, Zenon
<1>4. QED
  BY <1>3, Zenon DEF d

LEMMA DoubledSize ==
  \A k \in 0..MaxFails : Doubled[k] \in Nat /\ Doubled[k] >= FirstDelay
<1> DEFINE d == Doubled
           S == {k \in Nat : k <= MaxFails => d[k] \in Nat /\ d[k] >= FirstDelay}
<1>1. d[0] = FirstDelay /\ \A k \in 1..MaxFails : d[k] = 2 * d[k - 1]
  BY Doubling
<1> HIDE DEF d
<1>2. 0 \in S
  BY <1>1 DEF FirstDelay
<1>3. ASSUME NEW k \in Nat, k \in S PROVE k + 1 \in S
  <2>1. SUFFICES ASSUME k + 1 <= MaxFails
                 PROVE  d[k + 1] \in Nat /\ d[k + 1] >= FirstDelay
    OBVIOUS
  <2>2. k + 1 \in 1..MaxFails /\ (k + 1) - 1 = k /\ k <= MaxFails
    BY <2>1, ListenerAssumption
  <2>3. d[k + 1] = 2 * d[k]
    BY <1>1, <2>2, Zenon
  <2>4. QED
    BY <1>3, <2>2, <2>3 DEF FirstDelay
<1>4. \A k \in Nat : k \in S
  <2> HIDE DEF S
  <2>1. QED
    BY <1>2, <1>3, SetInduction
<1>5. QED
  BY <1>4, ListenerAssumption DEF d

\* The invariant: the delay says how many failures there were.
Backoff == fails \in 0..MaxFails /\ BackoffRight

LEMMA Fails ==
  ASSUME Backoff, AcceptTemporary
  PROVE  Backoff'
<1>1. /\ fails < MaxFails /\ fails' = fails + 1 /\ fails \in 0..MaxFails
      /\ tempDelay' = LET longer == IF tempDelay = 0 THEN FirstDelay ELSE tempDelay * 2
                      IN IF longer > MaxDelay THEN MaxDelay ELSE longer
  BY DEF AcceptTemporary, Backoff
<1>2. /\ fails' \in 0..MaxFails /\ fails' # 0 /\ fails' - 1 = fails
  BY <1>1, ListenerAssumption
<1>3. tempDelay' = IF Doubled[fails] > MaxDelay THEN MaxDelay ELSE Doubled[fails]
  <2>1. CASE fails = 0
    <3>1. tempDelay = 0 /\ Doubled[0] = FirstDelay
      BY <2>1, Doubling DEF Backoff, BackoffRight
    <3>2. QED
      BY <1>1, <2>1, <3>1 DEF FirstDelay, MaxDelay
  <2>2. CASE fails # 0
    <3> DEFINE n == Doubled[fails - 1]
    <3>1. fails \in 1..MaxFails /\ fails - 1 \in 0..MaxFails
      BY <1>1, <2>2, ListenerAssumption
    <3>2. Doubled[fails] = 2 * n
      BY <3>1, Doubling, Zenon
    <3>3. n \in Nat /\ n > 0
      BY <3>1, DoubledSize DEF FirstDelay
    <3>4. tempDelay = IF n > MaxDelay THEN MaxDelay ELSE n
      BY <2>2, Zenon DEF Backoff, BackoffRight
    <3> HIDE DEF n
    <3>5. QED
      <4>1. tempDelay \in Nat /\ tempDelay # 0
        BY <3>3, <3>4 DEF MaxDelay
      <4>2. tempDelay' = IF tempDelay * 2 > MaxDelay THEN MaxDelay ELSE tempDelay * 2
        BY <1>1, <4>1, Zenon
      <4>3. CASE n > MaxDelay
        BY <3>2, <3>3, <3>4, <4>2, <4>3 DEF MaxDelay
      <4>4. CASE ~(n > MaxDelay)
        BY <3>2, <3>3, <3>4, <4>2, <4>4 DEF MaxDelay
      <4>5. QED
        BY <4>3, <4>4
  <2>3. QED
    BY <2>1, <2>2
<1>4. QED
  BY <1>2, <1>3 DEF Backoff, BackoffRight

LEMMA BackoffStep == Backoff /\ [Next]_vars => Backoff'
<1> SUFFICES ASSUME Backoff, [Next]_vars PROVE Backoff'
  OBVIOUS
<1>1. CASE AcceptTemporary
  BY <1>1, Fails
<1>2. CASE AcceptOK
  BY <1>2, ListenerAssumption DEF AcceptOK, Backoff, BackoffRight
<1>3. CASE UNCHANGED <<tempDelay, fails>>
  BY <1>3 DEF Backoff, BackoffRight
<1>4. QED
  BY <1>1, <1>2, <1>3 DEF Next, Loop, Accept, Idle, Connect, Submit, End, Report,
     StopReading, ReadAgain, Exit, DeliverReturns, Knock, Wake, AcceptFatal, vars, lisVars

\* Between failures the loop waits 5, 10, 20, ... milliseconds, at most a
\* second, however many follow each other, and starts over with the next
\* connection (server.go:70-89).
THEOREM BackoffIsRight == Spec => []BackoffRight
<1>1. Init => Backoff
  BY ListenerAssumption DEF Init, LInit, Backoff, BackoffRight
<1>2. Backoff => BackoffRight
  BY DEF Backoff
<1>3. QED
  BY <1>1, <1>2, BackoffStep, PTL DEF Spec
=============================================================================
