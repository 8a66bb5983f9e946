-------------------------- MODULE BufferPoolProofs --------------------------
(***************************************************************************)
(* Proofs about module BufferPool: for any number of connections, buffers  *)
(* and packets a buffer has one user at a time, and what Unpack copied out *)
(* of it is what came in.                                                  *)
(***************************************************************************)
EXTENDS BufferPool, TLAPS

-----------------------------------------------------------------------------
(* The inductive invariant: the properties, and where the bytes of the      *)
(* packet that came in last are until the handler has them.                 *)

Kept ==
  \A c \in Conns :
    /\ bpc[c] = "unpack" => content[rb[c]] = arrived[c]
    /\ bpc[c] \in {"put", "handle"} /\ pkt[c] # NoPkt =>
         pkt[c].copied = arrived[c]
    /\ bpc[c] = "handle" => pkt[c] # NoPkt

IInv == TypeOK /\ Exclusive /\ Kept

PktType(n) == [copied : 0..n, options : Bufs \cup {NoBuf}]

-----------------------------------------------------------------------------
\* A step of one connection leaves the others where they are.
LEMMA Others ==
  ASSUME TypeOK, NEW c \in Conns, ConnStep(c), NEW d \in Conns, d # c
  PROVE  /\ bpc'[d] = bpc[d] /\ rb'[d] = rb[d] /\ arrived'[d] = arrived[d]
         /\ pkt'[d] = pkt[d]
BY DEF TypeOK, ConnStep, Get, Fill, Fail, Unpack, Refuse, Put, Done, Moves

\* A bound that grows admits what it admitted.
LEMMA BoundGrows ==
  ASSUME NEW n \in Nat
  PROVE  0..n \subseteq 0..(n + 1)
OBVIOUS

LEMMA TypeStep == TypeOK /\ Exclusive /\ [Next]_vars => TypeOK'
<1> SUFFICES ASSUME TypeOK, Exclusive, [Next]_vars
             PROVE  TypeOK'
  OBVIOUS
<1> USE DEF TypeOK, Moves
<1>1. ASSUME NEW c \in Conns, Get(c)
      PROVE  TypeOK'
  <2>1. PICK b \in pool \cup fresh :
          /\ rb' = [rb EXCEPT ![c] = b]
          /\ pool' = pool \ {b} /\ fresh' = fresh \ {b}
    BY <1>1 DEF Get
  <2>2. b \in Bufs /\ b # NoBuf
    BY <2>1, PoolAssumption
  <2>3. /\ bpc[c] = "idle" /\ bpc' = [bpc EXCEPT ![c] = "fill"]
        /\ UNCHANGED <<content, arrived, pkt, count>>
    BY <1>1 DEF Get
  <2>4. \A d \in Conns : rb'[d] = NoBuf <=> bpc'[d] \in {"idle", "handle"}
    BY <2>1, <2>2, <2>3
  <2>5. QED
    BY <2>1, <2>2, <2>3, <2>4
<1>2. ASSUME NEW c \in Conns, Fill(c)
      PROVE  TypeOK'
  <2>1. rb[c] \in Bufs /\ count' = count + 1 /\ count' \in Nat
    BY <1>2 DEF Fill
  <2>2. content' \in [Bufs -> 0..count'] /\ arrived' \in [Conns -> 0..count']
    BY <1>2, <2>1 DEF Fill
  <2>3. pkt' \in [Conns -> [copied : 0..count', options : Bufs \cup {NoBuf}]]
    BY <1>2, <2>1, BoundGrows DEF Fill
  <2>4. QED
    BY <1>2, <2>1, <2>2, <2>3 DEF Fill
<1>3. ASSUME NEW c \in Conns, Fail(c)
      PROVE  TypeOK'
  <2>1. NoPkt \in PktType(count)
    BY DEF NoPkt, PktType
  <2>2. content' \in [Bufs -> 0..count]
    BY <1>3 DEF Fail
  <2>3. QED
    BY <1>3, <2>1, <2>2 DEF Fail, PktType
<1>4. ASSUME NEW c \in Conns, Unpack(c)
      PROVE  TypeOK'
  <2>1. [copied |-> content[rb[c]], options |-> rb[c]] \in PktType(count)
    BY <1>4 DEF Unpack, PktType
  <2>2. QED
    BY <1>4, <2>1 DEF Unpack, PktType
<1>5. ASSUME NEW c \in Conns, Put(c)
      PROVE  TypeOK'
  <2>1. rb[c] \in Bufs /\ rb[c] \notin pool \cup fresh
    BY <1>5 DEF Put, Exclusive
  <2>2. QED
    BY <1>5, <2>1 DEF Put
<1>6. ASSUME NEW c \in Conns, Refuse(c) \/ Done(c)
      PROVE  TypeOK'
  <2>1. NoPkt \in PktType(count)
    BY DEF NoPkt, PktType
  <2>2. QED
    BY <1>6, <2>1 DEF Refuse, Done, PktType
<1>7. ASSUME NEW b \in Bufs, Collect(b)
      PROVE  TypeOK'
  BY <1>7 DEF Collect
<1>8. CASE UNCHANGED vars
  BY <1>8 DEF vars
<1>9. QED
  BY <1>1, <1>2, <1>3, <1>4, <1>5, <1>6, <1>7, <1>8
  DEF Next, ConnStep, Spent

\* Get takes a buffer nobody has, and only the owner gives it back.
LEMMA ExclusiveStep == TypeOK /\ Exclusive /\ [Next]_vars => Exclusive'
<1> SUFFICES ASSUME TypeOK, Exclusive, [Next]_vars
             PROVE  Exclusive'
  OBVIOUS
<1>1. ASSUME NEW c \in Conns, Get(c)
      PROVE  Exclusive'
  <2>1. PICK b \in pool \cup fresh :
          /\ rb' = [rb EXCEPT ![c] = b]
          /\ pool' = pool \ {b} /\ fresh' = fresh \ {b}
    BY <1>1 DEF Get
  <2>2. b \in Bufs /\ b # NoBuf
    BY <2>1, PoolAssumption DEF TypeOK
  <2>3. QED
    BY <2>1, <2>2 DEF TypeOK, Exclusive
<1>2. ASSUME NEW c \in Conns, Fill(c) \/ Fail(c) \/ Unpack(c) \/ Refuse(c) \/ Done(c)
      PROVE  Exclusive'
  BY <1>2 DEF Exclusive, Fill, Fail, Unpack, Refuse, Done
<1>3. ASSUME NEW c \in Conns, Put(c)
      PROVE  Exclusive'
  <2>1. rb' = [rb EXCEPT ![c] = NoBuf] /\ rb[c] # NoBuf
    BY <1>3 DEF Put, Moves, TypeOK
  <2>2. pool' = pool \cup {rb[c]} /\ fresh' = fresh
    BY <1>3 DEF Put
  <2>3. QED
    BY <2>1, <2>2 DEF TypeOK, Exclusive
<1>4. ASSUME NEW b \in Bufs, Collect(b)
      PROVE  Exclusive'
  BY <1>4 DEF Exclusive, Collect
<1>5. CASE UNCHANGED vars
  BY <1>5 DEF vars, Exclusive
<1>6. QED
  BY <1>1, <1>2, <1>3, <1>4, <1>5 DEF Next, ConnStep, Spent

\* Nobody but its owner writes to a buffer that is being unpacked.
LEMMA KeptStep == TypeOK /\ Exclusive /\ Kept /\ [Next]_vars => Kept'
<1> SUFFICES ASSUME TypeOK, Exclusive, Kept, [Next]_vars
             PROVE  Kept'
  OBVIOUS
<1>1. ASSUME NEW c \in Conns, ConnStep(c)
      PROVE  Kept'
  <2>1. ASSUME NEW d \in Conns, d # c
        PROVE  bpc[d] = "unpack" => content'[rb[d]] = content[rb[d]]
    <3>1. ASSUME Fill(c) \/ Fail(c), bpc[d] = "unpack"
          PROVE  rb[d] # rb[c]
      BY <2>1, <3>1 DEF TypeOK, Exclusive, Fill, Fail, Moves
    <3>2. QED
      BY <1>1, <3>1 DEF TypeOK, ConnStep, Get, Fill, Fail, Unpack, Refuse, Put, Done
  <2>2. ASSUME NEW d \in Conns, d # c
        PROVE  /\ bpc'[d] = "unpack" => content'[rb'[d]] = arrived'[d]
               /\ bpc'[d] \in {"put", "handle"} /\ pkt'[d] # NoPkt =>
                    pkt'[d].copied = arrived'[d]
               /\ bpc'[d] = "handle" => pkt'[d] # NoPkt
    BY <1>1, <2>1, <2>2, Others DEF Kept
  <2>3. CASE Get(c)
    BY <2>2, <2>3 DEF TypeOK, Kept, Get, Moves
  <2>4. CASE Fill(c)
    BY <2>2, <2>4 DEF TypeOK, Kept, Fill, Moves
  <2>5. CASE Fail(c)
    BY <2>2, <2>5 DEF TypeOK, Kept, Fail, Moves
  <2>6. CASE Unpack(c)
    <3>1. /\ bpc'[c] = "put" /\ arrived'[c] = arrived[c]
          /\ pkt'[c] = [copied |-> content[rb[c]], options |-> rb[c]]
          /\ content[rb[c]] = arrived[c]
      BY <2>6 DEF TypeOK, Kept, Unpack, Moves
    <3>2. QED
      BY <2>2, <3>1 DEF Kept
  <2>7. CASE Put(c)
    <3>1. /\ bpc[c] = "put" /\ arrived' = arrived /\ pkt' = pkt
          /\ bpc'[c] = (IF pkt[c] = NoPkt THEN "idle" ELSE "handle")
      BY <2>7 DEF TypeOK, Put, Moves
    <3>2. QED
      BY <2>2, <3>1 DEF Kept
  <2>8. CASE Done(c)
    BY <2>2, <2>8 DEF TypeOK, Kept, Done, Moves
  <2>9. CASE Refuse(c)
    BY <2>2, <2>9 DEF TypeOK, Kept, Refuse, Moves
  <2>10. QED
    BY <1>1, <2>3, <2>4, <2>5, <2>6, <2>7, <2>8, <2>9 DEF ConnStep
<1>2. ASSUME NEW b \in Bufs, Collect(b)
      PROVE  Kept'
  BY <1>2 DEF Kept, Collect
<1>3. CASE UNCHANGED vars
  BY <1>3 DEF vars, Kept
<1>4. QED
  BY <1>1, <1>2, <1>3 DEF Next, Spent

LEMMA InvInit == Init => IInv
BY PoolAssumption DEF Init, IInv, TypeOK, Exclusive, Kept, NoPkt

LEMMA InvStep == IInv /\ [Next]_vars => IInv'
BY TypeStep, ExclusiveStep, KeptStep DEF IInv

-----------------------------------------------------------------------------
(* The theorems.                                                            *)

\* The strengthened invariant holds in every behaviour.
THEOREM Invariance == Spec => []IInv
BY InvInit, InvStep, PTL DEF Spec

\* The variables keep their types: in particular the pool holds allocated
\* buffers only, and a call has a buffer exactly while it is under way.
THEOREM TypeCorrect == Spec => []TypeOK
<1>1. IInv => TypeOK
  BY DEF IInv
<1>2. QED
  BY <1>1, Invariance, PTL

\* A buffer has one user at a time (connection.go:142-146).
THEOREM OneUser == Spec => []Exclusive
<1>1. IInv => Exclusive
  BY DEF IInv
<1>2. QED
  BY <1>1, Invariance, PTL

\* The copied fields a handler sees are those that came in on its connection
\* (connection.go:217-226).
THEOREM CopiesSurvive == Spec => []CopiesIntact
<1>1. IInv => CopiesIntact
  BY DEF IInv, Kept, CopiesIntact
<1>2. QED
  BY <1>1, Invariance, PTL
=============================================================================
