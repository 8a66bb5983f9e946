------------------------------ MODULE SeqFacts ------------------------------
(***************************************************************************)
(* Induction for the proofs of this project.  The library's induction      *)
(* theorems take the property to prove as an operator; here it is a set,   *)
(* so that the provers can be given it.  Then: functions defined by        *)
(* recursion on 0..n exist, and what follows for the concatenation of a    *)
(* sequence of sequences.                                                  *)
(***************************************************************************)
EXTENDS Integers, SequencesExt, WellFoundedInduction, SequenceTheorems, TLAPS

-----------------------------------------------------------------------------
(* Induction *)

LEMMA NatIsWellFounded ==
  IsWellFoundedOn({ss \in Nat \X Nat : ss[1] < ss[2]}, Nat)
BY NatLessThanWellFounded DEF OpToRel

\* A set that has 0 and with every natural number the next one has them all.
LEMMA SetInduction ==
  ASSUME NEW S, 0 \in S, \A n \in Nat : n \in S => n + 1 \in S
  PROVE  \A n \in Nat : n \in S
<1> DEFINE R == {ss \in Nat \X Nat : ss[1] < ss[2]}
           T == Nat \ S
<1>1. SUFFICES ASSUME T # {} PROVE FALSE
  OBVIOUS
<1>2. PICK x \in T : \A y \in T : ~(<<y, x>> \in R)
  <2>1. IsWellFoundedOn(R, Nat) /\ T \subseteq Nat
    BY NatIsWellFounded
  <2> HIDE DEF R, T
  <2>2. QED
    BY <1>1, <2>1, WFMin, Zenon
<1>3. x \in Nat /\ x # 0
  OBVIOUS
<1>4. x - 1 \in Nat /\ x - 1 < x
  BY <1>3
<1>5. x - 1 \notin T
  BY <1>2, <1>3, <1>4
<1>6. (x - 1) + 1 \in S
  BY <1>4, <1>5
<1>7. QED
  BY <1>3, <1>6

\* A function on 0..n given by its first value and a step to the next.
Steps(g, A, a0, n, step) ==
  /\ g \in [0..n -> A] /\ g[0] = a0
  /\ \A i \in 1..n : g[i] = step[i][g[i - 1]]
LEMMA Recursion ==
  ASSUME NEW A, NEW a0 \in A, NEW n \in Nat, NEW step \in [1..n -> [A -> A]]
  PROVE  \E g : Steps(g, A, a0, n, step)
<1> DEFINE Upto(g, m) == /\ g \in [0..m -> A] /\ g[0] = a0
                         /\ \A i \in 1..m : g[i] = step[i][g[i - 1]]
           S == {m \in Nat : m <= n => \E g : Upto(g, m)}
<1>1. 0 \in S
  <2> DEFINE g == [i \in 0..0 |-> a0]
  <2>1. Upto(g, 0)
    OBVIOUS
  <2>2. \E h : Upto(h, 0)
    <3> HIDE DEF Upto, g
    <3>1. QED
      BY <2>1, Zenon
  <2> HIDE DEF Upto
  <2>3. QED
    BY <2>2
<1>2. ASSUME NEW m \in Nat, m \in S PROVE m + 1 \in S
  <2>1. SUFFICES ASSUME m + 1 <= n PROVE \E h : Upto(h, m + 1)
    <3> HIDE DEF Upto
    <3>1. QED
      OBVIOUS
  <2>2. PICK g : Upto(g, m)
    <3> HIDE DEF Upto
    <3>1. QED
      BY <1>2, <2>1
  <2> DEFINE h == [i \in 0..(m + 1) |-> IF i <= m THEN g[i] ELSE step[m + 1][g[m]]]
  <2>3. Upto(h, m + 1)
    <3>1. g \in [0..m -> A] /\ g[0] = a0
          /\ \A i \in 1..m : g[i] = step[i][g[i - 1]]
      BY <2>2
    <3>2. g[m] \in A /\ m + 1 \in 1..n
      BY <2>1, <3>1
    <3>3. step[m + 1][g[m]] \in A
      BY <3>2
    <3>4. h \in [0..(m + 1) -> A] /\ h[0] = a0
      BY <3>1, <3>3
    <3>5. ASSUME NEW i \in 1..(m + 1) PROVE h[i] = step[i][h[i - 1]]
      <4>1. h[i - 1] = g[i - 1]
        BY <3>1
      <4>2. CASE i = m + 1
        BY <4>1, <4>2
      <4>3. CASE i \in 1..m
        BY <3>1, <4>1, <4>3
      <4>4. QED
        BY <4>2, <4>3
    <3>6. QED
      BY <3>4, <3>5
  <2>4. QED
    <3> HIDE DEF Upto, h
    <3>1. QED
      BY <2>3, Zenon
<1> HIDE DEF S
<1>3. n \in S
  BY <1>1, <1>2, SetInduction
<1>4. \E g : Upto(g, n)
  <2> HIDE DEF Upto
  <2>1. QED
    BY <1>3 DEF S
<1>5. QED
  BY <1>4 DEF Steps

-----------------------------------------------------------------------------
(* Concatenation *)

LEMMA Concat ==
  ASSUME NEW U, NEW r \in Seq(U), NEW s \in Seq(U)
  PROVE  /\ r \o s \in Seq(U) /\ Len(r \o s) = Len(r) + Len(s)
         /\ << >> \o s = s /\ s \o << >> = s
OBVIOUS

LEMMA Assoc ==
  ASSUME NEW U, NEW r \in Seq(U), NEW s \in Seq(U), NEW t \in Seq(U)
  PROVE  (r \o s) \o t = r \o (s \o t)
OBVIOUS

LEMMA LenConcat ==
  ASSUME NEW U, NEW s \in Seq(U), NEW t \in Seq(U)
  PROVE  Len(s \o t) = Len(s) + Len(t)
OBVIOUS

\* The head of t moved behind s: the two make the same sequence.
LEMMA MoveHead ==
  ASSUME NEW U, NEW s \in Seq(U), NEW t \in Seq(U), t # << >>
  PROVE  /\ Append(s, Head(t)) \o Tail(t) = s \o t
         /\ Append(s, Head(t)) \in Seq(U) /\ Tail(t) \in Seq(U)
OBVIOUS

\* The same before a third sequence.
LEMMA MoveHeadBefore ==
  ASSUME NEW U, NEW r \in Seq(U), NEW s \in Seq(U), s # << >>, NEW t \in Seq(U)
  PROVE  Append(r, Head(s)) \o (Tail(s) \o t) = r \o (s \o t)
<1> DEFINE a == Append(r, Head(s))
           b == Tail(s)
<1>1. a \in Seq(U) /\ b \in Seq(U)
  BY MoveHead
<1>2. a \o b = r \o s
  BY MoveHead
<1> HIDE DEF a, b
<1>3. (a \o b) \o t = a \o (b \o t)
  BY <1>1, Assoc, SMTT(30)
<1>4. (r \o s) \o t = r \o (s \o t)
  BY Assoc
<1>5. a \o (b \o t) = r \o (s \o t)
  BY <1>2, <1>3, <1>4, Zenon
<1>6. QED
  BY <1>5 DEF a, b

LEMMA ConcatParts ==
  ASSUME NEW U, NEW s \in Seq(U), NEW t \in Seq(U)
  PROVE  /\ \A i \in 1..Len(s) : (s \o t)[i] = s[i]
         /\ \A i \in 1..Len(t) : (s \o t)[Len(s) + i] = t[i]
OBVIOUS

SameConcat(a, b, s, t) == a \o b = s \o t

\* Two concatenations are equal, and so are the lengths of their first parts.
LEMMA Cancel ==
  ASSUME NEW U, NEW a \in Seq(U), NEW b \in Seq(U), NEW s \in Seq(U),
         NEW t \in Seq(U), SameConcat(a, b, s, t), Len(a) = Len(s)
  PROVE  b = t
<1>1. Len(b) = Len(t)
  <2>1. Len(a \o b) = Len(a) + Len(b)
    BY LenConcat, Zenon
  <2>2. Len(s \o t) = Len(s) + Len(t)
    BY LenConcat, Zenon
  <2>3. Len(a \o b) = Len(s \o t)
    BY Zenon DEF SameConcat
  <2>4. QED
    BY <2>1, <2>2, <2>3
<1>2. ASSUME NEW i \in 1..Len(b) PROVE b[i] = t[i]
  <2>1. \A j \in 1..Len(b) : (a \o b)[Len(a) + j] = b[j]
    BY ConcatParts
  <2>2. \A j \in 1..Len(t) : (s \o t)[Len(s) + j] = t[j]
    BY ConcatParts
  <2>3. i \in 1..Len(t)
    BY <1>1
  <2>4. (a \o b)[Len(a) + i] = (s \o t)[Len(s) + i]
    BY Zenon DEF SameConcat
  <2>5. QED
    BY <2>1, <2>2, <2>3, <2>4, Zenon
<1>3. QED
  BY <1>1, <1>2, SeqEqual

\* What sequences over a set have of a monoid.
Monoid(X) ==
  /\ << >> \in X
  /\ \A s \in X : << >> \o s = s /\ s \o << >> = s
  /\ \A s, t \in X : s \o t \in X
  /\ \A r, s, t \in X : (r \o s) \o t = r \o (s \o t)

LEMMA SeqMonoid == \A U : Monoid(Seq(U))
BY Concat, Assoc DEF Monoid

\* The function FlattenSeq is defined with: concatenations from the left.
FromLeft(g, seqs, n) ==
  g = [i \in 1..n |-> IF i = 1 THEN seqs[i] ELSE g[i - 1] \o seqs[i]]

LEMMA FromLeftExists ==
  ASSUME NEW X, Monoid(X), NEW n \in Nat, NEW seqs, \A i \in 1..n : seqs[i] \in X
  PROVE  \E g : FromLeft(g, seqs, n)
<1> DEFINE step == [i \in 1..n |-> [x \in X |-> x \o seqs[i]]]
           e == << >>
<1>1. step \in [1..n -> [X -> X]] /\ e \in X
  BY DEF Monoid
<1>2. \A i \in 1..n : \A x \in X : step[i][x] = x \o seqs[i]
  OBVIOUS
<1> HIDE DEF step
<1>3. PICK h : Steps(h, X, e, n, step)
  <2> HIDE DEF e
  <2>1. QED
    BY <1>1, Recursion
<1>4. h[0] = << >> /\ \A i \in 1..n : h[i] = h[i - 1] \o seqs[i]
  <2>1. h[0] = << >> /\ \A i \in 0..n : h[i] \in X
    BY <1>3 DEF Steps
  <2>2. ASSUME NEW i \in 1..n PROVE h[i] = h[i - 1] \o seqs[i]
    <3>1. i - 1 \in 0..n
      OBVIOUS
    <3>2. h[i] = step[i][h[i - 1]]
      BY <1>3, Zenon DEF Steps
    <3>3. QED
      BY <1>2, <2>1, <3>1, <3>2, Zenon
  <2>3. QED
    BY <2>1, <2>2
<1> DEFINE g == [i \in 1..n |-> h[i]]
<1>5. ASSUME NEW i \in 1..n
      PROVE  g[i] = IF i = 1 THEN seqs[i] ELSE g[i - 1] \o seqs[i]
  <2>1. CASE i = 1
    <3>1. i - 1 = 0
      BY <2>1
    <3>2. h[i] = h[i - 1] \o seqs[i]
      BY <1>4, Zenon
    <3>3. << >> \o seqs[i] = seqs[i]
      BY Zenon DEF Monoid
    <3>4. h[i] = seqs[i]
      BY <1>4, <3>1, <3>2, <3>3, Zenon
    <3>5. QED
      BY <2>1, <3>4, Zenon
  <2>2. CASE i # 1
    <3>1. i - 1 \in 1..n
      BY <2>2
    <3>2. h[i] = h[i - 1] \o seqs[i] /\ g[i - 1] = h[i - 1]
      BY <1>4, <3>1, Zenon
    <3>3. QED
      BY <2>2, <3>2, Zenon
  <2>3. QED
    BY <2>1, <2>2
<1>6. FromLeft(g, seqs, n)
  BY <1>5 DEF FromLeft
<1>7. QED
  <2> HIDE DEF g
  <2>1. QED
    BY <1>6, Zenon

\* What is left to be put behind the first i sequences.
Rest(rest, X, seqs, n) ==
  /\ rest[n] = << >>
  /\ \A i \in 0..n : rest[i] \in X
  /\ \A i \in 1..n : rest[i - 1] = seqs[i] \o rest[i]

LEMMA RestExists ==
  ASSUME NEW X, Monoid(X), NEW n \in Nat, NEW seqs, \A i \in 1..n : seqs[i] \in X
  PROVE  \E rest : Rest(rest, X, seqs, n)
<1> DEFINE step == [j \in 1..n |-> [x \in X |-> seqs[n + 1 - j] \o x]]
           e == << >>
<1>1. step \in [1..n -> [X -> X]] /\ e \in X
  <2>1. \A j \in 1..n : n + 1 - j \in 1..n
    OBVIOUS
  <2>2. QED
    BY <2>1, Zenon DEF Monoid
<1>2. \A j \in 1..n : \A x \in X : step[j][x] = seqs[n + 1 - j] \o x
  OBVIOUS
<1> HIDE DEF step
<1>3. PICK h : Steps(h, X, e, n, step)
  <2> HIDE DEF e
  <2>1. QED
    BY <1>1, Recursion
<1> DEFINE rest == [i \in 0..n |-> h[n - i]]
<1>4. \A i \in 0..n : n - i \in 0..n
  OBVIOUS
<1>5. \A i \in 0..n : rest[i] \in X
  BY <1>3, <1>4, Zenon DEF Steps
<1>6. rest[n] = << >>
  <2>1. n - n = 0 /\ n \in 0..n
    OBVIOUS
  <2>2. QED
    BY <1>3, <2>1, Zenon DEF Steps
<1>7. ASSUME NEW i \in 1..n PROVE rest[i - 1] = seqs[i] \o rest[i]
  <2>1. /\ n + 1 - i \in 1..n /\ n + 1 - (n + 1 - i) = i
        /\ (n + 1 - i) - 1 = n - i /\ n - (i - 1) = n + 1 - i
        /\ i \in 0..n /\ i - 1 \in 0..n /\ n - i \in 0..n
    OBVIOUS
  <2>2. h[n + 1 - i] = step[n + 1 - i][h[n - i]] /\ h[n - i] \in X
    BY <1>3, <2>1, Zenon DEF Steps
  <2>3. h[n + 1 - i] = seqs[i] \o h[n - i]
    BY <1>2, <2>1, <2>2, Zenon
  <2>4. QED
    BY <2>1, <2>3, Zenon
<1>8. Rest(rest, X, seqs, n)
  BY <1>5, <1>6, <1>7, Zenon DEF Rest
<1>9. QED
  <2> HIDE DEF rest
  <2>1. QED
    BY <1>8, Zenon

LEMMA FromLeftIsRest ==
  ASSUME NEW X, Monoid(X), NEW n \in Nat, n > 0,
         NEW seqs, \A i \in 1..n : seqs[i] \in X,
         NEW rest, Rest(rest, X, seqs, n),
         NEW f, FromLeft(f, seqs, n)
  PROVE  f[n] = rest[0]
<1> DEFINE Good(m) == f[m] \in X /\ f[m] \o rest[m] = rest[0]
           S == {m \in Nat : m + 1 <= n => Good(m + 1)}
<1>1. Good(1)
  <2>1. 1 \in 1..n /\ 1 - 1 = 0
    OBVIOUS
  <2>2. f[1] = seqs[1]
    BY <2>1, Zenon DEF FromLeft
  <2>3. rest[0] = seqs[1] \o rest[1]
    BY <2>1, Zenon DEF Rest
  <2>4. QED
    BY <2>1, <2>2, <2>3, Zenon
<1>2. ASSUME NEW m \in 1..n, m + 1 <= n, Good(m) PROVE Good(m + 1)
  <2>1. m + 1 \in 1..n /\ (m + 1) - 1 = m /\ m + 1 # 1 /\ m + 1 \in 0..n
    BY <1>2
  <2>2. f[m + 1] = f[m] \o seqs[m + 1]
    BY <2>1, Zenon DEF FromLeft
  <2>3. rest[m] = seqs[m + 1] \o rest[m + 1]
    BY <2>1, Zenon DEF Rest
  <2>4. seqs[m + 1] \in X /\ rest[m + 1] \in X /\ f[m] \in X
    BY <1>2, <2>1, Zenon DEF Rest
  <2>5. f[m + 1] \in X
    BY <2>2, <2>4, ZenonT(40) DEF Monoid
  <2>6. (f[m] \o seqs[m + 1]) \o rest[m + 1]
          = f[m] \o (seqs[m + 1] \o rest[m + 1])
    BY <2>4, ZenonT(40) DEF Monoid
  <2>7. QED
    BY <1>2, <2>2, <2>3, <2>5, <2>6, Zenon
<1> HIDE DEF Good
<1>3. 0 \in S
  BY <1>1
<1>4. ASSUME NEW m \in Nat, m \in S PROVE m + 1 \in S
  <2>1. ASSUME (m + 1) + 1 <= n PROVE Good((m + 1) + 1)
    BY <1>2, <1>4, <2>1
  <2>2. QED
    BY <2>1
<1>5. n - 1 \in S
  <2> HIDE DEF S
  <2>1. QED
    BY <1>3, <1>4, SetInduction
<1>6. Good(n)
  <2>1. (n - 1) + 1 = n
    OBVIOUS
  <2>2. QED
    BY <1>5, <2>1
<1>7. QED
  BY <1>6, Zenon DEF Good, Monoid, Rest

\* FlattenSeq is what is left when its sequences are put before one another
\* from the last to the first: rest[i] is the concatenation of those after i.
LEMMA Flattened ==
  ASSUME NEW U, NEW n \in Nat, n > 0, NEW seqs, Len(seqs) = n,
         \A i \in 1..n : seqs[i] \in Seq(U),
         NEW rest, Rest(rest, Seq(U), seqs, n)
  PROVE  FlattenSeq(seqs) = rest[0]
<1> DEFINE X == Seq(U)
           f == CHOOSE g : FromLeft(g, seqs, n)
<1>1. FlattenSeq(seqs) = f[n]
  BY DEF FlattenSeq, FromLeft
<1>2. Monoid(X) /\ Rest(rest, X, seqs, n) /\ \A i \in 1..n : seqs[i] \in X
  BY SeqMonoid
<1> HIDE DEF X
<1>3. FromLeft(f, seqs, n)
  BY <1>2, FromLeftExists, Zenon
<1> HIDE DEF f
<1>4. QED
  BY <1>1, <1>2, <1>3, FromLeftIsRest
=============================================================================
