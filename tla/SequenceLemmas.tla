--------------------------- MODULE SequenceLemmas ---------------------------
(***************************************************************************)
(* Facts about numbers, sequences and folds that the proofs about Tcp and  *)
(* DiskSelection share.                                                    *)
(***************************************************************************)
EXTENDS Integers, Sequences, FiniteSetsExt, WellFoundedInduction,
        SequenceTheorems, TLAPS

\* A non-empty set of natural numbers has a least element.
LEMMA LeastExists ==
    ASSUME NEW T, T \subseteq Nat, T # {}
    PROVE  \E x \in T : \A y \in T : x <= y
  <1> DEFINE R == OpToRel(<, Nat)
  <1>1. IsWellFoundedOn(R, Nat)
    BY NatLessThanWellFounded
  <1>2. \A x, y \in Nat : x < y => <<x, y>> \in R
    BY DEF OpToRel
  <1> HIDE DEF R
  <1>3. \E x \in T : \A y \in T : ~(<<y, x>> \in R)
    BY <1>1, WFMin
  <1>4. PICK x \in T : \A y \in T : ~(<<y, x>> \in R)
    BY <1>3
  <1>5. \A y \in T : ~(y < x)
    BY <1>2, <1>4
  <1>6. QED
    BY <1>5

\* Induction, for a set: one that holds 0 and the successor of each member
\* holds every number.
LEMMA SetInduction ==
    ASSUME NEW T, 0 \in T, \A n \in Nat : n \in T => n + 1 \in T
    PROVE  Nat \subseteq T
  <1> DEFINE Out == Nat \ T
             R == OpToRel(<, Nat)
  <1>1. SUFFICES ASSUME Out # {} PROVE FALSE
    OBVIOUS
  <1>2. PICK x \in Out : \A y \in Out : <<y, x>> \notin R
    <2>1. IsWellFoundedOn(R, Nat)
      BY NatLessThanWellFounded
    <2> HIDE DEF R
    <2>2. QED
      BY <1>1, <2>1, WFMin
  <1>3. x # 0 /\ x \in Nat
    BY <1>2
  <1>4. x - 1 \in Nat /\ x - 1 < x
    BY <1>3
  <1>5. <<x - 1, x>> \in R
    BY <1>3, <1>4 DEF OpToRel
  <1> HIDE DEF R
  <1>6. x - 1 \in T => x \in T
    BY <1>3, <1>4
  <1>7. QED
    BY <1>2, <1>4, <1>5, <1>6

\* Max of a set of positions is its largest member.
LEMMA MaxExists ==
    ASSUME NEW n \in Nat, NEW s \in SUBSET (1 .. n), s # {}
    PROVE  Max(s) \in s /\ \A y \in s : Max(s) >= y
  <1> DEFINE Has(t) == \E x \in t : \A y \in t : x >= y
             T == {k \in Nat : \A t \in SUBSET (1 .. k) : t # {} => Has(t)}
  <1>1. 0 \in T
    <2>1. 1 .. 0 = {}
      OBVIOUS
    <2>2. QED
      BY <2>1
  <1>2. ASSUME NEW k \in Nat, k \in T
        PROVE  k + 1 \in T
    <2>1. SUFFICES ASSUME NEW t \in SUBSET (1 .. (k + 1)), t # {}
                   PROVE  Has(t)
      BY <1>2
    <2>2. CASE k + 1 \in t
      <3>1. \A y \in t : k + 1 >= y
        BY <1>2
      <3>2. QED
        BY <2>2, <3>1
    <2>3. CASE k + 1 \notin t
      <3>1. t \in SUBSET (1 .. k)
        BY <1>2, <2>3
      <3>2. QED
        BY <1>2, <2>1, <3>1
    <2>4. QED
      BY <2>2, <2>3
  <1>3. n \in T
    <2> HIDE DEF T
    <2>1. QED
      BY <1>1, <1>2, SetInduction
  <1>4. Has(s)
    BY <1>3
  <1>5. QED
    BY <1>4 DEF Max

LEMMA MaxTop ==
    ASSUME NEW k \in Nat, NEW s \in SUBSET (1 .. (k + 1)), k + 1 \in s
    PROVE  Max(s) = k + 1
  <1>1. k + 1 \in Nat /\ s # {}
    OBVIOUS
  <1>2. Max(s) \in s /\ Max(s) >= k + 1
    BY <1>1, MaxExists
  <1>3. Max(s) \in 1 .. (k + 1)
    BY <1>2
  <1>4. QED
    BY <1>2, <1>3

-----------------------------------------------------------------------------
(* Folds.  FoldLeft takes the value of a recursive function on sets of        *)
(* positions, which is defined by CHOOSE: that there is such a function is    *)
(* FoldExists.  F is the operator of the fold, as a function.                 *)

IsIter(g, S, F, base, q) ==
    /\ g \in [SUBSET (1 .. Len(q)) -> S]
    /\ \A s \in SUBSET (1 .. Len(q)) :
           g[s] = IF s = {} THEN base ELSE F[<<g[s \ {Max(s)}], q[Max(s)]>>]

\* The recursive function of a fold over q exists, and has values in S.
LEMMA FoldExists ==
    ASSUME NEW S, NEW Q, NEW F \in [S \X Q -> S], NEW base \in S, NEW q \in Seq(Q)
    PROVE  \E g : IsIter(g, S, F, base, q)
  <1> DEFINE Good(g, k) == \A s \in SUBSET (1 .. k) :
                 g[s] = IF s = {} THEN base ELSE F[<<g[s \ {Max(s)}], q[Max(s)]>>]
             T == {k \in Nat : k <= Len(q) => \E g \in [SUBSET (1 .. k) -> S] : Good(g, k)}
  <1>1. 0 \in T
    <2>1. Good([s \in SUBSET (1 .. 0) |-> base], 0)
      <3>1. 1 .. 0 = {}
        OBVIOUS
      <3>2. QED
        BY <3>1
    <2>2. [s \in SUBSET (1 .. 0) |-> base] \in [SUBSET (1 .. 0) -> S]
      OBVIOUS
    <2> HIDE DEF Good
    <2>3. QED
      BY <2>1, <2>2
  <1>2. ASSUME NEW k \in Nat, k \in T
        PROVE  k + 1 \in T
    <2>1. SUFFICES ASSUME k + 1 <= Len(q)
                   PROVE  \E g \in [SUBSET (1 .. (k + 1)) -> S] : Good(g, k + 1)
      <3> HIDE DEF Good
      <3>1. k + 1 \in Nat
        BY <1>2
      <3>2. QED
        BY <3>1
    <2>2. PICK g \in [SUBSET (1 .. k) -> S] : Good(g, k)
      <3>1. k <= Len(q)
        BY <1>2, <2>1, LenProperties
      <3>2. QED
        BY <1>2, <3>1
    <2> DEFINE Top(s) == F[<<g[s \ {k + 1}], q[k + 1]>>]
               h == [s \in SUBSET (1 .. (k + 1)) |-> IF k + 1 \in s THEN Top(s) ELSE g[s]]
    <2>3. \A s \in SUBSET (1 .. (k + 1)) : s \ {k + 1} \in SUBSET (1 .. k)
      BY <1>2
    <2>4. \A s \in SUBSET (1 .. (k + 1)) : k + 1 \notin s => s \in SUBSET (1 .. k)
      BY <1>2
    <2>5. \A s \in SUBSET (1 .. (k + 1)) : h[s] \in S
      <3>1. q[k + 1] \in Q
        BY <1>2, <2>1, ElementOfSeq
      <3>2. QED
        BY <2>3, <2>4, <3>1
    <2>6. h \in [SUBSET (1 .. (k + 1)) -> S]
      BY <2>5
    <2>7. \A s \in SUBSET (1 .. k) : s \in SUBSET (1 .. (k + 1)) /\ k + 1 \notin s
      BY <1>2
    <2>8. \A s \in SUBSET (1 .. k) : h[s] = g[s]
      BY <2>7
    <2>9. ASSUME NEW s \in SUBSET (1 .. (k + 1))
          PROVE  h[s] = IF s = {} THEN base ELSE F[<<h[s \ {Max(s)}], q[Max(s)]>>]
      <3>1. CASE k + 1 \in s
        <4>1. Max(s) = k + 1 /\ s # {}
          BY <1>2, <3>1, MaxTop
        <4>2. h[s \ {k + 1}] = g[s \ {k + 1}] /\ h[s] = Top(s)
          BY <2>3, <2>8, <3>1
        <4> HIDE DEF h
        <4>3. QED
          BY <4>1, <4>2
      <3>2. CASE k + 1 \notin s
        <4>1. s \in SUBSET (1 .. k) /\ s \ {Max(s)} \in SUBSET (1 .. k)
          BY <2>4, <3>2
        <4>2. h[s] = g[s] /\ h[s \ {Max(s)}] = g[s \ {Max(s)}]
          BY <2>8, <4>1
        <4> HIDE DEF h
        <4>3. QED
          BY <2>2, <4>1, <4>2
      <3>3. QED
        BY <3>1, <3>2
    <2>10. Good(h, k + 1)
      BY <2>9
    <2> HIDE DEF h, Good
    <2>11. QED
      BY <2>6, <2>10
  <1>3. Len(q) \in T
    <2> HIDE DEF T
    <2>1. QED
      BY <1>1, <1>2, SetInduction, LenProperties
  <1>4. PICK g \in [SUBSET (1 .. Len(q)) -> S] : Good(g, Len(q))
    <2> HIDE DEF Good
    <2>1. Len(q) \in Nat /\ Len(q) <= Len(q)
      BY LenProperties
    <2>2. QED
      BY <1>3, <2>1, Zenon
  <1>5. QED
    BY <1>4 DEF IsIter

\* The recursion of a fold goes from 1 .. k to 1 .. (k - 1).
LEMMA PrefixMax ==
    ASSUME NEW k \in Nat, k # 0
    PROVE  Max(1 .. k) = k /\ (1 .. k) \ {k} = 1 .. (k - 1) /\ 1 .. k # {}
  <1>1. k - 1 \in Nat /\ k - 1 + 1 = k /\ k \in 1 .. k
    OBVIOUS
  <1>2. Max(1 .. k) = k
    BY <1>1, MaxTop
  <1>3. QED
    BY <1>1, <1>2

-----------------------------------------------------------------------------
(* Sequences *)

\* The sequence q with e inserted at position k.
With(q, k, e) == SubSeq(q, 1, k - 1) \o <<e>> \o SubSeq(q, k, Len(q))

LEMMA WithProperties ==
    ASSUME NEW S, NEW q \in Seq(S), NEW e \in S, NEW k \in 1 .. (Len(q) + 1)
    PROVE  /\ With(q, k, e) \in Seq(S)
           /\ Len(With(q, k, e)) = Len(q) + 1
           /\ \A i \in 1 .. (Len(q) + 1) :
                With(q, k, e)[i] = IF i < k THEN q[i] ELSE IF i = k THEN e ELSE q[i - 1]
  <1> DEFINE a == SubSeq(q, 1, k - 1)
             c == SubSeq(q, k, Len(q))
  <1>1. a \in Seq(S) /\ Len(a) = k - 1 /\ \A i \in 1 .. (k - 1) : a[i] = q[i]
    BY SubSeqProperties
  <1>2. c \in Seq(S) /\ Len(c) = Len(q) - k + 1 /\ \A i \in 1 .. (Len(q) - k + 1) : c[i] = q[k + i - 1]
    BY SubSeqProperties
  <1>3. <<e>> \in Seq(S) /\ Len(<<e>>) = 1 /\ <<e>>[1] = e
    OBVIOUS
  <1> HIDE DEF a, c
  <1>4. /\ a \o <<e>> \in Seq(S) /\ Len(a \o <<e>>) = k
        /\ \A i \in 1 .. k : (a \o <<e>>)[i] = IF i < k THEN q[i] ELSE e
    BY <1>1, <1>3
  <1>5. /\ (a \o <<e>>) \o c \in Seq(S)
        /\ Len((a \o <<e>>) \o c) = Len(q) + 1
        /\ \A i \in 1 .. (Len(q) + 1) :
              ((a \o <<e>>) \o c)[i] = IF i < k THEN q[i] ELSE IF i = k THEN e ELSE q[i - 1]
    <2> DEFINE d == a \o <<e>>
    <2>1. d \in Seq(S) /\ Len(d) = k /\ \A i \in 1 .. k : d[i] = IF i < k THEN q[i] ELSE e
      BY <1>4
    <2> HIDE DEF d
    <2>2. d \o c \in Seq(S) /\ Len(d \o c) = Len(q) + 1
      BY <1>2, <2>1
    <2>3. ASSUME NEW i \in 1 .. (Len(q) + 1)
          PROVE  (d \o c)[i] = IF i < k THEN q[i] ELSE IF i = k THEN e ELSE q[i - 1]
      <3>1. CASE i <= k
        BY <3>1, <1>2, <2>1
      <3>2. CASE i > k
        <4>1. (d \o c)[i] = c[i - k]
          BY <3>2, <1>2, <2>1
        <4>2. c[i - k] = q[i - 1]
          BY <3>2, <1>2
        <4>3. QED
          BY <3>2, <4>1, <4>2
      <3>3. i <= k \/ i > k
        OBVIOUS
      <3>4. QED
        BY <3>1, <3>2, <3>3
    <2>4. QED
      BY <2>2, <2>3 DEF d
  <1>6. QED
    BY <1>5 DEF With, a, c

\* The sequence q without its last element.
LEMMA FrontProperties ==
    ASSUME NEW S, NEW q \in Seq(S), q # << >>, NEW f, f = SubSeq(q, 1, Len(q) - 1)
    PROVE  /\ f \in Seq(S)
           /\ Len(f) = Len(q) - 1
           /\ \A i \in 1 .. (Len(q) - 1) : f[i] = q[i]
  <1> DEFINE n == Len(q) - 1
             p == SubSeq(q, 1, n)
  <1>1. n \in Nat
    BY EmptySeq
  <1>2. \A i \in 1 .. n : q[i] \in S
    BY <1>1
  <1>3. f = p
    OBVIOUS
  <1> HIDE DEF n
  <1>4. /\ p \in Seq(S)
        /\ Len(p) = IF 1 <= n THEN n - 1 + 1 ELSE 0
        /\ \A i \in 1 .. (n - 1 + 1) : p[i] = q[1 + i - 1]
    BY <1>1, <1>2, SubSeqProperties
  <1> HIDE DEF p
  <1>5. p \in Seq(S) /\ Len(p) = n /\ \A i \in 1 .. n : p[i] = q[i]
    BY <1>1, <1>4
  <1>6. QED
    BY <1>3, <1>5 DEF n
=============================================================================
