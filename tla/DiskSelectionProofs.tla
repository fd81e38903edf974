------------------------- MODULE DiskSelectionProofs -------------------------
(***************************************************************************)
(* Proofs about DiskSelection, for every list of devices and every size.   *)
(*                                                                         *)
(* Filtered and Sorted are folds.  Their lemmas follow the rounds of the   *)
(* fold (FilterRounds, SortRounds, from FoldExists) and prove by induction *)
(* on the rounds that Filtered keeps the members it is asked for and       *)
(* Sorted all of them, in ascending order.                                 *)
(*                                                                         *)
(* The inductive invariant DInv adds to the properties that an entry of    *)
(* the list stands for a device init has passed (Reported), that no device *)
(* is listed twice (Once), and what is known of the choice once the        *)
(* profile is rendered (Chosen).                                           *)
(***************************************************************************)
EXTENDS DiskSelection, SequenceLemmas, FiniteSetTheorems

Disk == [dev : STRING, size_mb : Nat]

-----------------------------------------------------------------------------
(* Filtered *)

Kept(K, kept, d) == IF d \in K THEN Append(kept, d) ELSE kept

LEMMA FilterRounds ==
    ASSUME NEW D, NEW q \in Seq(D), NEW K
    PROVE  \E h : /\ h[0] = <<>>
                  /\ \A k \in 1 .. Len(q) : h[k] = Kept(K, h[k - 1], q[k])
                  /\ h[Len(q)] = Filtered(q, K)
  <1> DEFINE F == [p \in Seq(D) \X D |-> Kept(K, p[1], p[2])]
             Round(g) == [s \in SUBSET (DOMAIN q) |->
                            IF s = {} THEN <<>> ELSE Kept(K, g[s \ {Max(s)}], q[Max(s)])]
             it == CHOOSE g : g = Round(g)
             h == [k \in 0 .. Len(q) |-> it[1 .. k]]
  <1>1. Len(q) \in Nat /\ DOMAIN q = 1 .. Len(q) /\ <<>> \in Seq(D)
    BY LenProperties, EmptySeq
  <1>2. F \in [Seq(D) \X D -> Seq(D)]
    BY AppendProperties DEF Kept
  <1> HIDE DEF F
  <1>3. PICK g : IsIter(g, Seq(D), F, <<>>, q)
    BY <1>1, <1>2, FoldExists
  <1>4. ASSUME NEW s \in SUBSET (1 .. Len(q))
        PROVE  g[s] = IF s = {} THEN <<>> ELSE Kept(K, g[s \ {Max(s)}], q[Max(s)])
    <2>1. g[s] = IF s = {} THEN <<>> ELSE F[<<g[s \ {Max(s)}], q[Max(s)]>>]
      BY <1>3 DEF IsIter
    <2>2. CASE s # {}
      <3>1. Max(s) \in 1 .. Len(q) /\ s \ {Max(s)} \in SUBSET (1 .. Len(q))
        BY <1>1, <2>2, MaxExists
      <3>2. g[s \ {Max(s)}] \in Seq(D) /\ q[Max(s)] \in D
        BY <1>1, <1>3, <3>1, ElementOfSeq DEF IsIter
      <3>3. F[<<g[s \ {Max(s)}], q[Max(s)]>>] = Kept(K, g[s \ {Max(s)}], q[Max(s)])
        BY <3>2 DEF F
      <3>4. QED
        BY <2>1, <3>3
    <2>3. QED
      BY <2>1, <2>2
  <1>5. g = Round(g)
    BY <1>1, <1>3, <1>4 DEF IsIter
  <1>6. it = Round(it)
    <2> HIDE DEF Round
    <2>1. QED
      BY <1>5
  <1>7. Filtered(q, K) = it[DOMAIN q]
    BY DEF Filtered, FoldLeft, MapThenFoldSet, Kept
  <1> HIDE DEF it
  <1>8. \A s \in SUBSET (1 .. Len(q)) : it[s] = IF s = {} THEN <<>> ELSE Kept(K, it[s \ {Max(s)}], q[Max(s)])
    BY <1>1, <1>6
  <1>9. h[0] = <<>> /\ h[Len(q)] = it[DOMAIN q]
    <2>1. 1 .. 0 = {} /\ 0 \in 0 .. Len(q) /\ Len(q) \in 0 .. Len(q)
      BY <1>1
    <2>2. it[1 .. 0] = <<>>
      BY <1>8, <2>1
    <2>3. QED
      BY <1>1, <2>1, <2>2
  <1>10. ASSUME NEW k \in 1 .. Len(q)
         PROVE  h[k] = Kept(K, h[k - 1], q[k])
    <2>1. k \in Nat /\ k # 0 /\ k \in 0 .. Len(q) /\ k - 1 \in 0 .. Len(q) /\ 1 .. k \in SUBSET (1 .. Len(q))
      BY <1>1
    <2>2. Max(1 .. k) = k /\ (1 .. k) \ {k} = 1 .. (k - 1) /\ 1 .. k # {}
      BY <2>1, PrefixMax
    <2>3. it[1 .. k] = Kept(K, it[1 .. (k - 1)], q[k])
      BY <1>8, <2>1, <2>2
    <2>4. QED
      BY <2>1, <2>3
  <1> HIDE DEF h
  <1>11. QED
    BY <1>7, <1>9, <1>10

-----------------------------------------------------------------------------
(* What filtering and sorting preserve *)

NoRepeat(q) == \A i, j \in 1 .. Len(q) : i # j => q[i] # q[j]

\* f holds those of the first k members of q that are in K, each once if q
\* does not repeat itself
Part(f, q, k, K) ==
    /\ \A j \in 1 .. k : q[j] \in K => \E i \in 1 .. Len(f) : f[i] = q[j]
    /\ \A i \in 1 .. Len(f) : \E j \in 1 .. k : f[i] = q[j] /\ q[j] \in K
    /\ NoRepeat(q) => NoRepeat(f)

\* g is f with e put in at p
WithAt(g, f, p, e) ==
    /\ p \in 1 .. (Len(f) + 1)
    /\ Len(g) = Len(f) + 1
    /\ \A i \in 1 .. (Len(f) + 1) : g[i] = IF i < p THEN f[i] ELSE IF i = p THEN e ELSE f[i - 1]

LEMMA PartNone ==
    ASSUME NEW q, NEW K
    PROVE  Part(<<>>, q, 0, K)
  BY DEF Part, NoRepeat

LEMMA PartSkip ==
    ASSUME NEW f, NEW q, NEW K, NEW k \in Nat, Part(f, q, k, K), q[k + 1] \notin K
    PROVE  Part(f, q, k + 1, K)
  <1>1. \A j \in 1 .. (k + 1) : j \in 1 .. k \/ j = k + 1
    OBVIOUS
  <1>2. \A j \in 1 .. k : j \in 1 .. (k + 1)
    OBVIOUS
  <1>3. QED
    BY <1>1, <1>2 DEF Part

LEMMA PartWith ==
    ASSUME NEW D, NEW q \in Seq(D), NEW K, NEW k \in Nat, k + 1 <= Len(q), q[k + 1] \in K,
           NEW f \in Seq(D), NEW g \in Seq(D), NEW p \in Nat, Part(f, q, k, K), WithAt(g, f, p, q[k + 1])
    PROVE  Part(g, q, k + 1, K)
  <1> DEFINE e == q[k + 1]
  <1>1. Len(f) \in Nat /\ p \in 1 .. (Len(f) + 1) /\ Len(g) = Len(f) + 1 /\ Len(q) \in Nat
    BY LenProperties DEF WithAt
  <1>2. g[p] = e /\ p \in 1 .. Len(g)
    BY <1>1 DEF WithAt
  <1>3. \A i \in 1 .. Len(f) : (IF i < p THEN i ELSE i + 1) \in 1 .. Len(g) /\ g[IF i < p THEN i ELSE i + 1] = f[i]
    BY <1>1 DEF WithAt
  <1>4. \A i \in 1 .. Len(g) : \/ i = p
                               \/ /\ (IF i < p THEN i ELSE i - 1) \in 1 .. Len(f)
                                  /\ g[i] = f[IF i < p THEN i ELSE i - 1]
    BY <1>1 DEF WithAt
  <1>5. \A j \in 1 .. (k + 1) : j \in 1 .. k \/ j = k + 1
    OBVIOUS
  <1>6. (\A j \in 1 .. k : j \in 1 .. (k + 1)) /\ k + 1 \in 1 .. (k + 1)
    OBVIOUS
  <1>7. ASSUME NEW j \in 1 .. (k + 1), q[j] \in K
        PROVE  \E i \in 1 .. Len(g) : g[i] = q[j]
    <2>1. CASE j = k + 1
      BY <1>2, <2>1
    <2>2. CASE j \in 1 .. k
      <3>1. PICK i \in 1 .. Len(f) : f[i] = q[j]
        BY <1>7, <2>2 DEF Part
      <3>2. QED
        BY <1>3, <3>1
    <2>3. QED
      BY <1>5, <2>1, <2>2
  <1>8. ASSUME NEW i \in 1 .. Len(g)
        PROVE  \E j \in 1 .. (k + 1) : g[i] = q[j] /\ q[j] \in K
    <2>1. CASE i = p
      BY <1>2, <1>6, <2>1
    <2>2. CASE i # p
      <3>1. PICK m \in 1 .. Len(f) : g[i] = f[m]
        BY <1>4, <2>2
      <3>2. PICK j \in 1 .. k : f[m] = q[j] /\ q[j] \in K
        BY DEF Part
      <3>3. QED
        BY <1>6, <3>1, <3>2
    <2>3. QED
      BY <2>1, <2>2
  <1>9. ASSUME NoRepeat(q) PROVE NoRepeat(g)
    <2>1. NoRepeat(f)
      BY <1>9 DEF Part
    <2>2. \A m \in 1 .. Len(f) : f[m] # e
      <3>1. ASSUME NEW m \in 1 .. Len(f) PROVE f[m] # e
        <4>1. PICK j \in 1 .. k : f[m] = q[j]
          BY DEF Part
        <4>2. j # k + 1 /\ j \in 1 .. Len(q) /\ k + 1 \in 1 .. Len(q)
          BY <1>1
        <4>3. QED
          BY <1>9, <4>1, <4>2 DEF NoRepeat
      <3>2. QED
        BY <3>1
    <2>3. ASSUME NEW i \in 1 .. Len(g), NEW j \in 1 .. Len(g), i # j
          PROVE  g[i] # g[j]
      <3>1. CASE i = p
        <4>1. \E m \in 1 .. Len(f) : g[j] = f[m]
          BY <1>4, <2>3, <3>1
        <4>2. QED
          BY <1>2, <2>2, <3>1, <4>1
      <3>2. CASE j = p
        <4>1. \E m \in 1 .. Len(f) : g[i] = f[m]
          BY <1>4, <2>3, <3>2
        <4>2. QED
          BY <1>2, <2>2, <3>2, <4>1
      <3>3. CASE i # p /\ j # p
        <4>1. PICK a \in 1 .. Len(f) : a = (IF i < p THEN i ELSE i - 1) /\ g[i] = f[a]
          BY <1>4, <3>3
        <4>2. PICK b \in 1 .. Len(f) : b = (IF j < p THEN j ELSE j - 1) /\ g[j] = f[b]
          BY <1>4, <3>3
        <4>3. a # b
          BY <1>1, <2>3, <3>3, <4>1, <4>2
        <4>4. QED
          BY <2>1, <4>1, <4>2, <4>3 DEF NoRepeat
      <3>4. QED
        BY <3>1, <3>2, <3>3
    <2>4. QED
      BY <2>3 DEF NoRepeat
  <1>10. QED
    BY <1>7, <1>8, <1>9 DEF Part

\* Filtered keeps what is in K and nothing else.
LEMMA FilteredPart ==
    ASSUME NEW D, NEW q \in Seq(D), NEW K
    PROVE  Filtered(q, K) \in Seq(D) /\ Part(Filtered(q, K), q, Len(q), K)
  <1>1. Len(q) \in Nat
    BY LenProperties
  <1>2. PICK h : /\ h[0] = <<>>
                 /\ \A k \in 1 .. Len(q) : h[k] = Kept(K, h[k - 1], q[k])
                 /\ h[Len(q)] = Filtered(q, K)
    BY FilterRounds
  <1> DEFINE Fine(k) == h[k] \in Seq(D) /\ Part(h[k], q, k, K)
             T == {k \in Nat : k <= Len(q) => Fine(k)}
  <1>3. 0 \in T
    BY <1>2, PartNone, EmptySeq
  <1>4. ASSUME NEW k \in Nat, k \in T
        PROVE  k + 1 \in T
    <2>1. SUFFICES ASSUME k + 1 <= Len(q) PROVE Fine(k + 1)
      <3> HIDE DEF Fine
      <3>1. k + 1 \in Nat
        OBVIOUS
      <3>2. QED
        BY <3>1
    <2>2. k + 1 \in 1 .. Len(q) /\ k + 1 - 1 = k /\ k <= Len(q)
      BY <1>1, <2>1
    <2>3. PICK f \in Seq(D) : f = h[k] /\ Part(f, q, k, K)
      BY <1>4, <2>2
    <2>4. h[k + 1] = Kept(K, f, q[k + 1]) /\ q[k + 1] \in D
      BY <1>2, <2>2, <2>3, ElementOfSeq
    <2>5. CASE q[k + 1] \notin K
      <3>1. h[k + 1] = f
        BY <2>4, <2>5 DEF Kept
      <3>2. QED
        BY <2>3, <2>5, <3>1, PartSkip
    <2>6. CASE q[k + 1] \in K
      <3>1. PICK g : g = Append(f, q[k + 1])
        OBVIOUS
      <3>2. /\ g \in Seq(D) /\ Len(g) = Len(f) + 1 /\ Len(f) \in Nat
            /\ \A i \in 1 .. Len(f) : g[i] = f[i]
            /\ g[Len(f) + 1] = q[k + 1]
        BY <2>4, <3>1, AppendProperties, LenProperties
      <3>3. WithAt(g, f, Len(f) + 1, q[k + 1])
        BY <3>2 DEF WithAt
      <3>4. PICK p \in Nat : p = Len(f) + 1
        BY <3>2
      <3>5. Part(g, q, k + 1, K)
        BY <2>1, <2>3, <2>6, <3>2, <3>3, <3>4, PartWith
      <3>6. QED
        BY <2>4, <2>6, <3>1, <3>2, <3>5 DEF Kept
    <2>7. QED
      BY <2>5, <2>6
  <1>5. Fine(Len(q))
    <2> HIDE DEF Fine
    <2>1. Nat \subseteq T
      <3> HIDE DEF T
      <3>1. QED
        BY <1>3, <1>4, SetInduction
    <2>2. Len(q) \in T /\ Len(q) <= Len(q)
      BY <1>1, <2>1
    <2>3. QED
      BY <2>2, Zenon
  <1>6. QED
    BY <1>2, <1>5

-----------------------------------------------------------------------------
(* Sorted *)

Ascending(f) == \A i, j \in 1 .. Len(f) : i <= j => f[i].size_mb <= f[j].size_mb

LEMMA DiskFields == \A d \in Disk : d.dev \in STRING /\ d.size_mb \in Nat
  BY DEF Disk

LEMMA InsertedAt ==
    ASSUME NEW f \in Seq(Disk), NEW d \in Disk
    PROVE  /\ Inserted(f, d) \in Seq(Disk)
           /\ \E p \in Nat : WithAt(Inserted(f, d), f, p, d)
           /\ Ascending(f) => Ascending(Inserted(f, d))
  <1> DEFINE larger == {i \in DOMAIN f : f[i].size_mb > d.size_mb}
             p == IF larger = {} THEN Len(f) + 1 ELSE Min(larger)
             g == InsertAt(f, p, d)
  <1>1. Len(f) \in Nat /\ DOMAIN f = 1 .. Len(f) /\ d.size_mb \in Nat
    BY LenProperties, DiskFields
  <1>2. \A i \in 1 .. Len(f) : f[i] \in Disk /\ f[i].size_mb \in Nat
    BY ElementOfSeq, DiskFields
  <1>3. Inserted(f, d) = g
    BY DEF Inserted
  <1>4. larger \subseteq 1 .. Len(f) /\ larger \subseteq Nat
    BY <1>1
  <1>5. \A i \in 1 .. Len(f) : i \in larger <=> f[i].size_mb > d.size_mb
    BY <1>1
  <1> HIDE DEF larger
  <1>6. larger # {} => Min(larger) \in larger /\ \A y \in larger : Min(larger) <= y
    <2>1. ASSUME larger # {} PROVE \E x \in larger : \A y \in larger : x <= y
      BY <1>4, <2>1, LeastExists
    <2>2. QED
      BY <2>1 DEF Min
  <1>7. /\ p \in 1 .. (Len(f) + 1)
        /\ \A i \in 1 .. Len(f) : i < p => f[i].size_mb <= d.size_mb
        /\ p <= Len(f) => f[p].size_mb > d.size_mb
    <2>1. CASE larger = {}
      <3>1. p = Len(f) + 1
        BY <2>1
      <3>2. \A i \in 1 .. Len(f) : ~(f[i].size_mb > d.size_mb)
        BY <1>5, <2>1
      <3>3. QED
        BY <1>1, <1>2, <3>1, <3>2
    <2>2. CASE larger # {}
      <3>1. p \in larger /\ \A y \in larger : p <= y
        BY <1>6, <2>2
      <3> HIDE DEF p
      <3>2. p \in 1 .. Len(f)
        BY <1>4, <3>1
      <3>3. ASSUME NEW i \in 1 .. Len(f), i < p PROVE ~(f[i].size_mb > d.size_mb)
        <4>1. i \notin larger
          BY <3>1, <3>2, <3>3
        <4>2. QED
          BY <1>5, <4>1
      <3>4. QED
        BY <1>1, <1>2, <1>5, <3>1, <3>2, <3>3
    <2>3. QED
      BY <2>1, <2>2
  <1> HIDE DEF p
  <1>8. /\ g \in Seq(Disk)
        /\ Len(g) = Len(f) + 1
        /\ \A i \in 1 .. (Len(f) + 1) : g[i] = IF i < p THEN f[i] ELSE IF i = p THEN d ELSE f[i - 1]
    <2>1. g = With(f, p, d)
      BY DEF InsertAt, With
    <2> HIDE DEF g
    <2>2. /\ With(f, p, d) \in Seq(Disk) /\ Len(With(f, p, d)) = Len(f) + 1
          /\ \A i \in 1 .. (Len(f) + 1) :
               With(f, p, d)[i] = IF i < p THEN f[i] ELSE IF i = p THEN d ELSE f[i - 1]
      BY <1>7, WithProperties
    <2>3. QED
      BY <2>1, <2>2, Zenon
  <1> HIDE DEF g
  <1>9. p \in Nat /\ WithAt(g, f, p, d)
    BY <1>1, <1>7, <1>8 DEF WithAt
  <1>10. ASSUME Ascending(f) PROVE Ascending(g)
    <2>1. SUFFICES ASSUME NEW i \in 1 .. Len(g), NEW j \in 1 .. Len(g), i < j
                   PROVE  g[i].size_mb <= g[j].size_mb
      <3>1. \A i \in 1 .. Len(g) : g[i].size_mb \in Nat
        BY <1>8, ElementOfSeq, DiskFields
      <3>2. QED
        BY <1>1, <1>8, <3>1 DEF Ascending
    <2>2. CASE j < p
      BY <1>1, <1>7, <1>8, <1>10, <2>1, <2>2 DEF Ascending
    <2>3. CASE j = p
      <3>1. i \in 1 .. Len(f) /\ g[i] = f[i] /\ g[j] = d
        BY <1>1, <1>7, <1>8, <2>1, <2>3
      <3>2. QED
        BY <1>7, <2>1, <2>3, <3>1
    <2>4. CASE j > p
      <3>1. j - 1 \in 1 .. Len(f) /\ g[j] = f[j - 1] /\ p \in 1 .. Len(f) /\ p <= j - 1
        BY <1>1, <1>7, <1>8, <2>1, <2>4
      <3>2. CASE i < p
        BY <1>1, <1>7, <1>8, <1>10, <2>1, <3>1, <3>2 DEF Ascending
      <3>3. CASE i = p
        <4>1. f[p].size_mb <= f[j - 1].size_mb /\ f[p].size_mb > d.size_mb
          BY <1>7, <1>10, <3>1 DEF Ascending
        <4>2. g[i] = d
          BY <1>7, <1>8, <2>1, <3>3
        <4>3. QED
          BY <1>1, <1>2, <3>1, <4>1, <4>2
      <3>4. CASE i > p
        <4>1. i - 1 \in 1 .. Len(f) /\ g[i] = f[i - 1] /\ i - 1 <= j - 1
          BY <1>1, <1>7, <1>8, <2>1, <3>4
        <4>2. QED
          BY <1>10, <3>1, <4>1 DEF Ascending
      <3>5. QED
        BY <1>1, <1>7, <1>8, <3>2, <3>3, <3>4
    <2>5. QED
      BY <1>1, <1>7, <1>8, <2>2, <2>3, <2>4
  <1>11. QED
    BY <1>3, <1>8, <1>9, <1>10

LEMMA SortRounds ==
    ASSUME NEW q \in Seq(Disk)
    PROVE  \E h : /\ h[0] = <<>>
                  /\ \A k \in 1 .. Len(q) : h[k] = Inserted(h[k - 1], q[k])
                  /\ h[Len(q)] = Sorted(q)
  <1> DEFINE F == [p \in Seq(Disk) \X Disk |-> Inserted(p[1], p[2])]
             Round(g) == [s \in SUBSET (DOMAIN q) |->
                            IF s = {} THEN <<>> ELSE Inserted(g[s \ {Max(s)}], q[Max(s)])]
             it == CHOOSE g : g = Round(g)
             h == [k \in 0 .. Len(q) |-> it[1 .. k]]
  <1>1. Len(q) \in Nat /\ DOMAIN q = 1 .. Len(q) /\ <<>> \in Seq(Disk)
    BY LenProperties, EmptySeq
  <1>2. F \in [Seq(Disk) \X Disk -> Seq(Disk)]
    BY InsertedAt
  <1> HIDE DEF F
  <1>3. PICK g : IsIter(g, Seq(Disk), F, <<>>, q)
    BY <1>1, <1>2, FoldExists
  <1>4. ASSUME NEW s \in SUBSET (1 .. Len(q))
        PROVE  g[s] = IF s = {} THEN <<>> ELSE Inserted(g[s \ {Max(s)}], q[Max(s)])
    <2>1. g[s] = IF s = {} THEN <<>> ELSE F[<<g[s \ {Max(s)}], q[Max(s)]>>]
      BY <1>3 DEF IsIter
    <2>2. CASE s # {}
      <3>1. Max(s) \in 1 .. Len(q) /\ s \ {Max(s)} \in SUBSET (1 .. Len(q))
        BY <1>1, <2>2, MaxExists
      <3>2. g[s \ {Max(s)}] \in Seq(Disk) /\ q[Max(s)] \in Disk
        BY <1>1, <1>3, <3>1, ElementOfSeq DEF IsIter
      <3>3. F[<<g[s \ {Max(s)}], q[Max(s)]>>] = Inserted(g[s \ {Max(s)}], q[Max(s)])
        BY <3>2 DEF F
      <3>4. QED
        BY <2>1, <3>3
    <2>3. QED
      BY <2>1, <2>2
  <1>5. g = Round(g)
    BY <1>1, <1>3, <1>4 DEF IsIter
  <1>6. it = Round(it)
    <2> HIDE DEF Round
    <2>1. QED
      BY <1>5
  <1>7. Sorted(q) = it[DOMAIN q]
    BY DEF Sorted, FoldLeft, MapThenFoldSet
  <1> HIDE DEF it
  <1>8. \A s \in SUBSET (1 .. Len(q)) : it[s] = IF s = {} THEN <<>> ELSE Inserted(it[s \ {Max(s)}], q[Max(s)])
    BY <1>1, <1>6
  <1>9. h[0] = <<>> /\ h[Len(q)] = it[DOMAIN q]
    <2>1. 1 .. 0 = {} /\ 0 \in 0 .. Len(q) /\ Len(q) \in 0 .. Len(q)
      BY <1>1
    <2>2. it[1 .. 0] = <<>>
      BY <1>8, <2>1
    <2>3. QED
      BY <1>1, <2>1, <2>2
  <1>10. ASSUME NEW k \in 1 .. Len(q)
         PROVE  h[k] = Inserted(h[k - 1], q[k])
    <2>1. k \in Nat /\ k # 0 /\ k \in 0 .. Len(q) /\ k - 1 \in 0 .. Len(q) /\ 1 .. k \in SUBSET (1 .. Len(q))
      BY <1>1
    <2>2. Max(1 .. k) = k /\ (1 .. k) \ {k} = 1 .. (k - 1) /\ 1 .. k # {}
      BY <2>1, PrefixMax
    <2>3. it[1 .. k] = Inserted(it[1 .. (k - 1)], q[k])
      BY <1>8, <2>1, <2>2
    <2>4. QED
      BY <2>1, <2>3
  <1> HIDE DEF h
  <1>11. QED
    BY <1>7, <1>9, <1>10

\* Sorted keeps every disk, and puts them in ascending order.
LEMMA SortedPart ==
    ASSUME NEW q \in Seq(Disk)
    PROVE  Sorted(q) \in Seq(Disk) /\ Part(Sorted(q), q, Len(q), Disk) /\ Ascending(Sorted(q))
  <1>1. Len(q) \in Nat
    BY LenProperties
  <1>2. PICK h : /\ h[0] = <<>>
                 /\ \A k \in 1 .. Len(q) : h[k] = Inserted(h[k - 1], q[k])
                 /\ h[Len(q)] = Sorted(q)
    BY SortRounds
  <1> DEFINE Fine(k) == h[k] \in Seq(Disk) /\ Part(h[k], q, k, Disk) /\ Ascending(h[k])
             T == {k \in Nat : k <= Len(q) => Fine(k)}
  <1>3. 0 \in T
    <2>1. Ascending(<<>>)
      BY DEF Ascending
    <2>2. QED
      BY <1>2, <2>1, PartNone, EmptySeq
  <1>4. ASSUME NEW k \in Nat, k \in T
        PROVE  k + 1 \in T
    <2>1. SUFFICES ASSUME k + 1 <= Len(q) PROVE Fine(k + 1)
      <3> HIDE DEF Fine
      <3>1. k + 1 \in Nat
        OBVIOUS
      <3>2. QED
        BY <3>1
    <2>2. k + 1 \in 1 .. Len(q) /\ k + 1 - 1 = k /\ k <= Len(q)
      BY <1>1, <2>1
    <2>3. PICK f \in Seq(Disk) : f = h[k] /\ Part(f, q, k, Disk) /\ Ascending(f)
      BY <1>4, <2>2
    <2>4. h[k + 1] = Inserted(f, q[k + 1]) /\ q[k + 1] \in Disk
      BY <1>2, <2>2, <2>3, ElementOfSeq
    <2>5. PICK g \in Seq(Disk) : g = Inserted(f, q[k + 1])
      BY <2>4, InsertedAt
    <2>6. Ascending(g) /\ \E p \in Nat : WithAt(g, f, p, q[k + 1])
      BY <2>3, <2>4, <2>5, InsertedAt
    <2>7. PICK p \in Nat : WithAt(g, f, p, q[k + 1])
      BY <2>6
    <2>8. Part(g, q, k + 1, Disk)
      BY <2>1, <2>3, <2>4, <2>7, PartWith
    <2>9. QED
      BY <2>4, <2>5, <2>6, <2>8
  <1>5. Fine(Len(q))
    <2> HIDE DEF Fine
    <2>1. Nat \subseteq T
      <3> HIDE DEF T
      <3>1. QED
        BY <1>3, <1>4, SetInduction
    <2>2. Len(q) \in T /\ Len(q) <= Len(q)
      BY <1>1, <2>1
    <2>3. QED
      BY <2>2, Zenon
  <1>6. QED
    BY <1>2, <1>5

-----------------------------------------------------------------------------
(* The choice *)

\* what the phone-home handler takes for a disk to install on
ValidSet == {d \in ToSet(uuids) : Valid(d)}

\* no device is listed twice
Once == \A i, j \in 1 .. Len(uuids) : i # j => uuids[i].dev # uuids[j].dev

LEMMA PairSet == \A a, b : ToSet(<<a, b>>) = {a, b} /\ <<a, b>> # <<>> /\ <<a, b>>[1] = a /\ <<a, b>>[2] = b
  <1>1. SUFFICES ASSUME NEW a, NEW b
                 PROVE  ToSet(<<a, b>>) = {a, b} /\ <<a, b>> # <<>> /\ <<a, b>>[1] = a /\ <<a, b>>[2] = b
    OBVIOUS
  <1>2. DOMAIN <<a, b>> = {1, 2} /\ <<a, b>>[1] = a /\ <<a, b>>[2] = b
    OBVIOUS
  <1>3. ToSet(<<a, b>>) = {a, b}
    BY <1>2 DEF ToSet
  <1>4. <<a, b>> # <<>>
    OBVIOUS
  <1>5. QED
    BY <1>2, <1>3, <1>4

\* Two disks are two.
LEMMA TwoElements ==
    ASSUME NEW a, NEW b, a # b
    PROVE  IsFiniteSet({a, b}) /\ Cardinality({a, b}) = 2
  <1>1. IsFiniteSet({a}) /\ Cardinality({a}) = 1
    BY FS_Singleton
  <1>2. {a, b} = {a} \cup {b} /\ b \notin {a}
    OBVIOUS
  <1>3. IsFiniteSet({a} \cup {b}) /\ Cardinality({a} \cup {b}) = 1 + 1
    BY <1>1, <1>2, FS_AddElement
  <1>4. QED
    BY <1>2, <1>3

\* The sorted list: exactly the valid disks, each once, in ascending order.
LEMMA HwFacts ==
    ASSUME uuids \in Seq(Disk), Once
    PROVE  LET hw == Sorted(valid_disks)
           IN  /\ hw \in Seq(Disk) /\ Ascending(hw)
               /\ \A i \in 1 .. Len(hw) : hw[i] \in ValidSet
               /\ \A d \in ValidSet : \E i \in 1 .. Len(hw) : hw[i] = d
               /\ \A i, j \in 1 .. Len(hw) : i # j => hw[i].dev # hw[j].dev
  <1> DEFINE v == valid_disks
             hw == Sorted(valid_disks)
  <1>1. Len(uuids) \in Nat /\ DOMAIN uuids = 1 .. Len(uuids)
    BY LenProperties
  <1>2. v \in Seq(Disk) /\ Part(v, uuids, Len(uuids), ValidSet)
    BY FilteredPart DEF valid_disks, ValidSet
  <1> HIDE DEF v
  <1>3. hw \in Seq(Disk) /\ Part(hw, v, Len(v), Disk) /\ Ascending(hw)
    <2>1. hw = Sorted(v)
      BY DEF v
    <2>2. QED
      BY <1>2, <2>1, SortedPart
  <1> HIDE DEF hw
  <1>4. NoRepeat(uuids)
    BY DEF Once, NoRepeat
  <1>5. NoRepeat(hw)
    BY <1>2, <1>3, <1>4 DEF Part
  <1>6. \A i \in 1 .. Len(hw) : \E k \in 1 .. Len(uuids) : hw[i] = uuids[k] /\ uuids[k] \in ValidSet
    <2>1. ASSUME NEW i \in 1 .. Len(hw)
          PROVE  \E k \in 1 .. Len(uuids) : hw[i] = uuids[k] /\ uuids[k] \in ValidSet
      <3>1. PICK j \in 1 .. Len(v) : hw[i] = v[j]
        BY <1>3 DEF Part
      <3>2. PICK k \in 1 .. Len(uuids) : v[j] = uuids[k] /\ uuids[k] \in ValidSet
        BY <1>2 DEF Part
      <3>3. QED
        BY <3>1, <3>2
    <2>2. QED
      BY <2>1
  <1>7. ASSUME NEW d \in ValidSet PROVE \E i \in 1 .. Len(hw) : hw[i] = d
    <2>1. PICK k \in 1 .. Len(uuids) : uuids[k] = d
      BY <1>1 DEF ValidSet, ToSet
    <2>2. PICK j \in 1 .. Len(v) : v[j] = uuids[k]
      BY <1>2, <2>1 DEF Part
    <2>3. v[j] \in Disk
      BY <1>2, ElementOfSeq
    <2>4. PICK i \in 1 .. Len(hw) : hw[i] = v[j]
      BY <1>3, <2>3 DEF Part
    <2>5. QED
      BY <2>1, <2>2, <2>4
  <1>8. ASSUME NEW i \in 1 .. Len(hw), NEW j \in 1 .. Len(hw), i # j
        PROVE  hw[i].dev # hw[j].dev
    <2>1. PICK a \in 1 .. Len(uuids) : hw[i] = uuids[a]
      BY <1>6
    <2>2. PICK b \in 1 .. Len(uuids) : hw[j] = uuids[b]
      BY <1>6
    <2>3. a # b
      BY <1>5, <1>8, <2>1, <2>2 DEF NoRepeat
    <2>4. QED
      BY <2>1, <2>2, <2>3 DEF Once
  <1>9. \A i \in 1 .. Len(hw) : hw[i] \in ValidSet
    BY <1>6
  <1>10. QED
    BY <1>3, <1>7, <1>8, <1>9 DEF hw

\* hw holds the members of V, each device once, in ascending order
Ranks(hw, V) ==
    /\ Ascending(hw)
    /\ \A i \in 1 .. Len(hw) : hw[i] \in V
    /\ \A d \in V : \E i \in 1 .. Len(hw) : hw[i] = d
    /\ \A i, j \in 1 .. Len(hw) : i # j => hw[i].dev # hw[j].dev

\* p names the smallest members of V: two with two, or one
Best(p, V, two) ==
    LET C == {d \in V : d.dev \in ToSet(p)}
    IN  /\ \A d \in C, e \in V \ C : d.size_mb <= e.size_mb
        /\ Cardinality(C) = IF two /\ Cardinality(V) >= 2 THEN 2 ELSE 1
        /\ \E d \in V : p[1] = d.dev
        /\ \E d \in V : p[2] = d.dev
        /\ ToSet(p) = {p[1], p[2]}

\* What the choice is made of.
LEMMA ChoiceFacts ==
    ASSUME NEW hw \in Seq(Disk), NEW V, NEW p, p = Choice(hw), p # <<>>, raid \in BOOLEAN, Ranks(hw, V)
    PROVE  Best(p, V, raid)
  <1> USE DEF Ranks, Best
  <1> DEFINE C == {d \in V : d.dev \in ToSet(p)}
  <1>1. Len(hw) \in Nat
    BY LenProperties
  <1>2. Len(hw) >= 1 /\ 1 \in 1 .. Len(hw)
    BY <1>1 DEF Choice
  <1>3. IsFiniteSet(V)
    <2>1. Len(hw) \in Nat /\ \A i \in 1 .. Len(hw) : hw[i] \in V
      BY <1>1
    <2>2. hw \in Seq(V)
      BY <2>1
    <2>3. QED
      BY <2>2 DEF IsFiniteSet
  <1>4. CASE Len(hw) >= 2 /\ raid
    <2>1. 2 \in 1 .. Len(hw) /\ hw[1] # hw[2] /\ hw[1] \in V /\ hw[2] \in V
      BY <1>1, <1>2, <1>4
    <2>2. p = <<hw[1].dev, hw[2].dev>>
      BY <1>4 DEF Choice
    <2>3. ToSet(p) = {hw[1].dev, hw[2].dev} /\ p[1] = hw[1].dev /\ p[2] = hw[2].dev
      BY <2>2, PairSet
    <2>4. C = {hw[1], hw[2]}
      <3>1. ASSUME NEW d \in C PROVE d \in {hw[1], hw[2]}
        <4>1. PICK i \in 1 .. Len(hw) : hw[i] = d
          OBVIOUS
        <4>2. hw[i].dev = hw[1].dev \/ hw[i].dev = hw[2].dev
          BY <2>3, <4>1
        <4>3. QED
          BY <1>2, <2>1, <4>1, <4>2
      <3>2. QED
        BY <2>1, <2>3, <3>1
    <2>5. Cardinality(C) = 2 /\ Cardinality(V) >= 2
      <3>1. Cardinality({hw[1], hw[2]}) = 2
        BY <2>1, TwoElements
      <3>2. {hw[1], hw[2]} \in SUBSET V
        BY <2>1
      <3>3. Cardinality({hw[1], hw[2]}) <= Cardinality(V) /\ Cardinality(V) \in Nat
        BY <1>3, <3>2, FS_Subset, FS_CardinalityType
      <3>4. QED
        BY <2>4, <3>1, <3>3
    <2>6. ASSUME NEW d \in C, NEW e \in V \ C PROVE d.size_mb <= e.size_mb
      <3>1. PICK i \in 1 .. Len(hw) : hw[i] = e
        OBVIOUS
      <3>2. i # 1 /\ i # 2
        BY <2>4, <3>1
      <3>3. 1 <= i /\ 2 <= i
        BY <1>1, <3>2
      <3>4. hw[1].size_mb <= hw[i].size_mb /\ hw[2].size_mb <= hw[i].size_mb
        BY <1>2, <2>1, <3>3 DEF Ascending
      <3>5. QED
        BY <2>4, <3>1, <3>4
    <2>7. QED
      BY <1>4, <2>1, <2>3, <2>5, <2>6
  <1>5. CASE ~(Len(hw) >= 2 /\ raid)
    <2>1. p = <<hw[1].dev, hw[1].dev>> /\ hw[1] \in V
      BY <1>2, <1>5 DEF Choice
    <2>2. ToSet(p) = {hw[1].dev} /\ p[1] = hw[1].dev /\ p[2] = hw[1].dev
      BY <2>1, PairSet
    <2>3. C = {hw[1]}
      <3>1. ASSUME NEW d \in C PROVE d = hw[1]
        <4>1. PICK i \in 1 .. Len(hw) : hw[i] = d
          OBVIOUS
        <4>2. QED
          BY <1>2, <2>2, <4>1
      <3>2. QED
        BY <2>1, <2>2, <3>1
    <2>4. Cardinality(C) = 1
      BY <2>3, FS_Singleton
    <2>5. ~(raid /\ Cardinality(V) >= 2)
      <3>1. SUFFICES ASSUME raid PROVE Cardinality(V) = 1
        OBVIOUS
      <3>2. Len(hw) = 1
        <4>1. ~(Len(hw) >= 2)
          BY <1>5, <3>1, Zenon
        <4>2. \A n \in Nat : n >= 1 /\ ~(n >= 2) => n = 1
          OBVIOUS
        <4>3. QED
          BY <1>1, <1>2, <4>1, <4>2, Zenon
      <3>3. V = {hw[1]}
        BY <2>1, <3>2
      <3>4. QED
        BY <3>3, FS_Singleton
    <2>6. ASSUME NEW d \in C, NEW e \in V \ C PROVE d.size_mb <= e.size_mb
      <3>1. PICK i \in 1 .. Len(hw) : hw[i] = e
        OBVIOUS
      <3>2. 1 <= i
        BY <1>1
      <3>3. hw[1].size_mb <= hw[i].size_mb
        BY <1>2, <3>2 DEF Ascending
      <3>4. QED
        BY <2>3, <3>1, <3>3
    <2>7. QED
      BY <2>1, <2>2, <2>4, <2>5, <2>6
  <1>6. QED
    BY <1>4, <1>5

-----------------------------------------------------------------------------
(* The inductive invariant *)

DType ==
    /\ DOMAIN size \subseteq NameSet /\ \A d \in DOMAIN size : size[d] \in Sizes
    /\ raid \in BOOLEAN
    /\ next \in Nat /\ next >= 1
    /\ uuids \in Seq(Disk)

\* an entry stands for a device that init has passed and not skipped
Reported ==
    \A i \in 1 .. Len(uuids) : \E k \in 1 .. Len(Names) :
        /\ k < next /\ Names[k] \in DOMAIN size /\ Kind[Names[k]] \notin Skipped
        /\ uuids[i].dev = Names[k] /\ uuids[i].size_mb = MB(size[Names[k]])

Chosen ==
    /\ pc = "inventory" => pick = <<>>
    /\ pick # <<>> => /\ \E d \in ValidSet : pick[1] = d.dev
                      /\ \E d \in ValidSet : pick[2] = d.dev
                      /\ ToSet(pick) = {pick[1], pick[2]}
    /\ PicksSmallest
    /\ pc \in {"early", "poweroff"} => Raided
    /\ pc = "poweroff" => Pairs = {}

DInv == DType /\ Reported /\ Once /\ Chosen

LEMMA NamesFacts ==
    /\ Names \in Seq(STRING) /\ Len(Names) \in Nat /\ DOMAIN Names = 1 .. Len(Names)
    /\ \A a, b \in 1 .. Len(Names) : Names[a] = Names[b] => a = b
    /\ \A k \in 1 .. Len(Names) : Names[k] \in NameSet /\ Names[k] \in STRING
    /\ \A d \in NameSet : \E k \in 1 .. Len(Names) : Names[k] = d
  <1>1. Names \in Seq(STRING) /\ IsInjective(Names)
    BY DiskAssumption
  <1>2. Len(Names) \in Nat /\ DOMAIN Names = 1 .. Len(Names)
    BY <1>1, LenProperties
  <1>3. \A k \in 1 .. Len(Names) : Names[k] \in STRING
    BY <1>1, ElementOfSeq
  <1>4. QED
    BY <1>1, <1>2, <1>3 DEF IsInjective, NameSet, ToSet

LEMMA DInit == Init => DInv
  <1> SUFFICES ASSUME Init PROVE DInv
    OBVIOUS
  <1>1. uuids = <<>> /\ pick = <<>> /\ pc = "inventory" /\ next = 1 /\ raid \in BOOLEAN
    BY DEF Init
  <1>2. PICK devices \in SUBSET NameSet : size \in [devices -> Sizes]
    BY DEF Init
  <1>3. DType
    BY <1>1, <1>2, EmptySeq DEF DType
  <1>4. Reported /\ Once
    BY <1>1 DEF Reported, Once
  <1>5. Chosen
    BY <1>1 DEF Chosen, PicksSmallest, Raided
  <1>6. QED
    BY <1>3, <1>4, <1>5 DEF DInv

LEMMA DInventory ==
    ASSUME DInv, Inventory
    PROVE  DInv'
  <1>1. /\ pc = "inventory" /\ next <= Len(Names) /\ next' = next + 1 /\ pick = <<>>
        /\ UNCHANGED <<size, rm, raid, pc, pick>>
    BY DEF Inventory, DInv, Chosen
  <1>2. next \in Nat /\ next \in 1 .. Len(Names) /\ uuids \in Seq(Disk) /\ Len(uuids) \in Nat
    BY <1>1, NamesFacts, LenProperties DEF DInv, DType
  <1>3. PICK d : d = Names[next]
    OBVIOUS
  <1>4. d \in STRING /\ d \in NameSet
    BY <1>2, <1>3, NamesFacts
  <1>5. Chosen'
    <2>1. pick' = <<>> /\ pc' = "inventory"
      BY <1>1
    <2>2. QED
      BY <2>1 DEF Chosen, PicksSmallest, Raided
  <1>6. CASE d \in DOMAIN size /\ Kind[d] \notin Skipped
    <2>1. PICK e : e = [dev |-> d, size_mb |-> MB(size[d])]
      OBVIOUS
    <2>2. e \in Disk /\ e.dev = d /\ e.size_mb = MB(size[d])
      <3>1. size[d] \in Nat
        BY <1>6, DiskAssumption DEF DInv, DType
      <3>2. MB(size[d]) \in Nat
        BY <3>1 DEF MB
      <3>3. QED
        BY <1>4, <2>1, <3>2 DEF Disk
    <2>3. uuids' = Append(uuids, e)
      BY <1>3, <1>6, <2>1 DEF Inventory
    <2>4. /\ uuids' \in Seq(Disk) /\ Len(uuids') = Len(uuids) + 1
          /\ \A i \in 1 .. Len(uuids) : uuids'[i] = uuids[i]
          /\ uuids'[Len(uuids) + 1] = e
      BY <1>2, <2>2, <2>3, AppendProperties
    <2>5. \A i \in 1 .. Len(uuids') : i \in 1 .. Len(uuids) \/ i = Len(uuids) + 1
      BY <1>2, <2>4
    <2>6. DType'
      BY <1>1, <1>2, <2>4 DEF DInv, DType
    <2>7. Reported'
      <3>1. ASSUME NEW i \in 1 .. Len(uuids')
            PROVE  \E k \in 1 .. Len(Names) :
                     /\ k < next + 1 /\ Names[k] \in DOMAIN size /\ Kind[Names[k]] \notin Skipped
                     /\ uuids'[i].dev = Names[k] /\ uuids'[i].size_mb = MB(size[Names[k]])
        <4>1. CASE i = Len(uuids) + 1
          <5>1. next < next + 1
            BY <1>2
          <5>2. QED
            BY <1>2, <1>3, <1>6, <2>2, <2>4, <4>1, <5>1
        <4>2. CASE i \in 1 .. Len(uuids)
          <5>1. PICK k \in 1 .. Len(Names) :
                  /\ k < next /\ Names[k] \in DOMAIN size /\ Kind[Names[k]] \notin Skipped
                  /\ uuids[i].dev = Names[k] /\ uuids[i].size_mb = MB(size[Names[k]])
            BY <4>2 DEF DInv, Reported
          <5>2. k < next + 1
            BY <1>2, <5>1
          <5>3. QED
            BY <2>4, <4>2, <5>1, <5>2
        <4>3. QED
          BY <2>5, <4>1, <4>2
      <3>2. QED
        BY <1>1, <3>1 DEF Reported
    <2>8. Once'
      <3>1. \A i \in 1 .. Len(uuids) : uuids[i].dev # d
        <4>1. ASSUME NEW i \in 1 .. Len(uuids) PROVE uuids[i].dev # d
          <5>1. PICK k \in 1 .. Len(Names) : k < next /\ uuids[i].dev = Names[k]
            BY DEF DInv, Reported
          <5>2. k # next
            BY <1>2, <5>1
          <5>3. QED
            BY <1>2, <1>3, <5>1, <5>2, NamesFacts
        <4>2. QED
          BY <4>1
      <3>2. ASSUME NEW i \in 1 .. Len(uuids'), NEW j \in 1 .. Len(uuids'), i # j
            PROVE  uuids'[i].dev # uuids'[j].dev
        <4>1. CASE i = Len(uuids) + 1
          BY <2>2, <2>4, <2>5, <3>1, <3>2, <4>1
        <4>2. CASE j = Len(uuids) + 1
          BY <2>2, <2>4, <2>5, <3>1, <3>2, <4>2
        <4>3. CASE i \in 1 .. Len(uuids) /\ j \in 1 .. Len(uuids)
          BY <2>4, <3>2, <4>3 DEF DInv, Once
        <4>4. QED
          BY <2>5, <4>1, <4>2, <4>3
      <3>3. QED
        BY <3>2 DEF Once
    <2>9. QED
      BY <1>5, <2>6, <2>7, <2>8 DEF DInv
  <1>7. CASE ~(d \in DOMAIN size /\ Kind[d] \notin Skipped)
    <2>1. uuids' = uuids
      BY <1>3, <1>7 DEF Inventory
    <2>2. DType' /\ Once'
      BY <1>1, <1>2, <2>1 DEF DInv, DType, Once
    <2>3. Reported'
      <3>1. \A k \in 1 .. Len(Names) : k < next => k < next + 1
        BY <1>2
      <3>2. QED
        BY <1>1, <2>1, <3>1 DEF DInv, Reported
    <2>4. QED
      BY <1>5, <2>2, <2>3 DEF DInv
  <1>8. QED
    BY <1>6, <1>7

\* The machine and the list do not change after the inventory.
LEMMA DFrame ==
    ASSUME DInv, UNCHANGED <<size, rm, raid, next, uuids>>
    PROVE  DType' /\ Reported' /\ Once' /\ ValidSet' = ValidSet /\ Pairs' = Pairs
  BY DEF DInv, DType, Reported, Once, ValidSet, Valid, Pairs, OfSize

\* The choice is kept by the steps that follow it.
LEMMA DKeeps ==
    ASSUME DInv, UNCHANGED <<size, rm, raid, next, uuids, pick>>, pc' # "inventory",
           pc' \in {"early", "poweroff"} => Raided, pc' = "poweroff" => Pairs = {}
    PROVE  DInv'
  <1>1. DType' /\ Reported' /\ Once' /\ ValidSet' = ValidSet /\ Pairs' = Pairs
    BY DFrame
  <1>2. PicksSmallest'
    BY DEF DInv, Chosen, PicksSmallest, Valid
  <1>3. Raided' = Raided
    BY DEF Raided
  <1>4. Chosen'
    BY <1>1, <1>2, <1>3 DEF DInv, Chosen
  <1>5. QED
    BY <1>1, <1>4 DEF DInv

LEMMA DChoose ==
    ASSUME DInv, Choose
    PROVE  DInv'
  <1>1. /\ pick' = Choice(Sorted(valid_disks)) /\ pc' = "render"
        /\ UNCHANGED <<size, rm, raid, next, uuids>>
    BY DEF Choose
  <1>2. DType' /\ Reported' /\ Once' /\ ValidSet' = ValidSet
    BY <1>1, DFrame
  <1>3. CASE pick' = <<>>
    <2>1. Chosen'
      BY <1>1, <1>3 DEF Chosen, PicksSmallest
    <2>2. QED
      BY <1>2, <2>1 DEF DInv
  <1>4. CASE pick' # <<>>
    <2>1. PICK hw : hw = Sorted(valid_disks)
      OBVIOUS
    <2>2. /\ hw \in Seq(Disk) /\ Ascending(hw)
          /\ \A i \in 1 .. Len(hw) : hw[i] \in ValidSet
          /\ \A d \in ValidSet : \E i \in 1 .. Len(hw) : hw[i] = d
          /\ \A i, j \in 1 .. Len(hw) : i # j => hw[i].dev # hw[j].dev
      BY <2>1, HwFacts DEF DInv, DType
    <2>3. PICK p, V : p = pick' /\ V = ValidSet
      OBVIOUS
    <2>4. p = Choice(hw) /\ p # <<>> /\ raid \in BOOLEAN
      BY <1>1, <1>4, <2>1, <2>3 DEF DInv, DType
    <2>5. Best(p, V, raid)
      <3>1. Ranks(hw, V)
        BY <2>2, <2>3 DEF Ranks
      <3>2. QED
        BY <2>2, <2>4, <3>1, ChoiceFacts
    <2> DEFINE C == {d \in V : d.dev \in ToSet(p)}
    <2>6. /\ \A d \in C, e \in V \ C : d.size_mb <= e.size_mb
          /\ Cardinality(C) = IF raid /\ Cardinality(V) >= 2 THEN 2 ELSE 1
          /\ \E d \in V : p[1] = d.dev
          /\ \E d \in V : p[2] = d.dev
          /\ ToSet(p) = {p[1], p[2]}
      BY <2>5 DEF Best
    <2>7. PicksSmallest'
      <3>1. V = {d \in ToSet(uuids') : Valid(d)}
        BY <1>1, <2>3 DEF ValidSet
      <3>2. \A d : Valid(d)' <=> Valid(d)
        BY DEF Valid
      <3>3. PicksSmallest' <=>
              (pick' # <<>> =>
                 /\ \A d \in C, e \in V \ C : d.size_mb <= e.size_mb
                 /\ Cardinality(C) = IF raid' /\ Cardinality(V) >= 2 THEN 2 ELSE 1)
        BY <2>3, <3>1, <3>2 DEF PicksSmallest
      <3>4. QED
        BY <1>1, <2>6, <3>3
    <2>8. Chosen'
      BY <1>1, <1>2, <2>3, <2>6, <2>7 DEF Chosen
    <2>9. QED
      BY <1>2, <2>8 DEF DInv
  <1>5. QED
    BY <1>3, <1>4

LEMMA DNext == DInv /\ [Next]_vars => DInv'
  <1> SUFFICES ASSUME DInv, [Next]_vars PROVE DInv'
    OBVIOUS
  <1>1. CASE Inventory
    BY <1>1, DInventory
  <1>2. CASE Refuse
    BY <1>2, DKeeps DEF Refuse
  <1>3. CASE Choose
    BY <1>3, DChoose
  <1>4. CASE RenderFails
    BY <1>4, DKeeps DEF RenderFails
  <1>5. CASE Render
    <2>1. UNCHANGED <<size, rm, raid, next, uuids, pick>> /\ pc' = IF Raided THEN "early" ELSE "install"
      BY <1>5 DEF Render
    <2>2. QED
      BY <2>1, DKeeps
  <1>6. CASE EarlyCommand
    <2>1. pc = "early" /\ UNCHANGED <<size, rm, raid, next, uuids, pick>>
      BY <1>6 DEF EarlyCommand
    <2>2. pc' = IF Pairs = {} THEN "poweroff" ELSE "install"
      BY <1>6 DEF EarlyCommand
    <2>3. Raided
      BY <2>1 DEF DInv, Chosen
    <2>4. QED
      BY <2>1, <2>2, <2>3, DKeeps
  <1>7. CASE Done \/ UNCHANGED vars
    <2>1. UNCHANGED vars
      BY <1>7 DEF Done
    <2>2. DType' /\ Reported' /\ Once' /\ ValidSet' = ValidSet /\ Pairs' = Pairs
      BY <2>1, DFrame DEF vars
    <2>3. PicksSmallest' /\ Raided' = Raided
      BY <2>1 DEF vars, DInv, Chosen, PicksSmallest, Valid, Raided
    <2>4. QED
      BY <2>1, <2>2, <2>3 DEF vars, DInv, Chosen
  <1>8. QED
    BY <1>1, <1>2, <1>3, <1>4, <1>5, <1>6, <1>7 DEF Next

LEMMA DAlways == Spec => []DInv
  BY DInit, DNext, PTL DEF Spec

-----------------------------------------------------------------------------
(* The theorems *)

\* A member of the list that passes the filter is a disk of the machine.
LEMMA ValidUsable ==
    ASSUME DInv, NEW d \in ValidSet
    PROVE  d.dev \in Usable
  <1>1. PICK i \in 1 .. Len(uuids) : d = uuids[i]
    BY LenProperties DEF ValidSet, ToSet, DInv, DType
  <1>2. PICK k \in 1 .. Len(Names) :
            /\ Names[k] \in DOMAIN size /\ Kind[Names[k]] \notin Skipped
            /\ d.dev = Names[k] /\ d.size_mb = MB(size[Names[k]])
    BY <1>1 DEF DInv, Reported
  <1>3. Substrings[d.dev] = {} /\ d.size_mb > 1024
    BY DEF ValidSet, Valid
  <1>4. Names[k] \in NameSet
    BY NamesFacts
  <1>5. Kind[Names[k]] = "disk"
    BY <1>2, <1>3, <1>4, KernelNames
  <1>6. MB(size[Names[k]]) > 1024
    BY <1>2, <1>3
  <1>7. QED
    BY <1>2, <1>5, <1>6 DEF Usable

LEMMA PickedUsable ==
    ASSUME DInv, pick # <<>>
    PROVE  pick[1] \in Usable /\ pick[2] \in Usable /\ ToSet(pick) = {pick[1], pick[2]}
  BY ValidUsable DEF DInv, Chosen

\* Whatever block devices a machine has, only its disks are installed on: the
\* entries of DISKS_JSON, the filter of the phone-home handler and the names
\* the kernel gives together keep everything else out.
THEOREM OnlyDisksPicked == Spec => []PicksDisks
  <1>1. DInv => PicksDisks
    <2> SUFFICES ASSUME DInv PROVE PicksDisks
      OBVIOUS
    <2>1. CASE pick = <<>>
      <3>1. ToSet(<<>>) = {}
        BY DEF ToSet
      <3>2. QED
        BY <2>1, <3>1 DEF PicksDisks
    <2>2. CASE pick # <<>>
      BY <2>2, PickedUsable DEF PicksDisks
    <2>3. QED
      BY <2>1, <2>2
  <1>2. QED
    BY <1>1, DAlways, PTL

\* The disks chosen are the smallest of those that pass the filter, two of them
\* exactly when RAID is asked for and there are two (sorted_hw in the
\* phone-home handler), for a list of any length.
THEOREM SmallestPicked == Spec => []PicksSmallest
  <1>1. DInv => PicksSmallest
    BY DEF DInv, Chosen
  <1>2. QED
    BY <1>1, DAlways, PTL

\* Two disks of one size that are not removable are found by the early command.
LEMMA EqualFound ==
    ASSUME DInv, NEW a \in Usable \ rm, NEW b \in Usable \ rm, a # b, size[a] = size[b]
    PROVE  size[a] \in Pairs
  <1>1. a \in DOMAIN size \ rm /\ b \in DOMAIN size \ rm /\ Kind[a] = "disk" /\ Kind[b] = "disk"
    BY DEF Usable
  <1>2. size[a] \in Sizes /\ a \in NameSet /\ b \in NameSet
    BY <1>1 DEF DInv, DType
  <1>3. PICK K : K = {d \in DOMAIN size \ rm : Kind[d] = "disk" /\ size[d] = size[a]}
    OBVIOUS
  <1>4. a \in K /\ b \in K
    BY <1>1, <1>3
  <1>5. PICK f : f = Filtered(Names, K)
    OBVIOUS
  <1>6. f \in Seq(STRING) /\ Part(f, Names, Len(Names), K)
    BY <1>5, NamesFacts, FilteredPart
  <1>7. PICK i \in 1 .. Len(f) : f[i] = a
    <2>1. PICK k \in 1 .. Len(Names) : Names[k] = a
      BY <1>2, NamesFacts, Zenon
    <2>2. \A k1 \in 1 .. Len(Names) : Names[k1] \in K => \E m \in 1 .. Len(f) : f[m] = Names[k1]
      BY <1>6 DEF Part
    <2>3. QED
      BY <1>4, <2>1, <2>2, Zenon
  <1>8. PICK j \in 1 .. Len(f) : f[j] = b
    <2>1. PICK k \in 1 .. Len(Names) : Names[k] = b
      BY <1>2, NamesFacts, Zenon
    <2>2. \A k1 \in 1 .. Len(Names) : Names[k1] \in K => \E m \in 1 .. Len(f) : f[m] = Names[k1]
      BY <1>6 DEF Part
    <2>3. QED
      BY <1>4, <2>1, <2>2, Zenon
  <1>9. Len(f) >= 2
    <2>1. i # j /\ Len(f) \in Nat
      BY <1>6, <1>7, <1>8, LenProperties
    <2>2. QED
      BY <2>1
  <1>10. OfSize(size[a]) = f
    BY <1>3, <1>5 DEF OfSize
  <1>11. QED
    BY <1>2, <1>9, <1>10 DEF Pairs

\* A machine is powered off for want of two equal disks only when the server has
\* chosen two that differ or one that is removable: what the handler sees through
\* /sys/block and rounds to MB, and what the early command of the RAID profile
\* sees through lsblk, agree that far.
THEOREM PoweroffNeedsReason == Spec => []PoweroffExplained
  <1>1. DInv => PoweroffExplained
    <2> SUFFICES ASSUME DInv, pc = "poweroff", size[pick[1]] = size[pick[2]],
                        ToSet(pick) \cap rm = {}
                 PROVE  FALSE
      BY DEF PoweroffExplained
    <2>1. Raided /\ Pairs = {}
      BY DEF DInv, Chosen
    <2>2. pick # <<>> /\ pick[1] # pick[2]
      BY <2>1 DEF Raided
    <2>3. pick[1] \in Usable /\ pick[2] \in Usable
      BY <2>2, PickedUsable
    <2>4. ToSet(pick) = {pick[1], pick[2]}
      BY <2>2 DEF DInv, Chosen
    <2>5. pick[1] \notin rm /\ pick[2] \notin rm
      BY <2>4, Zenon
    <2>6. size[pick[1]] \in Pairs
      BY <2>2, <2>3, <2>5, EqualFound
    <2>7. QED
      BY <2>1, <2>6
  <1>2. QED
    BY <1>1, DAlways, PTL
==============================================================================
