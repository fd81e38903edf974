--------------------------- MODULE NeighbourProofs ---------------------------
(***************************************************************************)
(* Proofs about Neighbour, for any number of entries, destinations,        *)
(* devices and packets.  The inductive invariant says of each entry which  *)
(* references it has and what its owners may assume; what an action does   *)
(* to the one entry it changes is a lemma about the record.  A second      *)
(* invariant, Places, follows each packet: it waits in one queue once, or  *)
(* is new, or is in one of the three sets of packets that have left.       *)
(***************************************************************************)
EXTENDS Neighbour, SequenceTheorems, TLAPS

\* n is the entry, c: it is in the cache, h: a call holds it, d: it is being drained
Sound(n, c, h, d) ==
    /\ n.refs = One(c) + n.running + One(h)
    /\ n.refs = 0 => n = Free
    /\ n.running = 1 => c /\ n.discovery = "arp"
    /\ c => n.dest \in Dests /\ (n.discovery = "arp" => n.running = 1)
    /\ n.queue # << >> => c /\ (n.discovery = "arp" \/ d)
    /\ d => h /\ n.discovery = "none"

LEMMA FreeType ==
  Free \in EntryType /\ Free.refs = 0 /\ Free.running = 0 /\ Free.queue = << >> /\ Free.dest = NULL
  BY DEF Free, EntryType

LEMMA Fields ==
  ASSUME NEW n \in EntryType
  PROVE  /\ n.refs \in Nat /\ n.dest \in Dests \cup {NULL} /\ n.discovery \in {"arp", "none"}
         /\ n.running \in {0, 1} /\ n.timeout \in Nat /\ n.queue \in Seq(Nat)
  BY DEF EntryType

\* an entry whose last reference goes is freed
LEMMA Put ==
  ASSUME NEW n \in EntryType, n.refs # 0
  PROVE  /\ n.refs = 1 => ref_put(n) = Free
         /\ n.refs # 1 => /\ ref_put(n) \in EntryType /\ ref_put(n).refs = n.refs - 1
                          /\ ref_put(n).dest = n.dest /\ ref_put(n).discovery = n.discovery
                          /\ ref_put(n).running = n.running /\ ref_put(n).queue = n.queue
  <1>1. n.refs - 1 \in Nat BY Fields
  <1> QED BY <1>1 DEF ref_put, EntryType

\* ref_put gives the reference of a call back
LEMMA Released ==
  ASSUME NEW n \in EntryType, NEW c \in BOOLEAN, NEW d \in BOOLEAN, Sound(n, c, TRUE, d),
         d => n.queue = << >>
  PROVE  /\ ref_put(n) \in EntryType /\ Sound(ref_put(n), c, FALSE, FALSE)
         /\ c => ref_put(n).dest = n.dest /\ ref_put(n).queue = n.queue
  <1>1. n.refs # 0 BY Fields DEF Sound, One
  <1>2. CASE n.refs = 1
    <2>1. ~c BY <1>2, Fields DEF Sound, One
    <2>2. ref_put(n) = Free BY <1>1, <1>2, Put
    <2> QED BY <2>1, <2>2, FreeType DEF Sound, One
  <1>3. CASE n.refs # 1
    <2>1. /\ ref_put(n) \in EntryType /\ ref_put(n).refs = n.refs - 1
          /\ ref_put(n).dest = n.dest /\ ref_put(n).discovery = n.discovery
          /\ ref_put(n).running = n.running /\ ref_put(n).queue = n.queue
      BY <1>1, <1>3, Put
    <2>2. n.refs \in Nat /\ n.running \in {0, 1} /\ n.refs = One(c) + n.running + 1
      BY Fields DEF Sound, One
    <2>3. n.refs - 1 # 0 /\ n.refs - 1 = One(c) + n.running + 0 BY <2>2, <1>1, <1>3 DEF One
    <2>4. n.queue # << >> => c /\ n.discovery = "arp" BY DEF Sound
    <2>5. /\ n.running = 1 => c /\ n.discovery = "arp"
          /\ c => n.dest \in Dests /\ (n.discovery = "arp" => n.running = 1)
      BY DEF Sound
    <2> QED BY <2>1, <2>3, <2>4, <2>5 DEF Sound, One
  <1> QED BY <1>2, <1>3

\* stop_timer of an entry that has another reference
LEMMA Stopped ==
  ASSUME NEW n \in EntryType, n.refs > n.running
  PROVE  /\ stop_timer(n) \in EntryType
         /\ stop_timer(n).refs = n.refs - n.running /\ stop_timer(n).running = 0
         /\ stop_timer(n).dest = n.dest /\ stop_timer(n).discovery = n.discovery
         /\ stop_timer(n).queue = n.queue
  <1> DEFINE m == [n EXCEPT !.running = 0]
  <1>1. CASE n.running = 1
    <2>1. /\ m \in EntryType /\ m.refs = n.refs /\ m.running = 0
          /\ m.dest = n.dest /\ m.discovery = n.discovery /\ m.queue = n.queue
      BY DEF EntryType
    <2>2. stop_timer(n) = ref_put(m) BY <1>1 DEF stop_timer
    <2> HIDE DEF m
    <2>3. n.refs # 0 /\ n.refs # 1 BY <1>1, Fields
    <2> QED BY <1>1, <2>1, <2>2, <2>3, Put
  <1>2. CASE n.running # 1
    <2>1. n.running = 0 /\ stop_timer(n) = n BY <1>2, Fields DEF stop_timer
    <2> QED BY <2>1, Fields
  <1> QED BY <1>1, <1>2

\* neighbour_destroy takes the cache's reference and the timer's
LEMMA DestroyedSound ==
  ASSUME NEW n \in EntryType, NEW h \in BOOLEAN, NEW d \in BOOLEAN, Sound(n, TRUE, h, d)
  PROVE  Destroyed(n) \in EntryType /\ Sound(Destroyed(n), FALSE, h, d)
  <1> DEFINE m == [stop_timer(n) EXCEPT !.queue = << >>]
  <1>1. n.refs = 1 + n.running + One(h) BY DEF Sound, One
  <1>2. n.refs > n.running BY <1>1, Fields DEF One
  <1>3. << >> \in Seq(Nat) OBVIOUS
  <1>4. /\ m \in EntryType /\ m.running = 0 /\ m.queue = << >>
        /\ m.discovery = n.discovery /\ m.refs = n.refs - n.running
    BY <1>2, <1>3, Stopped DEF EntryType
  <1>5. Destroyed(n) = ref_put(m) BY DEF Destroyed
  <1> HIDE DEF m
  <1>6. m.refs = 1 + One(h) BY <1>1, <1>4, Fields DEF One
  <1>7. d => h /\ m.discovery = "none" BY <1>4 DEF Sound
  <1>8. CASE h
    <2>1. m.refs = 2 BY <1>6, <1>8 DEF One
    <2>2. /\ ref_put(m) \in EntryType /\ ref_put(m).refs = 1 /\ ref_put(m).discovery = m.discovery
          /\ ref_put(m).running = 0 /\ ref_put(m).queue = << >>
      BY <2>1, <1>4, Put
    <2> QED BY <2>2, <1>5, <1>7, <1>8 DEF Sound, One
  <1>9. CASE ~h
    <2>1. Destroyed(n) = Free BY <1>4, <1>5, <1>6, <1>9, Put DEF One
    <2> QED BY <2>1, <1>7, <1>9, FreeType DEF Sound, One
  <1> QED BY <1>8, <1>9

\* neighbour_discovered, up to the loop of neighbour_tx_queue
LEMMA UpdatedSound ==
  ASSUME NEW n \in EntryType, Sound(n, TRUE, FALSE, FALSE)
  PROVE  /\ neighbour_discovered(n) \in EntryType /\ Sound(neighbour_discovered(n), TRUE, TRUE, TRUE)
         /\ neighbour_discovered(n).dest = n.dest /\ neighbour_discovered(n).queue = n.queue
  <1> DEFINE m == [n EXCEPT !.discovery = "none"]
             k == stop_timer(m)
  <1>1. /\ m \in EntryType /\ m.refs = n.refs /\ m.running = n.running
        /\ m.dest = n.dest /\ m.discovery = "none" /\ m.queue = n.queue
    BY DEF EntryType
  <1>2. n.refs = 1 + n.running /\ n.dest \in Dests BY Fields DEF Sound, One
  <1> HIDE DEF m
  <1>3. /\ k \in EntryType /\ k.refs = 1 /\ k.running = 0
        /\ k.dest = n.dest /\ k.discovery = "none" /\ k.queue = n.queue
    <2>1. m.refs > m.running /\ m.refs - m.running = 1 BY <1>1, <1>2, Fields
    <2> QED BY <1>1, <2>1, Stopped
  <1>4. neighbour_discovered(n) = [k EXCEPT !.refs = k.refs + 1] BY DEF neighbour_discovered, ref_get, m
  <1> HIDE DEF k
  <1>5. /\ neighbour_discovered(n) \in EntryType /\ neighbour_discovered(n).refs = 2
        /\ neighbour_discovered(n).running = 0 /\ neighbour_discovered(n).discovery = "none"
        /\ neighbour_discovered(n).dest = n.dest /\ neighbour_discovered(n).queue = n.queue
    BY <1>3, <1>4 DEF EntryType
  <1> QED BY <1>2, <1>5 DEF Sound, One

LEMMA ExpiredFields ==
  ASSUME NEW n \in EntryType
  PROVE  /\ Expired(n) \in EntryType /\ Expired(n).refs = n.refs /\ Expired(n).running = 0
         /\ Expired(n).dest = n.dest /\ Expired(n).discovery = n.discovery /\ Expired(n).queue = n.queue
  <1> DEFINE t == IF 2 * n.timeout > MaxTimeout THEN MaxTimeout ELSE 2 * n.timeout
  <1>1. t \in Nat BY NeighbourAssumption, Fields
  <1>2. Expired(n) = [n EXCEPT !.running = 0, !.timeout = t] BY DEF Expired
  <1> HIDE DEF t
  <1> QED BY <1>1, <1>2 DEF EntryType

\* timer_expired and start_timer
LEMMA RetriedSound ==
  ASSUME NEW n \in EntryType, Sound(n, TRUE, FALSE, FALSE), n.running = 1
  PROVE  /\ start_timer(Expired(n)) \in EntryType
         /\ Sound(start_timer(Expired(n)), TRUE, TRUE, FALSE)
         /\ start_timer(Expired(n)).dest = n.dest /\ start_timer(Expired(n)).queue = n.queue
  <1> DEFINE m == Expired(n)
             t == IF m.timeout < MinTimeout THEN MinTimeout ELSE m.timeout
             k == start_timer(m)
  <1>1. /\ m \in EntryType /\ m.refs = n.refs /\ m.running = 0
        /\ m.dest = n.dest /\ m.discovery = n.discovery /\ m.queue = n.queue
    BY ExpiredFields
  <1>2. n.refs = 2 /\ n.dest \in Dests /\ n.discovery = "arp" BY DEF Sound, One
  <1> HIDE DEF m
  <1>3. t \in Nat BY <1>1, NeighbourAssumption, Fields
  <1>4. k = start_timer_fixed(m, t) BY DEF start_timer
  <1> HIDE DEF t
  <1>5. k = [m EXCEPT !.refs = 3, !.running = 1, !.timeout = t]
    <2>1. (IF m.running = 1 THEN m.refs ELSE m.refs + 1) = 3 BY <1>1, <1>2
    <2> QED BY <1>4, <2>1, Zenon DEF start_timer_fixed
  <1> HIDE DEF k
  <1>6. /\ k \in EntryType /\ k.refs = 3 /\ k.running = 1
        /\ k.dest = n.dest /\ k.discovery = n.discovery /\ k.queue = n.queue
    BY <1>1, <1>3, <1>5 DEF EntryType
  <1>7. Sound(k, TRUE, TRUE, FALSE) BY <1>2, <1>6 DEF Sound, One
  <1> QED BY <1>6, <1>7 DEF k, m

\* the last expiry frees the entry
LEMMA GivenUp ==
  ASSUME NEW n \in EntryType, Sound(n, TRUE, FALSE, FALSE), n.running = 1
  PROVE  ref_put(Destroyed(Expired(n))) = Free
  <1> DEFINE m == Expired(n)
             k == [stop_timer(m) EXCEPT !.queue = << >>]
  <1>1. m \in EntryType /\ m.refs = n.refs /\ m.running = 0 BY ExpiredFields
  <1>2. m.refs = 2 BY <1>1 DEF Sound, One
  <1>3. << >> \in Seq(Nat) OBVIOUS
  <1>4. k \in EntryType /\ k.refs = 2
    <2>1. stop_timer(m) \in EntryType /\ stop_timer(m).refs = 2 BY <1>1, <1>2, Stopped
    <2> HIDE DEF m
    <2> QED BY <1>3, <2>1 DEF EntryType
  <1>5. Destroyed(m) = ref_put(k) BY DEF Destroyed
  <1> HIDE DEF m, k
  <1>6. Destroyed(m) \in EntryType /\ Destroyed(m).refs = 1 BY <1>4, <1>5, Put
  <1>7. ref_put(Destroyed(m)) = Free BY <1>6, Put
  <1> QED BY <1>7 DEF m

\* neighbour_create, neighbour_discover and the first packet
LEMMA CreatedSound ==
  ASSUME NEW dd \in Dests, NEW p \in Nat
  PROVE  LET m == [neighbour_create(dd) EXCEPT !.queue = <<p>>]
         IN  m \in EntryType /\ Sound(m, TRUE, FALSE, FALSE) /\ m.dest = dd /\ m.queue = <<p>>
  <1> DEFINE f == [Free EXCEPT !.refs = 1, !.dest = dd, !.discovery = "arp"]
             g == neighbour_create(dd)
             m == [g EXCEPT !.queue = <<p>>]
  <1>1. /\ f \in EntryType /\ f.refs = 1 /\ f.running = 0
        /\ f.dest = dd /\ f.discovery = "arp"
    BY FreeType DEF EntryType
  <1>2. g = start_timer_fixed(f, 0) BY DEF neighbour_create
  <1> HIDE DEF f, g
  <1>3. (IF f.running = 1 THEN f.refs ELSE f.refs + 1) = 2 BY <1>1
  <1>4. g = [f EXCEPT !.refs = 2, !.running = 1, !.timeout = 0]
    BY <1>2, <1>3, Zenon DEF start_timer_fixed
  <1>5. /\ g \in EntryType /\ g.refs = 2 /\ g.running = 1 /\ g.dest = dd /\ g.discovery = "arp"
    BY <1>1, <1>4 DEF EntryType
  <1>6. <<p>> \in Seq(Nat) OBVIOUS
  <1>7. /\ m \in EntryType /\ m.refs = 2 /\ m.running = 1
        /\ m.dest = dd /\ m.discovery = "arp" /\ m.queue = <<p>>
    BY <1>5, <1>6 DEF EntryType
  <1> HIDE DEF m
  <1>8. Sound(m, TRUE, FALSE, FALSE) BY <1>7 DEF Sound, One
  <1> QED BY <1>7, <1>8 DEF m, g

----------------------------------------------------------------------------
(* The cache *)

NoDup(s) == \A i, j \in DOMAIN s : s[i] = s[j] => i = j

LEMMA Unlinked ==
  ASSUME NEW e \in Range(cache), cache \in Seq(Entries), NoDup(cache)
  PROVE  /\ Unlink(e) \in Seq(Entries)
         /\ NoDup(Unlink(e))
         /\ Range(Unlink(e)) = Range(cache) \ {e}
  <1> DEFINE k == CHOOSE i \in DOMAIN cache : cache[i] = e
             u == Unlink(e)
  <1>1. k \in 1 .. Len(cache) /\ cache[k] = e BY DEF Range
  <1> HIDE DEF k
  <1>2. u = SubSeq(cache, 1, k - 1) \o SubSeq(cache, k + 1, Len(cache))
    BY DEF Unlink, k
  <1>3. /\ u \in Seq(Entries) /\ Len(u) = Len(cache) - 1
        /\ \A i \in 1 .. Len(u) : u[i] = IF i < k THEN cache[i] ELSE cache[i + 1]
    <2> DEFINE a == SubSeq(cache, 1, k - 1)
               b == SubSeq(cache, k + 1, Len(cache))
    <2>1. /\ a \in Seq(Entries) /\ Len(a) = k - 1 /\ \A i \in 1 .. (k - 1) : a[i] = cache[i]
          /\ b \in Seq(Entries) /\ Len(b) = Len(cache) - k /\ \A i \in 1 .. (Len(cache) - k) : b[i] = cache[k + i]
      BY <1>1
    <2>2. u = a \o b BY <1>2
    <2> HIDE DEF a, b, u
    <2>3. /\ u \in Seq(Entries) /\ Len(u) = Len(a) + Len(b)
          /\ \A i \in 1 .. (Len(a) + Len(b)) : u[i] = IF i <= Len(a) THEN a[i] ELSE b[i - Len(a)]
      BY <2>1, <2>2, ConcatProperties
    <2>4. Len(u) = Len(cache) - 1 BY <1>1, <2>1, <2>3
    <2>5. ASSUME NEW i \in 1 .. Len(u) PROVE u[i] = IF i < k THEN cache[i] ELSE cache[i + 1]
      <3>1. CASE i < k BY <3>1, <1>1, <2>1, <2>3, <2>4
      <3>2. CASE ~(i < k)
        <4>1. i - Len(a) \in 1 .. (Len(cache) - k) /\ k + (i - Len(a)) = i + 1 BY <3>2, <1>1, <2>1, <2>4
        <4>2. b[i - Len(a)] = cache[i + 1] BY <4>1, <2>1
        <4>3. i \in 1 .. (Len(a) + Len(b)) /\ ~(i <= Len(a)) BY <3>2, <1>1, <2>1, <2>3
        <4>4. u[i] = b[i - Len(a)] BY <4>3, <2>3
        <4> QED BY <3>2, <4>2, <4>4
      <3> QED BY <3>1, <3>2
    <2> QED BY <2>3, <2>4, <2>5
  <1> HIDE DEF u
  <1>4. NoDup(u)
    <2> SUFFICES ASSUME NEW i \in 1 .. Len(u), NEW j \in 1 .. Len(u), u[i] = u[j] PROVE i = j
      BY <1>3 DEF NoDup
    <2> DEFINE x == IF i < k THEN i ELSE i + 1
               y == IF j < k THEN j ELSE j + 1
    <2>1. x \in DOMAIN cache /\ y \in DOMAIN cache /\ cache[x] = cache[y] BY <1>1, <1>3
    <2>2. x = y BY <2>1 DEF NoDup
    <2> QED BY <2>2, <1>1
  <1>5. ASSUME NEW x \in Range(u) PROVE x \in Range(cache) /\ x # e
    <2>1. PICK i \in 1 .. Len(u) : x = u[i] BY <1>3 DEF Range
    <2> DEFINE y == IF i < k THEN i ELSE i + 1
    <2>2. y \in DOMAIN cache /\ cache[y] = x /\ y # k BY <2>1, <1>1, <1>3
    <2> QED BY <2>2, <1>1 DEF NoDup, Range
  <1>6. ASSUME NEW x \in Range(cache), x # e PROVE x \in Range(u)
    <2>1. PICK i \in 1 .. Len(cache) : x = cache[i] BY DEF Range
    <2>2. i # k BY <2>1, <1>6, <1>1
    <2> DEFINE y == IF i < k THEN i ELSE i - 1
    <2>3. y \in 1 .. Len(u) /\ u[y] = x BY <2>1, <2>2, <1>1, <1>3
    <2> HIDE DEF y
    <2> QED BY <2>3, <1>3 DEF Range
  <1> QED BY <1>3, <1>4, <1>5, <1>6 DEF u

LEMMA Consed ==
  ASSUME NEW s \in Seq(Entries), NoDup(s), NEW e \in Entries, e \notin Range(s)
  PROVE  /\ <<e>> \o s \in Seq(Entries) /\ NoDup(<<e>> \o s)
         /\ Range(<<e>> \o s) = Range(s) \cup {e}
  <1> DEFINE u == <<e>> \o s
  <1>1. /\ u \in Seq(Entries) /\ Len(u) = Len(s) + 1 /\ u[1] = e
        /\ \A i \in 2 .. Len(u) : u[i] = s[i - 1]
    OBVIOUS
  <1> HIDE DEF u
  <1>2. \A i \in 2 .. Len(u) : i - 1 \in DOMAIN s /\ u[i] # e /\ u[i] \in Range(s) BY <1>1 DEF Range
  <1>3. NoDup(u)
    <2> SUFFICES ASSUME NEW i \in 1 .. Len(u), NEW j \in 1 .. Len(u), u[i] = u[j] PROVE i = j
      BY <1>1 DEF NoDup
    <2>1. CASE i = 1 \/ j = 1 BY <2>1, <1>1, <1>2
    <2>2. CASE i # 1 /\ j # 1
      <3>1. s[i - 1] = s[j - 1] /\ i - 1 \in DOMAIN s /\ j - 1 \in DOMAIN s BY <2>2, <1>1, <1>2
      <3> QED BY <3>1 DEF NoDup
    <2> QED BY <2>1, <2>2
  <1>4. ASSUME NEW x \in Range(s) PROVE x \in Range(u)
    <2>1. PICK i \in 1 .. Len(s) : x = s[i] BY DEF Range
    <2>2. i + 1 \in 1 .. Len(u) /\ u[i + 1] = x BY <2>1, <1>1
    <2>3. DOMAIN u = 1 .. Len(u) BY <1>1
    <2> QED BY <2>2, <2>3, Zenon DEF Range
  <1>5. e \in Range(u) BY <1>1 DEF Range
  <1>6. ASSUME NEW x \in Range(u), x # e PROVE x \in Range(s)
    <2>1. PICK i \in 1 .. Len(u) : x = u[i] BY <1>1 DEF Range
    <2> QED BY <2>1, <1>1, <1>2, <1>6
  <1> QED BY <1>1, <1>3, <1>4, <1>5, <1>6 DEF u

LEMMA Fronted ==
  ASSUME NEW e \in Range(cache), cache \in Seq(Entries), NoDup(cache)
  PROVE  ToFront(e) \in Seq(Entries) /\ NoDup(ToFront(e)) /\ Range(ToFront(e)) = Range(cache)
  <1>1. e \in Entries BY DEF Range
  <1> DEFINE u == Unlink(e)
  <1>2. u \in Seq(Entries) /\ NoDup(u) /\ Range(u) = Range(cache) \ {e} BY Unlinked
  <1>3. ToFront(e) = <<e>> \o u BY DEF ToFront
  <1> HIDE DEF u
  <1>4. /\ <<e>> \o u \in Seq(Entries) /\ NoDup(<<e>> \o u)
        /\ Range(<<e>> \o u) = Range(u) \cup {e}
    BY <1>1, <1>2, Consed
  <1> QED BY <1>2, <1>3, <1>4

LEMMA OldestCached ==
  ASSUME cache \in Seq(Entries), cache # << >>
  PROVE  Oldest \in Range(cache)
  <1>1. Len(cache) \in 1 .. Len(cache) /\ DOMAIN cache = 1 .. Len(cache) OBVIOUS
  <1> QED BY <1>1 DEF Oldest, Range

----------------------------------------------------------------------------
(* The queues: the packets of one destination, in the order of their arrival *)

Sorted(q, d, ds) ==
    \A i \in 1 .. Len(q) :
        /\ q[i] \in 1 .. Len(ds) /\ ds[q[i]] = d
        /\ \A j \in 1 .. Len(q) : i < j => q[i] < q[j]

LEMMA SortedEmpty == ASSUME NEW d, NEW ds PROVE Sorted(<< >>, d, ds)
  BY DEF Sorted

LEMMA SortedGrows ==
  ASSUME NEW q \in Seq(Nat), NEW d, NEW ds \in Seq(Dests), NEW es \in Seq(Dests),
         Len(ds) <= Len(es), \A i \in 1 .. Len(ds) : es[i] = ds[i], Sorted(q, d, ds)
  PROVE  Sorted(q, d, es)
  BY DEF Sorted

LEMMA SortedAppend ==
  ASSUME NEW q \in Seq(Nat), NEW d \in Dests, NEW ds \in Seq(Dests), Sorted(q, d, ds)
  PROVE  Append(q, Len(ds) + 1) \in Seq(Nat) /\ Sorted(Append(q, Len(ds) + 1), d, Append(ds, d))
  <1> DEFINE r == Append(q, Len(ds) + 1)
             es == Append(ds, d)
  <1>1. /\ r \in Seq(Nat) /\ Len(r) = Len(q) + 1 /\ r[Len(q) + 1] = Len(ds) + 1
        /\ \A i \in 1 .. Len(q) : r[i] = q[i]
    OBVIOUS
  <1>2. /\ es \in Seq(Dests) /\ Len(es) = Len(ds) + 1 /\ es[Len(ds) + 1] = d
        /\ \A i \in 1 .. Len(ds) : es[i] = ds[i]
    OBVIOUS
  <1> HIDE DEF r, es
  <1>3. \A i \in 1 .. Len(q) : q[i] \in 1 .. Len(ds) /\ ds[q[i]] = d BY DEF Sorted
  <1>4. ASSUME NEW i \in 1 .. Len(r) PROVE r[i] \in 1 .. Len(es) /\ es[r[i]] = d
    <2>1. CASE i = Len(q) + 1 BY <2>1, <1>1, <1>2
    <2>2. CASE i # Len(q) + 1
      <3>1. i \in 1 .. Len(q) BY <2>2, <1>1
      <3>2. r[i] = q[i] /\ q[i] \in 1 .. Len(ds) /\ ds[q[i]] = d BY <3>1, <1>1, <1>3
      <3>3. es[q[i]] = d BY <3>2, <1>2
      <3>4. q[i] \in 1 .. Len(es) BY <3>2, <1>2
      <3> QED BY <3>2, <3>3, <3>4
    <2> QED BY <2>1, <2>2
  <1>5. ASSUME NEW i \in 1 .. Len(r), NEW j \in 1 .. Len(r), i < j PROVE r[i] < r[j]
    <2>1. i \in 1 .. Len(q) BY <1>1, <1>5
    <2>2. CASE j = Len(q) + 1
      <3>1. r[i] = q[i] /\ q[i] \in 1 .. Len(ds) BY <2>1, <1>1, <1>3
      <3>2. r[j] = Len(ds) + 1 BY <2>2, <1>1
      <3> QED BY <3>1, <3>2
    <2>3. CASE j # Len(q) + 1
      <3>1. j \in 1 .. Len(q) BY <2>3, <1>1
      <3> QED BY <3>1, <2>1, <1>1, <1>5 DEF Sorted
    <2> QED BY <2>2, <2>3
  <1>6. Sorted(r, d, es) BY <1>4, <1>5 DEF Sorted
  <1> QED BY <1>1, <1>6 DEF r, es

LEMMA SortedTail ==
  ASSUME NEW q \in Seq(Nat), q # << >>, NEW d, NEW ds, Sorted(q, d, ds)
  PROVE  Tail(q) \in Seq(Nat) /\ Sorted(Tail(q), d, ds)
  <1>1. /\ Tail(q) \in Seq(Nat) /\ Len(Tail(q)) = Len(q) - 1
        /\ \A i \in 1 .. Len(Tail(q)) : Tail(q)[i] = q[i + 1]
    OBVIOUS
  <1> DEFINE t == Tail(q)
  <1> HIDE DEF t
  <1>2. \A i \in 1 .. Len(t) : i + 1 \in 1 .. Len(q) /\ t[i] = q[i + 1] BY <1>1 DEF t
  <1>3. Sorted(t, d, ds)
    <2> SUFFICES ASSUME NEW i \in 1 .. Len(t)
                 PROVE  /\ t[i] \in 1 .. Len(ds) /\ ds[t[i]] = d
                        /\ \A j \in 1 .. Len(t) : i < j => t[i] < t[j]
      BY DEF Sorted
    <2>1. t[i] \in 1 .. Len(ds) /\ ds[t[i]] = d BY <1>2 DEF Sorted
    <2>2. ASSUME NEW j \in 1 .. Len(t), i < j PROVE t[i] < t[j]
      <3>1. i + 1 < j + 1 BY <2>2
      <3> QED BY <3>1, <1>2 DEF Sorted
    <2> QED BY <2>1, <2>2
  <1> QED BY <1>1, <1>3 DEF t

----------------------------------------------------------------------------
(* The invariant *)

Draining(e) == at.e = e /\ at.pc = "drain"

AtOK ==
    /\ at.pc \in {"idle", "create"} => at.e = NULL
    /\ at.pc \in {"drain", "request"} => at.e \in Entries
    /\ at.pc = "create" => Len(dest) > 0 /\ \A f \in Range(cache) : nb[f].dest # dest[Len(dest)]

AllSound == \A e \in Entries : Sound(nb[e], e \in Range(cache), at.e = e, Draining(e))

Unique == \A e, f \in Range(cache) : nb[e].dest = nb[f].dest => e = f

AllSorted == \A e \in Entries : Sorted(nb[e].queue, nb[e].dest, dest)

Inv == TypeOK /\ NoDup(cache) /\ AtOK /\ AllSound /\ Unique /\ AllSorted

LEMMA InitInv == Init => Inv
  <1> SUFFICES ASSUME Init PROVE Inv OBVIOUS
  <1>1. nb \in [Entries -> EntryType] /\ \A e \in Entries : nb[e] = Free BY FreeType DEF Init
  <1>2. cache \in Seq(Entries) /\ Range(cache) = {} /\ NoDup(cache) BY DEF Init, Range, NoDup
  <1>3. at.pc = "idle" /\ at.e = NULL /\ at \in [pc : {"idle", "create", "drain", "request"}, e : Entries \cup {NULL}]
    BY DEF Init, Idle
  <1>4. TypeOK BY <1>1, <1>2, <1>3 DEF Init, TypeOK
  <1>5. AtOK BY <1>3 DEF AtOK
  <1>6. AllSound BY <1>1, <1>2, <1>3, NeighbourAssumption, FreeType DEF AllSound, Sound, One, Draining
  <1>7. Unique BY <1>2 DEF Unique
  <1>8. AllSorted BY <1>1, FreeType, SortedEmpty DEF AllSorted
  <1> QED BY <1>2, <1>4, <1>5, <1>6, <1>7, <1>8 DEF Inv

\* the entry e becomes n; of the others, nothing that concerns them changes
LEMMA Replaced ==
  ASSUME Inv, NEW e \in Entries, NEW n \in EntryType, nb' = [nb EXCEPT ![e] = n],
         cache' \in Seq(Entries), NoDup(cache'),
         \A f \in Entries \ {e} : f \in Range(cache') <=> f \in Range(cache),
         at' \in [pc : {"idle", "create", "drain", "request"}, e : Entries \cup {NULL}], AtOK',
         \A f \in Entries \ {e} : (at'.e = f <=> at.e = f) /\ (Draining(f)' <=> Draining(f)),
         Sound(n, e \in Range(cache'), at'.e = e, Draining(e)'),
         e \in Range(cache') => \A f \in Range(cache) \ {e} : nb[f].dest # n.dest,
         dest' \in Seq(Dests), Len(dest) <= Len(dest'), \A i \in 1 .. Len(dest) : dest'[i] = dest[i],
         Sorted(n.queue, n.dest, dest'),
         open' \subseteq Devs, sent' \subseteq Nat, failed' \subseteq Nat, refused' \subseteq Nat
  PROVE  Inv'
  <1>1. nb' \in [Entries -> EntryType] /\ nb'[e] = n /\ \A f \in Entries \ {e} : nb'[f] = nb[f]
    BY DEF Inv, TypeOK
  <1>2. TypeOK' BY <1>1 DEF TypeOK
  <1>3. AllSound'
    <2> SUFFICES ASSUME NEW f \in Entries
                 PROVE  Sound(nb'[f], f \in Range(cache'), at'.e = f, Draining(f)')
      BY DEF AllSound
    <2>1. CASE f = e BY <2>1, <1>1
    <2>2. CASE f # e
      <3>1. Sound(nb[f], f \in Range(cache), at.e = f, Draining(f)) BY DEF Inv, AllSound
      <3>2. nb'[f] = nb[f] BY <2>2, <1>1
      <3>3. (f \in Range(cache')) = (f \in Range(cache)) BY <2>2
      <3>4. (at'.e = f) = (at.e = f) BY <2>2
      <3>5. Draining(f)' = Draining(f) BY <2>2 DEF Draining
      <3> QED BY <3>1, <3>2, <3>3, <3>4, <3>5, Zenon DEF Sound, One
    <2> QED BY <2>1, <2>2
  <1>4. Unique'
    <2>1. Range(cache') \subseteq Entries BY RangeOfSeq
    <2>2. \A f \in Range(cache') \ {e} : f \in Range(cache) /\ nb'[f] = nb[f] BY <2>1, <1>1
    <2> QED BY <2>2, <1>1 DEF Inv, Unique
  <1>5. AllSorted'
    <2> SUFFICES ASSUME NEW f \in Entries PROVE Sorted(nb'[f].queue, nb'[f].dest, dest')
      BY DEF AllSorted
    <2>1. CASE f = e BY <2>1, <1>1
    <2>2. CASE f # e
      <3>1. nb'[f] = nb[f] BY <2>2, <1>1
      <3>2. Sorted(nb[f].queue, nb[f].dest, dest) BY DEF Inv, AllSorted
      <3>3. nb[f].queue \in Seq(Nat) /\ dest \in Seq(Dests) BY Fields DEF Inv, TypeOK
      <3>4. Sorted(nb[f].queue, nb[f].dest, dest') BY <3>2, <3>3, SortedGrows
      <3> QED BY <3>1, <3>4
    <2> QED BY <2>1, <2>2
  <1> QED BY <1>2, <1>3, <1>4, <1>5 DEF Inv

----------------------------------------------------------------------------
(* The actions *)

\* what is known of a cached entry
LEMMA InCache ==
  ASSUME Inv, NEW e \in Range(cache)
  PROVE  /\ e \in Entries /\ nb[e] \in EntryType
         /\ Sound(nb[e], TRUE, at.e = e, Draining(e))
         /\ \A f \in Range(cache) \ {e} : nb[f].dest # nb[e].dest
         /\ Sorted(nb[e].queue, nb[e].dest, dest)
         /\ cache \in Seq(Entries) /\ NoDup(cache) /\ dest \in Seq(Dests)
  <1>1. cache \in Seq(Entries) /\ NoDup(cache) /\ dest \in Seq(Dests) BY DEF Inv, TypeOK
  <1>2. e \in Entries BY <1>1, RangeOfSeq
  <1>3. nb[e] \in EntryType BY <1>2 DEF Inv, TypeOK
  <1>4. Sound(nb[e], TRUE, at.e = e, Draining(e))
    <2>1. Sound(nb[e], e \in Range(cache), at.e = e, Draining(e)) BY <1>2 DEF Inv, AllSound
    <2>2. (e \in Range(cache)) = TRUE OBVIOUS
    <2> QED BY <2>1, <2>2, Zenon DEF Sound, One
  <1> QED BY <1>1, <1>2, <1>3, <1>4 DEF Inv, Unique, AllSorted

LEMMA IdleCached ==
  ASSUME Inv, at.pc = "idle", NEW e \in Range(cache)
  PROVE  /\ Sound(nb[e], TRUE, FALSE, FALSE)
         /\ nb[e].queue # << >> => nb[e].discovery = "arp"
         /\ at.e = NULL /\ \A f \in Entries : at.e # f /\ ~Draining(f)
  <1>1. at.e = NULL /\ \A f \in Entries : at.e # f /\ ~Draining(f)
    BY NeighbourAssumption DEF Inv, AtOK, Draining
  <1>2. e \in Entries /\ Sound(nb[e], TRUE, at.e = e, Draining(e)) BY InCache
  <1>3. (at.e = e) = FALSE /\ Draining(e) = FALSE BY <1>1, <1>2 DEF Draining
  <1>4. Sound(nb[e], TRUE, FALSE, FALSE) BY <1>2, <1>3, Zenon DEF Sound, One
  <1> QED BY <1>1, <1>4 DEF Sound

LEMMA Grown ==
  ASSUME NEW ds \in Seq(Dests), NEW d \in Dests
  PROVE  /\ Append(ds, d) \in Seq(Dests) /\ Len(Append(ds, d)) = Len(ds) + 1
         /\ Append(ds, d)[Len(ds) + 1] = d /\ Len(ds) <= Len(Append(ds, d))
         /\ \A i \in 1 .. Len(ds) : Append(ds, d)[i] = ds[i]
  OBVIOUS

LEMMA TxInv == ASSUME Inv, NEW d \in Dests, Tx(d) PROVE Inv'
  <1>1. PICK e \in Range(cache) :
          /\ nb[e].dest = d /\ cache' = ToFront(e)
          /\ IF nb[e].discovery = "arp"
             THEN /\ nb' = [nb EXCEPT ![e].queue = Append(@, Len(dest'))]
                  /\ UNCHANGED <<sent, failed>>
             ELSE net_tx(Len(dest'), d) /\ UNCHANGED nb
    BY DEF Tx, Cached
  <1>2. at.pc = "idle" /\ dest' = Append(dest, d) /\ UNCHANGED <<open, at, refused>> BY DEF Tx
  <1>3. /\ e \in Entries /\ nb[e] \in EntryType /\ dest \in Seq(Dests)
        /\ \A f \in Range(cache) \ {e} : nb[f].dest # nb[e].dest
        /\ Sorted(nb[e].queue, nb[e].dest, dest)
    BY InCache
  <1>4. /\ Sound(nb[e], TRUE, FALSE, FALSE) /\ at.e = NULL
        /\ \A f \in Entries : at.e # f /\ ~Draining(f)
    BY <1>2, IdleCached
  <1>5. cache' \in Seq(Entries) /\ NoDup(cache') /\ Range(cache') = Range(cache)
    BY <1>1, InCache, Fronted
  <1>6. /\ dest' \in Seq(Dests) /\ Len(dest') = Len(dest) + 1 /\ Len(dest) <= Len(dest')
        /\ \A i \in 1 .. Len(dest) : dest'[i] = dest[i]
    BY <1>2, <1>3, Grown
  <1>7. AtOK' BY <1>2, <1>4 DEF AtOK
  <1>8. at' \in [pc : {"idle", "create", "drain", "request"}, e : Entries \cup {NULL}]
    BY <1>2 DEF Inv, TypeOK
  <1>9. open' \subseteq Devs /\ sent' \subseteq Nat /\ failed' \subseteq Nat /\ refused' \subseteq Nat
    BY <1>1, <1>2, <1>3, <1>6 DEF net_tx, Inv, TypeOK
  <1>10. \A f \in Entries : (at'.e = f <=> at.e = f) /\ (Draining(f)' <=> Draining(f))
    BY <1>2 DEF Draining
  <1> DEFINE n == IF nb[e].discovery = "arp" THEN [nb[e] EXCEPT !.queue = Append(nb[e].queue, Len(dest) + 1)]
                  ELSE nb[e]
  <1>11. nb' = [nb EXCEPT ![e] = n] BY <1>1, <1>3, <1>6 DEF Inv, TypeOK
  <1>12. n \in EntryType /\ Sound(n, TRUE, FALSE, FALSE) /\ n.dest = d /\ Sorted(n.queue, n.dest, dest')
    <2>1. CASE nb[e].discovery = "arp"
      <3> DEFINE q == Append(nb[e].queue, Len(dest) + 1)
      <3>1. q \in Seq(Nat) /\ Sorted(q, d, dest')
        BY <1>1, <1>2, <1>3, Fields, SortedAppend
      <3>2. n = [nb[e] EXCEPT !.queue = q] BY <2>1
      <3> HIDE DEF q, n
      <3>3. /\ n \in EntryType /\ n.refs = nb[e].refs /\ n.dest = d /\ n.discovery = "arp"
            /\ n.running = nb[e].running /\ n.queue = q
        BY <1>1, <1>3, <2>1, <3>1, <3>2 DEF EntryType
      <3>4. Sound(n, TRUE, FALSE, FALSE) BY <1>4, <2>1, <3>3, <1>1 DEF Sound, One
      <3> QED BY <3>1, <3>3, <3>4
    <2>2. CASE nb[e].discovery # "arp"
      <3>1. n = nb[e] BY <2>2
      <3> HIDE DEF n
      <3>2. nb[e].queue \in Seq(Nat) BY <1>3, Fields
      <3>3. Sorted(nb[e].queue, nb[e].dest, dest') BY <1>3, <1>6, <3>2, SortedGrows
      <3> QED BY <1>1, <1>3, <1>4, <3>1, <3>3
    <2> QED BY <2>1, <2>2
  <1> HIDE DEF n
  <1>13. Sound(n, e \in Range(cache'), at'.e = e, Draining(e)')
    <2>1. (e \in Range(cache')) = TRUE /\ (at'.e = e) = FALSE /\ Draining(e)' = FALSE
      BY <1>2, <1>3, <1>4, <1>5, <1>10 DEF Draining
    <2> QED BY <2>1, <1>12, Zenon DEF Sound, One
  <1> QED BY <1>1, <1>3, <1>5, <1>6, <1>7, <1>8, <1>9, <1>10, <1>11, <1>12, <1>13, Replaced

LEMMA TxNewInv == ASSUME Inv, NEW d \in Dests, TxNew(d) PROVE Inv'
  <1>1. /\ at.pc = "idle" /\ Cached(d) = {} /\ dest' = Append(dest, d)
        /\ at' = [pc |-> "create", e |-> NULL]
        /\ UNCHANGED <<nb, cache, open, sent, failed, refused>>
    BY DEF TxNew, Idle
  <1>2. dest \in Seq(Dests) /\ cache \in Seq(Entries) BY DEF Inv, TypeOK
  <1>3. /\ dest' \in Seq(Dests) /\ Len(dest') = Len(dest) + 1 /\ dest'[Len(dest')] = d
        /\ Len(dest) <= Len(dest') /\ \A i \in 1 .. Len(dest) : dest'[i] = dest[i]
    BY <1>1, <1>2, Grown
  <1>4. at.e = NULL /\ \A f \in Entries : at.e # f /\ at'.e # f
    BY <1>1, NeighbourAssumption DEF Inv, AtOK
  <1>5. at' \in [pc : {"idle", "create", "drain", "request"}, e : Entries \cup {NULL}] BY <1>1
  <1>6. TypeOK' BY <1>1, <1>3, <1>5 DEF Inv, TypeOK
  <1>7. AtOK'
    <2>1. Len(dest') > 0 BY <1>2, <1>3
    <2>2. \A f \in Range(cache) : nb[f].dest # d BY <1>1 DEF Cached
    <2>3. at'.pc = "create" /\ at'.e = NULL BY <1>1
    <2> QED BY <2>1, <2>2, <2>3, <1>1, <1>3 DEF AtOK
  <1>8. AllSound'
    <2> SUFFICES ASSUME NEW f \in Entries
                 PROVE  Sound(nb'[f], f \in Range(cache'), at'.e = f, Draining(f)')
      BY DEF AllSound
    <2>1. Sound(nb[f], f \in Range(cache), at.e = f, Draining(f)) BY DEF Inv, AllSound
    <2>2. (at'.e = f) = (at.e = f) /\ Draining(f)' = Draining(f) BY <1>4 DEF Draining
    <2> QED BY <2>1, <2>2, <1>1, Zenon DEF Sound, One
  <1>9. AllSorted'
    <2> SUFFICES ASSUME NEW f \in Entries PROVE Sorted(nb[f].queue, nb[f].dest, dest')
      BY <1>1 DEF AllSorted
    <2>1. Sorted(nb[f].queue, nb[f].dest, dest) BY DEF Inv, AllSorted
    <2>2. nb[f].queue \in Seq(Nat) BY Fields DEF Inv, TypeOK
    <2> QED BY <2>1, <2>2, <1>2, <1>3, SortedGrows
  <1> QED BY <1>1, <1>6, <1>7, <1>8, <1>9 DEF Inv, Unique

\* the call returns, and no entry changes
LEMMA CreateFailsInv == ASSUME Inv, CreateFails PROVE Inv'
  <1>1. /\ at.pc = "create" /\ at' = [pc |-> "idle", e |-> NULL]
        /\ refused' = refused \cup {Len(dest)}
        /\ UNCHANGED <<nb, cache, open, dest, sent, failed>>
    BY DEF CreateFails, Idle
  <1>2. at' \in [pc : {"idle", "create", "drain", "request"}, e : Entries \cup {NULL}] BY <1>1
  <1>3. Len(dest) \in Nat BY DEF Inv, TypeOK
  <1>4. TypeOK' BY <1>1, <1>2, <1>3 DEF Inv, TypeOK
  <1>5. \A f \in Entries : at.e # f /\ at'.e # f BY <1>1, NeighbourAssumption DEF Inv, AtOK
  <1>6. AtOK' BY <1>1 DEF AtOK
  <1>7. AllSound'
    <2> SUFFICES ASSUME NEW f \in Entries
                 PROVE  Sound(nb'[f], f \in Range(cache'), at'.e = f, Draining(f)')
      BY DEF AllSound
    <2>1. Sound(nb[f], f \in Range(cache), at.e = f, Draining(f)) BY DEF Inv, AllSound
    <2>2. (at'.e = f) = (at.e = f) /\ Draining(f)' = Draining(f) BY <1>5 DEF Draining
    <2> QED BY <2>1, <2>2, <1>1, Zenon DEF Sound, One
  <1> QED BY <1>1, <1>4, <1>6, <1>7 DEF Inv, Unique, AllSorted

LEMMA CreatedInv == ASSUME Inv, Created PROVE Inv'
  <1> DEFINE p == Len(dest)
             d == dest[p]
             n == [neighbour_create(d) EXCEPT !.queue = <<p>>]
  <1>1. PICK e \in Entries : nb[e] = Free /\ nb' = [nb EXCEPT ![e] = n] /\ cache' = <<e>> \o cache
    BY DEF Created
  <1>2. /\ at.pc = "create" /\ at' = [pc |-> "idle", e |-> NULL]
        /\ UNCHANGED <<open, dest, sent, failed, refused>>
    BY DEF Created, Idle
  <1>3. p \in Nat /\ p > 0 /\ d \in Dests /\ \A f \in Range(cache) : nb[f].dest # d
    BY <1>2 DEF Inv, AtOK, TypeOK
  <1>4. n \in EntryType /\ Sound(n, TRUE, FALSE, FALSE) /\ n.dest = d /\ n.queue = <<p>>
    BY <1>3, CreatedSound
  <1> HIDE DEF n
  <1>5. Sorted(<<p>>, d, dest) BY <1>3 DEF Sorted
  <1>6. e \notin Range(cache)
    <2>1. Sound(nb[e], e \in Range(cache), at.e = e, Draining(e)) BY DEF Inv, AllSound
    <2> QED BY <2>1, <1>1, FreeType, NeighbourAssumption DEF Sound
  <1>7. /\ cache' \in Seq(Entries) /\ NoDup(cache') /\ Range(cache') = Range(cache) \cup {e}
    BY <1>1, <1>6, Consed DEF Inv, TypeOK
  <1>8. \A f \in Entries : at.e # f /\ at'.e # f /\ ~Draining(f) /\ ~Draining(f)'
    BY <1>2, NeighbourAssumption DEF Inv, AtOK, Draining
  <1>9. at' \in [pc : {"idle", "create", "drain", "request"}, e : Entries \cup {NULL}] /\ AtOK'
    BY <1>2 DEF AtOK
  <1>10. Sound(n, e \in Range(cache'), at'.e = e, Draining(e)')
    <2>1. (e \in Range(cache')) = TRUE /\ (at'.e = e) = FALSE /\ Draining(e)' = FALSE
      BY <1>7, <1>8 DEF Draining
    <2> QED BY <2>1, <1>4, Zenon DEF Sound, One
  <1>11. /\ dest' \in Seq(Dests) /\ Len(dest) <= Len(dest') /\ \A i \in 1 .. Len(dest) : dest'[i] = dest[i]
         /\ open' \subseteq Devs /\ sent' \subseteq Nat /\ failed' \subseteq Nat /\ refused' \subseteq Nat
    BY <1>2 DEF Inv, TypeOK
  <1>12. Sorted(n.queue, n.dest, dest') BY <1>2, <1>4, <1>5
  <1> QED BY <1>1, <1>3, <1>4, <1>6, <1>7, <1>8, <1>9, <1>10, <1>11, <1>12, Replaced

\* the variables that a step on one entry leaves alone
LEMMA Kept ==
  ASSUME Inv, UNCHANGED <<open, dest, refused>>
  PROVE  /\ dest' \in Seq(Dests) /\ Len(dest) <= Len(dest') /\ \A i \in 1 .. Len(dest) : dest'[i] = dest[i]
         /\ open' \subseteq Devs /\ refused' \subseteq Nat
  BY DEF Inv, TypeOK

LEMMA UpdateInv == ASSUME Inv, NEW d \in Dests, Update(d) PROVE Inv'
  <1>1. PICK e \in Range(cache) :
          /\ nb[e].dest = d /\ cache' = ToFront(e)
          /\ nb' = [nb EXCEPT ![e] = neighbour_discovered(nb[e])]
          /\ at' = [pc |-> "drain", e |-> e]
    BY DEF Update, Cached
  <1>2. at.pc = "idle" /\ UNCHANGED <<open, dest, sent, failed, refused>> BY DEF Update
  <1> DEFINE n == neighbour_discovered(nb[e])
  <1>3. /\ e \in Entries /\ nb[e] \in EntryType
        /\ \A f \in Range(cache) \ {e} : nb[f].dest # nb[e].dest
        /\ Sorted(nb[e].queue, nb[e].dest, dest)
    BY InCache
  <1>4. Sound(nb[e], TRUE, FALSE, FALSE) /\ \A f \in Entries : at.e # f /\ ~Draining(f)
    BY <1>2, IdleCached
  <1>5. n \in EntryType /\ Sound(n, TRUE, TRUE, TRUE) /\ n.dest = nb[e].dest /\ n.queue = nb[e].queue
    BY <1>3, <1>4, UpdatedSound
  <1> HIDE DEF n
  <1>6. cache' \in Seq(Entries) /\ NoDup(cache') /\ Range(cache') = Range(cache)
    BY <1>1, InCache, Fronted
  <1>7. at' \in [pc : {"idle", "create", "drain", "request"}, e : Entries \cup {NULL}] /\ AtOK'
    BY <1>1, <1>3 DEF AtOK
  <1>8. \A f \in Entries \ {e} : (at'.e = f <=> at.e = f) /\ (Draining(f)' <=> Draining(f))
    BY <1>1, <1>4 DEF Draining
  <1>9. Sound(n, e \in Range(cache'), at'.e = e, Draining(e)')
    <2>1. (e \in Range(cache')) = TRUE /\ (at'.e = e) = TRUE /\ Draining(e)' = TRUE
      BY <1>1, <1>6 DEF Draining
    <2> QED BY <2>1, <1>5, Zenon DEF Sound, One
  <1>10. sent' \subseteq Nat /\ failed' \subseteq Nat BY <1>2 DEF Inv, TypeOK
  <1>11. Sorted(n.queue, n.dest, dest') BY <1>2, <1>3, <1>5
  <1>12. nb' = [nb EXCEPT ![e] = n] BY <1>1 DEF n
  <1> QED BY <1>2, <1>3, <1>5, <1>6, <1>7, <1>8, <1>9, <1>10, <1>11, <1>12, Kept, Replaced

\* the entry that a call is working on
LEMMA InUse ==
  ASSUME Inv, at.pc \in {"drain", "request"}
  PROVE  /\ at.e \in Entries /\ nb[at.e] \in EntryType
         /\ Sound(nb[at.e], at.e \in Range(cache), TRUE, at.pc = "drain")
         /\ at.e \in Range(cache) => \A f \in Range(cache) \ {at.e} : nb[f].dest # nb[at.e].dest
         /\ Sorted(nb[at.e].queue, nb[at.e].dest, dest)
  <1>1. at.e \in Entries BY DEF Inv, AtOK
  <1>2. Sound(nb[at.e], at.e \in Range(cache), at.e = at.e, Draining(at.e))
    BY <1>1 DEF Inv, AllSound
  <1>3. (at.e = at.e) = TRUE /\ Draining(at.e) = (at.pc = "drain") BY DEF Draining
  <1>4. Sound(nb[at.e], at.e \in Range(cache), TRUE, at.pc = "drain")
    BY <1>2, <1>3, Zenon DEF Sound, One
  <1> QED BY <1>1, <1>4 DEF Inv, TypeOK, Unique, AllSorted

LEMMA DrainOneInv == ASSUME Inv, DrainOne PROVE Inv'
  <1>0. PICK e : e = at.e OBVIOUS
  <1> DEFINE q == nb[e].queue
             n == [nb[e] EXCEPT !.queue = Tail(nb[e].queue)]
  <1>1. /\ at.pc = "drain" /\ q # << >> /\ UNCHANGED <<cache, open, at, dest, refused>>
        /\ net_tx(Head(q), nb[e].dest)
    BY <1>0 DEF DrainOne
  <1>2. /\ e \in Entries /\ nb[e] \in EntryType
        /\ Sound(nb[e], e \in Range(cache), TRUE, TRUE)
        /\ e \in Range(cache) => \A f \in Range(cache) \ {e} : nb[f].dest # nb[e].dest
        /\ Sorted(q, nb[e].dest, dest)
    <2>1. (at.pc = "drain") = TRUE BY <1>1
    <2> QED BY <1>0, <1>1, <2>1, InUse
  <1>3. nb' = [nb EXCEPT ![e] = n] BY <1>0, <1>2 DEF DrainOne, Inv, TypeOK
  <1>4. q \in Seq(Nat) BY <1>2, Fields
  <1>5. Tail(q) \in Seq(Nat) /\ Sorted(Tail(q), nb[e].dest, dest) /\ Head(q) \in Nat
    BY <1>1, <1>2, <1>4, SortedTail
  <1>6. /\ n \in EntryType /\ n.refs = nb[e].refs /\ n.dest = nb[e].dest
        /\ n.discovery = nb[e].discovery /\ n.running = nb[e].running /\ n.queue = Tail(q)
    BY <1>2, <1>5 DEF EntryType
  <1>7. n.refs # 0 BY <1>2, <1>6, Fields DEF Sound, One
  <1> HIDE DEF n
  <1>8. Sound(n, e \in Range(cache), TRUE, TRUE) BY <1>1, <1>2, <1>6, <1>7 DEF Sound
  <1>9. Sound(n, e \in Range(cache'), at'.e = e, Draining(e)')
    <2>1. (at'.e = e) = TRUE /\ Draining(e)' = TRUE BY <1>0, <1>1 DEF Draining
    <2> QED BY <2>1, <1>1, <1>8, Zenon DEF Sound, One
  <1>10. /\ cache' \in Seq(Entries) /\ NoDup(cache')
         /\ at' \in [pc : {"idle", "create", "drain", "request"}, e : Entries \cup {NULL}] /\ AtOK'
    BY <1>0, <1>1, <1>2 DEF Inv, TypeOK, AtOK
  <1>11. \A f \in Entries : (at'.e = f <=> at.e = f) /\ (Draining(f)' <=> Draining(f)) BY <1>1 DEF Draining
  <1>12. sent' \subseteq Nat /\ failed' \subseteq Nat BY <1>1, <1>5 DEF net_tx, Inv, TypeOK
  <1>13. Sorted(n.queue, n.dest, dest') BY <1>1, <1>5, <1>6
  <1>14. /\ dest' \in Seq(Dests) /\ Len(dest) <= Len(dest') /\ \A i \in 1 .. Len(dest) : dest'[i] = dest[i]
         /\ open' \subseteq Devs /\ refused' \subseteq Nat
    BY <1>1, Kept
  <1>15. /\ e \in Range(cache') => \A f \in Range(cache) \ {e} : nb[f].dest # n.dest
         /\ \A f \in Entries \ {e} : f \in Range(cache') <=> f \in Range(cache)
    BY <1>1, <1>2, <1>6
  <1>16. e \in Entries /\ n \in EntryType BY <1>2, <1>6
  <1> QED BY <1>3, <1>9, <1>10, <1>11, <1>12, <1>13, <1>14, <1>15, <1>16, Replaced

\* neighbour_tx_queue and timer_expired give their reference back
LEMMA ReleaseInv ==
  ASSUME Inv, at.pc \in {"drain", "request"}, at.pc = "drain" => nb[at.e].queue = << >>,
         nb' = [nb EXCEPT ![at.e] = ref_put(nb[at.e])], at' = Idle,
         UNCHANGED <<cache, open, dest, sent, failed, refused>>
  PROVE  Inv'
  <1>0. PICK e : e = at.e OBVIOUS
  <1> DEFINE n == ref_put(nb[e])
             c == e \in Range(cache)
             d == at.pc = "drain"
  <1>1. /\ e \in Entries /\ nb[e] \in EntryType /\ Sound(nb[e], c, TRUE, d)
        /\ c => \A f \in Range(cache) \ {e} : nb[f].dest # nb[e].dest
        /\ Sorted(nb[e].queue, nb[e].dest, dest)
    BY <1>0, InUse
  <1>2. c \in BOOLEAN /\ d \in BOOLEAN /\ (d => nb[e].queue = << >>) BY <1>0
  <1>3. /\ n \in EntryType /\ Sound(n, c, FALSE, FALSE)
        /\ c => n.dest = nb[e].dest /\ n.queue = nb[e].queue
    <2> HIDE DEF c, d
    <2> QED BY <1>1, <1>2, Released
  <1>4. nb' = [nb EXCEPT ![e] = n] BY <1>0
  <1> HIDE DEF n
  <1>5. ~c => n.queue = << >> BY <1>3 DEF Sound
  <1>6. Sorted(n.queue, n.dest, dest')
    <2>1. CASE c BY <2>1, <1>1, <1>3
    <2>2. CASE ~c BY <2>2, <1>5, SortedEmpty
    <2> QED BY <2>1, <2>2
  <1>7. at'.pc = "idle" /\ at'.e = NULL BY DEF Idle
  <1>8. \A f \in Entries : at'.e # f /\ ~Draining(f)' BY <1>7, NeighbourAssumption DEF Draining
  <1>9. \A f \in Entries \ {e} : at.e # f /\ ~Draining(f) BY <1>0 DEF Draining
  <1>10. /\ cache' \in Seq(Entries) /\ NoDup(cache')
         /\ at' \in [pc : {"idle", "create", "drain", "request"}, e : Entries \cup {NULL}] /\ AtOK'
    BY <1>7 DEF Inv, TypeOK, AtOK, Idle
  <1>11. Sound(n, e \in Range(cache'), at'.e = e, Draining(e)')
    <2>1. (at'.e = e) = FALSE /\ Draining(e)' = FALSE BY <1>1, <1>8 DEF Draining
    <2> QED BY <2>1, <1>3, Zenon DEF Sound, One
  <1>12. /\ dest' \in Seq(Dests) /\ Len(dest) <= Len(dest') /\ \A i \in 1 .. Len(dest) : dest'[i] = dest[i]
         /\ open' \subseteq Devs /\ refused' \subseteq Nat /\ sent' \subseteq Nat /\ failed' \subseteq Nat
    BY DEF Inv, TypeOK
  <1>13. /\ e \in Range(cache') => \A f \in Range(cache) \ {e} : nb[f].dest # n.dest
         /\ \A f \in Entries \ {e} : f \in Range(cache') <=> f \in Range(cache)
         /\ \A f \in Entries \ {e} : (at'.e = f <=> at.e = f) /\ (Draining(f)' <=> Draining(f))
    BY <1>1, <1>3, <1>8, <1>9
  <1>14. e \in Entries /\ n \in EntryType BY <1>1, <1>3
  <1> QED BY <1>4, <1>6, <1>10, <1>11, <1>12, <1>13, <1>14, Replaced

LEMMA TimerOwner ==
  ASSUME Inv, at.pc = "idle", NEW e \in Entries, nb[e].running = 1
  PROVE  e \in Range(cache)
  <1>1. Sound(nb[e], e \in Range(cache), at.e = e, Draining(e)) BY DEF Inv, AllSound
  <1> QED BY <1>1 DEF Sound

LEMMA ExpiredLastInv == ASSUME Inv, NEW e \in Entries, ExpiredLast(e) PROVE Inv'
  <1>1. /\ at.pc = "idle" /\ nb[e].running = 1 /\ cache' = Unlink(e)
        /\ nb' = [nb EXCEPT ![e] = ref_put(Destroyed(Expired(nb[e])))]
        /\ failed' = failed \cup Range(nb[e].queue) /\ UNCHANGED <<open, at, dest, sent, refused>>
    BY DEF ExpiredLast
  <1>2. e \in Range(cache) BY <1>1, TimerOwner
  <1>3. nb[e] \in EntryType /\ cache \in Seq(Entries) /\ NoDup(cache) BY <1>2, InCache
  <1>4. /\ Sound(nb[e], TRUE, FALSE, FALSE) /\ at.e = NULL
        /\ \A f \in Entries : at.e # f /\ ~Draining(f)
    BY <1>1, <1>2, IdleCached
  <1>5. nb' = [nb EXCEPT ![e] = Free] BY <1>1, <1>3, <1>4, GivenUp
  <1>6. cache' \in Seq(Entries) /\ NoDup(cache') /\ Range(cache') = Range(cache) \ {e}
    BY <1>1, <1>2, <1>3, Unlinked
  <1>7. Sound(Free, e \in Range(cache'), at'.e = e, Draining(e)')
    <2>1. e \notin Range(cache') /\ at'.e # e /\ ~Draining(e)' BY <1>1, <1>4, <1>6 DEF Draining
    <2> QED BY <2>1, FreeType, NeighbourAssumption DEF Sound, One
  <1>8. /\ at' \in [pc : {"idle", "create", "drain", "request"}, e : Entries \cup {NULL}] /\ AtOK'
        /\ sent' \subseteq Nat
    BY <1>1, <1>4 DEF Inv, TypeOK, AtOK
  <1>9. failed' \subseteq Nat
    <2>1. Range(nb[e].queue) \subseteq Nat BY <1>3, Fields, RangeOfSeq
    <2> QED BY <2>1, <1>1 DEF Inv, TypeOK
  <1>10. /\ dest' \in Seq(Dests) /\ Len(dest) <= Len(dest') /\ \A i \in 1 .. Len(dest) : dest'[i] = dest[i]
         /\ open' \subseteq Devs /\ refused' \subseteq Nat
    BY <1>1, Kept
  <1>11. /\ e \in Range(cache') => \A f \in Range(cache) \ {e} : nb[f].dest # Free.dest
         /\ \A f \in Entries \ {e} : f \in Range(cache') <=> f \in Range(cache)
         /\ \A f \in Entries \ {e} : (at'.e = f <=> at.e = f) /\ (Draining(f)' <=> Draining(f))
    BY <1>1, <1>6 DEF Draining
  <1>12. Sorted(Free.queue, Free.dest, dest') BY FreeType, SortedEmpty
  <1>13. Free \in EntryType BY FreeType
  <1> QED BY <1>5, <1>6, <1>7, <1>8, <1>9, <1>10, <1>11, <1>12, <1>13, Replaced

LEMMA ExpiredRetryInv == ASSUME Inv, NEW e \in Entries, ExpiredRetry(e) PROVE Inv'
  <1> DEFINE n == start_timer(Expired(nb[e]))
  <1>1. /\ at.pc = "idle" /\ nb[e].running = 1 /\ at' = [pc |-> "request", e |-> e]
        /\ nb' = [nb EXCEPT ![e] = n] /\ UNCHANGED <<cache, open, dest, sent, failed, refused>>
    BY DEF ExpiredRetry
  <1>2. e \in Range(cache) BY <1>1, TimerOwner
  <1>3. /\ nb[e] \in EntryType /\ cache \in Seq(Entries) /\ NoDup(cache)
        /\ \A f \in Range(cache) \ {e} : nb[f].dest # nb[e].dest
        /\ Sorted(nb[e].queue, nb[e].dest, dest)
    BY <1>2, InCache
  <1>4. Sound(nb[e], TRUE, FALSE, FALSE) /\ \A f \in Entries : at.e # f /\ ~Draining(f)
    BY <1>1, <1>2, IdleCached
  <1>5. n \in EntryType /\ Sound(n, TRUE, TRUE, FALSE) /\ n.dest = nb[e].dest /\ n.queue = nb[e].queue
    BY <1>1, <1>3, <1>4, RetriedSound
  <1> HIDE DEF n
  <1>6. at'.pc = "request" /\ at'.e = e /\ \A f \in Entries : ~Draining(f)' BY <1>1 DEF Draining
  <1>7. Sound(n, e \in Range(cache'), at'.e = e, Draining(e)')
    <2>1. (e \in Range(cache')) = TRUE /\ (at'.e = e) = TRUE /\ Draining(e)' = FALSE
      BY <1>1, <1>2, <1>6 DEF Draining
    <2> QED BY <2>1, <1>5, Zenon DEF Sound, One
  <1>8. /\ at' \in [pc : {"idle", "create", "drain", "request"}, e : Entries \cup {NULL}] /\ AtOK'
        /\ sent' \subseteq Nat /\ failed' \subseteq Nat
    BY <1>1, <1>6 DEF Inv, TypeOK, AtOK
  <1>9. /\ dest' \in Seq(Dests) /\ Len(dest) <= Len(dest') /\ \A i \in 1 .. Len(dest) : dest'[i] = dest[i]
        /\ open' \subseteq Devs /\ refused' \subseteq Nat
    BY <1>1, Kept
  <1>10. /\ e \in Range(cache') => \A f \in Range(cache) \ {e} : nb[f].dest # n.dest
         /\ \A f \in Entries \ {e} : f \in Range(cache') <=> f \in Range(cache)
         /\ \A f \in Entries \ {e} : (at'.e = f <=> at.e = f) /\ (Draining(f)' <=> Draining(f))
    BY <1>1, <1>3, <1>4, <1>5, <1>6
  <1>11. Sorted(n.queue, n.dest, dest') BY <1>1, <1>3, <1>5
  <1>12. nb' = [nb EXCEPT ![e] = n] /\ cache' \in Seq(Entries) /\ NoDup(cache') BY <1>1, <1>3
  <1> QED BY <1>5, <1>7, <1>8, <1>9, <1>10, <1>11, <1>12, Replaced

LEMMA DiscardInv == ASSUME Inv, Discard PROVE Inv'
  <1>0. PICK e : e = Oldest OBVIOUS
  <1> DEFINE n == Destroyed(nb[e])
  <1>1. /\ cache # << >> /\ cache' = Unlink(e) /\ UNCHANGED <<open, at, dest, sent, refused>>
        /\ nb' = [f \in Entries |-> IF f \in {e} THEN Destroyed(nb[f]) ELSE nb[f]]
        /\ failed' = failed \cup UNION {Range(nb[f].queue) : f \in {e}}
    BY <1>0 DEF Discard, neighbour_destroy
  <1>2. cache \in Seq(Entries) /\ NoDup(cache) BY DEF Inv, TypeOK
  <1>3. /\ e \in Range(cache) /\ cache' \in Seq(Entries) /\ NoDup(cache')
        /\ Range(cache') = Range(cache) \ {e}
    BY <1>0, <1>1, <1>2, OldestCached, Unlinked
  <1>4. e \in Entries /\ nb[e] \in EntryType /\ Sound(nb[e], TRUE, at.e = e, Draining(e))
    BY <1>3, InCache
  <1>5. n \in EntryType /\ Sound(n, FALSE, at.e = e, Draining(e))
    <2>1. (at.e = e) \in BOOLEAN /\ Draining(e) \in BOOLEAN BY DEF Draining
    <2> QED BY <2>1, <1>4, DestroyedSound
  <1>6. nb' = [nb EXCEPT ![e] = n] BY <1>1, <1>4 DEF Inv, TypeOK
  <1> HIDE DEF n
  <1>7. n.queue = << >> BY <1>5 DEF Sound
  <1>8. Sorted(n.queue, n.dest, dest') BY <1>7, SortedEmpty
  <1>9. \A f \in Entries : (at'.e = f <=> at.e = f) /\ (Draining(f)' <=> Draining(f)) BY <1>1 DEF Draining
  <1>10. Sound(n, e \in Range(cache'), at'.e = e, Draining(e)')
    <2>1. (e \in Range(cache')) = FALSE /\ (at'.e = e) = (at.e = e) /\ Draining(e)' = Draining(e)
      BY <1>1, <1>3 DEF Draining
    <2> QED BY <2>1, <1>5, Zenon DEF Sound, One
  <1>11. \A f \in Range(cache') : f \in Range(cache) /\ f \in Entries /\ nb'[f] = nb[f]
    <2>1. Range(cache) \subseteq Entries BY <1>2, RangeOfSeq
    <2> QED BY <2>1, <1>1, <1>3
  <1>12. AtOK' BY <1>1, <1>11 DEF Inv, AtOK
  <1>13. failed' \subseteq Nat
    <2>1. Range(nb[e].queue) \subseteq Nat BY <1>4, Fields, RangeOfSeq
    <2> QED BY <2>1, <1>1 DEF Inv, TypeOK
  <1>14. /\ dest' \in Seq(Dests) /\ Len(dest) <= Len(dest') /\ \A i \in 1 .. Len(dest) : dest'[i] = dest[i]
         /\ open' \subseteq Devs /\ refused' \subseteq Nat
    BY <1>1, Kept
  <1>15. /\ sent' \subseteq Nat
         /\ at' \in [pc : {"idle", "create", "drain", "request"}, e : Entries \cup {NULL}]
    BY <1>1 DEF Inv, TypeOK
  <1>16. /\ e \in Range(cache') => \A f \in Range(cache) \ {e} : nb[f].dest # n.dest
         /\ \A f \in Entries \ {e} : f \in Range(cache') <=> f \in Range(cache)
    BY <1>3
  <1> QED BY <1>3, <1>4, <1>5, <1>6, <1>8, <1>9, <1>10, <1>12, <1>13, <1>14, <1>15, <1>16, Replaced

LEMMA CloseInv == ASSUME Inv, NEW d \in Devs, netdev_close(d) PROVE Inv'
  <1>1. /\ at.pc = "idle" /\ cache' = << >> /\ UNCHANGED <<at, dest, sent, refused>> /\ open' \subseteq open
        /\ nb' = [f \in Entries |-> IF f \in Range(cache) THEN Destroyed(nb[f]) ELSE nb[f]]
        /\ failed' = failed \cup UNION {Range(nb[f].queue) : f \in Range(cache)}
    BY DEF netdev_close, neighbour_flush, neighbour_destroy
  <1>2. cache' \in Seq(Entries) /\ Range(cache') = {} /\ NoDup(cache') BY <1>1 DEF Range, NoDup
  <1>3. ASSUME NEW f \in Entries
        PROVE  nb'[f] \in EntryType /\ Sound(nb'[f], FALSE, FALSE, FALSE)
    <2>1. at.e # f /\ ~Draining(f) BY <1>1, NeighbourAssumption DEF Inv, AtOK, Draining
    <2>2. nb[f] \in EntryType /\ Sound(nb[f], f \in Range(cache), at.e = f, Draining(f))
      BY DEF Inv, TypeOK, AllSound
    <2>3. (at.e = f) = FALSE /\ Draining(f) = FALSE BY <2>1 DEF Draining
    <2>4. Sound(nb[f], f \in Range(cache), FALSE, FALSE) BY <2>2, <2>3, Zenon DEF Sound, One
    <2>5. CASE f \in Range(cache)
      <3>1. (f \in Range(cache)) = TRUE BY <2>5
      <3>2. Sound(nb[f], TRUE, FALSE, FALSE) BY <2>4, <3>1, Zenon DEF Sound, One
      <3> QED BY <3>2, <2>2, <2>5, <1>1, DestroyedSound
    <2>6. CASE f \notin Range(cache)
      <3>1. (f \in Range(cache)) = FALSE BY <2>6
      <3>2. Sound(nb[f], FALSE, FALSE, FALSE) BY <2>4, <3>1, Zenon DEF Sound, One
      <3> QED BY <3>2, <2>2, <2>6, <1>1
    <2> QED BY <2>5, <2>6
  <1>4. nb' \in [Entries -> EntryType] BY <1>1, <1>3
  <1>5. failed' \subseteq Nat
    <2>1. ASSUME NEW f \in Range(cache) PROVE Range(nb[f].queue) \subseteq Nat
      BY InCache, Fields, RangeOfSeq
    <2> QED BY <2>1, <1>1 DEF Inv, TypeOK
  <1>6. TypeOK' BY <1>1, <1>2, <1>4, <1>5 DEF Inv, TypeOK
  <1>7. AtOK' BY <1>1 DEF Inv, AtOK
  <1>8. AllSound'
    <2> SUFFICES ASSUME NEW f \in Entries
                 PROVE  Sound(nb'[f], f \in Range(cache'), at'.e = f, Draining(f)')
      BY DEF AllSound
    <2>1. (f \in Range(cache')) = FALSE /\ (at'.e = f) = FALSE /\ Draining(f)' = FALSE
      BY <1>1, <1>2, NeighbourAssumption DEF Inv, AtOK, Draining
    <2> QED BY <2>1, <1>3, Zenon DEF Sound, One
  <1>9. AllSorted'
    <2>1. \A f \in Entries : nb'[f].queue = << >> BY <1>3 DEF Sound
    <2> QED BY <2>1, SortedEmpty DEF AllSorted
  <1>10. Unique' BY <1>2 DEF Unique
  <1> QED BY <1>2, <1>6, <1>7, <1>8, <1>9, <1>10 DEF Inv

LEMMA NextInv == Inv /\ [Next]_vars => Inv'
  <1> SUFFICES ASSUME Inv, [Next]_vars PROVE Inv' OBVIOUS
  <1>1. CASE UNCHANGED vars
    BY <1>1 DEF vars, Inv, TypeOK, AtOK, AllSound, Unique, AllSorted, Draining
  <1>2. ASSUME NEW d \in Devs, netdev_open(d) PROVE Inv'
    BY <1>2 DEF netdev_open, Inv, TypeOK, AtOK, AllSound, Unique, AllSorted, Draining
  <1>3. CASE DrainDone BY <1>3, ReleaseInv DEF DrainDone
  <1>4. CASE RequestDone BY <1>4, ReleaseInv DEF RequestDone
  <1> QED BY <1>1, <1>2, <1>3, <1>4, TxInv, TxNewInv, UpdateInv, CreatedInv, CreateFailsInv, DrainOneInv,
             ExpiredLastInv, ExpiredRetryInv, DiscardInv, CloseInv DEF Next

----------------------------------------------------------------------------
(* The places of the packets *)

Waits == UNION {Range(nb[e].queue) : e \in Entries}

New == IF at.pc = "create" THEN {Len(dest)} ELSE {}

\* the five places are apart and hold the packets of P
Apart(W, C, S, F, R, P) ==
    /\ W \cup C \cup S \cup F \cup R = P
    /\ W \cap C = {} /\ W \cap S = {} /\ W \cap F = {} /\ W \cap R = {}
    /\ C \cap S = {} /\ C \cap F = {} /\ C \cap R = {}
    /\ S \cap F = {} /\ S \cap R = {} /\ F \cap R = {}

Places == Apart(Waits, New, sent, failed, refused, Packets)

LEMMA QueueFacts ==
  ASSUME Inv, NEW e \in Entries
  PROVE  /\ nb[e].queue \in Seq(Nat) /\ Sorted(nb[e].queue, nb[e].dest, dest)
         /\ \A p \in Range(nb[e].queue) : p \in Packets /\ dest[p] = nb[e].dest
         /\ nb[e].queue # << >> => e \in Range(cache)
         /\ Range(nb[e].queue) \subseteq Waits
  <1>1. nb[e].queue \in Seq(Nat) BY Fields DEF Inv, TypeOK
  <1>2. Sorted(nb[e].queue, nb[e].dest, dest) BY DEF Inv, AllSorted
  <1>3. ASSUME NEW p \in Range(nb[e].queue) PROVE p \in Packets /\ dest[p] = nb[e].dest
    <2>1. PICK i \in 1 .. Len(nb[e].queue) : nb[e].queue[i] = p BY <1>1 DEF Range
    <2> QED BY <2>1, <1>2 DEF Sorted, Packets
  <1>4. Sound(nb[e], e \in Range(cache), at.e = e, Draining(e)) BY DEF Inv, AllSound
  <1>5. nb[e].queue # << >> => e \in Range(cache) BY <1>4 DEF Sound
  <1> QED BY <1>1, <1>2, <1>3, <1>5 DEF Waits

LEMMA EmptyRange == Range(<< >>) = {}
  BY DEF Range

\* a packet is in one queue at most
LEMMA OneQueue ==
  ASSUME Inv, NEW e \in Entries, NEW f \in Entries, NEW p,
         p \in Range(nb[e].queue), p \in Range(nb[f].queue)
  PROVE  e = f
  <1>1. nb[e].dest = nb[f].dest BY QueueFacts
  <1>2. nb[e].queue # << >> /\ nb[f].queue # << >> BY EmptyRange
  <1>3. e \in Range(cache) /\ f \in Range(cache) BY <1>2, QueueFacts
  <1> QED BY <1>1, <1>3 DEF Inv, Unique

\* what waits after the entry e has become n
LEMMA Requeued ==
  ASSUME Inv, NEW e \in Entries, NEW n, nb' = [nb EXCEPT ![e] = n]
  PROVE  Waits' = (Waits \ Range(nb[e].queue)) \cup Range(n.queue)
  <1>1. nb'[e] = n /\ \A f \in Entries \ {e} : nb'[f] = nb[f] BY DEF Inv, TypeOK
  <1>2. ASSUME NEW p \in Waits' PROVE p \in (Waits \ Range(nb[e].queue)) \cup Range(n.queue)
    <2>1. PICK f \in Entries : p \in Range(nb'[f].queue) BY DEF Waits
    <2>2. CASE f = e BY <2>1, <2>2, <1>1
    <2>3. CASE f # e
      <3>1. p \in Range(nb[f].queue) BY <2>1, <2>3, <1>1
      <3>2. p \in Waits BY <3>1 DEF Waits
      <3>3. p \notin Range(nb[e].queue) BY <3>1, <2>3, OneQueue
      <3> QED BY <3>2, <3>3
    <2> QED BY <2>2, <2>3
  <1>3. ASSUME NEW p \in Waits, p \notin Range(nb[e].queue) PROVE p \in Waits'
    <2>1. PICK f \in Entries : p \in Range(nb[f].queue) BY DEF Waits
    <2>2. f # e BY <2>1, <1>3
    <2>3. p \in Range(nb'[f].queue) BY <2>1, <2>2, <1>1
    <2> QED BY <2>3 DEF Waits
  <1>4. ASSUME NEW p \in Range(n.queue) PROVE p \in Waits'
    <2>1. p \in Range(nb'[e].queue) BY <1>1
    <2> QED BY <2>1 DEF Waits
  <1> QED BY <1>2, <1>3, <1>4

\* the entry e becomes n with the same queue
LEMMA SameQueue ==
  ASSUME Inv, NEW e \in Entries, NEW n, nb' = [nb EXCEPT ![e] = n], n.queue = nb[e].queue
  PROVE  Waits' = Waits
  <1>1. Waits' = (Waits \ Range(nb[e].queue)) \cup Range(nb[e].queue) BY Requeued
  <1>2. Range(nb[e].queue) \subseteq Waits BY QueueFacts
  <1> QED BY <1>1, <1>2

LEMMA SamePlaces ==
  ASSUME Places, Waits' = Waits, New' = New, UNCHANGED <<dest, sent, failed, refused>>
  PROVE  Places'
  BY DEF Places, Packets

\* packets M move from the queues to the failed ones
LEMMA Failing ==
  ASSUME Places, NEW M, M \subseteq Waits, Waits' = Waits \ M, failed' = failed \cup M, New' = New,
         UNCHANGED <<dest, sent, refused>>
  PROVE  Places'
  <1>1. Packets' = Packets BY DEF Packets
  <1>2. Apart(Waits \ M, New, sent, failed \cup M, refused, Packets) BY DEF Places, Apart
  <1> QED BY <1>1, <1>2 DEF Places

\* a packet goes to the device, or fails, from the queues or from the caller
LEMMA Sending ==
  ASSUME Places, NEW p, NEW d, net_tx(p, d), New' = New, refused' = refused,
         \/ p \in Waits /\ Waits' = Waits \ {p} /\ Packets' = Packets
         \/ p \notin Packets /\ Waits' = Waits /\ Packets' = Packets \cup {p}
  PROVE  Places'
  <1>1. \/ sent' = sent \cup {p} /\ failed' = failed
        \/ failed' = failed \cup {p} /\ sent' = sent
    BY DEF net_tx
  <1>2. CASE p \in Waits /\ Waits' = Waits \ {p} /\ Packets' = Packets
    <2>1. /\ Apart(Waits \ {p}, New, sent \cup {p}, failed, refused, Packets)
          /\ Apart(Waits \ {p}, New, sent, failed \cup {p}, refused, Packets)
      BY <1>2 DEF Places, Apart
    <2> QED BY <1>1, <1>2, <2>1 DEF Places
  <1>3. CASE p \notin Packets /\ Waits' = Waits /\ Packets' = Packets \cup {p}
    <2>1. /\ Apart(Waits, New, sent \cup {p}, failed, refused, Packets \cup {p})
          /\ Apart(Waits, New, sent, failed \cup {p}, refused, Packets \cup {p})
      BY <1>3 DEF Places, Apart
    <2> QED BY <1>1, <1>3, <2>1 DEF Places
  <1> QED BY <1>2, <1>3

LEMMA NextPacket ==
  ASSUME Inv, NEW d \in Dests, dest' = Append(dest, d)
  PROVE  Len(dest') = Len(dest) + 1 /\ Len(dest') \notin Packets /\ Packets' = Packets \cup {Len(dest')}
  <1>1. dest \in Seq(Dests) /\ Len(dest) \in Nat BY DEF Inv, TypeOK
  <1>2. Len(dest') = Len(dest) + 1 BY <1>1, Grown
  <1> QED BY <1>1, <1>2 DEF Packets

LEMMA AppendRange ==
  ASSUME NEW q \in Seq(Nat), NEW p \in Nat
  PROVE  Range(Append(q, p)) = Range(q) \cup {p}
  <1>1. PICK r : r = Append(q, p) OBVIOUS
  <1>2. /\ DOMAIN r = 1 .. (Len(q) + 1) /\ DOMAIN q = 1 .. Len(q) /\ Len(q) \in Nat
        /\ r[Len(q) + 1] = p /\ \A i \in 1 .. Len(q) : r[i] = q[i]
    BY <1>1
  <1>3. ASSUME NEW x \in Range(r) PROVE x \in Range(q) \cup {p}
    <2>1. PICK i \in 1 .. (Len(q) + 1) : x = r[i] BY <1>2 DEF Range
    <2>2. i = Len(q) + 1 \/ i \in 1 .. Len(q) BY <1>2
    <2> QED BY <2>1, <2>2, <1>2 DEF Range
  <1>4. ASSUME NEW x \in Range(q) PROVE x \in Range(r)
    <2>1. PICK i \in 1 .. Len(q) : x = q[i] BY <1>2 DEF Range
    <2>2. i \in DOMAIN r /\ r[i] = x BY <2>1, <1>2
    <2> QED BY <2>2, Zenon DEF Range
  <1>5. p \in Range(r)
    <2>1. Len(q) + 1 \in DOMAIN r BY <1>2
    <2> QED BY <2>1, <1>2, Zenon DEF Range
  <1> QED BY <1>1, <1>3, <1>4, <1>5

LEMMA TxPlaces == ASSUME Inv, Places, NEW d \in Dests, Tx(d) PROVE Places'
  <1>1. PICK e \in Range(cache) :
          IF nb[e].discovery = "arp"
          THEN /\ nb' = [nb EXCEPT ![e].queue = Append(@, Len(dest'))]
               /\ UNCHANGED <<sent, failed>>
          ELSE net_tx(Len(dest'), d) /\ UNCHANGED nb
    BY DEF Tx, Cached
  <1>2. at.pc = "idle" /\ dest' = Append(dest, d) /\ UNCHANGED <<open, at, refused>> BY DEF Tx
  <1>3. e \in Entries /\ nb[e] \in EntryType BY InCache
  <1>4. PICK p : p = Len(dest') OBVIOUS
  <1>5. p \in Nat /\ p \notin Packets /\ Packets' = Packets \cup {p}
    BY <1>2, <1>4, NextPacket DEF Inv, TypeOK
  <1>6. New = {} /\ New' = {} BY <1>2 DEF New
  <1>7. CASE nb[e].discovery = "arp"
    <2> DEFINE q == nb[e].queue
               n == [nb[e] EXCEPT !.queue = Append(q, p)]
    <2>1. nb' = [nb EXCEPT ![e] = n] BY <1>1, <1>3, <1>4, <1>7 DEF Inv, TypeOK
    <2>2. q \in Seq(Nat) /\ Range(q) \subseteq Waits BY <1>3, QueueFacts
    <2>3. n.queue = Append(q, p) BY <1>3 DEF EntryType
    <2> HIDE DEF n, q
    <2>4. Range(n.queue) = Range(q) \cup {p} BY <1>5, <2>2, <2>3, AppendRange
    <2>5. Waits' = (Waits \ Range(q)) \cup Range(n.queue) BY <1>3, <2>1, Requeued DEF q
    <2>6. Waits' = Waits \cup {p} BY <2>2, <2>4, <2>5
    <2>7. sent' = sent /\ failed' = failed /\ refused' = refused BY <1>1, <1>2, <1>7
    <2>8. Apart(Waits \cup {p}, {}, sent, failed, refused, Packets \cup {p})
      BY <1>5, <1>6 DEF Places, Apart
    <2> QED BY <1>5, <1>6, <2>6, <2>7, <2>8 DEF Places
  <1>8. CASE nb[e].discovery # "arp"
    <2>1. net_tx(p, d) /\ nb' = nb BY <1>1, <1>4, <1>8
    <2>2. Waits' = Waits BY <2>1 DEF Waits
    <2> QED BY <1>2, <1>5, <1>6, <2>1, <2>2, Sending
  <1> QED BY <1>7, <1>8

LEMMA TxNewPlaces == ASSUME Inv, Places, NEW d \in Dests, TxNew(d) PROVE Places'
  <1>1. /\ at.pc = "idle" /\ dest' = Append(dest, d) /\ at'.pc = "create"
        /\ UNCHANGED <<nb, sent, failed, refused>>
    BY DEF TxNew, Idle
  <1>2. PICK p : p = Len(dest') OBVIOUS
  <1>3. p \notin Packets /\ Packets' = Packets \cup {p} BY <1>1, <1>2, NextPacket
  <1>4. New = {} /\ New' = {p} /\ Waits' = Waits BY <1>1, <1>2 DEF New, Waits
  <1>5. Apart(Waits, {p}, sent, failed, refused, Packets \cup {p})
    BY <1>3, <1>4 DEF Places, Apart
  <1> QED BY <1>1, <1>3, <1>4, <1>5 DEF Places

LEMMA CreatedPlaces == ASSUME Inv, Places, Created PROVE Places'
  <1> DEFINE p == Len(dest)
             n == [neighbour_create(dest[p]) EXCEPT !.queue = <<p>>]
  <1>1. PICK e \in Entries : nb[e] = Free /\ nb' = [nb EXCEPT ![e] = n]
    BY DEF Created
  <1>2. at.pc = "create" /\ at'.pc = "idle" /\ UNCHANGED <<dest, sent, failed, refused>>
    BY DEF Created, Idle
  <1>3. p \in Nat /\ dest[p] \in Dests BY <1>2 DEF Inv, AtOK, TypeOK
  <1>4. n.queue = <<p>> BY <1>3, CreatedSound
  <1> HIDE DEF n
  <1>5. Range(nb[e].queue) = {} BY <1>1, FreeType, EmptyRange
  <1>6. Range(n.queue) = {p} BY <1>4 DEF Range
  <1>7. Waits' = Waits \cup {p} BY <1>1, <1>5, <1>6, Requeued
  <1>8. New = {p} /\ New' = {} /\ Packets' = Packets BY <1>2 DEF New, Packets
  <1> HIDE DEF p
  <1>9. Apart(Waits \cup {p}, {}, sent, failed, refused, Packets)
    BY <1>8 DEF Places, Apart
  <1> QED BY <1>2, <1>7, <1>8, <1>9 DEF Places

LEMMA CreateFailsPlaces == ASSUME Inv, Places, CreateFails PROVE Places'
  <1> DEFINE p == Len(dest)
  <1>1. /\ at.pc = "create" /\ at'.pc = "idle" /\ refused' = refused \cup {p}
        /\ UNCHANGED <<nb, dest, sent, failed>>
    BY DEF CreateFails, Idle
  <1>2. New = {p} /\ New' = {} /\ Packets' = Packets /\ Waits' = Waits BY <1>1 DEF New, Packets, Waits
  <1> HIDE DEF p
  <1>3. Apart(Waits, {}, sent, failed, refused \cup {p}, Packets)
    BY <1>2 DEF Places, Apart
  <1> QED BY <1>1, <1>2, <1>3 DEF Places

LEMMA UpdatePlaces == ASSUME Inv, Places, NEW d \in Dests, Update(d) PROVE Places'
  <1>1. PICK e \in Range(cache) :
          nb' = [nb EXCEPT ![e] = neighbour_discovered(nb[e])] /\ at' = [pc |-> "drain", e |-> e]
    BY DEF Update, Cached
  <1>2. at.pc = "idle" /\ UNCHANGED <<dest, sent, failed, refused>> BY DEF Update
  <1>3. e \in Entries /\ nb[e] \in EntryType /\ Sound(nb[e], TRUE, FALSE, FALSE)
    BY <1>2, InCache, IdleCached
  <1>4. neighbour_discovered(nb[e]).queue = nb[e].queue BY <1>3, UpdatedSound
  <1>5. Waits' = Waits BY <1>1, <1>3, <1>4, SameQueue
  <1>6. New' = New BY <1>1, <1>2 DEF New
  <1> QED BY <1>2, <1>5, <1>6, SamePlaces

LEMMA DrainOnePlaces == ASSUME Inv, Places, DrainOne PROVE Places'
  <1>0. PICK e : e = at.e OBVIOUS
  <1> DEFINE q == nb[e].queue
             n == [nb[e] EXCEPT !.queue = Tail(nb[e].queue)]
  <1>1. /\ at.pc = "drain" /\ q # << >> /\ UNCHANGED <<at, dest, refused>>
        /\ net_tx(Head(q), nb[e].dest)
    BY <1>0 DEF DrainOne
  <1>2. e \in Entries /\ nb[e] \in EntryType BY <1>0, <1>1, InUse
  <1>3. nb' = [nb EXCEPT ![e] = n] BY <1>0, <1>2 DEF DrainOne, Inv, TypeOK
  <1>4. n.queue = Tail(q) BY <1>2 DEF EntryType
  <1>5. q \in Seq(Nat) /\ Sorted(q, nb[e].dest, dest) /\ Range(q) \subseteq Waits BY <1>2, QueueFacts
  <1> HIDE DEF n, q
  <1>6. PICK p : p = Head(q) OBVIOUS
  <1>7. Range(q) = Range(Tail(q)) \cup {p} /\ p \notin Range(Tail(q))
    <2>1. /\ Tail(q) \in Seq(Nat) /\ Len(Tail(q)) = Len(q) - 1 /\ Len(q) \in Nat \ {0} /\ p = q[1]
          /\ \A i \in 1 .. Len(Tail(q)) : Tail(q)[i] = q[i + 1]
      BY <1>1, <1>5, <1>6
    <2>2. PICK t : t = Tail(q) OBVIOUS
    <2>3. /\ DOMAIN t = 1 .. (Len(q) - 1) /\ DOMAIN q = 1 .. Len(q)
          /\ \A i \in 1 .. (Len(q) - 1) : t[i] = q[i + 1]
      BY <2>1, <2>2, <1>5
    <2>4. \A i \in 2 .. Len(q) : q[i] # p
      <3>1. ASSUME NEW i \in 2 .. Len(q) PROVE q[i] # p
        <4>1. 1 \in 1 .. Len(q) /\ i \in 1 .. Len(q) /\ 1 < i BY <2>1
        <4>2. q[1] < q[i] BY <4>1, <1>5 DEF Sorted
        <4>3. q[1] \in Nat /\ q[i] \in Nat BY <4>1, <1>5
        <4> QED BY <4>2, <4>3, <2>1
      <3> QED BY <3>1
    <2>5. p \notin Range(t)
      <3>1. ASSUME NEW i \in 1 .. (Len(q) - 1) PROVE t[i] # p
        <4>1. t[i] = q[i + 1] BY <2>3, Zenon
        <4>2. i + 1 \in 2 .. Len(q) BY <2>1
        <4>3. q[i + 1] # p BY <4>2, <2>4, Zenon
        <4> QED BY <4>1, <4>3, Zenon
      <3>2. \A i \in DOMAIN t : t[i] # p BY <3>1, <2>3, Zenon
      <3> QED BY <3>2, Zenon DEF Range
    <2>6. ASSUME NEW x \in Range(t) PROVE x \in Range(q)
      <3>1. PICK i \in 1 .. (Len(q) - 1) : x = t[i] BY <2>3 DEF Range
      <3>2. i + 1 \in DOMAIN q /\ q[i + 1] = x BY <3>1, <2>1, <2>3
      <3> QED BY <3>2, Zenon DEF Range
    <2>7. ASSUME NEW x \in Range(q), x # p PROVE x \in Range(t)
      <3>1. PICK i \in 1 .. Len(q) : x = q[i] BY <2>3 DEF Range
      <3>2. i # 1 BY <3>1, <2>1, <2>7
      <3>3. i - 1 \in 1 .. (Len(q) - 1) /\ (i - 1) + 1 = i BY <3>1, <3>2, <2>1
      <3>4. t[i - 1] = x BY <3>1, <3>3, <2>3
      <3> QED BY <3>3, <3>4, <2>3, Zenon DEF Range
    <2>8. p \in Range(q)
      <3>1. 1 \in DOMAIN q BY <2>1, <2>3
      <3> QED BY <3>1, <2>1, Zenon DEF Range
    <2> QED BY <2>2, <2>5, <2>6, <2>7, <2>8
  <1>8. Waits' = (Waits \ Range(q)) \cup Range(Tail(q)) BY <1>2, <1>3, <1>4, Requeued DEF q
  <1>9. Waits' = Waits \ {p} /\ p \in Waits BY <1>5, <1>7, <1>8
  <1>10. New' = New /\ Packets' = Packets BY <1>1 DEF New, Packets
  <1> QED BY <1>1, <1>6, <1>9, <1>10, Sending

LEMMA ReleasePlaces ==
  ASSUME Inv, Places, at.pc \in {"drain", "request"}, at.pc = "drain" => nb[at.e].queue = << >>,
         nb' = [nb EXCEPT ![at.e] = ref_put(nb[at.e])], at' = Idle,
         UNCHANGED <<dest, sent, failed, refused>>
  PROVE  Places'
  <1>0. PICK e : e = at.e OBVIOUS
  <1> DEFINE n == ref_put(nb[e])
             c == e \in Range(cache)
             d == at.pc = "drain"
  <1>1. e \in Entries /\ nb[e] \in EntryType /\ Sound(nb[e], c, TRUE, d)
    BY <1>0, InUse
  <1>2. c \in BOOLEAN /\ d \in BOOLEAN /\ (d => nb[e].queue = << >>) BY <1>0
  <1>3. Sound(n, c, FALSE, FALSE) /\ (c => n.queue = nb[e].queue)
    <2> HIDE DEF c, d
    <2> QED BY <1>1, <1>2, Released
  <1>4. nb' = [nb EXCEPT ![e] = n] BY <1>0
  <1> HIDE DEF n
  <1>5. ~c => n.queue = << >> /\ nb[e].queue = << >> BY <1>1, <1>3 DEF Sound
  <1>6. Waits' = Waits BY <1>1, <1>3, <1>4, <1>5, SameQueue
  <1>7. New' = New BY DEF New, Idle
  <1> QED BY <1>6, <1>7, SamePlaces

LEMMA ExpiredLastPlaces == ASSUME Inv, Places, NEW e \in Entries, ExpiredLast(e) PROVE Places'
  <1>1. /\ at.pc = "idle" /\ nb[e].running = 1
        /\ nb' = [nb EXCEPT ![e] = ref_put(Destroyed(Expired(nb[e])))]
        /\ failed' = failed \cup Range(nb[e].queue) /\ UNCHANGED <<at, dest, sent, refused>>
    BY DEF ExpiredLast
  <1>2. e \in Range(cache) BY <1>1, TimerOwner
  <1>3. nb[e] \in EntryType /\ Sound(nb[e], TRUE, FALSE, FALSE) BY <1>1, <1>2, InCache, IdleCached
  <1>4. nb' = [nb EXCEPT ![e] = Free] BY <1>1, <1>3, GivenUp
  <1>5. Waits' = Waits \ Range(nb[e].queue) BY <1>4, FreeType, EmptyRange, Requeued
  <1>6. New' = New BY <1>1 DEF New
  <1> QED BY <1>1, <1>5, <1>6, QueueFacts, Failing

LEMMA ExpiredRetryPlaces == ASSUME Inv, Places, NEW e \in Entries, ExpiredRetry(e) PROVE Places'
  <1> DEFINE n == start_timer(Expired(nb[e]))
  <1>1. /\ at.pc = "idle" /\ nb[e].running = 1 /\ at'.pc = "request"
        /\ nb' = [nb EXCEPT ![e] = n] /\ UNCHANGED <<dest, sent, failed, refused>>
    BY DEF ExpiredRetry
  <1>2. e \in Range(cache) BY <1>1, TimerOwner
  <1>3. nb[e] \in EntryType /\ Sound(nb[e], TRUE, FALSE, FALSE) BY <1>1, <1>2, InCache, IdleCached
  <1>4. n.queue = nb[e].queue BY <1>1, <1>3, RetriedSound
  <1> HIDE DEF n
  <1>5. Waits' = Waits BY <1>1, <1>4, SameQueue
  <1>6. New' = New BY <1>1 DEF New
  <1> QED BY <1>1, <1>5, <1>6, SamePlaces

LEMMA DiscardPlaces == ASSUME Inv, Places, Discard PROVE Places'
  <1>0. PICK e : e = Oldest OBVIOUS
  <1>1. /\ cache # << >> /\ UNCHANGED <<at, dest, sent, refused>>
        /\ nb' = [f \in Entries |-> IF f \in {e} THEN Destroyed(nb[f]) ELSE nb[f]]
        /\ failed' = failed \cup UNION {Range(nb[f].queue) : f \in {e}}
    BY <1>0 DEF Discard, neighbour_destroy
  <1>2. cache \in Seq(Entries) /\ NoDup(cache) BY DEF Inv, TypeOK
  <1>3. e \in Range(cache) BY <1>0, <1>1, <1>2, OldestCached
  <1>4. e \in Entries /\ nb[e] \in EntryType /\ Sound(nb[e], TRUE, at.e = e, Draining(e))
    BY <1>3, InCache
  <1>5. Sound(Destroyed(nb[e]), FALSE, at.e = e, Draining(e))
    <2>1. (at.e = e) \in BOOLEAN /\ Draining(e) \in BOOLEAN BY DEF Draining
    <2> QED BY <2>1, <1>4, DestroyedSound
  <1>6. Destroyed(nb[e]).queue = << >> BY <1>5 DEF Sound
  <1>7. nb' = [nb EXCEPT ![e] = Destroyed(nb[e])] BY <1>1, <1>4 DEF Inv, TypeOK
  <1>8. Waits' = Waits \ Range(nb[e].queue) BY <1>4, <1>6, <1>7, EmptyRange, Requeued
  <1>9. failed' = failed \cup Range(nb[e].queue) BY <1>1
  <1>10. New' = New BY <1>1 DEF New
  <1> QED BY <1>1, <1>4, <1>8, <1>9, <1>10, QueueFacts, Failing

LEMMA ClosePlaces == ASSUME Inv, Places, NEW d \in Devs, netdev_close(d) PROVE Places'
  <1>1. /\ at.pc = "idle" /\ cache' = << >> /\ UNCHANGED <<at, dest, sent, refused>>
        /\ failed' = failed \cup UNION {Range(nb[f].queue) : f \in Range(cache)}
    BY DEF netdev_close, neighbour_flush, neighbour_destroy
  <1>2. Range(cache) \subseteq Entries BY RangeOfSeq DEF Inv, TypeOK
  <1>3. failed' = failed \cup Waits
    <2>1. ASSUME NEW p \in Waits PROVE p \in UNION {Range(nb[f].queue) : f \in Range(cache)}
      <3>1. PICK f \in Entries : p \in Range(nb[f].queue) BY DEF Waits
      <3>2. nb[f].queue # << >> BY <3>1, EmptyRange
      <3>3. f \in Range(cache) BY <3>2, QueueFacts
      <3> QED BY <3>1, <3>3
    <2>2. UNION {Range(nb[f].queue) : f \in Range(cache)} \subseteq Waits BY <1>2 DEF Waits
    <2> QED BY <1>1, <2>1, <2>2
  <1>4. Waits' = {}
    <2>1. Inv' BY CloseInv
    <2>2. ASSUME NEW f \in Entries PROVE Range(nb'[f].queue) = {}
      <3>1. Sound(nb'[f], f \in Range(cache'), at'.e = f, Draining(f)') BY <2>1 DEF Inv, AllSound
      <3>2. f \notin Range(cache') BY <1>1, EmptyRange
      <3>3. nb'[f].queue = << >> BY <3>1, <3>2 DEF Sound
      <3> QED BY <3>3, EmptyRange
    <2> QED BY <2>2 DEF Waits
  <1>5. New' = New BY <1>1 DEF New
  <1>6. Waits' = Waits \ Waits BY <1>4
  <1> QED BY <1>1, <1>3, <1>5, <1>6, Failing

LEMMA InitPlaces == Init => Places
  <1> SUFFICES ASSUME Init PROVE Places OBVIOUS
  <1>1. \A e \in Entries : Range(nb[e].queue) = {} BY FreeType, EmptyRange DEF Init
  <1>2. Waits = {} BY <1>1 DEF Waits
  <1>3. New = {} BY DEF Init, Idle, New
  <1>4. Packets = {} BY DEF Init, Packets
  <1> QED BY <1>2, <1>3, <1>4 DEF Init, Places, Apart

LEMMA NextPlaces == Inv /\ Places /\ [Next]_vars => Places'
  <1> SUFFICES ASSUME Inv, Places, [Next]_vars PROVE Places' OBVIOUS
  <1>1. CASE UNCHANGED vars
    <2>1. Waits' = Waits /\ New' = New BY <1>1 DEF vars, Waits, New
    <2> QED BY <1>1, <2>1, SamePlaces DEF vars
  <1>2. ASSUME NEW d \in Devs, netdev_open(d) PROVE Places'
    <2>1. Waits' = Waits /\ New' = New BY <1>2 DEF netdev_open, Waits, New
    <2> QED BY <1>2, <2>1, SamePlaces DEF netdev_open
  <1>3. CASE DrainDone BY <1>3, ReleasePlaces DEF DrainDone
  <1>4. CASE RequestDone BY <1>4, ReleasePlaces DEF RequestDone
  <1> QED BY <1>1, <1>2, <1>3, <1>4, TxPlaces, TxNewPlaces, UpdatePlaces, CreatedPlaces, CreateFailsPlaces,
             DrainOnePlaces, ExpiredLastPlaces, ExpiredRetryPlaces, DiscardPlaces, ClosePlaces DEF Next

----------------------------------------------------------------------------
(* The theorems *)

\* A waiting packet is in the queue of the one cached entry for its destination.
LEMMA WaitingWhere ==
  ASSUME Inv, NEW q \in Packets, Waiting(q)
  PROVE  \E e \in Range(cache) : \E i \in 1 .. Len(nb[e].queue) :
            /\ nb[e].queue[i] = q /\ nb[e].dest = dest[q]
            /\ nb[e].discovery = "arp" \/ Draining(e)
  <1>1. PICK e \in Entries : q \in Range(nb[e].queue) BY DEF Waiting
  <1>2. nb[e].queue \in Seq(Nat) BY Fields DEF Inv, TypeOK
  <1>3. PICK i \in 1 .. Len(nb[e].queue) : nb[e].queue[i] = q BY <1>1, <1>2 DEF Range
  <1>4. nb[e].queue # << >> BY <1>2, <1>3
  <1>5. Sound(nb[e], e \in Range(cache), at.e = e, Draining(e)) /\ Sorted(nb[e].queue, nb[e].dest, dest)
    BY DEF Inv, AllSound, AllSorted
  <1>6. e \in Range(cache) /\ (nb[e].discovery = "arp" \/ Draining(e)) BY <1>4, <1>5 DEF Sound
  <1>7. nb[e].dest = dest[q] BY <1>3, <1>5 DEF Sorted
  <1> QED BY <1>3, <1>6, <1>7

LEMMA StepInOrder ==
  ASSUME Inv, Next, NEW p \in sent' \ sent, NEW q \in Packets, q < p, dest[q] = dest'[p], Waiting(q)
  PROVE  FALSE
  <1>1. PICK f \in Range(cache) : \E i \in 1 .. Len(nb[f].queue) :
          /\ nb[f].queue[i] = q /\ nb[f].dest = dest[q] /\ (nb[f].discovery = "arp" \/ Draining(f))
    BY WaitingWhere
  <1>2. ASSUME NEW d \in Dests, Tx(d) PROVE FALSE
    <2>1. PICK e \in Range(cache) :
            /\ nb[e].dest = d
            /\ IF nb[e].discovery = "arp" THEN sent' = sent ELSE net_tx(Len(dest'), d)
      BY <1>2 DEF Tx, Cached
    <2>2. nb[e].discovery # "arp" /\ p = Len(dest') BY <2>1 DEF net_tx
    <2>3. dest \in Seq(Dests) /\ dest' = Append(dest, d) /\ at.pc = "idle"
      BY <1>2 DEF Tx, Inv, TypeOK
    <2>4. dest'[p] = d BY <2>2, <2>3, Grown
    <2>5. e = f BY <2>1, <2>4, <1>1 DEF Inv, Unique
    <2>6. ~Draining(f) BY <2>3 DEF Draining
    <2> QED BY <2>2, <2>5, <2>6, <1>1
  <1>3. CASE DrainOne
    <2>0. PICK e : e = at.e OBVIOUS
    <2> DEFINE s == nb[e].queue
    <2>1. at.pc = "drain" /\ s # << >> /\ dest' = dest /\ net_tx(Head(s), nb[e].dest)
      BY <1>3, <2>0 DEF DrainOne
    <2>2. p = Head(s) BY <2>1 DEF net_tx
    <2>3. /\ e \in Entries /\ nb[e] \in EntryType /\ Sorted(s, nb[e].dest, dest)
          /\ Sound(nb[e], e \in Range(cache), TRUE, at.pc = "drain")
      BY <2>0, <2>1, InUse
    <2>4. e \in Range(cache) BY <2>1, <2>3 DEF Sound
    <2>5. s \in Seq(Nat) BY <2>3, Fields
    <2>6. 1 \in 1 .. Len(s) /\ p = s[1] BY <2>1, <2>2, <2>5
    <2>7. dest[p] = nb[e].dest BY <2>3, <2>6 DEF Sorted
    <2>8. e = f BY <2>1, <2>4, <2>7, <1>1 DEF Inv, Unique
    <2>9. PICK i \in 1 .. Len(s) : s[i] = q BY <2>8, <1>1
    <2>10. i = 1 \/ 1 < i BY <2>9, <2>5
    <2>11. i # 1 => s[1] < s[i] BY <2>3, <2>5, <2>6, <2>10 DEF Sorted
    <2>12. p \in Nat /\ q \in Nat /\ ~(p < q) /\ p # q BY <2>5, <2>6, <2>9
    <2> QED BY <2>6, <2>9, <2>11, <2>12
  <1>4. CASE sent' = sent BY <1>4
  <1>5. \/ \E d \in Dests : Tx(d) 
        \/ DrainOne
        \/ sent' = sent
    BY DEF Next, TxNew, Update, Created, CreateFails, DrainDone, ExpiredLast, ExpiredRetry, RequestDone,
           Discard, netdev_open, netdev_close
  <1> QED BY <1>2, <1>3, <1>4, <1>5

\* Every state has the types of TypeOK: in particular the reference counts that
\* ref_put, stop_timer and neighbour_destroy subtract from never go below zero.
THEOREM NeighbourTypes == Spec => []TypeOK
  <1>1. Inv => TypeOK BY DEF Inv
  <1> QED BY <1>1, InitInv, NextInv, PTL DEF Spec

\* For any number of entries, destinations and packets, the reference count of an
\* entry is the number of its owners (the cache, its timer, the call at work).
THEOREM RefsAlwaysExact == Spec => []RefsExact
  <1>1. Inv => RefsExact BY DEF Inv, AllSound, Sound, RefsExact
  <1> QED BY <1>1, InitInv, NextInv, PTL DEF Spec

\* For any number of entries, a destination has one of them at most, whatever
\* neighbour_discard does between neighbour_find and neighbour_create.
THEOREM OneEntryForEach == Spec => []OneEntryEach
  <1>1. Inv => OneEntryEach
    <2> SUFFICES ASSUME Inv, NEW i \in DOMAIN cache, NEW j \in DOMAIN cache,
                        nb[cache[i]].dest = nb[cache[j]].dest
                 PROVE  i = j
      BY DEF OneEntryEach
    <2>1. cache[i] \in Range(cache) /\ cache[j] \in Range(cache) BY DEF Range
    <2>2. cache[i] = cache[j] BY <2>1 DEF Inv, Unique
    <2> QED BY <2>2 DEF Inv, NoDup
  <1> QED BY <1>1, InitInv, NextInv, PTL DEF Spec

\* For any number of entries and packets, a packet that waits is in the queue of a
\* cached entry whose discovery timer runs or whose queue is being sent.
THEOREM NoPacketOrphaned == Spec => []NoOrphans
  <1>1. Inv => NoOrphans
    <2> SUFFICES ASSUME Inv, NEW e \in Entries, nb[e].queue # << >>
                 PROVE  /\ e \in Range(cache)
                        /\ IF nb[e].discovery = "arp" THEN nb[e].running = 1
                           ELSE at = [pc |-> "drain", e |-> e]
      BY DEF NoOrphans
    <2>1. Sound(nb[e], e \in Range(cache), at.e = e, Draining(e)) BY DEF Inv, AllSound
    <2>2. e \in Range(cache) /\ (nb[e].discovery = "arp" \/ Draining(e)) BY <2>1 DEF Sound
    <2>3. nb[e].discovery = "arp" => nb[e].running = 1 BY <2>1, <2>2 DEF Sound
    <2>4. Draining(e) => at = [pc |-> "drain", e |-> e] BY DEF Inv, TypeOK, Draining
    <2> QED BY <2>2, <2>3, <2>4
  <1> QED BY <1>1, InitInv, NextInv, PTL DEF Spec

\* For any number of entries and packets, no packet overtakes an earlier one for
\* the same destination that is still waiting for the address.
THEOREM AlwaysInOrder == Spec => InOrder
  <1> DEFINE A == \A p \in sent' \ sent : \A q \in Packets : q < p /\ dest[q] = dest'[p] => ~Waiting(q)
  <1>1. Inv /\ [Next]_vars => [A]_vars
    <2> SUFFICES ASSUME Inv, Next PROVE A BY DEF vars
    <2> QED BY StepInOrder
  <1> HIDE DEF A
  <1>2. Spec => [][A]_vars BY <1>1, InitInv, NextInv, PTL DEF Spec
  <1> QED BY <1>2 DEF InOrder, A
LEMMA OneOf ==
  ASSUME NEW b \in BOOLEAN PROVE (b => One(b) = 1) /\ (~b => One(b) = 0)
  BY Zenon DEF One

\* For any number of entries, destinations and packets, every packet handed to
\* neighbour_tx is in exactly one place, and a waiting one is once in the queue of
\* its own destination: none is lost, duplicated or sent twice when an entry is
\* discarded, flushed or given up under the code that is using it.
THEOREM AlwaysOnePlace == Spec => []OnePlace
  <1>1. Inv /\ Places => OnePlace
    <2> SUFFICES ASSUME Inv, Places PROVE OnePlace OBVIOUS
    <2>1. ASSUME NEW p \in Packets
          PROVE One(Waiting(p)) + One(Creating(p)) + One(p \in sent) + One(p \in failed) + One(p \in refused) = 1
      <3> DEFINE w == Waiting(p)
                 c == Creating(p)
                 s == p \in sent
                 f == p \in failed
                 r == p \in refused
      <3>1. /\ w <=> p \in Waits
            /\ c <=> p \in New
        BY DEF Waiting, Waits, Creating, New
      <3>2. /\ w \/ c \/ s \/ f \/ r
            /\ ~(w /\ c) /\ ~(w /\ s) /\ ~(w /\ f) /\ ~(w /\ r)
            /\ ~(c /\ s) /\ ~(c /\ f) /\ ~(c /\ r)
            /\ ~(s /\ f) /\ ~(s /\ r) /\ ~(f /\ r)
        BY <3>1 DEF Places, Apart
      <3>3. w \in BOOLEAN /\ c \in BOOLEAN /\ s \in BOOLEAN /\ f \in BOOLEAN /\ r \in BOOLEAN
        BY DEF Waiting, Creating
      <3> HIDE DEF w, c, s, f, r
      <3>4. /\ (w => One(w) = 1) /\ (~w => One(w) = 0) /\ (c => One(c) = 1) /\ (~c => One(c) = 0)
            /\ (s => One(s) = 1) /\ (~s => One(s) = 0) /\ (f => One(f) = 1) /\ (~f => One(f) = 0)
            /\ (r => One(r) = 1) /\ (~r => One(r) = 0)
        BY <3>3, OneOf
      <3>5. One(w) + One(c) + One(s) + One(f) + One(r) = 1
        BY <3>2, <3>4
      <3> QED BY <3>5 DEF w, c, s, f, r
    <2>2. ASSUME NEW e \in Entries
          PROVE  /\ IsInjective(nb[e].queue)
                 /\ \A p \in Range(nb[e].queue) : p \in Packets /\ dest[p] = nb[e].dest
      <3>1. nb[e].queue \in Seq(Nat) /\ Sorted(nb[e].queue, nb[e].dest, dest)
        BY QueueFacts
      <3>2. IsInjective(nb[e].queue)
        <4> DEFINE q == nb[e].queue
        <4>1. DOMAIN q = 1 .. Len(q) /\ \A i \in 1 .. Len(q) : q[i] \in Nat BY <3>1
        <4>2. \A i, j \in 1 .. Len(q) : i < j => q[i] < q[j] BY <3>1 DEF Sorted
        <4> HIDE DEF q
        <4>3. ASSUME NEW i \in 1 .. Len(q), NEW j \in 1 .. Len(q), q[i] = q[j] PROVE i = j
          <5>1. ~(i < j) /\ ~(j < i) BY <4>1, <4>2, <4>3
          <5> QED BY <5>1
        <4>4. \A i, j \in DOMAIN q : q[i] = q[j] => i = j BY <4>1, <4>3
        <4> QED BY <4>4 DEF IsInjective, q
      <3> QED BY <3>2, QueueFacts
    <2> QED BY <2>1, <2>2 DEF OnePlace
  <1> QED BY <1>1, InitInv, NextInv, InitPlaces, NextPlaces, PTL DEF Spec
=============================================================================
