------------------------------ MODULE Neighbour ------------------------------
(***************************************************************************)
(* The neighbour cache of iPXE (net/neighbour.c, with the ARP side of      *)
(* net/arp.c and the timers of net/retry.c): every packet of a download    *)
(* passes through it on the way to the network device.                     *)
(*                                                                         *)
(* iPXE is single-threaded, but a call that allocates memory may run       *)
(* neighbour_discard, and so may destroy the very entry its caller is      *)
(* working on: "at" says in which such call the code is.  Entries are      *)
(* reference-counted; "refs" counts the references (one more than the      *)
(* field "count" of struct refcnt), and the entry is freed when it reaches *)
(* zero.                                                                   *)
(***************************************************************************)
EXTENDS Integers, Sequences, Functions

CONSTANTS Entries,      \* places for entries on the heap
          Devs,         \* network devices
          Dests,        \* network-layer destinations
          NULL,         \* no entry, no destination
          DevOf,        \* the device a destination is reached by
          MaxPackets,   \* bound: packets handed over
          MinTimeout,   \* NEIGHBOUR_MIN_TIMEOUT
          MaxTimeout    \* NEIGHBOUR_MAX_TIMEOUT

ASSUME NeighbourAssumption ==
    /\ NULL \notin Entries /\ NULL \notin Dests
    /\ DevOf \in [Dests -> Devs]
    /\ MaxPackets \in Nat
    /\ MinTimeout \in Nat \ {0} /\ MaxTimeout \in Nat

VARIABLES nb,       \* the entries
          cache,    \* neighbours: the most recently used first
          open,     \* the devices that are open
          at,       \* the call in which memory may be allocated
          dest,     \* the destinations of the packets handed over so far
          sent,     \* packets handed to the device
          failed,   \* packets released with an error
          refused   \* packets for which neighbour_tx returned -ENOMEM

vars == <<nb, cache, open, at, dest, sent, failed, refused>>

Idle == [pc |-> "idle", e |-> NULL]

Packets == 1 .. Len(dest)

Free == [refs |-> 0, dest |-> NULL, discovery |-> "none", running |-> 0, timeout |-> 0, queue |-> << >>]

----------------------------------------------------------------------------
(* Timers *)

start_timer_fixed(n, timeout) ==
    [n EXCEPT !.refs = IF n.running = 1 THEN n.refs ELSE n.refs + 1, !.running = 1, !.timeout = timeout]

start_timer(n) == start_timer_fixed(n, IF n.timeout < MinTimeout THEN MinTimeout ELSE n.timeout)

ref_get(n) == [n EXCEPT !.refs = n.refs + 1]
ref_put(n) == IF n.refs = 1 THEN Free ELSE [n EXCEPT !.refs = n.refs - 1]

\* variant: the reference is dropped whether or not the timer was running
StopTimerAlways(n) == ref_put([n EXCEPT !.running = 0])

\* (the round-trip estimate is left out: the timer is not started again)
stop_timer(n) == IF n.running = 1 THEN ref_put([n EXCEPT !.running = 0]) ELSE n

\* timer_expired: the reference of the timer is kept until the handler is done
Expired(n) ==
    [n EXCEPT !.running = 0,
              !.timeout = IF 2 * n.timeout > MaxTimeout THEN MaxTimeout ELSE 2 * n.timeout]

\* variant: the comparison after the timeout has been limited
FailsLimited(n) == Expired(n).timeout > MaxTimeout

Fails(n) == 2 * n.timeout > MaxTimeout

----------------------------------------------------------------------------
(* Entries *)

\* variant: only entries whose address is known are found
FindDiscovered(d) == {e \in Range(cache) : nb[e].dest = d /\ nb[e].discovery = "none"}

\* neighbour_find
Cached(d) == {e \in Range(cache) : nb[e].dest = d}

\* list_del
Unlink(e) ==
    LET k == CHOOSE i \in DOMAIN cache : cache[i] = e
    IN  SubSeq(cache, 1, k - 1) \o SubSeq(cache, k + 1, Len(cache))

ToFront(e) == <<e>> \o Unlink(e)

\* neighbour_create and neighbour_discover
neighbour_create(d) ==
    start_timer_fixed([Free EXCEPT !.refs = 1, !.dest = d, !.discovery = "arp"], 0)

\* neighbour_discovered, up to the loop of neighbour_tx_queue
neighbour_discovered(n) == ref_get(stop_timer([n EXCEPT !.discovery = "none"]))

\* neighbour_destroy
Destroyed(n) == ref_put([stop_timer(n) EXCEPT !.queue = << >>])

\* the entries of es are destroyed, and their packets released
neighbour_destroy(es) ==
    /\ nb' = [e \in Entries |-> IF e \in es THEN Destroyed(nb[e]) ELSE nb[e]]
    /\ failed' = failed \cup UNION {Range(nb[e].queue) : e \in es}

----------------------------------------------------------------------------
(* The actions *)

Init ==
    /\ nb = [e \in Entries |-> Free]
    /\ cache = << >>
    /\ open = {}
    /\ at = Idle
    /\ dest = << >>
    /\ sent = {} /\ failed = {} /\ refused = {}

\* net_tx, for the packet p: a closed device, a full ring or an error of the
\* driver releases the packet
net_tx(p, d) ==
    \/ DevOf[d] \in open /\ sent' = sent \cup {p} /\ UNCHANGED failed
    \/ failed' = failed \cup {p} /\ UNCHANGED sent

\* variant: list_add for list_add_tail
TxFront(d) ==
    /\ at.pc = "idle" /\ Len(dest) < MaxPackets
    /\ dest' = Append(dest, d)
    /\ \E e \in Cached(d) :
        /\ cache' = ToFront(e)
        /\ IF nb[e].discovery = "arp"
           THEN /\ nb' = [nb EXCEPT ![e].queue = <<Len(dest')>> \o @]
                /\ UNCHANGED <<sent, failed>>
           ELSE /\ net_tx(Len(dest'), d)
                /\ UNCHANGED nb
    /\ UNCHANGED <<open, at, refused>>

\* neighbour_tx of a new packet, when there is an entry
Tx(d) ==
    /\ at.pc = "idle" /\ Len(dest) < MaxPackets
    /\ dest' = Append(dest, d)
    /\ \E e \in Cached(d) :
        /\ cache' = ToFront(e)
        /\ IF nb[e].discovery = "arp"
           THEN /\ nb' = [nb EXCEPT ![e].queue = Append(@, Len(dest'))]
                /\ UNCHANGED <<sent, failed>>
           ELSE /\ net_tx(Len(dest'), d)
                /\ UNCHANGED nb
    /\ UNCHANGED <<open, at, refused>>

\* neighbour_tx when there is none: zalloc is called
TxNew(d) ==
    /\ at.pc = "idle" /\ Len(dest) < MaxPackets
    /\ Cached(d) = {}
    /\ dest' = Append(dest, d)
    /\ at' = [Idle EXCEPT !.pc = "create"]
    /\ UNCHANGED <<nb, cache, open, sent, failed, refused>>

Created ==
    /\ at.pc = "create"
    /\ \E e \in Entries :
        /\ nb[e] = Free
        /\ nb' = [nb EXCEPT ![e] = [neighbour_create(dest[Len(dest)]) EXCEPT !.queue = <<Len(dest)>>]]
        /\ cache' = <<e>> \o cache
    /\ at' = Idle
    /\ UNCHANGED <<open, dest, sent, failed, refused>>

\* zalloc gives up when no cache has anything left to discard
CreateFails ==
    /\ at.pc = "create" /\ cache = << >>
    /\ at' = Idle
    /\ refused' = refused \cup {Len(dest)}
    /\ UNCHANGED <<nb, cache, open, dest, sent, failed>>

\* arp_rx, neighbour_update; an address without an entry is not learnt
Update(d) ==
    /\ at.pc = "idle"
    /\ \E e \in Cached(d) :
        /\ cache' = ToFront(e)
        /\ nb' = [nb EXCEPT ![e] = neighbour_discovered(@)]
        /\ at' = [pc |-> "drain", e |-> e]
    /\ UNCHANGED <<open, dest, sent, failed, refused>>

\* variant: list_del forgotten
DrainKeeps ==
    /\ at.pc = "drain" /\ nb[at.e].queue # << >>
    /\ net_tx(Head(nb[at.e].queue), nb[at.e].dest)
    /\ UNCHANGED <<nb, cache, open, at, dest, refused>>

\* one turn of the loop: net_tx is called
DrainOne ==
    /\ at.pc = "drain" /\ nb[at.e].queue # << >>
    /\ nb' = [nb EXCEPT ![at.e].queue = Tail(@)]
    /\ net_tx(Head(nb[at.e].queue), nb[at.e].dest)
    /\ UNCHANGED <<cache, open, at, dest, refused>>

DrainDone ==
    /\ at.pc = "drain" /\ nb[at.e].queue = << >>
    /\ nb' = [nb EXCEPT ![at.e] = ref_put(@)]
    /\ at' = Idle
    /\ UNCHANGED <<cache, open, dest, sent, failed, refused>>

\* timer_expired, neighbour_expired: give up
ExpiredLast(e) ==
    /\ at.pc = "idle" /\ nb[e].running = 1 /\ Fails(nb[e])
    /\ nb' = [nb EXCEPT ![e] = ref_put(Destroyed(Expired(@)))]
    /\ cache' = Unlink(e)
    /\ failed' = failed \cup Range(nb[e].queue)
    /\ UNCHANGED <<open, at, dest, sent, refused>>

\* variant: start_timer forgotten
RetryOnce(e) ==
    /\ at.pc = "idle" /\ nb[e].running = 1 /\ ~Fails(nb[e])
    /\ nb' = [nb EXCEPT ![e] = Expired(@)]
    /\ at' = [pc |-> "request", e |-> e]
    /\ UNCHANGED <<cache, open, dest, sent, failed, refused>>

\* or start again: tx_request is called, which allocates a packet
ExpiredRetry(e) ==
    /\ at.pc = "idle" /\ nb[e].running = 1 /\ ~Fails(nb[e])
    /\ nb' = [nb EXCEPT ![e] = start_timer(Expired(@))]
    /\ at' = [pc |-> "request", e |-> e]
    /\ UNCHANGED <<cache, open, dest, sent, failed, refused>>

\* variant: ref_put of timer_expired forgotten
RequestKeeps ==
    /\ at.pc = "request"
    /\ at' = Idle
    /\ UNCHANGED <<nb, cache, open, dest, sent, failed, refused>>

\* the request is out, or could not be sent
RequestDone ==
    /\ at.pc = "request"
    /\ nb' = [nb EXCEPT ![at.e] = ref_put(@)]
    /\ at' = Idle
    /\ UNCHANGED <<cache, open, dest, sent, failed, refused>>

\* neighbour_discard: the oldest entry, on behalf of any allocation
Oldest == cache[Len(cache)]
Discard ==
    /\ cache # << >>
    /\ neighbour_destroy({Oldest})
    /\ cache' = Unlink(Oldest)
    /\ UNCHANGED <<open, at, dest, sent, refused>>

netdev_open(d) ==
    /\ at.pc = "idle"
    /\ open' = open \cup {d}
    /\ UNCHANGED <<nb, cache, at, dest, sent, failed, refused>>

\* the whole cache is cleared, whichever device is closed
neighbour_flush == neighbour_destroy(Range(cache)) /\ cache' = << >>

netdev_close(d) ==
    /\ at.pc = "idle" /\ d \in open
    /\ open' = open \ {d}
    /\ neighbour_flush
    /\ UNCHANGED <<at, dest, sent, refused>>

Next ==
    \/ \E d \in Dests : Tx(d) \/ TxNew(d) \/ Update(d)
    \/ Created \/ CreateFails \/ DrainOne \/ DrainDone
    \/ \E e \in Entries : ExpiredLast(e) \/ ExpiredRetry(e)
    \/ RequestDone \/ Discard
    \/ \E d \in Devs : netdev_open(d) \/ netdev_close(d)

Spec == Init /\ [][Next]_vars

(***************************************************************************)
(* Fairness: a call returns, and retry_poll comes to every timer whose     *)
(* time has passed.  Nothing is assumed of the neighbours' answers, of     *)
(* memory pressure or of further packets.                                  *)
(***************************************************************************)
FairSpec ==
    /\ Spec
    /\ WF_vars(Created \/ CreateFails) /\ WF_vars(DrainOne) /\ WF_vars(DrainDone) /\ WF_vars(RequestDone)
    /\ \A e \in Entries : SF_vars(ExpiredLast(e)) /\ SF_vars(ExpiredRetry(e))

----------------------------------------------------------------------------
(* Properties *)

EntryType ==
    [refs : Nat, dest : Dests \cup {NULL}, discovery : {"arp", "none"}, running : {0, 1}, timeout : Nat, queue : Seq(Nat)]

\* Types of the entries, of the cache and of the bookkeeping.
TypeOK ==
    /\ nb \in [Entries -> EntryType]
    /\ cache \in Seq(Entries) /\ open \subseteq Devs
    /\ at \in [pc : {"idle", "create", "drain", "request"}, e : Entries \cup {NULL}]
    /\ dest \in Seq(Dests) /\ sent \subseteq Nat /\ failed \subseteq Nat /\ refused \subseteq Nat

\* The references of an entry are those of the cache, of its running timer and
\* of the call that is working on it, and nothing else: no interleaving of
\* discards, flushes and timeouts frees an entry that is still in the cache, has
\* a timer running or is in use, and none leaves one behind that nobody owns
\* (neighbour_tx_queue's temporary reference, timer_expired, neighbour_destroy).
One(b) == IF b THEN 1 ELSE 0
RefsExact ==
    \A e \in Entries :
        nb[e].refs = One(e \in Range(cache)) + nb[e].running + One(at.e = e)

\* A destination has one entry at most, although the allocation between
\* neighbour_find and the insertion by neighbour_create may change the cache.
OneEntryEach ==
    \A i, j \in DOMAIN cache : nb[cache[i]].dest = nb[cache[j]].dest => i = j

\* A packet that waits, waits for something: its entry is in the cache with the
\* discovery timer running, or its queue is being sent (neighbour_tx,
\* neighbour_discovered, neighbour_expired).
Waiting(p) == \E e \in Entries : p \in Range(nb[e].queue)
NoOrphans ==
    \A e \in Entries : nb[e].queue # << >> =>
        /\ e \in Range(cache)
        /\ IF nb[e].discovery = "arp" THEN nb[e].running = 1 ELSE at = [pc |-> "drain", e |-> e]

\* Every packet handed over is in exactly one place: waiting in the queue of its
\* own destination, with the device, released with an error, or (-ENOMEM) still
\* with the caller.  None is lost when an entry is destroyed or freed under the
\* code that is sending its queue (the assertion of neighbour_free).
Creating(p) == at.pc = "create" /\ p = Len(dest)
OnePlace ==
    /\ \A p \in Packets :
        One(Waiting(p)) + One(Creating(p)) + One(p \in sent) + One(p \in failed) + One(p \in refused) = 1
    /\ \A e \in Entries :
        /\ IsInjective(nb[e].queue)
        /\ \A p \in Range(nb[e].queue) : p \in Packets /\ dest[p] = nb[e].dest

\* Packets for one destination reach the device in the order in which they were
\* handed over: none overtakes one that is still waiting for the address.
InOrder ==
    [][\A p \in sent' \ sent : \A q \in Packets : q < p /\ dest[q] = dest'[p] => ~Waiting(q)]_vars

\* Every packet that waits for an address is sent or released in the end, whether
\* or not the neighbour answers.
EventuallyOut == \A p \in 1 .. MaxPackets : Waiting(p) ~> ~Waiting(p)
=============================================================================
