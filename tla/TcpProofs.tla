----------------------------- MODULE TcpProofs ------------------------------
(***************************************************************************)
(* Proofs about the receiving side of Tcp: the connection is the byte      *)
(* stream of Stream, for every reply, window and sequence space.           *)
(*                                                                         *)
(* The inductive invariant RecvInv says that what the reader has been      *)
(* handed is the reply up to the receive point (Progress), that the queue  *)
(* holds stretches of the reply in ascending order (Queue), and that all   *)
(* of it lies within Reach of where the receive point was when the current *)
(* packet arrived, so that comparisons modulo M are comparisons of numbers *)
(* (CmpNear, AheadNear).  The last part is about the selective             *)
(* acknowledgement: tcp_sack_block walks the queue, and each block it      *)
(* grows stays within what the queue covers, for a queue of any length.    *)
(***************************************************************************)
EXTENDS Tcp, SequenceLemmas, SequenceTheorems, WellFoundedInduction, TLAPS

(* Sequence numbers *)

LEMMA CmpNear ==
    ASSUME NEW a \in Int, NEW b \in Int, a - b <= 2 * Reach + 1, b - a <= 2 * Reach + 1
    PROVE  tcp_cmp(a, b) = a - b
  BY SpaceAssumption DEF tcp_cmp

LEMMA AheadNear ==
    ASSUME NEW a \in Int, NEW b \in Int, a - b <= 2 * Reach + 1, b - a <= 2 * Reach + 1
    PROVE  /\ Ahead(a, b) = 0 <=> a = b
           /\ a >= b => Ahead(a, b) = a - b
           /\ a < b => Ahead(a, b) > 2 * Reach + 1
  BY SpaceAssumption DEF Ahead

-----------------------------------------------------------------------------
(* The receiving side *)

Bytes(n) == [i \in 1 .. n |-> i]

Good(e) == e.seq >= 1 /\ e.seq < e.nxt /\ e.nxt <= Reply + 2 /\ (e.fin <=> e.nxt = Reply + 2)

Sorted(q) == \A i, j \in 1 .. Len(q) : i <= j => q[i].seq <= q[j].seq

Near(q, b) == \A i \in 1 .. Len(q) : b - Reach <= q[i].seq /\ q[i].nxt <= b + Reach

\* AtType without the type of the window remembered in "old"
AtShape ==
    /\ at = [pc |-> at.pc, nxt |-> at.nxt, fin |-> at.fin, old |-> at.old]
    /\ at.pc \in {"idle", "loop", "call"} /\ at.nxt \in Nat /\ at.fin \in BOOLEAN

\* b is where the receive point was when the loop over the queue began
Around(r, b) ==
    /\ b <= r.ack /\ r.ack <= b + Reach + (IF "FIN" \in r.rcvd THEN 1 ELSE 0)
    /\ Near(r.queue, b)

RecvType ==
    /\ listed \in BOOLEAN /\ closed \in BOOLEAN
    /\ rcv \in RcvType /\ tmr \in TmrType /\ AtShape
    /\ end \in {"open", "eof", "failed", "closed"}

\* how far reception has come
Progress ==
    /\ "SYN" \notin rcv.rcvd => rcv.rcvd = {} /\ rcv.ack = 0 /\ rcv.queue = << >>
    /\ "SYN" \in rcv.rcvd => /\ rcv.ack >= 1 /\ rcv.ack <= Reply + 2
                             /\ "FIN" \in rcv.rcvd <=> rcv.ack = Reply + 2
    /\ ~closed => /\ "FIN" \notin rcv.rcvd
                  /\ out = Bytes(IF "SYN" \in rcv.rcvd THEN rcv.ack - 1 ELSE 0)

Closing ==
    /\ closed <=> end # "open"
    /\ ~listed => closed /\ at.pc = "idle"
    /\ tmr.wait => closed

\* the queue holds stretches of the reply, in order, all near the receive point
Queue ==
    /\ \A i \in 1 .. Len(rcv.queue) : Good(rcv.queue[i])
    /\ Sorted(rcv.queue)
    /\ at.pc = "idle" => \A i \in 1 .. Len(rcv.queue) : rcv.queue[i].seq > rcv.ack /\ rcv.queue[i].nxt <= rcv.ack + Reach
    /\ at.pc # "idle" => \E b \in Nat : Around(rcv, b)

Calling ==
    at.pc = "call" => "SYN" \in rcv.rcvd /\ at.nxt = rcv.ack /\ (at.fin => rcv.ack = Reply + 1)

RecvInv == RecvType /\ Progress /\ Closing /\ Queue /\ Calling

StreamStep == [IsStream!Next]_<<out, end>>

LEMMA NewTypes == NewRcv \in RcvType /\ NewTmr \in TmrType /\ GoneTmr \in TmrType /\ Idle \in AtType
  <1>1. << >> \in Seq(Queued) /\ {} \in SUBSET Flags
    OBVIOUS
  <1>2. NewRcv \in RcvType
    BY <1>1 DEF NewRcv, RcvType
  <1>3. QED
    BY <1>2 DEF NewTmr, GoneTmr, Idle, TmrType, AtType

LEMMA RecvInit == Init => RecvInv
  <1> SUFFICES ASSUME Init PROVE RecvInv
    OBVIOUS
  <1>1. RecvType
    BY NewTypes DEF Init, RecvType, AtShape, Idle
  <1>2. rcv.rcvd = {} /\ rcv.ack = 0 /\ rcv.queue = << >> /\ at.pc = "idle" /\ ~tmr.wait
    BY DEF Init, NewRcv, NewTmr, Idle
  <1>3. out = Bytes(0)
    BY DEF Init, Bytes
  <1>4. Progress /\ Closing /\ Calling
    BY <1>2, <1>3 DEF Init, Progress, Closing, Calling
  <1>5. Queue
    BY <1>2 DEF Queue, Sorted
  <1>6. QED
    BY <1>1, <1>4, <1>5 DEF RecvInv

LEMMA XmitFrame ==
    ASSUME NEW s, NEW r \in RcvType, NEW t \in TmrType, tcp_xmit(s, r, t)
    PROVE  /\ rcv' \in RcvType
           /\ rcv'.rcvd = r.rcvd /\ rcv'.ack = r.ack /\ rcv'.queue = r.queue
           /\ tmr' \in TmrType /\ tmr'.wait = t.wait
  <1>1. PICK how \in Outcomes, w \in AppWindows :
            tmr' = XmitTmr(s, t) /\ rcv' = XmitRcv(s, r, t, how, w)
    BY DEF tcp_xmit
  <1>2. w \in Nat
    BY SpaceAssumption
  <1>3. tmr' \in TmrType /\ tmr'.wait = t.wait
    BY <1>1 DEF XmitTmr, TmrType
  <1>4. XmitRcv(s, r, t, how, w) \in RcvType
    BY <1>2 DEF XmitRcv, RcvType, Most
  <1>5. QED
    BY <1>1, <1>3, <1>4 DEF XmitRcv, RcvType

\* A step that only touches the window and the pending acknowledgement.
LEMMA RecvFrame ==
    ASSUME RecvInv, rcv' \in RcvType, tmr' \in TmrType, tmr'.wait => tmr.wait,
           rcv'.rcvd = rcv.rcvd, rcv'.ack = rcv.ack, rcv'.queue = rcv.queue,
           UNCHANGED <<listed, closed, at, out, end>>
    PROVE  RecvInv' /\ StreamStep
  <1>1. RecvType' /\ Progress' /\ Closing' /\ Calling'
    BY DEF RecvInv, RecvType, AtShape, Progress, Closing, Calling
  <1>2. Queue'
    BY DEF RecvInv, Queue, Around
  <1>3. QED
    BY <1>1, <1>2 DEF RecvInv, StreamStep

\* The connection is deleted.
LEMMA RecvDelete ==
    ASSUME RecvInv, at.pc = "idle", Delete, UNCHANGED <<at, out>>,
           NEW why \in {"failed", "closed", "eof"}, end' = Ended(why), why = "eof" => closed
    PROVE  RecvInv' /\ StreamStep
  <1>1. rcv' = NewRcv /\ tmr' = GoneTmr /\ listed' = FALSE /\ closed' = TRUE
    BY DEF Delete
  <1>2. rcv'.rcvd = {} /\ rcv'.ack = 0 /\ rcv'.queue = << >> /\ ~tmr'.wait
    BY <1>1 DEF NewRcv, GoneTmr
  <1>3. end' # "open" /\ end' \in {"eof", "failed", "closed"}
    BY DEF RecvInv, RecvType, Closing, Ended
  <1>4. RecvType'
    BY <1>1, <1>3, NewTypes DEF RecvInv, RecvType, AtShape
  <1>5. Progress' /\ Closing' /\ Calling'
    BY <1>1, <1>2, <1>3 DEF Progress, Closing, Calling
  <1>6. Queue'
    BY <1>2 DEF Queue, Sorted
  <1>7. StreamStep
    BY DEF StreamStep, RecvInv, Closing, Ended, IsStream!Next, IsStream!Abort
  <1>8. QED
    BY <1>4, <1>5, <1>6, <1>7 DEF RecvInv

\* tcp_close of a connection that has received a SYN, by either end.
LEMMA CloseTmrType ==
    ASSUME NEW s, NEW t \in TmrType
    PROVE  CloseTmr(s, t) \in TmrType /\ CloseTmr(s, t).wait = t.wait
  BY DEF CloseTmr, AckTmr, TmrType

LEMMA AckTmrType ==
    ASSUME NEW s, NEW t \in TmrType, NEW ack
    PROVE  AckTmr(s, t, ack) \in TmrType /\ AckTmr(s, t, ack).wait = t.wait
  BY DEF AckTmr, TmrType

\* The reader closes, or tcp_shutdown does.
LEMMA RecvClose ==
    ASSUME RecvInv, ~closed, closed' = TRUE, end' \in {"failed", "closed"},
           rcv' \in RcvType, rcv'.rcvd = rcv.rcvd, rcv'.ack = rcv.ack, rcv'.queue = rcv.queue,
           tmr' \in TmrType, UNCHANGED <<listed, at, out>>
    PROVE  RecvInv' /\ StreamStep
  <1>1. RecvType' /\ Progress' /\ Closing' /\ Calling'
    BY DEF RecvInv, RecvType, AtShape, Progress, Closing, Calling
  <1>2. Queue'
    BY DEF RecvInv, Queue, Around
  <1>3. StreamStep
    BY DEF StreamStep, RecvInv, Closing, IsStream!Next, IsStream!Abort
  <1>4. QED
    BY <1>1, <1>2, <1>3 DEF RecvInv

\* The steps that receive nothing.
LEMMA RecvOther ==
    ASSUME RecvInv,
           \/ ProcessStep \/ TimerExpired \/ TimerOver \/ KeepaliveExpired \/ WaitExpired
           \/ AppSend \/ AppWait \/ AppClose \/ Shutdown \/ ShutdownForce \/ Over
    PROVE  RecvInv' /\ StreamStep
  <1> USE DEF RecvInv
  <1>1. rcv \in RcvType /\ tmr \in TmrType
    BY DEF RecvType
  <1>2. ASSUME NEW s, NEW r, NEW t, r \in RcvType, t \in TmrType, tcp_xmit(s, r, t),
               r.rcvd = rcv.rcvd, r.ack = rcv.ack, r.queue = rcv.queue, t.wait = tmr.wait,
               UNCHANGED <<listed, closed, at, out, end>>
        PROVE  RecvInv' /\ StreamStep
    BY <1>2, XmitFrame, RecvFrame
  <1>3. CASE ProcessStep
    <2>1. [tmr EXCEPT !.process = FALSE] \in TmrType /\ [tmr EXCEPT !.process = FALSE].wait = tmr.wait
      BY <1>1 DEF TmrType
    <2>2. QED
      BY <1>1, <1>2, <1>3, <2>1 DEF ProcessStep, env
  <1>4. CASE TimerExpired
    <2>1. [tmr EXCEPT !.timer = FALSE] \in TmrType /\ [tmr EXCEPT !.timer = FALSE].wait = tmr.wait
      BY <1>1 DEF TmrType
    <2>2. QED
      BY <1>1, <1>2, <1>4, <2>1 DEF TimerExpired, env
  <1>5. CASE KeepaliveExpired
    <2> DEFINE r == [rcv EXCEPT !.due = TRUE]
    <2>1. r \in RcvType /\ r.rcvd = rcv.rcvd /\ r.ack = rcv.ack /\ r.queue = rcv.queue
      BY <1>1 DEF RcvType
    <2> HIDE DEF r
    <2>2. QED
      BY <1>1, <1>2, <1>5, <2>1 DEF KeepaliveExpired, env, r
  <1>6. CASE AppSend
    BY <1>1, <1>2, <1>6 DEF AppSend
  <1>7. CASE TimerOver
    BY <1>7, RecvDelete DEF TimerOver, Abort
  <1>8. CASE WaitExpired
    BY <1>8, RecvDelete DEF WaitExpired, Abort, Closing
  <1>9. CASE ShutdownForce
    BY <1>9, RecvDelete DEF ShutdownForce, Abort
  <1>10. CASE AppWait
    BY <1>1, <1>10, RecvFrame DEF AppWait
  <1>11. CASE Over
    BY <1>1, <1>11, RecvFrame DEF Over, vars
  <1>12. CASE AppClose
    <2>1. CASE "SYN" \notin rcv.rcvd
      <3>1. at.pc = "idle"
        BY <1>12, <2>1 DEF AppClose, Calling, RecvType, AtShape
      <3>2. end' = Ended("closed")
        BY <1>12 DEF AppClose, Ended
      <3>3. QED
        BY <1>12, <2>1, <3>1, <3>2, RecvDelete DEF AppClose
    <2>2. CASE "SYN" \in rcv.rcvd
      <3>1. tcp_xmit(CloseSnd(snd), rcv, CloseTmr(snd, tmr))
        BY <1>12, <2>2 DEF AppClose
      <3>2. QED
        BY <1>1, <1>12, <2>2, <3>1, XmitFrame, CloseTmrType, RecvClose DEF AppClose
    <2>3. QED
      BY <2>1, <2>2
  <1>13. CASE Shutdown
    <2>1. CASE closed
      BY <1>1, <1>13, <2>1, RecvFrame DEF Shutdown
    <2>2. CASE ~closed /\ "SYN" \notin rcv.rcvd
      BY <1>13, <2>2, RecvDelete DEF Shutdown, tcp_close
    <2>3. CASE ~closed /\ "SYN" \in rcv.rcvd
      BY <1>1, <1>13, <2>3, CloseTmrType, RecvClose DEF Shutdown, tcp_close, Ended
    <2>4. QED
      BY <2>1, <2>2, <2>3
  <1>14. QED
    BY <1>3, <1>4, <1>5, <1>6, <1>7, <1>8, <1>9, <1>10, <1>11, <1>12, <1>13

LEMMA QueuedFields == \A e \in Queued : e.seq \in Nat /\ e.nxt \in Nat /\ e.fin \in BOOLEAN
  BY DEF Queued

\* every queued segment lies behind a gap, within reach
Behind(r) ==
    \A i \in 1 .. Len(r.queue) :
        Good(r.queue[i]) /\ r.queue[i].seq > r.ack /\ r.queue[i].nxt <= r.ack + Reach

\* the segment, unless empty, is a stretch of the reply within reach
Fits(r, seq, len, fin) ==
    LET nxt == seq + len + (IF fin THEN 1 ELSE 0)
    IN  seq < nxt => /\ Good([seq |-> seq, nxt |-> nxt, fin |-> fin])
                     /\ r.ack - Reach <= seq /\ nxt <= r.ack + Reach

\* Two stretches within reach of one point are within twice the reach of each other.
LEMMA Spread ==
    \A a, m, b, n, x, d \in Nat :
        x - d <= a /\ a < m /\ m <= x + d /\ x < b /\ b < n /\ n <= x + d
            => a - b <= 2 * d + 1 /\ b - a <= 2 * d + 1
  OBVIOUS

\* What tcp_rx_enqueue does to a queue near the receive point.
LEMMA Enqueue ==
    ASSUME NEW r \in RcvType, Sorted(r.queue), Behind(r),
           NEW seq \in Nat, NEW len \in Nat, NEW fin \in BOOLEAN, Fits(r, seq, len, fin)
    PROVE  LET p == tcp_rx_enqueue(r, seq, len, fin)
           IN  /\ p \in RcvType /\ p.rcvd = r.rcvd /\ p.ack = r.ack
               /\ p.queue # r.queue => "SYN" \in r.rcvd
               /\ Sorted(p.queue) /\ Near(p.queue, r.ack)
               /\ \A i \in 1 .. Len(p.queue) : Good(p.queue[i])
  <1> DEFINE nxt == seq + len + (IF fin THEN 1 ELSE 0)
             e == [seq |-> seq, nxt |-> nxt, fin |-> fin]
             q == r.queue
             later == {i \in DOMAIN q : tcp_cmp(seq, q[i].seq) < 0}
             here == IF later = {} THEN Len(q) + 1 ELSE CHOOSE i \in later : \A j \in later : i <= j
             w == SubSeq(q, 1, here - 1) \o <<e>> \o SubSeq(q, here, Len(q))
             p == tcp_rx_enqueue(r, seq, len, fin)
  <1>1. q \in Seq(Queued) /\ Len(q) \in Nat /\ DOMAIN q = 1 .. Len(q)
    BY DEF RcvType
  <1>2. r.ack \in Nat /\ Reach \in Nat
    BY SpaceAssumption DEF RcvType
  <1>3. \A i \in 1 .. Len(q) : q[i] \in Queued /\ q[i].seq \in Nat /\ q[i].nxt \in Nat
    <2>1. \A i \in 1 .. Len(q) : q[i] \in Queued
      BY <1>1, ElementOfSeq
    <2>2. QED
      BY <2>1, QueuedFields
  <1>4. p = r \/ (p = [r EXCEPT !.queue = w] /\ nxt # seq /\ "SYN" \in r.rcvd)
    BY DEF tcp_rx_enqueue
  <1>5. CASE p = r
    <2>1. Near(q, r.ack)
      BY <1>2, <1>3 DEF Near, Good, Behind
    <2>2. QED
      BY <1>5, <2>1 DEF Behind
  <1>8. /\ Sorted(q)
        /\ \A i \in 1 .. Len(q) : Good(q[i]) /\ q[i].seq > r.ack /\ q[i].nxt <= r.ack + Reach
    BY DEF Behind
  <1>6. CASE p = [r EXCEPT !.queue = w] /\ nxt # seq /\ "SYN" \in r.rcvd
    <2>1. e \in Queued /\ Good(e) /\ e.seq = seq /\ e.nxt = nxt /\ nxt \in Nat /\ r.ack - Reach <= seq /\ nxt <= r.ack + Reach /\ seq < nxt
      <3>1. nxt # seq
        BY <1>6
      <3> HIDE DEF w
      <3>2. QED
        BY <1>2, <3>1 DEF Queued, Fits
    <2> HIDE DEF e, nxt, q
    <2>2. \A i \in 1 .. Len(q) : tcp_cmp(seq, q[i].seq) = seq - q[i].seq
      <3>1. ASSUME NEW i \in 1 .. Len(q)
            PROVE  seq - q[i].seq <= 2 * Reach + 1 /\ q[i].seq - seq <= 2 * Reach + 1
        <4>1. q[i].seq > r.ack /\ q[i].nxt <= r.ack + Reach /\ q[i].seq < q[i].nxt
          BY <1>8 DEF Good
        <4>2. q[i].seq \in Nat /\ q[i].nxt \in Nat
          BY <1>3
        <4>3. nxt \in Nat /\ r.ack - Reach <= seq /\ nxt <= r.ack + Reach /\ seq < nxt
          BY <2>1
        <4>4. r.ack < q[i].seq
          BY <1>2, <4>1, <4>2
        <4>5. QED
          BY <1>2, <4>1, <4>2, <4>3, <4>4, Spread, Zenon
      <3>2. ASSUME NEW i \in 1 .. Len(q)
            PROVE  tcp_cmp(seq, q[i].seq) = seq - q[i].seq
        <4>1. seq \in Int /\ q[i].seq \in Int
          BY <1>3
        <4>2. seq - q[i].seq <= 2 * Reach + 1 /\ q[i].seq - seq <= 2 * Reach + 1
          BY <3>1, Zenon
        <4>3. QED
          BY <4>1, <4>2, CmpNear, Zenon
      <3>3. QED
        BY <3>2, Zenon
    <2>3. \A i \in 1 .. Len(q) : i \in later <=> seq < q[i].seq
      BY <1>1, <1>3, <2>2
    <2>4. /\ here \in 1 .. (Len(q) + 1)
          /\ \A i \in 1 .. Len(q) : i < here => i \notin later
          /\ here # Len(q) + 1 => here \in later
      <3>1. CASE later = {}
        <4>1. here = Len(q) + 1
          BY <3>1
        <4> HIDE DEF here, later
        <4>2. QED
          BY <1>1, <3>1, <4>1
      <3>2. CASE later # {}
        <4>1. later \subseteq 1 .. Len(q)
          BY <1>1
        <4>2. \E i \in later : \A j \in later : i <= j
          <5>1. later \subseteq Nat
            BY <4>1
          <5> HIDE DEF later
          <5>2. QED
            BY <3>2, <5>1, LeastExists
        <4>3. here \in later /\ \A j \in later : here <= j
          BY <3>2, <4>2
        <4> HIDE DEF here, later
        <4>4. QED
          BY <1>1, <4>1, <4>3
      <3>3. QED
        BY <3>1, <3>2
    <2> HIDE DEF here, later
    <2>5. \A i \in 1 .. Len(q) : (i < here => q[i].seq <= seq) /\ (i >= here => seq < q[i].seq)
      <3>1. \A i \in 1 .. Len(q) : i < here => q[i].seq <= seq
        BY <1>1, <1>3, <2>3, <2>4
      <3>2. ASSUME NEW i \in 1 .. Len(q), i >= here PROVE seq < q[i].seq
        <4>1. here \in 1 .. Len(q) /\ seq < q[here].seq
          BY <1>1, <2>3, <2>4, <3>2
        <4>2. q[here].seq <= q[i].seq
          BY <1>8, <3>2, <4>1 DEF Sorted
        <4>3. QED
          BY <1>3, <4>1, <4>2
      <3>3. QED
        BY <3>1, <3>2
    <2>6. /\ w \in Seq(Queued) /\ Len(w) = Len(q) + 1
          /\ \A i \in 1 .. (Len(q) + 1) : w[i] = IF i < here THEN q[i] ELSE IF i = here THEN e ELSE q[i - 1]
      <3>1. q \in Seq(Queued) /\ e \in Queued /\ here \in 1 .. (Len(q) + 1)
        BY <1>1, <2>1, <2>4
      <3>2. w = With(q, here, e)
        BY DEF With
      <3> HIDE DEF w, here, e
      <3>3. /\ With(q, here, e) \in Seq(Queued) /\ Len(With(q, here, e)) = Len(q) + 1
            /\ \A i \in 1 .. (Len(q) + 1) :
                 With(q, here, e)[i] = IF i < here THEN q[i] ELSE IF i = here THEN e ELSE q[i - 1]
        BY <3>1, WithProperties
      <3>4. QED
        BY <3>2, <3>3, Zenon
    <2>7. p \in RcvType /\ p.rcvd = r.rcvd /\ p.ack = r.ack /\ p.queue = w
      BY <1>6, <2>6 DEF RcvType
    <2>11. "SYN" \in r.rcvd
      BY <1>6
    <2> HIDE DEF w, p
    <2>8. \A i \in 1 .. Len(w) : Good(w[i]) /\ r.ack - Reach <= w[i].seq /\ w[i].nxt <= r.ack + Reach
      <3> SUFFICES ASSUME NEW i \in 1 .. Len(w)
                   PROVE  Good(w[i]) /\ r.ack - Reach <= w[i].seq /\ w[i].nxt <= r.ack + Reach
        OBVIOUS
      <3>1. w[i] = e \/ \E j \in 1 .. Len(q) : w[i] = q[j]
        <4>1. here \in Nat /\ i \in 1 .. (Len(q) + 1)
          BY <1>1, <2>4, <2>6
        <4>2. CASE i < here
          BY <1>1, <2>4, <2>6, <4>1, <4>2
        <4>3. CASE i = here
          BY <2>6, <4>1, <4>3
        <4>4. CASE i > here
          <5>1. w[i] = q[i - 1] /\ i - 1 \in 1 .. Len(q)
            BY <1>1, <2>4, <2>6, <4>1, <4>4
          <5>2. QED
            BY <5>1
        <4>5. QED
          BY <4>1, <4>2, <4>3, <4>4
      <3>2. CASE w[i] = e
        BY <2>1, <3>2
      <3>3. ASSUME NEW j \in 1 .. Len(q), w[i] = q[j]
            PROVE  Good(w[i]) /\ r.ack - Reach <= w[i].seq /\ w[i].nxt <= r.ack + Reach
        <4>1. Good(q[j]) /\ q[j].seq > r.ack /\ q[j].nxt <= r.ack + Reach /\ q[j].seq \in Nat
          BY <1>3, <1>8
        <4>2. QED
          BY <1>2, <3>3, <4>1
      <3>4. QED
        BY <3>1, <3>2, <3>3
    <2>9. Sorted(w)
      <3> SUFFICES ASSUME NEW i \in 1 .. Len(w), NEW j \in 1 .. Len(w), i < j
                   PROVE  w[i].seq <= w[j].seq
        <4>1. \A i \in 1 .. Len(w) : w[i].seq \in Nat
          BY <2>6, ElementOfSeq, QueuedFields
        <4>2. QED
          BY <2>6, <4>1 DEF Sorted
      <3>1. here \in Nat /\ i \in 1 .. (Len(q) + 1) /\ j \in 1 .. (Len(q) + 1) /\ e.seq = seq
        BY <1>1, <2>1, <2>4, <2>6
      <3>2. CASE j < here
        <4>1. w[i] = q[i] /\ w[j] = q[j] /\ i \in 1 .. Len(q) /\ j \in 1 .. Len(q) /\ i <= j
          BY <1>1, <2>4, <2>6, <3>1, <3>2
        <4>2. QED
          BY <1>8, <4>1 DEF Sorted
      <3>3. CASE i < here /\ j = here
        <4>1. w[i] = q[i] /\ w[j] = e /\ i \in 1 .. Len(q)
          BY <1>1, <2>4, <2>6, <3>1, <3>3
        <4>2. QED
          BY <2>5, <3>1, <3>3, <4>1
      <3>4. CASE i < here /\ j > here
        <4>1. i \in 1 .. Len(q) /\ j - 1 \in 1 .. Len(q) /\ i <= j - 1
          BY <1>1, <2>4, <3>1, <3>4
        <4>3. w[i] = q[i] /\ w[j] = q[j - 1]
          BY <2>6, <3>1, <3>4
        <4>2. QED
          BY <1>8, <4>1, <4>3 DEF Sorted
      <3>5. CASE i = here
        <4>1. w[i] = e /\ w[j] = q[j - 1] /\ j - 1 \in 1 .. Len(q) /\ j - 1 >= here
          BY <1>1, <2>4, <2>6, <3>1, <3>5
        <4>2. QED
          BY <1>3, <2>5, <3>1, <4>1
      <3>6. CASE i > here
        <4>1. w[i] = q[i - 1] /\ w[j] = q[j - 1] /\ i - 1 \in 1 .. Len(q) /\ j - 1 \in 1 .. Len(q) /\ i - 1 <= j - 1
          BY <1>1, <2>4, <2>6, <3>1, <3>6
        <4>2. QED
          BY <1>8, <4>1 DEF Sorted
      <3>7. j < here \/ (i < here /\ j = here) \/ (i < here /\ j > here) \/ i = here \/ i > here
        BY <3>1
      <3>8. QED
        BY <3>2, <3>3, <3>4, <3>5, <3>6, <3>7
    <2>10. QED
      BY <2>7, <2>8, <2>9, <2>11 DEF Near, p
  <1>7. QED
    BY <1>4, <1>5, <1>6

\* A segment from the peer, once its SYN is taken off, fits.
Segments == SynSegments \cup DataSegments \cup RstSegments \cup OldSegments

LEMMA SegmentFacts ==
    ASSUME NEW g \in Segments
    PROVE  /\ g.seq \in Nat /\ g.len \in Nat /\ g.fin \in BOOLEAN /\ g.syn \in BOOLEAN
           /\ g.syn => g.seq = 0
           /\ g.syn => g.len = 0 /\ ~g.fin
           /\ g.len > 0 \/ g.fin => /\ g.seq >= 1 /\ g.seq + g.len <= Reply + 1 /\ "SYN" \in rcv.rcvd
                                    /\ g.fin => g.seq + g.len = Reply + 1
  <1>0. Reply \in Nat
    BY SpaceAssumption
  <1>1. CASE g \in SynSegments
    <2>1. g.seq = 0 /\ g.len = 0 /\ g.syn = TRUE /\ g.fin = FALSE
      BY <1>1 DEF SynSegments
    <2>2. g.seq \in Nat /\ g.len \in Nat /\ ~(g.len > 0)
      BY <2>1
    <2>3. QED
      BY <2>1, <2>2, Zenon
  <1>2. CASE g \in DataSegments
    <2>1. "SYN" \in rcv.rcvd
      BY <1>2 DEF DataSegments
    <2>2. /\ g.seq \in 1 .. (Reply + 2) /\ g.len \in 0 .. Reply
          /\ g.len > 0 => g.seq + g.len <= Reply + 1
          /\ g.fin => g.seq + g.len = Reply + 1
      BY <1>2, <2>1 DEF DataSegments
    <2>3. g.syn = FALSE /\ g.fin \in BOOLEAN
      BY <1>2, <2>1 DEF DataSegments
    <2>4. g.seq \in Nat /\ g.len \in Nat
      BY <1>0, <2>2
    <2>5. g.len > 0 \/ g.fin => g.seq >= 1 /\ g.seq + g.len <= Reply + 1
      BY <1>0, <2>2, <2>4
    <2>6. QED
      BY <2>1, <2>2, <2>3, <2>4, <2>5
  <1>3. CASE g \in RstSegments
    <2>1. g.seq \in 0 .. (Reply + 2) /\ g.len = 0 /\ g.syn = FALSE /\ g.fin = FALSE
      BY <1>3 DEF RstSegments
    <2>2. g.seq \in Nat /\ g.len \in Nat /\ ~(g.len > 0)
      BY <1>0, <2>1
    <2>3. QED
      BY <2>1, <2>2, Zenon
  <1>4. CASE g \in OldSegments
    <2>1. g.seq = 0 /\ g.len = 0 /\ g.syn \in BOOLEAN /\ g.fin = FALSE
      BY <1>4 DEF OldSegments
    <2>2. g.seq \in Nat /\ g.len \in Nat /\ ~(g.len > 0)
      BY <2>1
    <2>3. QED
      BY <2>1, <2>2, Zenon
  <1>5. QED
    BY <1>1, <1>2, <1>3, <1>4 DEF Segments

LEMMA RxSeq ==
    ASSUME NEW r \in RcvType, NEW n \in Nat
    PROVE  /\ tcp_rx_seq(r, n) \in RcvType
           /\ tcp_rx_seq(r, n).rcvd = r.rcvd
           /\ tcp_rx_seq(r, n).ack = r.ack + n
           /\ tcp_rx_seq(r, n).queue = r.queue
  <1> DEFINE w == IF r.win > n THEN r.win - n ELSE 0
             a == r.ack + n
  <1>1. w \in Nat /\ a \in Nat
    BY DEF RcvType
  <1>2. tcp_rx_seq(r, n) = [r EXCEPT !.ack = a, !.win = w, !.due = TRUE]
    BY DEF tcp_rx_seq, RcvType
  <1> HIDE DEF w, a
  <1>3. tcp_rx_seq(r, n) \in RcvType
    BY <1>1, <1>2 DEF RcvType
  <1>4. QED
    BY <1>2, <1>3 DEF RcvType, a

\* tcp_rx_syn, on a connection that is between packets.
LEMMA RxSyn ==
    ASSUME NEW r \in RcvType,
           "SYN" \notin r.rcvd => r.rcvd = {} /\ r.ack = 0 /\ r.queue = << >>,
           "SYN" \in r.rcvd => r.ack >= 1 /\ r.ack <= Reach
    PROVE  LET p == tcp_rx_syn(r, 0)
           IN  /\ p \in RcvType /\ p.queue = r.queue
               /\ "SYN" \in r.rcvd => p = r
               /\ "SYN" \notin r.rcvd => p.rcvd = {"SYN"} /\ p.ack = 1
  <1>1. CASE "SYN" \in r.rcvd
    <2>1. r.ack \in Nat /\ Reach \in Nat
      BY SpaceAssumption DEF RcvType
    <2>2. Ahead(0, r.ack) # 0
      BY <1>1, <2>1, AheadNear
    <2>3. tcp_rx_syn(r, 0) = r
      BY <1>1, <2>2 DEF tcp_rx_syn
    <2>4. QED
      BY <1>1, <2>3
  <1>2. CASE "SYN" \notin r.rcvd
    <2> DEFINE r1 == [r EXCEPT !.ack = 0]
               p == [tcp_rx_seq(r1, 1) EXCEPT !.rcvd = @ \cup {"SYN"}]
    <2>1. r1 \in RcvType /\ r1.rcvd = {} /\ r1.ack = 0 /\ r1.queue = r.queue
      BY <1>2 DEF RcvType
    <2>2. Ahead(0, r1.ack) = 0
      BY <2>1, SpaceAssumption DEF Ahead
    <2>3. tcp_rx_syn(r, 0) = p
      BY <1>2, <2>2 DEF tcp_rx_syn
    <2> HIDE DEF r1
    <2>7. /\ tcp_rx_seq(r1, 1) \in RcvType /\ tcp_rx_seq(r1, 1).rcvd = r1.rcvd
          /\ tcp_rx_seq(r1, 1).ack = r1.ack + 1 /\ tcp_rx_seq(r1, 1).queue = r1.queue
      BY <2>1, RxSeq
    <2>4. tcp_rx_seq(r1, 1) \in RcvType /\ tcp_rx_seq(r1, 1).rcvd = {} /\ tcp_rx_seq(r1, 1).ack = 1
          /\ tcp_rx_seq(r1, 1).queue = r.queue
      BY <2>1, <2>7
    <2>5. p \in RcvType /\ p.rcvd = {"SYN"} /\ p.ack = 1 /\ p.queue = r.queue
      BY <2>4 DEF RcvType, Flags
    <2>6. QED
      BY <1>2, <2>3, <2>5
  <1>3. QED
    BY <1>1, <1>2

LEMMA RecvArrives ==
    ASSUME RecvInv, NEW g \in Segments, Live(g), Rx(g)
    PROVE  RecvInv' /\ StreamStep
  <1> DEFINE hasack == g.ack # None
             refused == hasack /\ ~InRange(snd, g.ack) /\ ~HasBeenEstablished(snd, rcv)
             s1 == IF hasack THEN AckSnd(snd, closed, g.ack, g.win) ELSE snd
             r1 == IF "SYN" \in rcv.rcvd /\ Ahead(g.seq, rcv.ack) # 0 THEN [rcv EXCEPT !.due = TRUE] ELSE rcv
             r2 == IF g.syn THEN tcp_rx_syn(r1, g.seq) ELSE r1
             seq == g.seq + (IF g.syn THEN 1 ELSE 0)
             r3 == tcp_rx_enqueue(r2, seq, g.len, g.fin)
  <1>1. rcv \in RcvType /\ tmr \in TmrType /\ listed /\ at.pc = "idle" /\ UNCHANGED out
    BY DEF RecvInv, RecvType, Rx
  <1>2. CASE refused
    <2>1. UNCHANGED <<listed, closed, rcv, tmr, at, end>>
      BY <1>2 DEF Rx
    <2>2. QED
      BY <1>1, <2>1, RecvFrame
  <1>3. CASE ~refused /\ g.rst /\ Resets(s1, r2, seq)
    BY <1>1, <1>3, RecvDelete DEF Rx, Abort
  <1>4. CASE ~refused /\ ~(g.rst /\ Resets(s1, r2, seq))
    <2>1. /\ rcv' = r3
          /\ tmr' = IF hasack THEN AckTmr(snd, tmr, g.ack) ELSE tmr
          /\ at' = [Idle EXCEPT !.pc = "loop", !.old = tcp_xfer_window(snd)]
          /\ UNCHANGED <<listed, closed, end>>
      BY <1>4 DEF Rx
    <2>2. tmr' \in TmrType /\ tmr'.wait = tmr.wait
      BY <1>1, <2>1, AckTmrType
    <2>3. r1 \in RcvType /\ r1.rcvd = rcv.rcvd /\ r1.ack = rcv.ack /\ r1.queue = rcv.queue
      BY <1>1 DEF RcvType
    <2> HIDE DEF r1
    <2>4. /\ r2 \in RcvType /\ r2.queue = rcv.queue
          /\ ~g.syn \/ "SYN" \in rcv.rcvd => r2.rcvd = rcv.rcvd /\ r2.ack = rcv.ack
          /\ g.syn /\ "SYN" \notin rcv.rcvd => r2.rcvd = {"SYN"} /\ r2.ack = 1
      <3>1. CASE ~g.syn
        BY <2>3, <3>1
      <3>2. CASE g.syn
        <4>1. g.seq = 0 /\ End(g) = 0 + 0 + 0
          BY <3>2, SegmentFacts DEF End
        <4>2. "SYN" \in rcv.rcvd => rcv.ack >= 1 /\ rcv.ack <= Reach
          BY <1>1, <4>1, SpaceAssumption DEF Live, RecvInv, Progress, RcvType
        <4>3. r2 = tcp_rx_syn(r1, 0)
          BY <3>2, <4>1
        <4>4. "SYN" \notin r1.rcvd => r1.rcvd = {} /\ r1.ack = 0 /\ r1.queue = << >>
          BY <2>3 DEF RecvInv, Progress
        <4>5. QED
          BY <2>3, <3>2, <4>2, <4>3, <4>4, RxSyn
      <3>3. QED
        BY <3>1, <3>2
    <2> HIDE DEF r2
    <2>5. Sorted(r2.queue) /\ Behind(r2)
      <3>1. CASE "SYN" \in rcv.rcvd
        BY <1>1, <2>4, <3>1 DEF RecvInv, Queue, Behind
      <3>2. CASE "SYN" \notin rcv.rcvd
        <4>1. r2.queue = << >>
          BY <2>4, <3>2 DEF RecvInv, Progress
        <4>2. QED
          BY <4>1 DEF Sorted, Behind
      <3>3. QED
        BY <3>1, <3>2
    <2>6. seq \in Nat /\ g.len \in Nat /\ g.fin \in BOOLEAN
      BY SegmentFacts
    <2>7. Fits(r2, seq, g.len, g.fin)
      <3>1. CASE g.len = 0 /\ ~g.fin
        BY <2>6, <3>1 DEF Fits
      <3>2. CASE g.len > 0 \/ g.fin
        <4>1. /\ ~g.syn /\ g.seq >= 1 /\ g.seq + g.len <= Reply + 1 /\ "SYN" \in rcv.rcvd
              /\ g.fin => g.seq + g.len = Reply + 1
          BY <2>6, <3>2, SegmentFacts
        <4>2. seq = g.seq /\ r2.ack = rcv.ack
          BY <2>4, <2>6, <4>1, SegmentFacts
        <4>3. rcv.ack - Reach <= g.seq /\ g.seq + g.len + (IF g.fin THEN 1 ELSE 0) <= rcv.ack + Reach
          BY <4>1 DEF Live, End
        <4>4. Reply \in Nat /\ g.seq \in Nat
          BY SpaceAssumption, SegmentFacts
        <4>5. QED
          BY <2>6, <3>2, <4>1, <4>2, <4>3, <4>4 DEF Fits, Good
      <3>3. QED
        BY <2>6, <3>1, <3>2
    <2>8. /\ r3 \in RcvType /\ r3.rcvd = r2.rcvd /\ r3.ack = r2.ack
          /\ r3.queue # r2.queue => "SYN" \in r2.rcvd
          /\ Sorted(r3.queue) /\ Near(r3.queue, r2.ack)
          /\ \A i \in 1 .. Len(r3.queue) : Good(r3.queue[i])
      BY <2>4, <2>5, <2>6, <2>7, Enqueue
    <2> HIDE DEF r3, seq
    <2>9. at'.pc = "loop" /\ AtShape'
      BY <2>1 DEF Idle, AtShape
    <2>10. RecvType'
      BY <2>1, <2>2, <2>8, <2>9 DEF RecvInv, RecvType
    <2>11. /\ "SYN" \notin rcv'.rcvd => rcv'.rcvd = {} /\ rcv'.ack = 0 /\ rcv'.queue = << >>
           /\ "SYN" \in rcv'.rcvd => /\ rcv'.ack >= 1 /\ rcv'.ack <= Reply + 2
                                     /\ "FIN" \in rcv'.rcvd <=> rcv'.ack = Reply + 2
           /\ ~closed => "FIN" \notin rcv'.rcvd
           /\ (IF "SYN" \in rcv'.rcvd THEN rcv'.ack - 1 ELSE 0) = (IF "SYN" \in rcv.rcvd THEN rcv.ack - 1 ELSE 0)
      <3>1. CASE ~g.syn \/ "SYN" \in rcv.rcvd
        BY <2>1, <2>4, <2>8, <3>1 DEF RecvInv, Progress
      <3>2. CASE g.syn /\ "SYN" \notin rcv.rcvd
        BY <2>1, <2>4, <2>8, <3>2, SpaceAssumption
      <3>3. QED
        BY <3>1, <3>2
    <2>12. Progress'
      BY <1>1, <2>1, <2>11 DEF RecvInv, Progress, Bytes
    <2>13. Closing' /\ Calling'
      BY <1>1, <2>1, <2>2, <2>9 DEF RecvInv, Closing, Calling
    <2>14. Queue'
      <3>1. rcv'.ack \in Nat /\ Around(rcv', rcv'.ack)
        BY <2>1, <2>8, SpaceAssumption DEF RcvType, Around
      <3>2. QED
        BY <2>1, <2>8, <2>9, <3>1 DEF Queue
    <2>15. QED
      BY <1>1, <2>1, <2>10, <2>12, <2>13, <2>14 DEF RecvInv, StreamStep
  <1>5. QED
    BY <1>2, <1>3, <1>4

\* The queue without its first segment, or without its last.
LEMMA Shorter ==
    ASSUME NEW q \in Seq(Queued), q # << >>, NEW p \in {Tail(q), SubSeq(q, 1, Len(q) - 1)}
    PROVE  /\ p \in Seq(Queued)
           /\ Sorted(q) => Sorted(p)
           /\ \A i \in 1 .. Len(p) : \E j \in 1 .. Len(q) : p[i] = q[j]
  <1>1. CASE p = Tail(q)
    <2>1. p \in Seq(Queued) /\ Len(p) = Len(q) - 1 /\ \A i \in 1 .. Len(p) : p[i] = q[i + 1]
      BY <1>1, EmptySeq
    <2> HIDE DEF Sorted
    <2>2. \A i \in 1 .. Len(p) : i + 1 \in 1 .. Len(q)
      BY <2>1, LenProperties
    <2>3. ASSUME Sorted(q), NEW i \in 1 .. Len(p), NEW j \in 1 .. Len(p), i <= j
          PROVE  p[i].seq <= p[j].seq
      <3>1. i + 1 <= j + 1
        BY <2>3
      <3>2. q[i + 1].seq <= q[j + 1].seq
        BY <2>2, <2>3, <3>1 DEF Sorted
      <3>3. QED
        BY <2>1, <3>2
    <2>4. QED
      BY <2>1, <2>2, <2>3 DEF Sorted
  <1>2. CASE p = SubSeq(q, 1, Len(q) - 1)
    <2>1. p \in Seq(Queued) /\ Len(p) = Len(q) - 1 /\ \A i \in 1 .. (Len(q) - 1) : p[i] = q[i]
      BY <1>2, FrontProperties
    <2>2. \A i \in 1 .. Len(p) : i \in 1 .. Len(q) /\ p[i] = q[i]
      BY <2>1, LenProperties
    <2>3. QED
      BY <2>1, <2>2 DEF Sorted
  <1>3. QED
    BY <1>1, <1>2

LEMMA RecvDiscard ==
    ASSUME RecvInv, Discard
    PROVE  RecvInv' /\ StreamStep
  <1> DEFINE p == SubSeq(rcv.queue, 1, Len(rcv.queue) - 1)
  <1>1. rcv \in RcvType /\ rcv.queue \in Seq(Queued) /\ rcv.queue # << >> /\ UNCHANGED <<listed, closed, tmr, at, out, end>>
    BY DEF RecvInv, RecvType, RcvType, Discard
  <1>2. p \in Seq(Queued) /\ (Sorted(rcv.queue) => Sorted(p))
        /\ \A i \in 1 .. Len(p) : \E j \in 1 .. Len(rcv.queue) : p[i] = rcv.queue[j]
    BY <1>1, Shorter
  <1>3. rcv' = [rcv EXCEPT !.queue = p]
    BY DEF Discard
  <1> HIDE DEF p
  <1>4. rcv' \in RcvType /\ rcv'.rcvd = rcv.rcvd /\ rcv'.ack = rcv.ack /\ rcv'.queue = p
    BY <1>1, <1>2, <1>3 DEF RcvType
  <1>5. RecvType' /\ Closing' /\ Calling'
    BY <1>1, <1>4 DEF RecvInv, RecvType, AtShape, Closing, Calling
  <1>6. Progress'
    BY <1>1, <1>4 DEF RecvInv, Progress
  <1>7. \A b : Near(rcv.queue, b) => Near(p, b)
    BY <1>2 DEF Near
  <1>8. Queue'
    <2>1. \A b : Around(rcv, b) => Around(rcv', b)
      BY <1>4, <1>7 DEF Around
    <2>2. QED
      BY <1>1, <1>2, <1>4, <2>1 DEF RecvInv, Queue
  <1>9. QED
    BY <1>1, <1>5, <1>6, <1>8 DEF RecvInv, StreamStep

LEMMA FinAck ==
    ASSUME NEW a \in Nat, NEW seq \in Nat, a <= Reply + 2, seq = Reply + 1, seq <= a, Ahead(seq, a) = 0
    PROVE  a = Reply + 1
  <1>1. Reply \in Nat /\ Reach \in Nat /\ Reach >= 1
    BY SpaceAssumption
  <1>2. a - seq <= 2 * Reach + 1 /\ seq - a <= 2 * Reach + 1
    BY <1>1
  <1>3. Ahead(seq, a) = 0 <=> seq = a
    BY <1>2, AheadNear
  <1>4. QED
    BY <1>3

\* The end of a turn of the loop.
LEMMA RecvFin ==
    ASSUME RecvInv, NEW r \in RcvType, NEW b \in Nat, NEW seq \in Nat, NEW fin \in BOOLEAN,
           r.rcvd = rcv.rcvd, r.ack = rcv.ack, "SYN" \in rcv.rcvd, Around(r, b),
           Sorted(r.queue), \A i \in 1 .. Len(r.queue) : Good(r.queue[i]),
           fin => seq = Reply + 1 /\ seq <= r.ack,
           at.pc # "idle", at'.pc = "loop", AtShape', UNCHANGED out,
           tcp_rx_fin(r, seq, fin)
    PROVE  RecvInv' /\ StreamStep
  <1>1. tmr \in TmrType /\ r.ack \in Nat /\ r.ack >= 1 /\ r.ack <= Reply + 2 /\ ("FIN" \in r.rcvd <=> r.ack = Reply + 2)
    BY DEF RecvInv, RecvType, RcvType, Progress
  <1>2. Reply \in Nat /\ Reach \in Nat /\ Reach >= 1
    BY SpaceAssumption
  <1>3. CASE fin /\ Ahead(seq, r.ack) = 0
    <2> DEFINE r1 == tcp_rx_seq(r, 1)
               p == [r1 EXCEPT !.rcvd = @ \cup {"FIN"}]
    <2>1. r.ack = Reply + 1
      BY <1>1, <1>3, FinAck, Zenon
    <2>a. r1.ack = r.ack + 1 /\ r1 \in RcvType /\ r1.rcvd = r.rcvd /\ r1.queue = r.queue
      BY RxSeq
    <2> HIDE DEF r1
    <2>2. r1 \in RcvType /\ r1.rcvd = r.rcvd /\ r1.ack = Reply + 2 /\ r1.queue = r.queue
      <3>1. Reply + 1 + 1 = Reply + 2
        BY <1>2
      <3>2. QED
        BY <2>1, <2>a, <3>1, Zenon
    <2>3. p \in RcvType /\ p.rcvd = r.rcvd \cup {"FIN"} /\ p.ack = Reply + 2 /\ p.queue = r.queue
      BY <2>2 DEF RcvType, Flags
    <2>4. tcp_close(snd, p, tmr, "eof")
      BY <1>3 DEF tcp_rx_fin, r1
    <2> HIDE DEF p
    <2>5. /\ closed' = TRUE /\ rcv' = p /\ tmr' = CloseTmr(snd, tmr) /\ end' = Ended("eof") /\ UNCHANGED listed
      BY <2>3, <2>4 DEF tcp_close
    <2>6. tmr' \in TmrType
      BY <1>1, <2>5, CloseTmrType
    <2>7. end' # "open" /\ end' \in {"eof", "failed", "closed"}
      BY <2>5 DEF Ended, RecvInv, RecvType, Closing
    <2>8. RecvType'
      BY <2>3, <2>5, <2>6, <2>7 DEF RecvInv, RecvType
    <2>9. Progress'
      BY <1>2, <2>3, <2>5 DEF Progress
    <2>10. Closing' /\ Calling'
      BY <2>5, <2>7 DEF RecvInv, Closing, Calling
    <2>11. Around(p, b)
      <3>1. b <= Reply + 1 /\ Reply + 1 <= b + Reach
        BY <1>1, <1>2, <2>1 DEF Around
      <3>2. b <= p.ack /\ p.ack <= b + Reach + 1 /\ "FIN" \in p.rcvd
        BY <1>2, <2>3, <3>1
      <3>3. QED
        BY <2>3, <3>2 DEF Around
    <2>12. Queue'
      BY <2>3, <2>5, <2>11 DEF Queue
    <2>13. StreamStep
      <3>1. CASE closed
        BY <2>5, <3>1 DEF Ended, StreamStep
      <3>2. CASE ~closed
        <4>1. end = "open" /\ end' = "eof" /\ out = Bytes(rcv.ack - 1)
          BY <2>5, <3>2 DEF Ended, RecvInv, Closing, Progress
        <4>2. Len(out) = Reply
          <5>1. rcv.ack - 1 = Reply
            BY <1>2, <2>1
          <5>2. QED
            BY <1>2, <4>1, <5>1 DEF Bytes
        <4>3. QED
          BY <4>1, <4>2 DEF StreamStep, IsStream!Next, IsStream!Finish
      <3>3. QED
        BY <3>1, <3>2
    <2>14. QED
      BY <2>8, <2>9, <2>10, <2>12, <2>13 DEF RecvInv
  <1>4. CASE ~(fin /\ Ahead(seq, r.ack) = 0)
    <2>1. rcv' = r /\ UNCHANGED <<listed, closed, tmr, end>>
      BY <1>4 DEF tcp_rx_fin
    <2>2. RecvType' /\ Closing' /\ Calling'
      BY <2>1 DEF RecvInv, RecvType, Closing, Calling
    <2>3. Progress'
      BY <2>1 DEF RecvInv, Progress
    <2>4. Queue'
      BY <2>1 DEF Queue
    <2>5. QED
      BY <2>1, <2>2, <2>3, <2>4 DEF RecvInv, StreamStep
  <1>5. QED
    BY <1>3, <1>4

LEMMA RecvReturn ==
    ASSUME RecvInv, Return
    PROVE  RecvInv' /\ StreamStep
  <1>1. /\ at.pc = "call" /\ UNCHANGED out /\ tcp_rx_fin(rcv, at.nxt, at.fin)
        /\ rcv \in RcvType /\ at.nxt \in Nat /\ at.fin \in BOOLEAN /\ rcv.ack \in Nat
    BY DEF Return, RecvInv, RecvType, AtShape, RcvType
  <1>2. "SYN" \in rcv.rcvd /\ at.nxt = rcv.ack /\ (at.fin => rcv.ack = Reply + 1)
    BY <1>1 DEF RecvInv, Calling
  <1>3. at'.pc = "loop" /\ AtShape'
    BY <1>1 DEF Return, RecvInv, RecvType, AtShape
  <1>4. PICK b \in Nat : Around(rcv, b)
    BY <1>1 DEF RecvInv, Queue
  <1>5. Sorted(rcv.queue) /\ \A i \in 1 .. Len(rcv.queue) : Good(rcv.queue[i])
    BY DEF RecvInv, Queue
  <1>6. at.fin => at.nxt = Reply + 1 /\ at.nxt <= rcv.ack
    BY <1>1, <1>2
  <1>7. QED
    BY <1>1, <1>2, <1>3, <1>4, <1>5, <1>6, RecvFin

\* The segment at the head of the queue, in the loop.
LEMMA Head1 ==
    ASSUME RecvInv, rcv.queue # << >>, NEW b \in Nat, Around(rcv, b)
    PROVE  LET q == rcv.queue[1]
           IN  /\ q \in Queued /\ q.seq \in Nat /\ q.nxt \in Nat /\ q.fin \in BOOLEAN
               /\ Good(q) /\ "SYN" \in rcv.rcvd /\ rcv.ack \in Nat
               /\ b - Reach <= q.seq /\ q.nxt <= b + Reach
               /\ tcp_cmp(q.seq, rcv.ack) = q.seq - rcv.ack
               /\ q.seq <= rcv.ack => Ahead(rcv.ack, q.seq) = rcv.ack - q.seq
  <1> DEFINE q == rcv.queue[1]
  <1>1. rcv \in RcvType /\ rcv.queue \in Seq(Queued) /\ rcv.ack \in Nat
    BY DEF RecvInv, RecvType, RcvType
  <1>2. 1 \in 1 .. Len(rcv.queue)
    BY <1>1, EmptySeq, LenProperties
  <1>3. q \in Queued
    BY <1>1, <1>2, ElementOfSeq
  <1>4. q.seq \in Nat /\ q.nxt \in Nat /\ q.fin \in BOOLEAN
    BY <1>3, QueuedFields
  <1>5. Good(q) /\ "SYN" \in rcv.rcvd
    BY <1>2 DEF RecvInv, Queue, Progress
  <1>6. b - Reach <= q.seq /\ q.nxt <= b + Reach
    BY <1>2 DEF Around, Near
  <1>7. b <= rcv.ack /\ rcv.ack <= b + Reach + 1
    BY <1>1, SpaceAssumption DEF Around
  <1> HIDE DEF q
  <1>8. rcv.ack - q.seq <= 2 * Reach + 1 /\ q.seq - rcv.ack <= 2 * Reach + 1
    BY <1>1, <1>4, <1>5, <1>6, <1>7, SpaceAssumption DEF Good
  <1>9. tcp_cmp(q.seq, rcv.ack) = q.seq - rcv.ack
    BY <1>1, <1>4, <1>8, CmpNear
  <1>10. q.seq <= rcv.ack => Ahead(rcv.ack, q.seq) = rcv.ack - q.seq
    BY <1>1, <1>4, <1>8, AheadNear
  <1>11. QED
    BY <1>1, <1>3, <1>4, <1>5, <1>6, <1>9, <1>10 DEF q

LEMMA BytesAppend ==
    ASSUME NEW m \in Nat, NEW n \in Nat
    PROVE  Bytes(m) \o [i \in 1 .. n |-> m + i] = Bytes(m + n)
  <1> DEFINE a == Bytes(m)
             c == [i \in 1 .. n |-> m + i]
  <1>1. a \in Seq(Nat) /\ Len(a) = m /\ \A i \in 1 .. m : a[i] = i
    BY DEF Bytes
  <1>2. c \in Seq(Nat) /\ Len(c) = n /\ \A i \in 1 .. n : c[i] = m + i
    OBVIOUS
  <1>3. Bytes(m + n) \in Seq(Nat) /\ Len(Bytes(m + n)) = m + n /\ \A i \in 1 .. (m + n) : Bytes(m + n)[i] = i
    BY DEF Bytes
  <1> HIDE DEF a, c
  <1>4. a \o c \in Seq(Nat) /\ Len(a \o c) = m + n
    BY <1>1, <1>2
  <1>5. ASSUME NEW i \in 1 .. (m + n)
        PROVE  (a \o c)[i] = i
    <2>1. CASE i <= m
      BY <1>1, <1>2, <2>1
    <2>2. CASE i > m
      <3>1. (a \o c)[i] = c[i - m] /\ i - m \in 1 .. n
        BY <1>1, <1>2, <2>2
      <3>2. c[i - m] = m + (i - m)
        BY <1>2, <3>1
      <3>3. QED
        BY <3>1, <3>2
    <2>3. i <= m \/ i > m
      OBVIOUS
    <2>4. QED
      BY <2>1, <2>2, <2>3
  <1>6. a \o c = Bytes(m + n)
    BY <1>3, <1>4, <1>5, SeqEqual
  <1>7. QED
    BY <1>6 DEF a, c

LEMMA RecvDeliver ==
    ASSUME RecvInv, Deliver
    PROVE  RecvInv' /\ StreamStep
  <1> DEFINE q == rcv.queue[1]
             r1 == [rcv EXCEPT !.queue = Tail(@)]
             len == q.nxt - q.seq - (IF q.fin THEN 1 ELSE 0)
             already == already_rcvd(rcv, q.seq)
  <1>1. /\ at.pc = "loop" /\ rcv.queue # << >> /\ tcp_cmp(q.seq, rcv.ack) <= 0
        /\ rcv \in RcvType /\ rcv.queue \in Seq(Queued) /\ AtShape
    BY DEF Deliver, Applicable, RecvInv, RecvType, RcvType
  <1>2. PICK b \in Nat : Around(rcv, b)
    BY <1>1 DEF RecvInv, Queue
  <1>3. /\ q.seq \in Nat /\ q.nxt \in Nat /\ q.fin \in BOOLEAN
        /\ Good(q) /\ "SYN" \in rcv.rcvd /\ rcv.ack \in Nat
        /\ b - Reach <= q.seq /\ q.nxt <= b + Reach
        /\ tcp_cmp(q.seq, rcv.ack) = q.seq - rcv.ack
        /\ q.seq <= rcv.ack => Ahead(rcv.ack, q.seq) = rcv.ack - q.seq
    BY <1>1, <1>2, Head1
  <1>4. Tail(rcv.queue) \in Seq(Queued) /\ Sorted(Tail(rcv.queue))
        /\ \A i \in 1 .. Len(Tail(rcv.queue)) : \E j \in 1 .. Len(rcv.queue) : Tail(rcv.queue)[i] = rcv.queue[j]
    BY <1>1, Shorter DEF RecvInv, Queue
  <1>5. /\ r1 \in RcvType /\ r1.rcvd = rcv.rcvd /\ r1.ack = rcv.ack /\ r1.queue = Tail(rcv.queue)
    BY <1>1, <1>4 DEF RcvType
  <1> HIDE DEF r1, q
  <1>6. Near(r1.queue, b) /\ \A i \in 1 .. Len(r1.queue) : Good(r1.queue[i])
    BY <1>2, <1>4, <1>5 DEF Around, Near, RecvInv, Queue
  <1>7. Sorted(r1.queue) /\ Around(r1, b)
    BY <1>2, <1>4, <1>5, <1>6 DEF Around
  <1>8. q.seq <= rcv.ack /\ already = rcv.ack - q.seq
    BY <1>1, <1>3 DEF already_rcvd
  <1>9. Reply \in Nat /\ Reach \in Nat
    BY SpaceAssumption
  <1>10. /\ len \in Nat /\ q.seq + len <= q.nxt
         /\ q.seq + len <= Reply + 1 /\ (q.fin => q.seq + len = Reply + 1)
    BY <1>3, <1>9 DEF Good
  <1>11. CASE already >= len
    <2>1. tcp_rx_fin(r1, q.seq + len, q.fin) /\ UNCHANGED <<at, out>>
      BY <1>11 DEF Deliver, q, r1
    <2>2. at'.pc = "loop" /\ AtShape'
      BY <1>1, <2>1 DEF AtShape
    <2>3. q.seq + len \in Nat /\ q.seq + len <= r1.ack
      BY <1>3, <1>5, <1>8, <1>10, <1>11
    <2> HIDE DEF len
    <2>4. QED
      BY <1>1, <1>3, <1>5, <1>6, <1>7, <1>10, <2>1, <2>2, <2>3, RecvFin
  <1>12. CASE already < len
    <2> DEFINE n == len - already
    <2>1. /\ rcv' = tcp_rx_seq(r1, n)
          /\ out' = IF closed THEN out ELSE out \o [i \in 1 .. n |-> q.seq + already + i - 1]
          /\ at' = [pc |-> "call", nxt |-> q.seq + len, fin |-> q.fin, old |-> at.old]
          /\ UNCHANGED <<listed, closed, tmr, end>>
      <3>1. ~(already >= len)
        BY <1>3, <1>8, <1>10, <1>12
      <3>2. QED
        BY <3>1 DEF Deliver, q, r1
    <2>2. n \in Nat /\ n >= 1 /\ rcv.ack + n = q.seq + len
      BY <1>3, <1>8, <1>10, <1>12
    <2> HIDE DEF n, len, already
    <2>3. rcv' \in RcvType /\ rcv'.rcvd = rcv.rcvd /\ rcv'.ack = q.seq + len /\ rcv'.queue = r1.queue
      BY <1>5, <2>1, <2>2, RxSeq
    <2>4. at'.pc = "call" /\ at'.nxt = q.seq + len /\ at'.fin = q.fin /\ AtShape'
      <3>1. at' = [pc |-> "call", nxt |-> q.seq + len, fin |-> q.fin, old |-> at.old]
        BY <2>1
      <3>2. q.seq + len \in Nat
        BY <1>3, <1>10
      <3>3. QED
        BY <1>3, <3>1, <3>2 DEF AtShape
    <2>5. RecvType'
      BY <2>1, <2>3, <2>4 DEF RecvInv, RecvType
    <2>6. Closing' /\ Calling'
      BY <1>1, <1>3, <1>10, <2>1, <2>3, <2>4 DEF RecvInv, Closing, Calling
    <2>7. rcv.ack >= 1 /\ rcv.ack <= Reply + 2 /\ ("FIN" \in rcv.rcvd <=> rcv.ack = Reply + 2)
      BY <1>3 DEF RecvInv, Progress
    <2>8. rcv.ack < q.seq + len /\ "FIN" \notin rcv.rcvd
      BY <1>3, <1>9, <1>10, <2>2, <2>7
    <2>13. rcv'.ack >= 1 /\ rcv'.ack <= Reply + 2 /\ rcv'.ack # Reply + 2
      BY <1>3, <1>9, <1>10, <2>3, <2>7, <2>8
    <2>9. Queue'
      <3>1. Around(rcv', b)
        <4>1. b <= rcv.ack
          BY <1>2 DEF Around
        <4>2. b <= rcv'.ack /\ rcv'.ack <= b + Reach
          BY <1>3, <1>9, <1>10, <2>3, <2>8, <4>1
        <4>3. QED
          BY <1>6, <1>9, <2>3, <2>8, <4>2 DEF Around
      <3>2. QED
        BY <1>6, <1>7, <2>3, <2>4, <3>1 DEF Queue
    <2>10. CASE closed
      <3>1. Progress'
        BY <1>3, <2>1, <2>3, <2>8, <2>10, <2>13 DEF Progress
      <3>2. QED
        BY <2>1, <2>5, <2>6, <2>9, <2>10, <3>1 DEF RecvInv, StreamStep
    <2>11. CASE ~closed
      <3>1. out = Bytes(rcv.ack - 1) /\ end = "open"
        BY <1>3, <2>11 DEF RecvInv, Progress, Closing
      <3>3. out' = Bytes(rcv.ack - 1 + n)
        <4>1. rcv.ack - 1 \in Nat /\ \A i \in 1 .. n : q.seq + already + i - 1 = rcv.ack - 1 + i
          BY <1>3, <1>8, <2>2, <2>7
        <4>2. out' = out \o [i \in 1 .. n |-> rcv.ack - 1 + i]
          BY <2>1, <2>11, <4>1
        <4>3. QED
          BY <2>2, <3>1, <4>1, <4>2, BytesAppend
      <3>4. rcv.ack - 1 + n = rcv'.ack - 1
        BY <1>3, <2>2, <2>3
      <3>5. Progress'
        BY <1>3, <2>1, <2>3, <2>8, <2>13, <3>3, <3>4 DEF Progress
      <3>6. Len(out) = rcv.ack - 1 /\ n \in 1 .. (Reply - Len(out))
        <4>1. rcv.ack - 1 \in Nat
          BY <1>3, <2>7
        <4>2. Len(out) = rcv.ack - 1
          BY <3>1, <4>1 DEF Bytes
        <4>3. q.seq + len \in Nat /\ q.seq + len <= Reply + 1
          BY <1>3, <1>10
        <4>4. n <= Reply - (rcv.ack - 1)
          BY <1>3, <1>9, <2>2, <4>3
        <4>5. QED
          BY <1>9, <2>2, <4>1, <4>2, <4>4
      <3>7. StreamStep
        BY <2>1, <3>1, <3>3, <3>6 DEF StreamStep, Bytes, IsStream!Next, IsStream!Deliver
      <3>8. QED
        BY <2>5, <2>6, <2>9, <3>5, <3>7 DEF RecvInv
    <2>12. QED
      BY <2>10, <2>11
  <1>13. QED
    BY <1>3, <1>8, <1>10, <1>11, <1>12

LEMMA RecvRxDone ==
    ASSUME RecvInv, RxDone
    PROVE  RecvInv' /\ StreamStep
  <1> DEFINE t1 == [tmr EXCEPT !.wait = @ \/ ClosedGracefully(snd, rcv)]
  <1>1. /\ at.pc = "loop" /\ ~Applicable /\ at' = Idle /\ UNCHANGED <<listed, closed, out, end>>
        /\ rcv \in RcvType /\ rcv.queue \in Seq(Queued) /\ rcv.ack \in Nat /\ tmr \in TmrType
    BY DEF RxDone, RecvInv, RecvType, RcvType
  <1>2. t1 \in TmrType /\ (t1.wait => tmr.wait \/ "FIN" \in rcv.rcvd)
    BY <1>1 DEF TmrType, ClosedGracefully
  <1> HIDE DEF t1
  <1>3. /\ rcv' \in RcvType /\ rcv'.rcvd = rcv.rcvd /\ rcv'.ack = rcv.ack /\ rcv'.queue = rcv.queue
        /\ tmr' \in TmrType /\ tmr'.wait = t1.wait
    <2>1. CASE rcv.queue = << >>
      <3>1. tmr' = [t1 EXCEPT !.process = TRUE] /\ rcv' = rcv
        BY <2>1 DEF RxDone, t1
      <3>2. QED
        BY <1>1, <1>2, <3>1 DEF TmrType
    <2>2. CASE rcv.queue # << >>
      <3>1. tcp_xmit(snd, rcv, t1)
        BY <2>2 DEF RxDone, t1
      <3>2. QED
        BY <1>1, <1>2, <3>1, XmitFrame
    <2>3. QED
      BY <2>1, <2>2
  <1>4. at'.pc = "idle" /\ AtShape'
    BY <1>1 DEF Idle, AtShape
  <1>5. RecvType' /\ Calling'
    BY <1>1, <1>3, <1>4 DEF RecvInv, RecvType, Calling
  <1>6. Progress'
    BY <1>1, <1>3 DEF RecvInv, Progress
  <1>7. Closing'
    BY <1>1, <1>2, <1>3, <1>4 DEF RecvInv, Closing, Progress
  <1>8. ASSUME NEW i \in 1 .. Len(rcv.queue)
        PROVE  rcv.queue[i].seq > rcv.ack /\ rcv.queue[i].nxt <= rcv.ack + Reach
    <2>1. PICK b \in Nat : Around(rcv, b)
      BY <1>1 DEF RecvInv, Queue
    <2>2. rcv.queue # << >>
      BY <1>8
    <2>3. rcv.queue[1].seq \in Nat /\ tcp_cmp(rcv.queue[1].seq, rcv.ack) = rcv.queue[1].seq - rcv.ack
      BY <2>1, <2>2, Head1
    <2>4. rcv.queue[1].seq > rcv.ack
      BY <1>1, <2>2, <2>3 DEF Applicable
    <2>5. 1 \in 1 .. Len(rcv.queue) /\ 1 <= i
      BY <1>1, <1>8, LenProperties
    <2>6. rcv.queue[1].seq <= rcv.queue[i].seq
      BY <2>5 DEF RecvInv, Queue, Sorted
    <2>7. rcv.queue[i] \in Queued
      BY <1>1, <1>8, ElementOfSeq
    <2>8. rcv.queue[i].seq \in Nat /\ rcv.queue[i].nxt \in Nat
      BY <2>7, QueuedFields
    <2>9. rcv.queue[i].nxt <= b + Reach /\ b <= rcv.ack
      BY <2>1 DEF Around, Near
    <2>10. QED
      BY <1>1, <2>3, <2>4, <2>6, <2>8, <2>9, SpaceAssumption
  <1>9. Queue'
    BY <1>3, <1>4, <1>8 DEF RecvInv, Queue
  <1>10. QED
    BY <1>1, <1>5, <1>6, <1>7, <1>9 DEF RecvInv, StreamStep

LEMMA RecvStep ==
    ASSUME RecvInv, [Next]_vars
    PROVE  RecvInv' /\ StreamStep
  <1>1. CASE UNCHANGED vars
    BY <1>1, RecvFrame DEF vars, RecvInv, RecvType
  <1>2. CASE Arrives
    <2>1. PICK g \in Segments : Live(g) /\ Rx(g)
      BY <1>2 DEF Arrives, Segments
    <2>2. QED
      BY <2>1, RecvArrives
  <1>3. QED
    BY <1>1, <1>2, RecvOther, RecvDeliver, RecvReturn, RecvRxDone, RecvDiscard DEF Next

\* Tcp implements Stream for every length of reply, every window and every
\* sequence space large enough for what travels (StreamSpec): the code of
\* tcp_rx and everything it calls hands the reader the peer's bytes in order,
\* once each, and the end of file after the last.
THEOREM TcpImplementsStream == Spec => StreamSpec
  <1>1. Init => IsStream!Init
    BY DEF Init, IsStream!Init
  <1>2. QED
    BY <1>1, RecvInit, RecvStep, PTL DEF Spec, StreamSpec, IsStream!Spec, StreamStep

\* QueueBehindGap, for the same constants: tcp_process_rx_queue leaves nothing
\* that could be delivered, and tcp_rx_enqueue keeps the order.
THEOREM QueueAlwaysBehindGap == Spec => []QueueBehindGap
  <1>1. RecvInv => QueueBehindGap
    <2>1. ASSUME RecvInv PROVE rcv.queue \in Seq(Queued)
      BY <2>1 DEF RecvInv, RecvType, RcvType
    <2>2. ASSUME RecvInv PROVE DOMAIN rcv.queue = 1 .. Len(rcv.queue)
      BY <2>1, <2>2, LenProperties
    <2>3. QED
      BY <2>1, <2>2, LenProperties DEF RecvInv, Queue, Sorted, QueueBehindGap
  <1>2. QED
    BY <1>1, RecvInit, RecvStep, PTL DEF Spec

-----------------------------------------------------------------------------
(* Selective acknowledgements *)

Block == [left : Int, right : Int, stop : BOOLEAN]

Start(r) == [left |-> r.ack, right |-> r.ack, stop |-> FALSE]

LEMMA GrowFields ==
    ASSUME NEW seq \in Int, NEW c \in Block, NEW e \in Queued
    PROVE  /\ SackGrow(seq, c, e) \in Block
           /\ \/ SackGrow(seq, c, e).left = c.left /\ SackGrow(seq, c, e).right = c.right
              \/ /\ SackGrow(seq, c, e).left = IF tcp_cmp(e.seq, c.right) > 0 THEN e.seq ELSE c.left
                 /\ SackGrow(seq, c, e).right = IF tcp_cmp(e.nxt, c.right) > 0 THEN e.nxt ELSE c.right
  <1> DEFINE stops == c.stop \/ (tcp_cmp(e.seq, c.right) > 0 /\ tcp_cmp(e.seq, seq) > 0)
             l == IF tcp_cmp(e.seq, c.right) > 0 THEN e.seq ELSE c.left
             m == IF tcp_cmp(e.nxt, c.right) > 0 THEN e.nxt ELSE c.right
             c1 == [c EXCEPT !.left = l]
             c2 == [c1 EXCEPT !.right = m]
             c3 == [c EXCEPT !.stop = TRUE]
  <1>1. c.left \in Int /\ c.right \in Int /\ e.seq \in Int /\ e.nxt \in Int
    BY DEF Block, Queued
  <1>2. l \in Int /\ m \in Int
    BY <1>1
  <1>3. SackGrow(seq, c, e) = IF stops THEN c3 ELSE c2
    BY DEF SackGrow
  <1> HIDE DEF stops, l, m
  <1>4. c3 \in Block /\ c3.left = c.left /\ c3.right = c.right
    BY DEF Block
  <1>5. c1 \in Block /\ c1.left = l /\ c1.right = c.right
    BY <1>2 DEF Block
  <1> HIDE DEF c1
  <1>6. c2 \in Block /\ c2.left = l /\ c2.right = m
    BY <1>2, <1>5 DEF Block
  <1> HIDE DEF c2, c3
  <1>7. CASE stops
    BY <1>3, <1>4, <1>7
  <1>8. CASE ~stops
    BY <1>3, <1>6, <1>8 DEF l, m
  <1>9. QED
    BY <1>7, <1>8

\* The loop of tcp_sack_block, round by round.
LEMMA SackRound ==
    ASSUME NEW seq \in Int, NEW r \in RcvType
    PROVE  /\ SackRounds(r, seq)[0] = Start(r)
           /\ \A k \in 1 .. Len(r.queue) :
                SackRounds(r, seq)[k] = SackGrow(seq, SackRounds(r, seq)[k - 1], r.queue[k])
  <1> DEFINE q == r.queue
             base == Start(r)
             F == [p \in Block \X Queued |-> SackGrow(seq, p[1], p[2])]
             Round(g) == [k \in 0 .. Len(q) |-> IF k = 0 THEN base ELSE SackGrow(seq, g[k - 1], q[k])]
             it == CHOOSE g : g = Round(g)
  <1>1. q \in Seq(Queued) /\ Len(q) \in Nat /\ base \in Block
    BY LenProperties DEF RcvType, Block, Start
  <1>2. F \in [Block \X Queued -> Block]
    BY GrowFields
  <1>3. SackRounds(r, seq) = it
    BY DEF SackRounds, Start
  <1> HIDE DEF F, q, base
  <1>4. PICK g : IsIter(g, Block, F, base, q)
    BY <1>1, <1>2, FoldExists
  <1> DEFINE h == [k \in 0 .. Len(q) |-> g[1 .. k]]
  <1>5. h[0] = base
    <2>1. 1 .. 0 = {} /\ 0 \in 0 .. Len(q) /\ {} \in SUBSET (1 .. Len(q))
      BY <1>1
    <2>2. g[1 .. 0] = base
      BY <1>4, <2>1 DEF IsIter
    <2>3. QED
      BY <2>1, <2>2
  <1>6. ASSUME NEW k \in 1 .. Len(q)
        PROVE  h[k] = SackGrow(seq, h[k - 1], q[k])
    <2>1. /\ k \in Nat /\ k # 0 /\ k \in 0 .. Len(q) /\ k - 1 \in 0 .. Len(q)
          /\ 1 .. k \in SUBSET (1 .. Len(q)) /\ 1 .. (k - 1) \in SUBSET (1 .. Len(q))
      BY <1>1
    <2>2. Max(1 .. k) = k /\ (1 .. k) \ {k} = 1 .. (k - 1) /\ 1 .. k # {}
      BY <2>1, PrefixMax
    <2>3. g[1 .. k] = F[<<g[1 .. (k - 1)], q[k]>>]
      BY <1>4, <2>1, <2>2 DEF IsIter
    <2>4. g[1 .. (k - 1)] \in Block /\ q[k] \in Queued
      BY <1>1, <1>4, <2>1, ElementOfSeq DEF IsIter
    <2>5. F[<<g[1 .. (k - 1)], q[k]>>] = SackGrow(seq, g[1 .. (k - 1)], q[k])
      BY <2>4 DEF F
    <2>6. QED
      BY <2>1, <2>3, <2>5
  <1>7. h = Round(h)
    <2>1. \A k \in 0 .. Len(q) : h[k] = IF k = 0 THEN base ELSE SackGrow(seq, h[k - 1], q[k])
      <3> HIDE DEF h
      <3>1. QED
        BY <1>1, <1>5, <1>6
    <2>2. QED
      BY <2>1
  <1>8. it = Round(it)
    <2> HIDE DEF Round, h
    <2>1. QED
      BY <1>7
  <1> HIDE DEF it
  <1>9. it[0] = base /\ \A k \in 1 .. Len(q) : it[k] = SackGrow(seq, it[k - 1], q[k])
    BY <1>1, <1>8
  <1>10. QED
    BY <1>3, <1>9 DEF base, q

\* every number of the block is in one of the first k segments of the queue
Covered(c, q, k) ==
    \A x \in Int : c.left <= x /\ x < c.right => \E i \in 1 .. k : q[i].seq <= x /\ x < q[i].nxt

LEMMA GrowCovered ==
    ASSUME NEW seq \in Int, NEW q \in Seq(Queued), NEW b \in Nat, NEW c \in Block, NEW k \in 1 .. Len(q),
           q[k].seq < q[k].nxt, b - Reach <= q[k].seq, q[k].nxt <= b + Reach,
           b - Reach <= c.right, c.right <= b + Reach + 1, Covered(c, q, k - 1)
    PROVE  LET d == SackGrow(seq, c, q[k])
           IN  d \in Block /\ b - Reach <= d.right /\ d.right <= b + Reach + 1 /\ Covered(d, q, k)
  <1> DEFINE e == q[k]
             d == SackGrow(seq, c, q[k])
  <1>1. e \in Queued /\ e.seq \in Int /\ e.nxt \in Int /\ c.left \in Int /\ c.right \in Int /\ Reach \in Nat
    <2>1. e \in Queued
      BY ElementOfSeq
    <2>2. c.left \in Int /\ c.right \in Int
      BY DEF Block
    <2>3. QED
      BY SpaceAssumption, <2>1, <2>2, QueuedFields
  <1>2. /\ d \in Block
        /\ \/ d.left = c.left /\ d.right = c.right
           \/ /\ d.left = IF tcp_cmp(e.seq, c.right) > 0 THEN e.seq ELSE c.left
              /\ d.right = IF tcp_cmp(e.nxt, c.right) > 0 THEN e.nxt ELSE c.right
    BY <1>1, GrowFields
  <1>3. tcp_cmp(e.seq, c.right) = e.seq - c.right /\ tcp_cmp(e.nxt, c.right) = e.nxt - c.right
    <2>1. PICK u \in Int, v \in Int, w \in Int : u = e.seq /\ v = e.nxt /\ w = c.right
      BY <1>1
    <2>2. /\ b - Reach <= u /\ u < v /\ v <= b + Reach
          /\ b - Reach <= w /\ w <= b + Reach + 1
      BY <2>1
    <2>3. u - w <= 2 * Reach + 1 /\ w - u <= 2 * Reach + 1 /\ v - w <= 2 * Reach + 1 /\ w - v <= 2 * Reach + 1
      BY <1>1, <2>2
    <2>4. tcp_cmp(u, w) = u - w /\ tcp_cmp(v, w) = v - w
      BY <2>3, CmpNear
    <2>5. QED
      BY <2>1, <2>4
  <1>4. /\ \A i \in 1 .. (k - 1) : i \in 1 .. k
        /\ k \in 1 .. k
    OBVIOUS
  <1> HIDE DEF d
  <1>5. d.left \in Int /\ d.right \in Int
    BY <1>2 DEF Block
  <1>6. ASSUME NEW x \in Int, d.left <= x, x < d.right
        PROVE  (c.left <= x /\ x < c.right) \/ (e.seq <= x /\ x < e.nxt)
    <2>1. e.seq < e.nxt
      OBVIOUS
    <2>2. CASE d.left = c.left /\ d.right = c.right
      BY <1>6, <2>2
    <2> HIDE DEF e
    <2>3. CASE /\ d.left = IF e.seq - c.right > 0 THEN e.seq ELSE c.left
               /\ d.right = IF e.nxt - c.right > 0 THEN e.nxt ELSE c.right
      <3>1. PICK u \in Int, v \in Int, w \in Int, l \in Int :
                u = e.seq /\ v = e.nxt /\ w = c.right /\ l = c.left
        BY <1>1
      <3>2. /\ u < v
            /\ IF u - w > 0 THEN u <= x ELSE l <= x
            /\ IF v - w > 0 THEN x < v ELSE x < w
        BY <1>1, <1>6, <2>1, <2>3, <3>1
      <3>3. (l <= x /\ x < w) \/ (u <= x /\ x < v)
        BY <3>2
      <3>4. QED
        BY <3>1, <3>3
    <2>4. QED
      BY <1>2, <1>3, <2>2, <2>3
  <1>7. Covered(d, q, k)
    BY <1>4, <1>6 DEF Covered
  <1>8. b - Reach <= d.right /\ d.right <= b + Reach + 1
    BY <1>1, <1>2, <1>3
  <1>9. QED
    BY <1>2, <1>7, <1>8 DEF d

LEMMA SackCovered ==
    ASSUME NEW r \in RcvType, NEW b \in Nat, NEW seq \in Int, Around(r, b),
           \A i \in 1 .. Len(r.queue) : r.queue[i].seq < r.queue[i].nxt
    PROVE  /\ tcp_sack_block(r, seq).left \in Int /\ tcp_sack_block(r, seq).right \in Int
           /\ Covered(tcp_sack_block(r, seq), r.queue, Len(r.queue))
  <1> DEFINE q == r.queue
             h == SackRounds(r, seq)
             f == h[Len(q)]
             Fine(c, k) == c \in Block /\ b - Reach <= c.right /\ c.right <= b + Reach + 1 /\ Covered(c, q, k)
  <1>1. q \in Seq(Queued) /\ Len(q) \in Nat /\ r.ack \in Nat /\ Reach \in Nat
    BY SpaceAssumption, LenProperties DEF RcvType
  <1>2. /\ h[0] = Start(r)
        /\ \A k \in 1 .. Len(q) : h[k] = SackGrow(seq, h[k - 1], q[k])
        /\ h[Len(q)] = f
    BY SackRound
  <1>3. Near(q, b) /\ b <= r.ack /\ r.ack <= b + Reach + 1
    BY <1>1 DEF Around
  <1> HIDE DEF f
  <1> DEFINE T == {k \in Nat : k <= Len(q) => Fine(h[k], k)}
  <1>4. 0 \in T
    <2>1. Start(r) \in Block /\ Start(r).left = r.ack /\ Start(r).right = r.ack
      BY <1>1 DEF Start, Block
    <2>2. Covered(Start(r), q, 0)
      BY <1>1, <2>1 DEF Covered
    <2>3. QED
      BY <1>1, <1>2, <1>3, <2>1, <2>2
  <1>5. ASSUME NEW k \in Nat, k \in T
        PROVE  k + 1 \in T
    <2>1. SUFFICES ASSUME k + 1 <= Len(q)
                   PROVE  Fine(h[k + 1], k + 1)
      <3> HIDE DEF Fine
      <3>1. k + 1 \in Nat
        BY <1>5
      <3>2. QED
        BY <3>1
    <2>2. k + 1 \in 1 .. Len(q) /\ k + 1 - 1 = k /\ k <= Len(q)
      BY <1>1, <1>5, <2>1
    <2>3. Fine(h[k], k)
      <3> HIDE DEF Fine
      <3>1. QED
        BY <1>5, <2>2
    <2>4. h[k + 1] = SackGrow(seq, h[k], q[k + 1])
      BY <1>2, <2>2
    <2>5. q[k + 1].seq < q[k + 1].nxt /\ b - Reach <= q[k + 1].seq /\ q[k + 1].nxt <= b + Reach
      BY <1>3, <2>2 DEF Near
    <2>6. Covered(h[k], q, k + 1 - 1)
      BY <2>2, <2>3
    <2>7. PICK c \in Block, j \in 1 .. Len(q) : c = h[k] /\ j = k + 1
      BY <2>2, <2>3
    <2> HIDE DEF q
    <2>8. q[j].seq < q[j].nxt /\ b - Reach <= q[j].seq /\ q[j].nxt <= b + Reach
      BY <2>5, <2>7
    <2>9. b - Reach <= c.right /\ c.right <= b + Reach + 1 /\ Covered(c, q, j - 1)
      BY <2>3, <2>6, <2>7
    <2>10. Fine(SackGrow(seq, c, q[j]), j)
      BY <1>1, <2>8, <2>9, GrowCovered
    <2>11. QED
      BY <2>4, <2>7, <2>10
  <1>6. Fine(f, Len(q))
    <2> HIDE DEF Fine
    <2>1. Nat \subseteq T
      <3> HIDE DEF T
      <3>1. QED
        BY <1>4, <1>5, SetInduction
    <2>2. Len(q) \in T /\ Len(q) <= Len(q)
      BY <1>1, <2>1
    <2>3. QED
      BY <1>2, <2>2, Zenon
  <1>7. tcp_sack_block(r, seq) = IF tcp_cmp(f.right, seq) < 0 THEN [left |-> 0, right |-> 0]
                                 ELSE [left |-> f.left, right |-> f.right]
    BY DEF tcp_sack_block, f, Start
  <1>8. CASE tcp_sack_block(r, seq) = [left |-> 0, right |-> 0]
    BY <1>8 DEF Covered
  <1>9. CASE tcp_sack_block(r, seq) = [left |-> f.left, right |-> f.right]
    BY <1>6, <1>9 DEF Covered, Block
  <1>10. QED
    BY <1>7, <1>8, <1>9

\* Every byte a selective acknowledgement claims is in the receive queue, on
\* whatever queue tcp_rx_enqueue and tcp_discard leave, while tcp_rx is at work
\* as well as between packets.
THEOREM SackAlwaysTruthful == Spec => []SackTruthful
  <1>1. RecvInv => SackTruthful
    <2> SUFFICES ASSUME RecvInv, NEW t \in tcp_sack(rcv), NEW x \in t.left .. (t.right - 1)
                 PROVE  \E i \in DOMAIN rcv.queue : rcv.queue[i].seq <= x /\ x < rcv.queue[i].nxt
      BY DEF SackTruthful
    <2>1. rcv \in RcvType /\ rcv.ack \in Nat /\ rcv.queue \in Seq(Queued) /\ Reach \in Nat
      BY SpaceAssumption DEF RecvInv, RecvType, RcvType
    <2>2. \A i \in 1 .. Len(rcv.queue) : /\ rcv.queue[i].seq < rcv.queue[i].nxt
                                         /\ rcv.queue[i].seq \in Nat
      <3>1. \A i \in 1 .. Len(rcv.queue) : rcv.queue[i] \in Queued
        BY <2>1, ElementOfSeq
      <3>2. QED
        BY <3>1, QueuedFields DEF RecvInv, Queue, Good
    <2>3. \E b \in Nat : Around(rcv, b)
      <3>1. CASE at.pc = "idle"
        <4>1. Near(rcv.queue, rcv.ack)
          BY <2>1, <2>2, <3>1 DEF RecvInv, Queue, Near
        <4>2. Around(rcv, rcv.ack)
          BY <2>1, <4>1 DEF Around
        <4>3. QED
          BY <2>1, <4>2
      <3>2. CASE at.pc # "idle"
        BY <3>2 DEF RecvInv, Queue
      <3>3. QED
        BY <3>1, <3>2
    <2>4. PICK b \in Nat : Around(rcv, b)
      BY <2>3
    <2>5. PICK seq \in (rcv.ack - Reach) .. (rcv.ack + Reach) : t = tcp_sack_block(rcv, seq)
      BY DEF tcp_sack
    <2>6. seq \in Int
      BY <2>1
    <2>7. t.left \in Int /\ t.right \in Int /\ Covered(t, rcv.queue, Len(rcv.queue))
      BY <2>1, <2>2, <2>4, <2>5, <2>6, SackCovered
    <2>8. x \in Int /\ t.left <= x /\ x < t.right
      BY <2>7
    <2>9. QED
      BY <2>1, <2>7, <2>8 DEF Covered
  <1>2. QED
    BY <1>1, RecvInit, RecvStep, PTL DEF Spec
=============================================================================
