-------------------------------- MODULE Tcp ---------------------------------
(***************************************************************************)
(* One TCP connection of iPXE (net/tcp.c, with the timers of net/retry.c), *)
(* the transport of every image the boot script downloads, against a       *)
(* network that loses, repeats, delays and reorders segments.              *)
(*                                                                         *)
(* Sequence numbers count from the initial ones (the code only uses their  *)
(* differences), so byte k of the peer's reply has number k, the peer's    *)
(* SYN 0 and its FIN Reply + 1; comparisons are made modulo M as the code  *)
(* makes them modulo 2^32.  A segment is the numbers it covers; the reader *)
(* is handed byte numbers, so that a lost, repeated or misplaced byte      *)
(* shows in "out".                                                         *)
(*                                                                         *)
(* tcp_rx hands data to the reader by a call, in which the reader may      *)
(* close the connection and memory pressure may discard queued segments:   *)
(* "at" says where tcp_rx is.  Everything else runs to completion.         *)
(***************************************************************************)
EXTENDS Integers, Sequences, FiniteSets

CONSTANTS Request,      \* bytes the reader sends
          Reply,        \* bytes the peer sends before its FIN
          M,            \* size of the sequence space (2^32 in the code)
          Reach,        \* how far from the receive point a live segment can be
          PeerWindows,  \* windows the peer advertises
          AppWindows,   \* receive windows the reader allows
          PathMtu,      \* TCP_PATH_MTU
          MaxQueue      \* bound: segments waiting behind a gap

ASSUME SpaceAssumption ==
    /\ Request \in Nat /\ Reply \in Nat /\ MaxQueue \in Nat
    /\ Reach \in Nat \ {0} /\ M \in Nat /\ M > 4 * Reach + 4
    /\ AppWindows \subseteq Nat /\ PeerWindows \subseteq Nat
    /\ \A w \in AppWindows : w <= Reach
    /\ PathMtu \in Nat

VARIABLES listed,     \* the connection is in tcp_conns
          closed,     \* TCP_XFER_CLOSED
          snd,        \* what is being sent
          rcv,        \* what is being received
          tmr,        \* the timers and the transmission process
          at,         \* where tcp_rx is
          out,        \* bytes the reader has been handed
          end,        \* "open", or how the stream ended for the reader
          wake,       \* the reader knows it may have a window to send in
          asked,      \* bytes the reader has handed over for sending
          down,       \* tcp_shutdown has begun
          sent_max    \* the highest number transmitted: all the peer can have seen

vars == <<listed, closed, snd, rcv, tmr, at, out, end, wake, asked, down, sent_max>>
env == <<out, end, wake, asked, down>>

----------------------------------------------------------------------------
(* Sequence numbers *)

tcp_cmp(seq1, seq2) ==
    LET d == (seq1 - seq2) % M
    IN  IF 2 * d < M THEN d ELSE d - M

\* the difference as uint32_t
Ahead(seq1, seq2) == (seq1 - seq2) % M

tcp_in_window(seq, start, len) == Ahead(seq, start) < len

Least(a, b) == IF a < b THEN a ELSE b
Most(a, b) == IF a < b THEN b ELSE a

----------------------------------------------------------------------------
(* States: the flags sent, acknowledged and received *)

Sending(s) == s.sent \ s.acked
CanSendData(s) == "SYN" \in s.acked /\ "FIN" \notin s.sent
HasBeenEstablished(s, r) == "SYN" \in s.acked /\ "SYN" \in r.rcvd
\* variant: our FIN alone
ClosedHalf(s, r) == "FIN" \in s.acked /\ "FIN" \notin r.rcvd

ClosedGracefully(s, r) == "FIN" \in s.acked /\ "FIN" \in r.rcvd

NewSnd == [sent |-> {"SYN"}, acked |-> {}, seq |-> 0, cnt |-> 0, win |-> 0, tx |-> 0, pending |-> 1]
NewRcv == [rcvd |-> {}, ack |-> 0, win |-> 0, queue |-> << >>, due |-> FALSE]
NewTmr == [timer |-> TRUE, keepalive |-> FALSE, wait |-> FALSE, process |-> FALSE]

\* a connection tcp_close has deleted
GoneSnd == [sent |-> {}, acked |-> {}, seq |-> 0, cnt |-> 0, win |-> 0, tx |-> 0, pending |-> 0]
GoneTmr == [timer |-> FALSE, keepalive |-> FALSE, wait |-> FALSE, process |-> FALSE]

Idle == [pc |-> "idle", nxt |-> 0, fin |-> FALSE, old |-> 0]

----------------------------------------------------------------------------
(* Transmission *)

tcp_xmit_win(s) == IF CanSendData(s) THEN Least(s.win, PathMtu) ELSE 0

tcp_xfer_window(s) == IF s.tx > 0 THEN 0 ELSE tcp_xmit_win(s)

\* variant: a block keeps its left edge across a gap
SackGrowAcross(seq, b, q) ==
    IF b.stop \/ (tcp_cmp(q.seq, b.right) > 0 /\ tcp_cmp(q.seq, seq) > 0)
    THEN [b EXCEPT !.stop = TRUE]
    ELSE [b EXCEPT !.right = IF tcp_cmp(q.nxt, b.right) > 0 THEN q.nxt ELSE @]

\* a round of the loop over the receive queue
SackGrow(seq, b, q) ==
    IF b.stop \/ (tcp_cmp(q.seq, b.right) > 0 /\ tcp_cmp(q.seq, seq) > 0)
    THEN [b EXCEPT !.stop = TRUE]
    ELSE [b EXCEPT !.left = IF tcp_cmp(q.seq, b.right) > 0 THEN q.seq ELSE @,
                   !.right = IF tcp_cmp(q.nxt, b.right) > 0 THEN q.nxt ELSE @]

\* the block after each round
SackRounds(r, seq) ==
    LET b[k \in 0 .. Len(r.queue)] ==
            IF k = 0 THEN [left |-> r.ack, right |-> r.ack, stop |-> FALSE]
            ELSE SackGrow(seq, b[k - 1], r.queue[k])
    IN  b

tcp_sack_block(r, seq) ==
    LET b == SackRounds(r, seq)[Len(r.queue)]
    IN  IF tcp_cmp(b.right, seq) < 0 THEN [left |-> 0, right |-> 0]
        ELSE [left |-> b.left, right |-> b.right]

\* the blocks tcp_sack can put in an option: each is found afresh in the queue,
\* from the number just received or from a block reported earlier
tcp_sack(r) ==
    {tcp_sack_block(r, seq) : seq \in (r.ack - Reach) .. (r.ack + Reach)} \ {[left |-> 0, right |-> 0]}

\* what tcp_xmit_sack would send: the sequence space it takes
SeqLen(s) ==
    (IF CanSendData(s) THEN Least(s.tx, tcp_xmit_win(s)) ELSE 0)
        + (IF Sending(s) # {} THEN 1 ELSE 0)

Transmits(s, r, t) == ~t.timer /\ (SeqLen(s) > 0 \/ r.due)

\* tcp_xmit_sack, in its effects on each part; how \in {"sent", "nomem", "txerr"}
XmitSnd(s, t) == IF t.timer THEN s ELSE [s EXCEPT !.cnt = SeqLen(s)]

\* variant: the timer only runs for SYN and FIN
XmitTmrFlags(s, t) == IF ~t.timer /\ Sending(s) # {} THEN [t EXCEPT !.timer = TRUE] ELSE t

XmitTmr(s, t) == IF ~t.timer /\ SeqLen(s) > 0 THEN [t EXCEPT !.timer = TRUE] ELSE t

XmitRcv(s, r, t, how, w) ==
    IF ~Transmits(s, r, t) \/ how = "nomem" THEN r
    ELSE [r EXCEPT !.win = Most(r.win, w),
                   !.due = @ /\ how # "sent"]

XmitMax(s, r, t, how) ==
    IF Transmits(s, r, t) /\ how = "sent" THEN Most(sent_max, s.seq + SeqLen(s)) ELSE sent_max

Outcomes == {"sent", "nomem", "txerr"}

\* tcp_xmit_sack on the connection <<s, r, t>>
tcp_xmit(s, r, t) ==
    \E how \in Outcomes, w \in AppWindows :
        /\ snd' = XmitSnd(s, t)
        /\ tmr' = XmitTmr(s, t)
        /\ rcv' = XmitRcv(s, r, t, how, w)
        /\ sent_max' = XmitMax(s, r, t, how)

----------------------------------------------------------------------------
(* Reception *)

InRange(s, ack) == Ahead(ack, s.seq) <= s.cnt

\* variant: no pending_put for the flags acknowledged
AckSndHolds(s, shut, ack, win) ==
    LET n == Ahead(ack, s.seq)
        flags == Sending(s)
        s1 == [s EXCEPT !.win = win]
        left == s.tx - Least(s.tx, n - (IF flags # {} THEN 1 ELSE 0))
        fin == left = 0 /\ shut /\ "FIN" \notin s.sent
        s2 == [s1 EXCEPT !.seq = s.seq + n, !.cnt = 0, !.tx = left,
                         !.acked = @ \cup flags,
                         !.sent = IF fin THEN @ \cup {"FIN"} ELSE @,
                         !.pending = @ + (IF fin THEN 1 ELSE 0)]
    IN  IF ~InRange(s, ack) THEN s ELSE IF n = 0 THEN s1 ELSE s2

\* tcp_rx_ack on what is being sent; "shut" is TCP_XFER_CLOSED
AckSnd(s, shut, ack, win) ==
    LET n == Ahead(ack, s.seq)
        flags == Sending(s)
        s1 == [s EXCEPT !.win = win]
        left == s.tx - Least(s.tx, n - (IF flags # {} THEN 1 ELSE 0))
        fin == left = 0 /\ shut /\ "FIN" \notin s.sent
        s2 == [s1 EXCEPT !.seq = s.seq + n, !.cnt = 0, !.tx = left,
                         !.acked = @ \cup flags,
                         !.sent = IF fin THEN @ \cup {"FIN"} ELSE @,
                         !.pending = @ - (IF flags # {} THEN 1 ELSE 0) + (IF fin THEN 1 ELSE 0)]
    IN  IF ~InRange(s, ack) THEN s ELSE IF n = 0 THEN s1 ELSE s2

\* variant: stop_timer forgotten
AckTmrRuns(s, t, ack) ==
    IF ~InRange(s, ack) THEN t ELSE [t EXCEPT !.keepalive = @ \/ "FIN" \notin s.sent]

\* tcp_rx_ack on the timers
AckTmr(s, t, ack) ==
    LET t1 == [t EXCEPT !.keepalive = @ \/ "FIN" \notin s.sent]
    IN  IF ~InRange(s, ack) THEN t
        ELSE IF Ahead(ack, s.seq) = 0 THEN t1
        ELSE [t1 EXCEPT !.timer = FALSE]

\* variant: the window is not kept from going below zero
RxSeqUnderflow(r, len) == [r EXCEPT !.ack = @ + len, !.win = @ - len, !.due = TRUE]

tcp_rx_seq(r, len) ==
    [r EXCEPT !.ack = @ + len,
              !.win = IF @ > len THEN @ - len ELSE 0,
              !.due = TRUE]

tcp_rx_syn(r, seq) ==
    LET r1 == IF "SYN" \in r.rcvd THEN r ELSE [r EXCEPT !.ack = seq]
    IN  IF Ahead(seq, r1.ack) # 0 THEN r1
        ELSE [tcp_rx_seq(r1, 1) EXCEPT !.rcvd = @ \cup {"SYN"}]

\* variant: every segment goes to the end of the queue
EnqueueLast(r, seq, len, fin) ==
    LET nxt == seq + len + (IF fin THEN 1 ELSE 0)
    IN  IF \/ "SYN" \notin r.rcvd
           \/ tcp_cmp(seq, r.ack + r.win) >= 0
           \/ tcp_cmp(nxt, r.ack) <= 0
           \/ nxt = seq
        THEN r
        ELSE [r EXCEPT !.queue = Append(@, [seq |-> seq, nxt |-> nxt, fin |-> fin])]

tcp_rx_enqueue(r, seq, len, fin) ==
    LET nxt == seq + len + (IF fin THEN 1 ELSE 0)
        later == {i \in DOMAIN r.queue : tcp_cmp(seq, r.queue[i].seq) < 0}
        here == IF later = {} THEN Len(r.queue) + 1 ELSE CHOOSE i \in later : \A j \in later : i <= j
    IN  IF \/ "SYN" \notin r.rcvd
           \/ tcp_cmp(seq, r.ack + r.win) >= 0
           \/ tcp_cmp(nxt, r.ack) <= 0
           \/ nxt = seq
        THEN r
        ELSE [r EXCEPT !.queue = SubSeq(@, 1, here - 1) \o <<[seq |-> seq, nxt |-> nxt, fin |-> fin]>>
                                      \o SubSeq(@, here, Len(@))]

\* variant: nothing is taken for received already
NoneRcvd(r, seq) == 0

\* how much of a segment tcp_rx_data has seen before
already_rcvd(r, seq) == Ahead(r.ack, seq)

\* tcp_rx_rst accepts the reset
Resets(s, r, seq) ==
    IF "SYN" \in r.rcvd THEN tcp_in_window(seq, r.ack, r.win) ELSE "SYN" \in s.acked

----------------------------------------------------------------------------
(* Closing *)

\* tcp_close deletes the connection, whatever state it was in before CLOSED
Delete ==
    /\ listed' = FALSE
    /\ closed' = TRUE
    /\ snd' = GoneSnd
    /\ rcv' = NewRcv
    /\ tmr' = GoneTmr
    /\ UNCHANGED sent_max

\* tcp_close of a connection that has received a SYN
CloseAck(s) == "SYN" \notin s.acked

CloseSnd(s) ==
    LET s1 == IF CloseAck(s) THEN AckSnd(s, TRUE, s.seq + 1, 0) ELSE s
    IN  IF s1.tx = 0 /\ "FIN" \notin s1.sent
        THEN [s1 EXCEPT !.sent = @ \cup {"FIN"}, !.pending = @ + 1]
        ELSE s1

CloseTmr(s, t) ==
    LET s1 == IF CloseAck(s) THEN AckSnd(s, TRUE, s.seq + 1, 0) ELSE s
        t1 == IF CloseAck(s) THEN AckTmr(s, t, s.seq + 1) ELSE t
    IN  [t1 EXCEPT !.keepalive = FALSE,
                   !.process = @ \/ (s1.tx = 0 /\ "FIN" \notin s1.sent)]

\* what intf_shutdown tells the reader
Ended(why) == IF closed THEN end ELSE why

\* tcp_close (tcp, rc) of a connection that is not in CLOSED
tcp_close(s, r, t, why) ==
    /\ end' = Ended(why)
    /\ IF "SYN" \notin r.rcvd THEN Delete
       ELSE /\ closed' = TRUE
            /\ snd' = CloseSnd(s)
            /\ rcv' = r
            /\ tmr' = CloseTmr(s, t)
            /\ UNCHANGED <<listed, sent_max>>

\* the same after tcp_state = TCP_CLOSED
Abort(why) == end' = Ended(why) /\ Delete

----------------------------------------------------------------------------
(* The network and the peer *)

None == -1

\* the peer answers our SYN, or its own SYN crosses ours
SynSegments ==
    IF sent_max = 0 THEN {}
    ELSE [seq : {0}, len : {0}, syn : {TRUE}, fin : {FALSE}, rst : {FALSE}, ack : {None, 1}, win : PeerWindows]

\* after the handshake the peer sends any stretch of its reply, its FIN, or nothing
DataSegments ==
    IF "SYN" \notin rcv.rcvd THEN {}
    ELSE {g \in [seq : 1 .. (Reply + 2), len : 0 .. Reply, syn : {FALSE}, fin : BOOLEAN, rst : {FALSE},
                 ack : 1 .. sent_max, win : PeerWindows] :
            /\ g.len > 0 => g.seq + g.len <= Reply + 1
            /\ g.fin => g.seq + g.len = Reply + 1}

RstSegments ==
    [seq : 0 .. (Reply + 2), len : {0}, syn : {FALSE}, fin : {FALSE}, rst : {TRUE},
     ack : 1 .. sent_max, win : PeerWindows]

\* an answer to an earlier connection of the same port
OldAck == -2
OldSegments ==
    [seq : {0}, len : {0}, syn : BOOLEAN, fin : {FALSE}, rst : {FALSE}, ack : {OldAck}, win : {0}]

End(g) == g.seq + g.len + (IF g.fin THEN 1 ELSE 0)

\* what may still be travelling: nothing is delayed by a turn of the sequence space
Live(g) ==
    "SYN" \in rcv.rcvd => rcv.ack - Reach <= g.seq /\ End(g) <= rcv.ack + Reach

----------------------------------------------------------------------------
(* The actions *)

Init ==
    /\ listed = TRUE /\ closed = FALSE
    /\ snd = NewSnd /\ rcv = NewRcv /\ tmr = NewTmr
    /\ at = Idle
    /\ out = << >> /\ end = "open" /\ wake = TRUE /\ asked = 0 /\ down = FALSE
    /\ sent_max = 0

ProcessStep ==
    /\ listed /\ at.pc = "idle" /\ tmr.process
    /\ tcp_xmit(snd, rcv, [tmr EXCEPT !.process = FALSE])
    /\ UNCHANGED <<listed, closed, at, env>>

\* timer_expired, tcp_expired; when the doubled timeout exceeds the maximum
\* depends on the round trips measured so far, so any expiry may be the last
TimerExpired ==
    /\ listed /\ at.pc = "idle" /\ tmr.timer
    /\ tcp_xmit(snd, rcv, [tmr EXCEPT !.timer = FALSE])
    /\ UNCHANGED <<listed, closed, at, env>>

TimerOver ==
    /\ listed /\ at.pc = "idle" /\ tmr.timer
    /\ Abort("failed")
    /\ UNCHANGED <<at, out, wake, asked, down>>

KeepaliveExpired ==
    /\ listed /\ at.pc = "idle" /\ tmr.keepalive
    /\ tcp_xmit(snd, [rcv EXCEPT !.due = TRUE], tmr)
    /\ UNCHANGED <<listed, closed, at, env>>

WaitExpired ==
    /\ listed /\ at.pc = "idle" /\ tmr.wait
    /\ Abort("eof")
    /\ UNCHANGED <<at, out, wake, asked, down>>

\* tcp_rx, up to tcp_process_rx_queue
Rx(g) ==
    LET hasack == g.ack # None
        refused == hasack /\ ~InRange(snd, g.ack) /\ ~HasBeenEstablished(snd, rcv)
        s1 == IF hasack THEN AckSnd(snd, closed, g.ack, g.win) ELSE snd
        r1 == IF "SYN" \in rcv.rcvd /\ Ahead(g.seq, rcv.ack) # 0 THEN [rcv EXCEPT !.due = TRUE] ELSE rcv
        r2 == IF g.syn THEN tcp_rx_syn(r1, g.seq) ELSE r1
        seq == g.seq + (IF g.syn THEN 1 ELSE 0)
        r3 == tcp_rx_enqueue(r2, seq, g.len, g.fin)
        room == IF tcp_cmp(seq, r2.ack) > 0 THEN MaxQueue ELSE MaxQueue + 1
    IN  /\ listed /\ at.pc = "idle"
        /\ IF refused THEN UNCHANGED <<listed, closed, snd, rcv, tmr, at, end, sent_max>>
           ELSE IF g.rst /\ Resets(s1, r2, seq) THEN Abort("failed") /\ UNCHANGED at
           ELSE /\ Len(r3.queue) <= room
                /\ snd' = s1
                /\ rcv' = r3
                /\ tmr' = IF hasack THEN AckTmr(snd, tmr, g.ack) ELSE tmr
                /\ at' = [Idle EXCEPT !.pc = "loop", !.old = tcp_xfer_window(snd)]
                /\ UNCHANGED <<listed, closed, end, sent_max>>
        /\ UNCHANGED <<out, wake, asked, down>>

Applicable == rcv.queue # << >> /\ tcp_cmp(rcv.queue[1].seq, rcv.ack) <= 0

\* the rest of one turn of the loop: tcp_rx_fin
tcp_rx_fin(r, seq, fin) ==
    IF fin /\ Ahead(seq, r.ack) = 0
    THEN tcp_close(snd, [tcp_rx_seq(r, 1) EXCEPT !.rcvd = @ \cup {"FIN"}], tmr, "eof")
    ELSE rcv' = r /\ UNCHANGED <<listed, closed, snd, tmr, end, sent_max>>

\* one turn of the loop of tcp_process_rx_queue, up to the call of the reader
Deliver ==
    LET q == rcv.queue[1]
        r1 == [rcv EXCEPT !.queue = Tail(@)]
        len == q.nxt - q.seq - (IF q.fin THEN 1 ELSE 0)
        already == already_rcvd(rcv, q.seq)
    IN  /\ at.pc = "loop" /\ Applicable
        /\ IF already >= len
           THEN tcp_rx_fin(r1, q.seq + len, q.fin) /\ UNCHANGED <<at, out>>
           ELSE /\ rcv' = tcp_rx_seq(r1, len - already)
                /\ out' = IF closed THEN out
                          ELSE out \o [i \in 1 .. (len - already) |-> q.seq + already + i - 1]
                /\ at' = [pc |-> "call", nxt |-> q.seq + len, fin |-> q.fin, old |-> at.old]
                /\ UNCHANGED <<listed, closed, snd, tmr, end, sent_max>>
        /\ UNCHANGED <<wake, asked, down>>

\* the reader returns
Return ==
    /\ at.pc = "call"
    /\ at' = [at EXCEPT !.pc = "loop", !.nxt = 0, !.fin = FALSE]
    /\ tcp_rx_fin(rcv, at.nxt, at.fin)
    /\ UNCHANGED <<out, wake, asked, down>>

\* variant: only a window that shrinks is a change
WindowShrinks == ~closed /\ tcp_xfer_window(snd) < at.old

WindowChanged == ~closed /\ tcp_xfer_window(snd) # at.old

\* the rest of tcp_rx
RxDone ==
    LET t1 == [tmr EXCEPT !.wait = @ \/ ClosedGracefully(snd, rcv)]
    IN  /\ at.pc = "loop" /\ ~Applicable
        /\ IF rcv.queue = << >>
           THEN tmr' = [t1 EXCEPT !.process = TRUE] /\ UNCHANGED <<snd, rcv, sent_max>>
           ELSE tcp_xmit(snd, rcv, t1)
        /\ at' = Idle
        /\ wake' = (wake \/ WindowChanged)
        /\ UNCHANGED <<listed, closed, out, end, asked, down>>

\* tcp_discard
Discard ==
    /\ listed /\ at.pc # "loop" /\ rcv.queue # << >>
    /\ rcv' = [rcv EXCEPT !.queue = SubSeq(@, 1, Len(@) - 1)]
    /\ UNCHANGED <<listed, closed, snd, tmr, at, out, end, wake, asked, down, sent_max>>

\* tcp_xfer_deliver
AppSend ==
    /\ listed /\ ~closed /\ at.pc # "loop" /\ wake
    /\ tcp_xfer_window(snd) > 0
    /\ \E n \in 1 .. (Request - asked) :
        /\ asked' = asked + n
        /\ tcp_xmit([snd EXCEPT !.tx = @ + n], rcv, tmr)
    /\ UNCHANGED <<listed, closed, at, out, end, wake, down>>

\* the reader finds no window, and waits for xfer_window_changed
AppWait ==
    /\ listed /\ ~closed /\ at.pc # "loop" /\ wake
    /\ tcp_xfer_window(snd) = 0
    /\ wake' = FALSE
    /\ UNCHANGED <<listed, closed, snd, rcv, tmr, at, out, end, asked, down, sent_max>>

\* tcp_xfer_close
AppClose ==
    /\ listed /\ ~closed /\ at.pc # "loop"
    /\ end' = "closed"
    /\ IF "SYN" \notin rcv.rcvd THEN Delete
       ELSE /\ closed' = TRUE
            /\ tcp_xmit(CloseSnd(snd), rcv, CloseTmr(snd, tmr))
            /\ UNCHANGED listed
    /\ UNCHANGED <<at, out, wake, asked, down>>

\* tcp_shutdown: ask, and after TCP_FINISH_TIMEOUT insist
Shutdown ==
    /\ listed /\ at.pc = "idle" /\ ~down
    /\ down' = TRUE
    /\ IF closed THEN UNCHANGED <<listed, closed, snd, rcv, tmr, end, sent_max>>
       ELSE tcp_close(snd, rcv, tmr, "failed")
    /\ UNCHANGED <<at, out, wake, asked>>

ShutdownForce ==
    /\ listed /\ at.pc = "idle" /\ down
    /\ Abort("failed")
    /\ UNCHANGED <<at, out, wake, asked, down>>

Arrives == \E g \in SynSegments \cup DataSegments \cup RstSegments \cup OldSegments : Live(g) /\ Rx(g)

\* the connection is deleted: nothing is left to happen
Over == ~listed /\ UNCHANGED vars

Next ==
    \/ ProcessStep \/ TimerExpired \/ TimerOver \/ KeepaliveExpired \/ WaitExpired
    \/ Arrives \/ Deliver \/ Return \/ RxDone
    \/ Discard \/ AppSend \/ AppWait \/ AppClose \/ Shutdown \/ ShutdownForce
    \/ Over

Spec == Init /\ [][Next]_vars

(***************************************************************************)
(* Fairness: the main loop runs every process and polls every timer, so a  *)
(* step of iPXE that stays due is taken even though segments keep coming;  *)
(* an unanswered retransmission doubles its timeout until it gives up; and *)
(* the peer keeps sending until everything is acknowledged on both sides.  *)
(* The wait timer is the exception: tcp_rx starts it anew for every packet *)
(* of a connection in TIME_WAIT, so it is due only when none comes.        *)
(***************************************************************************)
ArrivesWhole ==
    /\ ~ClosedGracefully(snd, rcv)
    /\ \E g \in DataSegments : g.seq = 1 /\ g.len = Reply /\ g.fin /\ g.ack = sent_max /\ Live(g) /\ Rx(g)

FairSpec ==
    /\ Spec
    /\ WF_vars(Deliver) /\ WF_vars(Return) /\ WF_vars(RxDone)
    /\ SF_vars(ProcessStep) /\ SF_vars(TimerOver) /\ WF_vars(WaitExpired) /\ SF_vars(ShutdownForce)
    /\ SF_vars(ArrivesWhole)

----------------------------------------------------------------------------
(* Properties *)

Flags == {"SYN", "FIN"}
Queued == [seq : Nat, nxt : Nat, fin : BOOLEAN]
SndType == [sent : SUBSET Flags, acked : SUBSET Flags, seq : Nat, cnt : Nat, win : Nat, tx : Nat, pending : Nat]
RcvType == [rcvd : SUBSET Flags, ack : Nat, win : Nat, queue : Seq(Queued), due : BOOLEAN]
TmrType == [timer : BOOLEAN, keepalive : BOOLEAN, wait : BOOLEAN, process : BOOLEAN]
AtType == [pc : {"idle", "loop", "call"}, nxt : Nat, fin : BOOLEAN, old : Nat]

\* Types of the connection's fields.
TypeOK ==
    /\ listed \in BOOLEAN /\ closed \in BOOLEAN /\ wake \in BOOLEAN /\ down \in BOOLEAN
    /\ snd \in SndType /\ rcv \in RcvType /\ tmr \in TmrType /\ at \in AtType
    /\ out \in Seq(Nat) /\ end \in {"open", "eof", "failed", "closed"}
    /\ asked \in Nat /\ sent_max \in Nat

\* The connection is the byte stream its reader takes it for: whatever the
\* network repeats, reorders or loses, and whatever the discarder drops, the
\* reader is handed the peer's bytes in order, once each, and sees a normal
\* end only after the last of them (tcp_rx_enqueue, tcp_process_rx_queue,
\* tcp_rx_data, tcp_rx_fin).
IsStream == INSTANCE Stream WITH Reply <- Reply, out <- out, end <- end
StreamSpec == IsStream!Spec

\* The assertions of tcp_expired, tcp_wait_expired and tcp_xmit_sack: the
\* retransmission timer runs only in the states listed there, the shutdown
\* timer only in TIME_WAIT, and SYN and FIN are never both being sent.
Asserts ==
    /\ tmr.timer => \/ snd.acked = {} /\ snd.sent = {"SYN"} /\ rcv.rcvd \subseteq {"SYN"}
                    \/ snd.acked = {"SYN"} /\ "SYN" \in rcv.rcvd
    /\ tmr.wait => snd.acked = Flags /\ rcv.rcvd = Flags
    /\ Sending(snd) # Flags

\* pending_flags counts exactly the SYN or FIN that is still unacknowledged, so
\* that the wait for pending operations before a boot ends when and only when
\* the connection has nothing left to say (tcp_open, tcp_close, tcp_rx_ack).
PendingExact == snd.pending = Cardinality(Sending(snd))

\* Every byte a selective acknowledgement claims is in the receive queue: the
\* peer may drop what it covers (tcp_sack_block, on any queue tcp_rx_enqueue and
\* tcp_discard can leave).
SackTruthful ==
    \A b \in tcp_sack(rcv) : \A x \in b.left .. (b.right - 1) :
        \E i \in DOMAIN rcv.queue : rcv.queue[i].seq <= x /\ x < rcv.queue[i].nxt

\* Between packets, nothing that could be delivered is left in the queue, and
\* the queue is in ascending order.
QueueBehindGap ==
    at.pc = "idle" =>
        \A i \in DOMAIN rcv.queue :
            /\ rcv.queue[i].seq > rcv.ack
            /\ \A j \in 1 .. i : rcv.queue[j].seq <= rcv.queue[i].seq

\* Whatever can be sent is about to be sent, or will be sent again: the
\* transmission process or the retransmission timer is running.  (Only the
\* close that tcp_shutdown asks for is left to the timeout of tcp_shutdown.)
NeverStalls ==
    listed /\ at.pc = "idle" /\ ~down /\ SeqLen(snd) > 0 => tmr.process \/ tmr.timer

\* A reader with a window to send in knows that it has one: no change of the
\* window in tcp_rx goes unreported (old_xfer_window, xfer_window_changed).
NoLostWakeup ==
    listed /\ ~closed /\ at.pc = "idle" /\ tcp_xfer_window(snd) > 0 => wake

\* Everything handed over for sending, SYN and FIN included, is acknowledged in
\* the end, unless the connection is given up.
Outstanding == listed /\ (snd.tx > 0 \/ Sending(snd) # {})
EventuallyAcked == Outstanding ~> ~Outstanding

\* A connection that its reader has left is deleted in the end, provided that the
\* network falls silent: while packets for a connection in TIME_WAIT keep coming,
\* each of them puts the deletion off (stop_timer and start_timer_fixed at the end
\* of tcp_rx).
Silence == <>[](tmr.wait => at.pc = "idle")
EventuallyDeleted == Silence => (closed ~> ~listed)
=============================================================================
