--------------------------- MODULE TcpSendProofs ----------------------------
(***************************************************************************)
(* Proofs about the sending side of Tcp and the states of the connection,  *)
(* on top of the invariant of the receiving side (TcpProofs).              *)
(***************************************************************************)
EXTENDS TcpProofs, FiniteSetTheorems

(***************************************************************************)
(* What is being sent goes through four phases; in each the counters are   *)
(* tied to the flags.                                                      *)
(***************************************************************************)
Opening(s) == s.sent = {"SYN"} /\ s.acked = {} /\ s.tx = 0 /\ s.cnt <= 1 /\ s.pending = 1
Flowing(s) == s.sent = {"SYN"} /\ s.acked = {"SYN"} /\ s.cnt <= s.tx /\ s.pending = 0
Ending(s) == s.sent = Flags /\ s.acked = {"SYN"} /\ s.tx = 0 /\ s.cnt <= 1 /\ s.pending = 1
Finished(s) == s.sent = Flags /\ s.acked = Flags /\ s.tx = 0 /\ s.cnt = 0 /\ s.pending = 0

Sane(s) == s \in SndType /\ (Opening(s) \/ Flowing(s) \/ Ending(s) \/ Finished(s))

LEMMA Phases ==
    ASSUME NEW s, s \in SndType
    PROVE  /\ Opening(s) => Sending(s) = {"SYN"} /\ ~CanSendData(s) /\ tcp_xmit_win(s) = 0 /\ SeqLen(s) = 1
           /\ Flowing(s) => Sending(s) = {} /\ CanSendData(s) /\ SeqLen(s) \in Nat /\ SeqLen(s) <= s.tx
           /\ Ending(s) => Sending(s) = {"FIN"} /\ ~CanSendData(s) /\ tcp_xmit_win(s) = 0 /\ SeqLen(s) = 1
           /\ Finished(s) => Sending(s) = {} /\ ~CanSendData(s) /\ tcp_xmit_win(s) = 0 /\ SeqLen(s) = 0
  <1>1. s.win \in Nat /\ s.tx \in Nat /\ PathMtu \in Nat
    BY SpaceAssumption DEF SndType
  <1>2. CASE Opening(s)
    <2>1. Sending(s) = {"SYN"} /\ ~CanSendData(s)
      BY <1>2 DEF Opening, Sending, CanSendData
    <2>2. SeqLen(s) = 1 /\ tcp_xmit_win(s) = 0
      BY <2>1 DEF SeqLen, tcp_xmit_win
    <2>3. QED
      BY <1>2, <2>1, <2>2 DEF Opening, Flowing, Ending, Finished, Flags
  <1>3. CASE Flowing(s)
    <2>1. Sending(s) = {} /\ CanSendData(s)
      BY <1>3 DEF Flowing, Sending, CanSendData
    <2>2. SeqLen(s) = Least(s.tx, Least(s.win, PathMtu)) + 0
      BY <2>1 DEF SeqLen, tcp_xmit_win
    <2>3. SeqLen(s) \in Nat /\ SeqLen(s) <= s.tx
      BY <1>1, <2>2 DEF Least
    <2>4. QED
      BY <1>3, <2>1, <2>3 DEF Opening, Flowing, Ending, Finished, Flags
  <1>4. CASE Ending(s)
    <2>1. Sending(s) = {"FIN"} /\ ~CanSendData(s)
      BY <1>4 DEF Ending, Sending, CanSendData, Flags
    <2>2. SeqLen(s) = 1 /\ tcp_xmit_win(s) = 0
      BY <2>1 DEF SeqLen, tcp_xmit_win
    <2>3. QED
      BY <1>4, <2>1, <2>2 DEF Opening, Flowing, Ending, Finished, Flags
  <1>5. CASE Finished(s)
    <2>1. Sending(s) = {} /\ ~CanSendData(s)
      BY <1>5 DEF Finished, Sending, CanSendData, Flags
    <2>2. SeqLen(s) = 0 /\ tcp_xmit_win(s) = 0
      BY <2>1 DEF SeqLen, tcp_xmit_win
    <2>3. QED
      BY <1>5, <2>1, <2>2 DEF Opening, Flowing, Ending, Finished, Flags
  <1>6. QED
    BY <1>2, <1>3, <1>4, <1>5

LEMMA Distinct ==
    ASSUME NEW s
    PROVE  /\ ~(Opening(s) /\ Flowing(s)) /\ ~(Opening(s) /\ Ending(s)) /\ ~(Opening(s) /\ Finished(s))
           /\ ~(Flowing(s) /\ Ending(s)) /\ ~(Flowing(s) /\ Finished(s)) /\ ~(Ending(s) /\ Finished(s))
  BY DEF Opening, Flowing, Ending, Finished, Flags

\* an acknowledgement moves to the next phase or keeps it
AckEffect(s, p, shut, counts) ==
    /\ Sane(p)
    /\ Opening(p) => Opening(s) /\ p.seq = s.seq /\ p.cnt = s.cnt
    /\ Finished(s) => Finished(p)
    /\ Opening(s) /\ counts => IF shut THEN Ending(p) ELSE Flowing(p)
    /\ ~counts => (Finished(p) => Finished(s)) /\ (Opening(s) => Opening(p))

\* tcp_rx_ack
LEMMA AckPhases ==
    ASSUME NEW s, Sane(s), NEW shut \in BOOLEAN, NEW ack \in Int, NEW win \in Nat
    PROVE  AckEffect(s, AckSnd(s, shut, ack, win), shut, InRange(s, ack) /\ Ahead(ack, s.seq) # 0)
  <1> DEFINE n == Ahead(ack, s.seq)
             p == AckSnd(s, shut, ack, win)
  <1>1. s \in SndType /\ s.seq \in Nat /\ s.cnt \in Nat /\ s.tx \in Nat /\ n \in Nat
    BY SpaceAssumption DEF Sane, SndType, Ahead
  <1>2. InRange(s, ack) <=> n <= s.cnt
    BY DEF InRange
  <1> HIDE DEF n
  <1>3. CASE ~InRange(s, ack)
    <2>1. p = s
      BY <1>3 DEF AckSnd
    <2>2. QED
      BY <1>3, <2>1 DEF AckEffect
  <1>4. CASE InRange(s, ack) /\ n = 0
    <2>1. p = [s EXCEPT !.win = win]
      BY <1>4 DEF AckSnd, n
    <2>2. p \in SndType
      BY <1>1, <2>1 DEF SndType
    <2>3. p.sent = s.sent /\ p.acked = s.acked /\ p.tx = s.tx /\ p.cnt = s.cnt /\ p.pending = s.pending /\ p.seq = s.seq
      BY <1>1, <2>1 DEF SndType
    <2> HIDE DEF p
    <2>4. /\ Opening(p) <=> Opening(s)
          /\ Flowing(p) <=> Flowing(s)
          /\ Ending(p) <=> Ending(s)
          /\ Finished(p) <=> Finished(s)
      BY <2>3 DEF Opening, Flowing, Ending, Finished
    <2>5. AckEffect(s, p, shut, InRange(s, ack) /\ n # 0)
      BY <1>4, <2>2, <2>3, <2>4 DEF Sane, AckEffect
    <2>6. QED
      BY <2>5 DEF p, n
  <1>5. CASE InRange(s, ack) /\ n # 0
    <2> DEFINE left == s.tx - Least(s.tx, n - (IF Sending(s) # {} THEN 1 ELSE 0))
               fin == left = 0 /\ shut /\ "FIN" \notin s.sent
               pend == s.pending - (IF Sending(s) # {} THEN 1 ELSE 0) + (IF fin THEN 1 ELSE 0)
               sent == IF fin THEN s.sent \cup {"FIN"} ELSE s.sent
               acked == s.acked \cup Sending(s)
               seq == s.seq + n
    <2>1. p = [s EXCEPT !.win = win, !.seq = seq, !.cnt = 0, !.tx = left, !.acked = acked, !.sent = sent, !.pending = pend]
      BY <1>1, <1>5 DEF AckSnd, n, SndType
    <2>2. seq \in Nat /\ acked \in SUBSET Flags /\ sent \in SUBSET Flags
      BY <1>1 DEF SndType, Sending, Flags
    <2> HIDE DEF left, fin, pend, sent, acked, seq, p
    <2>3. ASSUME left \in Nat, pend \in Nat
          PROVE  /\ p \in SndType
                 /\ p.sent = sent /\ p.acked = acked /\ p.tx = left /\ p.cnt = 0 /\ p.pending = pend
      BY <1>1, <2>1, <2>2, <2>3 DEF SndType
    <2>9. ASSUME left \in Nat, pend \in Nat,
                 Flowing(p) \/ Ending(p) \/ Finished(p),
                 Finished(s) => Finished(p), Opening(s) => IF shut THEN Ending(p) ELSE Flowing(p)
          PROVE  AckEffect(s, AckSnd(s, shut, ack, win), shut, InRange(s, ack) /\ Ahead(ack, s.seq) # 0)
      <3>1. ~Opening(p)
        BY <2>9, Distinct
      <3>2. AckEffect(s, p, shut, InRange(s, ack) /\ n # 0)
        BY <1>5, <2>3, <2>9, <3>1 DEF AckEffect, Sane
      <3>3. QED
        BY <3>2 DEF p, n
    <2>4. CASE Opening(s)
      <3>1. left = 0 /\ acked = {"SYN"} /\ (fin <=> shut)
        BY <1>1, <1>2, <1>5, <2>4, Phases DEF Opening, left, acked, fin, Least
      <3>2. pend = (IF shut THEN 1 ELSE 0) /\ sent = IF shut THEN Flags ELSE {"SYN"}
        BY <1>1, <2>4, <3>1, Phases DEF Opening, pend, sent, Flags
      <3>3. IF shut THEN Ending(p) ELSE Flowing(p)
        BY <2>3, <3>1, <3>2 DEF Ending, Flowing
      <3>4. QED
        BY <1>5, <2>4, <2>9, <3>1, <3>2, <3>3, Distinct
    <2>5. CASE Flowing(s)
      <3>1. left = s.tx - n /\ left \in Nat /\ acked = {"SYN"} /\ "FIN" \notin s.sent
        BY <1>1, <1>2, <1>5, <2>5, Phases DEF Flowing, left, acked, Least
      <3>2. pend = (IF fin THEN 1 ELSE 0) /\ sent = (IF fin THEN Flags ELSE {"SYN"}) /\ (fin => left = 0)
        BY <1>1, <2>5, <3>1, Phases DEF Flowing, pend, sent, Flags, fin
      <3>3. IF fin THEN Ending(p) ELSE Flowing(p)
        BY <2>3, <3>1, <3>2 DEF Ending, Flowing
      <3>4. QED
        BY <1>5, <2>5, <2>9, <3>1, <3>2, <3>3, Distinct
    <2>6. CASE Ending(s)
      <3>1. left = 0 /\ acked = Flags /\ ~fin
        BY <1>1, <1>2, <1>5, <2>6, Phases DEF Ending, left, acked, fin, Least, Flags
      <3>2. pend = 0 /\ sent = Flags
        BY <1>1, <2>6, <3>1, Phases DEF Ending, pend, sent
      <3>3. Finished(p)
        BY <2>3, <3>1, <3>2 DEF Finished
      <3>4. QED
        BY <1>5, <2>6, <2>9, <3>1, <3>2, <3>3, Distinct
    <2>7. CASE Finished(s)
      BY <1>1, <1>2, <1>5, <2>7 DEF Finished
    <2>8. QED
      BY <2>4, <2>5, <2>6, <2>7 DEF Sane
  <1>6. QED
    BY <1>3, <1>4, <1>5

-----------------------------------------------------------------------------
(***************************************************************************)
(* A connection that is in tcp_conns: what is sent, what is received, the  *)
(* timers, the highest number transmitted and the place in tcp_rx.  Until  *)
(* the SYN is acknowledged nothing but a SYN can have been received, and   *)
(* what has been transmitted is exactly what an acknowledgement may cover. *)
(***************************************************************************)
Conn(s, r, t, m, pc) ==
    /\ Sane(s)
    /\ Opening(s) => /\ s.seq = 0 /\ m <= 1 /\ (m >= 1 => s.cnt = 1)
                     /\ r.queue = << >> /\ "FIN" \notin r.rcvd /\ pc # "call"
    /\ ~Opening(s) => "SYN" \in r.rcvd
    /\ "SYN" \in r.rcvd => m >= 1
    /\ t.timer => ~Finished(s)
    /\ t.wait => Finished(s) /\ "FIN" \in r.rcvd

LEMMA SamePhase ==
    ASSUME NEW s, Sane(s), NEW c \in Nat, c <= SeqLen(s)
    PROVE  LET p == [s EXCEPT !.cnt = c]
           IN  /\ Sane(p) /\ p.seq = s.seq /\ p.cnt = c
               /\ Opening(p) <=> Opening(s)
               /\ Finished(p) <=> Finished(s)
               /\ SeqLen(p) = SeqLen(s) /\ tcp_xfer_window(p) = tcp_xfer_window(s)
  <1> DEFINE p == [s EXCEPT !.cnt = c]
  <1>1. s \in SndType
    BY DEF Sane
  <1>2. p \in SndType
    BY <1>1 DEF SndType
  <1>3. /\ p.sent = s.sent /\ p.acked = s.acked /\ p.tx = s.tx /\ p.pending = s.pending
        /\ p.win = s.win /\ p.seq = s.seq /\ p.cnt = c
    BY <1>1 DEF SndType
  <1> HIDE DEF p
  <1>4. SeqLen(p) = SeqLen(s) /\ tcp_xfer_window(p) = tcp_xfer_window(s)
    BY <1>3 DEF SeqLen, tcp_xfer_window, tcp_xmit_win, CanSendData, Sending
  <1>5. /\ Opening(s) => c <= 1
        /\ Flowing(s) => c <= s.tx
        /\ Ending(s) => c <= 1
        /\ Finished(s) => c = 0
    BY <1>1, Phases DEF SndType
  <1>6. /\ Opening(s) => Opening(p)
        /\ Flowing(s) => Flowing(p)
        /\ Ending(s) => Ending(p)
        /\ Finished(s) => Finished(p)
    BY <1>3, <1>5 DEF Opening, Flowing, Ending, Finished
  <1>7. Sane(p) /\ (Opening(p) <=> Opening(s)) /\ (Finished(p) <=> Finished(s))
    BY <1>2, <1>6, Distinct DEF Sane
  <1>8. QED
    BY <1>3, <1>4, <1>7 DEF p

\* tcp_xmit_sack, on a connection in any state.
LEMMA XmitConn ==
    ASSUME NEW s, NEW r, NEW t, NEW pc, r \in RcvType, t \in TmrType, sent_max \in Nat,
           Conn(s, r, t, sent_max, pc), tcp_xmit(s, r, t)
    PROVE  /\ Conn(snd', rcv', tmr', sent_max', pc) /\ sent_max' \in Nat
           /\ SeqLen(snd') > 0 => tmr'.timer
           /\ tcp_xfer_window(snd') = tcp_xfer_window(s)
  <1>1. PICK how \in Outcomes, w \in AppWindows :
            /\ snd' = XmitSnd(s, t) /\ tmr' = XmitTmr(s, t)
            /\ sent_max' = XmitMax(s, r, t, how)
    BY DEF tcp_xmit
  <1>2. rcv'.rcvd = r.rcvd /\ rcv'.queue = r.queue /\ tmr'.wait = t.wait
    BY XmitFrame
  <1>3. Sane(s) /\ s \in SndType /\ s.seq \in Nat /\ SeqLen(s) \in Nat
    BY Phases DEF Conn, Sane, SndType
  <1>4. tmr'.timer <=> t.timer \/ SeqLen(s) > 0
    BY <1>1, <1>3 DEF XmitTmr, TmrType
  <1>5. Finished(s) => ~(SeqLen(s) > 0)
    BY <1>3, Phases
  <1>6. CASE t.timer
    <2>1. snd' = s
      BY <1>1, <1>6 DEF XmitSnd
    <2>2. sent_max' = sent_max
      BY <1>1, <1>6 DEF XmitMax, Transmits
    <2>3. QED
      BY <1>2, <1>4, <1>6, <2>1, <2>2 DEF Conn
  <1>7. CASE ~t.timer
    <2>1. snd' = [s EXCEPT !.cnt = SeqLen(s)]
      BY <1>1, <1>7 DEF XmitSnd
    <2>2. /\ Sane(snd') /\ snd'.seq = s.seq /\ snd'.cnt = SeqLen(s)
          /\ Opening(snd') <=> Opening(s)
          /\ Finished(snd') <=> Finished(s)
          /\ SeqLen(snd') = SeqLen(s) /\ tcp_xfer_window(snd') = tcp_xfer_window(s)
      BY <1>3, <2>1, SamePhase
    <2>3. sent_max' \in Nat /\ sent_max' >= sent_max /\ (sent_max' = sent_max \/ sent_max' = s.seq + SeqLen(s))
      BY <1>1, <1>3 DEF XmitMax, Most
    <2>4. Opening(s) => SeqLen(s) = 1 /\ sent_max' <= 1
      BY <1>3, <2>3, Phases DEF Conn
    <2>5. Conn(snd', rcv', tmr', sent_max', pc)
      BY <1>2, <1>4, <1>5, <2>2, <2>3, <2>4 DEF Conn
    <2>6. QED
      BY <1>4, <2>2, <2>3, <2>5
  <1>8. QED
    BY <1>6, <1>7

\* tcp_close, once a SYN has been received.
LEMMA CloseConn ==
    ASSUME NEW s, NEW r, NEW t, NEW m \in Nat, NEW pc, t \in TmrType,
           Conn(s, r, t, m, pc), "SYN" \in r.rcvd
    PROVE  Conn(CloseSnd(s), r, CloseTmr(s, t), m, pc)
  <1>1. Sane(s) /\ s \in SndType /\ s.seq \in Nat
    BY DEF Conn, Sane, SndType
  <1>2. CloseTmr(s, t) \in TmrType /\ CloseTmr(s, t).wait = t.wait
    BY CloseTmrType
  <1>3. CASE Opening(s)
    <2>1. s.cnt = 1 /\ s.seq = 0
      BY <1>3 DEF Conn
    <2>2. Ahead(s.seq + 1, s.seq) = 1 /\ InRange(s, s.seq + 1)
      BY <2>1, SpaceAssumption DEF Ahead, InRange
    <2>3. CloseAck(s)
      BY <1>3 DEF CloseAck, Opening
    <2>4. Ending(AckSnd(s, TRUE, s.seq + 1, 0)) /\ Sane(AckSnd(s, TRUE, s.seq + 1, 0))
      <3>1. s.seq + 1 \in Int /\ TRUE \in BOOLEAN /\ 0 \in Nat /\ Ahead(s.seq + 1, s.seq) # 0
        BY <1>1, <2>2
      <3>2. AckEffect(s, AckSnd(s, TRUE, s.seq + 1, 0), TRUE,
                      InRange(s, s.seq + 1) /\ Ahead(s.seq + 1, s.seq) # 0)
        BY <1>1, <3>1, AckPhases
      <3>3. QED
        BY <1>3, <2>2, <3>1, <3>2 DEF AckEffect
    <2>5. CloseSnd(s) = AckSnd(s, TRUE, s.seq + 1, 0)
      BY <2>3, <2>4 DEF CloseSnd, Ending, Flags
    <2>6. ~t.wait
      BY <1>3, Distinct DEF Conn
    <2>7. QED
      BY <1>2, <2>4, <2>5, <2>6, Distinct DEF Conn
  <1>4. CASE ~Opening(s)
    <2>1. ~CloseAck(s)
      BY <1>1, <1>4 DEF CloseAck, Sane, Flowing, Ending, Finished, Flags
    <2>2. CloseTmr(s, t).timer = t.timer
      BY <2>1 DEF CloseTmr, TmrType
    <2>3. CASE s.tx = 0 /\ "FIN" \notin s.sent
      <3>1. Flowing(s) /\ s.cnt = 0 /\ s.pending = 0
        BY <1>1, <1>4, <2>3 DEF Sane, Flowing, Ending, Finished, Flags, SndType
      <3>2. CloseSnd(s) = [s EXCEPT !.sent = @ \cup {"FIN"}, !.pending = @ + 1]
        BY <2>1, <2>3 DEF CloseSnd
      <3>3. {"SYN"} \cup {"FIN"} = Flags /\ Flags \in SUBSET Flags
        BY DEF Flags
      <3>4. CloseSnd(s) = [s EXCEPT !.sent = Flags, !.pending = 1]
        <4>1. s.sent \cup {"FIN"} = Flags /\ s.pending + 1 = 1
          BY <3>1, <3>3 DEF Flowing
        <4>2. QED
          BY <3>2, <4>1
      <3>5. CloseSnd(s) \in SndType
        <4>1. \A f \in SUBSET Flags : [s EXCEPT !.sent = f, !.pending = 1] \in SndType
          BY <1>1 DEF SndType
        <4>2. QED
          BY <3>3, <3>4, <4>1
      <3>6. Ending(CloseSnd(s))
        BY <1>1, <2>3, <3>1, <3>4 DEF Ending, Flowing, SndType
      <3>7. ~t.wait
        BY <3>1, Distinct DEF Conn
      <3>8. QED
        BY <1>2, <1>4, <3>5, <3>6, <3>7, Distinct DEF Conn, Sane
    <2>4. CASE ~(s.tx = 0 /\ "FIN" \notin s.sent)
      <3>1. CloseSnd(s) = s
        BY <2>1, <2>4 DEF CloseSnd
      <3>2. QED
        BY <1>2, <2>2, <3>1 DEF Conn
    <2>5. QED
      BY <2>3, <2>4
  <1>5. QED
    BY <1>3, <1>4

-----------------------------------------------------------------------------
(* The invariant *)

SendInv ==
    /\ sent_max \in Nat /\ asked \in Nat /\ wake \in BOOLEAN /\ down \in BOOLEAN
    /\ at.old \in Nat /\ out \in Seq(Nat)
    /\ listed => Conn(snd, rcv, tmr, sent_max, at.pc)
    /\ ~listed => snd = GoneSnd /\ rcv = NewRcv /\ tmr = GoneTmr

Inv == RecvInv /\ SendInv

LEMMA SendInit == Init => SendInv
  <1> SUFFICES ASSUME Init PROVE SendInv
    OBVIOUS
  <1>1. snd = NewSnd /\ rcv = NewRcv /\ tmr = NewTmr /\ at = Idle /\ sent_max = 0 /\ listed
    BY DEF Init
  <1>2. NewSnd \in SndType
    BY DEF NewSnd, SndType, Flags
  <1>3. Opening(snd) /\ snd.seq = 0 /\ snd.cnt = 0
    BY <1>1 DEF NewSnd, Opening
  <1>4. rcv.queue = << >> /\ rcv.rcvd = {} /\ ~tmr.wait /\ at.pc = "idle" /\ at.old = 0
    BY <1>1 DEF NewRcv, NewTmr, Idle
  <1>5. Conn(snd, rcv, tmr, sent_max, at.pc)
    BY <1>1, <1>2, <1>3, <1>4, Distinct DEF Conn, Sane
  <1>6. out \in Seq(Nat) /\ wake \in BOOLEAN /\ down \in BOOLEAN /\ asked \in Nat /\ sent_max \in Nat /\ at.old \in Nat
    <2>1. << >> \in Seq(Nat) /\ 0 \in Nat
      OBVIOUS
    <2>2. QED
      BY <1>4, <2>1, Zenon DEF Init
  <1>7. QED
    BY <1>1, <1>5, <1>6 DEF SendInv

LEMMA WindowNat ==
    ASSUME NEW s, s \in SndType
    PROVE  tcp_xfer_window(s) \in Nat /\ (tcp_xfer_window(s) > 0 => s.tx = 0 /\ CanSendData(s))
  BY SpaceAssumption DEF tcp_xfer_window, tcp_xmit_win, Least, SndType

\* A connection changes, stays listed, and tcp_rx stays where it is.
LEMMA SendKeep ==
    ASSUME SendInv, Conn(snd', rcv', tmr', sent_max', at'.pc), sent_max' \in Nat, listed' = TRUE,
           at'.old \in Nat, asked' \in Nat, wake' \in BOOLEAN, down' \in BOOLEAN, out' \in Seq(Nat)
    PROVE  SendInv'
  BY DEF SendInv

LEMMA SendDelete ==
    ASSUME SendInv, Delete, UNCHANGED <<at, out, asked>>, wake' \in BOOLEAN, down' \in BOOLEAN
    PROVE  SendInv'
  BY DEF SendInv, Delete

\* The steps that receive nothing.
LEMMA SendOther ==
    ASSUME Inv,
           \/ ProcessStep \/ TimerExpired \/ TimerOver \/ KeepaliveExpired \/ WaitExpired
           \/ AppSend \/ AppWait \/ AppClose \/ Shutdown \/ ShutdownForce \/ Over
    PROVE  SendInv'
  <1>0. RecvInv /\ SendInv
    BY DEF Inv
  <1>1. /\ rcv \in RcvType /\ tmr \in TmrType /\ sent_max \in Nat /\ at.old \in Nat
        /\ asked \in Nat /\ wake \in BOOLEAN /\ down \in BOOLEAN /\ out \in Seq(Nat) /\ listed \in BOOLEAN
    BY <1>0 DEF RecvInv, RecvType, SendInv
  <1>2. ASSUME NEW s, NEW r, NEW t, r \in RcvType, t \in TmrType, tcp_xmit(s, r, t),
               Conn(s, r, t, sent_max, at.pc), listed' = TRUE,
               UNCHANGED <<at, out, wake, down>>, asked' \in Nat
        PROVE  SendInv'
    BY <1>0, <1>1, <1>2, XmitConn, SendKeep
  <1>3. CASE ProcessStep
    <2> DEFINE t == [tmr EXCEPT !.process = FALSE]
    <2>1. t \in TmrType /\ t.wait = tmr.wait /\ t.timer = tmr.timer
      BY <1>1 DEF TmrType
    <2>2. tcp_xmit(snd, rcv, t) /\ listed' = TRUE /\ UNCHANGED <<at, out, wake, down, asked>> /\ listed
      BY <1>1, <1>3 DEF ProcessStep, env
    <2> HIDE DEF t
    <2>3. Conn(snd, rcv, t, sent_max, at.pc)
      BY <1>0, <2>1, <2>2 DEF SendInv, Conn
    <2>4. QED
      BY <1>1, <1>2, <2>1, <2>2, <2>3
  <1>4. CASE TimerExpired
    <2> DEFINE t == [tmr EXCEPT !.timer = FALSE]
    <2>1. t \in TmrType /\ t.wait = tmr.wait /\ t.timer = FALSE
      BY <1>1 DEF TmrType
    <2>2. tcp_xmit(snd, rcv, t) /\ listed' = TRUE /\ UNCHANGED <<at, out, wake, down, asked>> /\ listed
      BY <1>1, <1>4 DEF TimerExpired, env
    <2> HIDE DEF t
    <2>3. Conn(snd, rcv, t, sent_max, at.pc)
      BY <1>0, <2>1, <2>2 DEF SendInv, Conn
    <2>4. QED
      BY <1>1, <1>2, <2>1, <2>2, <2>3
  <1>5. CASE KeepaliveExpired
    <2> DEFINE r == [rcv EXCEPT !.due = TRUE]
    <2>1. r \in RcvType /\ r.rcvd = rcv.rcvd /\ r.queue = rcv.queue
      BY <1>1 DEF RcvType
    <2>2. tcp_xmit(snd, r, tmr) /\ listed' = TRUE /\ UNCHANGED <<at, out, wake, down, asked>> /\ listed
      BY <1>1, <1>5 DEF KeepaliveExpired, env
    <2> HIDE DEF r
    <2>3. Conn(snd, r, tmr, sent_max, at.pc)
      BY <1>0, <2>1, <2>2 DEF SendInv, Conn
    <2>4. QED
      BY <1>1, <1>2, <2>1, <2>2, <2>3
  <1>6. CASE AppSend
    <2>1. PICK n \in 1 .. (Request - asked) : asked' = asked + n /\ tcp_xmit([snd EXCEPT !.tx = @ + n], rcv, tmr)
      BY <1>6 DEF AppSend
    <2>2. listed /\ listed' = TRUE /\ tcp_xfer_window(snd) > 0 /\ UNCHANGED <<at, out, wake, down>>
      BY <1>1, <1>6 DEF AppSend
    <2>3. Conn(snd, rcv, tmr, sent_max, at.pc) /\ Sane(snd) /\ snd \in SndType
      BY <1>0, <2>2 DEF SendInv, Conn, Sane
    <2>4. n \in Nat /\ n >= 1 /\ asked' \in Nat
      BY <1>1, <2>1, SpaceAssumption
    <2>5. snd.tx = 0 /\ Flowing(snd)
      BY <2>2, <2>3, WindowNat, Phases DEF Sane
    <2> DEFINE s == [snd EXCEPT !.tx = @ + n]
    <2>6. s \in SndType
      BY <2>3, <2>4 DEF SndType
    <2>7. s.sent = snd.sent /\ s.acked = snd.acked /\ s.cnt = snd.cnt /\ s.pending = snd.pending /\ s.tx = snd.tx + n
      BY <2>3 DEF SndType
    <2> HIDE DEF s
    <2>8. Flowing(s)
      BY <2>3, <2>4, <2>5, <2>7 DEF Flowing, SndType
    <2>9. Conn(s, rcv, tmr, sent_max, at.pc)
      BY <2>3, <2>5, <2>6, <2>8, Distinct DEF Conn, Sane
    <2>10. QED
      BY <1>1, <1>2, <2>1, <2>2, <2>4, <2>9 DEF s
  <1>7. CASE TimerOver
    BY <1>0, <1>1, <1>7, SendDelete DEF TimerOver, Abort
  <1>8. CASE WaitExpired
    BY <1>0, <1>1, <1>8, SendDelete DEF WaitExpired, Abort
  <1>9. CASE ShutdownForce
    BY <1>0, <1>1, <1>9, SendDelete DEF ShutdownForce, Abort
  <1>10. CASE AppWait
    <2>1. UNCHANGED <<listed, snd, rcv, tmr, at, out, asked, down, sent_max>> /\ wake' = FALSE
      BY <1>10 DEF AppWait
    <2>2. QED
      BY <1>0, <2>1 DEF SendInv
  <1>11. CASE Over
    BY <1>0, <1>11 DEF Over, vars, SendInv
  <1>12. CASE AppClose
    <2>1. listed /\ UNCHANGED <<at, out, wake, asked, down>>
      BY <1>12 DEF AppClose
    <2>2. CASE "SYN" \notin rcv.rcvd
      BY <1>0, <1>1, <1>12, <2>1, <2>2, SendDelete DEF AppClose
    <2>3. CASE "SYN" \in rcv.rcvd
      <3>1. tcp_xmit(CloseSnd(snd), rcv, CloseTmr(snd, tmr)) /\ listed' = TRUE
        BY <1>1, <1>12, <2>1, <2>3 DEF AppClose
      <3>2. Conn(CloseSnd(snd), rcv, CloseTmr(snd, tmr), sent_max, at.pc)
        BY <1>0, <1>1, <2>1, <2>3, CloseConn DEF SendInv
      <3>3. QED
        BY <1>1, <1>2, <2>1, <3>1, <3>2, CloseTmrType
    <2>4. QED
      BY <2>2, <2>3
  <1>13. CASE Shutdown
    <2>1. listed /\ down' = TRUE /\ UNCHANGED <<at, out, wake, asked>>
      BY <1>13 DEF Shutdown
    <2>2. CASE closed
      <3>1. UNCHANGED <<listed, snd, rcv, tmr, sent_max>>
        BY <1>13, <2>2 DEF Shutdown
      <3>2. QED
        BY <1>0, <2>1, <3>1 DEF SendInv
    <2>3. CASE ~closed /\ "SYN" \notin rcv.rcvd
      BY <1>0, <1>1, <1>13, <2>1, <2>3, SendDelete DEF Shutdown, tcp_close
    <2>4. CASE ~closed /\ "SYN" \in rcv.rcvd
      <3>1. snd' = CloseSnd(snd) /\ rcv' = rcv /\ tmr' = CloseTmr(snd, tmr) /\ UNCHANGED <<listed, sent_max>>
        BY <1>13, <2>4 DEF Shutdown, tcp_close
      <3>2. Conn(CloseSnd(snd), rcv, CloseTmr(snd, tmr), sent_max, at.pc)
        BY <1>0, <1>1, <2>1, <2>4, CloseConn DEF SendInv
      <3>3. QED
        BY <1>0, <1>1, <2>1, <3>1, <3>2, SendKeep
    <2>5. QED
      BY <2>2, <2>3, <2>4
  <1>14. QED
    BY <1>3, <1>4, <1>5, <1>6, <1>7, <1>8, <1>9, <1>10, <1>11, <1>12, <1>13

\* What tcp_rx_enqueue and tcp_rx_syn leave of the flags and the queue.
LEMMA RxKeeps ==
    ASSUME NEW r \in RcvType, NEW seq \in Nat, NEW len \in Nat, NEW fin \in BOOLEAN
    PROVE  /\ tcp_rx_enqueue(r, seq, len, fin).rcvd = r.rcvd
           /\ len = 0 /\ ~fin => tcp_rx_enqueue(r, seq, len, fin) = r
           /\ tcp_rx_syn(r, 0).queue = r.queue
           /\ "FIN" \in tcp_rx_syn(r, 0).rcvd <=> "FIN" \in r.rcvd
           /\ "SYN" \in tcp_rx_syn(r, 0).rcvd
           /\ tcp_rx_syn(r, 0) \in RcvType
  <1>1. tcp_rx_enqueue(r, seq, len, fin).rcvd = r.rcvd
    BY DEF tcp_rx_enqueue, RcvType
  <1>2. len = 0 /\ ~fin => seq + len + (IF fin THEN 1 ELSE 0) = seq
    OBVIOUS
  <1>3. len = 0 /\ ~fin => tcp_rx_enqueue(r, seq, len, fin) = r
    BY <1>2 DEF tcp_rx_enqueue
  <1> DEFINE r1 == IF "SYN" \in r.rcvd THEN r ELSE [r EXCEPT !.ack = 0]
             p == tcp_rx_seq(r1, 1)
  <1>4. r1 \in RcvType /\ r1.rcvd = r.rcvd /\ r1.queue = r.queue /\ ("SYN" \notin r.rcvd => r1.ack = 0)
    BY DEF RcvType
  <1>5. tcp_rx_syn(r, 0) = IF Ahead(0, r1.ack) # 0 THEN r1 ELSE [p EXCEPT !.rcvd = @ \cup {"SYN"}]
    BY DEF tcp_rx_syn
  <1>6. "SYN" \notin r.rcvd => Ahead(0, r1.ack) = 0
    BY <1>4, SpaceAssumption DEF Ahead
  <1> HIDE DEF r1
  <1>7. p \in RcvType /\ p.rcvd = r1.rcvd /\ p.queue = r1.queue
    BY <1>4, RxSeq
  <1> HIDE DEF p
  <1> DEFINE z == [p EXCEPT !.rcvd = @ \cup {"SYN"}]
  <1>8. z \in RcvType
    BY <1>7 DEF RcvType, Flags
  <1>9. z.rcvd = r.rcvd \cup {"SYN"} /\ z.queue = r.queue
    BY <1>4, <1>7 DEF RcvType
  <1>10. tcp_rx_syn(r, 0) = IF Ahead(0, r1.ack) # 0 THEN r1 ELSE z
    BY <1>5
  <1> HIDE DEF z
  <1>11. CASE Ahead(0, r1.ack) # 0
    <2>1. tcp_rx_syn(r, 0) = r1 /\ "SYN" \in r.rcvd
      BY <1>6, <1>10, <1>11
    <2>2. QED
      BY <1>1, <1>3, <1>4, <2>1
  <1>12. CASE Ahead(0, r1.ack) = 0
    <2>1. tcp_rx_syn(r, 0) = z
      BY <1>10, <1>12
    <2>2. QED
      BY <1>1, <1>3, <1>8, <1>9, <2>1
  <1>13. QED
    BY <1>11, <1>12

LEMMA SegmentAcks ==
    ASSUME sent_max \in Nat, NEW g \in Segments
    PROVE  /\ g.win \in Nat /\ g.ack \in Int
           /\ g.ack = OldAck => g.len = 0 /\ ~g.fin /\ ~g.rst
           /\ g.syn /\ g.ack # OldAck => sent_max >= 1
           /\ g.ack = None => g.syn
           /\ ~g.syn /\ ~g.rst /\ g.ack # OldAck => "SYN" \in rcv.rcvd
           /\ ~g.syn /\ g.ack # OldAck => g.ack >= 1 /\ g.ack <= sent_max
  <1>0. PeerWindows \subseteq Nat
    BY SpaceAssumption
  <1>1. CASE g \in SynSegments
    <2>1. sent_max # 0 /\ g.ack \in {None, 1} /\ g.win \in PeerWindows
      BY <1>1 DEF SynSegments
    <2>2. g.syn = TRUE
      BY <1>1 DEF SynSegments
    <2>3. sent_max >= 1 /\ g.ack # OldAck /\ g.ack \in Int
      BY <2>1 DEF None, OldAck
    <2>4. QED
      BY <1>0, <2>1, <2>2, <2>3, Zenon
  <1>2. CASE g \in DataSegments
    <2>1. "SYN" \in rcv.rcvd
      BY <1>2 DEF DataSegments
    <2>2. g.ack \in 1 .. sent_max /\ g.win \in PeerWindows
      BY <1>2, <2>1 DEF DataSegments
    <2>5. g.syn = FALSE
      BY <1>2, <2>1 DEF DataSegments
    <2>3. g.ack \in Int /\ g.ack >= 1 /\ g.ack <= sent_max /\ g.ack # OldAck /\ g.ack # None
      BY <2>2 DEF None, OldAck
    <2>4. QED
      BY <1>0, <2>1, <2>2, <2>3, <2>5, Zenon
  <1>3. CASE g \in RstSegments
    <2>1. g.ack \in 1 .. sent_max /\ g.win \in PeerWindows
      BY <1>3 DEF RstSegments
    <2>4. g.syn = FALSE /\ g.rst = TRUE
      BY <1>3 DEF RstSegments
    <2>2. g.ack \in Int /\ g.ack >= 1 /\ g.ack <= sent_max /\ g.ack # OldAck /\ g.ack # None
      BY <2>1 DEF None, OldAck
    <2>3. QED
      BY <1>0, <2>1, <2>2, <2>4, Zenon
  <1>4. CASE g \in OldSegments
    <2>1. g.len = 0 /\ g.fin = FALSE /\ g.rst = FALSE /\ g.ack = OldAck /\ g.win = 0
      BY <1>4 DEF OldSegments
    <2>2. g.ack \in Int /\ g.ack # None /\ g.win \in Nat
      BY <2>1 DEF None, OldAck
    <2>3. QED
      BY <2>1, <2>2
  <1>5. QED
    BY <1>1, <1>2, <1>3, <1>4 DEF Segments

LEMMA SendArrives ==
    ASSUME Inv, NEW g \in Segments, Rx(g)
    PROVE  SendInv'
  <1> DEFINE hasack == g.ack # None
             refused == hasack /\ ~InRange(snd, g.ack) /\ ~HasBeenEstablished(snd, rcv)
             s1 == IF hasack THEN AckSnd(snd, closed, g.ack, g.win) ELSE snd
             r1 == IF "SYN" \in rcv.rcvd /\ Ahead(g.seq, rcv.ack) # 0 THEN [rcv EXCEPT !.due = TRUE] ELSE rcv
             r2 == IF g.syn THEN tcp_rx_syn(r1, g.seq) ELSE r1
             seq == g.seq + (IF g.syn THEN 1 ELSE 0)
             r3 == tcp_rx_enqueue(r2, seq, g.len, g.fin)
             t1 == IF hasack THEN AckTmr(snd, tmr, g.ack) ELSE tmr
             counts == hasack /\ InRange(snd, g.ack) /\ Ahead(g.ack, snd.seq) # 0
  <1>0. RecvInv /\ SendInv
    BY DEF Inv
  <1>1. /\ rcv \in RcvType /\ tmr \in TmrType /\ sent_max \in Nat /\ closed \in BOOLEAN /\ listed
        /\ Conn(snd, rcv, tmr, sent_max, at.pc) /\ Sane(snd) /\ snd \in SndType
        /\ at.pc = "idle" /\ UNCHANGED <<out, wake, asked, down>>
    BY <1>0 DEF RecvInv, RecvType, SendInv, Conn, Sane, Rx
  <1>2. CASE refused
    <2>1. UNCHANGED <<listed, snd, rcv, tmr, at, sent_max>>
      BY <1>2 DEF Rx
    <2>2. QED
      BY <1>0, <1>1, <2>1 DEF SendInv
  <1>3. CASE ~refused /\ g.rst /\ Resets(s1, r2, seq)
    BY <1>0, <1>1, <1>3, SendDelete DEF Rx, Abort, SendInv
  <1>4. CASE ~refused /\ ~(g.rst /\ Resets(s1, r2, seq))
    <2>1. /\ snd' = s1 /\ rcv' = r3 /\ tmr' = t1
          /\ at' = [Idle EXCEPT !.pc = "loop", !.old = tcp_xfer_window(snd)]
          /\ UNCHANGED <<listed, sent_max>>
      BY <1>4 DEF Rx
    <2>2. r1 \in RcvType /\ r1.rcvd = rcv.rcvd /\ r1.queue = rcv.queue
      BY <1>1 DEF RcvType
    <2> HIDE DEF r1
    <2>3. g.seq \in Nat /\ g.len \in Nat /\ g.fin \in BOOLEAN /\ g.syn \in BOOLEAN /\ (g.syn => g.seq = 0) /\ seq \in Nat
      BY SegmentFacts
    <2>4. /\ r2 \in RcvType /\ r2.queue = rcv.queue
          /\ "FIN" \in r2.rcvd <=> "FIN" \in rcv.rcvd
          /\ "SYN" \in rcv.rcvd \/ g.syn <=> "SYN" \in r2.rcvd
      BY <2>2, <2>3, RxKeeps
    <2> HIDE DEF r2, seq
    <2>5. r3.rcvd = r2.rcvd /\ (g.len = 0 /\ ~g.fin => r3 = r2)
      BY <2>3, <2>4, RxKeeps
    <2> HIDE DEF r3
    <2>6. AckEffect(snd, s1, closed, counts)
      <3>1. CASE hasack
        <4>1. AckEffect(snd, AckSnd(snd, closed, g.ack, g.win), closed, InRange(snd, g.ack) /\ Ahead(g.ack, snd.seq) # 0)
          BY <1>1, AckPhases, SegmentAcks
        <4>2. counts <=> InRange(snd, g.ack) /\ Ahead(g.ack, snd.seq) # 0
          BY <3>1
        <4> HIDE DEF counts
        <4>3. QED
          BY <3>1, <4>1, <4>2 DEF AckEffect
      <3>2. CASE ~hasack
        BY <1>1, <3>2 DEF AckEffect
      <3>3. QED
        BY <3>1, <3>2
    <2>7. t1 \in TmrType /\ t1.wait = tmr.wait /\ (t1.timer => tmr.timer /\ ~counts)
      BY <1>1, AckTmrType DEF AckTmr, TmrType
    <2>8. Opening(snd) /\ g.ack # OldAck /\ ~g.syn /\ sent_max >= 1 => counts
      <3>1. ASSUME Opening(snd), g.ack # OldAck, ~g.syn, sent_max >= 1
            PROVE  counts
        <4>1. snd.seq = 0 /\ snd.cnt = 1 /\ g.ack = 1
          BY <1>1, <3>1, SegmentAcks DEF Conn
        <4>2. Ahead(1, 0) = 1
          BY SpaceAssumption DEF Ahead
        <4>3. QED
          BY <4>1, <4>2 DEF InRange, None
      <3>2. QED
        BY <3>1
    <2>9. Opening(snd) => g.ack # OldAck
      <3>1. ASSUME Opening(snd), g.ack = OldAck
            PROVE  FALSE
        <4>1. snd.seq = 0 /\ snd.cnt <= 1 /\ snd.cnt \in Nat
          BY <1>1, <3>1 DEF Conn, Opening, SndType
        <4>2. Ahead(-2, 0) > 1
          BY SpaceAssumption DEF Ahead
        <4>3. ~InRange(snd, g.ack)
          <5>1. Ahead(g.ack, snd.seq) = Ahead(-2, 0) /\ Ahead(-2, 0) \in Int
            BY <3>1, <4>1, SpaceAssumption DEF OldAck, Ahead
          <5>2. QED
            BY <4>1, <4>2, <5>1 DEF InRange
        <4>4. ~HasBeenEstablished(snd, rcv)
          BY <3>1 DEF HasBeenEstablished, Opening
        <4>5. hasack
          BY <3>1 DEF OldAck, None
        <4>6. QED
          BY <1>4, <4>3, <4>4, <4>5
      <3>2. QED
        BY <3>1
    <2> HIDE DEF counts, s1, t1
    <2>10. ASSUME Opening(s1)
           PROVE  /\ s1.seq = 0 /\ sent_max <= 1 /\ (sent_max >= 1 => s1.cnt = 1)
                  /\ r3.queue = << >> /\ "FIN" \notin r3.rcvd
      <3>1. Opening(snd) /\ s1.seq = snd.seq /\ s1.cnt = snd.cnt /\ ~counts
        BY <2>6, <2>10, Distinct DEF AckEffect
      <3>2. rcv.queue = << >> /\ "FIN" \notin rcv.rcvd /\ snd.seq = 0 /\ sent_max <= 1 /\ (sent_max >= 1 => snd.cnt = 1)
        BY <1>1, <3>1 DEF Conn
      <3>3. g.len = 0 /\ ~g.fin
        <4>1. CASE g.syn
          BY <2>3, <4>1, SegmentFacts
        <4>2. CASE ~g.syn
          <5>1. ~(sent_max >= 1)
            BY <2>8, <2>9, <3>1, <4>2
          <5>2. QED
            BY <1>1, <2>9, <3>1, <4>2, <5>1, SegmentAcks
        <4>3. QED
          BY <4>1, <4>2
      <3>4. QED
        BY <2>4, <2>5, <3>1, <3>2, <3>3
    <2>11. ASSUME ~Opening(s1)
           PROVE  "SYN" \in r3.rcvd
      <3>1. CASE ~Opening(snd)
        BY <1>1, <2>4, <2>5, <3>1 DEF Conn
      <3>2. CASE Opening(snd)
        <4>1. CASE g.syn
          BY <2>4, <2>5, <4>1
        <4>2. CASE ~g.syn /\ ~g.rst
          BY <1>1, <2>4, <2>5, <2>9, <3>2, <4>2, SegmentAcks
        <4>3. CASE ~g.syn /\ g.rst
          <5>1. "SYN" \in s1.acked
            BY <2>6, <2>11 DEF AckEffect, Sane, Opening, Flowing, Ending, Finished, Flags
          <5>2. ~Resets(s1, r2, seq)
            BY <1>4, <4>3
          <5>3. QED
            BY <2>5, <5>1, <5>2 DEF Resets
        <4>4. QED
          BY <4>1, <4>2, <4>3
      <3>3. QED
        BY <3>1, <3>2
    <2>12. ASSUME "SYN" \in r3.rcvd
           PROVE  sent_max >= 1
      <3>1. CASE "SYN" \in rcv.rcvd
        BY <1>1, <3>1 DEF Conn
      <3>2. CASE "SYN" \notin rcv.rcvd
        <4>1. g.syn /\ Opening(snd)
          BY <1>1, <2>4, <2>5, <2>12, <3>2 DEF Conn
        <4>2. QED
          BY <1>1, <2>9, <4>1, SegmentAcks
      <3>3. QED
        BY <3>1, <3>2
    <2>13. Conn(s1, r3, t1, sent_max, "loop")
      <3>1. t1.timer => ~Finished(s1)
        BY <1>1, <2>6, <2>7 DEF AckEffect, Conn
      <3>2. t1.wait => Finished(s1) /\ "FIN" \in r3.rcvd
        BY <1>1, <2>4, <2>5, <2>6, <2>7 DEF AckEffect, Conn
      <3>3. Sane(s1)
        BY <2>6 DEF AckEffect
      <3>4. QED
        BY <2>10, <2>11, <2>12, <3>1, <3>2, <3>3 DEF Conn
    <2>14. at'.pc = "loop" /\ at'.old \in Nat
      BY <1>1, <2>1, WindowNat DEF Idle
    <2>15. Conn(snd', rcv', tmr', sent_max', at'.pc) /\ listed' = TRUE
      BY <1>1, <2>1, <2>13, <2>14
    <2>16. QED
      BY <1>0, <1>1, <2>1, <2>14, <2>15, SendKeep DEF SendInv
  <1>5. QED
    BY <1>2, <1>3, <1>4

\* The end of a turn of the loop, with what it leaves of the connection.
LEMMA SendFin ==
    ASSUME Inv, listed, ~Opening(snd), at.pc # "idle", NEW r \in RcvType, r.rcvd = rcv.rcvd,
           NEW seq, NEW fin, tcp_rx_fin(r, seq, fin), at'.pc = "loop", at'.old = at.old,
           UNCHANGED <<out, wake, asked, down>>
    PROVE  SendInv'
  <1>1. /\ SendInv /\ tmr \in TmrType /\ sent_max \in Nat /\ Conn(snd, rcv, tmr, sent_max, at.pc)
        /\ "SYN" \in r.rcvd /\ at'.old \in Nat /\ asked' \in Nat /\ wake' \in BOOLEAN /\ down' \in BOOLEAN /\ out' \in Seq(Nat)
    BY DEF Inv, RecvInv, RecvType, SendInv, Conn
  <1>2. CASE fin /\ Ahead(seq, r.ack) = 0
    <2> DEFINE p == [tcp_rx_seq(r, 1) EXCEPT !.rcvd = @ \cup {"FIN"}]
    <2>1. tcp_rx_seq(r, 1) \in RcvType /\ tcp_rx_seq(r, 1).rcvd = r.rcvd
      BY RxSeq
    <2>2. p.rcvd = r.rcvd \cup {"FIN"}
      BY <2>1 DEF RcvType
    <2>3. tcp_close(snd, p, tmr, "eof")
      BY <1>2 DEF tcp_rx_fin
    <2> HIDE DEF p
    <2>4. snd' = CloseSnd(snd) /\ rcv' = p /\ tmr' = CloseTmr(snd, tmr) /\ UNCHANGED <<listed, sent_max>>
      BY <1>1, <2>2, <2>3 DEF tcp_close
    <2>5. Conn(snd, p, tmr, sent_max, "loop")
      BY <1>1, <2>2 DEF Conn
    <2>6. Conn(CloseSnd(snd), p, CloseTmr(snd, tmr), sent_max, "loop")
      BY <1>1, <2>2, <2>5, CloseConn
    <2>7. QED
      BY <1>1, <2>4, <2>6, SendKeep
  <1>3. CASE ~(fin /\ Ahead(seq, r.ack) = 0)
    <2>1. rcv' = r /\ UNCHANGED <<listed, snd, tmr, sent_max>>
      BY <1>3 DEF tcp_rx_fin
    <2>2. Conn(snd, r, tmr, sent_max, "loop")
      BY <1>1 DEF Conn
    <2>3. QED
      BY <1>1, <2>1, <2>2, SendKeep
  <1>4. QED
    BY <1>2, <1>3

LEMMA SendReceives ==
    ASSUME Inv, Deliver \/ Return \/ RxDone \/ Discard, out' \in Seq(Nat)
    PROVE  SendInv'
  <1>1. /\ SendInv /\ rcv \in RcvType /\ tmr \in TmrType /\ rcv.queue \in Seq(Queued) /\ sent_max \in Nat
        /\ at.old \in Nat /\ asked \in Nat /\ wake \in BOOLEAN /\ down \in BOOLEAN
    BY DEF Inv, RecvInv, RecvType, RcvType, SendInv
  <1>2. listed
    BY DEF Inv, RecvInv, Closing, Deliver, Return, RxDone, Discard
  <1>3. Conn(snd, rcv, tmr, sent_max, at.pc)
    BY <1>1, <1>2 DEF SendInv
  <1>4. rcv.queue # << >> \/ at.pc = "call" => ~Opening(snd) /\ "SYN" \in rcv.rcvd
    BY <1>3 DEF Conn
  <1>5. CASE Deliver
    <2> DEFINE q == rcv.queue[1]
               r1 == [rcv EXCEPT !.queue = Tail(@)]
               len == q.nxt - q.seq - (IF q.fin THEN 1 ELSE 0)
               already == already_rcvd(rcv, q.seq)
    <2>1. at.pc = "loop" /\ rcv.queue # << >> /\ ~Opening(snd) /\ "SYN" \in rcv.rcvd /\ UNCHANGED <<wake, asked, down>>
      BY <1>4, <1>5 DEF Deliver, Applicable
    <2>2. Tail(rcv.queue) \in Seq(Queued)
      BY <1>1, <2>1, Shorter
    <2>3. r1 \in RcvType /\ r1.rcvd = rcv.rcvd
      BY <1>1, <2>2 DEF RcvType
    <2> HIDE DEF r1, q
    <2>4. CASE already >= len
      <3>1. tcp_rx_fin(r1, q.seq + len, q.fin) /\ UNCHANGED <<at, out>>
        BY <1>5, <2>4 DEF Deliver, q, r1
      <3> HIDE DEF len, already
      <3>2. at'.pc = "loop" /\ at'.old = at.old /\ UNCHANGED <<out, wake, asked, down>> /\ at.pc # "idle"
        BY <2>1, <3>1
      <3>3. QED
        BY <1>2, <2>1, <2>3, <3>1, <3>2, SendFin
    <2>5. CASE ~(already >= len)
      <3>5. /\ rcv' = tcp_rx_seq(r1, len - already)
            /\ at' = [pc |-> "call", nxt |-> q.seq + len, fin |-> q.fin, old |-> at.old]
            /\ UNCHANGED <<listed, snd, tmr, sent_max>>
        BY <1>5, <2>5, Zenon DEF Deliver, q, r1
      <3> HIDE DEF len, already
      <3>1. /\ rcv' = tcp_rx_seq(r1, len - already) /\ at'.pc = "call" /\ at'.old = at.old
            /\ UNCHANGED <<listed, snd, tmr, sent_max>>
        BY <3>5
      <3>2. rcv'.rcvd = rcv.rcvd
        BY <2>3, <3>1 DEF tcp_rx_seq, RcvType
      <3>3. Conn(snd', rcv', tmr', sent_max', at'.pc)
        BY <1>3, <2>1, <3>1, <3>2 DEF Conn
      <3>4. QED
        BY <1>1, <1>2, <2>1, <3>1, <3>3, SendKeep
    <2>6. QED
      BY <2>4, <2>5
  <1>6. CASE Return
    <2>1. at.pc = "call" /\ UNCHANGED <<out, wake, asked, down>> /\ tcp_rx_fin(rcv, at.nxt, at.fin)
      BY <1>6 DEF Return
    <2>2. at'.pc = "loop" /\ at'.old = at.old
      BY <1>6 DEF Return, Inv, RecvInv, RecvType, AtShape
    <2>3. QED
      BY <1>1, <1>2, <1>4, <2>1, <2>2, SendFin
  <1>7. CASE RxDone
    <2> DEFINE t1 == [tmr EXCEPT !.wait = @ \/ ClosedGracefully(snd, rcv)]
    <2>1. /\ at' = Idle /\ wake' \in BOOLEAN /\ UNCHANGED <<listed, asked, down>> /\ at.pc = "loop"
      BY <1>7 DEF RxDone
    <2>2. t1 \in TmrType /\ t1.timer = tmr.timer /\ (t1.wait => tmr.wait \/ ClosedGracefully(snd, rcv))
      BY <1>1 DEF TmrType, ClosedGracefully
    <2>3. IF rcv.queue = << >>
          THEN tmr' = [t1 EXCEPT !.process = TRUE] /\ UNCHANGED <<snd, rcv, sent_max>>
          ELSE tcp_xmit(snd, rcv, t1)
      BY <1>7 DEF RxDone
    <2> HIDE DEF t1
    <2>4. ClosedGracefully(snd, rcv) => Finished(snd) /\ "FIN" \in rcv.rcvd
      BY <1>3 DEF ClosedGracefully, Conn, Sane, Opening, Flowing, Ending, Finished
    <2>5. Conn(snd, rcv, t1, sent_max, "idle")
      BY <1>3, <2>2, <2>4 DEF Conn
    <2>6. Conn(snd', rcv', tmr', sent_max', "idle") /\ sent_max' \in Nat
      <3>1. CASE rcv.queue = << >>
        <4>1. tmr'.timer = t1.timer /\ tmr'.wait = t1.wait /\ UNCHANGED <<snd, rcv, sent_max>>
          BY <2>2, <2>3, <3>1 DEF TmrType
        <4>2. QED
          BY <1>1, <2>5, <4>1 DEF Conn
      <3>2. CASE rcv.queue # << >>
        BY <1>1, <2>2, <2>3, <2>5, <3>2, XmitConn
      <3>3. QED
        BY <3>1, <3>2
    <2>7. at'.pc = "idle" /\ at'.old = 0
      BY <2>1 DEF Idle
    <2>8. QED
      BY <1>1, <1>2, <2>1, <2>6, <2>7, SendKeep
  <1>8. CASE Discard
    <2>1. /\ rcv.queue # << >> /\ rcv' = [rcv EXCEPT !.queue = SubSeq(@, 1, Len(@) - 1)]
          /\ UNCHANGED <<listed, snd, tmr, at, wake, asked, down, sent_max>>
      BY <1>8 DEF Discard
    <2>2. rcv'.rcvd = rcv.rcvd
      BY <1>1, <2>1 DEF RcvType
    <2>3. Conn(snd', rcv', tmr', sent_max', at'.pc)
      BY <1>3, <1>4, <2>1, <2>2 DEF Conn
    <2>4. QED
      BY <1>1, <1>2, <2>1, <2>3, SendKeep
  <1>9. QED
    BY <1>5, <1>6, <1>7, <1>8

LEMMA OutType ==
    ASSUME Inv, [Next]_vars
    PROVE  out' \in Seq(Nat)
  <1>1. out \in Seq(Nat) /\ Reply \in Nat
    BY SpaceAssumption DEF Inv, SendInv
  <1>2. StreamStep
    BY RecvStep DEF Inv
  <1>3. \A n \in Nat : [i \in 1 .. n |-> i] \in Seq(Nat)
    OBVIOUS
  <1>4. CASE IsStream!Deliver
    <2>1. PICK n \in 1 .. (Reply - Len(out)) : out' = [i \in 1 .. (Len(out) + n) |-> i]
      BY <1>4 DEF IsStream!Deliver
    <2>2. Len(out) + n \in Nat
      BY <1>1, <2>1
    <2>3. QED
      BY <1>3, <2>1, <2>2
  <1>5. QED
    BY <1>1, <1>2, <1>4 DEF StreamStep, IsStream!Next, IsStream!Finish, IsStream!Abort

LEMMA InvStep ==
    ASSUME Inv, [Next]_vars
    PROVE  Inv'
  <1>1. RecvInv'
    BY RecvStep DEF Inv
  <1>2. CASE UNCHANGED vars
    BY <1>1, <1>2 DEF vars, Inv, SendInv
  <1>3. CASE Arrives
    <2>1. PICK g \in Segments : Rx(g)
      BY <1>3 DEF Arrives, Segments
    <2>2. QED
      BY <1>1, <2>1, SendArrives DEF Inv
  <1>4. CASE Next
    BY <1>1, <1>3, <1>4, OutType, SendOther, SendReceives DEF Next, Inv
  <1>5. QED
    BY <1>1, <1>2, <1>4 DEF Inv

LEMMA InvAlways == Spec => []Inv
  <1>1. Init => Inv
    BY RecvInit, SendInit DEF Inv
  <1>2. QED
    BY <1>1, InvStep, PTL DEF Spec

-----------------------------------------------------------------------------
(* The theorems *)

LEMMA GoneType == GoneSnd \in SndType /\ Sending(GoneSnd) = {} /\ ~GoneTmr.timer /\ ~GoneTmr.wait /\ GoneSnd.pending = 0
  BY DEF GoneSnd, GoneTmr, SndType, Sending, Flags

LEMMA SndTyped == Inv => snd \in SndType
  BY GoneType DEF Inv, RecvInv, RecvType, SendInv, Conn, Sane

\* The types, for every value of the constants.
THEOREM TcpTypes == Spec => []TypeOK
  <1>1. Inv => TypeOK
    <2> SUFFICES ASSUME Inv PROVE TypeOK
      OBVIOUS
    <2>1. at = [pc |-> at.pc, nxt |-> at.nxt, fin |-> at.fin, old |-> at.old] /\ at.pc \in {"idle", "loop", "call"}
          /\ at.nxt \in Nat /\ at.fin \in BOOLEAN /\ at.old \in Nat
      BY DEF Inv, RecvInv, RecvType, AtShape, SendInv
    <2>2. at \in AtType
      BY <2>1 DEF AtType
    <2>3. QED
      BY <2>2, SndTyped DEF Inv, RecvInv, RecvType, SendInv, TypeOK
  <1>2. QED
    BY <1>1, InvAlways, PTL

\* The assertions of tcp_expired, tcp_wait_expired and tcp_xmit_sack hold
\* whenever they can be evaluated (Asserts).
THEOREM AssertsHold == Spec => []Asserts
  <1>1. Inv => Asserts
    <2> SUFFICES ASSUME Inv PROVE Asserts
      OBVIOUS
    <2>1. CASE ~listed
      <3>1. snd = GoneSnd /\ tmr = GoneTmr
        BY <2>1 DEF Inv, SendInv
      <3>2. {} # Flags
        BY DEF Flags
      <3>3. QED
        BY <3>1, <3>2, GoneType DEF Asserts
    <2>2. CASE listed
      <3>1. Conn(snd, rcv, tmr, sent_max, at.pc) /\ Sane(snd) /\ snd \in SndType /\ rcv \in RcvType
        BY <2>2 DEF Inv, SendInv, Conn, Sane, RecvInv, RecvType
      <3>2. Sending(snd) # Flags
        <4>1. Sending(snd) = {} \/ Sending(snd) = {"SYN"} \/ Sending(snd) = {"FIN"}
          BY <3>1, Phases DEF Sane
        <4>2. QED
          BY <4>1 DEF Flags
      <3>3. rcv.rcvd \subseteq Flags /\ ("FIN" \in rcv.rcvd => "SYN" \in rcv.rcvd)
        BY <3>1 DEF RcvType, Inv, RecvInv, Progress
      <3>4. tmr.timer => \/ snd.acked = {} /\ snd.sent = {"SYN"} /\ rcv.rcvd \subseteq {"SYN"}
                         \/ snd.acked = {"SYN"} /\ "SYN" \in rcv.rcvd
        <4>1. CASE Opening(snd)
          <5>1. "FIN" \notin rcv.rcvd /\ snd.acked = {} /\ snd.sent = {"SYN"}
            BY <3>1, <4>1 DEF Conn, Opening
          <5>2. rcv.rcvd \subseteq {"SYN"}
            BY <3>3, <5>1 DEF Flags
          <5>3. QED
            BY <5>1, <5>2
        <4>2. CASE ~Opening(snd)
          <5>1. tmr.timer => snd.acked = {"SYN"}
            BY <3>1, <4>2 DEF Conn, Sane, Flowing, Ending
          <5>2. QED
            BY <3>1, <4>2, <5>1 DEF Conn
        <4>3. QED
          BY <4>1, <4>2
      <3>5. tmr.wait => snd.acked = Flags /\ rcv.rcvd = Flags
        BY <3>1, <3>3 DEF Conn, Finished, Flags
      <3>6. QED
        BY <3>2, <3>4, <3>5 DEF Asserts
    <2>3. QED
      BY <2>1, <2>2
  <1>2. QED
    BY <1>1, InvAlways, PTL

\* pending_flags is exact (PendingExact): every pending_get of tcp_open,
\* tcp_close and tcp_rx_ack is matched by one pending_put.
THEOREM PendingAlwaysExact == Spec => []PendingExact
  <1>1. Inv => PendingExact
    <2> SUFFICES ASSUME Inv PROVE PendingExact
      OBVIOUS
    <2>0. Cardinality({}) = 0 /\ Cardinality({"SYN"}) = 1 /\ Cardinality({"FIN"}) = 1
      BY FS_EmptySet, FS_Singleton
    <2>1. CASE ~listed
      BY <2>0, <2>1, GoneType DEF Inv, SendInv, PendingExact
    <2>2. CASE listed
      <3>1. Sane(snd) /\ snd \in SndType
        BY <2>2 DEF Inv, SendInv, Conn, Sane
      <3>2. \/ Sending(snd) = {"SYN"} /\ snd.pending = 1
            \/ Sending(snd) = {} /\ snd.pending = 0
            \/ Sending(snd) = {"FIN"} /\ snd.pending = 1
        BY <3>1, Phases DEF Sane, Opening, Flowing, Ending, Finished
      <3>3. QED
        BY <2>0, <3>2 DEF PendingExact
    <2>3. QED
      BY <2>1, <2>2
  <1>2. QED
    BY <1>1, InvAlways, PTL

(***************************************************************************)
(* Between packets a reader without a wake-up has no window to send in;    *)
(* while tcp_rx runs, it has none or had none when tcp_rx began.           *)
(***************************************************************************)
Awake ==
    listed /\ ~closed =>
        \/ wake
        \/ tcp_xfer_window(snd) = 0
        \/ at.pc # "idle" /\ at.old = 0

LEMMA XmitRuns ==
    ASSUME NEW s, NEW r, NEW t, s \in SndType, t \in TmrType, tcp_xmit(s, r, t)
    PROVE  (SeqLen(snd') > 0 => tmr'.timer) /\ tcp_xfer_window(snd') = tcp_xfer_window(s)
  <1>1. snd' = XmitSnd(s, t) /\ tmr' = XmitTmr(s, t)
    BY DEF tcp_xmit
  <1>2. /\ snd'.sent = s.sent /\ snd'.acked = s.acked /\ snd'.tx = s.tx /\ snd'.win = s.win
    BY <1>1 DEF XmitSnd, SndType
  <1>3. SeqLen(snd') = SeqLen(s) /\ tcp_xfer_window(snd') = tcp_xfer_window(s)
    BY <1>2 DEF SeqLen, tcp_xfer_window, tcp_xmit_win, CanSendData, Sending
  <1>4. SeqLen(s) > 0 => tmr'.timer
    BY <1>1 DEF XmitTmr, TmrType
  <1>5. QED
    BY <1>3, <1>4

LEMMA RunsStep ==
    ASSUME Inv, NeverStalls, Awake, [Next]_vars
    PROVE  NeverStalls' /\ Awake'
  <1>1. tmr \in TmrType /\ snd \in SndType /\ AtShape /\ listed \in BOOLEAN
    BY SndTyped DEF Inv, RecvInv, RecvType
  <1>2. ASSUME UNCHANGED <<listed, closed, snd, tmr, at, wake, down>>
        PROVE  NeverStalls' /\ Awake'
    BY <1>2 DEF NeverStalls, Awake
  <1>3. ASSUME listed' = FALSE \/ (down' = TRUE /\ closed' = TRUE)
        PROVE  NeverStalls' /\ Awake'
    BY <1>3 DEF NeverStalls, Awake
  <1>4. ASSUME NEW t \in TmrType, NEW r, tcp_xmit(snd, r, t), UNCHANGED <<listed, closed, at, wake>>
        PROVE  NeverStalls' /\ Awake'
    BY <1>1, <1>4, XmitRuns DEF NeverStalls, Awake
  <1>5. ASSUME NEW r, NEW seq, NEW fin, tcp_rx_fin(r, seq, fin), at'.pc # "idle", at'.old = at.old,
               at.pc # "idle", UNCHANGED wake
        PROVE  NeverStalls' /\ Awake'
    <2>1. closed' = TRUE \/ UNCHANGED <<listed, closed, snd>>
      BY <1>5 DEF tcp_rx_fin, tcp_close, Delete
    <2>2. QED
      BY <1>5, <2>1 DEF NeverStalls, Awake
  <1>6. CASE UNCHANGED vars
    BY <1>2, <1>6 DEF vars
  <1>7. CASE ProcessStep
    <2>1. [tmr EXCEPT !.process = FALSE] \in TmrType
      BY <1>1 DEF TmrType
    <2>2. QED
      BY <1>4, <1>7, <2>1 DEF ProcessStep, env
  <1>8. CASE TimerExpired
    <2>1. [tmr EXCEPT !.timer = FALSE] \in TmrType
      BY <1>1 DEF TmrType
    <2>2. QED
      BY <1>4, <1>8, <2>1 DEF TimerExpired, env
  <1>9. CASE KeepaliveExpired
    BY <1>1, <1>4, <1>9 DEF KeepaliveExpired, env
  <1>10. CASE TimerOver \/ WaitExpired \/ ShutdownForce
    BY <1>3, <1>10 DEF TimerOver, WaitExpired, ShutdownForce, Abort, Delete
  <1>11. CASE Arrives
    <2>1. PICK g \in Segments : Rx(g)
      BY <1>11 DEF Arrives, Segments
    <2>2. at.pc = "idle" /\ UNCHANGED <<wake, down>>
      BY <2>1 DEF Rx
    <2>3. \/ UNCHANGED <<listed, closed, snd, tmr, at>>
          \/ listed' = FALSE
          \/ at' = [Idle EXCEPT !.pc = "loop", !.old = tcp_xfer_window(snd)] /\ UNCHANGED <<listed, closed>>
      BY <2>1 DEF Rx, Abort, Delete
    <2>4. CASE at' = [Idle EXCEPT !.pc = "loop", !.old = tcp_xfer_window(snd)] /\ UNCHANGED <<listed, closed>>
      <3>1. at'.pc = "loop" /\ at'.old = tcp_xfer_window(snd)
        BY <2>4 DEF Idle
      <3>2. QED
        BY <2>2, <2>4, <3>1 DEF NeverStalls, Awake
    <2>5. QED
      BY <1>2, <1>3, <2>2, <2>3, <2>4
  <1>12. CASE Deliver
    <2>1. UNCHANGED wake /\ at.pc = "loop"
      BY <1>12 DEF Deliver
    <2>2. \/ UNCHANGED at /\ \E r, seq, fin : tcp_rx_fin(r, seq, fin)
          \/ /\ \E n, f : at' = [pc |-> "call", nxt |-> n, fin |-> f, old |-> at.old]
             /\ UNCHANGED <<listed, closed, snd>>
      BY <1>12, Zenon DEF Deliver
    <2>3. CASE UNCHANGED at /\ \E r, seq, fin : tcp_rx_fin(r, seq, fin)
      <3>1. at'.pc # "idle" /\ at'.old = at.old /\ at.pc # "idle"
        BY <2>1, <2>3
      <3>2. QED
        BY <1>5, <2>1, <2>3, <3>1
    <2>4. CASE /\ \E n, f : at' = [pc |-> "call", nxt |-> n, fin |-> f, old |-> at.old]
               /\ UNCHANGED <<listed, closed, snd>>
      <3>1. at'.pc = "call" /\ at'.old = at.old
        BY <2>4
      <3>2. QED
        BY <2>1, <2>4, <3>1 DEF NeverStalls, Awake
    <2>5. QED
      BY <2>2, <2>3, <2>4
  <1>13. CASE Return
    <2>1. at'.pc = "loop" /\ at'.old = at.old
      BY <1>1, <1>13 DEF Return, AtShape
    <2>2. QED
      BY <1>5, <1>13, <2>1 DEF Return
  <1>14. CASE RxDone
    <2> DEFINE t1 == [tmr EXCEPT !.wait = @ \/ ClosedGracefully(snd, rcv)]
    <2>1. /\ at' = Idle /\ wake' = (wake \/ (~closed /\ tcp_xfer_window(snd) # at.old))
          /\ UNCHANGED <<listed, closed>> /\ at.pc = "loop"
      BY <1>14 DEF RxDone, WindowChanged
    <2>2. t1 \in TmrType
      BY <1>1 DEF TmrType, ClosedGracefully
    <2>3. IF rcv.queue = << >> THEN tmr' = [t1 EXCEPT !.process = TRUE] /\ snd' = snd ELSE tcp_xmit(snd, rcv, t1)
      BY <1>14 DEF RxDone
    <2> HIDE DEF t1
    <2>4. (SeqLen(snd') > 0 => tmr'.process \/ tmr'.timer) /\ tcp_xfer_window(snd') = tcp_xfer_window(snd)
      <3>1. CASE rcv.queue = << >>
        BY <2>2, <2>3, <3>1 DEF TmrType
      <3>2. CASE rcv.queue # << >>
        BY <1>1, <2>2, <2>3, <3>2, XmitRuns
      <3>3. QED
        BY <3>1, <3>2
    <2>5. NeverStalls'
      BY <2>4 DEF NeverStalls
    <2>6. Awake'
      BY <2>1, <2>4 DEF Awake
    <2>7. QED
      BY <2>5, <2>6
  <1>15. CASE Discard
    BY <1>2, <1>15 DEF Discard
  <1>16. CASE AppSend
    <2>1. PICK n \in 1 .. (Request - asked) : tcp_xmit([snd EXCEPT !.tx = @ + n], rcv, tmr)
      BY <1>16 DEF AppSend
    <2>2. [snd EXCEPT !.tx = @ + n] \in SndType
      <3>1. n \in Nat
        BY <2>1, SpaceAssumption DEF Inv, SendInv
      <3>2. QED
        BY <1>1, <3>1 DEF SndType
    <2>3. wake /\ UNCHANGED <<listed, closed, at, wake>>
      BY <1>16 DEF AppSend
    <2>4. SeqLen(snd') > 0 => tmr'.timer
      BY <1>1, <2>1, <2>2, XmitRuns
    <2>5. QED
      BY <2>3, <2>4 DEF NeverStalls, Awake
  <1>17. CASE AppWait
    <2>1. tcp_xfer_window(snd) = 0 /\ UNCHANGED <<listed, closed, snd, tmr, at, down>>
      BY <1>17 DEF AppWait
    <2>2. QED
      BY <2>1 DEF NeverStalls, Awake
  <1>18. CASE AppClose
    <2>1. CASE "SYN" \notin rcv.rcvd
      BY <1>3, <1>18, <2>1 DEF AppClose, Delete
    <2>2. CASE "SYN" \in rcv.rcvd
      <3>1. closed' = TRUE /\ tcp_xmit(CloseSnd(snd), rcv, CloseTmr(snd, tmr)) /\ listed
        BY <1>18, <2>2 DEF AppClose
      <3>2. Conn(CloseSnd(snd), rcv, CloseTmr(snd, tmr), sent_max, at.pc)
        BY <1>1, <2>2, <3>1, CloseConn DEF Inv, SendInv
      <3>3. CloseSnd(snd) \in SndType
        BY <3>2 DEF Conn, Sane
      <3>4. SeqLen(snd') > 0 => tmr'.timer
        BY <1>1, <3>1, <3>3, CloseTmrType, XmitRuns
      <3>5. QED
        BY <3>1, <3>4 DEF NeverStalls, Awake
    <2>3. QED
      BY <2>1, <2>2
  <1>19. CASE Shutdown
    BY <1>3, <1>19 DEF Shutdown, tcp_close, Delete
  <1>20. CASE Over
    BY <1>2, <1>20 DEF Over, vars
  <1>21. QED
    BY <1>6, <1>7, <1>8, <1>9, <1>10, <1>11, <1>12, <1>13, <1>14, <1>15, <1>16, <1>17, <1>18, <1>19, <1>20 DEF Next

LEMMA RunsAlways == Spec => [](Inv /\ NeverStalls /\ Awake)
  <1>1. Init => NeverStalls /\ Awake
    BY DEF Init, NeverStalls, Awake, NewTmr
  <1>2. QED
    BY <1>1, RunsStep, InvAlways, PTL DEF Spec

\* Nothing that can be sent is left without a process or a timer to send it
\* (NeverStalls): tcp_xmit_sack starts the timer before anything in it can fail.
THEOREM SenderNeverStalls == Spec => []NeverStalls
  BY RunsAlways, PTL

\* A reader with a window knows of it (NoLostWakeup): comparing the window at
\* the two ends of tcp_rx is enough, although the reader may send and may give
\* up waiting in the calls between.
THEOREM WakeupNeverLost == Spec => []NoLostWakeup
  <1>1. Inv /\ Awake => NoLostWakeup
    BY SndTyped, WindowNat DEF Awake, NoLostWakeup
  <1>2. QED
    BY <1>1, RunsAlways, PTL
=============================================================================
