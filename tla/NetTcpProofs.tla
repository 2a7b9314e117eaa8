---------------------------- MODULE NetTcpProofs ----------------------------
(***************************************************************************)
(* What NetTcp promises, for every size of the buffers, of the ring and of  *)
(* the segments, every number of retransmissions and every set of segments  *)
(* the guest may send.                                                      *)
(*                                                                         *)
(* The invariant IInv adds three facts to the ones the theorems state:      *)
(* which states go with a sent FIN (Pointers), that Kept and Flushed hold   *)
(* except in the CLOSED state a final ACK leaves for the tick behind it,    *)
(* and that no entry point returns in that state (Alive).  It is proved     *)
(* along the code: one lemma per function of tcp.c, each about the context  *)
(* the function returns, and one step per entry point in NextStepped.       *)
(*                                                                         *)
(* The second half is about NetTcpLink, where the segments are those of a   *)
(* guest: LInv adds to IInv what the slot, the ring and the line owe to the *)
(* guest's state, and is proved along the same functions.                   *)
(***************************************************************************)
EXTENDS NetTcpLink, SequenceTheorems, TLAPS

(* The send pointers and the states of a sent FIN.                          *)
Pointers(f) ==
  /\ f.snd_una <= f.snd_nxt
  /\ f.state = "SYN_RCVD" => f.snd_nxt <= f.snd_una + 1
  /\ f.state # "SYN_RCVD" =>
       f.snd_nxt <= f.snd_una + Len(f.txbuf)
                    + (IF f.state \in FinOutstanding THEN 1 ELSE 0)
  /\ f.state \in FinOutstanding => f.fin_sent
  /\ f.fin_sent => f.state \notin {"SYN_RCVD", "ESTABLISHED", "CLOSE_WAIT"}

(* The counted buffers.                                                     *)
Bounded(f) ==
  /\ Len(f.txbuf) <= NET_TCP_TXBUF
  /\ Len(f.rxbuf) <= NET_TCP_RXBUF
  /\ f.rtx <= NET_TCP_RTX_MAX

(* Octets acknowledged are at the host or in rxbuf.                         *)
Kept(f, h) ==
  (f.used /\ f.state # "CLOSED") =>
    f.rcv_nxt = f.irs + 1 + Len(h.got) + Len(f.rxbuf)
                  + (IF tcp_guest_finished(f.state) THEN 1 ELSE 0)

(* The host socket is half-closed only once all is across.                  *)
Flushed(f, h) ==
  (f.used /\ f.state # "CLOSED" /\ h.shut) =>
    f.tx_shutdown /\ f.rxbuf = << >> /\ tcp_guest_finished(f.state)

FlowOK(f) == f \in Flow /\ Pointers(f) /\ Bounded(f)
HostOK(f, h) == h \in HostSocket /\ Kept(f, h) /\ Flushed(f, h)
RingOK(q) == q \in Seq(Segment) /\ Len(q) <= NET_OUT_SLOTS

Good(c) == FlowOK(c.f) /\ HostOK(c.f, c.h) /\ RingOK(c.out)

(* d is c after some datagrams were queued.                                *)
Queued(c, d) ==
  /\ d.h = c.h
  /\ RingOK(d.out)
  /\ \E b \in BOOLEAN : d.f = [c.f EXCEPT !.need_ack = b]

(* A buffer that is not empty holds an octet. *)
LEMMA NonEmpty ==
  ASSUME NEW s \in Seq(Nat), s # << >>
  PROVE  Len(s) > 0
  BY EmptySeq

(* net_emit takes what fits, so the ring keeps to its slots. *)
LEMMA RingTakes ==
  ASSUME NEW q, RingOK(q), NEW segs \in Seq(Segment)
  PROVE  RingOK(q \o SubSeq(segs, 1, Least(NET_OUT_SLOTS - Len(q), Len(segs))))
<1> DEFINE room == NET_OUT_SLOTS - Len(q)
           n    == Least(room, Len(segs))
<1>1. room \in Nat /\ Len(segs) \in Nat /\ NET_OUT_SLOTS = Len(q) + room
  BY SizesAssumption DEF RingOK
<1> HIDE DEF room
<1>2. n \in Nat /\ n <= Len(segs) /\ n <= room
  BY <1>1 DEF Least
<1> HIDE DEF n
<1>3. \A i \in 1 .. n : segs[i] \in Segment
  BY <1>1, <1>2, ElementOfSeq
<1>4. SubSeq(segs, 1, n) \in Seq(Segment) /\ Len(SubSeq(segs, 1, n)) = n
  BY <1>2, <1>3, SubSeqProperties
<1>5. /\ q \o SubSeq(segs, 1, n) \in Seq(Segment)
      /\ Len(q \o SubSeq(segs, 1, n)) = Len(q) + n
  BY <1>4, ConcatProperties DEF RingOK
<1>6. Len(q \o SubSeq(segs, 1, n)) <= NET_OUT_SLOTS
  BY <1>1, <1>2, <1>5
<1> QED BY <1>5, <1>6 DEF RingOK, n, room

(* net_emit changes the ring and need_ack, nothing else. *)
LEMMA EmitQueues ==
  ASSUME NEW c, c.f \in Flow, RingOK(c.out), NEW segs \in Seq(Segment)
  PROVE  Queued(c, net_emit(c, segs))
<1> DEFINE n == Least(NET_OUT_SLOTS - Len(c.out), Len(segs))
<1>1. RingOK(c.out \o SubSeq(segs, 1, n))
  BY RingTakes
<1>2. (c.f.need_ack /\ n = 0) \in BOOLEAN
  BY DEF Flow
<1> QED BY <1>1, <1>2 DEF net_emit, Queued

(* Queueing a datagram cannot break the invariant. *)
LEMMA QueuedGood ==
  ASSUME NEW c, NEW d, Good(c), Queued(c, d)
  PROVE  Good(d)
<1>1. PICK b \in BOOLEAN : d.f = [c.f EXCEPT !.need_ack = b]
  BY DEF Queued
<1>2. d.f \in Flow
  BY <1>1 DEF Good, FlowOK, Flow
<1> QED BY <1>1, <1>2 DEF Good, FlowOK, Flow, Queued, HostOK, Pointers, Bounded, Kept, Flushed

(* tcp_out builds a well-formed header: the window it offers is never
   negative. *)
LEMMA SegmentTyped ==
  ASSUME NEW f \in Flow, Len(f.rxbuf) <= NET_TCP_RXBUF, NEW flags \in SUBSET Flags,
         NEW seq \in Nat, NEW data \in Seq(Nat)
  PROVE  SegmentOut(f, flags, seq, data) \in Segment
<1>1. f.rcv_nxt \in Nat /\ f.rxbuf \in Seq(Nat)
  BY DEF Flow
<1>2. NET_TCP_RXBUF - Len(f.rxbuf) \in Nat
  BY <1>1, SizesAssumption
<1> QED BY <1>1, <1>2 DEF SegmentOut, Segment

(* tcp_out of one segment queues at most that segment. *)
LEMMA OutQueues ==
  ASSUME NEW c, c.f \in Flow, Len(c.f.rxbuf) <= NET_TCP_RXBUF, RingOK(c.out),
         NEW flags \in SUBSET Flags, NEW seq \in Nat, NEW data \in Seq(Nat)
  PROVE  Queued(c, tcp_out(c, flags, seq, data))
<1> DEFINE s == SegmentOut(c.f, flags, seq, data)
<1>1. s \in Segment
  BY SegmentTyped
<1> HIDE DEF s
<1>2. <<s>> \in Seq(Segment)
  BY <1>1
<1>3. Queued(c, net_emit(c, <<s>>))
  BY <1>2, EmitQueues
<1> QED BY <1>3 DEF tcp_out, s

(* net_flow_free leaves a clean slot. *)
LEMMA FreeGood ==
  ASSUME NEW c, c.h \in HostSocket, RingOK(c.out), NEW fate \in Fates
  PROVE  Good(net_flow_free(c, fate)) /\ ~net_flow_free(c, fate).f.used
<1>1. << >> \in Seq(Nat) /\ Len(<< >>) = 0
  OBVIOUS
<1>2. NoFlow \in Flow
  BY <1>1 DEF NoFlow, Flow, States
<1>3. FlowOK(NoFlow)
  BY <1>1, <1>2, SizesAssumption
     DEF FlowOK, NoFlow, Pointers, Bounded, FinOutstanding
<1>4. [c.h EXCEPT !.fate = fate] \in HostSocket
  BY DEF HostSocket
<1> QED BY <1>3, <1>4
        DEF Good, net_flow_free, HostOK, Kept, Flushed, NoFlow

(* tcp_abort: one RST, then a clean slot. *)
LEMMA AbortGood ==
  ASSUME NEW c, c.f \in Flow, Len(c.f.rxbuf) <= NET_TCP_RXBUF, RingOK(c.out),
         c.h \in HostSocket
  PROVE  Good(tcp_abort(c)) /\ ~tcp_abort(c).f.used
<1> DEFINE d == tcp_out(c, {"RST", "ACK"}, c.f.snd_nxt, << >>)
<1>1. c.f.snd_nxt \in Nat /\ << >> \in Seq(Nat) /\ {"RST", "ACK"} \in SUBSET Flags
  BY DEF Flow, Flags
<1>2. Queued(c, d)
  BY <1>1, OutQueues
<1> HIDE DEF d
<1>3. d.h \in HostSocket /\ RingOK(d.out)
  BY <1>2 DEF Queued
<1> QED BY <1>3, FreeGood DEF tcp_abort, d, Fates

---------------------------------------------------------------------------
(* tcp_pump.                                                                *)

(* The states in which tcp_pump does anything.                              *)
Pumps(state) == state \notin {"SYN_RCVD", "TIME_WAIT", "CLOSED"}

(* How far each of the two closes has come: FinAcked, the guest has
   acknowledged our FIN; Told, it has sent its own.                         *)
FinAcked(state) == state \in {"FIN_WAIT_2", "TIME_WAIT", "CLOSED"}
Told(state) == tcp_guest_finished(state) \/ state = "CLOSED"

(* What transmission never touches.                                        *)
Carried(c, d) ==
  /\ d.h = c.h
  /\ d.f.used = c.f.used /\ d.f.rcv_nxt = c.f.rcv_nxt
  /\ d.f.rxbuf = c.f.rxbuf /\ d.f.txbuf = c.f.txbuf
  /\ d.f.snd_una = c.f.snd_una /\ d.f.snd_wnd = c.f.snd_wnd
  /\ d.f.host_eof = c.f.host_eof
  /\ d.f.fin_sent => c.f.fin_sent \/ c.f.host_eof
  /\ d.f.state = "SYN_RCVD" <=> c.f.state = "SYN_RCVD"
  /\ FinAcked(d.f.state) <=> FinAcked(c.f.state)
  /\ Told(d.f.state) <=> Told(c.f.state)

(* tcp_inflight counts octets of txbuf, and unless it counts all of them
   snd_nxt is exactly that far past snd_una. *)
LEMMA InflightBounds ==
  ASSUME NEW f, FlowOK(f), f.state # "SYN_RCVD"
  PROVE  /\ tcp_inflight(f) \in Nat /\ tcp_inflight(f) <= Len(f.txbuf)
         /\ f.snd_una + tcp_inflight(f) <= f.snd_nxt
         /\ tcp_inflight(f) < Len(f.txbuf) => f.snd_nxt = f.snd_una + tcp_inflight(f)
<1>1. /\ f.snd_nxt \in Nat /\ f.snd_una \in Nat /\ Len(f.txbuf) \in Nat
      /\ f.fin_sent \in BOOLEAN
  BY DEF FlowOK, Flow
<1>2. /\ f.snd_una <= f.snd_nxt
      /\ f.snd_nxt <= f.snd_una + Len(f.txbuf) + 1
      /\ ~f.fin_sent => f.snd_nxt <= f.snd_una + Len(f.txbuf)
  BY <1>1 DEF FlowOK, Pointers
<1> QED BY <1>1, <1>2 DEF tcp_inflight, Least

(* Natural numbers are closed under product (for the segment offsets). *)
LEMMA ProductNat ==
  ASSUME NEW a \in Nat, NEW b \in Nat
  PROVE  a * b \in Nat
  OBVIOUS

(* ... and under quotient (for the number of segments). *)
LEMMA QuotientNat ==
  ASSUME NEW a \in Nat, NEW b \in Nat \ {0}
  PROVE  a \div b \in Nat
  OBVIOUS

(* Every segment of one pass of tcp_pump is cut from inside txbuf. *)
LEMMA SegmentsTyped ==
  ASSUME NEW f \in Flow, Len(f.rxbuf) <= NET_TCP_RXBUF, NEW sent \in Nat, NEW n \in Nat,
         n > 0 => sent + n <= Len(f.txbuf)
  PROVE  [i \in 1 .. (n + MSS - 1) \div MSS |->
            SegmentOut(f, {"ACK"}, f.snd_nxt + (i - 1) * MSS,
                       SubSeq(f.txbuf, sent + (i - 1) * MSS + 1,
                              sent + Least(i * MSS, n)))] \in Seq(Segment)
<1> DEFINE k == (n + MSS - 1) \div MSS
           from(i) == sent + (i - 1) * MSS + 1
           to(i)   == sent + Least(i * MSS, n)
           e(i)    == SegmentOut(f, {"ACK"}, f.snd_nxt + (i - 1) * MSS,
                                 SubSeq(f.txbuf, from(i), to(i)))
<1>1. k \in Nat
  BY SizesAssumption, QuotientNat
<1>2. ASSUME NEW i \in 1 .. k
      PROVE  e(i) \in Segment
  <2>1. MSS \in Nat /\ i \in Nat /\ i - 1 \in Nat
    BY <1>1, SizesAssumption
  <2>2. (i - 1) * MSS \in Nat /\ i * MSS \in Nat
    BY <2>1, ProductNat
  <2>3. f.txbuf \in Seq(Nat) /\ f.snd_nxt \in Nat
    BY DEF Flow
  <2> DEFINE a == (i - 1) * MSS
             b == i * MSS
  <2> HIDE DEF a, b
  <2>4. a \in Nat /\ b \in Nat
    BY <2>2 DEF a, b
  <2>5. sent + a + 1 \in Int /\ sent + Least(b, n) \in Int
    BY <2>4 DEF Least
  <2>6. ASSUME NEW j \in (sent + a + 1) .. (sent + Least(b, n))
        PROVE  f.txbuf[j] \in Nat
    <3>1. j \in Int /\ 1 <= j /\ j <= sent + n /\ n > 0
      BY <2>4 DEF Least
    <3>2. j \in 1 .. Len(f.txbuf)
      BY <3>1, <2>3
    <3> QED BY <3>2, <2>3, ElementOfSeq
  <2>7. SubSeq(f.txbuf, sent + a + 1, sent + Least(b, n)) \in Seq(Nat)
    BY <2>5, <2>6, SubSeqProperties
  <2>8. f.snd_nxt + a \in Nat /\ {"ACK"} \in SUBSET Flags
    BY <2>3, <2>4 DEF Flags
  <2>9. SegmentOut(f, {"ACK"}, f.snd_nxt + a,
                   SubSeq(f.txbuf, sent + a + 1, sent + Least(b, n))) \in Segment
    BY <2>7, <2>8, SegmentTyped
  <2> QED BY <2>9 DEF a, b
<1> HIDE DEF k, e
<1>3. [i \in 1 .. k |-> e(i)] \in Seq(Segment)
  BY <1>1, <1>2, IsASeq
<1> QED BY <1>3 DEF k, e

(* Nothing in flight and octets in hand only behind a closed window.       *)
Sated(f) == (f.snd_nxt = f.snd_una /\ f.txbuf # << >>) => f.snd_wnd = 0

(* An outstanding FIN with no data before it is in flight.                 *)
FinSent(f) ==
  (f.state \in FinOutstanding /\ f.txbuf = << >>) => f.snd_nxt # f.snd_una

(* The segment loop leaves nothing that the guest's window would admit.    *)
LEMMA PumpDataGood ==
  ASSUME NEW c, Good(c), Pumps(c.f.state)
  PROVE  LET d == PumpData(c)
         IN /\ Good(d) /\ Carried(c, d) /\ d.f.state = c.f.state
            /\ Sated(d.f)
<1> DEFINE f    == c.f
           sent == tcp_inflight(f)
           n    == IF Len(f.txbuf) > sent THEN Least(Len(f.txbuf) - sent,
                                                     SendWindow(f, sent))
                                          ELSE 0
           segs == [i \in 1 .. (n + MSS - 1) \div MSS |->
                      SegmentOut(f, {"ACK"}, f.snd_nxt + (i - 1) * MSS,
                                 SubSeq(f.txbuf, sent + (i - 1) * MSS + 1,
                                        sent + Least(i * MSS, n)))]
           e    == net_emit(c, segs)
           d    == With(e, [e.f EXCEPT !.snd_nxt = @ + n])
<1>1. /\ f \in Flow /\ f.txbuf \in Seq(Nat) /\ f.snd_wnd \in Nat /\ f.snd_nxt \in Nat
      /\ f.snd_una \in Nat /\ Len(f.txbuf) \in Nat
      /\ Len(f.rxbuf) <= NET_TCP_RXBUF /\ RingOK(c.out)
  BY DEF Good, FlowOK, Flow, Bounded
<1>2. /\ sent \in Nat /\ sent <= Len(f.txbuf) /\ f.snd_una + sent <= f.snd_nxt
      /\ sent < Len(f.txbuf) => f.snd_nxt = f.snd_una + sent
  <2>1. FlowOK(f) /\ f.state # "SYN_RCVD"
    BY DEF Good, Pumps
  <2> HIDE DEF f
  <2> QED BY <2>1, InflightBounds
<1>3. SendWindow(f, sent) \in Nat /\ (SendWindow(f, sent) = 0 => f.snd_wnd <= sent)
  <2> DEFINE wnd == f.snd_wnd
  <2>1. wnd \in Nat /\ sent \in Nat
    BY <1>1, <1>2
  <2> HIDE DEF wnd, sent
  <2>2. /\ (IF wnd > sent THEN wnd - sent ELSE 0) \in Nat
        /\ (IF wnd > sent THEN wnd - sent ELSE 0) = 0 => wnd <= sent
    BY <2>1
  <2> QED BY <2>2 DEF SendWindow, wnd
<1>4. /\ n \in Nat /\ (n > 0 => sent + n <= Len(f.txbuf))
      /\ n = 0 => sent = Len(f.txbuf) \/ f.snd_wnd <= sent
  <2> DEFINE len == Len(f.txbuf)
             win == SendWindow(f, sent)
             wnd == f.snd_wnd
  <2>1. len \in Nat /\ sent \in Nat /\ win \in Nat /\ sent <= len
        /\ wnd \in Nat /\ (win = 0 => wnd <= sent)
    BY <1>1, <1>2, <1>3
  <2> HIDE DEF len, sent, win, wnd
  <2> DEFINE m == IF len > sent THEN Least(len - sent, win) ELSE 0
  <2>2. m \in Nat /\ (m > 0 => sent + m <= len) /\ (m = 0 => sent = len \/ wnd <= sent)
    BY <2>1 DEF Least
  <2> QED BY <2>2 DEF len, win, wnd
<1>5. segs \in Seq(Segment)
  <2> HIDE DEF f, sent, n
  <2> QED BY <1>1, <1>2, <1>4, SegmentsTyped
<1>6. Queued(c, e)
  <2> HIDE DEF segs
  <2> QED BY <1>1, <1>5, EmitQueues
<1> HIDE DEF e, n, sent
<1>7. PICK b \in BOOLEAN : e.f = [c.f EXCEPT !.need_ack = b]
  BY <1>6 DEF Queued
<1>8. d.f = [c.f EXCEPT !.need_ack = b, !.snd_nxt = c.f.snd_nxt + n]
  BY <1>1, <1>7 DEF With, Flow
<1>9. d.h = c.h /\ RingOK(d.out)
  BY <1>6 DEF With, Queued
<1> HIDE DEF d
<1> DEFINE nxt == c.f.snd_nxt
           una == c.f.snd_una
           len == Len(c.f.txbuf)
           win == c.f.snd_wnd
<1>a. /\ nxt \in Nat /\ una \in Nat /\ len \in Nat /\ win \in Nat
      /\ una <= nxt
      /\ nxt <= una + len + (IF c.f.state \in FinOutstanding THEN 1 ELSE 0)
      /\ n \in Nat /\ sent \in Nat /\ sent <= len /\ una + sent <= nxt
      /\ sent < len => nxt = una + sent
      /\ n > 0 => sent + n <= len
      /\ n = 0 => sent = len \/ win <= sent
  BY <1>1, <1>2, <1>4 DEF Good, FlowOK, Pointers, Pumps
<1>b. /\ d.f.snd_una = una /\ d.f.txbuf = c.f.txbuf /\ d.f.snd_nxt = nxt + n
      /\ d.f.state = c.f.state /\ d.f.fin_sent = c.f.fin_sent /\ d.f.snd_wnd = win
  BY <1>1, <1>8 DEF Flow
<1> HIDE DEF nxt, una, len, win
<1>c. nxt + n \in Nat /\ una <= nxt + n
      /\ nxt + n <= una + len + (IF c.f.state \in FinOutstanding THEN 1 ELSE 0)
  BY <1>a
<1>10. d.f \in Flow
  BY <1>1, <1>8, <1>c DEF Flow, nxt
<1>11. Pointers(d.f)
  <2>1. Pointers(c.f) /\ c.f.state # "SYN_RCVD"
    BY DEF Good, FlowOK, Pumps
  <2> QED BY <1>b, <1>c, <2>1 DEF Pointers, len
<1>12. Bounded(d.f) /\ HostOK(d.f, d.h) /\ Carried(c, d) /\ d.f.state = c.f.state
  BY <1>1, <1>8, <1>9
     DEF Good, FlowOK, Flow, Bounded, HostOK, Kept, Flushed, Carried
<1>13. (d.f.snd_nxt = d.f.snd_una /\ d.f.txbuf # << >>) => d.f.snd_wnd = 0
  <2> SUFFICES ASSUME d.f.snd_nxt = d.f.snd_una, d.f.txbuf # << >>
               PROVE  d.f.snd_wnd = 0
    OBVIOUS
  <2>1. nxt + n = una
    BY <1>b
  <2>2. len > 0
    <3>1. c.f.txbuf \in Seq(Nat) /\ c.f.txbuf # << >>
      BY <1>1, <1>b
    <3> QED BY <3>1, NonEmpty, Zenon DEF len
  <2>3. win = 0
    BY <1>a, <2>1, <2>2
  <2> QED BY <1>b, <2>3
<1>14. PumpData(c) = d
  BY DEF PumpData, d, e, n, sent
<1> QED BY <1>9, <1>10, <1>11, <1>12, <1>13, <1>14 DEF Good, FlowOK, Sated

(* Committing to a FIN moves between states that agree on the invariant. *)
LEMMA CommitFinGood ==
  ASSUME NEW c, Good(c), Pumps(c.f.state), Sated(c.f)
  PROVE  LET d == With(c, CommitFin(c.f))
         IN Good(d) /\ Carried(c, d) /\ Pumps(d.f.state) /\ Sated(d.f)
<1> DEFINE f == c.f
           g == CommitFin(f)
           d == With(c, g)
<1>1. CASE f.host_eof /\ ~f.fin_sent /\ f.state \in {"ESTABLISHED", "CLOSE_WAIT"}
  <2> DEFINE st == IF f.state = "CLOSE_WAIT" THEN "LAST_ACK" ELSE "FIN_WAIT_1"
  <2>1. g = [f EXCEPT !.fin_sent = TRUE, !.state = st]
    BY <1>1 DEF CommitFin, Good, FlowOK, Flow
  <2>2. /\ st \in FinOutstanding
        /\ tcp_guest_finished(st) <=> tcp_guest_finished(f.state)
    BY <1>1 DEF FinOutstanding, tcp_guest_finished
  <2> HIDE DEF st, g
  <2>3. g \in Flow
    BY <2>1, <2>2 DEF Good, FlowOK, Flow, States, FinOutstanding
  <2>4. /\ g.snd_una = f.snd_una /\ g.snd_nxt = f.snd_nxt /\ g.txbuf = f.txbuf
        /\ g.snd_wnd = f.snd_wnd /\ g.fin_sent = TRUE /\ g.state = st
        /\ g.rxbuf = f.rxbuf /\ g.rtx = f.rtx /\ g.used = f.used
        /\ g.rcv_nxt = f.rcv_nxt /\ g.irs = f.irs /\ g.tx_shutdown = f.tx_shutdown
    BY <2>1 DEF Good, FlowOK, Flow
  <2>5. Pointers(g)
    <3>1. /\ f.snd_una <= f.snd_nxt /\ f.snd_nxt <= f.snd_una + Len(f.txbuf)
          /\ f.snd_una \in Nat /\ f.snd_nxt \in Nat /\ Len(f.txbuf) \in Nat
      BY <1>1 DEF Good, FlowOK, Flow, Pointers, FinOutstanding
    <3>2. f.snd_nxt <= f.snd_una + Len(f.txbuf) + 1
      BY <3>1
    <3> QED BY <2>2, <2>4, <3>1, <3>2 DEF Pointers, FinOutstanding
  <2>6. Bounded(g) /\ Sated(g) /\ Pumps(g.state)
    BY <2>2, <2>4 DEF Good, FlowOK, Bounded, Sated, Pumps, FinOutstanding
  <2>7. HostOK(g, c.h)
    <3>1. /\ f.state # "CLOSED" /\ g.state # "CLOSED"
      BY <1>1, <2>2, <2>4 DEF FinOutstanding
    <3>2. HostOK(f, c.h)
      BY DEF Good
    <3>3. Kept(g, c.h)
      BY <2>2, <2>4, <3>1, <3>2 DEF HostOK, Kept, tcp_guest_finished
    <3>4. Flushed(g, c.h)
      BY <2>2, <2>4, <3>1, <3>2 DEF HostOK, Flushed, tcp_guest_finished
    <3> QED BY <3>2, <3>3, <3>4 DEF HostOK
  <2>8. /\ g.host_eof = f.host_eof /\ f.host_eof
        /\ f.state # "SYN_RCVD" /\ g.state # "SYN_RCVD"
        /\ FinAcked(g.state) <=> FinAcked(f.state)
        /\ Told(g.state) <=> Told(f.state)
    BY <1>1, <2>1, <2>2, <2>4
       DEF Good, FlowOK, Flow, FinOutstanding, FinAcked, Told
  <2>9. d.f = g /\ d.h = c.h /\ d.out = c.out
    BY DEF With
  <2>10. Carried(c, d)
    BY <2>4, <2>8, <2>9 DEF Carried
  <2>11. Good(d) /\ Pumps(d.f.state) /\ Sated(d.f)
    BY <2>3, <2>5, <2>6, <2>7, <2>9 DEF Good, FlowOK
  <2> QED BY <2>10, <2>11 DEF g
<1>2. CASE ~(f.host_eof /\ ~f.fin_sent /\ f.state \in {"ESTABLISHED", "CLOSE_WAIT"})
  <2>1. g = f
    BY <1>2 DEF CommitFin
  <2> QED BY <2>1 DEF Good, HostOK, With, Carried
<1> QED BY <1>1, <1>2

(* The FIN takes one sequence number past the last octet, once. *)
LEMMA PumpFinGood ==
  ASSUME NEW c, Good(c), Pumps(c.f.state), Sated(c.f)
  PROVE  LET d == PumpFin(c)
         IN /\ Good(d) /\ Carried(c, d) /\ Pumps(d.f.state)
            /\ Sated(d.f) /\ FinSent(d.f)
<1> DEFINE f == c.f
           e == tcp_out(c, {"ACK", "FIN"}, f.snd_nxt, << >>)
           d == With(e, [e.f EXCEPT !.snd_nxt = @ + 1])
           nxt == f.snd_nxt
           una == f.snd_una
           len == Len(f.txbuf)
<1>1. /\ nxt \in Nat /\ una \in Nat /\ len \in Nat /\ una <= nxt
      /\ f.txbuf \in Seq(Nat)
  BY DEF Good, FlowOK, Flow, Pointers
<1>2. CASE /\ f.fin_sent /\ f.snd_nxt = f.snd_una + Len(f.txbuf)
           /\ f.state \in FinOutstanding
  <2>1. {"ACK", "FIN"} \in SUBSET Flags /\ << >> \in Seq(Nat)
    BY DEF Flags
  <2>2. Queued(c, e)
    <3>1. c.f \in Flow /\ Len(c.f.rxbuf) <= NET_TCP_RXBUF /\ RingOK(c.out)
      BY DEF Good, FlowOK, Bounded
    <3> QED BY <1>1, <2>1, <3>1, OutQueues
  <2> HIDE DEF e
  <2>3. PICK b \in BOOLEAN : e.f = [c.f EXCEPT !.need_ack = b]
    BY <2>2 DEF Queued
  <2>4. d.f = [c.f EXCEPT !.need_ack = b, !.snd_nxt = nxt + 1]
    BY <2>3 DEF With, Good, FlowOK, Flow
  <2>5. d.h = c.h /\ RingOK(d.out)
    BY <2>2 DEF With, Queued
  <2> HIDE DEF d
  <2>6. nxt + 1 \in Nat /\ una <= nxt + 1 /\ nxt + 1 <= una + len + 1 /\ nxt + 1 # una
    BY <1>1, <1>2
  <2>7. /\ d.f.snd_una = una /\ d.f.txbuf = c.f.txbuf /\ d.f.snd_nxt = nxt + 1
        /\ d.f.state = c.f.state /\ d.f.fin_sent = c.f.fin_sent
    BY <2>4 DEF Good, FlowOK, Flow
  <2> HIDE DEF nxt, una, len
  <2>8. d.f \in Flow
    BY <2>4, <2>6 DEF Good, FlowOK, Flow
  <2>9. Pointers(d.f)
    <3>1. Pointers(c.f) /\ c.f.state # "SYN_RCVD"
      BY DEF Good, FlowOK, Pumps
    <3> QED BY <1>2, <2>6, <2>7, <3>1 DEF Pointers, len
  <2>10. Bounded(d.f) /\ HostOK(d.f, d.h) /\ Carried(c, d)
    BY <2>4, <2>5
       DEF Good, FlowOK, Flow, Bounded, HostOK, Kept, Flushed, Carried
  <2>11. Sated(d.f) /\ FinSent(d.f)
    BY <2>6, <2>7 DEF Sated, FinSent
  <2>12. PumpFin(c) = d
    BY <1>2 DEF PumpFin, d, e
  <2> QED BY <2>5, <2>7, <2>8, <2>9, <2>10, <2>11, <2>12 DEF Good, FlowOK
<1>3. CASE ~(/\ f.fin_sent /\ f.snd_nxt = f.snd_una + Len(f.txbuf)
             /\ f.state \in FinOutstanding)
  <2>1. PumpFin(c) = c
    BY <1>3 DEF PumpFin
  <2>2. FinSent(c.f)
    <3> SUFFICES ASSUME c.f.state \in FinOutstanding, c.f.txbuf = << >>,
                        c.f.snd_nxt = c.f.snd_una
                 PROVE  FALSE
      BY DEF FinSent
    <3>1. c.f.fin_sent
      BY DEF Good, FlowOK, Pointers
    <3>2. Len(c.f.txbuf) = 0
      OBVIOUS
    <3>3. c.f.snd_una \in Nat
      BY <1>1
    <3> QED BY <1>3, <3>1, <3>2, <3>3
  <2> QED BY <2>1, <2>2 DEF Carried
<1> QED BY <1>2, <1>3

(* Whatever is owed has a deadline.                                         *)
Timed(f) ==
  (f.state \notin {"SYN_RCVD", "TIME_WAIT"} /\ Waiting(f)) => f.rto_on

(* tcp_timers arms the deadline when anything is owed, after a pass of
   tcp_pump that sent all it could. *)
LEMMA TimersGood ==
  ASSUME NEW c, Good(c)
  PROVE  LET d == With(c, tcp_timers(c.f))
         IN /\ Good(d) /\ Carried(c, d) /\ d.f.state = c.f.state
            /\ Sated(c.f) /\ FinSent(c.f) => Timed(d.f)
<1> DEFINE f == c.f
           g == tcp_timers(f)
           d == With(c, g)
<1>1. PICK on \in BOOLEAN, n \in Nat :
        /\ g = [f EXCEPT !.rto_on = on, !.rtx = n]
        /\ n = f.rtx \/ n = 0
        /\ on <=> \/ f.snd_nxt # f.snd_una
                  \/ f.txbuf # << >> /\ f.snd_wnd = 0
  <2>1. CASE \/ f.snd_nxt # f.snd_una
             \/ f.txbuf # << >> /\ f.snd_wnd = 0
    <3>1. g = [f EXCEPT !.rto_on = TRUE, !.rtx = f.rtx] /\ f.rtx \in Nat
      BY <2>1 DEF tcp_timers, Good, FlowOK, Flow
    <3> QED BY <2>1, <3>1
  <2>2. CASE ~(\/ f.snd_nxt # f.snd_una
               \/ f.txbuf # << >> /\ f.snd_wnd = 0)
    <3>1. g = [f EXCEPT !.rto_on = FALSE, !.rtx = 0]
      BY <2>2 DEF tcp_timers
    <3> QED BY <2>2, <3>1
  <2> QED BY <2>1, <2>2
<1> HIDE DEF g
<1>2. g \in Flow
  BY <1>1 DEF Good, FlowOK, Flow
<1>3. /\ g.snd_una = f.snd_una /\ g.snd_nxt = f.snd_nxt /\ g.txbuf = f.txbuf
      /\ g.snd_wnd = f.snd_wnd /\ g.fin_sent = f.fin_sent /\ g.state = f.state
      /\ g.rxbuf = f.rxbuf /\ g.rtx = n /\ g.used = f.used /\ g.rto_on = on
      /\ g.rcv_nxt = f.rcv_nxt /\ g.irs = f.irs /\ g.tx_shutdown = f.tx_shutdown
      /\ g.host_eof = f.host_eof
  BY <1>1 DEF Good, FlowOK, Flow
<1>4. Pointers(g) /\ HostOK(g, c.h)
  BY <1>3 DEF Good, FlowOK, Pointers, HostOK, Kept, Flushed
<1>5. Bounded(g)
  BY <1>1, <1>3, SizesAssumption DEF Good, FlowOK, Bounded
<1>6. Sated(f) /\ FinSent(f) => Timed(g)
  BY <1>1, <1>3 DEF Timed, Sated, FinSent, Waiting
<1>7. d.f = g /\ d.h = c.h /\ d.out = c.out
  BY DEF With
<1>8. Good(d) /\ Carried(c, d) /\ d.f.state = c.f.state
  <2>1. Good(d)
    BY <1>2, <1>4, <1>5, <1>7 DEF Good, FlowOK
  <2> QED BY <1>3, <1>7, <2>1 DEF Carried
<1> QED BY <1>6, <1>7, <1>8 DEF g

(* The bare ACK of tcp_pump takes no sequence number. *)
LEMMA PumpAckGood ==
  ASSUME NEW c, Good(c)
  PROVE  LET d == PumpAck(c)
         IN /\ Good(d) /\ Carried(c, d) /\ d.f.state = c.f.state
            /\ Sated(c.f) => Sated(d.f)
            /\ FinSent(c.f) => FinSent(d.f)
<1>1. CASE c.f.need_ack
  <2> DEFINE d == tcp_out(c, {"ACK"}, c.f.snd_nxt, << >>)
  <2>1. /\ c.f.snd_nxt \in Nat /\ << >> \in Seq(Nat) /\ {"ACK"} \in SUBSET Flags
        /\ c.f \in Flow /\ Len(c.f.rxbuf) <= NET_TCP_RXBUF /\ RingOK(c.out)
    BY DEF Good, FlowOK, Flow, Flags, Bounded
  <2>2. Queued(c, d)
    BY <2>1, OutQueues
  <2> HIDE DEF d
  <2>3. PICK b \in BOOLEAN : d.f = [c.f EXCEPT !.need_ack = b]
    BY <2>2 DEF Queued
  <2>4. /\ Carried(c, d) /\ d.f.state = c.f.state
        /\ Sated(c.f) => Sated(d.f)
        /\ FinSent(c.f) => FinSent(d.f)
    BY <2>1, <2>2, <2>3 DEF Queued, Carried, Sated, FinSent, Flow
  <2>5. Good(d)
    BY <2>2, QueuedGood
  <2>6. PumpAck(c) = d
    BY <1>1 DEF PumpAck, d
  <2> QED BY <2>4, <2>5, <2>6
<1>2. CASE ~c.f.need_ack
  BY <1>2 DEF PumpAck, Carried
<1> QED BY <1>1, <1>2

(* tcp_pump as a whole: its four stages in the order of the code. *)
LEMMA PumpGood ==
  ASSUME NEW c, Good(c), c.f.state # "CLOSED"
  PROVE  LET d == tcp_pump(c)
         IN /\ Good(d) /\ Carried(c, d) /\ d.f.state # "CLOSED"
            /\ Timed(d.f)
<1>1. CASE c.f.state \in {"SYN_RCVD", "TIME_WAIT"}
  BY <1>1 DEF tcp_pump, Carried, Timed
<1>2. CASE c.f.state \notin {"SYN_RCVD", "TIME_WAIT"}
  <2> DEFINE d1 == PumpData(c)
             d2 == With(d1, CommitFin(d1.f))
             d3 == PumpFin(d2)
             d4 == PumpAck(d3)
             d5 == With(d4, tcp_timers(d4.f))
  <2>1. Good(d1) /\ Carried(c, d1) /\ Pumps(d1.f.state) /\ Sated(d1.f)
    BY <1>2, PumpDataGood DEF Pumps
  <2>2. Good(d2) /\ Carried(d1, d2) /\ Pumps(d2.f.state) /\ Sated(d2.f)
    <3> HIDE DEF d1
    <3> QED BY <2>1, CommitFinGood
  <2>3. /\ Good(d3) /\ Carried(d2, d3) /\ Pumps(d3.f.state)
        /\ Sated(d3.f) /\ FinSent(d3.f)
    <3> HIDE DEF d2
    <3> QED BY <2>2, PumpFinGood
  <2>4. /\ Good(d4) /\ Carried(d3, d4) /\ Pumps(d4.f.state)
        /\ Sated(d4.f) /\ FinSent(d4.f)
    <3> HIDE DEF d3
    <3> QED BY <2>3, PumpAckGood
  <2>5. Good(d5) /\ Carried(d4, d5) /\ Pumps(d5.f.state) /\ Timed(d5.f)
    <3> HIDE DEF d4
    <3> QED BY <2>4, TimersGood
  <2>6. tcp_pump(c) = d5
    BY <1>2 DEF tcp_pump
  <2>7. Carried(c, d5)
    <3> HIDE DEF d1, d2, d3, d4, d5
    <3> QED BY <2>1, <2>2, <2>3, <2>4, <2>5 DEF Carried
  <2> HIDE DEF d1, d2, d3, d4, d5
  <2> QED BY <2>5, <2>6, <2>7 DEF Pumps
<1> QED BY <1>1, <1>2

---------------------------------------------------------------------------
(* net_tcp_tick.                                                            *)

(* What a tick that began in c may leave.                                  *)
Ticked(c, d) ==
  /\ Good(d)
  /\ d.f.used => /\ d.f.state # "CLOSED" /\ Timed(d.f)
                 /\ d.f.rcv_nxt = c.f.rcv_nxt
                 /\ Len(d.f.rxbuf) <= Len(c.f.rxbuf)

(* A tick that ends in tcp_abort. *)
LEMMA AbortTicked ==
  ASSUME NEW c, NEW e, Good(c)
  PROVE  Ticked(e, tcp_abort(c))
<1>1. /\ c.f \in Flow /\ Len(c.f.rxbuf) <= NET_TCP_RXBUF /\ RingOK(c.out)
      /\ c.h \in HostSocket
  BY DEF Good, FlowOK, Bounded, HostOK
<1>2. Good(tcp_abort(c)) /\ ~tcp_abort(c).f.used
  BY <1>1, AbortGood
<1> QED BY <1>2 DEF Ticked

(* A tick that ends in net_flow_free. *)
LEMMA FreeTicked ==
  ASSUME NEW c, NEW e, Good(c), NEW fate \in Fates
  PROVE  Ticked(e, net_flow_free(c, fate))
<1>1. c.h \in HostSocket /\ RingOK(c.out)
  BY DEF Good, HostOK
<1>2. Good(net_flow_free(c, fate)) /\ ~net_flow_free(c, fate).f.used
  BY <1>1, FreeGood
<1> QED BY <1>2 DEF Ticked

(* A bare segment at snd_nxt. *)
LEMMA AckGood ==
  ASSUME NEW c, Good(c), NEW flags \in SUBSET Flags
  PROVE  LET d == tcp_out(c, flags, c.f.snd_nxt, << >>)
         IN Good(d) /\ Queued(c, d) /\ Carried(c, d) /\ d.f.state = c.f.state
<1> DEFINE d == tcp_out(c, flags, c.f.snd_nxt, << >>)
<1>1. /\ c.f.snd_nxt \in Nat /\ << >> \in Seq(Nat)
      /\ c.f \in Flow /\ Len(c.f.rxbuf) <= NET_TCP_RXBUF /\ RingOK(c.out)
  BY DEF Good, FlowOK, Flow, Bounded
<1>2. Queued(c, d)
  BY <1>1, OutQueues
<1> HIDE DEF d
<1>3. Good(d)
  BY <1>2, QueuedGood
<1>4. Carried(c, d) /\ d.f.state = c.f.state
  BY <1>1, <1>2 DEF Queued, Carried, Flow
<1> QED BY <1>2, <1>3, <1>4 DEF d

(* The tick of a flow in TIME-WAIT. *)
LEMMA TimeWaitTicked ==
  ASSUME NEW c, Good(c), c.f.state = "TIME_WAIT", NEW due \in BOOLEAN
  PROVE  Ticked(c, TickTimeWait(c, due))
<1> DEFINE d == IF c.f.need_ack
                THEN tcp_out(c, {"ACK"}, c.f.snd_nxt, << >>) ELSE c
<1>1. Good(d) /\ Carried(c, d) /\ d.f.state = "TIME_WAIT"
  <2>1. CASE c.f.need_ack
    BY <2>1, AckGood DEF Flags
  <2>2. CASE ~c.f.need_ack
    BY <2>2 DEF Carried
  <2> QED BY <2>1, <2>2
<1> HIDE DEF d
<1>2. Ticked(c, net_flow_free(d, "closed"))
  BY <1>1, FreeTicked DEF Fates
<1>3. c.f.rxbuf \in Seq(Nat) /\ Len(c.f.rxbuf) \in Nat
  BY DEF Good, FlowOK, Flow
<1>4. Ticked(c, d)
  BY <1>1, <1>3 DEF Ticked, Carried, Timed
<1> QED BY <1>2, <1>4 DEF TickTimeWait, d

(* The SYN-ACK occupies one sequence number of its own.                    *)
LEMMA ConnectTicked ==
  ASSUME NEW c, Good(c), c.f.state = "SYN_RCVD", c.f.snd_nxt = c.f.snd_una,
         NEW due \in BOOLEAN, NEW d \in TickConnect(c, due)
  PROVE  Ticked(c, d)
<1> DEFINE r == [c EXCEPT !.h.ready = TRUE]
           e == tcp_out(r, {"SYN", "ACK"}, c.f.snd_nxt, << >>)
           g == [e.f EXCEPT !.snd_nxt = @ + 1]
           x == With(e, tcp_timers(g))
<1>0. c.f.rxbuf \in Seq(Nat) /\ Len(c.f.rxbuf) \in Nat
  BY DEF Good, FlowOK, Flow
<1>1. Good(r) /\ r.f = c.f
  <2>1. r.f = c.f /\ r.out = c.out /\ r.h = [c.h EXCEPT !.ready = TRUE]
    OBVIOUS
  <2>2. [c.h EXCEPT !.ready = TRUE] \in HostSocket
    BY DEF Good, HostOK, HostSocket
  <2> QED BY <2>1, <2>2, SMTT(30) DEF Good, HostOK, HostSocket, Kept, Flushed
<1>2. Ticked(c, x)
  <2> HIDE DEF r
  <2>1. Good(e) /\ Queued(r, e) /\ Carried(r, e) /\ e.f.state = "SYN_RCVD"
    <3>1. e = tcp_out(r, {"SYN", "ACK"}, r.f.snd_nxt, << >>)
      BY <1>1
    <3>2. {"SYN", "ACK"} \in SUBSET Flags
      BY DEF Flags
    <3> HIDE DEF e
    <3> QED BY <1>1, <3>1, <3>2, AckGood
  <2>2. e.f.snd_nxt = e.f.snd_una /\ e.f.snd_una \in Nat /\ e.f \in Flow
    <3>1. c.f \in Flow /\ r.f = c.f /\ Queued(r, e)
      BY <1>1, <2>1 DEF Good, FlowOK
    <3>2. PICK b \in BOOLEAN : e.f = [c.f EXCEPT !.need_ack = b]
      BY <3>1 DEF Queued
    <3>3. c.f.snd_una \in Nat
      BY <3>1 DEF Flow
    <3>4. e.f.snd_nxt = c.f.snd_nxt /\ e.f.snd_una = c.f.snd_una
      BY <3>1, <3>2 DEF Flow
    <3>5. e.f \in Flow
      BY <2>1 DEF Good, FlowOK
    <3> QED BY <3>3, <3>4, <3>5
  <2> HIDE DEF e
  <2>3. g \in Flow /\ Pointers(g) /\ Bounded(g)
    <3>1. e.f.snd_una + 1 \in Nat /\ e.f.snd_una <= e.f.snd_una + 1
      BY <2>2
    <3>2. /\ g.snd_una = e.f.snd_una /\ g.snd_nxt = e.f.snd_una + 1
          /\ g.state = "SYN_RCVD" /\ g.fin_sent = e.f.fin_sent
          /\ g.txbuf = e.f.txbuf /\ g.rxbuf = e.f.rxbuf /\ g.rtx = e.f.rtx
      BY <2>1, <2>2 DEF Flow
    <3>3. g \in Flow
      BY <2>2, <3>1 DEF Flow
    <3> QED BY <2>1, <3>1, <3>2, <3>3
            DEF Good, FlowOK, Pointers, Bounded, FinOutstanding
  <2> DEFINE y == With(e, g)
  <2>4. Good(y)
    BY <2>1, <2>2, <2>3 DEF Good, FlowOK, HostOK, Kept, Flushed, With, Flow
  <2>5. x = With(y, tcp_timers(y.f))
    BY DEF With
  <2>6. /\ y.f.state = "SYN_RCVD" /\ y.f.rcv_nxt = c.f.rcv_nxt
        /\ y.f.rxbuf = c.f.rxbuf
    BY <1>1, <2>1, <2>2 DEF With, Carried, Flow
  <2> HIDE DEF x, y
  <2>7. Good(x) /\ Carried(y, x) /\ x.f.state = "SYN_RCVD"
    BY <2>4, <2>5, <2>6, TimersGood
  <2> QED BY <1>0, <2>6, <2>7 DEF Ticked, Carried, Timed
<1>3. Ticked(c, c)
  BY <1>0 DEF Ticked, Timed
<1>4. Ticked(c, tcp_abort(c))
  BY AbortTicked
<1>5. d = x \/ d = tcp_abort(c) \/ d = c
  BY DEF TickConnect
<1> QED BY <1>2, <1>3, <1>4, <1>5

(* send() and recv().                                                      *)
LEMMA DeliveredGood ==
  ASSUME NEW c, Good(c), c.f.used, c.f.state # "CLOSED",
         NEW w \in 0 .. Len(c.f.rxbuf)
  PROVE  LET d == Delivered(c, w)
         IN /\ Good(d) /\ d.f.state = c.f.state /\ d.f.used
            /\ d.f.rcv_nxt = c.f.rcv_nxt /\ Len(d.f.rxbuf) <= Len(c.f.rxbuf)
            /\ d.f.snd_nxt = c.f.snd_nxt /\ d.f.snd_una = c.f.snd_una
<1> DEFINE f    == c.f
           rest == SubSeq(f.rxbuf, w + 1, Len(f.rxbuf))
           gone == SubSeq(f.rxbuf, 1, w)
           shut == tcp_guest_finished(f.state) /\ rest = << >>
           g    == [f EXCEPT !.rxbuf = rest,
                             !.need_ack = @ \/ w > 0,
                             !.tx_shutdown = @ \/ shut]
           h    == [c.h EXCEPT !.got = @ \o gone, !.shut = @ \/ shut]
           d    == [f |-> g, out |-> c.out, h |-> h]
<1>1. /\ f \in Flow /\ f.rxbuf \in Seq(Nat) /\ Len(f.rxbuf) \in Nat
      /\ c.h \in HostSocket /\ c.h.got \in Seq(Nat) /\ Len(c.h.got) \in Nat
      /\ w \in Nat /\ w <= Len(f.rxbuf)
  BY SMTT(30) DEF Good, FlowOK, Flow, HostOK, HostSocket
<1>2. /\ rest \in Seq(Nat) /\ Len(rest) = Len(f.rxbuf) - w
      /\ gone \in Seq(Nat) /\ Len(gone) = w
  <2> DEFINE q == f.rxbuf
             n == Len(q)
  <2>1. q \in Seq(Nat) /\ n \in Nat /\ n = Len(q) /\ w \in Nat /\ w <= n
    BY <1>1
  <2> HIDE DEF q, n
  <2>2. \A i \in 1 .. n : q[i] \in Nat
    BY <2>1, ElementOfSeq
  <2>3. SubSeq(q, w + 1, n) \in Seq(Nat) /\ Len(SubSeq(q, w + 1, n)) = n - w
    <3>1. \A i \in w + 1 .. n : q[i] \in Nat
      BY <2>1, <2>2
    <3>2. w + 1 \in Int /\ n \in Int
      BY <2>1
    <3>3. /\ SubSeq(q, w + 1, n) \in Seq(Nat)
          /\ Len(SubSeq(q, w + 1, n)) = IF w + 1 <= n THEN n - (w + 1) + 1 ELSE 0
      BY <3>1, <3>2, SubSeqProperties
    <3> QED BY <2>1, <3>3
  <2>4. SubSeq(q, 1, w) \in Seq(Nat) /\ Len(SubSeq(q, 1, w)) = w
    <3>1. \A i \in 1 .. w : q[i] \in Nat
      BY <2>1, <2>2
    <3>2. /\ SubSeq(q, 1, w) \in Seq(Nat)
          /\ Len(SubSeq(q, 1, w)) = IF 1 <= w THEN w - 1 + 1 ELSE 0
      BY <2>1, <3>1, SubSeqProperties
    <3> QED BY <2>1, <3>2
  <2> QED BY <2>3, <2>4 DEF q, n
<1> HIDE DEF rest, gone
<1>3. /\ c.h.got \o gone \in Seq(Nat)
      /\ Len(c.h.got \o gone) = Len(c.h.got) + w
  <2>1. c.h.got \in Seq(Nat) /\ gone \in Seq(Nat) /\ Len(gone) = w
    BY <1>1, <1>2
  <2>2. /\ c.h.got \o gone \in Seq(Nat)
        /\ Len(c.h.got \o gone) = Len(c.h.got) + Len(gone)
    BY <2>1, ConcatProperties
  <2> QED BY <2>1, <2>2
<1> HIDE DEF shut
<1>4. shut \in BOOLEAN /\ (w > 0) \in BOOLEAN
  BY DEF shut, tcp_guest_finished
<1>5. g \in Flow /\ h \in HostSocket
  BY <1>1, <1>2, <1>3, <1>4 DEF Flow, HostSocket
<1>6. /\ g.snd_una = f.snd_una /\ g.snd_nxt = f.snd_nxt /\ g.txbuf = f.txbuf
      /\ g.fin_sent = f.fin_sent /\ g.state = f.state /\ g.rxbuf = rest
      /\ g.rtx = f.rtx /\ g.used = f.used /\ g.rcv_nxt = f.rcv_nxt
      /\ g.irs = f.irs /\ g.tx_shutdown = (f.tx_shutdown \/ shut)
      /\ h.got = c.h.got \o gone /\ h.shut = (c.h.shut \/ shut)
  BY <1>1 DEF Flow, HostSocket
<1> HIDE DEF g, h
<1>7. Pointers(g)
  BY <1>6 DEF Good, FlowOK, Pointers
<1> DEFINE a == Len(f.rxbuf)
           b == Len(rest)
           k == Len(c.h.got)
           m == Len(h.got)
<1>8. a \in Nat /\ k \in Nat /\ w \in Nat /\ w <= a /\ b = a - w /\ m = k + w
  BY <1>1, <1>2, <1>3, <1>6
<1>9. Bounded(g)
  <2>1. a <= NET_TCP_RXBUF
    BY DEF Good, FlowOK, Bounded
  <2> HIDE DEF a, b
  <2>2. b <= NET_TCP_RXBUF
    BY <1>8, <2>1, SizesAssumption
  <2> QED BY <1>6, <2>2 DEF Good, FlowOK, Bounded, b
<1>10. Kept(g, h)
  <2> DEFINE s == IF tcp_guest_finished(f.state) THEN 1 ELSE 0
  <2>1. f.rcv_nxt = f.irs + 1 + k + a + s
    BY DEF Good, HostOK, Kept
  <2>2. f.irs \in Nat /\ s \in Nat
    BY <1>1 DEF Flow
  <2> HIDE DEF a, b, k, m, s
  <2>3. f.irs + 1 + k + a + s = f.irs + 1 + m + b + s
    BY <1>8, <2>2
  <2> QED BY <1>6, <2>1, <2>3 DEF Kept, m, b, s
<1>11. Flushed(g, h)
  <2> SUFFICES ASSUME h.shut
               PROVE  g.tx_shutdown /\ g.rxbuf = << >> /\ tcp_guest_finished(g.state)
    BY DEF Flushed
  <2>1. CASE shut
    BY <1>6, <2>1 DEF shut
  <2>2. CASE ~shut
    <3>1. c.h.shut
      BY <1>6, <2>2
    <3>2. f.tx_shutdown /\ f.rxbuf = << >> /\ tcp_guest_finished(f.state)
      BY <3>1 DEF Good, HostOK, Flushed
    <3>3. rest = << >>
      <4>1. a = 0
        BY <3>2
      <4> HIDE DEF a, b
      <4>2. b = 0
        BY <1>8, <4>1
      <4> QED BY <1>2, <4>2, EmptySeq DEF b
    <3> QED BY <1>6, <3>2, <3>3
  <2> QED BY <2>1, <2>2
<1>12. Delivered(c, w) = d
  BY DEF Delivered, d, g, h, rest, gone, shut
<1>13. b <= a
  <2> HIDE DEF a, b
  <2> QED BY <1>8
<1>14. Good(d)
  BY <1>5, <1>7, <1>9, <1>10, <1>11 DEF Good, FlowOK, HostOK
<1>15. d.f = g
  OBVIOUS
<1>16. Len(d.f.rxbuf) <= Len(c.f.rxbuf)
  BY <1>6, <1>13, <1>15
<1>17. /\ d.f.state = c.f.state /\ d.f.used = c.f.used /\ d.f.rcv_nxt = c.f.rcv_nxt
       /\ d.f.snd_nxt = c.f.snd_nxt /\ d.f.snd_una = c.f.snd_una
  BY <1>6, <1>15
<1> HIDE DEF d
<1> QED BY <1>12, <1>14, <1>16, <1>17

(* recv() appends to txbuf no more than it has room for. *)
LEMMA FetchedGood ==
  ASSUME NEW c, Good(c), NEW n \in Nat, NEW eof \in BOOLEAN,
         Len(c.f.txbuf) + n <= NET_TCP_TXBUF
  PROVE  LET d == Fetched(c, n, eof)
         IN /\ Good(d) /\ d.f.state = c.f.state /\ d.f.used = c.f.used
            /\ d.f.rcv_nxt = c.f.rcv_nxt /\ d.f.rxbuf = c.f.rxbuf
            /\ d.f.snd_nxt = c.f.snd_nxt /\ d.f.snd_una = c.f.snd_una
<1> DEFINE f == c.f
           t == [i \in 1 .. n |-> c.h.read + i]
           g == [f EXCEPT !.txbuf = @ \o t, !.host_eof = @ \/ eof]
           h == [c.h EXCEPT !.read = @ + n]
           d == [c EXCEPT !.f = g, !.h = h]
<1>1. /\ f \in Flow /\ f.txbuf \in Seq(Nat) /\ c.h \in HostSocket /\ c.h.read \in Nat
  BY DEF Good, FlowOK, Flow, HostOK, HostSocket
<1>2. t \in Seq(Nat) /\ Len(t) = n
  <2> DEFINE r == c.h.read
  <2>1. r \in Nat
    BY <1>1
  <2> HIDE DEF r
  <2>2. [i \in 1 .. n |-> r + i] \in Seq(Nat)
    <3>1. \A i \in 1 .. n : r + i \in Nat
      BY <2>1
    <3> QED BY <3>1, IsASeq
  <2>3. Len([i \in 1 .. n |-> r + i]) = n
    OBVIOUS
  <2> QED BY <2>2, <2>3 DEF r
<1> HIDE DEF t
<1>3. f.txbuf \o t \in Seq(Nat) /\ Len(f.txbuf \o t) = Len(f.txbuf) + n
  <2>1. /\ f.txbuf \o t \in Seq(Nat)
        /\ Len(f.txbuf \o t) = Len(f.txbuf) + Len(t)
    BY <1>1, <1>2, ConcatProperties
  <2> QED BY <1>2, <2>1
<1>4. g \in Flow /\ h \in HostSocket
  <2>1. c.h.read + n \in Nat
    BY <1>1
  <2> QED BY <1>1, <1>3, <2>1 DEF Flow, HostSocket
<1>5. /\ g.snd_una = f.snd_una /\ g.snd_nxt = f.snd_nxt /\ g.txbuf = f.txbuf \o t
      /\ g.fin_sent = f.fin_sent /\ g.state = f.state /\ g.rxbuf = f.rxbuf
      /\ g.rtx = f.rtx /\ g.used = f.used /\ g.rcv_nxt = f.rcv_nxt
      /\ g.irs = f.irs /\ g.tx_shutdown = f.tx_shutdown
      /\ h.got = c.h.got /\ h.shut = c.h.shut
  BY <1>1 DEF Flow, HostSocket
<1> HIDE DEF g, h
<1>6. Pointers(g)
  <2> DEFINE len == Len(f.txbuf)
             nxt == f.snd_nxt
             una == f.snd_una
             one == IF f.state \in FinOutstanding THEN 1 ELSE 0
  <2>1. /\ len \in Nat /\ nxt \in Nat /\ una \in Nat /\ one \in Nat
        /\ f.state # "SYN_RCVD" => nxt <= una + len + one
    BY <1>1 DEF Good, FlowOK, Flow, Pointers
  <2> HIDE DEF len, nxt, una, one
  <2>2. f.state # "SYN_RCVD" => nxt <= una + (len + n) + one
    BY <2>1
  <2>3. f.state # "SYN_RCVD" => f.snd_nxt <= f.snd_una + (Len(f.txbuf) + n)
                                   + (IF f.state \in FinOutstanding THEN 1 ELSE 0)
    BY <2>2 DEF len, nxt, una, one
  <2> QED BY <1>3, <1>5, <2>3 DEF Good, FlowOK, Pointers
<1>7. Bounded(g) /\ Kept(g, h) /\ Flushed(g, h)
  BY <1>3, <1>5 DEF Good, FlowOK, HostOK, Bounded, Kept, Flushed
<1>8. Fetched(c, n, eof) = d
  BY DEF Fetched, d, g, h, t
<1>9. d.f = g /\ d.h = h /\ d.out = c.out
  BY <1>8 DEF Fetched
<1>10. Good(d)
  BY <1>4, <1>6, <1>7, <1>9 DEF Good, FlowOK, HostOK
<1>11. /\ d.f.state = c.f.state /\ d.f.used = c.f.used /\ d.f.rcv_nxt = c.f.rcv_nxt
       /\ d.f.rxbuf = c.f.rxbuf /\ d.f.snd_nxt = c.f.snd_nxt
       /\ d.f.snd_una = c.f.snd_una
  BY <1>5, <1>9
<1> HIDE DEF d
<1> QED BY <1>8, <1>10, <1>11

(* The state in which a tick reaches the retransmission deadline.          *)
Sending(c) ==
  /\ Good(c) /\ c.f.used /\ c.f.state # "CLOSED"
  /\ c.f.state = "SYN_RCVD" => c.f.snd_nxt # c.f.snd_una

(* A tick that ends in tcp_pump. *)
LEMMA PumpTicked ==
  ASSUME NEW c, Good(c), c.f.used, c.f.state # "CLOSED"
  PROVE  Ticked(c, tcp_pump(c)) /\ tcp_pump(c).f.state # "CLOSED"
<1>1. c.f.rxbuf \in Seq(Nat) /\ Len(c.f.rxbuf) \in Nat
  BY DEF Good, FlowOK, Flow
<1>2. LET d == tcp_pump(c)
      IN Good(d) /\ Carried(c, d) /\ d.f.state # "CLOSED" /\ Timed(d.f)
  BY PumpGood
<1> QED BY <1>1, <1>2 DEF Ticked, Carried

(* The slot with its retransmission count moved and snd_nxt put back.      *)
LEMMA RewoundGood ==
  ASSUME NEW c, Good(c), c.f.rtx + 1 <= NET_TCP_RTX_MAX
  PROVE  LET g == [c.f EXCEPT !.rto_on = FALSE, !.rtx = @ + 1]
         IN Good(With(c, g)) /\ Good(With(c, [g EXCEPT !.snd_nxt = c.f.snd_una]))
<1> DEFINE f == c.f
           g == [f EXCEPT !.rto_on = FALSE, !.rtx = @ + 1]
           r == [g EXCEPT !.snd_nxt = f.snd_una]
<1>1. f \in Flow /\ f.rtx \in Nat /\ f.snd_una \in Nat /\ Len(f.txbuf) \in Nat
  BY DEF Good, FlowOK, Flow
<1>2. f.rtx + 1 \in Nat
  BY <1>1
<1>3. g \in Flow /\ r \in Flow
  BY <1>1, <1>2 DEF Flow
<1>4. /\ g.snd_una = f.snd_una /\ g.snd_nxt = f.snd_nxt /\ g.txbuf = f.txbuf
      /\ g.fin_sent = f.fin_sent /\ g.state = f.state /\ g.rxbuf = f.rxbuf
      /\ g.rtx = f.rtx + 1 /\ g.used = f.used /\ g.rcv_nxt = f.rcv_nxt
      /\ g.irs = f.irs /\ g.tx_shutdown = f.tx_shutdown
  BY <1>1 DEF Flow
<1>5. /\ r.snd_una = f.snd_una /\ r.snd_nxt = f.snd_una /\ r.txbuf = f.txbuf
      /\ r.fin_sent = f.fin_sent /\ r.state = f.state /\ r.rxbuf = f.rxbuf
      /\ r.rtx = f.rtx + 1 /\ r.used = f.used /\ r.rcv_nxt = f.rcv_nxt
      /\ r.irs = f.irs /\ r.tx_shutdown = f.tx_shutdown
  BY <1>1 DEF Flow
<1> HIDE DEF g, r
<1>6. /\ f.snd_una <= f.snd_una /\ f.snd_una <= f.snd_una + 1
      /\ f.snd_una <= f.snd_una + Len(f.txbuf)
      /\ f.snd_una <= f.snd_una + Len(f.txbuf) + 1
  BY <1>1
<1>7. FlowOK(g)
  BY <1>3, <1>4 DEF Good, FlowOK, Pointers, Bounded
<1>8. FlowOK(r)
  <2>1. Pointers(r)
    BY <1>1, <1>5, <1>6 DEF Good, FlowOK, Pointers
  <2> QED BY <1>3, <1>5, <2>1 DEF Good, FlowOK, Bounded
<1>9. HostOK(g, c.h) /\ HostOK(r, c.h)
  BY <1>4, <1>5 DEF Good, HostOK, Kept, Flushed
<1>10. Good(With(c, g)) /\ Good(With(c, r))
  BY <1>7, <1>8, <1>9 DEF Good, With
<1> QED BY <1>10 DEF g, r

(* The window probe: one octet past a window that has closed on us.        *)
LEMMA ProbeTicked ==
  ASSUME NEW c, Good(c), c.f.used, c.f.state # "CLOSED", c.f.state # "SYN_RCVD",
         c.f.snd_nxt = c.f.snd_una, c.f.txbuf # << >>
  PROVE  LET e == tcp_out(c, {"ACK"}, c.f.snd_nxt, SubSeq(c.f.txbuf, 1, 1))
         IN Ticked(c, With(e, tcp_timers([e.f EXCEPT !.snd_nxt = @ + 1])))
<1> DEFINE e == tcp_out(c, {"ACK"}, c.f.snd_nxt, SubSeq(c.f.txbuf, 1, 1))
           g == [e.f EXCEPT !.snd_nxt = @ + 1]
           y == With(e, g)
           x == With(e, tcp_timers(g))
           una == c.f.snd_una
           len == Len(c.f.txbuf)
<1>1. /\ c.f \in Flow /\ c.f.txbuf \in Seq(Nat) /\ una \in Nat /\ c.f.snd_nxt = una
      /\ len \in Nat /\ Len(c.f.rxbuf) \in Nat
      /\ Len(c.f.rxbuf) <= NET_TCP_RXBUF /\ RingOK(c.out)
  BY DEF Good, FlowOK, Flow, Bounded
<1>2. len > 0
  BY <1>1, NonEmpty, Zenon
<1>3. SubSeq(c.f.txbuf, 1, 1) \in Seq(Nat)
  <2> DEFINE q == c.f.txbuf
  <2>1. q \in Seq(Nat) /\ Len(q) > 0
    BY <1>1, <1>2
  <2> HIDE DEF q
  <2>2. \A i \in 1 .. 1 : q[i] \in Nat
    BY <2>1, ElementOfSeq
  <2>3. SubSeq(q, 1, 1) \in Seq(Nat)
    BY <2>2, SubSeqProperties
  <2> QED BY <2>3 DEF q
<1>4. Queued(c, e)
  <2>1. {"ACK"} \in SUBSET Flags /\ c.f.snd_nxt \in Nat
    BY <1>1 DEF Flags
  <2> QED BY <1>1, <1>3, <2>1, OutQueues
<1> HIDE DEF e
<1>5. Good(e)
  BY <1>4, QueuedGood
<1>6. /\ e.f \in Flow /\ e.f.snd_una = una /\ e.f.snd_nxt = una
      /\ e.f.txbuf = c.f.txbuf /\ e.f.rxbuf = c.f.rxbuf /\ e.f.state = c.f.state
      /\ e.f.rcv_nxt = c.f.rcv_nxt
  BY <1>1, <1>4, <1>5 DEF Queued, Good, FlowOK, Flow
<1>7. /\ g.snd_una = una /\ g.snd_nxt = una + 1 /\ g.txbuf = c.f.txbuf
      /\ g.fin_sent = e.f.fin_sent /\ g.state = c.f.state /\ g.rxbuf = c.f.rxbuf
      /\ g.rtx = e.f.rtx /\ g.used = e.f.used /\ g.rcv_nxt = c.f.rcv_nxt
      /\ g.irs = e.f.irs /\ g.tx_shutdown = e.f.tx_shutdown
  BY <1>6 DEF Flow
<1>8. g \in Flow
  <2>1. una + 1 \in Nat
    BY <1>1
  <2> QED BY <1>6, <2>1 DEF Flow
<1> HIDE DEF g
<1>9. FlowOK(g)
  <2>1. /\ una <= una + 1 /\ una + 1 <= una + len /\ una + 1 <= una + len + 1
    BY <1>1, <1>2
  <2>2. Pointers(g)
    BY <1>1, <1>5, <1>6, <1>7, <2>1 DEF Good, FlowOK, Pointers
  <2> QED BY <1>5, <1>6, <1>7, <1>8, <2>2 DEF Good, FlowOK, Bounded
<1>10. HostOK(g, e.h)
  BY <1>5, <1>6, <1>7 DEF Good, HostOK, Kept, Flushed
<1>11. Good(y) /\ y.f = g
  BY <1>5, <1>9, <1>10 DEF Good, With
<1>12. x = With(y, tcp_timers(y.f))
  BY DEF With
<1>13. Sated(y.f) /\ FinSent(y.f)
  BY <1>1, <1>7, <1>11 DEF Sated, FinSent
<1> HIDE DEF x, y
<1>14. Good(x) /\ Carried(y, x) /\ x.f.state = y.f.state /\ Timed(x.f)
  BY <1>11, <1>12, <1>13, TimersGood
<1>15. Ticked(c, x)
  BY <1>1, <1>7, <1>11, <1>14 DEF Ticked, Carried
<1> QED BY <1>15 DEF x, g, e

(* The deadline: give up, probe, or go back to snd_una and pump. *)
LEMMA TransmitTicked ==
  ASSUME NEW c, Sending(c), NEW due \in BOOLEAN
  PROVE  Ticked(c, TickTransmit(c, due))
<1> DEFINE f == c.f
           g == [f EXCEPT !.rto_on = FALSE, !.rtx = @ + 1]
           r == [g EXCEPT !.snd_nxt = f.snd_una]
           probe == f.snd_nxt = f.snd_una /\ f.txbuf # << >> /\ f.snd_wnd = 0
           sent == tcp_out(With(c, g), {"ACK"}, f.snd_nxt, SubSeq(f.txbuf, 1, 1))
<1>1. Good(c) /\ f \in Flow /\ f.rtx \in Nat /\ NET_TCP_RTX_MAX \in Nat
  BY SizesAssumption DEF Sending, Good, FlowOK, Flow
<1>2. g.rtx = f.rtx + 1 /\ g \in Flow /\ g.rxbuf = f.rxbuf
  <2>1. f.rtx + 1 \in Nat
    BY <1>1
  <2> QED BY <1>1, <2>1 DEF Flow
<1>3. CASE f.rto_on /\ due /\ g.rtx > NET_TCP_RTX_MAX
  <2>1. TickTransmit(c, due) = tcp_abort(With(c, g))
    BY <1>3 DEF TickTransmit
  <2> DEFINE x == With(c, g)
  <2>2. /\ x.f \in Flow /\ Len(x.f.rxbuf) <= NET_TCP_RXBUF /\ RingOK(x.out)
        /\ x.h \in HostSocket
    BY <1>1, <1>2 DEF With, Good, FlowOK, Bounded, HostOK
  <2> HIDE DEF x
  <2>3. Good(tcp_abort(x)) /\ ~tcp_abort(x).f.used
    BY <2>2, AbortGood
  <2> QED BY <2>1, <2>3 DEF Ticked, x
<1>4. CASE f.rto_on /\ due /\ ~(g.rtx > NET_TCP_RTX_MAX)
  <2>1. f.rtx + 1 <= NET_TCP_RTX_MAX
    <3> DEFINE k == f.rtx
    <3>1. k \in Nat /\ ~(k + 1 > NET_TCP_RTX_MAX)
      BY <1>1, <1>2, <1>4
    <3> HIDE DEF k
    <3>2. k + 1 <= NET_TCP_RTX_MAX
      BY <1>1, <3>1
    <3> QED BY <3>2 DEF k
  <2>2. Good(With(c, g)) /\ Good(With(c, r))
    BY <1>1, <2>1, RewoundGood
  <2>3. CASE probe
    <3> DEFINE x == With(c, g)
    <3>1. TickTransmit(c, due)
            = With(sent, tcp_timers([sent.f EXCEPT !.snd_nxt = @ + 1]))
      BY <1>4, <2>3 DEF TickTransmit
    <3>2. /\ x.f.used /\ x.f.state # "CLOSED" /\ x.f.state # "SYN_RCVD"
          /\ x.f.snd_nxt = x.f.snd_una /\ x.f.txbuf # << >>
          /\ x.f.snd_nxt = f.snd_nxt /\ x.f.txbuf = f.txbuf
          /\ x.f.rcv_nxt = f.rcv_nxt /\ x.f.rxbuf = f.rxbuf
      BY <1>1, <2>3 DEF With, Sending, Flow
    <3>3. sent = tcp_out(x, {"ACK"}, x.f.snd_nxt, SubSeq(x.f.txbuf, 1, 1))
      BY <3>2
    <3> HIDE DEF x, sent
    <3>4. Ticked(x, With(sent, tcp_timers([sent.f EXCEPT !.snd_nxt = @ + 1])))
      BY <2>2, <3>2, <3>3, ProbeTicked DEF x
    <3> QED BY <3>1, <3>2, <3>4 DEF Ticked
  <2>4. CASE ~probe
    <3> DEFINE x == With(c, r)
               d == tcp_pump(x)
    <3>1. /\ x.f.used /\ x.f.state # "CLOSED"
          /\ x.f.rcv_nxt = f.rcv_nxt /\ x.f.rxbuf = f.rxbuf
      BY <1>1 DEF With, Sending, Flow
    <3> HIDE DEF x
    <3>2. Ticked(x, d) /\ d.f.state # "CLOSED"
      BY <2>2, <3>1, PumpTicked DEF x
    <3>3. TickTransmit(c, due) = d
      BY <1>4, <2>4, <3>2 DEF TickTransmit, x
    <3> HIDE DEF d
    <3> QED BY <3>1, <3>2, <3>3 DEF Ticked
  <2> QED BY <2>3, <2>4
<1>5. CASE ~(f.rto_on /\ due)
  <2> DEFINE d == tcp_pump(c)
  <2>1. Ticked(c, d) /\ d.f.state # "CLOSED"
    BY <1>1, PumpTicked DEF Sending
  <2>2. TickTransmit(c, due) = d
    BY <1>5, <2>1 DEF TickTransmit
  <2> QED BY <2>1, <2>2
<1> QED BY <1>3, <1>4, <1>5

(* Whatever recv() answers, the flow can still transmit. *)
LEMMA FetchSending ==
  ASSUME NEW c, Sending(c), NEW d \in Fetch(c)
  PROVE  Sending(d) /\ d.f.rcv_nxt = c.f.rcv_nxt /\ d.f.rxbuf = c.f.rxbuf
<1>1. CASE d = c
  BY <1>1
<1>2. CASE \E n \in Nat, eof \in BOOLEAN :
             d = Fetched(c, n, eof) /\ Len(c.f.txbuf) + n <= NET_TCP_TXBUF
  <2>1. PICK n \in Nat, eof \in BOOLEAN :
               d = Fetched(c, n, eof) /\ Len(c.f.txbuf) + n <= NET_TCP_TXBUF
    BY <1>2
  <2>2. LET e == Fetched(c, n, eof)
        IN /\ Good(e) /\ e.f.state = c.f.state /\ e.f.used = c.f.used
           /\ e.f.rcv_nxt = c.f.rcv_nxt /\ e.f.rxbuf = c.f.rxbuf
           /\ e.f.snd_nxt = c.f.snd_nxt /\ e.f.snd_una = c.f.snd_una
    BY <2>1, FetchedGood DEF Sending
  <2> QED BY <2>1, <2>2 DEF Sending
<1>3. CASE d # c
  <2> DEFINE len  == Len(c.f.txbuf)
             left == HostLen - c.h.read
             room == Least(NET_TCP_TXBUF - len, left)
  <2>1. len \in Nat /\ left \in Int /\ NET_TCP_TXBUF \in Nat
    BY SizesAssumption, SMTT(30) DEF Sending, Good, FlowOK, Flow, HostOK, HostSocket
  <2>2. PICK n \in 0 .. room, eof \in BOOLEAN : d = Fetched(c, n, eof)
    <3>1. d \in {Fetched(c, n, FALSE) : n \in 0 .. room}
            \cup {Fetched(c, n, TRUE) :
                    n \in {m \in 0 .. room : m = left /\ len + m < NET_TCP_TXBUF}}
      BY <1>3 DEF Fetch
    <3> QED BY <3>1
  <2> HIDE DEF len, left
  <2>3. n \in Nat /\ len + n <= NET_TCP_TXBUF
    BY <2>1 DEF Least
  <2> QED BY <1>2, <2>2, <2>3 DEF len
<1> QED BY <1>1, <1>3

(* The tick of a flow whose SYN-ACK is out. *)
LEMMA OpenTicked ==
  ASSUME NEW c, Sending(c), NEW due \in BOOLEAN, NEW d \in TickOpen(c, due)
  PROVE  Ticked(c, d)
<1>1. Good(c) /\ Len(c.f.rxbuf) \in Nat
  BY DEF Sending, Good, FlowOK, Flow
<1>2. ASSUME NEW x \in Deliver(c)
      PROVE  /\ Sending(x) /\ x.f.rcv_nxt = c.f.rcv_nxt
             /\ Len(x.f.rxbuf) <= Len(c.f.rxbuf)
  <2>1. PICK w \in 0 .. Len(c.f.rxbuf) : x = Delivered(c, w)
    <3>1. Len(c.f.rxbuf) \in 0 .. Len(c.f.rxbuf)
      BY <1>1
    <3> QED BY <3>1 DEF Deliver
  <2>2. LET e == Delivered(c, w)
        IN /\ Good(e) /\ e.f.state = c.f.state /\ e.f.used
           /\ e.f.rcv_nxt = c.f.rcv_nxt /\ Len(e.f.rxbuf) <= Len(c.f.rxbuf)
           /\ e.f.snd_nxt = c.f.snd_nxt /\ e.f.snd_una = c.f.snd_una
    BY DeliveredGood DEF Sending
  <2> QED BY <2>1, <2>2 DEF Sending
<1>3. CASE \E x \in Deliver(c) : \E y \in Fetch(x) : d = TickTransmit(y, due)
  <2>1. PICK x \in Deliver(c) : \E y \in Fetch(x) : d = TickTransmit(y, due)
    BY <1>3
  <2>2. PICK y \in Fetch(x) : d = TickTransmit(y, due)
    BY <2>1
  <2>3. Sending(y) /\ y.f.rcv_nxt = x.f.rcv_nxt /\ y.f.rxbuf = x.f.rxbuf
    BY <1>2, FetchSending
  <2>4. Ticked(y, d)
    BY <2>2, <2>3, TransmitTicked
  <2>5. ASSUME d.f.used PROVE Len(d.f.rxbuf) <= Len(c.f.rxbuf)
    <3>1. Len(d.f.rxbuf) <= Len(x.f.rxbuf) /\ Len(x.f.rxbuf) <= Len(c.f.rxbuf)
      BY <1>2, <2>3, <2>4, <2>5 DEF Ticked
    <3>2. Len(d.f.rxbuf) \in Nat /\ Len(x.f.rxbuf) \in Nat
      BY <1>2, <2>4, SMTT(30) DEF Ticked, Sending, Good, FlowOK, Flow
    <3> DEFINE i == Len(d.f.rxbuf)
               j == Len(x.f.rxbuf)
               k == Len(c.f.rxbuf)
    <3>3. i \in Nat /\ j \in Nat /\ k \in Nat /\ i <= j /\ j <= k
      BY <1>1, <3>1, <3>2
    <3> HIDE DEF i, j, k
    <3>4. i <= k
      BY <3>3
    <3> QED BY <3>4 DEF i, k
  <2> QED BY <1>2, <2>3, <2>4, <2>5 DEF Ticked
<1>4. CASE d = tcp_abort(c)
  BY <1>1, <1>4, AbortTicked
<1>5. CASE \E x \in Deliver(c) : d = tcp_abort(x)
  BY <1>2, <1>5, AbortTicked DEF Sending
<1>6. \/ \E x \in Deliver(c) : \E y \in Fetch(x) : d = TickTransmit(y, due)
      \/ d = tcp_abort(c)
      \/ \E x \in Deliver(c) : d = tcp_abort(x)
  <2> DEFINE delivered == Deliver(c)
             fetched   == UNION {Fetch(x) : x \in delivered}
  <2>1. \/ d \in {TickTransmit(y, due) : y \in fetched}
        \/ d = tcp_abort(c)
        \/ d \in {tcp_abort(x) : x \in {x \in delivered : Polls(x)}}
    BY DEF TickOpen
  <2> QED BY <2>1
<1> QED BY <1>3, <1>4, <1>5, <1>6

(* net_tcp_tick: one case per early return of the function. *)
LEMMA TickTicked ==
  ASSUME NEW c, Good(c), c.f.used, NEW due \in BOOLEAN, NEW d \in net_tcp_tick(c, due)
  PROVE  Ticked(c, d)
<1>1. CASE c.f.state = "TIME_WAIT"
  BY <1>1, TimeWaitTicked DEF net_tcp_tick
<1>2. CASE c.f.state = "CLOSED"
  BY <1>2, FreeTicked DEF net_tcp_tick, Fates
<1>3. CASE c.f.state = "SYN_RCVD" /\ c.f.snd_nxt = c.f.snd_una
  BY <1>3, ConnectTicked DEF net_tcp_tick
<1>4. CASE /\ c.f.state \notin {"TIME_WAIT", "CLOSED"}
           /\ ~(c.f.state = "SYN_RCVD" /\ c.f.snd_nxt = c.f.snd_una)
  <2>1. Sending(c)
    BY <1>4 DEF Sending
  <2>2. d \in TickOpen(c, due)
    BY <1>4 DEF net_tcp_tick
  <2> QED BY <2>1, <2>2, OpenTicked
<1> QED BY <1>1, <1>2, <1>3, <1>4

---------------------------------------------------------------------------
(* net_tcp_input.                                                           *)

(* Acceptance of an ACK, in the numbers it works on: una and nxt are the
   send pointers, len the octets in txbuf, fin and out the FIN's sequence
   number, committed and outstanding.                                      *)
LEMMA AckArithmetic ==
  ASSUME NEW una \in Nat, NEW nxt \in Nat, NEW len \in Nat, NEW ack \in Nat,
         NEW end \in Nat, NEW one \in {0, 1}, una < ack, una <= nxt
  PROVE  LET dat  == Least(ack - una, len)
             next == IF nxt < ack THEN ack ELSE nxt
         IN /\ dat \in Nat /\ dat <= len
            /\ next \in Nat /\ ack <= next
            /\ nxt <= una + 1 => next <= ack + 1
            /\ ack - una <= len /\ nxt <= una + len + one =>
                 next <= ack + (len - dat) + one
            /\ ack - una > len /\ nxt <= una + len + 1 => next <= ack + (len - dat)
  BY DEF Least

(* tcp_consume_ack with the window of the segment. *)
LEMMA AckedGood ==
  ASSUME NEW c, Good(c), NEW s \in Segment
  PROVE  LET f == Acked(c.f, s)
         IN /\ Good(With(c, f))
            /\ f.used = c.f.used /\ f.rcv_nxt = c.f.rcv_nxt /\ f.rxbuf = c.f.rxbuf
            /\ f.state = "SYN_RCVD" <=> c.f.state = "SYN_RCVD"
<1> DEFINE f    == [c.f EXCEPT !.snd_wnd = s.wnd]
           ack  == s.ack
           una  == f.snd_una
           nxt  == f.snd_nxt
           len  == Len(f.txbuf)
           comm == una + len + (IF f.fin_sent THEN 1 ELSE 0)
           end  == IF comm < nxt THEN nxt ELSE comm
           dat  == Least(ack - una, len)
           fin  == f.fin_sent /\ ack - una > len
           next == IF nxt < ack THEN ack ELSE nxt
           st   == IF ~fin THEN f.state
                   ELSE CASE f.state = "FIN_WAIT_1" -> "FIN_WAIT_2"
                          [] f.state = "CLOSING"    -> "TIME_WAIT"
                          [] f.state = "LAST_ACK"   -> "CLOSED"
                          [] OTHER                  -> f.state
           rest == SubSeq(f.txbuf, dat + 1, len)
           g    == [f EXCEPT !.txbuf = rest, !.snd_una = ack, !.snd_nxt = next,
                             !.rtx = 0, !.rto_on = FALSE, !.state = st]
<1>1. /\ s.ack \in Nat /\ s.wnd \in Nat
      /\ c.f \in Flow /\ c.f.txbuf \in Seq(Nat)
  BY DEF Segment, Good, FlowOK, Flow
<1>2. /\ f \in Flow /\ f.snd_una = c.f.snd_una /\ f.snd_nxt = c.f.snd_nxt
      /\ f.txbuf = c.f.txbuf /\ f.fin_sent = c.f.fin_sent /\ f.state = c.f.state
      /\ f.rxbuf = c.f.rxbuf /\ f.rtx = c.f.rtx /\ f.used = c.f.used
      /\ f.rcv_nxt = c.f.rcv_nxt /\ f.irs = c.f.irs
      /\ f.tx_shutdown = c.f.tx_shutdown
  BY <1>1 DEF Flow
<1> HIDE DEF f
<1>3. FlowOK(f) /\ HostOK(f, c.h)
  BY <1>2 DEF Good, FlowOK, HostOK, Pointers, Bounded, Kept, Flushed
<1>4. /\ una \in Nat /\ nxt \in Nat /\ len \in Nat /\ ack \in Nat /\ una <= nxt
      /\ f.txbuf \in Seq(Nat) /\ f.fin_sent \in BOOLEAN
  BY <1>1, <1>2, <1>3 DEF Flow, FlowOK, Pointers
<1>5. CASE ~(una < ack /\ ack <= end)
  <2>1. Acked(c.f, s) = f
    BY <1>5 DEF Acked, tcp_consume_ack, f
  <2> QED BY <1>2, <1>3, <2>1 DEF Good, With
<1>6. CASE una < ack /\ ack <= end
  <2>1. Acked(c.f, s) = g
    BY <1>6 DEF Acked, tcp_consume_ack, f
  <2> DEFINE one == IF f.state \in FinOutstanding THEN 1 ELSE 0
  <2>2. one \in {0, 1}
    OBVIOUS
  <2>3. /\ dat \in Nat /\ dat <= len /\ next \in Nat /\ ack <= next
        /\ nxt <= una + 1 => next <= ack + 1
        /\ ack - una <= len /\ nxt <= una + len + one =>
             next <= ack + (len - dat) + one
        /\ ack - una > len /\ nxt <= una + len + 1 => next <= ack + (len - dat)
    <3> HIDE DEF una, nxt, len, ack, one
    <3> QED BY <1>4, <1>6, <2>2, AckArithmetic
  <2>4. /\ f.state = "SYN_RCVD" => nxt <= una + 1
        /\ f.state # "SYN_RCVD" => nxt <= una + len + one
        /\ one = 1 => f.fin_sent
        /\ f.fin_sent => f.state \notin {"SYN_RCVD", "ESTABLISHED", "CLOSE_WAIT"}
    BY <1>3 DEF FlowOK, Pointers
  <2>5. /\ rest \in Seq(Nat) /\ Len(rest) = len - dat
    <3> DEFINE q == f.txbuf
    <3>1. q \in Seq(Nat) /\ len \in Nat /\ len = Len(q)
      BY <1>4
    <3> HIDE DEF q, len, dat
    <3>2. \A i \in dat + 1 .. len : q[i] \in Nat
      BY <2>3, <3>1, ElementOfSeq
    <3>3. dat + 1 \in Int /\ len \in Int
      BY <2>3, <3>1
    <3>4. /\ SubSeq(q, dat + 1, len) \in Seq(Nat)
          /\ Len(SubSeq(q, dat + 1, len))
               = IF dat + 1 <= len THEN len - (dat + 1) + 1 ELSE 0
      BY <3>2, <3>3, SubSeqProperties
    <3> QED BY <2>3, <3>1, <3>4 DEF q
  <2>6. /\ st \in States
        /\ st = "SYN_RCVD" <=> f.state = "SYN_RCVD"
        /\ st \in FinOutstanding => f.state \in FinOutstanding
        /\ st \in {"ESTABLISHED", "CLOSE_WAIT"} => f.state = st
        /\ st # "CLOSED" => (tcp_guest_finished(st) <=> tcp_guest_finished(f.state))
        /\ ~fin => st = f.state
        /\ fin => st \notin FinOutstanding
        /\ st # "CLOSED" => f.state # "CLOSED"
    <3>1. f.state \in States
      BY <1>2 DEF Flow
    <3> HIDE DEF fin
    <3>2. CASE ~fin
      BY <3>1, <3>2
    <3>3. CASE fin
      BY <3>1, <3>3 DEF States, FinOutstanding, tcp_guest_finished
    <3> QED BY <3>2, <3>3
  <2>7. /\ g.snd_una = ack /\ g.snd_nxt = next /\ g.txbuf = rest
        /\ g.fin_sent = f.fin_sent /\ g.state = st
        /\ g.rxbuf = f.rxbuf /\ g.rtx = 0 /\ g.used = f.used
        /\ g.rcv_nxt = f.rcv_nxt /\ g.irs = f.irs
        /\ g.tx_shutdown = f.tx_shutdown
    <3> HIDE DEF ack, next, rest, st
    <3> QED BY <1>2 DEF Flow
  <2>8. g \in Flow
    <3> HIDE DEF ack, next, rest, st
    <3> QED BY <1>2, <1>4, <2>3, <2>5, <2>6 DEF Flow
  <2> HIDE DEF g, rest
  <2>9. Pointers(g)
    <3>1. CASE f.state = "SYN_RCVD"
      <4>1. next <= ack + 1 /\ st = "SYN_RCVD" /\ ~f.fin_sent
        BY <2>3, <2>4, <2>6, <3>1
      <4> HIDE DEF next, ack, st
      <4> QED BY <2>3, <2>7, <4>1 DEF Pointers, FinOutstanding
    <3>2. CASE f.state # "SYN_RCVD"
      <4> DEFINE two == IF st \in FinOutstanding THEN 1 ELSE 0
      <4>1. st # "SYN_RCVD" /\ nxt <= una + len + one
        BY <2>4, <2>6, <3>2
      <4>2. next <= ack + (len - dat) + two
        <5>1. CASE ack - una <= len
          <6>1. ~fin /\ two = one
            <7>1. ~fin
              <8> HIDE DEF una, ack, len
              <8> QED BY <1>4, <5>1
            <7> QED BY <2>6, <7>1
          <6>2. next <= ack + (len - dat) + one
            BY <2>3, <4>1, <5>1
          <6> QED BY <6>1, <6>2
        <5>2. CASE ack - una > len
          <6> HIDE DEF st, next, dat, una, nxt, len, ack
          <6>1. nxt <= una + len + 1
            BY <1>4, <2>2, <4>1
          <6>2. next <= ack + (len - dat)
            BY <2>3, <5>2, <6>1
          <6> QED BY <1>4, <2>3, <6>2
        <5> HIDE DEF st, next, dat, una, nxt, len, ack
        <5> QED BY <1>4, <5>1, <5>2
      <4>3. /\ st \in FinOutstanding => f.fin_sent
            /\ f.fin_sent => st \notin {"SYN_RCVD", "ESTABLISHED", "CLOSE_WAIT"}
        <5> HIDE DEF st
        <5> QED BY <2>4, <2>6
      <4> HIDE DEF st, next, ack, dat, len
      <4> QED BY <2>3, <2>5, <2>7, <4>1, <4>2, <4>3 DEF Pointers
    <3> QED BY <3>1, <3>2
  <2>10. Bounded(g)
    <3>1. len - dat <= NET_TCP_TXBUF
      <4>1. len <= NET_TCP_TXBUF
        BY <1>3 DEF FlowOK, Bounded
      <4> HIDE DEF len, dat
      <4> QED BY <1>4, <2>3, <4>1, SizesAssumption
    <3> HIDE DEF len, dat
    <3> QED BY <1>3, <2>5, <2>7, <3>1, SizesAssumption DEF FlowOK, Bounded
  <2>11. HostOK(g, c.h)
    <3> HIDE DEF st
    <3>1. Kept(g, c.h)
      BY <1>3, <2>6, <2>7 DEF HostOK, Kept
    <3>2. Flushed(g, c.h)
      BY <1>3, <2>6, <2>7 DEF HostOK, Flushed
    <3> QED BY <1>3, <3>1, <3>2 DEF HostOK
  <2>12. Good(With(c, g))
    BY <2>8, <2>9, <2>10, <2>11 DEF Good, FlowOK, With
  <2>13. /\ g.used = c.f.used /\ g.rcv_nxt = c.f.rcv_nxt /\ g.rxbuf = c.f.rxbuf
         /\ g.state = "SYN_RCVD" <=> c.f.state = "SYN_RCVD"
    <3> HIDE DEF st
    <3> QED BY <1>2, <2>6, <2>7
  <2> QED BY <2>1, <2>12, <2>13
<1> QED BY <1>5, <1>6

(* The ACK of the SYN opens the connection.                                 *)
LEMMA EstablishedGood ==
  ASSUME NEW c, Good(c), c.f.state = "SYN_RCVD" => c.f.snd_una = c.f.snd_nxt
  PROVE  LET f == Established(c.f)
         IN /\ Good(With(c, f)) /\ f.state # "SYN_RCVD"
            /\ f.used = c.f.used /\ f.rcv_nxt = c.f.rcv_nxt /\ f.rxbuf = c.f.rxbuf
<1> DEFINE f == c.f
           g == [f EXCEPT !.state = "ESTABLISHED"]
<1>1. CASE f.state # "SYN_RCVD"
  BY <1>1 DEF Established, With, Good
<1>2. CASE f.state = "SYN_RCVD"
  <2>1. /\ f \in Flow /\ f.snd_una \in Nat /\ f.txbuf \in Seq(Nat) /\ ~f.fin_sent
        /\ f.snd_nxt = f.snd_una
    BY <1>2 DEF Good, FlowOK, Flow, Pointers
  <2>2. /\ g.snd_una = f.snd_una /\ g.snd_nxt = f.snd_nxt /\ g.txbuf = f.txbuf
        /\ g.fin_sent = f.fin_sent /\ g.state = "ESTABLISHED"
        /\ g.rxbuf = f.rxbuf /\ g.rtx = f.rtx /\ g.used = f.used
        /\ g.rcv_nxt = f.rcv_nxt /\ g.irs = f.irs
        /\ g.tx_shutdown = f.tx_shutdown
    BY <2>1 DEF Flow
  <2>3. g \in Flow
    BY <2>1 DEF Flow, States
  <2> HIDE DEF g
  <2>4. Pointers(g)
    BY <2>1, <2>2 DEF Pointers, FinOutstanding
  <2>5. Bounded(g) /\ Kept(g, c.h) /\ Flushed(g, c.h)
    BY <1>2, <2>2 DEF Good, FlowOK, HostOK, Bounded, Kept, Flushed, tcp_guest_finished
  <2>6. Good(With(c, g))
    BY <2>3, <2>4, <2>5 DEF Good, FlowOK, HostOK, With
  <2>7. Established(f) = g
    BY <1>2 DEF Established, g
  <2> QED BY <2>2, <2>6, <2>7
<1> QED BY <1>1, <1>2

(* What TakeData accepts, in the numbers it works on: data octets from seq
   on, have octets in rxbuf.                                               *)
LEMMA FreshBounds ==
  ASSUME NEW nxt \in Nat, NEW seq \in Nat, NEW len \in Nat, NEW have \in Nat,
         have <= NET_TCP_RXBUF, seq <= nxt, nxt < seq + len
  PROVE  LET skip == nxt - seq
             take == Least(len - skip, NET_TCP_RXBUF - have)
         IN /\ skip \in Nat /\ take \in Nat
            /\ skip + take <= len /\ have + take <= NET_TCP_RXBUF
  BY SizesAssumption DEF Least

(* In-order data: what rxbuf gains and rcv_nxt gains is the same. *)
LEMMA TakeDataGood ==
  ASSUME NEW c, Good(c), c.f.state # "SYN_RCVD", NEW s \in Segment
  PROVE  LET f == TakeData(c.f, s)
         IN /\ Good(With(c, f)) /\ f.state = c.f.state
            /\ f.used = c.f.used /\ RightEdge(f) = RightEdge(c.f)
<1> DEFINE f    == c.f
           len  == Len(s.data)
           have == Len(f.rxbuf)
           nxt  == f.rcv_nxt
           seq  == s.seq
           skip == nxt - seq
           take == Least(len - skip, NET_TCP_RXBUF - have)
           fresh == seq <= nxt /\ nxt < seq + len
           part == SubSeq(s.data, skip + 1, skip + take)
           more == f.rxbuf \o part
           next == nxt + take
           g    == [f EXCEPT !.rxbuf = more, !.rcv_nxt = next, !.need_ack = TRUE]
           owed == [f EXCEPT !.need_ack = TRUE]
<1>1. /\ f \in Flow /\ f.rcv_nxt \in Nat /\ f.rxbuf \in Seq(Nat) /\ have \in Nat
      /\ s.seq \in Nat /\ s.data \in Seq(Nat) /\ len \in Nat /\ have <= NET_TCP_RXBUF
  BY SMTT(30) DEF Good, FlowOK, Flow, Bounded, Segment
<1>2. CASE s.data = << >> \/ tcp_guest_finished(f.state)
  BY <1>2 DEF TakeData, With, Good
<1>3. CASE ~(s.data = << >> \/ tcp_guest_finished(f.state)) /\ ~fresh
  <2>1. TakeData(f, s) = owed
    BY <1>3 DEF TakeData
  <2>2. /\ owed \in Flow
        /\ owed.snd_una = f.snd_una /\ owed.snd_nxt = f.snd_nxt
        /\ owed.txbuf = f.txbuf /\ owed.fin_sent = f.fin_sent /\ owed.state = f.state
        /\ owed.rxbuf = f.rxbuf /\ owed.rtx = f.rtx /\ owed.used = f.used
        /\ owed.rcv_nxt = f.rcv_nxt /\ owed.irs = f.irs
        /\ owed.tx_shutdown = f.tx_shutdown
    BY <1>1 DEF Flow
  <2> HIDE DEF owed
  <2> QED BY <2>1, <2>2 DEF Good, FlowOK, HostOK, Pointers, Bounded, Kept, Flushed,
                            With, RightEdge
<1>4. CASE ~(s.data = << >> \/ tcp_guest_finished(f.state)) /\ fresh
  <2>1. TakeData(f, s) = g
    BY <1>4 DEF TakeData
  <2>2. skip \in Nat /\ take \in Nat /\ skip + take <= len /\ have + take <= NET_TCP_RXBUF
    <3>1. nxt \in Nat /\ seq \in Nat /\ seq <= nxt /\ nxt < seq + len
      BY <1>1, <1>4
    <3> HIDE DEF len, have, nxt, seq
    <3> QED BY <1>1, <3>1, FreshBounds
  <2>3. part \in Seq(Nat) /\ Len(part) = take
    <3> DEFINE q == s.data
    <3>1. q \in Seq(Nat) /\ len = Len(q)
      BY <1>1
    <3> HIDE DEF q, len, skip, take
    <3>2. \A i \in skip + 1 .. skip + take : q[i] \in Nat
      BY <1>1, <2>2, <3>1, ElementOfSeq
    <3>3. skip + 1 \in Int /\ skip + take \in Int
      BY <2>2
    <3>4. /\ SubSeq(q, skip + 1, skip + take) \in Seq(Nat)
          /\ Len(SubSeq(q, skip + 1, skip + take))
               = IF skip + 1 <= skip + take THEN (skip + take) - (skip + 1) + 1 ELSE 0
      BY <3>2, <3>3, SubSeqProperties
    <3> QED BY <2>2, <3>4 DEF q
  <2>4. more \in Seq(Nat) /\ Len(more) = have + take
    <3> HIDE DEF part, take
    <3> QED BY <1>1, <2>3, ConcatProperties
  <2>5. next \in Nat /\ next - take = f.rcv_nxt
    <3>1. nxt \in Nat
      BY <1>1
    <3> HIDE DEF nxt, take
    <3>2. nxt + take \in Nat /\ (nxt + take) - take = nxt
      BY <2>2, <3>1
    <3> QED BY <3>2 DEF nxt
  <2>6. /\ g.snd_una = f.snd_una /\ g.snd_nxt = f.snd_nxt /\ g.txbuf = f.txbuf
        /\ g.fin_sent = f.fin_sent /\ g.state = f.state
        /\ g.rxbuf = more /\ g.rtx = f.rtx /\ g.used = f.used
        /\ g.rcv_nxt = next /\ g.irs = f.irs
        /\ g.tx_shutdown = f.tx_shutdown
    <3> HIDE DEF more, next
    <3> QED BY <1>1 DEF Flow
  <2>7. g \in Flow
    <3> HIDE DEF more, next
    <3> QED BY <1>1, <2>4, <2>5 DEF Flow
  <2> HIDE DEF g
  <2>8. Pointers(g)
    BY <2>6 DEF Good, FlowOK, Pointers
  <2>9. Bounded(g)
    <3> HIDE DEF more, next, take
    <3> QED BY <2>2, <2>4, <2>6 DEF Good, FlowOK, Bounded
  <2>10. Flushed(g, c.h)
    BY <1>4, <2>6 DEF Good, HostOK, Flushed
  <2>11. Kept(g, c.h)
    <3>0. ~tcp_guest_finished(f.state) /\ g.state = f.state
      BY <1>4, <2>6
    <3>1. SUFFICES ASSUME f.used, f.state # "CLOSED"
                   PROVE  next = f.irs + 1 + Len(c.h.got) + Len(more) + 0
      <4> HIDE DEF more, next
      <4> QED BY <2>6, <3>0 DEF Kept
    <3> DEFINE got == Len(c.h.got)
               irs == f.irs
    <3>2. nxt = irs + 1 + got + have + 0
      BY <1>4, <3>1 DEF Good, HostOK, Kept
    <3>3. nxt \in Nat /\ irs \in Nat /\ got \in Nat
      BY <1>1, SMTT(30) DEF Good, HostOK, HostSocket, Flow
    <3>4. nxt + take = irs + 1 + got + (have + take) + 0
      <4> HIDE DEF nxt, got, irs, have, take
      <4> QED BY <1>1, <2>2, <3>2, <3>3
    <3> QED BY <2>4, <3>4
  <2>12. RightEdge(g) = RightEdge(f)
    <3>1. nxt \in Nat
      BY <1>1
    <3>2. (nxt + take) + NET_TCP_RXBUF - (have + take) = nxt + NET_TCP_RXBUF - have
      <4> HIDE DEF nxt, have, take
      <4> QED BY <1>1, <2>2, <3>1, SizesAssumption
    <3> QED BY <2>4, <2>6, <3>2 DEF RightEdge
  <2>13. Good(With(c, g))
    BY <2>7, <2>8, <2>9, <2>10, <2>11 DEF Good, FlowOK, HostOK, With
  <2> QED BY <2>1, <2>6, <2>12, <2>13
<1> QED BY <1>2, <1>3, <1>4

(* The guest's FIN.                                                         *)
LEMMA TakeFinGood ==
  ASSUME NEW c, Good(c), c.f.state # "SYN_RCVD", NEW s \in Segment
  PROVE  LET f == TakeFin(c.f, s)
         IN /\ Good(With(c, f))
            /\ f.used = c.f.used /\ RightEdge(f) >= RightEdge(c.f)
<1> DEFINE f    == c.f
           have == Len(f.rxbuf)
           next == f.rcv_nxt + 1
           st   == CASE f.state = "ESTABLISHED" -> "CLOSE_WAIT"
                     [] f.state = "FIN_WAIT_1"  -> "CLOSING"
                     [] f.state = "FIN_WAIT_2"  -> "TIME_WAIT"
                     [] OTHER                   -> f.state
           g    == [f EXCEPT !.rcv_nxt = next, !.need_ack = TRUE, !.state = st]
           owed == [f EXCEPT !.need_ack = TRUE]
<1>1. /\ f \in Flow /\ f.rcv_nxt \in Nat /\ f.rxbuf \in Seq(Nat) /\ have \in Nat
      /\ f.state \in States
  BY DEF Good, FlowOK, Flow
<1>2. RightEdge(f) \in Int /\ RightEdge(f) >= RightEdge(f)
  BY <1>1, SizesAssumption DEF RightEdge
<1>3. CASE TakeFin(f, s) = f
  BY <1>2, <1>3 DEF With, Good
<1>4. CASE TakeFin(f, s) = owed
  <2>1. /\ owed \in Flow
        /\ owed.snd_una = f.snd_una /\ owed.snd_nxt = f.snd_nxt
        /\ owed.txbuf = f.txbuf /\ owed.fin_sent = f.fin_sent /\ owed.state = f.state
        /\ owed.rxbuf = f.rxbuf /\ owed.rtx = f.rtx /\ owed.used = f.used
        /\ owed.rcv_nxt = f.rcv_nxt /\ owed.irs = f.irs
        /\ owed.tx_shutdown = f.tx_shutdown
    BY <1>1 DEF Flow
  <2> HIDE DEF owed
  <2>2. RightEdge(owed) = RightEdge(f)
    BY <2>1 DEF RightEdge
  <2> QED BY <1>2, <1>4, <2>1, <2>2
          DEF Good, FlowOK, HostOK, Pointers, Bounded, Kept, Flushed, With
<1>5. CASE TakeFin(f, s) = g /\ ~tcp_guest_finished(f.state)
  <2>1. next \in Nat
    BY <1>1
  <2>2. /\ st \in States /\ st # "SYN_RCVD"
        /\ st \in FinOutstanding <=> f.state \in FinOutstanding
        /\ st \in {"ESTABLISHED", "CLOSE_WAIT"} => f.state = "ESTABLISHED"
        /\ st # "CLOSED" => f.state # "CLOSED" /\ tcp_guest_finished(st)
    BY <1>1, <1>5 DEF States, FinOutstanding, tcp_guest_finished
  <2>3. /\ g.snd_una = f.snd_una /\ g.snd_nxt = f.snd_nxt /\ g.txbuf = f.txbuf
        /\ g.fin_sent = f.fin_sent /\ g.state = st
        /\ g.rxbuf = f.rxbuf /\ g.rtx = f.rtx /\ g.used = f.used
        /\ g.rcv_nxt = next /\ g.irs = f.irs
        /\ g.tx_shutdown = f.tx_shutdown
    <3> HIDE DEF next, st
    <3> QED BY <1>1 DEF Flow
  <2>4. g \in Flow
    <3> HIDE DEF next, st
    <3> QED BY <1>1, <2>1, <2>2 DEF Flow
  <2> HIDE DEF g, st
  <2>5. Pointers(g)
    BY <2>2, <2>3 DEF Good, FlowOK, Pointers
  <2>6. Bounded(g)
    BY <2>3 DEF Good, FlowOK, Bounded
  <2>7. Flushed(g, c.h)
    BY <1>5, <2>2, <2>3 DEF Good, HostOK, Flushed
  <2>8. Kept(g, c.h)
    <3>1. SUFFICES ASSUME f.used, st # "CLOSED"
                   PROVE  next = f.irs + 1 + Len(c.h.got) + have + 1
      BY <2>2, <2>3 DEF Kept
    <3> DEFINE nxt == f.rcv_nxt
               got == Len(c.h.got)
               irs == f.irs
    <3>2. nxt = irs + 1 + got + have + 0
      BY <1>5, <2>2, <3>1 DEF Good, HostOK, Kept
    <3>3. nxt \in Nat /\ irs \in Nat /\ got \in Nat
      BY <1>1 DEF Good, HostOK, HostSocket, Flow
    <3>4. nxt + 1 = irs + 1 + got + have + 1
      <4> HIDE DEF nxt, got, irs, have
      <4> QED BY <1>1, <3>2, <3>3
    <3> QED BY <3>4
  <2>9. RightEdge(g) >= RightEdge(f)
    <3> DEFINE nxt == f.rcv_nxt
    <3>1. nxt \in Nat
      BY <1>1
    <3>2. (nxt + 1) + NET_TCP_RXBUF - have >= nxt + NET_TCP_RXBUF - have
      <4> HIDE DEF nxt, have
      <4> QED BY <1>1, <3>1, SizesAssumption
    <3> QED BY <2>3, <3>2 DEF RightEdge
  <2>10. Good(With(c, g))
    BY <2>4, <2>5, <2>6, <2>7, <2>8 DEF Good, FlowOK, HostOK, With
  <2> QED BY <1>5, <2>3, <2>9, <2>10
<1>6. \/ TakeFin(f, s) = f
      \/ TakeFin(f, s) = owed
      \/ TakeFin(f, s) = g /\ ~tcp_guest_finished(f.state)
  BY DEF TakeFin
<1> QED BY <1>3, <1>4, <1>5, <1>6

(* The three changes a segment makes together.                              *)
LEMMA AbsorbedGood ==
  ASSUME NEW c, Good(c), NEW s \in Segment,
         LET f == Acked(c.f, s) IN ~(f.state = "SYN_RCVD" /\ f.snd_una < f.snd_nxt)
  PROVE  LET f == Absorbed(c.f, s)
         IN /\ Good(With(c, f)) /\ f.used = c.f.used
            /\ RightEdge(f) >= RightEdge(c.f)
<1> DEFINE f1 == Acked(c.f, s)
           f2 == Established(f1)
           f3 == TakeData(f2, s)
           f4 == TakeFin(f3, s)
<1>1. Good(With(c, f1)) /\ f1.used = c.f.used /\ RightEdge(f1) = RightEdge(c.f)
  <2>1. Good(With(c, f1)) /\ f1.used = c.f.used
        /\ f1.rcv_nxt = c.f.rcv_nxt /\ f1.rxbuf = c.f.rxbuf
    BY AckedGood
  <2> HIDE DEF f1
  <2> QED BY <2>1 DEF RightEdge
<1>2. f1.state = "SYN_RCVD" => f1.snd_una = f1.snd_nxt
  <2>1. ~(f1.state = "SYN_RCVD" /\ f1.snd_una < f1.snd_nxt)
    OBVIOUS
  <2> HIDE DEF f1
  <2>2. f1.snd_una \in Nat /\ f1.snd_nxt \in Nat /\ f1.snd_una <= f1.snd_nxt
    BY <1>1 DEF Good, FlowOK, Flow, Pointers, With
  <2> QED BY <2>1, <2>2
<1> HIDE DEF f1
<1>3. /\ Good(With(c, f2)) /\ f2.state # "SYN_RCVD" /\ f2.used = f1.used
      /\ RightEdge(f2) = RightEdge(f1)
  <2> DEFINE c1 == With(c, f1)
  <2>1. c1.f = f1 /\ (\A g : With(c1, g) = With(c, g)) /\ Good(c1)
    BY <1>1 DEF With
  <2> HIDE DEF c1
  <2>2. LET g == Established(c1.f)
        IN /\ Good(With(c1, g)) /\ g.state # "SYN_RCVD"
           /\ g.used = c1.f.used /\ g.rcv_nxt = c1.f.rcv_nxt /\ g.rxbuf = c1.f.rxbuf
    BY <1>2, <2>1, EstablishedGood
  <2> QED BY <2>1, <2>2 DEF RightEdge
<1> HIDE DEF f2
<1>4. /\ Good(With(c, f3)) /\ f3.state # "SYN_RCVD" /\ f3.used = f2.used
      /\ RightEdge(f3) = RightEdge(f2)
  <2> DEFINE c2 == With(c, f2)
  <2>1. c2.f = f2 /\ (\A g : With(c2, g) = With(c, g)) /\ Good(c2)
    BY <1>3 DEF With
  <2> HIDE DEF c2
  <2>2. LET g == TakeData(c2.f, s)
        IN /\ Good(With(c2, g)) /\ g.state = c2.f.state
           /\ g.used = c2.f.used /\ RightEdge(g) = RightEdge(c2.f)
    BY <1>3, <2>1, TakeDataGood
  <2> QED BY <1>3, <2>1, <2>2
<1> HIDE DEF f3
<1>5. /\ Good(With(c, f4)) /\ f4.used = f3.used
      /\ RightEdge(f4) >= RightEdge(f3)
  <2> DEFINE c3 == With(c, f3)
  <2>1. c3.f = f3 /\ (\A g : With(c3, g) = With(c, g)) /\ Good(c3)
    BY <1>4 DEF With
  <2> HIDE DEF c3
  <2>2. LET g == TakeFin(c3.f, s)
        IN /\ Good(With(c3, g))
           /\ g.used = c3.f.used /\ RightEdge(g) >= RightEdge(c3.f)
    BY <1>4, <2>1, TakeFinGood
  <2> QED BY <2>1, <2>2
<1>6. Absorbed(c.f, s) = f4
  BY DEF Absorbed, f1, f2, f3
<1> QED BY <1>1, <1>3, <1>4, <1>5, <1>6

(* A reset toward the guest leaves flow and host alone.                     *)
LEMMA RejectGood ==
  ASSUME NEW c \in Context, Good(c), NEW s \in Segment
  PROVE  LET d == tcp_reject(c, s)
         IN d.f = c.f /\ d.h = c.h /\ RingOK(d.out)
<1> DEFINE occupied == Len(s.data) + (IF "SYN" \in s.flags THEN 1 ELSE 0)
                                   + (IF "FIN" \in s.flags THEN 1 ELSE 0)
           rst == IF "ACK" \in s.flags
                  THEN [flags |-> {"RST"}, seq |-> s.ack, ack |-> 0, wnd |-> 0,
                        data |-> << >>]
                  ELSE [flags |-> {"RST", "ACK"}, seq |-> 0,
                        ack |-> s.seq + occupied, wnd |-> 0, data |-> << >>]
<1>1. s.seq \in Nat /\ s.ack \in Nat /\ s.data \in Seq(Nat) /\ Len(s.data) \in Nat
  BY DEF Segment
<1>2. s.seq + occupied \in Nat
  <2> DEFINE len == Len(s.data)
             seq == s.seq
             a   == IF "SYN" \in s.flags THEN 1 ELSE 0
             b   == IF "FIN" \in s.flags THEN 1 ELSE 0
  <2>1. len \in Nat /\ seq \in Nat /\ a \in Nat /\ b \in Nat
    BY <1>1
  <2>2. seq + (len + a + b) \in Nat
    <3> HIDE DEF len, seq, a, b
    <3> QED BY <2>1
  <2> QED BY <2>2
<1> HIDE DEF occupied
<1>3. rst \in Segment
  BY <1>1, <1>2 DEF Segment, Flags
<1> HIDE DEF rst
<1>4. c.out \in Seq(Segment) /\ Len(c.out) \in Nat /\ Len(c.out) <= NET_OUT_SLOTS
  BY DEF Good, RingOK
<1>5. ASSUME Len(c.out) < NET_OUT_SLOTS PROVE RingOK(Append(c.out, rst))
  <2> DEFINE q == c.out
             n == Len(q)
  <2>1. Append(q, rst) \in Seq(Segment) /\ Len(Append(q, rst)) = n + 1
    BY <1>3, <1>4, AppendProperties
  <2>2. n + 1 <= NET_OUT_SLOTS
    <3> HIDE DEF n
    <3> QED BY <1>4, <1>5, SizesAssumption DEF n
  <2> QED BY <2>1, <2>2 DEF RingOK
<1>6. \E v : /\ tcp_reject(c, s) = [c EXCEPT !.out = v]
             /\ v = c.out \/ (Len(c.out) < NET_OUT_SLOTS /\ v = Append(c.out, rst))
  BY DEF tcp_reject, rst, occupied
<1>7. RingOK(c.out)
  BY DEF Good
<1> QED BY <1>5, <1>6, <1>7 DEF Context

---------------------------------------------------------------------------
(* The inductive invariant.                                                 *)

(* What holds between two entry points only.                                *)
Alive(f) == f.used => f.state # "CLOSED" /\ Timed(f)

IInv == Good(Here) /\ Alive(flow) /\ iss \in Nat

(* What one entry point may do to a context that satisfies the invariant.  *)
Stepped(c, d) ==
  /\ Good(d) /\ Alive(d.f)
  /\ c.f.used /\ d.f.used => RightEdge(d.f) >= RightEdge(c.f)

(* The right edge is an integer (and no smaller than itself). *)
LEMMA SelfEdge ==
  ASSUME NEW c, Good(c)
  PROVE  RightEdge(c.f) \in Int /\ RightEdge(c.f) >= RightEdge(c.f)
<1> DEFINE u == c.f.rcv_nxt
           v == Len(c.f.rxbuf)
<1>1. u \in Nat /\ v \in Nat
  BY DEF Good, FlowOK, Flow
<1>2. u + NET_TCP_RXBUF - v \in Int /\ u + NET_TCP_RXBUF - v >= u + NET_TCP_RXBUF - v
  <2> HIDE DEF u, v
  <2> QED BY <1>1, SizesAssumption
<1> QED BY <1>2 DEF RightEdge

(* A tick moves the right edge of the window only to the right. *)
LEMMA TickedStepped ==
  ASSUME NEW c, NEW b, NEW d, Good(c), Good(b), Ticked(b, d),
         c.f.used => RightEdge(b.f) >= RightEdge(c.f)
  PROVE  Stepped(c, d)
<1>1. Good(d) /\ Alive(d.f)
  BY DEF Ticked, Alive
<1>2. ASSUME c.f.used, d.f.used PROVE RightEdge(d.f) >= RightEdge(c.f)
  <2> DEFINE x == b.f.rcv_nxt
             i == Len(b.f.rxbuf)
             j == Len(d.f.rxbuf)
             y == RightEdge(c.f)
  <2>0. /\ b.f.rcv_nxt \in Nat /\ b.f.rxbuf \in Seq(Nat) /\ d.f.rxbuf \in Seq(Nat)
        /\ d.f.rcv_nxt = b.f.rcv_nxt /\ Len(d.f.rxbuf) <= Len(b.f.rxbuf)
    BY <1>1, <1>2 DEF Ticked, Good, FlowOK, Flow
  <2>1. x \in Nat /\ i \in Nat /\ j \in Nat /\ j <= i /\ d.f.rcv_nxt = x
    BY <2>0
  <2>2. y \in Int
    BY SelfEdge
  <2>3. x + NET_TCP_RXBUF - i >= y
    BY <1>2 DEF RightEdge
  <2>4. x + NET_TCP_RXBUF - j >= y
    <3> HIDE DEF x, i, j, y
    <3> QED BY <2>1, <2>2, <2>3, SizesAssumption
  <2> QED BY <2>1, <2>4 DEF RightEdge
<1> QED BY <1>1, <1>2 DEF Stepped

(* A new slot owes nothing and has received nothing but the SYN.            *)
LEMMA SynGood ==
  ASSUME NEW s \in Segment, NEW seq \in Nat, NEW q, RingOK(q)
  PROVE  LET c == [f |-> SynFlow(s, seq), out |-> q, h |-> NewSocket]
         IN Good(c) /\ c.f.used
<1> DEFINE f == SynFlow(s, seq)
<1>1. s.seq \in Nat /\ s.wnd \in Nat /\ s.seq + 1 \in Nat
  BY DEF Segment
<1>2. << >> \in Seq(Nat) /\ Len(<< >>) = 0
  OBVIOUS
<1>3. /\ f.used = TRUE /\ f.state = "SYN_RCVD" /\ f.irs = s.seq /\ f.rcv_nxt = s.seq + 1
      /\ f.snd_una = seq /\ f.snd_nxt = seq /\ f.txbuf = << >> /\ f.rxbuf = << >>
      /\ f.fin_sent = FALSE /\ f.rtx = 0
  BY DEF SynFlow, NoFlow
<1>4. f \in Flow
  BY <1>1, <1>2 DEF SynFlow, NoFlow, Flow, States
<1> HIDE DEF f
<1>5. Pointers(f) /\ Bounded(f)
  BY <1>2, <1>3, SizesAssumption DEF Pointers, Bounded, FinOutstanding
<1>6. HostOK(f, NewSocket)
  BY <1>1, <1>2, <1>3 DEF HostOK, HostSocket, NewSocket, Fates, Kept, Flushed,
                          tcp_guest_finished
<1> QED BY <1>3, <1>4, <1>5, <1>6 DEF Good, FlowOK, f

(* net_init leaves no flow. *)
LEMMA InitIInv == Init => IInv
<1> SUFFICES ASSUME Init PROVE IInv
  OBVIOUS
<1> DEFINE h == [NewSocket EXCEPT !.fate = "none"]
<1>1. << >> \in Seq(Nat) /\ << >> \in Seq(Segment) /\ Len(<< >>) = 0
  OBVIOUS
<1>2. NewSocket \in HostSocket /\ h \in HostSocket
  BY <1>1 DEF NewSocket, HostSocket, Fates
<1>3. RingOK(<< >>)
  BY <1>1, SizesAssumption DEF RingOK
<1> DEFINE c == [f |-> NoFlow, out |-> << >>, h |-> h]
<1>4. Good(net_flow_free(c, "none"))
  BY <1>2, <1>3, FreeGood DEF Fates
<1>5. net_flow_free(c, "none") = Here
  BY DEF net_flow_free, Here, Init, NewSocket
<1>6. ~flow.used /\ iss = 0
  BY DEF Init, NoFlow
<1> QED BY <1>4, <1>5, <1>6 DEF IInv, Alive

(* An entry point called with any segment, or not called at all.            *)
Entry ==
  \/ \E s \in Segment : net_tcp_input(s)
  \/ \E due \in BOOLEAN : Tick(due)
  \/ net_output
  \/ UNCHANGED vars

(* Every entry point is a step of the invariant that retracts no window.    *)
LEMMA EntryStepped ==
  ASSUME IInv, Entry
  PROVE  /\ \E d : Stepped(Here, d) /\ Become(d)
         /\ iss' \in Nat
<1> DEFINE c == Here
<1>1. /\ Good(c) /\ c.f = flow /\ c.out = out /\ c.h = host /\ Alive(flow)
      /\ iss \in Nat /\ iss + ISS_STRIDE \in Nat
  BY SizesAssumption DEF IInv, Here
<1>2. RightEdge(flow) >= RightEdge(flow)
  BY <1>1, SelfEdge
<1>3. Stepped(c, c)
  BY <1>1, <1>2 DEF Stepped
<1> HIDE DEF c
<1>4. ASSUME NEW s \in Segment, InputSyn(s)
      PROVE  (\E d : Stepped(c, d) /\ Become(d)) /\ iss' \in Nat
  <2> DEFINE b == [f |-> SynFlow(s, iss'), out |-> out, h |-> NewSocket]
  <2>1. ~flow.used /\ iss' \in Nat /\ s \in Segment
    BY <1>1, <1>4 DEF InputSyn
  <2>2. Good(b) /\ b.f.used
    BY <1>1, <2>1, SynGood DEF Good
  <2> HIDE DEF b
  <2>3. CASE \E d \in net_tcp_tick(b, FALSE) : Become(d)
    <3>1. PICK d \in net_tcp_tick(b, FALSE) : Become(d)
      BY <2>3
    <3>2. Ticked(b, d)
      BY <2>2, TickTicked
    <3> QED BY <1>1, <2>1, <2>2, <3>1, <3>2, TickedStepped
  <2>4. CASE Become(tcp_abort(b))
    <3>1. Ticked(b, tcp_abort(b))
      BY <2>2, AbortTicked
    <3> QED BY <1>1, <2>1, <2>2, <2>4, <3>1, TickedStepped
  <2> QED BY <1>4, <2>1, <2>3, <2>4 DEF InputSyn, b
<1>5. ASSUME NEW s \in Segment, InputUnknown(s)
      PROVE  (\E d : Stepped(c, d) /\ Become(d)) /\ iss' \in Nat
  <2> DEFINE d == tcp_reject(c, s)
  <2>1. Become(d) /\ iss' = iss /\ s \in Segment
    BY <1>5 DEF InputUnknown, c
  <2>2. c \in Context
    <3>1. c.f \in Flow /\ c.out \in Seq(Segment) /\ c.h \in HostSocket
      BY <1>1 DEF Good, FlowOK, HostOK, RingOK
    <3> QED BY <3>1 DEF c, Here, Context
  <2>3. d.f = c.f /\ d.h = c.h /\ RingOK(d.out)
    BY <1>1, <2>1, <2>2, RejectGood
  <2> HIDE DEF d
  <2>4. Good(d) /\ d.f = flow
    BY <1>1, <2>3 DEF Good
  <2>5. Stepped(c, d)
    BY <1>1, <1>2, <2>4 DEF Stepped
  <2> QED BY <1>1, <2>1, <2>5
<1>6. ASSUME NEW s \in Segment, InputReset(s)
      PROVE  (\E d : Stepped(c, d) /\ Become(d)) /\ iss' \in Nat
  <2>1. Ticked(c, net_flow_free(c, "reset"))
    BY <1>1, FreeTicked DEF Fates
  <2>2. Stepped(c, net_flow_free(c, "reset"))
    BY <1>1, <1>2, <2>1, TickedStepped
  <2> QED BY <1>1, <1>6, <2>2 DEF InputReset, c
<1>7. ASSUME NEW s \in Segment, InputSynAgain(s)
      PROVE  (\E d : Stepped(c, d) /\ Become(d)) /\ iss' \in Nat
  <2> DEFINE d == tcp_out(c, {"SYN", "ACK"}, flow.snd_una, << >>)
  <2>1. iss' = iss /\ \/ Become(tcp_abort(c))
                      \/ Become(c)
                      \/ flow.state = "SYN_RCVD" /\ Become(d)
    BY <1>7 DEF InputSynAgain, c
  <2>2. Stepped(c, tcp_abort(c))
    <3>1. Ticked(c, tcp_abort(c))
      BY <1>1, AbortTicked
    <3> QED BY <1>1, <1>2, <3>1, TickedStepped
  <2>3. ASSUME flow.state = "SYN_RCVD" PROVE Stepped(c, d)
    <3>1. /\ c.f \in Flow /\ Len(c.f.rxbuf) <= NET_TCP_RXBUF /\ RingOK(c.out)
          /\ flow.snd_una \in Nat /\ << >> \in Seq(Nat) /\ {"SYN", "ACK"} \in SUBSET Flags
      BY <1>1 DEF Good, FlowOK, Flow, Bounded, Flags
    <3>2. Queued(c, d)
      BY <3>1, OutQueues
    <3> HIDE DEF d
    <3>3. Good(d)
      BY <1>1, <3>2, QueuedGood
    <3>4. d.f.rcv_nxt = flow.rcv_nxt /\ d.f.rxbuf = flow.rxbuf /\ d.f.state = "SYN_RCVD"
      BY <1>1, <2>3, <3>1, <3>2 DEF Queued, Flow
    <3> QED BY <1>1, <1>2, <3>3, <3>4 DEF Stepped, Alive, Timed, RightEdge
  <2> QED BY <1>1, <1>3, <2>1, <2>2, <2>3
<1>8. ASSUME NEW s \in Segment, InputAck(s)
      PROVE  (\E d : Stepped(c, d) /\ Become(d)) /\ iss' \in Nat
  <2> DEFINE f == Acked(flow, s)
             b == With(c, Absorbed(flow, s))
  <2>1. iss' = iss /\ s \in Segment /\ flow.used
    BY <1>8 DEF InputAck
  <2>2. CASE (f.state = "SYN_RCVD" /\ f.snd_una < f.snd_nxt) /\ Become(With(c, f))
    <3>1. /\ Good(With(c, f)) /\ f.rcv_nxt = flow.rcv_nxt /\ f.rxbuf = flow.rxbuf
      BY <1>1, <2>1, AckedGood
    <3>2. With(c, f).f = f
      BY DEF With
    <3> HIDE DEF f
    <3>3. Stepped(c, With(c, f))
      BY <1>1, <1>2, <2>2, <3>1, <3>2 DEF Stepped, Alive, Timed, RightEdge
    <3> QED BY <1>1, <2>1, <2>2, <3>3
  <2>3. CASE /\ ~(f.state = "SYN_RCVD" /\ f.snd_una < f.snd_nxt)
             /\ \E due \in BOOLEAN : \E d \in net_tcp_tick(b, due) : Become(d)
    <3>1. PICK due \in BOOLEAN : \E d \in net_tcp_tick(b, due) : Become(d)
      BY <2>3
    <3>2. PICK d \in net_tcp_tick(b, due) : Become(d)
      BY <3>1
    <3>3. Good(b) /\ b.f.used /\ RightEdge(b.f) >= RightEdge(c.f)
      <4>1. With(c, Absorbed(flow, s)).f = Absorbed(flow, s)
        BY DEF With
      <4> QED BY <1>1, <2>1, <2>3, <4>1, AbsorbedGood
    <3> HIDE DEF b
    <3>4. Ticked(b, d)
      BY <3>2, <3>3, TickTicked
    <3> QED BY <1>1, <2>1, <3>2, <3>3, <3>4, TickedStepped
  <2> QED BY <1>8, <2>2, <2>3 DEF InputAck, c
<1>9. ASSUME NEW due \in BOOLEAN, Tick(due)
      PROVE  (\E d : Stepped(c, d) /\ Become(d)) /\ iss' \in Nat
  <2>1. PICK d \in net_tcp_tick(c, due) : Become(d)
    BY <1>9 DEF Tick, c
  <2>2. iss' = iss
    BY <1>9 DEF Tick
  <2>3. CASE ~flow.used
    <3>1. d = c
      BY <1>1, <2>3 DEF net_tcp_tick
    <3> QED BY <1>1, <1>3, <2>1, <2>2, <3>1
  <2>4. CASE flow.used
    <3>1. Ticked(c, d)
      BY <1>1, <2>1, <2>4, TickTicked
    <3>2. Stepped(c, d)
      BY <1>1, <1>2, <3>1, TickedStepped
    <3> QED BY <1>1, <2>1, <2>2, <3>2
  <2> QED BY <2>3, <2>4
<1>10. ASSUME net_output
       PROVE  (\E d : Stepped(c, d) /\ Become(d)) /\ iss' \in Nat
  <2> DEFINE d == [f |-> flow, out |-> out', h |-> host]
  <2>1. out # << >> /\ out' = Tail(out) /\ flow' = flow /\ host' = host /\ iss' = iss
    BY <1>10 DEF net_output
  <2>2. out \in Seq(Segment) /\ Len(out) <= NET_OUT_SLOTS
    BY <1>1 DEF Good, RingOK
  <2>3. Tail(out) \in Seq(Segment) /\ Len(Tail(out)) = Len(out) - 1
    BY <2>1, <2>2, HeadTailProperties
  <2>4. Len(Tail(out)) <= NET_OUT_SLOTS
    <3> DEFINE n == Len(out)
               m == Len(Tail(out))
    <3>1. n \in Nat /\ n <= NET_OUT_SLOTS /\ m = n - 1
      BY <2>2, <2>3
    <3> HIDE DEF n, m
    <3>2. m <= NET_OUT_SLOTS
      BY <3>1, SizesAssumption
    <3> QED BY <3>2 DEF m
  <2>5. RingOK(d.out) /\ d.f = flow /\ d.h = host
    BY <2>1, <2>3, <2>4 DEF RingOK
  <2> HIDE DEF d
  <2>6. Stepped(c, d)
    BY <1>1, <1>2, <2>5 DEF Stepped, Good
  <2>7. Become(d)
    BY <2>1 DEF Become, d
  <2> QED BY <1>1, <2>1, <2>6, <2>7
<1>11. ASSUME UNCHANGED vars
       PROVE  (\E d : Stepped(c, d) /\ Become(d)) /\ iss' \in Nat
  BY <1>1, <1>3, <1>11 DEF vars, Become
<1>12. ASSUME NEW s \in Segment, InputNoAck(s)
       PROVE  (\E d : Stepped(c, d) /\ Become(d)) /\ iss' \in Nat
  BY <1>11, <1>12 DEF InputNoAck
<1> QED BY <1>4, <1>5, <1>6, <1>7, <1>8, <1>9, <1>10, <1>11, <1>12
        DEF Entry, net_tcp_input, c

(* The steps of the specification are among them. *)
LEMMA NextStepped ==
  ASSUME IInv, [Next]_vars
  PROVE  /\ \E d : Stepped(Here, d) /\ Become(d)
         /\ iss' \in Nat
<1>1. Entry
  BY InputAssumption DEF Next, Entry
<1> QED BY <1>1, EntryStepped

---------------------------------------------------------------------------
(* The theorems.                                                            *)

(* The invariant is inductive: net_tcp_input and net_tcp_tick preserve it
   whatever the segment, the host socket and the deadlines.                *)
THEOREM Invariance == Spec => []IInv
<1>1. IInv /\ [Next]_vars => IInv'
  <2> SUFFICES ASSUME IInv, [Next]_vars PROVE IInv'
    OBVIOUS
  <2>1. PICK d : Stepped(Here, d) /\ Become(d)
    BY NextStepped
  <2>2. iss' \in Nat
    BY NextStepped
  <2>3. Here' = [f |-> d.f, out |-> d.out, h |-> d.h] /\ flow' = d.f
    BY <2>1 DEF Become, Here
  <2>4. Good(Here')
    BY <2>1, <2>3 DEF Stepped, Good
  <2>5. Alive(flow')
    BY <2>1, <2>3 DEF Stepped
  <2> QED BY <2>2, <2>4, <2>5 DEF IInv
<1> QED BY InitIInv, <1>1, PTL DEF Spec

(* Every field keeps its type and the ring of datagrams for the guest never
   holds more than its slots: net_emit drops instead of overrunning it.     *)
THEOREM TypeCorrect == Spec => []TypeOK
<1>1. IInv => TypeOK
  BY DEF IInv, Good, FlowOK, HostOK, RingOK, TypeOK, Here
<1> QED BY <1>1, Invariance, PTL

(* tcp_timers leaves no flow that owes the guest octets or a FIN without a
   deadline: no lost datagram and no closed window stalls it for good.      *)
THEOREM Deadlines == Spec => []NoSilentStall
<1>1. IInv => NoSilentStall
  BY DEF IInv, Alive, Timed, NoSilentStall
<1> QED BY <1>1, Invariance, PTL

(* Back-pressure buffers and never discards: what the ACK number has told
   the guest is at the host socket or in rxbuf.                             *)
THEOREM AcknowledgedKept == Spec => []AckedOctetsKept
<1>1. IInv => AckedOctetsKept
  BY DEF IInv, Alive, Good, HostOK, Kept, AckedOctetsKept, Here
<1> QED BY <1>1, Invariance, PTL

(* shutdown_tx follows the guest's FIN and the last octet before it.        *)
THEOREM HalfClose == Spec => []HalfCloseAfterFlush
<1>1. IInv => HalfCloseAfterFlush
  BY DEF IInv, Alive, Good, HostOK, Flushed, HalfCloseAfterFlush, Here
<1> QED BY <1>1, Invariance, PTL

(* snd_una and snd_nxt stay inside what tcp_pump has to send, so the FIN is
   sent once, last, and never again once it is acknowledged.                *)
THEOREM PointersInside == Spec => []SendPointers
<1>1. IInv => SendPointers
  BY DEF IInv, Good, FlowOK, Pointers, SendPointers, Here
<1> QED BY <1>1, Invariance, PTL

(* txbuf, rxbuf and the retransmission count stay inside their bounds, so
   no memcpy of tcp.c writes past a buffer and R2 ends a dead flow.         *)
THEOREM Bounds == Spec => []BuffersBounded
<1>1. IInv => BuffersBounded
  BY DEF IInv, Good, FlowOK, Bounded, BuffersBounded, Here
<1> QED BY <1>1, Invariance, PTL

(* "It cannot retract": the right edge of the window tcp_out offers never
   moves left while the flow lives.                                         *)
THEOREM NoRetraction == Spec => WindowNeverRetracts
<1>1. IInv /\ [Next]_vars =>
        [flow.used /\ flow'.used => RightEdge(flow') >= RightEdge(flow)]_vars
  <2> SUFFICES ASSUME IInv, [Next]_vars, flow.used, flow'.used
               PROVE  RightEdge(flow') >= RightEdge(flow)
    OBVIOUS
  <2>1. PICK d : Stepped(Here, d) /\ Become(d)
    BY NextStepped
  <2>2. Here.f = flow /\ d.f = flow'
    BY <2>1 DEF Become, Here
  <2> QED BY <2>1, <2>2 DEF Stepped
<1> QED BY <1>1, Invariance, PTL DEF Spec, WindowNeverRetracts

---------------------------------------------------------------------------
(* The link.                                                                *)
(*                                                                         *)
(* LInv is the invariant of a connection between the endpoint and the guest *)
(* of NetTcpLink.  The guest enters a context of tcp.c only through a view  *)
(* p of it: our initial sequence number, where the host's stream begins,    *)
(* how far the guest has received, the right edge of its window, whether it *)
(* has our FIN and whether it has sent its own.  A view only grows, so what *)
(* a context owes it stays paid.                                            *)
(*                                                                         *)
(* The origin o of a view is the sequence number before the host's first    *)
(* octet.  RFC 793 puts it at our initial number i, and i - 1 is where the  *)
(* code has it while the SYN is not counted: buffered octets start at       *)
(* snd_una, and snd_una is still i.  An ACK of the SYN that finds octets in *)
(* txbuf, or snd_nxt rewound, leaves it there for good, and the guest then  *)
(* takes the first octet for its copy of the SYN.                           *)

(* What tcp.c can know of a guest g, when our initial number is i.           *)
View(g, i, o) ==
  [iss  |-> i, org |-> o, rcv |-> g.rcv,
   edge |-> IF g.rcv = 0 THEN i + 1 + GuestBuf ELSE g.rcv + GuestBuf - g.unread,
   fin  |-> g.fin, done |-> (g.nxt = FinSeq + 1)]

ViewOK(p) ==
  /\ p.iss \in Nat /\ p.org \in Nat /\ p.rcv \in Nat /\ p.edge \in Nat
  /\ p.org <= p.iss /\ p.iss <= p.org + 1
  /\ HostLen # 0 /\ p.rcv > p.org + 1 + HostLen => p.fin

Grows(p, q) ==
  /\ q.iss = p.iss /\ q.org = p.org /\ p.rcv <= q.rcv /\ p.edge <= q.edge
  /\ p.fin => q.fin
  /\ p.done => q.done

(* A datagram toward the guest: inside its window, or the octet of a probe;
   cut from the host's stream, the FIN after its last octet.  No SYN is of
   a later connection than ours, and nothing but SYNs precedes the guest's
   answer to ours.                                                          *)
CutFromStream(p, h, s) ==
  /\ s.data # << >> =>
       /\ p.org + 1 <= s.seq
       /\ s.seq + Len(s.data) <= p.org + 1 + h.read
       /\ \A i \in 1 .. Len(s.data) : s.data[i] = s.seq - p.org - 1 + i
  /\ "FIN" \in s.flags =>
       /\ s.data = << >> /\ h.read = HostLen
       /\ HostLen # 0 => s.seq = p.org + 1 + HostLen

Sent(p, h) ==
  {s \in Segment :
     /\ "SYN" \in s.flags =>
          /\ s.data = << >> /\ "FIN" \notin s.flags /\ s.seq <= p.iss
          /\ s.seq = p.iss => h.ready
     /\ "FIN" \in s.flags \/ s.data # << >> => h.ready /\ p.rcv # 0
     /\ s.data # << >> => \/ s.seq + Len(s.data) <= p.edge
                          \/ s.seq + Len(s.data) <= p.rcv + 1
     /\ CutFromStream(p, h, s)}

(* The slot: its window ends where the guest's does, and no acknowledgement
   was accepted that the guest did not give.                                *)
Paced(p, f, h) ==
  f.used =>
    /\ f.snd_una + f.snd_wnd <= p.edge
    /\ f.state = "SYN_RCVD" =>
         f.snd_una = p.iss /\ (f.snd_nxt # f.snd_una => h.ready)
    /\ f.state # "SYN_RCVD" => h.ready /\ f.snd_una <= p.rcv

(* txbuf is what was read from the host and not acknowledged by the guest.  *)
Buffered(p, f, h) ==
  f.used =>
    /\ ~FinAcked(f.state) =>
         /\ p.org + 1 <= f.snd_una
         /\ h.read = f.snd_una - p.org - 1 + Len(f.txbuf)
         /\ \A i \in 1 .. Len(f.txbuf) : f.txbuf[i] = f.snd_una - p.org - 1 + i
    /\ FinAcked(f.state) =>
         f.txbuf = << >> /\ f.host_eof /\ (p.fin \/ HostLen = 0)
    /\ f.fin_sent => f.host_eof
    /\ f.host_eof => h.read = HostLen
    /\ Told(f.state) => p.done

(* A slot freed as cleanly closed had both ends told.                       *)
Ended(p, h) ==
  /\ h.read <= HostLen
  /\ h.fate = "closed" => (p.fin \/ HostLen = 0) /\ p.done

Linked(p, c) ==
  /\ Paced(p, c.f, c.h)
  /\ Buffered(p, c.f, c.h)
  /\ Ended(p, c.h)
  /\ c.out \in Seq(Sent(p, c.h))

(* What a tick leaves the rest of the link to rely on.                      *)
LinkTicked(p, c, d) ==
  /\ Linked(p, d)
  /\ c.h.ready => d.h.ready
  /\ c.h.read <= d.h.read
  /\ d.f.used => d.f.snd_una = c.f.snd_una

(* net_emit queues some of the segments it is given and no other. *)
LEMMA EmitSent ==
  ASSUME NEW c, NEW S, c.out \in Seq(S), RingOK(c.out), NEW segs \in Seq(S)
  PROVE  net_emit(c, segs).out \in Seq(S)
<1> DEFINE room == NET_OUT_SLOTS - Len(c.out)
           n    == Least(room, Len(segs))
<1>1. room \in Nat /\ Len(segs) \in Nat
  BY SizesAssumption DEF RingOK
<1> HIDE DEF room
<1>2. n \in Nat /\ n <= Len(segs)
  BY <1>1 DEF Least
<1> HIDE DEF n
<1>3. \A i \in 1 .. n : segs[i] \in S
  BY <1>1, <1>2, ElementOfSeq
<1>4. SubSeq(segs, 1, n) \in Seq(S)
  BY <1>2, <1>3, SubSeqProperties
<1>5. c.out \o SubSeq(segs, 1, n) \in Seq(S)
  BY <1>4, ConcatProperties
<1> QED BY <1>5 DEF net_emit, n, room

(* ... and tcp_out the one segment it builds. *)
LEMMA OutSent ==
  ASSUME NEW c, NEW S, c.out \in Seq(S), RingOK(c.out), NEW flags, NEW seq, NEW data,
         SegmentOut(c.f, flags, seq, data) \in S
  PROVE  tcp_out(c, flags, seq, data).out \in Seq(S)
<1> DEFINE s == SegmentOut(c.f, flags, seq, data)
<1> HIDE DEF s
<1>1. <<s>> \in Seq(S)
  BY DEF s
<1>2. net_emit(c, <<s>>).out \in Seq(S)
  BY <1>1, EmitSent
<1> QED BY <1>2 DEF tcp_out, s

(* A segment with neither SYN, FIN nor data can always be sent. *)
LEMMA BareSent ==
  ASSUME NEW p, NEW h, NEW s \in Segment,
         "SYN" \notin s.flags, "FIN" \notin s.flags, s.data = << >>
  PROVE  s \in Sent(p, h)
BY DEF Sent, CutFromStream

(* What was sent stays inside what may be sent. *)
LEMMA SentGrows ==
  ASSUME NEW p, NEW q, ViewOK(p), ViewOK(q), Grows(p, q), NEW g, NEW h,
         g.ready => h.ready, g.read \in Nat, h.read \in Nat, g.read <= h.read,
         h.read <= HostLen
  PROVE  Sent(p, g) \subseteq Sent(q, h)
<1> SUFFICES ASSUME NEW s \in Sent(p, g) PROVE s \in Sent(q, h)
  OBVIOUS
<1> DEFINE end == s.seq + Len(s.data)
<1>1. s \in Segment /\ s.seq \in Nat /\ s.data \in Seq(Nat) /\ end \in Nat
  BY DEF Sent, Segment
<1>2. s.data # << >> => end <= q.edge \/ end <= q.rcv + 1
  <2>1. s.data # << >> => end <= p.edge \/ end <= p.rcv + 1
    BY DEF Sent
  <2> HIDE DEF end
  <2> QED BY <1>1, <2>1, SMTT(30) DEF ViewOK, Grows
<1>3. CutFromStream(q, h, s)
  <2>1. CutFromStream(p, g, s) /\ q.org = p.org /\ p.org \in Nat
    BY DEF Sent, Grows, ViewOK
  <2>2. s.data # << >> => end <= q.org + 1 + h.read
    <3>1. s.data # << >> => end <= p.org + 1 + g.read
      BY <2>1 DEF CutFromStream
    <3> HIDE DEF end
    <3> QED BY <1>1, <2>1, <3>1
  <2>3. "FIN" \in s.flags => h.read = HostLen
    BY <2>1, SizesAssumption DEF CutFromStream
  <2> QED BY <2>1, <2>2, <2>3 DEF CutFromStream
<1>4. p.rcv # 0 => q.rcv # 0
  BY DEF ViewOK, Grows
<1>5. /\ "SYN" \in s.flags =>
           /\ s.data = << >> /\ "FIN" \notin s.flags /\ s.seq <= q.iss
           /\ s.seq = q.iss => h.ready
      /\ "FIN" \in s.flags \/ s.data # << >> => h.ready /\ q.rcv # 0
  BY <1>4 DEF Sent, Grows
<1> QED BY <1>1, <1>2, <1>3, <1>5 DEF Sent

(* Every segment of one pass of tcp_pump is in a set that holds every cut of
   txbuf the pass can make. *)
LEMMA CutSegments ==
  ASSUME NEW f, NEW sent \in Nat, NEW n \in Nat, NEW S,
         \A a, b \in Nat : b <= n =>
           SegmentOut(f, {"ACK"}, f.snd_nxt + a,
                      SubSeq(f.txbuf, sent + a + 1, sent + b)) \in S
  PROVE  [i \in 1 .. (n + MSS - 1) \div MSS |->
            SegmentOut(f, {"ACK"}, f.snd_nxt + (i - 1) * MSS,
                       SubSeq(f.txbuf, sent + (i - 1) * MSS + 1,
                              sent + Least(i * MSS, n)))] \in Seq(S)
<1> DEFINE k == (n + MSS - 1) \div MSS
           e(i) == SegmentOut(f, {"ACK"}, f.snd_nxt + (i - 1) * MSS,
                              SubSeq(f.txbuf, sent + (i - 1) * MSS + 1,
                                     sent + Least(i * MSS, n)))
<1>1. k \in Nat
  BY SizesAssumption, QuotientNat
<1>2. ASSUME NEW i \in 1 .. k
      PROVE  e(i) \in S
  <2>1. MSS \in Nat /\ i \in Nat /\ i - 1 \in Nat
    BY <1>1, SizesAssumption
  <2>2. (i - 1) * MSS \in Nat /\ i * MSS \in Nat
    BY <2>1, ProductNat
  <2> DEFINE a == (i - 1) * MSS
             m == i * MSS
             b == Least(m, n)
  <2> HIDE DEF a, m
  <2>3. a \in Nat /\ b \in Nat /\ b <= n
    BY <2>2 DEF a, m, Least
  <2> HIDE DEF b
  <2>4. SegmentOut(f, {"ACK"}, f.snd_nxt + a,
                   SubSeq(f.txbuf, sent + a + 1, sent + b)) \in S
    BY <2>3
  <2> QED BY <2>4 DEF a, b, m
<1> HIDE DEF k, e
<1>3. [i \in 1 .. k |-> e(i)] \in Seq(S)
  BY <1>1, <1>2, IsASeq
<1> QED BY <1>3 DEF k, e

(* The cuts are octets of the host's stream, inside the guest's window.     *)
LEMMA CutSent ==
  ASSUME NEW p, ViewOK(p), NEW c, Good(c), c.f.used, Pumps(c.f.state), Linked(p, c),
         NEW sent \in Nat, sent <= Len(c.f.txbuf),
         sent < Len(c.f.txbuf) => c.f.snd_nxt = c.f.snd_una + sent,
         NEW n \in Nat,
         n > 0 => /\ sent + n <= Len(c.f.txbuf) /\ sent + n <= c.f.snd_wnd,
         NEW a \in Nat, NEW b \in Nat, b <= n
  PROVE  SegmentOut(c.f, {"ACK"}, c.f.snd_nxt + a,
                    SubSeq(c.f.txbuf, sent + a + 1, sent + b)) \in Sent(p, c.h)
<1> DEFINE f   == c.f
           nxt == f.snd_nxt
           una == f.snd_una
           wnd == f.snd_wnd
           q   == f.txbuf
           len == Len(q)
           cut == SubSeq(q, sent + a + 1, sent + b)
           s   == SegmentOut(f, {"ACK"}, nxt + a, cut)
<1>1. /\ f \in Flow /\ nxt \in Nat /\ una \in Nat /\ wnd \in Nat /\ q \in Seq(Nat)
      /\ len \in Nat /\ Len(f.rxbuf) <= NET_TCP_RXBUF
  BY DEF Good, FlowOK, Flow, Bounded
<1>2. /\ p.org \in Nat /\ p.edge \in Nat /\ una + wnd <= p.edge /\ c.h.ready
  BY DEF ViewOK, Linked, Paced, Pumps
<1>3. nxt + a \in Nat /\ {"ACK"} \in SUBSET Flags
  BY <1>1 DEF Flags
<1>4. s.flags = {"ACK"} /\ s.seq = nxt + a /\ s.data = cut
  BY DEF SegmentOut
<1>5. CASE b <= a
  <2>1. cut = << >>
    <3>1. sent + a + 1 \in Int /\ sent + b \in Int /\ sent + b < sent + a + 1
      BY <1>5
    <3> HIDE DEF q
    <3> QED BY <3>1, SubSeqEmpty
  <2>2. s \in Segment
    <3>1. cut \in Seq(Nat)
      BY <2>1, EmptySeq
    <3> HIDE DEF cut
    <3> QED BY <1>1, <1>3, <3>1, SegmentTyped
  <2> HIDE DEF s
  <2> QED BY <1>4, <2>1, <2>2, BareSent DEF s
<1>6. CASE a < b
  <2>1. /\ nxt = una + sent /\ sent + n <= len /\ sent + n <= wnd
    <3>1. n > 0
      BY <1>6
    <3> HIDE DEF nxt, una, len, wnd
    <3>2. sent < len
      BY <1>1, <3>1 DEF len, q, f
    <3> QED BY <3>1, <3>2 DEF nxt, una, len, wnd, q, f
  <2>2. \A i \in sent + a + 1 .. sent + b : i \in 1 .. len
    <3> HIDE DEF len, q
    <3> QED BY <1>1, <2>1
  <2>3. \A i \in sent + a + 1 .. sent + b : q[i] \in Nat
    <3> HIDE DEF q
    <3> QED BY <1>1, <2>2, ElementOfSeq DEF len
  <2>4. /\ cut \in Seq(Nat)
        /\ Len(cut) = b - a
        /\ \A i \in 1 .. b - a : cut[i] = q[sent + a + i]
    <3> HIDE DEF q
    <3>1. sent + a + 1 \in Int /\ sent + b \in Int
      BY <1>1
    <3>2. /\ cut \in Seq(Nat)
          /\ Len(cut) = IF sent + a + 1 <= sent + b
                        THEN (sent + b) - (sent + a + 1) + 1 ELSE 0
          /\ \A i \in 1 .. (sent + b) - (sent + a + 1) + 1 :
               cut[i] = q[(sent + a + 1) + i - 1]
      BY <2>3, <3>1, SubSeqProperties
    <3> HIDE DEF cut
    <3>3. (sent + b) - (sent + a + 1) + 1 = b - a /\ sent + a + 1 <= sent + b
      BY <1>6
    <3>4. \A i \in 1 .. b - a : (sent + a + 1) + i - 1 = sent + a + i
      BY <1>6
    <3> QED BY <3>2, <3>3, <3>4
  <2>5. s \in Segment
    <3> HIDE DEF cut
    <3> QED BY <1>1, <1>3, <2>4, SegmentTyped
  <2>6. s.seq + Len(s.data) = una + sent + b
    <3> HIDE DEF cut, nxt, una
    <3>1. nxt + a + (b - a) = una + sent + b
      BY <1>1, <1>6, <2>1
    <3> QED BY <1>4, <2>4, <3>1
  <2>7. una + sent + b <= p.edge
    <3> HIDE DEF una, wnd, nxt, len, q
    <3> QED BY <1>1, <1>2, <2>1
  <2>8. CutFromStream(p, c.h, s) /\ p.rcv # 0
    <3>1. /\ ~FinAcked(f.state) /\ f.state # "SYN_RCVD"
          /\ Buffered(p, f, c.h)
      <4>1. ~(f.txbuf = << >>)
        <5>1. len > 0
          <6> HIDE DEF len
          <6> QED BY <1>1, <1>6, <2>1
        <5> QED BY <5>1
      <4> QED BY <4>1 DEF Linked, Buffered, Pumps
    <3>2. /\ p.org + 1 <= una
          /\ c.h.read = una - p.org - 1 + len
          /\ \A i \in 1 .. len : q[i] = una - p.org - 1 + i
      BY <3>1 DEF Buffered
    <3>3. una + sent + b <= p.org + 1 + c.h.read
      <4> DEFINE rd == c.h.read
      <4> HIDE DEF una, wnd, len, q, nxt, rd
      <4>1. rd = una - p.org - 1 + len
        BY <3>2 DEF rd, len
      <4>2. una + sent + b <= p.org + 1 + rd
        BY <1>1, <1>2, <2>1, <4>1, SMTT(30)
      <4> QED BY <4>2 DEF rd
    <3>4. \A i \in 1 .. b - a : cut[i] = (nxt + a) - p.org - 1 + i
      <4> SUFFICES ASSUME NEW i \in 1 .. b - a
                   PROVE  cut[i] = (nxt + a) - p.org - 1 + i
        OBVIOUS
      <4>1. cut[i] = q[sent + a + i]
        BY <2>4
      <4>2. sent + a + i \in 1 .. len
        <5> HIDE DEF len
        <5> QED BY <1>1, <1>6, <2>1
      <4>3. q[sent + a + i] = una - p.org - 1 + (sent + a + i)
        BY <3>2, <4>2
      <4>4. una - p.org - 1 + (sent + a + i) = (nxt + a) - p.org - 1 + i
        <5> DEFINE k == p.org
        <5>1. k \in Nat /\ i \in Int /\ nxt = una + sent
          BY <1>2, <2>1
        <5> HIDE DEF una, nxt, k
        <5>2. una - k - 1 + (sent + a + i) = (nxt + a) - k - 1 + i
          BY <1>1, <5>1
        <5> QED BY <5>2 DEF k
      <4> QED BY <4>1, <4>3, <4>4
    <3>5. s.seq + Len(s.data) <= p.org + 1 + c.h.read
      BY <2>6, <3>3
    <3>8. p.org + 1 <= s.seq
      <4>1. s.seq = nxt + a /\ nxt = una + sent
        BY <1>4, <2>1
      <4> DEFINE k == p.org
      <4> HIDE DEF una, s, nxt, k
      <4>2. k + 1 <= una
        BY <3>2 DEF k
      <4>3. k + 1 <= nxt + a
        BY <1>1, <1>2, <4>1, <4>2 DEF k
      <4> QED BY <4>1, <4>3 DEF k
    <3>9. p.rcv # 0
      <4>1. una <= p.rcv /\ p.rcv \in Nat
        BY <3>1 DEF Linked, Paced, ViewOK
      <4> HIDE DEF una
      <4> QED BY <1>1, <1>2, <3>2, <4>1
    <3> HIDE DEF s, cut, nxt
    <3>6. "FIN" \notin s.flags
      BY <1>4
    <3>7. \A i \in 1 .. Len(s.data) : s.data[i] = s.seq - p.org - 1 + i
      <4> SUFFICES ASSUME NEW i \in 1 .. Len(s.data)
                   PROVE  s.data[i] = s.seq - p.org - 1 + i
        OBVIOUS
      <4>1. i \in 1 .. b - a
        BY <1>4, <2>4
      <4>2. s.data[i] = cut[i]
        BY <1>4
      <4>3. cut[i] = (nxt + a) - p.org - 1 + i
        BY <3>4, <4>1
      <4> QED BY <1>4, <4>2, <4>3, Zenon
    <3> QED BY <3>5, <3>6, <3>7, <3>8, <3>9 DEF CutFromStream
  <2>9. s.seq + Len(s.data) <= p.edge
    BY <2>6, <2>7
  <2>10. "SYN" \notin s.flags
    BY <1>4
  <2>11. s \in Sent(p, c.h)
    <3> HIDE DEF s
    <3> QED BY <1>2, <2>5, <2>8, <2>9, <2>10 DEF Sent
  <2> QED BY <2>11
<1> QED BY <1>5, <1>6

(* The segment loop of tcp_pump sends only such cuts. *)
LEMMA PumpDataSent ==
  ASSUME NEW p, ViewOK(p), NEW c, Good(c), c.f.used, Pumps(c.f.state), Linked(p, c)
  PROVE  PumpData(c).out \in Seq(Sent(p, c.h))
<1> DEFINE f    == c.f
           sent == tcp_inflight(f)
           n    == IF Len(f.txbuf) > sent THEN Least(Len(f.txbuf) - sent,
                                                     SendWindow(f, sent))
                                          ELSE 0
           segs == [i \in 1 .. (n + MSS - 1) \div MSS |->
                      SegmentOut(f, {"ACK"}, f.snd_nxt + (i - 1) * MSS,
                                 SubSeq(f.txbuf, sent + (i - 1) * MSS + 1,
                                        sent + Least(i * MSS, n)))]
<1>1. /\ sent \in Nat /\ sent <= Len(f.txbuf)
      /\ sent < Len(f.txbuf) => f.snd_nxt = f.snd_una + sent
  <2>1. FlowOK(f) /\ f.state # "SYN_RCVD"
    BY DEF Good, Pumps
  <2> HIDE DEF f
  <2> QED BY <2>1, InflightBounds
<1> HIDE DEF sent
<1>2. /\ n \in Nat
      /\ n > 0 => sent + n <= Len(f.txbuf) /\ sent + n <= f.snd_wnd
  <2> DEFINE len == Len(f.txbuf)
             wnd == f.snd_wnd
  <2>1. len \in Nat /\ sent \in Nat /\ wnd \in Nat
    BY <1>1, SMTT(30) DEF Good, FlowOK, Flow
  <2> HIDE DEF len, wnd
  <2> DEFINE win == IF wnd > sent THEN wnd - sent ELSE 0
             m == IF len > sent THEN Least(len - sent, win) ELSE 0
  <2>2. m \in Nat /\ (m > 0 => sent + m <= len /\ sent + m <= wnd)
    BY <2>1 DEF Least
  <2> QED BY <2>2 DEF len, wnd, SendWindow
<1> HIDE DEF n
<1>3. ASSUME NEW a \in Nat, NEW b \in Nat, b <= n
      PROVE  SegmentOut(f, {"ACK"}, f.snd_nxt + a,
                        SubSeq(f.txbuf, sent + a + 1, sent + b)) \in Sent(p, c.h)
  BY <1>1, <1>2, <1>3, CutSent
<1>4. segs \in Seq(Sent(p, c.h))
  <2> HIDE DEF f
  <2> QED BY <1>1, <1>2, <1>3, CutSegments
<1> HIDE DEF segs
<1>5. net_emit(c, segs).out \in Seq(Sent(p, c.h))
  BY <1>4, EmitSent DEF Linked, Good
<1> QED BY <1>5 DEF PumpData, With, segs, n, sent

(* What transmission leaves alone is all that the link relies on, the ring
   apart. *)
LEMMA CarriedLinked ==
  ASSUME NEW p, ViewOK(p), NEW c, NEW d, Good(c), Carried(c, d), Linked(p, c),
         c.f.state = "SYN_RCVD" => d.f.snd_nxt = c.f.snd_nxt,
         d.out \in Seq(Sent(p, c.h))
  PROVE  LinkTicked(p, c, d)
<1>1. Paced(p, d.f, d.h)
  BY DEF Linked, Paced, Carried
<1>2. Buffered(p, d.f, d.h) /\ Ended(p, d.h)
  BY DEF Linked, Buffered, Ended, Carried
<1>3. c.h.read \in Nat
  BY DEF Good, HostOK, HostSocket
<1> QED BY <1>1, <1>2, <1>3 DEF LinkTicked, Linked, Carried

(* Two ticks in a row. *)
LEMMA TickedTwice ==
  ASSUME NEW p, NEW b, NEW c, NEW d, LinkTicked(p, b, c), LinkTicked(p, c, d),
         d.f.used => c.f.used, Good(b), Good(c), Good(d)
  PROVE  LinkTicked(p, b, d)
<1>1. b.h.read \in Nat /\ c.h.read \in Nat /\ d.h.read \in Nat
  BY DEF Good, HostOK, HostSocket
<1> QED BY <1>1 DEF LinkTicked

(* The FIN of tcp_pump has the sequence number after the last octet. *)
LEMMA PumpFinSent ==
  ASSUME NEW p, ViewOK(p), NEW c, Good(c), c.f.used, Pumps(c.f.state), Linked(p, c)
  PROVE  PumpFin(c).out \in Seq(Sent(p, c.h))
<1> DEFINE f == c.f
           s == SegmentOut(f, {"ACK", "FIN"}, f.snd_nxt, << >>)
<1>1. CASE /\ f.fin_sent /\ f.snd_nxt = f.snd_una + Len(f.txbuf)
           /\ f.state \in FinOutstanding
  <2>1. /\ f \in Flow /\ f.snd_nxt \in Nat /\ Len(f.rxbuf) <= NET_TCP_RXBUF
        /\ << >> \in Seq(Nat) /\ {"ACK", "FIN"} \in SUBSET Flags
    BY DEF Good, FlowOK, Flow, Bounded, Flags
  <2>2. s \in Segment
    BY <2>1, SegmentTyped
  <2>3. s.flags = {"ACK", "FIN"} /\ s.seq = f.snd_nxt /\ s.data = << >>
    BY DEF SegmentOut
  <2>4. c.h.ready
    BY DEF Linked, Paced, Pumps
  <2>5. f.snd_nxt = p.org + 1 + HostLen /\ c.h.read = HostLen /\ p.rcv # 0
    <3>1. ~FinAcked(f.state) /\ f.state # "SYN_RCVD" /\ f.used
      BY <1>1 DEF FinAcked, FinOutstanding
    <3>2. /\ p.org + 1 <= f.snd_una /\ f.snd_una <= p.rcv
          /\ c.h.read = f.snd_una - p.org - 1 + Len(f.txbuf)
          /\ c.h.read = HostLen
      BY <1>1, <3>1 DEF Linked, Paced, Buffered
    <3> DEFINE una == f.snd_una
               len == Len(f.txbuf)
               k   == p.org
               rcv == p.rcv
    <3>3. una \in Nat /\ len \in Nat /\ k \in Nat /\ rcv \in Nat
      BY <2>1, SMTT(30) DEF Flow, ViewOK
    <3>4. una + len = k + 1 + HostLen /\ rcv # 0
      <4>1. HostLen = una - k - 1 + len /\ k + 1 <= una /\ una <= rcv
        BY <3>2
      <4> HIDE DEF una, len, k, rcv
      <4> QED BY <3>3, <4>1, SizesAssumption
    <3> QED BY <1>1, <3>2, <3>4
  <2> HIDE DEF s
  <2>6. s \in Sent(p, c.h)
    BY <2>2, <2>3, <2>4, <2>5 DEF Sent, CutFromStream
  <2>7. tcp_out(c, {"ACK", "FIN"}, f.snd_nxt, << >>).out \in Seq(Sent(p, c.h))
    BY <2>6, OutSent DEF s, Linked, Good
  <2>8. PumpFin(c).out = tcp_out(c, {"ACK", "FIN"}, f.snd_nxt, << >>).out
    BY <1>1 DEF PumpFin, With
  <2> QED BY <2>7, <2>8
<1>2. CASE ~(/\ f.fin_sent /\ f.snd_nxt = f.snd_una + Len(f.txbuf)
             /\ f.state \in FinOutstanding)
  BY <1>2 DEF PumpFin, Linked
<1> QED BY <1>1, <1>2

(* A bare segment at snd_nxt. *)
LEMMA AckSent ==
  ASSUME NEW p, NEW c, Good(c), Linked(p, c), NEW flags \in SUBSET Flags,
         "SYN" \notin flags, "FIN" \notin flags
  PROVE  tcp_out(c, flags, c.f.snd_nxt, << >>).out \in Seq(Sent(p, c.h))
<1> DEFINE s == SegmentOut(c.f, flags, c.f.snd_nxt, << >>)
<1>1. /\ c.f \in Flow /\ c.f.snd_nxt \in Nat /\ Len(c.f.rxbuf) <= NET_TCP_RXBUF
      /\ << >> \in Seq(Nat)
  BY DEF Good, FlowOK, Flow, Bounded
<1>2. s \in Segment
  BY <1>1, SegmentTyped
<1>3. s.flags = flags /\ s.data = << >>
  BY DEF SegmentOut
<1> HIDE DEF s
<1>4. s \in Sent(p, c.h)
  BY <1>2, <1>3, BareSent
<1> QED BY <1>4, OutSent DEF s, Linked, Good

(* tcp_pump: its stages in the order of the code. *)
LEMMA PumpLinked ==
  ASSUME NEW p, ViewOK(p), NEW c, Good(c), c.f.used, c.f.state # "CLOSED", Linked(p, c)
  PROVE  LinkTicked(p, c, tcp_pump(c))
<1>1. CASE c.f.state \in {"SYN_RCVD", "TIME_WAIT"}
  <2>1. tcp_pump(c) = c
    BY <1>1 DEF tcp_pump
  <2>2. Carried(c, c)
    BY DEF Carried
  <2>3. c.out \in Seq(Sent(p, c.h))
    BY DEF Linked
  <2> QED BY <2>1, <2>2, <2>3, CarriedLinked
<1>2. CASE c.f.state \notin {"SYN_RCVD", "TIME_WAIT"}
  <2> DEFINE d1 == PumpData(c)
             d2 == With(d1, CommitFin(d1.f))
             d3 == PumpFin(d2)
             d4 == PumpAck(d3)
             d5 == With(d4, tcp_timers(d4.f))
             S  == Sent(p, c.h)
  <2>0. Pumps(c.f.state)
    BY <1>2 DEF Pumps
  <2>1. Good(d1) /\ Carried(c, d1) /\ Pumps(d1.f.state) /\ Sated(d1.f)
    BY <2>0, PumpDataGood
  <2>2. d1.out \in Seq(S)
    BY <2>0, PumpDataSent
  <2> HIDE DEF d1
  <2>3. LinkTicked(p, c, d1) /\ d1.f.used /\ d1.h = c.h
    <3>1. c.f.state # "SYN_RCVD"
      BY <2>0 DEF Pumps
    <3>2. LinkTicked(p, c, d1)
      BY <2>1, <2>2, <3>1, CarriedLinked
    <3> QED BY <2>1, <3>2 DEF Carried
  <2>4. Good(d2) /\ Carried(d1, d2) /\ Pumps(d2.f.state) /\ Sated(d2.f)
    BY <2>1, CommitFinGood
  <2>5. d2.out \in Seq(S)
    BY <2>2 DEF With
  <2> HIDE DEF d2
  <2>6. LinkTicked(p, d1, d2) /\ d2.f.used /\ d2.h = c.h
    <3>1. d1.f.state # "SYN_RCVD"
      BY <2>1 DEF Pumps
    <3>2. LinkTicked(p, d1, d2)
      BY <2>1, <2>3, <2>4, <2>5, <3>1, CarriedLinked DEF LinkTicked
    <3> QED BY <2>3, <2>4, <3>2 DEF Carried
  <2>7. /\ Good(d3) /\ Carried(d2, d3) /\ Pumps(d3.f.state)
        /\ Sated(d3.f) /\ FinSent(d3.f)
    BY <2>4, PumpFinGood
  <2>8. d3.out \in Seq(S)
    BY <2>4, <2>6, PumpFinSent DEF LinkTicked
  <2> HIDE DEF d3
  <2>9. LinkTicked(p, d2, d3) /\ d3.f.used /\ d3.h = c.h
    <3>1. d2.f.state # "SYN_RCVD"
      BY <2>4 DEF Pumps
    <3>2. LinkTicked(p, d2, d3)
      BY <2>4, <2>6, <2>7, <2>8, <3>1, CarriedLinked DEF LinkTicked
    <3> QED BY <2>6, <2>7, <3>2 DEF Carried
  <2>10. /\ Good(d4) /\ Carried(d3, d4) /\ Pumps(d4.f.state)
    BY <2>7, PumpAckGood
  <2>11. d4.out \in Seq(S)
    <3>1. "SYN" \notin {"ACK"} /\ "FIN" \notin {"ACK"} /\ {"ACK"} \in SUBSET Flags
      BY DEF Flags
    <3>2. tcp_out(d3, {"ACK"}, d3.f.snd_nxt, << >>).out \in Seq(S)
      BY <2>7, <2>9, <3>1, AckSent DEF LinkTicked
    <3> QED BY <2>8, <3>2 DEF PumpAck
  <2> HIDE DEF d4
  <2>12. LinkTicked(p, d3, d4) /\ d4.f.used /\ d4.h = c.h
    <3>1. d3.f.state # "SYN_RCVD"
      BY <2>7 DEF Pumps
    <3>2. LinkTicked(p, d3, d4)
      BY <2>7, <2>9, <2>10, <2>11, <3>1, CarriedLinked DEF LinkTicked
    <3> QED BY <2>9, <2>10, <3>2 DEF Carried
  <2>13. Good(d5) /\ Carried(d4, d5)
    BY <2>10, TimersGood
  <2>14. d5.out \in Seq(S)
    BY <2>11 DEF With
  <2> HIDE DEF d5
  <2>15. LinkTicked(p, d4, d5) /\ d5.f.used
    <3>1. d4.f.state # "SYN_RCVD"
      BY <2>10 DEF Pumps
    <3>2. LinkTicked(p, d4, d5)
      BY <2>10, <2>12, <2>13, <2>14, <3>1, CarriedLinked DEF LinkTicked
    <3> QED BY <2>12, <2>13, <3>2 DEF Carried
  <2>16. LinkTicked(p, c, d2)
    BY <2>1, <2>3, <2>4, <2>6, TickedTwice
  <2>17. LinkTicked(p, c, d3)
    BY <2>4, <2>6, <2>7, <2>9, <2>16, TickedTwice
  <2>18. LinkTicked(p, c, d4)
    BY <2>7, <2>9, <2>10, <2>12, <2>17, TickedTwice
  <2>19. LinkTicked(p, c, d5)
    BY <2>10, <2>12, <2>13, <2>15, <2>18, TickedTwice
  <2>20. tcp_pump(c) = d5
    BY <1>2 DEF tcp_pump, d1, d2, d3, d4, d5
  <2> QED BY <2>19, <2>20
<1> QED BY <1>1, <1>2

(* Only what the host has said and what was read of it decide what may be
   sent. *)
LEMMA SentSame ==
  ASSUME NEW p, NEW g, NEW h, g.ready = h.ready, g.read = h.read
  PROVE  Sent(p, g) = Sent(p, h)
BY DEF Sent, CutFromStream

(* net_flow_free forgets the slot and nothing of what was sent. *)
LEMMA FreeLinked ==
  ASSUME NEW p, NEW c, c.h \in HostSocket, Linked(p, c), NEW fate \in Fates,
         fate = "closed" => (p.fin \/ HostLen = 0) /\ p.done
  PROVE  LinkTicked(p, c, net_flow_free(c, fate))
<1> DEFINE h == [c.h EXCEPT !.fate = fate]
           d == net_flow_free(c, fate)
<1>1. h.ready = c.h.ready /\ h.read = c.h.read /\ h.fate = fate /\ c.h.read \in Nat
  BY DEF HostSocket
<1>2. d.f = NoFlow /\ d.out = c.out /\ d.h = h
  BY DEF net_flow_free
<1> HIDE DEF h, d
<1>3. ~d.f.used
  BY <1>2 DEF NoFlow
<1>4. d.out \in Seq(Sent(p, d.h))
  BY <1>1, <1>2, SentSame DEF Linked
<1>5. Linked(p, d)
  BY <1>1, <1>2, <1>3, <1>4 DEF Linked, Paced, Buffered, Ended
<1>6. d.h.ready = c.h.ready /\ d.h.read = c.h.read /\ c.h.read <= c.h.read
  BY <1>1, <1>2
<1>7. LinkTicked(p, c, d)
  BY <1>3, <1>5, <1>6 DEF LinkTicked
<1> QED BY <1>7 DEF d

(* A bare segment changes nothing but the ring. *)
LEMMA AckLinked ==
  ASSUME NEW p, ViewOK(p), NEW c, Good(c), Linked(p, c), NEW flags \in SUBSET Flags,
         "SYN" \notin flags, "FIN" \notin flags
  PROVE  LET d == tcp_out(c, flags, c.f.snd_nxt, << >>)
         IN /\ LinkTicked(p, c, d) /\ Good(d)
            /\ d.f.used = c.f.used /\ d.f.state = c.f.state /\ d.h = c.h
<1> DEFINE d == tcp_out(c, flags, c.f.snd_nxt, << >>)
<1>1. d.out \in Seq(Sent(p, c.h))
  BY AckSent
<1>2. Good(d) /\ Queued(c, d) /\ Carried(c, d) /\ d.f.state = c.f.state
  BY AckGood
<1> HIDE DEF d
<1>3. d.f.snd_nxt = c.f.snd_nxt
  BY <1>2 DEF Queued, Good, FlowOK, Flow
<1>4. LinkTicked(p, c, d)
  BY <1>1, <1>2, <1>3, CarriedLinked
<1>5. Good(d) /\ d.f.used = c.f.used /\ d.f.state = c.f.state /\ d.h = c.h
  BY <1>2 DEF Carried
<1> QED BY <1>4, <1>5 DEF d

(* A slot that is no longer used owes nothing, whatever went before. *)
LEMMA FreedTwice ==
  ASSUME NEW p, NEW b, NEW c, NEW d, LinkTicked(p, b, c), LinkTicked(p, c, d),
         ~d.f.used, Good(b), Good(c), Good(d)
  PROVE  LinkTicked(p, b, d)
<1>1. b.h.read \in Nat /\ c.h.read \in Nat /\ d.h.read \in Nat
  BY DEF Good, HostOK, HostSocket
<1> QED BY <1>1 DEF LinkTicked

(* tcp_abort: a bare reset and a clean slot. *)
LEMMA AbortLinked ==
  ASSUME NEW p, ViewOK(p), NEW c, Good(c), Linked(p, c)
  PROVE  LinkTicked(p, c, tcp_abort(c))
<1> DEFINE d == tcp_out(c, {"RST", "ACK"}, c.f.snd_nxt, << >>)
           e == net_flow_free(d, "aborted")
<1>1. /\ {"RST", "ACK"} \in SUBSET Flags
      /\ "SYN" \notin {"RST", "ACK"} /\ "FIN" \notin {"RST", "ACK"}
  BY DEF Flags
<1>2. LinkTicked(p, c, d) /\ Good(d)
  BY <1>1, AckLinked
<1> HIDE DEF d
<1>3. d.h \in HostSocket /\ RingOK(d.out) /\ Linked(p, d)
  BY <1>2 DEF LinkTicked, Good, HostOK
<1>4. LinkTicked(p, d, e)
  BY <1>3, FreeLinked DEF Fates
<1>5. Good(e) /\ ~e.f.used
  BY <1>3, FreeGood DEF Fates
<1> HIDE DEF e
<1>6. LinkTicked(p, c, e)
  BY <1>2, <1>4, <1>5, FreedTwice
<1> QED BY <1>6 DEF tcp_abort, d, e

(* The tick of a flow in TIME-WAIT: both ends have been told. *)
LEMMA TimeWaitLinked ==
  ASSUME NEW p, ViewOK(p), NEW c, Good(c), c.f.used, c.f.state = "TIME_WAIT",
         Linked(p, c), NEW due \in BOOLEAN
  PROVE  LinkTicked(p, c, TickTimeWait(c, due))
<1> DEFINE d == IF c.f.need_ack
                THEN tcp_out(c, {"ACK"}, c.f.snd_nxt, << >>) ELSE c
           e == net_flow_free(d, "closed")
<1>1. LinkTicked(p, c, d) /\ Good(d) /\ d.f.used /\ d.f.state = "TIME_WAIT"
  <2>1. /\ {"ACK"} \in SUBSET Flags /\ "SYN" \notin {"ACK"} /\ "FIN" \notin {"ACK"}
    BY DEF Flags
  <2>2. CASE c.f.need_ack
    <3>1. LET b == tcp_out(c, {"ACK"}, c.f.snd_nxt, << >>)
          IN /\ LinkTicked(p, c, b) /\ Good(b) /\ b.f.used = c.f.used
             /\ b.f.state = c.f.state
      BY <2>1, AckLinked
    <3> QED BY <2>2, <3>1
  <2>3. CASE ~c.f.need_ack
    <3>1. c.h.read \in Nat
      BY DEF Good, HostOK, HostSocket
    <3> QED BY <2>3, <3>1 DEF LinkTicked
  <2> QED BY <2>2, <2>3
<1> HIDE DEF d
<1>2. d.h \in HostSocket /\ RingOK(d.out) /\ Linked(p, d)
  BY <1>1 DEF LinkTicked, Good, HostOK
<1>3. (p.fin \/ HostLen = 0) /\ p.done
  BY <1>1, <1>2 DEF Linked, Buffered, FinAcked, Told, tcp_guest_finished
<1>4. LinkTicked(p, d, e)
  BY <1>2, <1>3, FreeLinked DEF Fates
<1>5. Good(e) /\ ~e.f.used
  BY <1>2, FreeGood DEF Fates
<1> HIDE DEF e
<1>6. LinkTicked(p, c, e)
  BY <1>1, <1>4, <1>5, FreedTwice
<1> QED BY <1>1, <1>6 DEF TickTimeWait, d, e

(* The SYN-ACK goes out once the host has answered, and not before. *)
LEMMA ConnectLinked ==
  ASSUME NEW p, ViewOK(p), NEW c, Good(c), c.f.used, c.f.state = "SYN_RCVD",
         c.f.snd_nxt = c.f.snd_una, Linked(p, c),
         NEW due \in BOOLEAN, NEW d \in TickConnect(c, due)
  PROVE  LinkTicked(p, c, d)
<1> DEFINE r == [c EXCEPT !.h.ready = TRUE]
           s == SegmentOut(c.f, {"SYN", "ACK"}, c.f.snd_nxt, << >>)
           e == tcp_out(r, {"SYN", "ACK"}, c.f.snd_nxt, << >>)
           g == [e.f EXCEPT !.snd_nxt = @ + 1]
           x == With(e, tcp_timers(g))
<1>1. /\ r.f = c.f /\ r.out = c.out /\ r.h = [c.h EXCEPT !.ready = TRUE]
      /\ c.f \in Flow /\ c.f.snd_una \in Nat /\ c.h \in HostSocket
  BY DEF Good, FlowOK, HostOK, Flow
<1>2. r.h.ready = TRUE /\ r.h.read = c.h.read /\ r.h.fate = c.h.fate /\ c.h.read \in Nat
  BY <1>1 DEF HostSocket
<1> HIDE DEF r
<1>3. c.out \in Seq(Sent(p, r.h))
  <2>1. c.h.read <= HostLen
    BY DEF Linked, Ended
  <2>2. Grows(p, p) /\ c.h.read <= c.h.read
    BY <1>2 DEF Grows, ViewOK
  <2>3. Sent(p, c.h) \subseteq Sent(p, r.h)
    BY <1>2, <2>1, <2>2, SentGrows
  <2>4. c.out \in Seq(Sent(p, c.h))
    BY DEF Linked
  <2> QED BY <2>3, <2>4, SeqMonotonic
<1>4. s \in Sent(p, r.h)
  <2>1. /\ {"SYN", "ACK"} \in SUBSET Flags /\ << >> \in Seq(Nat)
        /\ Len(c.f.rxbuf) <= NET_TCP_RXBUF
    BY DEF Good, FlowOK, Bounded, Flags
  <2>2. s \in Segment
    BY <1>1, <2>1, SegmentTyped
  <2>3. s.flags = {"SYN", "ACK"} /\ s.seq = c.f.snd_una /\ s.data = << >>
    BY DEF SegmentOut
  <2>4. c.f.snd_una = p.iss /\ p.iss <= p.iss
    BY DEF Linked, Paced, ViewOK
  <2> HIDE DEF s
  <2> QED BY <1>2, <2>2, <2>3, <2>4 DEF Sent, CutFromStream
<1>5. e.out \in Seq(Sent(p, r.h))
  <2>1. RingOK(r.out) /\ r.out \in Seq(Sent(p, r.h))
    BY <1>1, <1>3 DEF Good
  <2>2. SegmentOut(r.f, {"SYN", "ACK"}, c.f.snd_nxt, << >>) \in Sent(p, r.h)
    BY <1>1, <1>4
  <2> QED BY <2>1, <2>2, OutSent
<1>6. Queued(r, e)
  <2>1. /\ c.f.snd_nxt \in Nat /\ << >> \in Seq(Nat) /\ {"SYN", "ACK"} \in SUBSET Flags
        /\ r.f \in Flow /\ Len(r.f.rxbuf) <= NET_TCP_RXBUF /\ RingOK(r.out)
    BY <1>1 DEF Good, FlowOK, Bounded, Flags
  <2> QED BY <2>1, OutQueues
<1> HIDE DEF e, s
<1>7. /\ g.used /\ g.state = "SYN_RCVD" /\ g.snd_una = c.f.snd_una
      /\ g.snd_nxt = c.f.snd_una + 1 /\ g.snd_wnd = c.f.snd_wnd
      /\ g.txbuf = c.f.txbuf /\ g.host_eof = c.f.host_eof /\ g.fin_sent = c.f.fin_sent
  BY <1>1, <1>6 DEF Queued, Flow
<1>8. LET t == tcp_timers(g)
      IN /\ t.used /\ t.state = "SYN_RCVD" /\ t.snd_una = c.f.snd_una
         /\ t.snd_nxt = c.f.snd_una + 1 /\ t.snd_wnd = c.f.snd_wnd
         /\ t.txbuf = c.f.txbuf /\ t.host_eof = c.f.host_eof
         /\ t.fin_sent = c.f.fin_sent
  <2>1. g \in Flow
    <3>1. PICK b \in BOOLEAN : e.f = [c.f EXCEPT !.need_ack = b]
      BY <1>1, <1>6 DEF Queued
    <3>2. e.f \in Flow /\ e.f.snd_nxt = c.f.snd_una
      BY <1>1, <3>1 DEF Flow
    <3>3. e.f.snd_nxt + 1 \in Nat
      BY <1>1, <3>2
    <3> QED BY <3>2, <3>3 DEF Flow
  <2> HIDE DEF g
  <2> QED BY <1>7, <2>1 DEF tcp_timers, Flow
<1>9. x.f = tcp_timers(g) /\ x.out = e.out /\ x.h = r.h
  BY <1>6 DEF With, Queued
<1> HIDE DEF g, x
<1>10. LinkTicked(p, c, x)
  <2>1. Paced(p, x.f, x.h)
    BY <1>2, <1>8, <1>9 DEF Linked, Paced
  <2>2. x.f.snd_nxt # x.f.snd_una
    BY <1>1, <1>8, <1>9
  <2>3. Buffered(p, x.f, x.h) /\ Ended(p, x.h)
    <3>1. Buffered(p, c.f, c.h) /\ Ended(p, c.h)
      BY DEF Linked
    <3> QED BY <1>2, <1>8, <1>9, <3>1 DEF Buffered, Ended, FinAcked, Told, tcp_guest_finished
  <2>4. c.h.read <= c.h.read
    BY <1>2
  <2> QED BY <1>2, <1>5, <1>8, <1>9, <2>1, <2>3, <2>4 DEF LinkTicked, Linked
<1>11. LinkTicked(p, c, tcp_abort(c))
  BY AbortLinked
<1>12. LinkTicked(p, c, c)
  BY <1>2 DEF LinkTicked
<1>13. d = x \/ d = tcp_abort(c) \/ d = c
  BY DEF TickConnect, x, g, e, r
<1> QED BY <1>10, <1>11, <1>12, <1>13

(* send() touches what goes the other way. *)
LEMMA DeliveredLinked ==
  ASSUME NEW p, NEW c, Good(c), Linked(p, c), NEW w
  PROVE  LinkTicked(p, c, Delivered(c, w))
<1> DEFINE d == Delivered(c, w)
<1>1. c.f \in Flow /\ c.h \in HostSocket /\ c.h.read \in Nat
  BY DEF Good, FlowOK, HostOK, HostSocket
<1>2. /\ d.f.used = c.f.used /\ d.f.state = c.f.state /\ d.f.snd_una = c.f.snd_una
      /\ d.f.snd_nxt = c.f.snd_nxt /\ d.f.snd_wnd = c.f.snd_wnd
      /\ d.f.txbuf = c.f.txbuf /\ d.f.host_eof = c.f.host_eof
      /\ d.f.fin_sent = c.f.fin_sent
  BY <1>1 DEF Delivered, Flow
<1>3. d.out = c.out /\ d.h.ready = c.h.ready /\ d.h.read = c.h.read
      /\ d.h.fate = c.h.fate
  BY <1>1 DEF Delivered, HostSocket
<1> HIDE DEF d
<1>4. d.out \in Seq(Sent(p, d.h))
  BY <1>3, SentSame DEF Linked
<1>5. Linked(p, d)
  BY <1>2, <1>3, <1>4 DEF Linked, Paced, Buffered, Ended
<1>6. LinkTicked(p, c, d)
  BY <1>1, <1>2, <1>3, <1>5 DEF LinkTicked
<1> QED BY <1>6 DEF d

(* recv() appends the next octets of the stream, and its end comes after the
   last of them. *)
LEMMA FetchedLinked ==
  ASSUME NEW p, ViewOK(p), NEW c, Good(c), c.f.used, Linked(p, c), ~c.f.host_eof,
         NEW n \in Nat, NEW eof \in BOOLEAN, c.h.read + n <= HostLen,
         eof => c.h.read + n = HostLen
  PROVE  LinkTicked(p, c, Fetched(c, n, eof))
<1> DEFINE d   == Fetched(c, n, eof)
           q   == c.f.txbuf
           rd  == c.h.read
           una == c.f.snd_una
           len == Len(q)
           t   == [i \in 1 .. n |-> rd + i]
<1>1. /\ c.f \in Flow /\ c.h \in HostSocket /\ rd \in Nat /\ una \in Nat
      /\ q \in Seq(Nat) /\ len \in Nat
  BY SMTT(30) DEF Good, FlowOK, HostOK, HostSocket, Flow
<1>2. /\ d.f.used = c.f.used /\ d.f.state = c.f.state /\ d.f.snd_una = una
      /\ d.f.snd_nxt = c.f.snd_nxt /\ d.f.snd_wnd = c.f.snd_wnd
      /\ d.f.txbuf = q \o t /\ d.f.host_eof = (c.f.host_eof \/ eof)
      /\ d.f.fin_sent = c.f.fin_sent
  <2> DEFINE m == q \o t
             x == c.f.host_eof \/ eof
  <2>1. d.f = [c.f EXCEPT !.txbuf = m, !.host_eof = x]
    BY DEF Fetched
  <2> HIDE DEF d, m, x
  <2>2. /\ d.f.used = c.f.used /\ d.f.state = c.f.state /\ d.f.snd_una = una
        /\ d.f.snd_nxt = c.f.snd_nxt /\ d.f.snd_wnd = c.f.snd_wnd
        /\ d.f.txbuf = m /\ d.f.host_eof = x
        /\ d.f.fin_sent = c.f.fin_sent
    BY <1>1, <2>1 DEF Flow
  <2> QED BY <2>2 DEF m, x
<1>3. d.out = c.out /\ d.h.ready = c.h.ready /\ d.h.read = rd + n
      /\ d.h.fate = c.h.fate
  BY <1>1 DEF Fetched, HostSocket
<1> HIDE DEF d
<1>4. rd <= rd + n /\ rd + n \in Nat
  <2> HIDE DEF rd
  <2> QED BY <1>1
<1>5. t \in Seq(Nat) /\ Len(t) = n /\ \A i \in 1 .. n : t[i] = rd + i
  <2> HIDE DEF rd
  <2>1. \A i \in 1 .. n : rd + i \in Nat
    BY <1>1
  <2>2. t \in Seq(Nat)
    BY <2>1, IsASeq
  <2> QED BY <2>2
<1> HIDE DEF t
<1>6. /\ Len(q \o t) = len + n
      /\ \A i \in 1 .. len + n : (q \o t)[i] = IF i <= len THEN q[i] ELSE t[i - len]
  <2> HIDE DEF q
  <2>1. /\ Len(q \o t) = Len(q) + Len(t)
        /\ \A i \in 1 .. Len(q) + Len(t) :
             (q \o t)[i] = IF i <= Len(q) THEN q[i] ELSE t[i - Len(q)]
    BY <1>1, <1>5, ConcatProperties
  <2> QED BY <1>5, <2>1
<1>7. c.out \in Seq(Sent(p, d.h))
  <2>1. Grows(p, p)
    BY DEF Grows, ViewOK
  <2>2. Sent(p, c.h) \subseteq Sent(p, d.h)
    <3>1. /\ d.h.read \in Nat /\ c.h.read \in Nat /\ c.h.read <= d.h.read
          /\ d.h.read <= HostLen
          /\ c.h.ready => d.h.ready
      BY <1>1, <1>3, <1>4
    <3> QED BY <2>1, <3>1, SentGrows
  <2>3. c.out \in Seq(Sent(p, c.h))
    BY DEF Linked
  <2> QED BY <2>2, <2>3, SeqMonotonic
<1>8. Paced(p, d.f, d.h)
  BY <1>2, <1>3 DEF Linked, Paced
<1>9. Buffered(p, d.f, d.h) /\ Ended(p, d.h)
  <2>0. Buffered(p, c.f, c.h) /\ Ended(p, c.h)
    BY DEF Linked
  <2>1. ~FinAcked(c.f.state)
    BY <2>0 DEF Buffered
  <2>2. rd = una - p.org - 1 + len /\ \A i \in 1 .. len : q[i] = una - p.org - 1 + i
    BY <2>0, <2>1 DEF Buffered
  <2> DEFINE k == p.org
  <2>3. k \in Nat /\ k + 1 <= una
    BY <2>0, <2>1 DEF Buffered, ViewOK
  <2>4. rd + n = una - k - 1 + (len + n)
    <3>1. rd = una - k - 1 + len
      BY <2>2
    <3> HIDE DEF rd, una, len, k
    <3> QED BY <1>1, <2>3, <3>1
  <2>5. \A i \in 1 .. len + n : (q \o t)[i] = una - k - 1 + i
    <3> SUFFICES ASSUME NEW i \in 1 .. len + n
                 PROVE  (q \o t)[i] = una - k - 1 + i
      OBVIOUS
    <3>1. CASE i <= len
      <4>1. i \in 1 .. len
        <5> HIDE DEF len
        <5> QED BY <1>1, <3>1
      <4> QED BY <1>6, <2>2, <3>1, <4>1
    <3>2. CASE ~(i <= len)
      <4>1. i - len \in 1 .. n
        <5> HIDE DEF len
        <5> QED BY <1>1, <3>2
      <4>2. (q \o t)[i] = t[i - len] /\ t[i - len] = rd + (i - len)
        BY <1>5, <1>6, <3>2, <4>1
      <4>3. rd = una - k - 1 + len
        BY <2>2
      <4>4. rd + (i - len) = una - k - 1 + i
        <5> HIDE DEF rd, una, len, k
        <5> QED BY <1>1, <2>3, <4>3
      <4> QED BY <4>2, <4>4
    <3> QED BY <3>1, <3>2
  <2>6. d.h.read = d.f.snd_una - p.org - 1 + Len(d.f.txbuf)
    BY <1>2, <1>3, <1>6, <2>4
  <2>7. \A i \in 1 .. Len(d.f.txbuf) : d.f.txbuf[i] = d.f.snd_una - p.org - 1 + i
    BY <1>2, <1>6, <2>5
  <2>8. d.f.host_eof => d.h.read = HostLen
    BY <1>2, <1>3
  <2>9. ~d.f.fin_sent
    BY <1>2, <2>0 DEF Buffered
  <2>10. Buffered(p, d.f, d.h)
    <3> HIDE DEF q, rd, una, len
    <3>1. Told(d.f.state) => p.done
      BY <1>2, <2>0 DEF Buffered
    <3>2. p.org + 1 <= d.f.snd_una
      BY <1>2, <2>3 DEF k
    <3> QED BY <1>2, <2>1, <2>6, <2>7, <2>8, <2>9, <3>1, <3>2 DEF Buffered
  <2> QED BY <1>3, <2>0, <2>10 DEF Ended
<1>10. Linked(p, d)
  BY <1>3, <1>7, <1>8, <1>9 DEF Linked
<1>11. LinkTicked(p, c, d)
  BY <1>2, <1>3, <1>4, <1>10 DEF LinkTicked
<1> QED BY <1>11 DEF d

(* Whatever recv() answers. *)
LEMMA FetchLinked ==
  ASSUME NEW p, ViewOK(p), NEW c, Good(c), c.f.used, Linked(p, c), NEW d \in Fetch(c)
  PROVE  LinkTicked(p, c, d)
<1>1. c.h.read \in Nat /\ HostLen \in Nat
  BY SizesAssumption DEF Good, HostOK, HostSocket
<1>2. CASE d = c
  BY <1>1, <1>2 DEF LinkTicked
<1>3. CASE d # c
  <2> DEFINE len  == Len(c.f.txbuf)
             left == HostLen - c.h.read
             room == Least(NET_TCP_TXBUF - len, left)
  <2>1. len \in Nat /\ left \in Int /\ NET_TCP_TXBUF \in Nat
    BY <1>1, SizesAssumption, SMTT(30) DEF Good, FlowOK, Flow
  <2>2. d \in {Fetched(c, n, FALSE) : n \in 0 .. room}
            \cup {Fetched(c, n, TRUE) :
                    n \in {m \in 0 .. room : m = left /\ len + m < NET_TCP_TXBUF}}
    BY <1>3 DEF Fetch
  <2>3. PICK n \in 0 .. room, eof \in BOOLEAN :
               d = Fetched(c, n, eof) /\ (eof => n = left)
    BY <2>2
  <2>4. n \in Nat /\ n <= left
    <3> HIDE DEF len, left
    <3> QED BY <2>1 DEF Least
  <2>5. c.h.read + n <= HostLen /\ (eof => c.h.read + n = HostLen)
    <3> DEFINE rd == c.h.read
    <3>1. rd \in Nat /\ n <= HostLen - rd /\ (eof => n = HostLen - rd)
      BY <1>1, <2>3, <2>4
    <3> HIDE DEF rd
    <3>2. rd + n <= HostLen /\ (eof => rd + n = HostLen)
      BY <1>1, <2>4, <3>1
    <3> QED BY <3>2 DEF rd
  <2>6. ~c.f.host_eof
    BY <1>3 DEF Fetch, Polls
  <2>7. LinkTicked(p, c, Fetched(c, n, eof))
    BY <2>4, <2>5, <2>6, FetchedLinked
  <2> QED BY <2>3, <2>7
<1> QED BY <1>2, <1>3

(* The count of retransmissions is not part of what tcp_abort sends. *)
LEMMA AbortSame ==
  ASSUME NEW c, NEW g, g.snd_nxt = c.f.snd_nxt, g.rcv_nxt = c.f.rcv_nxt,
         g.rxbuf = c.f.rxbuf
  PROVE  tcp_abort(With(c, g)) = tcp_abort(c)
<1> DEFINE x == With(c, g)
           s == SegmentOut(c.f, {"RST", "ACK"}, c.f.snd_nxt, << >>)
           n == Least(NET_OUT_SLOTS - Len(c.out), Len(<<s>>))
<1>1. x.f = g /\ x.out = c.out /\ x.h = c.h
  BY DEF With
<1> HIDE DEF x
<1>2. SegmentOut(x.f, {"RST", "ACK"}, x.f.snd_nxt, << >>) = s
  BY <1>1 DEF SegmentOut
<1>3. tcp_abort(x) = [f |-> NoFlow, out |-> c.out \o SubSeq(<<s>>, 1, n),
                      h |-> [c.h EXCEPT !.fate = "aborted"]]
  BY <1>1, <1>2 DEF tcp_abort, net_flow_free, tcp_out, net_emit
<1>4. tcp_abort(c) = [f |-> NoFlow, out |-> c.out \o SubSeq(<<s>>, 1, n),
                      h |-> [c.h EXCEPT !.fate = "aborted"]]
  BY DEF tcp_abort, net_flow_free, tcp_out, net_emit
<1> QED BY <1>3, <1>4 DEF x

(* Timers decide when something is sent, never what. *)
LEMMA RetimedLinked ==
  ASSUME NEW p, NEW c, Good(c), Linked(p, c), NEW g,
         g.used = c.f.used, g.state = c.f.state, g.snd_una = c.f.snd_una,
         g.snd_wnd = c.f.snd_wnd, g.txbuf = c.f.txbuf,
         g.host_eof = c.f.host_eof, g.fin_sent = c.f.fin_sent,
         c.f.state = "SYN_RCVD" =>
           g.snd_nxt = c.f.snd_nxt \/ g.snd_nxt = g.snd_una
  PROVE  LinkTicked(p, c, With(c, g))
<1> DEFINE d == With(c, g)
<1>1. d.f = g /\ d.out = c.out /\ d.h = c.h /\ c.h.read \in Nat
  BY DEF With, Good, HostOK, HostSocket
<1> HIDE DEF d
<1>2. Paced(p, d.f, d.h)
  BY <1>1 DEF Linked, Paced
<1>3. Buffered(p, d.f, d.h) /\ Ended(p, d.h)
  BY <1>1 DEF Linked, Buffered, Ended
<1>4. d.out \in Seq(Sent(p, d.h))
  BY <1>1 DEF Linked
<1>5. LinkTicked(p, c, d)
  BY <1>1, <1>2, <1>3, <1>4 DEF LinkTicked, Linked
<1> QED BY <1>5 DEF d

(* The window probe: the first octet of txbuf, one past what the guest has. *)
LEMMA ProbeLinked ==
  ASSUME NEW p, ViewOK(p), NEW c, Good(c), c.f.used, c.f.state # "CLOSED",
         c.f.state # "SYN_RCVD", c.f.snd_nxt = c.f.snd_una, c.f.txbuf # << >>,
         Linked(p, c)
  PROVE  LET e == tcp_out(c, {"ACK"}, c.f.snd_nxt, SubSeq(c.f.txbuf, 1, 1))
         IN LinkTicked(p, c, With(e, tcp_timers([e.f EXCEPT !.snd_nxt = @ + 1])))
<1> DEFINE q   == c.f.txbuf
           una == c.f.snd_una
           len == Len(q)
           cut == SubSeq(q, 1, 1)
           s   == SegmentOut(c.f, {"ACK"}, c.f.snd_nxt, cut)
           e   == tcp_out(c, {"ACK"}, c.f.snd_nxt, cut)
           g   == [e.f EXCEPT !.snd_nxt = @ + 1]
           x   == With(e, tcp_timers(g))
<1>1. /\ c.f \in Flow /\ q \in Seq(Nat) /\ una \in Nat /\ c.f.snd_nxt = una
      /\ len \in Nat /\ Len(c.f.rxbuf) <= NET_TCP_RXBUF /\ RingOK(c.out)
      /\ {"ACK"} \in SUBSET Flags
  BY DEF Good, FlowOK, Flow, Bounded, Flags
<1>2. len > 0
  <2>1. q # << >>
    OBVIOUS
  <2> HIDE DEF q
  <2> QED BY <1>1, <2>1, NonEmpty
<1>3. cut \in Seq(Nat) /\ Len(cut) = 1 /\ cut[1] = q[1]
  <2> HIDE DEF q
  <2>1. \A i \in 1 .. 1 : q[i] \in Nat
    BY <1>1, <1>2, ElementOfSeq
  <2>2. /\ cut \in Seq(Nat)
        /\ Len(cut) = IF 1 <= 1 THEN 1 - 1 + 1 ELSE 0
        /\ \A i \in 1 .. 1 - 1 + 1 : cut[i] = q[1 + i - 1]
    BY <2>1, SubSeqProperties
  <2> HIDE DEF cut
  <2> QED BY <2>2
<1>4. s \in Sent(p, c.h)
  <2>1. s \in Segment
    <3> HIDE DEF cut
    <3> QED BY <1>1, <1>3, SegmentTyped
  <2>2. s.flags = {"ACK"} /\ s.seq = una /\ s.data = cut
    BY <1>1 DEF SegmentOut
  <2>3. /\ c.h.ready /\ una <= p.rcv /\ p.rcv \in Nat /\ p.org \in Nat
    BY DEF Linked, Paced, ViewOK
  <2>4. una + 1 <= p.rcv + 1
    <3> HIDE DEF una
    <3> QED BY <1>1, <2>3
  <2>5. CutFromStream(p, c.h, s) /\ p.rcv # 0
    <3>1. Buffered(p, c.f, c.h)
      BY DEF Linked
    <3>2. ~FinAcked(c.f.state)
      BY <3>1 DEF Buffered
    <3>3. p.org + 1 <= una
      BY <3>1, <3>2 DEF Buffered
    <3>9. p.rcv # 0
      <4> HIDE DEF una
      <4> QED BY <1>1, <2>3, <3>3
    <3>10. c.h.read = una - p.org - 1 + len /\ \A i \in 1 .. len : q[i] = una - p.org - 1 + i
      BY <3>1, <3>2 DEF Buffered
    <3>4. una + 1 <= p.org + 1 + c.h.read
      <4> DEFINE rd == c.h.read
                 k  == p.org
      <4>1. rd = una - k - 1 + len /\ k \in Nat
        BY <2>3, <3>10
      <4> HIDE DEF rd, una, len, k
      <4>2. una + 1 <= k + 1 + rd
        BY <1>1, <1>2, <4>1
      <4> QED BY <4>2 DEF rd, k
    <3>5. q[1] = una - p.org - 1 + 1
      <4>1. 1 \in 1 .. len
        <5> HIDE DEF len
        <5> QED BY <1>1, <1>2
      <4> QED BY <3>10, <4>1
    <3> HIDE DEF s, cut, q, una
    <3>6. "FIN" \notin s.flags
      BY <2>2
    <3>7. s.seq + Len(s.data) <= p.org + 1 + c.h.read
      BY <1>3, <2>2, <3>4
    <3>8. \A i \in 1 .. Len(s.data) : s.data[i] = s.seq - p.org - 1 + i
      <4> SUFFICES ASSUME NEW i \in 1 .. Len(s.data)
                   PROVE  s.data[i] = s.seq - p.org - 1 + i
        OBVIOUS
      <4>0. Len(s.data) = 1
        BY <1>3, <2>2
      <4>1. i = 1
        BY <4>0
      <4> QED BY <1>3, <2>2, <3>5, <4>1
    <3>11. p.org + 1 <= s.seq
      BY <2>2, <3>3
    <3> QED BY <3>6, <3>7, <3>8, <3>9, <3>11 DEF CutFromStream
  <2> HIDE DEF s, cut, una
  <2>6. s.seq + Len(s.data) <= p.rcv + 1
    BY <1>3, <2>2, <2>4
  <2>7. "SYN" \notin s.flags
    BY <2>2
  <2> QED BY <2>1, <2>3, <2>5, <2>6, <2>7 DEF Sent
<1> HIDE DEF cut
<1>5. Queued(c, e)
  BY <1>1, <1>3, OutQueues
<1>6. e.out \in Seq(Sent(p, c.h))
  BY <1>1, <1>4, OutSent DEF Linked
<1> HIDE DEF e
<1>7. Good(e)
  BY <1>5, QueuedGood
<1>8. PICK b \in BOOLEAN : e.f = [c.f EXCEPT !.need_ack = b]
  BY <1>5 DEF Queued
<1>9. /\ e.f \in Flow /\ e.f.used = c.f.used /\ e.f.state = c.f.state
      /\ e.f.snd_una = una /\ e.f.snd_nxt = una /\ e.f.snd_wnd = c.f.snd_wnd
      /\ e.f.txbuf = c.f.txbuf /\ e.f.host_eof = c.f.host_eof
      /\ e.f.fin_sent = c.f.fin_sent
      /\ e.f.rcv_nxt = c.f.rcv_nxt /\ e.f.rxbuf = c.f.rxbuf /\ e.h = c.h
  BY <1>1, <1>5, <1>8 DEF Flow, Queued
<1>10. LinkTicked(p, c, e)
  <2>1. Carried(c, e)
    BY <1>9 DEF Carried
  <2> QED BY <1>1, <1>6, <1>9, <2>1, CarriedLinked
<1>11. g \in Flow
  <2>1. una + 1 \in Nat
    BY <1>1
  <2> QED BY <1>9, <2>1 DEF Flow
<1>12. LET t == tcp_timers(g)
       IN /\ t.used = e.f.used /\ t.state = e.f.state /\ t.snd_una = e.f.snd_una
          /\ t.snd_wnd = e.f.snd_wnd /\ t.txbuf = e.f.txbuf
          /\ t.host_eof = e.f.host_eof /\ t.fin_sent = e.f.fin_sent
  <2>1. /\ g.used = e.f.used /\ g.state = e.f.state /\ g.snd_una = e.f.snd_una
        /\ g.snd_wnd = e.f.snd_wnd /\ g.txbuf = e.f.txbuf
        /\ g.host_eof = e.f.host_eof /\ g.fin_sent = e.f.fin_sent
    BY <1>9 DEF Flow
  <2> HIDE DEF g
  <2> QED BY <1>11, <2>1 DEF tcp_timers, Flow
<1> HIDE DEF g
<1>13. LinkTicked(p, e, x)
  <2>1. Linked(p, e) /\ e.f.state # "SYN_RCVD"
    BY <1>9, <1>10 DEF LinkTicked
  <2> QED BY <1>7, <1>12, <2>1, RetimedLinked
<1>14. c.h.read \in Nat /\ x.h = c.h
  BY <1>9 DEF With, Good, HostOK, HostSocket
<1>15. LinkTicked(p, c, x)
  BY <1>9, <1>10, <1>13, <1>14 DEF LinkTicked
<1> QED BY <1>15 DEF x, g, e, cut

(* The deadline.  In SYN-RCVD it takes back the count of the SYN: the
   handshake is sent again by the next tick.                                *)
LEMMA TransmitLinked ==
  ASSUME NEW p, ViewOK(p), NEW c, Sending(c), Linked(p, c), NEW due \in BOOLEAN
  PROVE  LinkTicked(p, c, TickTransmit(c, due))
<1> DEFINE f == c.f
           g == [f EXCEPT !.rto_on = FALSE, !.rtx = @ + 1]
           r == [g EXCEPT !.snd_nxt = f.snd_una]
           probe == f.snd_nxt = f.snd_una /\ f.txbuf # << >> /\ f.snd_wnd = 0
           sent == tcp_out(With(c, g), {"ACK"}, f.snd_nxt, SubSeq(f.txbuf, 1, 1))
<1>1. Good(c) /\ f \in Flow /\ f.rtx \in Nat /\ NET_TCP_RTX_MAX \in Nat
  BY SizesAssumption DEF Sending, Good, FlowOK, Flow
<1>2. /\ g.rtx = f.rtx + 1 /\ g.rxbuf = f.rxbuf /\ g.rcv_nxt = f.rcv_nxt
      /\ g.used = f.used /\ g.state = f.state /\ g.snd_una = f.snd_una
      /\ g.snd_nxt = f.snd_nxt /\ g.snd_wnd = f.snd_wnd /\ g.txbuf = f.txbuf
      /\ g.host_eof = f.host_eof /\ g.fin_sent = f.fin_sent
  BY <1>1 DEF Flow
<1>3. /\ r.used = f.used /\ r.state = f.state /\ r.snd_una = f.snd_una
      /\ r.snd_nxt = f.snd_una /\ r.snd_wnd = f.snd_wnd /\ r.txbuf = f.txbuf
      /\ r.host_eof = f.host_eof /\ r.fin_sent = f.fin_sent
  BY <1>1 DEF Flow
<1>4. CASE f.rto_on /\ due /\ g.rtx > NET_TCP_RTX_MAX
  <2>1. TickTransmit(c, due) = tcp_abort(With(c, g))
    BY <1>4 DEF TickTransmit
  <2> HIDE DEF g
  <2>2. tcp_abort(With(c, g)) = tcp_abort(c)
    BY <1>2, AbortSame
  <2> QED BY <1>1, <2>1, <2>2, AbortLinked
<1>5. CASE f.rto_on /\ due /\ ~(g.rtx > NET_TCP_RTX_MAX)
  <2>1. f.rtx + 1 <= NET_TCP_RTX_MAX
    <3> DEFINE k == f.rtx
    <3>1. k \in Nat /\ ~(k + 1 > NET_TCP_RTX_MAX)
      BY <1>1, <1>2, <1>5
    <3> HIDE DEF k
    <3>2. k + 1 <= NET_TCP_RTX_MAX
      BY <1>1, <3>1
    <3> QED BY <3>2 DEF k
  <2>2. Good(With(c, g)) /\ Good(With(c, r))
    BY <1>1, <2>1, RewoundGood
  <2>3. CASE probe
    <3> DEFINE x == With(c, g)
               y == With(sent, tcp_timers([sent.f EXCEPT !.snd_nxt = @ + 1]))
    <3>1. TickTransmit(c, due) = y
      BY <1>5, <2>3 DEF TickTransmit
    <3>2. x.f = g /\ Good(x)
      BY <2>2 DEF With
    <3>3. LinkTicked(p, c, x)
      <4> HIDE DEF g
      <4> QED BY <1>1, <1>2, RetimedLinked
    <3>4. sent = tcp_out(x, {"ACK"}, x.f.snd_nxt, SubSeq(x.f.txbuf, 1, 1))
      BY <1>2, <3>2
    <3> HIDE DEF x, sent, g
    <3>5. /\ x.f.used /\ x.f.state # "CLOSED" /\ x.f.state # "SYN_RCVD"
          /\ x.f.snd_nxt = x.f.snd_una /\ x.f.txbuf # << >>
      BY <1>2, <2>3, <3>2 DEF Sending
    <3>6. LinkTicked(p, x, y)
      <4> DEFINE e == tcp_out(x, {"ACK"}, x.f.snd_nxt, SubSeq(x.f.txbuf, 1, 1))
                 z == With(e, tcp_timers([e.f EXCEPT !.snd_nxt = @ + 1]))
      <4>1. Linked(p, x)
        BY <3>3 DEF LinkTicked
      <4>2. LinkTicked(p, x, z)
        BY <1>1, <3>2, <3>5, <4>1, ProbeLinked, Zenon
      <4>3. z = y
        <5>1. e = sent
          BY <3>4
        <5> HIDE DEF e
        <5> QED BY <5>1
      <4> HIDE DEF y, z
      <4> QED BY <4>2, <4>3
    <3>7. y.h = x.h
      <4>1. /\ x.f \in Flow /\ Len(x.f.rxbuf) <= NET_TCP_RXBUF /\ RingOK(x.out)
        BY <3>2 DEF Good, FlowOK, Bounded
      <4>2. sent.h = x.h
        BY <3>4 DEF tcp_out, net_emit
      <4> QED BY <4>2 DEF With
    <3> HIDE DEF y
    <3>8. LinkTicked(p, c, y)
      BY <3>3, <3>5, <3>6, <3>7 DEF LinkTicked
    <3> QED BY <3>1, <3>8
  <2>4. CASE ~probe
    <3> DEFINE x == With(c, r)
               d == tcp_pump(x)
    <3>1. x.f = r /\ Good(x)
      BY <2>2 DEF With
    <3>2. LinkTicked(p, c, x)
      <4> HIDE DEF r
      <4>1. c.f.state = "SYN_RCVD" => r.snd_nxt = r.snd_una
        BY <1>3
      <4> QED BY <1>1, <1>3, <4>1, RetimedLinked
    <3> HIDE DEF x, r
    <3>3. x.f.used /\ x.f.state # "CLOSED"
      BY <1>3, <3>1 DEF Sending
    <3>4. Ticked(x, d) /\ d.f.state # "CLOSED"
      BY <3>1, <3>3, PumpTicked
    <3>5. LinkTicked(p, x, d)
      BY <3>1, <3>2, <3>3, PumpLinked DEF LinkTicked
    <3>6. TickTransmit(c, due) = d
      BY <1>5, <2>4, <3>4 DEF TickTransmit, x, r
    <3> HIDE DEF d
    <3>7. LinkTicked(p, c, d)
      <4>1. Good(d)
        BY <3>4 DEF Ticked
      <4> QED BY <1>1, <3>1, <3>2, <3>3, <3>5, <4>1, TickedTwice
    <3> QED BY <3>6, <3>7
  <2> QED BY <2>3, <2>4
<1>6. CASE ~(f.rto_on /\ due)
  <2> DEFINE d == tcp_pump(c)
  <2>1. d.f.state # "CLOSED"
    BY <1>1, PumpTicked DEF Sending
  <2>2. TickTransmit(c, due) = d
    BY <1>6, <2>1 DEF TickTransmit
  <2>3. LinkTicked(p, c, d)
    BY <1>1, PumpLinked DEF Sending
  <2> QED BY <2>2, <2>3
<1> QED BY <1>4, <1>5, <1>6

(* The tick of a flow whose SYN-ACK is out. *)
LEMMA OpenLinked ==
  ASSUME NEW p, ViewOK(p), NEW c, Sending(c), Linked(p, c),
         NEW due \in BOOLEAN, NEW d \in TickOpen(c, due)
  PROVE  LinkTicked(p, c, d)
<1>1. Good(c) /\ Len(c.f.rxbuf) \in Nat
  BY DEF Sending, Good, FlowOK, Flow
<1>2. ASSUME NEW x \in Deliver(c)
      PROVE  Sending(x) /\ LinkTicked(p, c, x)
  <2>1. PICK w \in 0 .. Len(c.f.rxbuf) : x = Delivered(c, w)
    <3>1. Len(c.f.rxbuf) \in 0 .. Len(c.f.rxbuf)
      BY <1>1
    <3> QED BY <3>1 DEF Deliver
  <2>2. LET e == Delivered(c, w)
        IN /\ Good(e) /\ e.f.state = c.f.state /\ e.f.used
           /\ e.f.snd_nxt = c.f.snd_nxt /\ e.f.snd_una = c.f.snd_una
    BY DeliveredGood DEF Sending
  <2>3. LinkTicked(p, c, Delivered(c, w))
    BY <1>1, DeliveredLinked
  <2> QED BY <2>1, <2>2, <2>3 DEF Sending
<1>3. CASE \E x \in Deliver(c) : \E y \in Fetch(x) : d = TickTransmit(y, due)
  <2>1. PICK x \in Deliver(c) : \E y \in Fetch(x) : d = TickTransmit(y, due)
    BY <1>3
  <2>2. PICK y \in Fetch(x) : d = TickTransmit(y, due)
    BY <2>1
  <2>3. Sending(x) /\ Good(x) /\ x.f.used /\ LinkTicked(p, c, x) /\ Linked(p, x)
    BY <1>2 DEF Sending, LinkTicked
  <2>4. Sending(y) /\ Good(y) /\ y.f.used
    BY <2>3, FetchSending DEF Sending
  <2>5. LinkTicked(p, x, y)
    BY <2>3, FetchLinked
  <2>7. LinkTicked(p, y, d)
    <3>1. Linked(p, y)
      BY <2>5 DEF LinkTicked
    <3> QED BY <2>2, <2>4, <3>1, TransmitLinked
  <2>8. Good(d)
    BY <2>2, <2>4, TransmitTicked DEF Ticked
  <2>9. LinkTicked(p, c, y)
    BY <1>1, <2>3, <2>4, <2>5, TickedTwice
  <2> QED BY <1>1, <2>4, <2>7, <2>8, <2>9, TickedTwice
<1>4. CASE d = tcp_abort(c)
  BY <1>1, <1>4, AbortLinked
<1>5. CASE \E x \in Deliver(c) : d = tcp_abort(x)
  <2>1. PICK x \in Deliver(c) : d = tcp_abort(x)
    BY <1>5
  <2>2. Sending(x) /\ Good(x) /\ LinkTicked(p, c, x) /\ Linked(p, x)
    BY <1>2 DEF Sending, LinkTicked
  <2>3. LinkTicked(p, x, d)
    BY <2>1, <2>2, AbortLinked
  <2>4. Good(d) /\ ~d.f.used
    <3>1. /\ x.f \in Flow /\ Len(x.f.rxbuf) <= NET_TCP_RXBUF /\ RingOK(x.out)
          /\ x.h \in HostSocket
      BY <2>2 DEF Good, FlowOK, Bounded, HostOK
    <3> QED BY <2>1, <3>1, AbortGood
  <2> QED BY <1>1, <2>2, <2>3, <2>4, FreedTwice
<1>6. \/ \E x \in Deliver(c) : \E y \in Fetch(x) : d = TickTransmit(y, due)
      \/ d = tcp_abort(c)
      \/ \E x \in Deliver(c) : d = tcp_abort(x)
  <2> DEFINE delivered == Deliver(c)
             fetched   == UNION {Fetch(x) : x \in delivered}
  <2>1. \/ d \in {TickTransmit(y, due) : y \in fetched}
        \/ d = tcp_abort(c)
        \/ d \in {tcp_abort(x) : x \in {x \in delivered : Polls(x)}}
    BY DEF TickOpen
  <2> QED BY <2>1
<1> QED BY <1>3, <1>4, <1>5, <1>6

(* net_tcp_tick: one case per early return of the function. *)
LEMMA TickLinked ==
  ASSUME NEW p, ViewOK(p), NEW c, Good(c), c.f.used, Linked(p, c),
         NEW due \in BOOLEAN, NEW d \in net_tcp_tick(c, due)
  PROVE  LinkTicked(p, c, d)
<1>1. CASE c.f.state = "TIME_WAIT"
  BY <1>1, TimeWaitLinked DEF net_tcp_tick
<1>2. CASE c.f.state = "CLOSED"
  <2>1. d = net_flow_free(c, "closed")
    BY <1>2 DEF net_tcp_tick
  <2>2. (p.fin \/ HostLen = 0) /\ p.done
    BY <1>2 DEF Linked, Buffered, FinAcked, Told
  <2>3. c.h \in HostSocket
    BY DEF Good, HostOK
  <2> QED BY <2>1, <2>2, <2>3, FreeLinked DEF Fates
<1>3. CASE c.f.state = "SYN_RCVD" /\ c.f.snd_nxt = c.f.snd_una
  BY <1>3, ConnectLinked DEF net_tcp_tick
<1>4. CASE /\ c.f.state \notin {"TIME_WAIT", "CLOSED"}
           /\ ~(c.f.state = "SYN_RCVD" /\ c.f.snd_nxt = c.f.snd_una)
  <2>1. Sending(c)
    BY <1>4 DEF Sending
  <2>2. d \in TickOpen(c, due)
    BY <1>4 DEF net_tcp_tick
  <2> QED BY <2>1, <2>2, OpenLinked
<1> QED BY <1>1, <1>2, <1>3, <1>4


(* What the guest puts on the line: an ACK of what it has received, with a
   window that ends no further right than its buffer, and its FIN last.     *)
Plain(s) == s.flags \cap {"RST", "SYN"} = {} /\ "ACK" \in s.flags

Heard(p, s) ==
  /\ p.iss + 1 <= s.ack /\ s.ack <= p.rcv
  /\ s.ack + s.wnd <= p.edge
  /\ "FIN" \in s.flags => p.done

(* Reception touches neither what is sent nor what it is cut from.          *)
LEMMA ReceivedLinked ==
  ASSUME NEW p, NEW c, Linked(p, c), NEW g,
         g.used = c.f.used, g.snd_una = c.f.snd_una, g.snd_nxt = c.f.snd_nxt,
         g.snd_wnd = c.f.snd_wnd, g.txbuf = c.f.txbuf,
         g.host_eof = c.f.host_eof, g.fin_sent = c.f.fin_sent,
         g.state = "SYN_RCVD" <=> c.f.state = "SYN_RCVD",
         FinAcked(g.state) <=> FinAcked(c.f.state),
         Told(g.state) => Told(c.f.state) \/ p.done
  PROVE  Linked(p, With(c, g))
<1> DEFINE d == With(c, g)
<1>1. d.f = g /\ d.out = c.out /\ d.h = c.h
  BY DEF With
<1> HIDE DEF d
<1>2. Paced(p, d.f, d.h)
  BY <1>1 DEF Linked, Paced
<1>3. Buffered(p, d.f, d.h) /\ Ended(p, d.h)
  BY <1>1 DEF Linked, Buffered, Ended
<1>4. d.out \in Seq(Sent(p, d.h))
  BY <1>1 DEF Linked
<1>5. Linked(p, d)
  BY <1>2, <1>3, <1>4 DEF Linked
<1> QED BY <1>5 DEF d

(* An honest ACK covers a FIN that was sent, or nothing past txbuf. *)
LEMMA AckCovers ==
  ASSUME NEW una \in Nat, NEW nxt \in Nat, NEW len \in Nat, NEW ack \in Nat,
         NEW one \in {0, 1}, NEW fin \in BOOLEAN, one = 1 => fin,
         nxt <= una + len + one, ack - una > len,
         LET comm == una + len + (IF fin THEN 1 ELSE 0)
         IN ack <= IF comm < nxt THEN nxt ELSE comm
  PROVE  fin
  OBVIOUS

(* What is left of txbuf after an ACK of some of it. *)
LEMMA Shifted ==
  ASSUME NEW q \in Seq(Nat), NEW k \in Nat, NEW una \in Nat, NEW ack \in Nat,
         NEW rd \in Nat, k + 1 <= una, una <= ack, ack - una <= Len(q),
         rd = una - k - 1 + Len(q),
         \A i \in 1 .. Len(q) : q[i] = una - k - 1 + i
  PROVE  LET rest == SubSeq(q, (ack - una) + 1, Len(q))
         IN /\ rd = ack - k - 1 + Len(rest)
            /\ \A i \in 1 .. Len(rest) : rest[i] = ack - k - 1 + i
<1> DEFINE len  == Len(q)
           dat  == ack - una
           rest == SubSeq(q, dat + 1, len)
<1>1. len \in Nat /\ dat \in Nat /\ dat <= len /\ dat = ack - una
      /\ rd = una - k - 1 + len
  <2>1. len \in Nat
    OBVIOUS
  <2> HIDE DEF len
  <2> QED BY <2>1 DEF len
<1>2. \A i \in 1 .. len : q[i] = una - k - 1 + i /\ q[i] \in Nat
  BY ElementOfSeq
<1> HIDE DEF len, dat
<1>3. \A i \in dat + 1 .. len : q[i] \in Nat
  BY <1>1, <1>2
<1>4. /\ Len(rest) = IF dat + 1 <= len THEN len - (dat + 1) + 1 ELSE 0
      /\ \A i \in 1 .. len - (dat + 1) + 1 : rest[i] = q[dat + 1 + i - 1]
  BY <1>1, <1>3, SubSeqProperties
<1> HIDE DEF rest
<1>5. Len(rest) = len - dat
  BY <1>1, <1>4
<1>6. rd = ack - k - 1 + (len - dat)
  BY <1>1
<1>7. ASSUME NEW i \in 1 .. len - dat
      PROVE  rest[i] = ack - k - 1 + i
  <2>1. i \in 1 .. len - (dat + 1) + 1 /\ dat + 1 + i - 1 \in 1 .. len
        /\ dat + 1 + i - 1 = dat + i
    BY <1>1, <1>7
  <2>2. rest[i] = q[dat + i] /\ q[dat + i] = una - k - 1 + (dat + i)
    BY <1>2, <1>4, <2>1
  <2>3. una - k - 1 + (dat + i) = ack - k - 1 + i
    BY <1>1, <1>7
  <2> QED BY <2>2, <2>3
<1> QED BY <1>5, <1>6, <1>7 DEF rest, dat, len

(* The one state in which an ACK of the SYN is taken for what it is: the
   SYN-ACK is counted and there is no octet to take instead.                *)
Counts(f) == f.state = "SYN_RCVD" /\ f.txbuf = << >> /\ f.snd_nxt # f.snd_una

(* tcp_consume_ack of an honest ACK, and the end of the handshake: it takes
   off txbuf what the guest has, or the FIN after all of it.                *)
LEMMA AckedLinked ==
  ASSUME NEW p, ViewOK(p), NEW c, Good(c), c.f.used, c.f.state # "CLOSED", Linked(p, c),
         c.h.ready, NEW s \in Segment, Heard(p, s), c.f.snd_una <= s.ack,
         LET f == Acked(c.f, s)
         IN ~Counts(c.f) \/ (f.state = "SYN_RCVD" /\ f.snd_una < f.snd_nxt)
  PROVE  LET f == Acked(c.f, s)
         IN /\ f.state = "SYN_RCVD" /\ f.snd_una < f.snd_nxt => Linked(p, With(c, f))
            /\ ~(f.state = "SYN_RCVD" /\ f.snd_una < f.snd_nxt) =>
                 Linked(p, With(c, Established(f)))
            /\ f.snd_una <= s.ack
<1> DEFINE f    == [c.f EXCEPT !.snd_wnd = s.wnd]
           ack  == s.ack
           wnd  == s.wnd
           una  == f.snd_una
           nxt  == f.snd_nxt
           len  == Len(f.txbuf)
           k    == p.org
           rcv  == p.rcv
           edge == p.edge
           comm == una + len + (IF f.fin_sent THEN 1 ELSE 0)
           end  == IF comm < nxt THEN nxt ELSE comm
           dat  == Least(ack - una, len)
           fin  == f.fin_sent /\ ack - una > len
           next == IF nxt < ack THEN ack ELSE nxt
           st   == IF ~fin THEN f.state
                   ELSE CASE f.state = "FIN_WAIT_1" -> "FIN_WAIT_2"
                          [] f.state = "CLOSING"    -> "TIME_WAIT"
                          [] f.state = "LAST_ACK"   -> "CLOSED"
                          [] OTHER                  -> f.state
           rest == SubSeq(f.txbuf, dat + 1, len)
           g    == [f EXCEPT !.txbuf = rest, !.snd_una = ack, !.snd_nxt = next,
                             !.rtx = 0, !.rto_on = FALSE, !.state = st]
<1>1. /\ ack \in Nat /\ wnd \in Nat
      /\ c.f \in Flow /\ c.f.txbuf \in Seq(Nat)
      /\ k \in Nat /\ rcv \in Nat /\ edge \in Nat
      /\ k + 1 <= ack /\ ack <= rcv /\ ack + wnd <= edge
  <2>1. /\ ack \in Nat /\ wnd \in Nat
        /\ c.f \in Flow /\ c.f.txbuf \in Seq(Nat)
        /\ k \in Nat /\ rcv \in Nat /\ edge \in Nat /\ p.iss \in Nat
        /\ k <= p.iss /\ p.iss + 1 <= ack /\ ack <= rcv /\ ack + wnd <= edge
    BY DEF Segment, Good, FlowOK, Flow, ViewOK, Heard
  <2>2. k + 1 <= ack
    <3> DEFINE i == p.iss
    <3> HIDE DEF k, ack, i
    <3> QED BY <2>1 DEF i
  <2> QED BY <2>1, <2>2
<1>2. /\ f \in Flow /\ f.snd_una = c.f.snd_una /\ f.snd_nxt = c.f.snd_nxt
      /\ f.txbuf = c.f.txbuf /\ f.fin_sent = c.f.fin_sent /\ f.state = c.f.state
      /\ f.used = c.f.used /\ f.host_eof = c.f.host_eof /\ f.snd_wnd = s.wnd
  BY <1>1 DEF Flow
<1> HIDE DEF f
<1>3. Pointers(f)
  BY <1>2 DEF Good, FlowOK, Pointers
<1>4. /\ una \in Nat /\ nxt \in Nat /\ len \in Nat /\ una <= nxt /\ una <= ack
      /\ f.txbuf \in Seq(Nat) /\ f.fin_sent \in BOOLEAN /\ f.state \in States
      /\ una + wnd <= edge
  <2>1. /\ una \in Nat /\ nxt \in Nat /\ len \in Nat /\ una <= nxt /\ una <= ack
        /\ f.txbuf \in Seq(Nat) /\ f.fin_sent \in BOOLEAN /\ f.state \in States
    <3>1. una <= nxt
      BY <1>3 DEF Pointers
    <3>2. una <= ack
      BY <1>2
    <3>3. f.txbuf \in Seq(Nat) /\ len \in Nat
      BY <1>1, <1>2
    <3>4. una \in Nat /\ nxt \in Nat /\ f.fin_sent \in BOOLEAN /\ f.state \in States
      BY <1>2 DEF Flow
    <3> QED BY <3>1, <3>2, <3>3, <3>4
  <2>2. una + wnd <= edge
    <3>1. wnd \in Nat /\ ack \in Nat
      BY <1>1
    <3> HIDE DEF una, wnd, edge, ack
    <3> QED BY <1>1, <2>1, <3>1
  <2> QED BY <2>1, <2>2
<1>5. /\ f.used
      /\ f.state # "SYN_RCVD" => una <= rcv
      /\ c.out \in Seq(Sent(p, c.h))
      /\ Buffered(p, f, c.h) /\ Ended(p, c.h)
  <2>1. Buffered(p, f, c.h) /\ Ended(p, c.h)
    BY <1>2 DEF Linked, Buffered
  <2> QED BY <1>2, <2>1 DEF Linked, Paced
<1>6. ASSUME NEW y, y.used = f.used, Paced(p, y, c.h), Buffered(p, y, c.h)
      PROVE  Linked(p, With(c, y))
  <2> DEFINE d == With(c, y)
  <2>1. d.f = y /\ d.out = c.out /\ d.h = c.h
    BY DEF With
  <2> HIDE DEF d
  <2>2. Linked(p, d)
    BY <1>5, <1>6, <2>1 DEF Linked
  <2> QED BY <2>2 DEF d
<1>7. Paced(p, f, c.h)
  <2>1. f.state = "SYN_RCVD" => f.snd_una = p.iss
    BY <1>2, <1>5 DEF Linked, Paced
  <2>2. f.state # "SYN_RCVD" => f.snd_una <= p.rcv
    BY <1>5
  <2>3. f.snd_una + f.snd_wnd <= p.edge
    BY <1>2, <1>4
  <2> QED BY <2>1, <2>2, <2>3 DEF Paced
<1>8. CASE ~(una < ack /\ ack <= end)
  <2>1. Acked(c.f, s) = f
    <3>1. ~(f.snd_una < ack /\ ack <= (IF comm < f.snd_nxt THEN f.snd_nxt ELSE comm))
      BY <1>8
    <3>2. Acked(c.f, s) = tcp_consume_ack(f, ack)
      BY DEF Acked, f
    <3> QED BY <3>1, <3>2 DEF tcp_consume_ack
  <2>2. Linked(p, With(c, f))
    BY <1>5, <1>6, <1>7
  <2>3. ASSUME f.state = "SYN_RCVD", ~(una < nxt)
        PROVE  Linked(p, With(c, Established(f)))
    <3> DEFINE e == [f EXCEPT !.state = "ESTABLISHED"]
    <3>1. Established(f) = e
      BY <2>3 DEF Established
    <3>2. /\ e.used = f.used /\ e.snd_una = f.snd_una /\ e.snd_wnd = f.snd_wnd
          /\ e.state = "ESTABLISHED" /\ e.txbuf = f.txbuf
          /\ e.host_eof = f.host_eof /\ e.fin_sent = f.fin_sent
      BY <1>2 DEF Flow
    <3> HIDE DEF e
    <3>3. una <= rcv
      <4> HIDE DEF una, ack, rcv
      <4> QED BY <1>1, <1>4
    <3>4. Paced(p, e, c.h)
      BY <1>4, <3>2, <3>3, <1>2 DEF Paced
    <3>5. Buffered(p, e, c.h)
      BY <1>5, <2>3, <3>2 DEF Buffered, FinAcked, Told, tcp_guest_finished
    <3> QED BY <1>6, <3>1, <3>2, <3>4, <3>5
  <2>4. ASSUME f.state # "SYN_RCVD" PROVE Linked(p, With(c, Established(f)))
    BY <2>2, <2>4 DEF Established
  <2> QED BY <1>4, <2>1, <2>2, <2>3, <2>4
<1>9. CASE una < ack /\ ack <= end
  <2>1. Acked(c.f, s) = g
    BY <1>9 DEF Acked, tcp_consume_ack, f
  <2> DEFINE one == IF f.state \in FinOutstanding THEN 1 ELSE 0
             e   == Established(g)
  <2>2. /\ f.state = "SYN_RCVD" => nxt <= una + 1
        /\ f.state # "SYN_RCVD" => nxt <= una + len + one
        /\ one = 1 => f.fin_sent
        /\ f.fin_sent => f.state \notin {"SYN_RCVD", "ESTABLISHED", "CLOSE_WAIT"}
        /\ one \in {0, 1}
    BY <1>3 DEF Pointers
  <2>3. /\ g.snd_una = ack /\ g.snd_nxt = next /\ g.txbuf = rest /\ g.state = st
        /\ g.fin_sent = f.fin_sent /\ g.host_eof = f.host_eof /\ g.used = f.used
        /\ g.snd_wnd = wnd
    <3> HIDE DEF ack, next, rest, st
    <3> QED BY <1>2 DEF Flow
  <2>4. /\ st \in States
        /\ st = "SYN_RCVD" <=> f.state = "SYN_RCVD"
        /\ st = "ESTABLISHED" => f.state = "ESTABLISHED"
        /\ ~fin => st = f.state
        /\ fin => f.fin_sent
        /\ FinAcked(f.state) => FinAcked(st)
        /\ Told(st) <=> Told(f.state)
        /\ f.fin_sent /\ fin => FinAcked(st)
    <3> HIDE DEF fin
    <3>1. CASE ~fin
      BY <1>4, <3>1
    <3>2. CASE fin
      <4>1. f.fin_sent
        BY <3>2 DEF fin
      <4>2. f.state \notin {"SYN_RCVD", "ESTABLISHED", "CLOSE_WAIT"}
        BY <2>2, <4>1
      <4> QED BY <1>4, <3>2, <4>1, <4>2
              DEF States, FinAcked, Told, tcp_guest_finished
    <3> QED BY <3>1, <3>2
  <2>5. dat \in Nat /\ dat <= len
    <3> HIDE DEF una, len, ack
    <3> QED BY <1>1, <1>4, <1>9 DEF Least, ack
  <2> HIDE DEF g
  <2>6. /\ e.used = f.used /\ e.snd_una = ack /\ e.snd_wnd = wnd /\ e.txbuf = rest
        /\ e.fin_sent = f.fin_sent /\ e.host_eof = f.host_eof
        /\ e.state = IF f.state = "SYN_RCVD" THEN "ESTABLISHED" ELSE st
    <3>1. CASE g.state = "SYN_RCVD"
      <4>1. g \in Flow
        <5>1. LET y == Acked(c.f, s) IN Good(With(c, y))
          BY AckedGood
        <5>2. Good(With(c, g))
          BY <2>1, <5>1
        <5> QED BY <5>2 DEF Good, FlowOK, With
      <4>2. e = [g EXCEPT !.state = "ESTABLISHED"]
        BY <3>1 DEF Established
      <4>3. f.state = "SYN_RCVD"
        BY <2>3, <2>4, <3>1
      <4> HIDE DEF e, st, rest, ack, wnd
      <4> QED BY <2>3, <3>1, <4>1, <4>2, <4>3 DEF Flow
    <3>2. CASE g.state # "SYN_RCVD"
      <4>1. e = g
        BY <3>2 DEF Established
      <4> HIDE DEF st, e
      <4> QED BY <2>3, <2>4, <3>2, <4>1
    <3> QED BY <3>1, <3>2
  <2>7. ~(g.state = "SYN_RCVD" /\ g.snd_una < g.snd_nxt)
    <3>1. SUFFICES ASSUME g.state = "SYN_RCVD" PROVE ~(ack < next)
      BY <2>3
    <3>2. f.state = "SYN_RCVD" /\ nxt <= una + 1
      BY <2>2, <2>3, <2>4, <3>1
    <3> HIDE DEF una, nxt, ack
    <3> QED BY <1>1, <1>4, <1>9, <3>2 DEF ack
  <2> HIDE DEF e
  <2>8. e.state # "SYN_RCVD"
    <3> HIDE DEF st
    <3> QED BY <2>4, <2>6
  <2>9. Paced(p, e, c.h)
    <3> HIDE DEF st
    <3> QED BY <1>1, <2>6, <2>8 DEF Paced
  <2>13. nxt <= una + len + one
    <3>1. CASE f.state # "SYN_RCVD"
      BY <2>2, <3>1
    <3>2. CASE f.state = "SYN_RCVD"
      <4>1. f.txbuf # << >> \/ nxt = una
        <5>1. ~Counts(c.f)
          BY <2>1, <2>7
        <5> QED BY <1>2, <3>2, <5>1 DEF Counts
      <4>2. f.txbuf # << >> => len > 0
        <5> DEFINE q == f.txbuf
        <5>1. q \in Seq(Nat)
          BY <1>4
        <5> HIDE DEF q
        <5> QED BY <5>1, NonEmpty DEF q
      <4>3. one = 0 /\ nxt <= una + 1 /\ (len > 0 \/ nxt = una)
        BY <2>2, <3>2, <4>1, <4>2 DEF FinOutstanding
      <4> HIDE DEF una, nxt, len, one
      <4> QED BY <1>4, <4>3
    <3> QED BY <3>1, <3>2
  <2>10. Buffered(p, e, c.h)
    <3>1. Buffered(p, f, c.h) /\ Ended(p, c.h)
      BY <1>5
    <3>3. CASE FinAcked(f.state)
      <4>1. f.txbuf = << >> /\ f.host_eof /\ (p.fin \/ HostLen = 0) /\ c.h.read = HostLen
            /\ (Told(f.state) => p.done)
        BY <1>5, <3>1, <3>3 DEF Buffered
      <4>2. len = 0
        BY <4>1
      <4>3. rest = << >>
        <5> HIDE DEF dat, len
        <5>1. SubSeq(<< >>, dat + 1, len) = << >>
          BY <2>5, <4>2
        <5> QED BY <4>1, <5>1
      <4> HIDE DEF rest, st
      <4>4. e.state = st /\ e.snd_una = ack /\ e.txbuf = << >> /\ e.host_eof
            /\ FinAcked(e.state) /\ (Told(e.state) => p.done)
        <5>1. f.state # "SYN_RCVD"
          BY <3>3 DEF FinAcked
        <5> QED BY <2>4, <2>6, <3>3, <4>1, <4>3, <5>1
      <4>5. p.org + 1 <= e.snd_una
        BY <1>1, <4>4
      <4> QED BY <2>8, <4>1, <4>4, <4>5 DEF Buffered
    <3>4. CASE ~FinAcked(f.state)
      <4> DEFINE rd == c.h.read
      <4>1. /\ rd = una - k - 1 + len
            /\ \A i \in 1 .. len : f.txbuf[i] = una - k - 1 + i
            /\ k + 1 <= una
            /\ f.fin_sent => f.host_eof
            /\ f.host_eof => rd = HostLen
            /\ Told(f.state) => p.done
        BY <1>5, <3>1, <3>4 DEF Buffered
      <4>2. rd \in Nat
        BY DEF Good, HostOK, HostSocket
      <4> HIDE DEF rd
      <4>3. CASE ack - una <= len
        <5>1. dat = ack - una /\ ~fin
          <6> HIDE DEF una, ack, len
          <6> QED BY <1>1, <1>4, <4>3 DEF Least
        <5>2. /\ rd = ack - k - 1 + Len(rest)
              /\ \A i \in 1 .. Len(rest) : rest[i] = ack - k - 1 + i
          <6> DEFINE q == f.txbuf
          <6>1. q \in Seq(Nat) /\ len = Len(q)
            BY <1>4
          <6>2. rest = SubSeq(q, (ack - una) + 1, len)
            BY <5>1
          <6>3. rd = una - k - 1 + Len(q) /\ ack - una <= Len(q)
            BY <4>1, <4>3, <6>1
          <6>4. \A i \in 1 .. Len(q) : q[i] = una - k - 1 + i
            BY <4>1, <6>1
          <6>5. una \in Nat /\ ack \in Nat /\ k \in Nat /\ k + 1 <= una /\ una <= ack
            BY <1>1, <1>4, <4>1
          <6> DEFINE r == SubSeq(q, (ack - una) + 1, Len(q))
          <6>6. rest = r
            BY <6>1, <6>2
          <6> HIDE DEF q, una, ack, k, dat, rest, len
          <6>7. rd = ack - k - 1 + Len(r) /\ \A i \in 1 .. Len(r) : r[i] = ack - k - 1 + i
            BY <4>2, <6>1, <6>3, <6>4, <6>5, Shifted
          <6> HIDE DEF r
          <6> QED BY <6>6, <6>7
        <5> HIDE DEF rest, st, fin
        <5>3. /\ e.state = f.state \/ e.state = "ESTABLISHED"
              /\ e.snd_una = ack /\ e.txbuf = rest
              /\ e.fin_sent = f.fin_sent /\ e.host_eof = f.host_eof
          BY <2>4, <2>6, <3>4, <5>1
        <5>4. p.org + 1 <= e.snd_una
          BY <1>1, <5>3
        <5>5. rd = e.snd_una - p.org - 1 + Len(e.txbuf)
          BY <5>2, <5>3
        <5>6. \A i \in 1 .. Len(e.txbuf) : e.txbuf[i] = e.snd_una - p.org - 1 + i
          BY <5>2, <5>3
        <5>7. ~FinAcked(e.state) /\ (Told(e.state) => p.done)
          BY <3>4, <4>1, <5>3 DEF FinAcked, Told, tcp_guest_finished
        <5> QED BY <4>1, <5>3, <5>4, <5>5, <5>6, <5>7 DEF Buffered, rd
      <4>4. CASE ack - una > len
        <5>1. f.fin_sent
          <6>1. nxt <= una + len + one /\ one \in {0, 1} /\ (one = 1 => f.fin_sent)
            BY <2>2, <2>13
          <6>2. ack <= end
            BY <1>9
          <6> DEFINE b == f.fin_sent
          <6>3. b \in BOOLEAN
            BY <1>4
          <6> HIDE DEF una, nxt, len, ack, one, b
          <6>4. b
            BY <1>1, <1>4, <4>4, <6>1, <6>2, <6>3, AckCovers DEF b
          <6> QED BY <6>4 DEF b
        <5>2. fin /\ dat = len
          <6>1. dat = len
            <7> HIDE DEF una, len, ack
            <7> QED BY <1>1, <1>4, <4>4 DEF Least
          <6> QED BY <4>4, <5>1, <6>1
        <5>3. rest = << >>
          <6> DEFINE q == f.txbuf
          <6>1. q \in Seq(Nat) /\ len = Len(q)
            BY <1>4
          <6> HIDE DEF q
          <6>2. SubSeq(q, len + 1, len) = << >>
            BY <6>1
          <6> QED BY <5>2, <6>2 DEF q
        <5>4. f.host_eof /\ rd = HostLen
          BY <4>1, <5>1
        <5>5. p.fin \/ HostLen = 0
          <6>1. rcv > k + 1 + HostLen
            <7> HIDE DEF una, len, ack, k, rcv
            <7> QED BY <1>1, <1>4, <4>1, <4>2, <4>4, <5>4, SizesAssumption
          <6> QED BY <6>1, SizesAssumption DEF ViewOK
        <5> HIDE DEF rest, st, fin
        <5>6. e.state = st /\ FinAcked(e.state) /\ (Told(e.state) => p.done)
              /\ e.txbuf = << >> /\ e.host_eof /\ e.snd_una = ack
          <6>1. f.state # "SYN_RCVD"
            BY <2>2, <5>1
          <6> QED BY <2>4, <2>6, <3>4, <4>1, <5>1, <5>2, <5>3, <5>4, <6>1
        <5>7. p.org + 1 <= e.snd_una
          BY <1>1, <5>6
        <5> QED BY <2>8, <5>4, <5>5, <5>6, <5>7 DEF Buffered, rd
      <4>5. ack - una <= len \/ ack - una > len
        <5> HIDE DEF una, ack, len
        <5> QED BY <1>1, <1>4
      <4> QED BY <4>3, <4>4, <4>5
    <3> QED BY <3>3, <3>4
  <2>11. Linked(p, With(c, e))
    BY <1>6, <2>6, <2>9, <2>10
  <2>12. g.snd_una <= ack
    BY <1>1, <2>3
  <2> QED BY <2>1, <2>7, <2>11, <2>12 DEF e
<1> QED BY <1>8, <1>9

(* The handshake as RFC 793 has it: the SYN is counted, and the stream
   begins after it.  Nothing was read from the host yet.                    *)
LEMMA AckedCounted ==
  ASSUME NEW g, NEW i \in Nat, NEW o, NEW c, Good(c), c.f.used,
         ViewOK(View(g, i, o)), Linked(View(g, i, o), c),
         c.h.ready, NEW s \in Segment, Heard(View(g, i, o), s),
         Counts(c.f),
         LET f == Acked(c.f, s) IN ~(f.state = "SYN_RCVD" /\ f.snd_una < f.snd_nxt)
  PROVE  LET f == Acked(c.f, s)
             q == View(g, i, i)
         IN /\ Linked(q, With(c, Established(f))) /\ f.snd_una <= s.ack
            /\ c.h.read = 0 /\ ViewOK(q)
<1> DEFINE p   == View(g, i, o)
           q   == View(g, i, i)
           f   == Acked(c.f, s)
           e   == Established(f)
           ack == s.ack
           wnd == s.wnd
           rd  == c.h.read
<1>1. /\ p.iss = i /\ q.iss = i /\ p.org = o /\ q.org = i
      /\ q.rcv = p.rcv /\ q.edge = p.edge /\ q.fin = p.fin /\ q.done = p.done
  BY DEF View
<1> HIDE DEF p, q
<1>2. /\ i + 1 <= ack /\ ack <= p.rcv /\ ack + wnd <= p.edge /\ ack \in Nat /\ wnd \in Nat
      /\ p.rcv \in Nat /\ p.edge \in Nat /\ o \in Nat /\ o <= i /\ i <= o + 1
      /\ HostLen # 0 /\ p.rcv > o + 1 + HostLen => p.fin
  BY <1>1 DEF Segment, ViewOK, Heard, p
<1>3. Linked(p, c)
  BY DEF p
<1>4. /\ c.f \in Flow /\ c.f.snd_una = i /\ c.f.snd_nxt = i + 1 /\ c.f.txbuf = << >>
      /\ ~c.f.fin_sent /\ c.f.state = "SYN_RCVD" /\ rd \in Nat
  <2>1. /\ c.f \in Flow /\ Pointers(c.f) /\ rd \in Nat
    BY DEF Good, FlowOK, HostOK, HostSocket
  <2>2. /\ c.f.snd_una = i /\ c.f.txbuf = << >> /\ c.f.state = "SYN_RCVD"
        /\ c.f.snd_nxt # c.f.snd_una
    BY <1>1, <1>3 DEF Counts, Linked, Paced
  <2>3. c.f.snd_nxt \in Nat /\ c.f.fin_sent \in BOOLEAN
    BY <2>1 DEF Flow
  <2>4. c.f.snd_nxt = i + 1
    BY <2>1, <2>2, <2>3 DEF Pointers
  <2> QED BY <2>1, <2>2, <2>3, <2>4 DEF Pointers
<1>5. rd = 0 /\ o + 1 = i
  <2>1. o + 1 <= i /\ rd = i - o - 1 + 0
    <3>1. ~FinAcked(c.f.state) /\ Len(c.f.txbuf) = 0
      BY <1>4 DEF FinAcked
    <3> QED BY <1>1, <1>3, <1>4, <3>1 DEF Linked, Buffered
  <2> HIDE DEF rd
  <2> QED BY <1>2, <1>4, <2>1
<1>6. /\ e.used /\ e.state = "ESTABLISHED" /\ e.snd_una = ack /\ ack = i + 1
      /\ e.snd_wnd = wnd /\ e.txbuf = << >> /\ ~e.fin_sent
      /\ e.host_eof = c.f.host_eof /\ f.snd_una = ack
  <2>0. ~(f.state = "SYN_RCVD" /\ f.snd_una < f.snd_nxt)
    OBVIOUS
  <2> DEFINE b == [c.f EXCEPT !.snd_wnd = wnd]
  <2>1. /\ b \in Flow /\ b.snd_una = i /\ b.snd_nxt = i + 1 /\ b.txbuf = << >>
        /\ ~b.fin_sent /\ b.state = "SYN_RCVD" /\ b.used /\ b.snd_wnd = wnd
        /\ b.host_eof = c.f.host_eof
    BY <1>2, <1>4 DEF Flow
  <2>2. f = tcp_consume_ack(b, ack)
    BY DEF Acked
  <2> HIDE DEF b
  <2>3. Len(b.txbuf) = 0
    BY <2>1
  <2>4. ack <= i + 1
    <3>1. SUFFICES ASSUME ack > i + 1 PROVE FALSE
      BY <1>2
    <3>2. ~(ack <= (IF i + 0 + 0 < i + 1 THEN i + 1 ELSE i + 0 + 0))
      BY <1>2, <3>1
    <3>3. f = b
      BY <2>1, <2>2, <2>3, <3>2 DEF tcp_consume_ack
    <3> HIDE DEF f
    <3> QED BY <1>2, <2>0, <2>1, <3>3
  <2>5. ack = i + 1
    BY <1>2, <2>4
  <2> DEFINE rest == SubSeq(<< >>, Least(ack - i, 0) + 1, 0)
             y == [b EXCEPT !.txbuf = rest, !.snd_una = ack,
                            !.snd_nxt = IF @ < ack THEN ack ELSE @,
                            !.rtx = 0, !.rto_on = FALSE, !.state = @]
  <2>6. f = y
    <3>1. b.snd_una < ack /\ ack <= (IF i + 0 + 0 < i + 1 THEN i + 1 ELSE i + 0 + 0)
      BY <2>1, <2>5
    <3> QED BY <2>1, <2>2, <2>3, <3>1 DEF tcp_consume_ack
  <2>7. rest = << >>
    <3>1. Least(ack - i, 0) = 0
      BY <1>2, <2>5 DEF Least
    <3> QED BY <3>1
  <2> HIDE DEF rest
  <2>8. /\ f.state = "SYN_RCVD" /\ f.used /\ f.snd_una = ack /\ f.snd_wnd = wnd
        /\ f.txbuf = << >> /\ ~f.fin_sent /\ f.host_eof = c.f.host_eof
    BY <2>1, <2>6, <2>7 DEF Flow
  <2>9. f \in Flow
    <3>1. /\ << >> \in Seq(Nat) /\ i + 1 \in Nat /\ ~(i + 1 < i + 1)
      OBVIOUS
    <3>2. y \in Flow
      <4>1. /\ b \in Flow /\ rest \in Seq(Nat) /\ ack \in Nat
            /\ (IF b.snd_nxt < ack THEN ack ELSE b.snd_nxt) \in Nat
        BY <2>1, <2>5, <2>7, <3>1
      <4> HIDE DEF ack
      <4> QED BY <4>1 DEF Flow
    <3> QED BY <2>6, <3>2
  <2> HIDE DEF f
  <2>10. e = [f EXCEPT !.state = "ESTABLISHED"]
    BY <2>8 DEF Established
  <2> HIDE DEF e
  <2> QED BY <2>5, <2>8, <2>9, <2>10 DEF Flow
<1> HIDE DEF e, f
<1>7. Paced(q, e, c.h)
  BY <1>1, <1>2, <1>6 DEF Paced
<1>8. Buffered(q, e, c.h) /\ Ended(q, c.h)
  <2>1. ~FinAcked("ESTABLISHED") /\ ~Told("ESTABLISHED")
    BY DEF FinAcked, Told, tcp_guest_finished
  <2>2. rd = ack - i - 1 + Len(e.txbuf) /\ i + 1 <= ack
    <3>1. Len(e.txbuf) = 0
      BY <1>6
    <3> HIDE DEF rd, ack
    <3> QED BY <1>5, <1>6, <3>1
  <2>3. \A n \in 1 .. Len(e.txbuf) : e.txbuf[n] = ack - i - 1 + n
    <3>1. Len(e.txbuf) = 0
      BY <1>6
    <3> QED BY <3>1
  <2>4. c.f.host_eof => rd = HostLen
    BY <1>3 DEF Linked, Buffered
  <2> QED BY <1>1, <1>3, <1>6, <2>1, <2>2, <2>3, <2>4 DEF Linked, Buffered, Ended
<1>9. Sent(p, c.h) \subseteq Sent(q, c.h)
  <2> SUFFICES ASSUME NEW m \in Sent(p, c.h) PROVE m \in Sent(q, c.h)
    OBVIOUS
  <2>1. m \in Segment /\ CutFromStream(p, c.h, m)
    BY DEF Sent
  <2>2. m.data = << >>
    <3>1. SUFFICES ASSUME m.data # << >> PROVE FALSE
      OBVIOUS
    <3> DEFINE n == m.seq
               d == m.data
    <3>2. o + 1 <= n /\ n + Len(d) <= o + 1 + 0
      BY <1>1, <1>5, <2>1, <3>1 DEF CutFromStream
    <3>3. n \in Nat /\ d \in Seq(Nat) /\ d # << >>
      BY <2>1, <3>1 DEF Segment
    <3> HIDE DEF n, d
    <3>4. Len(d) > 0
      BY <3>3, NonEmpty
    <3> QED BY <1>2, <3>2, <3>3, <3>4
  <2>3. "FIN" \in m.flags => HostLen = 0 /\ rd = HostLen
    BY <1>5, <2>1 DEF CutFromStream
  <2> QED BY <1>1, <2>1, <2>2, <2>3 DEF Sent, CutFromStream
<1>10. c.out \in Seq(Sent(q, c.h))
  BY <1>3, <1>9, SeqMonotonic DEF Linked
<1>11. Linked(q, With(c, e))
  BY <1>7, <1>8, <1>10 DEF Linked, With
<1>12. ViewOK(q)
  <2>1. HostLen # 0 /\ p.rcv > i + 1 + HostLen => p.fin
    BY <1>2, SizesAssumption
  <2> QED BY <1>1, <1>2, <2>1 DEF ViewOK
<1> QED BY <1>2, <1>5, <1>6, <1>11, <1>12 DEF e, f, q

(* TakeData and TakeFin: the state moves on with the guest's FIN only.      *)
LEMMA TakenSame ==
  ASSUME NEW f \in Flow, NEW s
  PROVE  LET g == TakeData(f, s)
         IN /\ g.used = f.used /\ g.snd_una = f.snd_una /\ g.snd_nxt = f.snd_nxt
            /\ g.snd_wnd = f.snd_wnd /\ g.txbuf = f.txbuf /\ g.state = f.state
            /\ g.host_eof = f.host_eof /\ g.fin_sent = f.fin_sent
<1> DEFINE g == TakeData(f, s)
           skip == f.rcv_nxt - s.seq
           len  == Least(Len(s.data) - skip, NET_TCP_RXBUF - Len(f.rxbuf))
           more == f.rxbuf \o SubSeq(s.data, skip + 1, skip + len)
           next == f.rcv_nxt + len
<1>1. \/ g = f
      \/ g = [f EXCEPT !.rxbuf = more, !.rcv_nxt = next, !.need_ack = TRUE]
      \/ g = [f EXCEPT !.need_ack = TRUE]
  BY DEF TakeData
<1> HIDE DEF g, more, next
<1>2. /\ g.used = f.used /\ g.snd_una = f.snd_una /\ g.snd_nxt = f.snd_nxt
      /\ g.snd_wnd = f.snd_wnd /\ g.txbuf = f.txbuf /\ g.state = f.state
      /\ g.host_eof = f.host_eof /\ g.fin_sent = f.fin_sent
  BY <1>1 DEF Flow
<1> QED BY <1>2 DEF g

LEMMA FinishedSame ==
  ASSUME NEW f \in Flow, f.state # "SYN_RCVD", NEW s
  PROVE  LET g == TakeFin(f, s)
         IN /\ g.used = f.used /\ g.snd_una = f.snd_una /\ g.snd_nxt = f.snd_nxt
            /\ g.snd_wnd = f.snd_wnd /\ g.txbuf = f.txbuf
            /\ g.host_eof = f.host_eof /\ g.fin_sent = f.fin_sent
            /\ g.state # "SYN_RCVD"
            /\ FinAcked(g.state) <=> FinAcked(f.state)
            /\ Told(g.state) => Told(f.state) \/ "FIN" \in s.flags
<1> DEFINE g    == TakeFin(f, s)
           next == f.rcv_nxt + 1
           st   == CASE f.state = "ESTABLISHED" -> "CLOSE_WAIT"
                     [] f.state = "FIN_WAIT_1"  -> "CLOSING"
                     [] f.state = "FIN_WAIT_2"  -> "TIME_WAIT"
                     [] OTHER                   -> f.state
<1>1. \/ g = f
      \/ g = [f EXCEPT !.need_ack = TRUE]
      \/ /\ g = [f EXCEPT !.rcv_nxt = next, !.need_ack = TRUE, !.state = st]
         /\ "FIN" \in s.flags
  BY DEF TakeFin
<1>2. st # "SYN_RCVD" /\ (FinAcked(st) <=> FinAcked(f.state))
  BY DEF Flow, States, FinAcked
<1> HIDE DEF g, next, st
<1>3. /\ g.used = f.used /\ g.snd_una = f.snd_una /\ g.snd_nxt = f.snd_nxt
      /\ g.snd_wnd = f.snd_wnd /\ g.txbuf = f.txbuf
      /\ g.host_eof = f.host_eof /\ g.fin_sent = f.fin_sent
      /\ g.state = f.state \/ (g.state = st /\ "FIN" \in s.flags)
  BY <1>1 DEF Flow
<1>4. g.state # "SYN_RCVD" /\ (FinAcked(g.state) <=> FinAcked(f.state))
  BY <1>2, <1>3
<1> QED BY <1>3, <1>4 DEF g

(* The three changes an honest segment makes together, in the view the
   acknowledgement leaves.                                                  *)
LEMMA AbsorbedLinked ==
  ASSUME NEW p, NEW c, Good(c), c.f.used, c.f.state # "CLOSED",
         c.h.ready, NEW s \in Segment, Heard(p, s), c.f.snd_una <= s.ack,
         LET f == Acked(c.f, s)
         IN /\ ~(f.state = "SYN_RCVD" /\ f.snd_una < f.snd_nxt)
            /\ Linked(p, With(c, Established(f))) /\ f.snd_una <= s.ack
  PROVE  LET d == With(c, Absorbed(c.f, s))
         IN Linked(p, d) /\ d.f.snd_una <= s.ack /\ d.f.state # "SYN_RCVD"
<1> DEFINE f1 == Acked(c.f, s)
           f2 == Established(f1)
           f3 == TakeData(f2, s)
           f4 == TakeFin(f3, s)
           d  == With(c, f4)
<1>1. Good(With(c, f1)) /\ f1.used = c.f.used
  BY AckedGood
<1>2. ~(f1.state = "SYN_RCVD" /\ f1.snd_una < f1.snd_nxt)
  OBVIOUS
<1>3. Linked(p, With(c, f2)) /\ f1.snd_una <= s.ack
  OBVIOUS
<1> HIDE DEF f1
<1>4. f1 \in Flow /\ f1.state \in States /\ (f1.state = "SYN_RCVD" => f1.snd_una = f1.snd_nxt)
  BY <1>1, <1>2 DEF Good, FlowOK, Flow, Pointers, With
<1>5. f2 \in Flow /\ f2.state # "SYN_RCVD" /\ f2.snd_una = f1.snd_una /\ f2.used = f1.used
  BY <1>4, ZenonT(30) DEF Established, Flow, States
<1>6. Good(With(c, f2))
  <2> DEFINE c1 == With(c, f1)
  <2>1. c1.f = f1 /\ (\A g : With(c1, g) = With(c, g)) /\ Good(c1)
    BY <1>1 DEF With
  <2> HIDE DEF c1
  <2>2. LET g == Established(c1.f) IN Good(With(c1, g))
    BY <1>4, <2>1, EstablishedGood
  <2> QED BY <2>1, <2>2
<1> HIDE DEF f2
<1>7. /\ f3.used = f2.used /\ f3.snd_una = f2.snd_una /\ f3.snd_nxt = f2.snd_nxt
      /\ f3.snd_wnd = f2.snd_wnd /\ f3.txbuf = f2.txbuf /\ f3.state = f2.state
      /\ f3.host_eof = f2.host_eof /\ f3.fin_sent = f2.fin_sent
  BY <1>5, TakenSame
<1>8. f3 \in Flow
  <2> DEFINE c2 == With(c, f2)
  <2>1. c2.f = f2 /\ (\A g : With(c2, g) = With(c, g)) /\ Good(c2)
    BY <1>6 DEF With
  <2> HIDE DEF c2
  <2>2. LET g == TakeData(c2.f, s) IN Good(With(c2, g))
    BY <1>5, <2>1, TakeDataGood
  <2> QED BY <2>1, <2>2 DEF Good, FlowOK, With
<1> HIDE DEF f3
<1>9. /\ f4.used = f3.used /\ f4.snd_una = f3.snd_una /\ f4.snd_nxt = f3.snd_nxt
      /\ f4.snd_wnd = f3.snd_wnd /\ f4.txbuf = f3.txbuf
      /\ f4.host_eof = f3.host_eof /\ f4.fin_sent = f3.fin_sent
      /\ f4.state # "SYN_RCVD"
      /\ FinAcked(f4.state) <=> FinAcked(f3.state)
      /\ Told(f4.state) => Told(f3.state) \/ "FIN" \in s.flags
  BY <1>5, <1>7, <1>8, FinishedSame
<1> HIDE DEF f4
<1>10. Linked(p, d)
  <2> DEFINE b == With(c, f2)
  <2>1. b.f = f2 /\ (\A g : With(b, g) = With(c, g)) /\ Linked(p, b)
    BY <1>3 DEF With
  <2> HIDE DEF b
  <2>2. Told(f4.state) => Told(b.f.state) \/ p.done
    BY <1>7, <1>9, <2>1 DEF Heard
  <2>3. Linked(p, With(b, f4))
    BY <1>5, <1>7, <1>9, <2>1, <2>2, ReceivedLinked
  <2> QED BY <2>1, <2>3
<1>11. d.f = f4 /\ f4.snd_una <= s.ack /\ f4.state # "SYN_RCVD"
  BY <1>3, <1>5, <1>7, <1>9 DEF With
<1>12. Absorbed(c.f, s) = f4
  BY DEF Absorbed, f1, f2, f3, f4
<1> QED BY <1>10, <1>11, <1>12

(* A bare reset for a segment that belongs to no flow.                      *)
LEMMA RejectLinked ==
  ASSUME NEW p, NEW c \in Context, Good(c), Linked(p, c), NEW s \in Segment
  PROVE  LET d == tcp_reject(c, s) IN Linked(p, d) /\ d.f = c.f /\ d.h = c.h
<1> DEFINE d == tcp_reject(c, s)
           occupied == Len(s.data) + (IF "SYN" \in s.flags THEN 1 ELSE 0)
                                   + (IF "FIN" \in s.flags THEN 1 ELSE 0)
           rst == IF "ACK" \in s.flags
                  THEN [flags |-> {"RST"}, seq |-> s.ack, ack |-> 0, wnd |-> 0,
                        data |-> << >>]
                  ELSE [flags |-> {"RST", "ACK"}, seq |-> 0,
                        ack |-> s.seq + occupied, wnd |-> 0, data |-> << >>]
<1>1. d.f = c.f /\ d.h = c.h /\ RingOK(d.out)
  BY RejectGood
<1>2. d.out = c.out \/ d.out = Append(c.out, rst)
  BY DEF tcp_reject, Context
<1>3. ASSUME d.out = Append(c.out, rst) PROVE d.out \in Seq(Sent(p, c.h))
  <2>1. "SYN" \notin rst.flags /\ "FIN" \notin rst.flags /\ rst.data = << >>
    OBVIOUS
  <2> HIDE DEF rst, d
  <2>2. c.out \in Seq(Segment) /\ d.out \in Seq(Segment) /\ Len(c.out) \in Nat
        /\ Len(c.out) + 1 \in 1 .. Len(c.out) + 1
    BY <1>1 DEF Good, RingOK
  <2>3. Len(d.out) = Len(c.out) + 1 /\ d.out[Len(c.out) + 1] = rst
    BY <1>3, <2>2
  <2>4. rst \in Segment
    BY <2>2, <2>3, ElementOfSeq
  <2>5. rst \in Sent(p, c.h)
    BY <2>1, <2>4, BareSent
  <2> QED BY <1>3, <2>5, AppendProperties DEF Linked
<1> HIDE DEF d
<1>4. d.out \in Seq(Sent(p, d.h))
  BY <1>1, <1>2, <1>3 DEF Linked
<1>5. Linked(p, d)
  BY <1>1, <1>4 DEF Linked
<1> QED BY <1>1, <1>5 DEF d

(* tcp_syn: a slot that starts over.  The guest has received nothing, so what
   is on its way to it are SYNs of the slots before and bare segments.      *)
LEMMA SynLinked ==
  ASSUME NEW p, ViewOK(p), p.iss = p.org + 1, NEW s \in Segment,
         p.iss + s.wnd <= p.edge,
         NEW o, NEW h, o.rcv = 0, o.iss \in Nat, o.iss < p.iss, NEW q \in Seq(Sent(o, h))
  PROVE  Linked(p, [f |-> SynFlow(s, p.iss), out |-> q, h |-> NewSocket])
<1> DEFINE f == SynFlow(s, p.iss)
<1>1. /\ f.state = "SYN_RCVD" /\ f.snd_una = p.iss /\ f.snd_nxt = p.iss
      /\ f.snd_wnd = s.wnd /\ f.txbuf = << >>
      /\ f.fin_sent = FALSE /\ f.host_eof = FALSE
  BY DEF SynFlow, NoFlow
<1>2. NewSocket.ready = FALSE /\ NewSocket.read = 0 /\ NewSocket.fate = "live"
  BY DEF NewSocket
<1> HIDE DEF f
<1>3. Paced(p, f, NewSocket)
  BY <1>1, <1>2 DEF Paced
<1>4. Buffered(p, f, NewSocket) /\ Ended(p, NewSocket)
  <2>1. p.org + 1 <= p.iss /\ 0 = p.iss - p.org - 1 + 0
    <3> DEFINE a == p.org
               b == p.iss
    <3>1. a \in Nat /\ b = a + 1
      BY DEF ViewOK
    <3> HIDE DEF a, b
    <3>2. a + 1 <= b /\ 0 = b - a - 1 + 0
      BY <3>1
    <3> QED BY <3>2 DEF a, b
  <2>2. Len(f.txbuf) = 0
    BY <1>1
  <2> QED BY <1>1, <1>2, <2>1, <2>2, SizesAssumption
          DEF Buffered, Ended, FinAcked, Told, tcp_guest_finished
<1>5. Sent(o, h) \subseteq Sent(p, NewSocket)
  <2> SUFFICES ASSUME NEW m \in Sent(o, h) PROVE m \in Sent(p, NewSocket)
    OBVIOUS
  <2>1. m \in Segment /\ m.data = << >> /\ "FIN" \notin m.flags
    BY DEF Sent
  <2>2. "SYN" \in m.flags => m.seq <= p.iss /\ m.seq # p.iss
    <3> DEFINE a == m.seq
    <3>1. a \in Nat /\ ("SYN" \in m.flags => a <= o.iss)
      BY DEF Sent, Segment
    <3> HIDE DEF a
    <3>2. "SYN" \in m.flags => a <= p.iss /\ a # p.iss
      BY <3>1 DEF ViewOK
    <3> QED BY <3>2 DEF a
  <2> QED BY <2>1, <2>2 DEF Sent, CutFromStream
<1>6. q \in Seq(Sent(p, NewSocket))
  BY <1>5, SeqMonotonic
<1> QED BY <1>3, <1>4, <1>6 DEF Linked, f

---------------------------------------------------------------------------
(* The invariant of the link.                                               *)

(* What the guest has read is the host's stream from the octet after o on. *)
HasRead(g, i, o, h) ==
  /\ g.rcv # 0 => g.rcv = i + 1 + Len(g.got) + (IF g.fin THEN 1 ELSE 0)
  /\ g.got # << >> => Len(g.got) + (i - o) <= h.read
  /\ \A k \in 1 .. Len(g.got) : g.got[k] = k + (i - o)
  /\ g.fin => h.read = HostLen /\ (HostLen = 0 \/ Len(g.got) + (i - o) = HostLen)

(* The guest's block: nothing received before our SYN-ACK, which is not
   sent before the host has answered.                                       *)
Peer(g, i, o, h) ==
  /\ g \in Guest /\ g.nxt <= FinSeq + 1
  /\ g.st = "open" => g.rcv # 0
  /\ g.st \in {"idle", "syn_sent"} => g.rcv = 0
  /\ g.rcv = 0 => g.got = << >> /\ ~g.fin /\ g.unread = 0 /\ g.nxt <= FinSeq
  /\ g.rcv # 0 => g.irs = i /\ i + 1 <= g.rcv /\ h.ready
  /\ HasRead(g, i, o, h)

(* The line toward the host: SYNs, and ACKs in the order they were sent.    *)
Travels(p, f, s) ==
  /\ "SYN" \in s.flags => s.flags = {"SYN"} /\ s.wnd <= GuestBuf
  /\ Plain(s) => p.rcv # 0 /\ Heard(p, s) /\ (f.used => f.snd_una <= s.ack)

Follows(s, t) == Plain(s) /\ Plain(t) => s.ack <= t.ack

Lined(p, f, q) ==
  /\ \A i \in 1 .. Len(q) : Travels(p, f, q[i])
  /\ \A i, j \in 1 .. Len(q) : i < j => Follows(q[i], q[j])

(* The slot is of the guest's connection, and the host's stream begins after
   the sequence number o.                                                   *)
LInv(o) ==
  /\ IInv
  /\ o <= iss /\ iss <= o + 1
  /\ Peer(guest, iss, o, host)
  /\ line \in Seq(Segment)
  /\ Lined(View(guest, iss, o), flow, line)
  /\ Linked(View(guest, iss, o), Here)
  /\ iss = 0 => ~flow.used

(* The fields of a view. *)
LEMMA ViewFields ==
  ASSUME NEW g \in Guest, NEW i \in Nat, NEW o
  PROVE  LET p == View(g, i, o)
         IN /\ p.iss = i /\ p.org = o /\ p.rcv = g.rcv /\ p.fin = g.fin
            /\ p.done <=> g.nxt = FinSeq + 1
            /\ g.rcv = 0 => p.edge = i + 1 + GuestBuf
            /\ g.rcv # 0 => p.edge = g.rcv + GuestBuf - g.unread
            /\ p.edge \in Nat /\ g.rcv \in Nat /\ g.unread \in Nat /\ GuestBuf \in Nat
            /\ g.unread <= GuestBuf
<1> DEFINE rcv    == g.rcv
           unread == g.unread
           edge   == IF rcv = 0 THEN i + 1 + GuestBuf ELSE rcv + GuestBuf - unread
           done   == g.nxt = FinSeq + 1
<1>1. /\ rcv \in Nat /\ unread \in Nat /\ GuestBuf \in Nat /\ unread <= GuestBuf
  BY GuestAssumption DEF Guest
<1>2. edge \in Nat
  <2> HIDE DEF rcv, unread
  <2> QED BY <1>1
<1>3. View(g, i, o) = [iss |-> i, org |-> o, rcv |-> rcv, edge |-> edge,
                       fin |-> g.fin, done |-> done]
  BY DEF View
<1> DEFINE p == View(g, i, o)
<1> HIDE DEF p
<1>4. /\ p.iss = i /\ p.org = o /\ p.rcv = rcv /\ p.fin = g.fin /\ p.done = done
      /\ p.edge = edge
  <2> HIDE DEF rcv, edge, done
  <2> QED BY <1>3 DEF p
<1>5. /\ rcv = 0 => p.edge = i + 1 + GuestBuf
      /\ rcv # 0 => p.edge = rcv + GuestBuf - unread
  BY <1>4
<1> QED BY <1>1, <1>2, <1>4, <1>5 DEF p

(* A view of the guest is a view the endpoint may rely on. *)
LEMMA ViewGood ==
  ASSUME NEW g, NEW i \in Nat, NEW o \in Nat, o <= i, i <= o + 1,
         NEW h, Peer(g, i, o, h), h.read \in Nat, h.read <= HostLen
  PROVE  ViewOK(View(g, i, o))
<1> DEFINE p == View(g, i, o)
           rcv == g.rcv
           len == Len(g.got)
<1>1. g \in Guest /\ rcv \in Nat /\ g.got \in Seq(Nat) /\ len \in Nat
  BY DEF Peer, Guest
<1>2. p.iss = i /\ p.org = o /\ p.rcv = rcv /\ p.fin = g.fin /\ p.edge \in Nat
  BY <1>1, ViewFields
<1> HIDE DEF p
<1>3. ASSUME HostLen # 0, rcv > o + 1 + HostLen PROVE g.fin
  <2>1. HasRead(g, i, o, h)
    BY DEF Peer
  <2>2. rcv # 0 /\ HostLen \in Nat
    <3> HIDE DEF rcv
    <3> QED BY <1>1, <1>3, SizesAssumption
  <2>3. SUFFICES ASSUME ~g.fin PROVE FALSE
    OBVIOUS
  <2>4. rcv = i + 1 + len + 0 /\ (g.got # << >> => len + (i - o) <= h.read)
    BY <2>1, <2>2, <2>3 DEF HasRead
  <2> DEFINE rd == h.read
  <2>5. rd \in Nat /\ rd <= HostLen
    OBVIOUS
  <2>6. CASE g.got = << >>
    <3>1. len = 0
      BY <2>6
    <3> HIDE DEF rcv, len
    <3> QED BY <1>1, <1>3, <2>2, <2>4, <3>1
  <2>7. CASE g.got # << >>
    <3>1. len + (i - o) <= rd
      BY <2>4, <2>7
    <3> HIDE DEF rcv, len, rd
    <3> QED BY <1>1, <1>3, <2>2, <2>4, <2>5, <3>1
  <2> QED BY <2>6, <2>7
<1> QED BY <1>1, <1>2, <1>3 DEF ViewOK, p

(* What a context owes a guest stays paid as the guest moves on. *)
LEMMA LinkedGrows ==
  ASSUME NEW p, NEW q, ViewOK(p), ViewOK(q), Grows(p, q), NEW c, Good(c), Linked(p, c)
  PROVE  Linked(q, c)
<1>1. c.h.read \in Nat /\ c.f.snd_una \in Nat /\ c.f.snd_wnd \in Nat
  BY DEF Good, HostOK, HostSocket, FlowOK, Flow
<1>2. Paced(q, c.f, c.h)
  <2> DEFINE sum == c.f.snd_una + c.f.snd_wnd
             una == c.f.snd_una
  <2>1. sum \in Nat /\ una \in Nat
    <3> DEFINE wnd == c.f.snd_wnd
    <3>1. una \in Nat /\ wnd \in Nat
      BY <1>1
    <3> HIDE DEF una, wnd
    <3>2. una + wnd \in Nat
      BY <3>1
    <3> QED BY <3>1, <3>2 DEF una, wnd
  <2>2. c.f.used => /\ sum <= p.edge
                    /\ c.f.state # "SYN_RCVD" => una <= p.rcv
    BY DEF Linked, Paced
  <2> HIDE DEF sum, una
  <2>3. c.f.used => /\ sum <= q.edge
                    /\ c.f.state # "SYN_RCVD" => una <= q.rcv
    BY <2>1, <2>2 DEF ViewOK, Grows
  <2> QED BY <2>3 DEF Linked, Paced, Grows, sum, una
<1>3. Buffered(q, c.f, c.h) /\ Ended(q, c.h)
  <2> SUFFICES ASSUME Buffered(p, c.f, c.h), Ended(p, c.h)
               PROVE  Buffered(q, c.f, c.h) /\ Ended(q, c.h)
    BY DEF Linked
  <2>1. q.iss = p.iss /\ q.org = p.org /\ (p.fin => q.fin) /\ (p.done => q.done)
    BY DEF Grows
  <2> QED BY <2>1 DEF Buffered, Ended
<1>4. c.out \in Seq(Sent(q, c.h))
  <2>1. c.h.read <= HostLen
    BY DEF Linked, Ended
  <2>2. c.h.read <= c.h.read
    BY <1>1
  <2>3. Sent(p, c.h) \subseteq Sent(q, c.h)
    BY <1>1, <2>1, <2>2, SentGrows
  <2> QED BY <2>3, SeqMonotonic DEF Linked
<1> QED BY <1>2, <1>3, <1>4 DEF Linked

(* ... and so does what is on the line. *)
LEMMA LinedGrows ==
  ASSUME NEW p, NEW r, ViewOK(p), ViewOK(r), Grows(p, r), NEW f, NEW q \in Seq(Segment),
         Lined(p, f, q)
  PROVE  Lined(r, f, q)
<1> SUFFICES ASSUME NEW i \in 1 .. Len(q) PROVE Travels(r, f, q[i])
  BY DEF Lined
<1> DEFINE s == q[i]
<1>1. Travels(p, f, s) /\ s \in Segment
  BY ElementOfSeq DEF Lined
<1>2. Heard(p, s) => Heard(r, s)
  <2> DEFINE ack == s.ack
             sum == s.ack + s.wnd
  <2>1. ack \in Nat /\ sum \in Nat
    <3>1. s.ack \in Nat /\ s.wnd \in Nat
      BY <1>1 DEF Segment
    <3> HIDE DEF s
    <3> QED BY <3>1
  <2>2. SUFFICES ASSUME Heard(p, s) PROVE Heard(r, s)
    OBVIOUS
  <2>3. p.iss + 1 <= ack /\ ack <= p.rcv /\ sum <= p.edge
    BY <2>2 DEF Heard
  <2> HIDE DEF ack, sum
  <2>4. r.iss + 1 <= ack /\ ack <= r.rcv /\ sum <= r.edge
    BY <2>1, <2>3 DEF ViewOK, Grows
  <2> HIDE DEF s
  <2> QED BY <2>2, <2>4 DEF Heard, Grows, ack, sum
<1>3. p.rcv # 0 => r.rcv # 0
  BY DEF ViewOK, Grows
<1> HIDE DEF s
<1>4. Travels(r, f, s)
  BY <1>1, <1>2, <1>3 DEF Travels
<1> QED BY <1>4 DEF s

(* A datagram leaves the line at its head ... *)
LEMMA LinedTail ==
  ASSUME NEW p, NEW f, NEW q \in Seq(Segment), q # << >>, Lined(p, f, q)
  PROVE  /\ Tail(q) \in Seq(Segment)
         /\ Head(q) \in Segment /\ Travels(p, f, Head(q))
         /\ Lined(p, f, Tail(q))
         /\ \A i \in 1 .. Len(Tail(q)) : Follows(Head(q), Tail(q)[i])
<1> DEFINE len == Len(q)
           t   == Tail(q)
<1>1. /\ t \in Seq(Segment) /\ Len(t) = len - 1 /\ Head(q) = q[1] /\ len \in Nat
      /\ \A i \in 1 .. Len(t) : t[i] = q[i + 1]
  BY HeadTailProperties
<1>2. len # 0
  BY EmptySeq
<1>3. 1 \in 1 .. len
  <2> HIDE DEF len
  <2> QED BY <1>1, <1>2
<1>4. ASSUME NEW i \in 1 .. Len(t) PROVE i + 1 \in 1 .. len /\ 1 < i + 1 /\ t[i] = q[i + 1]
  <2>1. i \in 1 .. len - 1
    BY <1>1, <1>4
  <2> HIDE DEF len
  <2>2. i + 1 \in 1 .. len /\ 1 < i + 1
    BY <1>1, <2>1
  <2> QED BY <1>1, <1>4, <2>2
<1>5. \A i \in 1 .. Len(t) : Travels(p, f, t[i]) /\ Follows(q[1], t[i])
  <2> SUFFICES ASSUME NEW i \in 1 .. Len(t)
               PROVE  Travels(p, f, t[i]) /\ Follows(q[1], t[i])
    OBVIOUS
  <2>1. i + 1 \in 1 .. len /\ 1 < i + 1 /\ t[i] = q[i + 1]
    BY <1>4
  <2>2. Travels(p, f, q[i + 1]) /\ Follows(q[1], q[i + 1])
    BY <1>3, <2>1 DEF Lined
  <2> QED BY <2>1, <2>2
<1>6. \A i, j \in 1 .. Len(t) : i < j => Follows(t[i], t[j])
  <2> SUFFICES ASSUME NEW i \in 1 .. Len(t), NEW j \in 1 .. Len(t), i < j
               PROVE  Follows(t[i], t[j])
    OBVIOUS
  <2>1. i + 1 \in 1 .. len /\ j + 1 \in 1 .. len /\ t[i] = q[i + 1] /\ t[j] = q[j + 1]
    BY <1>4
  <2>2. i + 1 < j + 1
    OBVIOUS
  <2>3. Follows(q[i + 1], q[j + 1])
    BY <2>1, <2>2 DEF Lined
  <2> QED BY <2>1, <2>3
<1>7. Head(q) \in Segment /\ Travels(p, f, Head(q))
  BY <1>1, <1>3, ElementOfSeq DEF Lined
<1> HIDE DEF t
<1>8. Lined(p, f, t)
  BY <1>5, <1>6 DEF Lined
<1> QED BY <1>1, <1>5, <1>7, <1>8 DEF t

(* ... and joins it at its end. *)
LEMMA LinedAppend ==
  ASSUME NEW p, NEW f, NEW q \in Seq(Segment), Lined(p, f, q), NEW s \in Segment,
         Travels(p, f, s), \A i \in 1 .. Len(q) : Follows(q[i], s)
  PROVE  /\ Append(q, s) \in Seq(Segment)
         /\ Lined(p, f, Append(q, s))
<1> DEFINE len == Len(q)
           t   == Append(q, s)
<1>1. /\ t \in Seq(Segment) /\ Len(t) = len + 1 /\ len \in Nat
      /\ \A i \in 1 .. len : t[i] = q[i]
      /\ t[len + 1] = s
  BY AppendProperties
<1> HIDE DEF t
<1>2. ASSUME NEW i \in 1 .. Len(t)
      PROVE  (i \in 1 .. len /\ t[i] = q[i]) \/ (i = len + 1 /\ t[i] = s)
  <2>1. i \in 1 .. len + 1
    BY <1>1
  <2>2. i \in 1 .. len \/ i = len + 1
    <3> HIDE DEF len
    <3> QED BY <1>1, <2>1
  <2> QED BY <1>1, <2>2
<1>3. \A i \in 1 .. Len(t) : Travels(p, f, t[i])
  BY <1>2 DEF Lined
<1>4. \A i, j \in 1 .. Len(t) : i < j => Follows(t[i], t[j])
  <2> SUFFICES ASSUME NEW i \in 1 .. Len(t), NEW j \in 1 .. Len(t), i < j
               PROVE  Follows(t[i], t[j])
    OBVIOUS
  <2>1. CASE i \in 1 .. len /\ j \in 1 .. len
    <3>1. t[i] = q[i] /\ t[j] = q[j]
      BY <1>1, <2>1
    <3> QED BY <2>1, <3>1 DEF Lined
  <2>2. CASE i \in 1 .. len /\ j = len + 1
    BY <1>1, <2>2
  <2>3. ~(i = len + 1)
    <3>1. j \in 1 .. len + 1 /\ i \in 1 .. len + 1 /\ i < j
      BY <1>1
    <3> HIDE DEF len
    <3> QED BY <1>1, <3>1
  <2> QED BY <1>2, <2>1, <2>2, <2>3
<1>5. Lined(p, f, t)
  BY <1>3, <1>4 DEF Lined
<1> QED BY <1>1, <1>5 DEF t

---------------------------------------------------------------------------
(* The steps of the link.                                                   *)

(* What a step does to the host's stream, seen from the guest.              *)
StreamStep == [ToGuest!Next]_(ToGuest!stream)

(* What the host gives up is taken by the stream once the guest listens.    *)
LEMMA TakenStep ==
  ASSUME host.read \in Nat, host'.read \in Nat, host.read <= host'.read,
         host'.read <= HostLen, GivenTo(guest)' = GivenTo(guest),
         guest'.fin = guest.fin, guest'.rcv = guest.rcv
  PROVE  StreamStep
<1> DEFINE b == host.read
           e == host'.read
<1>1. e = b \/ e \in b + 1 .. HostLen
  <2>1. b \in Nat /\ e \in Nat /\ b <= e /\ e <= HostLen
    OBVIOUS
  <2> HIDE DEF b, e
  <2> QED BY <2>1, SizesAssumption
<1> QED BY <1>1 DEF StreamStep, ToGuest!Next, ToGuest!Take, ToGuest!stream

(* An entry point moves the slot, the ring and the socket; the guest does
   not move and the line loses at most its head.  The stream may turn out
   to begin at another octet while nothing of it was read.                  *)
LEMMA ServedLinked ==
  ASSUME NEW o \in Nat, LInv(o), IInv', NEW d, Become(d), Good(d),
         NEW q \in Nat, Linked(View(guest, iss, q), d), q <= iss, iss <= q + 1,
         q = o \/ host.read = 0,
         host.ready => d.h.ready, host.read <= d.h.read, iss = 0 => ~d.f.used,
         UNCHANGED <<guest, iss>>,
         line' \in Seq(Segment), Lined(View(guest, iss, q), d.f, line')
  PROVE  LInv(q)' /\ StreamStep
<1>1. /\ guest' = guest /\ iss' = iss
      /\ flow' = d.f /\ out' = d.out /\ host' = d.h
  BY DEF Become
<1>2. host.read \in Nat /\ d.h.read \in Nat /\ guest.got \in Seq(Nat) /\ iss \in Nat
      /\ Peer(guest, iss, o, host) /\ o <= iss
  BY DEF LInv, IInv, Good, Here, HostOK, HostSocket, Peer, Guest
<1>3. d.h.read <= HostLen
  BY DEF Linked, Ended
<1>4. HasRead(guest, iss, q, d.h)
  <2>1. HasRead(guest, iss, o, host)
    BY <1>2 DEF Peer
  <2>2. q # o => guest.got = << >> /\ (guest.fin => HostLen = 0)
    <3> SUFFICES ASSUME q # o PROVE guest.got = << >> /\ (guest.fin => HostLen = 0)
      OBVIOUS
    <3>1. host.read = 0
      OBVIOUS
    <3> DEFINE a == Len(guest.got)
    <3>2. a \in Nat /\ (guest.got # << >> => a > 0)
      BY <1>2, NonEmpty
    <3>3. guest.got # << >> => a + (iss - o) <= 0
      BY <2>1, <3>1 DEF HasRead
    <3>4. guest.got = << >>
      <4> HIDE DEF a
      <4> QED BY <1>2, <3>2, <3>3
    <3> QED BY <2>1, <3>1, <3>4 DEF HasRead
  <2>3. guest.got # << >> => Len(guest.got) + (iss - q) <= d.h.read
    <3> SUFFICES ASSUME guest.got # << >> PROVE Len(guest.got) + (iss - q) <= d.h.read
      OBVIOUS
    <3> DEFINE a == Len(guest.got)
               b == host.read
               e == d.h.read
    <3>1. q = o /\ a \in Nat /\ b \in Nat /\ e \in Nat /\ a + (iss - o) <= b /\ b <= e
      BY <1>2, <2>1, <2>2 DEF HasRead
    <3> HIDE DEF a, b, e
    <3>2. a + (iss - q) <= e
      BY <1>2, <3>1
    <3> QED BY <3>2 DEF a, e
  <2>4. \A k \in 1 .. Len(guest.got) : guest.got[k] = k + (iss - q)
    <3>1. CASE q = o
      BY <2>1, <3>1 DEF HasRead
    <3>2. CASE q # o
      <4>1. Len(guest.got) = 0
        BY <2>2, <3>2
      <4> QED BY <4>1
    <3> QED BY <3>1, <3>2
  <2>5. guest.fin => /\ d.h.read = HostLen
                     /\ HostLen = 0 \/ Len(guest.got) + (iss - q) = HostLen
    <3> SUFFICES ASSUME guest.fin
                 PROVE  /\ d.h.read = HostLen
                        /\ HostLen = 0 \/ Len(guest.got) + (iss - q) = HostLen
      OBVIOUS
    <3>1. d.h.read = HostLen
      <4> DEFINE b == host.read
                 e == d.h.read
      <4>1. b = HostLen /\ b \in Nat /\ e \in Nat /\ b <= e /\ e <= HostLen
        BY <1>2, <1>3, <2>1 DEF HasRead
      <4> HIDE DEF b, e
      <4>2. e = HostLen
        BY <4>1
      <4> QED BY <4>2 DEF e
    <3> QED BY <2>1, <2>2, <3>1 DEF HasRead
  <2> QED BY <2>1, <2>3, <2>4, <2>5 DEF HasRead
<1>5. Peer(guest, iss, q, d.h)
  BY <1>2, <1>4 DEF Peer
<1>6. Linked(View(guest, iss, q), [f |-> d.f, out |-> d.out, h |-> d.h])
  BY DEF Linked
<1>7. (Linked(View(guest, iss, q), Here))'
  BY <1>1, <1>6 DEF Here
<1>8. LInv(q)'
  BY <1>1, <1>5, <1>7 DEF LInv
<1>9. StreamStep
  BY <1>1, <1>2, <1>3, TakenStep DEF GivenTo, FirstLost
<1> QED BY <1>8, <1>9

(* What the steps of the link use of the invariant. *)
LEMMA LinkFacts ==
  ASSUME NEW o \in Nat, LInv(o)
  PROVE  /\ Good(Here) /\ Here.f = flow /\ Here.out = out /\ Here.h = host
         /\ iss \in Nat /\ o <= iss /\ iss <= o + 1
         /\ host.read \in Nat /\ host.read <= HostLen
         /\ ViewOK(View(guest, iss, o)) /\ View(guest, iss, o).iss = iss
         /\ View(guest, iss, o).org = o
         /\ View(guest, iss, o).rcv = guest.rcv
         /\ Linked(View(guest, iss, o), Here)
         /\ flow.used => flow.state # "CLOSED" /\ iss # 0
<1>1. /\ Good(Here) /\ Here.f = flow /\ Here.out = out /\ Here.h = host /\ iss \in Nat
      /\ Linked(View(guest, iss, o), Here) /\ Alive(flow) /\ Peer(guest, iss, o, host)
      /\ o <= iss /\ iss <= o + 1
  BY DEF LInv, IInv, Here
<1>2. host.read \in Nat
  BY <1>1 DEF Good, HostOK, HostSocket
<1>3. host.read <= HostLen
  BY <1>1 DEF Linked, Ended
<1>4. ViewOK(View(guest, iss, o))
  BY <1>1, <1>2, <1>3, ViewGood
<1>5. View(guest, iss, o).iss = iss /\ View(guest, iss, o).rcv = guest.rcv
      /\ View(guest, iss, o).org = o
  BY <1>1, ViewFields DEF Peer
<1> QED BY <1>1, <1>2, <1>3, <1>4, <1>5 DEF Alive, LInv

(* What is on the line is unaffected by a step that acknowledges no more. *)
LEMMA LinedServed ==
  ASSUME NEW p, NEW f, NEW g, NEW q, Lined(p, f, q),
         \A i \in 1 .. Len(q) : Plain(q[i]) /\ g.used => g.snd_una <= q[i].ack
  PROVE  Lined(p, g, q)
BY DEF Lined, Travels

(* net_tick between two chunks of the run loop. *)
LEMMA NetTickLinked ==
  ASSUME NEW o \in Nat, LInv(o), IInv', NEW due \in BOOLEAN, NetTick(due)
  PROVE  LInv(o)' /\ StreamStep
<1> DEFINE p == View(guest, iss, o)
<1>1. /\ Good(Here) /\ Here.f = flow /\ Here.h = host /\ host.read \in Nat
      /\ o <= iss /\ iss <= o + 1
      /\ ViewOK(p) /\ Linked(p, Here) /\ (flow.used => iss # 0)
  BY LinkFacts
<1>2. PICK d \in net_tcp_tick(Here, due) : Become(d)
  BY DEF NetTick, Tick
<1>3. UNCHANGED <<guest, iss>> /\ line' = line
  BY DEF NetTick, Tick
<1>4. line \in Seq(Segment) /\ Lined(p, flow, line)
  BY DEF LInv
<1> HIDE DEF p
<1>5. CASE ~flow.used
  <2>1. d = Here
    BY <1>1, <1>2, <1>5 DEF net_tcp_tick
  <2>2. host.read <= host.read
    BY <1>1
  <2> QED BY <1>1, <1>2, <1>3, <1>4, <1>5, <2>1, <2>2, ServedLinked DEF p
<1>6. CASE flow.used
  <2>1. LinkTicked(p, Here, d)
    BY <1>1, <1>2, <1>6, TickLinked
  <2>2. Good(d)
    BY <1>1, <1>2, <1>6, TickTicked DEF Ticked
  <2>3. Lined(p, d.f, line)
    <3>1. ASSUME NEW i \in 1 .. Len(line), Plain(line[i]), d.f.used
          PROVE  d.f.snd_una <= line[i].ack
      <4>1. flow.snd_una <= line[i].ack
        BY <1>4, <1>6, <3>1 DEF Lined, Travels
      <4>2. d.f.snd_una = flow.snd_una
        BY <1>1, <2>1, <3>1 DEF LinkTicked
      <4> QED BY <4>1, <4>2
    <3> QED BY <1>4, <3>1, LinedServed
  <2>4. Linked(p, d) /\ (host.ready => d.h.ready) /\ host.read <= d.h.read
    BY <1>1, <2>1 DEF LinkTicked
  <2> QED BY <1>1, <1>2, <1>3, <1>4, <1>6, <2>2, <2>3, <2>4, ServedLinked DEF p
<1> QED BY <1>5, <1>6

(* The head of the line is always a segment, so Arrive is an entry point.   *)
LEMMA HeadOfLine ==
  ASSUME NEW o \in Nat, LInv(o), line # << >>
  PROVE  /\ Head(line) \in Segment /\ Tail(line) \in Seq(Segment)
         /\ Travels(View(guest, iss, o), flow, Head(line))
         /\ Lined(View(guest, iss, o), flow, Tail(line))
         /\ \A i \in 1 .. Len(Tail(line)) : Follows(Head(line), Tail(line)[i])
BY LinedTail DEF LInv

(* A SYN for a free slot.  The guest has received nothing, so the line holds
   no ACK, and the SYN of the new slot is not counted yet.                  *)
LEMMA ArriveSyn ==
  ASSUME NEW o \in Nat, LInv(o), IInv', line # << >>, line' = Tail(line),
         UNCHANGED guest, InputSyn(Head(line)), InStep'
  PROVE  (\E q \in Nat : LInv(q)') /\ StreamStep
<1>0. PICK n, m : n = iss + ISS_STRIDE /\ m = n - 1
  OBVIOUS
<1> DEFINE s == Head(line)
           v == View(guest, iss, o)
           p == View(guest, n, m)
           b == [f |-> SynFlow(s, n), out |-> out, h |-> NewSocket]
<1>1. /\ Good(Here) /\ Here.out = out /\ Here.h = host /\ iss \in Nat
      /\ Linked(v, Here) /\ v.iss = iss /\ v.rcv = guest.rcv
  BY LinkFacts
<1>2. /\ s \in Segment /\ Tail(line) \in Seq(Segment)
      /\ Travels(v, flow, s)
      /\ Lined(v, flow, Tail(line))
  BY HeadOfLine
<1>3. /\ iss' = n /\ "SYN" \in s.flags /\ guest' = guest
  BY <1>0 DEF InputSyn, IsSyn
<1>4. guest \in Guest /\ Peer(guest, iss, o, host)
  BY DEF LInv, Peer
<1> HIDE DEF v
<1>5. s.wnd <= GuestBuf /\ s.wnd \in Nat
  <2> HIDE DEF s
  <2> QED BY <1>2, <1>3 DEF Travels, Segment
<1>6. n \in Nat /\ m \in Nat /\ n = m + 1 /\ iss < n /\ n # 0
  BY <1>0, <1>1, SizesAssumption
<1>7. guest.rcv = 0
  <2>1. guest.rcv = 0 \/ guest.irs >= n
    BY <1>3 DEF InStep
  <2>2. guest.rcv # 0 => guest.irs = iss
    BY <1>4 DEF Peer
  <2> QED BY <1>1, <1>6, <2>1, <2>2
<1>8. guest.got = << >> /\ ~guest.fin /\ guest.unread = 0
  BY <1>4, <1>7 DEF Peer
<1>9. p.iss = n /\ p.org = m /\ p.rcv = 0 /\ p.edge = n + 1 + GuestBuf
  BY <1>4, <1>6, <1>7, ViewFields
<1>10. ASSUME NEW h PROVE Peer(guest, n, m, h)
  <2>1. HasRead(guest, n, m, h)
    BY <1>7, <1>8 DEF HasRead
  <2> QED BY <1>4, <1>7, <2>1 DEF Peer
<1>11. ViewOK(p)
  <2>1. NewSocket.read = 0 /\ 0 \in Nat /\ 0 <= HostLen /\ m <= n /\ n <= m + 1
    BY <1>6, SizesAssumption DEF NewSocket
  <2>2. Peer(guest, n, m, NewSocket)
    BY <1>10
  <2> QED BY <1>6, <2>1, <2>2, ViewGood
<1>12. Linked(p, b)
  <2>1. n + s.wnd <= n + 1 + GuestBuf
    <3> DEFINE w == s.wnd
    <3>1. w \in Nat /\ w <= GuestBuf
      BY <1>5
    <3> HIDE DEF w, s
    <3>2. n + w <= n + 1 + GuestBuf
      BY <1>6, <3>1, GuestAssumption
    <3> QED BY <3>2 DEF w
  <2>2. out \in Seq(Sent(v, host))
    BY <1>1 DEF Linked
  <2> HIDE DEF p, s
  <2>3. p.iss + s.wnd <= p.edge /\ p.iss = p.org + 1
    BY <1>6, <1>9, <2>1
  <2>4. Linked(p, [f |-> SynFlow(s, p.iss), out |-> out, h |-> NewSocket])
    BY <1>1, <1>2, <1>6, <1>7, <1>9, <1>11, <2>2, <2>3, SynLinked
  <2> QED BY <1>9, <2>4
<1>13. Good(b) /\ b.f.used /\ b.h = NewSocket
  BY <1>1, <1>2, <1>6, SynGood DEF Good
<1>14. PICK d : Become(d) /\ LinkTicked(p, b, d) /\ Good(d)
  <2>1. CASE \E d \in net_tcp_tick(b, FALSE) : Become(d)
    <3>1. PICK d \in net_tcp_tick(b, FALSE) : Become(d)
      BY <2>1
    <3> HIDE DEF p, b
    <3>2. LinkTicked(p, b, d)
      BY <1>11, <1>12, <1>13, <3>1, TickLinked
    <3>3. Good(d)
      BY <1>13, <3>1, TickTicked DEF Ticked
    <3> QED BY <3>1, <3>2, <3>3
  <2>2. CASE Become(tcp_abort(b))
    <3> HIDE DEF p, b
    <3>1. LinkTicked(p, b, tcp_abort(b))
      BY <1>11, <1>12, <1>13, AbortLinked
    <3>2. Good(tcp_abort(b))
      BY <1>13, AbortTicked DEF Ticked
    <3> QED BY <2>2, <3>1, <3>2
  <2> QED BY <1>0, <1>3, <2>1, <2>2 DEF InputSyn
<1>15. d.h.read \in Nat /\ d.h.read <= HostLen /\ Linked(p, d)
  BY <1>14 DEF LinkTicked, Linked, Ended, Good, HostOK, HostSocket
<1>16. flow' = d.f /\ host' = d.h /\ out' = d.out /\ (Linked(View(guest, iss, m), Here))'
  <2>1. flow' = d.f /\ host' = d.h /\ out' = d.out
    BY <1>14 DEF Become
  <2>2. Linked(p, [f |-> d.f, out |-> d.out, h |-> d.h])
    BY <1>15 DEF Linked
  <2>3. View(guest, iss, m)' = p /\ Here' = [f |-> d.f, out |-> d.out, h |-> d.h]
    BY <1>3, <2>1 DEF Here
  <2> HIDE DEF p
  <2>4. (Linked(View(guest, iss, m), Here))' <=> Linked(View(guest, iss, m)', Here')
    OBVIOUS
  <2> QED BY <2>1, <2>2, <2>3, <2>4
<1>17. Lined(p, d.f, Tail(line))
  <2>1. ASSUME NEW i \in 1 .. Len(Tail(line))
        PROVE  Travels(p, d.f, Tail(line)[i])
    <3> DEFINE t == Tail(line)[i]
    <3>1. Travels(v, flow, t)
      BY <1>2 DEF Lined
    <3> HIDE DEF t
    <3>2. Travels(p, d.f, t)
      BY <1>1, <1>7, <3>1 DEF Travels
    <3> QED BY <3>2 DEF t
  <2> QED BY <1>2, <2>1 DEF Lined
<1>18. LInv(m)'
  <2>1. Peer(guest', iss', m, host')
    BY <1>3, <1>10
  <2>2. Lined(View(guest, iss, m), flow, line)'
    BY <1>3, <1>16, <1>17
  <2>3. m <= iss' /\ iss' <= m + 1 /\ iss' # 0
    BY <1>3, <1>6
  <2>4. line' \in Seq(Segment)
    BY <1>2
  <2> QED BY <1>16, <2>1, <2>2, <2>3, <2>4 DEF LInv
<1>19. UNCHANGED ToGuest!stream
  BY <1>3, <1>7 DEF ToGuest!stream, GivenTo, FirstLost
<1> QED BY <1>6, <1>18, <1>19 DEF StreamStep

(* A SYN for a live slot is answered with the same SYN-ACK, or resets.      *)
LEMMA SynAgainLinked ==
  ASSUME NEW o \in Nat, LInv(o), flow.used, flow.state = "SYN_RCVD",
         flow.snd_nxt # flow.snd_una
  PROVE  LET d == tcp_out(Here, {"SYN", "ACK"}, flow.snd_una, << >>)
         IN /\ Linked(View(guest, iss, o), d) /\ Good(d) /\ d.h = host
            /\ d.f.used /\ d.f.snd_una = flow.snd_una
<1> DEFINE p == View(guest, iss, o)
           d == tcp_out(Here, {"SYN", "ACK"}, flow.snd_una, << >>)
           s == SegmentOut(flow, {"SYN", "ACK"}, flow.snd_una, << >>)
<1>1. /\ Good(Here) /\ Here.f = flow /\ Here.out = out /\ Here.h = host
      /\ Linked(p, Here) /\ p.iss = iss /\ iss \in Nat
  BY LinkFacts
<1> HIDE DEF p
<1>2. /\ flow \in Flow /\ flow.snd_una \in Nat /\ << >> \in Seq(Nat)
      /\ {"SYN", "ACK"} \in SUBSET Flags /\ Len(flow.rxbuf) <= NET_TCP_RXBUF /\ RingOK(out)
  BY <1>1 DEF Good, FlowOK, Flow, Bounded, Flags
<1>3. flow.snd_una = p.iss /\ host.ready
  BY <1>1 DEF Linked, Paced
<1>4. s \in Sent(p, host)
  <2>1. s \in Segment
    BY <1>2, SegmentTyped
  <2>2. s.flags = {"SYN", "ACK"} /\ s.seq = flow.snd_una /\ s.data = << >>
    BY DEF SegmentOut
  <2>3. s.seq <= p.iss
    BY <1>1, <1>3, <2>2
  <2> HIDE DEF s
  <2> QED BY <1>3, <2>1, <2>2, <2>3 DEF Sent, CutFromStream
<1>5. d.out \in Seq(Sent(p, host))
  <2>1. out \in Seq(Sent(p, host))
    BY <1>1 DEF Linked
  <2> HIDE DEF s
  <2>2. SegmentOut(Here.f, {"SYN", "ACK"}, flow.snd_una, << >>) \in Sent(p, host)
    BY <1>1, <1>4 DEF s
  <2> QED BY <1>1, <1>2, <2>1, <2>2, OutSent
<1>6. Queued(Here, d)
  BY <1>1, <1>2, OutQueues
<1> HIDE DEF d
<1>7. PICK b \in BOOLEAN : d.f = [flow EXCEPT !.need_ack = b]
  BY <1>1, <1>6 DEF Queued
<1>8. /\ d.h = host /\ d.f.used = flow.used /\ d.f.state = flow.state
      /\ d.f.snd_una = flow.snd_una /\ d.f.snd_nxt = flow.snd_nxt
      /\ d.f.snd_wnd = flow.snd_wnd /\ d.f.txbuf = flow.txbuf
      /\ d.f.host_eof = flow.host_eof /\ d.f.fin_sent = flow.fin_sent
  BY <1>1, <1>2, <1>6, <1>7 DEF Queued, Flow
<1>9. Good(d)
  BY <1>1, <1>6, QueuedGood
<1>10. Paced(p, d.f, d.h) /\ Buffered(p, d.f, d.h) /\ Ended(p, d.h)
  BY <1>1, <1>8 DEF Linked, Paced, Buffered, Ended
<1>11. Linked(p, d)
  BY <1>5, <1>8, <1>10 DEF Linked
<1> QED BY <1>8, <1>9, <1>11 DEF d, p

(* An honest ACK for a live flow. *)
LEMMA ArriveAck ==
  ASSUME NEW o \in Nat, LInv(o), IInv', line # << >>, line' = Tail(line),
         UNCHANGED guest, InputAck(Head(line))
  PROVE  (\E q \in Nat : LInv(q)') /\ StreamStep
<1> DEFINE s == Head(line)
           p == View(guest, iss, o)
           f == Acked(flow, s)
           b == With(Here, Absorbed(flow, s))
<1>1. /\ Good(Here) /\ Here.f = flow /\ Here.out = out /\ Here.h = host /\ iss \in Nat
      /\ host.read \in Nat /\ o <= iss /\ iss <= o + 1
      /\ ViewOK(p) /\ Linked(p, Here) /\ p.iss = iss /\ p.rcv = guest.rcv
      /\ flow.used => flow.state # "CLOSED" /\ iss # 0
  BY LinkFacts
<1>2. /\ s \in Segment /\ Tail(line) \in Seq(Segment)
      /\ Travels(p, flow, s) /\ Lined(p, flow, Tail(line))
      /\ \A i \in 1 .. Len(Tail(line)) : Follows(s, Tail(line)[i])
  BY HeadOfLine
<1>3. flow.used /\ Plain(s) /\ iss' = iss /\ flow.state # "CLOSED" /\ iss # 0
  BY <1>1 DEF InputAck, Plain
<1> HIDE DEF s, p
<1>4. Heard(p, s) /\ flow.snd_una <= s.ack /\ s.ack \in Nat
  BY <1>2, <1>3 DEF Travels, Segment
<1>5. host.ready
  <2>1. guest.rcv # 0
    BY <1>1, <1>2, <1>3 DEF Travels
  <2> QED BY <2>1 DEF LInv, Peer
<1>6. Good(With(Here, f)) /\ f.snd_una \in Nat
  <2>1. LET g == Acked(Here.f, s) IN Good(With(Here, g))
    BY <1>1, <1>2, AckedGood
  <2>2. f = Acked(Here.f, s)
    BY <1>1
  <2> HIDE DEF f
  <2> QED BY <2>1, <2>2 DEF Good, FlowOK, Flow, With
<1>7. ASSUME NEW d, Become(d), Good(d), NEW q \in Nat, Linked(View(guest, iss, q), d),
             q <= iss, iss <= q + 1, q = o \/ host.read = 0,
             d.f.used => d.f.snd_una <= s.ack,
             host.ready => d.h.ready, host.read <= d.h.read
      PROVE  (\E r \in Nat : LInv(r)') /\ StreamStep
  <2> DEFINE v == View(guest, iss, q)
  <2>1. /\ v.iss = p.iss /\ v.rcv = p.rcv /\ v.edge = p.edge /\ v.done = p.done
    BY DEF View, p
  <2> HIDE DEF v
  <2>2. Lined(v, flow, Tail(line))
    BY <1>2, <2>1 DEF Lined, Travels, Heard
  <2>3. Lined(v, d.f, Tail(line))
    <3>1. ASSUME NEW i \in 1 .. Len(Tail(line)), Plain(Tail(line)[i]), d.f.used
          PROVE  d.f.snd_una <= Tail(line)[i].ack
      <4> DEFINE t == Tail(line)[i]
                 x == d.f.snd_una
                 y == s.ack
                 z == t.ack
      <4>1. t \in Segment
        BY <1>2, ElementOfSeq
      <4>2. y <= z
        BY <1>2, <1>3, <3>1 DEF Follows
      <4>3. x <= y
        BY <1>7, <3>1
      <4>4. z \in Nat
        <5> HIDE DEF t
        <5> QED BY <4>1 DEF Segment
      <4>5. x \in Nat /\ y \in Nat
        BY <1>4, <1>7 DEF Good, FlowOK, Flow
      <4> HIDE DEF x, y, z
      <4>6. x <= z
        BY <4>2, <4>3, <4>4, <4>5
      <4> QED BY <4>6 DEF x, z
    <3> QED BY <2>2, <3>1, LinedServed
  <2>4. Linked(v, d) /\ Lined(v, d.f, line')
    BY <1>7, <2>3 DEF v
  <2>5. UNCHANGED <<guest, iss>> /\ line' \in Seq(Segment)
    BY <1>2, <1>3
  <2> QED BY <1>3, <1>7, <2>4, <2>5, ServedLinked DEF v
<1>8. \/ /\ f.state = "SYN_RCVD" /\ f.snd_una < f.snd_nxt
         /\ Become(With(Here, f))
      \/ /\ ~(f.state = "SYN_RCVD" /\ f.snd_una < f.snd_nxt)
         /\ \E due \in BOOLEAN : /\ due => ~FreshTimeWait(flow, s)
                                 /\ \E d \in net_tcp_tick(b, due) : Become(d)
  BY DEF InputAck, s
<1>9. CASE /\ f.state = "SYN_RCVD" /\ f.snd_una < f.snd_nxt
           /\ Become(With(Here, f))
  <2> DEFINE d == With(Here, f)
  <2>1. d.f = f /\ d.h = host
    BY <1>1 DEF With
  <2>2. Linked(p, d) /\ f.snd_una <= s.ack
    <3>1. LET g == Acked(Here.f, s)
          IN g.state = "SYN_RCVD" /\ g.snd_una < g.snd_nxt
      BY <1>1, <1>9
    <3>2. LET g == Acked(Here.f, s)
          IN /\ g.state = "SYN_RCVD" /\ g.snd_una < g.snd_nxt => Linked(p, With(Here, g))
             /\ g.snd_una <= s.ack
      BY <1>1, <1>2, <1>3, <1>4, <1>5, <3>1, AckedLinked
    <3> QED BY <1>1, <3>1, <3>2
  <2> HIDE DEF f
  <2>3. Become(d) /\ Good(d) /\ d.f.snd_una <= s.ack
    BY <1>6, <1>9, <2>1, <2>2
  <2>4. host.read <= d.h.read
    BY <1>1, <2>1
  <2> HIDE DEF d
  <2> QED BY <1>1, <1>7, <2>1, <2>2, <2>3, <2>4 DEF p
<1>10. CASE /\ ~(f.state = "SYN_RCVD" /\ f.snd_una < f.snd_nxt)
            /\ \E due \in BOOLEAN : \E d \in net_tcp_tick(b, due) : Become(d)
  <2>1. PICK due \in BOOLEAN : \E d \in net_tcp_tick(b, due) : Become(d)
    BY <1>10
  <2>2. PICK d \in net_tcp_tick(b, due) : Become(d)
    BY <2>1
  <2>3. LET g == Acked(Here.f, s) IN ~(g.state = "SYN_RCVD" /\ g.snd_una < g.snd_nxt)
    BY <1>1, <1>10
  <2>4. Good(b) /\ b.f.used /\ b.h = host
    <3>1. LET g == Absorbed(Here.f, s)
          IN /\ Good(With(Here, g)) /\ g.used = Here.f.used
             /\ RightEdge(g) >= RightEdge(Here.f)
      BY <1>1, <1>2, <2>3, AbsorbedGood
    <3> QED BY <1>1, <1>3, <3>1 DEF With
  <2>5. PICK q \in Nat : /\ q <= iss /\ iss <= q + 1 /\ (q = o \/ host.read = 0)
                         /\ ViewOK(View(guest, iss, q)) /\ Heard(View(guest, iss, q), s)
                         /\ LET g == Acked(Here.f, s)
                            IN /\ Linked(View(guest, iss, q), With(Here, Established(g)))
                               /\ g.snd_una <= s.ack
    <3>1. CASE Counts(flow)
      <4>1. LET g == Acked(Here.f, s)
                v == View(guest, iss, iss)
            IN /\ Linked(v, With(Here, Established(g))) /\ g.snd_una <= s.ack
               /\ Here.h.read = 0 /\ ViewOK(v)
        <5>1. Counts(Here.f) /\ Here.f.used /\ Here.h.ready
          BY <1>1, <1>3, <1>5, <3>1
        <5> QED BY <1>1, <1>2, <1>4, <2>3, <5>1, AckedCounted DEF p
      <4>2. Heard(View(guest, iss, iss), s)
        BY <1>4 DEF Heard, View, p
      <4>3. iss <= iss /\ iss <= iss + 1
        BY <1>1
      <4> QED BY <1>1, <4>1, <4>2, <4>3
    <3>2. CASE ~Counts(flow)
      <4>1. LET g == Acked(Here.f, s)
            IN Linked(p, With(Here, Established(g))) /\ g.snd_una <= s.ack
        <5>1. LET g == Acked(Here.f, s)
              IN /\ ~(g.state = "SYN_RCVD" /\ g.snd_una < g.snd_nxt) =>
                      Linked(p, With(Here, Established(g)))
                 /\ g.snd_una <= s.ack
          <6>1. ~Counts(Here.f)
            BY <1>1, <3>2
          <6> QED BY <1>1, <1>2, <1>3, <1>4, <1>5, <6>1, AckedLinked
        <5> QED BY <2>3, <5>1
      <4> QED BY <1>1, <1>4, <4>1 DEF p
    <3> QED BY <3>1, <3>2
  <2> DEFINE v == View(guest, iss, q)
  <2>6. ViewOK(v) /\ Heard(v, s)
    BY <2>5
  <2>7. LET g == Acked(Here.f, s)
        IN Linked(v, With(Here, Established(g))) /\ g.snd_una <= s.ack
    BY <2>5
  <2> HIDE DEF v
  <2>8. /\ Linked(v, b) /\ b.f.snd_una <= s.ack /\ b.f.state # "SYN_RCVD"
    <3>1. LET e == With(Here, Absorbed(Here.f, s))
          IN Linked(v, e) /\ e.f.snd_una <= s.ack /\ e.f.state # "SYN_RCVD"
      BY <1>1, <1>2, <1>3, <1>4, <1>5, <2>3, <2>6, <2>7, AbsorbedLinked
    <3> QED BY <1>1, <3>1
  <2> HIDE DEF b
  <2>9. LinkTicked(v, b, d)
    BY <2>2, <2>4, <2>6, <2>8, TickLinked
  <2>10. Good(d)
    BY <2>2, <2>4, TickTicked DEF Ticked
  <2>11. /\ Linked(v, d) /\ (d.f.used => d.f.snd_una <= s.ack)
         /\ (host.ready => d.h.ready) /\ host.read <= d.h.read
    BY <2>4, <2>8, <2>9 DEF LinkTicked
  <2> QED BY <1>7, <2>2, <2>5, <2>10, <2>11 DEF v
<1> QED BY <1>8, <1>9, <1>10

(* Whatever the line delivers.                                              *)
LEMMA ArriveLinked ==
  ASSUME NEW o \in Nat, LInv(o), IInv', Arrive, InStep'
  PROVE  (\E q \in Nat : LInv(q)') /\ StreamStep
<1> DEFINE s == Head(line)
           p == View(guest, iss, o)
<1>1. line # << >> /\ line' = Tail(line) /\ UNCHANGED guest /\ net_tcp_input(s)
  BY DEF Arrive
<1>2. /\ Good(Here) /\ Here.f = flow /\ Here.out = out /\ Here.h = host /\ iss \in Nat
      /\ host.read \in Nat /\ host.read <= host.read /\ o <= iss /\ iss <= o + 1
      /\ ViewOK(p) /\ Linked(p, Here) /\ p.iss = iss
      /\ flow.used => flow.state # "CLOSED" /\ iss # 0
  BY LinkFacts
<1>3. /\ s \in Segment /\ Tail(line) \in Seq(Segment)
      /\ Travels(p, flow, s) /\ Lined(p, flow, Tail(line))
  BY <1>1, HeadOfLine
<1> HIDE DEF p
<1>4. CASE InputSyn(s)
  BY <1>1, <1>4, ArriveSyn
<1>5. CASE InputAck(s)
  BY <1>1, <1>5, ArriveAck
<1>6. ASSUME NEW d, Become(d), Good(d), Linked(p, d), iss' = iss,
             d.h.ready = host.ready, d.h.read = host.read,
             d.f.used => flow.used /\ d.f.snd_una = flow.snd_una
      PROVE  (\E q \in Nat : LInv(q)') /\ StreamStep
  <2>1. Lined(p, d.f, Tail(line))
    BY <1>3, <1>6 DEF Lined, Travels
  <2>2. Linked(View(guest, iss, o), d) /\ Lined(View(guest, iss, o), d.f, line')
    BY <1>1, <1>6, <2>1 DEF p
  <2>3. UNCHANGED <<guest, iss>>
    BY <1>1, <1>6
  <2>4. line' \in Seq(Segment)
        /\ host.read <= d.h.read /\ (host.ready => d.h.ready) /\ (iss = 0 => ~d.f.used)
    BY <1>1, <1>2, <1>3, <1>6
  <2> QED BY <1>2, <1>6, <2>2, <2>3, <2>4, ServedLinked
<1>7. CASE InputUnknown(s)
  <2> DEFINE d == tcp_reject(Here, s)
  <2>1. Become(d) /\ iss' = iss
    BY <1>7 DEF InputUnknown
  <2>2. Here \in Context
    <3>1. Here.f \in Flow /\ Here.out \in Seq(Segment) /\ Here.h \in HostSocket
      BY <1>2 DEF Good, FlowOK, HostOK, RingOK
    <3> QED BY <3>1 DEF Here, Context
  <2>3. Linked(p, d) /\ d.f = Here.f /\ d.h = Here.h
    BY <1>2, <1>3, <2>2, RejectLinked
  <2>4. RingOK(d.out)
    BY <1>2, <1>3, <2>2, RejectGood
  <2> HIDE DEF d
  <2>5. Good(d) /\ d.f = flow /\ d.h = host
    BY <1>2, <2>3, <2>4 DEF Good
  <2> QED BY <1>6, <2>1, <2>3, <2>5
<1>8. CASE InputReset(s)
  <2> DEFINE d == net_flow_free(Here, "reset")
  <2>1. Become(d) /\ iss' = iss
    BY <1>8 DEF InputReset
  <2>2. host \in HostSocket /\ RingOK(out)
    BY <1>2 DEF Good, HostOK
  <2>3. LinkTicked(p, Here, d)
    BY <1>2, <2>2, FreeLinked DEF Fates
  <2>4. Good(d) /\ ~d.f.used
    BY <1>2, <2>2, FreeGood DEF Fates
  <2>5. d.h.ready = host.ready /\ d.h.read = host.read
    BY <1>2, <2>2 DEF net_flow_free, HostSocket
  <2> HIDE DEF d
  <2> QED BY <1>6, <2>1, <2>3, <2>4, <2>5 DEF LinkTicked
<1>9. CASE InputSynAgain(s)
  <2>1. flow.used /\ iss' = iss
    BY <1>9 DEF InputSynAgain
  <2>2. CASE Become(tcp_abort(Here))
    <3> DEFINE d == tcp_abort(Here)
    <3>1. LinkTicked(p, Here, d)
      BY <1>2, AbortLinked
    <3>2. Ticked(Here, d) /\ ~d.f.used
      <4>1. /\ Here.f \in Flow /\ Len(Here.f.rxbuf) <= NET_TCP_RXBUF
            /\ RingOK(Here.out) /\ Here.h \in HostSocket
        BY <1>2 DEF Good, FlowOK, Bounded, HostOK
      <4>2. Good(d) /\ ~d.f.used
        BY <4>1, AbortGood
      <4> QED BY <4>2 DEF Ticked
    <3>3. d.h.ready = host.ready /\ d.h.read = host.read
      <4>1. d.h = [host EXCEPT !.fate = "aborted"]
        BY <1>2 DEF tcp_abort, net_flow_free, tcp_out, net_emit
      <4>2. host \in HostSocket
        BY <1>2 DEF Good, HostOK
      <4> HIDE DEF d
      <4> QED BY <4>1, <4>2 DEF HostSocket
    <3>4. Become(d) /\ Good(d)
      BY <2>2, <3>2 DEF Ticked
    <3> HIDE DEF d
    <3> QED BY <1>6, <2>1, <3>1, <3>2, <3>3, <3>4 DEF LinkTicked
  <2>3. CASE Become(Here)
    BY <1>2, <1>6, <2>1, <2>3
  <2>4. CASE /\ flow.state = "SYN_RCVD" /\ flow.snd_nxt # flow.snd_una
             /\ Become(tcp_out(Here, {"SYN", "ACK"}, flow.snd_una, << >>))
    <3> DEFINE d == tcp_out(Here, {"SYN", "ACK"}, flow.snd_una, << >>)
    <3>1. /\ Linked(p, d) /\ Good(d) /\ d.h = host
          /\ d.f.used /\ d.f.snd_una = flow.snd_una
      BY <2>1, <2>4, SynAgainLinked DEF p
    <3>2. Become(d)
      BY <2>4
    <3> HIDE DEF d
    <3> QED BY <1>6, <2>1, <3>1, <3>2
  <2> QED BY <1>9, <2>2, <2>3, <2>4 DEF InputSynAgain
<1>10. CASE InputNoAck(s)
  <2>1. Become(Here) /\ iss' = iss
    BY <1>2, <1>10 DEF InputNoAck, vars, Become
  <2>2. Here.f.used => flow.used /\ Here.f.snd_una = flow.snd_una
    BY <1>2
  <2> QED BY <1>2, <1>6, <2>1, <2>2
<1> QED BY <1>1, <1>4, <1>5, <1>7, <1>8, <1>9, <1>10 DEF net_tcp_input

(* Every segment of the guest but its SYN acknowledges what it has and
   offers the room behind it.                                               *)
LEMMA ReplyLined ==
  ASSUME NEW o \in Nat, LInv(o), NEW g, Peer(g, iss, o, host), Grows(View(guest, iss, o), View(g, iss, o)),
         NEW flags \in SUBSET Flags, "SYN" \notin flags,
         NEW seq \in Nat, NEW data \in Seq(Nat),
         "RST" \notin flags => g.rcv # 0,
         "FIN" \in flags => g.nxt = FinSeq + 1
  PROVE  LET q == Append(line, GuestSegment(g, flags, seq, data))
         IN q \in Seq(Segment) /\ Lined(View(g, iss, o), flow, q)
<1> DEFINE p    == View(guest, iss, o)
           r    == View(g, iss, o)
           s    == GuestSegment(g, flags, seq, data)
           rcv  == g.rcv
           room == GuestBuf - g.unread
           una  == flow.snd_una
           old  == guest.rcv
<1>1. /\ Good(Here) /\ Here.f = flow /\ Here.h = host /\ iss \in Nat
      /\ ViewOK(p) /\ Linked(p, Here) /\ p.iss = iss /\ p.rcv = old
      /\ o <= iss /\ iss <= o + 1
      /\ host.read <= HostLen /\ host.read \in Nat
  BY LinkFacts
<1>2. line \in Seq(Segment) /\ Lined(p, flow, line) /\ guest \in Guest /\ g \in Guest
  BY DEF LInv, Peer
<1>3. /\ r.iss = iss /\ r.rcv = rcv /\ r.org = o /\ (r.done <=> g.nxt = FinSeq + 1)
      /\ rcv # 0 => r.edge = rcv + GuestBuf - g.unread
      /\ rcv \in Nat /\ g.unread \in Nat /\ GuestBuf \in Nat /\ g.unread <= GuestBuf
      /\ old \in Nat
  <2>1. /\ r.iss = iss /\ r.rcv = rcv /\ r.org = o /\ (r.done <=> g.nxt = FinSeq + 1)
        /\ rcv # 0 => r.edge = rcv + GuestBuf - g.unread
        /\ rcv \in Nat /\ g.unread \in Nat /\ GuestBuf \in Nat /\ g.unread <= GuestBuf
    BY <1>1, <1>2, ViewFields
  <2>2. old \in Nat
    BY <1>2 DEF Guest
  <2> HIDE DEF r, rcv, old
  <2> QED BY <2>1, <2>2
<1>4. ViewOK(r)
  BY <1>1, ViewGood
<1>5. old <= rcv
  BY <1>1, <1>3 DEF Grows
<1> HIDE DEF p, r
<1>6. room \in Nat /\ (rcv # 0 => rcv + room <= r.edge)
  <2> DEFINE u == g.unread
             e == r.edge
  <2>1. u \in Nat /\ u <= GuestBuf /\ rcv \in Nat /\ GuestBuf \in Nat
        /\ (rcv # 0 => e = rcv + GuestBuf - u)
    BY <1>3
  <2> HIDE DEF u, e, rcv
  <2>2. GuestBuf - u \in Nat /\ (rcv # 0 => rcv + (GuestBuf - u) <= e)
    BY <2>1
  <2> QED BY <2>2 DEF u, e
<1> HIDE DEF room, rcv, old
<1>7. /\ s.flags = flags /\ s.data = data /\ s.seq = seq /\ s.wnd = room
      /\ s.ack = IF "ACK" \in flags THEN rcv ELSE 0
  BY DEF GuestSegment, room, rcv
<1>8. s \in Segment
  BY <1>3, <1>6 DEF GuestSegment, Segment, room, rcv
<1> HIDE DEF s
<1>9. Lined(r, flow, line)
  BY <1>1, <1>2, <1>4, LinedGrows DEF p, r
<1>10. Plain(s) => s.ack = rcv /\ rcv # 0 /\ iss + 1 <= rcv
  BY <1>7 DEF Plain, Peer, rcv
<1>11. flow.used /\ rcv # 0 => una <= rcv
  <2>1. ASSUME flow.used, flow.state = "SYN_RCVD", rcv # 0 PROVE una <= rcv
    <3>1. una = iss /\ iss + 1 <= rcv
      BY <1>1, <2>1 DEF Linked, Paced, Peer, rcv
    <3> HIDE DEF una
    <3> QED BY <1>1, <1>3, <3>1
  <2>2. ASSUME flow.used, flow.state # "SYN_RCVD" PROVE una <= rcv
    <3>1. una <= old /\ una \in Nat
      BY <1>1, <2>2 DEF Linked, Paced, Good, FlowOK, Flow
    <3> HIDE DEF una
    <3> QED BY <1>3, <1>5, <3>1
  <2> QED BY <2>1, <2>2
<1>12. Travels(r, flow, s)
  <2>1. ASSUME Plain(s) PROVE Heard(r, s)
    BY <1>3, <1>6, <1>7, <1>10, <2>1 DEF Heard, rcv
  <2>2. Plain(s) => r.rcv # 0 /\ (flow.used => una <= s.ack)
    BY <1>3, <1>10, <1>11
  <2> QED BY <1>7, <2>1, <2>2 DEF Travels
<1>13. ASSUME NEW i \in 1 .. Len(line) PROVE Follows(line[i], s)
  <2> DEFINE t == line[i]
  <2>1. t \in Segment /\ Travels(p, flow, t)
    BY <1>2, ElementOfSeq DEF Lined
  <2> HIDE DEF t
  <2>2. ASSUME Plain(t), Plain(s) PROVE t.ack <= s.ack
    <3> DEFINE a == t.ack
    <3>1. a \in Nat /\ a <= old
      BY <1>1, <2>1, <2>2 DEF Travels, Heard, Segment
    <3> HIDE DEF a
    <3>2. a <= rcv
      BY <1>3, <1>5, <3>1
    <3> QED BY <1>10, <2>2, <3>2 DEF a
  <2>3. Follows(t, s)
    BY <1>7, <2>2 DEF Follows
  <2> QED BY <2>3 DEF t
<1> QED BY <1>2, <1>7, <1>8, <1>9, <1>12, <1>13, LinedAppend DEF r, s

(* A step that leaves the slot and the socket alone: the guest moves on, a
   datagram may leave the ring, the line changes at its ends.               *)
LEMMA MovedLinked ==
  ASSUME NEW o \in Nat, LInv(o), IInv', UNCHANGED <<flow, host, iss>>,
         NEW g, guest' = g, Peer(g, iss, o, host), Grows(View(guest, iss, o), View(g, iss, o)),
         out' \in Seq(Sent(View(guest, iss, o), host)),
         line' \in Seq(Segment), Lined(View(g, iss, o), flow, line')
  PROVE  LInv(o)'
<1> DEFINE p == View(guest, iss, o)
           r == View(g, iss, o)
           c == [f |-> flow, out |-> out', h |-> host]
<1>1. /\ Linked(p, Here) /\ Here.f = flow /\ Here.h = host
      /\ ViewOK(p) /\ iss \in Nat /\ host.read \in Nat
      /\ host.read <= HostLen /\ o <= iss /\ iss <= o + 1
      /\ (flow.used => iss # 0)
  BY LinkFacts
<1>2. ViewOK(r)
  BY <1>1, ViewGood
<1> HIDE DEF p, r
<1>3. c = Here'
  BY DEF Here
<1>4. Good(c)
  BY <1>3 DEF IInv
<1>5. c.f = flow /\ c.out = out' /\ c.h = host
  OBVIOUS
<1> HIDE DEF c
<1>6. Linked(p, c)
  BY <1>1, <1>5 DEF Linked, p
<1>7. Linked(r, c)
  BY <1>1, <1>2, <1>4, <1>6, LinkedGrows DEF p, r
<1>8. (Linked(View(guest, iss, o), Here))'
  BY <1>3, <1>7 DEF r
<1> QED BY <1>1, <1>8 DEF LInv

(* A step that reads nothing from the host and gives the guest nothing.     *)
LEMMA NothingRead ==
  ASSUME UNCHANGED host, guest'.rcv = guest.rcv, guest'.got = guest.got,
         guest'.fin = guest.fin
  PROVE  StreamStep
BY DEF StreamStep, ToGuest!stream, GivenTo, FirstLost

LEMMA SelfGrows ==
  ASSUME NEW p, ViewOK(p)
  PROVE  Grows(p, p)
BY DEF ViewOK, Grows

(* The ring before and after a datagram has left it. *)
LEMMA RingSent ==
  ASSUME NEW o \in Nat, LInv(o)
  PROVE  /\ out \in Seq(Sent(View(guest, iss, o), host))
         /\ out # << >> => /\ Tail(out) \in Seq(Sent(View(guest, iss, o), host))
                           /\ Head(out) \in Sent(View(guest, iss, o), host)
<1> DEFINE S == Sent(View(guest, iss, o), host)
<1>1. out \in Seq(S)
  BY LinkFacts DEF Linked
<1> HIDE DEF S
<1>2. ASSUME out # << >> PROVE Tail(out) \in Seq(S) /\ Head(out) \in S
  BY <1>1, <1>2, HeadTailProperties
<1> QED BY <1>1, <1>2 DEF S

(* A datagram lost on the way to the guest ... *)
LEMMA LoseOutputLinked ==
  ASSUME NEW o \in Nat, LInv(o), IInv', LoseOutput
  PROVE  LInv(o)' /\ StreamStep
<1>1. UNCHANGED <<flow, host, iss, guest, line>> /\ out # << >> /\ out' = Tail(out)
  BY DEF LoseOutput, net_output
<1>2. Grows(View(guest, iss, o), View(guest, iss, o))
  BY LinkFacts, SelfGrows
<1>3. out' \in Seq(Sent(View(guest, iss, o), host))
  BY <1>1, RingSent
<1>4. LInv(o)'
  BY <1>1, <1>2, <1>3, MovedLinked DEF LInv
<1> QED BY <1>1, <1>4, NothingRead

(* ... and one lost on the way to the host. *)
LEMMA LoseInputLinked ==
  ASSUME NEW o \in Nat, LInv(o), IInv', LoseInput
  PROVE  LInv(o)' /\ StreamStep
<1>1. UNCHANGED <<flow, host, iss, guest, out>> /\ line # << >> /\ line' = Tail(line)
  BY DEF LoseInput, vars
<1>2. Grows(View(guest, iss, o), View(guest, iss, o))
  BY LinkFacts, SelfGrows
<1>3. out' \in Seq(Sent(View(guest, iss, o), host))
  BY <1>1, RingSent
<1>4. line' \in Seq(Segment) /\ Lined(View(guest, iss, o), flow, line')
  BY <1>1, HeadOfLine
<1>5. LInv(o)'
  BY <1>1, <1>2, <1>3, <1>4, MovedLinked DEF LInv
<1> QED BY <1>1, <1>5, NothingRead

(* The octets the guest cuts from its stream. *)
LEMMA RangeTyped ==
  ASSUME NEW from \in Nat, NEW to \in Nat, from < to, to <= FinSeq + 1
  PROVE  [i \in 1 .. Least(to, FinSeq) - from |-> from + i - 1] \in Seq(Nat)
<1> DEFINE n == Least(to, FinSeq) - from
<1>1. FinSeq \in Nat
  BY GuestAssumption DEF FinSeq
<1>2. n \in Nat
  BY <1>1 DEF Least
<1> HIDE DEF n
<1>3. \A i \in 1 .. n : from + i - 1 \in Nat
  BY <1>2
<1> QED BY <1>2, <1>3, IsASeq DEF n

(* The guest's SYN, the first or a repeated one. *)
LEMMA GuestSynLinked ==
  ASSUME NEW o \in Nat, LInv(o), IInv', GuestSyn
  PROVE  LInv(o)' /\ StreamStep
<1> DEFINE g == [guest EXCEPT !.st = "syn_sent", !.nxt = 1]
           s == GuestSegment(guest, {"SYN"}, 0, << >>)
           p == View(guest, iss, o)
           r == View(g, iss, o)
<1>1. /\ UNCHANGED <<flow, host, iss, out>> /\ guest' = g /\ line' = Append(line, s)
      /\ guest.st \in {"idle", "syn_sent"}
  BY DEF GuestSyn, vars
<1>3. line \in Seq(Segment) /\ Lined(p, flow, line)
  BY DEF LInv
<1>4. /\ Peer(guest, iss, o, host) /\ guest \in Guest /\ guest.rcv = 0
      /\ guest.got = << >> /\ ~guest.fin /\ guest.unread = 0 /\ guest.nxt <= FinSeq
      /\ guest.nxt \in Nat
  BY <1>1 DEF LInv, Peer, Guest
<1>5. FinSeq \in Nat /\ 1 <= FinSeq /\ 1 <= FinSeq + 1 /\ FinSeq # FinSeq + 1
  BY GuestAssumption DEF FinSeq
<1>6. /\ g \in Guest /\ g.st = "syn_sent" /\ g.nxt = 1 /\ g.rcv = 0
      /\ g.got = << >> /\ ~g.fin /\ g.unread = 0
  BY <1>4 DEF Guest
<1>7. g.got = guest.got /\ g.fin = guest.fin
  BY <1>4 DEF Guest
<1> HIDE DEF g
<1>8. Peer(g, iss, o, host)
  <2>1. HasRead(g, iss, o, host)
    <3>1. HasRead(guest, iss, o, host)
      BY <1>4, <2>1 DEF Peer
    <3> QED BY <1>6, <1>7, <3>1 DEF HasRead
  <2> QED BY <1>5, <1>6, <2>1 DEF Peer
<1>9. iss \in Nat /\ ViewOK(p)
  BY LinkFacts
<1>10. /\ p.iss = iss /\ p.org = o /\ p.rcv = 0 /\ p.edge = iss + 1 + GuestBuf /\ p.fin = guest.fin
       /\ p.done <=> guest.nxt = FinSeq + 1
       /\ GuestBuf \in Nat
  BY <1>4, <1>9, ViewFields
<1>11. /\ r.iss = iss /\ r.org = o /\ r.rcv = 0 /\ r.edge = iss + 1 + GuestBuf /\ r.fin = g.fin
       /\ ViewOK(r)
  <2>1. host.read \in Nat /\ host.read <= HostLen /\ o <= iss /\ iss <= o + 1
    BY LinkFacts
  <2>2. ViewOK(r)
    BY <1>8, <1>9, <2>1, ViewGood
  <2> QED BY <1>6, <1>9, <2>2, ViewFields
<1> HIDE DEF p, r
<1>12. Grows(p, r)
  <2>1. ~p.done
    <3> DEFINE n == guest.nxt
    <3>1. n \in Nat /\ n <= FinSeq /\ (p.done <=> n = FinSeq + 1)
      BY <1>4, <1>10
    <3> HIDE DEF n
    <3> QED BY <1>5, <3>1
  <2>2. p.edge \in Nat
    BY <1>9 DEF ViewOK
  <2> QED BY <1>7, <1>9, <1>10, <1>11, <2>1, <2>2 DEF Grows
<1>13. s \in Segment /\ s.flags = {"SYN"} /\ s.wnd = GuestBuf
  <2>1. GuestBuf - 0 = GuestBuf /\ << >> \in Seq(Nat)
    BY <1>10
  <2> QED BY <1>4, <1>10, <2>1 DEF GuestSegment, Segment, Flags
<1> HIDE DEF s
<1>14. Lined(r, flow, line)
  BY <1>3, <1>9, <1>11, <1>12, LinedGrows
<1>15. Travels(r, flow, s) /\ \A i \in 1 .. Len(line) : Follows(line[i], s)
  <2>1. "SYN" \in s.flags /\ s.wnd <= GuestBuf
    BY <1>10, <1>13
  <2> QED BY <1>13, <2>1 DEF Travels, Follows, Plain
<1>16. line' \in Seq(Segment) /\ Lined(r, flow, line')
  BY <1>1, <1>3, <1>13, <1>14, <1>15, LinedAppend
<1>17. out' \in Seq(Sent(View(guest, iss, o), host))
  BY <1>1, RingSent
<1>18. LInv(o)'
  BY <1>1, <1>8, <1>12, <1>16, <1>17, MovedLinked, SMTT(30) DEF p, r
<1> QED BY <1>1, <1>4, <1>6, <1>7, <1>18, NothingRead

(* The guest says something: the general form of its steps. *)
LEMMA GuestSpoke ==
  ASSUME NEW o \in Nat, LInv(o), IInv', UNCHANGED <<flow, host, iss>>,
         NEW g, guest' = g, Peer(g, iss, o, host), Grows(View(guest, iss, o), View(g, iss, o)),
         out' \in Seq(Sent(View(guest, iss, o), host)),
         NEW flags \in SUBSET Flags, "SYN" \notin flags,
         NEW seq \in Nat, NEW data \in Seq(Nat),
         "RST" \notin flags => g.rcv # 0,
         "FIN" \in flags => g.nxt = FinSeq + 1,
         line' = Append(line, GuestSegment(g, flags, seq, data))
  PROVE  LInv(o)'
<1>1. line' \in Seq(Segment) /\ Lined(View(g, iss, o), flow, line')
  BY ReplyLined
<1> QED BY <1>1, MovedLinked

(* The guest as its steps find it. *)
LEMMA GuestFacts ==
  ASSUME NEW o \in Nat, LInv(o)
  PROVE  /\ Peer(guest, iss, o, host) /\ guest \in Guest
         /\ guest.rcv \in Nat /\ guest.una \in Nat /\ guest.nxt \in Nat /\ guest.wnd \in Nat
         /\ guest.unread \in Nat /\ guest.unread <= GuestBuf /\ GuestBuf \in Nat
         /\ guest.got \in Seq(Nat) /\ guest.fin \in BOOLEAN
         /\ guest.nxt <= FinSeq + 1 /\ FinSeq \in Nat
         /\ guest.st = "open" => guest.rcv # 0
         /\ ViewOK(View(guest, iss, o)) /\ Grows(View(guest, iss, o), View(guest, iss, o))
<1>1. Peer(guest, iss, o, host) /\ guest \in Guest
  BY DEF LInv, Peer
<1>2. GuestBuf \in Nat /\ FinSeq \in Nat
  BY GuestAssumption DEF FinSeq
<1>3. guest.unread \in 0 .. GuestBuf
  BY <1>1 DEF Guest
<1>4. guest.unread \in Nat /\ guest.unread <= GuestBuf
  <2> DEFINE u == guest.unread
  <2>1. u \in 0 .. GuestBuf
    BY <1>3
  <2> HIDE DEF u
  <2>2. u \in Nat /\ u <= GuestBuf
    BY <1>2, <2>1
  <2> QED BY <2>2 DEF u
<1>5. ViewOK(View(guest, iss, o)) /\ Grows(View(guest, iss, o), View(guest, iss, o))
  BY LinkFacts, SelfGrows
<1> QED BY <1>1, <1>2, <1>4, <1>5 DEF Peer, Guest

(* New octets, and the FIN behind them. *)
LEMMA GuestSendLinked ==
  ASSUME NEW o \in Nat, LInv(o), IInv', GuestSend
  PROVE  LInv(o)' /\ StreamStep
<1>1. PICK to \in guest.nxt + 1 .. FinSeq + 1 :
        /\ guest' = [guest EXCEPT !.nxt = to]
        /\ line' = Append(line, GuestRange(guest, guest.nxt, to))
  BY DEF GuestSend
<1>2. UNCHANGED <<flow, host, iss, out>> /\ guest.st = "open"
  BY DEF GuestSend, vars
<1> DEFINE g     == [guest EXCEPT !.nxt = to]
           from  == guest.nxt
           flags == {"ACK"} \cup (IF to > FinSeq THEN {"FIN"} ELSE {})
           data  == [i \in 1 .. Least(to, FinSeq) - from |-> from + i - 1]
           p     == View(guest, iss, o)
           r     == View(g, iss, o)
<1>3. /\ Peer(guest, iss, o, host) /\ guest \in Guest /\ from \in Nat /\ FinSeq \in Nat
      /\ from <= FinSeq + 1 /\ guest.rcv # 0 /\ ViewOK(p) /\ Grows(p, p)
  BY <1>2, GuestFacts
<1>4. to \in Nat /\ from < to /\ to <= FinSeq + 1 /\ from < FinSeq + 1
      /\ (to > FinSeq => to = FinSeq + 1) /\ from # FinSeq + 1
  <2>1. to \in from + 1 .. FinSeq + 1
    BY <1>1
  <2> HIDE DEF from
  <2> QED BY <1>3, <2>1
<1>5. /\ g \in Guest /\ g.nxt = to /\ g.rcv = guest.rcv /\ g.unread = guest.unread
      /\ g.st = guest.st /\ g.got = guest.got /\ g.fin = guest.fin /\ g.irs = guest.irs
  BY <1>3, <1>4 DEF Guest
<1> HIDE DEF g
<1>6. Peer(g, iss, o, host)
  <2>1. HasRead(g, iss, o, host)
    <3>1. HasRead(guest, iss, o, host)
      BY <1>3, <2>1 DEF Peer
    <3> QED BY <1>5, <3>1 DEF HasRead
  <2> QED BY <1>2, <1>3, <1>4, <1>5, <2>1 DEF Peer
<1>7. Grows(p, r)
  <2>1. r.iss = p.iss /\ r.org = p.org /\ r.rcv = p.rcv /\ r.edge = p.edge /\ r.fin = p.fin
        /\ (p.done <=> from = FinSeq + 1)
    BY <1>5 DEF View
  <2> HIDE DEF p, r, from
  <2> QED BY <1>3, <1>4, <2>1 DEF Grows
<1>8. flags \in SUBSET Flags /\ "SYN" \notin flags /\ ("FIN" \in flags => g.nxt = FinSeq + 1)
  BY <1>4, <1>5 DEF Flags
<1>9. data \in Seq(Nat)
  <2> HIDE DEF from
  <2> QED BY <1>3, <1>4, RangeTyped
<1>10. line' = Append(line, GuestSegment(g, flags, from, data))
  <2>1. GuestRange(guest, from, to) = GuestSegment(guest, flags, from, data)
    BY DEF GuestRange
  <2>2. GuestSegment(guest, flags, from, data) = GuestSegment(g, flags, from, data)
    <3> HIDE DEF flags, from, data
    <3> QED BY <1>5 DEF GuestSegment
  <2> QED BY <1>1, <2>1, <2>2
<1>11. guest' = g
  BY <1>1 DEF g
<1>12. out' \in Seq(Sent(p, host))
  BY <1>2, RingSent
<1> HIDE DEF flags, from, data
<1>13. LInv(o)'
  BY <1>2, <1>3, <1>5, <1>6, <1>7, <1>8, <1>9, <1>10, <1>11, <1>12, GuestSpoke DEF p, r
<1> QED BY <1>2, <1>5, <1>11, <1>13, NothingRead

(* Old ones again. *)
LEMMA GuestResendLinked ==
  ASSUME NEW o \in Nat, LInv(o), IInv', GuestResend
  PROVE  LInv(o)' /\ StreamStep
<1>1. /\ UNCHANGED <<flow, host, iss, out, guest>> /\ guest.st = "open"
      /\ guest.una < guest.nxt
      /\ line' = Append(line, GuestRange(guest, guest.una, guest.nxt))
  BY DEF GuestResend, vars
<1> DEFINE from  == guest.una
           to    == guest.nxt
           flags == {"ACK"} \cup (IF to > FinSeq THEN {"FIN"} ELSE {})
           data  == [i \in 1 .. Least(to, FinSeq) - from |-> from + i - 1]
<1>2. /\ Peer(guest, iss, o, host) /\ from \in Nat /\ to \in Nat /\ FinSeq \in Nat
      /\ to <= FinSeq + 1 /\ from < to /\ guest.rcv # 0
      /\ Grows(View(guest, iss, o), View(guest, iss, o))
  BY <1>1, GuestFacts
<1>3. to > FinSeq => to = FinSeq + 1
  <2> HIDE DEF to
  <2> QED BY <1>2
<1>4. flags \in SUBSET Flags /\ "SYN" \notin flags /\ "RST" \notin flags
      /\ ("FIN" \in flags => guest.nxt = FinSeq + 1)
  BY <1>3 DEF Flags
<1>5. data \in Seq(Nat)
  <2> HIDE DEF from, to
  <2> QED BY <1>2, RangeTyped
<1>6. line' = Append(line, GuestSegment(guest, flags, from, data))
  BY <1>1 DEF GuestRange
<1>7. out' \in Seq(Sent(View(guest, iss, o), host)) /\ guest' = guest
  BY <1>1, RingSent
<1> HIDE DEF flags, from, to, data
<1>8. LInv(o)'
  BY <1>1, <1>2, <1>4, <1>5, <1>6, <1>7, GuestSpoke
<1> QED BY <1>1, <1>8, NothingRead

(* The application reads, and the window opens. *)
LEMMA GuestReadLinked ==
  ASSUME NEW o \in Nat, LInv(o), IInv', GuestRead
  PROVE  LInv(o)' /\ StreamStep
<1> DEFINE g == [guest EXCEPT !.unread = 0]
           p == View(guest, iss, o)
           r == View(g, iss, o)
<1>1. /\ UNCHANGED <<flow, host, iss, out>> /\ guest.st = "open" /\ guest' = g
      /\ line' = Append(line, GuestSegment(g, {"ACK"}, guest.nxt, << >>))
  BY DEF GuestRead, vars
<1>2. /\ Peer(guest, iss, o, host) /\ guest \in Guest /\ guest.nxt \in Nat /\ guest.rcv # 0
      /\ GuestBuf \in Nat /\ ViewOK(p) /\ iss \in Nat
  BY <1>1, GuestFacts, LinkFacts
<1>3. /\ g \in Guest /\ g.nxt = guest.nxt /\ g.rcv = guest.rcv /\ g.unread = 0
      /\ g.st = guest.st /\ g.got = guest.got /\ g.fin = guest.fin /\ g.irs = guest.irs
  <2>1. 0 \in 0 .. GuestBuf
    BY <1>2
  <2> QED BY <1>2, <2>1 DEF Guest
<1> HIDE DEF g
<1>4. Peer(g, iss, o, host)
  <2>1. HasRead(g, iss, o, host)
    <3>1. HasRead(guest, iss, o, host)
      BY <1>2, <2>1 DEF Peer
    <3> QED BY <1>3, <3>1 DEF HasRead
  <2> QED BY <1>1, <1>2, <1>3, <2>1 DEF Peer
<1>5. Grows(p, r)
  <2> DEFINE rcv == guest.rcv
             u   == guest.unread
  <2>1. /\ p.iss = iss /\ p.org = o /\ p.rcv = rcv /\ p.fin = guest.fin
        /\ (p.done <=> guest.nxt = FinSeq + 1)
        /\ p.edge = rcv + GuestBuf - u /\ rcv \in Nat /\ u \in Nat /\ u <= GuestBuf
    BY <1>2, ViewFields
  <2>2. /\ r.iss = iss /\ r.org = o /\ r.rcv = rcv /\ r.fin = guest.fin
        /\ (r.done <=> guest.nxt = FinSeq + 1)
        /\ r.edge = rcv + GuestBuf - 0
    BY <1>2, <1>3, ViewFields
  <2> HIDE DEF p, r, rcv, u
  <2>3. p.edge <= r.edge /\ p.rcv <= r.rcv
    BY <1>2, <2>1, <2>2
  <2> QED BY <2>1, <2>2, <2>3 DEF Grows
<1>6. {"ACK"} \in SUBSET Flags /\ << >> \in Seq(Nat)
  BY DEF Flags
<1>7. out' \in Seq(Sent(p, host)) 
  BY <1>1, RingSent
<1>8. LInv(o)'
  BY <1>1, <1>2, <1>3, <1>4, <1>5, <1>6, <1>7, GuestSpoke DEF p, r
<1> QED BY <1>1, <1>3, <1>8, NothingRead

(* A guest that has reset the connection, or been reset, is as it was. *)
LEMMA DeadPeer ==
  ASSUME NEW o \in Nat, LInv(o), NEW g, g = [guest EXCEPT !.st = "dead"]
  PROVE  /\ Peer(g, iss, o, host) /\ Grows(View(guest, iss, o), View(g, iss, o))
         /\ g.rcv = guest.rcv /\ g.got = guest.got /\ g.fin = guest.fin
<1>1. Peer(guest, iss, o, host) /\ guest \in Guest /\ Grows(View(guest, iss, o), View(guest, iss, o))
  BY GuestFacts
<1>2. /\ g \in Guest /\ g.nxt = guest.nxt /\ g.rcv = guest.rcv /\ g.unread = guest.unread
      /\ g.st = "dead" /\ g.got = guest.got /\ g.fin = guest.fin /\ g.irs = guest.irs
  BY <1>1 DEF Guest
<1>3. View(g, iss, o) = View(guest, iss, o)
  BY <1>2 DEF View
<1>4. Peer(g, iss, o, host)
  <2>1. HasRead(g, iss, o, host)
    <3>1. HasRead(guest, iss, o, host)
      BY <1>1, <2>1 DEF Peer
    <3> QED BY <1>2, <3>1 DEF HasRead
  <2> QED BY <1>1, <1>2, <2>1 DEF Peer
<1> QED BY <1>1, <1>2, <1>3, <1>4

(* The guest gives up. *)
LEMMA GuestAbortLinked ==
  ASSUME NEW o \in Nat, LInv(o), IInv', GuestAbort
  PROVE  LInv(o)' /\ StreamStep
<1> DEFINE g == [guest EXCEPT !.st = "dead"]
<1>1. /\ UNCHANGED <<flow, host, iss, out>> /\ guest' = g
      /\ line' = Append(line, GuestSegment(guest, {"RST", "ACK"}, guest.nxt, << >>))
  BY DEF GuestAbort, vars
<1>2. /\ Peer(g, iss, o, host) /\ Grows(View(guest, iss, o), View(g, iss, o))
      /\ g.got = guest.got /\ g.fin = guest.fin
  BY DeadPeer
<1>3. guest \in Guest /\ guest.nxt \in Nat
  BY GuestFacts
<1>4. g.rcv = guest.rcv /\ g.unread = guest.unread
  BY <1>3 DEF Guest
<1> HIDE DEF g
<1>5. GuestSegment(guest, {"RST", "ACK"}, guest.nxt, << >>)
        = GuestSegment(g, {"RST", "ACK"}, guest.nxt, << >>)
  BY <1>4 DEF GuestSegment
<1>6. {"RST", "ACK"} \in SUBSET Flags /\ << >> \in Seq(Nat)
  BY DEF Flags
<1>7. out' \in Seq(Sent(View(guest, iss, o), host)) 
  BY <1>1, RingSent
<1>8. LInv(o)'
  BY <1>1, <1>2, <1>3, <1>5, <1>6, <1>7, GuestSpoke
<1> QED BY <1>1, <1>2, <1>4, <1>8, NothingRead

(* What the guest takes of a segment.                                       *)

Skipped(g, s) == g.rcv - s.seq

Gain(g, s) == Least(Len(s.data) - Skipped(g, s), GuestBuf - g.unread)

LastTaken(g, s) ==
  "FIN" \in s.flags /\ Skipped(g, s) + Gain(g, s) = Len(s.data) /\ ~g.fin

Noted(g, s) ==
  [g EXCEPT !.una = IF @ < s.ack /\ s.ack <= g.nxt THEN s.ack ELSE @, !.wnd = s.wnd]

LEMMA NotedFields ==
  ASSUME NEW g \in Guest, NEW s \in Segment
  PROVE  LET b == Noted(g, s)
         IN /\ b \in Guest /\ b.st = g.st /\ b.irs = g.irs /\ b.rcv = g.rcv /\ b.nxt = g.nxt
            /\ b.unread = g.unread /\ b.got = g.got /\ b.fin = g.fin
<1> DEFINE una == IF g.una < s.ack /\ s.ack <= g.nxt THEN s.ack ELSE g.una
           a   == [g EXCEPT !.una = una]
           b   == [a EXCEPT !.wnd = s.wnd]
<1>1. una \in Nat /\ s.wnd \in Nat
  BY DEF Guest, Segment
<1> HIDE DEF una
<1>2. /\ a \in Guest /\ a.st = g.st /\ a.irs = g.irs /\ a.rcv = g.rcv /\ a.nxt = g.nxt
      /\ a.unread = g.unread /\ a.got = g.got /\ a.fin = g.fin
  BY <1>1 DEF Guest
<1> HIDE DEF a
<1>3. /\ b \in Guest /\ b.st = a.st /\ b.irs = a.irs /\ b.rcv = a.rcv /\ b.nxt = a.nxt
      /\ b.unread = a.unread /\ b.got = a.got /\ b.fin = a.fin
  BY <1>1, <1>2 DEF Guest
<1>4. b = Noted(g, s)
  BY DEF Noted, a, una
<1> HIDE DEF b
<1> QED BY <1>2, <1>3, <1>4

(* Nothing is taken unless the segment reaches back to what is expected. *)
LEMMA ReceivedPart ==
  ASSUME guest \in Guest, NEW s \in Segment
  PROVE  LET k == Skipped(guest, s)
             n == Gain(guest, s)
             e == LastTaken(guest, s)
             g == Received(s)
         IN \/ g = Noted(guest, s)
            \/ /\ k \in Nat /\ n \in Nat /\ k + n <= Len(s.data)
               /\ n <= GuestBuf - guest.unread
               /\ g \in Guest /\ g.st = guest.st /\ g.irs = guest.irs /\ g.nxt = guest.nxt
               /\ g.got = guest.got \o SubSeq(s.data, k + 1, k + n)
               /\ g.unread = guest.unread + n
               /\ g.rcv = guest.rcv + n + (IF e THEN 1 ELSE 0)
               /\ g.fin = (guest.fin \/ e)
<1> DEFINE b    == Noted(guest, s)
           k    == Skipped(guest, s)
           n    == Gain(guest, s)
           e    == LastTaken(guest, s)
           len  == Len(s.data)
           room == GuestBuf - guest.unread
           g1   == [b EXCEPT !.got = b.got \o SubSeq(s.data, k + 1, k + n)]
           g2   == [g1 EXCEPT !.unread = b.unread + n]
           g3   == [g2 EXCEPT !.rcv = b.rcv + n + (IF e THEN 1 ELSE 0)]
           g4   == [g3 EXCEPT !.fin = b.fin \/ e]
<1>1. /\ b \in Guest /\ b.st = guest.st /\ b.irs = guest.irs /\ b.rcv = guest.rcv /\ b.nxt = guest.nxt
      /\ b.unread = guest.unread /\ b.got = guest.got /\ b.fin = guest.fin
  BY NotedFields
<1> HIDE DEF b
<1>2. k = b.rcv - s.seq /\ n = Least(Len(s.data) - k, GuestBuf - b.unread)
      /\ e = ("FIN" \in s.flags /\ k + n = Len(s.data) /\ ~b.fin)
  BY <1>1 DEF Skipped, Gain, LastTaken
<1>3. Received(s) = IF k < 0 \/ n < 0 THEN b
                    ELSE [b EXCEPT !.got    = @ \o SubSeq(s.data, k + 1, k + n),
                                   !.unread = @ + n,
                                   !.rcv    = @ + n + (IF e THEN 1 ELSE 0),
                                   !.fin    = @ \/ e]
  <2>1. Received(s) = LET skip == b.rcv - s.seq
                          take == Least(Len(s.data) - skip, GuestBuf - b.unread)
                          fin  == "FIN" \in s.flags /\ skip + take = Len(s.data) /\ ~b.fin
                      IN IF skip < 0 \/ take < 0 THEN b
                         ELSE [b EXCEPT !.got    = @ \o SubSeq(s.data, skip + 1, skip + take),
                                        !.unread = @ + take,
                                        !.rcv    = @ + take + (IF fin THEN 1 ELSE 0),
                                        !.fin    = @ \/ fin]
    BY DEF Received, b, Noted
  <2> HIDE DEF k, n, e
  <2>2. /\ b.rcv - s.seq = k
        /\ Least(Len(s.data) - k, GuestBuf - b.unread) = n
        /\ ("FIN" \in s.flags /\ k + n = Len(s.data) /\ ~b.fin) = e
    BY <1>2
  <2> QED BY <2>1, <2>2, Zenon
<1>4. /\ k \in Int /\ len \in Nat /\ room \in Nat /\ room = GuestBuf - b.unread
      /\ s.data \in Seq(Nat) /\ b.rcv \in Nat /\ b.unread \in Nat /\ GuestBuf \in Nat
  <2>1. b.rcv \in Nat /\ s.seq \in Nat /\ s.data \in Seq(Nat) /\ b.unread \in 0 .. GuestBuf
    BY <1>1 DEF Guest, Segment
  <2>2. GuestBuf \in Nat
    BY GuestAssumption
  <2> DEFINE rcv == b.rcv
             seq == s.seq
             u   == b.unread
  <2>3. k = rcv - seq /\ room = GuestBuf - u
    BY <1>1, <1>2
  <2>4. rcv \in Nat /\ seq \in Nat /\ u \in 0 .. GuestBuf
    BY <2>1
  <2> HIDE DEF rcv, seq, u, k, room
  <2>5. k \in Int /\ room \in Nat /\ u \in Nat
    BY <2>2, <2>3, <2>4
  <2> QED BY <2>1, <2>2, <2>3, <2>4, <2>5 DEF u, rcv
<1>5. n = Least(len - k, room)
  BY <1>2, <1>4
<1> HIDE DEF k, n, e, len, room
<1>6. n \in Int /\ n <= room /\ n <= len - k
  BY <1>4, <1>5 DEF Least
<1>7. CASE k < 0 \/ n < 0
  BY <1>3, <1>7 DEF b
<1>8. CASE ~(k < 0 \/ n < 0)
  <2>1. k \in Nat /\ n \in Nat /\ k + n <= len
    BY <1>4, <1>6, <1>8
  <2>2. Received(s) = g4
    <3>1. Received(s) = [b EXCEPT !.got    = @ \o SubSeq(s.data, k + 1, k + n),
                                  !.unread = @ + n,
                                  !.rcv    = @ + n + (IF e THEN 1 ELSE 0),
                                  !.fin    = @ \/ e]
      BY <1>3, <1>8
    <3> QED BY <1>1, <3>1 DEF Guest
  <2>3. SubSeq(s.data, k + 1, k + n) \in Seq(Nat)
    <3> DEFINE d == s.data
               x == k + 1
               y == k + n
    <3>1. d \in Seq(Nat) /\ x \in Nat /\ y \in Nat /\ 1 <= x /\ y <= Len(d)
      BY <1>4, <2>1 DEF len
    <3> HIDE DEF d, x, y
    <3>2. \A i \in x .. y : d[i] \in Nat
      <4> SUFFICES ASSUME NEW i \in x .. y PROVE d[i] \in Nat
        OBVIOUS
      <4>1. i \in 1 .. Len(d)
        <5> DEFINE l == Len(d)
        <5>1. l \in Nat /\ y <= l
          BY <3>1
        <5> HIDE DEF l
        <5>2. i \in 1 .. l
          BY <3>1, <5>1
        <5> QED BY <5>2 DEF l
      <4> QED BY <3>1, <4>1, ElementOfSeq
    <3>3. SubSeq(d, x, y) \in Seq(Nat)
      BY <3>1, <3>2, SubSeqProperties
    <3> QED BY <3>3 DEF d, x, y
  <2>4. b.got \o SubSeq(s.data, k + 1, k + n) \in Seq(Nat)
    <3> DEFINE t == SubSeq(s.data, k + 1, k + n)
    <3> HIDE DEF t
    <3>1. b.got \in Seq(Nat)
      BY <1>1 DEF Guest
    <3>2. b.got \o t \in Seq(Nat)
      BY <2>3, <3>1, ConcatProperties DEF t
    <3> QED BY <3>2 DEF t
  <2>5. /\ g1 \in Guest /\ g1.got = b.got \o SubSeq(s.data, k + 1, k + n)
        /\ g1.st = b.st /\ g1.irs = b.irs /\ g1.nxt = b.nxt
    BY <1>1, <2>4 DEF Guest
  <2> HIDE DEF g1
  <2>6. b.unread + n \in 0 .. GuestBuf
    <3> DEFINE u == b.unread
    <3>1. u \in Nat /\ room = GuestBuf - u
      BY <1>4
    <3> HIDE DEF u
    <3>2. u + n \in 0 .. GuestBuf
      BY <1>4, <1>6, <2>1, <3>1
    <3> QED BY <3>2 DEF u
  <2>7. /\ g2 \in Guest /\ g2.unread = b.unread + n /\ g2.got = g1.got
        /\ g2.st = g1.st /\ g2.irs = g1.irs /\ g2.nxt = g1.nxt
    BY <2>5, <2>6 DEF Guest
  <2> HIDE DEF g2
  <2>8. b.rcv + n + (IF e THEN 1 ELSE 0) \in Nat
    <3> DEFINE rcv == b.rcv
    <3>1. rcv \in Nat
      BY <1>4
    <3> HIDE DEF rcv
    <3>2. rcv + n + (IF e THEN 1 ELSE 0) \in Nat
      BY <2>1, <3>1
    <3> QED BY <3>2 DEF rcv
  <2>9. /\ g3 \in Guest /\ g3.rcv = b.rcv + n + (IF e THEN 1 ELSE 0)
        /\ g3.unread = g2.unread /\ g3.got = g2.got
        /\ g3.st = g2.st /\ g3.irs = g2.irs /\ g3.nxt = g2.nxt
    BY <2>7, <2>8 DEF Guest
  <2> HIDE DEF g3
  <2>10. (b.fin \/ e) \in BOOLEAN
    OBVIOUS
  <2>11. /\ g4 \in Guest /\ g4.fin = (b.fin \/ e) /\ g4.rcv = g3.rcv
         /\ g4.unread = g3.unread /\ g4.got = g3.got
         /\ g4.st = g3.st /\ g4.irs = g3.irs /\ g4.nxt = g3.nxt
    BY <2>9, <2>10 DEF Guest
  <2> HIDE DEF g4
  <2>12. n <= GuestBuf - guest.unread
    BY <1>1, <1>4, <1>6
  <2> QED BY <1>1, <2>1, <2>2, <2>5, <2>7, <2>9, <2>11, <2>12 DEF k, n, e, len
<1> QED BY <1>7, <1>8

(* The octets cut from a segment are the next ones of the host's stream, of
   which o tells where it began.                                            *)
NextOctets(s, k, n, o) ==
  LET len == Len(guest.got)
      got == guest.got \o SubSeq(s.data, k + 1, k + n)
  IN /\ guest.fin => n = 0
     /\ Len(got) = len + n /\ len \in Nat
     /\ got # << >> => len + n + (iss - o) <= host.read
     /\ \A i \in 1 .. len + n : got[i] = i + (iss - o)
     /\ LastTaken(guest, s) /\ k + n = Len(s.data) =>
          /\ n = 0 /\ host.read = HostLen
          /\ HostLen = 0 \/ len + (iss - o) = HostLen
     /\ n = 0 => got = guest.got

LEMMA GainedOctets ==
  ASSUME NEW o \in Nat, LInv(o), guest.rcv # 0,
         NEW s \in Sent(View(guest, iss, o), host),
         NEW k \in Nat, NEW n \in Nat, k = guest.rcv - s.seq, k + n <= Len(s.data)
  PROVE  NextOctets(s, k, n, o)
<1> DEFINE data == s.data
           seq  == s.seq
           size == Len(s.data)
           len  == Len(guest.got)
           rcv  == guest.rcv
           read == host.read
           lost == iss - o
           one  == IF guest.fin THEN 1 ELSE 0
           fins == "FIN" \in s.flags
           new  == SubSeq(s.data, k + 1, k + n)
           got  == guest.got \o new
<1>1. /\ HasRead(guest, iss, o, host) /\ guest.got \in Seq(Nat) /\ rcv \in Nat /\ len \in Nat
      /\ read \in Nat /\ read <= HostLen /\ iss \in Nat /\ HostLen \in Nat
      /\ lost \in Nat /\ iss = o + lost
  <2>1. /\ HasRead(guest, iss, o, host) /\ guest.got \in Seq(Nat) /\ rcv \in Nat
        /\ read \in Nat /\ read <= HostLen /\ iss \in Nat /\ HostLen \in Nat /\ o <= iss
    BY GuestFacts, LinkFacts, SizesAssumption DEF Peer
  <2>2. len \in Nat
    BY <2>1
  <2>3. lost \in Nat /\ iss = o + lost
    BY <2>1
  <2> QED BY <2>1, <2>2, <2>3
<1>2. /\ s \in Segment /\ seq \in Nat /\ data \in Seq(Nat) /\ size \in Nat
  BY DEF Sent, Segment
<1>3. /\ rcv = iss + 1 + len + one
      /\ guest.got # << >> => len + lost <= read
      /\ \A i \in 1 .. len : guest.got[i] = i + lost
      /\ guest.fin => read = HostLen /\ (HostLen = 0 \/ len + lost = HostLen)
  BY <1>1 DEF HasRead
<1>4. /\ data # << >> => /\ seq + size <= o + 1 + read
                         /\ \A i \in 1 .. size : data[i] = seq - o - 1 + i
      /\ fins => /\ data = << >> /\ read = HostLen
                 /\ HostLen # 0 => seq = o + 1 + HostLen
  <2>1. View(guest, iss, o).org = o
    BY LinkFacts
  <2>2. CutFromStream(View(guest, iss, o), host, s)
    BY DEF Sent
  <2> QED BY <2>1, <2>2 DEF CutFromStream
<1>5. k = rcv - seq /\ k + n <= size
  OBVIOUS
<1>6. data = << >> => size = 0
  OBVIOUS
<1>7. one \in 0 .. 1 /\ (guest.fin => one = 1) /\ (~guest.fin => one = 0)
  OBVIOUS
<1>8. (n = 0 \/ seq + size <= o + 1 + read) /\ (n # 0 => data # << >>)
  <2> HIDE DEF seq, size, read, data
  <2> QED BY <1>2, <1>4, <1>5, <1>6
<1> HIDE DEF lost
<1>9. n # 0 => len + one + n + lost <= read
  <2> SUFFICES ASSUME n # 0 PROVE len + one + n + lost <= read
    OBVIOUS
  <2> HIDE DEF rcv, len, seq, size, read, one
  <2>1. one \in Nat
    BY <1>7
  <2>2. seq + (k + n) <= o + 1 + read
    BY <1>1, <1>2, <1>5, <1>8
  <2>3. rcv = o + lost + 1 + len + one
    BY <1>1, <1>3, <2>1
  <2>4. seq + k = rcv
    BY <1>1, <1>2, <1>5
  <2> QED BY <1>1, <1>2, <2>1, <2>2, <2>3, <2>4
<1>10. guest.fin => n = 0
  <2> SUFFICES ASSUME guest.fin, n # 0 PROVE FALSE
    OBVIOUS
  <2>1. one = 1 /\ read = HostLen /\ (HostLen = 0 \/ len + lost = HostLen)
        /\ len + one + n + lost <= read
    BY <1>3, <1>7, <1>9
  <2> HIDE DEF len, read, one
  <2> QED BY <1>1, <2>1
<1>11. /\ new \in Seq(Nat) /\ Len(new) = n
       /\ \A i \in 1 .. n : new[i] = data[k + i]
  <2> DEFINE x == k + 1
             y == k + n
  <2>1. x \in Nat /\ y \in Nat /\ 1 <= x /\ y <= size
    BY <1>5
  <2>2. \A i \in x .. y : data[i] \in Nat
    <3> SUFFICES ASSUME NEW i \in x .. y PROVE data[i] \in Nat
      OBVIOUS
    <3>1. i \in 1 .. size
      <4> HIDE DEF size
      <4> QED BY <1>2, <2>1
    <3> QED BY <1>2, <3>1, ElementOfSeq
  <2> HIDE DEF data
  <2>3. /\ SubSeq(data, x, y) \in Seq(Nat)
        /\ Len(SubSeq(data, x, y)) = IF x <= y THEN y - x + 1 ELSE 0
        /\ \A i \in 1 .. (y - x + 1) : SubSeq(data, x, y)[i] = data[x + i - 1]
    <3> HIDE DEF x, y
    <3> QED BY <1>2, <2>1, <2>2, SubSeqProperties DEF data
  <2>4. (IF x <= y THEN y - x + 1 ELSE 0) = n /\ y - x + 1 = n
    OBVIOUS
  <2>5. \A i \in 1 .. n : x + i - 1 = k + i
    OBVIOUS
  <2> DEFINE t == SubSeq(data, x, y)
  <2>6. t = new
    BY DEF data
  <2> HIDE DEF t, new, x, y
  <2>7. t \in Seq(Nat) /\ Len(t) = n /\ \A i \in 1 .. n : t[i] = data[k + i]
    BY <2>3, <2>4, <2>5 DEF t
  <2> QED BY <2>6, <2>7
<1> HIDE DEF new
<1>12. ASSUME NEW i \in 1 .. n PROVE new[i] = len + i + lost
  <2>1. n # 0 /\ k + i \in 1 .. size
    <3> HIDE DEF size
    <3> QED BY <1>2, <1>5, SMTT(30)
  <2>2. data[k + i] = seq - o - 1 + (k + i)
    BY <1>4, <1>8, <2>1
  <2>3. seq - o - 1 + (k + i) = len + i + lost
    <3>1. one = 0
      BY <1>7, <1>10, <2>1
    <3>2. i \in Nat /\ k \in Nat
      OBVIOUS
    <3> HIDE DEF seq, rcv, len, one
    <3>3. rcv = o + lost + 1 + len /\ rcv \in Nat /\ len \in Nat /\ seq \in Nat /\ lost \in Nat
      BY <1>1, <1>2, <1>3, <3>1
    <3>4. k = rcv - seq
      BY <1>5
    <3>5. seq - o - 1 = len + lost - k
      BY <3>2, <3>3, <3>4
    <3>6. (len + lost - k) + (k + i) = len + i + lost
      BY <3>2, <3>3
    <3> QED BY <3>5, <3>6
  <2> QED BY <1>11, <2>2, <2>3
<1>15. /\ got \in Seq(Nat) /\ Len(got) = len + n
       /\ \A i \in 1 .. len : got[i] = guest.got[i]
       /\ \A i \in 1 .. n : got[len + i] = new[i]
  <2>1. /\ got \in Seq(Nat) /\ Len(got) = len + Len(new)
        /\ \A i \in 1 .. Len(guest.got) + Len(new) :
             got[i] = IF i <= Len(guest.got) THEN guest.got[i]
                      ELSE new[i - Len(guest.got)]
    <3> DEFINE a == guest.got
    <3>1. a \in Seq(Nat) /\ new \in Seq(Nat)
      BY <1>1, <1>11
    <3> HIDE DEF a
    <3>2. /\ a \o new \in Seq(Nat) /\ Len(a \o new) = Len(a) + Len(new)
          /\ \A i \in 1 .. Len(a) + Len(new) :
               (a \o new)[i] = IF i <= Len(a) THEN a[i] ELSE new[i - Len(a)]
      BY <3>1, ConcatProperties
    <3> QED BY <3>2 DEF a
  <2> HIDE DEF got
  <2>2. \A i \in 1 .. len + n : got[i] = IF i <= len THEN guest.got[i] ELSE new[i - len]
    BY <1>11, <2>1
  <2> HIDE DEF len
  <2>3. ASSUME NEW i \in 1 .. len PROVE got[i] = guest.got[i]
    <3>1. i \in 1 .. len + n /\ i <= len
      BY <1>1
    <3> QED BY <2>2, <3>1
  <2>4. ASSUME NEW i \in 1 .. n PROVE got[len + i] = new[i]
    <3>1. len + i \in 1 .. len + n /\ ~(len + i <= len) /\ (len + i) - len = i
      BY <1>1
    <3> QED BY <2>2, <3>1
  <2> QED BY <1>11, <2>1, <2>3, <2>4
<1> HIDE DEF got
<1>16. ASSUME NEW i \in 1 .. len + n PROVE got[i] = i + lost
  <2>1. CASE i \in 1 .. len
    BY <1>3, <1>15, <2>1
  <2>2. CASE i \notin 1 .. len
    <3>1. (i - len) \in 1 .. n /\ len + (i - len) = i
      <4> HIDE DEF len
      <4> QED BY <1>1, <2>2
    <3>2. got[len + (i - len)] = len + (i - len) + lost
      BY <1>12, <1>15, <3>1
    <3> QED BY <3>1, <3>2
  <2> QED BY <2>1, <2>2
<1>17. ASSUME LastTaken(guest, s), k + n = size
       PROVE  n = 0 /\ read = HostLen /\ (HostLen = 0 \/ len + lost = HostLen)
  <2>1. fins /\ one = 0
    BY <1>7, <1>17 DEF LastTaken
  <2>2. size = 0 /\ read = HostLen /\ (HostLen # 0 => seq = o + 1 + HostLen)
    BY <1>4, <1>6, <2>1
  <2> HIDE DEF rcv, len, seq, size, one
  <2>3. n = 0 /\ k = 0
    BY <1>17, <2>2
  <2>4. seq = o + lost + 1 + len
    BY <1>1, <1>2, <1>3, <1>5, <2>1, <2>3
  <2>5. HostLen # 0 => len + lost = HostLen
    BY <1>1, <1>2, <2>2, <2>4
  <2> QED BY <2>2, <2>3, <2>5
<1>18. n = 0 => got = guest.got
  <2> SUFFICES ASSUME n = 0 PROVE got = guest.got
    OBVIOUS
  <2>1. Len(got) = len
    <3> HIDE DEF len
    <3> QED BY <1>1, <1>15
  <2> QED BY <1>1, <1>15, <2>1, SeqEqual
<1>19. got # << >> => len + n + lost <= read
  <2> SUFFICES ASSUME got # << >> PROVE len + n + lost <= read
    OBVIOUS
  <2>1. CASE n = 0
    <3>1. guest.got # << >>
      BY <1>18, <2>1
    <3> HIDE DEF len, read
    <3> QED BY <1>1, <1>3, <2>1, <3>1
  <2>2. CASE n # 0
    <3>1. len + one + n + lost <= read /\ one \in Nat
      BY <1>7, <1>9, <2>2
    <3> HIDE DEF len, read, one
    <3> QED BY <1>1, <3>1
  <2> QED BY <2>1, <2>2
<1> QED BY <1>1, <1>10, <1>15, <1>16, <1>17, <1>18, <1>19 DEF NextOctets, got, new, lost

(* What the guest's application is given, with the lost octet put back: the
   host's stream as far as it goes.                                         *)
UpTo(m) == [j \in 1 .. m |-> j]

GivenLen(g, i, o) ==
  IF g.got # << >> \/ (g.fin /\ HostLen = 1) THEN Len(g.got) + (i - o) ELSE 0

LEMMA UpToGrows ==
  ASSUME NEW m \in Nat, NEW n \in Nat, m <= n
  PROVE  UpTo(n) = UpTo(m) \o [i \in 1 .. n - m |-> m + i]
<1> DEFINE a == UpTo(m)
           b == [i \in 1 .. n - m |-> m + i]
           c == UpTo(n)
<1>1. a \in Seq(Nat) /\ Len(a) = m /\ \A i \in 1 .. m : a[i] = i
  BY IsASeq DEF UpTo
<1>2. c \in Seq(Nat) /\ Len(c) = n /\ \A i \in 1 .. n : c[i] = i
  BY IsASeq DEF UpTo
<1>3. b \in Seq(Nat) /\ Len(b) = n - m /\ \A i \in 1 .. n - m : b[i] = m + i
  <2>1. n - m \in Nat /\ \A i \in 1 .. n - m : m + i \in Nat
    OBVIOUS
  <2> QED BY <2>1, IsASeq
<1> HIDE DEF a, b, c
<1>4. /\ a \o b \in Seq(Nat) /\ Len(a \o b) = n
      /\ \A i \in 1 .. n : (a \o b)[i] = IF i <= m THEN a[i] ELSE b[i - m]
  <2>1. /\ a \o b \in Seq(Nat) /\ Len(a \o b) = Len(a) + Len(b)
        /\ \A i \in 1 .. Len(a) + Len(b) :
             (a \o b)[i] = IF i <= Len(a) THEN a[i] ELSE b[i - Len(a)]
    BY <1>1, <1>3, ConcatProperties
  <2>2. Len(a) = m /\ Len(a) + Len(b) = n
    BY <1>1, <1>3
  <2> QED BY <2>1, <2>2
<1>5. ASSUME NEW i \in 1 .. n PROVE (a \o b)[i] = c[i]
  <2>1. CASE i <= m
    BY <1>1, <1>2, <1>4, <2>1
  <2>2. CASE ~(i <= m)
    <3>1. i - m \in 1 .. n - m /\ m + (i - m) = i
      BY <2>2
    <3> QED BY <1>2, <1>3, <1>4, <2>2, <3>1
  <2> QED BY <2>1, <2>2
<1>6. a \o b = c
  BY <1>2, <1>4, <1>5, SeqEqual
<1> QED BY <1>6 DEF a, b, c

LEMMA GivenIs ==
  ASSUME NEW g \in Guest, NEW i \in Nat, NEW o \in Nat, o <= i, i <= o + 1,
         NEW h, h.read \in Nat, HasRead(g, i, o, h)
  PROVE  LET m == GivenLen(g, i, o)
         IN /\ GivenTo(g) = UpTo(m) /\ m \in Nat /\ m <= h.read
            /\ g.fin => m = HostLen
<1> DEFINE got  == g.got
           len  == Len(g.got)
           lost == i - o
           m    == GivenLen(g, i, o)
<1>1. got \in Seq(Nat) /\ len \in Nat /\ (got # << >> => len > 0)
      /\ (got = << >> => len = 0) /\ HostLen \in Nat
  BY NonEmpty, SizesAssumption DEF Guest
<1>2. lost \in {0, 1}
  OBVIOUS
<1>3. /\ got # << >> => len + lost <= h.read
      /\ \A k \in 1 .. len : got[k] = k + lost
      /\ g.fin => h.read = HostLen /\ (HostLen = 0 \/ len + lost = HostLen)
  BY DEF HasRead
<1>4. m = IF got # << >> \/ (g.fin /\ HostLen = 1) THEN len + lost ELSE 0
  BY DEF GivenLen
<1>5. got # << >> => got[1] = 1 + lost
  <2> SUFFICES ASSUME got # << >> PROVE got[1] = 1 + lost
    OBVIOUS
  <2>1. 1 \in 1 .. len
    <3> HIDE DEF len
    <3> QED BY <1>1
  <2> QED BY <1>3, <2>1
<1>6. GivenTo(g) = IF \/ got # << >> /\ got[1] = 2
                      \/ got = << >> /\ g.fin /\ HostLen = 1
                   THEN <<1>> \o got ELSE got
  BY DEF GivenTo, FirstLost
<1> HIDE DEF m, lost
<1>7. m \in Nat /\ m <= h.read /\ (g.fin => m = HostLen)
  <2> HIDE DEF len, got
  <2>1. CASE got # << >>
    <3>1. m = len + lost /\ m \in Nat /\ m <= h.read /\ len > 0
      BY <1>1, <1>2, <1>3, <1>4, <2>1
    <3>2. g.fin => m = HostLen
      BY <1>1, <1>3, <3>1
    <3> QED BY <3>1, <3>2
  <2>2. CASE got = << >> /\ g.fin /\ HostLen = 1
    BY <1>1, <1>2, <1>3, <1>4, <2>2
  <2>3. CASE got = << >> /\ ~(g.fin /\ HostLen = 1)
    <3>1. m = 0 /\ len = 0
      BY <1>1, <1>4, <2>3
    <3>2. g.fin => HostLen = 0
      BY <1>2, <1>3, <2>3, <3>1
    <3> QED BY <3>1, <3>2
  <2> QED BY <2>1, <2>2, <2>3
<1> DEFINE u == UpTo(m)
<1>8. u \in Seq(Nat) /\ Len(u) = m /\ \A j \in 1 .. m : u[j] = j
  BY <1>7, IsASeq DEF UpTo
<1> HIDE DEF u
<1>9. CASE got # << >> /\ lost = 0
  <2>1. GivenTo(g) = got /\ m = len + 0
    BY <1>4, <1>5, <1>6, <1>9
  <2>2. m = len /\ \A k \in 1 .. len : got[k] = k
    <3>1. \A k \in 1 .. len : got[k] = k + 0
      BY <1>3, <1>9
    <3> HIDE DEF got, len
    <3> QED BY <1>1, <2>1, <3>1
  <2>3. got = u
    BY <1>1, <1>8, <2>2, SeqEqual
  <2> QED BY <1>7, <2>1, <2>3 DEF u, m
<1>10. CASE (got # << >> /\ lost = 1) \/ (got = << >> /\ g.fin /\ HostLen = 1)
  <2> DEFINE t == <<1>> \o got
  <2>1. lost = 1
    <3> HIDE DEF got, len
    <3> QED BY <1>1, <1>2, <1>3, <1>10
  <2>2. GivenTo(g) = t /\ m = len + 1
    BY <1>4, <1>5, <1>6, <1>10, <2>1
  <2>3. t \in Seq(Nat) /\ Len(t) = 1 + len
        /\ \A k \in 1 .. 1 + len : t[k] = IF k <= 1 THEN 1 ELSE got[k - 1]
    <3> DEFINE q == <<1>>
    <3>1. q \in Seq(Nat) /\ Len(q) = 1 /\ q[1] = 1
      OBVIOUS
    <3> HIDE DEF q, got
    <3>2. /\ q \o got \in Seq(Nat) /\ Len(q \o got) = 1 + Len(got)
          /\ \A k \in 1 .. 1 + Len(got) :
               (q \o got)[k] = IF k <= 1 THEN q[k] ELSE got[k - 1]
      <4>1. /\ q \o got \in Seq(Nat) /\ Len(q \o got) = Len(q) + Len(got)
            /\ \A k \in 1 .. Len(q) + Len(got) :
                 (q \o got)[k] = IF k <= Len(q) THEN q[k] ELSE got[k - Len(q)]
        BY <1>1, <3>1, ConcatProperties
      <4> QED BY <3>1, <4>1
    <3>3. \A k \in 1 .. 1 + Len(got) : k <= 1 => k = 1
      OBVIOUS
    <3> QED BY <3>1, <3>2, <3>3 DEF q, got
  <2> HIDE DEF t
  <2>4. ASSUME NEW k \in 1 .. m PROVE t[k] = u[k]
    <3>1. k \in 1 .. 1 + len
      <4> HIDE DEF len
      <4> QED BY <1>1, <2>2
    <3>2. CASE k <= 1
      <4>1. k = 1
        BY <3>2
      <4> QED BY <1>8, <2>3, <3>1, <4>1
    <3>3. CASE ~(k <= 1)
      <4>1. k - 1 \in 1 .. len /\ (k - 1) + 1 = k
        <5> HIDE DEF len
        <5> QED BY <1>1, <3>1, <3>3
      <4>2. got[k - 1] = (k - 1) + 1
        BY <1>3, <2>1, <4>1
      <4> QED BY <1>8, <2>3, <3>1, <3>3, <4>1, <4>2
    <3> QED BY <3>2, <3>3
  <2>5. Len(t) = Len(u)
    <3> HIDE DEF len
    <3> QED BY <1>1, <1>8, <2>2, <2>3
  <2>6. t = u
    BY <1>8, <2>3, <2>4, <2>5, SeqEqual
  <2> QED BY <1>7, <2>2, <2>6 DEF u, m
<1>11. CASE got = << >> /\ ~(g.fin /\ HostLen = 1)
  <2>1. GivenTo(g) = got /\ m = 0
    BY <1>4, <1>6, <1>11
  <2>2. got = u
    <3>1. Len(got) = 0 /\ Len(u) = 0 /\ got \in Seq(Nat)
      BY <1>1, <1>8, <1>11, <2>1
    <3> HIDE DEF got
    <3> QED BY <1>8, <3>1, SeqEqual
  <2> QED BY <1>7, <2>1, <2>2 DEF u, m
<1> QED BY <1>2, <1>9, <1>10, <1>11

(* More given to the guest is a step of the abstract stream. *)
LEMMA GivenStep ==
  ASSUME NEW i \in Nat, NEW o \in Nat, o <= i, i <= o + 1, host.read \in Nat,
         guest \in Guest, HasRead(guest, i, o, host), guest.rcv # 0,
         NEW g \in Guest, HasRead(g, i, o, host), g.rcv # 0,
         Len(guest.got) <= Len(g.got), guest.fin => g.fin /\ g.got = guest.got,
         guest' = g, UNCHANGED host
  PROVE  StreamStep
<1> DEFINE m == GivenLen(guest, i, o)
           n == GivenLen(g, i, o)
<1>1. /\ GivenTo(guest) = UpTo(m) /\ m \in Nat
      /\ GivenTo(g) = UpTo(n) /\ n \in Nat /\ n <= host.read
      /\ g.fin => n = HostLen
  BY GivenIs
<1>2. guest.fin \in BOOLEAN /\ g.fin \in BOOLEAN
  BY DEF Guest
<1>3. GivenTo(guest)' = GivenTo(g) /\ host' = host /\ guest'.fin = g.fin
      /\ guest'.rcv # 0
  BY DEF GivenTo, FirstLost
<1>4. CASE guest.fin
  <2>1. GivenTo(g) = GivenTo(guest) /\ g.fin = guest.fin
    BY <1>2, <1>4 DEF GivenTo, FirstLost
  <2> QED BY <1>3, <2>1 DEF StreamStep, ToGuest!stream
<1>5. CASE ~guest.fin
  <2>1. m <= n
    <3> DEFINE a == Len(guest.got)
               b == Len(g.got)
               lost == i - o
    <3>1. a \in Nat /\ b \in Nat /\ lost \in Nat /\ a <= b
      BY DEF Guest
    <3>2. g.got = << >> => guest.got = << >>
      <4>1. g.got = << >> => b = 0
        OBVIOUS
      <4>2. guest.got # << >> => a > 0
        BY NonEmpty DEF Guest
      <4> HIDE DEF a, b
      <4> QED BY <3>1, <4>1, <4>2
    <3>3. CASE guest.got # << >>
      <4>1. m = a + lost /\ n = b + lost
        BY <3>2, <3>3 DEF GivenLen
      <4> HIDE DEF a, b, m, n, lost
      <4> QED BY <3>1, <4>1
    <3>4. CASE guest.got = << >>
      <4>1. m = 0
        BY <1>5, <3>4 DEF GivenLen
      <4> HIDE DEF m, n
      <4> QED BY <1>1, <4>1
    <3> QED BY <3>3, <3>4
  <2> HIDE DEF m, n
  <2>2. UpTo(n) = UpTo(m) \o [k \in 1 .. n - m |-> m + k] /\ Len(UpTo(m)) = m
        /\ Len(UpTo(n)) = n
    <3>1. Len(UpTo(m)) = m /\ Len(UpTo(n)) = n
      BY <1>1 DEF UpTo
    <3> QED BY <1>1, <2>1, <3>1, UpToGrows
  <2>3. \E k \in 0 .. host.read - Len(GivenTo(guest)) :
          GivenTo(g) = GivenTo(guest) \o [j \in 1 .. k |-> Len(GivenTo(guest)) + j]
    <3>1. n - m \in 0 .. host.read - m
      <4> DEFINE r == host.read
      <4>1. r \in Nat /\ n <= r
        BY <1>1
      <4> HIDE DEF r
      <4>2. n - m \in 0 .. r - m
        BY <1>1, <2>1, <4>1
      <4> QED BY <4>2 DEF r
    <3> QED BY <1>1, <2>2, <3>1
  <2>4. g.fin \in {FALSE, Len(GivenTo(g)) = HostLen}
    BY <1>1, <1>2, <2>2
  <2>5. ToGuest!Deliver
    BY <1>3, <1>5, <2>3, <2>4 DEF ToGuest!Deliver
  <2> QED BY <2>5 DEF StreamStep, ToGuest!Next
<1> QED BY <1>4, <1>5

(* A segment taken by a guest whose connection is open. *)
LEMMA GuestTakes ==
  ASSUME NEW o \in Nat, LInv(o), guest.st = "open", NEW s \in Sent(View(guest, iss, o), host),
         NEW g, g = Received(s)
  PROVE  /\ Peer(g, iss, o, host) /\ Grows(View(guest, iss, o), View(g, iss, o))
         /\ g.nxt = guest.nxt /\ g.rcv # 0
         /\ Len(guest.got) <= Len(g.got)
         /\ guest.fin => g.fin /\ g.got = guest.got
<1>1. /\ Peer(guest, iss, o, host) /\ guest \in Guest /\ guest.rcv # 0 /\ guest.rcv \in Nat
      /\ guest.unread \in Nat /\ guest.unread <= GuestBuf /\ GuestBuf \in Nat
      /\ guest.fin \in BOOLEAN /\ ViewOK(View(guest, iss, o))
      /\ Grows(View(guest, iss, o), View(guest, iss, o))
  BY GuestFacts
<1>2. s \in Segment /\ iss \in Nat
  BY LinkFacts DEF Sent
<1>3. iss + 1 <= guest.rcv /\ host.ready /\ guest.irs = iss
  BY <1>1 DEF Peer
<1> DEFINE k == Skipped(guest, s)
           n == Gain(guest, s)
           e == LastTaken(guest, s)
<1>4. CASE g = Noted(guest, s)
  <2>1. /\ g \in Guest /\ g.st = guest.st /\ g.irs = guest.irs /\ g.rcv = guest.rcv /\ g.nxt = guest.nxt
        /\ g.unread = guest.unread /\ g.got = guest.got /\ g.fin = guest.fin
    BY <1>1, <1>2, <1>4, NotedFields
  <2>2. View(g, iss, o) = View(guest, iss, o)
    BY <2>1 DEF View
  <2>3. Peer(g, iss, o, host)
    <3>1. HasRead(g, iss, o, host)
      <4>1. HasRead(guest, iss, o, host)
        BY <1>1, <3>1 DEF Peer
      <4> QED BY <2>1, <4>1 DEF HasRead
    <3> QED BY <1>1, <2>1, <3>1 DEF Peer
  <2>4. Len(guest.got) <= Len(g.got)
    <3> DEFINE a == Len(guest.got)
    <3>1. a \in Nat /\ Len(g.got) = a
      BY <1>1, <2>1 DEF Guest
    <3> HIDE DEF a
    <3>2. a <= Len(g.got)
      BY <3>1
    <3> QED BY <3>2 DEF a
  <2> QED BY <1>1, <2>1, <2>2, <2>3, <2>4
<1>5. CASE /\ k \in Nat /\ n \in Nat /\ k + n <= Len(s.data)
           /\ n <= GuestBuf - guest.unread
           /\ g \in Guest /\ g.st = guest.st /\ g.irs = guest.irs /\ g.nxt = guest.nxt
           /\ g.got = guest.got \o SubSeq(s.data, k + 1, k + n)
           /\ g.unread = guest.unread + n
           /\ g.rcv = guest.rcv + n + (IF e THEN 1 ELSE 0)
           /\ g.fin = (guest.fin \/ e)
  <2> DEFINE rcv  == guest.rcv
             u    == guest.unread
             len  == Len(guest.got)
             read == host.read
             lost == iss - o
             x    == g.rcv
             y    == g.unread
             one  == IF e THEN 1 ELSE 0
             new  == SubSeq(s.data, k + 1, k + n)
  <2>1. /\ rcv \in Nat /\ rcv # 0 /\ u \in Nat /\ u <= GuestBuf /\ GuestBuf \in Nat
        /\ n \in Nat /\ n <= GuestBuf - u /\ one \in 0 .. 1 /\ x = rcv + n + one
        /\ y = u + n /\ iss + 1 <= rcv /\ iss \in Nat
    BY <1>1, <1>2, <1>3, <1>5
  <2>2. e => k + n = Len(s.data) /\ ~guest.fin
    BY DEF LastTaken
  <2>3. k = guest.rcv - s.seq
    BY DEF Skipped
  <2>4. /\ x # 0 /\ rcv <= x /\ iss + 1 <= x
        /\ (rcv + GuestBuf) - u <= (x + GuestBuf) - y
    <3> HIDE DEF rcv, u, x, y, n, one
    <3> QED BY <2>1
  <2>5. /\ guest.fin => n = 0
        /\ Len(g.got) = len + n /\ len \in Nat
        /\ g.got # << >> => len + n + lost <= read
        /\ \A i \in 1 .. len + n : g.got[i] = i + lost
        /\ e => n = 0 /\ read = HostLen /\ (HostLen = 0 \/ len + lost = HostLen)
        /\ n = 0 => g.got = guest.got
    <3>1. k \in Nat /\ n \in Nat /\ k + n <= Len(s.data) /\ g.got = guest.got \o new
      BY <1>5
    <3>2. guest.rcv # 0
      BY <1>1
    <3> HIDE DEF k, n
    <3>3. /\ guest.fin => n = 0
          /\ Len(guest.got \o new) = len + n /\ len \in Nat
          /\ guest.got \o new # << >> => len + n + lost <= read
          /\ \A i \in 1 .. len + n : (guest.got \o new)[i] = i + lost
          /\ e /\ k + n = Len(s.data) =>
               n = 0 /\ read = HostLen /\ (HostLen = 0 \/ len + lost = HostLen)
          /\ n = 0 => guest.got \o new = guest.got
      <4>1. NextOctets(s, k, n, o)
        BY <2>3, <3>1, <3>2, GainedOctets
      <4> QED BY <4>1 DEF NextOctets
    <3> HIDE DEF new, e
    <3> QED BY <2>2, <3>1, <3>3
  <2> HIDE DEF n, e, k
  <2>6. HasRead(g, iss, o, host)
    <3>1. HasRead(guest, iss, o, host)
      BY <1>1, <2>6 DEF Peer
    <3> DEFINE old == IF guest.fin THEN 1 ELSE 0
    <3>2. rcv = iss + 1 + len + old /\ old \in 0 .. 1
          /\ (guest.fin => read = HostLen /\ (HostLen = 0 \/ len + lost = HostLen))
      BY <1>1, <3>1 DEF HasRead
    <3>3. (IF g.fin THEN 1 ELSE 0) = old + one
      <4>1. g.fin = (guest.fin \/ e) /\ (e => ~guest.fin)
        BY <1>5, <2>2
      <4>2. CASE e
        <5>1. g.fin /\ ~guest.fin
          BY <4>1, <4>2
        <5> QED BY <4>2, <5>1
      <4>3. CASE ~e
        <5>1. g.fin <=> guest.fin
          BY <4>1, <4>3
        <5> QED BY <4>3, <5>1
      <4> QED BY <4>2, <4>3
    <3>4. x = iss + 1 + (len + n) + (old + one)
      <4>1. len \in Nat
        BY <2>5
      <4> HIDE DEF rcv, len, x, old, one
      <4> QED BY <2>1, <3>2, <4>1
    <3>5. g.fin => n = 0 /\ read = HostLen /\ (HostLen = 0 \/ len + lost = HostLen)
      BY <1>5, <2>5, <3>2
    <3>6. g.fin => HostLen = 0 \/ Len(g.got) + lost = HostLen
      <4>1. Len(g.got) = len + n /\ len \in Nat
        BY <2>5
      <4> HIDE DEF len
      <4> QED BY <3>5, <4>1
    <3>7. g.rcv = iss + 1 + Len(g.got) + (IF g.fin THEN 1 ELSE 0)
      BY <2>5, <3>3, <3>4
    <3>8. g.got # << >> => Len(g.got) + (iss - o) <= host.read
      BY <2>5
    <3>9. \A i \in 1 .. Len(g.got) : g.got[i] = i + (iss - o)
      BY <2>5
    <3>10. g.fin => host.read = HostLen /\ (HostLen = 0 \/ Len(g.got) + (iss - o) = HostLen)
      BY <3>5, <3>6
    <3> QED BY <3>7, <3>8, <3>9, <3>10 DEF HasRead
  <2>7. Peer(g, iss, o, host)
    <3>1. g.nxt <= FinSeq + 1 /\ g.st = "open" /\ g.rcv # 0 /\ iss + 1 <= g.rcv /\ g \in Guest
          /\ g.irs = iss
      BY <1>3, <1>1, <1>5, <2>4 DEF Peer
    <3> QED BY <1>3, <2>6, <3>1 DEF Peer
  <2>8. Grows(View(guest, iss, o), View(g, iss, o))
    <3> DEFINE p == View(guest, iss, o)
               r == View(g, iss, o)
    <3>1. /\ p.iss = iss /\ p.org = o /\ p.rcv = rcv /\ p.fin = guest.fin
          /\ p.done <=> guest.nxt = FinSeq + 1
          /\ p.edge = rcv + GuestBuf - u
      BY <1>1, <1>2, ViewFields
    <3>2. /\ r.iss = iss /\ r.org = o /\ r.rcv = x /\ r.fin = g.fin
          /\ r.done <=> g.nxt = FinSeq + 1
          /\ r.edge = x + GuestBuf - y
      <4>1. g \in Guest /\ g.rcv # 0
        BY <1>5, <2>4
      <4> HIDE DEF p
      <4> QED BY <1>2, <4>1, ViewFields
    <3>3. (guest.fin => g.fin) /\ g.nxt = guest.nxt
      BY <1>5
    <3> HIDE DEF p, r
    <3>4. p.edge <= r.edge /\ p.rcv <= r.rcv
      <4>1. rcv <= x /\ (rcv + GuestBuf) - u <= (x + GuestBuf) - y
        BY <2>4
      <4> HIDE DEF x, y, rcv, u
      <4> QED BY <2>1, <3>1, <3>2, <4>1
    <3>5. (p.fin => r.fin) /\ (p.done => r.done) /\ r.iss = p.iss /\ r.org = p.org
      BY <3>1, <3>2, <3>3, Zenon
    <3> QED BY <3>4, <3>5, Zenon DEF Grows, p, r
  <2>9. Len(guest.got) <= Len(g.got) /\ (guest.fin => g.fin /\ g.got = guest.got)
    <3>1. Len(g.got) = len + n /\ len \in Nat /\ n \in Nat
      BY <2>1, <2>5
    <3>2. guest.fin => g.fin /\ g.got = guest.got
      BY <1>5, <2>5
    <3> HIDE DEF len
    <3>3. len <= Len(g.got)
      BY <3>1
    <3> QED BY <3>2, <3>3 DEF len
  <2> QED BY <1>5, <2>4, <2>7, <2>8, <2>9
<1> QED BY <1>1, <1>2, <1>4, <1>5, ReceivedPart

(* The guest at the end of the line: what a datagram does to it. *)
LEMMA GuestReceiveLinked ==
  ASSUME NEW o \in Nat, LInv(o), IInv', GuestReceive, InStep'
  PROVE  LInv(o)' /\ StreamStep
<1> DEFINE s == Head(out)
<1>1. /\ out # << >> /\ out' = Tail(out) /\ UNCHANGED <<flow, host, iss>>
      /\ ReceiveReset(s) \/ ReceiveClosed(s) \/ ReceiveSynAck(s) \/ ReceiveOpen(s)
  BY DEF GuestReceive, net_output
<1>2. s \in Sent(View(guest, iss, o), host) /\ out' \in Seq(Sent(View(guest, iss, o), host))
  BY <1>1, RingSent
<1> HIDE DEF s
<1>3. /\ Peer(guest, iss, o, host) /\ guest \in Guest /\ guest.nxt \in Nat
      /\ ViewOK(View(guest, iss, o)) /\ Grows(View(guest, iss, o), View(guest, iss, o))
      /\ GuestBuf \in Nat
  BY GuestFacts
<1>4. s \in Segment /\ s.ack \in Nat /\ s.wnd \in Nat /\ s.seq \in Nat
  BY <1>2 DEF Sent, Segment
<1>5. {"ACK"} \in SUBSET Flags /\ {"RST"} \in SUBSET Flags /\ << >> \in Seq(Nat)
      /\ 1 \in Nat
  BY DEF Flags
<1>6. ASSUME NEW g, guest' = g, UNCHANGED line, Peer(g, iss, o, host),
             Grows(View(guest, iss, o), View(g, iss, o))
      PROVE  LInv(o)'
  <2>1. line \in Seq(Segment) /\ Lined(View(guest, iss, o), flow, line)
    BY DEF LInv
  <2>2. ViewOK(View(g, iss, o))
    <3>1. host.read \in Nat /\ host.read <= HostLen /\ o <= iss /\ iss <= o + 1 /\ iss \in Nat
      BY LinkFacts
    <3> QED BY <1>6, <3>1, ViewGood
  <2>3. line' \in Seq(Segment) /\ Lined(View(g, iss, o), flow, line') /\ line' = line
    BY <1>3, <1>6, <2>1, <2>2, LinedGrows
  <2> QED BY <1>1, <1>2, <1>3, <1>6, <2>3, MovedLinked
<1>7. CASE ReceiveReset(s)
  <2> DEFINE g == [guest EXCEPT !.st = "dead"]
  <2>1. guest' = g /\ UNCHANGED line
    BY <1>7 DEF ReceiveReset
  <2>2. /\ Peer(g, iss, o, host) /\ Grows(View(guest, iss, o), View(g, iss, o))
        /\ g.rcv = guest.rcv /\ g.got = guest.got /\ g.fin = guest.fin
    BY DeadPeer
  <2> HIDE DEF g
  <2>3. LInv(o)'
    BY <1>6, <2>1, <2>2
  <2> QED BY <1>1, <2>1, <2>2, <2>3, NothingRead
<1>8. CASE ReceiveClosed(s)
  <2>1. guest' = guest /\ line' = Append(line, GuestSegment(guest, {"RST"}, s.ack, << >>))
    BY <1>8 DEF ReceiveClosed, Reply
  <2>2. LInv(o)'
    BY <1>1, <1>2, <1>3, <1>4, <1>5, <2>1, GuestSpoke
  <2> QED BY <1>1, <2>1, <2>2, NothingRead
<1>9. CASE ReceiveSynAck(s) /\ "SYN" \notin s.flags
  <2>1. guest' = guest /\ UNCHANGED line
    BY <1>9 DEF ReceiveSynAck
  <2>2. LInv(o)'
    BY <1>3, <1>6, <2>1
  <2> QED BY <1>1, <2>1, <2>2, NothingRead
<1>10. CASE ReceiveSynAck(s) /\ "SYN" \in s.flags
  <2> DEFINE rcv == s.seq + 1
             z   == [guest EXCEPT !.st = "open"]
             a   == [z EXCEPT !.irs = s.seq]
             b   == [a EXCEPT !.rcv = rcv]
             c   == [b EXCEPT !.una = 1]
             g   == [c EXCEPT !.wnd = s.wnd]
             p   == View(guest, iss, o)
             r   == View(g, iss, o)
  <2>1. /\ guest.st = "syn_sent"
        /\ guest' = [guest EXCEPT !.st = "open", !.irs = s.seq, !.rcv = s.seq + 1,
                                     !.una = 1, !.wnd = s.wnd]
        /\ line' = Append(line, GuestSegment(guest', {"ACK"}, 1, << >>))
    BY <1>10 DEF ReceiveSynAck, Reply
  <2>2. guest' = g
    BY <1>3, <2>1 DEF Guest
  <2>3. s.seq = iss /\ host.ready /\ iss \in Nat /\ host.read \in Nat
        /\ host.read <= HostLen
    <3>1. View(guest, iss, o).iss = iss /\ iss \in Nat /\ host.read \in Nat
          /\ host.read <= HostLen
      BY LinkFacts
    <3>2. s.seq <= iss /\ (s.seq = iss => host.ready)
      BY <1>2, <1>10, <3>1 DEF Sent
    <3>3. guest'.rcv = s.seq + 1 /\ guest'.irs = s.seq /\ iss' = iss
      BY <1>1, <1>3, <2>1 DEF Guest
    <3>4. s.seq >= iss
      BY <1>4, <3>3 DEF InStep
    <3>5. s.seq = iss
      <4> DEFINE q == s.seq
      <4>1. q \in Nat /\ q <= iss /\ q >= iss
        BY <1>4, <3>2, <3>4
      <4> HIDE DEF q
      <4>2. q = iss
        BY <3>1, <4>1
      <4> QED BY <4>2 DEF q
    <3> QED BY <3>1, <3>2, <3>5
  <2>4. rcv = iss + 1 /\ rcv \in Nat /\ rcv # 0 /\ 1 \in Nat /\ s.wnd \in Nat
    BY <1>4, <2>3
  <2> HIDE DEF rcv
  <2>5. /\ z \in Guest /\ z.st = "open" /\ z.nxt = guest.nxt /\ z.got = guest.got
         /\ z.fin = guest.fin /\ z.unread = guest.unread
    BY <1>3 DEF Guest
  <2> HIDE DEF z
  <2>6. /\ a \in Guest /\ a.st = "open" /\ a.nxt = guest.nxt /\ a.got = guest.got
        /\ a.fin = guest.fin /\ a.unread = guest.unread /\ a.irs = s.seq
    BY <1>4, <2>5 DEF Guest
  <2> HIDE DEF a
  <2>7. /\ b \in Guest /\ b.st = "open" /\ b.nxt = a.nxt /\ b.got = a.got
        /\ b.fin = a.fin /\ b.unread = a.unread /\ b.rcv = rcv /\ b.irs = a.irs
    BY <2>4, <2>6 DEF Guest
  <2> HIDE DEF b
  <2>8. /\ c \in Guest /\ c.st = "open" /\ c.nxt = b.nxt /\ c.got = b.got
        /\ c.fin = b.fin /\ c.unread = b.unread /\ c.rcv = b.rcv /\ c.irs = b.irs
    BY <2>4, <2>7 DEF Guest
  <2> HIDE DEF c
  <2>9. /\ g \in Guest /\ g.st = "open" /\ g.nxt = c.nxt /\ g.got = c.got
        /\ g.fin = c.fin /\ g.unread = c.unread /\ g.rcv = c.rcv /\ g.irs = c.irs
    BY <2>4, <2>8 DEF Guest
  <2> HIDE DEF g
  <2>10. /\ guest.rcv = 0 /\ guest.got = << >> /\ ~guest.fin /\ guest.unread = 0
        /\ guest.nxt <= FinSeq /\ guest.nxt <= FinSeq + 1
    BY <1>3, <2>1 DEF Peer
  <2>11. /\ g.rcv = rcv /\ g.got = << >> /\ ~g.fin /\ g.unread = 0 /\ g.nxt = guest.nxt
         /\ g.irs = iss
    BY <2>3, <2>6, <2>7, <2>8, <2>9, <2>10
  <2>12. Peer(g, iss, o, host)
    <3>1. HasRead(g, iss, o, host)
      <4>1. Len(g.got) = 0
        BY <2>11
      <4>2. rcv = iss + 1 + 0 + 0
        BY <2>3, <2>4
      <4>3. \A i \in 1 .. Len(g.got) : g.got[i] = i + (iss - o)
        BY <4>1
      <4> QED BY <2>11, <4>1, <4>2, <4>3 DEF HasRead
    <3>2. iss + 1 <= rcv
      BY <2>3, <2>4
    <3> QED BY <2>3, <2>4, <2>9, <2>10, <2>11, <3>1, <3>2 DEF Peer
  <2>13. Grows(p, r)
    <3>1. /\ p.iss = iss /\ p.org = o /\ p.rcv = 0 /\ p.edge = iss + 1 + GuestBuf /\ p.fin = guest.fin
          /\ p.done <=> guest.nxt = FinSeq + 1
      BY <1>3, <2>3, <2>10, ViewFields
    <3>2. /\ r.iss = iss /\ r.org = o /\ r.rcv = rcv /\ r.edge = rcv + GuestBuf - 0 /\ r.fin = g.fin
          /\ r.done <=> guest.nxt = FinSeq + 1
      BY <2>3, <2>4, <2>9, <2>11, ViewFields
    <3> HIDE DEF p, r
    <3>3. p.edge <= r.edge /\ p.rcv <= r.rcv
      BY <1>3, <2>3, <2>4, <3>1, <3>2
    <3>4. (p.fin => r.fin) /\ (p.done => r.done) /\ r.iss = p.iss /\ r.org = p.org
      BY <2>10, <3>1, <3>2, Zenon
    <3> QED BY <3>3, <3>4, Zenon DEF Grows, p, r
  <2>14. line' = Append(line, GuestSegment(g, {"ACK"}, 1, << >>))
    BY <2>1, <2>2
  <2>15. LInv(o)'
    BY <1>1, <1>2, <1>3, <1>5, <2>2, <2>4, <2>11, <2>12, <2>13, <2>14, GuestSpoke
  <2>16. StreamStep
    <3> DEFINE b0 == host.read
    <3>1. guest'.rcv # 0 /\ guest'.fin = guest.fin /\ guest'.got = guest.got
      BY <2>2, <2>4, <2>6, <2>7, <2>8, <2>9, <2>11, <2>5
    <3>2. b0 = 0 \/ b0 \in 0 + 1 .. HostLen
      <4>1. b0 \in Nat /\ b0 <= HostLen
        BY <2>3
      <4> HIDE DEF b0
      <4> QED BY <4>1, SizesAssumption
    <3> QED BY <1>1, <2>10, <3>1, <3>2 DEF StreamStep, ToGuest!Next, ToGuest!Take,
             ToGuest!stream, GivenTo, FirstLost
  <2> QED BY <2>15, <2>16
<1>11. CASE ReceiveOpen(s)
  <2>1. guest.st = "open" /\ guest.rcv # 0
    BY <1>3, <1>11 DEF ReceiveOpen, Peer
  <2>2. CASE "SYN" \in s.flags \/ s.seq > guest.rcv + GuestBuf
    <3>1. guest' = guest
          /\ line' = Append(line, GuestSegment(guest, {"ACK"}, guest.nxt, << >>))
      BY <1>11, <2>2 DEF ReceiveOpen, Reply
    <3>2. LInv(o)'
      BY <1>1, <1>2, <1>3, <1>5, <2>1, <3>1, GuestSpoke
    <3> QED BY <1>1, <3>1, <3>2, NothingRead
  <2>3. CASE ~("SYN" \in s.flags \/ s.seq > guest.rcv + GuestBuf)
    <3> DEFINE g == Received(s)
    <3>1. /\ guest' = g
          /\ line' = IF s.data # << >> \/ "FIN" \in s.flags
                     THEN Append(line, GuestSegment(guest', {"ACK"}, guest.nxt, << >>))
                     ELSE line
      BY <1>11, <2>3 DEF ReceiveOpen, Reply
    <3>2. /\ Peer(g, iss, o, host) /\ Grows(View(guest, iss, o), View(g, iss, o))
          /\ g.nxt = guest.nxt /\ g.rcv # 0
          /\ Len(guest.got) <= Len(g.got)
          /\ guest.fin => g.fin /\ g.got = guest.got
      BY <1>2, <2>1, GuestTakes
    <3> HIDE DEF g
    <3>3. StreamStep
      <4>1. /\ HasRead(guest, iss, o, host) /\ HasRead(g, iss, o, host) /\ g \in Guest
            /\ iss \in Nat /\ o <= iss /\ iss <= o + 1 /\ host.read \in Nat
        BY <1>3, <3>2, LinkFacts DEF Peer
      <4> QED BY <1>1, <1>3, <2>1, <3>1, <3>2, <4>1, GivenStep
    <3>4. CASE s.data # << >> \/ "FIN" \in s.flags
      <4>1. line' = Append(line, GuestSegment(g, {"ACK"}, guest.nxt, << >>))
        BY <3>1, <3>4
      <4>2. LInv(o)'
        BY <1>1, <1>2, <1>3, <1>5, <3>1, <3>2, <4>1, GuestSpoke
      <4> QED BY <3>3, <4>2
    <3>5. CASE ~(s.data # << >> \/ "FIN" \in s.flags)
      <4>1. line' = line
        BY <3>1, <3>5
      <4>2. LInv(o)'
        BY <1>6, <3>1, <3>2, <4>1
      <4> QED BY <3>3, <4>2
    <3> QED BY <3>4, <3>5
  <2> QED BY <2>2, <2>3
<1> QED BY <1>1, <1>7, <1>8, <1>9, <1>10, <1>11

---------------------------------------------------------------------------
(* The invariant of the link is inductive.                                  *)

(* What holds of the guest and the line whether or not the slot is of the
   guest's connection.                                                      *)
GuestTyped(g) ==
  /\ g \in Guest /\ g.nxt <= FinSeq + 1
  /\ g.st \in {"idle", "syn_sent"} => g.rcv = 0
  /\ g.st = "open" => g.rcv # 0

LTyped == IInv /\ GuestTyped(guest) /\ line \in Seq(Segment)

Whole == LTyped /\ (InStep => \E o \in Nat : LInv(o))

(* Every step of the link is an entry point of the endpoint or leaves it. *)
LEMMA LinkEntry ==
  ASSUME LTyped, [LinkNext]_linkVars
  PROVE  Entry
<1>1. CASE GuestSyn \/ GuestSend \/ GuestResend \/ GuestRead \/ GuestAbort \/ LoseInput
  BY <1>1 DEF GuestSyn, GuestSend, GuestResend, GuestRead, GuestAbort, LoseInput, Entry
<1>2. CASE GuestReceive \/ LoseOutput
  BY <1>2 DEF GuestReceive, LoseOutput, Entry
<1>3. CASE Arrive
  <2>1. line # << >> /\ net_tcp_input(Head(line))
    BY <1>3 DEF Arrive
  <2>2. Head(line) \in Segment
    BY <2>1, HeadTailProperties DEF LTyped
  <2> QED BY <2>1, <2>2 DEF Entry
<1>4. CASE \E due \in BOOLEAN : NetTick(due)
  BY <1>4 DEF NetTick, Entry
<1>5. CASE UNCHANGED linkVars
  BY <1>5 DEF linkVars, vars, Entry
<1> QED BY <1>1, <1>2, <1>3, <1>4, <1>5 DEF LinkNext

LEMMA EntryTyped ==
  ASSUME LTyped, [LinkNext]_linkVars
  PROVE  IInv' /\ iss <= iss'
<1>1. IInv /\ Entry
  BY LinkEntry DEF LTyped
<1>2. PICK d : Stepped(Here, d) /\ Become(d)
  BY <1>1, EntryStepped
<1>3. iss' \in Nat
  BY <1>1, EntryStepped
<1>4. Here' = [f |-> d.f, out |-> d.out, h |-> d.h] /\ flow' = d.f
  BY <1>2 DEF Become, Here
<1>5. Good(Here') /\ Alive(flow')
  BY <1>2, <1>4 DEF Stepped, Good
<1>6. iss' = iss \/ iss' = iss + ISS_STRIDE
  BY <1>1 DEF Entry, net_tcp_input, InputSyn, InputUnknown, InputReset, InputSynAgain,
          InputNoAck, InputAck, Tick, net_output, vars
<1>7. iss <= iss'
  <2>1. iss \in Nat /\ ISS_STRIDE \in Nat
    BY <1>1, SizesAssumption DEF IInv
  <2> QED BY <1>6, <2>1
<1> QED BY <1>3, <1>5, <1>7 DEF IInv

(* What the guest says is a segment. *)
LEMMA SaidTyped ==
  ASSUME line \in Seq(Segment), NEW g \in Guest, NEW flags \in SUBSET Flags,
         NEW seq \in Nat, NEW data \in Seq(Nat)
  PROVE  Append(line, GuestSegment(g, flags, seq, data)) \in Seq(Segment)
<1> DEFINE s == GuestSegment(g, flags, seq, data)
<1>1. GuestBuf - g.unread \in Nat /\ g.rcv \in Nat
  <2> DEFINE u == g.unread
  <2>1. u \in 0 .. GuestBuf /\ GuestBuf \in Nat /\ g.rcv \in Nat
    BY GuestAssumption DEF Guest
  <2> HIDE DEF u
  <2>2. GuestBuf - u \in Nat
    BY <2>1
  <2> QED BY <2>1, <2>2 DEF u
<1>2. s \in Segment
  BY <1>1 DEF GuestSegment, Segment
<1> HIDE DEF s
<1>3. Append(line, s) \in Seq(Segment)
  BY <1>2, AppendProperties
<1> QED BY <1>3 DEF s

LEMMA RangeSaid ==
  ASSUME line \in Seq(Segment), NEW g \in Guest, NEW from \in Nat, NEW to \in Nat,
         from < to, to <= FinSeq + 1
  PROVE  Append(line, GuestRange(g, from, to)) \in Seq(Segment)
<1> DEFINE flags == {"ACK"} \cup (IF to > FinSeq THEN {"FIN"} ELSE {})
           data  == [i \in 1 .. Least(to, FinSeq) - from |-> from + i - 1]
<1>1. flags \in SUBSET Flags
  BY DEF Flags
<1>2. data \in Seq(Nat)
  BY RangeTyped
<1>3. GuestRange(g, from, to) = GuestSegment(g, flags, from, data)
  BY DEF GuestRange
<1> HIDE DEF flags, data
<1> QED BY <1>1, <1>2, <1>3, SaidTyped

(* A guest that has opened keeps to the connection it opened. *)
StaysOpen(g) == guest.rcv # 0 => g.rcv # 0 /\ g.irs = guest.irs

LEMMA DeadTyped ==
  ASSUME GuestTyped(guest), NEW g, g = [guest EXCEPT !.st = "dead"]
  PROVE  GuestTyped(g) /\ StaysOpen(g) /\ g.rcv = guest.rcv /\ g.unread = guest.unread
BY DEF GuestTyped, Guest, StaysOpen

(* What a datagram does to the guest. *)
LEMMA ReceiveTyped ==
  ASSUME LTyped, GuestReceive
  PROVE  GuestTyped(guest') /\ line' \in Seq(Segment) /\ StaysOpen(guest')
<1> DEFINE s == Head(out)
<1>1. /\ out # << >>
      /\ ReceiveReset(s) \/ ReceiveClosed(s) \/ ReceiveSynAck(s) \/ ReceiveOpen(s)
  BY DEF GuestReceive, net_output
<1>2. s \in Segment /\ s.ack \in Nat /\ s.wnd \in Nat /\ s.seq \in Nat
  <2>1. out \in Seq(Segment)
    BY DEF LTyped, IInv, Good, RingOK, Here
  <2>2. s \in Segment
    BY <1>1, <2>1, HeadTailProperties
  <2> QED BY <2>2 DEF Segment
<1> HIDE DEF s
<1>3. GuestTyped(guest) /\ guest \in Guest /\ guest.nxt \in Nat /\ line \in Seq(Segment)
  BY DEF LTyped, GuestTyped, Guest
<1>4. {"ACK"} \in SUBSET Flags /\ {"RST"} \in SUBSET Flags /\ << >> \in Seq(Nat) /\ 1 \in Nat
  BY DEF Flags
<1>5. CASE ReceiveReset(s)
  BY <1>3, <1>5, DeadTyped DEF ReceiveReset
<1>6. CASE ReceiveClosed(s)
  <2>1. guest' = guest /\ line' = Append(line, GuestSegment(guest, {"RST"}, s.ack, << >>))
    BY <1>6 DEF ReceiveClosed, Reply
  <2> QED BY <1>2, <1>3, <1>4, <2>1, SaidTyped DEF StaysOpen
<1>7. CASE ReceiveSynAck(s) /\ "SYN" \notin s.flags
  BY <1>3, <1>7 DEF ReceiveSynAck, StaysOpen
<1>8. CASE ReceiveSynAck(s) /\ "SYN" \in s.flags
  <2> DEFINE rcv == s.seq + 1
             z   == [guest EXCEPT !.st = "open"]
             a   == [z EXCEPT !.irs = s.seq]
             b   == [a EXCEPT !.rcv = rcv]
             c   == [b EXCEPT !.una = 1]
             g   == [c EXCEPT !.wnd = s.wnd]
  <2>1. /\ guest.st = "syn_sent"
        /\ guest' = [guest EXCEPT !.st = "open", !.irs = s.seq, !.rcv = s.seq + 1,
                                  !.una = 1, !.wnd = s.wnd]
        /\ line' = Append(line, GuestSegment(guest', {"ACK"}, 1, << >>))
    BY <1>8 DEF ReceiveSynAck, Reply
  <2>2. guest' = g
    BY <1>3, <2>1 DEF Guest
  <2>3. rcv \in Nat /\ rcv # 0
    BY <1>2
  <2> HIDE DEF rcv
  <2>4. z \in Guest /\ z.st = "open" /\ z.nxt = guest.nxt
    BY <1>3 DEF Guest
  <2> HIDE DEF z
  <2>5. a \in Guest /\ a.st = "open" /\ a.nxt = z.nxt
    BY <1>2, <2>4 DEF Guest
  <2> HIDE DEF a
  <2>6. b \in Guest /\ b.st = "open" /\ b.nxt = a.nxt /\ b.rcv = rcv
    BY <2>3, <2>5 DEF Guest
  <2> HIDE DEF b
  <2>7. c \in Guest /\ c.st = "open" /\ c.nxt = b.nxt /\ c.rcv = rcv
    BY <1>4, <2>6 DEF Guest
  <2> HIDE DEF c
  <2>8. g \in Guest /\ g.st = "open" /\ g.nxt = c.nxt /\ g.rcv = rcv
    BY <1>2, <2>7 DEF Guest
  <2> HIDE DEF g
  <2>9. GuestTyped(g)
    BY <1>3, <2>3, <2>4, <2>5, <2>6, <2>7, <2>8 DEF GuestTyped
  <2>10. guest.rcv = 0
    BY <1>3, <2>1 DEF GuestTyped
  <2>11. line' \in Seq(Segment)
    BY <1>3, <1>4, <2>1, <2>2, <2>8, SaidTyped
  <2> QED BY <2>2, <2>9, <2>10, <2>11 DEF StaysOpen
<1>9. CASE ReceiveOpen(s)
  <2>1. guest.st = "open"
    BY <1>9 DEF ReceiveOpen
  <2>2. CASE "SYN" \in s.flags \/ s.seq > guest.rcv + GuestBuf
    <3>1. guest' = guest
          /\ line' = Append(line, GuestSegment(guest, {"ACK"}, guest.nxt, << >>))
      BY <1>9, <2>2 DEF ReceiveOpen, Reply
    <3> QED BY <1>3, <1>4, <3>1, SaidTyped DEF StaysOpen
  <2>3. CASE ~("SYN" \in s.flags \/ s.seq > guest.rcv + GuestBuf)
    <3> DEFINE g == Received(s)
    <3>1. /\ guest' = g
          /\ line' = IF s.data # << >> \/ "FIN" \in s.flags
                     THEN Append(line, GuestSegment(guest', {"ACK"}, guest.nxt, << >>))
                     ELSE line
      BY <1>9, <2>3 DEF ReceiveOpen, Reply
    <3>2. /\ g \in Guest /\ g.st = guest.st /\ g.irs = guest.irs /\ g.nxt = guest.nxt
          /\ guest.rcv # 0 => g.rcv # 0
      <4>1. CASE g = Noted(guest, s)
        BY <1>2, <1>3, <4>1, NotedFields
      <4>2. CASE g # Noted(guest, s)
        <5> DEFINE n == Gain(guest, s)
                   e == LastTaken(guest, s)
                   x == guest.rcv
        <5>1. /\ g \in Guest /\ g.st = guest.st /\ g.irs = guest.irs /\ g.nxt = guest.nxt
              /\ n \in Nat /\ g.rcv = x + n + (IF e THEN 1 ELSE 0)
          BY <1>2, <1>3, <4>2, ReceivedPart
        <5>2. x \in Nat
          BY <1>3 DEF Guest
        <5> HIDE DEF n, e, x
        <5>3. x # 0 => g.rcv # 0
          BY <5>1, <5>2
        <5> QED BY <5>1, <5>3 DEF x
      <4> QED BY <4>1, <4>2
    <3> HIDE DEF g
    <3>3. GuestTyped(g) /\ StaysOpen(g)
      BY <1>3, <2>1, <3>2 DEF GuestTyped, StaysOpen
    <3>4. line' \in Seq(Segment)
      BY <1>3, <1>4, <3>1, <3>2, SaidTyped
    <3> QED BY <3>1, <3>3, <3>4
  <2> QED BY <2>2, <2>3
<1> QED BY <1>1, <1>5, <1>6, <1>7, <1>8, <1>9

LEMMA GuestStepTyped ==
  ASSUME LTyped, [LinkNext]_linkVars
  PROVE  GuestTyped(guest') /\ line' \in Seq(Segment) /\ StaysOpen(guest')
<1>1. GuestTyped(guest) /\ guest \in Guest /\ line \in Seq(Segment)
      /\ guest.nxt \in Nat /\ guest.una \in Nat /\ guest.nxt <= FinSeq + 1
  BY DEF LTyped, GuestTyped, Guest
<1>2. FinSeq \in Nat /\ 1 <= FinSeq + 1 /\ GuestBuf \in Nat
  BY GuestAssumption DEF FinSeq
<1>3. {"SYN"} \in SUBSET Flags /\ {"ACK"} \in SUBSET Flags /\ {"RST", "ACK"} \in SUBSET Flags
      /\ << >> \in Seq(Nat) /\ 0 \in Nat
  BY DEF Flags
<1>4. CASE GuestSyn
  <2> DEFINE g == [guest EXCEPT !.st = "syn_sent", !.nxt = 1]
  <2>1. /\ guest' = g /\ guest.st \in {"idle", "syn_sent"}
        /\ line' = Append(line, GuestSegment(guest, {"SYN"}, 0, << >>))
    BY <1>4 DEF GuestSyn
  <2>2. guest.rcv = 0
    BY <1>1, <2>1 DEF GuestTyped
  <2>3. g \in Guest /\ g.st = "syn_sent" /\ g.nxt = 1 /\ g.rcv = 0
    BY <1>1, <2>2 DEF Guest
  <2> HIDE DEF g
  <2> QED BY <1>1, <1>2, <1>3, <2>1, <2>2, <2>3, SaidTyped DEF GuestTyped, StaysOpen
<1>5. CASE GuestSend
  <2>1. PICK to \in guest.nxt + 1 .. FinSeq + 1 :
          /\ guest' = [guest EXCEPT !.nxt = to]
          /\ line' = Append(line, GuestRange(guest, guest.nxt, to))
    BY <1>5 DEF GuestSend
  <2> DEFINE g    == [guest EXCEPT !.nxt = to]
             from == guest.nxt
  <2>2. to \in Nat /\ from < to /\ to <= FinSeq + 1
    <3>1. to \in from + 1 .. FinSeq + 1 /\ from \in Nat
      BY <1>1
    <3> HIDE DEF from
    <3> QED BY <1>2, <3>1
  <2>3. g \in Guest /\ g.st = guest.st /\ g.nxt = to /\ g.rcv = guest.rcv /\ g.irs = guest.irs
    BY <1>1, <2>2 DEF Guest
  <2> HIDE DEF g
  <2>4. GuestTyped(g) /\ StaysOpen(g)
    BY <1>1, <2>2, <2>3 DEF GuestTyped, StaysOpen
  <2>5. line' \in Seq(Segment)
    BY <1>1, <2>1, <2>2, RangeSaid
  <2> QED BY <2>1, <2>4, <2>5 DEF g
<1>6. CASE GuestResend
  <2>1. guest' = guest /\ guest.una < guest.nxt
        /\ line' = Append(line, GuestRange(guest, guest.una, guest.nxt))
    BY <1>6 DEF GuestResend
  <2> QED BY <1>1, <2>1, RangeSaid DEF StaysOpen
<1>7. CASE GuestRead
  <2> DEFINE g == [guest EXCEPT !.unread = 0]
  <2>1. guest' = g /\ line' = Append(line, GuestSegment(guest', {"ACK"}, guest.nxt, << >>))
    BY <1>7 DEF GuestRead
  <2>2. /\ g \in Guest /\ g.st = guest.st /\ g.nxt = guest.nxt /\ g.rcv = guest.rcv
        /\ g.irs = guest.irs
    <3>1. 0 \in 0 .. GuestBuf
      BY <1>2
    <3> QED BY <1>1, <3>1 DEF Guest
  <2> HIDE DEF g
  <2>3. GuestTyped(g) /\ StaysOpen(g)
    BY <1>1, <2>2 DEF GuestTyped, StaysOpen
  <2> QED BY <1>1, <1>3, <2>1, <2>2, <2>3, SaidTyped
<1>8. CASE GuestAbort
  <2>1. /\ guest' = [guest EXCEPT !.st = "dead"]
        /\ line' = Append(line, GuestSegment(guest, {"RST", "ACK"}, guest.nxt, << >>))
    BY <1>8 DEF GuestAbort
  <2> QED BY <1>1, <1>3, <2>1, SaidTyped, DeadTyped
<1>9. CASE GuestReceive
  BY <1>9, ReceiveTyped
<1>10. CASE LoseOutput \/ \E due \in BOOLEAN : NetTick(due)
  BY <1>1, <1>10 DEF LoseOutput, NetTick, StaysOpen
<1>11. CASE LoseInput \/ Arrive
  <2>1. guest' = guest /\ line # << >> /\ line' = Tail(line)
    BY <1>11 DEF LoseInput, Arrive
  <2>2. line' \in Seq(Segment)
    BY <1>1, <2>1, HeadTailProperties
  <2> QED BY <1>1, <2>1, <2>2 DEF StaysOpen
<1>12. CASE UNCHANGED linkVars
  BY <1>1, <1>12 DEF linkVars, StaysOpen
<1> QED BY <1>4, <1>5, <1>6, <1>7, <1>8, <1>9, <1>10, <1>11, <1>12 DEF LinkNext

LEMMA TypedStep ==
  ASSUME LTyped, [LinkNext]_linkVars
  PROVE  LTyped'
<1>1. IInv' /\ GuestTyped(guest') /\ line' \in Seq(Segment)
  BY EntryTyped, GuestStepTyped
<1>2. GuestTyped(guest)'
  BY <1>1 DEF GuestTyped
<1> QED BY <1>1, <1>2 DEF LTyped

(* A slot of a later connection is never again of the guest's: iss_walk only
   grows, and a guest that has opened takes no other SYN.                   *)
LEMMA OutOfStep ==
  ASSUME LTyped, [LinkNext]_linkVars, InStep'
  PROVE  InStep
<1> SUFFICES ASSUME guest.rcv # 0 PROVE guest.irs >= iss
  BY DEF InStep
<1>1. guest'.rcv # 0 /\ guest'.irs = guest.irs
  BY GuestStepTyped DEF StaysOpen
<1>2. guest.irs >= iss'
  BY <1>1 DEF InStep
<1> DEFINE irs == guest.irs
<1>3. irs \in Nat /\ iss \in Nat /\ iss' \in Nat /\ iss <= iss' /\ irs >= iss'
  BY <1>2, EntryTyped DEF LTyped, GuestTyped, Guest, IInv
<1> HIDE DEF irs
<1>4. irs >= iss
  BY <1>3
<1> QED BY <1>4 DEF irs

LEMMA LinkStepped ==
  ASSUME LTyped, NEW o \in Nat, LInv(o), [LinkNext]_linkVars, InStep'
  PROVE  (\E q \in Nat : LInv(q)') /\ StreamStep
<1>1. IInv'
  BY EntryTyped
<1>2. CASE GuestSyn
  BY <1>1, <1>2, GuestSynLinked
<1>3. CASE GuestSend
  BY <1>1, <1>3, GuestSendLinked
<1>4. CASE GuestResend
  BY <1>1, <1>4, GuestResendLinked
<1>5. CASE GuestRead
  BY <1>1, <1>5, GuestReadLinked
<1>6. CASE GuestAbort
  BY <1>1, <1>6, GuestAbortLinked
<1>7. CASE GuestReceive
  BY <1>1, <1>7, GuestReceiveLinked
<1>8. CASE LoseOutput
  BY <1>1, <1>8, LoseOutputLinked
<1>9. CASE LoseInput
  BY <1>1, <1>9, LoseInputLinked
<1>10. CASE Arrive
  BY <1>1, <1>10, ArriveLinked
<1>11. CASE \E due \in BOOLEAN : NetTick(due)
  BY <1>1, <1>11, NetTickLinked
<1>12. CASE UNCHANGED linkVars
  <2>1. UNCHANGED <<flow, out, host, iss, guest, line, spent>>
    BY <1>12 DEF linkVars
  <2>2. Here' = Here
    BY <2>1 DEF Here
  <2>3. LInv(o)'
    <3>1. (Linked(View(guest, iss, o), Here))' /\ (Lined(View(guest, iss, o), flow, line))'
          /\ (Peer(guest, iss, o, host))'
      BY <2>1, <2>2 DEF LInv
    <3> QED BY <1>1, <2>1, <3>1 DEF LInv
  <2> QED BY <2>1, <2>3, NothingRead
<1> QED BY <1>2, <1>3, <1>4, <1>5, <1>6, <1>7, <1>8, <1>9, <1>10, <1>11, <1>12 DEF LinkNext

LEMMA WholeStepped ==
  ASSUME Whole, [LinkNext]_linkVars
  PROVE  Whole' /\ (InStep' => StreamStep)
<1>1. LTyped'
  BY TypedStep DEF Whole
<1>2. ASSUME InStep' PROVE (\E q \in Nat : LInv(q)') /\ StreamStep
  <2>1. PICK o \in Nat : LInv(o)
    BY <1>2, OutOfStep DEF Whole
  <2> QED BY <1>2, <2>1, LinkStepped DEF Whole
<1> QED BY <1>1, <1>2 DEF Whole

LEMMA LinkInitInv == LinkInit => Whole /\ ToGuest!Init
<1> SUFFICES ASSUME LinkInit PROVE Whole /\ ToGuest!Init
  OBVIOUS
<1>1. /\ Init /\ line = << >>
      /\ guest = [st |-> "idle", irs |-> 0, rcv |-> 0, una |-> 0, nxt |-> 0, wnd |-> 0,
                  unread |-> 0, got |-> << >>, fin |-> FALSE]
  BY DEF LinkInit
<1>2. IInv
  BY <1>1, InitIInv
<1>3. /\ ~flow.used /\ iss = 0 /\ out = << >> /\ host.read = 0 /\ ~host.ready
      /\ host.fate = "none"
  BY <1>1 DEF Init, NoFlow, NewSocket, HostSocket
<1>4. /\ guest.st = "idle" /\ guest.rcv = 0 /\ guest.got = << >> /\ ~guest.fin
      /\ guest.unread = 0 /\ guest.nxt = 0 /\ guest.fin = FALSE
  BY <1>1
<1>5. FinSeq \in Nat /\ 0 <= FinSeq /\ 0 <= FinSeq + 1
  BY GuestAssumption DEF FinSeq
<1>6. guest \in Guest
  <2>1. GuestBuf \in Nat /\ << >> \in Seq(Nat)
    BY GuestAssumption
  <2>2. 0 \in 0 .. GuestBuf
    BY <2>1
  <2> QED BY <1>1, <2>1, <2>2 DEF Guest
<1>7. Peer(guest, iss, 0, host)
  <2>1. HasRead(guest, iss, 0, host)
    BY <1>4 DEF HasRead
  <2> QED BY <1>4, <1>5, <1>6, <2>1 DEF Peer
<1>8. line \in Seq(Segment) /\ Lined(View(guest, iss, 0), flow, line)
  <2>1. Len(line) = 0 /\ 1 .. 0 = {} /\ line \in Seq(Segment)
    BY <1>1
  <2> QED BY <2>1 DEF Lined
<1>9. Linked(View(guest, iss, 0), Here)
  <2>1. Here.f = flow /\ Here.h = host /\ Here.out = << >>
    BY <1>3 DEF Here
  <2>2. 0 <= HostLen
    BY SizesAssumption
  <2>3. << >> \in Seq(Sent(View(guest, iss, 0), host))
    BY EmptySeq
  <2> QED BY <1>3, <2>1, <2>2, <2>3 DEF Linked, Paced, Buffered, Ended
<1>10. ToGuest!Init
  BY <1>3, <1>4 DEF ToGuest!Init, GivenTo, FirstLost
<1>11. LTyped
  BY <1>2, <1>4, <1>5, <1>6, <1>8 DEF LTyped, GuestTyped
<1>12. LInv(0)
  <2>1. 0 <= iss /\ iss <= 0 + 1
    BY <1>3
  <2> QED BY <1>2, <1>3, <1>7, <1>8, <1>9, <2>1 DEF LInv
<1>13. \E o \in Nat : LInv(o)
  BY <1>12
<1> QED BY <1>10, <1>11, <1>13 DEF Whole

(* The endpoint and a guest that follows RFC 793 stay in step: whatever is
   lost, sent again, timed out or held back, SYNs included, the guest's view
   of the connection and the slot of tcp.c agree, for as long as the slot is
   not of a connection begun after the guest had opened its own.            *)
THEOREM LinkInvariance == LinkSpec => []Whole
<1>1. LinkInit => Whole
  BY LinkInitInv
<1>2. Whole /\ [LinkNext]_linkVars => Whole'
  BY WholeStepped
<1> QED BY <1>1, <1>2, PTL DEF LinkSpec

(* tcp_pump cuts what it sends to the window of the last acknowledgement and
   tcp_timers probes a closed one with a single octet; acknowledgements do
   not overtake each other, so the edge the code works with is never ahead
   of the guest's.                                                          *)
THEOREM WindowRespected == LinkSpec => []SentWithinWindow
<1>1. Whole => SentWithinWindow
  <2> SUFFICES ASSUME NEW o \in Nat, LInv(o), guest.st = "open",
                      NEW i \in 1 .. Len(out), out[i].data # << >>
               PROVE  out[i].seq + Len(out[i].data)
                        <= guest.rcv + (GuestBuf - guest.unread)
                           + (IF GuestBuf - guest.unread = 0 THEN 1 ELSE 0)
    BY DEF SentWithinWindow, Whole
  <2> DEFINE p    == View(guest, iss, o)
             s    == out[i]
             end  == s.seq + Len(s.data)
             rcv  == guest.rcv
             room == GuestBuf - guest.unread
  <2>1. s \in Sent(p, host)
    <3> DEFINE S == Sent(p, host)
    <3>1. out \in Seq(S)
      BY RingSent
    <3> HIDE DEF S
    <3>2. out[i] \in S
      BY <3>1, ElementOfSeq
    <3> QED BY <3>2 DEF S
  <2>2. s.seq \in Nat /\ s.data \in Seq(Nat)
    BY <2>1 DEF Sent, Segment
  <2>3. end \in Nat
    <3> DEFINE a == s.seq
               b == Len(s.data)
    <3>1. a \in Nat /\ b \in Nat
      BY <2>2
    <3> HIDE DEF a, b
    <3>2. a + b \in Nat
      BY <3>1
    <3> QED BY <3>2 DEF a, b
  <2>4. end <= p.edge \/ end <= p.rcv + 1
    BY <2>1 DEF Sent
  <2>5. /\ p.rcv = rcv /\ p.edge = rcv + GuestBuf - guest.unread
        /\ rcv \in Nat /\ guest.unread \in Nat /\ guest.unread <= GuestBuf
        /\ GuestBuf \in Nat
    BY GuestFacts, LinkFacts, ViewFields
  <2>6. room \in Nat /\ p.edge = rcv + room
    <3> DEFINE u == guest.unread
               e == p.edge
    <3>1. e = rcv + GuestBuf - u /\ rcv \in Nat /\ u \in Nat /\ u <= GuestBuf
          /\ GuestBuf \in Nat
      BY <2>5
    <3> HIDE DEF u, e, rcv
    <3>2. GuestBuf - u \in Nat /\ e = rcv + (GuestBuf - u)
      BY <3>1
    <3> QED BY <3>2 DEF u, e
  <2> HIDE DEF p, end, room, rcv
  <2>7. end <= rcv + room + (IF room = 0 THEN 1 ELSE 0)
    BY <2>3, <2>4, <2>5, <2>6
  <2> QED BY <2>7 DEF end, room, rcv
<1> QED BY <1>1, LinkInvariance, PTL

(* tcp_consume_ack drops from the front of txbuf what the guest has
   acknowledged and net_tcp_tick appends what it reads: the front of the
   buffer stays the octet after the last acknowledged one.  The ACK of a SYN
   may take the first octet with it (GuestStreamIntact); then it is gone for
   good, and the buffer and the guest's application agree on the rest.      *)
THEOREM BufferAtSndUna == LinkSpec => []TxbufAtSndUna
<1>1. Whole => TxbufAtSndUna
  <2> SUFFICES ASSUME NEW o \in Nat, LInv(o), flow.used
               PROVE  \E lost \in {0, 1} :
                        /\ \A i \in 1 .. Len(flow.txbuf) :
                             flow.txbuf[i] = flow.snd_una - iss - 1 + i + lost
                        /\ \A i \in 1 .. Len(guest.got) : guest.got[i] = i + lost
    BY DEF TxbufAtSndUna, Whole
  <2> DEFINE lost == iss - o
             una  == flow.snd_una
  <2>1. /\ Buffered(View(guest, iss, o), flow, host) /\ View(guest, iss, o).org = o
        /\ iss \in Nat /\ o <= iss /\ iss <= o + 1 /\ una \in Nat
        /\ HasRead(guest, iss, o, host)
    BY LinkFacts, GuestFacts DEF Linked, Peer, Good, FlowOK, Flow
  <2>2. lost \in {0, 1}
    BY <2>1
  <2>3. \A i \in 1 .. Len(guest.got) : guest.got[i] = i + lost
    BY <2>1 DEF HasRead
  <2>4. ASSUME NEW i \in 1 .. Len(flow.txbuf)
        PROVE  flow.txbuf[i] = una - iss - 1 + i + lost
    <3>1. CASE FinAcked(flow.state)
      <4>1. Len(flow.txbuf) = 0
        BY <2>1, <3>1 DEF Buffered
      <4> QED BY <4>1
    <3>2. CASE ~FinAcked(flow.state)
      <4>1. flow.txbuf[i] = una - o - 1 + i
        BY <2>1, <3>2 DEF Buffered
      <4>2. i \in Int
        OBVIOUS
      <4> HIDE DEF una
      <4>3. una - o - 1 + i = una - iss - 1 + i + lost
        BY <2>1, <4>2
      <4> QED BY <4>1, <4>3
    <3> QED BY <3>1, <3>2
  <2> HIDE DEF lost
  <2> QED BY <2>2, <2>3, <2>4
<1> QED BY <1>1, LinkInvariance, PTL

(* A slot that is given back as cleanly closed, from LAST_ACK or TIME_WAIT,
   leaves nobody in the dark: we have had the guest's FIN, and it has ours
   unless the stream was empty and the ACK of the SYN took the FIN.         *)
THEOREM ClosedOnBothSides == LinkSpec => []ClosedMeansBothEnded
<1>1. Whole => ClosedMeansBothEnded
  <2> SUFFICES ASSUME NEW o \in Nat, LInv(o), host.fate = "closed"
               PROVE  (guest.fin \/ HostLen = 0) /\ guest.nxt = FinSeq + 1
    BY DEF ClosedMeansBothEnded, Whole
  <2>1. Ended(View(guest, iss, o), host) /\ iss \in Nat /\ guest \in Guest
    BY LinkFacts, GuestFacts DEF Linked
  <2>2. (View(guest, iss, o).fin = guest.fin)
        /\ (View(guest, iss, o).done <=> guest.nxt = FinSeq + 1)
    BY <2>1, ViewFields
  <2> QED BY <2>1, <2>2 DEF Ended
<1> QED BY <1>1, LinkInvariance, PTL

(* "A reliable byte stream into a reliable byte stream": what the guest's
   application reads through tcp_pump, the ring, the losses and the
   retransmissions of tcp_timers is the host's stream but for, at most, its
   first octet, and its end comes after its last.                           *)
THEOREM GuestStreamReliable == LinkSpec => ReliableToGuest
<1>1. LinkInit => ToGuest!Init
  BY LinkInitInv
<1>2. Whole /\ [LinkNext]_linkVars => [InStep' => ToGuest!Next]_(ToGuest!stream)
  BY WholeStepped DEF StreamStep
<1> QED BY <1>1, <1>2, LinkInvariance, PTL DEF LinkSpec, ReliableToGuest
=============================================================================
