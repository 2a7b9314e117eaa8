------------------------------- MODULE NetTcp -------------------------------
(***************************************************************************)
(* One guest flow of the host-side TCP (core/src/net/tcp.c): a passive      *)
(* RFC 793 endpoint whose other side is a host socket reached through       *)
(* net_egress_t.  net_tcp_input and net_tcp_tick are the only entry points; *)
(* both run to completion on the CPU thread, so each is one action.         *)
(*                                                                         *)
(* The handlers are operators on a context [f, out, h]: the flow slot, the  *)
(* ring of datagrams queued toward the guest, and the host socket behind    *)
(* the flow together with a record of what crossed it.                      *)
(*                                                                         *)
(* Abstractions.  An octet is a number that names its position in the       *)
(* stream it belongs to.  Sequence numbers are integers: the guest's ISN is *)
(* 0, ours is a multiple of ISS_STRIDE, and since a flow's buffers are      *)
(* 4096 octets no two numbers that the code compares are 2^31 apart.        *)
(* Deadlines are abstract: a running timer may be found expired ("due") by  *)
(* any later call.  The MSS option, the counters and the addresses are left *)
(* out.                                                                     *)
(*                                                                         *)
(* A definition commented as a slip is a mutated form of the definition     *)
(* after it: what a small mistake there would look like.  No specification  *)
(* uses it; the properties are tried against it.                            *)
(***************************************************************************)
EXTENDS Integers, Sequences

CONSTANTS
  NET_TCP_TXBUF,    \* octets buffered toward the guest (net.h: 4096)
  NET_TCP_RXBUF,    \* octets buffered toward the host  (net.h: 4096)
  NET_OUT_SLOTS,    \* datagrams queued for the guest   (net.h: 32)
  NET_TCP_RTX_MAX,  \* retransmissions before R2        (net.h: 8)
  MSS,              \* the clamped segment size of this flow
  ISS_STRIDE,       \* distance between initial send sequences
  HostLen,          \* octets the host stream carries before its end
  InputSegments,    \* what may arrive from the guest
  HostStalls,       \* may the host socket accept less than it is offered?
  HostFails,        \* may the host socket fail?
  HostTalksEarly,   \* may host data arrive before the guest's handshake ACK?
  HandshakeTimesOut \* may the SYN-ACK's own timer expire?

States == {"CLOSED", "SYN_RCVD", "ESTABLISHED", "FIN_WAIT_1", "FIN_WAIT_2",
           "CLOSE_WAIT", "CLOSING", "LAST_ACK", "TIME_WAIT"}

Flags == {"SYN", "ACK", "FIN", "RST"}

Segment == [flags : SUBSET Flags, seq : Nat, ack : Nat, wnd : Nat,
            data : Seq(Nat)]

ASSUME SizesAssumption ==
  /\ NET_TCP_TXBUF \in Nat \ {0}
  /\ NET_TCP_RXBUF \in Nat \ {0}
  /\ NET_OUT_SLOTS \in Nat \ {0}
  /\ NET_TCP_RTX_MAX \in Nat
  /\ MSS \in Nat \ {0}
  /\ ISS_STRIDE \in Nat \ {0}
  /\ HostLen \in Nat

ASSUME SwitchesAssumption ==
  {HostStalls, HostFails, HostTalksEarly, HandshakeTimesOut} \subseteq BOOLEAN

ASSUME InputAssumption == \A s \in InputSegments : s \in Segment

VARIABLES
  flow,  \* net_flow_t: the slot of this four-tuple
  out,   \* net_stack_t.out: datagrams the guest has not taken yet
  host,  \* the egress socket and what crossed it
  iss    \* net_stack_t.iss_walk

vars == <<flow, out, host, iss>>

Least(a, b) == IF a <= b THEN a ELSE b

---------------------------------------------------------------------------
(* The flow slot, the host socket and the output ring.                      *)

Flow == [used : BOOLEAN, state : States, irs : Nat, rcv_nxt : Nat,
         snd_una : Nat, snd_nxt : Nat, snd_wnd : Nat, fin_sent : BOOLEAN,
         host_eof : BOOLEAN, tx_shutdown : BOOLEAN, need_ack : BOOLEAN,
         rto_on : BOOLEAN, rtx : Nat, txbuf : Seq(Nat), rxbuf : Seq(Nat)]

NoFlow == [used |-> FALSE, state |-> "CLOSED", irs |-> 0, rcv_nxt |-> 0,
           snd_una |-> 0, snd_nxt |-> 0, snd_wnd |-> 0, fin_sent |-> FALSE,
           host_eof |-> FALSE, tx_shutdown |-> FALSE, need_ack |-> FALSE,
           rto_on |-> FALSE, rtx |-> 0, txbuf |-> << >>, rxbuf |-> << >>]

(* ready: status() has said NET_ST_READY; read: octets recv() returned; got:
   octets send() took; shut: shutdown_tx(); fate: how the flow ended.      *)
Fates == {"none", "live", "closed", "aborted", "reset"}
HostSocket == [ready : BOOLEAN, read : Nat, got : Seq(Nat), shut : BOOLEAN,
               fate : Fates]

NewSocket == [ready |-> FALSE, read |-> 0, got |-> << >>, shut |-> FALSE,
              fate |-> "live"]

Context == [f : Flow, out : Seq(Segment), h : HostSocket]

With(c, f) == [f |-> f, out |-> c.out, h |-> c.h]

(* Slip: the ring-full test off by one.                                    *)
net_emit_OneTooMany(c, segs) ==
  LET n == Least(NET_OUT_SLOTS + 1 - Len(c.out), Len(segs))
  IN [f   |-> [c.f EXCEPT !.need_ack = @ /\ n = 0],
      out |-> c.out \o SubSeq(segs, 1, n),
      h   |-> c.h]

(* net_emit for a run of segments: the ring takes what fits, the rest is
   counted and dropped, and an ACK that got out settles need_ack.          *)
net_emit(c, segs) ==
  LET n == Least(NET_OUT_SLOTS - Len(c.out), Len(segs))
  IN [f   |-> [c.f EXCEPT !.need_ack = @ /\ n = 0],
      out |-> c.out \o SubSeq(segs, 1, n),
      h   |-> c.h]

(* The segment tcp_out builds: every one carries ACK and the room left.    *)
SegmentOut(f, flags, seq, data) ==
  [flags |-> flags, seq |-> seq, ack |-> f.rcv_nxt,
   wnd |-> NET_TCP_RXBUF - Len(f.rxbuf), data |-> data]

tcp_out(c, flags, seq, data) ==
  net_emit(c, <<SegmentOut(c.f, flags, seq, data)>>)

net_flow_free(c, fate) ==
  [f |-> NoFlow, out |-> c.out, h |-> [c.h EXCEPT !.fate = fate]]

tcp_abort(c) ==
  net_flow_free(tcp_out(c, {"RST", "ACK"}, c.f.snd_nxt, << >>), "aborted")

(* A reset for a segment that matches no connection; never for a reset.    *)
tcp_reject(c, s) ==
  LET occupied == Len(s.data) + (IF "SYN" \in s.flags THEN 1 ELSE 0)
                              + (IF "FIN" \in s.flags THEN 1 ELSE 0)
      rst == IF "ACK" \in s.flags
             THEN [flags |-> {"RST"}, seq |-> s.ack, ack |-> 0, wnd |-> 0,
                   data |-> << >>]
             ELSE [flags |-> {"RST", "ACK"}, seq |-> 0,
                   ack |-> s.seq + occupied, wnd |-> 0, data |-> << >>]
      fits == Len(c.out) < NET_OUT_SLOTS /\ "RST" \notin s.flags
  IN [c EXCEPT !.out = IF fits THEN Append(@, rst) ELSE @]

---------------------------------------------------------------------------
(* Timers and transmission.                                                 *)

(* Slip: no persist timer.                                                 *)
tcp_timers_NoProbe(f) ==
  IF f.snd_nxt # f.snd_una THEN [f EXCEPT !.rto_on = TRUE]
                           ELSE [f EXCEPT !.rto_on = FALSE, !.rtx = 0]

(* One deadline for retransmission and for the zero-window probe.          *)
tcp_timers(f) ==
  LET unacked == f.snd_nxt # f.snd_una
      persist == ~unacked /\ f.txbuf # << >> /\ f.snd_wnd = 0
  IN IF unacked \/ persist
     THEN [f EXCEPT !.rto_on = TRUE]
     ELSE [f EXCEPT !.rto_on = FALSE, !.rtx = 0]

tcp_inflight(f) ==
  LET n == f.snd_nxt - f.snd_una
  IN IF f.fin_sent THEN Least(n, Len(f.txbuf)) ELSE n

(* Slip: the window taken as room for new octets.                          *)
SendWindow_Whole(f, sent) == f.snd_wnd

(* Room the guest's window leaves past what is in flight.                  *)
SendWindow(f, sent) == IF f.snd_wnd > sent THEN f.snd_wnd - sent ELSE 0

(* The loop of tcp_pump: everything unsent that the guest's window admits,
   cut at the segment size.                                                *)
PumpData(c) ==
  LET f    == c.f
      sent == tcp_inflight(f)
      n    == IF Len(f.txbuf) > sent THEN Least(Len(f.txbuf) - sent,
                                                SendWindow(f, sent))
                                     ELSE 0
      segs == [i \in 1 .. (n + MSS - 1) \div MSS |->
                 SegmentOut(f, {"ACK"}, f.snd_nxt + (i - 1) * MSS,
                            SubSeq(f.txbuf, sent + (i - 1) * MSS + 1,
                                   sent + Least(i * MSS, n)))]
      d    == net_emit(c, segs)
  IN With(d, [d.f EXCEPT !.snd_nxt = @ + n])

FinOutstanding == {"FIN_WAIT_1", "CLOSING", "LAST_ACK"}

(* Slip: the two states swapped.                                           *)
CommitFin_Swapped(f) ==
  IF f.host_eof /\ ~f.fin_sent /\ f.state \in {"ESTABLISHED", "CLOSE_WAIT"}
  THEN [f EXCEPT !.fin_sent = TRUE,
                 !.state = IF @ = "CLOSE_WAIT" THEN "FIN_WAIT_1"
                                               ELSE "LAST_ACK"]
  ELSE f

CommitFin(f) ==
  IF f.host_eof /\ ~f.fin_sent /\ f.state \in {"ESTABLISHED", "CLOSE_WAIT"}
  THEN [f EXCEPT !.fin_sent = TRUE,
                 !.state = IF @ = "CLOSE_WAIT" THEN "LAST_ACK"
                                               ELSE "FIN_WAIT_1"]
  ELSE f

(* Slips: the FIN sent again once acknowledged; sent ahead of the data; not
   sent when the guest closed first.                                       *)
PumpFin_AnyState(c) ==
  IF c.f.fin_sent /\ c.f.snd_nxt = c.f.snd_una + Len(c.f.txbuf)
  THEN LET d == tcp_out(c, {"ACK", "FIN"}, c.f.snd_nxt, << >>)
       IN With(d, [d.f EXCEPT !.snd_nxt = @ + 1])
  ELSE c

PumpFin_Overtakes(c) ==
  IF /\ c.f.fin_sent
     /\ c.f.snd_nxt <= c.f.snd_una + Len(c.f.txbuf)
     /\ c.f.state \in FinOutstanding
  THEN LET d == tcp_out(c, {"ACK", "FIN"}, c.f.snd_nxt, << >>)
       IN With(d, [d.f EXCEPT !.snd_nxt = @ + 1])
  ELSE c

PumpFin_NotInLastAck(c) ==
  IF /\ c.f.fin_sent
     /\ c.f.snd_nxt = c.f.snd_una + Len(c.f.txbuf)
     /\ c.f.state \in {"FIN_WAIT_1", "CLOSING"}
  THEN LET d == tcp_out(c, {"ACK", "FIN"}, c.f.snd_nxt, << >>)
       IN With(d, [d.f EXCEPT !.snd_nxt = @ + 1])
  ELSE c

PumpFin(c) ==
  IF /\ c.f.fin_sent
     /\ c.f.snd_nxt = c.f.snd_una + Len(c.f.txbuf)
     /\ c.f.state \in FinOutstanding
  THEN LET d == tcp_out(c, {"ACK", "FIN"}, c.f.snd_nxt, << >>)
       IN With(d, [d.f EXCEPT !.snd_nxt = @ + 1])
  ELSE c

PumpAck(c) ==
  IF c.f.need_ack THEN tcp_out(c, {"ACK"}, c.f.snd_nxt, << >>) ELSE c

tcp_pump(c) ==
  IF c.f.state \in {"SYN_RCVD", "TIME_WAIT"}
  THEN c
  ELSE LET d == PumpData(c)
           e == PumpAck(PumpFin(With(d, CommitFin(d.f))))
       IN With(e, tcp_timers(e.f))

---------------------------------------------------------------------------
(* net_tcp_tick.  Its result depends on what the host socket answers, so it
   is the set of contexts it may leave.                                    *)

tcp_guest_finished(state) ==
  state \in {"CLOSE_WAIT", "CLOSING", "LAST_ACK", "TIME_WAIT"}

TickTimeWait(c, due) ==
  LET d == IF c.f.need_ack
           THEN tcp_out(c, {"ACK"}, c.f.snd_nxt, << >>) ELSE c
  IN IF due THEN net_flow_free(d, "closed") ELSE d

(* status() while the SYN is unanswered: pending, failed or ready.         *)
TickConnect(c, due) ==
  LET d     == tcp_out([c EXCEPT !.h.ready = TRUE],
                       {"SYN", "ACK"}, c.f.snd_nxt, << >>)
      ready == With(d, tcp_timers([d.f EXCEPT !.snd_nxt = @ + 1]))
  IN {ready} \cup (IF c.h.ready THEN {}
                   ELSE {IF due THEN tcp_abort(c) ELSE c})
             \cup (IF HostFails THEN {tcp_abort(c)} ELSE {})

(* Slips: a partial send taken as a whole one; the socket half-closed with
   octets still buffered.                                                  *)
Delivered_All(c, w) ==
  LET f    == c.f
      shut == tcp_guest_finished(f.state)
  IN [f   |-> [f EXCEPT !.rxbuf = << >>,
                        !.need_ack = @ \/ w > 0,
                        !.tx_shutdown = @ \/ shut],
      out |-> c.out,
      h   |-> [c.h EXCEPT !.got = @ \o SubSeq(f.rxbuf, 1, w),
                          !.shut = @ \/ shut]]

Delivered_EarlyShutdown(c, w) ==
  LET f    == c.f
      shut == tcp_guest_finished(f.state)
  IN [f   |-> [f EXCEPT !.rxbuf = SubSeq(@, w + 1, Len(@)),
                        !.need_ack = @ \/ w > 0,
                        !.tx_shutdown = @ \/ shut],
      out |-> c.out,
      h   |-> [c.h EXCEPT !.got = @ \o SubSeq(f.rxbuf, 1, w),
                          !.shut = @ \/ shut]]

(* send() takes any prefix of rxbuf; once the guest's last octet is across
   the socket is half-closed.                                              *)
Delivered(c, w) ==
  LET f    == c.f
      rest == SubSeq(f.rxbuf, w + 1, Len(f.rxbuf))
      shut == tcp_guest_finished(f.state) /\ rest = << >>
  IN [f   |-> [f EXCEPT !.rxbuf = rest,
                        !.need_ack = @ \/ w > 0,
                        !.tx_shutdown = @ \/ shut],
      out |-> c.out,
      h   |-> [c.h EXCEPT !.got = @ \o SubSeq(f.rxbuf, 1, w),
                          !.shut = @ \/ shut]]

Deliver(c) ==
  {Delivered(c, w) : w \in IF HostStalls THEN 0 .. Len(c.f.rxbuf)
                                         ELSE {Len(c.f.rxbuf)}}

(* recv() until it would block, ends or the buffer is full.                *)
Polls(c) == ~c.f.host_eof /\ Len(c.f.txbuf) < NET_TCP_TXBUF

Fetched(c, n, eof) ==
  [c EXCEPT !.f.txbuf = @ \o [i \in 1 .. n |-> c.h.read + i],
            !.f.host_eof = @ \/ eof,
            !.h.read = @ + n]

Fetch(c) ==
  IF ~Polls(c) \/ (c.f.state = "SYN_RCVD" /\ ~HostTalksEarly)
  THEN {c}
  ELSE LET room == Least(NET_TCP_TXBUF - Len(c.f.txbuf), HostLen - c.h.read)
           left == HostLen - c.h.read
       IN {Fetched(c, n, FALSE) : n \in 0 .. room}
          \cup {Fetched(c, n, TRUE) :
                  n \in {m \in 0 .. room :
                           m = left /\ Len(c.f.txbuf) + m < NET_TCP_TXBUF}}

(* The retransmit/persist deadline, then tcp_pump.                         *)
TickTransmit(c, due) ==
  LET f     == c.f
      g     == [f EXCEPT !.rto_on = FALSE, !.rtx = @ + 1]
      probe == f.snd_nxt = f.snd_una /\ f.txbuf # << >> /\ f.snd_wnd = 0
      sent  == tcp_out(With(c, g), {"ACK"}, f.snd_nxt, SubSeq(f.txbuf, 1, 1))
      d     == tcp_pump(IF f.rto_on /\ due
                        THEN With(c, [g EXCEPT !.snd_nxt = f.snd_una]) ELSE c)
  IN IF f.rto_on /\ due /\ g.rtx > NET_TCP_RTX_MAX
     THEN tcp_abort(With(c, g))
     ELSE IF f.rto_on /\ due /\ probe
     THEN With(sent, tcp_timers([sent.f EXCEPT !.snd_nxt = @ + 1]))
     ELSE IF d.f.state = "CLOSED" THEN net_flow_free(d, "closed") ELSE d

TickOpen(c, due) ==
  LET delivered == Deliver(c)
      fetched   == UNION {Fetch(d) : d \in delivered}
  IN {TickTransmit(d, due) : d \in fetched}
     \cup (IF HostFails /\ c.f.rxbuf # << >> THEN {tcp_abort(c)} ELSE {})
     \cup (IF HostFails THEN {tcp_abort(d) : d \in {x \in delivered : Polls(x)}}
                        ELSE {})

net_tcp_tick(c, due) ==
  IF ~c.f.used THEN {c}
  ELSE IF c.f.state = "TIME_WAIT" THEN {TickTimeWait(c, due)}
  ELSE IF c.f.state = "CLOSED" THEN {net_flow_free(c, "closed")}
  ELSE IF c.f.state = "SYN_RCVD" /\ c.f.snd_nxt = c.f.snd_una
       THEN TickConnect(c, due)
  ELSE TickOpen(c, due)

---------------------------------------------------------------------------
(* net_tcp_input: what a segment does to the flow before the closing tick.  *)

(* Slip: acknowledged octets left at the front of the buffer.              *)
tcp_consume_ack_NoShift(f, ack) ==
  LET end == f.snd_una + Len(f.txbuf) + (IF f.fin_sent THEN 1 ELSE 0)
  IN IF ~(f.snd_una < ack /\ (ack <= end \/ ack <= f.snd_nxt)) THEN f
     ELSE [f EXCEPT !.txbuf = SubSeq(@, 1, Len(@) - Least(ack - f.snd_una, Len(@))),
                    !.snd_una = ack,
                    !.snd_nxt = IF @ < ack THEN ack ELSE @,
                    !.rtx = 0, !.rto_on = FALSE]

(* The ceiling is the furthest sequence sent or committed to send.         *)
tcp_consume_ack(f, ack) ==
  LET committed == f.snd_una + Len(f.txbuf) + (IF f.fin_sent THEN 1 ELSE 0)
      end       == IF committed < f.snd_nxt THEN f.snd_nxt ELSE committed
      dat       == Least(ack - f.snd_una, Len(f.txbuf))
      fin_acked == f.fin_sent /\ ack - f.snd_una > Len(f.txbuf)
  IN IF ~(f.snd_una < ack /\ ack <= end) THEN f
     ELSE [f EXCEPT
             !.txbuf   = SubSeq(@, dat + 1, Len(@)),
             !.snd_una = ack,
             !.snd_nxt = IF @ < ack THEN ack ELSE @,
             !.rtx     = 0,
             !.rto_on  = FALSE,
             !.state   = IF ~fin_acked THEN @
                         ELSE CASE @ = "FIN_WAIT_1" -> "FIN_WAIT_2"
                                [] @ = "CLOSING"    -> "TIME_WAIT"
                                [] @ = "LAST_ACK"   -> "CLOSED"
                                [] OTHER            -> @]

Established(f) ==
  IF f.state = "SYN_RCVD" THEN [f EXCEPT !.state = "ESTABLISHED"] ELSE f

(* Slips: no clamp to the buffer; the acknowledgement not advanced; the
   octets already held accepted a second time.                             *)
TakeData_NoClamp(f, s) ==
  LET skip  == f.rcv_nxt - s.seq
      fresh == s.seq <= f.rcv_nxt /\ f.rcv_nxt < s.seq + Len(s.data)
  IN IF s.data = << >> \/ tcp_guest_finished(f.state) \/ ~fresh THEN f
     ELSE [f EXCEPT !.rxbuf    = @ \o SubSeq(s.data, skip + 1, Len(s.data)),
                    !.rcv_nxt  = s.seq + Len(s.data),
                    !.need_ack = TRUE]

TakeData_NoAdvance(f, s) ==
  IF \/ s.data = << >> \/ tcp_guest_finished(f.state)
     \/ s.seq # f.rcv_nxt \/ Len(f.rxbuf) + Len(s.data) > NET_TCP_RXBUF
  THEN f
  ELSE [f EXCEPT !.rxbuf = @ \o s.data, !.need_ack = TRUE]

TakeData_NoSkip(f, s) ==
  LET len   == Least(Len(s.data), NET_TCP_RXBUF - Len(f.rxbuf))
      fresh == s.seq <= f.rcv_nxt /\ f.rcv_nxt < s.seq + Len(s.data)
  IN IF s.data = << >> \/ tcp_guest_finished(f.state) \/ ~fresh THEN f
     ELSE [f EXCEPT !.rxbuf    = @ \o SubSeq(s.data, 1, len),
                    !.rcv_nxt  = @ + len,
                    !.need_ack = TRUE]

(* In-order data, or the new tail of an overlapping retransmission, goes to
   rxbuf as far as it fits; anything else only owes the guest an ACK.      *)
TakeData(f, s) ==
  LET skip  == f.rcv_nxt - s.seq
      len   == Least(Len(s.data) - skip, NET_TCP_RXBUF - Len(f.rxbuf))
      fresh == s.seq <= f.rcv_nxt /\ f.rcv_nxt < s.seq + Len(s.data)
  IN IF s.data = << >> \/ tcp_guest_finished(f.state) THEN f
     ELSE IF fresh
     THEN [f EXCEPT !.rxbuf    = @ \o SubSeq(s.data, skip + 1, skip + len),
                    !.rcv_nxt  = @ + len,
                    !.need_ack = TRUE]
     ELSE [f EXCEPT !.need_ack = TRUE]

TakeFin(f, s) ==
  IF "FIN" \notin s.flags THEN f
  ELSE IF tcp_guest_finished(f.state) THEN [f EXCEPT !.need_ack = TRUE]
  ELSE IF s.seq + Len(s.data) # f.rcv_nxt THEN f
  ELSE [f EXCEPT !.rcv_nxt  = @ + 1,
                 !.need_ack = TRUE,
                 !.state    = CASE @ = "ESTABLISHED" -> "CLOSE_WAIT"
                                [] @ = "FIN_WAIT_1"  -> "CLOSING"
                                [] @ = "FIN_WAIT_2"  -> "TIME_WAIT"
                                [] OTHER             -> @]

Acked(f, s) == tcp_consume_ack([f EXCEPT !.snd_wnd = s.wnd], s.ack)

Absorbed(f, s) == TakeFin(TakeData(Established(Acked(f, s)), s), s)

(* The TIME-WAIT clock has just been (re)started: it cannot have run out.  *)
FreshTimeWait(f, s) ==
  Absorbed(f, s).state = "TIME_WAIT" /\ (f.state # "TIME_WAIT" \/ "FIN" \in s.flags)

(* A slot for a new SYN: net_flow_alloc and the head of tcp_syn.           *)
SynFlow(s, seq) ==
  [NoFlow EXCEPT !.used = TRUE, !.state = "SYN_RCVD", !.irs = s.seq,
                 !.rcv_nxt = s.seq + 1, !.snd_wnd = s.wnd, !.snd_una = seq, !.snd_nxt = seq]

---------------------------------------------------------------------------
(* Actions.                                                                 *)

Here == [f |-> flow, out |-> out, h |-> host]

Become(c) == flow' = c.f /\ out' = c.out /\ host' = c.h

Init ==
  /\ flow = NoFlow
  /\ out = << >>
  /\ host = [NewSocket EXCEPT !.fate = "none"]
  /\ iss = 0

IsSyn(s) == "SYN" \in s.flags

(* tcp_syn: the host connect starts and may be refused on the spot; if it
   does not, the first tick asks for its status at once.                   *)
InputSyn(s) ==
  /\ ~flow.used
  /\ IsSyn(s) /\ "ACK" \notin s.flags /\ "RST" \notin s.flags
  /\ iss' = iss + ISS_STRIDE
  /\ LET c == [f |-> SynFlow(s, iss'), out |-> out, h |-> NewSocket]
     IN \/ \E d \in net_tcp_tick(c, FALSE) : Become(d)
        \/ HostFails /\ Become(tcp_abort(c))

InputUnknown(s) ==
  /\ ~flow.used
  /\ ~(IsSyn(s) /\ "ACK" \notin s.flags /\ "RST" \notin s.flags)
  /\ Become(tcp_reject(Here, s))
  /\ UNCHANGED iss

InputReset(s) ==
  /\ flow.used /\ "RST" \in s.flags
  /\ Become(net_flow_free(Here, "reset"))
  /\ UNCHANGED iss

(* A SYN for a live flow: repeat the SYN-ACK if there is one, reset an open
   connection.                                                             *)
InputSynAgain(s) ==
  /\ flow.used /\ "RST" \notin s.flags /\ IsSyn(s)
  /\ Become(IF flow.state # "SYN_RCVD" THEN tcp_abort(Here)
            ELSE IF flow.snd_nxt = flow.snd_una THEN Here
            ELSE tcp_out(Here, {"SYN", "ACK"}, flow.snd_una, << >>))
  /\ UNCHANGED iss

InputNoAck(s) ==
  /\ flow.used /\ s.flags \cap {"RST", "SYN", "ACK"} = {}
  /\ UNCHANGED vars

(* In SYN-RCVD an ACK that does not cover the SYN only updates the window. *)
InputAck(s) ==
  /\ flow.used /\ s.flags \cap {"RST", "SYN"} = {} /\ "ACK" \in s.flags
  /\ LET f == Acked(flow, s)
     IN IF f.state = "SYN_RCVD" /\ f.snd_una < f.snd_nxt
        THEN Become(With(Here, f))
        ELSE \E due \in BOOLEAN :
               /\ due => ~FreshTimeWait(flow, s)
               /\ \E d \in net_tcp_tick(With(Here, Absorbed(flow, s)), due) :
                    Become(d)
  /\ UNCHANGED iss

net_tcp_input(s) ==
  \/ InputSyn(s)
  \/ InputUnknown(s)
  \/ InputReset(s)
  \/ InputSynAgain(s)
  \/ InputNoAck(s)
  \/ InputAck(s)

(* net_tick for this flow, with or without a deadline behind it; nothing to
   do when the slot is free.                                               *)
Tick(due) ==
  /\ due /\ flow.state = "SYN_RCVD" /\ flow.rto_on => HandshakeTimesOut
  /\ \E d \in net_tcp_tick(Here, due) : Become(d)
  /\ UNCHANGED iss

(* PPP takes the oldest queued datagram.                                   *)
net_output ==
  /\ out # << >>
  /\ out' = Tail(out)
  /\ UNCHANGED <<flow, host, iss>>

Next ==
  \/ \E s \in InputSegments : net_tcp_input(s)
  \/ \E due \in BOOLEAN : Tick(due)
  \/ net_output

Spec == Init /\ [][Next]_vars

---------------------------------------------------------------------------
(* Properties that hold whatever the guest sends.                           *)

TypeOK ==
  /\ flow \in Flow
  /\ out \in Seq(Segment) /\ Len(out) <= NET_OUT_SLOTS
  /\ host \in HostSocket
  /\ iss \in Nat

Waiting(f) ==
  \/ f.txbuf # << >>
  \/ f.snd_nxt # f.snd_una
  \/ f.state \in FinOutstanding

(* The silent stall tcp.c is written against: a flow past its handshake that
   owes the guest octets or a FIN always has its one deadline running, so a
   lost segment or a closed window cannot stop it for good.                *)
NoSilentStall ==
  (/\ flow.used
   /\ flow.state \notin {"SYN_RCVD", "TIME_WAIT"}
   /\ Waiting(flow)) => flow.rto_on

(* Every octet acknowledged to the guest has been handed to the host socket
   or is still in rxbuf: back-pressure buffers and never discards while the
   flow lives.                                                             *)
AckedOctetsKept ==
  flow.used =>
    flow.rcv_nxt = flow.irs + 1 + Len(host.got) + Len(flow.rxbuf)
                     + (IF tcp_guest_finished(flow.state) THEN 1 ELSE 0)

(* shutdown_tx tells the far end the request is complete, so it comes after
   the guest's FIN and after the last octet before it.                     *)
HalfCloseAfterFlush ==
  (flow.used /\ host.shut) =>
    flow.tx_shutdown /\ flow.rxbuf = << >> /\ tcp_guest_finished(flow.state)

(* The send pointers stay inside what the flow has to send, so the FIN is
   never sent past and never sent again once it is acknowledged.           *)
SendPointers ==
  flow.used =>
    /\ flow.snd_una <= flow.snd_nxt
    /\ flow.state = "SYN_RCVD" => flow.snd_nxt <= flow.snd_una + 1
    /\ flow.state # "SYN_RCVD" =>
         flow.snd_nxt <= flow.snd_una + Len(flow.txbuf)
                         + (IF flow.state \in FinOutstanding THEN 1 ELSE 0)

BuffersBounded ==
  /\ Len(flow.txbuf) <= NET_TCP_TXBUF
  /\ Len(flow.rxbuf) <= NET_TCP_RXBUF
  /\ flow.rtx <= NET_TCP_RTX_MAX

RightEdge(f) == f.rcv_nxt + NET_TCP_RXBUF - Len(f.rxbuf)

(* "It cannot retract": the right edge of the window offered to the guest
   never moves left during the life of a flow.                             *)
WindowNeverRetracts ==
  [][flow.used /\ flow'.used => RightEdge(flow') >= RightEdge(flow)]_vars
=============================================================================
