----------------------------- MODULE NetTcpLink -----------------------------
(***************************************************************************)
(* The endpoint of NetTcp with a guest TCP at the other end of the link.    *)
(* The guest is the iPhone OS kernel, which is not part of the repository:  *)
(* it is modelled from RFC 793 as an active opener that sends a fixed       *)
(* stream, may close after it, has a receive buffer its application empties *)
(* when it likes, and retransmits.  Guest octet k has sequence number k     *)
(* (its SYN is 0) and value k; octet k of the host stream has value k.      *)
(*                                                                         *)
(* The link is a pair of FIFOs: net_stack_t.out toward the guest and the    *)
(* PPP line toward the host.  A datagram may be lost on either.             *)
(***************************************************************************)
EXTENDS NetTcp

CONSTANTS
  GuestLen,       \* octets the guest sends
  GuestBuf,       \* the guest's receive buffer
  GuestCloses,    \* does the guest send a FIN after its stream?
  GuestAborts,    \* may the guest reset the connection?
  FinWithData,    \* may the guest's FIN ride on its last octet?
  LineSlots,      \* bound: segments on the line toward the host
  MaxSyns,        \* bound: SYNs the guest sends
  MaxResends,     \* bound: data or FIN retransmissions by the guest
  MaxLosses       \* bound: datagrams lost, both directions together

ASSUME GuestAssumption ==
  /\ {GuestLen, GuestBuf, LineSlots, MaxSyns, MaxResends, MaxLosses} \subseteq Nat
  /\ {GuestCloses, GuestAborts, FinWithData} \subseteq BOOLEAN

VARIABLES
  guest,  \* the guest's connection block
  line,   \* segments on their way to net_tcp_input
  spent   \* how much of each bound has been used

linkVars == <<flow, out, host, iss, guest, line, spent>>

FinSeq == GuestLen + 1

(* irs and rcv are 0 until a SYN-ACK has opened the connection.           *)
Guest == [st : {"idle", "syn_sent", "open", "dead"}, irs : Nat, rcv : Nat,
          una : Nat, nxt : Nat, wnd : Nat, unread : 0 .. GuestBuf,
          got : Seq(Nat), fin : BOOLEAN]

LinkInit ==
  /\ Init
  /\ guest = [st |-> "idle", irs |-> 0, rcv |-> 0, una |-> 0, nxt |-> 0,
              wnd |-> 0, unread |-> 0, got |-> << >>, fin |-> FALSE]
  /\ line = << >>
  /\ spent = [syns |-> 0, resends |-> 0, losses |-> 0]

Room == Len(line) < LineSlots

GuestSegment(g, flags, seq, data) ==
  [flags |-> flags, seq |-> seq, ack |-> IF "ACK" \in flags THEN g.rcv ELSE 0,
   wnd |-> GuestBuf - g.unread, data |-> data]

(* Guest octets from .. to-1, and the FIN if the range runs past them.     *)
GuestRange(g, from, to) ==
  GuestSegment(g, {"ACK"} \cup (IF to > FinSeq THEN {"FIN"} ELSE {}), from,
               [i \in 1 .. Least(to, FinSeq) - from |-> from + i - 1])

---------------------------------------------------------------------------
(* What the guest does of its own accord.                                   *)

GuestSyn ==
  /\ guest.st \in {"idle", "syn_sent"} /\ spent.syns < MaxSyns /\ Room
  /\ guest' = [guest EXCEPT !.st = "syn_sent", !.nxt = 1]
  /\ line' = Append(line, GuestSegment(guest, {"SYN"}, 0, << >>))
  /\ spent' = [spent EXCEPT !.syns = @ + 1]
  /\ UNCHANGED vars

(* New octets inside the window it was given; a FIN needs no window.       *)
GuestSend ==
  /\ guest.st = "open" /\ Room
  /\ \E to \in guest.nxt + 1 .. FinSeq + 1 :
       /\ Least(to, FinSeq) <= guest.una + guest.wnd \/ guest.nxt = FinSeq
       /\ to > FinSeq => GuestCloses /\ (FinWithData \/ guest.nxt = FinSeq)
       /\ guest' = [guest EXCEPT !.nxt = to]
       /\ line' = Append(line, GuestRange(guest, guest.nxt, to))
  /\ UNCHANGED <<vars, spent>>

GuestResend ==
  /\ guest.st = "open" /\ guest.una < guest.nxt
  /\ spent.resends < MaxResends /\ Room
  /\ line' = Append(line, GuestRange(guest, guest.una, guest.nxt))
  /\ spent' = [spent EXCEPT !.resends = @ + 1]
  /\ UNCHANGED <<vars, guest>>

(* The application empties the receive buffer, which reopens the window.   *)
GuestRead ==
  /\ guest.st = "open" /\ guest.unread > 0 /\ Room
  /\ guest' = [guest EXCEPT !.unread = 0]
  /\ line' = Append(line, GuestSegment(guest', {"ACK"}, guest.nxt, << >>))
  /\ UNCHANGED <<vars, spent>>

GuestAbort ==
  /\ GuestAborts /\ guest.st = "open" /\ Room
  /\ guest' = [guest EXCEPT !.st = "dead"]
  /\ line' = Append(line, GuestSegment(guest, {"RST", "ACK"}, guest.nxt, << >>))
  /\ UNCHANGED <<vars, spent>>

---------------------------------------------------------------------------
(* What the guest does with a segment.                                      *)

Reply(g, flags, seq) == Append(line, GuestSegment(g, flags, seq, << >>))

ReceiveReset(s) ==
  /\ "RST" \in s.flags
  /\ guest' = [guest EXCEPT !.st = "dead"]
  /\ UNCHANGED line

ReceiveClosed(s) ==
  /\ "RST" \notin s.flags /\ guest.st \in {"idle", "dead"}
  /\ line' = Reply(guest, {"RST"}, s.ack)
  /\ UNCHANGED guest

ReceiveSynAck(s) ==
  /\ "RST" \notin s.flags /\ guest.st = "syn_sent"
  /\ IF "SYN" \in s.flags
     THEN /\ guest' = [guest EXCEPT !.st = "open", !.irs = s.seq,
                                    !.rcv = s.seq + 1, !.una = 1,
                                    !.wnd = s.wnd]
          /\ line' = Reply(guest', {"ACK"}, 1)
     ELSE UNCHANGED <<guest, line>>

(* Old octets are trimmed, the rest is taken as far as the buffer goes.    *)
Received(s) ==
  LET g    == [guest EXCEPT
                 !.una = IF @ < s.ack /\ s.ack <= guest.nxt THEN s.ack ELSE @,
                 !.wnd = s.wnd]
      skip == g.rcv - s.seq
      n    == Least(Len(s.data) - skip, GuestBuf - g.unread)
      fin  == "FIN" \in s.flags /\ skip + n = Len(s.data) /\ ~g.fin
  IN IF skip < 0 \/ n < 0 THEN g
     ELSE [g EXCEPT !.got    = @ \o SubSeq(s.data, skip + 1, skip + n),
                    !.unread = @ + n,
                    !.rcv    = @ + n + (IF fin THEN 1 ELSE 0),
                    !.fin    = @ \/ fin]

ReceiveOpen(s) ==
  /\ "RST" \notin s.flags /\ guest.st = "open"
  /\ IF "SYN" \in s.flags \/ s.seq > guest.rcv + GuestBuf
     THEN /\ line' = Reply(guest, {"ACK"}, guest.nxt)
          /\ UNCHANGED guest
     ELSE /\ guest' = Received(s)
          /\ line' = IF s.data # << >> \/ "FIN" \in s.flags
                     THEN Reply(guest', {"ACK"}, guest.nxt) ELSE line

GuestReceive ==
  /\ Room
  /\ net_output
  /\ LET s == Head(out)
     IN \/ ReceiveReset(s)
        \/ ReceiveClosed(s)
        \/ ReceiveSynAck(s)
        \/ ReceiveOpen(s)
  /\ UNCHANGED spent

---------------------------------------------------------------------------
(* The link and the emulator.                                               *)

LoseOutput ==
  /\ spent.losses < MaxLosses
  /\ net_output
  /\ spent' = [spent EXCEPT !.losses = @ + 1]
  /\ UNCHANGED <<guest, line>>

LoseInput ==
  /\ spent.losses < MaxLosses /\ line # << >>
  /\ line' = Tail(line)
  /\ spent' = [spent EXCEPT !.losses = @ + 1]
  /\ UNCHANGED <<vars, guest>>

Arrive ==
  /\ line # << >>
  /\ net_tcp_input(Head(line))
  /\ line' = Tail(line)
  /\ UNCHANGED <<guest, spent>>

NetTick(due) == Tick(due) /\ UNCHANGED <<guest, line, spent>>

LinkNext ==
  \/ GuestSyn \/ GuestSend \/ GuestResend \/ GuestRead \/ GuestAbort
  \/ GuestReceive \/ LoseOutput \/ LoseInput
  \/ Arrive
  \/ \E due \in BOOLEAN : NetTick(due)

LinkSpec == LinkInit /\ [][LinkNext]_linkVars

(* The run loop ticks the stack after every chunk and guest time advances,
   so a running deadline is eventually found expired.  Nothing is assumed
   of the guest.                                                           *)
FairLinkSpec == LinkSpec /\ WF_linkVars(NetTick(TRUE))

(* The same fairness with ENABLED <<NetTick(TRUE)>>_linkVars written out as
   the states in which a deadline is running: TLC evaluates it much faster. *)
DeadlineRunning ==
  /\ flow.used
  /\ \/ flow.rto_on /\ (flow.state = "SYN_RCVD" => HandshakeTimesOut)
     \/ flow.state = "TIME_WAIT"
     \/ flow.state = "SYN_RCVD" /\ flow.snd_nxt = flow.snd_una

DeadlineFairSpec ==
  LinkSpec /\ ([]<>~DeadlineRunning \/ []<><<NetTick(TRUE)>>_linkVars)

---------------------------------------------------------------------------
(* Properties of the composition.                                           *)

LinkTypeOK ==
  /\ TypeOK
  /\ guest \in Guest
  /\ line \in Seq(Segment) /\ Len(line) <= LineSlots
  /\ spent \in [syns : 0 .. MaxSyns, resends : 0 .. MaxResends,
                losses : 0 .. MaxLosses]

IsStream(s, n) == Len(s) <= n /\ \A i \in 1 .. Len(s) : s[i] = i

(* The slot is of the guest's connection or of one before it.  A SYN that is
   repeated after the guest has opened, and arrives when the slot is free,
   begins a connection the guest knows nothing of: what that slot sends is
   no part of the guest's stream, and RFC 793 answers it with a reset.     *)
InStep == guest.rcv = 0 \/ guest.irs >= iss

(* "We are translating a reliable byte stream into a reliable byte stream":
   what the guest's application reads is a prefix of what the host sent.
   A host that speaks before the guest's handshake ACK breaks it: the ACK of
   the SYN alone takes the first octet from txbuf.                         *)
GuestStreamIntact ==
  /\ Len(guest.got) <= HostLen
  /\ \A i \in 1 .. Len(guest.got) : guest.got[i] = i

(* The code can lose one octet toward the guest, the first of the stream: an
   ACK of the SYN alone is taken as an ACK of txbuf[0], see
   GuestStreamIntact.  FirstLost says that the guest's stream begins after
   that octet, and GivenTo is the stream with the octet put back.          *)
FirstLost(g) ==
  \/ g.got # << >> /\ g.got[1] = 2
  \/ g.got = << >> /\ g.fin /\ HostLen = 1

GivenTo(g) == IF FirstLost(g) THEN <<1>> \o g.got ELSE g.got

(* The two directions as instances of the abstract stream.                 *)
ToGuest == INSTANCE ByteStream
  WITH Length <- HostLen,
       taken <- IF guest.rcv = 0 THEN 0 ELSE host.read,
       delivered <- GivenTo(guest), ended <- guest.fin

ToHost == INSTANCE ByteStream
  WITH Length <- GuestLen,
       taken <- IF guest.nxt = 0 THEN 0 ELSE Least(guest.nxt, FinSeq) - 1,
       delivered <- host.got, ended <- host.shut

(* Whatever is lost, repeated or cut differently on the way, the guest gets
   the host's octets in order, once each, all of them or all but the first,
   and then the end of the stream.                                         *)
ReliableToGuest ==
  ToGuest!Init /\ [][InStep' => ToGuest!Next]_(ToGuest!stream)

(* The same toward the host socket, which may take the octets in any
   portions and is half-closed only after the last of them.                *)
ReliableToHost == ToHost!Spec

(* "txbuf[0] is sequence snd_una": retransmission rebuilds segments from the
   buffer, so one octet of slip corrupts everything after it.  The buffer
   and the guest's application agree on where the stream begins, be it with
   its first octet or after it.                                            *)
TxbufAtSndUna ==
  (flow.used /\ flow.state # "SYN_RCVD" /\ InStep) =>
    \E lost \in {0, 1} :
      /\ \A i \in 1 .. Len(flow.txbuf) :
           flow.txbuf[i] = flow.snd_una - iss - 1 + i + lost
      /\ \A i \in 1 .. Len(guest.got) : guest.got[i] = i + lost

(* The handshake is completed only once the host connect has landed.  An ACK
   of an earlier SYN-ACK breaks it: the test of tcp.c:415 is on two pointers
   that are equal also while nothing has been sent.                        *)
EstablishedMeansConnected ==
  (flow.used /\ flow.state # "SYN_RCVD") => host.ready

(* The SYN occupies a sequence number: once the handshake is over it has
   been counted.                                                           *)
SynCounted == (flow.used /\ flow.state # "SYN_RCVD") => flow.snd_una > iss

(* Nothing is sent beyond the right edge the guest has offered, except the
   one octet of a window probe while the window is closed (tcp_timers).     *)
SentWithinWindow ==
  LET room == GuestBuf - guest.unread
      edge == guest.rcv + room
  IN (guest.st = "open" /\ InStep) =>
       \A i \in 1 .. Len(out) :
         out[i].data # << >> =>
           out[i].seq + Len(out[i].data) <= edge + (IF room = 0 THEN 1 ELSE 0)

(* A close that both sides completed has handed the host every octet the
   guest was told had arrived: back-pressure "never silently drops".       *)
CleanCloseComplete == host.fate = "closed" => Len(host.got) = GuestLen

(* A slot is given back as cleanly closed only when both ends have been
   told: the guest has our FIN and has sent its own.  For an empty stream
   that ends before the handshake the FIN is what the ACK of the SYN takes.  *)
ClosedMeansBothEnded ==
  (host.fate = "closed" /\ InStep) =>
    (guest.fin \/ HostLen = 0) /\ guest.nxt = FinSeq + 1

(* The flow never stops for good with octets in hand: whatever the guest
   does or fails to do, what was read from the host is acknowledged or the
   flow is given up.                                                       *)
Settles == (flow.used /\ Waiting(flow)) ~> (~flow.used \/ ~Waiting(flow))

(* A flow in a closing state that waits on a deadline goes away.           *)
ClosesEventually ==
  /\ (flow.used /\ flow.state = "SYN_RCVD")
       ~> (~flow.used \/ flow.state # "SYN_RCVD")
  /\ (flow.used /\ flow.state \in {"LAST_ACK", "TIME_WAIT"}) ~> ~flow.used

(* "FIN-WAIT-2 with the host stream done and nothing left to send means we
   are waiting only on the guest ... either way the slot goes back."       *)
FinWait2SlotGoesBack ==
  (flow.used /\ flow.state = "FIN_WAIT_2") ~> ~flow.used
=============================================================================
