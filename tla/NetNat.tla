------------------------------- MODULE NetNat -------------------------------
(***************************************************************************)
(* What the flows of the user-mode NAT share (core/src/net/net.c over       *)
(* tools/net_host.c): the table of flows, the host's table of sockets and   *)
(* the ring of datagrams for the guest.  UDP, ICMP and DNS are whole; a TCP *)
(* flow is what NetTcp makes of it, here only its slot, its socket and the  *)
(* segments it may emit.                                                    *)
(*                                                                         *)
(* net_input, net_tick and net_output run on the CPU thread, one at a time; *)
(* the network is beside them, so a tick is one step per slot.  A           *)
(* conversation is a four-tuple.  A datagram is its number in what the      *)
(* other end sent (an empty one is 0); checksums, names and the guest's own *)
(* payloads are left out.  `age` is now_ms - last_ms, up to IDLE + 1.       *)
(***************************************************************************)
EXTENDS Naturals, Sequences, FiniteSets

CONSTANTS
  Udp, Tcp,        \* conversations
  NET_MAX_FLOWS,   \* and NET_HOST_MAX_SOCKETS
  NET_OUT_SLOTS,
  NET_UDP_IDLE_MS,
  GUARD,           \* datagrams a flow is polled for in a tick (8)
  MAX_REQUESTS, MAX_SENT, \* bounds for TLC
  SocketsFail,     \* may a socket fail to open, to send or to receive?
  Bounces          \* may an ICMP error come back?

ASSUME NetNatAssumption ==
  /\ Udp \cap Tcp = {}
  /\ {NET_MAX_FLOWS, NET_OUT_SLOTS, GUARD} \subseteq Nat \ {0}
  /\ {NET_UDP_IDLE_MS, MAX_REQUESTS, MAX_SENT} \subseteq Nat
  /\ {SocketsFail, Bounces} \subseteq BOOLEAN

VARIABLES
  flow,     \* net_stack_t.flow
  sock,     \* net_host.s
  out,      \* net_stack_t.out, from out_tail to out_head
  tick,     \* the slot a net_tick is at; 0: none runs
  sent,     \* datagrams the other ends have sent
  got,      \* the last datagram of each that the guest has
  requests  \* datagrams the guest has sent

vars == <<flow, sock, out, tick, sent, got, requests>>

Slots   == 1 .. NET_MAX_FLOWS
Handles == 1 .. NET_MAX_FLOWS
NoFlow  == [used |-> FALSE]
Closed  == [used |-> FALSE]
Old     == NET_UDP_IDLE_MS + 1

Init ==
  /\ flow = [i \in Slots |-> NoFlow]
  /\ sock = [h \in Handles |-> Closed]
  /\ out = << >>
  /\ tick = 0
  /\ sent = [c \in Udp |-> 0]
  /\ got = [c \in Udp |-> 0]
  /\ requests = 0

Fewest(S) == CHOOSE n \in S : \A m \in S : n <= m

(* Slip: the last slot is one too far.                                      *)
Room_OneTooMany == NET_OUT_SLOTS + 1 - Len(out)

(* net_emit: false, and the datagram gone, when the ring is full.           *)
Room == NET_OUT_SLOTS - Len(out)

net_emit(d) == IF Room > 0 THEN Append(out, d) ELSE out

net_flow_find(c) == {i \in Slots : flow[i].used /\ flow[i].to = c}

First(S) == {i \in S : \A j \in S : i <= j}

(* The first slot that is not used; none when the table is full.            *)
net_flow_alloc == First({i \in Slots : ~flow[i].used})

(* A connected socket in the first slot of the host's table.                *)
h_open == First({h \in Handles : ~sock[h].used})

Opened(i, h, c, proto) ==
  /\ flow' = [flow EXCEPT ![i] = [used |-> TRUE, proto |-> proto, to |-> c,
                                  handle |-> h, age |-> 0]]
  /\ sock' = [sock EXCEPT ![h] = [used |-> TRUE, to |-> c, queue |-> << >>,
                                  error |-> FALSE]]

(* Slip: the slot goes back, the socket stays.                              *)
net_flow_free_Leaks(i) ==
  flow' = [flow EXCEPT ![i] = NoFlow] /\ sock' = sock

(* The egress is closed and the slot goes back.                             *)
net_flow_free(i) ==
  /\ flow' = [flow EXCEPT ![i] = NoFlow]
  /\ sock' = [sock EXCEPT ![flow[i].handle] = Closed]

(* A call on the CPU thread.                                                *)
Called == tick = 0 /\ requests < MAX_REQUESTS /\ requests' = requests + 1

---------------------------------------------------------------------------
(* net_input                                                                *)

(* An echo or a query for one of our own addresses is answered now.         *)
icmp_input ==
  /\ Called
  /\ out' = net_emit([proto |-> "ICMP"])
  /\ UNCHANGED <<flow, sock, tick, sent, got>>

dns_input ==
  /\ Called
  /\ out' = net_emit([proto |-> "DNS"])
  /\ UNCHANGED <<flow, sock, tick, sent, got>>

(* h_send takes the datagram or drops it; a failure, an error that came back
   for an earlier one among them, is the end of the flow.                   *)
UdpSend(c) ==
  \E i \in net_flow_find(c) :
    /\ Called
    /\ \/ flow' = [flow EXCEPT ![i].age = 0] /\ UNCHANGED sock
       \/ SocketsFail /\ net_flow_free(i)
       \/ sock[flow[i].handle].error /\ net_flow_free(i)
    /\ UNCHANGED <<out, tick, sent, got>>

(* The first datagram of a conversation.  There is no slot, or no socket, or
   the socket refuses it, or it is on its way.                              *)
UdpOpen(c) ==
  /\ net_flow_find(c) = {}
  /\ Called
  /\ \/ (net_flow_alloc = {} \/ SocketsFail) /\ UNCHANGED <<flow, sock>>
     \/ \E i \in net_flow_alloc, h \in h_open : Opened(i, h, c, "UDP")
  /\ UNCHANGED <<out, tick, sent, got>>

(* A SYN: no slot, or no socket, is a reset; else net_tcp_tick may answer.   *)
TcpSyn(c) ==
  /\ net_flow_find(c) = {}
  /\ Called
  /\ \/ /\ net_flow_alloc = {} \/ SocketsFail
        /\ out' = net_emit([proto |-> "TCP"])
        /\ UNCHANGED <<flow, sock>>
     \/ \E i \in net_flow_alloc, h \in h_open :
          /\ Opened(i, h, c, "TCP")
          /\ out' \in {out, net_emit([proto |-> "TCP"])}
  /\ UNCHANGED <<tick, sent, got>>

(* What a flow of TCP does to the rest: a segment or none, and it may end.   *)
TcpStep(i) ==
  /\ out' \in {out, net_emit([proto |-> "TCP"])}
  /\ net_flow_free(i) \/ UNCHANGED <<flow, sock>>

TcpInput(c) ==
  \E i \in net_flow_find(c) :
    Called /\ TcpStep(i) /\ UNCHANGED <<tick, sent, got>>

---------------------------------------------------------------------------
(* net_tick                                                                 *)

(* Time has passed: d of it, for flows that are not yet old.                *)
TickBegins(d) ==
  /\ tick = 0
  /\ tick' = 1
  /\ flow' = [i \in Slots |->
       IF flow[i].used /\ flow[i].proto = "UDP"
       THEN [flow[i] EXCEPT !.age = Fewest({@ + d, Old})] ELSE flow[i]]
  /\ UNCHANGED <<sock, out, sent, got, requests>>

Passed == tick' = IF tick = NET_MAX_FLOWS THEN 0 ELSE tick + 1

(* h_recv's datagrams before the first call that has none: one that would
   block, an empty one, or an error that came back.                         *)
Ready(s) ==
  IF s.error THEN 0
  ELSE Fewest({n - 1 : n \in {m \in DOMAIN s.queue : s.queue[m] = 0}}
                \cup {Len(s.queue)})

(* What a poll emits.                                                       *)
Emitted(s) == Fewest({Ready(s), GUARD, Room})

(* Slip: the datagram that found the ring full is put back, at the end.      *)
Rest_PutBack(s) ==
  IF s.error THEN [s EXCEPT !.error = FALSE]
  ELSE IF Emitted(s) < Fewest({Ready(s), GUARD})
  THEN [s EXCEPT !.queue = Append(SubSeq(@, Emitted(s) + 2, Len(@)),
                                  @[Emitted(s) + 1])]
  ELSE [s EXCEPT !.queue = SubSeq(@, Fewest({Emitted(s) + 1, Len(@)}) + 1, Len(@))]

(* What a poll takes from the queue: those, and the one that found the ring
   full, or the one that is not a datagram.                                 *)
Rest(s) ==
  IF s.error THEN [s EXCEPT !.error = FALSE]
  ELSE LET n == IF Emitted(s) = GUARD THEN GUARD
                ELSE Fewest({Emitted(s) + 1, Len(s.queue)})
       IN [s EXCEPT !.queue = SubSeq(@, n + 1, Len(@))]

(* Slip: a poll is a sign of life, whatever it brought.                      *)
Age_Polled(age, n) == 0

Age(age, n) == IF n > 0 THEN 0 ELSE age

(* udp_poll, and the flow's end when it has been idle.                      *)
UdpTick ==
  /\ tick # 0 /\ flow[tick].used /\ flow[tick].proto = "UDP"
  /\ LET f == flow[tick]
         s == sock[f.handle]
         n == Emitted(s)
         age == Age(f.age, n) IN
     \/ /\ out' = out \o [m \in 1 .. n |-> [proto |-> "UDP", to |-> f.to,
                                            from |-> s.to, id |-> s.queue[m]]]
        /\ IF age > NET_UDP_IDLE_MS THEN net_flow_free(tick)
           ELSE /\ flow' = [flow EXCEPT ![tick].age = age]
                /\ sock' = [sock EXCEPT ![f.handle] = Rest(s)]
     \/ SocketsFail /\ net_flow_free(tick) /\ UNCHANGED out
  /\ Passed
  /\ UNCHANGED <<sent, got, requests>>

TcpTick ==
  /\ tick # 0 /\ flow[tick].used /\ flow[tick].proto = "TCP"
  /\ TcpStep(tick)
  /\ Passed
  /\ UNCHANGED <<sent, got, requests>>

FreeSlot ==
  /\ tick # 0 /\ ~flow[tick].used
  /\ Passed
  /\ UNCHANGED <<flow, sock, out, sent, got, requests>>

---------------------------------------------------------------------------
(* net_output, net_reset and the network                                    *)

net_output ==
  /\ tick = 0 /\ out # << >>
  /\ out' = Tail(out)
  /\ got' = IF Head(out).proto = "UDP" THEN [got EXCEPT ![Head(out).to] = Head(out).id]
            ELSE got
  /\ UNCHANGED <<flow, sock, tick, sent, requests>>

net_reset ==
  /\ Called
  /\ flow' = [i \in Slots |-> NoFlow]
  /\ sock' = [h \in Handles |-> IF \E i \in Slots : flow[i].used /\ flow[i].handle = h
                                THEN Closed ELSE sock[h]]
  /\ out' = << >>
  /\ UNCHANGED <<tick, sent, got>>

(* The other end sends a datagram, or an empty one, or an ICMP error.       *)
Arrives(h) ==
  /\ sock[h].used /\ sock[h].to \in Udp
  /\ LET c == sock[h].to IN
     \/ /\ sent[c] < MAX_SENT
        /\ sent' = [sent EXCEPT ![c] = @ + 1]
        /\ \E id \in {0, sent[c] + 1} :
             sock' = [sock EXCEPT ![h].queue = Append(@, id)]
     \/ /\ Bounces /\ ~sock[h].error
        /\ sock' = [sock EXCEPT ![h].error = TRUE]
        /\ UNCHANGED sent
  /\ UNCHANGED <<flow, out, tick, got, requests>>

TickStep == UdpTick \/ TcpTick \/ FreeSlot

Next ==
  \/ icmp_input \/ dns_input
  \/ \E c \in Udp : UdpSend(c) \/ UdpOpen(c)
  \/ \E c \in Tcp : TcpSyn(c) \/ TcpInput(c)
  \/ \E d \in 0 .. Old : TickBegins(d)
  \/ TickStep
  \/ net_output \/ net_reset
  \/ \E h \in Handles : Arrives(h)

Spec == Init /\ [][Next]_vars

(* The pump calls net_tick again and again, not for ever at one reading of a
   clock that goes on, and net_tick returns.                                *)
FairSpec ==
  Spec /\ SF_vars(\E d \in 1 .. Old : TickBegins(d)) /\ WF_vars(TickStep)

---------------------------------------------------------------------------
(* Properties.                                                              *)

Datagram ==
  [proto : {"ICMP", "DNS", "TCP"}]
    \cup [proto : {"UDP"}, to : Udp, from : Udp, id : 1 .. MAX_SENT]

Flow == [used : {TRUE}, proto : {"UDP", "TCP"}, to : Udp \cup Tcp,
         handle : Handles, age : 0 .. Old]

Socket == [used : {TRUE}, to : Udp \cup Tcp, queue : Seq(0 .. MAX_SENT),
           error : BOOLEAN]

TypeOK ==
  /\ flow \in [Slots -> {NoFlow} \cup Flow]
  /\ sock \in [Handles -> {Closed} \cup Socket]
  /\ out \in Seq(Datagram) /\ Len(out) <= NET_OUT_SLOTS
  /\ tick \in 0 .. NET_MAX_FLOWS
  /\ sent \in [Udp -> 0 .. MAX_SENT] /\ got \in [Udp -> 0 .. MAX_SENT]
  /\ requests \in 0 .. MAX_REQUESTS

(* "net.c will never ask for a handle it has no flow for" (net_host.h): every
   socket is one flow's, to the same end, so an allocated slot always finds
   one, and no conversation has two slots.                                  *)
SocketsAreFlows ==
  /\ \A h \in Handles : sock[h].used =>
       \E i \in Slots : flow[i].used /\ flow[i].handle = h
  /\ \A i \in Slots : flow[i].used =>
       sock[flow[i].handle].used /\ sock[flow[i].handle].to = flow[i].to
  /\ \A i, j \in Slots : i # j /\ flow[i].used /\ flow[j].used =>
       flow[i].handle # flow[j].handle /\ flow[i].to # flow[j].to

(* A datagram of UDP in the ring, for the conversation c.                   *)
InRing(i, c) == i \in DOMAIN out /\ out[i].proto = "UDP" /\ out[i].to = c

(* What the guest is given in a conversation was sent in it, once and in the
   order it was sent, though slots, handles and the ring are used again: the
   last it has, those in the ring and those in the socket go up.            *)
InOrder ==
  /\ \A c \in Udp : \A i \in DOMAIN out : InRing(i, c) =>
       /\ out[i].from = c
       /\ got[c] < out[i].id
       /\ \A j \in DOMAIN out : i < j /\ InRing(j, c) => out[i].id < out[j].id
  /\ \A c \in Udp : \A h \in Handles : sock[h].used /\ sock[h].to = c =>
       \A m \in DOMAIN sock[h].queue : sock[h].queue[m] # 0 =>
         /\ got[c] < sock[h].queue[m]
         /\ \A i \in DOMAIN out : InRing(i, c) => out[i].id < sock[h].queue[m]
         /\ \A n \in DOMAIN sock[h].queue : m < n /\ sock[h].queue[n] # 0 =>
              sock[h].queue[m] < sock[h].queue[n]

(* The slot of a conversation that has fallen silent is used again: what is
   sent is bounded here, so no slot stays with UDP (NET_UDP_IDLE_MS).       *)
UdpFlowsEnd == \A c \in Udp : []<>(net_flow_find(c) = {})

(* "queue full: try again next tick" (udp_poll): what is taken from a socket
   that stays open goes to the guest.                                       *)
Ids(h) == {sock[h].queue[n] : n \in DOMAIN sock[h].queue} \ {0}

TakenIsDelivered ==
  [][\A h \in Handles : sock[h].used /\ sock'[h].used =>
       \A id \in Ids(h) \ Ids(h)' :
         \E i \in DOMAIN out' : out'[i].proto = "UDP" /\ out'[i].id = id]_vars

(* "Treating any as fatal would kill a live NAT flow because a single datagram
   bounced" (bounced): with sockets that do not fail, a flow of UDP ends only
   in a tick that finds it idle, or in a reset.                             *)
BounceNotFatal ==
  [][\A c \in Udp : net_flow_find(c) # {} /\ net_flow_find(c)' = {} =>
       tick # 0 \/ \A i \in Slots : ~flow'[i].used]_vars
=============================================================================
