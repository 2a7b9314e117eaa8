---------------------------- MODULE NetNatProofs ----------------------------
(***************************************************************************)
(* What holds of the NAT with any conversations, any number of slots, any   *)
(* ring and any guard: every socket is one flow's, and what the guest is    *)
(* given in a conversation goes up.  The inductive invariant adds that a    *)
(* flow is of its conversation's protocol and that no number is ahead of    *)
(* what was sent.  Its two halves change apart: Table is about flows and    *)
(* sockets, Stream about sockets, the ring and what the guest has.          *)
(***************************************************************************)
EXTENDS NetNat, SequenceTheorems, WellFoundedInduction, TLAPS

(* A flow is of the protocol of its conversation.                           *)
Kind(c, proto) ==
  \/ proto = "UDP" /\ c \in Udp
  \/ proto = "TCP" /\ c \in Tcp

Kinds == \A i \in Slots : flow[i].used => Kind(flow[i].to, flow[i].proto)

(* No number is ahead of what the other end has sent.                       *)
Numbered ==
  /\ \A c \in Udp : got[c] <= sent[c]
  /\ \A c \in Udp : \A i \in DOMAIN out : InRing(i, c) => out[i].id <= sent[c]
  /\ \A c \in Udp : \A h \in Handles : sock[h].used /\ sock[h].to = c =>
       \A m \in DOMAIN sock[h].queue : sock[h].queue[m] <= sent[c]

Table ==
  /\ flow \in [Slots -> {NoFlow} \cup Flow]
  /\ sock \in [Handles -> {Closed} \cup Socket]
  /\ SocketsAreFlows
  /\ Kinds

Stream ==
  /\ out \in Seq(Datagram) /\ Len(out) <= NET_OUT_SLOTS
  /\ sent \in [Udp -> 0 .. MAX_SENT] /\ got \in [Udp -> 0 .. MAX_SENT]
  /\ InOrder
  /\ Numbered

Counters == tick \in 0 .. NET_MAX_FLOWS /\ requests \in 0 .. MAX_REQUESTS

(* The inductive invariant.                                                 *)
IInv == Table /\ Stream /\ Counters

---------------------------------------------------------------------------
(* The operators.                                                           *)

(* A set of naturals that is not empty has a least one, and Fewest is it.   *)
LEMMA FewestIsLeast ==
  ASSUME NEW S \in SUBSET Nat, S # {}
  PROVE  Fewest(S) \in S /\ \A m \in S : Fewest(S) <= m
<1> DEFINE R == {p \in Nat \X Nat : p[1] < p[2]}
<1>1. IsWellFoundedOn(R, Nat)
  BY NatLessThanWellFounded, Zenon DEF OpToRel
<1>2. PICK n \in S : \A y \in S : ~ (<<y, n>> \in R)
  <2> HIDE DEF R
  <2> QED BY <1>1, WFMin, Zenon
<1>3. \A y \in S : n <= y
  <2> SUFFICES ASSUME NEW y \in S, y < n PROVE FALSE
    BY SMT
  <2>1. <<y, n>> \in R
    BY SMT
  <2> QED BY <1>2, <2>1, Zenon
<1> QED BY <1>3 DEF Fewest

(* Every datagram a poll emits is one: it is in the queue, none before it is
   empty, no error comes before it, and the ring and the guard have room.   *)
LEMMA EmittedAreDatagrams ==
  ASSUME NetNatAssumption, NEW s \in Socket, Len(out) \in 0 .. NET_OUT_SLOTS
  PROVE  /\ Emitted(s) \in 0 .. Len(s.queue)
         /\ Emitted(s) <= Room /\ Emitted(s) <= GUARD
         /\ \A m \in 1 .. Emitted(s) : s.queue[m] # 0
         /\ s.error => Emitted(s) = 0
<1> DEFINE E == {n - 1 : n \in {m \in DOMAIN s.queue : s.queue[m] = 0}}
                  \cup {Len(s.queue)}
<1>1. s.queue \in Seq(0 .. MAX_SENT) /\ Len(s.queue) \in Nat
      /\ DOMAIN s.queue = 1 .. Len(s.queue)
  BY DEF Socket
<1>2. E \in SUBSET Nat /\ E # {}
  BY <1>1, SMT
<1>3. ~s.error => Ready(s) = Fewest(E)
  BY DEF Ready
<1>4. Fewest(E) \in E /\ \A m \in E : Fewest(E) <= m
  <2> HIDE DEF E
  <2> QED BY <1>2, FewestIsLeast
<1>5. ASSUME ~s.error
      PROVE  /\ Ready(s) \in 0 .. Len(s.queue)
             /\ \A m \in 1 .. Ready(s) : s.queue[m] # 0
  <2>1. Ready(s) \in Nat /\ Ready(s) <= Len(s.queue)
    <3>1. Len(s.queue) \in E
      OBVIOUS
    <3> HIDE DEF E
    <3>2. Ready(s) = Fewest(E)
      BY <1>3, <1>5, Zenon
    <3>3. Ready(s) \in Nat
      BY <1>2, <1>4, <3>2, Zenon
    <3>4. Ready(s) <= Len(s.queue)
      BY <1>4, <3>1, <3>2, Zenon
    <3> QED BY <3>3, <3>4, Zenon
  <2>2. ASSUME NEW m \in 1 .. Ready(s), s.queue[m] = 0 PROVE FALSE
    <3>1. m \in DOMAIN s.queue /\ m - 1 \in E
      <4>1. m \in 1 .. Len(s.queue)
        BY <1>1, <2>1, SMT
      <4>2. m \in {q \in DOMAIN s.queue : s.queue[q] = 0}
        BY <1>1, <2>2, <4>1, Zenon
      <4>3. m - 1 \in {n - 1 : n \in {q \in DOMAIN s.queue : s.queue[q] = 0}}
        BY <4>2, Zenon
      <4> QED BY <1>1, <4>1, <4>3, Zenon
    <3>2. Ready(s) <= m - 1
      BY <1>3, <1>4, <1>5, <3>1, Zenon
    <3> QED BY <2>1, <3>2, SMT
  <2> QED BY <1>1, <2>1, <2>2, SMT
<1>6. s.error => Ready(s) = 0
  BY DEF Ready
<1>7. Ready(s) \in 0 .. Len(s.queue)
      /\ \A m \in 1 .. Ready(s) : s.queue[m] # 0
  BY <1>1, <1>5, <1>6, SMT
<1>8. GUARD \in Nat /\ Room \in Nat
  BY SMT DEF NetNatAssumption, Room
<1> DEFINE T == {Ready(s), GUARD, Room}
<1>9. T \in SUBSET Nat /\ T # {} /\ Emitted(s) = Fewest(T)
  BY <1>1, <1>7, <1>8, SMT DEF Emitted
<1>10. Emitted(s) \in T /\ \A m \in T : Emitted(s) <= m
  <2> HIDE DEF T
  <2> QED BY <1>9, FewestIsLeast
<1>11. /\ Emitted(s) \in Nat
       /\ Emitted(s) <= Ready(s) /\ Emitted(s) <= GUARD /\ Emitted(s) <= Room
  BY <1>1, <1>7, <1>8, <1>10, SMT
<1> QED BY <1>1, <1>6, <1>7, <1>8, <1>11, SMT

---------------------------------------------------------------------------
(* The table.                                                               *)

(* What a step leaves of the flows and of the sockets.                      *)
SameFlows ==
  \A i \in Slots : /\ flow'[i].used = flow[i].used
                   /\ flow[i].used => /\ flow'[i].to = flow[i].to
                                      /\ flow'[i].proto = flow[i].proto
                                      /\ flow'[i].handle = flow[i].handle

SameSockets ==
  \A h \in Handles : /\ sock'[h].used = sock[h].used
                     /\ sock[h].used => sock'[h].to = sock[h].to

(* No socket has anything that it did not have.                             *)
NothingNew ==
  \A h \in Handles : sock'[h].used =>
    \/ sock[h].used /\ sock'[h].to = sock[h].to /\ sock'[h].queue = sock[h].queue
    \/ sock'[h].queue = << >>

LEMMA UsedIsFlow ==
  ASSUME NEW f \in {NoFlow} \cup Flow, f.used
  PROVE  /\ f \in Flow
         /\ f.to \in Udp \cup Tcp /\ f.handle \in Handles
         /\ f.proto \in {"UDP", "TCP"} /\ f.age \in 0 .. Old
<1>1. f \in Flow
  BY DEF NoFlow
<1> QED BY <1>1 DEF Flow

LEMMA UsedIsSocket ==
  ASSUME NEW s \in {Closed} \cup Socket, s.used
  PROVE  /\ s \in Socket
         /\ s.to \in Udp \cup Tcp /\ s.error \in BOOLEAN
         /\ s.queue \in Seq(0 .. MAX_SENT)
<1>1. s \in Socket
  BY DEF Closed
<1> QED BY <1>1 DEF Socket

LEMMA QueueOfNumbers ==
  ASSUME MAX_SENT \in Nat, NEW q \in Seq(0 .. MAX_SENT), NEW m \in DOMAIN q
  PROVE  q[m] \in 0 .. MAX_SENT /\ q[m] \in Nat
BY ElementOfSeq, LenProperties

(* A flow that ages, and a socket's queue, do not change the table.         *)
LEMMA SameTable ==
  ASSUME Table, SameFlows, SameSockets,
         flow' \in [Slots -> {NoFlow} \cup Flow],
         sock' \in [Handles -> {Closed} \cup Socket]
  PROVE  Table'
<1>1. flow \in [Slots -> {NoFlow} \cup Flow]
  BY DEF Table
<1>2. \A i \in Slots : flow[i].used => flow[i].handle \in Handles
  BY <1>1, UsedIsFlow
<1>3. SocketsAreFlows'
  BY <1>2 DEF Table, SocketsAreFlows, SameFlows, SameSockets
<1>4. Kinds'
  BY DEF Table, Kinds, SameFlows
<1> QED BY <1>3, <1>4 DEF Table

LEMMA AgedIsFlow ==
  ASSUME NEW f \in {NoFlow} \cup Flow, f.used, NEW n \in 0 .. Old
  PROVE  /\ [f EXCEPT !.age = n] \in Flow
         /\ [f EXCEPT !.age = n].used /\ [f EXCEPT !.age = n].to = f.to
         /\ [f EXCEPT !.age = n].proto = f.proto
         /\ [f EXCEPT !.age = n].handle = f.handle
<1>1. f \in Flow
  BY DEF NoFlow
<1> QED BY <1>1 DEF Flow

(* A slot and a socket that were free are taken for a new conversation.     *)
LEMMA OpenedKeeps ==
  ASSUME NetNatAssumption, Table, NEW c \in Udp \cup Tcp,
         NEW proto \in {"UDP", "TCP"}, Kind(c, proto),
         net_flow_find(c) = {},
         NEW i \in net_flow_alloc, NEW h \in h_open, Opened(i, h, c, proto)
  PROVE  Table' /\ NothingNew
<1> DEFINE f == [used |-> TRUE, proto |-> proto, to |-> c, handle |-> h, age |-> 0]
           s == [used |-> TRUE, to |-> c, queue |-> << >>, error |-> FALSE]
<1>1. i \in Slots /\ ~flow[i].used /\ h \in Handles /\ ~sock[h].used
  BY DEF net_flow_alloc, h_open, First
<1>2. flow' = [flow EXCEPT ![i] = f] /\ sock' = [sock EXCEPT ![h] = s]
  BY DEF Opened
<1>3. f \in Flow
  BY <1>1, SMT DEF Flow, Old, NetNatAssumption
<1>4. s \in Socket
  BY DEF Socket
<1>5. /\ flow \in [Slots -> {NoFlow} \cup Flow]
      /\ sock \in [Handles -> {Closed} \cup Socket]
  BY DEF Table
<1>6. /\ flow' \in [Slots -> {NoFlow} \cup Flow]
      /\ sock' \in [Handles -> {Closed} \cup Socket]
  BY <1>2, <1>3, <1>4, <1>5
<1>7. /\ flow'[i] = f /\ \A j \in Slots \ {i} : flow'[j] = flow[j]
      /\ sock'[h] = s /\ \A k \in Handles \ {h} : sock'[k] = sock[k]
  BY <1>1, <1>2, <1>5
<1>8. f.used /\ f.to = c /\ f.handle = h /\ f.proto = proto
      /\ s.used /\ s.to = c /\ s.queue = << >>
  OBVIOUS
<1>9. \A j \in Slots : flow[j].used => /\ flow[j].handle \in Handles \ {h}
                                       /\ flow[j].to # c
  BY <1>1, <1>5, UsedIsFlow DEF Table, SocketsAreFlows, net_flow_find
<1> HIDE DEF f, s
<1>10. SocketsAreFlows'
  BY <1>1, <1>7, <1>8, <1>9 DEF Table, SocketsAreFlows
<1>11. Kinds'
  BY <1>1, <1>7, <1>8 DEF Table, Kinds
<1> QED BY <1>1, <1>6, <1>7, <1>8, <1>10, <1>11 DEF Table, NothingNew

(* A flow ends, and its socket with it.                                     *)
LEMMA FreedKeeps ==
  ASSUME Table, NEW i \in Slots, flow[i].used, net_flow_free(i)
  PROVE  Table' /\ NothingNew
<1>1. /\ flow \in [Slots -> {NoFlow} \cup Flow]
      /\ sock \in [Handles -> {Closed} \cup Socket]
  BY DEF Table
<1> DEFINE h == flow[i].handle
<1>2. h \in Handles /\ \A j \in Slots : flow[j].used => flow[j].handle \in Handles
  BY <1>1, UsedIsFlow
<1>3. /\ flow'[i] = NoFlow /\ \A j \in Slots \ {i} : flow'[j] = flow[j]
      /\ sock'[h] = Closed /\ \A k \in Handles \ {h} : sock'[k] = sock[k]
  BY <1>1, <1>2 DEF net_flow_free
<1>4. /\ flow' \in [Slots -> {NoFlow} \cup Flow]
      /\ sock' \in [Handles -> {Closed} \cup Socket]
  BY <1>1 DEF net_flow_free
<1>5. ~NoFlow.used /\ ~Closed.used
  BY DEF NoFlow, Closed
<1>6. SocketsAreFlows'
  <2>1. \A j \in Slots : flow'[j].used =>
          j # i /\ flow'[j] = flow[j] /\ flow[j].used /\ flow[j].handle # h
    BY <1>3, <1>5 DEF Table, SocketsAreFlows
  <2>2. \A k \in Handles : sock'[k].used => k # h /\ sock'[k] = sock[k]
    BY <1>3, <1>5
  <2> QED BY <1>2, <1>3, <2>1, <2>2 DEF Table, SocketsAreFlows
<1>7. Kinds'
  BY <1>3, <1>5 DEF Table, Kinds
<1> QED BY <1>2, <1>3, <1>4, <1>5, <1>6, <1>7 DEF Table, NothingNew

---------------------------------------------------------------------------
(* The stream.                                                              *)

(* The ring is what it was, but for what is not a datagram of UDP.          *)
Calm ==
  /\ out' \in Seq(Datagram) /\ Len(out') <= NET_OUT_SLOTS
  /\ \A i \in DOMAIN out' : \/ i \in DOMAIN out /\ out'[i] = out[i]
                            \/ out'[i].proto # "UDP"

LEMMA EmptyRingIsCalm ==
  ASSUME NetNatAssumption, out' = << >>
  PROVE  Calm
BY DEF Calm, NetNatAssumption

LEMMA SameRingIsCalm ==
  ASSUME Stream, out' = out
  PROVE  Calm
BY DEF Calm, Stream

LEMMA AppendIsCalm ==
  ASSUME NetNatAssumption, Stream, NEW d \in Datagram, d.proto # "UDP",
         Room > 0, out' = Append(out, d)
  PROVE  Calm
<1>1. out \in Seq(Datagram) /\ Len(out) \in Nat /\ Len(out) <= NET_OUT_SLOTS
      /\ DOMAIN out = 1 .. Len(out) /\ NET_OUT_SLOTS \in Nat
  BY DEF Stream, NetNatAssumption
<1>2. /\ out' \in Seq(Datagram) /\ Len(out') = Len(out) + 1
      /\ DOMAIN out' = 1 .. Len(out) + 1
      /\ \A i \in 1 .. Len(out) : out'[i] = out[i]
      /\ out'[Len(out) + 1] = d
  BY <1>1, AppendProperties, LenProperties
<1>3. Len(out') <= NET_OUT_SLOTS
  BY <1>1, <1>2 DEF Room
<1> QED BY <1>1, <1>2, <1>3 DEF Calm

LEMMA EmitIsCalm ==
  ASSUME NetNatAssumption, Stream, NEW p \in {"ICMP", "DNS", "TCP"},
         out' = out \/ out' = net_emit([proto |-> p])
  PROVE  Calm
<1>1. [proto |-> p] \in Datagram /\ [proto |-> p].proto # "UDP"
  BY DEF Datagram
<1>2. CASE out' = out
  BY <1>2, SameRingIsCalm
<1>3. CASE out' = Append(out, [proto |-> p]) /\ Room > 0
  BY <1>1, <1>3, AppendIsCalm
<1> QED BY <1>2, <1>3 DEF net_emit

(* Nothing new in a socket and nothing of UDP in the ring: what waits is some
   of what waited, in the same order.                                       *)
LEMMA CalmKeeps ==
  ASSUME Stream, NothingNew, Calm, got' = got, sent' = sent
  PROVE  Stream'
<1>1. \A c \in Udp : \A i \in DOMAIN out' : InRing(i, c)' =>
        i \in DOMAIN out /\ InRing(i, c) /\ out'[i] = out[i]
  BY DEF Calm, InRing
<1>2. \A h \in Handles : sock'[h].used =>
        \A m \in DOMAIN sock'[h].queue :
          sock[h].used /\ sock'[h].to = sock[h].to /\ sock'[h].queue = sock[h].queue
  BY DEF NothingNew
<1>3. InOrder'
  <2>1. ASSUME NEW c \in Udp, NEW i \in DOMAIN out', InRing(i, c)'
        PROVE  /\ out'[i].from = c
               /\ got[c] < out'[i].id
               /\ \A j \in DOMAIN out' : i < j /\ InRing(j, c)' =>
                    out'[i].id < out'[j].id
    BY <1>1, <2>1 DEF Stream, InOrder
  <2>2. ASSUME NEW c \in Udp, NEW h \in Handles, sock'[h].used, sock'[h].to = c,
               NEW m \in DOMAIN sock'[h].queue, sock'[h].queue[m] # 0
        PROVE  /\ got[c] < sock'[h].queue[m]
               /\ \A i \in DOMAIN out' : InRing(i, c)' =>
                    out'[i].id < sock'[h].queue[m]
               /\ \A n \in DOMAIN sock'[h].queue :
                    m < n /\ sock'[h].queue[n] # 0 =>
                      sock'[h].queue[m] < sock'[h].queue[n]
    <3>1. sock[h].used /\ sock'[h].to = sock[h].to /\ sock'[h].queue = sock[h].queue
      BY <1>2, <2>2
    <3> QED BY <1>1, <2>2, <3>1 DEF Stream, InOrder
  <2> QED BY <2>1, <2>2 DEF InOrder
<1>4. Numbered'
  BY <1>1, <1>2 DEF Stream, Numbered
<1> QED BY <1>3, <1>4 DEF Stream, Calm

(* net_output: the guest has the first of the ring, which is the oldest of
   its conversation and has a number no other has.                          *)
LEMMA OutputKeeps ==
  ASSUME NetNatAssumption, IInv, net_output
  PROVE  Stream'
<1>1. out \in Seq(Datagram) /\ out # << >> /\ Len(out) \in Nat /\ Len(out) > 0
      /\ DOMAIN out = 1 .. Len(out) /\ NET_OUT_SLOTS \in Nat
      /\ Len(out) <= NET_OUT_SLOTS
  BY DEF IInv, Stream, NetNatAssumption, net_output
<1>2. /\ out' \in Seq(Datagram) /\ Len(out') = Len(out) - 1
      /\ DOMAIN out' = 1 .. Len(out) - 1
      /\ \A i \in DOMAIN out' : i + 1 \in DOMAIN out /\ out'[i] = out[i + 1]
  BY <1>1 DEF net_output
<1>3. \A c \in Udp : \A i \in DOMAIN out' : InRing(i, c)' => InRing(i + 1, c)
  BY <1>1, <1>2 DEF InRing
<1>4. sent' = sent /\ sock' = sock
  BY DEF net_output
<1>5. sent \in [Udp -> 0 .. MAX_SENT] /\ got \in [Udp -> 0 .. MAX_SENT]
  BY DEF IInv, Stream
<1> DEFINE d == Head(out)
<1>6. d = out[1] /\ d \in Datagram /\ 1 \in DOMAIN out
  BY <1>1
<1>7. /\ got' \in [Udp -> 0 .. MAX_SENT]
      /\ \A c \in Udp : \/ got'[c] = got[c]
                        \/ InRing(1, c) /\ got'[c] = out[1].id
  <2>1. CASE d.proto = "UDP"
    <3>1. d.to \in Udp /\ d.id \in 1 .. MAX_SENT
      BY <1>6, <2>1 DEF Datagram
    <3>2. got' = [got EXCEPT ![d.to] = d.id]
      BY <2>1 DEF net_output
    <3> QED BY <1>5, <1>6, <2>1, <3>1, <3>2 DEF InRing
  <2>2. CASE d.proto # "UDP"
    BY <1>5, <2>2 DEF net_output
  <2> QED BY <2>1, <2>2
<1> HIDE DEF d
<1>8. InOrder'
  <2>1. ASSUME NEW c \in Udp, NEW i \in DOMAIN out', InRing(i, c)'
        PROVE  /\ out'[i].from = c
               /\ got'[c] < out'[i].id
               /\ \A j \in DOMAIN out' : i < j /\ InRing(j, c)' =>
                    out'[i].id < out'[j].id
    <3>1. /\ out[i + 1].from = c
          /\ got[c] < out[i + 1].id
          /\ \A j \in DOMAIN out : i + 1 < j /\ InRing(j, c) =>
               out[i + 1].id < out[j].id
      BY <1>2, <1>3, <2>1 DEF IInv, Stream, InOrder
    <3>2. got'[c] < out[i + 1].id
      <4>1. InRing(1, c) => out[1].id < out[i + 1].id
        <5>1. 1 < i + 1 /\ i + 1 \in DOMAIN out /\ InRing(i + 1, c)
          BY <1>2, <1>3, <2>1
        <5> QED BY <1>6, <5>1 DEF IInv, Stream, InOrder
      <4> QED BY <1>7, <3>1, <4>1
    <3>3. ASSUME NEW j \in DOMAIN out', i < j, InRing(j, c)'
          PROVE  out'[i].id < out'[j].id
      <4>1. i + 1 < j + 1 /\ j + 1 \in DOMAIN out /\ InRing(j + 1, c)
        BY <1>2, <1>3, <3>3
      <4> QED BY <1>2, <3>1, <4>1
    <3> QED BY <1>2, <3>1, <3>2, <3>3
  <2>2. ASSUME NEW c \in Udp, NEW h \in Handles, sock[h].used, sock[h].to = c,
               NEW m \in DOMAIN sock[h].queue, sock[h].queue[m] # 0
        PROVE  /\ got'[c] < sock[h].queue[m]
               /\ \A i \in DOMAIN out' : InRing(i, c)' =>
                    out'[i].id < sock[h].queue[m]
               /\ \A n \in DOMAIN sock[h].queue :
                    m < n /\ sock[h].queue[n] # 0 =>
                      sock[h].queue[m] < sock[h].queue[n]
    <3>1. /\ got[c] < sock[h].queue[m]
          /\ \A i \in DOMAIN out : InRing(i, c) => out[i].id < sock[h].queue[m]
          /\ \A n \in DOMAIN sock[h].queue : m < n /\ sock[h].queue[n] # 0 =>
               sock[h].queue[m] < sock[h].queue[n]
      BY <2>2 DEF IInv, Stream, InOrder
    <3>2. got'[c] < sock[h].queue[m]
      BY <1>6, <1>7, <3>1
    <3> QED BY <1>2, <1>3, <3>1, <3>2
  <2> QED BY <1>4, <2>1, <2>2 DEF InOrder
<1>9. Numbered'
  <2>1. \A c \in Udp : got'[c] <= sent[c]
    BY <1>6, <1>7 DEF IInv, Stream, Numbered
  <2>2. \A c \in Udp : \A i \in DOMAIN out' : InRing(i, c)' => out'[i].id <= sent[c]
    BY <1>2, <1>3 DEF IInv, Stream, Numbered
  <2> QED BY <1>4, <2>1, <2>2 DEF IInv, Stream, Numbered
<1> QED BY <1>1, <1>2, <1>4, <1>5, <1>7, <1>8, <1>9 DEF Stream

(* Arrives: the number of what is sent now is ahead of all that was sent.   *)
LEMMA SentKeeps ==
  ASSUME NetNatAssumption, IInv, NEW h \in Handles,
         sock[h].used, sock[h].to \in Udp, sent[sock[h].to] < MAX_SENT,
         sent' = [sent EXCEPT ![sock[h].to] = @ + 1],
         NEW id \in {0, sent[sock[h].to] + 1},
         sock' = [sock EXCEPT ![h].queue = Append(@, id)],
         out' = out, got' = got, flow' = flow
  PROVE  Table' /\ Stream'
<1> DEFINE s == sock[h]
           c == s.to
           r == [s EXCEPT !.queue = Append(s.queue, id)]
<1>1. /\ flow \in [Slots -> {NoFlow} \cup Flow]
      /\ sock \in [Handles -> {Closed} \cup Socket]
  BY DEF IInv, Table
<1>2. s \in Socket /\ s.queue \in Seq(0 .. MAX_SENT)
  BY <1>1, UsedIsSocket
<1>3. sent \in [Udp -> 0 .. MAX_SENT] /\ got \in [Udp -> 0 .. MAX_SENT]
      /\ MAX_SENT \in Nat
  BY DEF IInv, Stream, NetNatAssumption
<1>4. sent' \in [Udp -> 0 .. MAX_SENT] /\ id \in 0 .. MAX_SENT
  BY <1>3, SMTT(30)
<1>5. /\ Append(s.queue, id) \in Seq(0 .. MAX_SENT)
      /\ Len(Append(s.queue, id)) = Len(s.queue) + 1
      /\ \A m \in 1 .. Len(s.queue) : Append(s.queue, id)[m] = s.queue[m]
      /\ Append(s.queue, id)[Len(s.queue) + 1] = id
      /\ DOMAIN Append(s.queue, id) = 1 .. Len(s.queue) + 1
      /\ DOMAIN s.queue = 1 .. Len(s.queue) /\ Len(s.queue) \in Nat
  BY <1>2, <1>4, AppendProperties, LenProperties
<1>6. r \in Socket /\ r.used /\ r.to = s.to /\ r.queue = Append(s.queue, id)
  <2>1. Append(s.queue, id) \in Seq(0 .. MAX_SENT)
    BY <1>5
  <2> QED BY <1>2, <2>1 DEF Socket
<1>7. sock'[h] = r /\ \A k \in Handles \ {h} : sock'[k] = sock[k]
  BY <1>1
<1>8. sock' \in [Handles -> {Closed} \cup Socket]
  BY <1>1, <1>6
<1> HIDE DEF r
<1>9. Table'
  <2>1. SameFlows
    BY DEF SameFlows
  <2>2. SameSockets
    BY <1>6, <1>7 DEF SameSockets
  <2> QED BY <1>1, <1>8, <2>1, <2>2, SameTable DEF IInv
<1>10. ASSUME NEW d \in Udp, NEW k \in Handles, sock'[k].used, sock'[k].to = d,
              NEW m \in DOMAIN sock'[k].queue
       PROVE  /\ sock[k].used /\ sock[k].to = d
              /\ \/ m \in DOMAIN sock[k].queue /\ sock'[k].queue[m] = sock[k].queue[m]
                 \/ /\ k = h /\ d = c /\ m = Len(s.queue) + 1
                    /\ sock'[k].queue[m] = id
  BY <1>5, <1>6, <1>7, <1>10, SMTT(30)
<1>11. /\ got[c] <= sent[c]
       /\ \A i \in DOMAIN out : InRing(i, c) => out[i].id <= sent[c]
       /\ \A m \in DOMAIN s.queue : s.queue[m] <= sent[c]
  BY DEF IInv, Stream, Numbered
<1>12. /\ sent'[c] = sent[c] + 1 /\ sent[c] \in Nat
       /\ \A d \in Udp : sent[d] <= sent'[d] /\ sent[d] \in Nat /\ sent'[d] \in Nat
       /\ \A d \in Udp : got[d] \in Nat
  BY <1>3
<1>13. \A i \in DOMAIN out : \A d \in Udp : InRing(i, d) => out[i].id \in Nat
  <2>1. \A i \in DOMAIN out : out[i] \in Datagram
    BY DEF IInv, Stream
  <2>2. \A e \in Datagram : e.proto = "UDP" => e.id \in 1 .. MAX_SENT
    BY DEF Datagram
  <2> QED BY <1>3, <2>1, <2>2 DEF InRing
<1>14. \A m \in DOMAIN s.queue : s.queue[m] \in Nat
  BY <1>2, <1>3, QueueOfNumbers
<1>15. c \in Udp
  OBVIOUS
<1>16. DOMAIN sock'[h].queue = 1 .. Len(s.queue) + 1
  BY <1>5, <1>6, <1>7
<1> HIDE DEF s, c
<1>17. InOrder'
  <2>1. ASSUME NEW d \in Udp, NEW k \in Handles, sock'[k].used, sock'[k].to = d,
               NEW m \in DOMAIN sock'[k].queue, sock'[k].queue[m] # 0
        PROVE  /\ got[d] < sock'[k].queue[m]
               /\ \A i \in DOMAIN out : InRing(i, d) => out[i].id < sock'[k].queue[m]
               /\ \A n \in DOMAIN sock'[k].queue :
                    m < n /\ sock'[k].queue[n] # 0 =>
                      sock'[k].queue[m] < sock'[k].queue[n]
    <3>1. CASE m \in DOMAIN sock[k].queue /\ sock'[k].queue[m] = sock[k].queue[m]
      <4>1. sock[k].used /\ sock[k].to = d
        BY <1>10, <2>1
      <4>2. /\ got[d] < sock[k].queue[m]
            /\ \A i \in DOMAIN out : InRing(i, d) => out[i].id < sock[k].queue[m]
            /\ \A n \in DOMAIN sock[k].queue : m < n /\ sock[k].queue[n] # 0 =>
                 sock[k].queue[m] < sock[k].queue[n]
        BY <2>1, <3>1, <4>1 DEF IInv, Stream, InOrder
      <4>3. ASSUME NEW n \in DOMAIN sock'[k].queue, m < n, sock'[k].queue[n] # 0
            PROVE  sock'[k].queue[m] < sock'[k].queue[n]
        <5>1. CASE n \in DOMAIN sock[k].queue /\ sock'[k].queue[n] = sock[k].queue[n]
          BY <3>1, <4>2, <4>3, <5>1
        <5>2. CASE k = h /\ d = c /\ sock'[k].queue[n] = id
          <6>1. id = sent[c] + 1
            BY <4>3, <5>2 DEF s, c
          <6>2. sock[k].queue[m] = s.queue[m] /\ m \in DOMAIN s.queue
            BY <3>1, <5>2 DEF s
          <6>3. s.queue[m] < sent[c] + 1
            BY <1>11, <1>12, <1>14, <1>15, <6>2
          <6> QED BY <3>1, <5>2, <6>1, <6>2, <6>3
        <5> QED BY <1>10, <2>1, <4>3, <5>1, <5>2
      <4> QED BY <3>1, <4>2, <4>3
    <3>2. CASE k = h /\ d = c /\ m = Len(s.queue) + 1 /\ sock'[k].queue[m] = id
      <4>1. id = sent[c] + 1
        BY <2>1, <3>2 DEF s, c
      <4>2. \A n \in DOMAIN sock'[k].queue : ~(m < n)
        BY <1>5, <1>16, <3>2
      <4>3. \A i \in DOMAIN out : InRing(i, c) => out[i].id < sent[c] + 1
        BY <1>11, <1>12, <1>13, <1>15
      <4>4. got[c] < sent[c] + 1
        BY <1>11, <1>12, <1>15
      <4> QED BY <3>2, <4>1, <4>2, <4>3, <4>4, Zenon
    <3>3. \/ m \in DOMAIN sock[k].queue /\ sock'[k].queue[m] = sock[k].queue[m]
          \/ k = h /\ d = c /\ m = Len(s.queue) + 1 /\ sock'[k].queue[m] = id
      BY <1>10, <2>1
    <3> QED BY <3>1, <3>2, <3>3
  <2>2. \A d \in Udp : \A i \in DOMAIN out : InRing(i, d)' <=> InRing(i, d)
    BY DEF InRing
  <2> QED BY <2>1, <2>2, ZenonT(30) DEF IInv, Stream, InOrder
<1>18. Numbered'
  <2>1. \A d \in Udp : got'[d] <= sent'[d]
    BY <1>12 DEF IInv, Stream, Numbered
  <2>2. \A d \in Udp : \A i \in DOMAIN out' : InRing(i, d)' => out'[i].id <= sent'[d]
    <3>1. \A d \in Udp : \A i \in DOMAIN out : InRing(i, d) => out[i].id <= sent[d]
      BY DEF IInv, Stream, Numbered
    <3>2. \A d \in Udp : \A i \in DOMAIN out : InRing(i, d)' <=> InRing(i, d)
      BY DEF InRing
    <3> QED BY <1>12, <1>13, <3>1, <3>2
  <2>3. ASSUME NEW d \in Udp, NEW k \in Handles, sock'[k].used, sock'[k].to = d,
               NEW m \in DOMAIN sock'[k].queue
        PROVE  sock'[k].queue[m] <= sent'[d]
    <3>1. CASE m \in DOMAIN sock[k].queue /\ sock'[k].queue[m] = sock[k].queue[m]
      <4>1. sock[k].used /\ sock[k].to = d
        BY <1>10, <2>3
      <4>2. sock[k].queue[m] <= sent[d]
        BY <3>1, <4>1 DEF IInv, Stream, Numbered
      <4>3. sock[k].queue[m] \in Nat
        <5>1. sock[k].queue \in Seq(0 .. MAX_SENT)
          BY <1>1, <4>1, UsedIsSocket
        <5> QED BY <1>3, <3>1, <5>1, QueueOfNumbers
      <4> QED BY <1>12, <3>1, <4>2, <4>3, SMTT(30)
    <3>2. CASE d = c /\ sock'[k].queue[m] = id
      BY <1>12, <3>2, SMTT(30) DEF s, c
    <3> QED BY <1>10, <2>3, <3>1, <3>2
  <2> QED BY <2>1, <2>2, <2>3 DEF Numbered
<1> QED BY <1>3, <1>4, <1>9, <1>17, <1>18 DEF IInv, Stream

(* A sequence without its first n elements.                                 *)
LEMMA SuffixProperties ==
  ASSUME NEW S, NEW q \in Seq(S), NEW n \in 0 .. Len(q)
  PROVE  /\ SubSeq(q, n + 1, Len(q)) \in Seq(S)
         /\ Len(SubSeq(q, n + 1, Len(q))) = Len(q) - n
         /\ \A m \in 1 .. Len(q) - n : SubSeq(q, n + 1, Len(q))[m] = q[m + n]
<1> DEFINE l == Len(q)
           r == SubSeq(q, n + 1, l)
<1>1. l \in Nat /\ n + 1 \in Int /\ l \in Int
  BY LenProperties
<1>2. \A i \in n + 1 .. l : q[i] \in S
  BY ElementOfSeq
<1>3. /\ r \in Seq(S)
      /\ Len(r) = IF n + 1 <= l THEN l - (n + 1) + 1 ELSE 0
      /\ \A m \in 1 .. l - (n + 1) + 1 : r[m] = q[n + 1 + m - 1]
  <2> HIDE DEF l
  <2> QED BY <1>1, <1>2, SubSeqProperties
<1> HIDE DEF r
<1>4. Len(r) = l - n
  <2>1. n \in 0 .. l
    OBVIOUS
  <2> HIDE DEF l
  <2> QED BY <1>1, <1>3, <2>1
<1>5. ASSUME NEW m \in 1 .. l - n PROVE r[m] = q[m + n]
  <2>1. m \in 1 .. l - (n + 1) + 1 /\ n + 1 + m - 1 = m + n
    BY <1>1
  <2> QED BY <1>3, <2>1, Zenon
<1> QED BY <1>3, <1>4, <1>5 DEF r

(* What a poll leaves of a socket: its queue but for the first ones, at least
   as many as were emitted.                                                 *)
LEMMA RestIsSuffix ==
  ASSUME NetNatAssumption, NEW s \in Socket, Len(out) \in 0 .. NET_OUT_SLOTS
  PROVE  /\ Rest(s) \in Socket /\ Rest(s).used /\ Rest(s).to = s.to
         /\ \E k \in Emitted(s) .. Len(s.queue) :
              /\ DOMAIN Rest(s).queue = 1 .. Len(s.queue) - k
              /\ \A m \in DOMAIN Rest(s).queue : Rest(s).queue[m] = s.queue[m + k]
<1> DEFINE q == s.queue
<1>1. /\ q \in Seq(0 .. MAX_SENT) /\ Len(q) \in Nat /\ DOMAIN q = 1 .. Len(q)
      /\ s.used /\ s.error \in BOOLEAN
  <2>1. q \in Seq(0 .. MAX_SENT) /\ s.used /\ s.error \in BOOLEAN
    BY DEF Socket
  <2> QED BY <2>1, LenProperties
<1>2. Emitted(s) \in 0 .. Len(q) /\ (s.error => Emitted(s) = 0)
  BY EmittedAreDatagrams
<1>3. CASE s.error
  <2>1. Rest(s) = [s EXCEPT !.error = FALSE]
    BY <1>3 DEF Rest
  <2>2. /\ Rest(s) \in Socket /\ Rest(s).used /\ Rest(s).to = s.to
        /\ Rest(s).queue = q
    BY <1>1, <2>1 DEF Socket
  <2>3. 0 \in Emitted(s) .. Len(q)
    BY <1>1, <1>2, <1>3
  <2> QED BY <1>1, <2>2, <2>3
<1>4. CASE ~s.error
  <2> DEFINE T == {Emitted(s) + 1, Len(q)}
             n == IF Emitted(s) = GUARD THEN GUARD ELSE Fewest(T)
  <2>1. T \in SUBSET Nat /\ T # {}
    BY <1>1, <1>2
  <2>2. Fewest(T) \in T /\ \A m \in T : Fewest(T) <= m
    <3> HIDE DEF T
    <3> QED BY <2>1, FewestIsLeast
  <2>3. n \in Emitted(s) .. Len(q)
    <3>1. Fewest(T) \in Emitted(s) .. Len(q)
      BY <1>1, <1>2, <2>2
    <3> HIDE DEF T
    <3> QED BY <1>2, <3>1
  <2>4. Rest(s) = [s EXCEPT !.queue = SubSeq(q, n + 1, Len(q))]
    BY <1>4 DEF Rest
  <2> HIDE DEF n
  <2>5. /\ SubSeq(q, n + 1, Len(q)) \in Seq(0 .. MAX_SENT)
        /\ Len(SubSeq(q, n + 1, Len(q))) = Len(q) - n
        /\ \A m \in 1 .. Len(q) - n : SubSeq(q, n + 1, Len(q))[m] = q[m + n]
    <3>1. n \in 0 .. Len(q)
      BY <1>1, <1>2, <2>3
    <3> HIDE DEF q
    <3> QED BY <1>1, <3>1, SuffixProperties
  <2>6. DOMAIN SubSeq(q, n + 1, Len(q)) = 1 .. Len(q) - n
    BY <2>5, LenProperties
  <2>7. /\ Rest(s) \in Socket /\ Rest(s).used /\ Rest(s).to = s.to
        /\ Rest(s).queue = SubSeq(q, n + 1, Len(q))
    BY <1>1, <2>4, <2>5 DEF Socket
  <2> QED BY <2>3, <2>5, <2>6, <2>7
<1> QED BY <1>1, <1>3, <1>4

(* udp_poll of the socket s, with n datagrams.                              *)
Poll(s, n) ==
  /\ tick \in Slots /\ flow[tick].used /\ flow[tick].proto = "UDP"
  /\ s = sock[flow[tick].handle]
  /\ n = Emitted(s)
  /\ out' = out \o [m \in 1 .. n |-> [proto |-> "UDP", to |-> flow[tick].to,
                                      from |-> s.to, id |-> s.queue[m]]]
  /\ \/ sock' = [sock EXCEPT ![flow[tick].handle] = Closed]
     \/ sock' = [sock EXCEPT ![flow[tick].handle] = Rest(s)]
  /\ got' = got /\ sent' = sent

(* udp_poll: what goes from the socket to the ring is the oldest that waits,
   after all that the ring has of the conversation.                         *)
LEMMA PollKeepsStream ==
  ASSUME NetNatAssumption, IInv, NEW s, NEW n, Poll(s, n)
  PROVE  Stream'
<1> DEFINE c == flow[tick].to
           h == flow[tick].handle
           new == [m \in 1 .. n |-> [proto |-> "UDP", to |-> c,
                                     from |-> s.to, id |-> s.queue[m]]]
<1>1. /\ flow \in [Slots -> {NoFlow} \cup Flow]
      /\ sock \in [Handles -> {Closed} \cup Socket]
  BY DEF IInv, Table
<1>2. c \in Udp /\ h \in Handles
  BY <1>1, UsedIsFlow DEF IInv, Table, Kinds, Kind, Poll
<1>3. s.used /\ s.to = c /\ s \in Socket /\ s.queue \in Seq(0 .. MAX_SENT)
  BY <1>1, <1>2, UsedIsSocket DEF IInv, Table, SocketsAreFlows, Poll
<1>4. \A k \in Handles : sock[k].used /\ sock[k].to = c => k = h
  BY <1>1, UsedIsFlow DEF IInv, Table, SocketsAreFlows, Poll
<1>5. /\ out \in Seq(Datagram) /\ Len(out) \in Nat /\ Len(out) <= NET_OUT_SLOTS
      /\ DOMAIN out = 1 .. Len(out) /\ NET_OUT_SLOTS \in Nat /\ MAX_SENT \in Nat
  BY DEF IInv, Stream, NetNatAssumption
<1>6. /\ n \in 0 .. Len(s.queue) /\ n <= Room
      /\ \A m \in 1 .. n : s.queue[m] # 0
      /\ Len(s.queue) \in Nat /\ DOMAIN s.queue = 1 .. Len(s.queue)
  <2>1. Len(out) \in 0 .. NET_OUT_SLOTS
    BY <1>5
  <2> QED BY <1>3, <2>1, EmittedAreDatagrams, LenProperties DEF Poll
<1>7. \A m \in 1 .. n : m \in DOMAIN s.queue /\ s.queue[m] \in 1 .. MAX_SENT
  <2>1. \A m \in DOMAIN s.queue : s.queue[m] \in 0 .. MAX_SENT
    BY <1>3, <1>5, QueueOfNumbers
  <2> QED BY <1>5, <1>6, <2>1, SMTT(30)
<1>8. /\ new \in Seq(Datagram) /\ Len(new) = n
      /\ \A m \in 1 .. n : /\ new[m].proto = "UDP" /\ new[m].to = c
                           /\ new[m].from = c /\ new[m].id = s.queue[m]
  <2>1. \A m \in 1 .. n : new[m] \in Datagram
    BY <1>2, <1>3, <1>7 DEF Datagram
  <2>2. new \in [1 .. n -> Datagram] /\ n \in Nat
    BY <1>6, <2>1
  <2>3. new \in Seq(Datagram) /\ Len(new) = n
    <3> HIDE DEF new
    <3> QED BY <2>2
  <2> QED BY <1>3, <2>3
<1>9. /\ out' \in Seq(Datagram) /\ Len(out') = Len(out) + n
      /\ DOMAIN out' = 1 .. Len(out) + n
      /\ \A i \in DOMAIN out : out'[i] = out[i]
      /\ \A i \in DOMAIN out' : i \notin DOMAIN out =>
           i - Len(out) \in 1 .. n /\ out'[i] = new[i - Len(out)]
  <2>1. out' = out \o new
    BY DEF Poll
  <2> HIDE DEF new
  <2>2. /\ out \o new \in Seq(Datagram) /\ Len(out \o new) = Len(out) + Len(new)
        /\ \A i \in 1 .. Len(out) + Len(new) : (out \o new)[i] =
             IF i <= Len(out) THEN out[i] ELSE new[i - Len(out)]
    BY <1>5, <1>8, ConcatProperties
  <2>3. DOMAIN out' = 1 .. Len(out) + n
    BY <1>8, <2>1, <2>2, LenProperties
  <2> QED BY <1>5, <1>6, <1>8, <2>1, <2>2, <2>3
<1>10. Len(out') <= NET_OUT_SLOTS
  BY <1>5, <1>6, <1>9 DEF Room
<1> HIDE DEF new
(* An element of the ring was there, or comes from the queue.               *)
<1>11. ASSUME NEW d \in Udp, NEW i \in DOMAIN out', InRing(i, d)'
       PROVE  \/ i \in DOMAIN out /\ InRing(i, d) /\ out'[i] = out[i]
              \/ /\ i \notin DOMAIN out /\ d = c /\ i - Len(out) \in 1 .. n
                 /\ out'[i].from = c /\ out'[i].id = s.queue[i - Len(out)]
  BY <1>8, <1>9, <1>11, SMTT(30) DEF InRing
(* An element of a socket's queue was there, and nothing of its conversation
   came to the ring that was not before it.                                 *)
<1>12. ASSUME NEW k \in Handles, sock'[k].used
       PROVE  /\ sock[k].used /\ sock'[k].to = sock[k].to
              /\ \E b \in Nat :
                   /\ k = h => n <= b
                   /\ \A m \in DOMAIN sock'[k].queue :
                        /\ m + b \in DOMAIN sock[k].queue
                        /\ sock'[k].queue[m] = sock[k].queue[m + b]
              /\ DOMAIN sock'[k].queue \subseteq Nat \ {0}
  <2>1. CASE k # h
    <3>1. sock'[k] = sock[k]
      BY <1>1, <1>2, <2>1 DEF Poll
    <3>2. sock[k].queue \in Seq(0 .. MAX_SENT)
      BY <1>1, <1>12, <3>1, UsedIsSocket
    <3>3. \A m \in DOMAIN sock[k].queue : m \in Nat \ {0} /\ m + 0 = m
      BY <3>2, LenProperties
    <3> QED BY <1>12, <2>1, <3>1, <3>3
  <2>2. CASE k = h
    <3>1. sock'[k] = Rest(s)
      BY <1>1, <1>2, <1>12, <2>2 DEF Poll, Closed
    <3>2. Len(out) \in 0 .. NET_OUT_SLOTS
      BY <1>5
    <3>3. /\ Rest(s).to = s.to
          /\ \E b \in n .. Len(s.queue) :
               /\ DOMAIN Rest(s).queue = 1 .. Len(s.queue) - b
               /\ \A m \in DOMAIN Rest(s).queue : Rest(s).queue[m] = s.queue[m + b]
      BY <1>3, <3>2, RestIsSuffix DEF Poll
    <3>4. PICK b \in n .. Len(s.queue) :
               /\ DOMAIN Rest(s).queue = 1 .. Len(s.queue) - b
               /\ \A m \in DOMAIN Rest(s).queue : Rest(s).queue[m] = s.queue[m + b]
      BY <3>3
    <3>5. b \in Nat /\ n <= b /\ \A m \in 1 .. Len(s.queue) - b :
            m + b \in 1 .. Len(s.queue)
      BY <1>6
    <3>6. DOMAIN sock'[k].queue \subseteq Nat \ {0}
      BY <1>6, <3>1, <3>4
    <3>7. s = sock[k]
      BY <2>2 DEF Poll
    <3>8. \A m \in DOMAIN sock'[k].queue :
            /\ m + b \in DOMAIN sock[k].queue
            /\ sock'[k].queue[m] = sock[k].queue[m + b]
      BY <1>6, <3>1, <3>4, <3>5, <3>7
    <3> QED BY <1>3, <3>1, <3>3, <3>5, <3>6, <3>7, <3>8
  <2> QED BY <2>1, <2>2
<1> HIDE DEF c, h
<1>13. got' = got /\ sent' = sent
  BY DEF Poll
(* What InOrder and Numbered say of the queue that is polled.               *)
<1>14. ASSUME NEW m \in DOMAIN s.queue, s.queue[m] # 0
       PROVE  /\ got[c] < s.queue[m]
              /\ \A i \in DOMAIN out : InRing(i, c) => out[i].id < s.queue[m]
              /\ \A j \in DOMAIN s.queue : m < j /\ s.queue[j] # 0 =>
                   s.queue[m] < s.queue[j]
              /\ s.queue[m] <= sent[c]
  <2>1. s = sock[h] /\ c \in Udp /\ h \in Handles
    BY <1>2 DEF h, Poll
  <2> QED BY <1>3, <1>14, <2>1 DEF IInv, Stream, InOrder, Numbered
<1>15. InOrder'
  <2>1. ASSUME NEW d \in Udp, NEW i \in DOMAIN out', InRing(i, d)'
        PROVE  /\ out'[i].from = d
               /\ got[d] < out'[i].id
               /\ \A j \in DOMAIN out' : i < j /\ InRing(j, d)' =>
                    out'[i].id < out'[j].id
    <3>1. CASE i \in DOMAIN out /\ InRing(i, d) /\ out'[i] = out[i]
      <4>1. /\ out[i].from = d
            /\ got[d] < out[i].id
            /\ \A j \in DOMAIN out : i < j /\ InRing(j, d) => out[i].id < out[j].id
        BY <3>1 DEF IInv, Stream, InOrder
      <4>2. ASSUME NEW j \in DOMAIN out', i < j, InRing(j, d)'
            PROVE  out'[i].id < out'[j].id
        <5>1. CASE j \in DOMAIN out /\ InRing(j, d) /\ out'[j] = out[j]
          BY <3>1, <4>1, <4>2, <5>1
        <5>2. CASE d = c /\ j - Len(out) \in 1 .. n
                     /\ out'[j].id = s.queue[j - Len(out)]
          BY <1>6, <1>7, <1>14, <3>1, <5>2
        <5> QED BY <1>11, <4>2, <5>1, <5>2
      <4> QED BY <3>1, <4>1, <4>2
    <3>2. CASE i \notin DOMAIN out /\ d = c /\ i - Len(out) \in 1 .. n
                 /\ out'[i].from = c /\ out'[i].id = s.queue[i - Len(out)]
      <4>1. ASSUME NEW j \in DOMAIN out', i < j, InRing(j, d)'
            PROVE  out'[i].id < out'[j].id
        <5>1. j \notin DOMAIN out
          BY <1>5, <1>9, <3>2, <4>1
        <5>2. j - Len(out) \in 1 .. n /\ out'[j].id = s.queue[j - Len(out)]
          BY <1>11, <4>1, <5>1
        <5>3. i - Len(out) < j - Len(out)
          BY <1>5, <1>9, <4>1
        <5> QED BY <1>6, <1>7, <1>14, <3>2, <5>2, <5>3
      <4> QED BY <1>6, <1>7, <1>14, <3>2, <4>1
    <3> QED BY <1>11, <2>1, <3>1, <3>2
  <2>2. ASSUME NEW d \in Udp, NEW k \in Handles, sock'[k].used, sock'[k].to = d,
               NEW m \in DOMAIN sock'[k].queue, sock'[k].queue[m] # 0
        PROVE  /\ got[d] < sock'[k].queue[m]
               /\ \A i \in DOMAIN out' : InRing(i, d)' =>
                    out'[i].id < sock'[k].queue[m]
               /\ \A j \in DOMAIN sock'[k].queue :
                    m < j /\ sock'[k].queue[j] # 0 =>
                      sock'[k].queue[m] < sock'[k].queue[j]
    <3>1. sock[k].used /\ sock[k].to = d /\ m \in Nat
      BY <1>12, <2>2
    <3>2. PICK b \in Nat :
            /\ k = h => n <= b
            /\ \A j \in DOMAIN sock'[k].queue :
                 /\ j + b \in DOMAIN sock[k].queue
                 /\ sock'[k].queue[j] = sock[k].queue[j + b]
      BY <1>12, <2>2
    <3>3. m + b \in DOMAIN sock[k].queue /\ sock[k].queue[m + b] # 0
          /\ sock'[k].queue[m] = sock[k].queue[m + b]
      BY <2>2, <3>2
    <3>4. /\ got[d] < sock[k].queue[m + b]
          /\ \A i \in DOMAIN out : InRing(i, d) => out[i].id < sock[k].queue[m + b]
          /\ \A j \in DOMAIN sock[k].queue : m + b < j /\ sock[k].queue[j] # 0 =>
               sock[k].queue[m + b] < sock[k].queue[j]
      BY <3>1, <3>3 DEF IInv, Stream, InOrder
    <3>5. ASSUME NEW i \in DOMAIN out', InRing(i, d)'
          PROVE  out'[i].id < sock[k].queue[m + b]
      <4>1. CASE i \in DOMAIN out /\ InRing(i, d) /\ out'[i] = out[i]
        BY <3>4, <4>1
      <4>2. CASE d = c /\ i - Len(out) \in 1 .. n
                   /\ out'[i].id = s.queue[i - Len(out)]
        <5>1. k = h /\ sock[k] = s
          BY <1>4, <3>1, <4>2 DEF c, h, Poll
        <5>2. i - Len(out) < m + b
          <6>1. m \in Nat \ {0}
            BY <1>12, <2>2
          <6> QED BY <1>6, <3>1, <3>2, <4>2, <5>1, <6>1
        <5> QED BY <1>7, <1>14, <3>3, <4>2, <5>1, <5>2
      <4> QED BY <1>11, <3>5, <4>1, <4>2
    <3>6. ASSUME NEW j \in DOMAIN sock'[k].queue, m < j, sock'[k].queue[j] # 0
          PROVE  sock'[k].queue[m] < sock'[k].queue[j]
      <4>1. j + b \in DOMAIN sock[k].queue /\ sock'[k].queue[j] = sock[k].queue[j + b]
        BY <3>2
      <4>2. m + b < j + b
        BY <1>12, <2>2, <3>1, <3>6
      <4> QED BY <3>3, <3>4, <3>6, <4>1, <4>2
    <3> QED BY <3>3, <3>4, <3>5, <3>6
  <2> QED BY <1>13, <2>1, <2>2 DEF InOrder
<1>16. Numbered'
  <2>1. \A d \in Udp : got[d] <= sent[d]
    BY DEF IInv, Stream, Numbered
  <2>2. ASSUME NEW d \in Udp, NEW i \in DOMAIN out', InRing(i, d)'
        PROVE  out'[i].id <= sent[d]
    <3>1. CASE i \in DOMAIN out /\ InRing(i, d) /\ out'[i] = out[i]
      BY <3>1 DEF IInv, Stream, Numbered
    <3>2. CASE d = c /\ i - Len(out) \in 1 .. n
                 /\ out'[i].id = s.queue[i - Len(out)]
      BY <1>6, <1>7, <1>14, <3>2
    <3> QED BY <1>11, <2>2, <3>1, <3>2
  <2>3. ASSUME NEW d \in Udp, NEW k \in Handles, sock'[k].used, sock'[k].to = d,
               NEW m \in DOMAIN sock'[k].queue
        PROVE  sock'[k].queue[m] <= sent[d]
    <3>1. PICK b \in Nat : /\ m + b \in DOMAIN sock[k].queue
                           /\ sock'[k].queue[m] = sock[k].queue[m + b]
      BY <1>12, <2>3
    <3>2. sock[k].used /\ sock[k].to = d
      BY <1>12, <2>3
    <3> QED BY <3>1, <3>2 DEF IInv, Stream, Numbered
  <2> QED BY <1>13, <2>1, <2>2, <2>3 DEF Numbered
<1> QED BY <1>9, <1>10, <1>15, <1>16, <1>13 DEF IInv, Stream

---------------------------------------------------------------------------
(* The actions.                                                             *)

LEMMA SameTableUnchanged ==
  ASSUME Table, flow' = flow, sock' = sock
  PROVE  Table' /\ NothingNew
<1>1. Table'
  BY DEF Table, SocketsAreFlows, Kinds
<1> QED BY <1>1 DEF NothingNew

LEMMA CalledCounts ==
  ASSUME NetNatAssumption, IInv, Called, tick' = tick
  PROVE  Counters'
BY DEF NetNatAssumption, IInv, Counters, Called

LEMMA PassedCounts ==
  ASSUME NetNatAssumption, IInv, tick # 0, Passed, requests' = requests
  PROVE  Counters'
BY DEF NetNatAssumption, IInv, Counters, Passed

(* An answer of our own: icmp_input, dns_input.                             *)
LEMMA AnswerKeeps ==
  ASSUME NetNatAssumption, IInv, icmp_input \/ dns_input
  PROVE  IInv'
<1>1. Table' /\ NothingNew
  BY SameTableUnchanged DEF IInv, icmp_input, dns_input
<1>2. Calm
  BY EmitIsCalm DEF IInv, icmp_input, dns_input
<1>3. Stream'
  BY <1>1, <1>2, CalmKeeps DEF IInv, icmp_input, dns_input
<1>4. Counters'
  BY CalledCounts DEF icmp_input, dns_input
<1> QED BY <1>1, <1>3, <1>4 DEF IInv

LEMMA UdpSendKeeps ==
  ASSUME NetNatAssumption, IInv, NEW c \in Udp, UdpSend(c)
  PROVE  IInv'
<1>1. PICK i \in net_flow_find(c) :
        /\ Called
        /\ \/ flow' = [flow EXCEPT ![i].age = 0] /\ UNCHANGED sock
           \/ SocketsFail /\ net_flow_free(i)
           \/ sock[flow[i].handle].error /\ net_flow_free(i)
        /\ UNCHANGED <<out, tick, sent, got>>
  BY DEF UdpSend
<1>2. i \in Slots /\ flow[i].used
  BY DEF net_flow_find
<1>3. Table' /\ NothingNew
  <2>1. CASE net_flow_free(i)
    BY <1>2, <2>1, FreedKeeps DEF IInv
  <2>2. CASE flow' = [flow EXCEPT ![i].age = 0] /\ UNCHANGED sock
    <3>1. flow \in [Slots -> {NoFlow} \cup Flow]
          /\ sock \in [Handles -> {Closed} \cup Socket]
      BY DEF IInv, Table
    <3> DEFINE f == [flow[i] EXCEPT !.age = 0]
    <3>2. 0 \in 0 .. Old
      BY DEF Old, NetNatAssumption
    <3>3. /\ f \in Flow /\ f.used /\ f.to = flow[i].to
          /\ f.proto = flow[i].proto /\ f.handle = flow[i].handle
      BY <1>2, <3>1, <3>2, AgedIsFlow
    <3>4. flow' = [flow EXCEPT ![i] = f]
      BY <2>2
    <3> HIDE DEF f
    <3>5. flow' \in [Slots -> {NoFlow} \cup Flow] /\ SameFlows
      BY <1>2, <3>1, <3>3, <3>4 DEF SameFlows
    <3>6. SameSockets /\ NothingNew
      BY <2>2 DEF SameSockets, NothingNew
    <3> QED BY <2>2, <3>1, <3>5, <3>6, SameTable DEF IInv
  <2> QED BY <1>1, <2>1, <2>2
<1>4. Stream'
  BY <1>1, <1>3, SameRingIsCalm, CalmKeeps DEF IInv
<1>5. Counters'
  BY <1>1, CalledCounts
<1> QED BY <1>3, <1>4, <1>5 DEF IInv

LEMMA UdpOpenKeeps ==
  ASSUME NetNatAssumption, IInv, NEW c \in Udp, UdpOpen(c)
  PROVE  IInv'
<1>1. Table' /\ NothingNew
  <2>1. CASE UNCHANGED <<flow, sock>>
    BY <2>1, SameTableUnchanged DEF IInv
  <2>2. CASE \E i \in net_flow_alloc, h \in h_open : Opened(i, h, c, "UDP")
    <3>1. PICK i \in net_flow_alloc, h \in h_open : Opened(i, h, c, "UDP")
      BY <2>2
    <3>2. net_flow_find(c) = {}
      BY DEF UdpOpen
    <3>3. Table /\ c \in Udp \cup Tcp
      BY DEF IInv
    <3>4. Kind(c, "UDP")
      BY DEF Kind
    <3> QED BY <3>1, <3>2, <3>3, <3>4, OpenedKeeps
  <2> QED BY <2>1, <2>2 DEF UdpOpen
<1>2. Stream'
  BY <1>1, SameRingIsCalm, CalmKeeps DEF IInv, UdpOpen
<1>3. Counters'
  BY CalledCounts DEF UdpOpen
<1> QED BY <1>1, <1>2, <1>3 DEF IInv

LEMMA TcpSynKeeps ==
  ASSUME NetNatAssumption, IInv, NEW c \in Tcp, TcpSyn(c)
  PROVE  IInv'
<1>1. Table' /\ NothingNew
  <2>1. CASE UNCHANGED <<flow, sock>>
    BY <2>1, SameTableUnchanged DEF IInv
  <2>2. CASE \E i \in net_flow_alloc, h \in h_open : Opened(i, h, c, "TCP")
    <3>1. PICK i \in net_flow_alloc, h \in h_open : Opened(i, h, c, "TCP")
      BY <2>2
    <3>2. net_flow_find(c) = {}
      BY DEF TcpSyn
    <3>3. Table /\ c \in Udp \cup Tcp /\ Kind(c, "TCP")
      BY DEF IInv, Kind
    <3> QED BY <3>1, <3>2, <3>3, OpenedKeeps
  <2> QED BY <2>1, <2>2 DEF TcpSyn
<1>2. out' = out \/ out' = net_emit([proto |-> "TCP"])
  BY DEF TcpSyn
<1>3. Calm
  BY <1>2, EmitIsCalm DEF IInv
<1>4. Stream'
  BY <1>1, <1>3, CalmKeeps DEF IInv, TcpSyn
<1>5. Counters'
  BY CalledCounts DEF TcpSyn
<1> QED BY <1>1, <1>4, <1>5 DEF IInv

(* A step of a flow of TCP, of the guest's or of a tick.                    *)
LEMMA TcpStepKeeps ==
  ASSUME NetNatAssumption, IInv, NEW i \in Slots, flow[i].used, TcpStep(i),
         got' = got, sent' = sent
  PROVE  Table' /\ Stream'
<1>1. Table' /\ NothingNew
  BY FreedKeeps, SameTableUnchanged DEF IInv, TcpStep
<1>2. out' = out \/ out' = net_emit([proto |-> "TCP"])
  BY DEF TcpStep
<1>3. Calm
  BY <1>2, EmitIsCalm DEF IInv
<1> QED BY <1>1, <1>3, CalmKeeps DEF IInv

LEMMA TcpInputKeeps ==
  ASSUME NetNatAssumption, IInv, NEW c \in Tcp, TcpInput(c)
  PROVE  IInv'
<1>1. PICK i \in net_flow_find(c) :
        Called /\ TcpStep(i) /\ UNCHANGED <<tick, sent, got>>
  BY DEF TcpInput
<1>2. i \in Slots /\ flow[i].used
  BY DEF net_flow_find
<1>3. Table' /\ Stream'
  BY <1>1, <1>2, TcpStepKeeps
<1>4. Counters'
  BY <1>1, CalledCounts
<1> QED BY <1>3, <1>4 DEF IInv

LEMMA TickBeginsKeeps ==
  ASSUME NetNatAssumption, IInv, NEW d \in 0 .. Old, TickBegins(d)
  PROVE  IInv'
<1>1. flow \in [Slots -> {NoFlow} \cup Flow]
      /\ sock \in [Handles -> {Closed} \cup Socket]
  BY DEF IInv, Table
<1>2. Old \in Nat
  BY DEF Old, NetNatAssumption
<1>3. ASSUME NEW i \in Slots
      PROVE  /\ flow'[i] \in {NoFlow} \cup Flow
             /\ flow'[i].used = flow[i].used
             /\ flow[i].used => /\ flow'[i].to = flow[i].to
                                /\ flow'[i].proto = flow[i].proto
                                /\ flow'[i].handle = flow[i].handle
  <2>1. CASE flow[i].used /\ flow[i].proto = "UDP"
    <3> DEFINE T == {flow[i].age + d, Old}
               n == Fewest(T)
    <3>1. flow[i].age \in 0 .. Old
      BY <1>1, <2>1, UsedIsFlow
    <3>2. T \in SUBSET Nat /\ T # {}
      BY <1>2, <3>1
    <3>3. n \in T /\ \A m \in T : n <= m
      <4> HIDE DEF T
      <4> QED BY <3>2, FewestIsLeast
    <3>4. n \in 0 .. Old
      <4>1. n \in Nat /\ n <= Old
        BY <3>2, <3>3
      <4> HIDE DEF n
      <4> QED BY <1>2, <4>1
    <3>5. flow'[i] = [flow[i] EXCEPT !.age = n]
      BY <2>1 DEF TickBegins
    <3> HIDE DEF n
    <3>6. flow[i] \in {NoFlow} \cup Flow /\ flow[i].used
      BY <1>1, <2>1
    <3>7. /\ flow'[i] \in Flow /\ flow'[i].used /\ flow'[i].to = flow[i].to
          /\ flow'[i].proto = flow[i].proto /\ flow'[i].handle = flow[i].handle
      BY <3>4, <3>5, <3>6, AgedIsFlow
    <3> QED BY <3>6, <3>7
  <2>2. CASE ~(flow[i].used /\ flow[i].proto = "UDP")
    <3>1. flow'[i] = flow[i]
      BY <2>2 DEF TickBegins
    <3> QED BY <1>1, <3>1
  <2> QED BY <2>1, <2>2
<1>4. flow' \in [Slots -> {NoFlow} \cup Flow] /\ SameFlows
  <2>1. DOMAIN flow' = Slots /\ flow' = [i \in Slots |-> flow'[i]]
    BY DEF TickBegins
  <2> QED BY <1>3, <2>1 DEF SameFlows
<1>5. sock' = sock /\ out' = out /\ got' = got /\ sent' = sent
  BY DEF TickBegins
<1>6. SameSockets /\ NothingNew
  BY <1>5 DEF SameSockets, NothingNew
<1>7. Table'
  BY <1>1, <1>4, <1>5, <1>6, SameTable DEF IInv
<1>8. Stream'
  BY <1>5, <1>6, SameRingIsCalm, CalmKeeps DEF IInv
<1>9. Counters'
  BY DEF TickBegins, IInv, Counters, NetNatAssumption
<1> QED BY <1>7, <1>8, <1>9 DEF IInv

LEMMA UdpTickKeeps ==
  ASSUME NetNatAssumption, IInv, UdpTick
  PROVE  IInv'
<1> DEFINE f == flow[tick]
           s == sock[f.handle]
           n == Emitted(s)
           age == Age(f.age, n)
<1>1. tick \in Slots /\ f.used /\ f.proto = "UDP"
  <2>1. tick # 0 /\ flow[tick].used /\ flow[tick].proto = "UDP"
    BY Zenon DEF UdpTick
  <2>2. tick \in 0 .. NET_MAX_FLOWS /\ NET_MAX_FLOWS \in Nat
    BY DEF IInv, Counters, NetNatAssumption
  <2>3. tick \in Slots
    BY <2>1, <2>2 DEF Slots
  <2> QED BY <2>1, <2>3
<1>2. /\ flow \in [Slots -> {NoFlow} \cup Flow]
      /\ sock \in [Handles -> {Closed} \cup Socket]
  BY DEF IInv, Table
<1>3. f \in Flow /\ f.handle \in Handles /\ f.age \in 0 .. Old
  BY <1>1, <1>2, UsedIsFlow
<1>4. s.used /\ s \in Socket
  BY <1>1, <1>2, <1>3, UsedIsSocket DEF IInv, Table, SocketsAreFlows
<1>5. Len(out) \in 0 .. NET_OUT_SLOTS
  BY DEF IInv, Stream, NetNatAssumption
<1>6. got' = got /\ sent' = sent /\ requests' = requests /\ Passed /\ tick # 0
  BY DEF UdpTick
<1>7. Counters'
  BY <1>6, PassedCounts
<1>8. CASE net_flow_free(tick) /\ UNCHANGED out
  <2>1. Table' /\ NothingNew
    BY <1>1, <1>8, FreedKeeps DEF IInv
  <2>2. Stream'
    BY <1>6, <1>8, <2>1, SameRingIsCalm, CalmKeeps DEF IInv
  <2> QED BY <1>7, <2>1, <2>2 DEF IInv
<1>9. CASE /\ out' = out \o [m \in 1 .. n |-> [proto |-> "UDP", to |-> f.to,
                                            from |-> s.to, id |-> s.queue[m]]]
           /\ net_flow_free(tick)
  <2>1. Table'
    BY <1>1, <1>9, FreedKeeps DEF IInv
  <2>2. Poll(s, n)
    BY <1>1, <1>6, <1>9 DEF Poll, net_flow_free
  <2>3. Stream'
    BY <2>2, PollKeepsStream
  <2> QED BY <1>7, <2>1, <2>3 DEF IInv
<1>10. CASE /\ out' = out \o [m \in 1 .. n |-> [proto |-> "UDP", to |-> f.to,
                                             from |-> s.to, id |-> s.queue[m]]]
            /\ age <= NET_UDP_IDLE_MS
            /\ flow' = [flow EXCEPT ![tick].age = age]
            /\ sock' = [sock EXCEPT ![f.handle] = Rest(s)]
  <2>1. Poll(s, n)
    BY <1>1, <1>6, <1>10 DEF Poll
  <2>2. Stream'
    BY <2>1, PollKeepsStream
  <2>3. Rest(s) \in Socket /\ Rest(s).used /\ Rest(s).to = s.to
    BY <1>4, <1>5, RestIsSuffix
  <2>4. sock' \in [Handles -> {Closed} \cup Socket] /\ SameSockets
    BY <1>2, <1>3, <1>4, <1>10, <2>3 DEF SameSockets
  <2>5. age \in 0 .. Old
    BY <1>3 DEF Age, Old, NetNatAssumption
  <2> DEFINE g == [f EXCEPT !.age = age]
  <2>6. flow' = [flow EXCEPT ![tick] = g]
    BY <1>10
  <2>7. /\ g \in Flow /\ g.used /\ g.to = f.to
        /\ g.proto = f.proto /\ g.handle = f.handle
    BY <1>1, <1>3, <2>5, AgedIsFlow
  <2> HIDE DEF g
  <2>8. flow' \in [Slots -> {NoFlow} \cup Flow] /\ SameFlows
    BY <1>1, <1>2, <2>6, <2>7 DEF SameFlows
  <2>9. Table'
    BY <2>4, <2>8, SameTable DEF IInv
  <2> QED BY <1>7, <2>2, <2>9 DEF IInv
<1>11. \/ net_flow_free(tick) /\ UNCHANGED out
       \/ /\ out' = out \o [m \in 1 .. n |-> [proto |-> "UDP", to |-> f.to,
                                            from |-> s.to, id |-> s.queue[m]]]
          /\ \/ net_flow_free(tick)
             \/ /\ age <= NET_UDP_IDLE_MS
                /\ flow' = [flow EXCEPT ![tick].age = age]
                /\ sock' = [sock EXCEPT ![f.handle] = Rest(s)]
  <2>1. age > NET_UDP_IDLE_MS \/ age <= NET_UDP_IDLE_MS
    BY <1>3 DEF Age, Old, NetNatAssumption
  <2> QED BY <2>1 DEF UdpTick
<1> QED BY <1>8, <1>9, <1>10, <1>11

LEMMA TcpTickKeeps ==
  ASSUME NetNatAssumption, IInv, TcpTick
  PROVE  IInv'
<1>1. tick \in Slots /\ flow[tick].used
  BY DEF TcpTick, IInv, Counters, Slots, NetNatAssumption
<1>2. Table' /\ Stream'
  BY <1>1, TcpStepKeeps DEF TcpTick
<1>3. Counters'
  BY PassedCounts DEF TcpTick
<1> QED BY <1>2, <1>3 DEF IInv

LEMMA FreeSlotKeeps ==
  ASSUME NetNatAssumption, IInv, FreeSlot
  PROVE  IInv'
<1>1. Table' /\ NothingNew
  BY SameTableUnchanged DEF IInv, FreeSlot
<1>2. Stream'
  BY <1>1, SameRingIsCalm, CalmKeeps DEF IInv, FreeSlot
<1>3. Counters'
  BY PassedCounts DEF FreeSlot
<1> QED BY <1>1, <1>2, <1>3 DEF IInv

LEMMA NetOutputKeeps ==
  ASSUME NetNatAssumption, IInv, net_output
  PROVE  IInv'
<1>1. Table'
  BY SameTableUnchanged DEF IInv, net_output
<1>2. Stream'
  BY OutputKeeps
<1>3. Counters'
  BY DEF IInv, Counters, net_output
<1> QED BY <1>1, <1>2, <1>3 DEF IInv

LEMMA NetResetKeeps ==
  ASSUME NetNatAssumption, IInv, net_reset
  PROVE  IInv'
<1>1. /\ flow \in [Slots -> {NoFlow} \cup Flow]
      /\ sock \in [Handles -> {Closed} \cup Socket]
  BY DEF IInv, Table
<1>2. ~NoFlow.used /\ ~Closed.used
  BY DEF NoFlow, Closed
<1>3. /\ flow' \in [Slots -> {NoFlow} \cup Flow]
      /\ \A i \in Slots : ~flow'[i].used
  BY <1>2 DEF net_reset
<1>4. \A h \in Handles : sock'[h] = IF \E i \in Slots : flow[i].used /\ flow[i].handle = h
                                    THEN Closed ELSE sock[h]
  BY DEF net_reset
<1>5. \A h \in Handles : ~sock'[h].used
  BY <1>2, <1>4 DEF IInv, Table, SocketsAreFlows
<1>6. sock' \in [Handles -> {Closed} \cup Socket]
  BY <1>1 DEF net_reset
<1>7. Table'
  BY <1>3, <1>5, <1>6 DEF Table, SocketsAreFlows, Kinds
<1>8. NothingNew
  BY <1>5 DEF NothingNew
<1>9. Calm
  BY EmptyRingIsCalm DEF net_reset
<1>10. Stream'
  BY <1>8, <1>9, CalmKeeps DEF IInv, net_reset
<1>11. Counters'
  BY CalledCounts DEF net_reset
<1> QED BY <1>7, <1>10, <1>11 DEF IInv

LEMMA ArrivesKeeps ==
  ASSUME NetNatAssumption, IInv, NEW h \in Handles, Arrives(h)
  PROVE  IInv'
<1>1. /\ sock[h].used /\ sock[h].to \in Udp
      /\ flow' = flow /\ out' = out /\ tick' = tick /\ got' = got
      /\ requests' = requests
  BY DEF Arrives
<1>2. Counters'
  BY <1>1 DEF IInv, Counters
<1>3. CASE /\ sent[sock[h].to] < MAX_SENT
           /\ sent' = [sent EXCEPT ![sock[h].to] = @ + 1]
           /\ \E id \in {0, sent[sock[h].to] + 1} :
                sock' = [sock EXCEPT ![h].queue = Append(@, id)]
  <2>1. PICK id \in {0, sent[sock[h].to] + 1} :
          sock' = [sock EXCEPT ![h].queue = Append(@, id)]
    BY <1>3
  <2>2. Table' /\ Stream'
    BY <1>1, <1>3, <2>1, SentKeeps
  <2> QED BY <1>2, <2>2 DEF IInv
<1>4. CASE sock' = [sock EXCEPT ![h].error = TRUE] /\ UNCHANGED sent
  <2>1. /\ flow \in [Slots -> {NoFlow} \cup Flow]
        /\ sock \in [Handles -> {Closed} \cup Socket]
    BY DEF IInv, Table
  <2> DEFINE s == [sock[h] EXCEPT !.error = TRUE]
  <2>2. sock[h] \in Socket
    BY <1>1, <2>1, UsedIsSocket
  <2>3. s \in Socket /\ s.used /\ s.to = sock[h].to /\ s.queue = sock[h].queue
    BY <2>2 DEF Socket
  <2>4. sock' = [sock EXCEPT ![h] = s]
    BY <1>4
  <2> HIDE DEF s
  <2>5. sock' \in [Handles -> {Closed} \cup Socket]
    BY <2>1, <2>3, <2>4
  <2>6. SameSockets /\ NothingNew
    BY <1>1, <2>1, <2>3, <2>4 DEF SameSockets, NothingNew
  <2>7. SameFlows
    BY <1>1 DEF SameFlows
  <2>8. Table'
    BY <1>1, <2>1, <2>5, <2>6, <2>7, SameTable DEF IInv
  <2>9. Stream'
    BY <1>1, <1>4, <2>6, SameRingIsCalm, CalmKeeps DEF IInv
  <2> QED BY <1>2, <2>8, <2>9 DEF IInv
<1> QED BY <1>3, <1>4 DEF Arrives

---------------------------------------------------------------------------
(* The theorems.                                                            *)

LEMMA InitHolds ==
  ASSUME NetNatAssumption, Init
  PROVE  IInv
<1>1. ~NoFlow.used /\ ~Closed.used
  BY DEF NoFlow, Closed
<1>2. Table
  BY <1>1 DEF Init, Table, SocketsAreFlows, Kinds
<1>3. Stream
  BY <1>1 DEF Init, Stream, InOrder, Numbered, NetNatAssumption
<1>4. Counters
  BY DEF Init, Counters, NetNatAssumption
<1> QED BY <1>2, <1>3, <1>4 DEF IInv

LEMMA NextKeeps ==
  ASSUME NetNatAssumption, IInv, [Next]_vars
  PROVE  IInv'
<1>1. CASE UNCHANGED vars
  <2>1. Table' /\ NothingNew
    BY <1>1, SameTableUnchanged DEF IInv, vars
  <2>2. Stream'
    BY <1>1, <2>1, SameRingIsCalm, CalmKeeps DEF IInv, vars
  <2>3. Counters'
    BY <1>1 DEF IInv, Counters, vars
  <2> QED BY <2>1, <2>2, <2>3 DEF IInv
<1>2. CASE icmp_input \/ dns_input
  BY <1>2, AnswerKeeps
<1>3. CASE \E c \in Udp : UdpSend(c) \/ UdpOpen(c)
  BY <1>3, UdpSendKeeps, UdpOpenKeeps
<1>4. CASE \E c \in Tcp : TcpSyn(c) \/ TcpInput(c)
  BY <1>4, TcpSynKeeps, TcpInputKeeps
<1>5. CASE \E d \in 0 .. Old : TickBegins(d)
  BY <1>5, TickBeginsKeeps
<1>6. CASE TickStep
  BY <1>6, UdpTickKeeps, TcpTickKeeps, FreeSlotKeeps DEF TickStep
<1>7. CASE net_output \/ net_reset
  BY <1>7, NetOutputKeeps, NetResetKeeps
<1>8. CASE \E h \in Handles : Arrives(h)
  BY <1>8, ArrivesKeeps
<1> QED BY <1>1, <1>2, <1>3, <1>4, <1>5, <1>6, <1>7, <1>8 DEF Next

LEMMA IInvAlways == Spec => []IInv
<1>1. Init => IInv
  BY InitHolds, NetNatAssumption
<1>2. IInv /\ [Next]_vars => IInv'
  BY NextKeeps, NetNatAssumption
<1> QED BY <1>1, <1>2, PTL DEF Spec

(* The tables of flows and of sockets, the ring and the counters are what the
   code declares them to be (net_stack_t, net_host_sock_t), and the ring never
   has more than NET_OUT_SLOTS.                                             *)
THEOREM TypeCorrect == Spec => []TypeOK
<1>1. IInv => TypeOK
  BY DEF IInv, Table, Stream, Counters, TypeOK
<1> QED BY <1>1, IInvAlways, PTL

(* "net.c will never ask for a handle it has no flow for" (net_host.h), for
   every number of slots: no socket without a flow, no flow without its
   socket, no conversation with two.                                        *)
THEOREM SocketsAreFlowsAlways == Spec => []SocketsAreFlows
<1>1. IInv => SocketsAreFlows
  BY DEF IInv, Table
<1> QED BY <1>1, IInvAlways, PTL

(* What udp_poll hands to the guest in a conversation was sent in it, once
   and in order, whatever the guard, the ring and the resets do between.    *)
THEOREM InOrderAlways == Spec => []InOrder
<1>1. IInv => InOrder
  BY DEF IInv, Stream
<1> QED BY <1>1, IInvAlways, PTL
=============================================================================
