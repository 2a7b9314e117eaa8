------------------------------ MODULE PppLink ------------------------------
(***************************************************************************)
(* The peer of Ppp facing the guest's pppd over the emulated UART, as the   *)
(* harness pumps it (tools/bootkernel.c): the peer is opened by the first   *)
(* octet it hears, its ring is drained into the guest, and it is ticked     *)
(* after every run slice.                                                  *)
(*                                                                         *)
(* pppd is not part of this repository.  It runs the same RFC 1661          *)
(* automaton with the roles turned round, so it is an instance of Ppp: it   *)
(* asks for address GuestIp until it is Nak'd, takes any address of ours,   *)
(* and it goes back to Req-Sent when it repeats itself in Ack-Rcvd, as the  *)
(* RFC has it.  Each end's ring is the line to the other end.               *)
(*                                                                         *)
(* Budgets: MaxLosses frames are lost (an FCS error, a UART overrun), and   *)
(* MaxHasty timeouts fire while a frame is still on its way.                *)
(***************************************************************************)
EXTENDS Ppp

CONSTANTS
  GuestIp,     \* the address pppd proposes first (0.0.0.0)
  GuestMagic,  \* its magic number
  MaxLosses,   \* frames the line may lose
  MaxHasty     \* timeouts ahead of an answer that is on its way

ASSUME PppLinkAssumption ==
  /\ GuestIp \in Nat /\ GuestMagic \in Nat
  /\ MaxLosses \in Nat /\ MaxHasty \in Nat

VARIABLES
  guest,   \* pppd
  losses,  \* frames lost so far
  hasty    \* early timeouts so far

linkVars == <<peer, guest, losses, hasty>>

Pppd == INSTANCE Ppp WITH peer <- guest, LocalIp <- GuestIp,
                          RemoteIp <- LocalIp, Magic <- GuestMagic

LinkInit ==
  /\ peer = ppp_init
  /\ guest = Pppd!Started(Pppd!ppp_init)
  /\ losses = 0
  /\ hasty = 0

(* The first octet opens the peer before it is decoded.                     *)
HostHears ==
  /\ guest.tx # << >>
  /\ LET p == IF peer.opened THEN peer ELSE Started(peer)
     IN peer' = frame_input(p, Head(guest.tx))
  /\ guest' = [guest EXCEPT !.tx = Tail(@)]
  /\ UNCHANGED <<losses, hasty>>

GuestHears ==
  /\ peer.tx # << >>
  /\ guest' = Pppd!frame_input(guest, Head(peer.tx))
  /\ peer' = [peer EXCEPT !.tx = Tail(@)]
  /\ UNCHANGED <<losses, hasty>>

Lose ==
  /\ losses < MaxLosses
  /\ losses' = losses + 1
  /\ \/ peer.tx # << >> /\ peer' = [peer EXCEPT !.tx = Tail(@)] /\ UNCHANGED guest
     \/ guest.tx # << >> /\ guest' = [guest EXCEPT !.tx = Tail(@)] /\ UNCHANGED peer
  /\ UNCHANGED hasty

(* Three seconds are enough for every frame on the line to be heard, but
   for the budget: the host's very first tick, and a guest that is slow.    *)
Quiet == peer.tx = << >> /\ guest.tx = << >>

Timeout ==
  /\ \/ Quiet /\ UNCHANGED hasty
     \/ ~Quiet /\ hasty < MaxHasty /\ hasty' = hasty + 1
  /\ UNCHANGED losses

HostTick(due) == peer.opened /\ Timeout /\ ppp_tick(due) /\ UNCHANGED guest

(* pppd leaves Ack-Rcvd when it repeats its request.                        *)
GuestTick(proto) ==
  /\ guest.fsm[proto].timer
  /\ Timeout
  /\ LET g == Pppd!restart_timeout(guest, proto)
     IN guest' = IF g.fsm[proto].state = "ACKRCVD"
                 THEN Pppd!Goto(g, proto, "REQSENT") ELSE g
  /\ UNCHANGED peer

LinkNext ==
  \/ HostHears
  \/ GuestHears
  \/ Lose
  \/ \E due \in SUBSET Protocols : HostTick(due)
  \/ \E proto \in Protocols : GuestTick(proto)

LinkSpec == LinkInit /\ [][LinkNext]_linkVars

(* The harness pumps the UART and ticks the peer after every slice, and the
   guest runs in every slice.                                              *)
FairLinkSpec ==
  /\ LinkSpec
  /\ WF_linkVars(HostHears)
  /\ WF_linkVars(GuestHears)
  /\ SF_linkVars(\E due \in SUBSET Protocols : HostTick(due))
  /\ \A proto \in Protocols : SF_linkVars(GuestTick(proto))

---------------------------------------------------------------------------
(* Properties.                                                              *)

(* Both ends keep to their types.                                           *)
LinkTypeOK == TypeOK /\ Pppd!TypeOK /\ losses \in 0 .. MaxLosses /\ hasty \in 0 .. MaxHasty

(* "only PPP_PHASE_OPEN means the guest has an address" (ppp.h): once the
   host reports the phase and pppd is up, pppd is up on the address assigned.*)
AddressAgreed ==
  (peer.assigned /\ guest.assigned) => guest.local_ip = RemoteIp

(* Whatever is lost or late within the budget, the link comes up and stays. *)
ComesUp == <>[](peer.assigned /\ guest.assigned)
=============================================================================
