-------------------------------- MODULE Ppp --------------------------------
(***************************************************************************)
(* The host's PPP peer (core/src/net/ppp.c): the RFC 1661 automaton twice,  *)
(* for LCP and for IPCP, behind one transmit ring.  Every call of its API   *)
(* runs to completion on the CPU thread and is one action.                  *)
(*                                                                         *)
(* The handlers are operators on the peer record.  A frame is a member of   *)
(* Frame: its octets, their escaping and their FCS are left out, so the     *)
(* ring holds whole frames, which is what tx_frame queues.  Options are     *)
(* <<type, value>> pairs and a request is a set of them: ASYNCMAP stands    *)
(* for the options that are always acknowledged, AUTH for the ones that are *)
(* always rejected, TRUNCATED marks a list that does not tile its length.   *)
(* MRU and DNS (a value other than ours is Nak'd, as ADDRESS is) are left   *)
(* out, and so are the octets a reject or an echo carries back.            *)
(* Deadlines are abstract: a running restart timer may be found expired by  *)
(* any tick; the first one after ppp_open always is, since the peer's clock *)
(* stands at 0 until it is open.                                            *)
(*                                                                         *)
(* A definition commented as a slip is a mutated form of the definition     *)
(* after it; no specification uses it.                                      *)
(***************************************************************************)
EXTENDS Integers, Sequences

CONSTANTS
  PPP_MAX_CONFIGURE,  \* requests before giving up      (ppp.h: 10)
  PPP_MAX_TERMINATE,  \* Terminate-Requests             (ppp.h: 2)
  PPP_MAX_FAILURE,    \* Naks and Rejects before giving up (ppp.h: 5)
  ID_COUNT,           \* values of an identifier        (uint8_t: 256)
  TX_FRAMES,          \* frames the transmit ring holds
  LocalIp, RemoteIp,  \* cfg.local_ip, cfg.remote_ip
  Magic,              \* cfg.magic
  InputFrames,        \* control frames the guest may send
  EarlyInput,         \* may the guest be heard before ppp_open?
  Closes,             \* may the host call ppp_close?
  Reopens             \* may it call ppp_open once LCP has left Initial?

Protocols == {"LCP", "IPCP"}

States == {"INITIAL", "CLOSED", "STOPPED", "CLOSING", "STOPPING",
           "REQSENT", "ACKRCVD", "ACKSENT", "OPENED"}

Codes == {"CONF_REQ", "CONF_ACK", "CONF_NAK", "CONF_REJ", "TERM_REQ",
          "TERM_ACK", "CODE_REJ", "PROTO_REJ", "ECHO_REQ", "ECHO_REPLY",
          "UNKNOWN", "DATAGRAM"}

Types == {"ASYNCMAP", "MAGIC", "AUTH", "ADDRESS", "TRUNCATED"}

Option == Types \X Nat

Ids == 0 .. ID_COUNT - 1

(* OTHER is every protocol but the three this peer speaks.                  *)
Frame == [proto : Protocols \cup {"IP", "OTHER"}, code : Codes, id : Ids,
          opts : SUBSET Option]

ASSUME PppSizesAssumption ==
  /\ PPP_MAX_CONFIGURE \in Nat \ {0}
  /\ PPP_MAX_TERMINATE \in Nat \ {0}
  /\ PPP_MAX_FAILURE \in Nat
  /\ ID_COUNT \in Nat \ {0, 1}
  /\ TX_FRAMES \in Nat \ {0}

ASSUME PppConfigAssumption ==
  /\ LocalIp \in Nat /\ RemoteIp \in Nat /\ Magic \in Nat
  /\ {EarlyInput, Closes, Reopens} \subseteq BOOLEAN

ASSUME PppInputAssumption == InputFrames \subseteq Frame

VARIABLE peer  \* ppp_peer_t

Fsm == [state : States, next_id : Ids, last_req_id : Ids, restarts : Nat,
        failures : Nat, opts : SUBSET Types, timer : BOOLEAN]

Peer == [fsm : [Protocols -> Fsm], opened : BOOLEAN, assigned : BOOLEAN,
         magic : Nat, local_ip : Nat, tx : Seq(Frame)]

---------------------------------------------------------------------------
(* Sending.                                                                 *)

Put(p, proto, f) == [p EXCEPT !.fsm[proto] = f]

Goto(p, proto, state) == [p EXCEPT !.fsm[proto].state = state]

StopTimer(p, proto) == [p EXCEPT !.fsm[proto].timer = FALSE]

(* Slip: one frame more than the ring holds.                                *)
tx_frame_OneTooMany(p, m) ==
  IF Len(p.tx) <= TX_FRAMES THEN [p EXCEPT !.tx = Append(@, m)] ELSE p

(* A whole frame or none of it.                                             *)
tx_frame(p, m) ==
  IF Len(p.tx) < TX_FRAMES THEN [p EXCEPT !.tx = Append(@, m)] ELSE p

send_cp(p, proto, code, id, opts) ==
  tx_frame(p, [proto |-> proto, code |-> code, id |-> id, opts |-> opts])

(* What we still ask for: a rejected option is no longer in opts.           *)
build_confreq(p, proto) ==
  {o \in IF proto = "LCP" THEN {<<"ASYNCMAP", 0>>, <<"MAGIC", p.magic>>}
                          ELSE {<<"ADDRESS", p.local_ip>>} :
     o[1] \in p.fsm[proto].opts}

irc(p, proto, count) ==
  Put(p, proto, [p.fsm[proto] EXCEPT !.restarts = count,
                                     !.failures = PPP_MAX_FAILURE])

(* The identifier of the request, the restart counter and the timer, which
   scr and str_ share.                                                      *)
Requested(p, proto, fresh) ==
  LET f  == p.fsm[proto]
      id == IF fresh THEN f.next_id ELSE f.last_req_id
  IN Put(p, proto, [f EXCEPT !.last_req_id = id,
                             !.next_id     = IF fresh THEN (@ + 1) % ID_COUNT ELSE @,
                             !.restarts    = IF @ > 0 THEN @ - 1 ELSE 0,
                             !.timer       = TRUE])

(* Slip: the restart timer forgotten.                                       *)
scr_NoTimer(p, proto, fresh) ==
  LET q == StopTimer(Requested(p, proto, fresh), proto)
  IN send_cp(q, proto, "CONF_REQ", q.fsm[proto].last_req_id, build_confreq(p, proto))

scr(p, proto, fresh) ==
  LET q == Requested(p, proto, fresh)
  IN send_cp(q, proto, "CONF_REQ", q.fsm[proto].last_req_id, build_confreq(p, proto))

str(p, proto) ==
  LET q == Requested(p, proto, TRUE)
  IN send_cp(q, proto, "TERM_REQ", q.fsm[proto].last_req_id, {})

sta(p, proto, id) == send_cp(p, proto, "TERM_ACK", id, {})

(* LCP came up: the Network-Layer Protocol phase.                           *)
ipcp_start(p) ==
  LET q == Put(p, "IPCP", [p.fsm["IPCP"] EXCEPT !.state = "REQSENT",
                                                !.opts = {"ADDRESS"}])
  IN scr(irc(q, "IPCP", PPP_MAX_CONFIGURE), "IPCP", TRUE)

tlu(p, proto) ==
  IF proto = "LCP" THEN ipcp_start(p) ELSE [p EXCEPT !.assigned = TRUE]

(* Slips: IPCP left running; the address left assigned.                     *)
tld_IpcpUp(p, proto) == [p EXCEPT !.assigned = FALSE]

tld_StillAssigned(p, proto) ==
  IF proto = "LCP" THEN StopTimer(Goto(p, "IPCP", "INITIAL"), "IPCP")
                   ELSE [p EXCEPT !.assigned = FALSE]

tld(p, proto) ==
  LET q == [p EXCEPT !.assigned = FALSE]
  IN IF proto = "LCP" THEN StopTimer(Goto(q, "IPCP", "INITIAL"), "IPCP") ELSE q

---------------------------------------------------------------------------
(* Option negotiation.                                                      *)

(* The other magic number proposed on a collision: xor with a constant.     *)
Alternative(m) == IF m % 2 = 0 THEN m + 1 ELSE m - 1

lcp_review(p, o) ==
  CASE o[1] = "ASYNCMAP" -> "ACK"
    [] o[1] = "MAGIC"    -> IF o[2] = p.magic THEN "NAK" ELSE "ACK"
    [] OTHER             -> "REJ"

ipcp_review(p, o) ==
  IF o[1] = "ADDRESS" THEN IF o[2] = RemoteIp THEN "ACK" ELSE "NAK"
                      ELSE "REJ"

review(p, proto, o) ==
  IF proto = "LCP" THEN lcp_review(p, o) ELSE ipcp_review(p, o)

(* The option as we would like to see it.                                   *)
Suggested(p, o) ==
  <<o[1], IF o[1] = "MAGIC" THEN Alternative(o[2]) ELSE RemoteIp>>

(* Slip: an answer that acknowledges whatever is not rejected.              *)
classify_confreq_NoNak(p, proto, opts) ==
  LET rej == {o \in opts : review(p, proto, o) = "REJ"}
  IN IF rej # {} THEN [code |-> "CONF_REJ", opts |-> rej]
                 ELSE [code |-> "CONF_ACK", opts |-> opts]

(* Exactly one answer: Reject beats Nak beats Ack.                          *)
classify_confreq(p, proto, opts) ==
  LET rej == {o \in opts : review(p, proto, o) = "REJ"}
      nak == {o \in opts : review(p, proto, o) = "NAK"}
  IN IF rej # {} THEN [code |-> "CONF_REJ", opts |-> rej]
     ELSE IF nak # {} THEN [code |-> "CONF_NAK",
                            opts |-> {Suggested(p, o) : o \in nak}]
     ELSE [code |-> "CONF_ACK", opts |-> opts]

(* A Nak of our request: the value it names is the one we ask for next.     *)
apply_nak(p, proto, opts) ==
  LET ours  == IF proto = "LCP" THEN "MAGIC" ELSE "ADDRESS"
      named == {o \in opts : o[1] = ours}
      value == (CHOOSE o \in named : TRUE)[2]
  IN IF named = {} THEN p
     ELSE IF proto = "LCP" THEN [p EXCEPT !.magic = value]
                           ELSE [p EXCEPT !.local_ip = value]

(* A Reject of our request: those options are out of it.                    *)
apply_rej(p, proto, opts) ==
  Put(p, proto, [p.fsm[proto] EXCEPT !.opts = @ \ {o[1] : o \in opts}])

---------------------------------------------------------------------------
(* The events of the automaton.                                             *)

(* Where a judged request leads from the state it found.                    *)
Judged(p, proto, entry, good) ==
  CASE entry \in {"STOPPED", "OPENED", "REQSENT", "ACKSENT"} ->
         Goto(p, proto, IF good THEN "ACKSENT" ELSE "REQSENT")
    [] entry = "ACKRCVD" /\ good ->
         tlu(StopTimer(Goto(p, proto, "OPENED"), proto), proto)
    [] OTHER -> p

(* In Stopped and Opened our own request goes out before the answer.        *)
ev_rcr(p, proto, id, opts) ==
  LET entry == p.fsm[proto].state
      r     == classify_confreq(p, proto, opts)
      good  == r.code = "CONF_ACK"
      p1    == IF entry = "OPENED" THEN tld(p, proto) ELSE p
      p2    == IF entry \in {"STOPPED", "OPENED"}
               THEN scr(irc(p1, proto, PPP_MAX_CONFIGURE), proto, TRUE) ELSE p1
      p3    == send_cp(p2, proto, r.code, id, r.opts)
      fails == p3.fsm[proto].failures
  IN IF entry \in {"INITIAL", "CLOSED"} THEN sta(p, proto, id)
     ELSE IF \E o \in opts : o[1] = "TRUNCATED" THEN p
     ELSE IF good THEN Judged(p3, proto, entry, TRUE)
     ELSE IF fails = 0 THEN StopTimer(Goto(p3, proto, "STOPPED"), proto)
     ELSE Judged([p3 EXCEPT !.fsm[proto].failures = fails - 1],
                 proto, entry, FALSE)

(* Our request renegotiated from an open layer.                             *)
Reopen(p, proto) == Goto(scr(tld(p, proto), proto, TRUE), proto, "REQSENT")

(* Slip: the timer left running in Opened.                                  *)
ev_rca_TimerOn(p, proto, id) ==
  LET f == p.fsm[proto]
  IN IF id # f.last_req_id THEN p
     ELSE CASE f.state \in {"CLOSED", "STOPPED"} -> sta(p, proto, id)
            [] f.state = "REQSENT" ->
                 Goto(irc(p, proto, PPP_MAX_CONFIGURE), proto, "ACKRCVD")
            [] f.state = "ACKRCVD" ->
                 Goto(scr(p, proto, TRUE), proto, "REQSENT")
            [] f.state = "ACKSENT" ->
                 tlu(Goto(irc(p, proto, PPP_MAX_CONFIGURE), proto, "OPENED"), proto)
            [] f.state = "OPENED" -> Reopen(p, proto)
            [] OTHER -> p

ev_rca(p, proto, id) ==
  LET f == p.fsm[proto]
  IN IF id # f.last_req_id THEN p
     ELSE CASE f.state \in {"CLOSED", "STOPPED"} -> sta(p, proto, id)
            [] f.state = "REQSENT" ->
                 Goto(irc(p, proto, PPP_MAX_CONFIGURE), proto, "ACKRCVD")
            [] f.state = "ACKRCVD" ->
                 Goto(scr(p, proto, TRUE), proto, "REQSENT")
            [] f.state = "ACKSENT" ->
                 tlu(StopTimer(Goto(irc(p, proto, PPP_MAX_CONFIGURE),
                                    proto, "OPENED"), proto), proto)
            [] f.state = "OPENED" -> Reopen(p, proto)
            [] OTHER -> p

ev_rcn(p, proto, id) ==
  LET f == p.fsm[proto]
  IN IF id # f.last_req_id THEN p
     ELSE CASE f.state \in {"CLOSED", "STOPPED"} -> sta(p, proto, id)
            [] f.state \in {"REQSENT", "ACKSENT"} ->
                 scr(irc(p, proto, PPP_MAX_CONFIGURE), proto, TRUE)
            [] f.state = "ACKRCVD" ->
                 Goto(scr(p, proto, TRUE), proto, "REQSENT")
            [] f.state = "OPENED" -> Reopen(p, proto)
            [] OTHER -> p

ev_rtr(p, proto, id) ==
  LET f == p.fsm[proto]
      q == sta(p, proto, id)
  IN CASE f.state = "OPENED" ->
            LET d == tld(q, proto)
            IN Put(d, proto, [d.fsm[proto] EXCEPT !.restarts = 0, !.timer = TRUE,
                                                  !.state = "STOPPING"])
       [] f.state \in {"REQSENT", "ACKRCVD", "ACKSENT"} -> Goto(q, proto, "REQSENT")
       [] OTHER -> q

ev_rta(p, proto) ==
  LET f == p.fsm[proto]
  IN CASE f.state = "CLOSING"  -> StopTimer(Goto(p, proto, "CLOSED"), proto)
       [] f.state = "STOPPING" -> StopTimer(Goto(p, proto, "STOPPED"), proto)
       [] f.state = "ACKRCVD"  -> Goto(p, proto, "REQSENT")
       [] f.state = "OPENED"   -> Reopen(p, proto)
       [] OTHER -> p

(* A rejected code or protocol takes the layer down from any state.         *)
ev_rxj(p, proto) ==
  LET q == StopTimer(Goto(p, proto, "STOPPED"), proto)
  IN IF proto = "LCP" THEN tld(q, "LCP") ELSE q

(* An answer to what is unknown takes an identifier of its own.             *)
answer_with(p, proto, code) ==
  LET f == p.fsm[proto]
  IN send_cp(Put(p, proto, [f EXCEPT !.next_id = (@ + 1) % ID_COUNT]),
             proto, code, f.next_id, {})

cp_input(p, m) ==
  LET mine == m.id = p.fsm[m.proto].last_req_id
  IN CASE m.code = "CONF_REQ" -> ev_rcr(p, m.proto, m.id, m.opts)
       [] m.code = "CONF_ACK" -> ev_rca(p, m.proto, m.id)
       [] m.code = "CONF_NAK" ->
            ev_rcn(IF mine THEN apply_nak(p, m.proto, m.opts) ELSE p, m.proto, m.id)
       [] m.code = "CONF_REJ" ->
            ev_rcn(IF mine THEN apply_rej(p, m.proto, m.opts) ELSE p, m.proto, m.id)
       [] m.code = "TERM_REQ" -> ev_rtr(p, m.proto, m.id)
       [] m.code = "TERM_ACK" -> ev_rta(p, m.proto)
       [] m.code \in {"CODE_REJ", "PROTO_REJ"} -> ev_rxj(p, m.proto)
       [] m.code = "ECHO_REQ" ->
            IF m.proto = "LCP" /\ p.fsm["LCP"].state = "OPENED"
            THEN send_cp(p, "LCP", "ECHO_REPLY", m.id, {}) ELSE p
       [] m.code = "ECHO_REPLY" -> p
       [] OTHER -> answer_with(p, m.proto, "CODE_REJ")

(* A datagram goes to the IP sink, which is no state of the peer.           *)
frame_input(p, m) ==
  CASE m.proto \in Protocols -> cp_input(p, m)
    [] m.proto = "OTHER" /\ p.fsm["LCP"].state = "OPENED" ->
         answer_with(p, "LCP", "PROTO_REJ")
    [] OTHER -> p

(* Slip: the exhausted automaton keeps its state.                           *)
restart_timeout_NoStop(p, proto) ==
  LET f == p.fsm[proto]
  IN IF f.restarts = 0 THEN StopTimer(p, proto)
     ELSE CASE f.state \in {"CLOSING", "STOPPING"} ->
                 send_cp(Put(p, proto, [f EXCEPT !.restarts = @ - 1]),
                         proto, "TERM_REQ", f.last_req_id, {})
            [] f.state \in {"REQSENT", "ACKRCVD", "ACKSENT"} -> scr(p, proto, FALSE)
            [] OTHER -> StopTimer(p, proto)

(* Slip: the restart counter not counted down.                              *)
restart_timeout_ForEver(p, proto) ==
  LET f == p.fsm[proto]
  IN IF f.restarts = 0
     THEN StopTimer(CASE f.state = "CLOSING" -> Goto(p, proto, "CLOSED")
                      [] f.state \in {"STOPPING", "REQSENT", "ACKRCVD", "ACKSENT"} ->
                           Goto(p, proto, "STOPPED")
                      [] OTHER -> p, proto)
     ELSE CASE f.state \in {"CLOSING", "STOPPING"} ->
                 send_cp(p, proto, "TERM_REQ", f.last_req_id, {})
            [] f.state \in {"REQSENT", "ACKRCVD", "ACKSENT"} -> scr(p, proto, FALSE)
            [] OTHER -> StopTimer(p, proto)

(* TO- gives up, TO+ repeats the request under its old identifier.          *)
restart_timeout(p, proto) ==
  LET f == p.fsm[proto]
  IN IF f.restarts = 0
     THEN StopTimer(CASE f.state = "CLOSING" -> Goto(p, proto, "CLOSED")
                      [] f.state \in {"STOPPING", "REQSENT", "ACKRCVD", "ACKSENT"} ->
                           Goto(p, proto, "STOPPED")
                      [] OTHER -> p, proto)
     ELSE CASE f.state \in {"CLOSING", "STOPPING"} ->
                 send_cp(Put(p, proto, [f EXCEPT !.restarts = @ - 1]),
                         proto, "TERM_REQ", f.last_req_id, {})
            [] f.state \in {"REQSENT", "ACKRCVD", "ACKSENT"} -> scr(p, proto, FALSE)
            [] OTHER -> StopTimer(p, proto)

---------------------------------------------------------------------------
(* Actions.                                                                 *)

NewFsm == [state |-> "INITIAL", next_id |-> 1, last_req_id |-> 0, restarts |-> 0,
           failures |-> 0, opts |-> {}, timer |-> FALSE]

ppp_init == [fsm |-> [proto \in Protocols |-> NewFsm], opened |-> FALSE,
             assigned |-> FALSE, magic |-> Magic, local_ip |-> LocalIp, tx |-> << >>]

Init == peer = ppp_init

Started(p) ==
  LET q == Put(p, "LCP", [p.fsm["LCP"] EXCEPT !.state = "REQSENT",
                                              !.opts = {"MAGIC", "ASYNCMAP"}])
  IN scr(irc([q EXCEPT !.opened = TRUE], "LCP", PPP_MAX_CONFIGURE), "LCP", TRUE)

ppp_open ==
  /\ ~peer.opened
  /\ peer.fsm["LCP"].state = "INITIAL" \/ Reopens
  /\ peer' = Started(peer)

(* Slip: the network layer left up.                                         *)
ppp_close_IpcpUp ==
  /\ Closes
  /\ LET q == [peer EXCEPT !.opened = FALSE]
     IN peer' = IF q.fsm["LCP"].state \in {"INITIAL", "CLOSED"}
                THEN Goto(q, "LCP", "CLOSED")
                ELSE str(Goto(irc(q, "LCP", PPP_MAX_TERMINATE), "LCP", "CLOSING"), "LCP")

ppp_close ==
  /\ Closes
  /\ LET d == IF peer.fsm["LCP"].state = "OPENED" THEN tld(peer, "LCP") ELSE peer
         q == [d EXCEPT !.opened = FALSE]
     IN peer' = IF q.fsm["LCP"].state \in {"INITIAL", "CLOSED"}
                THEN Goto(q, "LCP", "CLOSED")
                ELSE str(Goto(irc(q, "LCP", PPP_MAX_TERMINATE), "LCP", "CLOSING"), "LCP")

ppp_input(m) ==
  /\ peer.fsm["LCP"].state # "INITIAL" \/ EarlyInput
  /\ peer' = frame_input(peer, m)

(* due: the timers this tick finds expired, LCP's looked at first.          *)
Ticked(p, due) ==
  LET q == IF "LCP" \in due THEN restart_timeout(p, "LCP") ELSE p
  IN IF "IPCP" \in due /\ q.fsm["IPCP"].timer THEN restart_timeout(q, "IPCP") ELSE q

ppp_tick(due) ==
  /\ due # {} /\ \A proto \in due : peer.fsm[proto].timer
  /\ peer' = Ticked(peer, due)

ppp_output ==
  /\ peer.tx # << >>
  /\ peer' = [peer EXCEPT !.tx = Tail(@)]

ppp_send_ip ==
  /\ peer.fsm["IPCP"].state = "OPENED"
  /\ peer' = tx_frame(peer, [proto |-> "IP", code |-> "DATAGRAM", id |-> 0,
                             opts |-> {}])

Next ==
  \/ ppp_open
  \/ ppp_close
  \/ \E m \in InputFrames : ppp_input(m)
  \/ \E due \in SUBSET Protocols : ppp_tick(due)
  \/ ppp_output
  \/ ppp_send_ip

Spec == Init /\ [][Next]_peer

(* A looped line: the peer hears each of its own frames.                    *)
Looped ==
  /\ peer.tx # << >>
  /\ peer' = frame_input([peer EXCEPT !.tx = Tail(@)], Head(peer.tx))

LoopSpec ==
  /\ Init
  /\ [][\/ ppp_open
        \/ Looped
        \/ \E due \in SUBSET Protocols : ppp_tick(due)]_peer
  /\ WF_peer(Looped)
  /\ WF_peer(\E due \in SUBSET Protocols : ppp_tick(due))

(* ppp_tick is called between all run slices, so an expired timer is found. *)
FairSpec == Spec /\ WF_peer(\E due \in SUBSET Protocols : ppp_tick(due))

---------------------------------------------------------------------------
(* Properties that hold whatever the guest sends.                           *)

Limit == IF PPP_MAX_CONFIGURE < PPP_MAX_TERMINATE THEN PPP_MAX_TERMINATE
                                                  ELSE PPP_MAX_CONFIGURE

TypeOK ==
  /\ peer \in Peer
  /\ Len(peer.tx) <= TX_FRAMES
  /\ \A proto \in Protocols :
       /\ peer.fsm[proto].restarts <= Limit
       /\ peer.fsm[proto].failures <= PPP_MAX_FAILURE

Waits(state) == state \in {"CLOSING", "STOPPING", "REQSENT", "ACKRCVD", "ACKSENT"}

(* "waiting forever with no timer to notice" (ev_rca): the restart timer
   runs in exactly the states that wait for the guest, however the automaton
   got there.                                                              *)
TimerRuns ==
  \A proto \in Protocols : peer.fsm[proto].timer <=> Waits(peer.fsm[proto].state)

(* tlu and tld: the network layer is alive only on an open link.            *)
NetworkAfterLink ==
  peer.fsm["IPCP"].state # "INITIAL" => peer.fsm["LCP"].state = "OPENED"

(* The guest has its address exactly while IPCP is Opened.                  *)
AssignedWhileOpen == peer.assigned <=> peer.fsm["IPCP"].state = "OPENED"

(* "Nobody has issued the Open event, so this peer has no business
   negotiating" (ev_rcr), after ppp_close as well as before ppp_open.       *)
NegotiatesOnlyOpened ==
  ~peer.opened => peer.fsm["LCP"].state \notin {"REQSENT", "ACKRCVD", "ACKSENT", "OPENED"}

(* "cfg stays exactly what the caller passed in" (ppp.h).                   *)
ConfigUntouched == peer.local_ip = LocalIp

(* "A Configure-Reject removes one permanently ... this shrinks and never
   grows" (ppp.h), from the first request on.                              *)
RequestsShrink ==
  [][\A proto \in Protocols :
       LET f == peer.fsm[proto]
       IN f # NewFsm => peer'.fsm[proto].opts \subseteq f.opts]_peer

(* "RFC 1661 4.1 lists a TO+ event for Ack-Rcvd, whose action is scr back to
   Req-Sent" (ev_rca).                                                     *)
AckRcvdRetransmits ==
  [][\A proto \in Protocols :
       LET f == peer.fsm[proto]
           g == peer'.fsm[proto]
       IN f.state = "ACKRCVD" /\ g.restarts < f.restarts => g.state = "REQSENT"]_peer

Heard == \/ ppp_open \/ ppp_close
         \/ \E m \in InputFrames : ppp_input(m)

(* "a peer that never stopped would keep a dead line busy for the whole
   boot" (test_ppp.c): once nothing is heard, retransmission ends.          *)
SilenceSettles ==
  <>[][~Heard]_peer => <>[](\A proto \in Protocols : ~peer.fsm[proto].timer)

(* "if it is a genuine loop the numbers keep colliding and Max-Failure ends
   it" (lcp_review).                                                       *)
LoopEnds == peer.opened ~> peer.fsm["LCP"].state = "STOPPED"
=============================================================================
