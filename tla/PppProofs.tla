----------------------------- MODULE PppProofs -----------------------------
(***************************************************************************)
(* What holds of the PPP peer for every size, configuration and sequence of *)
(* frames.  The inductive invariant is Good: the peer is well formed and    *)
(* each automaton's timer runs exactly in the states that wait.  Linked     *)
(* ties the two automata and the assignment together; it is inductive over  *)
(* Good while nothing is rejected by IPCP's peer and ppp_open is not        *)
(* repeated, and is not otherwise, as PppDisagreements.cfg shows.           *)
(*                                                                         *)
(* Every handler of ppp.c has one lemma: it is a step (Stepped), which      *)
(* keeps Good, and Linked if it held.  The helpers have lemmas of the form  *)
(* Moved: what they do to state, timer and assignment, and to nothing else. *)
(*                                                                         *)
(* The last part is about PppLink, for every loss and every early timeout:  *)
(* Speaker says what an end may say and on which address its network layer  *)
(* is up, and every handler keeps it, whichever end runs it.                *)
(***************************************************************************)
EXTENDS PppLink, SequenceTheorems, TLAPS

(* The peer is well formed: TypeOK of a peer record.                         *)
PeerOK(p) ==
  /\ p \in Peer
  /\ Len(p.tx) <= TX_FRAMES
  /\ \A x \in Protocols : /\ p.fsm[x].restarts <= Limit
                          /\ p.fsm[x].failures <= PPP_MAX_FAILURE

(* q is p with the automaton of proto in this state, its timer so.          *)
Moved(p, q, proto, state, timer) ==
  /\ PeerOK(q)
  /\ q.fsm[proto].state = state
  /\ q.fsm[proto].timer = timer
  /\ \A x \in Protocols \ {proto} : /\ q.fsm[x].state = p.fsm[x].state
                                    /\ q.fsm[x].timer = p.fsm[x].timer
  /\ q.assigned = p.assigned

(* An identifier's successor is an identifier: (uint8_t)(next_id + 1).      *)
LEMMA IdStep ==
  ASSUME NEW i \in Ids
  PROVE  (i + 1) % ID_COUNT \in Ids
  BY PppSizesAssumption DEF Ids

(* Replacing one automaton by another moves that automaton only.            *)
LEMMA PutMoves ==
  ASSUME NEW p, PeerOK(p), NEW proto \in Protocols, NEW f \in Fsm,
         f.restarts <= Limit, f.failures <= PPP_MAX_FAILURE
  PROVE  Moved(p, Put(p, proto, f), proto, f.state, f.timer)
  BY DEF PeerOK, Moved, Put, Peer

(* fsm->state = ...: the timer stays as it was.                             *)
LEMMA GotoMoves ==
  ASSUME NEW p, PeerOK(p), NEW proto \in Protocols, NEW state \in States
  PROVE  Moved(p, Goto(p, proto, state), proto, state, p.fsm[proto].timer)
<1> DEFINE f == [p.fsm[proto] EXCEPT !.state = state]
<1>1. /\ f \in Fsm /\ f.restarts <= Limit /\ f.failures <= PPP_MAX_FAILURE
      /\ f.state = state /\ f.timer = p.fsm[proto].timer
  BY DEF PeerOK, Peer, Fsm
<1>2. Goto(p, proto, state) = Put(p, proto, f)
  BY DEF Goto, Put
<1> QED BY <1>1, <1>2, PutMoves

(* restart_stop: the state stays as it was.                                 *)
LEMMA StopTimerMoves ==
  ASSUME NEW p, PeerOK(p), NEW proto \in Protocols
  PROVE  Moved(p, StopTimer(p, proto), proto, p.fsm[proto].state, FALSE)
<1> DEFINE f == [p.fsm[proto] EXCEPT !.timer = FALSE]
<1>1. /\ f \in Fsm /\ f.restarts <= Limit /\ f.failures <= PPP_MAX_FAILURE
      /\ f.state = p.fsm[proto].state /\ f.timer = FALSE
  BY DEF PeerOK, Peer, Fsm
<1>2. StopTimer(p, proto) = Put(p, proto, f)
  BY DEF StopTimer, Put
<1> QED BY <1>1, <1>2, PutMoves

(* irc: initialising the counters leaves state and timer alone.             *)
LEMMA IrcMoves ==
  ASSUME NEW p, PeerOK(p), NEW proto \in Protocols, NEW count \in Nat,
         count <= Limit
  PROVE  Moved(p, irc(p, proto, count), proto, p.fsm[proto].state,
               p.fsm[proto].timer)
<1> DEFINE f == [p.fsm[proto] EXCEPT !.restarts = count,
                                     !.failures = PPP_MAX_FAILURE]
<1>1. /\ f \in Fsm /\ f.restarts <= Limit /\ f.failures <= PPP_MAX_FAILURE
      /\ f.state = p.fsm[proto].state /\ f.timer = p.fsm[proto].timer
  <2>1. p.fsm[proto] \in Fsm /\ PPP_MAX_FAILURE \in Nat
    BY PppSizesAssumption DEF PeerOK, Peer
  <2>2. PPP_MAX_FAILURE <= PPP_MAX_FAILURE
    BY <2>1
  <2> QED BY <2>1, <2>2 DEF Fsm
<1>2. irc(p, proto, count) = Put(p, proto, f)
  BY DEF irc
<1> QED BY <1>1, <1>2, PutMoves

(* The part scr and str_ share arms the timer, and counts down no further
   than 0.                                                                 *)
LEMMA RequestedMoves ==
  ASSUME NEW p, PeerOK(p), NEW proto \in Protocols, NEW fresh \in BOOLEAN
  PROVE  /\ Moved(p, Requested(p, proto, fresh), proto, p.fsm[proto].state, TRUE)
         /\ Requested(p, proto, fresh).fsm[proto].last_req_id \in Ids
<1> DEFINE f  == p.fsm[proto]
           id == IF fresh THEN f.next_id ELSE f.last_req_id
           next == IF fresh THEN (f.next_id + 1) % ID_COUNT ELSE f.next_id
           left == IF f.restarts > 0 THEN f.restarts - 1 ELSE 0
           g  == [f EXCEPT !.last_req_id = id, !.next_id = next,
                           !.restarts = left, !.timer = TRUE]
<1>1. f \in Fsm /\ f.restarts <= Limit /\ f.failures <= PPP_MAX_FAILURE
  BY DEF PeerOK, Peer
<1>2. f.restarts \in Nat /\ f.next_id \in Ids /\ f.last_req_id \in Ids /\ Limit \in Nat
  BY <1>1, PppSizesAssumption DEF Fsm, Limit
<1>3. left \in Nat /\ left <= Limit
  BY <1>1, <1>2
<1>4. id \in Ids /\ next \in Ids
  BY <1>2, IdStep
<1>5. /\ g \in Fsm /\ g.restarts <= Limit /\ g.failures <= PPP_MAX_FAILURE
      /\ g.state = f.state /\ g.timer = TRUE
  <2> HIDE DEF id, next, left
  <2> QED BY <1>1, <1>3, <1>4 DEF Fsm
<1>6. Requested(p, proto, fresh) = Put(p, proto, g)
  BY DEF Requested, Put
<1> HIDE DEF g
<1>7. Put(p, proto, g).fsm[proto] = g
  BY DEF Put, PeerOK, Peer
<1> QED BY <1>5, <1>6, <1>7, PutMoves DEF Fsm

(* send_cp: a frame is queued whole or not at all, so the ring's bound
   holds and no automaton moves.                                           *)
LEMMA SendMoves ==
  ASSUME NEW p, PeerOK(p), NEW proto \in Protocols, NEW code \in Codes,
         NEW id \in Ids, NEW opts \in SUBSET Option
  PROVE  Moved(p, send_cp(p, proto, code, id, opts), proto,
               p.fsm[proto].state, p.fsm[proto].timer)
<1> DEFINE m == [proto |-> proto, code |-> code, id |-> id, opts |-> opts]
<1>1. m \in Frame
  BY DEF Frame
<1> HIDE DEF m
<1>2. CASE Len(p.tx) < TX_FRAMES
  <2> DEFINE q == [p EXCEPT !.tx = Append(p.tx, m)]
  <2>1. send_cp(p, proto, code, id, opts) = q
    BY <1>2 DEF send_cp, tx_frame, m
  <2>2. p.tx \in Seq(Frame) /\ TX_FRAMES \in Nat
    BY PppSizesAssumption DEF PeerOK, Peer
  <2>3. Append(p.tx, m) \in Seq(Frame) /\ Len(Append(p.tx, m)) = Len(p.tx) + 1
        /\ Len(p.tx) \in Nat
    BY <1>1, <2>2, AppendProperties, LenProperties
  <2>4. Len(Append(p.tx, m)) <= TX_FRAMES
    BY <1>2, <2>2, <2>3
  <2> HIDE DEF m
  <2> QED BY <2>1, <2>3, <2>4 DEF Moved, PeerOK, Peer
<1>3. CASE ~(Len(p.tx) < TX_FRAMES)
  <2>1. send_cp(p, proto, code, id, opts) = p
    BY <1>3 DEF send_cp, tx_frame
  <2> QED BY <2>1 DEF Moved
<1> QED BY <1>2, <1>3

(* What PeerOK says of one automaton.                                       *)
LEMMA Typing ==
  ASSUME NEW p, PeerOK(p), NEW proto \in Protocols
  PROVE  /\ p.fsm[proto] \in Fsm
         /\ p.fsm[proto].state \in States
         /\ p.fsm[proto].timer \in BOOLEAN
         /\ p.fsm[proto].last_req_id \in Ids
         /\ p.fsm[proto].next_id \in Ids
         /\ p.fsm[proto].restarts \in Nat
         /\ p.fsm[proto].failures \in Nat
         /\ p.fsm[proto].restarts <= Limit
         /\ p.fsm[proto].failures <= PPP_MAX_FAILURE
  BY DEF PeerOK, Peer, Fsm

(* Both restart counts are within Limit.                                    *)
LEMMA Limits ==
  /\ PPP_MAX_CONFIGURE \in Nat /\ PPP_MAX_CONFIGURE <= Limit
  /\ PPP_MAX_TERMINATE \in Nat /\ PPP_MAX_TERMINATE <= Limit
  /\ Limit \in Nat
  BY PppSizesAssumption DEF Limit

(* scr arms the timer and leaves the state alone.                           *)
LEMMA ScrMoves ==
  ASSUME NEW p, PeerOK(p), NEW proto \in Protocols, NEW fresh \in BOOLEAN
  PROVE  Moved(p, scr(p, proto, fresh), proto, p.fsm[proto].state, TRUE)
<1> DEFINE q == Requested(p, proto, fresh)
           id == q.fsm[proto].last_req_id
           opts == build_confreq(p, proto)
<1>1. Moved(p, q, proto, p.fsm[proto].state, TRUE) /\ id \in Ids
  BY RequestedMoves
<1>2. opts \in SUBSET Option
  <2>1. p.magic \in Nat /\ p.local_ip \in Nat
    BY DEF PeerOK, Peer
  <2> QED BY <2>1 DEF build_confreq, Option, Types
<1>3. "CONF_REQ" \in Codes
  BY DEF Codes
<1>4. scr(p, proto, fresh) = send_cp(q, proto, "CONF_REQ", id, opts)
  BY DEF scr
<1> HIDE DEF q, id, opts
<1>5. Moved(q, send_cp(q, proto, "CONF_REQ", id, opts), proto,
            q.fsm[proto].state, q.fsm[proto].timer)
  BY <1>1, <1>2, <1>3, SendMoves DEF Moved
<1> QED BY <1>1, <1>4, <1>5 DEF Moved

(* str_ arms the timer and leaves the state alone.                          *)
LEMMA StrMoves ==
  ASSUME NEW p, PeerOK(p), NEW proto \in Protocols
  PROVE  Moved(p, str(p, proto), proto, p.fsm[proto].state, TRUE)
<1> DEFINE q == Requested(p, proto, TRUE)
           id == q.fsm[proto].last_req_id
<1>1. Moved(p, q, proto, p.fsm[proto].state, TRUE) /\ id \in Ids
  BY RequestedMoves
<1>2. "TERM_REQ" \in Codes /\ {} \in SUBSET Option
  BY DEF Codes
<1>3. str(p, proto) = send_cp(q, proto, "TERM_REQ", id, {})
  BY DEF str
<1> HIDE DEF q, id
<1>4. Moved(q, send_cp(q, proto, "TERM_REQ", id, {}), proto,
            q.fsm[proto].state, q.fsm[proto].timer)
  BY <1>1, <1>2, SendMoves DEF Moved
<1> QED BY <1>1, <1>3, <1>4 DEF Moved

(* sta only sends.                                                          *)
LEMMA StaMoves ==
  ASSUME NEW p, PeerOK(p), NEW proto \in Protocols, NEW id \in Ids
  PROVE  Moved(p, sta(p, proto, id), proto, p.fsm[proto].state,
               p.fsm[proto].timer)
<1>1. "TERM_ACK" \in Codes /\ {} \in SUBSET Option
  BY DEF Codes
<1> QED BY <1>1, SendMoves DEF sta

(* A Code-Reject or a Protocol-Reject sent moves no automaton.              *)
LEMMA AnswerMoves ==
  ASSUME NEW p, PeerOK(p), NEW proto \in Protocols, NEW code \in Codes
  PROVE  Moved(p, answer_with(p, proto, code), proto, p.fsm[proto].state,
               p.fsm[proto].timer)
<1> DEFINE f == p.fsm[proto]
           g == [f EXCEPT !.next_id = (@ + 1) % ID_COUNT]
           q == Put(p, proto, g)
<1>1. f \in Fsm /\ f.next_id \in Ids
  BY Typing
<1>2. (f.next_id + 1) % ID_COUNT \in Ids
  BY <1>1, IdStep
<1>3. g \in Fsm /\ g.state = f.state /\ g.timer = f.timer
      /\ g.restarts = f.restarts /\ g.failures = f.failures
  BY <1>1, <1>2 DEF Fsm
<1>4. Moved(p, q, proto, f.state, f.timer)
  BY <1>3, PutMoves, Typing
<1>5. answer_with(p, proto, code) = send_cp(q, proto, code, f.next_id, {})
  BY DEF answer_with
<1> HIDE DEF g, q
<1>6. Moved(q, send_cp(q, proto, code, f.next_id, {}), proto,
            q.fsm[proto].state, q.fsm[proto].timer)
  BY <1>1, <1>4, SendMoves DEF Moved
<1> QED BY <1>4, <1>5, <1>6 DEF Moved

(* ipcp_start puts IPCP in Req-Sent with its timer running, from any state. *)
LEMMA IpcpStartMoves ==
  ASSUME NEW p, PeerOK(p)
  PROVE  Moved(p, ipcp_start(p), "IPCP", "REQSENT", TRUE)
<1> DEFINE f == p.fsm["IPCP"]
           g == [f EXCEPT !.state = "REQSENT", !.opts = {"ADDRESS"}]
           q == Put(p, "IPCP", g)
           r == irc(q, "IPCP", PPP_MAX_CONFIGURE)
<1>1. "IPCP" \in Protocols /\ "REQSENT" \in States /\ {"ADDRESS"} \in SUBSET Types
  BY DEF Protocols, States, Types
<1>2. f \in Fsm /\ f.restarts <= Limit /\ f.failures <= PPP_MAX_FAILURE
  BY <1>1, Typing
<1>3. g \in Fsm /\ g.state = "REQSENT"
      /\ g.restarts = f.restarts /\ g.failures = f.failures
  BY <1>1, <1>2 DEF Fsm
<1>5. ipcp_start(p) = scr(r, "IPCP", TRUE)
  BY DEF ipcp_start
<1> HIDE DEF f, g
<1>4. Moved(p, q, "IPCP", "REQSENT", g.timer)
  BY <1>1, <1>2, <1>3, PutMoves
<1> HIDE DEF q
<1>6. Moved(q, r, "IPCP", q.fsm["IPCP"].state, q.fsm["IPCP"].timer)
  BY <1>1, <1>4, Limits, IrcMoves DEF Moved
<1> HIDE DEF r
<1>7. Moved(r, scr(r, "IPCP", TRUE), "IPCP", r.fsm["IPCP"].state, TRUE)
  BY <1>1, <1>6, ScrMoves DEF Moved
<1> QED BY <1>1, <1>4, <1>5, <1>6, <1>7 DEF Moved

(* This-Layer-Down of either layer clears the assignment; LCP's stops
   IPCP too.                                                               *)
LEMMA TldMoves ==
  ASSUME NEW p, PeerOK(p), NEW proto \in Protocols
  PROVE  /\ PeerOK(tld(p, proto))
         /\ tld(p, proto).assigned = FALSE
         /\ tld(p, proto).fsm["LCP"].state = p.fsm["LCP"].state
         /\ tld(p, proto).fsm["LCP"].timer = p.fsm["LCP"].timer
         /\ tld(p, proto).fsm["IPCP"].state
              = IF proto = "LCP" THEN "INITIAL" ELSE p.fsm["IPCP"].state
         /\ tld(p, proto).fsm["IPCP"].timer
              = IF proto = "LCP" THEN FALSE ELSE p.fsm["IPCP"].timer
<1> DEFINE q == [p EXCEPT !.assigned = FALSE]
<1>1. /\ PeerOK(q) /\ q.assigned = FALSE /\ q.fsm = p.fsm
  BY DEF PeerOK, Peer
<1>2. "IPCP" \in Protocols /\ "LCP" \in Protocols /\ "INITIAL" \in States
  BY DEF Protocols, States
<1>3. tld(p, proto) = IF proto = "LCP"
                      THEN StopTimer(Goto(q, "IPCP", "INITIAL"), "IPCP") ELSE q
  BY DEF tld
<1> HIDE DEF q
<1>4. CASE proto = "LCP"
  <2> DEFINE r == Goto(q, "IPCP", "INITIAL")
  <2>1. Moved(q, r, "IPCP", "INITIAL", q.fsm["IPCP"].timer)
    BY <1>1, <1>2, GotoMoves
  <2> HIDE DEF r
  <2>2. Moved(r, StopTimer(r, "IPCP"), "IPCP", r.fsm["IPCP"].state, FALSE)
    BY <1>2, <2>1, StopTimerMoves DEF Moved
  <2>3. tld(p, proto) = StopTimer(r, "IPCP")
    BY <1>3, <1>4 DEF r
  <2> DEFINE t == tld(p, proto)
  <2>4. /\ PeerOK(t) /\ t.assigned = r.assigned
        /\ t.fsm["IPCP"].state = r.fsm["IPCP"].state /\ t.fsm["IPCP"].timer = FALSE
        /\ t.fsm["LCP"].state = r.fsm["LCP"].state
        /\ t.fsm["LCP"].timer = r.fsm["LCP"].timer
    BY <1>2, <2>2, <2>3 DEF Moved
  <2>5. /\ r.assigned = q.assigned /\ r.fsm["IPCP"].state = "INITIAL"
        /\ r.fsm["LCP"].state = q.fsm["LCP"].state
        /\ r.fsm["LCP"].timer = q.fsm["LCP"].timer
    BY <1>2, <2>1 DEF Moved
  <2> HIDE DEF t
  <2>6. t.assigned = FALSE /\ t.fsm["LCP"].state = p.fsm["LCP"].state
        /\ t.fsm["LCP"].timer = p.fsm["LCP"].timer
        /\ t.fsm["IPCP"].state = "INITIAL"
    BY <1>1, <2>4, <2>5
  <2> QED BY <1>4, <2>4, <2>6 DEF t
<1>5. CASE proto # "LCP"
  BY <1>1, <1>3, <1>5
<1> QED BY <1>4, <1>5

(* Each timer runs exactly while its automaton waits for the guest.         *)
Good(p) ==
  /\ PeerOK(p)
  /\ \A x \in Protocols : p.fsm[x].timer <=> Waits(p.fsm[x].state)

(* IPCP lives on an open LCP, and assignment follows IPCP.                  *)
Linked(p) ==
  /\ p.fsm["IPCP"].state # "INITIAL" => p.fsm["LCP"].state = "OPENED"
  /\ p.assigned <=> p.fsm["IPCP"].state = "OPENED"

(* What every handler does to the invariant, p before it and q after.       *)
Stepped(p, q) == Good(q) /\ (Linked(p) => Linked(q))

(* A handler that changes no state and no timer is a step.                  *)
LEMMA Still ==
  ASSUME NEW p, NEW q, NEW proto \in Protocols, Good(p),
         Moved(p, q, proto, p.fsm[proto].state, p.fsm[proto].timer)
  PROVE  Stepped(p, q)
<1>1. \A x \in Protocols : q.fsm[x].state = p.fsm[x].state
                           /\ q.fsm[x].timer = p.fsm[x].timer
  BY DEF Moved
<1>2. "LCP" \in Protocols /\ "IPCP" \in Protocols
  BY DEF Protocols
<1> QED BY <1>1, <1>2 DEF Moved, Stepped, Good, Linked

(* A move between two states that wait, neither of them Opened, or to rest. *)
LEMMA Sideways ==
  ASSUME NEW p, NEW q, NEW proto \in Protocols, NEW state, NEW timer, Good(p),
         Moved(p, q, proto, state, timer), timer <=> Waits(state),
         p.fsm[proto].state \notin {"INITIAL", "OPENED"},
         state \notin {"INITIAL", "OPENED"}
  PROVE  Stepped(p, q)
<1>1. CASE proto = "LCP"
  BY <1>1 DEF Moved, Stepped, Good, Linked, Protocols
<1>2. CASE proto = "IPCP"
  BY <1>2 DEF Moved, Stepped, Good, Linked, Protocols
<1> QED BY <1>1, <1>2 DEF Protocols

(* An automaton comes up: p0 is where the handler began, p where it is.     *)
LEMMA ComingUp ==
  ASSUME NEW p0, NEW p, NEW proto \in Protocols, Good(p0),
         p0.fsm[proto].state \notin {"INITIAL", "OPENED"},
         NEW state, NEW timer, Moved(p0, p, proto, state, timer)
  PROVE  Stepped(p0, tlu(StopTimer(Goto(p, proto, "OPENED"), proto), proto))
<1> DEFINE q == Goto(p, proto, "OPENED")
           r == StopTimer(q, proto)
<1>1. "OPENED" \in States
  BY DEF States
<1>2. PeerOK(p)
  BY DEF Moved
<1>3. Moved(p, q, proto, "OPENED", p.fsm[proto].timer)
  BY <1>1, <1>2, GotoMoves
<1> HIDE DEF q
<1>4. Moved(q, r, proto, q.fsm[proto].state, FALSE)
  BY <1>3, StopTimerMoves DEF Moved
<1> HIDE DEF r
<1>5. Moved(p0, r, proto, "OPENED", FALSE)
  BY <1>3, <1>4 DEF Moved
<1>6. CASE proto = "LCP"
  <2> DEFINE u == ipcp_start(r)
  <2>1. Moved(r, u, "IPCP", "REQSENT", TRUE)
    BY <1>5, IpcpStartMoves DEF Moved
  <2> HIDE DEF u
  <2>2. Stepped(p0, u)
    <3>1. u.fsm["LCP"].state = "OPENED" /\ u.fsm["LCP"].timer = FALSE
      BY <1>5, <1>6, <2>1 DEF Moved, Protocols
    <3>2. u.fsm["IPCP"].state = "REQSENT" /\ u.fsm["IPCP"].timer = TRUE
          /\ u.assigned = p0.assigned /\ PeerOK(u)
      BY <1>5, <2>1 DEF Moved
    <3>3. Linked(p0) => Linked(u)
      BY <1>6, <3>1, <3>2 DEF Linked
    <3> QED BY <3>1, <3>2, <3>3 DEF Stepped, Good, Waits, Protocols
  <2>3. tlu(r, proto) = u
    BY <1>6 DEF tlu, u
  <2> QED BY <2>2, <2>3 DEF r, q
<1>7. CASE proto = "IPCP"
  <2> DEFINE u == [r EXCEPT !.assigned = TRUE]
  <2>1. PeerOK(u) /\ u.fsm = r.fsm /\ u.assigned = TRUE
    BY <1>5 DEF Moved, PeerOK, Peer
  <2> HIDE DEF u
  <2>2. u.fsm["IPCP"].state = "OPENED" /\ u.fsm["IPCP"].timer = FALSE
        /\ u.fsm["LCP"].state = p0.fsm["LCP"].state
        /\ u.fsm["LCP"].timer = p0.fsm["LCP"].timer
    BY <1>5, <1>7, <2>1 DEF Moved, Protocols
  <2>3. Linked(p0) => Linked(u)
    BY <1>7, <2>1, <2>2 DEF Linked
  <2>4. Stepped(p0, u)
    BY <2>1, <2>2, <2>3 DEF Stepped, Good, Waits, Protocols
  <2>5. tlu(r, proto) = u
    BY <1>7 DEF tlu, u
  <2> QED BY <2>4, <2>5 DEF r, q
<1> QED BY <1>6, <1>7 DEF Protocols

(* An automaton leaves Opened: tld has taken down what was open above it.   *)
LEMMA GoingDown ==
  ASSUME NEW p, NEW q, NEW proto \in Protocols, Good(p), NEW state, NEW timer,
         Moved(tld(p, proto), q, proto, state, timer), timer <=> Waits(state),
         p.fsm[proto].state # "INITIAL", state \notin {"INITIAL", "OPENED"}
  PROVE  Stepped(p, q)
<1> DEFINE d == tld(p, proto)
<1>0. PeerOK(p)
  BY DEF Good
<1>1. /\ d.assigned = FALSE
      /\ d.fsm["LCP"].state = p.fsm["LCP"].state
      /\ d.fsm["LCP"].timer = p.fsm["LCP"].timer
      /\ d.fsm["IPCP"].state = IF proto = "LCP" THEN "INITIAL" ELSE p.fsm["IPCP"].state
      /\ d.fsm["IPCP"].timer = IF proto = "LCP" THEN FALSE ELSE p.fsm["IPCP"].timer
  BY <1>0, TldMoves, Zenon
<1> HIDE DEF d
<1>2. Moved(d, q, proto, state, timer)
  BY DEF d
<1>3. CASE proto = "LCP"
  <2>1. /\ q.fsm["LCP"].state = state /\ q.fsm["LCP"].timer = timer
        /\ q.fsm["IPCP"].state = "INITIAL" /\ q.fsm["IPCP"].timer = FALSE
        /\ q.assigned = FALSE /\ PeerOK(q)
    BY <1>1, <1>2, <1>3 DEF Moved, Protocols
  <2> QED BY <2>1 DEF Stepped, Good, Linked, Waits, Protocols
<1>4. CASE proto = "IPCP"
  <2>1. /\ q.fsm["IPCP"].state = state /\ q.fsm["IPCP"].timer = timer
        /\ q.fsm["LCP"].state = p.fsm["LCP"].state
        /\ q.fsm["LCP"].timer = p.fsm["LCP"].timer
        /\ q.assigned = FALSE /\ PeerOK(q)
    BY <1>1, <1>2, <1>4 DEF Moved, Protocols
  <2>2. Linked(p) => Linked(q)
    BY <1>4, <2>1 DEF Linked
  <2>3. q.fsm["LCP"].timer <=> Waits(q.fsm["LCP"].state)
    BY <2>1 DEF Good, Protocols
  <2> QED BY <2>1, <2>2, <2>3 DEF Stepped, Good, Protocols
<1> QED BY <1>3, <1>4 DEF Protocols

(* Steps compose, which is how the handlers that call one another are
   proved.                                                                 *)
LEMMA Then ==
  ASSUME NEW p, NEW q, NEW r, Stepped(p, q), Stepped(q, r)
  PROVE  Stepped(p, r)
  BY DEF Stepped

(* classify_confreq answers with a control code and with well-formed
   options.                                                                *)
LEMMA Classified ==
  ASSUME NEW p, PeerOK(p), NEW proto \in Protocols, NEW opts \in SUBSET Option
  PROVE  /\ classify_confreq(p, proto, opts).code \in Codes
         /\ classify_confreq(p, proto, opts).opts \in SUBSET Option
<1> DEFINE rej == {o \in opts : review(p, proto, o) = "REJ"}
           nak == {o \in opts : review(p, proto, o) = "NAK"}
           sug == {Suggested(p, o) : o \in nak}
<1>1. ASSUME NEW o \in Option
      PROVE  Suggested(p, o) \in Option
  <2>1. o[1] \in Types /\ o[2] \in Nat
    BY DEF Option
  <2>2. \A m \in Nat : Alternative(m) \in Nat
    BY DEF Alternative
  <2>3. RemoteIp \in Nat
    BY PppConfigAssumption
  <2> QED BY <2>1, <2>2, <2>3 DEF Suggested, Option
<1>2. rej \in SUBSET Option /\ nak \in SUBSET Option
  OBVIOUS
<1> HIDE DEF rej, nak
<1>3. sug \in SUBSET Option
  BY <1>1, <1>2
<1> HIDE DEF sug
<1>4. classify_confreq(p, proto, opts)
        = IF rej # {} THEN [code |-> "CONF_REJ", opts |-> rej]
          ELSE IF nak # {} THEN [code |-> "CONF_NAK", opts |-> sug]
          ELSE [code |-> "CONF_ACK", opts |-> opts]
  BY DEF classify_confreq, rej, nak, sug
<1> QED BY <1>2, <1>3, <1>4 DEF Codes

(* apply_nak changes the values asked for, and no automaton.                *)
LEMMA NakMoves ==
  ASSUME NEW p, PeerOK(p), NEW proto \in Protocols, NEW opts \in SUBSET Option
  PROVE  Moved(p, apply_nak(p, proto, opts), proto, p.fsm[proto].state,
               p.fsm[proto].timer)
<1> DEFINE ours == IF proto = "LCP" THEN "MAGIC" ELSE "ADDRESS"
           named == {o \in opts : o[1] = ours}
           value == (CHOOSE o \in named : TRUE)[2]
<1>1. CASE named = {}
  <2>1. apply_nak(p, proto, opts) = p
    BY <1>1 DEF apply_nak
  <2> QED BY <2>1 DEF Moved
<1>2. CASE named # {}
  <2>1. (CHOOSE o \in named : TRUE) \in named
    BY <1>2
  <2>2. value \in Nat
    BY <2>1 DEF Option
  <2>3. apply_nak(p, proto, opts) = IF proto = "LCP" THEN [p EXCEPT !.magic = value]
                                    ELSE [p EXCEPT !.local_ip = value]
    BY <1>2 DEF apply_nak
  <2> HIDE DEF value
  <2>4. Moved(p, [p EXCEPT !.magic = value], proto, p.fsm[proto].state,
              p.fsm[proto].timer)
    BY <2>2 DEF Moved, PeerOK, Peer
  <2>5. Moved(p, [p EXCEPT !.local_ip = value], proto, p.fsm[proto].state,
              p.fsm[proto].timer)
    BY <2>2 DEF Moved, PeerOK, Peer
  <2> QED BY <2>3, <2>4, <2>5
<1> QED BY <1>1, <1>2

(* apply_rej changes the options asked for, and no automaton.               *)
LEMMA RejMoves ==
  ASSUME NEW p, PeerOK(p), NEW proto \in Protocols, NEW opts
  PROVE  Moved(p, apply_rej(p, proto, opts), proto, p.fsm[proto].state,
               p.fsm[proto].timer)
<1> DEFINE f == p.fsm[proto]
           less == f.opts \ {o[1] : o \in opts}
           g == [f EXCEPT !.opts = less]
<1>1. f \in Fsm /\ f.restarts <= Limit /\ f.failures <= PPP_MAX_FAILURE
  BY Typing
<1>2. less \in SUBSET Types
  BY <1>1 DEF Fsm
<1> HIDE DEF less, f
<1>3. g \in Fsm /\ g.restarts = f.restarts /\ g.failures = f.failures
      /\ g.state = f.state /\ g.timer = f.timer
  BY <1>1, <1>2 DEF Fsm
<1>4. apply_rej(p, proto, opts) = Put(p, proto, g)
  BY DEF apply_rej, f, less
<1> HIDE DEF g
<1>5. Moved(p, Put(p, proto, g), proto, g.state, g.timer)
  BY <1>1, <1>3, PutMoves
<1> QED BY <1>3, <1>4, <1>5 DEF f

(* Our request goes out again and the automaton goes to a state that waits. *)
LEMMA Repeated ==
  ASSUME NEW p, PeerOK(p), NEW proto \in Protocols
  PROVE  /\ Moved(p, scr(irc(p, proto, PPP_MAX_CONFIGURE), proto, TRUE), proto,
                  p.fsm[proto].state, TRUE)
         /\ Moved(p, Goto(scr(p, proto, TRUE), proto, "REQSENT"), proto,
                  "REQSENT", TRUE)
<1>1. "REQSENT" \in States
  BY DEF States
<1> DEFINE q == irc(p, proto, PPP_MAX_CONFIGURE)
           r == scr(p, proto, TRUE)
<1>2. Moved(p, q, proto, p.fsm[proto].state, p.fsm[proto].timer)
  BY Limits, IrcMoves
<1>3. Moved(p, r, proto, p.fsm[proto].state, TRUE)
  BY ScrMoves
<1> HIDE DEF q, r
<1>4. Moved(q, scr(q, proto, TRUE), proto, q.fsm[proto].state, TRUE)
  BY <1>2, ScrMoves DEF Moved
<1>5. Moved(r, Goto(r, proto, "REQSENT"), proto, "REQSENT", r.fsm[proto].timer)
  BY <1>1, <1>3, GotoMoves DEF Moved
<1>6. Moved(p, scr(q, proto, TRUE), proto, p.fsm[proto].state, TRUE)
  BY <1>2, <1>4 DEF Moved
<1>7. Moved(p, Goto(r, proto, "REQSENT"), proto, "REQSENT", TRUE)
  BY <1>3, <1>5 DEF Moved
<1> QED BY <1>6, <1>7 DEF q, r

(* Renegotiation from Opened takes the layer above down first.              *)
LEMMA Reopened ==
  ASSUME NEW p, Good(p), NEW proto \in Protocols, p.fsm[proto].state = "OPENED"
  PROVE  Stepped(p, Reopen(p, proto))
<1> DEFINE d == tld(p, proto)
           q == Goto(scr(d, proto, TRUE), proto, "REQSENT")
<1>1. PeerOK(p)
  BY DEF Good
<1>2. PeerOK(d)
  BY <1>1, TldMoves, Zenon
<1> HIDE DEF d
<1>3. Moved(d, q, proto, "REQSENT", TRUE)
  BY <1>2, Repeated
<1>4. Reopen(p, proto) = q
  BY DEF Reopen, d
<1> HIDE DEF q
<1>5. TRUE <=> Waits("REQSENT")
  BY DEF Waits
<1> QED BY <1>3, <1>4, <1>5, GoingDown DEF d

(* Ignoring an event is a step.                                             *)
LEMMA Same ==
  ASSUME NEW p, Good(p)
  PROVE  Stepped(p, p)
  BY DEF Stepped

(* Receive-Configure-Ack, in every state.                                   *)
LEMMA RcaStepped ==
  ASSUME NEW p, Good(p), NEW proto \in Protocols, NEW id \in Ids
  PROVE  Stepped(p, ev_rca(p, proto, id))
<1> DEFINE q == ev_rca(p, proto, id)
           state == p.fsm[proto].state
<1>0. PeerOK(p)
  BY DEF Good
<1>1. CASE id # p.fsm[proto].last_req_id
  BY <1>1, Same DEF ev_rca
<1>2. CASE id = p.fsm[proto].last_req_id
  <2>1. CASE state \in {"CLOSED", "STOPPED"}
    <3>1. q = sta(p, proto, id)
      BY <1>2, <2>1 DEF ev_rca
    <3>2. Stepped(p, sta(p, proto, id))
      BY <1>0, StaMoves, Still
    <3> QED BY <3>1, <3>2
  <2>2. CASE state = "REQSENT"
    <3> DEFINE r == irc(p, proto, PPP_MAX_CONFIGURE)
    <3>1. q = Goto(r, proto, "ACKRCVD")
      BY <1>2, <2>2 DEF ev_rca
    <3>2. Moved(p, r, proto, state, p.fsm[proto].timer)
      BY <1>0, Limits, IrcMoves
    <3> HIDE DEF r, q
    <3>3. Moved(r, Goto(r, proto, "ACKRCVD"), proto, "ACKRCVD", r.fsm[proto].timer)
      BY <3>2, GotoMoves DEF Moved, States
    <3>4. p.fsm[proto].timer = TRUE
      BY <2>2, <1>0, Typing DEF Good, Waits
    <3>5. Moved(p, q, proto, "ACKRCVD", TRUE)
      BY <3>1, <3>2, <3>3, <3>4 DEF Moved
    <3>6. TRUE <=> Waits("ACKRCVD")
      BY DEF Waits
    <3> QED BY <2>2, <3>5, <3>6, Sideways DEF q
  <2>3. CASE state = "ACKRCVD"
    <3>1. q = Goto(scr(p, proto, TRUE), proto, "REQSENT")
      BY <1>2, <2>3 DEF ev_rca
    <3>2. Moved(p, Goto(scr(p, proto, TRUE), proto, "REQSENT"), proto, "REQSENT", TRUE)
      BY <1>0, Repeated
    <3>3. TRUE <=> Waits("REQSENT")
      BY DEF Waits
    <3>4. Moved(p, q, proto, "REQSENT", TRUE)
      BY <3>1, <3>2
    <3> HIDE DEF q
    <3> QED BY <2>3, <3>3, <3>4, Sideways DEF q
  <2>4. CASE state = "ACKSENT"
    <3> DEFINE r == irc(p, proto, PPP_MAX_CONFIGURE)
    <3>1. q = tlu(StopTimer(Goto(r, proto, "OPENED"), proto), proto)
      BY <1>2, <2>4 DEF ev_rca
    <3>2. Moved(p, r, proto, state, p.fsm[proto].timer)
      BY <1>0, Limits, IrcMoves
    <3> HIDE DEF r
    <3>3. Stepped(p, tlu(StopTimer(Goto(r, proto, "OPENED"), proto), proto))
      BY <2>4, <3>2, ComingUp
    <3> QED BY <3>1, <3>3
  <2>5. CASE state = "OPENED"
    <3>1. q = Reopen(p, proto)
      BY <1>2, <2>5 DEF ev_rca
    <3>2. Stepped(p, Reopen(p, proto))
      BY <2>5, Reopened
    <3> QED BY <3>1, <3>2
  <2>6. CASE state \in {"INITIAL", "CLOSING", "STOPPING"}
    <3>1. q = p
      BY <1>2, <2>6 DEF ev_rca
    <3> QED BY <3>1, Same
  <2> QED BY <2>1, <2>2, <2>3, <2>4, <2>5, <2>6, <1>0, Typing DEF States
<1> QED BY <1>1, <1>2

(* Receive-Configure-Nak or -Reject, in every state.                        *)
LEMMA RcnStepped ==
  ASSUME NEW p, Good(p), NEW proto \in Protocols, NEW id \in Ids
  PROVE  Stepped(p, ev_rcn(p, proto, id))
<1> DEFINE q == ev_rcn(p, proto, id)
           state == p.fsm[proto].state
<1>0. PeerOK(p)
  BY DEF Good
<1>1. CASE id # p.fsm[proto].last_req_id
  BY <1>1, Same DEF ev_rcn
<1>2. CASE id = p.fsm[proto].last_req_id
  <2>1. CASE state \in {"CLOSED", "STOPPED"}
    <3>1. q = sta(p, proto, id)
      BY <1>2, <2>1 DEF ev_rcn
    <3>2. Stepped(p, sta(p, proto, id))
      BY <1>0, StaMoves, Still
    <3> QED BY <3>1, <3>2
  <2>2. CASE state \in {"REQSENT", "ACKSENT"}
    <3>1. q = scr(irc(p, proto, PPP_MAX_CONFIGURE), proto, TRUE)
      BY <1>2, <2>2 DEF ev_rcn
    <3>2. Moved(p, scr(irc(p, proto, PPP_MAX_CONFIGURE), proto, TRUE), proto, state, TRUE)
      BY <1>0, Repeated
    <3>3. TRUE <=> Waits(state)
      BY <2>2 DEF Waits
    <3>4. Moved(p, q, proto, state, TRUE)
      BY <3>1, <3>2
    <3> HIDE DEF q
    <3> QED BY <2>2, <3>3, <3>4, Sideways DEF q
  <2>3. CASE state = "ACKRCVD"
    <3>1. q = Goto(scr(p, proto, TRUE), proto, "REQSENT")
      BY <1>2, <2>3 DEF ev_rcn
    <3>2. Moved(p, Goto(scr(p, proto, TRUE), proto, "REQSENT"), proto, "REQSENT", TRUE)
      BY <1>0, Repeated
    <3>3. TRUE <=> Waits("REQSENT")
      BY DEF Waits
    <3>4. Moved(p, q, proto, "REQSENT", TRUE)
      BY <3>1, <3>2
    <3> HIDE DEF q
    <3> QED BY <2>3, <3>3, <3>4, Sideways DEF q
  <2>4. CASE state = "OPENED"
    <3>1. q = Reopen(p, proto)
      BY <1>2, <2>4 DEF ev_rcn
    <3>2. Stepped(p, Reopen(p, proto))
      BY <2>4, Reopened
    <3> QED BY <3>1, <3>2
  <2>5. CASE state \in {"INITIAL", "CLOSING", "STOPPING"}
    <3>1. q = p
      BY <1>2, <2>5 DEF ev_rcn
    <3> QED BY <3>1, Same
  <2> QED BY <2>1, <2>2, <2>3, <2>4, <2>5, <1>0, Typing DEF States
<1> QED BY <1>1, <1>2

(* Receive-Terminate-Request: Opened goes through This-Layer-Down to
   Stopping with the timer running.                                        *)
LEMMA RtrStepped ==
  ASSUME NEW p, Good(p), NEW proto \in Protocols, NEW id \in Ids
  PROVE  Stepped(p, ev_rtr(p, proto, id))
<1> DEFINE q == sta(p, proto, id)
           r == ev_rtr(p, proto, id)
           state == p.fsm[proto].state
<1>0. PeerOK(p)
  BY DEF Good
<1>1. Moved(p, q, proto, state, p.fsm[proto].timer)
  BY <1>0, StaMoves
<1>2. Stepped(p, q)
  BY <1>1, Still
<1>3. CASE state = "OPENED"
  <2> DEFINE d == tld(q, proto)
             g == [d.fsm[proto] EXCEPT !.restarts = 0, !.timer = TRUE,
                                       !.state = "STOPPING"]
  <2>1. r = Put(d, proto, g)
    BY <1>3 DEF ev_rtr
  <2> HIDE DEF q, r
  <2>2. PeerOK(d)
    BY <1>1, TldMoves, Zenon DEF Moved
  <2> HIDE DEF d
  <2>3. d.fsm[proto] \in Fsm /\ d.fsm[proto].failures <= PPP_MAX_FAILURE
    BY <2>2, Typing
  <2>4. 0 <= Limit /\ "STOPPING" \in States
    BY Limits DEF States
  <2>5. /\ g \in Fsm /\ g.restarts = 0 /\ g.failures = d.fsm[proto].failures
        /\ g.state = "STOPPING" /\ g.timer = TRUE
    BY <2>3, <2>4 DEF Fsm
  <2> HIDE DEF g
  <2>6. Moved(d, r, proto, "STOPPING", TRUE)
    BY <2>1, <2>2, <2>3, <2>4, <2>5, PutMoves
  <2>7. (TRUE <=> Waits("STOPPING")) /\ q.fsm[proto].state = "OPENED" /\ Good(q)
    BY <1>1, <1>2, <1>3 DEF Waits, Moved, Stepped
  <2>8. Stepped(q, r)
    BY <2>6, <2>7, GoingDown DEF d
  <2> QED BY <1>2, <2>8, Then DEF r
<1>4. CASE state \in {"REQSENT", "ACKRCVD", "ACKSENT"}
  <2>1. r = Goto(q, proto, "REQSENT")
    BY <1>4 DEF ev_rtr
  <2> HIDE DEF q, r
  <2>2. PeerOK(q) /\ "REQSENT" \in States /\ Good(q)
    BY <1>1, <1>2 DEF Moved, Stepped, States
  <2>3. Moved(q, r, proto, "REQSENT", q.fsm[proto].timer)
    BY <2>1, <2>2, GotoMoves
  <2>4. p.fsm[proto].timer = TRUE
    BY <1>0, <1>4, Typing DEF Good, Waits
  <2>5. q.fsm[proto].state = state /\ q.fsm[proto].timer = TRUE
    BY <1>1, <2>4 DEF Moved
  <2>6. TRUE <=> Waits("REQSENT")
    BY DEF Waits
  <2>7. Moved(q, r, proto, "REQSENT", TRUE)
    BY <2>3, <2>5
  <2>8. Stepped(q, r)
    BY <1>4, <2>2, <2>5, <2>6, <2>7, Sideways
  <2> QED BY <1>2, <2>8, Then DEF r
<1>5. CASE state \notin {"OPENED", "REQSENT", "ACKRCVD", "ACKSENT"}
  <2>1. r = q
    BY <1>5 DEF ev_rtr
  <2> QED BY <1>2, <2>1
<1> QED BY <1>3, <1>4, <1>5

(* Receive-Terminate-Ack, in every state.                                   *)
LEMMA RtaStepped ==
  ASSUME NEW p, Good(p), NEW proto \in Protocols
  PROVE  Stepped(p, ev_rta(p, proto))
<1> DEFINE q == ev_rta(p, proto)
           state == p.fsm[proto].state
<1>0. PeerOK(p)
  BY DEF Good
<1>1. ASSUME NEW rest \in {"CLOSED", "STOPPED"}, state \in {"CLOSING", "STOPPING"}
      PROVE  Stepped(p, StopTimer(Goto(p, proto, rest), proto))
  <2> DEFINE g == Goto(p, proto, rest)
             h == StopTimer(g, proto)
  <2>1. Moved(p, g, proto, rest, p.fsm[proto].timer)
    BY <1>0, GotoMoves DEF States
  <2> HIDE DEF g
  <2>2. Moved(g, h, proto, g.fsm[proto].state, FALSE)
    BY <2>1, StopTimerMoves DEF Moved
  <2> HIDE DEF h
  <2>3. Moved(p, h, proto, rest, FALSE)
    BY <2>1, <2>2 DEF Moved
  <2>4. FALSE <=> Waits(rest)
    BY DEF Waits
  <2>5. Stepped(p, h)
    BY <1>1, <2>3, <2>4, Sideways
  <2> QED BY <2>5 DEF h, g
<1>2. CASE state = "CLOSING"
  BY <1>1, <1>2 DEF ev_rta
<1>3. CASE state = "STOPPING"
  BY <1>1, <1>3 DEF ev_rta
<1>4. CASE state = "ACKRCVD"
  <2>1. q = Goto(p, proto, "REQSENT")
    BY <1>4 DEF ev_rta
  <2>2. Moved(p, q, proto, "REQSENT", p.fsm[proto].timer)
    BY <1>0, <2>1, GotoMoves DEF States
  <2>3. p.fsm[proto].timer = TRUE
    BY <1>0, <1>4, Typing DEF Good, Waits
  <2>4. TRUE <=> Waits("REQSENT")
    BY DEF Waits
  <2> HIDE DEF q
  <2>5. Moved(p, q, proto, "REQSENT", TRUE)
    BY <2>2, <2>3
  <2> QED BY <1>4, <2>4, <2>5, Sideways DEF q
<1>5. CASE state = "OPENED"
  <2>1. q = Reopen(p, proto)
    BY <1>5 DEF ev_rta
  <2> QED BY <1>5, <2>1, Reopened
<1>6. CASE state \notin {"CLOSING", "STOPPING", "ACKRCVD", "OPENED"}
  <2>1. q = p
    BY <1>6 DEF ev_rta
  <2> QED BY <2>1, Same
<1> QED BY <1>2, <1>3, <1>4, <1>5, <1>6

(* A rejection of IPCP is not This-Layer-Down: Linked may be lost.          *)
LEMMA RxjGood ==
  ASSUME NEW p, Good(p), NEW proto \in Protocols
  PROVE  /\ Good(ev_rxj(p, proto))
         /\ proto = "LCP" => Linked(ev_rxj(p, proto))
<1> DEFINE g == Goto(p, proto, "STOPPED")
           q == StopTimer(g, proto)
           r == ev_rxj(p, proto)
<1>0. PeerOK(p) /\ "STOPPED" \in States
  BY DEF Good, States
<1>1. Moved(p, g, proto, "STOPPED", p.fsm[proto].timer)
  BY <1>0, GotoMoves
<1> HIDE DEF g
<1>2. Moved(g, q, proto, g.fsm[proto].state, FALSE)
  BY <1>1, StopTimerMoves DEF Moved
<1>3. r = IF proto = "LCP" THEN tld(q, "LCP") ELSE q
  BY DEF ev_rxj, g
<1> HIDE DEF q, r
<1>4. Moved(p, q, proto, "STOPPED", FALSE)
  BY <1>1, <1>2 DEF Moved
<1>5. CASE proto = "LCP"
  <2>1. PeerOK(q) /\ q.fsm["LCP"].state = "STOPPED" /\ q.fsm["LCP"].timer = FALSE
        /\ "LCP" \in Protocols
    BY <1>4, <1>5 DEF Moved
  <2> DEFINE d == tld(q, "LCP")
  <2>2. /\ PeerOK(d) /\ d.assigned = FALSE
        /\ d.fsm["LCP"].state = q.fsm["LCP"].state
        /\ d.fsm["LCP"].timer = q.fsm["LCP"].timer
        /\ d.fsm["IPCP"].state = "INITIAL" /\ d.fsm["IPCP"].timer = FALSE
    BY <2>1, TldMoves, Zenon
  <2> HIDE DEF d
  <2>3. Good(d) /\ Linked(d)
    BY <2>1, <2>2 DEF Good, Linked, Waits, Protocols
  <2>4. r = d
    BY <1>3, <1>5 DEF d
  <2> QED BY <2>3, <2>4 DEF r
<1>6. CASE proto = "IPCP"
  <2>1. r = q
    BY <1>3, <1>6
  <2>2. Good(q)
    BY <1>4, <1>6 DEF Moved, Good, Waits, Protocols
  <2> QED BY <1>6, <2>1, <2>2 DEF r
<1> QED BY <1>5, <1>6 DEF Protocols

(* Where a judged request leads: p0 is where ev_rcr began, p what it has
   sent so far.                                                            *)
LEMMA JudgedStepped ==
  ASSUME NEW p0, Good(p0), NEW proto \in Protocols, NEW good \in BOOLEAN, NEW p,
         p0.fsm[proto].state \notin {"INITIAL", "CLOSED", "STOPPED", "OPENED"},
         Moved(p0, p, proto, p0.fsm[proto].state, p0.fsm[proto].timer)
  PROVE  Stepped(p0, Judged(p, proto, p0.fsm[proto].state, good))
<1> DEFINE entry == p0.fsm[proto].state
           q == Judged(p, proto, entry, good)
<1>0. PeerOK(p0) /\ PeerOK(p) /\ {"ACKSENT", "REQSENT"} \subseteq States
  BY DEF Good, Moved, States
<1>1. CASE entry \in {"REQSENT", "ACKSENT"}
  <2> DEFINE state == IF good THEN "ACKSENT" ELSE "REQSENT"
  <2>1. q = Goto(p, proto, state)
    BY <1>1 DEF Judged
  <2>2. state \in States /\ state \in {"ACKSENT", "REQSENT"}
    BY <1>0
  <2> HIDE DEF state, q
  <2>3. Moved(p, q, proto, state, p.fsm[proto].timer)
    BY <1>0, <2>1, <2>2, GotoMoves
  <2>4. p.fsm[proto].timer = TRUE
    BY <1>0, <1>1, Typing DEF Good, Waits, Moved
  <2>5. Moved(p0, q, proto, state, TRUE)
    BY <2>3, <2>4 DEF Moved
  <2>6. TRUE <=> Waits(state)
    BY <2>2 DEF Waits
  <2> QED BY <1>1, <2>2, <2>5, <2>6, Sideways DEF q
<1>2. CASE entry = "ACKRCVD" /\ good
  <2>1. q = tlu(StopTimer(Goto(p, proto, "OPENED"), proto), proto)
    BY <1>2 DEF Judged
  <2>2. Stepped(p0, tlu(StopTimer(Goto(p, proto, "OPENED"), proto), proto))
    BY <1>2, ComingUp
  <2> QED BY <2>1, <2>2
<1>3. CASE entry = "ACKRCVD" /\ ~good
  <2>1. q = p
    BY <1>3 DEF Judged
  <2>2. Stepped(p0, p)
    BY Still
  <2> QED BY <2>1, <2>2
<1>4. CASE entry \in {"CLOSING", "STOPPING"}
  <2>1. q = p
    BY <1>4 DEF Judged
  <2>2. Stepped(p0, p)
    BY Still
  <2> QED BY <2>1, <2>2
<1> QED BY <1>0, <1>1, <1>2, <1>3, <1>4, Typing DEF States

(* The end of ev_rcr: p has sent its answer, which was good or not.         *)
Ended(p, proto, entry, good) ==
  IF good THEN Judged(p, proto, entry, TRUE)
  ELSE IF p.fsm[proto].failures = 0
       THEN StopTimer(Goto(p, proto, "STOPPED"), proto)
  ELSE Judged([p EXCEPT !.fsm[proto].failures = p.fsm[proto].failures - 1],
              proto, entry, FALSE)

(* Stopping with the timer stopped, as ev_rcr does at Max-Failure.          *)
LEMMA StoppedMoves ==
  ASSUME NEW p, PeerOK(p), NEW proto \in Protocols
  PROVE  Moved(p, StopTimer(Goto(p, proto, "STOPPED"), proto), proto,
               "STOPPED", FALSE)
<1> DEFINE g == Goto(p, proto, "STOPPED")
<1>1. Moved(p, g, proto, "STOPPED", p.fsm[proto].timer)
  BY GotoMoves DEF States
<1> HIDE DEF g
<1>2. Moved(g, StopTimer(g, proto), proto, g.fsm[proto].state, FALSE)
  BY <1>1, StopTimerMoves DEF Moved
<1>3. Moved(p, StopTimer(g, proto), proto, "STOPPED", FALSE)
  BY <1>1, <1>2 DEF Moved
<1> QED BY <1>3 DEF g

(* One failure fewer moves no automaton.                                    *)
LEMMA FailureMoves ==
  ASSUME NEW p, PeerOK(p), NEW proto \in Protocols, p.fsm[proto].failures # 0
  PROVE  Moved(p, [p EXCEPT !.fsm[proto].failures = p.fsm[proto].failures - 1],
               proto, p.fsm[proto].state, p.fsm[proto].timer)
<1> DEFINE f == p.fsm[proto]
           left == f.failures - 1
           g == [f EXCEPT !.failures = left]
<1>1. f \in Fsm /\ f.failures \in Nat /\ f.restarts <= Limit
      /\ f.failures <= PPP_MAX_FAILURE
  BY Typing
<1>2. left \in Nat /\ left <= PPP_MAX_FAILURE
  BY <1>1, PppSizesAssumption
<1>3. [p EXCEPT !.fsm[proto].failures = p.fsm[proto].failures - 1] = Put(p, proto, g)
  BY DEF Put
<1> HIDE DEF f, left
<1>4. g \in Fsm /\ g.failures = left /\ g.restarts = f.restarts
      /\ g.state = f.state /\ g.timer = f.timer
  BY <1>1, <1>2 DEF Fsm
<1> HIDE DEF g
<1>5. Moved(p, Put(p, proto, g), proto, g.state, g.timer)
  BY <1>1, <1>2, <1>4, PutMoves
<1> QED BY <1>3, <1>4, <1>5 DEF f

(* After the request that answers a guest in Stopped or Opened.             *)
LEMMA RestartedEnds ==
  ASSUME NEW b, NEW p, NEW proto \in Protocols, NEW entry, NEW good, NEW s,
         entry = "STOPPED" \/ entry = "OPENED", good \in BOOLEAN,
         Moved(b, p, proto, s, TRUE)
  PROVE  \E state \in {"ACKSENT", "REQSENT", "STOPPED"}, timer \in BOOLEAN :
           /\ Moved(b, Ended(p, proto, entry, good), proto, state, timer)
           /\ timer <=> Waits(state)
<1> DEFINE e == Ended(p, proto, entry, good)
<1>0. PeerOK(p) /\ {"ACKSENT", "REQSENT", "STOPPED"} \subseteq States
  BY DEF Moved, States
<1>1. CASE good
  <2>1. e = Goto(p, proto, "ACKSENT")
    BY <1>1 DEF Ended, Judged
  <2> HIDE DEF e
  <2>2. Moved(p, e, proto, "ACKSENT", p.fsm[proto].timer)
    BY <1>0, <2>1, GotoMoves
  <2>3. Moved(b, e, proto, "ACKSENT", TRUE) /\ Waits("ACKSENT")
    BY <2>2 DEF Moved, Waits
  <2> QED BY <2>3 DEF e
<1>2. CASE ~good /\ p.fsm[proto].failures = 0
  <2>1. e = StopTimer(Goto(p, proto, "STOPPED"), proto)
    BY <1>2 DEF Ended
  <2> HIDE DEF e
  <2>2. Moved(p, e, proto, "STOPPED", FALSE)
    BY <1>0, <2>1, StoppedMoves
  <2>3. Moved(b, e, proto, "STOPPED", FALSE) /\ ~Waits("STOPPED")
    BY <2>2 DEF Moved, Waits
  <2> QED BY <2>3 DEF e
<1>3. CASE ~good /\ p.fsm[proto].failures # 0
  <2> DEFINE q == [p EXCEPT !.fsm[proto].failures = p.fsm[proto].failures - 1]
  <2>1. e = Goto(q, proto, "REQSENT")
    BY <1>3 DEF Ended, Judged
  <2>2. Moved(p, q, proto, p.fsm[proto].state, p.fsm[proto].timer)
    BY <1>0, <1>3, FailureMoves
  <2> HIDE DEF e, q
  <2>3. PeerOK(q)
    BY <2>2 DEF Moved
  <2>4. Moved(q, e, proto, "REQSENT", q.fsm[proto].timer)
    BY <1>0, <2>1, <2>3, GotoMoves
  <2>5. Moved(b, e, proto, "REQSENT", TRUE) /\ Waits("REQSENT")
    BY <2>2, <2>4 DEF Moved, Waits
  <2> QED BY <2>5 DEF e
<1> QED BY <1>1, <1>2, <1>3

(* ev_rcr, with its judgement of the request as the parameter r.            *)
Rcr(p, proto, id, opts, r) ==
  LET entry == p.fsm[proto].state
      good  == r.code = "CONF_ACK"
      p1    == IF entry = "OPENED" THEN tld(p, proto) ELSE p
      p2    == IF entry \in {"STOPPED", "OPENED"}
               THEN scr(irc(p1, proto, PPP_MAX_CONFIGURE), proto, TRUE) ELSE p1
      p3    == send_cp(p2, proto, r.code, id, r.opts)
      fails == p3.fsm[proto].failures
  IN IF entry \in {"INITIAL", "CLOSED"} THEN sta(p, proto, id)
     ELSE IF \E o \in opts : o[1] = "TRUNCATED" THEN p
     ELSE IF good THEN Judged(p3, proto, entry, TRUE)
     ELSE IF fails = 0 THEN StopTimer(Goto(p3, proto, "STOPPED"), proto)
     ELSE Judged([p3 EXCEPT !.fsm[proto].failures = fails - 1],
                 proto, entry, FALSE)

(* Receive-Configure-Request: however it is judged, in every state.         *)
LEMMA RcrStepped ==
  ASSUME NEW p, Good(p), NEW proto \in Protocols, NEW id \in Ids,
         NEW opts, NEW r, r.code \in Codes, r.opts \in SUBSET Option
  PROVE  Stepped(p, Rcr(p, proto, id, opts, r))
<1> DEFINE entry == p.fsm[proto].state
           good == r.code = "CONF_ACK"
           p1 == IF entry = "OPENED" THEN tld(p, proto) ELSE p
           p2 == IF entry \in {"STOPPED", "OPENED"}
                 THEN scr(irc(p1, proto, PPP_MAX_CONFIGURE), proto, TRUE) ELSE p1
           p3 == send_cp(p2, proto, r.code, id, r.opts)
           q == Rcr(p, proto, id, opts, r)
<1>0. PeerOK(p) /\ r.code \in Codes /\ r.opts \in SUBSET Option /\ good \in BOOLEAN
  BY DEF Good
<1>1. CASE entry \in {"INITIAL", "CLOSED"}
  <2>1. q = sta(p, proto, id)
    BY <1>1 DEF Rcr
  <2>2. Stepped(p, sta(p, proto, id))
    BY <1>0, StaMoves, Still
  <2> QED BY <2>1, <2>2
<1>2. CASE entry \notin {"INITIAL", "CLOSED"} /\ \E o \in opts : o[1] = "TRUNCATED"
  <2>1. q = p
    BY <1>2 DEF Rcr
  <2> QED BY <2>1, Same
<1>3. CASE entry \notin {"INITIAL", "CLOSED"} /\ ~\E o \in opts : o[1] = "TRUNCATED"
  <2>1. q = Ended(p3, proto, entry, good)
    BY <1>3 DEF Rcr, Ended
  <2> HIDE DEF good, q
  <2>2. CASE entry \in {"STOPPED", "OPENED"}
    <3>1. PeerOK(p1)
      BY <1>0, TldMoves, Zenon
    <3>2. p2 = scr(irc(p1, proto, PPP_MAX_CONFIGURE), proto, TRUE)
      BY <2>2
    <3> HIDE DEF p1, p2
    <3>3. Moved(p1, p2, proto, p1.fsm[proto].state, TRUE)
      BY <3>1, <3>2, Repeated
    <3>4. PeerOK(p2)
      BY <3>3 DEF Moved
    <3>5. Moved(p2, p3, proto, p2.fsm[proto].state, p2.fsm[proto].timer)
      BY <1>0, <3>4, SendMoves
    <3> HIDE DEF p3
    <3>6. Moved(p1, p3, proto, p1.fsm[proto].state, TRUE)
      BY <3>3, <3>5 DEF Moved
    <3>7. PICK state \in {"ACKSENT", "REQSENT", "STOPPED"}, timer \in BOOLEAN :
            /\ Moved(p1, Ended(p3, proto, entry, good), proto, state, timer)
            /\ timer <=> Waits(state)
      <4> DEFINE s == p1.fsm[proto].state
      <4>1. entry \in {"STOPPED", "OPENED"} /\ Moved(p1, p3, proto, s, TRUE)
        BY <2>2, <3>6
      <4>2. good \in BOOLEAN /\ (entry = "STOPPED" \/ entry = "OPENED")
        BY <1>0, <4>1
      <4> HIDE DEF entry, s
      <4> QED BY <4>1, <4>2, RestartedEnds
    <3>8. Moved(p1, q, proto, state, timer)
      BY <2>1, <3>7
    <3>9. CASE entry = "OPENED"
      <4>1. p1 = tld(p, proto)
        BY <3>9 DEF p1
      <4> QED BY <3>7, <3>8, <3>9, <4>1, GoingDown DEF q
    <3>10. CASE entry = "STOPPED"
      <4>1. p1 = p
        BY <3>10 DEF p1
      <4> QED BY <3>7, <3>8, <3>10, <4>1, Sideways DEF q
    <3> QED BY <2>2, <3>9, <3>10
  <2>3. CASE entry \notin {"STOPPED", "OPENED"}
    <3>1. p2 = p
      BY <2>3
    <3> HIDE DEF p1, p2
    <3>2. Moved(p, p3, proto, entry, p.fsm[proto].timer)
      BY <1>0, <3>1, SendMoves
    <3> HIDE DEF p3
    <3>3. entry \notin {"INITIAL", "CLOSED", "STOPPED", "OPENED"} /\ PeerOK(p3)
      BY <1>3, <2>3, <3>2 DEF Moved
    <3>4. CASE good
      <4>1. q = Judged(p3, proto, entry, TRUE)
        BY <2>1, <3>4 DEF Ended
      <4> QED BY <3>2, <3>3, <4>1, JudgedStepped DEF q
    <3>5. CASE ~good /\ p3.fsm[proto].failures = 0
      <4>1. q = StopTimer(Goto(p3, proto, "STOPPED"), proto)
        BY <2>1, <3>5 DEF Ended
      <4>2. Moved(p3, q, proto, "STOPPED", FALSE)
        BY <3>3, <4>1, StoppedMoves
      <4>3. Moved(p, q, proto, "STOPPED", FALSE)
        BY <3>2, <4>2 DEF Moved
      <4>4. FALSE <=> Waits("STOPPED")
        BY DEF Waits
      <4> QED BY <3>3, <4>3, <4>4, Sideways DEF q
    <3>6. CASE ~good /\ p3.fsm[proto].failures # 0
      <4> DEFINE p4 == [p3 EXCEPT !.fsm[proto].failures = p3.fsm[proto].failures - 1]
      <4>1. q = Judged(p4, proto, entry, FALSE)
        BY <2>1, <3>6 DEF Ended
      <4>2. Moved(p3, p4, proto, p3.fsm[proto].state, p3.fsm[proto].timer)
        BY <3>3, <3>6, FailureMoves
      <4> HIDE DEF p4
      <4>3. Moved(p, p4, proto, entry, p.fsm[proto].timer)
        BY <3>2, <4>2 DEF Moved
      <4> QED BY <3>3, <4>1, <4>3, JudgedStepped DEF q
    <3> QED BY <1>0, <3>4, <3>5, <3>6
  <2> QED BY <2>2, <2>3
<1> QED BY <1>1, <1>2, <1>3

Rejection(m) == m.proto = "IPCP" /\ m.code \in {"CODE_REJ", "PROTO_REJ"}

(* Every control packet the guest can send keeps timers and states
   together; all but a reject of IPCP keep the layers together.            *)
LEMMA CpInput ==
  ASSUME NEW p, Good(p), NEW m \in Frame, m.proto \in Protocols
  PROVE  /\ Good(cp_input(p, m))
         /\ ~Rejection(m) => Stepped(p, cp_input(p, m))
<1> DEFINE proto == m.proto
           q == cp_input(p, m)
           mine == m.id = p.fsm[proto].last_req_id
<1>1. PeerOK(p) /\ m.id \in Ids /\ m.opts \in SUBSET Option
  BY DEF Good, Frame
<1>2. ASSUME NEW r, Stepped(p, r), q = r
      PROVE  Good(q) /\ (~Rejection(m) => Stepped(p, q))
  BY <1>2 DEF Stepped
<1>3. CASE m.code = "CONF_REQ"
  <2> DEFINE r == classify_confreq(p, proto, m.opts)
  <2>1. q = Rcr(p, proto, m.id, m.opts, r)
    BY <1>3 DEF cp_input, ev_rcr, Rcr
  <2>0. r.code \in Codes /\ r.opts \in SUBSET Option
    BY <1>1, Classified
  <2> HIDE DEF r
  <2>2. Stepped(p, Rcr(p, proto, m.id, m.opts, r))
    BY <1>1, <2>0, RcrStepped
  <2> QED BY <1>2, <2>1, <2>2
<1>4. CASE m.code = "CONF_ACK"
  <2>1. q = ev_rca(p, proto, m.id)
    BY <1>4 DEF cp_input
  <2>2. Stepped(p, ev_rca(p, proto, m.id))
    BY <1>1, RcaStepped
  <2> QED BY <1>2, <2>1, <2>2
<1>5. CASE m.code = "CONF_NAK"
  <2> DEFINE r == IF mine THEN apply_nak(p, proto, m.opts) ELSE p
  <2>1. q = ev_rcn(r, proto, m.id)
    BY <1>5 DEF cp_input
  <2>2. Stepped(p, apply_nak(p, proto, m.opts))
    BY <1>1, NakMoves, Still
  <2>3. Stepped(p, r)
    BY <2>2, Same
  <2> HIDE DEF r, q
  <2>4. Stepped(r, ev_rcn(r, proto, m.id))
    BY <1>1, <2>3, RcnStepped DEF Stepped
  <2>5. Stepped(p, ev_rcn(r, proto, m.id))
    BY <2>3, <2>4, Then
  <2> QED BY <1>2, <2>1, <2>5 DEF q
<1>6. CASE m.code = "CONF_REJ"
  <2> DEFINE r == IF mine THEN apply_rej(p, proto, m.opts) ELSE p
  <2>1. q = ev_rcn(r, proto, m.id)
    BY <1>6 DEF cp_input
  <2>2. Stepped(p, apply_rej(p, proto, m.opts))
    BY <1>1, RejMoves, Still
  <2>3. Stepped(p, r)
    BY <2>2, Same
  <2> HIDE DEF r, q
  <2>4. Stepped(r, ev_rcn(r, proto, m.id))
    BY <1>1, <2>3, RcnStepped DEF Stepped
  <2>5. Stepped(p, ev_rcn(r, proto, m.id))
    BY <2>3, <2>4, Then
  <2> QED BY <1>2, <2>1, <2>5 DEF q
<1>7. CASE m.code = "TERM_REQ"
  <2>1. q = ev_rtr(p, proto, m.id)
    BY <1>7 DEF cp_input
  <2>2. Stepped(p, ev_rtr(p, proto, m.id))
    BY <1>1, RtrStepped
  <2> QED BY <1>2, <2>1, <2>2
<1>8. CASE m.code = "TERM_ACK"
  <2>1. q = ev_rta(p, proto)
    BY <1>8 DEF cp_input
  <2>2. Stepped(p, ev_rta(p, proto))
    BY <1>1, RtaStepped
  <2> QED BY <1>2, <2>1, <2>2
<1>9. CASE m.code \in {"CODE_REJ", "PROTO_REJ"}
  <2>1. q = ev_rxj(p, proto)
    BY <1>9 DEF cp_input
  <2>2. Good(ev_rxj(p, proto)) /\ (proto = "LCP" => Linked(ev_rxj(p, proto)))
    BY <1>1, RxjGood
  <2>3. ~Rejection(m) => proto = "LCP"
    BY <1>9 DEF Rejection, Protocols
  <2> HIDE DEF q
  <2> QED BY <2>1, <2>2, <2>3 DEF Stepped, q
<1>10. CASE m.code = "ECHO_REQ"
  <2>1. "ECHO_REPLY" \in Codes /\ {} \in SUBSET Option /\ "LCP" \in Protocols
    BY DEF Codes, Protocols
  <2>2. Stepped(p, send_cp(p, "LCP", "ECHO_REPLY", m.id, {}))
    BY <1>1, <2>1, SendMoves, Still
  <2>3. q = p \/ q = send_cp(p, "LCP", "ECHO_REPLY", m.id, {})
    BY <1>10 DEF cp_input
  <2> QED BY <1>2, <2>2, <2>3, Same
<1>11. CASE m.code = "ECHO_REPLY"
  <2>1. q = p
    BY <1>11 DEF cp_input
  <2> QED BY <1>2, <2>1, Same
<1>12. CASE m.code \in {"UNKNOWN", "DATAGRAM"}
  <2>1. q = answer_with(p, proto, "CODE_REJ")
    BY <1>12 DEF cp_input
  <2>2. Stepped(p, answer_with(p, proto, "CODE_REJ"))
    BY <1>1, AnswerMoves, Still DEF Codes
  <2> QED BY <1>2, <2>1, <2>2
<1>13. m.code \in Codes
  BY DEF Frame
<1> QED BY <1>3, <1>4, <1>5, <1>6, <1>7, <1>8, <1>9, <1>10, <1>11, <1>12, <1>13
        DEF Codes

(* The same for a frame of any protocol.                                    *)
LEMMA FrameInput ==
  ASSUME NEW p, Good(p), NEW m \in Frame
  PROVE  /\ Good(frame_input(p, m))
         /\ ~Rejection(m) => Stepped(p, frame_input(p, m))
<1>1. CASE m.proto \in Protocols
  <2>1. frame_input(p, m) = cp_input(p, m)
    BY <1>1 DEF frame_input, Protocols
  <2> QED BY <1>1, <2>1, CpInput
<1>2. CASE m.proto \notin Protocols
  <2>0. PeerOK(p)
    BY DEF Good
  <2>1. "LCP" \in Protocols /\ "PROTO_REJ" \in Codes
    BY DEF Protocols, Codes
  <2>2. Moved(p, answer_with(p, "LCP", "PROTO_REJ"), "LCP", p.fsm["LCP"].state,
              p.fsm["LCP"].timer)
    BY <2>0, <2>1, AnswerMoves
  <2>3. Stepped(p, answer_with(p, "LCP", "PROTO_REJ"))
    BY <2>1, <2>2, Still
  <2>4. frame_input(p, m) = answer_with(p, "LCP", "PROTO_REJ") \/ frame_input(p, m) = p
    BY <1>2 DEF frame_input
  <2> QED BY <2>3, <2>4, Same DEF Stepped
<1> QED BY <1>1, <1>2

(* restart_timeout: an expired timer repeats the request or settles the
   automaton.                                                              *)
LEMMA TimeoutStepped ==
  ASSUME NEW p, Good(p), NEW proto \in Protocols, p.fsm[proto].timer
  PROVE  Stepped(p, restart_timeout(p, proto))
<1> DEFINE f == p.fsm[proto]
           q == restart_timeout(p, proto)
<1>1. PeerOK(p)
  BY DEF Good
<1>2. Waits(f.state) /\ f.timer = TRUE
  BY <1>1, Typing DEF Good
<1>3. ASSUME NEW rest \in {"CLOSED", "STOPPED"}
      PROVE  Stepped(p, StopTimer(Goto(p, proto, rest), proto))
  <2> DEFINE g == Goto(p, proto, rest)
             h == StopTimer(g, proto)
  <2>1. Moved(p, g, proto, rest, f.timer)
    BY <1>1, GotoMoves DEF States
  <2> HIDE DEF g
  <2>2. Moved(g, h, proto, g.fsm[proto].state, FALSE)
    BY <2>1, StopTimerMoves DEF Moved
  <2> HIDE DEF h
  <2>3. Moved(p, h, proto, rest, FALSE)
    BY <2>1, <2>2 DEF Moved
  <2>4. (FALSE <=> Waits(rest)) /\ f.state \notin {"INITIAL", "OPENED"}
    BY <1>2 DEF Waits
  <2>5. Stepped(p, h)
    BY <2>3, <2>4, Sideways
  <2> QED BY <2>5 DEF h, g
<1>4. CASE f.restarts = 0
  <2>1. CASE f.state = "CLOSING"
    <3>1. q = StopTimer(Goto(p, proto, "CLOSED"), proto)
      BY <1>4, <2>1 DEF restart_timeout
    <3> QED BY <1>3, <3>1
  <2>2. CASE f.state # "CLOSING"
    <3>1. q = StopTimer(Goto(p, proto, "STOPPED"), proto)
      BY <1>2, <1>4, <2>2 DEF restart_timeout, Waits
    <3> QED BY <1>3, <3>1
  <2> QED BY <2>1, <2>2
<1>5. CASE f.restarts # 0
  <2>1. CASE f.state \in {"CLOSING", "STOPPING"}
    <3> DEFINE left == f.restarts - 1
               g == [f EXCEPT !.restarts = left]
               r == Put(p, proto, g)
    <3>1. f \in Fsm /\ f.restarts \in Nat /\ f.restarts <= Limit
          /\ f.failures <= PPP_MAX_FAILURE /\ f.last_req_id \in Ids
      BY <1>1, Typing
    <3>2. left \in Nat /\ left <= Limit
      BY <1>5, <3>1, Limits
    <3>3. q = send_cp(r, proto, "TERM_REQ", f.last_req_id, {})
      BY <1>5, <2>1 DEF restart_timeout
    <3> HIDE DEF left, f, q
    <3>4. g \in Fsm /\ g.restarts = left /\ g.failures = f.failures
          /\ g.state = f.state /\ g.timer = f.timer
      BY <3>1, <3>2 DEF Fsm
    <3> HIDE DEF g
    <3>5. Moved(p, r, proto, g.state, g.timer)
      BY <1>1, <3>1, <3>2, <3>4, PutMoves
    <3> HIDE DEF r
    <3>6. Moved(r, q, proto, r.fsm[proto].state, r.fsm[proto].timer)
      BY <3>1, <3>3, <3>5, SendMoves DEF Moved, Codes
    <3>7. Moved(p, q, proto, f.state, f.timer)
      BY <3>4, <3>5, <3>6 DEF Moved
    <3> QED BY <3>7, Still DEF f, q
  <2>2. CASE f.state \notin {"CLOSING", "STOPPING"}
    <3>1. q = scr(p, proto, FALSE)
      BY <1>2, <1>5, <2>2 DEF restart_timeout, Waits
    <3>2. Moved(p, scr(p, proto, FALSE), proto, f.state, TRUE)
      BY <1>1, ScrMoves
    <3>3. Moved(p, q, proto, f.state, f.timer)
      BY <1>2, <3>1, <3>2
    <3> HIDE DEF q
    <3> QED BY <3>3, Still DEF q
  <2> QED BY <2>1, <2>2
<1> QED BY <1>4, <1>5

(* ppp_tick: LCP's timeout, then IPCP's, which LCP's may have stopped.      *)
LEMMA TickedStepped ==
  ASSUME NEW p, Good(p), NEW due \in SUBSET Protocols,
         \A x \in due : p.fsm[x].timer
  PROVE  Stepped(p, Ticked(p, due))
<1> DEFINE q == IF "LCP" \in due THEN restart_timeout(p, "LCP") ELSE p
           r == restart_timeout(q, "IPCP")
<1>1. Stepped(p, q)
  <2>1. CASE "LCP" \in due
    <3>1. "LCP" \in Protocols /\ p.fsm["LCP"].timer
      BY <2>1
    <3>2. Stepped(p, restart_timeout(p, "LCP"))
      BY <3>1, TimeoutStepped
    <3> QED BY <2>1, <3>2
  <2>2. CASE "LCP" \notin due
    BY <2>2, Same
  <2> QED BY <2>1, <2>2
<1>2. Ticked(p, due) = IF "IPCP" \in due /\ q.fsm["IPCP"].timer THEN r ELSE q
  BY DEF Ticked
<1> HIDE DEF q
<1>3. CASE "IPCP" \in due /\ q.fsm["IPCP"].timer
  <2>1. "IPCP" \in Protocols /\ Good(q)
    BY <1>1 DEF Protocols, Stepped
  <2>2. Stepped(q, r)
    BY <1>3, <2>1, TimeoutStepped
  <2>3. Stepped(p, r)
    BY <1>1, <2>2, Then
  <2> QED BY <1>2, <1>3, <2>3
<1>4. CASE ~("IPCP" \in due /\ q.fsm["IPCP"].timer)
  BY <1>1, <1>2, <1>4
<1> QED BY <1>3, <1>4

(* ppp_open: the timers are right in any state; the layers stay together
   when LCP was Initial.                                                   *)
LEMMA StartedGood ==
  ASSUME NEW p, Good(p)
  PROVE  /\ Good(Started(p))
         /\ p.fsm["LCP"].state = "INITIAL" => Stepped(p, Started(p))
<1> DEFINE f == p.fsm["LCP"]
           g == [f EXCEPT !.state = "REQSENT", !.opts = {"MAGIC", "ASYNCMAP"}]
           a == Put(p, "LCP", g)
           b == [a EXCEPT !.opened = TRUE]
           c == irc(b, "LCP", PPP_MAX_CONFIGURE)
           q == Started(p)
<1>1. "LCP" \in Protocols /\ "REQSENT" \in States
      /\ {"MAGIC", "ASYNCMAP"} \in SUBSET Types
  BY DEF Protocols, States, Types
<1>2. PeerOK(p)
  BY DEF Good
<1>3. f \in Fsm /\ f.restarts <= Limit /\ f.failures <= PPP_MAX_FAILURE
  BY <1>1, <1>2, Typing
<1>4. q = scr(c, "LCP", TRUE)
  BY DEF Started
<1> HIDE DEF f, q
<1>5. g \in Fsm /\ g.state = "REQSENT"
      /\ g.restarts = f.restarts /\ g.failures = f.failures
  BY <1>1, <1>3 DEF Fsm
<1> HIDE DEF g
<1>6. Moved(p, a, "LCP", g.state, g.timer)
  BY <1>1, <1>2, <1>3, <1>5, PutMoves
<1> HIDE DEF a
<1>7. Moved(a, b, "LCP", a.fsm["LCP"].state, a.fsm["LCP"].timer)
  BY <1>6 DEF Moved, PeerOK, Peer
<1> HIDE DEF b
<1>8. PPP_MAX_CONFIGURE \in Nat /\ PPP_MAX_CONFIGURE <= Limit /\ PeerOK(b)
  BY <1>7, Limits, PppSizesAssumption DEF Moved
<1>9. Moved(b, c, "LCP", b.fsm["LCP"].state, b.fsm["LCP"].timer)
  BY <1>1, <1>8, IrcMoves
<1> HIDE DEF c
<1>10. PeerOK(c)
  BY <1>9 DEF Moved
<1>11. Moved(c, scr(c, "LCP", TRUE), "LCP", c.fsm["LCP"].state, TRUE)
  BY <1>1, <1>10, ScrMoves
<1>12. Moved(p, q, "LCP", "REQSENT", TRUE)
  <2>1. Moved(p, b, "LCP", "REQSENT", a.fsm["LCP"].timer)
    BY <1>5, <1>6, <1>7 DEF Moved
  <2>2. Moved(p, c, "LCP", "REQSENT", b.fsm["LCP"].timer)
    BY <1>9, <2>1 DEF Moved
  <2>3. Moved(c, q, "LCP", c.fsm["LCP"].state, TRUE)
    BY <1>4, <1>11
  <2> QED BY <2>2, <2>3 DEF Moved
<1>13. Good(q)
  <2>1. TRUE <=> Waits("REQSENT")
    BY DEF Waits
  <2> QED BY <1>12, <2>1 DEF Moved, Good
<1>14. p.fsm["LCP"].state = "INITIAL" /\ Linked(p) => Linked(q)
  <2>1. /\ q.fsm["IPCP"].state = p.fsm["IPCP"].state
        /\ q.assigned = p.assigned
    BY <1>12 DEF Moved, Protocols
  <2> QED BY <2>1 DEF Linked
<1> QED BY <1>13, <1>14 DEF Stepped, q

(* The state ppp_close leaves LCP in is reached from where tld, or nothing,
   left the peer.                                                          *)
LEMMA ClosedStepped ==
  ASSUME NEW p, Good(p), NEW opened \in BOOLEAN,
         Linked(p) => p.fsm["IPCP"].state = "INITIAL"
  PROVE  LET q == [p EXCEPT !.opened = opened]
         IN Stepped(p, IF q.fsm["LCP"].state \in {"INITIAL", "CLOSED"}
                       THEN Goto(q, "LCP", "CLOSED")
                       ELSE str(Goto(irc(q, "LCP", PPP_MAX_TERMINATE), "LCP",
                                     "CLOSING"), "LCP"))
<1> DEFINE q == [p EXCEPT !.opened = opened]
           a == irc(q, "LCP", PPP_MAX_TERMINATE)
           b == Goto(a, "LCP", "CLOSING")
<1>1. "LCP" \in Protocols /\ "CLOSED" \in States /\ "CLOSING" \in States
  BY DEF Protocols, States
<1>2. PeerOK(q) /\ q.fsm = p.fsm /\ q.assigned = p.assigned
  BY DEF Good, PeerOK, Peer
<1> HIDE DEF q
<1>3. CASE q.fsm["LCP"].state \in {"INITIAL", "CLOSED"}
  <2>1. Moved(q, Goto(q, "LCP", "CLOSED"), "LCP", "CLOSED", q.fsm["LCP"].timer)
    BY <1>1, <1>2, GotoMoves
  <2> DEFINE r == Goto(q, "LCP", "CLOSED")
  <2> HIDE DEF r
  <2>2. Moved(q, r, "LCP", "CLOSED", q.fsm["LCP"].timer)
    BY <2>1 DEF r
  <2>3. q.fsm["LCP"].timer <=> Waits("CLOSED")
    BY <1>1, <1>2, <1>3 DEF Good, Waits
  <2>4. Good(r)
    BY <1>2, <2>2, <2>3 DEF Moved, Good
  <2>5. Linked(p) => Linked(r)
    BY <1>2, <2>2 DEF Moved, Linked, Protocols
  <2> QED BY <1>3, <2>4, <2>5 DEF Stepped, r, q
<1>4. CASE q.fsm["LCP"].state \notin {"INITIAL", "CLOSED"}
  <2>1. PPP_MAX_TERMINATE \in Nat /\ PPP_MAX_TERMINATE <= Limit
    BY Limits, PppSizesAssumption
  <2>2. Moved(q, a, "LCP", q.fsm["LCP"].state, q.fsm["LCP"].timer)
    BY <1>1, <1>2, <2>1, IrcMoves
  <2> HIDE DEF a
  <2>3. PeerOK(a)
    BY <2>2 DEF Moved
  <2>4. Moved(a, b, "LCP", "CLOSING", a.fsm["LCP"].timer)
    BY <1>1, <2>3, GotoMoves
  <2> HIDE DEF b
  <2>5. PeerOK(b)
    BY <2>4 DEF Moved
  <2>6. Moved(b, str(b, "LCP"), "LCP", b.fsm["LCP"].state, TRUE)
    BY <1>1, <2>5, StrMoves
  <2> DEFINE r == str(b, "LCP")
  <2> HIDE DEF r
  <2>7. Moved(b, r, "LCP", b.fsm["LCP"].state, TRUE)
    BY <2>6 DEF r
  <2>8. Moved(p, r, "LCP", "CLOSING", TRUE)
    BY <1>2, <2>2, <2>4, <2>7 DEF Moved
  <2>9. Good(r)
    BY <2>8 DEF Moved, Good, Waits
  <2>10. Linked(p) => Linked(r)
    BY <2>8 DEF Moved, Linked, Protocols
  <2> QED BY <1>4, <2>9, <2>10 DEF Stepped, r, b, a, q
<1> QED BY <1>3, <1>4 DEF q

(* ppp_close takes the network layer down before it leaves Opened.          *)
LEMMA CloseStepped ==
  ASSUME Good(peer), ppp_close
  PROVE  Stepped(peer, peer')
<1> DEFINE d == IF peer.fsm["LCP"].state = "OPENED" THEN tld(peer, "LCP") ELSE peer
           Left(p) == LET q == [p EXCEPT !.opened = FALSE]
                      IN IF q.fsm["LCP"].state \in {"INITIAL", "CLOSED"}
                         THEN Goto(q, "LCP", "CLOSED")
                         ELSE str(Goto(irc(q, "LCP", PPP_MAX_TERMINATE), "LCP",
                                       "CLOSING"), "LCP")
<1>1. peer' = Left(d)
  BY DEF ppp_close
<1>2. /\ Stepped(peer, d)
      /\ Linked(d) => d.fsm["IPCP"].state = "INITIAL"
  <2>1. CASE peer.fsm["LCP"].state = "OPENED"
    <3>1. PeerOK(peer)
      BY DEF Good
    <3>2. "LCP" \in Protocols
      BY DEF Protocols
    <3> DEFINE e == tld(peer, "LCP")
    <3>3. /\ PeerOK(e) /\ e.assigned = FALSE
          /\ e.fsm["LCP"].state = peer.fsm["LCP"].state
          /\ e.fsm["LCP"].timer = peer.fsm["LCP"].timer
          /\ e.fsm["IPCP"].state = "INITIAL" /\ e.fsm["IPCP"].timer = FALSE
      BY <3>1, <3>2, TldMoves
    <3>4. d = e
      BY <2>1
    <3> HIDE DEF d, e
    <3>5. \A x \in Protocols : e.fsm[x].timer <=> Waits(e.fsm[x].state)
      BY <3>2, <3>3 DEF Protocols, Good, Waits
    <3>6. Linked(e)
      BY <2>1, <3>3 DEF Linked
    <3> QED BY <3>3, <3>4, <3>5, <3>6 DEF Stepped, Good
  <2>2. CASE peer.fsm["LCP"].state # "OPENED"
    BY <2>2, Same DEF Linked
  <2> QED BY <2>1, <2>2
<1> HIDE DEF d
<1>3. Good(d) /\ FALSE \in BOOLEAN
  BY <1>2 DEF Stepped
<1>4. Stepped(d, Left(d))
  BY <1>2, <1>3, ClosedStepped
<1> HIDE DEF Left
<1>5. Stepped(peer, Left(d))
  BY <1>2, <1>4, Then
<1> QED BY <1>1, <1>5

(* Taking a frame from the ring, or adding a datagram to it, is no event of
   the automaton.                                                          *)
LEMMA RingStepped ==
  ASSUME NEW p, Good(p), NEW tx \in Seq(Frame), Len(tx) <= TX_FRAMES
  PROVE  Stepped(p, [p EXCEPT !.tx = tx])
<1> DEFINE q == [p EXCEPT !.tx = tx]
<1>1. PeerOK(q) /\ q.fsm = p.fsm /\ q.assigned = p.assigned
  BY DEF Good, PeerOK, Peer
<1> HIDE DEF q
<1>2. Stepped(p, q)
  BY <1>1 DEF Good, Stepped, Linked
<1> QED BY <1>2 DEF q

(* ppp_output drains the ring and is no event of the automaton.             *)
LEMMA OutputStepped ==
  ASSUME Good(peer), ppp_output
  PROVE  Stepped(peer, peer')
<1> DEFINE tx == Tail(peer.tx)
<1>1. peer.tx \in Seq(Frame) /\ peer.tx # << >> /\ Len(peer.tx) <= TX_FRAMES
  BY DEF Good, PeerOK, Peer, ppp_output
<1>2. tx \in Seq(Frame) /\ Len(tx) = Len(peer.tx) - 1 /\ Len(peer.tx) \in Nat
  BY <1>1, HeadTailProperties, LenProperties
<1>3. Len(tx) <= TX_FRAMES
  BY <1>1, <1>2, PppSizesAssumption
<1>4. peer' = [peer EXCEPT !.tx = tx]
  BY DEF ppp_output
<1> HIDE DEF tx
<1> QED BY <1>2, <1>3, <1>4, RingStepped

(* ppp_send_ip queues a datagram within the ring's bound.                   *)
LEMMA SendIpStepped ==
  ASSUME Good(peer), ppp_send_ip
  PROVE  Stepped(peer, peer')
<1> DEFINE m == [proto |-> "IP", code |-> "DATAGRAM", id |-> 0, opts |-> {}]
           tx == Append(peer.tx, m)
<1>1. m \in Frame
  BY PppSizesAssumption DEF Frame, Codes, Ids
<1>2. peer' = tx_frame(peer, m)
  BY DEF ppp_send_ip
<1> HIDE DEF m
<1>3. CASE Len(peer.tx) < TX_FRAMES
  <2>1. peer.tx \in Seq(Frame) /\ TX_FRAMES \in Nat
    BY PppSizesAssumption DEF Good, PeerOK, Peer
  <2>2. tx \in Seq(Frame) /\ Len(tx) = Len(peer.tx) + 1 /\ Len(peer.tx) \in Nat
    BY <1>1, <2>1, AppendProperties, LenProperties
  <2>3. Len(tx) <= TX_FRAMES
    BY <1>3, <2>1, <2>2
  <2>4. peer' = [peer EXCEPT !.tx = tx]
    BY <1>2, <1>3 DEF tx_frame
  <2> HIDE DEF tx
  <2> QED BY <2>2, <2>3, <2>4, RingStepped
<1>4. CASE ~(Len(peer.tx) < TX_FRAMES)
  BY <1>2, <1>4, Same DEF tx_frame
<1> QED BY <1>3, <1>4

(* ppp_init satisfies the invariant.                                        *)
LEMMA InitGood == Init => Good(peer) /\ Linked(peer)
<1> SUFFICES ASSUME Init PROVE Good(peer) /\ Linked(peer)
  OBVIOUS
<1>1. NewFsm \in Fsm /\ NewFsm.restarts = 0 /\ NewFsm.failures = 0
      /\ NewFsm.state = "INITIAL" /\ NewFsm.timer = FALSE
  BY PppSizesAssumption DEF NewFsm, Fsm, States, Ids, Types
<1>2. 0 <= Limit /\ 0 <= PPP_MAX_FAILURE
  BY Limits, PppSizesAssumption
<1>3. /\ peer.fsm = [x \in Protocols |-> NewFsm] /\ peer.assigned = FALSE
      /\ peer.tx = << >>
  BY DEF Init, ppp_init
<1> HIDE DEF NewFsm
<1>4. PeerOK(peer)
  <2>1. peer \in Peer
    BY <1>1, PppConfigAssumption DEF Init, ppp_init, Peer
  <2>2. Len(peer.tx) = 0 /\ 0 <= TX_FRAMES
    BY <1>3, PppSizesAssumption
  <2> QED BY <1>1, <1>2, <1>3, <2>1, <2>2 DEF PeerOK
<1>5. Good(peer)
  BY <1>1, <1>3, <1>4 DEF Good, Waits
<1>6. Linked(peer)
  BY <1>1, <1>3 DEF Linked, Protocols
<1> QED BY <1>5, <1>6

(* Every call of the API keeps the invariant, one step per action.          *)
LEMMA NextGood == Good(peer) /\ [Next]_peer => Good(peer)'
<1> SUFFICES ASSUME Good(peer), [Next]_peer PROVE Good(peer')
  OBVIOUS
<1>1. CASE ppp_open
  BY <1>1, StartedGood DEF ppp_open
<1>2. CASE ppp_close
  BY <1>2, CloseStepped DEF Stepped
<1>3. ASSUME NEW m \in InputFrames, ppp_input(m) PROVE Good(peer')
  <2>1. m \in Frame
    BY PppInputAssumption
  <2>2. peer' = frame_input(peer, m)
    BY <1>3 DEF ppp_input
  <2> QED BY <2>1, <2>2, FrameInput
<1>4. ASSUME NEW due \in SUBSET Protocols, ppp_tick(due) PROVE Good(peer')
  <2>1. peer' = Ticked(peer, due) /\ \A x \in due : peer.fsm[x].timer
    BY <1>4 DEF ppp_tick
  <2>2. Stepped(peer, Ticked(peer, due))
    BY <2>1, TickedStepped
  <2> QED BY <2>1, <2>2 DEF Stepped
<1>5. CASE ppp_output
  BY <1>5, OutputStepped DEF Stepped
<1>6. CASE ppp_send_ip
  BY <1>6, SendIpStepped DEF Stepped
<1>7. CASE UNCHANGED peer
  BY <1>7
<1> QED BY <1>1, <1>2, <1>3, <1>4, <1>5, <1>6, <1>7 DEF Next

(* The inductive invariant holds throughout: whatever frames the guest
   sends to ppp_input, whenever ppp_open, ppp_close and ppp_tick are
   called.                                                                 *)
THEOREM PeerStaysGood == Spec => []Good(peer)
  BY InitGood, NextGood, PTL DEF Spec

(* The peer's state is well formed, its transmit ring never holds more
   than TX_FRAMES frames (tx_frame) and its counters stay within the
   limits irc sets.                                                        *)
THEOREM TypeCorrect == Spec => []TypeOK
<1>1. Good(peer) => TypeOK
  BY DEF Good, PeerOK, TypeOK
<1> QED BY <1>1, PeerStaysGood, PTL

(* The restart timer runs in exactly the states that wait for the guest,
   so ppp_tick can always bring the automaton out of them
   (restart_timeout, ev_rca, ev_rtr, tld).                                 *)
THEOREM TimerAlwaysRuns == Spec => []TimerRuns
<1>1. Good(peer) => TimerRuns
  BY DEF Good, TimerRuns
<1> QED BY <1>1, PeerStaysGood, PTL

(* What a host that opens the peer once and a guest that never rejects IPCP
   amount to.                                                              *)
Cooperative == ~Reopens /\ \A m \in InputFrames : ~Rejection(m)

(* With a cooperative guest every call keeps the two layers together.       *)
LEMMA NextLinked ==
  ASSUME Cooperative
  PROVE  Good(peer) /\ Linked(peer) /\ [Next]_peer => Linked(peer)'
<1> SUFFICES ASSUME Good(peer), Linked(peer), [Next]_peer PROVE Linked(peer')
  OBVIOUS
<1>1. CASE ppp_open
  BY <1>1, StartedGood DEF ppp_open, Cooperative, Stepped
<1>2. CASE ppp_close
  BY <1>2, CloseStepped DEF Stepped
<1>3. ASSUME NEW m \in InputFrames, ppp_input(m) PROVE Linked(peer')
  <2>1. m \in Frame /\ ~Rejection(m)
    BY PppInputAssumption DEF Cooperative
  <2>2. peer' = frame_input(peer, m)
    BY <1>3 DEF ppp_input
  <2>3. Stepped(peer, frame_input(peer, m))
    BY <2>1, FrameInput
  <2> QED BY <2>2, <2>3 DEF Stepped
<1>4. ASSUME NEW due \in SUBSET Protocols, ppp_tick(due) PROVE Linked(peer')
  <2>1. peer' = Ticked(peer, due) /\ \A x \in due : peer.fsm[x].timer
    BY <1>4 DEF ppp_tick
  <2>2. Stepped(peer, Ticked(peer, due))
    BY <2>1, TickedStepped
  <2> QED BY <2>1, <2>2 DEF Stepped
<1>5. CASE ppp_output
  BY <1>5, OutputStepped DEF Stepped
<1>6. CASE ppp_send_ip
  BY <1>6, SendIpStepped DEF Stepped
<1>7. CASE UNCHANGED peer
  BY <1>7
<1> QED BY <1>1, <1>2, <1>3, <1>4, <1>5, <1>6, <1>7 DEF Next

(* tlu and tld keep IPCP in Initial unless LCP is Opened, as long as the
   guest rejects no code of IPCP (ev_rxj) and ppp_open is called once.     *)
THEOREM NetworkFollowsLink ==
  ASSUME Cooperative
  PROVE  Spec => []NetworkAfterLink
<1>1. Linked(peer) => NetworkAfterLink
  BY DEF Linked, NetworkAfterLink
<1> QED BY <1>1, InitGood, NextGood, NextLinked, PTL DEF Spec

(* Under the same conditions the guest has its address exactly while IPCP
   is Opened (tlu, tld).                                                   *)
THEOREM AssignmentFollowsIpcp ==
  ASSUME Cooperative
  PROVE  Spec => []AssignedWhileOpen
<1>1. Linked(peer) => AssignedWhileOpen
  BY DEF Linked, AssignedWhileOpen
<1> QED BY <1>1, InitGood, NextGood, NextLinked, PTL DEF Spec

---------------------------------------------------------------------------
(* The link.                                                                *)
(*                                                                         *)
(* pppd runs the automaton of ppp.c: the operators that do not mention the  *)
(* configuration are the peer's own, and Rcr is its ev_rcr.                 *)

(* The helpers of ppp.c that send, count and move: no configuration in them. *)
LEMMA SameBasics ==
  ASSUME NEW p, NEW proto, NEW x, NEW y, NEW z
  PROVE  /\ Pppd!Put(p, proto, x) = Put(p, proto, x)
         /\ Pppd!Goto(p, proto, x) = Goto(p, proto, x)
         /\ Pppd!StopTimer(p, proto) = StopTimer(p, proto)
         /\ Pppd!irc(p, proto, x) = irc(p, proto, x)
         /\ Pppd!send_cp(p, proto, x, y, z) = send_cp(p, proto, x, y, z)
         /\ Pppd!sta(p, proto, x) = sta(p, proto, x)
         /\ Pppd!tld(p, proto) = tld(p, proto)
         /\ Pppd!scr(p, proto, x) = scr(p, proto, x)
<1>1. Pppd!Put(p, proto, x) = Put(p, proto, x)
  BY DEF Pppd!Put, Put
<1>2. Pppd!Goto(p, proto, x) = Goto(p, proto, x)
  BY DEF Pppd!Goto, Goto
<1>3. Pppd!StopTimer(p, proto) = StopTimer(p, proto)
  BY DEF Pppd!StopTimer, StopTimer
<1>4. Pppd!irc(p, proto, x) = irc(p, proto, x)
  BY DEF Pppd!irc, irc, Pppd!Put, Put
<1>5. Pppd!send_cp(p, proto, x, y, z) = send_cp(p, proto, x, y, z)
  BY DEF Pppd!send_cp, send_cp, Pppd!tx_frame, tx_frame
<1>6. Pppd!sta(p, proto, x) = sta(p, proto, x)
  BY DEF Pppd!sta, sta, Pppd!send_cp, send_cp, Pppd!tx_frame, tx_frame
<1>7. Pppd!tld(p, proto) = tld(p, proto)
  BY DEF Pppd!tld, tld, Pppd!StopTimer, StopTimer, Pppd!Goto, Goto
<1>8. Pppd!scr(p, proto, x) = scr(p, proto, x)
  BY DEF Pppd!scr, scr, Pppd!Requested, Requested, Pppd!Put, Put, Pppd!send_cp, send_cp,
         Pppd!tx_frame, tx_frame, Pppd!build_confreq, build_confreq
<1> QED BY <1>1, <1>2, <1>3, <1>4, <1>5, <1>6, <1>7, <1>8

(* ipcp_start, tlu and what leads to them. *)
LEMMA SameOpening ==
  ASSUME NEW p, NEW proto, NEW x, NEW y
  PROVE  /\ Pppd!ipcp_start(p) = ipcp_start(p)
         /\ Pppd!tlu(p, proto) = tlu(p, proto)
         /\ Pppd!Reopen(p, proto) = Reopen(p, proto)
         /\ Pppd!Judged(p, proto, x, y) = Judged(p, proto, x, y)
         /\ Pppd!Started(p) = Started(p)
<1>1. ASSUME NEW q PROVE Pppd!ipcp_start(q) = ipcp_start(q)
  BY DEF Pppd!ipcp_start, ipcp_start, Pppd!Put, Put, Pppd!Goto, Goto, Pppd!StopTimer, StopTimer,
         Pppd!irc, irc, Pppd!send_cp, send_cp, Pppd!tx_frame, tx_frame,
         Pppd!scr, scr, Pppd!Requested, Requested, Pppd!build_confreq, build_confreq
<1>2. ASSUME NEW q PROVE Pppd!tlu(q, proto) = tlu(q, proto)
  BY <1>1 DEF Pppd!tlu, tlu
<1>3. Pppd!Reopen(p, proto) = Reopen(p, proto)
  BY SameBasics DEF Pppd!Reopen, Reopen
<1>4. Pppd!Judged(p, proto, x, y) = Judged(p, proto, x, y)
  BY <1>2, SameBasics DEF Pppd!Judged, Judged
<1>5. Pppd!Started(p) = Started(p)
  BY DEF Pppd!Started, Started, Pppd!Put, Put, Pppd!Goto, Goto, Pppd!StopTimer, StopTimer,
         Pppd!irc, irc, Pppd!send_cp, send_cp, Pppd!tx_frame, tx_frame,
         Pppd!scr, scr, Pppd!Requested, Requested, Pppd!build_confreq, build_confreq
<1> QED BY <1>1, <1>2, <1>3, <1>4, <1>5

(* The handlers of an acknowledgement, a Nak, a Reject and a termination. *)
LEMMA SameHandlers ==
  ASSUME NEW p, NEW proto, NEW id, NEW opts
  PROVE  /\ Pppd!ev_rca(p, proto, id) = ev_rca(p, proto, id)
         /\ Pppd!ev_rcn(p, proto, id) = ev_rcn(p, proto, id)
         /\ Pppd!ev_rtr(p, proto, id) = ev_rtr(p, proto, id)
         /\ Pppd!ev_rta(p, proto) = ev_rta(p, proto)
         /\ Pppd!apply_nak(p, proto, opts) = apply_nak(p, proto, opts)
         /\ Pppd!apply_rej(p, proto, opts) = apply_rej(p, proto, opts)
         /\ Pppd!restart_timeout(p, proto) = restart_timeout(p, proto)
<1>1. Pppd!ev_rca(p, proto, id) = ev_rca(p, proto, id)
  BY SameBasics, SameOpening DEF Pppd!ev_rca, ev_rca
<1>2. Pppd!ev_rcn(p, proto, id) = ev_rcn(p, proto, id)
  BY SameBasics, SameOpening DEF Pppd!ev_rcn, ev_rcn
<1>3. Pppd!ev_rtr(p, proto, id) = ev_rtr(p, proto, id)
  BY SameBasics DEF Pppd!ev_rtr, ev_rtr
<1>4. Pppd!ev_rta(p, proto) = ev_rta(p, proto)
  BY SameBasics, SameOpening DEF Pppd!ev_rta, ev_rta
<1>5. Pppd!apply_nak(p, proto, opts) = apply_nak(p, proto, opts)
  BY DEF Pppd!apply_nak, apply_nak
<1>6. Pppd!apply_rej(p, proto, opts) = apply_rej(p, proto, opts)
  BY SameBasics DEF Pppd!apply_rej, apply_rej
<1>7. Pppd!restart_timeout(p, proto) = restart_timeout(p, proto)
  BY DEF Pppd!restart_timeout, restart_timeout, Pppd!Put, Put, Pppd!Goto, Goto, Pppd!StopTimer, StopTimer,
         Pppd!irc, irc, Pppd!send_cp, send_cp, Pppd!tx_frame, tx_frame,
         Pppd!scr, scr, Pppd!Requested, Requested, Pppd!build_confreq, build_confreq
<1> QED BY <1>1, <1>2, <1>3, <1>4, <1>5, <1>6, <1>7

(* Either end's answer to a request is Rcr with its own judgement. *)
LEMMA SameRequests ==
  ASSUME NEW p, NEW proto, NEW id, NEW opts
  PROVE  /\ ev_rcr(p, proto, id, opts)
              = Rcr(p, proto, id, opts, classify_confreq(p, proto, opts))
         /\ Pppd!ev_rcr(p, proto, id, opts)
              = Rcr(p, proto, id, opts, Pppd!classify_confreq(p, proto, opts))
<1>1. ev_rcr(p, proto, id, opts)
        = Rcr(p, proto, id, opts, classify_confreq(p, proto, opts))
  BY DEF ev_rcr, Rcr
<1>2. Pppd!ev_rcr(p, proto, id, opts)
        = Rcr(p, proto, id, opts, Pppd!classify_confreq(p, proto, opts))
  <2> DEFINE r     == Pppd!classify_confreq(p, proto, opts)
             entry == p.fsm[proto].state
             p1    == IF entry = "OPENED" THEN tld(p, proto) ELSE p
             q1    == IF entry = "OPENED" THEN Pppd!tld(p, proto) ELSE p
             p2    == IF entry \in {"STOPPED", "OPENED"}
                      THEN scr(irc(p1, proto, PPP_MAX_CONFIGURE), proto, TRUE) ELSE p1
             q2    == IF entry \in {"STOPPED", "OPENED"}
                      THEN Pppd!scr(Pppd!irc(q1, proto, PPP_MAX_CONFIGURE), proto, TRUE)
                      ELSE q1
             p3    == send_cp(p2, proto, r.code, id, r.opts)
             q3    == Pppd!send_cp(q2, proto, r.code, id, r.opts)
             fails == p3.fsm[proto].failures
  <2> HIDE DEF r
  <2>1. q1 = p1
    BY SameBasics
  <2> HIDE DEF p1, q1
  <2>2. q2 = p2
    BY <2>1, SameBasics
  <2> HIDE DEF p2, q2
  <2>3. q3 = p3
    BY <2>2, SameBasics
  <2>4. Pppd!ev_rcr(p, proto, id, opts)
          = IF entry \in {"INITIAL", "CLOSED"} THEN Pppd!sta(p, proto, id)
            ELSE IF \E o \in opts : o[1] = "TRUNCATED" THEN p
            ELSE IF r.code = "CONF_ACK" THEN Pppd!Judged(q3, proto, entry, TRUE)
            ELSE IF q3.fsm[proto].failures = 0
                 THEN Pppd!StopTimer(Pppd!Goto(q3, proto, "STOPPED"), proto)
            ELSE Pppd!Judged([q3 EXCEPT !.fsm[proto].failures = q3.fsm[proto].failures - 1],
                             proto, entry, FALSE)
    BY DEF Pppd!ev_rcr, r, q2, q1
  <2> DEFINE cut == [p3 EXCEPT !.fsm[proto].failures = p3.fsm[proto].failures - 1]
             val == IF entry \in {"INITIAL", "CLOSED"} THEN sta(p, proto, id)
                    ELSE IF \E o \in opts : o[1] = "TRUNCATED" THEN p
                    ELSE IF r.code = "CONF_ACK" THEN Judged(p3, proto, entry, TRUE)
                    ELSE IF p3.fsm[proto].failures = 0
                         THEN StopTimer(Goto(p3, proto, "STOPPED"), proto)
                    ELSE Judged(cut, proto, entry, FALSE)
  <2>5. Rcr(p, proto, id, opts, r) = val
    BY DEF Rcr, p2, p1
  <2> HIDE DEF p3, q3
  <2>6. /\ Pppd!Judged(p3, proto, entry, TRUE) = Judged(p3, proto, entry, TRUE)
        /\ Pppd!StopTimer(Pppd!Goto(p3, proto, "STOPPED"), proto)
             = StopTimer(Goto(p3, proto, "STOPPED"), proto)
        /\ Pppd!sta(p, proto, id) = sta(p, proto, id)
        /\ Pppd!Judged([p3 EXCEPT !.fsm[proto].failures = p3.fsm[proto].failures - 1],
                       proto, entry, FALSE)
             = Judged([p3 EXCEPT !.fsm[proto].failures = p3.fsm[proto].failures - 1],
                      proto, entry, FALSE)
    BY SameBasics, SameOpening
  <2>7. Pppd!ev_rcr(p, proto, id, opts) = val
    BY <2>3, <2>4, <2>6, Zenon
  <2> HIDE DEF val
  <2>8. Pppd!ev_rcr(p, proto, id, opts) = Rcr(p, proto, id, opts, r)
    BY <2>5, <2>7
  <2> QED BY <2>8 DEF r
<1> QED BY <1>1, <1>2

(* What one end may have said: it holds ip, wants the other to agree to     *)
(* want, has told the other, which holds his, to take give.  No code or     *)
(* protocol is rejected, and nothing is rejected in IPCP.                   *)
Said(ip, want, his, give) ==
  {m \in Frame :
     /\ m.proto \in Protocols
     /\ m.code \in {"CONF_REQ", "CONF_ACK", "CONF_NAK", "CONF_REJ",
                    "TERM_REQ", "TERM_ACK"}
     /\ m.proto = "IPCP" =>
          /\ m.code # "CONF_REJ"
          /\ m.code = "CONF_REQ" =>
               \E v \in Nat : m.opts = {<<"ADDRESS", v>>} /\ (v = want => ip = want)
          /\ m.code = "CONF_NAK" => m.opts = {<<"ADDRESS", give>>}
          /\ m.code = "CONF_ACK" => his = give}

Control(proto, code, id, opts) ==
  [proto |-> proto, code |-> code, id |-> id, opts |-> opts]

(* The frames an automaton sends unasked, or whatever it is asked. *)
Vocabulary(S, ip) ==
  /\ S \subseteq Frame
  /\ \A x \in Protocols, id \in Ids : /\ Control(x, "TERM_REQ", id, {}) \in S
                                      /\ Control(x, "TERM_ACK", id, {}) \in S
  /\ \A id \in Ids, o \in SUBSET Option : Control("LCP", "CONF_REQ", id, o) \in S
  /\ \A id \in Ids : Control("IPCP", "CONF_REQ", id, {<<"ADDRESS", ip>>}) \in S

(* An end that has said no more than S, and whose network layer is up, or
   acknowledged, on the wanted address only.                                *)
Speaker(p, S, want) ==
  /\ PeerOK(p) /\ p.tx \in Seq(S) /\ Vocabulary(S, p.local_ip)
  /\ p.fsm["IPCP"].state # "INITIAL" => p.fsm["IPCP"].opts = {"ADDRESS"}
  /\ p.assigned \/ p.fsm["IPCP"].state \in {"ACKRCVD", "OPENED"} => p.local_ip = want

Spoke(p, q, S, want) ==
  Speaker(q, S, want) /\ q.local_ip = p.local_ip /\ q.opened = p.opened

(* q has sent what S allows, and asks for what p asks for. *)
Kept(p, q, S) ==
  /\ q.tx \in Seq(S) /\ q.local_ip = p.local_ip /\ q.opened = p.opened
  /\ q.fsm["IPCP"].opts = p.fsm["IPCP"].opts

(* A move that keeps to what may be said keeps the end a speaker. *)
LEMMA MovedSays ==
  ASSUME NEW p, NEW q, NEW S, NEW want, Speaker(p, S, want),
         NEW proto \in Protocols, NEW state, NEW timer, Moved(p, q, proto, state, timer),
         Kept(p, q, S),
         (proto = "IPCP" /\ state # "INITIAL") => p.fsm["IPCP"].opts = {"ADDRESS"},
         (proto = "IPCP" /\ state \in {"ACKRCVD", "OPENED"}) => p.local_ip = want
  PROVE  Spoke(p, q, S, want)
<1>1. "IPCP" \in Protocols
  BY DEF Protocols
<1>2. CASE proto = "IPCP"
  BY <1>1, <1>2 DEF Moved, Kept, Speaker, Spoke
<1>3. CASE proto # "IPCP"
  <2>1. q.fsm["IPCP"].state = p.fsm["IPCP"].state
    BY <1>1, <1>3 DEF Moved
  <2> QED BY <2>1 DEF Moved, Kept, Speaker, Spoke
<1> QED BY <1>2, <1>3

(* Keeping to S is reflexive and transitive; each helper keeps to S. *)
LEMMA KeptSelf ==
  ASSUME NEW p, NEW S, p.tx \in Seq(S)
  PROVE  Kept(p, p, S)
BY DEF Kept

LEMMA KeptThen ==
  ASSUME NEW p, NEW q, NEW r, NEW S, Kept(p, q, S), Kept(q, r, S)
  PROVE  Kept(p, r, S)
BY DEF Kept

(* A write to one automaton that leaves IPCP's options alone. *)
LEMMA PutKept ==
  ASSUME NEW p, PeerOK(p), NEW S, p.tx \in Seq(S), NEW proto \in Protocols,
         NEW f, proto = "IPCP" => f.opts = p.fsm[proto].opts
  PROVE  Kept(p, Put(p, proto, f), S)
<1> DEFINE q == Put(p, proto, f)
<1>1. q.tx = p.tx /\ q.local_ip = p.local_ip /\ q.opened = p.opened
      /\ q.fsm = [p.fsm EXCEPT ![proto] = f]
  BY DEF Put, PeerOK, Peer
<1>2. "IPCP" \in Protocols /\ DOMAIN p.fsm = Protocols
  BY DEF Protocols, PeerOK, Peer
<1> HIDE DEF q
<1>3. q.fsm["IPCP"].opts = p.fsm["IPCP"].opts
  BY <1>1, <1>2
<1> QED BY <1>1, <1>3 DEF Kept, q

LEMMA GotoKept ==
  ASSUME NEW p, PeerOK(p), NEW S, p.tx \in Seq(S), NEW proto \in Protocols, NEW state
  PROVE  Kept(p, Goto(p, proto, state), S)
<1> DEFINE f == [p.fsm[proto] EXCEPT !.state = state]
<1>1. Goto(p, proto, state) = Put(p, proto, f)
  BY DEF Goto, Put
<1>2. f.opts = p.fsm[proto].opts
  BY Typing DEF Fsm
<1> QED BY <1>1, <1>2, PutKept

LEMMA StopTimerKept ==
  ASSUME NEW p, PeerOK(p), NEW S, p.tx \in Seq(S), NEW proto \in Protocols
  PROVE  Kept(p, StopTimer(p, proto), S)
<1> DEFINE f == [p.fsm[proto] EXCEPT !.timer = FALSE]
<1>1. StopTimer(p, proto) = Put(p, proto, f)
  BY DEF StopTimer, Put
<1>2. f.opts = p.fsm[proto].opts
  BY Typing DEF Fsm
<1> QED BY <1>1, <1>2, PutKept

LEMMA IrcKept ==
  ASSUME NEW p, PeerOK(p), NEW S, p.tx \in Seq(S), NEW proto \in Protocols, NEW count
  PROVE  Kept(p, irc(p, proto, count), S)
<1> DEFINE f == [p.fsm[proto] EXCEPT !.restarts = count, !.failures = PPP_MAX_FAILURE]
<1>1. irc(p, proto, count) = Put(p, proto, f)
  BY DEF irc
<1>2. f.opts = p.fsm[proto].opts
  BY Typing DEF Fsm
<1> QED BY <1>1, <1>2, PutKept

(* A frame that may be said is queued or dropped. *)
LEMMA SendKept ==
  ASSUME NEW p, PeerOK(p), NEW S, p.tx \in Seq(S), NEW proto, NEW code, NEW id, NEW opts,
         Control(proto, code, id, opts) \in S
  PROVE  Kept(p, send_cp(p, proto, code, id, opts), S)
<1> DEFINE m == Control(proto, code, id, opts)
           q == [p EXCEPT !.tx = Append(p.tx, m)]
<1>1. send_cp(p, proto, code, id, opts) = q \/ send_cp(p, proto, code, id, opts) = p
  BY DEF send_cp, tx_frame, Control
<1> HIDE DEF m
<1>2. Append(p.tx, m) \in Seq(S)
  BY AppendProperties DEF m
<1>3. q.tx = Append(p.tx, m) /\ q.local_ip = p.local_ip /\ q.opened = p.opened
      /\ q.fsm = p.fsm
  BY DEF PeerOK, Peer
<1> HIDE DEF q
<1>4. Kept(p, q, S)
  BY <1>2, <1>3 DEF Kept
<1> QED BY <1>1, <1>4, KeptSelf

(* scr repeats what is still asked for: the address, on IPCP. *)
LEMMA ScrKept ==
  ASSUME NEW p, PeerOK(p), NEW S, p.tx \in Seq(S), Vocabulary(S, p.local_ip),
         NEW proto \in Protocols, NEW fresh \in BOOLEAN,
         proto = "IPCP" => p.fsm["IPCP"].opts = {"ADDRESS"}
  PROVE  Kept(p, scr(p, proto, fresh), S)
<1> DEFINE f  == p.fsm[proto]
           k  == IF fresh THEN f.next_id ELSE f.last_req_id
           g  == [f EXCEPT !.last_req_id = k,
                           !.next_id     = IF fresh THEN (@ + 1) % ID_COUNT ELSE @,
                           !.restarts    = IF @ > 0 THEN @ - 1 ELSE 0,
                           !.timer       = TRUE]
           q  == Requested(p, proto, fresh)
           id == q.fsm[proto].last_req_id
           opts == build_confreq(p, proto)
<1>1. q = Put(p, proto, g) /\ g.opts = f.opts
  BY Typing DEF Requested, Fsm
<1>3. PeerOK(q) /\ id \in Ids
  BY RequestedMoves DEF Moved
<1>4. scr(p, proto, fresh) = send_cp(q, proto, "CONF_REQ", id, opts)
  BY DEF scr
<1>2. Kept(p, q, S)
  <2>1. g.opts = p.fsm[proto].opts /\ q = Put(p, proto, g)
    BY <1>1
  <2> HIDE DEF g, q
  <2>2. Kept(p, Put(p, proto, g), S)
    BY <2>1, PutKept
  <2> QED BY <2>1, <2>2
<1>5. Control(proto, "CONF_REQ", id, opts) \in S
  <2> HIDE DEF id
  <2>1. CASE proto = "LCP"
    <3>1. opts \in SUBSET Option
      <4>1. p.magic \in Nat /\ p.local_ip \in Nat
        BY DEF PeerOK, Peer
      <4> QED BY <4>1 DEF build_confreq, Option, Types
    <3> HIDE DEF opts
    <3> QED BY <1>3, <2>1, <3>1 DEF Vocabulary
  <2>2. CASE proto = "IPCP"
    <3>1. opts = {<<"ADDRESS", p.local_ip>>}
      BY <2>2 DEF build_confreq
    <3> HIDE DEF opts
    <3> QED BY <1>3, <2>2, <3>1 DEF Vocabulary
  <2> QED BY <2>1, <2>2 DEF Protocols
<1> HIDE DEF q, id, opts
<1>6. Kept(q, send_cp(q, proto, "CONF_REQ", id, opts), S)
  BY <1>2, <1>3, <1>5, SendKept DEF Kept
<1> QED BY <1>2, <1>4, <1>6, KeptThen

(* sta answers with a Terminate-Ack, which may always be said. *)
LEMMA StaKept ==
  ASSUME NEW p, PeerOK(p), NEW S, p.tx \in Seq(S), Vocabulary(S, p.local_ip),
         NEW proto \in Protocols, NEW id \in Ids
  PROVE  Kept(p, sta(p, proto, id), S)
<1>1. Control(proto, "TERM_ACK", id, {}) \in S
  BY DEF Vocabulary
<1> QED BY <1>1, SendKept DEF sta

(* tld queues nothing. *)
LEMMA TldKept ==
  ASSUME NEW p, PeerOK(p), NEW S, p.tx \in Seq(S), NEW proto \in Protocols
  PROVE  Kept(p, tld(p, proto), S)
<1> DEFINE q == [p EXCEPT !.assigned = FALSE]
           r == Goto(q, "IPCP", "INITIAL")
<1>1. PeerOK(q) /\ Kept(p, q, S)
  BY DEF PeerOK, Peer, Kept
<1>2. "IPCP" \in Protocols /\ "INITIAL" \in States
  BY DEF Protocols, States
<1>3. tld(p, proto) = IF proto = "LCP" THEN StopTimer(r, "IPCP") ELSE q
  BY DEF tld
<1> HIDE DEF q
<1>4. PeerOK(r) /\ Kept(q, r, S)
  BY <1>1, <1>2, GotoMoves, GotoKept DEF Moved, Kept
<1> HIDE DEF r
<1>5. Kept(r, StopTimer(r, "IPCP"), S)
  BY <1>2, <1>4, StopTimerKept DEF Kept
<1> QED BY <1>1, <1>3, <1>4, <1>5, KeptThen

(* As Spoke, and q would ask for the same options. *)
Steady(p, q, S, want) ==
  Spoke(p, q, S, want) /\ q.fsm["IPCP"].opts = p.fsm["IPCP"].opts

Asks(p, proto) == proto = "IPCP" => p.fsm["IPCP"].opts = {"ADDRESS"}

(* The same, for a move that leaves IPCP's options as they were. *)
LEMMA MovedSteady ==
  ASSUME NEW p, NEW q, NEW S, NEW want, Speaker(p, S, want),
         NEW proto \in Protocols, NEW state, NEW timer, Moved(p, q, proto, state, timer),
         Kept(p, q, S),
         (proto = "IPCP" /\ state # "INITIAL") => p.fsm["IPCP"].opts = {"ADDRESS"},
         (proto = "IPCP" /\ state \in {"ACKRCVD", "OPENED"}) => p.local_ip = want
  PROVE  Steady(p, q, S, want)
<1>1. Spoke(p, q, S, want)
  BY MovedSays
<1> QED BY <1>1 DEF Steady, Kept

(* A move that leaves the state as it was. *)
LEMMA MovedStill ==
  ASSUME NEW p, NEW q, NEW S, NEW want, Speaker(p, S, want),
         NEW proto \in Protocols, NEW timer, Moved(p, q, proto, p.fsm[proto].state, timer),
         Kept(p, q, S)
  PROVE  Steady(p, q, S, want)
<1>1. /\ (proto = "IPCP" /\ p.fsm[proto].state # "INITIAL") => p.fsm["IPCP"].opts = {"ADDRESS"}
      /\ (proto = "IPCP" /\ p.fsm[proto].state \in {"ACKRCVD", "OPENED"}) => p.local_ip = want
  BY DEF Speaker
<1> DEFINE state == p.fsm[proto].state
<1> HIDE DEF state
<1>2. Moved(p, q, proto, state, timer)
  BY DEF state
<1>3. /\ (proto = "IPCP" /\ state # "INITIAL") => p.fsm["IPCP"].opts = {"ADDRESS"}
      /\ (proto = "IPCP" /\ state \in {"ACKRCVD", "OPENED"}) => p.local_ip = want
  BY <1>1 DEF state
<1> QED BY <1>2, <1>3, MovedSteady

(* Speaking composes. *)
LEMMA SteadyThen ==
  ASSUME NEW p, NEW q, NEW r, NEW S, NEW want, Steady(p, q, S, want), Steady(q, r, S, want)
  PROVE  Steady(p, r, S, want)
BY DEF Steady, Spoke

LEMMA SteadySelf ==
  ASSUME NEW p, NEW S, NEW want, Speaker(p, S, want)
  PROVE  Steady(p, p, S, want)
BY DEF Steady, Spoke

LEMMA SpokeThen ==
  ASSUME NEW p, NEW q, NEW r, NEW S, NEW want, Steady(p, q, S, want), Spoke(q, r, S, want)
  PROVE  Spoke(p, r, S, want)
BY DEF Steady, Spoke

(* What a speaker is, for the proofs that follow. *)
LEMMA SpeakerParts ==
  ASSUME NEW p, NEW S, NEW want, Speaker(p, S, want)
  PROVE  /\ PeerOK(p) /\ p.tx \in Seq(S) /\ Vocabulary(S, p.local_ip) /\ S \subseteq Frame
         /\ p.fsm["IPCP"].state # "INITIAL" => p.fsm["IPCP"].opts = {"ADDRESS"}
         /\ p.fsm["IPCP"].state \in {"ACKRCVD", "OPENED"} => p.local_ip = want
         /\ \A proto \in Protocols : p.fsm[proto].state # "INITIAL" => Asks(p, proto)
         /\ \A proto \in Protocols : p.fsm[proto].state \in States
BY Typing DEF Speaker, Vocabulary, Asks

(* The helpers keep an end a speaker: the state may be one that reports an
   address only if the end holds the one it wants. *)
LEMMA GotoSays ==
  ASSUME NEW p, NEW S, NEW want, Speaker(p, S, want), NEW proto \in Protocols,
         NEW state \in States, Asks(p, proto),
         (proto = "IPCP" /\ state \in {"ACKRCVD", "OPENED"}) => p.local_ip = want
  PROVE  Steady(p, Goto(p, proto, state), S, want)
<1>1. PeerOK(p) /\ p.tx \in Seq(S)
  BY SpeakerParts
<1>2. Moved(p, Goto(p, proto, state), proto, state, p.fsm[proto].timer)
  BY <1>1, GotoMoves
<1>3. Kept(p, Goto(p, proto, state), S)
  BY <1>1, GotoKept
<1> DEFINE q == Goto(p, proto, state)
           timer == p.fsm[proto].timer
<1> HIDE DEF q, timer
<1>4. Moved(p, q, proto, state, timer) /\ Kept(p, q, S)
  BY <1>2, <1>3 DEF q, timer
<1>5. Steady(p, q, S, want)
  BY <1>4, MovedSteady DEF Asks
<1> QED BY <1>5 DEF q

LEMMA StopTimerSays ==
  ASSUME NEW p, NEW S, NEW want, Speaker(p, S, want), NEW proto \in Protocols
  PROVE  Steady(p, StopTimer(p, proto), S, want)
<1>1. PeerOK(p) /\ p.tx \in Seq(S)
  BY SpeakerParts
<1>2. Moved(p, StopTimer(p, proto), proto, p.fsm[proto].state, FALSE)
  BY <1>1, StopTimerMoves
<1>3. Kept(p, StopTimer(p, proto), S)
  BY <1>1, StopTimerKept
<1> QED BY <1>2, <1>3, MovedStill

LEMMA IrcSays ==
  ASSUME NEW p, NEW S, NEW want, Speaker(p, S, want), NEW proto \in Protocols
  PROVE  Steady(p, irc(p, proto, PPP_MAX_CONFIGURE), S, want)
<1>1. PeerOK(p) /\ p.tx \in Seq(S)
  BY SpeakerParts
<1>2. Moved(p, irc(p, proto, PPP_MAX_CONFIGURE), proto, p.fsm[proto].state, p.fsm[proto].timer)
  BY <1>1, Limits, IrcMoves
<1>3. Kept(p, irc(p, proto, PPP_MAX_CONFIGURE), S)
  BY <1>1, IrcKept
<1> QED BY <1>2, <1>3, MovedStill

LEMMA ScrSays ==
  ASSUME NEW p, NEW S, NEW want, Speaker(p, S, want), NEW proto \in Protocols,
         NEW fresh \in BOOLEAN, Asks(p, proto)
  PROVE  Steady(p, scr(p, proto, fresh), S, want)
<1>1. PeerOK(p) /\ p.tx \in Seq(S) /\ Vocabulary(S, p.local_ip)
  BY SpeakerParts
<1>2. Moved(p, scr(p, proto, fresh), proto, p.fsm[proto].state, TRUE)
  BY <1>1, ScrMoves
<1>3. Kept(p, scr(p, proto, fresh), S)
  BY <1>1, ScrKept DEF Asks
<1> QED BY <1>2, <1>3, MovedStill

LEMMA SendSays ==
  ASSUME NEW p, NEW S, NEW want, Speaker(p, S, want), NEW proto \in Protocols,
         NEW code, NEW id, NEW opts, Control(proto, code, id, opts) \in S
  PROVE  Steady(p, send_cp(p, proto, code, id, opts), S, want)
<1>1. PeerOK(p) /\ p.tx \in Seq(S) /\ S \subseteq Frame
  BY SpeakerParts
<1>2. code \in Codes /\ id \in Ids /\ opts \in SUBSET Option
  BY <1>1 DEF Control, Frame
<1>3. Moved(p, send_cp(p, proto, code, id, opts), proto, p.fsm[proto].state, p.fsm[proto].timer)
  BY <1>1, <1>2, SendMoves
<1>4. Kept(p, send_cp(p, proto, code, id, opts), S)
  BY <1>1, SendKept
<1> QED BY <1>3, <1>4, MovedStill

LEMMA StaSays ==
  ASSUME NEW p, NEW S, NEW want, Speaker(p, S, want), NEW proto \in Protocols, NEW id \in Ids
  PROVE  Steady(p, sta(p, proto, id), S, want)
<1>1. Control(proto, "TERM_ACK", id, {}) \in S
  BY SpeakerParts DEF Vocabulary
<1>2. Steady(p, send_cp(p, proto, "TERM_ACK", id, {}), S, want)
  BY <1>1, SendSays
<1> QED BY <1>2 DEF sta

(* This-Layer-Down gives the address up, and IPCP with LCP. *)
LEMMA TldSays ==
  ASSUME NEW p, NEW S, NEW want, Speaker(p, S, want), NEW proto \in Protocols
  PROVE  Steady(p, tld(p, proto), S, want)
<1> DEFINE q == tld(p, proto)
<1>1. PeerOK(p) /\ p.tx \in Seq(S)
  BY SpeakerParts
<1>2. Kept(p, q, S)
  BY <1>1, TldKept
<1>3. /\ PeerOK(q) /\ q.assigned = FALSE
      /\ q.fsm["IPCP"].state = IF proto = "LCP" THEN "INITIAL" ELSE p.fsm["IPCP"].state
  BY <1>1, TldMoves, Zenon
<1> HIDE DEF q
<1>4. Speaker(q, S, want)
  BY <1>2, <1>3 DEF Kept, Speaker
<1>5. Steady(p, q, S, want)
  BY <1>2, <1>4 DEF Kept, Steady, Spoke
<1> QED BY <1>5 DEF q

(* ipcp_start asks for the address afresh. *)
LEMMA IpcpStartSays ==
  ASSUME NEW p, NEW S, NEW want, Speaker(p, S, want)
  PROVE  Spoke(p, ipcp_start(p), S, want)
<1> DEFINE f == p.fsm["IPCP"]
           g == [f EXCEPT !.state = "REQSENT", !.opts = {"ADDRESS"}]
           q == Put(p, "IPCP", g)
           r == irc(q, "IPCP", PPP_MAX_CONFIGURE)
           s == scr(r, "IPCP", TRUE)
<1>1. ipcp_start(p) = s
  BY DEF ipcp_start
<1>2. "IPCP" \in Protocols /\ "REQSENT" \in States /\ {"ADDRESS"} \in SUBSET Types
  BY DEF Protocols, States, Types
<1>3. PeerOK(p) /\ p.tx \in Seq(S) /\ Vocabulary(S, p.local_ip)
  BY SpeakerParts
<1>4. f \in Fsm /\ f.restarts <= Limit /\ f.failures <= PPP_MAX_FAILURE
  BY <1>2, <1>3, Typing
<1> HIDE DEF f
<1>5. g \in Fsm /\ g.state = "REQSENT" /\ g.opts = {"ADDRESS"}
      /\ g.restarts = f.restarts /\ g.failures = f.failures
  BY <1>2, <1>4 DEF Fsm
<1> HIDE DEF g
<1>6. Moved(p, q, "IPCP", g.state, g.timer)
  BY <1>2, <1>3, <1>4, <1>5, PutMoves
<1>7. q.tx = p.tx /\ q.local_ip = p.local_ip /\ q.opened = p.opened
      /\ q.fsm["IPCP"] = g
  BY <1>2, <1>3 DEF Put, PeerOK, Peer
<1> HIDE DEF q
<1>8. Speaker(q, S, want)
  BY <1>3, <1>5, <1>6, <1>7 DEF Speaker, Moved
<1>9. Steady(q, r, S, want) /\ Asks(q, "IPCP")
  BY <1>2, <1>5, <1>7, <1>8, IrcSays DEF Asks
<1> HIDE DEF r
<1>10. Speaker(r, S, want) /\ Asks(r, "IPCP")
  BY <1>9 DEF Steady, Spoke, Asks
<1>11. Steady(r, s, S, want)
  BY <1>2, <1>10, ScrSays
<1> HIDE DEF s
<1> QED BY <1>1, <1>7, <1>9, <1>11 DEF Steady, Spoke

(* The address is reported only once IPCP is Opened. *)
LEMMA TluSays ==
  ASSUME NEW p, NEW S, NEW want, Speaker(p, S, want), NEW proto \in Protocols,
         proto = "IPCP" => p.local_ip = want
  PROVE  Spoke(p, tlu(p, proto), S, want)
<1>1. CASE proto = "LCP"
  <2>1. tlu(p, proto) = ipcp_start(p)
    BY <1>1 DEF tlu
  <2> QED BY <2>1, IpcpStartSays
<1>2. CASE proto # "LCP"
  <2> DEFINE q == [p EXCEPT !.assigned = TRUE]
  <2>1. tlu(p, proto) = q /\ p.local_ip = want
    BY <1>2 DEF tlu, Protocols
  <2>0. PeerOK(p)
    BY SpeakerParts
  <2>2. PeerOK(q) /\ q.tx = p.tx /\ q.fsm = p.fsm /\ q.local_ip = p.local_ip
        /\ q.opened = p.opened
    BY <2>0 DEF PeerOK, Peer
  <2> HIDE DEF q
  <2>3. Spoke(p, q, S, want)
    BY <1>2, <2>1, <2>2 DEF Speaker, Spoke
  <2> QED BY <2>1, <2>3
<1> QED BY <1>1, <1>2

(* An automaton comes up. *)
LEMMA UpSays ==
  ASSUME NEW p, NEW S, NEW want, Speaker(p, S, want), NEW proto \in Protocols,
         Asks(p, proto), proto = "IPCP" => p.local_ip = want
  PROVE  Spoke(p, tlu(StopTimer(Goto(p, proto, "OPENED"), proto), proto), S, want)
<1> DEFINE q == Goto(p, proto, "OPENED")
           r == StopTimer(q, proto)
           s == tlu(r, proto)
<1>1. Steady(p, q, S, want)
  BY GotoSays DEF States
<1> HIDE DEF q
<1>2. Speaker(q, S, want)
  BY <1>1 DEF Steady, Spoke
<1>3. Steady(q, r, S, want)
  BY <1>2, StopTimerSays
<1> HIDE DEF r
<1>4. Steady(p, r, S, want)
  BY <1>1, <1>3, SteadyThen
<1>5. Speaker(r, S, want) /\ (proto = "IPCP" => r.local_ip = want)
  BY <1>4 DEF Steady, Spoke
<1>6. Spoke(r, s, S, want)
  BY <1>5, TluSays
<1> HIDE DEF s
<1>7. Spoke(p, s, S, want)
  BY <1>4, <1>6, SpokeThen
<1> QED BY <1>7 DEF s, r, q

(* The request goes out again; the automaton is where it was, or in Req-Sent. *)
LEMMA RepeatSays ==
  ASSUME NEW p, NEW S, NEW want, Speaker(p, S, want), NEW proto \in Protocols,
         Asks(p, proto)
  PROVE  /\ Steady(p, scr(irc(p, proto, PPP_MAX_CONFIGURE), proto, TRUE), S, want)
         /\ Steady(p, Goto(scr(p, proto, TRUE), proto, "REQSENT"), S, want)
<1> DEFINE q == irc(p, proto, PPP_MAX_CONFIGURE)
           r == scr(p, proto, TRUE)
<1>1. Steady(p, q, S, want) /\ Steady(p, r, S, want)
  BY IrcSays, ScrSays
<1> HIDE DEF q, r
<1>2. Speaker(q, S, want) /\ Asks(q, proto) /\ Speaker(r, S, want) /\ Asks(r, proto)
  BY <1>1 DEF Steady, Spoke, Asks
<1>3. Steady(q, scr(q, proto, TRUE), S, want)
  BY <1>2, ScrSays
<1>4. Steady(r, Goto(r, proto, "REQSENT"), S, want)
  BY <1>2, GotoSays DEF States
<1>5. Steady(p, scr(q, proto, TRUE), S, want) /\ Steady(p, Goto(r, proto, "REQSENT"), S, want)
  BY <1>1, <1>3, <1>4, SteadyThen
<1> QED BY <1>5 DEF q, r

(* The automaton comes to rest. *)
LEMMA RestSays ==
  ASSUME NEW p, NEW S, NEW want, Speaker(p, S, want), NEW proto \in Protocols,
         Asks(p, proto), NEW state \in {"CLOSED", "STOPPED"}
  PROVE  Steady(p, StopTimer(Goto(p, proto, state), proto), S, want)
<1> DEFINE q == Goto(p, proto, state)
<1>1. Steady(p, q, S, want)
  BY GotoSays DEF States
<1> HIDE DEF q
<1>2. Speaker(q, S, want)
  BY <1>1 DEF Steady, Spoke
<1>3. Steady(q, StopTimer(q, proto), S, want)
  BY <1>2, StopTimerSays
<1>4. Steady(p, StopTimer(q, proto), S, want)
  BY <1>1, <1>3, SteadyThen
<1> QED BY <1>4 DEF q

(* An Opened layer is taken down and its request sent afresh. *)
LEMMA ReopenSays ==
  ASSUME NEW p, NEW S, NEW want, Speaker(p, S, want), NEW proto \in Protocols,
         Asks(p, proto)
  PROVE  Steady(p, Reopen(p, proto), S, want)
<1> DEFINE d == tld(p, proto)
<1>1. Steady(p, d, S, want)
  BY TldSays
<1>2. Reopen(p, proto) = Goto(scr(d, proto, TRUE), proto, "REQSENT")
  BY DEF Reopen
<1> HIDE DEF d
<1>3. Speaker(d, S, want) /\ Asks(d, proto)
  BY <1>1 DEF Steady, Spoke, Asks
<1>4. Steady(d, Goto(scr(d, proto, TRUE), proto, "REQSENT"), S, want)
  BY <1>3, RepeatSays
<1> QED BY <1>1, <1>2, <1>4, SteadyThen

(* An acknowledgement of IPCP's request is heard on the wanted address only. *)
LEMMA RcaSays ==
  ASSUME NEW p, NEW S, NEW want, Speaker(p, S, want), NEW proto \in Protocols,
         NEW id \in Ids, proto = "IPCP" => p.local_ip = want
  PROVE  Spoke(p, ev_rca(p, proto, id), S, want)
<1> DEFINE q == ev_rca(p, proto, id)
           f == p.fsm[proto]
<1>1. f.state \in States /\ (f.state # "INITIAL" => Asks(p, proto))
  BY SpeakerParts
<1>2. CASE id # f.last_req_id
  <2>1. q = p
    BY <1>2 DEF ev_rca
  <2> QED BY <2>1 DEF Spoke
<1>3. CASE id = f.last_req_id
  <2>1. CASE f.state \in {"CLOSED", "STOPPED"}
    <3>1. q = sta(p, proto, id)
      BY <1>3, <2>1 DEF ev_rca
    <3> QED BY <3>1, StaSays DEF Steady
  <2>2. CASE f.state = "REQSENT"
    <3> DEFINE r == irc(p, proto, PPP_MAX_CONFIGURE)
    <3>1. q = Goto(r, proto, "ACKRCVD")
      BY <1>3, <2>2 DEF ev_rca
    <3>2. Steady(p, r, S, want)
      BY IrcSays
    <3> HIDE DEF r
    <3>3. Speaker(r, S, want) /\ Asks(r, proto) /\ (proto = "IPCP" => r.local_ip = want)
      BY <1>1, <2>2, <3>2 DEF Steady, Spoke, Asks
    <3>4. Steady(r, Goto(r, proto, "ACKRCVD"), S, want)
      BY <3>3, GotoSays DEF States
    <3> QED BY <3>1, <3>2, <3>4 DEF Steady, Spoke
  <2>3. CASE f.state = "ACKRCVD"
    <3>1. q = Goto(scr(p, proto, TRUE), proto, "REQSENT")
      BY <1>3, <2>3 DEF ev_rca
    <3> QED BY <1>1, <2>3, <3>1, RepeatSays DEF Steady
  <2>4. CASE f.state = "ACKSENT"
    <3> DEFINE r == irc(p, proto, PPP_MAX_CONFIGURE)
    <3>1. q = tlu(StopTimer(Goto(r, proto, "OPENED"), proto), proto)
      BY <1>3, <2>4 DEF ev_rca
    <3>2. Steady(p, r, S, want)
      BY IrcSays
    <3> HIDE DEF r
    <3>3. Speaker(r, S, want) /\ Asks(r, proto) /\ (proto = "IPCP" => r.local_ip = want)
      BY <1>1, <2>4, <3>2 DEF Steady, Spoke, Asks
    <3>4. Spoke(r, tlu(StopTimer(Goto(r, proto, "OPENED"), proto), proto), S, want)
      BY <3>3, UpSays
    <3> QED BY <3>1, <3>2, <3>4, SpokeThen
  <2>5. CASE f.state = "OPENED"
    <3>1. q = Reopen(p, proto)
      BY <1>3, <2>5 DEF ev_rca
    <3> QED BY <1>1, <2>5, <3>1, ReopenSays DEF Steady
  <2>6. CASE f.state \in {"INITIAL", "CLOSING", "STOPPING"}
    <3>1. q = p
      BY <1>3, <2>6 DEF ev_rca
    <3> QED BY <3>1 DEF Spoke
  <2> QED BY <1>1, <2>1, <2>2, <2>3, <2>4, <2>5, <2>6 DEF States
<1> QED BY <1>2, <1>3

(* Receive-Configure-Nak or -Reject, its options applied: a fresh request. *)
LEMMA RcnSays ==
  ASSUME NEW p, NEW S, NEW want, Speaker(p, S, want), NEW proto \in Protocols,
         NEW id \in Ids
  PROVE  Spoke(p, ev_rcn(p, proto, id), S, want)
<1> DEFINE q == ev_rcn(p, proto, id)
           f == p.fsm[proto]
<1>1. f.state \in States /\ (f.state # "INITIAL" => Asks(p, proto))
  BY SpeakerParts
<1>2. CASE id # f.last_req_id
  <2>1. q = p
    BY <1>2 DEF ev_rcn
  <2> QED BY <2>1 DEF Spoke
<1>3. CASE id = f.last_req_id
  <2>1. CASE f.state \in {"CLOSED", "STOPPED"}
    <3>1. q = sta(p, proto, id)
      BY <1>3, <2>1 DEF ev_rcn
    <3> QED BY <3>1, StaSays DEF Steady
  <2>2. CASE f.state \in {"REQSENT", "ACKSENT"}
    <3>1. q = scr(irc(p, proto, PPP_MAX_CONFIGURE), proto, TRUE)
      BY <1>3, <2>2 DEF ev_rcn
    <3> QED BY <1>1, <2>2, <3>1, RepeatSays DEF Steady
  <2>3. CASE f.state = "ACKRCVD"
    <3>1. q = Goto(scr(p, proto, TRUE), proto, "REQSENT")
      BY <1>3, <2>3 DEF ev_rcn
    <3> QED BY <1>1, <2>3, <3>1, RepeatSays DEF Steady
  <2>4. CASE f.state = "OPENED"
    <3>1. q = Reopen(p, proto)
      BY <1>3, <2>4 DEF ev_rcn
    <3> QED BY <1>1, <2>4, <3>1, ReopenSays DEF Steady
  <2>5. CASE f.state \in {"INITIAL", "CLOSING", "STOPPING"}
    <3>1. q = p
      BY <1>3, <2>5 DEF ev_rcn
    <3> QED BY <3>1 DEF Spoke
  <2> QED BY <1>1, <2>1, <2>2, <2>3, <2>4, <2>5 DEF States
<1> QED BY <1>2, <1>3

(* Receive-Terminate-Request. *)
LEMMA RtrSays ==
  ASSUME NEW p, NEW S, NEW want, Speaker(p, S, want), NEW proto \in Protocols,
         NEW id \in Ids
  PROVE  Spoke(p, ev_rtr(p, proto, id), S, want)
<1> DEFINE q == sta(p, proto, id)
           r == ev_rtr(p, proto, id)
           state == p.fsm[proto].state
<1>1. Steady(p, q, S, want)
  BY StaSays
<1>2. CASE state = "OPENED"
  <2> DEFINE d == tld(q, proto)
             g == [d.fsm[proto] EXCEPT !.restarts = 0, !.timer = TRUE, !.state = "STOPPING"]
             e == Put(d, proto, g)
  <2>1. r = e
    BY <1>2 DEF ev_rtr
  <2> HIDE DEF q, r
  <2>2. Speaker(q, S, want) /\ Asks(q, proto)
    BY <1>1, <1>2, SpeakerParts DEF Steady, Spoke, Asks
  <2>3. Steady(q, d, S, want)
    BY <2>2, TldSays
  <2> HIDE DEF d
  <2>4. Speaker(d, S, want) /\ Asks(d, proto)
    BY <2>2, <2>3 DEF Steady, Spoke, Asks
  <2>5. PeerOK(d) /\ d.tx \in Seq(S)
    BY <2>4, SpeakerParts
  <2>6. d.fsm[proto] \in Fsm /\ d.fsm[proto].failures <= PPP_MAX_FAILURE
    BY <2>5, Typing
  <2>7. 0 <= Limit /\ "STOPPING" \in States
    BY Limits DEF States
  <2>8. /\ g \in Fsm /\ g.restarts = 0 /\ g.failures = d.fsm[proto].failures
        /\ g.state = "STOPPING" /\ g.timer = TRUE /\ g.opts = d.fsm[proto].opts
    BY <2>6, <2>7 DEF Fsm
  <2> HIDE DEF g
  <2>9. Moved(d, e, proto, "STOPPING", TRUE)
    BY <2>5, <2>6, <2>7, <2>8, PutMoves
  <2>10. Kept(d, e, S)
    BY <2>5, <2>8, PutKept
  <2> HIDE DEF e
  <2>11. Steady(d, e, S, want)
    BY <2>4, <2>9, <2>10, MovedSteady DEF Asks
  <2> QED BY <1>1, <2>1, <2>3, <2>11 DEF Steady, Spoke, r
<1>3. CASE state \in {"REQSENT", "ACKRCVD", "ACKSENT"}
  <2>1. r = Goto(q, proto, "REQSENT")
    BY <1>3 DEF ev_rtr
  <2> HIDE DEF q, r
  <2>2. Speaker(q, S, want) /\ Asks(q, proto)
    BY <1>1, <1>3, SpeakerParts DEF Steady, Spoke, Asks
  <2>3. Steady(q, r, S, want)
    BY <2>1, <2>2, GotoSays DEF States
  <2> QED BY <1>1, <2>3 DEF Steady, Spoke, r
<1>4. CASE state \notin {"OPENED", "REQSENT", "ACKRCVD", "ACKSENT"}
  <2>1. r = q
    BY <1>4 DEF ev_rtr
  <2> QED BY <1>1, <2>1 DEF Steady
<1> QED BY <1>2, <1>3, <1>4

(* Receive-Terminate-Ack. *)
LEMMA RtaSays ==
  ASSUME NEW p, NEW S, NEW want, Speaker(p, S, want), NEW proto \in Protocols
  PROVE  Spoke(p, ev_rta(p, proto), S, want)
<1> DEFINE q == ev_rta(p, proto)
           state == p.fsm[proto].state
<1>1. state # "INITIAL" => Asks(p, proto)
  BY SpeakerParts
<1>2. CASE state = "CLOSING"
  <2>1. q = StopTimer(Goto(p, proto, "CLOSED"), proto)
    BY <1>2 DEF ev_rta
  <2> QED BY <1>1, <1>2, <2>1, RestSays DEF Steady
<1>3. CASE state = "STOPPING"
  <2>1. q = StopTimer(Goto(p, proto, "STOPPED"), proto)
    BY <1>3 DEF ev_rta
  <2> QED BY <1>1, <1>3, <2>1, RestSays DEF Steady
<1>4. CASE state = "ACKRCVD"
  <2>1. q = Goto(p, proto, "REQSENT")
    BY <1>4 DEF ev_rta
  <2>2. Steady(p, Goto(p, proto, "REQSENT"), S, want)
    BY <1>1, <1>4, GotoSays DEF States
  <2> QED BY <2>1, <2>2 DEF Steady
<1>5. CASE state = "OPENED"
  <2>1. q = Reopen(p, proto)
    BY <1>5 DEF ev_rta
  <2> QED BY <1>1, <1>5, <2>1, ReopenSays DEF Steady
<1>6. CASE state \notin {"CLOSING", "STOPPING", "ACKRCVD", "OPENED"}
  <2>1. q = p
    BY <1>6 DEF ev_rta
  <2> QED BY <2>1 DEF Spoke
<1> QED BY <1>2, <1>3, <1>4, <1>5, <1>6

(* Where a judged request leads. *)
LEMMA JudgedSays ==
  ASSUME NEW p, NEW S, NEW want, Speaker(p, S, want), NEW proto \in Protocols,
         NEW good \in BOOLEAN, NEW entry, Asks(p, proto),
         entry = "ACKRCVD" => p.fsm[proto].state = "ACKRCVD"
  PROVE  Spoke(p, Judged(p, proto, entry, good), S, want)
<1> DEFINE q == Judged(p, proto, entry, good)
<1>1. CASE entry \in {"STOPPED", "OPENED", "REQSENT", "ACKSENT"}
  <2> DEFINE state == IF good THEN "ACKSENT" ELSE "REQSENT"
  <2>1. q = Goto(p, proto, state)
    BY <1>1 DEF Judged
  <2>2. state \in States /\ state \notin {"ACKRCVD", "OPENED"}
    BY DEF States
  <2> HIDE DEF state
  <2>3. Steady(p, Goto(p, proto, state), S, want)
    BY <2>2, GotoSays
  <2> QED BY <2>1, <2>3 DEF Steady
<1>2. CASE entry = "ACKRCVD" /\ good
  <2>1. q = tlu(StopTimer(Goto(p, proto, "OPENED"), proto), proto)
    BY <1>2 DEF Judged
  <2>2. proto = "IPCP" => p.local_ip = want
    BY <1>2, SpeakerParts
  <2> QED BY <2>1, <2>2, UpSays
<1>3. CASE entry \notin {"STOPPED", "OPENED", "REQSENT", "ACKSENT"} /\ ~(entry = "ACKRCVD" /\ good)
  <2>1. q = p
    BY <1>3 DEF Judged
  <2> QED BY <2>1 DEF Spoke
<1> QED BY <1>1, <1>2, <1>3

(* The allowance of Naks that ev_rcr spends is no part of what is said. *)
LEMMA FailureSays ==
  ASSUME NEW p, NEW S, NEW want, Speaker(p, S, want), NEW proto \in Protocols,
         p.fsm[proto].failures # 0
  PROVE  Steady(p, [p EXCEPT !.fsm[proto].failures = p.fsm[proto].failures - 1], S, want)
<1> DEFINE f == p.fsm[proto]
           g == [f EXCEPT !.failures = f.failures - 1]
           q == [p EXCEPT !.fsm[proto].failures = p.fsm[proto].failures - 1]
<1>1. PeerOK(p) /\ p.tx \in Seq(S)
  BY SpeakerParts
<1>2. Moved(p, q, proto, p.fsm[proto].state, p.fsm[proto].timer)
  BY <1>1, FailureMoves
<1>3. q = Put(p, proto, g)
  BY DEF Put
<1>4. g.opts = p.fsm[proto].opts
  BY <1>1, Typing DEF Fsm
<1> HIDE DEF g
<1>5. Kept(p, Put(p, proto, g), S)
  BY <1>1, <1>4, PutKept
<1> HIDE DEF q
<1>6. Kept(p, q, S)
  BY <1>3, <1>5
<1>7. Steady(p, q, S, want)
  BY <1>2, <1>6, MovedStill
<1> QED BY <1>7 DEF q

(* Receive-Configure-Request, whatever the judgement: the answer may be said. *)
LEMMA RcrSays ==
  ASSUME NEW p, NEW S, NEW want, Speaker(p, S, want), NEW proto \in Protocols,
         NEW id \in Ids, NEW opts, NEW r, Control(proto, r.code, id, r.opts) \in S
  PROVE  Spoke(p, Rcr(p, proto, id, opts, r), S, want)
<1> DEFINE entry == p.fsm[proto].state
           good == r.code = "CONF_ACK"
           p1 == IF entry = "OPENED" THEN tld(p, proto) ELSE p
           p2 == IF entry \in {"STOPPED", "OPENED"}
                 THEN scr(irc(p1, proto, PPP_MAX_CONFIGURE), proto, TRUE) ELSE p1
           p3 == send_cp(p2, proto, r.code, id, r.opts)
           fails == p3.fsm[proto].failures
           p4 == [p3 EXCEPT !.fsm[proto].failures = fails - 1]
           q == Rcr(p, proto, id, opts, r)
<1>1. CASE entry \in {"INITIAL", "CLOSED"}
  <2>1. q = sta(p, proto, id)
    BY <1>1 DEF Rcr
  <2> QED BY <2>1, StaSays DEF Steady
<1>2. CASE entry \notin {"INITIAL", "CLOSED"} /\ \E o \in opts : o[1] = "TRUNCATED"
  <2>1. q = p
    BY <1>2 DEF Rcr
  <2> QED BY <2>1 DEF Spoke
<1>3. CASE entry \notin {"INITIAL", "CLOSED"} /\ ~\E o \in opts : o[1] = "TRUNCATED"
  <2>1. q = IF good THEN Judged(p3, proto, entry, TRUE)
            ELSE IF fails = 0 THEN StopTimer(Goto(p3, proto, "STOPPED"), proto)
            ELSE Judged(p4, proto, entry, FALSE)
    BY <1>3 DEF Rcr
  <2>2. Asks(p, proto)
    BY <1>3, SpeakerParts
  <2>3. Steady(p, p1, S, want)
    BY TldSays, SteadySelf
  <2>4. entry = "ACKRCVD" => p1 = p /\ p2 = p1
    OBVIOUS
  <2> HIDE DEF p1, q
  <2>5. Speaker(p1, S, want) /\ Asks(p1, proto)
    BY <2>2, <2>3 DEF Steady, Spoke, Asks
  <2>6. Steady(p1, p2, S, want)
    BY <2>5, RepeatSays, SteadySelf
  <2> HIDE DEF p2
  <2>7. Speaker(p2, S, want) /\ Asks(p2, proto)
    BY <2>5, <2>6 DEF Steady, Spoke, Asks
  <2>8. Steady(p2, p3, S, want)
    BY <2>7, SendSays
  <2>9. entry = "ACKRCVD" => p3.fsm[proto].state = "ACKRCVD"
    <3>1. ASSUME entry = "ACKRCVD" PROVE p3.fsm[proto].state = "ACKRCVD"
      <4>1. p2 = p /\ PeerOK(p) /\ S \subseteq Frame
        BY <2>4, <3>1, SpeakerParts
      <4>2. r.code \in Codes /\ r.opts \in SUBSET Option
        BY <4>1 DEF Control, Frame
      <4>3. Moved(p, send_cp(p, proto, r.code, id, r.opts), proto, p.fsm[proto].state, p.fsm[proto].timer)
        BY <4>1, <4>2, SendMoves
      <4> QED BY <3>1, <4>1, <4>3 DEF Moved
    <3> QED BY <3>1
  <2> HIDE DEF p3
  <2>10. Steady(p, p3, S, want)
    BY <2>3, <2>6, <2>8, SteadyThen
  <2>11. Speaker(p3, S, want) /\ Asks(p3, proto)
    BY <2>7, <2>8 DEF Steady, Spoke, Asks
  <2>12. CASE good
    <3>1. Spoke(p3, Judged(p3, proto, entry, TRUE), S, want)
      BY <2>9, <2>11, JudgedSays
    <3> QED BY <2>1, <2>10, <2>12, <3>1, SpokeThen DEF q
  <2>13. CASE ~good /\ fails = 0
    <3>1. Steady(p3, StopTimer(Goto(p3, proto, "STOPPED"), proto), S, want)
      BY <2>11, RestSays
    <3> QED BY <2>1, <2>10, <2>13, <3>1, SpokeThen DEF Steady, q
  <2>14. CASE ~good /\ fails # 0
    <3>1. Steady(p3, p4, S, want)
      BY <2>11, <2>14, FailureSays
    <3>2. PeerOK(p3)
      BY <2>11, SpeakerParts
    <3>3. Moved(p3, p4, proto, p3.fsm[proto].state, p3.fsm[proto].timer)
      BY <2>14, <3>2, FailureMoves
    <3> HIDE DEF p4
    <3>4. Speaker(p4, S, want) /\ Asks(p4, proto)
      BY <2>11, <3>1 DEF Steady, Spoke, Asks
    <3>5. entry = "ACKRCVD" => p4.fsm[proto].state = "ACKRCVD"
      BY <2>9, <3>3 DEF Moved
    <3>6. Spoke(p4, Judged(p4, proto, entry, FALSE), S, want)
      BY <3>4, <3>5, JudgedSays
    <3>7. Steady(p, p4, S, want)
      BY <2>10, <3>1, SteadyThen
    <3> QED BY <2>1, <2>14, <3>6, <3>7, SpokeThen DEF q
  <2> QED BY <2>12, <2>13, <2>14
<1> QED BY <1>1, <1>2, <1>3

(* restart_timeout: the request repeated, the termination repeated, or rest. *)
LEMMA TimeoutSays ==
  ASSUME NEW p, NEW S, NEW want, Speaker(p, S, want), NEW proto \in Protocols
  PROVE  Steady(p, restart_timeout(p, proto), S, want)
<1> DEFINE f == p.fsm[proto]
           q == restart_timeout(p, proto)
<1>1. f.state # "INITIAL" => Asks(p, proto)
  BY SpeakerParts
<1>2. PeerOK(p) /\ p.tx \in Seq(S) /\ Vocabulary(S, p.local_ip)
  BY SpeakerParts
<1>3. CASE f.restarts = 0
  <2>1. CASE f.state = "CLOSING"
    <3>1. q = StopTimer(Goto(p, proto, "CLOSED"), proto)
      BY <1>3, <2>1 DEF restart_timeout
    <3> QED BY <1>1, <2>1, <3>1, RestSays
  <2>2. CASE f.state \in {"STOPPING", "REQSENT", "ACKRCVD", "ACKSENT"}
    <3>1. q = StopTimer(Goto(p, proto, "STOPPED"), proto)
      BY <1>3, <2>2 DEF restart_timeout
    <3> QED BY <1>1, <2>2, <3>1, RestSays
  <2>3. CASE f.state \notin {"CLOSING", "STOPPING", "REQSENT", "ACKRCVD", "ACKSENT"}
    <3>1. q = StopTimer(p, proto)
      BY <1>3, <2>3 DEF restart_timeout
    <3> QED BY <3>1, StopTimerSays
  <2> QED BY <2>1, <2>2, <2>3
<1>4. CASE f.restarts # 0
  <2>1. CASE f.state \in {"CLOSING", "STOPPING"}
    <3> DEFINE left == f.restarts - 1
               g == [f EXCEPT !.restarts = left]
               r == Put(p, proto, g)
    <3>1. f \in Fsm /\ f.restarts \in Nat /\ f.restarts <= Limit
          /\ f.failures <= PPP_MAX_FAILURE /\ f.last_req_id \in Ids
      BY <1>2, Typing
    <3>2. left \in Nat /\ left <= Limit
      BY <1>4, <3>1, Limits
    <3>3. q = send_cp(r, proto, "TERM_REQ", f.last_req_id, {})
      BY <1>4, <2>1 DEF restart_timeout
    <3>4. Control(proto, "TERM_REQ", f.last_req_id, {}) \in S
      BY <1>2, <3>1 DEF Vocabulary
    <3> HIDE DEF left, q
    <3>5. /\ g \in Fsm /\ g.restarts = left /\ g.failures = f.failures
          /\ g.state = f.state /\ g.timer = f.timer /\ g.opts = p.fsm[proto].opts
      BY <3>1, <3>2 DEF Fsm
    <3> HIDE DEF g
    <3>6. Moved(p, r, proto, p.fsm[proto].state, g.timer)
      <4>1. Moved(p, r, proto, g.state, g.timer)
        BY <1>2, <3>1, <3>2, <3>5, PutMoves
      <4> QED BY <3>5, <4>1
    <3>7. Kept(p, r, S)
      BY <1>2, <3>5, PutKept
    <3> HIDE DEF r
    <3>8. Steady(p, r, S, want)
      <4> DEFINE timer == g.timer
      <4>1. Moved(p, r, proto, p.fsm[proto].state, timer)
        BY <3>6
      <4> HIDE DEF timer
      <4> QED BY <3>7, <4>1, MovedStill
    <3>9. Steady(r, send_cp(r, proto, "TERM_REQ", f.last_req_id, {}), S, want)
      BY <3>4, <3>8, SendSays DEF Steady, Spoke
    <3>10. Steady(r, q, S, want)
      BY <3>3, <3>9
    <3> QED BY <3>8, <3>10, SteadyThen DEF q
  <2>2. CASE f.state \in {"REQSENT", "ACKRCVD", "ACKSENT"}
    <3>1. q = scr(p, proto, FALSE)
      BY <1>4, <2>2 DEF restart_timeout
    <3> QED BY <1>1, <2>2, <3>1, ScrSays
  <2>3. CASE f.state \notin {"CLOSING", "STOPPING", "REQSENT", "ACKRCVD", "ACKSENT"}
    <3>1. q = StopTimer(p, proto)
      BY <1>4, <2>3 DEF restart_timeout
    <3> QED BY <3>1, StopTimerSays
  <2> QED BY <2>1, <2>2, <2>3
<1> QED BY <1>3, <1>4

(* ppp_tick: LCP's timer first, then IPCP's. *)
LEMMA TickedSays ==
  ASSUME NEW p, NEW S, NEW want, Speaker(p, S, want), NEW due
  PROVE  Steady(p, Ticked(p, due), S, want)
<1> DEFINE q == IF "LCP" \in due THEN restart_timeout(p, "LCP") ELSE p
           r == restart_timeout(q, "IPCP")
<1>0. "LCP" \in Protocols /\ "IPCP" \in Protocols
  BY DEF Protocols
<1>1. Steady(p, q, S, want)
  BY <1>0, TimeoutSays, SteadySelf
<1>2. Ticked(p, due) = q \/ Ticked(p, due) = r
  BY DEF Ticked
<1> HIDE DEF q
<1>3. Steady(q, r, S, want)
  BY <1>0, <1>1, TimeoutSays DEF Steady, Spoke
<1>4. Steady(p, r, S, want)
  BY <1>1, <1>3, SteadyThen
<1> QED BY <1>1, <1>2, <1>4

(* ppp_open speaks LCP. *)
LEMMA StartedSays ==
  ASSUME NEW p, NEW S, NEW want, Speaker(p, S, want)
  PROVE  LET q == Started(p)
         IN Speaker(q, S, want) /\ q.local_ip = p.local_ip /\ q.opened = TRUE
<1> DEFINE f == p.fsm["LCP"]
           g == [f EXCEPT !.state = "REQSENT", !.opts = {"MAGIC", "ASYNCMAP"}]
           a == Put(p, "LCP", g)
           b == [a EXCEPT !.opened = TRUE]
           c == irc(b, "LCP", PPP_MAX_CONFIGURE)
           d == scr(c, "LCP", TRUE)
<1>1. "LCP" \in Protocols /\ "REQSENT" \in States /\ {"MAGIC", "ASYNCMAP"} \in SUBSET Types
  BY DEF Protocols, States, Types
<1>2. PeerOK(p) /\ p.tx \in Seq(S)
  BY SpeakerParts
<1>3. f \in Fsm /\ f.restarts <= Limit /\ f.failures <= PPP_MAX_FAILURE
  BY <1>1, <1>2, Typing
<1>4. Started(p) = d
  BY DEF Started
<1> HIDE DEF f
<1>5. g \in Fsm /\ g.state = "REQSENT"
      /\ g.restarts = f.restarts /\ g.failures = f.failures
  BY <1>1, <1>3 DEF Fsm
<1> HIDE DEF g
<1>6. Moved(p, a, "LCP", g.state, g.timer)
  BY <1>1, <1>2, <1>3, <1>5, PutMoves
<1>7. Kept(p, a, S)
  BY <1>1, <1>2, PutKept
<1> HIDE DEF a
<1>8. Steady(p, a, S, want)
  <2> DEFINE state == g.state
             timer == g.timer
  <2>1. Moved(p, a, "LCP", state, timer)
    BY <1>6
  <2> HIDE DEF state, timer
  <2> QED BY <1>1, <1>7, <2>1, MovedSteady
<1>9. Speaker(a, S, want)
  BY <1>8 DEF Steady, Spoke
<1>10. PeerOK(b) /\ b.tx = a.tx /\ b.fsm = a.fsm /\ b.local_ip = a.local_ip
       /\ b.assigned = a.assigned /\ b.opened = TRUE
  <2>1. PeerOK(a)
    BY <1>9, SpeakerParts
  <2> QED BY <2>1 DEF PeerOK, Peer
<1> HIDE DEF b
<1>11. Speaker(b, S, want) /\ b.local_ip = p.local_ip
  BY <1>8, <1>9, <1>10 DEF Speaker, Steady, Spoke
<1>12. Steady(b, c, S, want)
  BY <1>1, <1>11, IrcSays
<1> HIDE DEF c
<1>13. Steady(c, d, S, want)
  BY <1>1, <1>12, ScrSays DEF Steady, Spoke, Asks
<1> HIDE DEF d
<1>14. Steady(b, d, S, want)
  BY <1>12, <1>13, SteadyThen
<1>15. Speaker(d, S, want) /\ d.local_ip = p.local_ip /\ d.opened = TRUE
  BY <1>10, <1>11, <1>14 DEF Steady, Spoke
<1> QED BY <1>4, <1>15

(* What the two ends say to each other.  give is the address an end has for
   the other, want its own: classify_confreq with the former as a parameter. *)
Verdict(p, proto, o, give) ==
  IF proto = "LCP" THEN lcp_review(p, o)
  ELSE IF o[1] = "ADDRESS" THEN IF o[2] = give THEN "ACK" ELSE "NAK" ELSE "REJ"

Judgement(p, proto, opts, give) ==
  LET rej == {o \in opts : Verdict(p, proto, o, give) = "REJ"}
      nak == {o \in opts : Verdict(p, proto, o, give) = "NAK"}
  IN IF rej # {} THEN [code |-> "CONF_REJ", opts |-> rej]
     ELSE IF nak # {} THEN [code |-> "CONF_NAK",
                            opts |-> {<<o[1], IF o[1] = "MAGIC" THEN Alternative(o[2])
                                              ELSE give>> : o \in nak}]
     ELSE [code |-> "CONF_ACK", opts |-> opts]

(* cp_input, of what is said. *)
Hear(p, m, give) ==
  LET mine == m.id = p.fsm[m.proto].last_req_id
  IN CASE m.code = "CONF_REQ" ->
            Rcr(p, m.proto, m.id, m.opts, Judgement(p, m.proto, m.opts, give))
       [] m.code = "CONF_ACK" -> ev_rca(p, m.proto, m.id)
       [] m.code = "CONF_NAK" ->
            ev_rcn(IF mine THEN apply_nak(p, m.proto, m.opts) ELSE p, m.proto, m.id)
       [] m.code = "CONF_REJ" ->
            ev_rcn(IF mine THEN apply_rej(p, m.proto, m.opts) ELSE p, m.proto, m.id)
       [] m.code = "TERM_REQ" -> ev_rtr(p, m.proto, m.id)
       [] OTHER -> ev_rta(p, m.proto)

(* The two ends judge alike, but for the address they give. *)
LEMMA SameJudgement ==
  ASSUME NEW p, NEW proto, NEW opts
  PROVE  /\ classify_confreq(p, proto, opts) = Judgement(p, proto, opts, RemoteIp)
         /\ Pppd!classify_confreq(p, proto, opts) = Judgement(p, proto, opts, LocalIp)
<1>1. \A o : review(p, proto, o) = Verdict(p, proto, o, RemoteIp)
  BY DEF review, ipcp_review, Verdict
<1>2. \A o : Pppd!review(p, proto, o) = Verdict(p, proto, o, LocalIp)
  BY DEF Pppd!review, Pppd!ipcp_review, Pppd!lcp_review, lcp_review, Verdict
<1>3. \A o : Suggested(p, o)
               = <<o[1], IF o[1] = "MAGIC" THEN Alternative(o[2]) ELSE RemoteIp>>
  BY DEF Suggested
<1>4. \A o : Pppd!Suggested(p, o)
               = <<o[1], IF o[1] = "MAGIC" THEN Alternative(o[2]) ELSE LocalIp>>
  BY DEF Pppd!Suggested, Pppd!Alternative, Alternative
<1>5. classify_confreq(p, proto, opts) = Judgement(p, proto, opts, RemoteIp)
  <2>1. /\ {o \in opts : review(p, proto, o) = "REJ"}
               = {o \in opts : Verdict(p, proto, o, RemoteIp) = "REJ"}
        /\ {o \in opts : review(p, proto, o) = "NAK"}
               = {o \in opts : Verdict(p, proto, o, RemoteIp) = "NAK"}
    BY <1>1
  <2> DEFINE nak == {o \in opts : Verdict(p, proto, o, RemoteIp) = "NAK"}
  <2>2. {Suggested(p, o) : o \in nak}
          = {<<o[1], IF o[1] = "MAGIC" THEN Alternative(o[2]) ELSE RemoteIp>> : o \in nak}
    BY <1>3
  <2> QED BY <2>1, <2>2, Zenon DEF classify_confreq, Judgement
<1>6. Pppd!classify_confreq(p, proto, opts) = Judgement(p, proto, opts, LocalIp)
  <2>1. /\ {o \in opts : Pppd!review(p, proto, o) = "REJ"}
               = {o \in opts : Verdict(p, proto, o, LocalIp) = "REJ"}
        /\ {o \in opts : Pppd!review(p, proto, o) = "NAK"}
               = {o \in opts : Verdict(p, proto, o, LocalIp) = "NAK"}
    BY <1>2
  <2> DEFINE nak == {o \in opts : Verdict(p, proto, o, LocalIp) = "NAK"}
  <2>2. {Pppd!Suggested(p, o) : o \in nak}
          = {<<o[1], IF o[1] = "MAGIC" THEN Alternative(o[2]) ELSE LocalIp>> : o \in nak}
    BY <1>4
  <2> QED BY <2>1, <2>2, Zenon DEF Pppd!classify_confreq, Judgement
<1> QED BY <1>5, <1>6

(* So they hear alike, as long as nothing else is said. *)
LEMMA SameHearing ==
  ASSUME NEW p, NEW m, m.proto \in Protocols,
         m.code \in {"CONF_REQ", "CONF_ACK", "CONF_NAK", "CONF_REJ",
                     "TERM_REQ", "TERM_ACK"}
  PROVE  /\ frame_input(p, m) = Hear(p, m, RemoteIp)
         /\ Pppd!frame_input(p, m) = Hear(p, m, LocalIp)
<1>1. frame_input(p, m) = cp_input(p, m)
  BY DEF frame_input, Protocols
<1>2. Pppd!frame_input(p, m) = Pppd!cp_input(p, m)
  BY DEF Pppd!frame_input, Pppd!Protocols, Protocols
<1>3. cp_input(p, m) = Hear(p, m, RemoteIp)
  <2>1. ev_rcr(p, m.proto, m.id, m.opts)
          = Rcr(p, m.proto, m.id, m.opts, Judgement(p, m.proto, m.opts, RemoteIp))
    BY SameRequests, SameJudgement
  <2> QED BY <2>1 DEF cp_input, Hear
<1>4. Pppd!cp_input(p, m) = Hear(p, m, LocalIp)
  <2>1. Pppd!ev_rcr(p, m.proto, m.id, m.opts)
          = Rcr(p, m.proto, m.id, m.opts, Judgement(p, m.proto, m.opts, LocalIp))
    BY SameRequests, SameJudgement
  <2> DEFINE mine == m.id = p.fsm[m.proto].last_req_id
             n == IF mine THEN apply_nak(p, m.proto, m.opts) ELSE p
             j == IF mine THEN apply_rej(p, m.proto, m.opts) ELSE p
  <2>2. /\ Pppd!ev_rca(p, m.proto, m.id) = ev_rca(p, m.proto, m.id)
        /\ Pppd!ev_rtr(p, m.proto, m.id) = ev_rtr(p, m.proto, m.id)
        /\ Pppd!ev_rta(p, m.proto) = ev_rta(p, m.proto)
        /\ (IF mine THEN Pppd!apply_nak(p, m.proto, m.opts) ELSE p) = n
        /\ (IF mine THEN Pppd!apply_rej(p, m.proto, m.opts) ELSE p) = j
    BY SameHandlers
  <2>3. /\ Pppd!ev_rcn(n, m.proto, m.id) = ev_rcn(n, m.proto, m.id)
        /\ Pppd!ev_rcn(j, m.proto, m.id) = ev_rcn(j, m.proto, m.id)
    BY SameHandlers
  <2>4. Hear(p, m, LocalIp)
          = CASE m.code = "CONF_REQ" ->
                   Rcr(p, m.proto, m.id, m.opts, Judgement(p, m.proto, m.opts, LocalIp))
              [] m.code = "CONF_ACK" -> ev_rca(p, m.proto, m.id)
              [] m.code = "CONF_NAK" -> ev_rcn(n, m.proto, m.id)
              [] m.code = "CONF_REJ" -> ev_rcn(j, m.proto, m.id)
              [] m.code = "TERM_REQ" -> ev_rtr(p, m.proto, m.id)
              [] OTHER -> ev_rta(p, m.proto)
    BY DEF Hear
  <2> HIDE DEF n, j
  <2>5. CASE m.code = "CONF_REQ"
    BY <2>1, <2>4, <2>5 DEF Pppd!cp_input
  <2>6. CASE m.code = "CONF_ACK"
    BY <2>2, <2>4, <2>6 DEF Pppd!cp_input
  <2>7. CASE m.code = "CONF_NAK"
    <3>1. Pppd!cp_input(p, m) = Pppd!ev_rcn(n, m.proto, m.id)
      BY <2>2, <2>7 DEF Pppd!cp_input
    <3> QED BY <2>3, <2>4, <2>7, <3>1
  <2>8. CASE m.code = "CONF_REJ"
    <3>1. Pppd!cp_input(p, m) = Pppd!ev_rcn(j, m.proto, m.id)
      BY <2>2, <2>8 DEF Pppd!cp_input
    <3> QED BY <2>3, <2>4, <2>8, <3>1
  <2>9. CASE m.code = "TERM_REQ"
    BY <2>2, <2>4, <2>9 DEF Pppd!cp_input
  <2>10. CASE m.code = "TERM_ACK"
    BY <2>2, <2>4, <2>10 DEF Pppd!cp_input
  <2> QED BY <2>5, <2>6, <2>7, <2>8, <2>9, <2>10
<1> QED BY <1>1, <1>2, <1>3, <1>4

(* What has been said stays so when an end comes to hold what it wants. *)
LEMMA SaidGrows ==
  ASSUME NEW ip, NEW want, NEW his, NEW give, NEW ip2 \in {ip, want}, NEW his2 \in {his, give}
  PROVE  Said(ip, want, his, give) \subseteq Said(ip2, want, his2, give)
BY DEF Said

(* Terminations, LCP's requests and the request of one's own address may
   always be said. *)
LEMMA SaidVocabulary ==
  ASSUME NEW ip \in Nat, NEW want, NEW his, NEW give
  PROVE  Vocabulary(Said(ip, want, his, give), ip)
<1> DEFINE S == Said(ip, want, his, give)
<1>1. S \subseteq Frame
  BY DEF Said
<1>2. ASSUME NEW x \in Protocols, NEW id \in Ids, NEW code \in {"TERM_REQ", "TERM_ACK"}
      PROVE  Control(x, code, id, {}) \in S
  <2>1. Control(x, code, id, {}) \in Frame
    BY DEF Control, Frame, Codes
  <2> QED BY <2>1 DEF Said, Control
<1>3. ASSUME NEW id \in Ids, NEW o \in SUBSET Option
      PROVE  Control("LCP", "CONF_REQ", id, o) \in S
  <2>1. Control("LCP", "CONF_REQ", id, o) \in Frame
    BY DEF Control, Frame, Codes, Protocols
  <2> QED BY <2>1 DEF Said, Control, Protocols
<1>4. ASSUME NEW id \in Ids
      PROVE  Control("IPCP", "CONF_REQ", id, {<<"ADDRESS", ip>>}) \in S
  <2>1. {<<"ADDRESS", ip>>} \in SUBSET Option
    BY DEF Option, Types
  <2>2. Control("IPCP", "CONF_REQ", id, {<<"ADDRESS", ip>>}) \in Frame
    BY <2>1 DEF Control, Frame, Codes, Protocols
  <2> QED BY <2>2 DEF Said, Control, Protocols
<1> QED BY <1>1, <1>2, <1>3, <1>4 DEF Vocabulary

Speaks(p, other, want, give) ==
  Speaker(p, Said(p.local_ip, want, other.local_ip, give), want)

(* The answer to a request is one that may be said: an acknowledgement of
   IPCP's is of the address given. *)
LEMMA JudgementSays ==
  ASSUME NEW p, PeerOK(p), NEW m, NEW his, NEW want, NEW give \in Nat,
         m \in Said(his, give, p.local_ip, want), m.code = "CONF_REQ"
  PROVE  LET r == Judgement(p, m.proto, m.opts, give)
         IN Control(m.proto, r.code, m.id, r.opts)
              \in Said(p.local_ip, want, his, give)
<1> DEFINE proto == m.proto
           opts == m.opts
           rej == {o \in opts : Verdict(p, proto, o, give) = "REJ"}
           nak == {o \in opts : Verdict(p, proto, o, give) = "NAK"}
           Better(o) == <<o[1], IF o[1] = "MAGIC" THEN Alternative(o[2]) ELSE give>>
           sug == {Better(o) : o \in nak}
           r == Judgement(p, proto, opts, give)
           answer == Control(proto, r.code, m.id, r.opts)
<1>1. m \in Frame /\ proto \in Protocols /\ opts \in SUBSET Option /\ m.id \in Ids
  BY DEF Said, Frame
<1>2. r = IF rej # {} THEN [code |-> "CONF_REJ", opts |-> rej]
          ELSE IF nak # {} THEN [code |-> "CONF_NAK", opts |-> sug]
          ELSE [code |-> "CONF_ACK", opts |-> opts]
  BY DEF Judgement
<1>3. rej \in SUBSET Option /\ nak \in SUBSET Option
  BY <1>1
<1>4. sug \in SUBSET Option
  <2>1. ASSUME NEW o \in Option PROVE Better(o) \in Option
    <3>1. o[1] \in Types /\ o[2] \in Nat
      BY DEF Option
    <3>2. Alternative(o[2]) \in Nat
      BY <3>1 DEF Alternative
    <3> QED BY <3>1, <3>2 DEF Option
  <2> HIDE DEF nak, Better
  <2> QED BY <1>3, <2>1
<1>5. CASE proto = "LCP"
  <2> HIDE DEF r, rej, nak, sug
  <2>1. r.code \in {"CONF_REJ", "CONF_NAK", "CONF_ACK"} /\ r.opts \in SUBSET Option
    <3> HIDE DEF opts
    <3> QED BY <1>1, <1>2, <1>3, <1>4
  <2>2. answer \in Frame
    BY <1>1, <2>1 DEF Control, Frame, Codes
  <2>3. answer.proto = "LCP" /\ answer.code = r.code
    BY <1>5 DEF Control
  <2> HIDE DEF answer
  <2>4. answer \in Said(p.local_ip, want, his, give)
    BY <2>1, <2>2, <2>3 DEF Said, Protocols
  <2> QED BY <2>4 DEF answer, r
<1>6. CASE proto = "IPCP"
  <2>1. PICK v \in Nat : opts = {<<"ADDRESS", v>>} /\ (v = give => his = give)
    BY <1>6 DEF Said
  <2>2. Verdict(p, proto, <<"ADDRESS", v>>, give) = IF v = give THEN "ACK" ELSE "NAK"
    BY <1>6 DEF Verdict
  <2>3. CASE v = give
    <3>1. rej = {} /\ nak = {}
      BY <2>1, <2>2, <2>3
    <3>2. r = [code |-> "CONF_ACK", opts |-> opts]
      BY <1>2, <3>1
    <3>3. answer = Control("IPCP", "CONF_ACK", m.id, opts)
      BY <1>6, <3>2
    <3>4. answer \in Frame
      BY <1>1, <3>3 DEF Control, Frame, Codes, Protocols
    <3>5. answer.proto = "IPCP" /\ answer.code = "CONF_ACK"
      BY <3>3 DEF Control
    <3> HIDE DEF answer, r
    <3>6. answer \in Said(p.local_ip, want, his, give)
      BY <2>1, <2>3, <3>4, <3>5 DEF Said, Protocols
    <3> QED BY <3>6 DEF answer, r
  <2>4. CASE v # give
    <3>1. rej = {} /\ nak = {<<"ADDRESS", v>>}
      BY <2>1, <2>2, <2>4
    <3>2. Better(<<"ADDRESS", v>>) = <<"ADDRESS", give>>
      OBVIOUS
    <3>3. sug = {<<"ADDRESS", give>>}
      <4> HIDE DEF nak, Better
      <4> QED BY <3>1, <3>2
    <3>4. r = [code |-> "CONF_NAK", opts |-> {<<"ADDRESS", give>>}]
      <4> HIDE DEF nak, rej, sug, r
      <4> QED BY <1>2, <3>1, <3>3
    <3>5. answer = Control("IPCP", "CONF_NAK", m.id, {<<"ADDRESS", give>>})
      BY <1>6, <3>4
    <3>6. {<<"ADDRESS", give>>} \in SUBSET Option
      BY DEF Option, Types
    <3>7. answer \in Frame
      BY <1>1, <3>5, <3>6 DEF Control, Frame, Codes, Protocols
    <3>8. answer.proto = "IPCP" /\ answer.code = "CONF_NAK"
          /\ answer.opts = {<<"ADDRESS", give>>}
      BY <3>5 DEF Control
    <3> HIDE DEF answer, r
    <3>9. answer \in Said(p.local_ip, want, his, give)
      BY <3>7, <3>8 DEF Said, Protocols
    <3> QED BY <3>9 DEF answer, r
  <2> QED BY <2>3, <2>4
<1> QED BY <1>1, <1>5, <1>6 DEF Protocols

(* A frame's option that names the address is the one it holds. *)
LEMMA NakNames ==
  ASSUME NEW p, PeerOK(p), NEW want \in Nat
  PROVE  apply_nak(p, "IPCP", {<<"ADDRESS", want>>}) = [p EXCEPT !.local_ip = want]
<1> DEFINE opts == {<<"ADDRESS", want>>}
           named == {o \in opts : o[1] = "ADDRESS"}
<1>1. named = opts
  OBVIOUS
<1>2. (CHOOSE o \in named : TRUE) = <<"ADDRESS", want>>
  BY <1>1
<1>3. named # {}
  BY <1>1
<1> QED BY <1>2, <1>3 DEF apply_nak

(* One end hears the other: what it then says, and holds. *)
LEMMA HearSays ==
  ASSUME NEW p, NEW other, NEW want \in Nat, NEW give \in Nat, Speaks(p, other, want, give),
         NEW m \in Said(other.local_ip, give, p.local_ip, want)
  PROVE  /\ Speaks(Hear(p, m, give), other, want, give)
         /\ Hear(p, m, give).local_ip \in {p.local_ip, want}
         /\ Hear(p, m, give).opened = p.opened
<1> DEFINE his == other.local_ip
           S == Said(p.local_ip, want, his, give)
           q == Hear(p, m, give)
           proto == m.proto
           mine == m.id = p.fsm[proto].last_req_id
<1>1. Speaker(p, S, want)
  BY DEF Speaks
<1>2. PeerOK(p) /\ p.tx \in Seq(S)
  BY <1>1, SpeakerParts
<1>3. /\ m \in Frame /\ proto \in Protocols /\ m.opts \in SUBSET Option /\ m.id \in Ids
      /\ m.code \in {"CONF_REQ", "CONF_ACK", "CONF_NAK", "CONF_REJ", "TERM_REQ", "TERM_ACK"}
  BY DEF Said, Frame
<1>4. /\ (proto = "IPCP" /\ m.code = "CONF_NAK") => m.opts = {<<"ADDRESS", want>>}
      /\ (proto = "IPCP" /\ m.code = "CONF_ACK") => p.local_ip = want
      /\ m.code = "CONF_REJ" => proto = "LCP"
  BY DEF Said, Protocols
<1>5. ASSUME NEW x, Spoke(p, x, S, want)
      PROVE  /\ Speaks(x, other, want, give)
             /\ x.local_ip \in {p.local_ip, want} /\ x.opened = p.opened
  BY <1>5 DEF Spoke, Speaks
<1>6. CASE m.code = "CONF_REQ"
  <2> DEFINE r == Judgement(p, m.proto, m.opts, give)
  <2>1. Control(m.proto, r.code, m.id, r.opts) \in S
    BY <1>2, <1>6, JudgementSays
  <2>2. q = Rcr(p, m.proto, m.id, m.opts, r)
    BY <1>6 DEF Hear
  <2> HIDE DEF r, S
  <2>3. Spoke(p, Rcr(p, m.proto, m.id, m.opts, r), S, want)
    BY <1>1, <1>3, <2>1, RcrSays
  <2> HIDE DEF q
  <2> QED BY <1>5, <2>2, <2>3 DEF q
<1>7. CASE m.code = "CONF_ACK"
  <2>1. q = ev_rca(p, m.proto, m.id)
    BY <1>7 DEF Hear
  <2>2. Spoke(p, ev_rca(p, m.proto, m.id), S, want)
    BY <1>1, <1>3, <1>4, <1>7, RcaSays
  <2> HIDE DEF q, S
  <2> QED BY <1>5, <2>1, <2>2 DEF q
<1>8. CASE m.code = "CONF_NAK"
  <2> DEFINE n == IF mine THEN apply_nak(p, m.proto, m.opts) ELSE p
  <2>1. q = ev_rcn(n, m.proto, m.id)
    BY <1>8 DEF Hear
  <2>2. /\ Speaks(n, other, want, give)
        /\ n.local_ip \in {p.local_ip, want} /\ n.opened = p.opened
    <3>1. CASE ~mine
      BY <3>1
    <3>2. CASE mine /\ proto = "LCP"
      <4> DEFINE named == {o \in m.opts : o[1] = "MAGIC"}
                 value == (CHOOSE o \in named : TRUE)[2]
      <4>1. CASE named = {}
        <5>1. n = p
          BY <3>2, <4>1 DEF apply_nak
        <5> QED BY <5>1
      <4>2. CASE named # {}
        <5>1. (CHOOSE o \in named : TRUE) \in named
          BY <4>2
        <5>2. value \in Nat
          BY <1>3, <5>1 DEF Option
        <5>3. n = [p EXCEPT !.magic = value]
          BY <3>2, <4>2 DEF apply_nak
        <5> HIDE DEF value, n, S
        <5>4. PeerOK(n) /\ n.tx = p.tx /\ n.local_ip = p.local_ip /\ n.fsm = p.fsm
              /\ n.assigned = p.assigned /\ n.opened = p.opened
          BY <1>2, <5>2, <5>3 DEF PeerOK, Peer
        <5>5. Spoke(p, n, S, want)
          BY <1>1, <5>4 DEF Spoke, Speaker
        <5> QED BY <1>5, <5>5
      <4> QED BY <4>1, <4>2
    <3>3. CASE mine /\ proto = "IPCP"
      <4> DEFINE T == Said(want, want, his, give)
      <4>1. n = [p EXCEPT !.local_ip = want]
        BY <1>2, <1>4, <1>8, <3>3, NakNames
      <4> HIDE DEF n, S, T
      <4>2. PeerOK(n) /\ n.tx = p.tx /\ n.local_ip = want /\ n.fsm = p.fsm
            /\ n.assigned = p.assigned /\ n.opened = p.opened
        BY <1>2, <4>1 DEF PeerOK, Peer
      <4>3. S \subseteq T
        BY SaidGrows DEF S, T
      <4>4. n.tx \in Seq(T)
        BY <1>2, <4>2, <4>3
      <4>5. Vocabulary(T, want)
        BY SaidVocabulary DEF T
      <4>6. Speaker(n, T, want)
        BY <1>1, <4>2, <4>4, <4>5 DEF Speaker
      <4>7. Speaks(n, other, want, give)
        BY <4>2, <4>6 DEF Speaks, T
      <4> QED BY <4>2, <4>7
    <3> QED BY <1>3, <3>1, <3>2, <3>3 DEF Protocols
  <2> HIDE DEF n, q, S
  <2> DEFINE T == Said(n.local_ip, want, his, give)
  <2>3. Speaker(n, T, want)
    BY <2>2 DEF Speaks
  <2> HIDE DEF T
  <2>4. Spoke(n, ev_rcn(n, m.proto, m.id), T, want)
    BY <1>3, <2>3, RcnSays
  <2>5. Speaker(q, T, want) /\ q.local_ip = n.local_ip /\ q.opened = n.opened
    BY <2>1, <2>4 DEF Spoke
  <2> QED BY <2>2, <2>5 DEF Speaks, T, q
<1>9. CASE m.code = "CONF_REJ"
  <2> DEFINE j == IF mine THEN apply_rej(p, m.proto, m.opts) ELSE p
             f == p.fsm[m.proto]
             g == [f EXCEPT !.opts = @ \ {o[1] : o \in m.opts}]
  <2>1. q = ev_rcn(j, m.proto, m.id)
    BY <1>9 DEF Hear
  <2>2. Steady(p, apply_rej(p, m.proto, m.opts), S, want)
    <3>1. Moved(p, apply_rej(p, m.proto, m.opts), m.proto, p.fsm[m.proto].state,
                p.fsm[m.proto].timer)
      BY <1>2, <1>3, RejMoves
    <3>2. apply_rej(p, m.proto, m.opts) = Put(p, m.proto, g)
      BY DEF apply_rej
    <3> HIDE DEF g, S
    <3>3. Kept(p, Put(p, m.proto, g), S)
      BY <1>2, <1>3, <1>4, <1>9, PutKept
    <3>4. Kept(p, apply_rej(p, m.proto, m.opts), S)
      BY <3>2, <3>3
    <3> QED BY <1>1, <1>3, <3>1, <3>4, MovedStill
  <2>3. Steady(p, j, S, want)
    BY <1>1, <2>2, SteadySelf
  <2> HIDE DEF j, q, S
  <2>4. Spoke(j, ev_rcn(j, m.proto, m.id), S, want)
    BY <1>3, <2>3, RcnSays DEF Steady, Spoke
  <2>5. Spoke(p, q, S, want)
    BY <2>1, <2>3, <2>4, SpokeThen
  <2> QED BY <1>5, <2>5 DEF q
<1>10. CASE m.code = "TERM_REQ"
  <2>1. q = ev_rtr(p, m.proto, m.id)
    BY <1>10 DEF Hear
  <2>2. Spoke(p, ev_rtr(p, m.proto, m.id), S, want)
    BY <1>1, <1>3, RtrSays
  <2> HIDE DEF q, S
  <2> QED BY <1>5, <2>1, <2>2 DEF q
<1>11. CASE m.code = "TERM_ACK"
  <2>1. q = ev_rta(p, m.proto)
    BY <1>11 DEF Hear
  <2>2. Spoke(p, ev_rta(p, m.proto), S, want)
    BY <1>1, <1>3, RtaSays
  <2> HIDE DEF q, S
  <2> QED BY <1>5, <2>1, <2>2 DEF q
<1> QED BY <1>3, <1>6, <1>7, <1>8, <1>9, <1>10, <1>11

(* Once the other holds what it is given, more may be said. *)
LEMMA SpeaksOn ==
  ASSUME NEW p, NEW other, NEW later, NEW want, NEW give, Speaks(p, other, want, give),
         later.local_ip \in {other.local_ip, give}
  PROVE  Speaks(p, later, want, give)
<1> DEFINE S == Said(p.local_ip, want, other.local_ip, give)
           T == Said(p.local_ip, want, later.local_ip, give)
<1>1. S \subseteq T
  BY SaidGrows
<1>2. Speaker(p, S, want)
  BY DEF Speaks
<1>3. PeerOK(p) /\ p.tx \in Seq(S) /\ p.local_ip \in Nat
  BY <1>2, SpeakerParts DEF PeerOK, Peer
<1>4. Vocabulary(T, p.local_ip)
  BY <1>3, SaidVocabulary
<1> HIDE DEF S, T
<1>5. p.tx \in Seq(T)
  BY <1>1, <1>3
<1>6. Speaker(p, T, want)
  BY <1>2, <1>4, <1>5 DEF Speaker
<1> QED BY <1>6 DEF Speaks, T

(* A frame leaves the line. *)
LEMMA Unsaid ==
  ASSUME NEW p, NEW other, NEW want, NEW give, Speaks(p, other, want, give), p.tx # << >>
  PROVE  /\ Speaks([p EXCEPT !.tx = Tail(@)], other, want, give)
         /\ [p EXCEPT !.tx = Tail(@)].local_ip = p.local_ip
         /\ Head(p.tx) \in Said(p.local_ip, want, other.local_ip, give)
<1> DEFINE S == Said(p.local_ip, want, other.local_ip, give)
           tail == Tail(p.tx)
           q == [p EXCEPT !.tx = tail]
<1>1. Speaker(p, S, want)
  BY DEF Speaks
<1>2. PeerOK(p) /\ p.tx \in Seq(S) /\ p.tx \in Seq(Frame) /\ Len(p.tx) <= TX_FRAMES
  BY <1>1, SpeakerParts DEF PeerOK, Peer
<1>3. Head(p.tx) \in S /\ tail \in Seq(S) /\ tail \in Seq(Frame)
      /\ Len(tail) = Len(p.tx) - 1 /\ Len(p.tx) \in Nat
  <2> HIDE DEF S
  <2> QED BY <1>2, HeadTailProperties, LenProperties
<1>4. Len(tail) <= TX_FRAMES
  BY <1>2, <1>3, PppSizesAssumption
<1>5. [p EXCEPT !.tx = Tail(@)] = q
  OBVIOUS
<1> HIDE DEF S, tail
<1>6. PeerOK(q) /\ q.tx = tail /\ q.fsm = p.fsm /\ q.local_ip = p.local_ip
      /\ q.assigned = p.assigned
  BY <1>2, <1>3, <1>4 DEF PeerOK, Peer
<1> HIDE DEF q
<1>7. Speaker(q, S, want)
  BY <1>1, <1>3, <1>6 DEF Speaker
<1> QED BY <1>3, <1>5, <1>6, <1>7 DEF Speaks, S

(* A frame crosses the line from g to p. *)
LEMMA Crossing ==
  ASSUME NEW p, NEW g, NEW want \in Nat, NEW give \in Nat,
         Speaks(p, g, want, give), Speaks(g, p, give, want), g.tx # << >>
  PROVE  LET q == Hear(p, Head(g.tx), give)
             h == [g EXCEPT !.tx = Tail(@)]
         IN Speaks(q, h, want, give) /\ Speaks(h, q, give, want)
<1> DEFINE m == Head(g.tx)
           q == Hear(p, m, give)
           h == [g EXCEPT !.tx = Tail(@)]
<1>1. /\ Speaks(h, p, give, want) /\ h.local_ip = g.local_ip
      /\ m \in Said(g.local_ip, give, p.local_ip, want)
  BY Unsaid, Zenon
<1> HIDE DEF m
<1>2. Speaks(q, g, want, give) /\ q.local_ip \in {p.local_ip, want}
  BY <1>1, HearSays
<1> HIDE DEF q, h
<1>3. Speaks(h, q, give, want)
  BY <1>1, <1>2, SpeaksOn
<1>4. Speaks(q, h, want, give)
  BY <1>1, <1>2, SpeaksOn
<1> QED BY <1>3, <1>4 DEF q, h, m

(* An end that has said nothing yet. *)
Fresh(p, ip) ==
  /\ p.fsm = [proto \in Protocols |-> NewFsm] /\ p.assigned = FALSE
  /\ p.tx = << >> /\ p.local_ip = ip /\ p \in Peer

(* An end that has said nothing. *)
LEMMA FreshSpeaks ==
  ASSUME NEW p, NEW ip \in Nat, Fresh(p, ip), NEW other, NEW want, NEW give
  PROVE  Speaks(p, other, want, give)
<1> DEFINE S == Said(p.local_ip, want, other.local_ip, give)
<1>1. NewFsm.restarts = 0 /\ NewFsm.failures = 0 /\ NewFsm.state = "INITIAL"
  BY DEF NewFsm
<1>2. 0 <= Limit /\ 0 <= PPP_MAX_FAILURE /\ 0 <= TX_FRAMES
  BY Limits, PppSizesAssumption
<1>3. PeerOK(p)
  BY <1>1, <1>2 DEF PeerOK, Fresh
<1>4. p.fsm["IPCP"].state = "INITIAL"
  BY <1>1 DEF Fresh, Protocols
<1>5. Vocabulary(S, p.local_ip)
  BY SaidVocabulary DEF Fresh
<1> HIDE DEF S
<1>6. p.tx \in Seq(S)
  BY DEF Fresh
<1>7. Speaker(p, S, want)
  BY <1>3, <1>4, <1>5, <1>6 DEF Fresh, Speaker
<1> QED BY <1>7 DEF Speaks, S

(* The automata of ppp_init. *)
LEMMA NewFsmTyped == NewFsm \in Fsm
BY PppSizesAssumption DEF NewFsm, Fsm, States, Ids, Types

LEMMA HostFresh == Fresh(ppp_init, LocalIp)
BY NewFsmTyped, PppConfigAssumption DEF Fresh, ppp_init, Peer

LEMMA GuestFresh == Fresh(Pppd!ppp_init, GuestIp)
<1> DEFINE g == Pppd!ppp_init
<1>1. Pppd!NewFsm = NewFsm
  BY DEF Pppd!NewFsm, NewFsm
<1>2. g = [fsm |-> [proto \in Protocols |-> NewFsm], opened |-> FALSE,
           assigned |-> FALSE, magic |-> GuestMagic, local_ip |-> GuestIp, tx |-> << >>]
  BY <1>1 DEF Pppd!ppp_init, Pppd!Protocols, Protocols
<1> HIDE DEF g
<1>3. Fresh(g, GuestIp)
  BY <1>2, NewFsmTyped, PppLinkAssumption DEF Fresh, Peer
<1> QED BY <1>3 DEF g

(* Nothing is said on the line but what either end may say. *)
LinkInv ==
  /\ Speaks(peer, guest, LocalIp, RemoteIp)
  /\ Speaks(guest, peer, RemoteIp, LocalIp)
  /\ losses \in 0 .. MaxLosses
  /\ hasty \in 0 .. MaxHasty

(* The peer is as ppp_init leaves it, pppd has been started. *)
LEMMA LinkInitial == LinkInit => LinkInv
<1> SUFFICES ASSUME LinkInit PROVE LinkInv
  OBVIOUS
<1> DEFINE g == Pppd!ppp_init
<1>1. peer = ppp_init /\ guest = Started(g) /\ losses = 0 /\ hasty = 0
  BY SameOpening DEF LinkInit
<1>2. Fresh(peer, LocalIp) /\ LocalIp \in Nat /\ RemoteIp \in Nat
  BY <1>1, HostFresh, PppConfigAssumption
<1>3. Fresh(g, GuestIp) /\ GuestIp \in Nat
  BY GuestFresh, PppLinkAssumption
<1> HIDE DEF g
<1>4. Speaks(peer, guest, LocalIp, RemoteIp)
  BY <1>2, FreshSpeaks
<1>5. Speaks(g, peer, RemoteIp, LocalIp)
  BY <1>3, FreshSpeaks
<1>6. Speaks(Started(g), peer, RemoteIp, LocalIp)
  BY <1>5, StartedSays DEF Speaks
<1>7. 0 \in 0 .. MaxLosses /\ 0 \in 0 .. MaxHasty
  BY PppLinkAssumption
<1> QED BY <1>1, <1>4, <1>6, <1>7 DEF LinkInv

(* An end that speaks alone, on a timeout. *)
LEMMA SteadySpeaks ==
  ASSUME NEW p, NEW q, NEW other, NEW want, NEW give, Speaks(p, other, want, give),
         Steady(p, q, Said(p.local_ip, want, other.local_ip, give), want)
  PROVE  Speaks(q, other, want, give) /\ q.local_ip = p.local_ip /\ q.opened = p.opened
BY DEF Speaks, Steady, Spoke

(* Every step of the link, whichever frames are lost and whichever timeouts
   come early, keeps both ends to what they may say. *)
LEMMA LinkStep == LinkInv /\ [LinkNext]_linkVars => LinkInv'
<1> SUFFICES ASSUME LinkInv, [LinkNext]_linkVars PROVE LinkInv'
  OBVIOUS
<1>0. LocalIp \in Nat /\ RemoteIp \in Nat /\ MaxLosses \in Nat /\ MaxHasty \in Nat
  BY PppConfigAssumption, PppLinkAssumption
<1>1. ASSUME NEW q, NEW h, peer' = q, guest' = h, Speaks(q, h, LocalIp, RemoteIp),
             Speaks(h, q, RemoteIp, LocalIp), losses' \in 0 .. MaxLosses,
             hasty' \in 0 .. MaxHasty
      PROVE  LinkInv'
  BY <1>1 DEF LinkInv
<1>2. Timeout => losses' \in 0 .. MaxLosses /\ hasty' \in 0 .. MaxHasty
  BY <1>0 DEF Timeout, LinkInv
<1>3. CASE HostHears
  <2> DEFINE p == IF peer.opened THEN peer ELSE Started(peer)
             m == Head(guest.tx)
             h == [guest EXCEPT !.tx = Tail(@)]
  <2>1. /\ guest.tx # << >> /\ peer' = frame_input(p, m) /\ guest' = h
        /\ losses' = losses /\ hasty' = hasty
    BY <1>3 DEF HostHears
  <2>2. Speaks(p, guest, LocalIp, RemoteIp) /\ p.local_ip = peer.local_ip
    <3>2. Speaks(Started(peer), guest, LocalIp, RemoteIp)
          /\ Started(peer).local_ip = peer.local_ip
      BY StartedSays DEF LinkInv, Speaks
    <3> QED BY <3>2 DEF LinkInv
  <2> HIDE DEF p
  <2>3. Speaks(guest, p, RemoteIp, LocalIp)
    BY <2>2 DEF LinkInv, Speaks
  <2>4. m \in Said(guest.local_ip, RemoteIp, p.local_ip, LocalIp)
    BY <2>1, <2>3, Unsaid
  <2>5. frame_input(p, m) = Hear(p, m, RemoteIp)
    <3> HIDE DEF m
    <3> QED BY <2>4, SameHearing DEF Said
  <2>6. Speaks(Hear(p, m, RemoteIp), h, LocalIp, RemoteIp)
        /\ Speaks(h, Hear(p, m, RemoteIp), RemoteIp, LocalIp)
    BY <1>0, <2>1, <2>2, <2>3, Crossing
  <2> HIDE DEF m, h
  <2> QED BY <1>1, <2>1, <2>5, <2>6 DEF LinkInv
<1>4. CASE GuestHears
  <2> DEFINE m == Head(peer.tx)
             h == [peer EXCEPT !.tx = Tail(@)]
  <2>1. /\ peer.tx # << >> /\ guest' = Pppd!frame_input(guest, m) /\ peer' = h
        /\ losses' = losses /\ hasty' = hasty
    BY <1>4 DEF GuestHears
  <2>2. Speaks(guest, peer, RemoteIp, LocalIp) /\ Speaks(peer, guest, LocalIp, RemoteIp)
    BY DEF LinkInv
  <2>3. m \in Said(peer.local_ip, LocalIp, guest.local_ip, RemoteIp)
    BY <2>1, <2>2, Unsaid
  <2>4. Pppd!frame_input(guest, m) = Hear(guest, m, LocalIp)
    <3> HIDE DEF m
    <3> QED BY <2>3, SameHearing DEF Said
  <2>5. Speaks(Hear(guest, m, LocalIp), h, RemoteIp, LocalIp)
        /\ Speaks(h, Hear(guest, m, LocalIp), LocalIp, RemoteIp)
    BY <1>0, <2>1, <2>2, Crossing
  <2> HIDE DEF m, h
  <2> QED BY <1>1, <2>1, <2>4, <2>5 DEF LinkInv
<1>5. CASE Lose
  <2>1. losses' \in 0 .. MaxLosses /\ hasty' \in 0 .. MaxHasty
    BY <1>0, <1>5 DEF Lose, LinkInv
  <2>2. CASE peer.tx # << >> /\ peer' = [peer EXCEPT !.tx = Tail(@)] /\ UNCHANGED guest
    <3> DEFINE h == [peer EXCEPT !.tx = Tail(@)]
    <3>1. Speaks(h, guest, LocalIp, RemoteIp) /\ h.local_ip = peer.local_ip
      BY <2>2, Unsaid DEF LinkInv
    <3>2. peer' = h /\ guest' = guest
      BY <2>2
    <3> HIDE DEF h
    <3>3. Speaks(guest, h, RemoteIp, LocalIp)
      BY <3>1 DEF Speaks, LinkInv
    <3> QED BY <1>1, <2>1, <3>1, <3>2, <3>3
  <2>3. CASE guest.tx # << >> /\ guest' = [guest EXCEPT !.tx = Tail(@)] /\ UNCHANGED peer
    <3> DEFINE h == [guest EXCEPT !.tx = Tail(@)]
    <3>1. Speaks(h, peer, RemoteIp, LocalIp) /\ h.local_ip = guest.local_ip
      BY <2>3, Unsaid DEF LinkInv
    <3>2. guest' = h /\ peer' = peer
      BY <2>3
    <3> HIDE DEF h
    <3>3. Speaks(peer, h, LocalIp, RemoteIp)
      BY <3>1 DEF Speaks, LinkInv
    <3> QED BY <1>1, <2>1, <3>1, <3>2, <3>3
  <2> QED BY <1>5, <2>2, <2>3 DEF Lose
<1>6. ASSUME NEW due \in SUBSET Protocols, HostTick(due) PROVE LinkInv'
  <2> DEFINE q == Ticked(peer, due)
  <2>1. peer' = q /\ guest' = guest /\ Timeout
    BY <1>6 DEF HostTick, ppp_tick
  <2>2. Steady(peer, q, Said(peer.local_ip, LocalIp, guest.local_ip, RemoteIp), LocalIp)
    BY TickedSays DEF LinkInv, Speaks
  <2> HIDE DEF q
  <2>3. Speaks(q, guest, LocalIp, RemoteIp) /\ q.local_ip = peer.local_ip
    BY <2>2, SteadySpeaks DEF LinkInv
  <2>4. Speaks(guest, q, RemoteIp, LocalIp)
    BY <2>3 DEF Speaks, LinkInv
  <2> QED BY <1>1, <1>2, <2>1, <2>3, <2>4
<1>7. ASSUME NEW proto \in Protocols, GuestTick(proto) PROVE LinkInv'
  <2> DEFINE S == Said(guest.local_ip, RemoteIp, peer.local_ip, LocalIp)
             g == restart_timeout(guest, proto)
             h == IF g.fsm[proto].state = "ACKRCVD" THEN Goto(g, proto, "REQSENT") ELSE g
  <2>1. guest' = h /\ peer' = peer /\ Timeout
    BY <1>7, SameHandlers, SameBasics DEF GuestTick
  <2>2. Speaker(guest, S, RemoteIp)
    BY DEF LinkInv, Speaks
  <2>3. Steady(guest, g, S, RemoteIp)
    BY <2>2, TimeoutSays
  <2> HIDE DEF g, S
  <2>4. Speaker(g, S, RemoteIp)
    BY <2>3 DEF Steady, Spoke
  <2>5. Steady(guest, h, S, RemoteIp)
    <3>1. CASE g.fsm[proto].state = "ACKRCVD"
      <4>1. Asks(g, proto)
        BY <2>4, <3>1, SpeakerParts
      <4>2. Steady(g, Goto(g, proto, "REQSENT"), S, RemoteIp)
        BY <2>4, <4>1, GotoSays DEF States
      <4> QED BY <2>3, <3>1, <4>2, SteadyThen
    <3>2. CASE g.fsm[proto].state # "ACKRCVD"
      BY <2>3, <3>2
    <3> QED BY <3>1, <3>2
  <2> HIDE DEF h
  <2>6. Speaks(h, peer, RemoteIp, LocalIp) /\ h.local_ip = guest.local_ip
    BY <2>5, SteadySpeaks DEF LinkInv, S
  <2>7. Speaks(peer, h, LocalIp, RemoteIp)
    BY <2>6 DEF Speaks, LinkInv
  <2> QED BY <1>1, <1>2, <2>1, <2>6, <2>7
<1>8. CASE UNCHANGED linkVars
  BY <1>8 DEF linkVars, LinkInv
<1> QED BY <1>3, <1>4, <1>5, <1>6, <1>7, <1>8 DEF LinkNext

(* Whatever the line loses and however early the timers fire, neither end of
   the link says more than Said allows: in particular a Configure-Ack of
   IPCP is sent only once the other holds the address it was given (ev_rcr,
   ipcp_review), and IPCP is acknowledged or Opened only on it (ev_rca).    *)
THEOREM LinkInvariance == LinkSpec => []LinkInv
BY LinkInitial, LinkStep, PTL DEF LinkSpec

(* An end that speaks is well formed. *)
LEMMA SpeaksTyped ==
  ASSUME NEW p, NEW other, NEW want, NEW give, Speaks(p, other, want, give)
  PROVE  PeerOK(p)
BY SpeakerParts DEF Speaks

(* Both ends keep their types, rings and limits on the link (tx_frame, irc),
   and the loss and haste budgets are kept.                                *)
THEOREM LinkTypeCorrect == LinkSpec => []LinkTypeOK
<1>1. LinkInv => LinkTypeOK
  <2> SUFFICES ASSUME LinkInv PROVE LinkTypeOK
    OBVIOUS
  <2>1. PeerOK(peer) /\ PeerOK(guest)
    BY SpeaksTyped DEF LinkInv
  <2>2. TypeOK
    BY <2>1 DEF PeerOK, TypeOK
  <2>3. Pppd!TypeOK
    BY <2>1 DEF PeerOK, Pppd!TypeOK, Pppd!Peer, Peer, Pppd!Protocols, Protocols, Pppd!Limit, Limit,
                Pppd!Fsm, Fsm, Pppd!Frame, Frame, Pppd!States, States, Pppd!Ids, Ids,
                Pppd!Types, Types, Pppd!Codes, Codes, Pppd!Option, Option
  <2> QED BY <2>2, <2>3 DEF LinkTypeOK, LinkInv
<1> QED BY <1>1, LinkInvariance, PTL

(* Once the peer reports an address and pppd is up, pppd is up on the address
   the peer assigned, for every address pppd proposes first, every loss and
   every retransmission (ipcp_review's Nak, apply_nak, ev_rca, tlu).        *)
THEOREM AddressesAgree == LinkSpec => []AddressAgreed
<1>1. LinkInv => AddressAgreed
  BY DEF LinkInv, Speaks, Speaker, AddressAgreed
<1> QED BY <1>1, LinkInvariance, PTL

(* What is heard keeps timers and states together, and the layers. *)
LEMMA HearStepped ==
  ASSUME NEW p, Good(p), NEW his, NEW want, NEW give \in Nat,
         NEW m \in Said(his, give, p.local_ip, want)
  PROVE  Stepped(p, Hear(p, m, give))
<1> DEFINE proto == m.proto
           q == Hear(p, m, give)
           mine == m.id = p.fsm[proto].last_req_id
<1>1. /\ m \in Frame /\ proto \in Protocols /\ m.opts \in SUBSET Option /\ m.id \in Ids
      /\ m.code \in {"CONF_REQ", "CONF_ACK", "CONF_NAK", "CONF_REJ", "TERM_REQ", "TERM_ACK"}
  BY DEF Said, Frame
<1>2. PeerOK(p)
  BY DEF Good
<1>3. CASE m.code = "CONF_REQ"
  <2> DEFINE r == Judgement(p, m.proto, m.opts, give)
  <2>1. q = Rcr(p, m.proto, m.id, m.opts, r)
    BY <1>3 DEF Hear
  <2>2. Control(m.proto, r.code, m.id, r.opts) \in Said(p.local_ip, want, his, give)
    BY <1>2, <1>3, JudgementSays
  <2> HIDE DEF r
  <2>3. r.code \in Codes /\ r.opts \in SUBSET Option
    BY <2>2 DEF Said, Control, Frame
  <2> QED BY <1>1, <2>1, <2>3, RcrStepped
<1>4. CASE m.code = "CONF_ACK"
  BY <1>1, <1>4, RcaStepped DEF Hear
<1>5. CASE m.code = "CONF_NAK"
  <2> DEFINE r == IF mine THEN apply_nak(p, proto, m.opts) ELSE p
  <2>1. q = ev_rcn(r, proto, m.id)
    BY <1>5 DEF Hear
  <2>2. Stepped(p, apply_nak(p, proto, m.opts))
    BY <1>1, <1>2, NakMoves, Still
  <2>3. Stepped(p, r)
    BY <2>2, Same
  <2> HIDE DEF r, q
  <2>4. Stepped(r, ev_rcn(r, proto, m.id))
    BY <1>1, <2>3, RcnStepped DEF Stepped
  <2> QED BY <2>1, <2>3, <2>4, Then DEF q
<1>6. CASE m.code = "CONF_REJ"
  <2> DEFINE r == IF mine THEN apply_rej(p, proto, m.opts) ELSE p
  <2>1. q = ev_rcn(r, proto, m.id)
    BY <1>6 DEF Hear
  <2>2. Stepped(p, apply_rej(p, proto, m.opts))
    BY <1>1, <1>2, RejMoves, Still
  <2>3. Stepped(p, r)
    BY <2>2, Same
  <2> HIDE DEF r, q
  <2>4. Stepped(r, ev_rcn(r, proto, m.id))
    BY <1>1, <2>3, RcnStepped DEF Stepped
  <2> QED BY <2>1, <2>3, <2>4, Then DEF q
<1>7. CASE m.code = "TERM_REQ"
  BY <1>1, <1>7, RtrStepped DEF Hear
<1>8. CASE m.code = "TERM_ACK"
  BY <1>1, <1>8, RtaStepped DEF Hear
<1> QED BY <1>1, <1>3, <1>4, <1>5, <1>6, <1>7, <1>8

(* A frame that leaves the ring changes no automaton. *)
LEMMA TailStepped ==
  ASSUME NEW p, Good(p), p.tx # << >>
  PROVE  /\ Stepped(p, [p EXCEPT !.tx = Tail(@)])
         /\ [p EXCEPT !.tx = Tail(@)].fsm = p.fsm
         /\ [p EXCEPT !.tx = Tail(@)].opened = p.opened
<1> DEFINE tx == Tail(p.tx)
<1>1. p.tx \in Seq(Frame) /\ Len(p.tx) <= TX_FRAMES
  BY DEF Good, PeerOK, Peer
<1>2. tx \in Seq(Frame) /\ Len(tx) = Len(p.tx) - 1 /\ Len(p.tx) \in Nat
  BY <1>1, HeadTailProperties, LenProperties
<1>3. Len(tx) <= TX_FRAMES
  BY <1>1, <1>2, PppSizesAssumption
<1>4. [p EXCEPT !.tx = Tail(@)] = [p EXCEPT !.tx = tx]
  OBVIOUS
<1> HIDE DEF tx
<1>5. Stepped(p, [p EXCEPT !.tx = tx])
  BY <1>2, <1>3, RingStepped
<1>6. [p EXCEPT !.tx = tx].fsm = p.fsm /\ [p EXCEPT !.tx = tx].opened = p.opened
  BY DEF Good, PeerOK, Peer
<1> QED BY <1>4, <1>5, <1>6

(* An end that has not begun is good. *)
LEMMA FreshGood ==
  ASSUME NEW p, NEW ip, Fresh(p, ip)
  PROVE  Good(p) /\ Linked(p) /\ p.fsm["LCP"].state = "INITIAL"
<1>1. NewFsm.restarts = 0 /\ NewFsm.failures = 0 /\ NewFsm.state = "INITIAL"
      /\ NewFsm.timer = FALSE
  BY DEF NewFsm
<1>2. 0 <= Limit /\ 0 <= PPP_MAX_FAILURE /\ 0 <= TX_FRAMES
  BY Limits, PppSizesAssumption
<1>3. PeerOK(p)
  BY <1>1, <1>2 DEF PeerOK, Fresh
<1> QED BY <1>1, <1>3 DEF Fresh, Good, Linked, Waits, Protocols

(* Neither end waits without a timer, nor has an address without a link; the
   host's LCP has not begun before it is opened. *)
LinkGood ==
  /\ Good(peer) /\ Linked(peer)
  /\ Good(guest) /\ Linked(guest)
  /\ peer.opened \/ peer.fsm["LCP"].state = "INITIAL"

(* So is pppd once started. *)
LEMMA LinkInitialGood == LinkInit => LinkGood
<1> SUFFICES ASSUME LinkInit PROVE LinkGood
  OBVIOUS
<1> DEFINE g == Pppd!ppp_init
<1>1. peer = ppp_init /\ guest = Started(g)
  BY SameOpening DEF LinkInit
<1>2. Fresh(peer, LocalIp)
  BY <1>1, HostFresh
<1>3. Fresh(g, GuestIp)
  BY GuestFresh
<1> HIDE DEF g
<1>4. Good(guest) /\ Linked(guest)
  BY <1>1, <1>3, FreshGood, StartedGood DEF Stepped
<1> QED BY <1>2, <1>4, FreshGood DEF LinkGood

(* Every handler's step, on the link: frame_input, ppp_open by the first
   octet, ppp_tick and pppd's own timeout. *)
LEMMA LinkStepGood == LinkInv /\ LinkGood /\ [LinkNext]_linkVars => LinkGood'
<1> SUFFICES ASSUME LinkInv, LinkGood, [LinkNext]_linkVars PROVE LinkGood'
  OBVIOUS
<1>0. LocalIp \in Nat /\ RemoteIp \in Nat
  BY PppConfigAssumption
<1>1. ASSUME NEW q, NEW h, peer' = q, guest' = h, Stepped(peer, q), Stepped(guest, h),
             q.opened \/ q.fsm["LCP"].state = "INITIAL"
      PROVE  LinkGood'
  BY <1>1 DEF LinkGood, Stepped
<1>2. Stepped(peer, peer) /\ Stepped(guest, guest)
  BY Same DEF LinkGood
<1>3. CASE HostHears
  <2> DEFINE p == IF peer.opened THEN peer ELSE Started(peer)
             m == Head(guest.tx)
             h == [guest EXCEPT !.tx = Tail(@)]
             q == Hear(p, m, RemoteIp)
  <2>1. guest.tx # << >> /\ peer' = frame_input(p, m) /\ guest' = h
    BY <1>3 DEF HostHears
  <2>2. Stepped(peer, p) /\ p.opened = TRUE
        /\ Speaks(p, guest, LocalIp, RemoteIp) /\ p.local_ip = peer.local_ip
    <3>1. CASE peer.opened
      <4>1. peer.opened \in BOOLEAN
        BY DEF LinkGood, Good, PeerOK, Peer
      <4> QED BY <1>2, <3>1, <4>1 DEF LinkInv
    <3>2. CASE ~peer.opened
      <4>1. Stepped(peer, Started(peer))
        BY <3>2, StartedGood DEF LinkGood
      <4>2. Speaks(Started(peer), guest, LocalIp, RemoteIp)
            /\ Started(peer).local_ip = peer.local_ip /\ Started(peer).opened = TRUE
        BY StartedSays DEF LinkInv, Speaks
      <4> QED BY <3>2, <4>1, <4>2
    <3> QED BY <3>1, <3>2
  <2> HIDE DEF p
  <2>3. Speaks(guest, p, RemoteIp, LocalIp)
    BY <2>2 DEF LinkInv, Speaks
  <2>4. m \in Said(guest.local_ip, RemoteIp, p.local_ip, LocalIp)
    BY <2>1, <2>3, Unsaid
  <2>5. Stepped(guest, h)
    BY <2>1, TailStepped DEF LinkGood
  <2> HIDE DEF m, h
  <2>6. frame_input(p, m) = q
    BY <2>4, SameHearing DEF Said
  <2>7. Stepped(p, q)
    BY <1>0, <2>2, <2>4, HearStepped DEF Stepped
  <2>8. q.opened = TRUE
    BY <1>0, <2>2, <2>4, HearSays
  <2> HIDE DEF q
  <2>9. Stepped(peer, q)
    BY <2>2, <2>7, Then
  <2> QED BY <1>1, <2>1, <2>5, <2>6, <2>8, <2>9
<1>4. CASE GuestHears
  <2> DEFINE m == Head(peer.tx)
             h == [peer EXCEPT !.tx = Tail(@)]
             q == Hear(guest, m, LocalIp)
  <2>1. peer.tx # << >> /\ guest' = Pppd!frame_input(guest, m) /\ peer' = h
    BY <1>4 DEF GuestHears
  <2>2. m \in Said(peer.local_ip, LocalIp, guest.local_ip, RemoteIp)
    BY <2>1, Unsaid DEF LinkInv
  <2>3. Stepped(peer, h) /\ (h.opened \/ h.fsm["LCP"].state = "INITIAL")
    BY <2>1, TailStepped DEF LinkGood
  <2> HIDE DEF m, h
  <2>4. Pppd!frame_input(guest, m) = q
    BY <2>2, SameHearing DEF Said
  <2>5. Stepped(guest, q)
    BY <1>0, <2>2, HearStepped DEF LinkGood
  <2> HIDE DEF q
  <2> QED BY <1>1, <2>1, <2>3, <2>4, <2>5
<1>5. CASE Lose
  <2>1. CASE peer.tx # << >> /\ peer' = [peer EXCEPT !.tx = Tail(@)] /\ UNCHANGED guest
    <3> DEFINE h == [peer EXCEPT !.tx = Tail(@)]
    <3>1. Stepped(peer, h) /\ (h.opened \/ h.fsm["LCP"].state = "INITIAL")
      BY <2>1, TailStepped DEF LinkGood
    <3>2. peer' = h /\ guest' = guest
      BY <2>1
    <3> HIDE DEF h
    <3> QED BY <1>1, <1>2, <3>1, <3>2
  <2>2. CASE guest.tx # << >> /\ guest' = [guest EXCEPT !.tx = Tail(@)] /\ UNCHANGED peer
    <3> DEFINE h == [guest EXCEPT !.tx = Tail(@)]
    <3>1. Stepped(guest, h)
      BY <2>2, TailStepped DEF LinkGood
    <3>2. guest' = h /\ peer' = peer
      BY <2>2
    <3> HIDE DEF h
    <3> QED BY <1>1, <1>2, <3>1, <3>2 DEF LinkGood
  <2> QED BY <1>5, <2>1, <2>2 DEF Lose
<1>6. ASSUME NEW due \in SUBSET Protocols, HostTick(due) PROVE LinkGood'
  <2> DEFINE q == Ticked(peer, due)
  <2>1. peer' = q /\ guest' = guest /\ peer.opened /\ \A x \in due : peer.fsm[x].timer
    BY <1>6 DEF HostTick, ppp_tick
  <2>2. Stepped(peer, q)
    BY <2>1, TickedStepped DEF LinkGood
  <2>3. Steady(peer, q, Said(peer.local_ip, LocalIp, guest.local_ip, RemoteIp), LocalIp)
    BY TickedSays DEF LinkInv, Speaks
  <2> HIDE DEF q
  <2>4. q.opened
    BY <2>1, <2>3 DEF Steady, Spoke
  <2> QED BY <1>1, <1>2, <2>1, <2>2, <2>4
<1>7. ASSUME NEW proto \in Protocols, GuestTick(proto) PROVE LinkGood'
  <2> DEFINE g == restart_timeout(guest, proto)
             h == IF g.fsm[proto].state = "ACKRCVD" THEN Goto(g, proto, "REQSENT") ELSE g
  <2>1. guest' = h /\ peer' = peer /\ guest.fsm[proto].timer
    BY <1>7, SameHandlers, SameBasics DEF GuestTick
  <2>2. Stepped(guest, g)
    BY <2>1, TimeoutStepped DEF LinkGood
  <2> HIDE DEF g
  <2>3. Good(g) /\ PeerOK(g)
    BY <2>2 DEF Stepped, Good
  <2>4. Stepped(g, h)
    <3>1. CASE g.fsm[proto].state = "ACKRCVD"
      <4>1. Moved(g, Goto(g, proto, "REQSENT"), proto, "REQSENT", g.fsm[proto].timer)
        BY <2>3, GotoMoves DEF States
      <4>2. g.fsm[proto].timer = TRUE
        BY <2>3, <3>1, Typing DEF Good, Waits
      <4>3. Moved(g, Goto(g, proto, "REQSENT"), proto, "REQSENT", TRUE)
        BY <4>1, <4>2
      <4>4. TRUE <=> Waits("REQSENT")
        BY DEF Waits
      <4>5. Stepped(g, Goto(g, proto, "REQSENT"))
        BY <2>3, <3>1, <4>3, <4>4, Sideways
      <4> QED BY <3>1, <4>5
    <3>2. CASE g.fsm[proto].state # "ACKRCVD"
      BY <2>3, <3>2, Same
    <3> QED BY <3>1, <3>2
  <2> HIDE DEF h
  <2>5. Stepped(guest, h)
    BY <2>2, <2>4, Then
  <2> QED BY <1>1, <1>2, <2>1, <2>5 DEF LinkGood
<1>8. CASE UNCHANGED linkVars
  BY <1>8 DEF linkVars, LinkGood
<1> QED BY <1>3, <1>4, <1>5, <1>6, <1>7, <1>8 DEF LinkNext

(* Neither end's automata or counters leave Good or Linked on the link: what
   Linked asks of the peer of Ppp (IPCP is never rejected, ppp_open is not
   repeated) is a fact about the link, by LinkInvariance.                   *)
THEOREM LinkStaysGood == LinkSpec => []LinkGood
<1>1. LinkInit => LinkInv /\ LinkGood
  BY LinkInitial, LinkInitialGood
<1>2. (LinkInv /\ LinkGood) /\ [LinkNext]_linkVars => (LinkInv /\ LinkGood)'
  BY LinkStep, LinkStepGood
<1> QED BY <1>1, <1>2, PTL DEF LinkSpec

(* On the link, neither end waits for the other without a running timer, so
   a lost frame is always repeated (restart_timeout, ev_rca, tld).          *)
THEOREM LinkTimersRun == LinkSpec => [](TimerRuns /\ Pppd!TimerRuns)
<1>1. LinkGood => TimerRuns /\ Pppd!TimerRuns
  BY DEF LinkGood, Good, TimerRuns, Pppd!TimerRuns, Pppd!Protocols, Protocols,
         Pppd!Waits, Waits
<1> QED BY <1>1, LinkStaysGood, PTL

(* On the link IPCP is beyond Initial only while LCP is Opened, and the
   guest has an address exactly while IPCP is Opened, at both ends (tlu,
   tld): no assumption on the guest's frames is left.                      *)
THEOREM LinkLayersTogether ==
  LinkSpec => []/\ NetworkAfterLink /\ Pppd!NetworkAfterLink
               /\ AssignedWhileOpen /\ Pppd!AssignedWhileOpen
<1>1. LinkGood => /\ NetworkAfterLink /\ Pppd!NetworkAfterLink
                  /\ AssignedWhileOpen /\ Pppd!AssignedWhileOpen
  BY DEF LinkGood, Linked, NetworkAfterLink, Pppd!NetworkAfterLink,
         AssignedWhileOpen, Pppd!AssignedWhileOpen
<1> QED BY <1>1, LinkStaysGood, PTL
=============================================================================
