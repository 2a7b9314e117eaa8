-------------------------- MODULE RawBridgeProofs --------------------------
(***************************************************************************)
(* What holds of the memory disk's bridges for any number of stacks, of uio *)
(* structures and of slots, and for every medium: who owns a slot, that a   *)
(* transfer comes to its end, and that they implement RawDisk.  The         *)
(* inductive invariant says what is the case while the machine runs: Slot   *)
(* of every slot, Thread of every stack, Place of every uio, and Doing of   *)
(* the transfer with the backend, during which the guest waits.             *)
(***************************************************************************)
EXTENDS RawBridge, TLAPS

Rw == {"read", "write"}

Transfer == [length : Nat, done : Nat, stuck : Nat, result : Results]

Direct_Io     == [for : {"direct"}, uio : Uios, t : Transfer]
Redirect_Io   == [for : {"redirect"}, key : Keys, slot : Slots, t : Transfer]
Completion_Io == [for : {"completion"}, key : Keys, slot : Slots, done : 0 .. Max,
                  t : Transfer]
Page_Io       == [for : {"page"}, rw : Rw, block : 0 .. MEDIA - 1, t : Transfer]

Ios == {NoIo} \cup Direct_Io \cup Redirect_Io \cup Completion_Io \cup Page_Io

Uio == [offset : Nat, resid : Nat, at : Nat, rw : Rw, segment : {"user", "physical"}]

Moving == [at : {"uiomove"}, uio : Uios, slot : Slots, moved : 0 .. Max]

Typed ==
  /\ DOMAIN media = 0 .. MEDIA - 1
  /\ DOMAIN guard_tail = Units
  /\ pending \in [Slots -> Pending \cup {Free}]
  /\ DOMAIN bounce = Slots /\ \A s \in Slots : DOMAIN bounce[s] = Units
  /\ io \in Ios
  /\ uio \in [Uios -> Uio]
  /\ DOMAIN user = Uios /\ \A u \in Uios : DOMAIN user[u] = Units
  /\ thread \in [Keys -> {Idle} \cup Moving]
  /\ page.by \in {"guest", "device"}
  /\ prepared \in 0 .. MAX_REQUESTS
  /\ halted \in BOOLEAN

(* A transfer's turn is of units that are left, after fewer than the limit of
   turns without one.                                                       *)
Turning(t) ==
  /\ t.done <= t.length
  /\ t.stuck <= VM_BLOCK_NO_PROGRESS_LIMIT
  /\ t.result = "going" => t.stuck < VM_BLOCK_NO_PROGRESS_LIMIT

(* A slot that is taken is of a range in the aperture, and of no other stack
   and no other uio.                                                        *)
Slot(s) ==
  pending[s] # Free =>
    /\ pending[s].offset + pending[s].residual <= End
    /\ pending[s].segment = "user"
    /\ \A r \in Slots \ {s} : pending[r] # Free =>
         pending[r].key # pending[s].key /\ pending[r].uio # pending[s].uio
    /\ \/ io.for = "redirect" /\ io.slot = s
       \/ /\ thread[pending[s].key].at = "uiomove"
          /\ thread[pending[s].key].slot = s

(* A thread in uiomove is at its slot, and has moved what the uio has left.  *)
Thread(k) ==
  thread[k].at = "uiomove" =>
    LET u == thread[k].uio
        p == pending[thread[k].slot] IN
    /\ p # Free /\ p.key = k /\ p.uio = u
    /\ p.rw = uio[u].rw
    /\ thread[k].moved + uio[u].resid = p.residual
    /\ p.offset + thread[k].moved = uio[u].offset

(* A uio that has gone on is in its memory; one that says "physical" is on its
   way, and its completion has not begun.                                   *)
Place(u) ==
  /\ uio[u].at > 0 => uio[u].at + uio[u].resid <= Max
  /\ uio[u].segment = "physical" =>
       \E k \in Keys : /\ thread[k].at = "uiomove" /\ thread[k].uio = u
                       /\ ~(io.for = "completion" /\ io.key = k)

(* What the bridge is doing is what the guest asked for, which waits.       *)
Doing ==
  /\ io # NoIo => Turning(io.t)
  /\ io.for = "direct" =>
       LET u == io.uio IN
       /\ uio[u].resid <= Max /\ uio[u].offset + uio[u].resid <= End
       /\ \A s \in Slots : pending[s] # Free => pending[s].uio # u
       /\ io.t.length <= media_prefix_length(uio[u].offset, uio[u].resid)
  /\ io.for = "redirect" =>
       LET p == pending[io.slot] IN
       /\ p # Free /\ p.key = io.key
       /\ thread[io.key].at # "uiomove"
       /\ uio[p.uio].offset = p.offset /\ uio[p.uio].resid = p.residual
       /\ uio[p.uio].rw = p.rw
       /\ \A i \in 0 .. p.residual - 1 : bounce[io.slot][i] = 0
  /\ io.for = "completion" =>
       LET p == pending[io.slot] IN
       /\ p # Free /\ p.key = io.key
       /\ thread[io.key].at = "uiomove" /\ thread[io.key].slot = io.slot
       /\ io.done = thread[io.key].moved
       /\ io.t.length <= IF p.rw = "write" THEN media_prefix_length(p.offset, io.done)
                         ELSE 0
  /\ io.for = "page" /\ io.rw = "write" => page.by = "guest"

(* The inductive invariant.                                                 *)
Running ==
  /\ \A s \in Slots : Slot(s)
  /\ \A k \in Keys : Thread(k)
  /\ \A u \in Uios : Place(u)
  /\ Doing

IInv ==
  /\ Typed
  /\ halted => io = NoIo
  /\ ~halted => Running

---------------------------------------------------------------------------
(* A transfer with the backend.                                             *)

(* One unit more is more than all the turns a limit allows.                 *)
LEMMA LessByARow ==
  ASSUME NEW a \in Nat, NEW b \in Nat, NEW l \in Nat, b < a
  PROVE  a * l >= b * l + l
<1>1. PICK d \in Nat : a = b + 1 + d
  <2>1. a - b - 1 \in Nat /\ a = b + 1 + (a - b - 1)
    OBVIOUS
  <2> QED BY <2>1
<1>2. a * l = b * l + l + d * l
  BY <1>1
<1>3. d * l \in Nat /\ b * l \in Nat
  OBVIOUS
<1> QED BY <1>2, <1>3

(* What an answer makes of a transfer: it stays one, of the same length, and
   what was moved is not more than that.                                    *)
LEMMA AnsweredTurns ==
  ASSUME VmBlockAssumption, NEW t \in Transfer, Turning(t), t.result = "going",
         NEW a \in Answers(t)
  PROVE  /\ Answered(t, a) \in Transfer
         /\ Answered(t, a).length = t.length
         /\ Turning(Answered(t, a))
         /\ Answered(t, a).result = "going" => Left(Answered(t, a)) < Left(t)
<1> DEFINE L == VM_BLOCK_NO_PROGRESS_LIMIT
<1>1. /\ t.length \in Nat /\ t.done \in Nat /\ t.stuck \in Nat
      /\ t.done <= t.length /\ t.stuck < L /\ L \in Nat
  BY DEF Transfer, Turning, VmBlockAssumption
<1>2. Requested(t) <= t.length - t.done /\ Requested(t) \in Nat
  BY <1>1 DEF Requested, VmBlockAssumption
<1>3. a.actual \in 0 .. Requested(t) + 1
  BY DEF Answers
<1>4. ASSUME NEW r \in Results \ {"going"}
      PROVE  LET x == [t EXCEPT !.result = r] IN
             /\ x \in Transfer /\ x.length = t.length /\ Turning(x)
             /\ x.result # "going"
  BY <1>1 DEF Transfer, Turning, Results
<1>5. CASE Untrue(t, a)
  BY <1>4, <1>5 DEF Answered, Results
<1>6. CASE ~Untrue(t, a) /\ a.status = "ERROR"
  BY <1>4, <1>6 DEF Answered, Results
<1>7. CASE ~Untrue(t, a) /\ a.status # "ERROR" /\ a.actual # 0
  <2> DEFINE n == a.actual
             x == Moved(t, n)
  <2>1. n \in Nat /\ n >= 1 /\ t.done + n <= t.length
    BY <1>1, <1>2, <1>3, <1>7 DEF Untrue
  <2>2. Answered(t, a) = x
    BY <1>7 DEF Answered
  <2>3. /\ x \in Transfer /\ x.length = t.length
        /\ x.done = t.done + n /\ x.stuck = 0
    <3> DEFINE r == IF t.done + n = t.length THEN "OK" ELSE "going"
    <3>1. r \in Results
      BY DEF Results
    <3>2. x = [t EXCEPT !.done = t.done + n, !.stuck = 0, !.result = r]
      BY DEF Moved
    <3> HIDE DEF r, x
    <3>3. x = [length |-> t.length, done |-> t.done + n, stuck |-> 0, result |-> r]
      BY <3>2 DEF Transfer
    <3> QED BY <1>1, <2>1, <3>1, <3>3 DEF Transfer
  <2>4. Turning(x)
    BY <1>1, <2>1, <2>3 DEF Turning, VmBlockAssumption
  <2>5. Left(x) < Left(t)
    <3> DEFINE l == t.length - t.done
               r == x.length - x.done
    <3>1. l \in Nat /\ r \in Nat /\ r < l
      BY <1>1, <2>1, <2>3
    <3> HIDE DEF l, r, x
    <3>2. l * L >= r * L + L
      BY <1>1, <3>1, LessByARow
    <3>3. l * L \in Nat /\ r * L \in Nat
      BY <1>1, <3>1
    <3>4. Left(x) = r * L + L - 0 /\ Left(t) = l * L + L - t.stuck
      BY <2>3 DEF Left, l, r
    <3> DEFINE lL == l * L
               rL == r * L
    <3> HIDE DEF lL, rL
    <3>5. lL \in Nat /\ rL \in Nat /\ lL >= rL + L
          /\ Left(x) = rL + L - 0 /\ Left(t) = lL + L - t.stuck
      BY <3>2, <3>3, <3>4 DEF lL, rL
    <3> QED BY <1>1, <3>5
  <2> QED BY <2>2, <2>3, <2>4, <2>5
<1>8. CASE ~Untrue(t, a) /\ a.status # "ERROR" /\ a.actual = 0
  <2> DEFINE x == Waited(t)
  <2>1. Answered(t, a) = x
    BY <1>8 DEF Answered
  <2>2. /\ x \in Transfer /\ x.length = t.length /\ x.done = t.done
        /\ x.stuck = t.stuck + 1
        /\ x.result = IF t.stuck + 1 >= L THEN "STALLED" ELSE "going"
    <3> DEFINE r == IF t.stuck + 1 >= L THEN "STALLED" ELSE "going"
    <3>1. r \in Results
      BY DEF Results
    <3>2. x = [t EXCEPT !.stuck = t.stuck + 1, !.result = r]
      BY DEF Waited
    <3> HIDE DEF x
    <3> HIDE DEF r
    <3>3. x = [length |-> t.length, done |-> t.done, stuck |-> t.stuck + 1, result |-> r]
      BY <3>2 DEF Transfer
    <3>4. /\ x \in Transfer /\ x.length = t.length /\ x.done = t.done
          /\ x.stuck = t.stuck + 1 /\ x.result = r
      BY <1>1, <3>1, <3>3 DEF Transfer
    <3> QED BY <3>4 DEF r
  <2>3. Turning(x)
    BY <1>1, <2>2 DEF Turning
  <2> HIDE DEF x
  <2> DEFINE p == (t.length - t.done) * L
  <2>4. p \in Nat
    <3>1. t.length - t.done \in Nat
      BY <1>1
    <3> QED BY <1>1, <3>1
  <2>5. Left(x) = p + L - (t.stuck + 1) /\ Left(t) = p + L - t.stuck
    BY <2>2 DEF Left
  <2> HIDE DEF p
  <2>6. Left(x) < Left(t)
    BY <1>1, <2>4, <2>5
  <2> QED BY <2>1, <2>2, <2>3, <2>6
<1> QED BY <1>5, <1>6, <1>7, <1>8

LEMMA CancelTurns ==
  ASSUME NEW t \in Transfer, Turning(t)
  PROVE  /\ Cancel(t) \in Transfer /\ Cancel(t).length = t.length
         /\ Turning(Cancel(t)) /\ Cancel(t).result # "going"
BY DEF Cancel, Transfer, Turning, Results

LEMMA BegunTurns ==
  ASSUME VmBlockAssumption, NEW n \in Nat
  PROVE  Begun(n) \in Transfer /\ Begun(n).length = n /\ Turning(Begun(n))
BY DEF Begun, Transfer, Turning, Results, VmBlockAssumption

---------------------------------------------------------------------------
(* The records.                                                             *)

LEMMA Bounds ==
  ASSUME RawBridgeAssumption
  PROVE  /\ MEDIA \in Nat /\ MEDIA > 0 /\ Max \in Nat /\ Max > 0 /\ End \in Nat
         /\ SLOTS \in Nat /\ MAX_REQUESTS \in Nat
         /\ End = MEDIA + Max /\ Units = 0 .. Max - 1
BY DEF RawBridgeAssumption, Max, End, Units

LEMMA TakenSlot ==
  ASSUME NEW p \in Pending \cup {Free}, p # Free
  PROVE  /\ p \in Pending
         /\ p.key \in Keys /\ p.uio \in Uios /\ p.segment \in {"user", "physical"}
         /\ p.rw \in Rw /\ p.residual \in 1 .. Max /\ p.offset \in 0 .. End
BY DEF Pending, Rw

LEMMA MovingThread ==
  ASSUME NEW t \in {Idle} \cup Moving, t.at = "uiomove"
  PROVE  t \in Moving /\ t.uio \in Uios /\ t.slot \in Slots /\ t.moved \in 0 .. Max
BY DEF Idle, Moving

LEMMA UioFields ==
  ASSUME NEW x \in Uio
  PROVE  /\ x.offset \in Nat /\ x.resid \in Nat /\ x.at \in Nat /\ x.rw \in Rw
         /\ x.segment \in {"user", "physical"}
BY DEF Uio

LEMMA NoIoIsNone == NoIo.for = "none"
BY DEF NoIo

LEMMA IoFields ==
  ASSUME NEW x \in Ios
  PROVE  /\ x = NoIo <=> x.for = "none"
         /\ x # NoIo => /\ x.t \in Transfer
                        /\ x.for \in {"direct", "redirect", "completion", "page"}
         /\ x.for = "direct" => x \in Direct_Io /\ x.uio \in Uios
         /\ x.for = "redirect" => x \in Redirect_Io /\ x.key \in Keys /\ x.slot \in Slots
         /\ x.for = "completion" => /\ x \in Completion_Io
                                    /\ x.key \in Keys /\ x.slot \in Slots
                                    /\ x.done \in 0 .. Max
         /\ x.for = "page" => x \in Page_Io /\ x.rw \in Rw /\ x.block \in 0 .. MEDIA - 1
<1>1. CASE x = NoIo
  BY <1>1, NoIoIsNone
<1>2. CASE x \in Direct_Io
  BY <1>2, NoIoIsNone DEF Direct_Io
<1>3. CASE x \in Redirect_Io
  BY <1>3, NoIoIsNone DEF Redirect_Io
<1>4. CASE x \in Completion_Io
  BY <1>4, NoIoIsNone DEF Completion_Io
<1>5. CASE x \in Page_Io
  BY <1>5, NoIoIsNone DEF Page_Io
<1> QED BY <1>1, <1>2, <1>3, <1>4, <1>5 DEF Ios

(* A turn of a transfer is for what it was for.                             *)
LEMMA TurnedIo ==
  ASSUME NEW x \in Ios, x # NoIo, NEW y \in Transfer, NEW z, z = [x EXCEPT !.t = y]
  PROVE  /\ z \in Ios /\ z.for = x.for /\ z.t = y
         /\ x.for = "direct" => z.uio = x.uio
         /\ x.for = "redirect" => z.key = x.key /\ z.slot = x.slot
         /\ x.for = "completion" => z.key = x.key /\ z.slot = x.slot /\ z.done = x.done
         /\ x.for = "page" => z.rw = x.rw /\ z.block = x.block
<1>1. CASE x \in Direct_Io
  <2>1. z \in Direct_Io /\ z.for = "direct" /\ x.for = "direct" /\ z.t = y /\ z.uio = x.uio
    BY <1>1 DEF Direct_Io
  <2> QED BY <2>1 DEF Ios
<1>2. CASE x \in Redirect_Io
  <2>1. z \in Redirect_Io /\ z.for = "redirect" /\ x.for = "redirect" /\ z.t = y
        /\ z.key = x.key /\ z.slot = x.slot
    BY <1>2 DEF Redirect_Io
  <2> QED BY <2>1 DEF Ios
<1>3. CASE x \in Completion_Io
  <2>1. z \in Completion_Io /\ z.for = "completion" /\ x.for = "completion" /\ z.t = y
        /\ z.key = x.key /\ z.slot = x.slot /\ z.done = x.done
    BY <1>3 DEF Completion_Io
  <2> QED BY <2>1 DEF Ios
<1>4. CASE x \in Page_Io
  <2>1. z \in Page_Io /\ z.for = "page" /\ x.for = "page" /\ z.t = y
        /\ z.rw = x.rw /\ z.block = x.block
    BY <1>4 DEF Page_Io
  <2> QED BY <2>1 DEF Ios
<1> QED BY <1>1, <1>2, <1>3, <1>4 DEF Ios

LEMMA PrefixFits ==
  ASSUME RawBridgeAssumption, NEW o \in Nat, NEW n \in Nat
  PROVE  /\ media_prefix_length(o, n) \in 0 .. n
         /\ o + media_prefix_length(o, n) <= MEDIA \/ media_prefix_length(o, n) = 0
BY Bounds DEF media_prefix_length

---------------------------------------------------------------------------
(* The actions of the guest.                                                *)

(* While nothing is done for the guest, every slot that is taken is of a
   thread in uiomove, and the other way round.                              *)
LEMMA SlotIsThreads ==
  ASSUME IInv, ~halted, NEW s \in Slots, pending[s] # Free,
         ~(io.for = "redirect" /\ io.slot = s)
  PROVE  /\ pending[s].key \in Keys
         /\ thread[pending[s].key].at = "uiomove"
         /\ thread[pending[s].key].slot = s
         /\ thread[pending[s].key].uio = pending[s].uio
<1>1. pending[s].key \in Keys
  BY TakenSlot DEF IInv, Typed
<1> QED BY <1>1 DEF IInv, Running, Slot, Thread

LEMMA ThreadFields ==
  ASSUME IInv, NEW k \in Keys, thread[k].at = "uiomove"
  PROVE  thread[k].uio \in Uios /\ thread[k].slot \in Slots /\ thread[k].moved \in 0 .. Max
BY MovingThread DEF IInv, Typed

LEMMA PrepareKeeps ==
  ASSUME RawBridgeAssumption, IInv, NEW u \in Uios, Prepare(u)
  PROVE  IInv'
<1>1. PICK offset \in 0 .. End, resid \in 1 .. Max + 1, rw \in {"read", "write"} :
        /\ uio' = [uio EXCEPT ![u] = [offset |-> offset, resid |-> resid, at |-> 0,
                                      rw |-> rw, segment |-> "user"]]
        /\ user' = [user EXCEPT ![u] =
             [i \in Units |-> IF rw = "read" THEN 0 ELSE 10 * (prepared + 1) + i]]
  BY DEF Prepare
<1>2. /\ ~halted /\ io = NoIo /\ prepared < MAX_REQUESTS /\ prepared' = prepared + 1
      /\ media' = media /\ guard_tail' = guard_tail /\ pending' = pending
      /\ bounce' = bounce /\ io' = io /\ page' = page /\ thread' = thread
      /\ halted' = halted
  BY DEF Prepare, bridge
<1> DEFINE x == [offset |-> offset, resid |-> resid, at |-> 0, rw |-> rw,
                 segment |-> "user"]
<1>3. x \in Uio /\ x.at = 0 /\ x.segment = "user"
  BY Bounds DEF Uio, Rw
<1>4. uio \in [Uios -> Uio]
  BY DEF IInv, Typed
<1> HIDE DEF x
<1>5. uio' \in [Uios -> Uio] /\ uio'[u] = x /\ \A v \in Uios \ {u} : uio'[v] = uio[v]
  BY <1>1, <1>3, <1>4 DEF x
<1>6. DOMAIN user' = Uios /\ \A v \in Uios : DOMAIN user'[v] = Units
  BY <1>1 DEF IInv, Typed
<1>7. prepared' \in 0 .. MAX_REQUESTS
  BY <1>2, Bounds DEF IInv, Typed
<1>8. Typed'
  BY <1>2, <1>5, <1>6, <1>7 DEF IInv, Typed
<1>9. \A k \in Keys : thread[k].at = "uiomove" => thread[k].uio \in Uios \ {u}
  BY ThreadFields DEF Prepare
<1>10. \A s \in Slots : Slot(s)'
  BY <1>2 DEF IInv, Running, Slot
<1>11. \A k \in Keys : Thread(k)'
  BY <1>2, <1>5, <1>9 DEF IInv, Running, Thread
<1>12. \A v \in Uios : Place(v)'
  BY <1>2, <1>3, <1>5 DEF IInv, Running, Place
<1>13. Doing'
  BY <1>2, NoIoIsNone DEF Doing
<1> QED BY <1>2, <1>8, <1>10, <1>11, <1>12, <1>13 DEF IInv, Running

LEMMA DirectKeeps ==
  ASSUME RawBridgeAssumption, VmBlockAssumption, IInv,
         NEW k \in Keys, NEW u \in Uios, Direct(k, u)
  PROVE  IInv'
<1> DEFINE n == media_prefix_length(uio[u].offset, uio[u].resid)
           x == [for |-> "direct", uio |-> u, t |-> Begun(n)]
<1>1. /\ ~halted /\ io = NoIo /\ ~Refused(k, u) /\ io' = x /\ halted' = halted
      /\ UNCHANGED <<bridge, guest>>
  BY DEF Direct, AtEntry
<1>2. uio[u].offset \in Nat /\ uio[u].resid \in Nat
  BY UioFields DEF IInv, Typed
<1>3. n \in Nat
  <2>1. n \in 0 .. uio[u].resid
    BY <1>2, PrefixFits
  <2> QED BY <1>2, <2>1
<1> HIDE DEF n
<1>4. /\ Begun(n) \in Transfer /\ Begun(n).length = n /\ Turning(Begun(n))
  BY <1>3, BegunTurns
<1>5. x \in Ios /\ x.for = "direct" /\ x.uio = u /\ x.t = Begun(n) /\ x # NoIo
  <2>1. x \in Direct_Io
    BY <1>4 DEF Direct_Io
  <2> QED BY <2>1, NoIoIsNone DEF Ios
<1> HIDE DEF x
<1>6. /\ media' = media /\ guard_tail' = guard_tail /\ pending' = pending
      /\ bounce' = bounce /\ uio' = uio /\ user' = user /\ page' = page
      /\ thread' = thread /\ prepared' = prepared
  BY <1>1 DEF bridge, guest
<1>7. Typed'
  BY <1>1, <1>5, <1>6 DEF IInv, Typed
<1>8. \A s \in Slots : Slot(s)'
  BY <1>1, <1>5, <1>6, NoIoIsNone DEF IInv, Running, Slot
<1>9. \A j \in Keys : Thread(j)'
  BY <1>1, <1>6 DEF IInv, Running, Thread
<1>10. \A v \in Uios : Place(v)'
  BY <1>1, <1>5, <1>6, NoIoIsNone DEF IInv, Running, Place
<1>11. Doing'
  <2>1. /\ uio[u].resid <= Max /\ uio[u].offset + uio[u].resid <= End
        /\ \A s \in Slots : pending[s] # Free => pending[s].uio # u
    BY <1>1, <1>2, Bounds, SMTT(30) DEF Refused
  <2>2. Begun(n).length <= media_prefix_length(uio[u].offset, uio[u].resid)
    BY <1>3, <1>4 DEF n
  <2> QED BY <1>1, <1>4, <1>5, <1>6, <2>1, <2>2 DEF Doing
<1> QED BY <1>1, <1>7, <1>8, <1>9, <1>10, <1>11 DEF IInv, Running

(* A slot that was free is taken for a stack and a uio that have none.       *)
LEMMA RedirectKeeps ==
  ASSUME RawBridgeAssumption, VmBlockAssumption, IInv,
         NEW k \in Keys, NEW u \in Uios, Redirect(k, u)
  PROVE  IInv'
<1> DEFINE p(s) == [active |-> TRUE, key |-> k, uio |-> u, segment |-> uio[u].segment,
                    rw |-> uio[u].rw, residual |-> uio[u].resid,
                    offset |-> uio[u].offset]
           n == IF uio[u].rw = "read"
                THEN media_prefix_length(uio[u].offset, uio[u].resid) ELSE 0
           x(s) == [for |-> "redirect", key |-> k, slot |-> s, t |-> Begun(n)]
<1>1. PICK s \in allocate_pending :
        /\ pending' = [pending EXCEPT ![s] = p(s)]
        /\ bounce' = [bounce EXCEPT ![s] =
             [i \in Units |-> IF i < uio[u].resid THEN 0 ELSE bounce[s][i]]]
        /\ io' = x(s)
  BY DEF Redirect
<1>2. /\ ~halted /\ io = NoIo /\ ~Refused(k, u) /\ uio[u].resid # 0
      /\ media' = media /\ guard_tail' = guard_tail /\ uio' = uio /\ user' = user
      /\ page' = page /\ thread' = thread /\ prepared' = prepared /\ halted' = halted
  BY DEF Redirect, AtEntry, guest
<1>3. /\ uio[u].offset \in Nat /\ uio[u].resid \in Nat /\ uio[u].rw \in Rw
      /\ uio[u].segment \in {"user", "physical"}
  BY UioFields DEF IInv, Typed
<1>4. /\ uio[u].resid \in 1 .. Max /\ uio[u].offset + uio[u].resid <= End
      /\ uio[u].offset \in 0 .. End
      /\ find_pending(k) = {}
      /\ \A r \in Slots : pending[r] # Free => pending[r].uio # u
  BY <1>2, <1>3, Bounds, SMTT(30) DEF Refused
<1>5. s \in Slots /\ pending[s] = Free
  BY DEF allocate_pending
<1>6. \A r \in Slots : pending[r] # Free => pending[r].key # k
  BY <1>4 DEF find_pending
<1>7. \A j \in Keys : thread[j].at = "uiomove" =>
        j # k /\ thread[j].uio # u /\ thread[j].slot # s
  <2> SUFFICES ASSUME NEW j \in Keys, thread[j].at = "uiomove"
               PROVE  j # k /\ thread[j].uio # u /\ thread[j].slot # s
    OBVIOUS
  <2>1. thread[j].slot \in Slots
    BY ThreadFields
  <2> QED BY <1>2, <1>4, <1>5, <1>6, <2>1 DEF IInv, Running, Thread
<1>8. uio[u].segment = "user"
  BY <1>2, <1>3, <1>7 DEF IInv, Running, Place
<1>9. p(s) \in Pending /\ p(s) # Free
      /\ p(s).key = k /\ p(s).uio = u /\ p(s).segment = "user" /\ p(s).rw = uio[u].rw
      /\ p(s).residual = uio[u].resid /\ p(s).offset = uio[u].offset
  BY <1>3, <1>4, <1>8 DEF Pending, Free, Rw
<1>10. n \in Nat
  BY <1>3, PrefixFits
<1> HIDE DEF n, p
<1>11. /\ Begun(n) \in Transfer /\ Turning(Begun(n))
  BY <1>10, BegunTurns
<1>12. /\ x(s) \in Ios /\ x(s).for = "redirect" /\ x(s).key = k /\ x(s).slot = s
       /\ x(s).t = Begun(n) /\ x(s) # NoIo
  <2>1. x(s) \in Redirect_Io
    BY <1>5, <1>11 DEF Redirect_Io
  <2> QED BY <2>1, NoIoIsNone DEF Ios
<1> HIDE DEF x
<1>13. /\ pending' \in [Slots -> Pending \cup {Free}] /\ pending'[s] = p(s)
       /\ \A r \in Slots \ {s} : pending'[r] = pending[r]
  BY <1>1, <1>5, <1>9 DEF IInv, Typed
<1>14. /\ DOMAIN bounce' = Slots /\ \A r \in Slots : DOMAIN bounce'[r] = Units
       /\ \A i \in 0 .. uio[u].resid - 1 : bounce'[s][i] = 0
  BY <1>1, <1>3, <1>4, <1>5, Bounds DEF IInv, Typed
<1>15. Typed'
  BY <1>1, <1>2, <1>12, <1>13, <1>14 DEF IInv, Typed
<1>16. \A r \in Slots : Slot(r)'
  <2>1. Slot(s)'
    BY <1>1, <1>4, <1>5, <1>6, <1>9, <1>12, <1>13 DEF Slot
  <2>2. ASSUME NEW r \in Slots \ {s} PROVE Slot(r)'
    BY <1>1, <1>2, <1>4, <1>6, <1>9, <1>12, <1>13, NoIoIsNone
    DEF IInv, Running, Slot
  <2> QED BY <2>1, <2>2
<1>17. \A j \in Keys : Thread(j)'
  <2>1. \A j \in Keys : thread[j].at = "uiomove" => thread[j].slot \in Slots \ {s}
    BY <1>7, ThreadFields
  <2> QED BY <1>2, <1>13, <2>1 DEF IInv, Running, Thread
<1>18. \A v \in Uios : Place(v)'
  BY <1>1, <1>2, <1>12, NoIoIsNone DEF IInv, Running, Place
<1>19. Doing'
  <2>1. thread[k].at # "uiomove"
    BY <1>7
  <2> QED BY <1>1, <1>2, <1>9, <1>11, <1>12, <1>13, <1>14, <2>1 DEF Doing
<1> QED BY <1>2, <1>15, <1>16, <1>17, <1>18, <1>19 DEF IInv, Running

(* The record of a uio of which n units have been moved.                    *)
LEMMA UioAdvanced ==
  ASSUME NEW x \in Uio, NEW n
  PROVE  [[[x EXCEPT !.offset = @ + n] EXCEPT !.resid = @ - n] EXCEPT !.at = @ + n]
           = [offset |-> x.offset + n, resid |-> x.resid - n, at |-> x.at + n,
              rw |-> x.rw, segment |-> x.segment]
<1>1. PICK o \in Nat, r \in Nat, a \in Nat, w \in Rw, g \in {"user", "physical"} :
        x = [offset |-> o, resid |-> r, at |-> a, rw |-> w, segment |-> g]
  BY DEF Uio
<1>2. [x EXCEPT !.offset = @ + n]
        = [offset |-> o + n, resid |-> r, at |-> a, rw |-> w, segment |-> g]
  BY <1>1
<1>3. [[offset |-> o + n, resid |-> r, at |-> a, rw |-> w, segment |-> g]
         EXCEPT !.resid = @ - n]
        = [offset |-> o + n, resid |-> r - n, at |-> a, rw |-> w, segment |-> g]
  OBVIOUS
<1>4. [[offset |-> o + n, resid |-> r - n, at |-> a, rw |-> w, segment |-> g]
         EXCEPT !.at = @ + n]
        = [offset |-> o + n, resid |-> r - n, at |-> a + n, rw |-> w, segment |-> g]
  OBVIOUS
<1>5. x.offset = o /\ x.resid = r /\ x.at = a /\ x.rw = w /\ x.segment = g
  BY <1>1
<1> QED BY <1>2, <1>3, <1>4, <1>5

(* n units of a uio have been moved.                                        *)
LEMMA AdvanceMoves ==
  ASSUME uio \in [Uios -> Uio], NEW u \in Uios, NEW n \in Nat, n <= uio[u].resid,
         Advance(u, n)
  PROVE  /\ uio' \in [Uios -> Uio] /\ \A v \in Uios \ {u} : uio'[v] = uio[v]
         /\ uio'[u].offset = uio[u].offset + n /\ uio'[u].resid = uio[u].resid - n
         /\ uio'[u].at = uio[u].at + n /\ uio'[u].rw = uio[u].rw
         /\ uio'[u].segment = uio[u].segment
<1> DEFINE x == [offset |-> uio[u].offset + n, resid |-> uio[u].resid - n,
                 at |-> uio[u].at + n, rw |-> uio[u].rw, segment |-> uio[u].segment]
<1>1. /\ uio[u].offset \in Nat /\ uio[u].resid \in Nat /\ uio[u].at \in Nat
      /\ uio[u].rw \in Rw /\ uio[u].segment \in {"user", "physical"}
  BY UioFields
<1>2. x \in Uio
  BY <1>1 DEF Uio
<1>3. uio' = [uio EXCEPT ![u] = x]
  <2>1. uio[u] \in Uio
    OBVIOUS
  <2>2. uio' = [uio EXCEPT ![u] = [[[uio[u] EXCEPT !.offset = @ + n]
                                      EXCEPT !.resid = @ - n] EXCEPT !.at = @ + n]]
    BY DEF Advance
  <2>3. [[[uio[u] EXCEPT !.offset = @ + n] EXCEPT !.resid = @ - n]
           EXCEPT !.at = @ + n]
          = [offset |-> uio[u].offset + n, resid |-> uio[u].resid - n,
             at |-> uio[u].at + n, rw |-> uio[u].rw, segment |-> uio[u].segment]
    BY <2>1, UioAdvanced
  <2> QED BY <2>2, <2>3
<1>4. /\ x.offset = uio[u].offset + n /\ x.resid = uio[u].resid - n
      /\ x.at = uio[u].at + n /\ x.rw = uio[u].rw /\ x.segment = uio[u].segment
  OBVIOUS
<1> HIDE DEF x
<1> QED BY <1>2, <1>3, <1>4

(* A unit between the user's memory and the slot.                           *)
LEMMA UiomoveKeeps ==
  ASSUME RawBridgeAssumption, IInv, NEW k \in Keys, uiomove(k)
  PROVE  IInv'
<1> DEFINE u == thread[k].uio
           s == thread[k].slot
           i == thread[k].moved
           p == pending[s]
<1>1. /\ ~halted /\ io = NoIo /\ thread[k].at = "uiomove" /\ uio[u].resid > 0
      /\ Advance(u, 1) /\ thread' = [thread EXCEPT ![k].moved = i + 1]
      /\ media' = media /\ guard_tail' = guard_tail /\ pending' = pending
      /\ io' = io /\ page' = page /\ prepared' = prepared /\ halted' = halted
  BY DEF uiomove
<1>2. /\ DOMAIN user' = Uios /\ \A v \in Uios : DOMAIN user'[v] = Units
      /\ DOMAIN bounce' = Slots /\ \A r \in Slots : DOMAIN bounce'[r] = Units
  BY DEF uiomove, IInv, Typed
<1>3. u \in Uios /\ s \in Slots /\ i \in 0 .. Max
  BY <1>1, ThreadFields
<1>4. /\ uio \in [Uios -> Uio] /\ thread \in [Keys -> {Idle} \cup Moving]
      /\ pending \in [Slots -> Pending \cup {Free}]
  BY DEF IInv, Typed
<1>5. /\ uio[u].offset \in Nat /\ uio[u].resid \in Nat /\ uio[u].at \in Nat
  BY <1>3, <1>4, UioFields
<1>6. /\ p # Free /\ p.key = k /\ p.uio = u /\ p.rw = uio[u].rw
      /\ i + uio[u].resid = p.residual /\ p.offset + i = uio[u].offset
  BY <1>1 DEF IInv, Running, Thread
<1>7. p.residual \in 1 .. Max /\ p.offset \in 0 .. End
  BY <1>3, <1>4, <1>6, TakenSlot
<1>8. /\ uio' \in [Uios -> Uio] /\ \A v \in Uios \ {u} : uio'[v] = uio[v]
      /\ uio'[u].offset = uio[u].offset + 1 /\ uio'[u].resid = uio[u].resid - 1
      /\ uio'[u].at = uio[u].at + 1 /\ uio'[u].rw = uio[u].rw
      /\ uio'[u].segment = uio[u].segment
  BY <1>1, <1>3, <1>4, <1>5, AdvanceMoves
<1> DEFINE t == [thread[k] EXCEPT !.moved = i + 1]
<1>9. i + 1 \in 0 .. Max
  <2>1. /\ i + uio[u].resid = p.residual /\ uio[u].resid > 0
        /\ i \in Nat /\ uio[u].resid \in Nat /\ p.residual <= Max
    BY <1>1, <1>3, <1>5, <1>6, <1>7, Bounds
  <2> HIDE DEF i, u, p
  <2> QED BY <2>1, Bounds, SMTT(30)
<1>10. t \in Moving /\ t.at = "uiomove" /\ t.uio = u /\ t.slot = s /\ t.moved = i + 1
  <2>1. thread[k] \in Moving
    BY <1>1, <1>4, MovingThread
  <2> HIDE DEF s, u, i
  <2>2. t \in Moving /\ t.at = "uiomove" /\ t.uio = thread[k].uio
        /\ t.slot = thread[k].slot /\ t.moved = i + 1
    BY <1>9, <2>1 DEF Moving
  <2> QED BY <2>2 DEF s, u
<1>11. thread' = [thread EXCEPT ![k] = t]
  BY <1>1
<1> HIDE DEF t
<1>12. /\ thread' \in [Keys -> {Idle} \cup Moving] /\ thread'[k] = t
       /\ \A j \in Keys \ {k} : thread'[j] = thread[j]
  BY <1>4, <1>10, <1>11
<1>13. Typed'
  BY <1>1, <1>2, <1>8, <1>12 DEF IInv, Typed
<1> HIDE DEF u, s, i, p
<1>14. \A r \in Slots : Slot(r)'
  BY <1>1, <1>10, <1>12, NoIoIsNone DEF IInv, Running, Slot, u, s
<1>15. \A j \in Keys : Thread(j)'
  <2>1. Thread(k)'
    <3>1. thread'[k].uio = u /\ thread'[k].slot = s /\ thread'[k].moved = i + 1
      BY <1>10, <1>12
    <3>2. pending'[s] = p
      BY <1>1 DEF p
    <3>3. i + 1 + uio'[u].resid = p.residual /\ p.offset + (i + 1) = uio'[u].offset
      BY <1>3, <1>5, <1>6, <1>7, <1>8
    <3> QED BY <1>6, <1>8, <3>1, <3>2, <3>3 DEF Thread
  <2>2. ASSUME NEW j \in Keys \ {k}, thread[j].at = "uiomove"
        PROVE  thread[j].uio \in Uios \ {u}
    <3>1. /\ thread[j].slot \in Slots /\ pending[thread[j].slot] # Free
          /\ pending[thread[j].slot].key = j /\ pending[thread[j].slot].uio = thread[j].uio
      BY <2>2, ThreadFields, <1>1 DEF IInv, Running, Thread
    <3>2. thread[j].slot # s
      BY <1>6, <3>1 DEF p
    <3>3. thread[j].uio # u
      BY <1>1, <1>3, <1>6, <3>1, <3>2 DEF IInv, Running, Slot, p
    <3> QED BY <2>2, <3>3, ThreadFields
  <2>3. \A j \in Keys \ {k} : Thread(j)'
    BY <1>1, <1>8, <1>12, <2>2 DEF IInv, Running, Thread
  <2> QED BY <2>1, <2>3
<1>16. \A v \in Uios : Place(v)'
  <2>1. ASSUME NEW v \in Uios, uio'[v].at > 0 PROVE uio'[v].at + uio'[v].resid <= Max
    <3>1. CASE v # u
      BY <1>1, <1>8, <2>1, <3>1 DEF IInv, Running, Place
    <3>2. CASE v = u
      <4>1. uio[u].at + uio[u].resid <= Max
        <5>1. uio[u].at > 0 \/ uio[u].at = 0
          BY <1>5
        <5>2. uio[u].resid <= Max
          BY <1>3, <1>5, <1>6, <1>7, Bounds
        <5> QED BY <1>1, <1>3, <1>5, <5>1, <5>2 DEF IInv, Running, Place
      <4> QED BY <1>5, <1>8, <3>2, <4>1, Bounds, SMTT(30)
    <3> QED BY <3>1, <3>2
  <2>2. \A v \in Uios : uio'[v].segment = uio[v].segment
    BY <1>8
  <2>3. \A j \in Keys : thread[j].at = "uiomove" =>
          thread'[j].at = "uiomove" /\ thread'[j].uio = thread[j].uio
    BY <1>10, <1>12 DEF u
  <2> QED BY <1>1, <2>1, <2>2, <2>3, NoIoIsNone DEF IInv, Running, Place
<1>17. Doing'
  BY <1>1, NoIoIsNone DEF Doing
<1> QED BY <1>1, <1>13, <1>14, <1>15, <1>16, <1>17 DEF IInv, Running

(* The completion gives the segment back before the backend is asked.       *)
LEMMA CompletionKeeps ==
  ASSUME RawBridgeAssumption, VmBlockAssumption, IInv, NEW k \in Keys, Completion(k)
  PROVE  IInv'
<1>1. PICK s \in find_pending(k) :
        /\ uio' = Restored(s)
        /\ io' = [for |-> "completion", key |-> k, slot |-> s,
                  done |-> pending[s].residual - uio[pending[s].uio].resid,
                  t |-> Begun(IF pending[s].rw = "write"
                              THEN media_prefix_length(pending[s].offset,
                                     pending[s].residual - uio[pending[s].uio].resid)
                              ELSE 0)]
  BY DEF Completion
<1>2. /\ ~halted /\ io = NoIo /\ thread[k].at = "uiomove"
      /\ media' = media /\ guard_tail' = guard_tail /\ pending' = pending
      /\ bounce' = bounce /\ user' = user /\ page' = page /\ thread' = thread
      /\ prepared' = prepared /\ halted' = halted
  BY DEF Completion, bridge
<1> DEFINE p == pending[s]
           u == p.uio
           done == p.residual - uio[u].resid
           n == IF p.rw = "write" THEN media_prefix_length(p.offset, done) ELSE 0
           x == [for |-> "completion", key |-> k, slot |-> s, done |-> done, t |-> Begun(n)]
<1>3. s \in Slots /\ p # Free /\ p.key = k
  BY DEF find_pending
<1>4. /\ uio \in [Uios -> Uio] /\ pending \in [Slots -> Pending \cup {Free}]
  BY DEF IInv, Typed
<1>5. /\ u \in Uios /\ p.residual \in 1 .. Max /\ p.offset \in 0 .. End
      /\ p.segment = "user"
  BY <1>2, <1>3, <1>4, TakenSlot DEF IInv, Running, Slot
<1>6. thread[k].slot = s /\ thread[k].uio = u
  BY <1>2, <1>3, SlotIsThreads, NoIoIsNone
<1>7. done = thread[k].moved /\ done \in 0 .. Max
  <2>1. thread[k].moved + uio[u].resid = p.residual
    BY <1>2, <1>6 DEF IInv, Running, Thread
  <2>2. uio[u].resid \in Nat
    BY <1>4, <1>5, UioFields
  <2>3. thread[k].moved \in 0 .. Max
    BY <1>2, ThreadFields
  <2> QED BY <1>5, <2>1, <2>2, <2>3, Bounds, SMTT(30)
<1>8. n \in Nat
  <2> HIDE DEF done
  <2>1. p.offset \in Nat /\ done \in Nat
    BY <1>5, <1>7, Bounds
  <2>2. media_prefix_length(p.offset, done) \in 0 .. done
    BY <2>1, PrefixFits
  <2> QED BY <2>1, <2>2
<1> DEFINE y == [uio[u] EXCEPT !.segment = "user"]
<1>9. /\ y \in Uio /\ y.segment = "user" /\ y.offset = uio[u].offset
      /\ y.resid = uio[u].resid /\ y.at = uio[u].at /\ y.rw = uio[u].rw
  <2>1. uio[u] \in Uio
    BY <1>4, <1>5
  <2> QED BY <2>1 DEF Uio
<1>10. uio' = [uio EXCEPT ![u] = y]
  BY <1>1, <1>5 DEF Restored
<1>11. io' = x
  BY <1>1
<1> HIDE DEF n, done, y, x
<1>12. /\ Begun(n) \in Transfer /\ Begun(n).length = n /\ Turning(Begun(n))
  BY <1>8, BegunTurns
<1>13. /\ x \in Ios /\ x.for = "completion" /\ x.key = k /\ x.slot = s
       /\ x.done = done /\ x.t = Begun(n) /\ x # NoIo
  <2>1. x \in Completion_Io
    BY <1>3, <1>7, <1>12 DEF Completion_Io, x
  <2> QED BY <2>1, NoIoIsNone DEF Ios, x
<1>14. /\ uio' \in [Uios -> Uio] /\ uio'[u] = y
       /\ \A v \in Uios \ {u} : uio'[v] = uio[v]
  BY <1>4, <1>5, <1>9, <1>10
<1>15. \A v \in Uios : /\ uio'[v].offset = uio[v].offset /\ uio'[v].resid = uio[v].resid
                       /\ uio'[v].at = uio[v].at /\ uio'[v].rw = uio[v].rw
  BY <1>9, <1>14
<1>16. Typed'
  BY <1>2, <1>11, <1>13, <1>14 DEF IInv, Typed
<1>17. \A r \in Slots : Slot(r)'
  BY <1>2, <1>11, <1>13, NoIoIsNone DEF IInv, Running, Slot
<1>18. \A j \in Keys : Thread(j)'
  BY <1>2, <1>15, ThreadFields DEF IInv, Running, Thread
<1>19. \A v \in Uios : Place(v)'
  <2>1. ASSUME NEW v \in Uios, uio'[v].segment = "physical"
        PROVE  \E j \in Keys : /\ thread[j].at = "uiomove" /\ thread[j].uio = v
                               /\ j # k
    <3>1. v # u /\ uio[v].segment = "physical"
      BY <1>9, <1>14, <2>1
    <3> QED BY <1>2, <1>6, <3>1 DEF IInv, Running, Place
  <2> QED BY <1>2, <1>11, <1>13, <1>15, <2>1 DEF IInv, Running, Place
<1>20. Doing'
  <2>1. pending'[s] = p /\ thread'[k] = thread[k]
    BY <1>2
  <2>2. n <= IF p.rw = "write" THEN media_prefix_length(p.offset, done) ELSE 0
    BY <1>8 DEF n
  <2> HIDE DEF p
  <2>3. io'.t.length <= IF p.rw = "write" THEN media_prefix_length(p.offset, io'.done)
                        ELSE 0
    BY <1>11, <1>12, <1>13, <2>2
  <2> QED BY <1>2, <1>3, <1>6, <1>7, <1>11, <1>12, <1>13, <2>1, <2>3 DEF Doing
<1> QED BY <1>2, <1>16, <1>17, <1>18, <1>19, <1>20 DEF IInv, Running

---------------------------------------------------------------------------
(* What the bridge does when the backend has answered.                      *)

LEMMA PutKeepsDomain ==
  ASSUME NEW offset, NEW n, NEW d
  PROVE  /\ PutMedia(offset, n, d) => DOMAIN media' = 0 .. MEDIA - 1
         /\ PutGuard(offset, n, d) => DOMAIN guard_tail' = Units
BY DEF PutMedia, PutGuard

LEMMA DirectDoneKeeps ==
  ASSUME RawBridgeAssumption, IInv, io.for = "direct", DirectDone(io.uio)
  PROVE  IInv'
<1> DEFINE u == io.uio
<1>1. io # NoIo /\ u \in Uios
  BY IoFields DEF IInv, Typed
<1>2. ~halted
  BY <1>1 DEF IInv
<1>3. /\ io' = NoIo /\ pending' = pending /\ bounce' = bounce /\ page' = page
      /\ thread' = thread /\ prepared' = prepared /\ halted' = halted
      /\ Advance(u, uio[u].resid)
  BY DEF DirectDone
<1>4. uio \in [Uios -> Uio]
  BY DEF IInv, Typed
<1>5. uio[u].offset \in Nat /\ uio[u].resid \in Nat /\ uio[u].at \in Nat
  BY <1>1, <1>4, UioFields
<1>6. /\ uio' \in [Uios -> Uio] /\ \A v \in Uios \ {u} : uio'[v] = uio[v]
      /\ uio'[u].resid = 0 /\ uio'[u].at = uio[u].at + uio[u].resid
      /\ uio'[u].segment = uio[u].segment
  <2> HIDE DEF u
  <2> QED BY <1>1, <1>3, <1>4, <1>5, AdvanceMoves
<1>7. /\ DOMAIN media' = 0 .. MEDIA - 1 /\ DOMAIN guard_tail' = Units
      /\ DOMAIN user' = Uios /\ \A v \in Uios : DOMAIN user'[v] = Units
  <2>1. CASE uio[u].rw = "read"
    BY <2>1 DEF DirectDone, IInv, Typed
  <2>2. CASE uio[u].rw # "read"
    <3>1. DOMAIN media' = 0 .. MEDIA - 1 /\ DOMAIN guard_tail' = Units
      BY <2>2, PutKeepsDomain DEF DirectDone
    <3> QED BY <2>2, <3>1 DEF DirectDone, IInv, Typed
  <2> QED BY <2>1, <2>2
<1>8. Typed'
  BY <1>3, <1>6, <1>7 DEF IInv, Typed, Ios
<1>9. /\ uio[u].resid <= Max
      /\ \A s \in Slots : pending[s] # Free => pending[s].uio # u
  BY <1>1, <1>2 DEF IInv, Running, Doing
<1> HIDE DEF u
<1>10. \A j \in Keys : thread[j].at = "uiomove" => thread[j].uio \in Uios \ {u}
  BY <1>2, <1>9, ThreadFields DEF IInv, Running, Thread
<1>11. \A r \in Slots : Slot(r)'
  BY <1>2, <1>3, NoIoIsNone DEF IInv, Running, Slot
<1>12. \A j \in Keys : Thread(j)'
  BY <1>2, <1>3, <1>6, <1>10 DEF IInv, Running, Thread
<1>13. \A v \in Uios : Place(v)'
  <2>1. uio[u].at = 0 \/ uio[u].at > 0
    BY <1>5
  <2>2. uio[u].at + uio[u].resid <= Max
    BY <1>1, <1>2, <1>5, <1>9, <2>1 DEF IInv, Running, Place
  <2>3. uio'[u].at + uio'[u].resid <= Max
    BY <1>5, <1>6, <2>2, Bounds
  <2> QED BY <1>2, <1>3, <1>6, <2>3, NoIoIsNone DEF IInv, Running, Place
<1>14. Doing'
  BY <1>3, NoIoIsNone DEF Doing
<1> QED BY <1>2, <1>3, <1>8, <1>11, <1>12, <1>13, <1>14 DEF IInv, Running

(* The thread goes on in uiomove at the slot that was taken for it.          *)
LEMMA RedirectDoneKeeps ==
  ASSUME RawBridgeAssumption, IInv, io.for = "redirect",
         NEW k, NEW s, k = io.key, s = io.slot, RedirectDone(k, s)
  PROVE  IInv'
<1> DEFINE p == pending[s]
           u == p.uio
           t == [at |-> "uiomove", uio |-> u, slot |-> s, moved |-> 0]
           y == [uio[u] EXCEPT !.segment = "physical"]
<1>1. io # NoIo /\ k \in Keys /\ s \in Slots
  BY IoFields DEF IInv, Typed
<1>2. ~halted
  BY <1>1 DEF IInv
<1>3. /\ io' = NoIo /\ media' = media /\ guard_tail' = guard_tail
      /\ pending' = pending /\ user' = user /\ page' = page
      /\ prepared' = prepared /\ halted' = halted
      /\ uio' = [uio EXCEPT ![u] = y] /\ thread' = [thread EXCEPT ![k] = t]
  BY DEF RedirectDone
<1>4. DOMAIN bounce' = Slots /\ \A r \in Slots : DOMAIN bounce'[r] = Units
  <2>1. CASE p.rw = "write"
    BY <2>1 DEF RedirectDone, IInv, Typed
  <2>2. CASE p.rw # "write"
    BY <2>2 DEF RedirectDone, IInv, Typed
  <2> QED BY <2>1, <2>2
<1>5. /\ uio \in [Uios -> Uio] /\ thread \in [Keys -> {Idle} \cup Moving]
      /\ pending \in [Slots -> Pending \cup {Free}]
  BY DEF IInv, Typed
<1>6. /\ p # Free /\ p.key = k /\ thread[k].at # "uiomove"
      /\ uio[u].offset = p.offset /\ uio[u].resid = p.residual /\ uio[u].rw = p.rw
  BY <1>1, <1>2 DEF IInv, Running, Doing
<1>7. u \in Uios /\ p.residual \in 1 .. Max /\ p.offset \in 0 .. End
  BY <1>1, <1>5, <1>6, TakenSlot
<1>8. /\ y \in Uio /\ y.offset = uio[u].offset /\ y.resid = uio[u].resid
      /\ y.at = uio[u].at /\ y.rw = uio[u].rw
  <2>1. uio[u] \in Uio
    BY <1>5, <1>7
  <2> QED BY <2>1 DEF Uio
<1>9. /\ t \in Moving /\ t.at = "uiomove" /\ t.uio = u /\ t.slot = s /\ t.moved = 0
  BY <1>1, <1>7, Bounds DEF Moving
<1> HIDE DEF y, t
<1>10. /\ uio' \in [Uios -> Uio] /\ uio'[u] = y
       /\ \A v \in Uios \ {u} : uio'[v] = uio[v]
       /\ thread' \in [Keys -> {Idle} \cup Moving] /\ thread'[k] = t
       /\ \A j \in Keys \ {k} : thread'[j] = thread[j]
  BY <1>1, <1>3, <1>5, <1>7, <1>8, <1>9
<1>11. \A v \in Uios : /\ uio'[v].offset = uio[v].offset /\ uio'[v].resid = uio[v].resid
                       /\ uio'[v].at = uio[v].at /\ uio'[v].rw = uio[v].rw
  BY <1>8, <1>10
<1>12. Typed'
  BY <1>3, <1>4, <1>10 DEF IInv, Typed, Ios
<1> HIDE DEF p, u
<1>13. \A r \in Slots : Slot(r)'
  <2>1. Slot(s)'
    BY <1>1, <1>2, <1>3, <1>6, <1>9, <1>10 DEF IInv, Running, Slot, p
  <2>2. ASSUME NEW r \in Slots \ {s}, pending[r] # Free
        PROVE  /\ pending[r].key \in Keys \ {k}
               /\ thread[pending[r].key].at = "uiomove"
               /\ thread[pending[r].key].slot = r
    <3>1. /\ pending[r].key \in Keys /\ thread[pending[r].key].at = "uiomove"
          /\ thread[pending[r].key].slot = r
      BY <1>2, <2>2, SlotIsThreads
    <3> QED BY <1>6, <3>1
  <2> QED BY <1>2, <1>3, <1>10, <2>1, <2>2 DEF IInv, Running, Slot
<1>14. \A j \in Keys : Thread(j)'
  <2>1. Thread(k)'
    <3>1. 0 + uio'[u].resid = p.residual /\ p.offset + 0 = uio'[u].offset
      BY <1>6, <1>7, <1>11, Bounds
    <3>2. pending'[s] = p
      BY <1>3 DEF p
    <3> QED BY <1>6, <1>7, <1>9, <1>10, <1>11, <3>1, <3>2 DEF Thread, u
  <2>2. \A j \in Keys \ {k} : Thread(j)'
    BY <1>2, <1>3, <1>10, <1>11, ThreadFields DEF IInv, Running, Thread
  <2> QED BY <2>1, <2>2
<1>15. \A v \in Uios : Place(v)'
  <2>1. ASSUME NEW v \in Uios, uio'[v].segment = "physical"
        PROVE  \E j \in Keys : thread'[j].at = "uiomove" /\ thread'[j].uio = v
    <3>1. CASE v = u
      BY <1>1, <1>9, <1>10, <3>1
    <3>2. CASE v # u
      BY <1>2, <1>6, <1>10, <2>1, <3>2 DEF IInv, Running, Place
    <3> QED BY <3>1, <3>2
  <2> QED BY <1>2, <1>3, <1>11, <2>1, NoIoIsNone DEF IInv, Running, Place
<1>16. Doing'
  BY <1>3, NoIoIsNone DEF Doing
<1> QED BY <1>2, <1>3, <1>12, <1>13, <1>14, <1>15, <1>16 DEF IInv, Running

(* The slot is given back, and the thread goes on with the guest.           *)
LEMMA CompletionDoneKeeps ==
  ASSUME RawBridgeAssumption, IInv, io.for = "completion",
         NEW k, NEW s, k = io.key, s = io.slot, CompletionDone(k, s)
  PROVE  IInv'
<1> DEFINE p == pending[s]
<1>1. io # NoIo /\ k \in Keys /\ s \in Slots
  BY IoFields DEF IInv, Typed
<1>2. ~halted
  BY <1>1 DEF IInv
<1>3. /\ io' = NoIo /\ pending' = [pending EXCEPT ![s] = Free]
      /\ thread' = [thread EXCEPT ![k] = Idle]
      /\ bounce' = bounce /\ uio' = uio /\ user' = user /\ page' = page
      /\ prepared' = prepared /\ halted' = halted
  BY DEF CompletionDone
<1>4. DOMAIN media' = 0 .. MEDIA - 1 /\ DOMAIN guard_tail' = Units
  BY PutKeepsDomain DEF CompletionDone, IInv, Typed
<1>5. /\ thread \in [Keys -> {Idle} \cup Moving]
      /\ pending \in [Slots -> Pending \cup {Free}]
  BY DEF IInv, Typed
<1>6. /\ thread' \in [Keys -> {Idle} \cup Moving] /\ thread'[k] = Idle
      /\ \A j \in Keys \ {k} : thread'[j] = thread[j]
      /\ pending' \in [Slots -> Pending \cup {Free}] /\ pending'[s] = Free
      /\ \A r \in Slots \ {s} : pending'[r] = pending[r]
  BY <1>1, <1>3, <1>5
<1>7. Typed'
  BY <1>3, <1>4, <1>6 DEF IInv, Typed, Ios
<1>8. /\ p # Free /\ p.key = k /\ thread[k].at = "uiomove" /\ thread[k].slot = s
  BY <1>1, <1>2 DEF IInv, Running, Doing
<1>9. Idle.at # "uiomove"
  BY DEF Idle
<1> HIDE DEF p
<1>10. \A r \in Slots : Slot(r)'
  <2>1. Slot(s)'
    BY <1>6 DEF Slot, Free
  <2>2. ASSUME NEW r \in Slots \ {s}, pending[r] # Free
        PROVE  /\ pending[r].key \in Keys \ {k}
               /\ thread[pending[r].key].at = "uiomove"
               /\ thread[pending[r].key].slot = r
    <3>1. /\ pending[r].key \in Keys /\ thread[pending[r].key].at = "uiomove"
          /\ thread[pending[r].key].slot = r
      BY <1>2, <2>2, SlotIsThreads
    <3> QED BY <1>8, <3>1
  <2>3. ASSUME NEW r \in Slots \ {s} PROVE Slot(r)'
    <3>1. \A q \in Slots : pending'[q] # Free =>
            pending[q] # Free /\ pending'[q] = pending[q]
      BY <1>6
    <3>2. pending'[r] # Free =>
            /\ thread'[pending'[r].key].at = "uiomove"
            /\ thread'[pending'[r].key].slot = r
      BY <1>6, <2>2, <3>1
    <3> QED BY <1>2, <3>1, <3>2 DEF IInv, Running, Slot
  <2> QED BY <2>1, <2>3
<1>11. \A j \in Keys : Thread(j)'
  <2>1. Thread(k)'
    BY <1>6, <1>9 DEF Thread
  <2>2. ASSUME NEW j \in Keys \ {k}, thread[j].at = "uiomove"
        PROVE  thread[j].slot \in Slots \ {s}
    <3>1. thread[j].slot \in Slots /\ pending[thread[j].slot].key = j
      BY <1>2, <2>2, ThreadFields DEF IInv, Running, Thread
    <3> QED BY <1>8, <2>2, <3>1 DEF p
  <2>3. ASSUME NEW j \in Keys \ {k} PROVE Thread(j)'
    BY <1>2, <1>3, <1>6, <2>2 DEF IInv, Running, Thread
  <2> QED BY <2>1, <2>3
<1>12. \A v \in Uios : Place(v)'
  <2>1. ASSUME NEW v \in Uios, uio'[v].segment = "physical"
        PROVE  \E j \in Keys : thread'[j].at = "uiomove" /\ thread'[j].uio = v
    <3>1. PICK j \in Keys : /\ thread[j].at = "uiomove" /\ thread[j].uio = v
                            /\ ~(io.for = "completion" /\ io.key = j)
      BY <1>2, <1>3, <2>1 DEF IInv, Running, Place
    <3>2. j # k
      BY <3>1
    <3> QED BY <1>6, <3>1, <3>2
  <2> QED BY <1>2, <1>3, <2>1, NoIoIsNone DEF IInv, Running, Place
<1>13. Doing'
  BY <1>3, NoIoIsNone DEF Doing
<1> QED BY <1>2, <1>3, <1>7, <1>10, <1>11, <1>12, <1>13 DEF IInv, Running

---------------------------------------------------------------------------
(* The other bridge, and the backend.                                       *)

LEMMA StrategyKeeps ==
  ASSUME RawBridgeAssumption, VmBlockAssumption, IInv,
         NEW b \in DOMAIN media, NEW rw \in {"read", "write"}, Strategy(b, rw)
  PROVE  IInv'
<1> DEFINE x == [for |-> "page", rw |-> rw, block |-> b, t |-> Begun(1)]
<1>1. /\ ~halted /\ io = NoIo /\ prepared < MAX_REQUESTS /\ prepared' = prepared + 1
      /\ io' = x /\ media' = media /\ guard_tail' = guard_tail /\ pending' = pending
      /\ bounce' = bounce /\ uio' = uio /\ user' = user /\ thread' = thread
      /\ halted' = halted
  BY DEF Strategy, bridge
<1>2. /\ page'.by \in {"guest", "device"}
      /\ rw = "write" => page'.by = "guest"
  BY DEF Strategy, IInv, Typed
<1>3. Begun(1) \in Transfer /\ Turning(Begun(1))
  BY BegunTurns
<1>4. x \in Ios /\ x.for = "page" /\ x.rw = rw /\ x.t = Begun(1) /\ x # NoIo
  <2>1. x \in Page_Io
    BY <1>3 DEF Page_Io, Rw, IInv, Typed
  <2> QED BY <2>1, NoIoIsNone DEF Ios
<1> HIDE DEF x
<1>5. prepared' \in 0 .. MAX_REQUESTS
  BY <1>1, Bounds DEF IInv, Typed
<1>6. Typed'
  BY <1>1, <1>2, <1>4, <1>5 DEF IInv, Typed
<1>7. \A r \in Slots : Slot(r)'
  BY <1>1, <1>4, NoIoIsNone DEF IInv, Running, Slot
<1>8. \A j \in Keys : Thread(j)'
  BY <1>1 DEF IInv, Running, Thread
<1>9. \A v \in Uios : Place(v)'
  BY <1>1, <1>4, NoIoIsNone DEF IInv, Running, Place
<1>10. Doing'
  BY <1>1, <1>2, <1>3, <1>4 DEF Doing
<1> QED BY <1>1, <1>6, <1>7, <1>8, <1>9, <1>10 DEF IInv, Running

LEMMA StrategyDoneKeeps ==
  ASSUME IInv, io.for = "page", StrategyDone(io.block, io.rw)
  PROVE  IInv'
<1>1. io # NoIo /\ ~halted
  BY IoFields DEF IInv, Typed
<1>2. /\ io' = NoIo /\ guard_tail' = guard_tail /\ pending' = pending
      /\ bounce' = bounce /\ uio' = uio /\ user' = user /\ thread' = thread
      /\ prepared' = prepared /\ halted' = halted
  BY DEF StrategyDone
<1>3. DOMAIN media' = 0 .. MEDIA - 1 /\ page'.by \in {"guest", "device"}
  BY DEF StrategyDone, IInv, Typed
<1>4. Typed'
  BY <1>2, <1>3 DEF IInv, Typed, Ios
<1>5. \A r \in Slots : Slot(r)'
  BY <1>1, <1>2, NoIoIsNone DEF IInv, Running, Slot
<1>6. \A j \in Keys : Thread(j)'
  BY <1>1, <1>2 DEF IInv, Running, Thread
<1>7. \A v \in Uios : Place(v)'
  BY <1>1, <1>2, NoIoIsNone DEF IInv, Running, Place
<1>8. Doing'
  BY <1>2, NoIoIsNone DEF Doing
<1> QED BY <1>1, <1>2, <1>4, <1>5, <1>6, <1>7, <1>8 DEF IInv, Running

(* One turn of the loop of VmBlock: the transfer goes on, or it has a result. *)
LEMMA StepTurns ==
  ASSUME VmBlockAssumption, IInv, BlockStep
  PROVE  \E y \in Transfer :
           /\ io' = [io EXCEPT !.t = y]
           /\ y.length = io.t.length /\ Turning(y)
           /\ y.result = "going" => Left(y) < Left(io.t)
<1>1. io # NoIo /\ io.t.result = "going"
  BY DEF BlockStep
<1>2. io.t \in Transfer /\ Turning(io.t)
  <2>1. ~halted
    BY <1>1 DEF IInv
  <2> QED BY <1>1, <2>1, IoFields DEF IInv, Typed, Running, Doing
<1>3. CASE \E a \in Answers(io.t) : io' = [io EXCEPT !.t = Answered(io.t, a)]
  <2>1. PICK a \in Answers(io.t) : io' = [io EXCEPT !.t = Answered(io.t, a)]
    BY <1>3
  <2>2. /\ Answered(io.t, a) \in Transfer
        /\ Answered(io.t, a).length = io.t.length /\ Turning(Answered(io.t, a))
        /\ Answered(io.t, a).result = "going" => Left(Answered(io.t, a)) < Left(io.t)
    BY <1>1, <1>2, AnsweredTurns
  <2> QED BY <2>1, <2>2
<1>4. CASE io' = [io EXCEPT !.t = Cancel(io.t)]
  <2>1. /\ Cancel(io.t) \in Transfer /\ Cancel(io.t).length = io.t.length
        /\ Turning(Cancel(io.t)) /\ Cancel(io.t).result # "going"
    BY <1>2, CancelTurns
  <2> QED BY <1>4, <2>1
<1> QED BY <1>3, <1>4 DEF BlockStep

LEMMA BlockStepKeeps ==
  ASSUME RawBridgeAssumption, VmBlockAssumption, IInv, BlockStep
  PROVE  IInv'
<1>1. /\ io # NoIo /\ media' = media /\ guard_tail' = guard_tail
      /\ pending' = pending /\ bounce' = bounce /\ uio' = uio /\ user' = user
      /\ page' = page /\ thread' = thread /\ prepared' = prepared /\ halted' = halted
  BY DEF BlockStep, bridge, guest
<1>2. ~halted /\ io \in Ios
  BY <1>1 DEF IInv, Typed
<1>3. PICK y \in Transfer : io' = [io EXCEPT !.t = y] /\ y.length = io.t.length /\ Turning(y)
  BY StepTurns
<1>4. /\ io' \in Ios /\ io'.for = io.for /\ io'.t = y
      /\ io.for = "direct" => io'.uio = io.uio
      /\ io.for = "redirect" => io'.key = io.key /\ io'.slot = io.slot
      /\ io.for = "completion" => /\ io'.key = io.key /\ io'.slot = io.slot
                                  /\ io'.done = io.done
      /\ io.for = "page" => io'.rw = io.rw /\ io'.block = io.block
  BY <1>1, <1>2, <1>3, TurnedIo
<1>5. io' # NoIo
  BY <1>1, <1>2, <1>4, IoFields, NoIoIsNone
<1>6. Typed'
  BY <1>1, <1>4 DEF IInv, Typed
<1>7. \A r \in Slots : Slot(r)'
  BY <1>1, <1>2, <1>4 DEF IInv, Running, Slot
<1>8. \A j \in Keys : Thread(j)'
  BY <1>1, <1>2 DEF IInv, Running, Thread
<1>9. \A v \in Uios : Place(v)'
  BY <1>1, <1>2, <1>4 DEF IInv, Running, Place
<1>10. Doing'
  <2>1. /\ io'.t.length = io.t.length /\ Turning(io'.t)
    BY <1>3, <1>4
  <2> QED BY <1>1, <1>2, <1>4, <2>1 DEF IInv, Running, Doing
<1> QED BY <1>1, <1>2, <1>6, <1>7, <1>8, <1>9, <1>10 DEF IInv, Running

LEMMA BlockDoneKeeps ==
  ASSUME RawBridgeAssumption, IInv, BlockDone
  PROVE  IInv'
<1>1. io.for \in {"direct", "redirect", "completion", "page"}
  BY IoFields DEF IInv, Typed, BlockDone
<1>2. CASE io.for = "direct"
  BY <1>2, DirectDoneKeeps DEF BlockDone
<1>3. CASE io.for = "redirect"
  BY <1>3, RedirectDoneKeeps DEF BlockDone
<1>4. CASE io.for = "completion"
  BY <1>4, CompletionDoneKeeps DEF BlockDone
<1>5. CASE io.for = "page"
  BY <1>5, StrategyDoneKeeps DEF BlockDone
<1> QED BY <1>1, <1>2, <1>3, <1>4, <1>5

(* The machine stops.                                                       *)
LEMMA BlockFailsKeeps ==
  ASSUME IInv, BlockFails
  PROVE  IInv'
<1>1. /\ io # NoIo /\ halted' = TRUE /\ io' = NoIo /\ guard_tail' = guard_tail
      /\ bounce' = bounce /\ uio' = uio /\ user' = user /\ page' = page
      /\ thread' = thread /\ prepared' = prepared
  BY DEF BlockFails, Fail, guest
<1>2. /\ pending \in [Slots -> Pending \cup {Free}] /\ io \in Ios
  BY DEF IInv, Typed
<1>3. pending' \in [Slots -> Pending \cup {Free}]
  BY <1>2 DEF BlockFails
<1>4. DOMAIN media' = 0 .. MEDIA - 1
  <2>1. CASE media' = media
    BY <2>1 DEF IInv, Typed
  <2>2. CASE \E o, n, d : PutMedia(o, n, d)
    BY <2>2, PutKeepsDomain
  <2>3. CASE io.for = "direct" /\ uio[io.uio].rw = "write"
    BY <2>2, <2>3 DEF BlockFails
  <2>4. CASE io.for = "completion"
    BY <2>2, <2>4 DEF BlockFails
  <2>5. CASE ~(io.for = "direct" /\ uio[io.uio].rw = "write") /\ io.for # "completion"
    BY <2>1, <2>5 DEF BlockFails
  <2> QED BY <2>3, <2>4, <2>5
<1> QED BY <1>1, <1>3, <1>4 DEF IInv, Typed, Ios

LEMMA MalformedKeeps ==
  ASSUME IInv, NEW k \in Keys, MalformedCompletion(k) \/ Malformed(k)
  PROVE  IInv'
<1>1. /\ halted' = TRUE /\ io' = NoIo /\ media' = media /\ guard_tail' = guard_tail
      /\ bounce' = bounce /\ user' = user /\ page' = page
      /\ thread' = thread /\ prepared' = prepared
  BY DEF MalformedCompletion, Malformed, Fail, bridge, guest
<1>2. /\ pending' \in [Slots -> Pending \cup {Free}] /\ uio' \in [Uios -> Uio]
  <2>1. pending \in [Slots -> Pending \cup {Free}] /\ uio \in [Uios -> Uio]
    BY DEF IInv, Typed
  <2>2. CASE Malformed(k)
    BY <2>1, <2>2 DEF Malformed, bridge, guest
  <2>3. CASE MalformedCompletion(k)
    <3>1. PICK s \in find_pending(k) :
            uio' \in {uio, Restored(s)} /\ pending' = [pending EXCEPT ![s] = Free]
      BY <2>3 DEF MalformedCompletion
    <3> DEFINE p == pending[s]
               y == [uio[p.uio] EXCEPT !.segment = p.segment]
    <3>2. s \in Slots /\ p # Free
      BY DEF find_pending
    <3>3. p.uio \in Uios /\ p.segment \in {"user", "physical"}
      BY <2>1, <3>2, TakenSlot
    <3>4. y \in Uio
      <4>1. uio[p.uio] \in Uio
        BY <2>1, <3>3
      <4> QED BY <3>3, <4>1 DEF Uio
    <3>5. Restored(s) = [uio EXCEPT ![p.uio] = y]
      BY DEF Restored
    <3> HIDE DEF y, p
    <3>6. Restored(s) \in [Uios -> Uio]
      BY <2>1, <3>3, <3>4, <3>5
    <3> QED BY <2>1, <3>1, <3>2, <3>6
  <2> QED BY <2>2, <2>3
<1> QED BY <1>1, <1>2 DEF IInv, Typed, Ios

---------------------------------------------------------------------------
(* The invariant.                                                           *)

LEMMA InitHolds ==
  ASSUME RawBridgeAssumption, Init
  PROVE  IInv
<1>1. Idle.at # "uiomove"
  BY DEF Idle
<1>2. [offset |-> 0, resid |-> 0, at |-> 0, rw |-> "read", segment |-> "user"] \in Uio
  BY DEF Uio, Rw
<1>3. uio \in [Uios -> Uio]
  BY <1>2 DEF Init
<1>4. Typed
  <2>1. /\ DOMAIN media = 0 .. MEDIA - 1 /\ DOMAIN guard_tail = Units
        /\ DOMAIN bounce = Slots /\ DOMAIN user = Uios
        /\ pending \in [Slots -> Pending \cup {Free}]
        /\ thread \in [Keys -> {Idle} \cup Moving]
        /\ page.by = "device"
    BY DEF Init
  <2>2. /\ \A s \in Slots : DOMAIN bounce[s] = Units
        /\ \A u \in Uios : DOMAIN user[u] = Units
    BY DEF Init
  <2>3. prepared \in 0 .. MAX_REQUESTS
    BY Bounds DEF Init
  <2>4. io \in Ios /\ halted \in BOOLEAN
    BY DEF Init, Ios
  <2> QED BY <1>3, <2>1, <2>2, <2>3, <2>4 DEF Typed
<1>5. /\ \A u \in Uios : Place(u)
      /\ \A k \in Keys : Thread(k)
  BY <1>1 DEF Init, Place, Thread
<1>6. \A s \in Slots : Slot(s)
  BY DEF Init, Slot
<1>7. Doing
  BY NoIoIsNone DEF Init, Doing
<1> QED BY <1>4, <1>5, <1>6, <1>7 DEF Init, IInv, Running

LEMMA NextKeeps ==
  ASSUME RawBridgeAssumption, VmBlockAssumption, IInv, [Next]_vars
  PROVE  IInv'
<1>1. CASE UNCHANGED vars
  <2>1. /\ media' = media /\ guard_tail' = guard_tail /\ pending' = pending
        /\ bounce' = bounce /\ io' = io /\ uio' = uio /\ user' = user /\ page' = page
        /\ thread' = thread /\ prepared' = prepared /\ halted' = halted
    BY <1>1 DEF vars, bridge, guest
  <2> QED BY <2>1 DEF IInv, Typed, Running, Slot, Thread, Place, Doing
<1>2. CASE \E u \in Uios : Prepare(u)
  BY <1>2, PrepareKeeps
<1>3. CASE \E k \in Keys, u \in Uios : Direct(k, u) \/ Redirect(k, u)
  BY <1>3, DirectKeeps, RedirectKeeps
<1>4. CASE \E k \in Keys : uiomove(k) \/ Completion(k) \/ MalformedCompletion(k)
                           \/ Malformed(k)
  BY <1>4, UiomoveKeeps, CompletionKeeps, MalformedKeeps
<1>5. CASE \E b \in DOMAIN media, rw \in {"read", "write"} : Strategy(b, rw)
  BY <1>5, StrategyKeeps
<1>6. CASE Block
  BY <1>6, BlockStepKeeps, BlockDoneKeeps, BlockFailsKeeps DEF Block
<1> QED BY <1>1, <1>2, <1>3, <1>4, <1>5, <1>6 DEF Next

LEMMA IInvAlways == Spec => []IInv
<1>1. Init => IInv
  BY InitHolds, RawBridgeAssumption
<1>2. IInv /\ [Next]_vars => IInv'
  BY NextKeeps, RawBridgeAssumption, VmBlockAssumption
<1> QED BY <1>1, <1>2, PTL DEF Spec

(* The state of the bridges, of the requests and of the transfer with the
   backend is what it is declared to be, in every state of every behavior.  *)
THEOREM TypeCorrect == Spec => []TypeOK
<1>1. IInv => TypeOK
  <2>1. SUFFICES ASSUME IInv PROVE TypeOK
    OBVIOUS
  <2>2. ~halted \/ io = NoIo
    BY <2>1 DEF IInv
  <2>3. io # NoIo => /\ io.t.done <= io.t.length
                     /\ io.t.stuck <= VM_BLOCK_NO_PROGRESS_LIMIT
                     /\ io.t.result \in Results
    <3>1. io # NoIo => io.t \in Transfer
      BY <2>1, IoFields DEF IInv, Typed
    <3> QED BY <2>1, <2>2, <3>1 DEF IInv, Running, Doing, Turning, Transfer
  <2> QED BY <2>1, <2>3 DEF IInv, Typed, TypeOK, Uio, Rw, Moving
<1> QED BY <1>1, IInvAlways, PTL

(* A thread that is in uiomove has a slot, a stack pointer and a uio that no
   other request on its way has, however many of each there are, and no slot
   outlives its request.                                                    *)
THEOREM SlotsOwnedAlways == Spec => []SlotsOwned
<1>1. IInv => SlotsOwned
  <2>1. SUFFICES ASSUME IInv, ~halted PROVE SlotsOwned
    BY DEF SlotsOwned
  <2>2. ASSUME NEW s \in Slots, pending[s] # Free
        PROVE  \/ io.for = "redirect" /\ io.slot = s
               \/ LET t == thread[pending[s].key] IN
                  t.at = "uiomove" /\ t.slot = s /\ t.uio = pending[s].uio
    <3>1. CASE ~(io.for = "redirect" /\ io.slot = s)
      <4>1. /\ pending[s].key \in Keys
            /\ thread[pending[s].key].at = "uiomove"
            /\ thread[pending[s].key].slot = s
        BY <2>1, <2>2, <3>1, SlotIsThreads
      <4>2. thread[pending[s].key].uio = pending[s].uio
        BY <2>1, <4>1 DEF IInv, Running, Thread
      <4> QED BY <4>1, <4>2
    <3> QED BY <3>1
  <2>3. ASSUME NEW k \in Keys, thread[k].at = "uiomove"
        PROVE  find_pending(k) = {thread[k].slot}
    <3>1. /\ thread[k].slot \in Slots
          /\ pending[thread[k].slot] # Free /\ pending[thread[k].slot].key = k
      BY <2>1, <2>3, ThreadFields DEF IInv, Running, Thread
    <3>2. \A s \in Slots \ {thread[k].slot} : pending[s] # Free => pending[s].key # k
      BY <2>1, <3>1 DEF IInv, Running, Slot
    <3> QED BY <3>1, <3>2 DEF find_pending
  <2>4. ASSUME NEW r \in Slots, NEW s \in Slots, r # s, pending[r] # Free, pending[s] # Free
        PROVE  pending[r].key # pending[s].key /\ pending[r].uio # pending[s].uio
    BY <2>1, <2>4 DEF IInv, Running, Slot
  <2> QED BY <2>2, <2>3, <2>4 DEF SlotsOwned
<1> QED BY <1>1, IInvAlways, PTL

(* A uio says "physical" only while its request is on its way: its segment is
   back before the bridge does anything else with it.                       *)
THEOREM SegmentRestoredAlways == Spec => []SegmentRestored
<1>1. IInv => SegmentRestored
  BY DEF IInv, Running, Place, SegmentRestored
<1> QED BY <1>1, IInvAlways, PTL

(* Whatever a backend answers, a turn of the loop leaves less to come, so that
   the loop of a transfer of any length ends.                               *)
THEOREM TransfersEndAlways == Spec => TransfersEnd
<1>1. IInv /\ [Next]_vars => [Turn => Left(io'.t) < Left(io.t)]_io
  <2>1. SUFFICES ASSUME IInv, [Next]_vars, Turn, io' # io
                 PROVE  Left(io'.t) < Left(io.t)
    OBVIOUS
  <2>2. io # NoIo /\ io' # NoIo
    BY <2>1 DEF Turn
  <2>3. BlockStep
    <3>1. ~UNCHANGED vars
      BY <2>1 DEF vars
    <3>2. ASSUME NEW u \in Uios PROVE ~Prepare(u)
      BY <2>2 DEF Prepare
    <3>3. ASSUME NEW k \in Keys, NEW u \in Uios PROVE ~Direct(k, u) /\ ~Redirect(k, u)
      BY <2>2 DEF Direct, Redirect, AtEntry
    <3>4. ASSUME NEW k \in Keys
          PROVE  /\ ~uiomove(k) /\ ~Completion(k)
                 /\ ~MalformedCompletion(k) /\ ~Malformed(k)
      BY <2>2 DEF uiomove, Completion, MalformedCompletion, Malformed
    <3>5. ASSUME NEW b \in DOMAIN media, NEW rw \in {"read", "write"}
          PROVE  ~Strategy(b, rw)
      BY <2>2 DEF Strategy
    <3>6. ~BlockFails
      BY <2>2 DEF BlockFails, Fail
    <3>7. ~BlockDone
      <4>1. io.for \in {"direct", "redirect", "completion", "page"}
        BY <2>1, <2>2, IoFields DEF IInv, Typed
      <4> QED BY <2>2, <4>1 DEF BlockDone, DirectDone, RedirectDone, CompletionDone,
                                StrategyDone
    <3> QED BY <2>1, <3>1, <3>2, <3>3, <3>4, <3>5, <3>6, <3>7 DEF Next, Block
  <2>4. PICK y \in Transfer :
          /\ io' = [io EXCEPT !.t = y]
          /\ y.result = "going" => Left(y) < Left(io.t)
    BY <2>1, <2>3, StepTurns, VmBlockAssumption
  <2>5. io'.t = y
    BY <2>1, <2>2, <2>4, TurnedIo DEF IInv, Typed
  <2> QED BY <2>1, <2>4, <2>5 DEF Turn
<1> QED BY <1>1, IInvAlways, PTL DEF Spec, TransfersEnd

---------------------------------------------------------------------------
(* The array and the requests that the bridges keep for RawDisk.             *)

Asked == [u \in Uios |-> [offset |-> uio[u].offset, resid |-> uio[u].resid,
                          at |-> uio[u].at, rw |-> uio[u].rw]]

Requests == [k \in Keys |-> Request(k)]

NoRequest == [uio |-> "none"]

(* The request of a thread in uiomove is in its slot.                       *)
Held(k) ==
  LET s == thread[k].slot IN
  [uio |-> thread[k].uio, offset |-> pending[s].offset,
   data |-> [i \in 0 .. pending[s].residual - 1 |-> bounce[s][i]],
   moved |-> thread[k].moved]

LEMMA OwnSlot ==
  ASSUME NEW P, NEW k, NEW t \in Slots, P[t] # Free, P[t].key = k,
         \A s \in Slots \ {t} : P[s] # Free => P[s].key # k
  PROVE  {s \in Slots : P[s] # Free /\ P[s].key = k} = {t}
OBVIOUS

Matching ==
  \A k \in Keys :
    /\ ~halted /\ thread[k].at = "uiomove" => Request(k) = Held(k)
    /\ halted \/ thread[k].at # "uiomove" => Request(k) = NoRequest

LEMMA RequestIs == IInv => Matching
<1>1. SUFFICES ASSUME IInv, NEW k \in Keys, ~halted, thread[k].at = "uiomove"
               PROVE  Request(k) = Held(k)
  BY DEF Matching, Request, NoRequest
<1>2. /\ thread[k].slot \in Slots
      /\ pending[thread[k].slot] # Free /\ pending[thread[k].slot].key = k
  BY <1>1, ThreadFields DEF IInv, Running, Thread
<1>3. \A s \in Slots \ {thread[k].slot} : pending[s] # Free => pending[s].key # k
  BY <1>1, <1>2 DEF IInv, Running, Slot
<1>4. find_pending(k) = {thread[k].slot}
  BY <1>2, <1>3, OwnSlot DEF find_pending
<1>5. (CHOOSE s \in find_pending(k) : TRUE) = thread[k].slot
  BY <1>4
<1> QED BY <1>1, <1>4, <1>5 DEF Request, Held

LEMMA RequestIsThen == IInv' => Matching'
BY RequestIs, PTL

(* What a step leaves alone, RawDisk sees as it was.                        *)
LEMMA RequestsStay ==
  ASSUME thread' = thread, pending' = pending, bounce' = bounce, halted' = halted
  PROVE  Requests' = Requests
BY DEF Requests, Request, find_pending

LEMMA AskedStays ==
  ASSUME uio' \in [Uios -> Uio],
         \A u \in Uios : /\ uio'[u].offset = uio[u].offset /\ uio'[u].resid = uio[u].resid
                         /\ uio'[u].at = uio[u].at /\ uio'[u].rw = uio[u].rw
  PROVE  Asked' = Asked
BY DEF Asked

LEMMA ArrayStays ==
  ASSUME media' = media, guard_tail' = guard_tail
  PROVE  Array' = Array
BY DEF Array

LEMMA Views == Disk!vars = <<Array, user, Asked, Requests, page, halted>>
BY DEF Disk!vars, Asked, Requests

LEMMA InitIsDisk ==
  ASSUME RawBridgeAssumption, Init
  PROVE  Disk!Init
<1>1. Array \in [0 .. End - 1 -> {0}]
  <2>1. ASSUME NEW b \in 0 .. End - 1, ~(b < MEDIA) PROVE b - MEDIA \in Units
    BY <2>1, Bounds
  <2>2. ASSUME NEW b \in 0 .. End - 1, b < MEDIA PROVE b \in 0 .. MEDIA - 1
    BY <2>2, Bounds
  <2> QED BY <2>1, <2>2 DEF Init, Array
<1>2. \A k \in Keys : Request(k) = NoRequest
  BY DEF Init, Request, NoRequest, Idle
<1>3. \A u \in Uios : uio[u].resid = 0
  BY DEF Init
<1>4. ~halted /\ user = [u \in Uios |-> [i \in 0 .. Max - 1 |-> 0]]
  BY DEF Init, Units, Max
<1> QED BY <1>1, <1>2, <1>3, <1>4 DEF Disk!Init, Disk!NoRequest, NoRequest

---------------------------------------------------------------------------
(* The media and the zone after it are one array.                            *)

LEMMA ArrayAt ==
  ASSUME NEW b \in 0 .. End - 1
  PROVE  Array[b] = IF b < MEDIA THEN media[b] ELSE guard_tail[b - MEDIA]
BY DEF Array

LEMMA ContentsAre ==
  ASSUME RawBridgeAssumption, NEW o \in Nat, NEW n \in Nat, n <= Max, o + n <= End,
         NEW i \in 0 .. n - 1
  PROVE  Contents(o, n)[i] = Array[o + i]
<1> DEFINE m == media_prefix_length(o, n)
<1>1. o + i \in 0 .. End - 1 /\ o + i \in Nat /\ i \in Nat
  BY Bounds
<1>2. m = IF o >= MEDIA THEN 0 ELSE IF MEDIA - o < n THEN MEDIA - o ELSE n
  BY DEF media_prefix_length
<1>3. Contents(o, n)[i] = IF i < m THEN media[o + i]
                          ELSE guard_tail[guard_tail_offset(o) + i - m]
  BY DEF Contents
<1> HIDE DEF m
<1>4. CASE i < m
  <2>1. o + i < MEDIA
    BY <1>1, <1>2, <1>4, Bounds
  <2> QED BY <1>1, <1>3, <1>4, <2>1, ArrayAt
<1>5. CASE ~(i < m)
  <2>1. ~(o + i < MEDIA) /\ guard_tail_offset(o) + i - m = o + i - MEDIA
    BY <1>1, <1>2, <1>5, Bounds DEF guard_tail_offset
  <2> QED BY <1>1, <1>3, <1>5, <2>1, ArrayAt
<1> QED BY <1>4, <1>5

(* A write of n units that is done in whole.                                *)
LEMMA PutIsStored ==
  ASSUME RawBridgeAssumption, NEW o \in Nat, NEW n \in Nat, n <= Max, o + n <= End,
         NEW d, PutMedia(o, media_prefix_length(o, n), d), PutGuard(o, n, d)
  PROVE  Array' = [b \in 0 .. End - 1 |->
                     IF b \in o .. o + n - 1 THEN d[b - o] ELSE Array[b]]
<1> DEFINE m == media_prefix_length(o, n)
           first == guard_tail_offset(o)
<1>1. m = IF o >= MEDIA THEN 0 ELSE IF MEDIA - o < n THEN MEDIA - o ELSE n
  BY DEF media_prefix_length
<1>2. first = IF o <= MEDIA THEN 0 ELSE o - MEDIA
  BY DEF guard_tail_offset
<1>3. \A b \in 0 .. MEDIA - 1 :
        media'[b] = IF b \in o .. o + m - 1 THEN d[b - o] ELSE media[b]
  BY DEF PutMedia
<1>4. \A i \in Units :
        guard_tail'[i] = IF i \in first .. first + n - m - 1 THEN d[m + i - first]
                         ELSE guard_tail[i]
  BY DEF PutGuard
<1> HIDE DEF m, first
<1>5. ASSUME NEW b \in 0 .. End - 1
      PROVE  (IF b < MEDIA THEN media'[b] ELSE guard_tail'[b - MEDIA])
                = IF b \in o .. o + n - 1 THEN d[b - o] ELSE Array[b]
  <2>1. CASE b < MEDIA
    <3>1. b \in 0 .. MEDIA - 1
      BY <2>1, Bounds
    <3>2. b \in o .. o + m - 1 <=> b \in o .. o + n - 1
      BY <1>1, <2>1, Bounds
    <3> QED BY <1>3, <2>1, <3>1, <3>2, ArrayAt
  <2>2. CASE ~(b < MEDIA)
    <3> DEFINE i == b - MEDIA
    <3>1. i \in Units
      BY <2>2, Bounds
    <3>2. i \in first .. first + n - m - 1 <=> b \in o .. o + n - 1
      BY <1>1, <1>2, <2>2, Bounds
    <3>3. i \in first .. first + n - m - 1 => m + i - first = b - o
      BY <1>1, <1>2, <2>2, Bounds
    <3>4. guard_tail'[i] = IF i \in first .. first + n - m - 1 THEN d[m + i - first]
                           ELSE guard_tail[i]
      BY <1>4, <3>1
    <3>5. Array[b] = guard_tail[i]
      BY <2>2, ArrayAt
    <3> HIDE DEF i
    <3>6. guard_tail'[i] = IF b \in o .. o + n - 1 THEN d[b - o] ELSE Array[b]
      BY <3>2, <3>3, <3>4, <3>5
    <3> QED BY <2>2, <3>6 DEF i
  <2> QED BY <2>1, <2>2
<1> QED BY <1>5 DEF Array

(* A write of which the backend took the first m units.                      *)
LEMMA PutIsStoredInPart ==
  ASSUME RawBridgeAssumption, NEW o \in Nat, NEW n \in Nat, NEW m \in Nat,
         m <= media_prefix_length(o, n), NEW d, PutMedia(o, m, d),
         guard_tail' = guard_tail
  PROVE  Array' = [b \in 0 .. End - 1 |->
                     IF b \in o .. o + m - 1 THEN d[b - o] ELSE Array[b]]
<1>1. o + m <= MEDIA \/ m = 0
  <2> DEFINE l == media_prefix_length(o, n)
  <2>1. l \in 0 .. n /\ (o + l <= MEDIA \/ l = 0) /\ m <= l
    BY PrefixFits
  <2> HIDE DEF l
  <2> QED BY <2>1, Bounds
<1>2. \A b \in 0 .. MEDIA - 1 :
        media'[b] = IF b \in o .. o + m - 1 THEN d[b - o] ELSE media[b]
  BY DEF PutMedia
<1>3. ASSUME NEW b \in 0 .. End - 1
      PROVE  (IF b < MEDIA THEN media'[b] ELSE guard_tail'[b - MEDIA])
                = IF b \in o .. o + m - 1 THEN d[b - o] ELSE Array[b]
  <2>1. CASE b < MEDIA
    <3>1. b \in 0 .. MEDIA - 1
      BY <2>1, Bounds
    <3> QED BY <1>2, <2>1, <3>1, ArrayAt
  <2>2. CASE ~(b < MEDIA)
    <3>1. b \notin o .. o + m - 1
      BY <1>1, <2>2, Bounds
    <3> QED BY <2>2, <3>1, ArrayAt
  <2> QED BY <2>1, <2>2
<1> QED BY <1>3 DEF Array

---------------------------------------------------------------------------
(* Each step of the bridges is one of RawDisk's, or none that it sees.       *)

DiskVars == <<Array, user, Asked, Requests, page, halted>>

(* Who is asking for what.                                                  *)
LEMMA AskedAt ==
  ASSUME NEW u \in Uios
  PROVE  /\ Asked[u].offset = uio[u].offset /\ Asked[u].resid = uio[u].resid
         /\ Asked[u].at = uio[u].at /\ Asked[u].rw = uio[u].rw
BY DEF Asked

(* A uio for which no thread is in uiomove is of no request.                 *)
LEMMA NobodyAsks ==
  ASSUME RawBridgeAssumption, IInv, NEW u \in Uios,
         \A k \in Keys : thread[k].at = "uiomove" => thread[k].uio # u
  PROVE  \A k \in Keys : Request(k).uio # u
<1>1. SUFFICES ASSUME NEW k \in Keys PROVE Request(k).uio # u
  OBVIOUS
<1>2. CASE ~halted /\ thread[k].at = "uiomove"
  <2>1. Request(k) = Held(k)
    BY <1>2, RequestIs DEF Matching
  <2> QED BY <1>2, <2>1 DEF Held
<1>3. CASE halted \/ thread[k].at # "uiomove"
  <2>1. Request(k) = NoRequest
    BY <1>3, RequestIs DEF Matching
  <2> QED BY <2>1 DEF NoRequest, RawBridgeAssumption
<1> QED BY <1>2, <1>3

LEMMA PrepareIsSetup ==
  ASSUME RawBridgeAssumption, IInv, NEW u \in Uios, Prepare(u)
  PROVE  Disk!Setup(u)
<1>1. PICK offset \in 0 .. End, resid \in 1 .. Max + 1, rw \in {"read", "write"} :
        uio' = [uio EXCEPT ![u] = [offset |-> offset, resid |-> resid, at |-> 0,
                                   rw |-> rw, segment |-> "user"]]
  BY DEF Prepare
<1>2. /\ ~halted /\ media' = media /\ guard_tail' = guard_tail /\ pending' = pending
      /\ bounce' = bounce /\ thread' = thread /\ halted' = halted /\ page' = page
      /\ \A k \in Keys : thread[k].at = "uiomove" => thread[k].uio # u
  BY DEF Prepare, bridge
<1>3. \A v \in Uios \ {u} : user'[v] = user[v]
  BY DEF Prepare, IInv, Typed
<1>4. \A k \in Keys : Requests[k].uio # u
  BY <1>2, NobodyAsks DEF Requests
<1>5. Asked' = [Asked EXCEPT ![u] = [offset |-> offset, resid |-> resid, at |-> 0,
                                     rw |-> rw]]
  BY <1>1 DEF Asked, IInv, Typed
<1>6. offset \in 0 .. End + Max /\ resid \in 0 .. End + Max
  BY Bounds
<1>7. Array' = Array /\ Requests' = Requests
  BY <1>2, ArrayStays, RequestsStay
<1> QED BY <1>2, <1>3, <1>4, <1>5, <1>6, <1>7, ZenonT(30) DEF Disk!Setup, Asked, Requests

(* The record of what a uio asks for, when n units have been moved.          *)
LEMMA AskedAdvances ==
  ASSUME uio \in [Uios -> Uio], NEW u \in Uios, NEW n \in Nat, n <= uio[u].resid,
         Advance(u, n)
  PROVE  Asked' = [Asked EXCEPT ![u].offset = @ + n, ![u].resid = @ - n,
                                ![u].at = @ + n]
<1> DEFINE a == [offset |-> uio[u].offset, resid |-> uio[u].resid,
                 at |-> uio[u].at, rw |-> uio[u].rw]
           x == [offset |-> uio[u].offset + n, resid |-> uio[u].resid - n,
                 at |-> uio[u].at + n, rw |-> uio[u].rw]
<1>1. /\ uio'[u].offset = uio[u].offset + n /\ uio'[u].resid = uio[u].resid - n
      /\ uio'[u].at = uio[u].at + n /\ uio'[u].rw = uio[u].rw
      /\ \A v \in Uios \ {u} : uio'[v] = uio[v]
  BY AdvanceMoves
<1>2. Asked' = [Asked EXCEPT ![u] = x]
  BY <1>1 DEF Asked
<1>3. [[[a EXCEPT !.offset = @ + n] EXCEPT !.resid = @ - n] EXCEPT !.at = @ + n] = x
  <2>1. [a EXCEPT !.offset = @ + n]
          = [offset |-> uio[u].offset + n, resid |-> uio[u].resid,
             at |-> uio[u].at, rw |-> uio[u].rw]
    OBVIOUS
  <2>2. [[offset |-> uio[u].offset + n, resid |-> uio[u].resid,
          at |-> uio[u].at, rw |-> uio[u].rw] EXCEPT !.resid = @ - n]
          = [offset |-> uio[u].offset + n, resid |-> uio[u].resid - n,
             at |-> uio[u].at, rw |-> uio[u].rw]
    OBVIOUS
  <2>3. [[offset |-> uio[u].offset + n, resid |-> uio[u].resid - n,
          at |-> uio[u].at, rw |-> uio[u].rw] EXCEPT !.at = @ + n] = x
    OBVIOUS
  <2> QED BY <2>1, <2>2, <2>3
<1>4. Asked[u] = a /\ DOMAIN Asked = Uios
  BY DEF Asked
<1> HIDE DEF a, x
<1>5. [Asked EXCEPT ![u].offset = @ + n, ![u].resid = @ - n, ![u].at = @ + n]
        = [Asked EXCEPT ![u] = [[[Asked[u] EXCEPT !.offset = @ + n]
                                   EXCEPT !.resid = @ - n] EXCEPT !.at = @ + n]]
  BY <1>4
<1> QED BY <1>2, <1>3, <1>4, <1>5

LEMMA DirectDoneIsServe ==
  ASSUME RawBridgeAssumption, IInv, NEW u, u = io.uio, io.for = "direct", DirectDone(u)
  PROVE  u \in Uios /\ Disk!Serve(u)
<1> DEFINE n == uio[u].resid
           o == uio[u].offset
           at == uio[u].at
<1>1. io # NoIo /\ u \in Uios
  BY IoFields DEF IInv, Typed
<1>2. ~halted
  BY <1>1 DEF IInv
<1>3. /\ pending' = pending /\ bounce' = bounce /\ thread' = thread
      /\ halted' = halted /\ page' = page /\ Advance(u, n)
  BY DEF DirectDone
<1>4. /\ n \in Nat /\ o \in Nat /\ at \in Nat /\ uio \in [Uios -> Uio]
      /\ uio[u].rw \in Rw
  BY <1>1, UioFields DEF IInv, Typed
<1>5. /\ n <= Max /\ o + n <= End
      /\ \A s \in Slots : pending[s] # Free => pending[s].uio # u
  BY <1>1, <1>2 DEF IInv, Running, Doing
<1>6. at + n <= Max
  <2>1. at > 0 => at + n <= Max
    BY <1>1, <1>2 DEF IInv, Running, Place
  <2> QED BY <1>4, <1>5, <2>1, Bounds
<1>7. \A k \in Keys : thread[k].at = "uiomove" => thread[k].uio # u
  BY <1>2, <1>5, ThreadFields DEF IInv, Running, Thread
<1>8. \A k \in Keys : Requests[k].uio # u
  BY <1>1, <1>7, NobodyAsks DEF Requests
<1>9. Requests' = Requests
  BY <1>3, RequestsStay
<1>10. Asked' = [Asked EXCEPT ![u].offset = @ + n, ![u].resid = @ - n, ![u].at = @ + n]
  <2>1. n <= uio[u].resid
    BY <1>4
  <2> QED BY <1>1, <1>3, <1>4, <2>1, AskedAdvances, ZenonT(30)
<1>11. /\ Asked[u].offset = o /\ Asked[u].resid = n /\ Asked[u].at = at
       /\ Asked[u].rw = uio[u].rw
  BY <1>1, AskedAt
<1>12. Disk!Serve(u) <=>
         /\ \A k \in Keys : Requests[k].uio # u
         /\ Asked[u].at + Asked[u].resid <= Max /\ Asked[u].offset + Asked[u].resid <= End
         /\ IF Asked[u].rw = "read"
            THEN user' = Disk!Fetched(u, Asked[u].resid) /\ UNCHANGED Array
            ELSE /\ Array' = Disk!Stored(Asked[u].offset, Asked[u].resid,
                                         Disk!Taken(u, Asked[u].resid))
                 /\ UNCHANGED user
         /\ Asked' = Disk!Advanced(u, Asked[u].resid)
         /\ UNCHANGED <<Requests, page, halted>>
  BY DEF Disk!Serve, Asked, Requests
<1>13. Disk!Advanced(u, n)
         = [Asked EXCEPT ![u].offset = @ + n, ![u].resid = @ - n, ![u].at = @ + n]
  BY DEF Disk!Advanced, Asked
<1>14. CASE uio[u].rw = "read"
  <2>1. /\ user' = [user EXCEPT ![u] =
                      [i \in Units |-> IF i \in at .. at + n - 1
                                       THEN Contents(o, n)[i - at] ELSE user[u][i]]]
        /\ media' = media /\ guard_tail' = guard_tail
    BY <1>14 DEF DirectDone
  <2>2. Array' = Array
    BY <2>1, ArrayStays
  <2>3. user' = [user EXCEPT ![u] =
                   [i \in DOMAIN user[u] |-> IF i \in at .. at + n - 1
                                             THEN Array[o + i - at] ELSE user[u][i]]]
    <3>1. DOMAIN user[u] = Units
      BY <1>1 DEF IInv, Typed
    <3>2. ASSUME NEW i \in Units, i \in at .. at + n - 1
          PROVE  Contents(o, n)[i - at] = Array[o + i - at]
      <4> HIDE DEF n, o, at
      <4>1. i - at \in 0 .. n - 1 /\ o + (i - at) = o + i - at
        BY <1>4, <3>2, Bounds
      <4>2. Contents(o, n)[i - at] = Array[o + (i - at)]
        BY <1>4, <1>5, <4>1, ContentsAre
      <4> QED BY <4>1, <4>2
    <3> HIDE DEF n, o, at
    <3> QED BY <2>1, <3>1, <3>2
  <2>4. user' = Disk!Fetched(u, n)
    <3>1. Disk!Fetched(u, n) =
            [user EXCEPT ![u] =
               [i \in DOMAIN user[u] |-> IF i \in Asked[u].at .. Asked[u].at + n - 1
                                         THEN Array[Asked[u].offset + i - Asked[u].at]
                                         ELSE user[u][i]]]
      BY <1>1 DEF Disk!Fetched, Asked, IInv, Typed
    <3> HIDE DEF n, o, at
    <3> QED BY <1>11, <2>3, <3>1
  <2> HIDE DEF n, o, at
  <2> QED BY <1>1, <1>3, <1>5, <1>6, <1>8, <1>9, <1>10, <1>11, <1>12, <1>13, <1>14,
             <2>2, <2>4
<1>15. CASE uio[u].rw # "read"
  <2> DEFINE d == [i \in 0 .. n - 1 |-> user[u][at + i]]
  <2>1. /\ PutMedia(o, media_prefix_length(o, n), d) /\ PutGuard(o, n, d)
        /\ user' = user
    BY <1>15 DEF DirectDone
  <2>2. Array' = [b \in 0 .. End - 1 |->
                    IF b \in o .. o + n - 1 THEN d[b - o] ELSE Array[b]]
    <3> HIDE DEF n, o, d
    <3> QED BY <1>4, <1>5, <2>1, PutIsStored
  <2>3. DOMAIN Array = 0 .. End - 1
    BY DEF Array
  <2>4. d = Disk!Taken(u, n)
    <3>1. Disk!Taken(u, n) = [i \in 0 .. n - 1 |-> user[u][Asked[u].at + i]]
      BY DEF Disk!Taken, Asked
    <3> HIDE DEF n, o, at
    <3> QED BY <1>11, <3>1
  <2>5. \A e : Disk!Stored(o, n, e)
                = [b \in DOMAIN Array |->
                     IF b \in o .. o + n - 1 THEN e[b - o] ELSE Array[b]]
    BY DEF Disk!Stored
  <2> HIDE DEF n, o, at, d
  <2>6. Array' = Disk!Stored(o, n, d)
    BY <2>2, <2>3, <2>5
  <2> QED BY <1>1, <1>3, <1>5, <1>6, <1>8, <1>9, <1>10, <1>11, <1>12, <1>13, <1>15,
             <2>1, <2>4, <2>6
<1> QED BY <1>1, <1>4, <1>14, <1>15

(* The read of the media, or the buffer of a write, is one moment's.         *)
LEMMA RedirectDoneIsBegin ==
  ASSUME RawBridgeAssumption, IInv, IInv', io.for = "redirect",
         NEW k, NEW s, k = io.key, s = io.slot, RedirectDone(k, s)
  PROVE  k \in Keys /\ \E u \in Uios : Disk!Begin(k, u)
<1> DEFINE p == pending[s]
           u == p.uio
           n == p.residual
           o == p.offset
<1>1. io # NoIo /\ k \in Keys /\ s \in Slots
  BY IoFields DEF IInv, Typed
<1>2. ~halted
  BY <1>1 DEF IInv
<1>3. /\ io' = NoIo /\ media' = media /\ guard_tail' = guard_tail
      /\ pending' = pending /\ user' = user /\ page' = page /\ halted' = halted
      /\ uio' = [uio EXCEPT ![u].segment = "physical"]
      /\ thread' = [thread EXCEPT ![k] = [at |-> "uiomove", uio |-> u, slot |-> s,
                                          moved |-> 0]]
  BY DEF RedirectDone
<1>4. /\ uio \in [Uios -> Uio] /\ uio' \in [Uios -> Uio]
      /\ thread \in [Keys -> {Idle} \cup Moving] /\ DOMAIN bounce = Slots
      /\ pending \in [Slots -> Pending \cup {Free}] /\ DOMAIN bounce[s] = Units
  BY <1>1 DEF IInv, Typed
<1>5. /\ p # Free /\ p.key = k /\ thread[k].at # "uiomove"
      /\ uio[u].offset = o /\ uio[u].resid = n /\ uio[u].rw = p.rw
      /\ \A i \in 0 .. n - 1 : bounce[s][i] = 0
  BY <1>1, <1>2 DEF IInv, Running, Doing
<1>6. u \in Uios /\ n \in 1 .. Max /\ o \in 0 .. End /\ o + n <= End /\ p.rw \in Rw
  <2>1. o + n <= End
    BY <1>1, <1>2, <1>5 DEF IInv, Running, Slot
  <2> QED BY <1>1, <1>4, <1>5, <2>1, TakenSlot
<1>7. Asked' = Asked
  <2>1. uio[u] \in Uio
    BY <1>4, <1>6
  <2> DEFINE y == [uio[u] EXCEPT !.segment = "physical"]
  <2>2. /\ y.offset = uio[u].offset /\ y.resid = uio[u].resid
        /\ y.at = uio[u].at /\ y.rw = uio[u].rw
    BY <2>1 DEF Uio
  <2>3. uio' = [uio EXCEPT ![u] = y]
    BY <1>3
  <2> HIDE DEF y, u
  <2> QED BY <1>4, <1>6, <2>2, <2>3, AskedStays
<1>8. Array' = Array
  BY <1>3, ArrayStays
<1>9. /\ thread'[k].at = "uiomove" /\ thread'[k].uio = u /\ thread'[k].slot = s
      /\ thread'[k].moved = 0 /\ \A j \in Keys \ {k} : thread'[j] = thread[j]
  BY <1>1, <1>3, <1>4
<1>10. \A j \in Keys : thread[j].at = "uiomove" =>
         /\ thread[j].slot \in Slots \ {s} /\ thread[j].uio # u
  <2>1. SUFFICES ASSUME NEW j \in Keys, thread[j].at = "uiomove"
                 PROVE  thread[j].slot \in Slots \ {s} /\ thread[j].uio # u
    OBVIOUS
  <2>2. /\ thread[j].slot \in Slots /\ pending[thread[j].slot] # Free
        /\ pending[thread[j].slot].key = j /\ pending[thread[j].slot].uio = thread[j].uio
    BY <1>2, <2>1, ThreadFields DEF IInv, Running, Thread
  <2>3. thread[j].slot # s
    BY <1>5, <2>1, <2>2
  <2> QED BY <1>1, <1>2, <1>5, <2>2, <2>3 DEF IInv, Running, Slot
<1>11. \A r \in Slots \ {s} : bounce'[r] = bounce[r]
  BY <1>4 DEF RedirectDone
<1>12. \A j \in Keys \ {k} : Request(j)' = Request(j)
  <2>1. SUFFICES ASSUME NEW j \in Keys \ {k} PROVE Request(j)' = Request(j)
    OBVIOUS
  <2>2. CASE thread[j].at = "uiomove"
    <3>1. Request(j) = Held(j) /\ Request(j)' = Held(j)'
      BY <1>2, <1>3, <1>9, <2>2, RequestIs, RequestIsThen DEF Matching
    <3>2. /\ thread'[j] = thread[j] /\ pending' = pending
          /\ bounce'[thread[j].slot] = bounce[thread[j].slot]
      BY <1>3, <1>9, <1>10, <1>11, <2>2
    <3>3. Held(j)' = Held(j)
      BY <3>2 DEF Held
    <3> QED BY <3>1, <3>3
  <2>3. CASE thread[j].at # "uiomove"
    BY <1>9, <2>3, RequestIs, RequestIsThen DEF Matching
  <2> QED BY <2>2, <2>3
<1>13. \A i \in 0 .. n - 1 : bounce'[s][i] = IF p.rw = "read" THEN Array[o + i] ELSE 0
  <2>1. SUFFICES ASSUME NEW i \in 0 .. n - 1
                 PROVE  bounce'[s][i] = IF p.rw = "read" THEN Array[o + i] ELSE 0
    OBVIOUS
  <2>2. i \in Units /\ i < n
    BY <1>6, Bounds
  <2>3. CASE p.rw = "write"
    <3>1. bounce' = [bounce EXCEPT ![s] = bounce[s]]
      BY <2>3 DEF RedirectDone
    <3>2. bounce'[s] = bounce[s]
      BY <1>1, <1>4, <3>1
    <3> QED BY <1>5, <2>1, <2>3, <3>2
  <2>4. CASE p.rw # "write"
    <3>1. bounce' = [bounce EXCEPT ![s] =
                       [j \in Units |-> IF j < n THEN Contents(o, n)[j]
                                        ELSE bounce[s][j]]]
      BY <2>4 DEF RedirectDone
    <3>2. bounce'[s][i] = Contents(o, n)[i]
      BY <1>1, <1>4, <2>2, <3>1
    <3>3. o \in Nat /\ n \in Nat /\ n <= Max
      BY <1>6, Bounds
    <3> HIDE DEF n, o
    <3>4. Contents(o, n)[i] = Array[o + i]
      BY <1>6, <3>3, ContentsAre
    <3> QED BY <1>6, <2>4, <3>2, <3>4 DEF Rw
  <2> QED BY <2>3, <2>4
<1>14. Request(k)' = [uio |-> u, offset |-> o, moved |-> 0,
                      data |-> [i \in 0 .. n - 1 |-> IF p.rw = "read" THEN Array[o + i]
                                                     ELSE 0]]
  <2>1. Request(k)' = Held(k)'
    BY <1>1, <1>2, <1>3, <1>9, RequestIsThen DEF Matching
  <2>2. Held(k)' = [uio |-> u, offset |-> pending'[s].offset, moved |-> 0,
                    data |-> [i \in 0 .. pending'[s].residual - 1 |-> bounce'[s][i]]]
    BY <1>9 DEF Held
  <2>3. pending'[s].offset = o /\ pending'[s].residual = n
    BY <1>3
  <2> HIDE DEF n, o, u, p
  <2> QED BY <1>13, <2>1, <2>2, <2>3
<1>15. \A j \in Keys : Requests[j].uio # u
  BY <1>6, <1>10, NobodyAsks DEF Requests
<1>16. Requests[k] = NoRequest
  BY <1>1, <1>5, RequestIs DEF Requests, Matching
<1>17. Requests' = [Requests EXCEPT ![k] = Request(k)']
  BY <1>12 DEF Requests
<1>18. /\ Asked[u].offset = o /\ Asked[u].resid = n /\ Asked[u].rw = p.rw
  BY <1>5, <1>6, AskedAt
<1>19. Disk!Begin(k, u) <=>
         /\ Requests[k] = NoRequest
         /\ Asked[u].offset + Asked[u].resid <= End
         /\ \A j \in Keys : Requests[j].uio # u
         /\ Requests' = [Requests EXCEPT ![k] =
              [uio |-> u, offset |-> Asked[u].offset, moved |-> 0,
               data |-> [i \in 0 .. Asked[u].resid - 1 |->
                           IF Asked[u].rw = "read" THEN Array[Asked[u].offset + i]
                           ELSE 0]]]
         /\ UNCHANGED <<Array, user, Asked, page, halted>>
  BY DEF Disk!Begin, Disk!NoRequest, NoRequest, Asked, Requests
<1> HIDE DEF n, o, u, p
<1>20. Disk!Begin(k, u)
  BY <1>3, <1>6, <1>7, <1>8, <1>14, <1>15, <1>16, <1>17, <1>18, <1>19
<1> QED BY <1>1, <1>6, <1>20

(* A unit between the user and the buffer.                                  *)
LEMMA UiomoveIsMove ==
  ASSUME RawBridgeAssumption, IInv, IInv', NEW k \in Keys, NEW u, NEW s,
         u = thread[k].uio, s = thread[k].slot, uiomove(k)
  PROVE  Disk!Move(k)
<1> DEFINE i == thread[k].moved
           at == uio[u].at
           n == pending[s].residual
           o == pending[s].offset
           c == [j \in 0 .. n - 1 |-> bounce[s][j]]
<1>1. /\ ~halted /\ thread[k].at = "uiomove" /\ uio[u].resid > 0
      /\ media' = media /\ guard_tail' = guard_tail /\ pending' = pending
      /\ page' = page /\ halted' = halted /\ Advance(u, 1)
      /\ thread' = [thread EXCEPT ![k].moved = i + 1]
  BY DEF uiomove
<1>2. u \in Uios /\ s \in Slots /\ i \in 0 .. Max
  BY <1>1, ThreadFields
<1>3. /\ uio \in [Uios -> Uio] /\ thread \in [Keys -> {Idle} \cup Moving]
      /\ DOMAIN bounce = Slots /\ DOMAIN bounce[s] = Units
      /\ pending \in [Slots -> Pending \cup {Free}]
  BY <1>2 DEF IInv, Typed
<1>4. /\ pending[s] # Free /\ pending[s].key = k /\ i + uio[u].resid = n
  BY <1>1 DEF IInv, Running, Thread
<1>5. n \in 1 .. Max /\ uio[u].resid \in Nat /\ uio[u].rw \in Rw
  BY <1>2, <1>3, <1>4, TakenSlot, UioFields
<1>6. i \in 0 .. n - 1 /\ i \in Units
  <2> DEFINE m == uio[u].resid
  <2>1. m \in Nat /\ m > 0 /\ i + m = n
    BY <1>1, <1>4, <1>5
  <2> HIDE DEF i, m, n
  <2> QED BY <1>2, <1>5, <2>1, Bounds
<1>7. /\ thread'[k].at = "uiomove" /\ thread'[k].uio = u /\ thread'[k].slot = s
      /\ thread'[k].moved = i + 1 /\ \A j \in Keys \ {k} : thread'[j] = thread[j]
  <2>1. thread[k] \in Moving
    BY <1>1, <1>3, MovingThread
  <2> DEFINE y == [thread[k] EXCEPT !.moved = i + 1]
  <2>2. thread' = [thread EXCEPT ![k] = y] /\ DOMAIN thread = Keys
    BY <1>1, <1>3
  <2>3. y.at = "uiomove" /\ y.uio = u /\ y.slot = s /\ y.moved = i + 1
    BY <1>1, <2>1 DEF Moving
  <2> HIDE DEF y, i
  <2>4. thread'[k] = y /\ \A j \in Keys \ {k} : thread'[j] = thread[j]
    BY <2>2
  <2> QED BY <2>3, <2>4
<1>8. \A j \in Keys \ {k} : thread[j].at = "uiomove" => thread[j].slot \in Slots \ {s}
  <2>1. SUFFICES ASSUME NEW j \in Keys \ {k}, thread[j].at = "uiomove"
                 PROVE  thread[j].slot \in Slots \ {s}
    OBVIOUS
  <2>2. thread[j].slot \in Slots /\ pending[thread[j].slot].key = j
    BY <1>1, <2>1, ThreadFields DEF IInv, Running, Thread
  <2> QED BY <1>4, <2>2
<1>9. \A r \in Slots \ {s} : bounce'[r] = bounce[r]
  BY <1>3 DEF uiomove
<1>10. \A j \in Keys \ {k} : Request(j)' = Request(j)
  <2>1. SUFFICES ASSUME NEW j \in Keys \ {k} PROVE Request(j)' = Request(j)
    OBVIOUS
  <2>2. CASE thread[j].at = "uiomove"
    <3>1. Request(j) = Held(j) /\ Request(j)' = Held(j)'
      BY <1>1, <1>7, <2>2, RequestIs, RequestIsThen DEF Matching
    <3>2. /\ thread'[j] = thread[j] /\ pending' = pending
          /\ bounce'[thread[j].slot] = bounce[thread[j].slot]
      BY <1>1, <1>7, <1>8, <1>9, <2>2
    <3>3. Held(j)' = Held(j)
      BY <3>2 DEF Held
    <3> QED BY <3>1, <3>3
  <2>3. CASE thread[j].at # "uiomove"
    BY <1>7, <2>3, RequestIs, RequestIsThen DEF Matching
  <2> QED BY <2>2, <2>3
<1>11. Requests' = [Requests EXCEPT ![k] = Request(k)']
  BY <1>10 DEF Requests
<1>12. Requests[k] = [uio |-> u, offset |-> o, data |-> c, moved |-> i]
  BY <1>1, RequestIs DEF Requests, Matching, Held
<1>13. Request(k)' = [uio |-> u, offset |-> o,
                      data |-> [j \in 0 .. n - 1 |-> bounce'[s][j]], moved |-> i + 1]
  <2>1. Request(k)' = Held(k)'
    BY <1>1, <1>7, RequestIsThen DEF Matching
  <2>2. Held(k)' = [uio |-> u, offset |-> pending'[s].offset,
                    data |-> [j \in 0 .. pending'[s].residual - 1 |-> bounce'[s][j]],
                    moved |-> i + 1]
    BY <1>7 DEF Held
  <2> QED BY <1>1, <2>1, <2>2
<1>14. /\ Asked' = [Asked EXCEPT ![u].offset = @ + 1, ![u].resid = @ - 1, ![u].at = @ + 1]
       /\ Array' = Array
  <2>1. 1 \in Nat /\ 1 <= uio[u].resid
    BY <1>1, <1>5
  <2> QED BY <1>1, <1>2, <1>3, <2>1, AskedAdvances, ArrayStays
<1>15. Asked[u].resid = uio[u].resid /\ Asked[u].rw = uio[u].rw /\ Asked[u].at = at
  BY <1>2, AskedAt
<1>16. Disk!Move(k) <=>
         /\ Requests[k] # NoRequest
         /\ Asked[Requests[k].uio].resid > 0
         /\ IF Asked[Requests[k].uio].rw = "read"
            THEN /\ user' = [user EXCEPT ![Requests[k].uio][Asked[Requests[k].uio].at]
                                           = Requests[k].data[Requests[k].moved]]
                 /\ Requests' = [Requests EXCEPT ![k].moved = @ + 1]
            ELSE /\ Requests' = [Requests EXCEPT ![k].moved = @ + 1,
                                    ![k].data[Requests[k].moved]
                                      = user[Requests[k].uio][Asked[Requests[k].uio].at]]
                 /\ UNCHANGED user
         /\ Asked' = Disk!Advanced(Requests[k].uio, 1)
         /\ UNCHANGED <<Array, page, halted>>
  BY DEF Disk!Move, Disk!NoRequest, NoRequest, Asked, Requests
<1>17. Disk!Advanced(u, 1)
         = [Asked EXCEPT ![u].offset = @ + 1, ![u].resid = @ - 1, ![u].at = @ + 1]
  BY DEF Disk!Advanced, Asked
<1>18. /\ Requests[k].uio = u /\ Requests[k].moved = i /\ Requests[k] # NoRequest
       /\ Requests[k].data[i] = bounce[s][i]
       /\ DOMAIN Requests = Keys
  <2>1. DOMAIN Requests[k] # DOMAIN NoRequest
    <3>1. "moved" \in DOMAIN Requests[k] /\ "moved" \notin DOMAIN NoRequest
      BY <1>12 DEF NoRequest
    <3> QED BY <3>1
  <2>2. c[i] = bounce[s][i] /\ DOMAIN Requests = Keys
    BY <1>6 DEF Requests
  <2> HIDE DEF i, n, c
  <2> QED BY <1>12, <2>1, <2>2
<1>19. CASE uio[u].rw = "read"
  <2>1. user' = [user EXCEPT ![u][at] = bounce[s][i]] /\ bounce' = bounce
    BY <1>19 DEF uiomove
  <2>2. Request(k)' = [uio |-> u, offset |-> o, data |-> c, moved |-> i + 1]
    BY <1>13, <2>1
  <2> HIDE DEF i, at, n, o, c
  <2> DEFINE r == Requests[k]
  <2>r. r = [uio |-> u, offset |-> o, data |-> c, moved |-> i]
    BY <1>12
  <2> HIDE DEF r
  <2>3. Request(k)' = [r EXCEPT !.moved = @ + 1]
    BY <2>2, <2>r
  <2>4. Requests' = [Requests EXCEPT ![k].moved = @ + 1]
    BY <1>11, <2>3 DEF r
  <2> QED BY <1>1, <1>14, <1>15, <1>16, <1>17, <1>18, <1>19, <2>1, <2>4
<1>20. CASE uio[u].rw # "read"
  <2>1. bounce' = [bounce EXCEPT ![s][i] = user[u][at]] /\ user' = user
    BY <1>20 DEF uiomove
  <2>2. \A j \in 0 .. n - 1 : bounce'[s][j] = IF j = i THEN user[u][at] ELSE bounce[s][j]
    <3>1. 0 .. n - 1 \subseteq Units
      BY <1>5, Bounds
    <3> HIDE DEF n, i, at
    <3> QED BY <1>2, <1>3, <2>1, <3>1
  <2>3. Request(k)' = [uio |-> u, offset |-> o, data |-> [c EXCEPT ![i] = user[u][at]],
                       moved |-> i + 1]
    <3> HIDE DEF n, i, at, o
    <3> QED BY <1>6, <1>13, <2>2
  <2> HIDE DEF i, at, n, o, c
  <2>4. Requests' = [Requests EXCEPT ![k].moved = @ + 1, ![k].data[i] = user[u][at]]
    <3> DEFINE r == Requests[k]
               v == user[u][at]
    <3>r. r = [uio |-> u, offset |-> o, data |-> c, moved |-> i]
      BY <1>12
    <3> HIDE DEF r, v
    <3>1. [[r EXCEPT !.moved = @ + 1] EXCEPT !.data[i] = v]
            = [uio |-> u, offset |-> o, data |-> [c EXCEPT ![i] = v], moved |-> i + 1]
      <4>1. [r EXCEPT !.moved = @ + 1]
              = [uio |-> u, offset |-> o, data |-> c, moved |-> i + 1]
        BY <3>r
      <4>2. [[uio |-> u, offset |-> o, data |-> c, moved |-> i + 1] EXCEPT !.data[i] = v]
              = [uio |-> u, offset |-> o, data |-> [c EXCEPT ![i] = v], moved |-> i + 1]
        OBVIOUS
      <4> QED BY <4>1, <4>2
    <3>2. [Requests EXCEPT ![k].moved = @ + 1, ![k].data[i] = v]
            = [Requests EXCEPT ![k] = [[r EXCEPT !.moved = @ + 1] EXCEPT !.data[i] = v]]
      BY <1>18 DEF r
    <3> QED BY <1>11, <2>3, <3>1, <3>2 DEF v
  <2> QED BY <1>1, <1>14, <1>15, <1>16, <1>17, <1>18, <1>20, <2>1, <2>4
<1> QED BY <1>19, <1>20

(* What was moved is written at once, and the request is over.               *)
LEMMA CompletionDoneIsEnd ==
  ASSUME RawBridgeAssumption, IInv, IInv', io.for = "completion",
         NEW k, NEW s, k = io.key, s = io.slot, CompletionDone(k, s)
  PROVE  k \in Keys /\ Disk!End(k)
<1> DEFINE p == pending[s]
           u == p.uio
           n == io.done
           o == p.offset
           c == [i \in 0 .. p.residual - 1 |-> bounce[s][i]]
<1>1. io # NoIo /\ k \in Keys /\ s \in Slots /\ n \in 0 .. Max
  BY IoFields DEF IInv, Typed
<1>2. ~halted
  BY <1>1 DEF IInv
<1>3. /\ pending' = [pending EXCEPT ![s] = Free] /\ thread' = [thread EXCEPT ![k] = Idle]
      /\ bounce' = bounce /\ uio' = uio /\ user' = user /\ page' = page
      /\ halted' = halted
  BY DEF CompletionDone
<1>4. /\ uio \in [Uios -> Uio] /\ thread \in [Keys -> {Idle} \cup Moving]
      /\ pending \in [Slots -> Pending \cup {Free}]
  BY DEF IInv, Typed
<1>5. /\ p # Free /\ p.key = k /\ thread[k].at = "uiomove" /\ thread[k].slot = s
      /\ n = thread[k].moved
  BY <1>1, <1>2 DEF IInv, Running, Doing
<1>6. /\ thread[k].uio = u /\ p.rw = uio[u].rw /\ n + uio[u].resid = p.residual
  BY <1>1, <1>2, <1>5 DEF IInv, Running, Thread
<1>7. /\ u \in Uios /\ p.residual \in 1 .. Max /\ o \in 0 .. End
      /\ o + p.residual <= End /\ uio[u].resid \in Nat
  <2>1. o + p.residual <= End
    BY <1>1, <1>2, <1>5 DEF IInv, Running, Slot
  <2> QED BY <1>1, <1>4, <1>5, <2>1, TakenSlot, UioFields
<1>8. o \in Nat /\ n \in Nat /\ n <= Max /\ o + n <= End /\ n <= p.residual
  <2> DEFINE m == p.residual
             l == uio[u].resid
  <2>1. n + l = m /\ m \in 1 .. Max /\ l \in Nat /\ o + m <= End /\ o \in 0 .. End
    BY <1>6, <1>7
  <2> HIDE DEF m, l, n, o
  <2>2. n <= m /\ o \in Nat /\ n \in Nat /\ n <= Max /\ o + n <= End
    BY <1>1, <2>1, Bounds
  <2> QED BY <2>2 DEF m
<1>9. /\ thread'[k] = Idle /\ \A j \in Keys \ {k} : thread'[j] = thread[j]
      /\ \A r \in Slots \ {s} : pending'[r] = pending[r]
  BY <1>1, <1>3, <1>4
<1>10. \A j \in Keys \ {k} : thread[j].at = "uiomove" => thread[j].slot \in Slots \ {s}
  <2>1. SUFFICES ASSUME NEW j \in Keys \ {k}, thread[j].at = "uiomove"
                 PROVE  thread[j].slot \in Slots \ {s}
    OBVIOUS
  <2>2. thread[j].slot \in Slots /\ pending[thread[j].slot].key = j
    BY <1>2, <2>1, ThreadFields DEF IInv, Running, Thread
  <2> QED BY <1>5, <2>2
<1>11. \A j \in Keys \ {k} : Request(j)' = Request(j)
  <2>1. SUFFICES ASSUME NEW j \in Keys \ {k} PROVE Request(j)' = Request(j)
    OBVIOUS
  <2>2. CASE thread[j].at = "uiomove"
    <3>1. Request(j) = Held(j) /\ Request(j)' = Held(j)'
      BY <1>2, <1>3, <1>9, <2>2, RequestIs, RequestIsThen DEF Matching
    <3>2. /\ thread'[j] = thread[j] /\ bounce' = bounce
          /\ pending'[thread[j].slot] = pending[thread[j].slot]
      BY <1>3, <1>9, <1>10, <2>2
    <3>3. Held(j)' = Held(j)
      BY <3>2 DEF Held
    <3> QED BY <3>1, <3>3
  <2>3. CASE thread[j].at # "uiomove"
    BY <1>9, <2>3, RequestIs, RequestIsThen DEF Matching
  <2> QED BY <2>2, <2>3
<1>12. Request(k)' = NoRequest
  <2>1. thread'[k].at # "uiomove"
    BY <1>9 DEF Idle
  <2> QED BY <1>1, <2>1, RequestIsThen DEF Matching
<1>13. Requests' = [Requests EXCEPT ![k] = NoRequest]
  BY <1>11, <1>12 DEF Requests
<1>14. Requests[k] = [uio |-> u, offset |-> o, data |-> c, moved |-> n]
  BY <1>1, <1>2, <1>5, <1>6, RequestIs DEF Requests, Matching, Held
<1>15. Asked' = Asked
  BY <1>3 DEF Asked
<1>16. Disk!End(k) <=>
         /\ Requests[k] # NoRequest
         /\ Array' = IF Asked[Requests[k].uio].rw = "write"
                     THEN Disk!Stored(Requests[k].offset, Requests[k].moved,
                                      Requests[k].data)
                     ELSE Array
         /\ Requests' = [Requests EXCEPT ![k] = NoRequest]
         /\ UNCHANGED <<user, Asked, page, halted>>
  BY DEF Disk!End, Disk!NoRequest, NoRequest, Asked, Requests
<1>17. /\ Requests[k].uio = u /\ Requests[k].moved = n /\ Requests[k].offset = o
       /\ Requests[k].data = c /\ Requests[k] # NoRequest
  <2>1. DOMAIN Requests[k] # DOMAIN NoRequest
    <3>1. "moved" \in DOMAIN Requests[k] /\ "moved" \notin DOMAIN NoRequest
      BY <1>14 DEF NoRequest
    <3> QED BY <3>1
  <2> HIDE DEF c, u, n, o, p
  <2> QED BY <1>14, <2>1
<1>18. Asked[u].rw = p.rw
  BY <1>6, <1>7, AskedAt
<1>19. CASE p.rw = "write"
  <2>1. PutMedia(o, media_prefix_length(o, n), bounce[s]) /\ PutGuard(o, n, bounce[s])
    BY <1>19 DEF CompletionDone
  <2> DEFINE d == bounce[s]
  <2>2. Array' = [b \in 0 .. End - 1 |->
                    IF b \in o .. o + n - 1 THEN d[b - o] ELSE Array[b]]
    <3> HIDE DEF o, n, d
    <3> QED BY <1>8, <2>1, PutIsStored DEF d
  <2>3. Disk!Stored(o, n, c)
          = [b \in 0 .. End - 1 |->
               IF b \in o .. o + n - 1 THEN c[b - o] ELSE Array[b]]
    BY DEF Disk!Stored, Array
  <2>4. ASSUME NEW b \in 0 .. End - 1, b \in o .. o + n - 1 PROVE c[b - o] = d[b - o]
    <3> DEFINE m == p.residual
    <3>1. m \in 1 .. Max /\ n <= m
      BY <1>7, <1>8
    <3> HIDE DEF o, n, m
    <3>2. b - o \in 0 .. m - 1
      BY <1>8, <2>4, <3>1, Bounds
    <3> QED BY <3>2 DEF m
  <2> HIDE DEF o, n, c, d
  <2>5. Array' = Disk!Stored(o, n, c)
    BY <2>2, <2>3, <2>4
  <2> HIDE DEF u, p
  <2> QED BY <1>1, <1>3, <1>13, <1>15, <1>16, <1>17, <1>18, <1>19, <2>5
<1>20. CASE p.rw # "write"
  <2>1. Array' = Array
    BY <1>20, ArrayStays DEF CompletionDone
  <2> HIDE DEF o, n, c, u, p
  <2> QED BY <1>1, <1>3, <1>13, <1>15, <1>16, <1>17, <1>18, <1>20, <2>1
<1> QED BY <1>19, <1>20

(* A page comes, or goes.                                                   *)
LEMMA StrategyDoneIsPage ==
  ASSUME RawBridgeAssumption, IInv, NEW b, NEW rw, b = io.block, rw = io.rw,
         io.for = "page", StrategyDone(b, rw)
  PROVE  b \in DOMAIN Array /\ Disk!Page(b)
<1>1. io # NoIo /\ b \in 0 .. MEDIA - 1 /\ rw \in Rw
  BY IoFields DEF IInv, Typed
<1>2. ~halted
  BY <1>1 DEF IInv
<1>3. /\ guard_tail' = guard_tail /\ pending' = pending /\ bounce' = bounce
      /\ uio' = uio /\ user' = user /\ thread' = thread /\ halted' = halted
  BY DEF StrategyDone
<1>4. b \in 0 .. End - 1 /\ b < MEDIA /\ b \in Nat
  BY <1>1, Bounds
<1>5. DOMAIN Array = 0 .. End - 1 /\ Array[b] = media[b]
  BY <1>4, ArrayAt DEF Array
<1>6. Requests' = Requests /\ Asked' = Asked
  BY <1>3, RequestsStay DEF Asked
<1>7. Disk!Page(b) <=>
        /\ \/ page' = [by |-> "device", data |-> Array[b]] /\ UNCHANGED Array
           \/ /\ page.by = "guest"
              /\ Array' = [Array EXCEPT ![b] = page.data]
              /\ UNCHANGED page
        /\ UNCHANGED <<user, Asked, Requests, halted>>
  BY DEF Disk!Page, Asked, Requests
<1>8. CASE rw = "read"
  <2>1. page' = [by |-> "device", data |-> media[b]] /\ media' = media
    BY <1>8 DEF StrategyDone
  <2>2. Array' = Array
    BY <1>3, <2>1, ArrayStays
  <2> QED BY <1>3, <1>4, <1>5, <1>6, <1>7, <2>1, <2>2
<1>9. CASE rw = "write"
  <2>1. media' = [media EXCEPT ![b] = page.data] /\ page' = page
    BY <1>9 DEF StrategyDone
  <2>2. page.by = "guest"
    BY <1>1, <1>2, <1>9 DEF IInv, Running, Doing
  <2>3. Array' = [Array EXCEPT ![b] = page.data]
    <3>1. DOMAIN media = 0 .. MEDIA - 1
      BY DEF IInv, Typed
    <3>2. ASSUME NEW a \in 0 .. End - 1
          PROVE  (IF a < MEDIA THEN media'[a] ELSE guard_tail'[a - MEDIA])
                    = IF a = b THEN page.data ELSE Array[a]
      <4>1. CASE a < MEDIA
        <5>1. a \in 0 .. MEDIA - 1
          BY <4>1, Bounds
        <5> QED BY <2>1, <3>1, <4>1, <5>1, ArrayAt
      <4>2. CASE ~(a < MEDIA)
        BY <1>3, <1>4, <4>2, ArrayAt
      <4> QED BY <4>1, <4>2
    <3>3. Array' = [a \in 0 .. End - 1 |-> IF a = b THEN page.data ELSE Array[a]]
      BY <3>2 DEF Array
    <3> QED BY <1>5, <3>3
  <2> QED BY <1>3, <1>4, <1>5, <1>6, <1>7, <2>1, <2>2, <2>3
<1> QED BY <1>1, <1>8, <1>9 DEF Rw

(* A segment that is restored is nothing that was asked for.                 *)
LEMMA RestoredKeeps ==
  ASSUME IInv, NEW s \in Slots, pending[s] # Free
  PROVE  \A v \in Uios : /\ Restored(s)[v].offset = uio[v].offset
                         /\ Restored(s)[v].resid = uio[v].resid
                         /\ Restored(s)[v].at = uio[v].at
                         /\ Restored(s)[v].rw = uio[v].rw
<1> DEFINE u == pending[s].uio
           y == [uio[u] EXCEPT !.segment = pending[s].segment]
<1>1. u \in Uios /\ uio \in [Uios -> Uio]
  BY TakenSlot DEF IInv, Typed
<1>2. uio[u] \in Uio
  BY <1>1
<1>3. /\ y.offset = uio[u].offset /\ y.resid = uio[u].resid
      /\ y.at = uio[u].at /\ y.rw = uio[u].rw
  BY <1>2 DEF Uio
<1>4. Restored(s) = [uio EXCEPT ![u] = y]
  BY DEF Restored
<1> HIDE DEF u, y
<1> QED BY <1>1, <1>3, <1>4

(* The machine stops, and of a write in progress the backend took what it
   took.                                                                    *)
LEMMA HaltedAsks ==
  ASSUME IInv', halted' = TRUE
  PROVE  Requests' = [k \in Keys |-> NoRequest]
BY RequestIsThen DEF Requests, Matching

LEMMA MalformedIsHalt ==
  ASSUME IInv, IInv', NEW k \in Keys, MalformedCompletion(k) \/ Malformed(k)
  PROVE  Disk!Halt
<1>1. /\ ~halted /\ halted' = TRUE /\ media' = media /\ guard_tail' = guard_tail
      /\ user' = user /\ page' = page
  BY DEF MalformedCompletion, Malformed, Fail, bridge, guest
<1>2. Asked' = Asked
  <2>1. CASE Malformed(k)
    BY <2>1 DEF Malformed, guest, Asked
  <2>2. CASE MalformedCompletion(k)
    <3>1. PICK s \in find_pending(k) : uio' \in {uio, Restored(s)}
      BY <2>2 DEF MalformedCompletion
    <3>2. s \in Slots /\ pending[s] # Free
      BY DEF find_pending
    <3>3. \A v \in Uios : /\ Restored(s)[v].offset = uio[v].offset
                          /\ Restored(s)[v].resid = uio[v].resid
                          /\ Restored(s)[v].at = uio[v].at
                          /\ Restored(s)[v].rw = uio[v].rw
      BY <3>2, RestoredKeeps
    <3>4. uio' \in [Uios -> Uio]
      BY DEF IInv, Typed
    <3> QED BY <3>1, <3>3, <3>4, AskedStays
  <2> QED BY <2>1, <2>2
<1>3. Array' = Array
  BY <1>1, ArrayStays
<1>4. Requests' = [j \in Keys |-> NoRequest]
  BY <1>1, HaltedAsks
<1>5. (/\ ~halted /\ halted' = TRUE /\ Requests' = [j \in Keys |-> NoRequest]
       /\ UNCHANGED <<user, Asked, page>> /\ UNCHANGED Array) => Disk!Halt
  BY DEF Disk!Halt, Disk!NoRequest, NoRequest, Asked, Requests
<1> QED BY <1>1, <1>2, <1>3, <1>4, <1>5

LEMMA BlockFailsIsHalt ==
  ASSUME RawBridgeAssumption, IInv, IInv', BlockFails
  PROVE  Disk!Halt
<1>1. /\ io # NoIo /\ halted' = TRUE /\ guard_tail' = guard_tail
      /\ uio' = uio /\ user' = user /\ page' = page
  BY DEF BlockFails, Fail, guest
<1>2. ~halted
  BY <1>1 DEF IInv
<1>3. Asked' = Asked
  BY <1>1 DEF Asked
<1>4. Requests' = [j \in Keys |-> NoRequest]
  BY <1>1, HaltedAsks
<1>5. io.t \in Transfer /\ io.t.done \in Nat /\ io.t.length \in Nat
      /\ io.t.done <= io.t.length
  BY <1>1, <1>2, IoFields DEF IInv, Typed, Transfer, Running, Doing, Turning
<1>6. (/\ ~halted /\ halted' = TRUE /\ Requests' = [j \in Keys |-> NoRequest]
       /\ UNCHANGED <<user, Asked, page>>
       /\ \/ UNCHANGED Array
          \/ \E k \in {j \in Keys : Requests[j] # NoRequest} :
             \E n \in 0 .. Requests[k].moved :
               /\ Asked[Requests[k].uio].rw = "write"
               /\ Array' = Disk!Stored(Requests[k].offset, n, Requests[k].data)
          \/ \E u \in Uios : \E n \in 0 .. Asked[u].resid :
               /\ Asked[u].rw = "write"
               /\ Asked[u].at + n <= Max /\ Asked[u].offset + n <= End
               /\ Array' = Disk!Stored(Asked[u].offset, n, Disk!Taken(u, n)))
        => Disk!Halt
  BY DEF Disk!Halt, Disk!NoRequest, NoRequest, Asked, Requests
<1>7. ASSUME NEW o \in Nat, NEW m \in Nat, NEW c, NEW d,
             Array' = [b \in 0 .. End - 1 |->
                         IF b \in o .. o + m - 1 THEN d[b - o] ELSE Array[b]],
             \A i \in 0 .. m - 1 : c[i] = d[i]
      PROVE  Array' = Disk!Stored(o, m, c)
  <2>1. Disk!Stored(o, m, c)
          = [b \in 0 .. End - 1 |->
               IF b \in o .. o + m - 1 THEN c[b - o] ELSE Array[b]]
    BY DEF Disk!Stored, Array
  <2>2. ASSUME NEW b \in 0 .. End - 1, b \in o .. o + m - 1 PROVE b - o \in 0 .. m - 1
    BY <2>2, Bounds
  <2> QED BY <1>7, <2>1, <2>2
<1>8. CASE io.for = "direct" /\ uio[io.uio].rw = "write"
  <2> DEFINE u == io.uio
             n == io.t.done
             l == uio[u].resid
             o == uio[u].offset
             at == uio[u].at
             d == [i \in 0 .. n - 1 |-> user[u][at + i]]
             p == media_prefix_length(o, l)
  <2>1. u \in Uios /\ uio \in [Uios -> Uio]
    BY <1>8, IoFields DEF IInv, Typed
  <2>2. l \in Nat /\ o \in Nat /\ at \in Nat
    BY <2>1, UioFields
  <2>3. l <= Max /\ o + l <= End /\ io.t.length <= p
    BY <1>2, <1>8 DEF IInv, Running, Doing
  <2>4. PutMedia(o, n, d)
    BY <1>8 DEF BlockFails
  <2>5. at > 0 => at + l <= Max
    BY <1>2, <2>1 DEF IInv, Running, Place
  <2>6. /\ Asked[u].offset = o /\ Asked[u].resid = l /\ Asked[u].at = at
        /\ Asked[u].rw = "write"
    BY <1>8, <2>1, AskedAt
  <2>7. Disk!Taken(u, n) = [i \in 0 .. n - 1 |-> user[u][Asked[u].at + i]]
    BY DEF Disk!Taken, Asked
  <2> HIDE DEF l, o, at, p
  <2>8. Disk!Taken(u, n) = d
    BY <2>6, <2>7
  <2> HIDE DEF n, d, u
  <2>9. p \in 0 .. l
    BY <2>2, PrefixFits DEF p
  <2>10. n \in Nat /\ n <= p
    BY <1>5, <2>3, <2>9, Bounds DEF n
  <2>11. /\ n \in 0 .. l /\ at + n <= Max /\ o + n <= End
    BY <2>2, <2>3, <2>5, <2>9, <2>10, Bounds
  <2>12. Array' = [b \in 0 .. End - 1 |->
                     IF b \in o .. o + n - 1 THEN d[b - o] ELSE Array[b]]
    BY <1>1, <2>2, <2>4, <2>10, PutIsStoredInPart DEF p
  <2>13. Array' = Disk!Stored(o, n, d)
    BY <1>7, <2>2, <2>10, <2>12
  <2> QED BY <1>1, <1>2, <1>3, <1>4, <1>6, <2>1, <2>6, <2>8, <2>11, <2>13
<1>9. CASE io.for = "completion"
  <2> DEFINE k == io.key
             s == io.slot
             n == io.t.done
             l == io.done
             o == pending[s].offset
             m == pending[s].residual
             u == pending[s].uio
             c == [i \in 0 .. m - 1 |-> bounce[s][i]]
             d == bounce[s]
             p == media_prefix_length(o, l)
  <2>1. k \in Keys /\ s \in Slots /\ l \in 0 .. Max
    BY <1>9, IoFields DEF IInv, Typed
  <2>2. /\ pending[s] # Free /\ pending[s].key = k /\ thread[k].at = "uiomove"
        /\ thread[k].slot = s /\ l = thread[k].moved
        /\ io.t.length <= IF pending[s].rw = "write" THEN p ELSE 0
    BY <1>2, <1>9 DEF IInv, Running, Doing
  <2>3. /\ thread[k].uio = u /\ pending[s].rw = uio[u].rw /\ l + uio[u].resid = m
    BY <1>2, <2>1, <2>2 DEF IInv, Running, Thread
  <2>4. u \in Uios /\ m \in 1 .. Max /\ o \in 0 .. End /\ uio[u].resid \in Nat
    BY <2>1, <2>2, TakenSlot, UioFields DEF IInv, Typed
  <2>5. PutMedia(o, n, d)
    BY <1>9 DEF BlockFails
  <2>6. Requests[k] = [uio |-> u, offset |-> o, data |-> c, moved |-> l]
    BY <1>2, <2>1, <2>2, <2>3, RequestIs DEF Requests, Matching, Held
  <2>7. Requests[k] # NoRequest
    <3>1. "moved" \in DOMAIN Requests[k] /\ "moved" \notin DOMAIN NoRequest
      BY <2>6 DEF NoRequest
    <3> QED BY <3>1
  <2>8. Asked[u].rw = pending[s].rw
    BY <2>3, <2>4, AskedAt
  <2>9. l <= m
    <3> DEFINE q == uio[u].resid
    <3>1. l + q = m /\ q \in Nat
      BY <2>3, <2>4
    <3> HIDE DEF q, l, m
    <3> QED BY <2>1, <2>4, <3>1, Bounds
  <2> HIDE DEF n, l, o, m, p
  <2>10. p \in 0 .. l /\ l \in Nat /\ o \in Nat /\ m \in Nat
    BY <2>1, <2>4, PrefixFits, Bounds DEF p
  <2>11. n \in Nat /\ n <= p
    BY <1>5, <2>2, <2>10, Bounds DEF n
  <2>12. n \in 0 .. l /\ n <= m
    BY <2>9, <2>10, <2>11
  <2>13. Array' = [b \in 0 .. End - 1 |->
                     IF b \in o .. o + n - 1 THEN d[b - o] ELSE Array[b]]
    <3> HIDE DEF d
    <3> QED BY <1>1, <2>5, <2>10, <2>11, PutIsStoredInPart DEF p
  <2>14. \A i \in 0 .. n - 1 : c[i] = d[i]
    BY <2>10, <2>11, <2>12
  <2> HIDE DEF c, d
  <2>15. Array' = Disk!Stored(o, n, c)
    BY <1>7, <2>10, <2>11, <2>13, <2>14
  <2>16. CASE pending[s].rw = "write"
    <3> HIDE DEF u, s
    <3>1. /\ Requests[k].uio = u /\ Requests[k].offset = o /\ Requests[k].data = c
          /\ Requests[k].moved = l
      BY <2>6
    <3> HIDE DEF k
    <3> QED BY <1>1, <1>2, <1>3, <1>4, <1>6, <2>1, <2>7, <2>8, <2>12, <2>15, <2>16, <3>1
  <2>17. CASE pending[s].rw # "write"
    <3>1. n = 0
      BY <1>5, <2>2, <2>11, <2>17 DEF n
    <3>2. Array' = Array
      BY <2>10, <2>13, <3>1, Bounds DEF Array
    <3> QED BY <1>1, <1>2, <1>3, <1>4, <1>6, <3>2
  <2> QED BY <2>16, <2>17
<1>10. CASE ~(io.for = "direct" /\ uio[io.uio].rw = "write") /\ io.for # "completion"
  <2>1. media' = media
    BY <1>10 DEF BlockFails
  <2>2. Array' = Array
    BY <1>1, <2>1, ArrayStays
  <2> QED BY <1>1, <1>2, <1>3, <1>4, <1>6, <2>2
<1> QED BY <1>8, <1>9, <1>10

(* A slot is taken, of which no other thread has anything.                  *)
LEMMA RedirectIsUnseen ==
  ASSUME IInv, IInv', NEW k \in Keys, NEW u \in Uios, Redirect(k, u)
  PROVE  DiskVars' = DiskVars
<1>1. /\ ~halted /\ io = NoIo /\ media' = media /\ guard_tail' = guard_tail
      /\ uio' = uio /\ user' = user /\ page' = page /\ thread' = thread
      /\ halted' = halted
  BY DEF Redirect, AtEntry, guest
<1>2. PICK s \in Slots : /\ pending[s] = Free
                         /\ \A r \in Slots \ {s} : /\ pending'[r] = pending[r]
                                                   /\ bounce'[r] = bounce[r]
  <2>1. DOMAIN pending = Slots /\ DOMAIN bounce = Slots
    BY DEF IInv, Typed
  <2> QED BY <2>1 DEF Redirect, allocate_pending
<1>3. ASSUME NEW j \in Keys PROVE Request(j)' = Request(j)
  <2>1. CASE thread[j].at = "uiomove"
    <3>1. thread[j].slot \in Slots \ {s}
      BY <1>1, <1>2, <2>1, ThreadFields DEF IInv, Running, Thread
    <3>2. /\ thread'[j] = thread[j] /\ pending'[thread[j].slot] = pending[thread[j].slot]
          /\ bounce'[thread[j].slot] = bounce[thread[j].slot]
      BY <1>1, <1>2, <3>1
    <3>3. Held(j)' = Held(j)
      BY <3>2 DEF Held
    <3> QED BY <1>1, <2>1, <3>3, RequestIs, RequestIsThen DEF Matching
  <2>2. CASE thread[j].at # "uiomove"
    BY <1>1, <2>2, RequestIs, RequestIsThen DEF Matching
  <2> QED BY <2>1, <2>2
<1>4. Requests' = Requests
  BY <1>3 DEF Requests
<1>5. Asked' = Asked /\ Array' = Array
  BY <1>1, ArrayStays DEF Asked
<1> QED BY <1>1, <1>4, <1>5 DEF DiskVars

(* What a step does that RawDisk does not see is the bridge's own.           *)
LEMMA StepIsUnseen ==
  ASSUME thread' = thread, pending' = pending, bounce' = bounce, halted' = halted,
         media' = media, guard_tail' = guard_tail, user' = user, page' = page,
         Asked' = Asked
  PROVE  DiskVars' = DiskVars
BY RequestsStay, ArrayStays DEF DiskVars

LEMMA CompletionIsUnseen ==
  ASSUME IInv, IInv', NEW k \in Keys, Completion(k)
  PROVE  DiskVars' = DiskVars
<1>1. PICK s \in find_pending(k) : uio' = Restored(s)
  BY DEF Completion
<1>2. s \in Slots /\ pending[s] # Free
  BY DEF find_pending
<1>3. uio' \in [Uios -> Uio]
  BY DEF IInv, Typed
<1>4. Asked' = Asked
  BY <1>1, <1>2, <1>3, RestoredKeeps, AskedStays
<1> QED BY <1>4, StepIsUnseen DEF Completion, bridge

LEMMA StrategyIsFill ==
  ASSUME IInv, IInv', NEW b \in DOMAIN media, NEW rw \in {"read", "write"}, Strategy(b, rw)
  PROVE  Disk!Fill \/ DiskVars' = DiskVars
<1>1. /\ media' = media /\ guard_tail' = guard_tail /\ pending' = pending
      /\ bounce' = bounce /\ uio' = uio /\ user' = user /\ thread' = thread
      /\ halted' = halted
  BY DEF Strategy, bridge
<1>2. Array' = Array /\ Requests' = Requests /\ Asked' = Asked
  BY <1>1, ArrayStays, RequestsStay DEF Asked
<1>3. (page'.by = "guest" /\ UNCHANGED <<Array, user, Asked, Requests, halted>>)
        => Disk!Fill
  BY DEF Disk!Fill, Asked, Requests
<1>4. CASE rw = "write"
  <2>1. page' = [by |-> "guest", data |-> 10 * (prepared + 1)]
    BY <1>4 DEF Strategy
  <2> QED BY <1>1, <1>2, <1>3, <2>1
<1>5. CASE rw # "write"
  <2>1. page' = page
    BY <1>5 DEF Strategy
  <2> QED BY <1>1, <1>2, <2>1 DEF DiskVars
<1> QED BY <1>4, <1>5

LEMMA StepIsDisks ==
  ASSUME RawBridgeAssumption, IInv, IInv', [Next]_vars
  PROVE  Disk!Next \/ DiskVars' = DiskVars
<1>1. CASE UNCHANGED vars
  BY <1>1, StepIsUnseen DEF vars, bridge, guest, Asked
<1>2. CASE \E u \in Uios : Prepare(u)
  BY <1>2, PrepareIsSetup DEF Disk!Next
<1>3. CASE \E k \in Keys, u \in Uios : Direct(k, u)
  BY <1>3, StepIsUnseen DEF Direct, bridge, guest, Asked
<1>4. CASE \E k \in Keys, u \in Uios : Redirect(k, u)
  BY <1>4, RedirectIsUnseen
<1>5. CASE \E k \in Keys : uiomove(k)
  BY <1>5, UiomoveIsMove DEF Disk!Next
<1>6. CASE \E k \in Keys : Completion(k)
  BY <1>6, CompletionIsUnseen
<1>7. CASE \E k \in Keys : MalformedCompletion(k) \/ Malformed(k)
  BY <1>7, MalformedIsHalt DEF Disk!Next
<1>8. CASE \E b \in DOMAIN media, rw \in {"read", "write"} : Strategy(b, rw)
  BY <1>8, StrategyIsFill DEF Disk!Next
<1>9. CASE BlockStep
  BY <1>9, StepIsUnseen DEF BlockStep, bridge, guest, Asked
<1>10. CASE BlockDone
  <2>1. io.for \in {"direct", "redirect", "completion", "page"}
    BY <1>10, IoFields DEF IInv, Typed, BlockDone
  <2>2. CASE io.for = "direct"
    <3>1. DirectDone(io.uio)
      BY <1>10, <2>2 DEF BlockDone
    <3> QED BY <2>2, <3>1, DirectDoneIsServe DEF Disk!Next
  <2>3. CASE io.for = "redirect"
    <3>1. RedirectDone(io.key, io.slot)
      BY <1>10, <2>3 DEF BlockDone
    <3> QED BY <2>3, <3>1, RedirectDoneIsBegin DEF Disk!Next
  <2>4. CASE io.for = "completion"
    <3>1. CompletionDone(io.key, io.slot)
      BY <1>10, <2>4 DEF BlockDone
    <3> QED BY <2>4, <3>1, CompletionDoneIsEnd DEF Disk!Next
  <2>5. CASE io.for = "page"
    <3>1. StrategyDone(io.block, io.rw)
      BY <1>10, <2>5 DEF BlockDone
    <3> QED BY <2>5, <3>1, StrategyDoneIsPage DEF Disk!Next
  <2> QED BY <2>1, <2>2, <2>3, <2>4, <2>5
<1>11. CASE BlockFails
  BY <1>11, BlockFailsIsHalt DEF Disk!Next
<1> QED BY <1>1, <1>2, <1>3, <1>4, <1>5, <1>6, <1>7, <1>8, <1>9, <1>10, <1>11
        DEF Next, Block

(* To the guest's kernel the two bridges are one disk, for any number of
   requests at once: a read sees the array as it was at one moment, a write
   reaches it at one moment, and the units that move between a slot and the
   user are the units of the request, in order; what is left behind when the
   machine stops is the beginning of one write.                             *)
THEOREM ImplementsRawDiskAlways == Spec => ImplementsRawDisk
<1>1. Init => Disk!Init
  BY InitIsDisk, RawBridgeAssumption
<1>2. IInv /\ IInv' /\ [Next]_vars => [Disk!Next]_(Disk!vars)
  BY StepIsDisks, Views, RawBridgeAssumption
     DEF DiskVars, Disk!vars, Asked, Requests
<1> QED BY <1>1, <1>2, IInvAlways, PTL DEF Spec, ImplementsRawDisk, Disk!Spec
=============================================================================
