----------------------------- MODULE RawBridge -----------------------------
(***************************************************************************)
(* The memory disk's two bridges over one medium.  The raw one              *)
(* (core/src/md_raw_bridge.c): the guest's read and write of the raw device *)
(* are two SVC instructions, the first is answered at once if every user    *)
(* page is there, and is otherwise sent through the guest's own uiomove     *)
(* over a bounce slot, which comes back to the second.  Kernel threads are  *)
(* told apart by their stack pointer.  The other (core/src/md_bridge.c)     *)
(* serves the block device a page at a time.                                *)
(*                                                                         *)
(* The unit is a run of bytes that is moved whole.  A request's vectors are *)
(* its memory and how far it is (`at`); a page is there or not at any entry *)
(* anew.  A failure of the bridge stops the machine (ARM_SVC_ERROR): the    *)
(* guest waits while the bridge runs, so a transfer with the backend is the *)
(* steps of VmBlock and nothing else.                                       *)
(***************************************************************************)
EXTENDS VmBlock, FiniteSets

CONSTANTS
  Keys,          \* stack pointers
  Uios,          \* uio structures
  MEDIA,         \* config.media_size
  MD_RAW_BRIDGE_MAX_TRANSFER,
  SLOTS,         \* config.bounce_slot_count
  MAX_REQUESTS   \* requests the guest prepares, a bound for TLC

ASSUME RawBridgeAssumption ==
  /\ MEDIA \in Nat \ {0}
  /\ MD_RAW_BRIDGE_MAX_TRANSFER \in Nat \ {0}
  /\ SLOTS \in Nat \ {0}
  /\ MAX_REQUESTS \in Nat
  /\ "none" \notin Uios

VARIABLES
  media,       \* the block device
  guard_tail,  \* the zone after it
  pending, bounce,
  io,          \* what vm_block_*_exact is doing, and for whom
  uio, user,   \* the requests, in the guest's memory
  page,        \* the block device's page, and who filled it
  thread,      \* where each kernel thread is
  prepared,    \* how many requests there were
  halted

bridge == <<media, guard_tail, pending, bounce>>
guest  == <<uio, user, page, thread, prepared>>
vars   == <<bridge, io, guest, halted>>

Slots == 1 .. SLOTS
Units == 0 .. MD_RAW_BRIDGE_MAX_TRANSFER - 1
Max   == MD_RAW_BRIDGE_MAX_TRANSFER
End   == MEDIA + Max                            \* guarded_media_end
Free  == [active |-> FALSE]
Idle  == [at |-> "kernel"]
NoIo  == [for |-> "none"]

Init ==
  /\ media = [b \in 0 .. MEDIA - 1 |-> 0]
  /\ guard_tail = [i \in Units |-> 0]
  /\ pending = [s \in Slots |-> Free]
  /\ bounce = [s \in Slots |-> [i \in Units |-> 0]]
  /\ io = NoIo
  /\ uio = [u \in Uios |-> [offset |-> 0, resid |-> 0, at |-> 0, rw |-> "read",
                            segment |-> "user"]]
  /\ user = [u \in Uios |-> [i \in Units |-> 0]]
  /\ page = [by |-> "device", data |-> 0]
  /\ thread = [k \in Keys |-> Idle]
  /\ prepared = 0
  /\ halted = FALSE

media_prefix_length(offset, n) ==
  IF offset >= MEDIA THEN 0 ELSE IF MEDIA - offset < n THEN MEDIA - offset ELSE n

(* Slip: a transfer that begins in the zone begins at its start.            *)
guard_tail_offset_Zero(offset) == 0

guard_tail_offset(offset) == IF offset <= MEDIA THEN 0 ELSE offset - MEDIA

(* What a slot is, or a bounce buffer will hold, for n units at offset.     *)
Contents(offset, n) ==
  LET prefix == media_prefix_length(offset, n) IN
  [i \in 0 .. n - 1 |->
     IF i < prefix THEN media[offset + i]
     ELSE guard_tail[guard_tail_offset(offset) + i - prefix]]

(* n units of data at offset, of which the backend took the first `done`.   *)
PutMedia(offset, done, data) ==
  media' = [b \in 0 .. MEDIA - 1 |->
              IF b \in offset .. offset + done - 1 THEN data[b - offset]
              ELSE media[b]]

PutGuard(offset, n, data) ==
  LET prefix == media_prefix_length(offset, n)
      first  == guard_tail_offset(offset) IN
  guard_tail' = [i \in Units |->
                   IF i \in first .. first + n - prefix - 1
                   THEN data[prefix + i - first] ELSE guard_tail[i]]

find_pending(k) == {s \in Slots : pending[s] # Free /\ pending[s].key = k}

Fail ==
  /\ halted' = TRUE
  /\ io' = NoIo

---------------------------------------------------------------------------
(* The first SVC                                                            *)

(* The guest's kernel prepares a request, of which it has no other.         *)
Prepare(u) ==
  /\ ~halted /\ io = NoIo /\ prepared < MAX_REQUESTS
  /\ \A k \in Keys : thread[k].at = "uiomove" => thread[k].uio # u
  /\ \E offset \in 0 .. End, resid \in 1 .. Max + 1, rw \in {"read", "write"} :
       /\ uio' = [uio EXCEPT ![u] = [offset |-> offset, resid |-> resid, at |-> 0,
                                     rw |-> rw, segment |-> "user"]]
       /\ user' = [user EXCEPT ![u] =
            [i \in Units |-> IF rw = "read" THEN 0
                             ELSE 10 * (prepared + 1) + i]]
  /\ prepared' = prepared + 1
  /\ UNCHANGED <<bridge, io, page, thread, halted>>

(* Slip: a uio that is already on its way is let in.                        *)
Refused_NotAlias(k, u) ==
  \/ find_pending(k) # {}
  \/ uio[u].resid > Max
  \/ uio[u].offset + uio[u].resid > End

(* A stack or a uio that is already on its way, a range that is not in the
   aperture: an errno, and nothing is changed.                              *)
Refused(k, u) ==
  \/ find_pending(k) # {}
  \/ uio[u].resid > Max
  \/ uio[u].offset + uio[u].resid > End
  \/ \E s \in Slots : pending[s] # Free /\ pending[s].uio = u

AtEntry(k, u) ==
  /\ ~halted /\ io = NoIo
  /\ uio[u].resid # 0
  /\ ~Refused(k, u)

(* Every page is there: the units cross now, the media first.               *)
Direct(k, u) ==
  /\ AtEntry(k, u)
  /\ io' = [for |-> "direct", uio |-> u,
            t |-> Begun(media_prefix_length(uio[u].offset, uio[u].resid))]
  /\ UNCHANGED <<bridge, guest, halted>>

Advance(u, n) ==
  uio' = [uio EXCEPT ![u].offset = @ + n, ![u].resid = @ - n, ![u].at = @ + n]

DirectDone(u) ==
  LET n == uio[u].resid
      offset == uio[u].offset
      at == uio[u].at
      data == [i \in 0 .. n - 1 |-> user[u][at + i]] IN
  /\ IF uio[u].rw = "read"
     THEN /\ user' = [user EXCEPT ![u] =
                        [i \in Units |-> IF i \in at .. at + n - 1
                                         THEN Contents(offset, n)[i - at] ELSE @[i]]]
          /\ UNCHANGED <<media, guard_tail>>
     ELSE /\ PutMedia(offset, media_prefix_length(offset, n), data)
          /\ PutGuard(offset, n, data)
          /\ UNCHANGED user
  /\ Advance(u, n)
  /\ io' = NoIo
  /\ UNCHANGED <<pending, bounce, page, thread, prepared, halted>>

(* Slip: the slot is the first, free or not.                                *)
allocate_pending_First == {1}

(* The first free slot; if there is none, EBUSY.                            *)
allocate_pending ==
  {s \in Slots : pending[s] = Free /\ \A r \in 1 .. s - 1 : pending[r] # Free}

(* start_uiomove: a page is missing.                                        *)
Redirect(k, u) ==
  /\ AtEntry(k, u)
  /\ \E s \in allocate_pending :
       /\ pending' = [pending EXCEPT ![s] =
            [active |-> TRUE, key |-> k, uio |-> u, segment |-> uio[u].segment,
             rw |-> uio[u].rw, residual |-> uio[u].resid, offset |-> uio[u].offset]]
       /\ bounce' = [bounce EXCEPT ![s] =
            [i \in Units |-> IF i < uio[u].resid THEN 0 ELSE @[i]]]
       /\ io' = [for |-> "redirect", key |-> k, slot |-> s,
                 t |-> Begun(IF uio[u].rw = "read"
                             THEN media_prefix_length(uio[u].offset, uio[u].resid)
                             ELSE 0)]
  /\ UNCHANGED <<media, guard_tail, guest, halted>>

(* The guest goes on in uiomove, with the slot's address in r0.             *)
RedirectDone(k, s) ==
  LET p == pending[s] IN
  /\ bounce' = [bounce EXCEPT ![s] =
       IF p.rw = "write" THEN @
       ELSE [i \in Units |-> IF i < p.residual
                             THEN Contents(p.offset, p.residual)[i] ELSE @[i]]]
  /\ uio' = [uio EXCEPT ![p.uio].segment = "physical"]
  /\ thread' = [thread EXCEPT ![k] =
       [at |-> "uiomove", uio |-> p.uio, slot |-> s, moved |-> 0]]
  /\ io' = NoIo
  /\ UNCHANGED <<media, guard_tail, pending, user, page, prepared, halted>>

---------------------------------------------------------------------------
(* The guest's uiomove, and the second SVC                                  *)

(* A unit crosses between the user's memory and the bounce slot.            *)
uiomove(k) ==
  LET u == thread[k].uio
      s == thread[k].slot
      i == thread[k].moved IN
  /\ ~halted /\ io = NoIo
  /\ thread[k].at = "uiomove" /\ uio[u].resid > 0
  /\ IF uio[u].rw = "read"
     THEN /\ user' = [user EXCEPT ![u][uio[u].at] = bounce[s][i]]
          /\ UNCHANGED bounce
     ELSE /\ bounce' = [bounce EXCEPT ![s][i] = user[u][uio[u].at]]
          /\ UNCHANGED user
  /\ Advance(u, 1)
  /\ thread' = [thread EXCEPT ![k].moved = i + 1]
  /\ UNCHANGED <<media, guard_tail, pending, io, page, prepared, halted>>

(* Slip: only a request that was moved whole gets its segment back.         *)
Restored_WhenDone(s) ==
  IF uio[pending[s].uio].resid # 0 THEN uio
  ELSE [uio EXCEPT ![pending[s].uio].segment = pending[s].segment]

(* restore_pending_segment *)
Restored(s) == [uio EXCEPT ![pending[s].uio].segment = pending[s].segment]

(* uiomove returns 0 when all is moved and EFAULT before that.              *)
Completion(k) ==
  /\ ~halted /\ io = NoIo
  /\ thread[k].at = "uiomove"
  /\ \E s \in find_pending(k) :
       LET p == pending[s]
           done == p.residual - uio[p.uio].resid IN
       /\ uio' = Restored(s)
       /\ io' = [for |-> "completion", key |-> k, slot |-> s, done |-> done,
                 t |-> Begun(IF p.rw = "write"
                             THEN media_prefix_length(p.offset, done) ELSE 0)]
  /\ UNCHANGED <<bridge, user, page, thread, prepared, halted>>

CompletionDone(k, s) ==
  LET p == pending[s]
      n == io.done IN
  /\ IF p.rw = "write"
     THEN /\ PutMedia(p.offset, media_prefix_length(p.offset, n), bounce[s])
          /\ PutGuard(p.offset, n, bounce[s])
     ELSE UNCHANGED <<media, guard_tail>>
  /\ pending' = [pending EXCEPT ![s] = Free]
  /\ thread' = [thread EXCEPT ![k] = Idle]
  /\ io' = NoIo
  /\ UNCHANGED <<bounce, uio, user, page, prepared, halted>>

(* A uio that is not as uiomove leaves one, or not where it was: in the
   second case nothing is stored through an address that is stale.          *)
MalformedCompletion(k) ==
  /\ ~halted /\ io = NoIo
  /\ \E s \in find_pending(k) :
       /\ uio' \in {uio, Restored(s)}
       /\ pending' = [pending EXCEPT ![s] = Free]
  /\ Fail
  /\ UNCHANGED <<media, guard_tail, bounce, user, page, thread, prepared>>

(* A completion nobody waits for, or an entry that is none.                 *)
Malformed(k) ==
  /\ ~halted /\ io = NoIo
  /\ Fail
  /\ UNCHANGED <<bridge, guest>>

---------------------------------------------------------------------------
(* The other bridge                                                         *)

(* The block device's copy of a page, from the medium or to it.             *)
Strategy(block, rw) ==
  /\ ~halted /\ io = NoIo /\ prepared < MAX_REQUESTS
  /\ prepared' = prepared + 1
  /\ page' = IF rw = "write" THEN [by |-> "guest", data |-> 10 * (prepared + 1)]
             ELSE page
  /\ io' = [for |-> "page", rw |-> rw, block |-> block, t |-> Begun(1)]
  /\ UNCHANGED <<bridge, uio, user, thread, halted>>

StrategyDone(block, rw) ==
  /\ IF rw = "read" THEN page' = [by |-> "device", data |-> media[block]] /\ UNCHANGED media
     ELSE media' = [media EXCEPT ![block] = page.data] /\ UNCHANGED page
  /\ io' = NoIo
  /\ UNCHANGED <<guard_tail, pending, bounce, uio, user, thread, prepared, halted>>

---------------------------------------------------------------------------
(* The backend                                                              *)

BlockStep ==
  /\ io # NoIo /\ io.t.result = "going"
  /\ \/ \E a \in Answers(io.t) : io' = [io EXCEPT !.t = Answered(io.t, a)]
     \/ io' = [io EXCEPT !.t = Cancel(io.t)]
  /\ UNCHANGED <<bridge, guest, halted>>

BlockDone ==
  /\ io # NoIo /\ io.t.result = "OK"
  /\ CASE io.for = "direct"     -> DirectDone(io.uio)
       [] io.for = "redirect"   -> RedirectDone(io.key, io.slot)
       [] io.for = "completion" -> CompletionDone(io.key, io.slot)
       [] io.for = "page"       -> StrategyDone(io.block, io.rw)

(* BLOCK_IO: what the backend took, it took.                                *)
BlockFails ==
  /\ io # NoIo /\ io.t.result \notin {"going", "OK"}
  /\ CASE io.for = "direct" /\ uio[io.uio].rw = "write" ->
            PutMedia(uio[io.uio].offset, io.t.done,
                     [i \in 0 .. io.t.done - 1 |-> user[io.uio][uio[io.uio].at + i]])
       [] io.for = "completion" ->
            PutMedia(pending[io.slot].offset, io.t.done, bounce[io.slot])
       [] OTHER -> UNCHANGED media
  /\ pending' = IF io.for \in {"direct", "page"} THEN pending
                ELSE [pending EXCEPT ![io.slot] = Free]
  /\ Fail
  /\ UNCHANGED <<guard_tail, bounce, guest>>

Block == BlockStep \/ BlockDone \/ BlockFails

Next ==
  \/ \E u \in Uios : Prepare(u)
  \/ \E k \in Keys, u \in Uios : Direct(k, u) \/ Redirect(k, u)
  \/ \E k \in Keys : uiomove(k) \/ Completion(k) \/ MalformedCompletion(k)
                     \/ Malformed(k)
  \/ \E block \in DOMAIN media, rw \in {"read", "write"} : Strategy(block, rw)
  \/ Block

Spec == Init /\ [][Next]_vars

---------------------------------------------------------------------------
(* Properties.                                                              *)

Pending == [active : {TRUE}, key : Keys, uio : Uios, segment : {"user", "physical"},
            rw : {"read", "write"}, residual : 1 .. Max, offset : 0 .. End]

TypeOK ==
  /\ DOMAIN media = 0 .. MEDIA - 1
  /\ DOMAIN guard_tail = Units
  /\ pending \in [Slots -> Pending \cup {Free}]
  /\ \A s \in Slots : DOMAIN bounce[s] = Units
  /\ uio \in [Uios -> [offset : Nat, resid : Nat, at : Nat, rw : {"read", "write"},
                       segment : {"user", "physical"}]]
  /\ \A u \in Uios : DOMAIN user[u] = Units
  /\ thread \in [Keys -> {Idle} \cup [at : {"uiomove"}, uio : Uios, slot : Slots,
                                      moved : 0 .. Max]]
  /\ io # NoIo => /\ io.t.done <= io.t.length
                  /\ io.t.stuck <= VM_BLOCK_NO_PROGRESS_LIMIT
                  /\ io.t.result \in Results
  /\ page.by \in {"guest", "device"}
  /\ prepared \in 0 .. MAX_REQUESTS
  /\ halted \in BOOLEAN

(* A thread that is in uiomove has a slot, a stack pointer and a uio that no
   other request on its way has, and no slot is kept after it ("that bounded
   continuation is keyed by the entry kernel SP"). *)
SlotsOwned ==
  ~halted =>
    /\ \A s \in Slots : pending[s] # Free =>
         \/ io.for = "redirect" /\ io.slot = s
         \/ LET t == thread[pending[s].key] IN
            t.at = "uiomove" /\ t.slot = s /\ t.uio = pending[s].uio
    /\ \A k \in Keys : thread[k].at = "uiomove" =>
         find_pending(k) = {thread[k].slot}
    /\ \A r, s \in Slots :
         r # s /\ pending[r] # Free /\ pending[s] # Free =>
           pending[r].key # pending[s].key /\ pending[r].uio # pending[s].uio

(* "Restore the caller's segment before any host operation; unlike CPU state,
   these guest-memory writes cannot be rolled back" (handle_completion): a uio
   says "physical" only while it is on its way.                             *)
SegmentRestored ==
  ~halted =>
    \A u \in Uios : uio[u].segment = "physical" =>
      \E k \in Keys : thread[k].at = "uiomove" /\ thread[k].uio = u

(* A backend that only asks to be called again, or says it moved nothing, does
   not keep the machine (VM_BLOCK_NO_PROGRESS_LIMIT): every turn of the loop
   leaves less to come, of units or else of turns without one.              *)
Left(t) == (t.length - t.done) * VM_BLOCK_NO_PROGRESS_LIMIT
             + VM_BLOCK_NO_PROGRESS_LIMIT - t.stuck

Turn == io # NoIo /\ io' # NoIo /\ io.t.result = "going" /\ io'.t.result = "going"

TransfersEnd == [][Turn => Left(io'.t) < Left(io.t)]_io

(* The bounce slots are each request's own buffer, and the media and the zone
   after it are one array: the bridge implements RawDisk.                   *)
Array == [b \in 0 .. End - 1 |-> IF b < MEDIA THEN media[b] ELSE guard_tail[b - MEDIA]]

Request(k) ==
  IF halted \/ thread[k].at # "uiomove" \/ find_pending(k) = {} THEN [uio |-> "none"]
  ELSE LET s == CHOOSE s \in find_pending(k) : TRUE IN
       [uio |-> thread[k].uio, offset |-> pending[s].offset,
        data |-> [i \in 0 .. pending[s].residual - 1 |-> bounce[s][i]],
        moved |-> thread[k].moved]

Disk == INSTANCE RawDisk WITH
  SIZE <- End, MAX_TRANSFER <- Max, disk <- Array,
  uio <- [u \in Uios |-> [offset |-> uio[u].offset, resid |-> uio[u].resid,
                          at |-> uio[u].at, rw |-> uio[u].rw]],
  request <- [k \in Keys |-> Request(k)]

ImplementsRawDisk == Disk!Spec
=============================================================================
