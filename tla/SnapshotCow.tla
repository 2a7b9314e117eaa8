---------------------------- MODULE SnapshotCow ----------------------------
(***************************************************************************)
(* The history of one machine's disk (app/Sources/VMSnapshotCow.c): a work  *)
(* image, and for each snapshot an overlay file holding the blocks as they  *)
(* were when they were first overwritten after it.  Snapshots are numbered  *)
(* in the order of their identifiers, oldest first.                         *)
(*                                                                         *)
(* An overlay is written through stdio and the image through pwrite.  stdio *)
(* keeps back less than one record (4096 octets of 4104), so what a dying   *)
(* process takes with it is the end of the last record, `tail`; the header  *)
(* is out when vm_cow_open returns, for it ends in a seek.  A file is kept  *)
(* as its whole records: the one whose end is still in the buffer is among  *)
(* them.                                                                   *)
(*                                                                         *)
(* A block's contents are a member of Values; a write within a block is the *)
(* write of another value.  The calls of vm_cow_replay that make a restore, *)
(* and what is armed after it, follow the headers: nothing in the app calls *)
(* them yet.  A restore is taken to arm the newest overlay until it is done *)
(* and its target's from then on: a machine that ran on a disk restored in  *)
(* part and recorded into an older one would spoil it.                      *)
(*                                                                         *)
(* A definition commented as a slip is a mutated form of the definition     *)
(* after it; no specification uses it.                                      *)
(***************************************************************************)
EXTENDS Integers, Sequences

CONSTANTS
  BLOCK_COUNT,  \* blocks of the disk
  Values,       \* contents of a block
  SNAPSHOTS,    \* snapshots that may be taken
  IoFails,      \* may a read, a save or a write fail?
  Crashes       \* may the process die?

ASSUME SnapshotSizesAssumption ==
  /\ BLOCK_COUNT \in Nat \ {0}
  /\ SNAPSHOTS \in Nat \ {0}
  /\ Values # {}
  /\ {IoFails, Crashes} \subseteq BOOLEAN

Blocks == 0 .. BLOCK_COUNT - 1
Ids    == 1 .. SNAPSHOTS

VARIABLES
  image,    \* the work image
  synced,   \* has the image been made durable since its last write?
  overlay,  \* disk.cow of each snapshot
  armed,    \* the snapshot whose overlay the next start records into
  machine,  \* stopped, running, or running on a descriptor that is gone
  cow,      \* vm_cow_t
  call,     \* the cow_write_at in progress, and what the last one returned
  restore,  \* the replays in progress
  past,     \* what the disk held when each snapshot was taken
  line      \* the snapshots the disk has evolved from since

vars == <<image, synced, overlay, armed, machine, cow, call, restore, past, line>>
history == <<past, line>>

Record == [block : Blocks, was : Values]
File   == [exists : BOOLEAN, torn : BOOLEAN, records : Seq(Record)]

NoFile == [exists |-> FALSE, torn |-> FALSE, records |-> << >>]

Cow == [open : BOOLEAN, id : Ids, saved : SUBSET Blocks, poisoned : BOOLEAN,
        tail : BOOLEAN, half : BOOLEAN]

Closed == [open |-> FALSE, id |-> 1, saved |-> {}, poisoned |-> FALSE,
           tail |-> FALSE, half |-> FALSE]

Idle == [phase |-> "idle", first |-> 0, last |-> 0, at |-> 0, reply |-> "ok"]

NoRestore == [on |-> FALSE, target |-> 1, id |-> 1, at |-> 1]

Taken  == DOMAIN past
Newest == CHOOSE s \in Taken : \A t \in Taken : t <= s

Recorded(f) == {f.records[i].block : i \in DOMAIN f.records}

(* What vm_cow_open and vm_cow_replay both require of a file.               *)
Accepted(f) == ~f.torn

---------------------------------------------------------------------------
(* Files.                                                                   *)

(* The file once stdio has handed over everything.                          *)
Flushed(f) == [f EXCEPT !.torn = @ \/ cow.half]

(* The file as a process that ends without that leaves it.                  *)
Abandoned(f) ==
  [f EXCEPT !.torn = @ \/ cow.tail \/ cow.half,
            !.records = IF cow.tail THEN SubSeq(@, 1, Len(@) - 1) ELSE @]

(* Slip: the bitmap not rebuilt from the records that are there.            *)
Opened_NotIndexed(s) == [Closed EXCEPT !.open = TRUE, !.id = s]

Opened(s) == [Closed EXCEPT !.open = TRUE, !.id = s, !.saved = Recorded(overlay[s])]

---------------------------------------------------------------------------
(* The machine and its overlay.                                             *)

boot_start ==
  /\ machine = "stopped" /\ ~restore.on
  /\ overlay[armed].exists => Accepted(overlay[armed])
  /\ overlay' = [overlay EXCEPT ![armed].exists = TRUE]
  /\ cow' = Opened(armed)
  /\ machine' = "running"
  /\ UNCHANGED <<image, synced, armed, call, restore, history>>

(* Slip: the last block computed without the - 1.                           *)
cow_write_at_EndExclusive(first, last) ==
  /\ machine = "running" /\ call.phase = "idle"
  /\ first <= last
  /\ call' = IF cow.poisoned THEN [Idle EXCEPT !.reply = "error"]
             ELSE [phase |-> "save", first |-> first, last |-> last + 1, at |-> first,
                   reply |-> "ok"]
  /\ UNCHANGED <<image, synced, overlay, armed, machine, cow, restore, history>>

cow_write_at(first, last) ==
  /\ machine = "running" /\ call.phase = "idle"
  /\ first <= last
  /\ call' = IF cow.poisoned THEN [Idle EXCEPT !.reply = "error"]
             ELSE [phase |-> "save", first |-> first, last |-> last, at |-> first,
                   reply |-> "ok"]
  /\ UNCHANGED <<image, synced, overlay, armed, machine, cow, restore, history>>

(* The blocks of the call that are not in the overlay yet, one at a time.   *)
Save ==
  /\ call.phase = "save" /\ call.at <= call.last
  /\ call' = [call EXCEPT !.at = @ + 1]
  /\ IF call.at \in cow.saved THEN UNCHANGED <<overlay, cow>>
     ELSE /\ overlay' = [overlay EXCEPT
               ![cow.id].records = Append(@, [block |-> call.at,
                                              was   |-> image[call.at]])]
          /\ cow' = [cow EXCEPT !.saved = @ \cup {call.at}, !.tail = TRUE]
  /\ UNCHANGED <<image, synced, armed, machine, restore, history>>

(* Slip: the failure reported, and the write made all the same.             *)
SaveFails_Continues ==
  /\ IoFails
  /\ call.phase = "save" /\ call.at <= call.last /\ call.at \notin cow.saved
  /\ \E half \in BOOLEAN : cow' = [cow EXCEPT !.poisoned = TRUE, !.half = @ \/ half]
  /\ call' = [call EXCEPT !.at = @ + 1]
  /\ UNCHANGED <<image, synced, overlay, armed, machine, restore, history>>

(* The read fails, or fwrite does and may leave half a record.              *)
SaveFails ==
  /\ IoFails
  /\ call.phase = "save" /\ call.at <= call.last /\ call.at \notin cow.saved
  /\ \E half \in BOOLEAN : cow' = [cow EXCEPT !.poisoned = TRUE, !.half = @ \/ half]
  /\ call' = [Idle EXCEPT !.reply = "error"]
  /\ UNCHANGED <<image, synced, overlay, armed, machine, restore, history>>

Saved ==
  /\ call.phase = "save" /\ call.at > call.last
  /\ call' = [call EXCEPT !.phase = "write", !.at = call.first]
  /\ UNCHANGED <<image, synced, overlay, armed, machine, cow, restore, history>>

WriteBlock(v) ==
  /\ call.phase = "write"
  /\ image' = [image EXCEPT ![call.at] = v]
  /\ synced' = FALSE
  /\ call' = IF call.at = call.last THEN Idle ELSE [call EXCEPT !.at = @ + 1]
  /\ UNCHANGED <<overlay, armed, machine, cow, restore, history>>

(* write_exact gives up in this block, with part of it written or not.      *)
WriteFails(v) ==
  /\ IoFails
  /\ call.phase = "write"
  /\ image' = [image EXCEPT ![call.at] = v]
  /\ synced' = FALSE
  /\ call' = [Idle EXCEPT !.reply =
       IF call.at = call.first /\ v = image[call.at] THEN "error" ELSE "short"]
  /\ UNCHANGED <<overlay, armed, machine, cow, restore, history>>

cow_flush ==
  /\ machine = "running" /\ call.phase = "idle"
  /\ overlay' = [overlay EXCEPT ![cow.id] = Flushed(@)]
  /\ cow' = [cow EXCEPT !.tail = FALSE, !.half = FALSE]
  /\ synced' = TRUE \/ (IoFails /\ synced' = synced)
  /\ UNCHANGED <<image, armed, machine, call, restore, history>>

(* vm_cow_close, whose result vm_firmware_boot_destroy ignores.             *)
boot_destroy ==
  /\ machine # "stopped" /\ call.phase = "idle"
  /\ \/ overlay' = [overlay EXCEPT ![cow.id] = Flushed(@)]
     \/ IoFails /\ overlay' = [overlay EXCEPT ![cow.id] = Abandoned(@)]
  /\ cow' = Closed /\ machine' = "stopped" /\ call' = Idle
  /\ synced' = TRUE
  /\ UNCHANGED <<image, armed, restore, history>>

---------------------------------------------------------------------------
(* Snapshots.                                                               *)

Keep(s) ==
  /\ past' = [t \in Taken \cup {s} |-> IF t = s THEN image ELSE past[t]]
  /\ line' = line \cup {s}
  /\ armed' = s

TakeSnapshot ==
  /\ machine = "stopped" /\ ~restore.on
  /\ Newest < SNAPSHOTS
  /\ Keep(Newest + 1)
  /\ UNCHANGED <<image, synced, overlay, machine, cow, call, restore>>

(* vm_firmware_boot_rearm_overlay frees the adapter whose descriptor the
   machine's bridges hold, and opens another.                              *)
rearm_overlay ==
  /\ machine = "running" /\ call.phase = "idle"
  /\ Newest < SNAPSHOTS
  /\ Keep(Newest + 1)
  /\ overlay' = [overlay EXCEPT ![cow.id] = Flushed(@), ![Newest + 1].exists = TRUE]
  /\ cow' = Opened(Newest + 1)
  /\ machine' = "dangling"
  /\ UNCHANGED <<image, synced, call, restore>>

(* Slip: the older overlay left armed while the disk is between two pasts.  *)
BeginRestore_StaysArmed(s) ==
  /\ machine = "stopped" /\ ~restore.on
  /\ s \in line
  /\ restore' = [on |-> TRUE, target |-> s, id |-> Newest, at |-> 1]
  /\ line' = {t \in line : t <= s}
  /\ UNCHANGED <<image, synced, overlay, armed, machine, cow, call, past>>

BeginRestore(s) ==
  /\ machine = "stopped" /\ ~restore.on
  /\ s \in line
  /\ restore' = [on |-> TRUE, target |-> s, id |-> Newest, at |-> 1]
  /\ line' = {t \in line : t <= s}
  /\ armed' = Newest
  /\ UNCHANGED <<image, synced, overlay, machine, cow, call, past>>

Replaying == overlay[restore.id]

(* One record of vm_cow_replay.                                             *)
ReplayRecord ==
  /\ restore.on
  /\ Accepted(Replaying) /\ restore.at <= Len(Replaying.records)
  /\ LET r == Replaying.records[restore.at]
     IN image' = [image EXCEPT ![r.block] = r.was]
  /\ synced' = FALSE
  /\ restore' = [restore EXCEPT !.at = @ + 1]
  /\ UNCHANGED <<overlay, armed, machine, cow, call, history>>

(* A snapshot nothing was written after has no overlay.                     *)
Replayed ==
  /\ restore.on
  /\ IF Replaying.exists THEN Accepted(Replaying) /\ restore.at > Len(Replaying.records)
                         ELSE TRUE

NextOverlay ==
  /\ Replayed /\ restore.id > restore.target
  /\ restore' = [restore EXCEPT !.id = @ - 1, !.at = 1]
  /\ UNCHANGED <<image, synced, overlay, armed, machine, cow, call, history>>

FinishRestore ==
  /\ Replayed /\ restore.id = restore.target
  /\ restore' = NoRestore
  /\ armed' = restore.target
  /\ synced' = TRUE
  /\ line' = line \cup {restore.target}
  /\ UNCHANGED <<image, overlay, machine, cow, call, past>>

(* A torn overlay, or one that cannot be read or written back to its end.    *)
ReplayRefused ==
  /\ restore.on
  /\ Replaying.exists
  /\ Accepted(Replaying) => IoFails
  /\ restore' = NoRestore
  /\ UNCHANGED <<image, synced, overlay, armed, machine, cow, call, history>>

---------------------------------------------------------------------------
(* The process and the power.                                               *)

Crash ==
  /\ Crashes
  /\ machine # "stopped" \/ restore.on
  /\ overlay' = IF cow.open THEN [overlay EXCEPT ![cow.id] = Abandoned(@)]
                            ELSE overlay
  /\ cow' = Closed /\ machine' = "stopped" /\ call' = Idle /\ restore' = NoRestore
  /\ UNCHANGED <<image, synced, armed, history>>

(* The image was synced, the overlay never is: any end of it is lost.       *)
PowerFails ==
  /\ synced
  /\ machine = "running" /\ call.phase = "idle"
  /\ \E n \in 0 .. Len(overlay[cow.id].records) :
       overlay' = [overlay EXCEPT ![cow.id] =
         IF n = 0 THEN NoFile ELSE [@ EXCEPT !.records = SubSeq(@, 1, n)]]
  /\ cow' = Closed /\ machine' = "stopped"
  /\ UNCHANGED <<image, synced, armed, call, restore, history>>

Init ==
  /\ image \in [Blocks -> Values]
  /\ synced = TRUE
  /\ overlay = [s \in Ids |-> NoFile]
  /\ armed = 1 /\ machine = "stopped"
  /\ cow = Closed /\ call = Idle /\ restore = NoRestore
  /\ past = [s \in {1} |-> image]
  /\ line = {1}

Next ==
  \/ boot_start
  \/ \E first, last \in Blocks : cow_write_at(first, last)
  \/ Save
  \/ SaveFails
  \/ Saved
  \/ \E v \in Values : WriteBlock(v) \/ WriteFails(v)
  \/ cow_flush
  \/ boot_destroy
  \/ TakeSnapshot
  \/ \E s \in Ids : BeginRestore(s)
  \/ ReplayRecord
  \/ NextOverlay
  \/ FinishRestore
  \/ ReplayRefused
  \/ Crash

Spec == Init /\ [][Next]_vars

(* The machine and one more thing that may happen to it: a snapshot taken
   while it runs, a loss of power.                                         *)
RearmSpec == Init /\ [][Next \/ rearm_overlay]_vars
PowerSpec == Init /\ [][Next \/ PowerFails]_vars

---------------------------------------------------------------------------
(* Properties.                                                              *)

TypeOK ==
  /\ image \in [Blocks -> Values]
  /\ overlay \in [Ids -> File]
  /\ cow \in Cow
  /\ call \in [phase : {"idle", "save", "write"}, first : Blocks, last : Blocks,
               at : 0 .. BLOCK_COUNT, reply : {"ok", "error", "short"}]
  /\ restore \in [on : BOOLEAN, target : Ids, id : Ids, at : Nat]
  /\ Taken \subseteq Ids /\ past \in [Taken -> [Blocks -> Values]]
  /\ line \subseteq Taken /\ armed \in Taken
  /\ machine \in {"stopped", "running", "dangling"} /\ synced \in BOOLEAN

(* An overlay as a clean close would leave it.                              *)
AsClosed(s) == IF cow.open /\ cow.id = s THEN Flushed(overlay[s]) ELSE overlay[s]

(* Every replay the snapshot needs would be accepted.                       *)
Replayable(s) ==
  \A t \in s .. Newest : overlay[t].exists => Accepted(AsClosed(t))

(* The oldest overlay from s on that holds the block is replayed last, and
   in it the last record of the block.                                     *)
Restored(s) ==
  [b \in Blocks |->
     LET holders == {t \in s .. Newest : b \in Recorded(overlay[t])}
     IN IF holders = {} THEN image[b]
        ELSE LET t  == CHOOSE t \in holders : \A u \in holders : t <= u
                 rs == overlay[t].records
                 i  == CHOOSE i \in DOMAIN rs :
                         /\ rs[i].block = b
                         /\ \A j \in DOMAIN rs : rs[j].block = b => j <= i
             IN rs[i].was]

(* "Reported, never skipped" (vm_cow_replay): a snapshot may be refused, but
   one that is accepted gives back the disk it was taken of.  Writes, saves
   that fail, crashes, restores of older snapshots, restores that were
   interrupted and snapshots taken since do not change what it gives.      *)
Restorable ==
  \A s \in line : Replayable(s) => Restored(s) = past[s]

(* The replays of a restore leave the image that was kept.                  *)
RestoreExact ==
  Replayed /\ restore.id = restore.target => image = past[restore.target]

(* "Save first, then write.  The order is the whole point: once the new
   bytes are down, the old ones are gone" (cow_write_at): what has been
   overwritten is in an overlay a dying process would leave.               *)
SavedFirst ==
  \A s \in line : \A b \in Blocks :
    image[b] # past[s][b] =>
      \E t \in s .. Newest :
        b \in Recorded(IF cow.open /\ cow.id = t THEN Abandoned(overlay[t])
                                               ELSE overlay[t])

(* "The descriptor from vm_cow_block() is what the machine must use"; "so
   writes accrue to the new one" (vm_firmware_boot_rearm_overlay).         *)
MachineAttached == machine # "dangling"

(* "It must never combine progress with RETRY or ERROR" (vm_block.h).       *)
ErrorMeansNoProgress == call.reply # "short"

(* "Restoring S needs S's overlay AND EVERY NEWER ONE" (VMSnapshotCow.h).   *)
AllRestorable ==
  ~restore.on => \A s \in Taken : Replayable(s) => Restored(s) = past[s]
=============================================================================
