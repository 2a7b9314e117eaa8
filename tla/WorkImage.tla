----------------------------- MODULE WorkImage ------------------------------
(***************************************************************************)
(* The writable root filesystem of one machine: how the app makes it, takes *)
(* over the one an older build left, and decides that it may be booted.     *)
(*                                                                         *)
(*   -bringUpMachine (VMEngine.m), on the main thread: adopt, probe, start  *)
(*       a worker, with VMInstancePaths.c and vm_firmware_boot_probe;       *)
(*   -provisionRootFilesystem:, a worker of each engine, with               *)
(*       vm_firmware_boot_provision and rootfs_work_create (tools/);        *)
(*   the importer, which writes rootfs.img in place (VMFirmwareImporter.m). *)
(*                                                                         *)
(* A file is its size, what is in it and whether fsync has been over it.    *)
(* Sizes are small numbers in the order of the real ones.  The process may  *)
(* be killed (what it did stays, its threads end) or the power may fail     *)
(* (the directories are then as at some moment since the last fsync of the  *)
(* machine's own).  A temporary of a process that has ended is never looked *)
(* at again: its name holds the process number.                             *)
(***************************************************************************)
EXTENDS Naturals, FiniteSets

CONSTANTS
  Engines,   \* the engines of this machine, each with its own worker
  GROWTH,    \* VM_FW_BOOT_GROWTH_BYTES
  Scenes     \* what the app may find, and the bounds that go with it

None == [id |-> "none"]
File(id, size, data, synced) ==
  [id |-> id, size |-> size, data |-> data, synced |-> synced]

Ids == Engines \cup {"own", "legacy"}
Datas == {"holes", "whole"}
Files == [id : Ids, size : Nat, data : Datas, synced : BOOLEAN]

\* own, legacy: the files at the two names; images: the sizes an import may
\* bring, the first of them being there; overlap: the machine is reopened
\* while a worker of it is busy; the rest bound the faults.
AllScenes ==
  [own : Files \cup {None}, legacy : Files \cup {None},
   images : SUBSET (Nat \ {0}), overlap : BOOLEAN,
   imports : Nat, fails : Nat, kills : Nat, losses : Nat]

ASSUME WorkImageAssumption ==
  /\ Engines # {} /\ {"none", "own", "legacy"} \cap Engines = {}
  /\ GROWTH \in Nat \ {0}
  /\ Scenes \subseteq AllScenes
  /\ \A s \in Scenes : /\ s.images # {}
                       /\ s.own.id \in {"none", "own"}
                       /\ s.legacy.id \in {"none", "legacy"}

VARIABLES
  scene,     \* the scene, its bounds counted down
  own,       \* Machines/<id>/rootfs-work.img
  legacy,    \* firmware/rootfs-work.img
  log,       \* the directories a power failure may go back to
  src,       \* firmware/rootfs.img: its size, and whether it is complete
  imp,       \* the size of the image being imported, 0 for no import
  main,      \* the bring-up on the main thread: [pc, engine]
  pc,        \* where the worker of each engine is
  tmp,       \* its temporary
  moved,     \* rootfs.img has changed since it was opened
  done,      \* the images this machine has been given for good
  told       \* those it was said to have, or booted, since the power was on,
             \* because a probe found them

vars == <<scene, own, legacy, log, src, imp, main, pc, tmp, moved, done, told>>
workers == <<pc, tmp, moved>>

Spend(what) == scene[what] > 0 /\ scene' = [scene EXCEPT ![what] = @ - 1]

file_size(f) == IF f = None THEN 0 ELSE f.size
Dirs == [own |-> own, legacy |-> legacy]
\* Changes the directories: a power failure may or may not keep it.
Enter(o, l) ==
  /\ own' = o
  /\ legacy' = l
  /\ log' = log \cup {[own |-> o, legacy |-> l]}
Fsynced_NotTheDirectory == UNCHANGED log
Fsynced == log' = {Dirs}

\* work_present of the probe; the kernel and the device tree are there.
work_present_NotEmpty == file_size(own) > 0
work_present == /\ file_size(own) > 0
                /\ src.size > 0
                /\ file_size(own) >= src.size
READY == src.size > 0 /\ work_present
NEEDS_WORK_IMAGE == src.size > 0 /\ ~work_present

Finished(f) == f # None /\ f.data = "whole"

\* A scene in which sizes do tell: the images an import may bring are within
\* the growth of each other; a finished file is as long as any of them and is
\* on the disk, or the power holds; one that is not finished is shorter, and
\* then there is one bring-up at a time and no import; a machine that is
\* reopened while it is busy has nothing left to take over.
Careful(s) ==
  /\ \A m, n \in s.images : m <= n + GROWTH
  /\ \A f \in {s.own, s.legacy} : f # None =>
       /\ Finished(f) => /\ \A n \in s.images : n <= f.size
                         /\ f.synced \/ s.losses = 0
       /\ ~Finished(f) /\ f.size > 0 =>
            /\ ~s.overlap
            /\ s.imports = 0
            /\ \A n \in s.images : f.size < n
  /\ s.overlap /\ file_size(s.legacy) > 0 => Finished(s.own)

Init ==
  /\ scene \in Scenes
  /\ own = scene.own
  /\ legacy = scene.legacy
  /\ log = {[own |-> scene.own, legacy |-> scene.legacy]}
  /\ src \in [size : scene.images, whole : {TRUE}]
  /\ imp = 0
  /\ main = [pc |-> "idle", engine |-> CHOOSE e \in Engines : TRUE]
  /\ pc = [e \in Engines |-> "idle"]
  /\ tmp = [e \in Engines |-> None]
  /\ moved = [e \in Engines |-> FALSE]
  /\ done = {f.id : f \in {g \in {own, legacy} : Finished(g)}}
  /\ told = {}

-----------------------------------------------------------------------------
(* The bring-up: the user opens the machine, or resets it. *)

BringUp(e) ==
  /\ main.pc = "idle"
  /\ scene.overlap \/ \A f \in Engines : pc[f] = "idle"
  /\ main' = [pc |-> IF file_size(own) = 0 /\ file_size(legacy) > 0
                     THEN "adopt" ELSE "probe",
              engine |-> e]
  /\ UNCHANGED <<scene, own, legacy, log, src, imp, workers, done, told>>

\* vm_instance_work_adopt after its plan: the remove, which nobody asks about,
\* and the rename; both may fail.
vm_instance_work_adopt ==
  /\ main.pc = "adopt"
  /\ main' = [main EXCEPT !.pc = "probe"]
  /\ \/ Enter(legacy, None) /\ UNCHANGED scene
     \/ \E o \in {None, own} : Enter(o, legacy) /\ Spend("fails")
  /\ UNCHANGED <<src, imp, workers, done, told>>

\* What a probe that finds the image says of it.
Told == told \cup {own.id}

\* A machine that is ready boots; one that needs an image gets a worker, but
\* for an engine that already has one.
Probe ==
  /\ main.pc = "probe"
  /\ main' = [main EXCEPT !.pc = "idle"]
  /\ IF NEEDS_WORK_IMAGE /\ pc[main.engine] = "idle"
       THEN pc' = [pc EXCEPT ![main.engine] = "check"]
       ELSE UNCHANGED pc
  /\ told' = IF READY THEN Told ELSE told
  /\ UNCHANGED <<scene, own, legacy, log, src, imp, tmp, moved, done>>

-----------------------------------------------------------------------------
(* The worker *)

To(e, where) == pc' = [pc EXCEPT ![e] = where]

\* vm_firmware_boot_provision clears an incomplete image, and only that: the
\* sizes and then the remove, which may fail.
Incomplete_Any(f) == file_size(f) > 0
Incomplete_Never(f) == FALSE
Incomplete(f) == /\ file_size(f) > 0
                 /\ src.size > 0
                 /\ file_size(f) < src.size

CheckExisting(e) ==
  /\ pc[e] = "check"
  /\ To(e, IF Incomplete(own) THEN "remove" ELSE "open")
  /\ UNCHANGED <<scene, own, legacy, log, src, imp, main, tmp, moved, done, told>>

RemoveExisting(e) ==
  /\ pc[e] = "remove"
  /\ IF own = None
       THEN To(e, "refused") /\ UNCHANGED <<own, legacy, log>>
       ELSE To(e, "open") /\ Enter(None, legacy)
  /\ UNCHANGED <<scene, src, imp, main, tmp, moved, done, told>>

\* rootfs_work_create from the open of the source to the resize of the
\* temporary: the destination must not be there, the source must be a volume
\* as long as its header says.
Opens(e) ==
  /\ pc[e] = "open"
  /\ own = None
  /\ src.whole
  /\ To(e, "copy")
  /\ tmp' = [tmp EXCEPT ![e] = File(e, src.size, "holes", FALSE)]
  /\ moved' = [moved EXCEPT ![e] = FALSE]
  /\ UNCHANGED <<scene, own, legacy, log, src, imp, main, done, told>>

RefusesToOpen(e) ==
  /\ pc[e] = "open"
  /\ own # None \/ ~src.whole
  /\ To(e, "refused")
  /\ UNCHANGED <<scene, own, legacy, log, src, imp, main, tmp, moved, done, told>>

copy_source(e) ==
  /\ pc[e] = "copy"
  /\ To(e, "verify")
  /\ tmp' = [tmp EXCEPT ![e].data = IF moved[e] THEN "holes" ELSE "whole"]
  /\ UNCHANGED <<scene, own, legacy, log, src, imp, main, moved, done, told>>

\* The stamps of the source, then the edits and the growth of the copy.
Unchanged_Unasked(e) == TRUE
Unchanged(e) == ~moved[e]

Verifies(e) ==
  /\ pc[e] = "verify"
  /\ Unchanged(e)
  /\ To(e, "sync")
  /\ tmp' = [tmp EXCEPT ![e].size = @ + GROWTH]
  /\ UNCHANGED <<scene, own, legacy, log, src, imp, main, moved, done, told>>

host_file_sync_Skipped(f) == f
host_file_sync(f) == [f EXCEPT !.synced = TRUE]

Syncs(e) ==
  /\ pc[e] = "sync"
  /\ To(e, "link")
  /\ tmp' = [tmp EXCEPT ![e] = host_file_sync(@)]
  /\ UNCHANGED <<scene, own, legacy, log, src, imp, main, moved, done, told>>

\* publish: the link, which does not replace; the fsync of the directory; the
\* unlink of the temporary's name and the second fsync.
Links(e) ==
  /\ pc[e] = "link"
  /\ own = None
  /\ To(e, "fsync")
  /\ Enter(tmp[e], legacy)
  /\ UNCHANGED <<scene, src, imp, main, tmp, moved, done, told>>

SyncsDirectory(e) ==
  /\ pc[e] = "fsync"
  /\ To(e, "unlink")
  /\ Fsynced
  /\ UNCHANGED <<scene, own, legacy, src, imp, main, tmp, moved, done, told>>

Completes(e) ==
  /\ pc[e] = "unlink"
  /\ To(e, "idle")
  /\ tmp' = [tmp EXCEPT ![e] = None]
  /\ Fsynced
  /\ done' = done \cup {e}
  /\ UNCHANGED <<scene, own, legacy, src, imp, main, moved, told>>

\* Any of the calls may fail, and these must.  What was not published is
\* removed; what was published stays.
MustFail(e) == \/ pc[e] = "verify" /\ ~Unchanged(e)
               \/ pc[e] = "link" /\ own # None
Busy == {"remove", "open", "copy", "verify", "sync", "link", "fsync", "unlink"}

Fails(e) ==
  /\ pc[e] \in Busy
  /\ IF MustFail(e) THEN UNCHANGED scene ELSE Spend("fails")
  /\ To(e, "refused")
  /\ tmp' = [tmp EXCEPT ![e] = None]
  /\ UNCHANGED <<own, legacy, log, src, imp, main, moved, done, told>>

\* -provisionRootFilesystem: asks the disk before it says it failed.  Where the
\* image is, "ready" is what it says, whoever made it and whether or not its
\* name is on the disk yet.
AsksTheDisk(e) ==
  /\ pc[e] = "refused"
  /\ To(e, "idle")
  /\ told' = IF work_present THEN Told ELSE told
  /\ UNCHANGED <<scene, own, legacy, log, src, imp, main, tmp, moved, done>>

Worker(e) ==
  \/ CheckExisting(e) \/ RemoveExisting(e)
  \/ Opens(e) \/ RefusesToOpen(e)
  \/ copy_source(e) \/ Verifies(e) \/ Syncs(e)
  \/ Links(e) \/ SyncsDirectory(e) \/ Completes(e)
  \/ MustFail(e) /\ Fails(e)
  \/ AsksTheDisk(e)

-----------------------------------------------------------------------------
(* The importer truncates rootfs.img and writes it in place. *)

Write(size, whole) ==
  /\ src' = [size |-> size, whole |-> whole]
  /\ moved' = [e \in Engines |-> TRUE]
  /\ UNCHANGED <<own, legacy, log, main, pc, tmp, done, told>>

ImportOpens(size) ==
  /\ imp = 0
  /\ Spend("imports")
  /\ imp' = size
  /\ Write(0, FALSE)

ImportWrites ==
  /\ imp > 1
  /\ src.size = 0
  /\ Write(1, FALSE)
  /\ UNCHANGED <<scene, imp>>

ImportEnds ==
  /\ imp > 0
  /\ src.size > 0 \/ imp = 1
  /\ Write(imp, TRUE)
  /\ imp' = 0
  /\ UNCHANGED scene

\* Cancelled, or refused part of the way: the file is removed.
ImportStops ==
  /\ imp > 0
  /\ Write(0, FALSE)
  /\ imp' = 0
  /\ UNCHANGED scene

-----------------------------------------------------------------------------
(* The end of the process and of the power *)

Ends ==
  /\ imp' = 0
  /\ main' = [main EXCEPT !.pc = "idle"]
  /\ pc' = [e \in Engines |-> "idle"]
  /\ tmp' = [e \in Engines |-> None]
  /\ moved' = [e \in Engines |-> FALSE]
  /\ UNCHANGED <<src, done>>

Killed ==
  /\ Spend("kills")
  /\ Ends
  /\ UNCHANGED <<own, legacy, log, told>>

\* What fsync has not been over may be lost.
Torn(f) == IF f = None THEN {None}
           ELSE {f} \cup {[f EXCEPT !.data = "holes"] : x \in {f.synced} \ {TRUE}}

PowerFails ==
  /\ Spend("losses")
  /\ Ends
  /\ told' = {}
  /\ \E d \in log :
       /\ own' \in Torn(d.own)
       /\ legacy' \in Torn(d.legacy)
       /\ log' = {[own |-> own', legacy |-> legacy']}

-----------------------------------------------------------------------------

Next ==
  \/ \E e \in Engines : BringUp(e) \/ Worker(e) \/ Fails(e)
  \/ vm_instance_work_adopt \/ Probe
  \/ \E size \in scene.images : ImportOpens(size)
  \/ ImportWrites \/ ImportEnds \/ ImportStops
  \/ Killed \/ PowerFails

Spec == Init /\ [][Next]_vars

\* The threads run, and a user who is told to reopen the machine does.
FairSpec ==
  /\ Spec
  /\ \A e \in Engines : WF_vars(Worker(e)) /\ WF_vars(BringUp(e))
  /\ WF_vars(vm_instance_work_adopt \/ Probe)

-----------------------------------------------------------------------------
(* Properties *)

(* Every variable stays in its type.                                        *)
TypeOK ==
  /\ scene \in AllScenes
  /\ {own, legacy} \subseteq Files \cup {None}
  /\ log \subseteq [own : Files \cup {None}, legacy : Files \cup {None}]
  /\ Dirs \in log
  /\ src \in [size : Nat, whole : BOOLEAN]
  /\ imp \in Nat
  /\ main \in [pc : {"idle", "adopt", "probe"}, engine : Engines]
  /\ pc \in [Engines -> Busy \cup {"idle", "check", "refused"}]
  /\ tmp \in [Engines -> Files \cup {None}]
  /\ moved \in [Engines -> BOOLEAN]
  /\ {done, told} \subseteq SUBSET Ids

(* What the probe calls ready is a complete image, whatever was left at its *)
(* name, and whatever became of rootfs.img since: sizes are all it compares *)
(* (vm_firmware_boot_probe, "not empty is not that test").                  *)
ReadyIsWhole == READY => Finished(own)

(* An image that was made here is complete from the moment it has its name, *)
(* and after a loss of power: the temporary has its full length from the    *)
(* start, so no size would give a torn one away, and one made of a rootfs   *)
(* that was being imported again is not published (rootfs_work_create).     *)
PublishedWhole ==
  own.id \in Engines => own.data = "whole"

(* Once a machine has been given its image, by a worker whose publish()     *)
(* came to its end or by an older build, it has it for good: across         *)
(* failures, kills and a loss of power at any moment.  What a machine       *)
(* booted, or was said to have because a probe saw it                       *)
(* (-provisionRootFilesystem:, vm_firmware_boot_probe), it has until the    *)
(* power fails.                                                             *)
Has(d, i) == \E f \in {d.own, d.legacy} : Finished(f) /\ f.id = i

Kept ==
  /\ \A d \in log : \A i \in done : Has(d, i)
  /\ \A i \in told : Has(Dirs, i)

(* "If the work image is there, this machine is ready, whoever made it"     *)
(* (-provisionRootFilesystem:): what it was said to have, it keeps when the *)
(* power fails.                                                             *)
ToldKept == \A d \in log : \A i \in told : Has(d, i)

(* While the power is on no finished image is replaced or removed, not even *)
(* one that another engine has published a moment ago: "that is a finished  *)
(* work image, it is the user's machine" (vm_firmware_boot_provision).      *)
PowerOff == scene'.losses # scene.losses
FinishedStays ==
  [][\A f \in {own, legacy} :
       Finished(f) /\ ~PowerOff =>
         \E g \in {own', legacy'} : Finished(g) /\ g.id = f.id]_vars

(* A user who keeps reopening the machine does not sit on "Preparing" for   *)
(* ever: with a complete rootfs.img the machine is ready in the end.        *)
Prepared == []<>(READY \/ ~src.whole)

=============================================================================
