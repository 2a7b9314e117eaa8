-------------------------- MODULE WorkImageProofs ---------------------------
(***************************************************************************)
(* What becomes of a machine's root filesystem, for any engines, any sizes  *)
(* and any number of failing calls, kills, imports and losses of power.     *)
(*                                                                         *)
(* What was published is complete whatever the scene (IInv).  That what is  *)
(* ready is complete, that what was given is kept and that it is not even   *)
(* moved away while the power is on takes a scene that is Careful, and the  *)
(* second invariant (KInv): no image that is finished looks too short, and  *)
(* whoever is about to remove or to replace one is alone.                   *)
(***************************************************************************)
EXTENDS WorkImage, TLAPS

Pcs == Busy \cup {"idle", "check", "remove", "refused"}

(* A worker from its open to its unlink has a temporary of its own.         *)
Copying(e) ==
  /\ pc[e] \in {"copy", "verify", "sync", "link", "fsync", "unlink"} =>
       tmp[e] \in Files /\ tmp[e].id = e
  /\ pc[e] = "verify" /\ ~moved[e] => tmp[e].data = "whole"
  /\ pc[e] \in {"sync", "link", "fsync", "unlink"} => tmp[e].data = "whole"
  /\ pc[e] \in {"link", "fsync", "unlink"} => tmp[e].synced

(* A file that was made here is whole, and on the disk.                     *)
Durable(f) == f.id \in Engines => f.data = "whole" /\ f.synced = TRUE

Made == \A d \in log : Durable(d.own) /\ Durable(d.legacy)

(* The inductive invariant of every scene.                                  *)
IInv ==
  /\ TypeOK
  /\ Made
  /\ \A e \in Engines : Copying(e)

(* rootfs.img is there and stays as it is.                                  *)
Settled == scene.imports = 0 /\ imp = 0 /\ src.whole

(* A finished file is as long as every image and is not lost with the power;
   one that is not and may count as work is shorter than the only image.     *)
Lasting(f) ==
  f # None =>
    /\ Finished(f) => /\ \A n \in scene.images : n <= f.size
                      /\ f.synced \/ scene.losses = 0
    /\ ~Finished(f) /\ f.size > 0 =>
         ~scene.overlap /\ Settled /\ \A n \in scene.images : f.size < n

Lasts(d) ==
  /\ Lasting(d.own) /\ Lasting(d.legacy)
  /\ scene.overlap /\ file_size(d.legacy) > 0 => Finished(d.own)
  /\ \A i \in done : \E f \in {d.own, d.legacy} : Finished(f) /\ f.id = i

(* Of which sizes rootfs.img is.                                            *)
Sized ==
  /\ scene.images # {}
  /\ \A m, n \in scene.images : m <= n + GROWTH
  /\ src.size \in scene.images \cup {0, 1}
  /\ src.whole => src.size \in scene.images
  /\ imp \in scene.images \cup {0}

(* A machine that is not reopened has one thread at its files.              *)
Alone ==
  ~scene.overlap =>
    /\ main.pc # "idle" => \A e \in Engines : pc[e] = "idle"
    /\ \A e, f \in Engines : pc[e] # "idle" /\ pc[f] # "idle" => e = f

(* The main thread replaces only what is not finished.                      *)
Adopting == main.pc = "adopt" => ~scene.overlap /\ ~Finished(own)

(* So does a worker, whose copy is long enough and then has its name.       *)
Keeping(e) ==
  /\ pc[e] = "remove" => ~scene.overlap /\ ~Finished(own)
  /\ pc[e] \in {"copy", "verify"} => tmp[e].size \in scene.images
  /\ pc[e] \in {"sync", "link", "fsync", "unlink"} =>
       \A n \in scene.images : n <= tmp[e].size
  /\ pc[e] \in {"fsync", "unlink"} => own.id = e /\ Finished(own)

(* The inductive invariant of a careful scene, on top of the first.          *)
KInv ==
  /\ \A d \in log : Lasts(d)
  /\ Sized
  /\ Alone
  /\ Adopting
  /\ \A e \in Engines : Keeping(e)

---------------------------------------------------------------------------
(* Files, directories and scenes.                                           *)

LEMMA Names ==
  /\ "none" \notin Ids /\ "none" \notin Engines /\ "own" \notin Engines
  /\ "legacy" \notin Engines /\ GROWTH \in Nat /\ GROWTH > 0
BY WorkImageAssumption DEF Ids

LEMMA FileFields ==
  ASSUME NEW f \in Files
  PROVE  /\ f.id \in Ids /\ f.size \in Nat /\ f.data \in {"holes", "whole"}
         /\ f.synced \in BOOLEAN /\ f # None
         /\ \A n \in Nat : [f EXCEPT !.size = n] \in Files
         /\ \A x \in Datas : [f EXCEPT !.data = x] \in Files
         /\ [f EXCEPT !.synced = TRUE] \in Files
<1>1. /\ f.id \in Ids /\ f.size \in Nat /\ f.data \in {"holes", "whole"}
      /\ f.synced \in BOOLEAN
  BY DEF Files, Datas
<1>2. f # None
  <2>1. None.id = "none"
    BY DEF None
  <2> QED BY <1>1, <2>1, Names
<1>3. \A n \in Nat : [f EXCEPT !.size = n] \in Files
  BY DEF Files
<1>4. \A x \in Datas : [f EXCEPT !.data = x] \in Files
  BY DEF Files
<1>5. [f EXCEPT !.synced = TRUE] \in Files
  BY DEF Files
<1> QED BY <1>1, <1>2, <1>3, <1>4, <1>5

LEMMA NoneFields ==
  /\ None.id = "none" /\ None \notin Files /\ file_size(None) = 0 /\ ~Finished(None)
  /\ Durable(None)
BY Names DEF None, file_size, Finished, Durable, Files

(* A bound of the scene that is spent.                                      *)
SameScene ==
  /\ scene' \in AllScenes
  /\ scene'.images = scene.images /\ scene'.overlap = scene.overlap
  /\ scene.imports = 0 => scene'.imports = 0
  /\ scene.losses = 0 => scene'.losses = 0

LEMMA SceneFields ==
  ASSUME scene \in AllScenes
  PROVE  /\ scene.images \subseteq Nat \ {0} /\ scene.overlap \in BOOLEAN
         /\ scene.imports \in Nat /\ scene.fails \in Nat /\ scene.kills \in Nat
         /\ scene.losses \in Nat
BY DEF AllScenes

LEMMA SpendsOne ==
  ASSUME scene \in AllScenes
  PROVE  /\ Spend("imports") =>
              /\ SameScene /\ scene.imports > 0 /\ scene'.losses = scene.losses
         /\ Spend("fails") => SameScene /\ scene'.losses = scene.losses
         /\ Spend("kills") => SameScene /\ scene'.losses = scene.losses
         /\ Spend("losses") =>
              SameScene /\ scene.losses > 0 /\ scene'.losses = scene.losses - 1
BY DEF Spend, SameScene, AllScenes

(* The directories.                                                         *)
Dir == [own : Files \cup {None}, legacy : Files \cup {None}]

LEMMA DirFields ==
  ASSUME IInv
  PROVE  /\ own \in Files \cup {None} /\ legacy \in Files \cup {None}
         /\ log \subseteq Dir /\ Dirs \in log /\ Dirs.own = own /\ Dirs.legacy = legacy
         /\ Durable(own) /\ Durable(legacy)
         /\ \A d \in log : /\ d.own \in Files \cup {None}
                           /\ d.legacy \in Files \cup {None}
                           /\ Durable(d.own) /\ Durable(d.legacy)
BY DEF IInv, TypeOK, Made, Dirs, Dir

(* The part of TypeOK that is about them.                                   *)
Kinds ==
  /\ {own, legacy} \subseteq Files \cup {None}
  /\ log \subseteq [own : Files \cup {None}, legacy : Files \cup {None}]
  /\ Dirs \in log

LEMMA EnterKeeps ==
  ASSUME IInv, NEW o \in Files \cup {None}, NEW l \in Files \cup {None},
         Durable(o), Durable(l), Enter(o, l)
  PROVE  Made' /\ Kinds'
<1> DEFINE d == [own |-> o, legacy |-> l]
<1>1. own' = o /\ legacy' = l /\ log' = log \cup {d}
  BY DEF Enter
<1>2. d \in Dir /\ d.own = o /\ d.legacy = l
  BY DEF Dir
<1>3. Dirs' = d
  BY <1>1 DEF Dirs
<1> HIDE DEF d
<1>4. Made'
  BY <1>1, <1>2, DirFields DEF Made, Durable
<1> QED BY <1>1, <1>2, <1>3, <1>4, DirFields DEF Kinds, Dir

LEMMA FsyncedKeeps ==
  ASSUME IInv, Fsynced, UNCHANGED <<own, legacy>>
  PROVE  Made' /\ Kinds'
<1>1. log' = {Dirs} /\ Dirs' = Dirs /\ Dirs \in log
  BY DirFields DEF Fsynced, Dirs
<1>2. Made'
  BY <1>1, DirFields DEF Made, Durable
<1>3. Kinds'
  BY <1>1, DirFields DEF Kinds, Dir
<1> QED BY <1>2, <1>3

LEMMA SameDirs ==
  ASSUME IInv, UNCHANGED <<own, legacy, log>>
  PROVE  Made' /\ Kinds'
BY DEF IInv, Made, TypeOK, Kinds, Dirs, Durable

(* The rest of TypeOK.                                                      *)
Others ==
  /\ scene \in AllScenes
  /\ src \in [size : Nat, whole : BOOLEAN]
  /\ imp \in Nat
  /\ main \in [pc : {"idle", "adopt", "probe"}, engine : Engines]
  /\ pc \in [Engines -> Pcs]
  /\ tmp \in [Engines -> Files \cup {None}]
  /\ moved \in [Engines -> BOOLEAN]
  /\ done \subseteq Ids /\ told \subseteq Ids

LEMMA TypeParts == TypeOK <=> Kinds /\ Others
BY DEF TypeOK, Kinds, Others, Pcs, Busy

LEMMA Parts ==
  (Made /\ Kinds /\ Others /\ \A e \in Engines : Copying(e)) <=> IInv
BY TypeParts DEF IInv

(* A worker that does nothing goes on having what it has.                   *)
LEMMA CopyingStays ==
  ASSUME NEW e, Copying(e), pc'[e] = pc[e], tmp'[e] = tmp[e],
         moved'[e] = moved[e] \/ moved'[e] = TRUE
  PROVE  Copying(e)'
BY DEF Copying

(* It goes to w, with f as its temporary and m for moved.                   *)
Moves(e, w, f, m) ==
  /\ pc' = [pc EXCEPT ![e] = w]
  /\ tmp' = [tmp EXCEPT ![e] = f]
  /\ moved' = [moved EXCEPT ![e] = m]

Steps(e, w, f) ==
  /\ pc'[e] = w /\ tmp'[e] = f
  /\ \A g \in Engines \ {e} : pc'[g] = pc[g] /\ tmp'[g] = tmp[g]

(* What a worker at w needs of its temporary.                               *)
Fits(e, w, f, m) ==
  /\ f \in Files \cup {None} /\ m \in BOOLEAN
  /\ w \in {"copy", "verify", "sync", "link", "fsync", "unlink"} => f \in Files /\ f.id = e
  /\ w = "verify" /\ ~m => f.data = "whole"
  /\ w \in {"sync", "link", "fsync", "unlink"} => f.data = "whole"
  /\ w \in {"link", "fsync", "unlink"} => f.synced

WorkersTyped ==
  /\ pc \in [Engines -> Pcs] /\ tmp \in [Engines -> Files \cup {None}]
  /\ moved \in [Engines -> BOOLEAN]

LEMMA WorkerMoves ==
  ASSUME IInv, NEW e \in Engines, NEW w \in Pcs, NEW f, NEW m,
         Moves(e, w, f, m), Fits(e, w, f, m)
  PROVE  WorkersTyped' /\ (\A g \in Engines : Copying(g)') /\ Steps(e, w, f)
<1>1. /\ pc \in [Engines -> Pcs] /\ tmp \in [Engines -> Files \cup {None}]
      /\ moved \in [Engines -> BOOLEAN]
  BY Parts DEF Others
<1>2. WorkersTyped'
  BY <1>1 DEF Moves, Fits, WorkersTyped
<1>3. /\ pc'[e] = w /\ tmp'[e] = f /\ moved'[e] = m
      /\ \A g \in Engines \ {e} : /\ pc'[g] = pc[g] /\ tmp'[g] = tmp[g]
                                  /\ moved'[g] = moved[g]
  BY <1>1 DEF Moves
<1>4. Copying(e)'
  BY <1>3 DEF Copying, Fits
<1>5. \A g \in Engines \ {e} : Copying(g)'
  BY <1>3, CopyingStays DEF IInv
<1> QED BY <1>2, <1>3, <1>4, <1>5 DEF Steps

LEMMA WorkerHas ==
  ASSUME IInv, NEW e \in Engines
  PROVE  /\ pc[e] \in Pcs /\ Fits(e, pc[e], tmp[e], moved[e])
         /\ tmp = [tmp EXCEPT ![e] = tmp[e]] /\ moved = [moved EXCEPT ![e] = moved[e]]
<1>1. WorkersTyped
  BY Parts DEF Others, WorkersTyped
<1>2. Copying(e)
  BY DEF IInv
<1>3. Fits(e, pc[e], tmp[e], moved[e])
  BY <1>1, <1>2 DEF WorkersTyped, Copying, Fits
<1> QED BY <1>1, <1>3 DEF WorkersTyped

(* What is not a worker's and not the directories.                          *)
Rest ==
  /\ scene \in AllScenes
  /\ src \in [size : Nat, whole : BOOLEAN]
  /\ imp \in Nat
  /\ main \in [pc : {"idle", "adopt", "probe"}, engine : Engines]
  /\ done \subseteq Ids /\ told \subseteq Ids

LEMMA RestParts == Others <=> WorkersTyped /\ Rest
BY DEF Others, WorkersTyped, Rest

LEMMA SameRest ==
  ASSUME IInv, UNCHANGED <<src, imp, main, done, told>>,
         scene' = scene \/ Spend("fails")
  PROVE  Rest'
BY SpendsOne DEF IInv, TypeOK, Rest, SameScene

(* What a probe that sees an image says is said of a file that is there.    *)
LEMMA ToldTyped ==
  ASSUME IInv, work_present
  PROVE  Told \subseteq Ids /\ own \in Files
<1>1. own \in Files
  BY DirFields, NoneFields DEF work_present
<1>2. own.id \in Ids /\ told \subseteq Ids
  BY <1>1, FileFields DEF IInv, TypeOK
<1> QED BY <1>1, <1>2 DEF Told

(* The parts again, of the state after a step.                              *)
LEMMA PartsThen ==
  ASSUME Made', Kinds', WorkersTyped', Rest', \A e \in Engines : Copying(e)'
  PROVE  IInv'
BY DEF IInv, TypeOK, Kinds, WorkersTyped, Rest, Pcs, Busy

---------------------------------------------------------------------------
(* The steps of a worker, each with where it leaves the worker and its file. *)

LEMMA Checks ==
  ASSUME IInv, NEW e \in Engines, CheckExisting(e)
  PROVE  IInv' /\ Steps(e, IF Incomplete(own) THEN "remove" ELSE "open",
                        tmp[e])
<1> DEFINE w == IF Incomplete(own) THEN "remove" ELSE "open"
           f == tmp[e]
<1>1. w \in Pcs
  BY DEF Pcs, Busy
<1>2. Moves(e, w, f, moved[e])
  BY WorkerHas DEF CheckExisting, To, Moves, workers
<1>3. Fits(e, w, f, moved[e])
  BY WorkerHas DEF CheckExisting, Fits, Pcs, Busy
<1> HIDE DEF w, f
<1>4. WorkersTyped' /\ (\A g \in Engines : Copying(g)') /\ Steps(e, w, f)
  BY <1>1, <1>2, <1>3, WorkerMoves
<1>5. Made' /\ Kinds'
  BY SameDirs DEF CheckExisting
<1>6. Rest'
  BY SameRest DEF CheckExisting
<1>7. IInv'
  BY <1>4, <1>5, <1>6, PartsThen
<1> QED BY <1>4, <1>7 DEF w, f

LEMMA Removes ==
  ASSUME IInv, NEW e \in Engines, RemoveExisting(e)
  PROVE  IInv' /\ Steps(e, IF own = None THEN "refused" ELSE "open",
                        tmp[e])
<1> DEFINE w == IF own = None THEN "refused" ELSE "open"
           f == tmp[e]
<1>1. w \in Pcs
  BY DEF Pcs, Busy
<1>2. Moves(e, w, f, moved[e])
  BY WorkerHas DEF RemoveExisting, To, Moves, workers
<1>3. Fits(e, w, f, moved[e])
  BY WorkerHas DEF RemoveExisting, Fits, Pcs, Busy
<1> HIDE DEF w, f
<1>4. WorkersTyped' /\ (\A g \in Engines : Copying(g)') /\ Steps(e, w, f)
  BY <1>1, <1>2, <1>3, WorkerMoves
<1>5. Made' /\ Kinds'
  BY SameDirs, EnterKeeps, DirFields, NoneFields DEF RemoveExisting
<1>6. Rest'
  BY SameRest DEF RemoveExisting
<1>7. IInv'
  BY <1>4, <1>5, <1>6, PartsThen
<1> QED BY <1>4, <1>7 DEF w, f

LEMMA Opened ==
  ASSUME IInv, NEW e \in Engines, Opens(e)
  PROVE  IInv' /\ Steps(e, "copy",
                        File(e, src.size, "holes", FALSE))
<1> DEFINE w == "copy"
           f == File(e, src.size, "holes", FALSE)
<1>1. w \in Pcs
  BY DEF Pcs, Busy
<1>2. Moves(e, w, f, FALSE)
  BY WorkerHas DEF Opens, To, Moves, workers, File
<1>3. Fits(e, w, f, FALSE)
  <2>1. src.size \in Nat
    BY DEF IInv, TypeOK
  <2> QED BY <2>1 DEF Fits, File, Files, Ids, Datas
<1> HIDE DEF w, f
<1>4. WorkersTyped' /\ (\A g \in Engines : Copying(g)') /\ Steps(e, w, f)
  BY <1>1, <1>2, <1>3, WorkerMoves
<1>5. Made' /\ Kinds'
  BY SameDirs DEF Opens
<1>6. Rest'
  BY SameRest DEF Opens
<1>7. IInv'
  BY <1>4, <1>5, <1>6, PartsThen
<1> QED BY <1>4, <1>7 DEF w, f

LEMMA Refused ==
  ASSUME IInv, NEW e \in Engines, RefusesToOpen(e)
  PROVE  IInv' /\ Steps(e, "refused",
                        tmp[e])
<1> DEFINE w == "refused"
           f == tmp[e]
<1>1. w \in Pcs
  BY DEF Pcs, Busy
<1>2. Moves(e, w, f, moved[e])
  BY WorkerHas DEF RefusesToOpen, To, Moves, workers
<1>3. Fits(e, w, f, moved[e])
  BY WorkerHas DEF RefusesToOpen, Fits, Pcs, Busy
<1> HIDE DEF w, f
<1>4. WorkersTyped' /\ (\A g \in Engines : Copying(g)') /\ Steps(e, w, f)
  BY <1>1, <1>2, <1>3, WorkerMoves
<1>5. Made' /\ Kinds'
  BY SameDirs DEF RefusesToOpen
<1>6. Rest'
  BY SameRest DEF RefusesToOpen
<1>7. IInv'
  BY <1>4, <1>5, <1>6, PartsThen
<1> QED BY <1>4, <1>7 DEF w, f

LEMMA Copied ==
  ASSUME IInv, NEW e \in Engines, copy_source(e)
  PROVE  IInv' /\ Steps(e, "verify",
                        [tmp[e] EXCEPT !.data = IF moved[e] THEN "holes" ELSE "whole"])
<1> DEFINE w == "verify"
           f == [tmp[e] EXCEPT !.data = IF moved[e] THEN "holes" ELSE "whole"]
<1>1. w \in Pcs
  BY DEF Pcs, Busy
<1>2. Moves(e, w, f, moved[e])
  BY WorkerHas DEF copy_source, To, Moves, workers
<1>3. Fits(e, w, f, moved[e])
  <2>1. /\ tmp[e] \in Files /\ tmp[e].id = e /\ moved[e] \in BOOLEAN
        /\ Fits(e, pc[e], tmp[e], moved[e])
    BY WorkerHas DEF copy_source, Fits
  <2>2. f \in Files /\ f.id = e
    BY <2>1, FileFields, Names DEF Files, Datas
  <2> QED BY <2>1, <2>2 DEF copy_source, Fits, Files
<1> HIDE DEF w, f
<1>4. WorkersTyped' /\ (\A g \in Engines : Copying(g)') /\ Steps(e, w, f)
  BY <1>1, <1>2, <1>3, WorkerMoves
<1>5. Made' /\ Kinds'
  BY SameDirs DEF copy_source
<1>6. Rest'
  BY SameRest DEF copy_source
<1>7. IInv'
  BY <1>4, <1>5, <1>6, PartsThen
<1> QED BY <1>4, <1>7 DEF w, f

LEMMA Verified ==
  ASSUME IInv, NEW e \in Engines, Verifies(e)
  PROVE  IInv' /\ Steps(e, "sync",
                        [tmp[e] EXCEPT !.size = @ + GROWTH])
<1> DEFINE w == "sync"
           f == [tmp[e] EXCEPT !.size = @ + GROWTH]
<1>1. w \in Pcs
  BY DEF Pcs, Busy
<1>2. Moves(e, w, f, moved[e])
  BY WorkerHas DEF Verifies, To, Moves, workers, Unchanged
<1>3. Fits(e, w, f, moved[e])
  <2>1. /\ tmp[e] \in Files /\ tmp[e].id = e /\ moved[e] \in BOOLEAN
        /\ Fits(e, pc[e], tmp[e], moved[e])
    BY WorkerHas DEF Verifies, Fits
  <2>2. f \in Files /\ f.id = e
    BY <2>1, FileFields, Names DEF Files, Datas
  <2> QED BY <2>1, <2>2 DEF Verifies, Fits, Files, Unchanged
<1> HIDE DEF w, f
<1>4. WorkersTyped' /\ (\A g \in Engines : Copying(g)') /\ Steps(e, w, f)
  BY <1>1, <1>2, <1>3, WorkerMoves
<1>5. Made' /\ Kinds'
  BY SameDirs DEF Verifies
<1>6. Rest'
  BY SameRest DEF Verifies
<1>7. IInv'
  BY <1>4, <1>5, <1>6, PartsThen
<1> QED BY <1>4, <1>7 DEF w, f

LEMMA Synced ==
  ASSUME IInv, NEW e \in Engines, Syncs(e)
  PROVE  IInv' /\ Steps(e, "link",
                        [tmp[e] EXCEPT !.synced = TRUE])
<1> DEFINE w == "link"
           f == [tmp[e] EXCEPT !.synced = TRUE]
<1>1. w \in Pcs
  BY DEF Pcs, Busy
<1>2. Moves(e, w, f, moved[e])
  BY WorkerHas DEF Syncs, To, Moves, workers, host_file_sync
<1>3. Fits(e, w, f, moved[e])
  <2>1. /\ tmp[e] \in Files /\ tmp[e].id = e /\ moved[e] \in BOOLEAN
        /\ Fits(e, pc[e], tmp[e], moved[e])
    BY WorkerHas DEF Syncs, Fits
  <2>2. f \in Files /\ f.id = e
    BY <2>1, FileFields, Names DEF Files, Datas
  <2> QED BY <2>1, <2>2 DEF Syncs, Fits, Files
<1> HIDE DEF w, f
<1>4. WorkersTyped' /\ (\A g \in Engines : Copying(g)') /\ Steps(e, w, f)
  BY <1>1, <1>2, <1>3, WorkerMoves
<1>5. Made' /\ Kinds'
  BY SameDirs DEF Syncs
<1>6. Rest'
  BY SameRest DEF Syncs
<1>7. IInv'
  BY <1>4, <1>5, <1>6, PartsThen
<1> QED BY <1>4, <1>7 DEF w, f

LEMMA Linked ==
  ASSUME IInv, NEW e \in Engines, Links(e)
  PROVE  IInv' /\ Steps(e, "fsync",
                        tmp[e])
<1> DEFINE w == "fsync"
           f == tmp[e]
<1>1. w \in Pcs
  BY DEF Pcs, Busy
<1>2. Moves(e, w, f, moved[e])
  BY WorkerHas DEF Links, To, Moves, workers
<1>3. Fits(e, w, f, moved[e])
  BY WorkerHas DEF Links, Fits, Pcs, Busy
<1> HIDE DEF w, f
<1>4. WorkersTyped' /\ (\A g \in Engines : Copying(g)') /\ Steps(e, w, f)
  BY <1>1, <1>2, <1>3, WorkerMoves
<1>5. Made' /\ Kinds'
  <2>1. tmp[e] \in Files /\ tmp[e].data = "whole" /\ tmp[e].synced = TRUE
    BY WorkerHas, FileFields DEF Links, Fits
  <2> QED BY <2>1, EnterKeeps, DirFields DEF Links, Durable
<1>6. Rest'
  BY SameRest DEF Links
<1>7. IInv'
  BY <1>4, <1>5, <1>6, PartsThen
<1> QED BY <1>4, <1>7 DEF w, f

LEMMA SyncedDirectory ==
  ASSUME IInv, NEW e \in Engines, SyncsDirectory(e)
  PROVE  IInv' /\ Steps(e, "unlink",
                        tmp[e])
<1> DEFINE w == "unlink"
           f == tmp[e]
<1>1. w \in Pcs
  BY DEF Pcs, Busy
<1>2. Moves(e, w, f, moved[e])
  BY WorkerHas DEF SyncsDirectory, To, Moves, workers
<1>3. Fits(e, w, f, moved[e])
  BY WorkerHas DEF SyncsDirectory, Fits, Pcs, Busy
<1> HIDE DEF w, f
<1>4. WorkersTyped' /\ (\A g \in Engines : Copying(g)') /\ Steps(e, w, f)
  BY <1>1, <1>2, <1>3, WorkerMoves
<1>5. Made' /\ Kinds'
  BY FsyncedKeeps DEF SyncsDirectory
<1>6. Rest'
  BY SameRest DEF SyncsDirectory
<1>7. IInv'
  BY <1>4, <1>5, <1>6, PartsThen
<1> QED BY <1>4, <1>7 DEF w, f

LEMMA Completed ==
  ASSUME IInv, NEW e \in Engines, Completes(e)
  PROVE  IInv' /\ Steps(e, "idle",
                        None)
<1> DEFINE w == "idle"
           f == None
<1>1. w \in Pcs
  BY DEF Pcs, Busy
<1>2. Moves(e, w, f, moved[e])
  BY WorkerHas DEF Completes, To, Moves, workers
<1>3. Fits(e, w, f, moved[e])
  BY WorkerHas DEF Fits
<1> HIDE DEF w, f
<1>4. WorkersTyped' /\ (\A g \in Engines : Copying(g)') /\ Steps(e, w, f)
  BY <1>1, <1>2, <1>3, WorkerMoves
<1>5. Made' /\ Kinds'
  BY FsyncedKeeps DEF Completes
<1>6. Rest'
  BY DEF IInv, TypeOK, Rest, Ids, Completes
<1>7. IInv'
  BY <1>4, <1>5, <1>6, PartsThen
<1> QED BY <1>4, <1>7 DEF w, f

LEMMA Failed ==
  ASSUME IInv, NEW e \in Engines, Fails(e)
  PROVE  IInv' /\ Steps(e, "refused",
                        None)
<1> DEFINE w == "refused"
           f == None
<1>1. w \in Pcs
  BY DEF Pcs, Busy
<1>2. Moves(e, w, f, moved[e])
  BY WorkerHas DEF Fails, To, Moves, workers
<1>3. Fits(e, w, f, moved[e])
  BY WorkerHas DEF Fits
<1> HIDE DEF w, f
<1>4. WorkersTyped' /\ (\A g \in Engines : Copying(g)') /\ Steps(e, w, f)
  BY <1>1, <1>2, <1>3, WorkerMoves
<1>5. Made' /\ Kinds'
  BY SameDirs DEF Fails
<1>6. Rest'
  BY SameRest DEF Fails
<1>7. IInv'
  BY <1>4, <1>5, <1>6, PartsThen
<1> QED BY <1>4, <1>7 DEF w, f

LEMMA Asked ==
  ASSUME IInv, NEW e \in Engines, AsksTheDisk(e)
  PROVE  IInv' /\ Steps(e, "idle",
                        tmp[e])
<1> DEFINE w == "idle"
           f == tmp[e]
<1>1. w \in Pcs
  BY DEF Pcs, Busy
<1>2. Moves(e, w, f, moved[e])
  BY WorkerHas DEF AsksTheDisk, To, Moves, workers
<1>3. Fits(e, w, f, moved[e])
  BY WorkerHas DEF AsksTheDisk, Fits, Pcs, Busy
<1> HIDE DEF w, f
<1>4. WorkersTyped' /\ (\A g \in Engines : Copying(g)') /\ Steps(e, w, f)
  BY <1>1, <1>2, <1>3, WorkerMoves
<1>5. Made' /\ Kinds'
  BY SameDirs DEF AsksTheDisk
<1>6. Rest'
  BY ToldTyped DEF AsksTheDisk, IInv, TypeOK, Rest
<1>7. IInv'
  BY <1>4, <1>5, <1>6, PartsThen
<1> QED BY <1>4, <1>7 DEF w, f

LEMMA WorkerKeeps ==
  ASSUME IInv, NEW e \in Engines, Worker(e) \/ Fails(e)
  PROVE  IInv'
<1>1. CASE CheckExisting(e) \/ RemoveExisting(e) \/ Opens(e) \/ RefusesToOpen(e)
  BY <1>1, Checks, Removes, Opened, Refused
<1>2. CASE copy_source(e) \/ Verifies(e) \/ Syncs(e) \/ Links(e)
  BY <1>2, Copied, Verified, Synced, Linked
<1>3. CASE SyncsDirectory(e) \/ Completes(e) \/ Fails(e) \/ AsksTheDisk(e)
  BY <1>3, SyncedDirectory, Completed, Failed, Asked
<1> QED BY <1>1, <1>2, <1>3 DEF Worker

---------------------------------------------------------------------------
(* The steps of the main thread, of the importer, and the ends.             *)

LEMMA SameWorkers ==
  ASSUME IInv, UNCHANGED workers
  PROVE  WorkersTyped' /\ (\A e \in Engines : Copying(e)')
<1>1. WorkersTyped
  BY Parts DEF Others, WorkersTyped
<1>2. UNCHANGED <<pc, tmp, moved>>
  BY DEF workers
<1>3. WorkersTyped'
  BY <1>1, <1>2 DEF WorkersTyped
<1>4. \A e \in Engines : Copying(e)'
  BY <1>2, CopyingStays DEF IInv
<1> QED BY <1>3, <1>4

LEMMA MainTyped ==
  ASSUME IInv
  PROVE  /\ main.pc \in {"idle", "adopt", "probe"} /\ main.engine \in Engines
         /\ \A w \in {"idle", "adopt", "probe"} :
              [main EXCEPT !.pc = w] \in [pc : {"idle", "adopt", "probe"}, engine : Engines]
BY DEF IInv, TypeOK

LEMMA BringsUp ==
  ASSUME IInv, NEW e \in Engines, BringUp(e)
  PROVE  IInv'
<1>1. WorkersTyped' /\ (\A g \in Engines : Copying(g)')
  BY SameWorkers DEF BringUp
<1>2. Made' /\ Kinds'
  BY SameDirs DEF BringUp
<1>3. Rest'
  BY DEF IInv, TypeOK, Rest, BringUp
<1> QED BY <1>1, <1>2, <1>3, PartsThen

LEMMA Adopts ==
  ASSUME IInv, vm_instance_work_adopt
  PROVE  IInv'
<1>1. WorkersTyped' /\ (\A g \in Engines : Copying(g)')
  BY SameWorkers DEF vm_instance_work_adopt
<1>2. Made' /\ Kinds'
  BY EnterKeeps, DirFields, NoneFields DEF vm_instance_work_adopt
<1>3. Rest'
  BY MainTyped, SpendsOne DEF IInv, TypeOK, Rest, vm_instance_work_adopt, SameScene
<1> QED BY <1>1, <1>2, <1>3, PartsThen

LEMMA Probes ==
  ASSUME IInv, Probe
  PROVE  /\ IInv'
         /\ \/ UNCHANGED pc
            \/ pc[main.engine] = "idle" /\ NEEDS_WORK_IMAGE
               /\ Steps(main.engine, "check", tmp[main.engine])
<1>1. Rest'
  <2>1. told' \subseteq Ids
    BY ToldTyped DEF IInv, TypeOK, Probe, READY
  <2> QED BY <2>1, MainTyped DEF IInv, TypeOK, Rest, Probe
<1>2. Made' /\ Kinds'
  BY SameDirs DEF Probe
<1>3. CASE UNCHANGED pc
  <2>1. UNCHANGED workers
    BY <1>3 DEF Probe, workers
  <2> QED BY <1>1, <1>2, <1>3, <2>1, SameWorkers, PartsThen
<1>4. CASE ~UNCHANGED pc
  <2> DEFINE e == main.engine
  <2>1. e \in Engines
    BY MainTyped
  <2>2. NEEDS_WORK_IMAGE /\ pc[e] = "idle" /\ Moves(e, "check", tmp[e], moved[e])
    BY <1>4, <2>1, WorkerHas DEF Probe, Moves
  <2>3. Fits(e, "check", tmp[e], moved[e])
    BY <2>1, WorkerHas DEF Fits
  <2> HIDE DEF e
  <2>4. /\ WorkersTyped' /\ (\A g \in Engines : Copying(g)')
        /\ Steps(e, "check", tmp[e])
    BY <2>1, <2>2, <2>3, WorkerMoves DEF Pcs
  <2> QED BY <1>1, <1>2, <2>2, <2>4, PartsThen DEF e
<1> QED BY <1>3, <1>4

LEMMA Writes ==
  ASSUME IInv, NEW n \in Nat, NEW b \in BOOLEAN, Write(n, b),
         scene' \in AllScenes, imp' \in Nat
  PROVE  IInv'
<1>1. WorkersTyped'
  BY Parts DEF Others, WorkersTyped, Write
<1>2. \A e \in Engines : Copying(e)'
  <2> TAKE e \in Engines
  <2>1. pc'[e] = pc[e] /\ tmp'[e] = tmp[e] /\ moved'[e] = TRUE
    BY DEF Write
  <2> QED BY <2>1, CopyingStays DEF IInv
<1>3. Made' /\ Kinds'
  BY SameDirs DEF Write
<1>4. Rest'
  BY DEF IInv, TypeOK, Rest, Write
<1> QED BY <1>1, <1>2, <1>3, <1>4, PartsThen

LEMMA ImportKeeps ==
  ASSUME IInv
  PROVE  /\ \A n \in scene.images : ImportOpens(n) => IInv'
         /\ ImportWrites => IInv'
         /\ ImportEnds => IInv'
         /\ ImportStops => IInv'
<1>0. scene \in AllScenes /\ imp \in Nat /\ 0 \in Nat /\ 1 \in Nat
  BY DEF IInv, TypeOK
<1>1. ASSUME NEW n \in scene.images, ImportOpens(n) PROVE IInv'
  BY <1>0, <1>1, Writes, SceneFields, SpendsOne DEF ImportOpens, SameScene
<1>2. ASSUME ImportWrites PROVE IInv'
  BY <1>0, <1>2, Writes DEF ImportWrites
<1>3. ASSUME ImportEnds PROVE IInv'
  BY <1>0, <1>3, Writes DEF ImportEnds
<1>4. ASSUME ImportStops PROVE IInv'
  BY <1>0, <1>4, Writes DEF ImportStops
<1> QED BY <1>1, <1>2, <1>3, <1>4

(* With the process gone there are no workers.                              *)
LEMMA EndsKeeps ==
  ASSUME IInv, Ends, scene' \in AllScenes, told' \subseteq told
  PROVE  WorkersTyped' /\ Rest' /\ (\A e \in Engines : Copying(e)')
<1>1. WorkersTyped' /\ (\A e \in Engines : Copying(e)')
  BY DEF Ends, WorkersTyped, Copying, Pcs
<1>2. Rest'
  BY MainTyped DEF Ends, Rest, IInv, TypeOK
<1> QED BY <1>1, <1>2

LEMMA KilledKeeps ==
  ASSUME IInv, Killed
  PROVE  IInv' /\ SameScene /\ scene'.losses = scene.losses
<1>1. SameScene /\ scene'.losses = scene.losses
  BY SpendsOne DEF Killed, IInv, TypeOK
<1>2. Made' /\ Kinds'
  BY SameDirs DEF Killed
<1> QED BY <1>1, <1>2, EndsKeeps, PartsThen DEF Killed, SameScene

(* What the power leaves of a file: itself, or its name and its length.     *)
LEMMA TornIs ==
  ASSUME NEW f \in Files \cup {None}, NEW g \in Torn(f)
  PROVE  /\ f = None => g = None
         /\ f # None => g \in Files /\ g.id = f.id /\ g.size = f.size
                                    /\ g.synced = f.synced
         /\ f.synced = TRUE => g = f
         /\ Durable(f) => Durable(g)
         /\ Finished(g) => g = f
<1>1. CASE f = None
  BY <1>1, NoneFields DEF Torn
<1>2. CASE f # None
  <2>1. f \in Files /\ f.id \in Ids
    BY <1>2, FileFields
  <2>2. g = f \/ (f.synced # TRUE /\ g = [f EXCEPT !.data = "holes"])
    BY <1>2 DEF Torn
  <2>3. CASE g = f
    BY <1>2, <2>1, <2>3, FileFields
  <2>4. CASE f.synced # TRUE /\ g = [f EXCEPT !.data = "holes"]
    <3>1. /\ g \in Files /\ g.id = f.id /\ g.size = f.size /\ g.synced = f.synced
          /\ g.data = "holes"
      BY <2>1, <2>4, FileFields DEF Files, Datas
    <3> QED BY <1>2, <2>1, <2>4, <3>1 DEF Durable, Finished
  <2> QED BY <2>2, <2>3, <2>4
<1> QED BY <1>1, <1>2

LEMMA PowerKeeps ==
  ASSUME IInv, PowerFails
  PROVE  IInv' /\ SameScene /\ scene.losses > 0 /\ scene'.losses = scene.losses - 1
<1>1. SameScene /\ scene.losses > 0 /\ scene'.losses = scene.losses - 1
  BY SpendsOne DEF PowerFails, IInv, TypeOK
<1>2. Made' /\ Kinds'
  <2>1. PICK d \in log : /\ own' \in Torn(d.own) /\ legacy' \in Torn(d.legacy)
                         /\ log' = {[own |-> own', legacy |-> legacy']}
    BY DEF PowerFails
  <2>2. /\ d.own \in Files \cup {None} /\ d.legacy \in Files \cup {None}
        /\ Durable(d.own) /\ Durable(d.legacy)
    BY DirFields
  <2>3. /\ own' \in Files \cup {None} /\ Durable(own')
        /\ legacy' \in Files \cup {None} /\ Durable(legacy')
    BY <2>1, <2>2, TornIs
  <2>4. Made'
    BY <2>1, <2>3 DEF Made, Durable
  <2>5. Kinds'
    BY <2>1, <2>3 DEF Kinds, Dirs
  <2> QED BY <2>4, <2>5
<1> QED BY <1>1, <1>2, EndsKeeps, PartsThen DEF PowerFails, SameScene

LEMMA StutterKeeps ==
  ASSUME IInv, UNCHANGED vars
  PROVE  IInv'
<1>1. WorkersTyped' /\ (\A e \in Engines : Copying(e)')
  BY SameWorkers DEF vars, workers
<1>2. Made' /\ Kinds'
  BY SameDirs DEF vars
<1>3. Rest'
  BY SameRest DEF vars
<1> QED BY <1>1, <1>2, <1>3, PartsThen

LEMMA StepKeeps ==
  ASSUME IInv, [Next]_vars
  PROVE  IInv'
<1>1. CASE \E e \in Engines : BringUp(e) \/ Worker(e) \/ Fails(e)
  BY <1>1, BringsUp, WorkerKeeps
<1>2. CASE vm_instance_work_adopt \/ Probe
  BY <1>2, Adopts, Probes
<1>3. CASE (\E n \in scene.images : ImportOpens(n)) \/ ImportWrites \/ ImportEnds \/ ImportStops
  BY <1>3, ImportKeeps
<1>4. CASE Killed \/ PowerFails
  BY <1>4, KilledKeeps, PowerKeeps
<1>5. CASE UNCHANGED vars
  BY <1>5, StutterKeeps
<1> QED BY <1>1, <1>2, <1>3, <1>4, <1>5 DEF Next

LEMMA InitHolds == Init => IInv
<1> SUFFICES ASSUME Init PROVE IInv
  OBVIOUS
<1>1. scene \in AllScenes /\ scene.own.id \in {"none", "own"} /\ scene.legacy.id \in {"none", "legacy"}
      /\ scene.images \subseteq Nat
  BY WorkImageAssumption DEF Init, AllScenes
<1>2. /\ own \in Files \cup {None} /\ legacy \in Files \cup {None}
      /\ Durable(own) /\ Durable(legacy)
  BY <1>1, Names DEF Init, AllScenes, Durable
<1>3. Made /\ Kinds
  BY <1>2 DEF Init, Made, Kinds, Dirs
<1>4. WorkersTyped /\ \A e \in Engines : Copying(e)
  BY DEF Init, WorkersTyped, Copying, Pcs
<1>5. done \subseteq Ids
  <2>1. \A f \in {own, legacy} : Finished(f) => f.id \in Ids
    BY <1>2, FileFields, NoneFields
  <2> QED BY <2>1 DEF Init
<1>6. main \in [pc : {"idle", "adopt", "probe"}, engine : Engines]
  <2>1. (CHOOSE e \in Engines : TRUE) \in Engines
    BY WorkImageAssumption
  <2> QED BY <2>1 DEF Init
<1>7. Rest
  BY <1>1, <1>5, <1>6 DEF Init, Rest
<1> QED BY <1>3, <1>4, <1>7, RestParts, Parts

LEMMA IInvAlways == Spec => []IInv
<1>1. IInv /\ [Next]_vars => IInv'
  BY StepKeeps
<1> QED BY InitHolds, <1>1, PTL DEF Spec

---------------------------------------------------------------------------
(* The second invariant.                                                    *)

LEMMA FinishedIsLong ==
  ASSUME IInv, KInv
  PROVE  /\ Lasts(Dirs) /\ Lasting(own) /\ Lasting(legacy)
         /\ scene.overlap /\ file_size(legacy) > 0 => Finished(own)
         /\ Finished(own) => file_size(own) > 0
<1>1. Lasts(Dirs) /\ Dirs.own = own /\ Dirs.legacy = legacy
  BY DirFields DEF KInv
<1>2. /\ Lasting(own) /\ Lasting(legacy)
      /\ scene.overlap /\ file_size(legacy) > 0 => Finished(own)
  BY <1>1 DEF Lasts
<1>3. ASSUME Finished(own) PROVE file_size(own) > 0
  <2>1. own # None /\ own.size \in Nat
    BY <1>3, DirFields, FileFields DEF Finished
  <2>2. PICK n \in scene.images : TRUE
    BY DEF KInv, Sized
  <2>3. n \in Nat \ {0}
    BY <2>2, SceneFields DEF IInv, TypeOK
  <2>4. n <= own.size
    BY <1>2, <1>3, <2>1, <2>2 DEF Lasting
  <2> QED BY <2>1, <2>3, <2>4 DEF file_size
<1> QED BY <1>1, <1>2, <1>3

(* What looks too short is not finished, and nobody else is at it.          *)
LEMMA IncompleteIsNot ==
  ASSUME IInv, KInv, Incomplete(own)
  PROVE  ~scene.overlap /\ ~Finished(own)
<1>1. own # None /\ own \in Files /\ own.size \in Nat /\ file_size(own) = own.size
  <2>1. file_size(own) > 0
    BY DEF Incomplete
  <2>2. own # None
    BY <2>1, NoneFields
  <2>3. own \in Files
    BY <2>2, DirFields
  <2> QED BY <2>2, <2>3, FileFields DEF file_size
<1>2. /\ src.size > 0 /\ own.size < src.size /\ own.size > 0
      /\ src.size \in scene.images \cup {0, 1} /\ src.size \in Nat
  BY <1>1 DEF Incomplete, KInv, Sized, IInv, TypeOK
<1>3. src.size \in scene.images
  BY <1>1, <1>2
<1>4. ~Finished(own)
  <2> SUFFICES ASSUME Finished(own) PROVE FALSE
    OBVIOUS
  <2>1. src.size <= own.size
    BY <1>1, <1>3, FinishedIsLong DEF Lasting
  <2> QED BY <1>1, <1>2, <2>1
<1> QED BY <1>1, <1>2, <1>4, FinishedIsLong DEF Lasting

(* Nothing that lasts stops to, as long as nothing but bounds are spent.     *)
Quiet == SameScene /\ (Settled => Settled')

LEMMA LastingStays ==
  ASSUME NEW f, Lasting(f), Quiet
  PROVE  Lasting(f)'
BY DEF Lasting, Quiet, SameScene, Finished

LEMMA LastsStays ==
  ASSUME NEW d, Lasts(d), Quiet, UNCHANGED done
  PROVE  Lasts(d)'
<1>1. Lasting(d.own)' /\ Lasting(d.legacy)'
  BY LastingStays DEF Lasts
<1> QED BY <1>1 DEF Lasts, Quiet, SameScene, Finished, file_size

Still == SameScene /\ UNCHANGED <<src, imp, done>>

LEMMA StillIs ==
  ASSUME IInv, UNCHANGED <<src, imp, done>>, scene' = scene \/ Spend("fails")
  PROVE  Still
BY SpendsOne DEF Still, SameScene, IInv, TypeOK

LEMMA StillSized ==
  ASSUME KInv, Still
  PROVE  Quiet /\ Sized'
BY DEF Still, Quiet, SameScene, Settled, KInv, Sized

LEMMA StillLasts ==
  ASSUME KInv, Still, log' \subseteq log
  PROVE  \A d \in log' : Lasts(d)'
BY StillSized, LastsStays DEF KInv, Still

(* The same with one pair of names more.                                    *)
LEMMA EnterLasts ==
  ASSUME IInv, KInv, Still, NEW o, NEW l, Enter(o, l), Lasting(o), Lasting(l),
         scene.overlap /\ file_size(l) > 0 => Finished(o),
         \A i \in done : \E f \in {o, l} : Finished(f) /\ f.id = i
  PROVE  \A d \in log' : Lasts(d)'
<1> DEFINE d == [own |-> o, legacy |-> l]
<1>2. d.own = o /\ d.legacy = l
  OBVIOUS
<1>3. log' = log \cup {d}
  BY DEF Enter
<1> HIDE DEF d
<1>4. Lasts(d)
  BY <1>2 DEF Lasts
<1>5. Lasts(d)'
  BY <1>4, StillSized, LastsStays DEF Still
<1>6. \A x \in log : Lasts(x)'
  BY StillSized, LastsStays DEF KInv, Still
<1> QED BY <1>3, <1>5, <1>6

(* A worker that is busy: the main thread does not take a file over, and
   without a reopening it is the only one.                                  *)
LEMMA BusyIsAlone ==
  ASSUME IInv, KInv, NEW e \in Engines, pc[e] # "idle"
  PROVE  /\ main.pc # "adopt"
         /\ ~scene.overlap => main.pc = "idle" /\ \A g \in Engines \ {e} : pc[g] = "idle"
BY DEF KInv, Alone, Adopting

LEMMA AloneStays ==
  ASSUME IInv, KInv, Still, NEW e \in Engines, NEW w, NEW f, Steps(e, w, f),
         pc[e] # "idle", UNCHANGED main
  PROVE  Alone' /\ Adopting'
<1>1. Adopting'
  BY BusyIsAlone DEF Adopting
<1>2. \A g \in Engines : pc'[g] # "idle" => pc[g] # "idle"
  BY DEF Steps
<1>3. Alone'
  BY <1>2, BusyIsAlone DEF KInv, Alone, Still, SameScene
<1> QED BY <1>1, <1>3

LEMMA KeepingStays ==
  ASSUME NEW e, Keeping(e), SameScene, UNCHANGED own, pc'[e] = pc[e], tmp'[e] = tmp[e]
  PROVE  Keeping(e)'
BY DEF Keeping, SameScene

LEMMA OthersKeep ==
  ASSUME IInv, KInv, Still, NEW e \in Engines, NEW w, NEW f, Steps(e, w, f), UNCHANGED own
  PROVE  \A g \in Engines \ {e} : Keeping(g)'
BY KeepingStays DEF KInv, Steps, Still

(* A worker's step that leaves the files where they are.                    *)
LEMMA QuietStep ==
  ASSUME IInv, KInv, Still, NEW e \in Engines, NEW w, NEW f, Steps(e, w, f),
         pc[e] # "idle", UNCHANGED <<own, main>>, log' \subseteq log, Keeping(e)'
  PROVE  KInv'
<1>1. (\A d \in log' : Lasts(d)') /\ Sized'
  BY StillLasts, StillSized
<1>2. Alone' /\ Adopting'
  BY AloneStays
<1>3. \A g \in Engines : Keeping(g)'
  BY OthersKeep
<1> QED BY <1>1, <1>2, <1>3 DEF KInv

(* The steps of a worker.                                                   *)

LEMMA StillWorks ==
  ASSUME IInv, KInv, NEW e \in Engines
  PROVE  /\ CheckExisting(e) \/ Opens(e) \/ RefusesToOpen(e) => Still
         /\ copy_source(e) \/ Verifies(e) \/ Syncs(e) => Still
         /\ RemoveExisting(e) \/ Links(e) \/ SyncsDirectory(e) => Still
         /\ Fails(e) \/ AsksTheDisk(e) => Still
BY StillIs DEF CheckExisting, Opens, RefusesToOpen, copy_source, Verifies, Syncs,
  RemoveExisting, Links, SyncsDirectory, Fails, AsksTheDisk

LEMMA ChecksKept ==
  ASSUME IInv, KInv, NEW e \in Engines, CheckExisting(e)
  PROVE  KInv'
<1>1. Still /\ Steps(e, IF Incomplete(own) THEN "remove" ELSE "open", tmp[e])
  BY StillWorks, Checks
<1>2. UNCHANGED <<own, main, log>> /\ pc[e] # "idle"
  BY DEF CheckExisting
<1>3. Keeping(e)'
  <2>1. pc'[e] \in {"remove", "open"} /\ (pc'[e] = "remove" => Incomplete(own))
    BY <1>1 DEF Steps
  <2> QED BY <1>1, <1>2, <2>1, IncompleteIsNot DEF Keeping, Finished, Still, SameScene
<1> QED BY <1>1, <1>2, <1>3, QuietStep

LEMMA OpensKept ==
  ASSUME IInv, KInv, NEW e \in Engines, Opens(e)
  PROVE  KInv'
<1>1. Still /\ Steps(e, "copy", File(e, src.size, "holes", FALSE))
  BY StillWorks, Opened
<1>2. UNCHANGED <<own, main, log>> /\ pc[e] # "idle" /\ src.size \in scene.images
  BY DEF Opens, KInv, Sized
<1>3. Keeping(e)'
  BY <1>1, <1>2 DEF Keeping, Steps, File, Still, SameScene
<1> QED BY <1>1, <1>2, <1>3, QuietStep

LEMMA CopiesKept ==
  ASSUME IInv, KInv, NEW e \in Engines, copy_source(e)
  PROVE  KInv'
<1>1. /\ Still
      /\ Steps(e, "verify", [tmp[e] EXCEPT !.data = IF moved[e] THEN "holes" ELSE "whole"])
  BY StillWorks, Copied
<1>2. UNCHANGED <<own, main, log>> /\ pc[e] = "copy"
  BY DEF copy_source
<1>3. Keeping(e)'
  <2>1. tmp[e] \in Files /\ tmp[e].size \in scene.images
    BY <1>2, WorkerHas DEF Fits, KInv, Keeping
  <2>2. tmp'[e].size = tmp[e].size /\ pc'[e] = "verify"
    BY <1>1, <2>1 DEF Steps, Files
  <2> QED BY <1>1, <2>1, <2>2 DEF Keeping, Still, SameScene
<1> QED BY <1>1, <1>2, <1>3, QuietStep

(* With its growth the copy is as long as any image.                        *)
LEMMA VerifiesKept ==
  ASSUME IInv, KInv, NEW e \in Engines, Verifies(e)
  PROVE  KInv'
<1>1. Still /\ Steps(e, "sync", [tmp[e] EXCEPT !.size = @ + GROWTH])
  BY StillWorks, Verified
<1>2. UNCHANGED <<own, main, log>> /\ pc[e] = "verify"
  BY DEF Verifies
<1>3. Keeping(e)'
  <2>1. tmp[e] \in Files /\ tmp[e].size \in scene.images
    BY <1>2, WorkerHas DEF Fits, KInv, Keeping
  <2>2. tmp'[e].size = tmp[e].size + GROWTH /\ pc'[e] = "sync"
    BY <1>1, <2>1 DEF Steps, Files
  <2>3. \A n \in scene.images : n <= tmp'[e].size
    BY <2>1, <2>2 DEF KInv, Sized
  <2> QED BY <1>1, <2>2, <2>3 DEF Keeping, Still, SameScene
<1> QED BY <1>1, <1>2, <1>3, QuietStep

LEMMA SyncsKept ==
  ASSUME IInv, KInv, NEW e \in Engines, Syncs(e)
  PROVE  KInv'
<1>1. Still /\ Steps(e, "link", [tmp[e] EXCEPT !.synced = TRUE])
  BY StillWorks, Synced
<1>2. UNCHANGED <<own, main, log>> /\ pc[e] = "sync"
  BY DEF Syncs
<1>3. Keeping(e)'
  <2>1. tmp[e] \in Files /\ \A n \in scene.images : n <= tmp[e].size
    BY <1>2, WorkerHas DEF Fits, KInv, Keeping
  <2>2. tmp'[e].size = tmp[e].size /\ pc'[e] = "link"
    BY <1>1, <2>1 DEF Steps, Files
  <2> QED BY <1>1, <2>1, <2>2 DEF Keeping, Still, SameScene
<1> QED BY <1>1, <1>2, <1>3, QuietStep

LEMMA SyncsDirectoryKept ==
  ASSUME IInv, KInv, NEW e \in Engines, SyncsDirectory(e)
  PROVE  KInv'
<1>1. Still /\ Steps(e, "unlink", tmp[e])
  BY StillWorks, SyncedDirectory
<1>2. UNCHANGED <<own, main>> /\ pc[e] = "fsync" /\ log' \subseteq log
  BY DirFields DEF SyncsDirectory, Fsynced
<1>3. Keeping(e)'
  BY <1>1, <1>2 DEF KInv, Keeping, Steps, Still, SameScene, Finished
<1> QED BY <1>1, <1>2, <1>3, QuietStep

LEMMA StopsKept ==
  ASSUME IInv, KInv, NEW e \in Engines,
         RefusesToOpen(e) \/ Fails(e) \/ AsksTheDisk(e)
  PROVE  KInv'
<1>1. PICK w \in {"refused", "idle"}, f \in {tmp[e], None} : Still /\ Steps(e, w, f)
  BY StillWorks, Refused, Failed, Asked
<1>2. UNCHANGED <<own, main, log>> /\ pc[e] # "idle"
  BY DEF RefusesToOpen, Fails, AsksTheDisk, Busy
<1>3. Keeping(e)'
  BY <1>1 DEF Keeping, Steps
<1> QED BY <1>1, <1>2, <1>3, QuietStep

(* The remove takes what is not finished.                                   *)
LEMMA RemovesKept ==
  ASSUME IInv, KInv, NEW e \in Engines, RemoveExisting(e)
  PROVE  KInv' /\ ~Finished(own) /\ UNCHANGED legacy
<1>1. Still /\ Steps(e, IF own = None THEN "refused" ELSE "open", tmp[e])
  BY StillWorks, Removes
<1>2. UNCHANGED main /\ pc[e] = "remove"
  BY DEF RemoveExisting
<1>3. ~scene.overlap /\ ~Finished(own)
  BY <1>2 DEF KInv, Keeping
<1>4. Alone' /\ Adopting'
  BY <1>1, <1>2, AloneStays
<1>5. \A d \in log' : Lasts(d)'
  <2>1. CASE own = None
    BY <1>1, <2>1, StillLasts DEF RemoveExisting
  <2>2. CASE own # None
    <3>1. \A i \in done : \E f \in {None, legacy} : Finished(f) /\ f.id = i
      BY <1>3, FinishedIsLong, DirFields DEF Lasts
    <3>2. Lasting(None)
      BY DEF Lasting
    <3>3. Enter(None, legacy)
      BY <2>2 DEF RemoveExisting
    <3> QED BY <1>1, <1>3, <3>1, <3>2, <3>3, EnterLasts, FinishedIsLong
  <2> QED BY <2>1, <2>2
<1>6. \A g \in Engines : Keeping(g)'
  <2>1. \A g \in Engines \ {e} : pc'[g] = "idle"
    BY <1>1, <1>2, <1>3, BusyIsAlone DEF Steps
  <2>2. pc'[e] \in {"refused", "open"}
    BY <1>1 DEF Steps
  <2> QED BY <2>1, <2>2 DEF Keeping
<1>7. UNCHANGED legacy
  BY DEF RemoveExisting, Enter
<1> QED BY <1>1, <1>3, <1>4, <1>5, <1>6, <1>7, StillSized DEF KInv

(* The link comes where there was nothing.                                  *)
LEMMA LinksKept ==
  ASSUME IInv, KInv, NEW e \in Engines, Links(e)
  PROVE  KInv' /\ ~Finished(own) /\ UNCHANGED legacy
<1>1. Still /\ Steps(e, "fsync", tmp[e])
  BY StillWorks, Linked
<1>2. /\ UNCHANGED main /\ pc[e] = "link" /\ own = None /\ Enter(tmp[e], legacy)
      /\ own' = tmp[e] /\ UNCHANGED legacy /\ ~Finished(own)
  BY NoneFields DEF Links, Enter
<1>3. /\ tmp[e] \in Files /\ tmp[e].id = e /\ tmp[e].data = "whole" /\ tmp[e].synced = TRUE
      /\ tmp[e] # None
  BY <1>2, WorkerHas, FileFields DEF Fits
<1>4. \A n \in scene.images : n <= tmp[e].size
  BY <1>2 DEF KInv, Keeping
<1>5. Finished(tmp[e]) /\ Lasting(tmp[e])
  BY <1>3, <1>4 DEF Finished, Lasting
<1>6. Alone' /\ Adopting'
  BY <1>1, <1>2, AloneStays
<1>7. \A d \in log' : Lasts(d)'
  <2>1. \A i \in done : \E f \in {tmp[e], legacy} : Finished(f) /\ f.id = i
    BY <1>2, FinishedIsLong, DirFields DEF Lasts
  <2> QED BY <1>1, <1>2, <1>5, <2>1, EnterLasts, FinishedIsLong
<1>8. \A g \in Engines : Keeping(g)'
  <2>1. Keeping(e)'
    BY <1>1, <1>2, <1>3, <1>4, <1>5 DEF Keeping, Steps, Still, SameScene, Finished
  <2>2. ASSUME NEW g \in Engines \ {e} PROVE Keeping(g)'
    <3>1. Keeping(g) /\ pc'[g] = pc[g] /\ tmp'[g] = tmp[g]
      BY <1>1 DEF KInv, Steps
    <3>2. pc[g] \notin {"fsync", "unlink"}
      BY <1>2, <3>1 DEF Keeping
    <3>3. pc[g] # "remove"
      BY <1>2, <3>1, BusyIsAlone DEF Keeping
    <3> QED BY <1>1, <3>1, <3>2, <3>3 DEF Keeping, Still, SameScene
  <2> QED BY <2>1, <2>2
<1> QED BY <1>1, <1>2, <1>6, <1>7, <1>8, StillSized DEF KInv

(* The machine has been given the image, which is all there is by now.      *)
LEMMA CompletesKept ==
  ASSUME IInv, KInv, NEW e \in Engines, Completes(e)
  PROVE  KInv' /\ UNCHANGED <<own, legacy>>
<1>1. Steps(e, "idle", None)
  BY Completed
<1>2. /\ UNCHANGED <<scene, own, legacy, src, imp, main>> /\ pc[e] = "unlink"
      /\ log' = {Dirs} /\ done' = done \cup {e}
  BY DEF Completes, Fsynced
<1>3. SameScene /\ Quiet /\ Sized'
  BY <1>2 DEF SameScene, Quiet, Settled, IInv, TypeOK, KInv, Sized
<1>4. own.id = e /\ Finished(own)
  BY <1>2 DEF KInv, Keeping
<1>5. \A d \in log' : Lasts(d)'
  <2> SUFFICES ASSUME NEW d, d = Dirs PROVE Lasts(d)'
    BY <1>2
  <2>1. d.own = own /\ d.legacy = legacy /\ Lasts(d)
    BY DirFields, FinishedIsLong
  <2>2. Lasting(d.own)' /\ Lasting(d.legacy)'
    BY <1>3, <2>1, LastingStays DEF Lasts
  <2>3. \A i \in done' : \E f \in {d.own, d.legacy} : Finished(f) /\ f.id = i
    BY <1>2, <1>4, <2>1 DEF Lasts
  <2>4. Finished(d.own)
    BY <1>4, <2>1
  <2> QED BY <2>2, <2>3, <2>4 DEF Lasts, Finished
<1>6. Alone' /\ Adopting'
  <2>1. Adopting'
    BY <1>2, BusyIsAlone DEF Adopting
  <2>2. \A g \in Engines : pc'[g] # "idle" => pc[g] # "idle"
    BY <1>1, <1>2 DEF Steps
  <2> QED BY <1>2, <2>1, <2>2, BusyIsAlone DEF KInv, Alone
<1>7. \A g \in Engines : Keeping(g)'
  <2>1. Keeping(e)'
    BY <1>1 DEF Keeping, Steps
  <2>2. \A g \in Engines \ {e} : Keeping(g)'
    BY <1>1, <1>2, <1>3, KeepingStays DEF KInv, Steps
  <2> QED BY <2>1, <2>2
<1> QED BY <1>2, <1>3, <1>5, <1>6, <1>7 DEF KInv

LEMMA WorkerKept ==
  ASSUME IInv, KInv, NEW e \in Engines, Worker(e) \/ Fails(e)
  PROVE  /\ KInv'
         /\ UNCHANGED legacy /\ (UNCHANGED own \/ ~Finished(own))
<1>1. CASE CheckExisting(e) \/ Opens(e) \/ RefusesToOpen(e)
  BY <1>1, ChecksKept, OpensKept, StopsKept DEF CheckExisting, Opens, RefusesToOpen
<1>2. CASE copy_source(e) \/ Verifies(e) \/ Syncs(e)
  BY <1>2, CopiesKept, VerifiesKept, SyncsKept DEF copy_source, Verifies, Syncs
<1>3. CASE RemoveExisting(e) \/ Links(e) \/ Completes(e)
  BY <1>3, RemovesKept, LinksKept, CompletesKept
<1>4. CASE SyncsDirectory(e) \/ Fails(e) \/ AsksTheDisk(e)
  BY <1>4, SyncsDirectoryKept, StopsKept DEF SyncsDirectory, Fails, AsksTheDisk
<1> QED BY <1>1, <1>2, <1>3, <1>4 DEF Worker

---------------------------------------------------------------------------
(* The steps of the others.                                                 *)

(* No worker moves, the files stay.                                         *)
LEMMA KeepingAll ==
  ASSUME KInv, SameScene, UNCHANGED <<own, pc, tmp>>
  PROVE  \A e \in Engines : Keeping(e)'
BY KeepingStays DEF KInv

LEMMA BringsUpKept ==
  ASSUME IInv, KInv, NEW e \in Engines, BringUp(e)
  PROVE  KInv'
<1>1. Still /\ log' \subseteq log
  BY StillIs DEF BringUp
<1>2. UNCHANGED <<scene, own, pc, tmp>>
  BY DEF BringUp, workers
<1>3. main'.pc = "adopt" => ~scene.overlap /\ ~Finished(own)
  <2>1. main'.pc = "adopt" => file_size(own) = 0 /\ file_size(legacy) > 0
    BY DEF BringUp
  <2> QED BY <2>1, FinishedIsLong, SceneFields DEF IInv, TypeOK
<1>4. Adopting'
  BY <1>2, <1>3 DEF Adopting, Finished
<1>5. Alone'
  BY <1>2 DEF KInv, Alone, BringUp
<1> QED BY <1>1, <1>2, <1>4, <1>5, StillLasts, StillSized, KeepingAll DEF KInv, Still

(* What is adopted takes the place of what is not finished.                 *)
LEMMA AdoptsKept ==
  ASSUME IInv, KInv, vm_instance_work_adopt
  PROVE  /\ KInv' /\ ~Finished(own)
         /\ own' = legacy \/ legacy' = legacy
<1>1. /\ Still /\ UNCHANGED <<pc, tmp>> /\ main.pc = "adopt" /\ main'.pc = "probe"
      /\ Enter(legacy, None) \/ Enter(None, legacy) \/ Enter(own, legacy)
  BY StillIs, MainTyped DEF vm_instance_work_adopt, workers
<1>2. ~scene.overlap /\ ~Finished(own) /\ \A e \in Engines : pc[e] = "idle"
  BY <1>1 DEF KInv, Adopting, Alone
<1>3. /\ \A i \in done : \E f \in {legacy, None} : Finished(f) /\ f.id = i
      /\ \A i \in done : \E f \in {own, legacy} : Finished(f) /\ f.id = i
      /\ Lasting(None) /\ Lasting(legacy) /\ Lasting(own)
  <2>1. \A i \in done : \E f \in {own, legacy} : Finished(f) /\ f.id = i
    BY FinishedIsLong, DirFields DEF Lasts
  <2>2. Lasting(None)
    BY DEF Lasting
  <2> QED BY <1>2, <2>1, <2>2, FinishedIsLong
<1>4. \A d \in log' : Lasts(d)'
  <2>1. CASE Enter(legacy, None)
    BY <1>1, <1>2, <1>3, <2>1, EnterLasts
  <2>2. CASE Enter(None, legacy)
    BY <1>1, <1>2, <1>3, <2>2, EnterLasts
  <2>3. CASE Enter(own, legacy)
    BY <1>1, <1>2, <1>3, <2>3, EnterLasts
  <2> QED BY <1>1, <2>1, <2>2, <2>3
<1>5. Alone' /\ Adopting' /\ \A e \in Engines : Keeping(e)'
  BY <1>1, <1>2 DEF Alone, Adopting, Keeping
<1>6. own' = legacy \/ legacy' = legacy
  BY <1>1 DEF Enter
<1> QED BY <1>1, <1>2, <1>4, <1>5, <1>6, StillSized DEF KInv

LEMMA ProbesKept ==
  ASSUME IInv, KInv, Probe
  PROVE  KInv'
<1>1. Still /\ log' \subseteq log
  BY StillIs DEF Probe
<1>2. UNCHANGED <<scene, own, tmp>> /\ main.pc = "probe" /\ main'.pc = "idle"
  BY MainTyped DEF Probe
<1>3. CASE UNCHANGED pc
  <2>1. Alone' /\ Adopting'
    BY <1>2, <1>3 DEF KInv, Alone, Adopting
  <2> QED BY <1>1, <1>2, <1>3, <2>1, StillLasts, StillSized, KeepingAll DEF KInv, Still
<1>4. CASE ~UNCHANGED pc
  <2>1. PICK e \in Engines : Steps(e, "check", tmp[e])
    BY <1>4, Probes, MainTyped
  <2>2. Alone' /\ Adopting'
    <3>1. ~scene.overlap => \A g \in Engines \ {e} : pc'[g] = "idle"
      BY <1>2, <2>1 DEF KInv, Alone, Steps
    <3> QED BY <1>2, <3>1 DEF Alone, Adopting
  <2>3. \A g \in Engines : Keeping(g)'
    <3>1. Keeping(e)'
      BY <2>1 DEF Keeping, Steps
    <3>2. \A g \in Engines \ {e} : Keeping(g)'
      BY <1>1, <1>2, <2>1, KeepingStays DEF KInv, Steps, Still
    <3> QED BY <3>1, <3>2
  <2> QED BY <1>1, <2>2, <2>3, StillLasts, StillSized DEF KInv
<1> QED BY <1>3, <1>4

(* While an image is being imported nothing was settled before.             *)
LEMMA ImportsKept ==
  ASSUME IInv, KInv, SameScene, ~Settled, Sized',
         UNCHANGED <<own, legacy, log, main, pc, tmp, done>>
  PROVE  KInv'
<1>1. \A d \in log' : Lasts(d)'
  BY LastsStays DEF KInv, Quiet
<1>2. Alone' /\ Adopting'
  BY DEF KInv, Alone, Adopting, SameScene, Finished
<1> QED BY <1>1, <1>2, KeepingAll DEF KInv

LEMMA ImportKept ==
  ASSUME IInv, KInv
  PROVE  /\ \A n \in scene.images : ImportOpens(n) => KInv'
         /\ ImportWrites => KInv'
         /\ ImportEnds => KInv'
         /\ ImportStops => KInv'
<1>0. scene \in AllScenes /\ imp \in Nat /\ Sized
  BY DEF IInv, TypeOK, KInv
<1>1. ASSUME NEW n \in scene.images, ImportOpens(n) PROVE KInv'
  <2>1. SameScene /\ scene.imports > 0
    BY <1>0, <1>1, SpendsOne DEF ImportOpens
  <2>2. Sized' /\ ~Settled
    BY <1>0, <1>1, <2>1 DEF ImportOpens, Write, Sized, Settled, SameScene
  <2> QED BY <1>1, <2>1, <2>2, ImportsKept DEF ImportOpens, Write
<1>2. ASSUME ImportWrites PROVE KInv'
  <2>1. SameScene /\ Sized' /\ ~Settled
    BY <1>0, <1>2 DEF ImportWrites, Write, Sized, Settled, SameScene
  <2> QED BY <1>2, <2>1, ImportsKept DEF ImportWrites, Write
<1>3. ASSUME ImportEnds PROVE KInv'
  <2>1. SameScene /\ Sized' /\ ~Settled
    BY <1>0, <1>3 DEF ImportEnds, Write, Sized, Settled, SameScene
  <2> QED BY <1>3, <2>1, ImportsKept DEF ImportEnds, Write
<1>4. ASSUME ImportStops PROVE KInv'
  <2>1. SameScene /\ Sized' /\ ~Settled
    BY <1>0, <1>4 DEF ImportStops, Write, Sized, Settled, SameScene
  <2> QED BY <1>4, <2>1, ImportsKept DEF ImportStops, Write
<1> QED BY <1>1, <1>2, <1>3, <1>4

LEMMA EndsKept ==
  ASSUME IInv, KInv, Ends, SameScene
  PROVE  Quiet /\ Sized' /\ Alone' /\ Adopting' /\ \A e \in Engines : Keeping(e)'
<1>1. Quiet /\ Sized'
  BY DEF Ends, Quiet, SameScene, Settled, KInv, Sized
<1>2. main'.pc = "idle" /\ \A e \in Engines : pc'[e] = "idle"
  BY MainTyped DEF Ends
<1>3. Alone' /\ Adopting' /\ \A e \in Engines : Keeping(e)'
  BY <1>2 DEF Alone, Adopting, Keeping
<1> QED BY <1>1, <1>3

LEMMA KilledKept ==
  ASSUME IInv, KInv, Killed
  PROVE  KInv'
<1>1. SameScene
  BY KilledKeeps
<1>2. Quiet /\ Sized' /\ Alone' /\ Adopting' /\ \A e \in Engines : Keeping(e)'
  BY <1>1, EndsKept DEF Killed
<1>3. \A d \in log' : Lasts(d)'
  BY <1>2, LastsStays DEF Killed, Ends, KInv
<1> QED BY <1>2, <1>3 DEF KInv

(* A finished file was on the disk when the power failed.                   *)
LEMMA TornLasts ==
  ASSUME NEW f \in Files \cup {None}, NEW g \in Torn(f), Lasting(f), scene.losses > 0
  PROVE  Lasting(g) /\ (Finished(f) => g = f) /\ (Finished(g) => Finished(f))
         /\ file_size(g) = file_size(f)
<1>1. Finished(f) => g = f
  <2> SUFFICES ASSUME Finished(f) PROVE g = f
    OBVIOUS
  <2>1. f \in Files /\ f.synced \in BOOLEAN
    BY FileFields DEF Finished
  <2>2. f.synced = TRUE
    BY <2>1 DEF Lasting, Finished
  <2> QED BY <2>2, TornIs
<1>2. Finished(g) => g = f
  BY TornIs
<1>3. CASE f = None
  BY <1>3, <1>1, <1>2, TornIs
<1>4. CASE f # None
  <2>1. g # None /\ g.size = f.size
    BY <1>4, TornIs, FileFields
  <2>2. Lasting(g)
    BY <1>1, <1>2, <1>4, <2>1 DEF Lasting
  <2> QED BY <1>1, <1>2, <1>4, <2>1, <2>2 DEF file_size
<1> QED BY <1>3, <1>4

LEMMA PowerKept ==
  ASSUME IInv, KInv, PowerFails
  PROVE  KInv'
<1>1. SameScene /\ scene.losses > 0
  BY PowerKeeps
<1>2. /\ Quiet /\ Sized' /\ Alone' /\ Adopting' /\ \A e \in Engines : Keeping(e)'
      /\ UNCHANGED done
  BY <1>1, EndsKept DEF PowerFails, Ends
<1>3. PICK d \in log : \E o \in Torn(d.own), l \in Torn(d.legacy) :
                         log' = {[own |-> o, legacy |-> l]}
  BY DEF PowerFails
<1>o. PICK o \in Torn(d.own), l \in Torn(d.legacy) : log' = {[own |-> o, legacy |-> l]}
  BY <1>3
<1>4. d.own \in Files \cup {None} /\ d.legacy \in Files \cup {None} /\ Lasts(d)
  BY DirFields DEF KInv
<1>5. /\ Lasting(o) /\ (Finished(d.own) => o = d.own)
      /\ Lasting(l) /\ (Finished(d.legacy) => l = d.legacy)
      /\ file_size(l) = file_size(d.legacy)
  BY <1>1, <1>4, TornLasts DEF Lasts
<1>6. ASSUME NEW x, x = [own |-> o, legacy |-> l] PROVE Lasts(x)'
  <2>1. x.own = o /\ x.legacy = l
    BY <1>6
  <2>2. Lasts(x)
    BY <1>4, <1>5, <2>1 DEF Lasts
  <2> QED BY <1>2, <2>2, LastsStays
<1>7. \A x \in log' : Lasts(x)'
  BY <1>o, <1>6
<1> QED BY <1>2, <1>7 DEF KInv

LEMMA StepKept ==
  ASSUME IInv, KInv, [Next]_vars
  PROVE  KInv'
<1>1. CASE \E e \in Engines : BringUp(e) \/ Worker(e) \/ Fails(e)
  BY <1>1, BringsUpKept, WorkerKept
<1>2. CASE vm_instance_work_adopt \/ Probe
  BY <1>2, AdoptsKept, ProbesKept
<1>3. CASE (\E n \in scene.images : ImportOpens(n)) \/ ImportWrites \/ ImportEnds \/ ImportStops
  BY <1>3, ImportKept
<1>4. CASE Killed \/ PowerFails
  BY <1>4, KilledKept, PowerKept
<1>5. CASE UNCHANGED vars
  <2>1. Still /\ log' \subseteq log /\ UNCHANGED <<own, main, pc, tmp>>
    BY <1>5, StillIs DEF vars
  <2>2. Alone' /\ Adopting'
    BY <2>1 DEF KInv, Alone, Adopting, Still, SameScene, Finished
  <2> QED BY <2>1, <2>2, StillLasts, StillSized, KeepingAll DEF KInv, Still
<1> QED BY <1>1, <1>2, <1>3, <1>4, <1>5 DEF Next

LEMMA InitKept ==
  ASSUME \A s \in Scenes : Careful(s), Init
  PROVE  KInv
<1>1. Careful(scene) /\ scene \in Scenes /\ scene.images # {}
  BY WorkImageAssumption DEF Init
<1>2. /\ own = scene.own /\ legacy = scene.legacy /\ imp = 0
      /\ log = {[own |-> own, legacy |-> legacy]}
      /\ src.size \in scene.images /\ src.whole = TRUE
      /\ main.pc = "idle" /\ \A e \in Engines : pc[e] = "idle"
      /\ done = {f.id : f \in {g \in {own, legacy} : Finished(g)}}
  BY DEF Init
<1>3. Lasting(own) /\ Lasting(legacy)
  BY <1>1, <1>2 DEF Careful, Lasting, Settled
<1>4. \A d \in log : Lasts(d)
  <2> SUFFICES ASSUME NEW d, d = [own |-> own, legacy |-> legacy] PROVE Lasts(d)
    BY <1>2
  <2>1. d.own = own /\ d.legacy = legacy
    OBVIOUS
  <2>2. \A i \in done : \E f \in {own, legacy} : Finished(f) /\ f.id = i
    BY <1>2
  <2> QED BY <1>1, <1>2, <1>3, <2>1, <2>2 DEF Lasts, Careful
<1>5. Sized
  BY <1>1, <1>2 DEF Sized, Careful
<1>6. Alone /\ Adopting /\ \A e \in Engines : Keeping(e)
  BY <1>2 DEF Alone, Adopting, Keeping
<1> QED BY <1>4, <1>5, <1>6 DEF KInv

(* While the power is on what is finished goes on having a name.            *)
Stays ==
  \A f \in {own, legacy} :
    Finished(f) => \E g \in {own', legacy'} : Finished(g) /\ g.id = f.id

LEMMA FilesStay ==
  ASSUME IInv, KInv, [Next]_vars, ~PowerFails
  PROVE  Stays
<1>1. CASE \E e \in Engines : Worker(e) \/ Fails(e)
  BY <1>1, WorkerKept DEF Finished, Stays
<1>2. CASE vm_instance_work_adopt
  BY <1>2, AdoptsKept DEF Finished, vm_instance_work_adopt, Enter, Stays
<1>3. CASE UNCHANGED <<own, legacy>>
  BY <1>3 DEF Finished, Stays
<1>4. CASE (\E e \in Engines : BringUp(e)) \/ Probe \/ Killed \/ UNCHANGED vars
  BY <1>3, <1>4 DEF BringUp, Probe, Killed, vars
<1>5. CASE (\E n \in scene.images : ImportOpens(n)) \/ ImportWrites \/ ImportEnds \/ ImportStops
  BY <1>3, <1>5 DEF ImportOpens, ImportWrites, ImportEnds, ImportStops, Write
<1> QED BY <1>1, <1>2, <1>4, <1>5 DEF Next

(* What a probe takes for the work image is a finished one.                 *)
LEMMA PresentIsWhole ==
  ASSUME IInv, KInv, work_present
  PROVE  Finished(own)
<1> SUFFICES ASSUME ~Finished(own) PROVE FALSE
  OBVIOUS
<1>1. file_size(own) > 0 /\ file_size(own) >= src.size
  BY DEF work_present
<1>2. own \in Files /\ own # None /\ own.size \in Nat /\ file_size(own) = own.size
  BY ToldTyped, FileFields DEF file_size
<1>3. Settled /\ \A n \in scene.images : own.size < n
  BY <1>1, <1>2, FinishedIsLong DEF Lasting
<1>4. src.size \in scene.images /\ src.size \in Nat
  BY <1>3 DEF Settled, KInv, Sized, IInv, TypeOK
<1> QED BY <1>1, <1>2, <1>3, <1>4

(* What the machine was said to have is at one of its names.                *)
AsTold == \A i \in told : Has(Dirs, i)

LEMMA AsToldStep ==
  ASSUME IInv, KInv, AsTold, [Next]_vars
  PROVE  AsTold'
<1>1. CASE PowerFails
  BY <1>1 DEF PowerFails, AsTold
<1>2. CASE ~PowerFails
  <2>1. /\ Dirs.own = own /\ Dirs.legacy = legacy
        /\ Dirs'.own = own' /\ Dirs'.legacy = legacy'
    BY DEF Dirs
  <2>2. \A i \in told : Has(Dirs', i)
    BY <1>2, <2>1, FilesStay DEF AsTold, Has, Stays
  <2>3. told' = told \/ (told' = Told /\ work_present)
    BY <1>2 DEF Next, Worker, BringUp, vm_instance_work_adopt, Probe, READY, CheckExisting,
      RemoveExisting, Opens, RefusesToOpen, copy_source, Verifies, Syncs, Links,
      SyncsDirectory, Completes, Fails, AsksTheDisk, ImportOpens, ImportWrites,
      ImportEnds, ImportStops, Write, Killed, vars
  <2>4. work_present => Has(Dirs', own.id)
    BY <1>2, <2>1, PresentIsWhole, FilesStay DEF Has, Stays
  <2>5. \A i \in told' : Has(Dirs', i)
    BY <2>2, <2>3, <2>4 DEF Told
  <2>6. \A i \in told' : Has(Dirs, i)'
    BY <2>5 DEF Has, Finished
  <2> QED BY <2>6 DEF AsTold
<1> QED BY <1>1, <1>2

LEMMA KInvAlways ==
  ASSUME \A s \in Scenes : Careful(s)
  PROVE  Spec => [](IInv /\ KInv /\ AsTold)
<1>1. Init => IInv /\ KInv /\ AsTold
  BY InitHolds, InitKept DEF Init, AsTold
<1>2. IInv /\ KInv /\ AsTold /\ [Next]_vars => (IInv /\ KInv /\ AsTold)'
  BY StepKeeps, StepKept, AsToldStep
<1> QED BY <1>1, <1>2, PTL DEF Spec

---------------------------------------------------------------------------
(* Every variable stays in its type, for any engines and scenes.            *)
THEOREM TypeCorrect == Spec => []TypeOK
<1>1. IInv => TypeOK
  BY DEF IInv
<1> QED BY IInvAlways, <1>1, PTL

(* The image that publish() gives the machine's name to is complete, from   *)
(* then on, also after the power has failed at any moment, whatever the     *)
(* scene: a worker reaches its link() only with a copy that is whole and    *)
(* that host_file_sync has been over (rootfs_work_create).                  *)
THEOREM PublishedWholeAlways == Spec => []PublishedWhole
<1>1. IInv => PublishedWhole
  BY DirFields DEF PublishedWhole, Durable
<1> QED BY IInvAlways, <1>1, PTL

(* What vm_firmware_boot_probe calls ready is a complete image, by its size *)
(* alone, in every careful scene.                                           *)
THEOREM ReadyIsWholeAlways ==
  ASSUME \A s \in Scenes : Careful(s)
  PROVE  Spec => []ReadyIsWhole
<1>1. IInv /\ KInv => ReadyIsWhole
  BY PresentIsWhole DEF ReadyIsWhole, READY
<1> QED BY KInvAlways, <1>1, PTL

(* An image that the machine was given, by a worker that came to its end or *)
(* by an older build, is in every directory that a power failure may go     *)
(* back to, finished, under one of its two names; one it booted or was said *)
(* to have, at one of them now.                                             *)
THEOREM KeptAlways ==
  ASSUME \A s \in Scenes : Careful(s)
  PROVE  Spec => []Kept
<1>1. KInv /\ AsTold => Kept
  BY DEF KInv, Lasts, Kept, Has, AsTold
<1> QED BY KInvAlways, <1>1, PTL

(* While the power is on no step of any worker, of the adoption or of the   *)
(* importer removes or replaces a finished image.                           *)
THEOREM FinishedStaysAlways ==
  ASSUME \A s \in Scenes : Careful(s)
  PROVE  Spec => FinishedStays
<1> DEFINE StaysOn ==
      \A f \in {own, legacy} :
        Finished(f) /\ ~PowerOff => \E g \in {own', legacy'} : Finished(g) /\ g.id = f.id
<1>1. ASSUME IInv, KInv, [Next]_vars PROVE StaysOn
  <2>1. CASE PowerFails
    <3>1. scene.losses \in Nat
      BY <1>1, SceneFields DEF IInv, TypeOK
    <3>2. PowerOff
      BY <1>1, <2>1, <3>1, PowerKeeps DEF PowerOff
    <3> QED BY <3>2
  <2>2. CASE ~PowerFails
    BY <1>1, <2>2, FilesStay DEF Stays
  <2> QED BY <2>1, <2>2
<1>2. IInv /\ KInv /\ [Next]_vars => [StaysOn]_vars
  BY <1>1
<1> QED BY KInvAlways, <1>2, PTL DEF Spec, FinishedStays

=============================================================================
