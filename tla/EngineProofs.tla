---------------------------- MODULE EngineProofs ----------------------------
(***************************************************************************)
(* VMEngine.m: the machine it runs, and the input it queues for it.         *)
(*                                                                         *)
(* What holds of every engine of any number of them, for every cap: who     *)
(* owns the machine, what is said of its end, and how long it runs after a  *)
(* stop.  The inductive invariant is Good of each engine: Control ties the  *)
(* flags to where start and threadMain are, Holding says what each holds    *)
(* there, Stopped what a stop that was accepted has left, and Ending what   *)
(* the reason of an end will be.  An action touches one engine, so each has *)
(* one lemma: Good of that engine, and Same of the others.                  *)
(*                                                                         *)
(* Then what holds of GuestInput, for every set of switches, their rest     *)
(* levels, the order their drivers set them up in and the sizes of the      *)
(* queues: the CPU sees the levels as they are, what is quiet is true, and  *)
(* no edge is lost.  InputInv has Wires, that the controller has latched    *)
(* what asserts; Handling, Armed and Told, the guest's side, where a switch *)
(* the guest has wrong has something pending; Queued, the transitions still *)
(* to be made; and Reported and Ordered, the reports.                       *)
(***************************************************************************)
EXTENDS Engine, GuestInput, SequenceTheorems, FiniteSetTheorems, WellFoundedInduction, TLAPS

(* Where start and the worker are, and what the flags say of it.            *)
Control(e) ==
  /\ starter[e] # "none" => worker[e] = "none"
  /\ state[e] = "Idle" <=> starter[e] = "none" /\ worker[e] = "none"
  /\ state[e] = "Starting" => starter[e] \notin {"none", "spawn"}
  /\ state[e] = "Running" => starter[e] = "spawn" \/ worker[e] # "none"
  /\ machineReady[e] <=> worker[e] # "none" \/ starter[e] = "spawn"
  /\ thread[e] <=> machineReady[e]

(* The machine, the descriptor lent to it and the image it comes from.      *)
Holding(e) ==
  /\ starter[e] \in Building \/ worker[e] \in Driving => machine[e]
  /\ machine[e] => starter[e] \in Building \cup {"unwind"} \/ worker[e] \in Driving
  /\ bridged[e] => /\ machine[e] /\ firmwareBoot[e] = "open"
                   /\ starter[e] \notin {"resolve", "probe", "bringup", "guest"}
  /\ firmwareBoot[e] # "none" =>
       \/ starter[e] \in {"bringup", "claim", "thread", "commit", "spawn",
                          "unwind", "unboot"}
       \/ worker[e] \in Driving \cup {"close"}

(* A stop that was accepted is not forgotten before the engine is Idle.     *)
Stopped(e) ==
  /\ accepted[e] /\ state[e] # "Idle" => stopRequested[e] /\ state[e] = "Stopping"
  /\ stopRequested[e] => state[e] = "Stopping" /\ accepted[e]
  /\ starter[e] # "none" /\ state[e] = "Stopping" => accepted[e]
  /\ late[e] <= 1
  /\ late[e] # 0 => accepted[e] /\ starter[e] = "none"
                    /\ worker[e] \notin {"top", "run", "decide"}

(* The reason of the end, from when it is decided to when it is told.       *)
Ending(e) ==
  /\ starter[e] # "none" => exit[e] = "none" /\ guest[e] = "ok"
  /\ starter[e] \notin {"none", "snapshot"} \/ worker[e] # "none" =>
       panel[e] # "none"
  /\ worker[e] \in {"top", "run", "check", "decide"} => exit[e] = "none"
  /\ worker[e] \in {"top", "run"} => guest[e] = "ok"
  /\ worker[e] \in {"top", "run", "check"} /\ ~accepted[e] => state[e] = "Running"
  /\ worker[e] = "decide" /\ (guest[e] = "fault" \/ reached[e]) =>
       state[e] = "Stopping" /\ ~accepted[e]
  /\ worker[e] = "decide" /\ guest[e] = "ok" /\ ~reached[e] /\ ~accepted[e] =>
       state[e] = "Running"
  /\ worker[e] \in {"last", "free", "close", "end"} =>
       /\ state[e] = "Stopping"
       /\ exit[e] # "none"
       /\ accepted[e] <=> exit[e] = "stopped"
  /\ worker[e] = "last" => exit[e] = "stopped"
  /\ worker[e] \in {"free", "close", "end"} =>
       /\ exit[e] = "fault" => guest[e] = "fault" /\ status[e] = "halted"
       /\ exit[e] = "cap" => guest[e] = "ok"
  /\ state[e] = "Idle" /\ exit[e] # "none" =>
       /\ accepted[e] => status[e] = "stopped" /\ panel[e] = "blank"
       /\ ~accepted[e] /\ guest[e] = "fault" => status[e] = "halted"
       /\ ~accepted[e] /\ guest[e] = "ok" => status[e] = "cap reached"

(* The invariant of one engine.                                             *)
Good(e) == Control(e) /\ Holding(e) /\ Stopped(e) /\ Ending(e)

(* The inductive invariant.                                                 *)
IInv == TypeOK /\ \A e \in Engines : Good(e)

(* Every function of an engine is applied to engines.                       *)
Domains ==
  /\ DOMAIN state = Engines /\ DOMAIN stopRequested = Engines
  /\ DOMAIN machineReady = Engines /\ DOMAIN thread = Engines
  /\ DOMAIN status = Engines /\ DOMAIN panel = Engines
  /\ DOMAIN machine = Engines /\ DOMAIN bridged = Engines
  /\ DOMAIN firmwareBoot = Engines /\ DOMAIN starter = Engines
  /\ DOMAIN worker = Engines /\ DOMAIN guest = Engines
  /\ DOMAIN exit = Engines /\ DOMAIN reached = Engines
  /\ DOMAIN accepted = Engines /\ DOMAIN late = Engines

(* Nothing that Good reads changes of this engine.                          *)
Same(x) ==
  /\ state'[x] = state[x] /\ stopRequested'[x] = stopRequested[x]
  /\ machineReady'[x] = machineReady[x] /\ thread'[x] = thread[x]
  /\ status'[x] = status[x] /\ panel'[x] = panel[x]
  /\ machine'[x] = machine[x] /\ bridged'[x] = bridged[x]
  /\ firmwareBoot'[x] = firmwareBoot[x] /\ starter'[x] = starter[x]
  /\ worker'[x] = worker[x] /\ guest'[x] = guest[x] /\ exit'[x] = exit[x]
  /\ reached'[x] = reached[x] /\ accepted'[x] = accepted[x]
  /\ late'[x] = late[x]

(* The domains are part of the types.                                       *)
LEMMA Applied == ASSUME TypeOK PROVE Domains
  BY DEF TypeOK, LockedOK, PanelOK, OwnedOK, StartOK, WorkOK, PromisedOK, Domains

(* An engine that is left alone stays Good.                                 *)
LEMMA SameGood == ASSUME NEW x, Good(x), Same(x) PROVE Good(x)'
<1>1. Control(x)'
  BY DEF Good, Same, Control
<1>2. Holding(x)'
  BY DEF Good, Same, Holding, Building, Driving
<1>3. Stopped(x)'
  BY DEF Good, Same, Stopped
<1>4. Ending(x)'
  BY DEF Good, Same, Ending
<1> QED BY <1>1, <1>2, <1>3, <1>4 DEF Good


(* needSnapshot: there is a panel from here on.                             *)
LEMMA AllocSnapshotKeeps ==
  ASSUME IInv, NEW e \in Engines, AllocSnapshot(e)
  PROVE  IInv'
<1>1. TypeOK /\ Good(e) /\ Domains
  BY Applied DEF IInv
<1>2. TypeOK'
  <2>1. LockedOK'
    BY <1>1 DEF AllocSnapshot, TypeOK, LockedOK
  <2>2. PanelOK'
    BY <1>1 DEF AllocSnapshot, TypeOK, PanelOK
  <2>3. OwnedOK'
    BY <1>1 DEF AllocSnapshot, TypeOK, OwnedOK, owned
  <2>4. StartOK'
    BY <1>1 DEF AllocSnapshot, TypeOK, StartOK, Starting, Facts
  <2>5. WorkOK'
    BY <1>1 DEF AllocSnapshot, TypeOK, WorkOK, work
  <2>6. FilesOK'
    BY <1>1 DEF AllocSnapshot, TypeOK, FilesOK, files
  <2>7. PromisedOK'
    BY <1>1 DEF AllocSnapshot, TypeOK, PromisedOK, promised
  <2> QED BY <2>1, <2>2, <2>3, <2>4, <2>5, <2>6, <2>7 DEF TypeOK
<1>3. Good(e)'
  <2>1. Control(e)'
    BY <1>1 DEF Domains, AllocSnapshot, owned, work, files, promised, Good,
           Control
  <2>2. Holding(e)'
    BY <1>1 DEF Domains, AllocSnapshot, owned, work, files, promised, Good,
           Control, Holding, Building, Driving
  <2>3. Stopped(e)'
    BY <1>1 DEF Domains, AllocSnapshot, owned, work, files, promised, Good,
           Control, Stopped
  <2>4. Ending(e)'
    BY <1>1 DEF Domains, AllocSnapshot, owned, work, files, promised, Good,
           Control, Stopped, Ending
  <2> QED BY <2>1, <2>2, <2>3, <2>4 DEF Good
<1>4. ASSUME NEW x \in Engines, x # e  PROVE Same(x)
  BY <1>1, <1>4 DEF Domains, Same, AllocSnapshot, owned, work, files, promised
<1> QED BY <1>2, <1>3, <1>4, SameGood DEF IInv

(* Nothing was made: Idle with nothing to give back.                        *)
LEMMA SnapshotFailsKeeps ==
  ASSUME IInv, NEW e \in Engines, SnapshotFails(e)
  PROVE  IInv'
<1>1. TypeOK /\ Good(e) /\ Domains
  BY Applied DEF IInv
<1>2. TypeOK'
  <2>1. LockedOK'
    BY <1>1 DEF SnapshotFails, BecomeIdle, TypeOK, LockedOK, Facts
  <2>2. PanelOK'
    BY <1>1 DEF SnapshotFails, TypeOK, PanelOK
  <2>3. OwnedOK'
    BY <1>1 DEF SnapshotFails, TypeOK, OwnedOK, owned
  <2>4. StartOK'
    BY <1>1 DEF SnapshotFails, BecomeIdle, TypeOK, StartOK, Starting, Facts
  <2>5. WorkOK'
    BY <1>1 DEF SnapshotFails, TypeOK, WorkOK, work
  <2>6. FilesOK'
    BY <1>1 DEF SnapshotFails, TypeOK, FilesOK, files
  <2>7. PromisedOK'
    BY <1>1 DEF SnapshotFails, TypeOK, PromisedOK, promised
  <2> QED BY <2>1, <2>2, <2>3, <2>4, <2>5, <2>6, <2>7 DEF TypeOK
<1>3. Good(e)'
  <2>1. Control(e)'
    BY <1>1 DEF Domains, SnapshotFails, BecomeIdle, owned, work, files,
           promised, Good, Control
  <2>2. Holding(e)'
    BY <1>1 DEF Domains, SnapshotFails, BecomeIdle, owned, work, files,
           promised, Good, Control, Holding, Building, Driving
  <2>3. Stopped(e)'
    BY <1>1 DEF Domains, SnapshotFails, BecomeIdle, owned, work, files,
           promised, Good, Control, Stopped
  <2>4. Ending(e)'
    BY <1>1 DEF Domains, SnapshotFails, BecomeIdle, owned, work, files,
           promised, Good, Control, Stopped, Ending
  <2> QED BY <2>1, <2>2, <2>3, <2>4 DEF Good
<1>4. ASSUME NEW x \in Engines, x # e  PROVE Same(x)
  BY <1>1, <1>4 DEF Domains, Same, SnapshotFails, BecomeIdle, owned, work,
         files, promised
<1> QED BY <1>2, <1>3, <1>4, SameGood DEF IInv

(* A stop before the machine is made: Idle, or on.                          *)
LEMMA CancelledEarlyKeeps ==
  ASSUME IInv, NEW e \in Engines, CancelledEarly(e)
  PROVE  IInv'
<1>1. TypeOK /\ Good(e) /\ Domains
  BY Applied DEF IInv
<1>2. TypeOK'
  <2>1. LockedOK'
    BY <1>1 DEF CancelledEarly, BecomeIdle, Cancelled, TypeOK, LockedOK, Facts
  <2>2. PanelOK'
    BY <1>1 DEF CancelledEarly, TypeOK, PanelOK
  <2>3. OwnedOK'
    BY <1>1 DEF CancelledEarly, TypeOK, OwnedOK, owned
  <2>4. StartOK'
    BY <1>1 DEF CancelledEarly, BecomeIdle, Cancelled, TypeOK, StartOK,
           Starting, Facts
  <2>5. WorkOK'
    BY <1>1 DEF CancelledEarly, TypeOK, WorkOK, work
  <2>6. FilesOK'
    BY <1>1 DEF CancelledEarly, TypeOK, FilesOK, files
  <2>7. PromisedOK'
    BY <1>1 DEF CancelledEarly, TypeOK, PromisedOK, promised
  <2> QED BY <2>1, <2>2, <2>3, <2>4, <2>5, <2>6, <2>7 DEF TypeOK
<1>3. Good(e)'
  <2>1. Control(e)'
    BY <1>1 DEF Domains, CancelledEarly, BecomeIdle, Cancelled, owned, work,
           files, promised, Good, Control
  <2>2. Holding(e)'
    BY <1>1 DEF Domains, CancelledEarly, BecomeIdle, Cancelled, owned, work,
           files, promised, Good, Control, Holding, Building, Driving
  <2>3. Stopped(e)'
    BY <1>1 DEF Domains, CancelledEarly, BecomeIdle, Cancelled, owned, work,
           files, promised, Good, Control, Stopped
  <2>4. Ending(e)'
    BY <1>1 DEF Domains, CancelledEarly, BecomeIdle, Cancelled, owned, work,
           files, promised, Good, Control, Stopped, Ending
  <2> QED BY <2>1, <2>2, <2>3, <2>4 DEF Good
<1>4. ASSUME NEW x \in Engines, x # e  PROVE Same(x)
  BY <1>1, <1>4 DEF Domains, Same, CancelledEarly, BecomeIdle, Cancelled,
         owned, work, files, promised
<1> QED BY <1>2, <1>3, <1>4, SameGood DEF IInv

(* s5l8900_init: start owns a machine.                                      *)
LEMMA InitMachineKeeps ==
  ASSUME IInv, NEW e \in Engines, InitMachine(e)
  PROVE  IInv'
<1>1. TypeOK /\ Good(e) /\ Domains
  BY Applied DEF IInv
<1>2. TypeOK'
  <2>1. LockedOK'
    BY <1>1 DEF InitMachine, TypeOK, LockedOK, locked
  <2>2. PanelOK'
    BY <1>1 DEF InitMachine, TypeOK, PanelOK, locked
  <2>3. OwnedOK'
    BY <1>1 DEF InitMachine, TypeOK, OwnedOK
  <2>4. StartOK'
    BY <1>1 DEF InitMachine, TypeOK, StartOK, Starting, Facts
  <2>5. WorkOK'
    BY <1>1 DEF InitMachine, TypeOK, WorkOK, work
  <2>6. FilesOK'
    BY <1>1 DEF InitMachine, TypeOK, FilesOK, files
  <2>7. PromisedOK'
    BY <1>1 DEF InitMachine, TypeOK, PromisedOK, promised
  <2> QED BY <2>1, <2>2, <2>3, <2>4, <2>5, <2>6, <2>7 DEF TypeOK
<1>3. Good(e)'
  <2>1. Control(e)'
    BY <1>1 DEF Domains, InitMachine, locked, work, files, promised, Good,
           Control
  <2>2. Holding(e)'
    BY <1>1 DEF Domains, InitMachine, locked, work, files, promised, Good,
           Control, Holding, Building, Driving
  <2>3. Stopped(e)'
    BY <1>1 DEF Domains, InitMachine, locked, work, files, promised, Good,
           Control, Stopped
  <2>4. Ending(e)'
    BY <1>1 DEF Domains, InitMachine, locked, work, files, promised, Good,
           Control, Stopped, Ending
  <2> QED BY <2>1, <2>2, <2>3, <2>4 DEF Good
<1>4. ASSUME NEW x \in Engines, x # e  PROVE Same(x)
  BY <1>1, <1>4 DEF Domains, Same, InitMachine, locked, work, files, promised
<1> QED BY <1>2, <1>3, <1>4, SameGood DEF IInv

(* No machine: Idle.                                                        *)
LEMMA InitFailsKeeps ==
  ASSUME IInv, NEW e \in Engines, InitFails(e)
  PROVE  IInv'
<1>1. TypeOK /\ Good(e) /\ Domains
  BY Applied DEF IInv
<1>2. TypeOK'
  <2>1. LockedOK'
    BY <1>1 DEF InitFails, BecomeIdle, TypeOK, LockedOK, Facts
  <2>2. PanelOK'
    BY <1>1 DEF InitFails, TypeOK, PanelOK
  <2>3. OwnedOK'
    BY <1>1 DEF InitFails, TypeOK, OwnedOK, owned
  <2>4. StartOK'
    BY <1>1 DEF InitFails, BecomeIdle, TypeOK, StartOK, Starting, Facts
  <2>5. WorkOK'
    BY <1>1 DEF InitFails, TypeOK, WorkOK, work
  <2>6. FilesOK'
    BY <1>1 DEF InitFails, TypeOK, FilesOK, files
  <2>7. PromisedOK'
    BY <1>1 DEF InitFails, TypeOK, PromisedOK, promised
  <2> QED BY <2>1, <2>2, <2>3, <2>4, <2>5, <2>6, <2>7 DEF TypeOK
<1>3. Good(e)'
  <2>1. Control(e)'
    BY <1>1 DEF Domains, InitFails, BecomeIdle, owned, work, files, promised,
           Good, Control
  <2>2. Holding(e)'
    BY <1>1 DEF Domains, InitFails, BecomeIdle, owned, work, files, promised,
           Good, Control, Holding, Building, Driving
  <2>3. Stopped(e)'
    BY <1>1 DEF Domains, InitFails, BecomeIdle, owned, work, files, promised,
           Good, Control, Stopped
  <2>4. Ending(e)'
    BY <1>1 DEF Domains, InitFails, BecomeIdle, owned, work, files, promised,
           Good, Control, Stopped, Ending
  <2> QED BY <2>1, <2>2, <2>3, <2>4 DEF Good
<1>4. ASSUME NEW x \in Engines, x # e  PROVE Same(x)
  BY <1>1, <1>4 DEF Domains, Same, InitFails, BecomeIdle, owned, work, files,
         promised
<1> QED BY <1>2, <1>3, <1>4, SameGood DEF IInv

(* Nothing but the note changes.                                            *)
LEMMA NoPathsKeeps ==
  ASSUME IInv, NEW e \in Engines, NoPaths(e)
  PROVE  IInv'
<1>1. TypeOK /\ Good(e) /\ Domains
  BY Applied DEF IInv
<1>2. TypeOK'
  <2>1. LockedOK'
    BY <1>1 DEF NoPaths, TypeOK, LockedOK, locked
  <2>2. PanelOK'
    BY <1>1 DEF NoPaths, TypeOK, PanelOK, locked
  <2>3. OwnedOK'
    BY <1>1 DEF NoPaths, TypeOK, OwnedOK, owned
  <2>4. StartOK'
    BY <1>1 DEF NoPaths, TypeOK, StartOK, Starting, Facts
  <2>5. WorkOK'
    BY <1>1 DEF NoPaths, TypeOK, WorkOK, work
  <2>6. FilesOK'
    BY <1>1 DEF NoPaths, TypeOK, FilesOK, files
  <2>7. PromisedOK'
    BY <1>1 DEF NoPaths, TypeOK, PromisedOK, promised
  <2> QED BY <2>1, <2>2, <2>3, <2>4, <2>5, <2>6, <2>7 DEF TypeOK
<1>3. Good(e)'
  <2>1. Control(e)'
    BY <1>1 DEF Domains, NoPaths, locked, owned, work, files, promised, Good,
           Control
  <2>2. Holding(e)'
    BY <1>1 DEF Domains, NoPaths, locked, owned, work, files, promised, Good,
           Control, Holding, Building, Driving
  <2>3. Stopped(e)'
    BY <1>1 DEF Domains, NoPaths, locked, owned, work, files, promised, Good,
           Control, Stopped
  <2>4. Ending(e)'
    BY <1>1 DEF Domains, NoPaths, locked, owned, work, files, promised, Good,
           Control, Stopped, Ending
  <2> QED BY <2>1, <2>2, <2>3, <2>4 DEF Good
<1>4. ASSUME NEW x \in Engines, x # e  PROVE Same(x)
  BY <1>1, <1>4 DEF Domains, Same, NoPaths, locked, owned, work, files,
         promised
<1> QED BY <1>2, <1>3, <1>4, SameGood DEF IInv

(* The work image is taken over; the machine is not.                        *)
LEMMA AdoptKeeps ==
  ASSUME IInv, NEW e \in Engines, Adopt(e)
  PROVE  IInv'
<1>1. TypeOK /\ Good(e) /\ Domains
  BY Applied DEF IInv
<1>2. TypeOK'
  <2>1. LockedOK'
    BY <1>1 DEF Adopt, TypeOK, LockedOK, locked
  <2>2. PanelOK'
    BY <1>1 DEF Adopt, TypeOK, PanelOK, locked
  <2>3. OwnedOK'
    BY <1>1 DEF Adopt, TypeOK, OwnedOK, owned
  <2>4. StartOK'
    BY <1>1 DEF Adopt, TypeOK, StartOK, Starting, Facts
  <2>5. WorkOK'
    BY <1>1 DEF Adopt, TypeOK, WorkOK, work
  <2>6. FilesOK'
    BY <1>1 DEF Adopt, TypeOK, FilesOK
  <2>7. PromisedOK'
    BY <1>1 DEF Adopt, TypeOK, PromisedOK, promised
  <2> QED BY <2>1, <2>2, <2>3, <2>4, <2>5, <2>6, <2>7 DEF TypeOK
<1>3. Good(e)'
  <2>1. Control(e)'
    BY <1>1 DEF Domains, Adopt, locked, owned, work, promised, Good, Control
  <2>2. Holding(e)'
    BY <1>1 DEF Domains, Adopt, locked, owned, work, promised, Good, Control,
           Holding, Building, Driving
  <2>3. Stopped(e)'
    BY <1>1 DEF Domains, Adopt, locked, owned, work, promised, Good, Control,
           Stopped
  <2>4. Ending(e)'
    BY <1>1 DEF Domains, Adopt, locked, owned, work, promised, Good, Control,
           Stopped, Ending
  <2> QED BY <2>1, <2>2, <2>3, <2>4 DEF Good
<1>4. ASSUME NEW x \in Engines, x # e  PROVE Same(x)
  BY <1>1, <1>4 DEF Domains, Same, Adopt, locked, owned, work, promised
<1> QED BY <1>2, <1>3, <1>4, SameGood DEF IInv

(* vm_firmware_boot_create: made, not open.                                 *)
LEMMA ProbeReadyKeeps ==
  ASSUME IInv, NEW e \in Engines, ProbeReady(e)
  PROVE  IInv'
<1>1. TypeOK /\ Good(e) /\ Domains
  BY Applied DEF IInv
<1>2. TypeOK'
  <2>1. LockedOK'
    BY <1>1 DEF ProbeReady, TypeOK, LockedOK, locked
  <2>2. PanelOK'
    BY <1>1 DEF ProbeReady, TypeOK, PanelOK, locked
  <2>3. OwnedOK'
    BY <1>1 DEF ProbeReady, TypeOK, OwnedOK
  <2>4. StartOK'
    BY <1>1 DEF ProbeReady, TypeOK, StartOK, Starting, Facts
  <2>5. WorkOK'
    BY <1>1 DEF ProbeReady, TypeOK, WorkOK, work
  <2>6. FilesOK'
    BY <1>1 DEF ProbeReady, TypeOK, FilesOK, files
  <2>7. PromisedOK'
    BY <1>1 DEF ProbeReady, TypeOK, PromisedOK, promised
  <2> QED BY <2>1, <2>2, <2>3, <2>4, <2>5, <2>6, <2>7 DEF TypeOK
<1>3. Good(e)'
  <2>1. Control(e)'
    BY <1>1 DEF Domains, ProbeReady, locked, work, files, promised, Good,
           Control
  <2>2. Holding(e)'
    BY <1>1 DEF Domains, ProbeReady, locked, work, files, promised, Good,
           Control, Holding, Building, Driving
  <2>3. Stopped(e)'
    BY <1>1 DEF Domains, ProbeReady, locked, work, files, promised, Good,
           Control, Stopped
  <2>4. Ending(e)'
    BY <1>1 DEF Domains, ProbeReady, locked, work, files, promised, Good,
           Control, Stopped, Ending
  <2> QED BY <2>1, <2>2, <2>3, <2>4 DEF Good
<1>4. ASSUME NEW x \in Engines, x # e  PROVE Same(x)
  BY <1>1, <1>4 DEF Domains, Same, ProbeReady, locked, work, files, promised
<1> QED BY <1>2, <1>3, <1>4, SameGood DEF IInv

(* The descriptor is lent while the image is open.                          *)
LEMMA BringUpKeeps ==
  ASSUME IInv, NEW e \in Engines, BringUp(e)
  PROVE  IInv'
<1>1. TypeOK /\ Good(e) /\ Domains
  BY Applied DEF IInv
<1>2. TypeOK'
  <2>1. LockedOK'
    BY <1>1 DEF BringUp, TypeOK, LockedOK, locked
  <2>2. PanelOK'
    BY <1>1 DEF BringUp, TypeOK, PanelOK, locked
  <2>3. OwnedOK'
    BY <1>1 DEF BringUp, TypeOK, OwnedOK
  <2>4. StartOK'
    BY <1>1 DEF BringUp, TypeOK, StartOK, Starting, Facts
  <2>5. WorkOK'
    BY <1>1 DEF BringUp, TypeOK, WorkOK, work
  <2>6. FilesOK'
    BY <1>1 DEF BringUp, TypeOK, FilesOK, files
  <2>7. PromisedOK'
    BY <1>1 DEF BringUp, TypeOK, PromisedOK, promised
  <2> QED BY <2>1, <2>2, <2>3, <2>4, <2>5, <2>6, <2>7 DEF TypeOK
<1>3. Good(e)'
  <2>1. Control(e)'
    BY <1>1 DEF Domains, BringUp, locked, work, files, promised, Good, Control
  <2>2. Holding(e)'
    BY <1>1 DEF Domains, BringUp, locked, work, files, promised, Good,
           Control, Holding, Building, Driving
  <2>3. Stopped(e)'
    BY <1>1 DEF Domains, BringUp, locked, work, files, promised, Good,
           Control, Stopped
  <2>4. Ending(e)'
    BY <1>1 DEF Domains, BringUp, locked, work, files, promised, Good,
           Control, Stopped, Ending
  <2> QED BY <2>1, <2>2, <2>3, <2>4 DEF Good
<1>4. ASSUME NEW x \in Engines, x # e  PROVE Same(x)
  BY <1>1, <1>4 DEF Domains, Same, BringUp, locked, work, files, promised
<1> QED BY <1>2, <1>3, <1>4, SameGood DEF IInv

(* The machine holds the descriptor from here to its end.                   *)
LEMMA ClaimFirmwareKeeps ==
  ASSUME IInv, NEW e \in Engines, ClaimFirmware(e)
  PROVE  IInv'
<1>1. TypeOK /\ Good(e) /\ Domains
  BY Applied DEF IInv
<1>2. TypeOK'
  <2>1. LockedOK'
    <3>1. bringUpNote' \in [Engines -> SUBSET Facts]
      <4>1. PICK said \in {{}, {"reason"}} :
              bringUpNote' = [bringUpNote EXCEPT ![e] = said]
        BY DEF ClaimFirmware
      <4>2. said \in SUBSET Facts
        BY DEF Facts
      <4> QED BY <1>1, <4>1, <4>2 DEF TypeOK, LockedOK
    <3>2. mode' \in [Engines -> {"none", "test", "firmware"}]
      BY <1>1 DEF ClaimFirmware, TypeOK, LockedOK
    <3> QED BY <1>1, <3>1, <3>2 DEF ClaimFirmware, TypeOK, LockedOK
  <2>2. PanelOK'
    BY <1>1 DEF ClaimFirmware, TypeOK, PanelOK
  <2>3. OwnedOK'
    BY <1>1 DEF ClaimFirmware, TypeOK, OwnedOK, owned
  <2>4. StartOK'
    BY <1>1 DEF ClaimFirmware, TypeOK, StartOK, Starting, Facts
  <2>5. WorkOK'
    BY <1>1 DEF ClaimFirmware, TypeOK, WorkOK, work
  <2>6. FilesOK'
    BY <1>1 DEF ClaimFirmware, TypeOK, FilesOK, files
  <2>7. PromisedOK'
    BY <1>1 DEF ClaimFirmware, TypeOK, PromisedOK, promised
  <2> QED BY <2>1, <2>2, <2>3, <2>4, <2>5, <2>6, <2>7 DEF TypeOK
<1>3. Good(e)'
  <2>1. Control(e)'
    BY <1>1 DEF Domains, ClaimFirmware, owned, work, files, promised, Good,
           Control
  <2>2. Holding(e)'
    BY <1>1 DEF Domains, ClaimFirmware, owned, work, files, promised, Good,
           Control, Holding, Building, Driving
  <2>3. Stopped(e)'
    BY <1>1 DEF Domains, ClaimFirmware, owned, work, files, promised, Good,
           Control, Stopped
  <2>4. Ending(e)'
    BY <1>1 DEF Domains, ClaimFirmware, owned, work, files, promised, Good,
           Control, Stopped, Ending
  <2> QED BY <2>1, <2>2, <2>3, <2>4 DEF Good
<1>4. ASSUME NEW x \in Engines, x # e  PROVE Same(x)
  BY <1>1, <1>4 DEF Domains, Same, ClaimFirmware, owned, work, files, promised
<1> QED BY <1>2, <1>3, <1>4, SameGood DEF IInv

(* Nothing was lent; the machine is made again or is gone.                  *)
LEMMA BringUpFailsKeeps ==
  ASSUME IInv, NEW e \in Engines, BringUpFails(e)
  PROVE  IInv'
<1>1. TypeOK /\ Good(e) /\ Domains
  BY Applied DEF IInv
<1>2. TypeOK'
  <2>1. LockedOK'
    BY <1>1 DEF BringUpFails, TypeOK, LockedOK, locked
  <2>2. PanelOK'
    BY <1>1 DEF BringUpFails, TypeOK, PanelOK, locked
  <2>3. OwnedOK'
    BY <1>1 DEF BringUpFails, GiveUp, TypeOK, OwnedOK
  <2>4. StartOK'
    BY <1>1 DEF BringUpFails, GiveUp, TypeOK, StartOK, Starting, Facts
  <2>5. WorkOK'
    BY <1>1 DEF BringUpFails, TypeOK, WorkOK, work
  <2>6. FilesOK'
    BY <1>1 DEF BringUpFails, TypeOK, FilesOK, files
  <2>7. PromisedOK'
    BY <1>1 DEF BringUpFails, TypeOK, PromisedOK, promised
  <2> QED BY <2>1, <2>2, <2>3, <2>4, <2>5, <2>6, <2>7 DEF TypeOK
<1>3. Good(e)'
  <2>1. Control(e)'
    BY <1>1 DEF Domains, BringUpFails, GiveUp, locked, work, files, promised,
           Good, Control
  <2>2. Holding(e)'
    BY <1>1 DEF Domains, BringUpFails, GiveUp, locked, work, files, promised,
           Good, Control, Holding, Building, Driving
  <2>3. Stopped(e)'
    BY <1>1 DEF Domains, BringUpFails, GiveUp, locked, work, files, promised,
           Good, Control, Stopped
  <2>4. Ending(e)'
    BY <1>1 DEF Domains, BringUpFails, GiveUp, locked, work, files, promised,
           Good, Control, Stopped, Ending
  <2> QED BY <2>1, <2>2, <2>3, <2>4 DEF Good
<1>4. ASSUME NEW x \in Engines, x # e  PROVE Same(x)
  BY <1>1, <1>4 DEF Domains, Same, BringUpFails, GiveUp, locked, work, files,
         promised
<1> QED BY <1>2, <1>3, <1>4, SameGood DEF IInv

(* The provisioner has no part in who owns what.                            *)
LEMMA PrepareKeeps ==
  ASSUME IInv, NEW e \in Engines, Prepare(e)
  PROVE  IInv'
<1>1. TypeOK /\ Good(e) /\ Domains
  BY Applied DEF IInv
<1>2. TypeOK'
  <2>1. LockedOK'
    BY <1>1 DEF Prepare, TypeOK, LockedOK, Facts
  <2>2. PanelOK'
    BY <1>1 DEF Prepare, TypeOK, PanelOK
  <2>3. OwnedOK'
    BY <1>1 DEF Prepare, TypeOK, OwnedOK, owned
  <2>4. StartOK'
    BY <1>1 DEF Prepare, TypeOK, StartOK, Starting, Facts
  <2>5. WorkOK'
    BY <1>1 DEF Prepare, TypeOK, WorkOK, work
  <2>6. FilesOK'
    BY <1>1 DEF Prepare, TypeOK, FilesOK
  <2>7. PromisedOK'
    BY <1>1 DEF Prepare, TypeOK, PromisedOK, promised
  <2> QED BY <2>1, <2>2, <2>3, <2>4, <2>5, <2>6, <2>7 DEF TypeOK
<1>3. Good(e)'
  <2>1. Control(e)'
    BY <1>1 DEF Domains, Prepare, owned, work, promised, Good, Control
  <2>2. Holding(e)'
    BY <1>1 DEF Domains, Prepare, owned, work, promised, Good, Control,
           Holding, Building, Driving
  <2>3. Stopped(e)'
    BY <1>1 DEF Domains, Prepare, owned, work, promised, Good, Control,
           Stopped
  <2>4. Ending(e)'
    BY <1>1 DEF Domains, Prepare, owned, work, promised, Good, Control,
           Stopped, Ending
  <2> QED BY <2>1, <2>2, <2>3, <2>4 DEF Good
<1>4. ASSUME NEW x \in Engines, x # e  PROVE Same(x)
  BY <1>1, <1>4 DEF Domains, Same, Prepare, owned, work, promised
<1> QED BY <1>2, <1>3, <1>4, SameGood DEF IInv

(* The test guest it is.                                                    *)
LEMMA NotImportedKeeps ==
  ASSUME IInv, NEW e \in Engines, NotImported(e)
  PROVE  IInv'
<1>1. TypeOK /\ Good(e) /\ Domains
  BY Applied DEF IInv
<1>2. TypeOK'
  <2>1. LockedOK'
    BY <1>1 DEF NotImported, TypeOK, LockedOK, locked
  <2>2. PanelOK'
    BY <1>1 DEF NotImported, TypeOK, PanelOK, locked
  <2>3. OwnedOK'
    BY <1>1 DEF NotImported, TypeOK, OwnedOK, owned
  <2>4. StartOK'
    BY <1>1 DEF NotImported, TypeOK, StartOK, Starting, Facts
  <2>5. WorkOK'
    BY <1>1 DEF NotImported, TypeOK, WorkOK, work
  <2>6. FilesOK'
    BY <1>1 DEF NotImported, TypeOK, FilesOK, files
  <2>7. PromisedOK'
    BY <1>1 DEF NotImported, TypeOK, PromisedOK, promised
  <2> QED BY <2>1, <2>2, <2>3, <2>4, <2>5, <2>6, <2>7 DEF TypeOK
<1>3. Good(e)'
  <2>1. Control(e)'
    BY <1>1 DEF Domains, NotImported, locked, owned, work, files, promised,
           Good, Control
  <2>2. Holding(e)'
    BY <1>1 DEF Domains, NotImported, locked, owned, work, files, promised,
           Good, Control, Holding, Building, Driving
  <2>3. Stopped(e)'
    BY <1>1 DEF Domains, NotImported, locked, owned, work, files, promised,
           Good, Control, Stopped
  <2>4. Ending(e)'
    BY <1>1 DEF Domains, NotImported, locked, owned, work, files, promised,
           Good, Control, Stopped, Ending
  <2> QED BY <2>1, <2>2, <2>3, <2>4 DEF Good
<1>4. ASSUME NEW x \in Engines, x # e  PROVE Same(x)
  BY <1>1, <1>4 DEF Domains, Same, NotImported, locked, owned, work, files,
         promised
<1> QED BY <1>2, <1>3, <1>4, SameGood DEF IInv

(* vm_guest_install.                                                        *)
LEMMA TestGuestKeeps ==
  ASSUME IInv, NEW e \in Engines, TestGuest(e)
  PROVE  IInv'
<1>1. TypeOK /\ Good(e) /\ Domains
  BY Applied DEF IInv
<1>2. TypeOK'
  <2>1. LockedOK'
    BY <1>1 DEF TestGuest, TypeOK, LockedOK, Facts, StartOK
  <2>2. PanelOK'
    BY <1>1 DEF TestGuest, TypeOK, PanelOK
  <2>3. OwnedOK'
    BY <1>1 DEF TestGuest, TypeOK, OwnedOK, owned
  <2>4. StartOK'
    BY <1>1 DEF TestGuest, TypeOK, StartOK, Starting, Facts
  <2>5. WorkOK'
    BY <1>1 DEF TestGuest, TypeOK, WorkOK, work
  <2>6. FilesOK'
    BY <1>1 DEF TestGuest, TypeOK, FilesOK, files
  <2>7. PromisedOK'
    BY <1>1 DEF TestGuest, TypeOK, PromisedOK, promised
  <2> QED BY <2>1, <2>2, <2>3, <2>4, <2>5, <2>6, <2>7 DEF TypeOK
<1>3. Good(e)'
  <2>1. Control(e)'
    BY <1>1 DEF Domains, TestGuest, owned, work, files, promised, Good,
           Control
  <2>2. Holding(e)'
    BY <1>1 DEF Domains, TestGuest, owned, work, files, promised, Good,
           Control, Holding, Building, Driving
  <2>3. Stopped(e)'
    BY <1>1 DEF Domains, TestGuest, owned, work, files, promised, Good,
           Control, Stopped
  <2>4. Ending(e)'
    BY <1>1 DEF Domains, TestGuest, owned, work, files, promised, Good,
           Control, Stopped, Ending
  <2> QED BY <2>1, <2>2, <2>3, <2>4 DEF Good
<1>4. ASSUME NEW x \in Engines, x # e  PROVE Same(x)
  BY <1>1, <1>4 DEF Domains, Same, TestGuest, owned, work, files, promised
<1> QED BY <1>2, <1>3, <1>4, SameGood DEF IInv

(* start gives up: the machine is still to be freed.                        *)
LEMMA TestGuestFailsKeeps ==
  ASSUME IInv, NEW e \in Engines, TestGuestFails(e)
  PROVE  IInv'
<1>1. TypeOK /\ Good(e) /\ Domains
  BY Applied DEF IInv
<1>2. TypeOK'
  <2>1. LockedOK'
    BY <1>1 DEF TestGuestFails, TypeOK, LockedOK, locked
  <2>2. PanelOK'
    BY <1>1 DEF TestGuestFails, TypeOK, PanelOK, locked
  <2>3. OwnedOK'
    BY <1>1 DEF TestGuestFails, TypeOK, OwnedOK, owned
  <2>4. StartOK'
    BY <1>1 DEF TestGuestFails, GiveUp, TypeOK, StartOK, Starting, Facts
  <2>5. WorkOK'
    BY <1>1 DEF TestGuestFails, TypeOK, WorkOK, work
  <2>6. FilesOK'
    BY <1>1 DEF TestGuestFails, TypeOK, FilesOK, files
  <2>7. PromisedOK'
    BY <1>1 DEF TestGuestFails, TypeOK, PromisedOK, promised
  <2> QED BY <2>1, <2>2, <2>3, <2>4, <2>5, <2>6, <2>7 DEF TypeOK
<1>3. Good(e)'
  <2>1. Control(e)'
    BY <1>1 DEF Domains, TestGuestFails, GiveUp, locked, owned, work, files,
           promised, Good, Control
  <2>2. Holding(e)'
    BY <1>1 DEF Domains, TestGuestFails, GiveUp, locked, owned, work, files,
           promised, Good, Control, Holding, Building, Driving
  <2>3. Stopped(e)'
    BY <1>1 DEF Domains, TestGuestFails, GiveUp, locked, owned, work, files,
           promised, Good, Control, Stopped
  <2>4. Ending(e)'
    BY <1>1 DEF Domains, TestGuestFails, GiveUp, locked, owned, work, files,
           promised, Good, Control, Stopped, Ending
  <2> QED BY <2>1, <2>2, <2>3, <2>4 DEF Good
<1>4. ASSUME NEW x \in Engines, x # e  PROVE Same(x)
  BY <1>1, <1>4 DEF Domains, Same, TestGuestFails, GiveUp, locked, owned,
         work, files, promised
<1> QED BY <1>2, <1>3, <1>4, SameGood DEF IInv

(* Both outcomes keep the machine with start.                               *)
LEMMA AllocThreadKeeps ==
  ASSUME IInv, NEW e \in Engines, AllocThread(e)
  PROVE  IInv'
<1>1. TypeOK /\ Good(e) /\ Domains
  BY Applied DEF IInv
<1>2. TypeOK'
  <2>1. LockedOK'
    BY <1>1 DEF AllocThread, TypeOK, LockedOK, locked
  <2>2. PanelOK'
    BY <1>1 DEF AllocThread, TypeOK, PanelOK, locked
  <2>3. OwnedOK'
    BY <1>1 DEF AllocThread, TypeOK, OwnedOK, owned
  <2>4. StartOK'
    BY <1>1 DEF AllocThread, GiveUp, TypeOK, StartOK, Starting, Facts
  <2>5. WorkOK'
    BY <1>1 DEF AllocThread, TypeOK, WorkOK, work
  <2>6. FilesOK'
    BY <1>1 DEF AllocThread, TypeOK, FilesOK, files
  <2>7. PromisedOK'
    BY <1>1 DEF AllocThread, TypeOK, PromisedOK, promised
  <2> QED BY <2>1, <2>2, <2>3, <2>4, <2>5, <2>6, <2>7 DEF TypeOK
<1>3. Good(e)'
  <2>1. Control(e)'
    BY <1>1 DEF Domains, AllocThread, GiveUp, locked, owned, work, files,
           promised, Good, Control
  <2>2. Holding(e)'
    BY <1>1 DEF Domains, AllocThread, GiveUp, locked, owned, work, files,
           promised, Good, Control, Holding, Building, Driving
  <2>3. Stopped(e)'
    BY <1>1 DEF Domains, AllocThread, GiveUp, locked, owned, work, files,
           promised, Good, Control, Stopped
  <2>4. Ending(e)'
    BY <1>1 DEF Domains, AllocThread, GiveUp, locked, owned, work, files,
           promised, Good, Control, Stopped, Ending
  <2> QED BY <2>1, <2>2, <2>3, <2>4 DEF Good
<1>4. ASSUME NEW x \in Engines, x # e  PROVE Same(x)
  BY <1>1, <1>4 DEF Domains, Same, AllocThread, GiveUp, locked, owned, work,
         files, promised
<1> QED BY <1>2, <1>3, <1>4, SameGood DEF IInv

(* A stop that came is accepted or the engine runs: the two exclude each other. *)
LEMMA CommitKeeps ==
  ASSUME IInv, NEW e \in Engines, Commit(e)
  PROVE  IInv'
<1>1. TypeOK /\ Good(e) /\ Domains
  BY Applied DEF IInv
<1>2. TypeOK'
  <2>1. LockedOK'
    BY <1>1 DEF Commit, GiveUp, Cancelled, TypeOK, LockedOK, Facts
  <2>2. PanelOK'
    BY <1>1 DEF Commit, TypeOK, PanelOK
  <2>3. OwnedOK'
    BY <1>1 DEF Commit, TypeOK, OwnedOK, owned
  <2>4. StartOK'
    BY <1>1 DEF Commit, GiveUp, Cancelled, TypeOK, StartOK, Starting, Facts
  <2>5. WorkOK'
    BY <1>1 DEF Commit, TypeOK, WorkOK, work
  <2>6. FilesOK'
    BY <1>1 DEF Commit, TypeOK, FilesOK, files
  <2>7. PromisedOK'
    BY <1>1 DEF Commit, TypeOK, PromisedOK, promised
  <2> QED BY <2>1, <2>2, <2>3, <2>4, <2>5, <2>6, <2>7 DEF TypeOK
<1>3. Good(e)'
  <2>1. Control(e)'
    BY <1>1 DEF Domains, Commit, GiveUp, Cancelled, owned, work, files,
           promised, Good, Control
  <2>2. Holding(e)'
    BY <1>1 DEF Domains, Commit, GiveUp, Cancelled, owned, work, files,
           promised, Good, Control, Holding, Building, Driving
  <2>3. Stopped(e)'
    BY <1>1 DEF Domains, Commit, GiveUp, Cancelled, owned, work, files,
           promised, Good, Control, Stopped
  <2>4. Ending(e)'
    BY <1>1 DEF Domains, Commit, GiveUp, Cancelled, owned, work, files,
           promised, Good, Control, Stopped, Ending
  <2> QED BY <2>1, <2>2, <2>3, <2>4 DEF Good
<1>4. ASSUME NEW x \in Engines, x # e  PROVE Same(x)
  BY <1>1, <1>4 DEF Domains, Same, Commit, GiveUp, Cancelled, owned, work,
         files, promised
<1> QED BY <1>2, <1>3, <1>4, SameGood DEF IInv

(* The owner changes.                                                       *)
LEMMA SpawnKeeps ==
  ASSUME IInv, NEW e \in Engines, Spawn(e)
  PROVE  IInv'
<1>1. TypeOK /\ Good(e) /\ Domains
  BY Applied DEF IInv
<1>2. TypeOK'
  <2>1. LockedOK'
    BY <1>1 DEF Spawn, TypeOK, LockedOK, locked
  <2>2. PanelOK'
    BY <1>1 DEF Spawn, TypeOK, PanelOK, locked
  <2>3. OwnedOK'
    BY <1>1 DEF Spawn, TypeOK, OwnedOK, owned
  <2>4. StartOK'
    BY <1>1 DEF Spawn, TypeOK, StartOK, Starting, Facts
  <2>5. WorkOK'
    BY <1>1 DEF Spawn, TypeOK, WorkOK, Working
  <2>6. FilesOK'
    BY <1>1 DEF Spawn, TypeOK, FilesOK, files
  <2>7. PromisedOK'
    BY <1>1 DEF Spawn, TypeOK, PromisedOK, promised
  <2> QED BY <2>1, <2>2, <2>3, <2>4, <2>5, <2>6, <2>7 DEF TypeOK
<1>3. Good(e)'
  <2>1. Control(e)'
    BY <1>1 DEF Domains, Spawn, locked, owned, files, promised, Good, Control
  <2>2. Holding(e)'
    BY <1>1 DEF Domains, Spawn, locked, owned, files, promised, Good, Control,
           Holding, Building, Driving
  <2>3. Stopped(e)'
    BY <1>1 DEF Domains, Spawn, locked, owned, files, promised, Good, Control,
           Stopped
  <2>4. Ending(e)'
    <3>1. /\ worker'[e] = "top" /\ starter'[e] = "none"
          /\ starter[e] = "spawn" /\ worker[e] = "none"
          /\ state'[e] = state[e] /\ accepted'[e] = accepted[e]
          /\ panel'[e] = panel[e] /\ guest'[e] = guest[e]
          /\ exit'[e] = exit[e]
      BY <1>1 DEF Domains, Spawn, locked, promised, Good, Control
    <3>2. guest[e] = "ok" /\ exit[e] = "none" /\ panel[e] # "none"
      BY <1>1, <3>1 DEF Good, Ending
    <3>3. state[e] # "Idle" /\ (~accepted[e] => state[e] = "Running")
      BY <1>1, <3>1 DEF TypeOK, LockedOK, Good, Control, Stopped
    <3> QED BY <3>1, <3>2, <3>3 DEF Ending
  <2> QED BY <2>1, <2>2, <2>3, <2>4 DEF Good
<1>4. ASSUME NEW x \in Engines, x # e  PROVE Same(x)
  BY <1>1, <1>4 DEF Domains, Same, Spawn, locked, owned, files, promised
<1> QED BY <1>2, <1>3, <1>4, SameGood DEF IInv

(* The machine goes first ...                                               *)
LEMMA UnwindKeeps ==
  ASSUME IInv, NEW e \in Engines, Unwind(e)
  PROVE  IInv'
<1>1. TypeOK /\ Good(e) /\ Domains
  BY Applied DEF IInv
<1>2. TypeOK'
  <2>1. LockedOK'
    BY <1>1 DEF Unwind, TypeOK, LockedOK, locked
  <2>2. PanelOK'
    BY <1>1 DEF Unwind, TypeOK, PanelOK, locked
  <2>3. OwnedOK'
    BY <1>1 DEF Unwind, TypeOK, OwnedOK
  <2>4. StartOK'
    BY <1>1 DEF Unwind, TypeOK, StartOK, Starting, Facts
  <2>5. WorkOK'
    BY <1>1 DEF Unwind, TypeOK, WorkOK, work
  <2>6. FilesOK'
    BY <1>1 DEF Unwind, TypeOK, FilesOK, files
  <2>7. PromisedOK'
    BY <1>1 DEF Unwind, TypeOK, PromisedOK, promised
  <2> QED BY <2>1, <2>2, <2>3, <2>4, <2>5, <2>6, <2>7 DEF TypeOK
<1>3. Good(e)'
  <2>1. Control(e)'
    BY <1>1 DEF Domains, Unwind, locked, work, files, promised, Good, Control
  <2>2. Holding(e)'
    BY <1>1 DEF Domains, Unwind, locked, work, files, promised, Good, Control,
           Holding, Building, Driving
  <2>3. Stopped(e)'
    BY <1>1 DEF Domains, Unwind, locked, work, files, promised, Good, Control,
           Stopped
  <2>4. Ending(e)'
    BY <1>1 DEF Domains, Unwind, locked, work, files, promised, Good, Control,
           Stopped, Ending
  <2> QED BY <2>1, <2>2, <2>3, <2>4 DEF Good
<1>4. ASSUME NEW x \in Engines, x # e  PROVE Same(x)
  BY <1>1, <1>4 DEF Domains, Same, Unwind, locked, work, files, promised
<1> QED BY <1>2, <1>3, <1>4, SameGood DEF IInv

(* ... then the image it wrote through ...                                  *)
LEMMA UnbootKeeps ==
  ASSUME IInv, NEW e \in Engines, Unboot(e)
  PROVE  IInv'
<1>1. TypeOK /\ Good(e) /\ Domains
  BY Applied DEF IInv
<1>2. TypeOK'
  <2>1. LockedOK'
    BY <1>1 DEF Unboot, TypeOK, LockedOK, locked
  <2>2. PanelOK'
    BY <1>1 DEF Unboot, TypeOK, PanelOK, locked
  <2>3. OwnedOK'
    BY <1>1 DEF Unboot, TypeOK, OwnedOK
  <2>4. StartOK'
    BY <1>1 DEF Unboot, TypeOK, StartOK, Starting, Facts
  <2>5. WorkOK'
    BY <1>1 DEF Unboot, TypeOK, WorkOK, work
  <2>6. FilesOK'
    BY <1>1 DEF Unboot, TypeOK, FilesOK, files
  <2>7. PromisedOK'
    BY <1>1 DEF Unboot, TypeOK, PromisedOK, promised
  <2> QED BY <2>1, <2>2, <2>3, <2>4, <2>5, <2>6, <2>7 DEF TypeOK
<1>3. Good(e)'
  <2>1. Control(e)'
    BY <1>1 DEF Domains, Unboot, locked, work, files, promised, Good, Control
  <2>2. Holding(e)'
    BY <1>1 DEF Domains, Unboot, locked, work, files, promised, Good, Control,
           Holding, Building, Driving
  <2>3. Stopped(e)'
    BY <1>1 DEF Domains, Unboot, locked, work, files, promised, Good, Control,
           Stopped
  <2>4. Ending(e)'
    BY <1>1 DEF Domains, Unboot, locked, work, files, promised, Good, Control,
           Stopped, Ending
  <2> QED BY <2>1, <2>2, <2>3, <2>4 DEF Good
<1>4. ASSUME NEW x \in Engines, x # e  PROVE Same(x)
  BY <1>1, <1>4 DEF Domains, Same, Unboot, locked, work, files, promised
<1> QED BY <1>2, <1>3, <1>4, SameGood DEF IInv

(* ... then the engine is Idle.                                             *)
LEMMA AbandonKeeps ==
  ASSUME IInv, NEW e \in Engines, Abandon(e)
  PROVE  IInv'
<1>1. TypeOK /\ Good(e) /\ Domains
  BY Applied DEF IInv
<1>2. TypeOK'
  <2>1. LockedOK'
    BY <1>1 DEF Abandon, BecomeIdle, TypeOK, LockedOK, Facts, StartOK
  <2>2. PanelOK'
    BY <1>1 DEF Abandon, TypeOK, PanelOK
  <2>3. OwnedOK'
    BY <1>1 DEF Abandon, TypeOK, OwnedOK, owned
  <2>4. StartOK'
    BY <1>1 DEF Abandon, BecomeIdle, TypeOK, StartOK, Starting, Facts
  <2>5. WorkOK'
    BY <1>1 DEF Abandon, TypeOK, WorkOK, work
  <2>6. FilesOK'
    BY <1>1 DEF Abandon, TypeOK, FilesOK, files
  <2>7. PromisedOK'
    BY <1>1 DEF Abandon, TypeOK, PromisedOK, promised
  <2> QED BY <2>1, <2>2, <2>3, <2>4, <2>5, <2>6, <2>7 DEF TypeOK
<1>3. Good(e)'
  <2>1. Control(e)'
    BY <1>1 DEF Domains, Abandon, BecomeIdle, owned, work, files, promised,
           Good, Control
  <2>2. Holding(e)'
    BY <1>1 DEF Domains, Abandon, BecomeIdle, owned, work, files, promised,
           Good, Control, Holding, Building, Driving
  <2>3. Stopped(e)'
    BY <1>1 DEF Domains, Abandon, BecomeIdle, owned, work, files, promised,
           Good, Control, Stopped
  <2>4. Ending(e)'
    BY <1>1 DEF Domains, Abandon, BecomeIdle, owned, work, files, promised,
           Good, Control, Stopped, Ending
  <2> QED BY <2>1, <2>2, <2>3, <2>4 DEF Good
<1>4. ASSUME NEW x \in Engines, x # e  PROVE Same(x)
  BY <1>1, <1>4 DEF Domains, Same, Abandon, BecomeIdle, owned, work, files,
         promised
<1> QED BY <1>2, <1>3, <1>4, SameGood DEF IInv

(* A stop seen here is one that was accepted.                               *)
LEMMA TopKeeps ==
  ASSUME IInv, NEW e \in Engines, Top(e)
  PROVE  IInv'
<1>1. TypeOK /\ Good(e) /\ Domains
  BY Applied DEF IInv
<1>2. TypeOK'
  <2>1. LockedOK'
    BY <1>1 DEF Top, TypeOK, LockedOK, locked
  <2>2. PanelOK'
    BY <1>1 DEF Top, TypeOK, PanelOK, locked
  <2>3. OwnedOK'
    BY <1>1 DEF Top, TypeOK, OwnedOK, owned
  <2>4. StartOK'
    BY <1>1 DEF Top, TypeOK, StartOK, start_
  <2>5. WorkOK'
    BY <1>1 DEF Top, TypeOK, WorkOK, Working
  <2>6. FilesOK'
    BY <1>1 DEF Top, TypeOK, FilesOK, files
  <2>7. PromisedOK'
    BY <1>1 DEF Top, TypeOK, PromisedOK, promised
  <2> QED BY <2>1, <2>2, <2>3, <2>4, <2>5, <2>6, <2>7 DEF TypeOK
<1>3. Good(e)'
  <2>1. Control(e)'
    BY <1>1 DEF Domains, Top, locked, owned, start_, files, promised, Good,
           Control
  <2>2. Holding(e)'
    BY <1>1 DEF Domains, Top, locked, owned, start_, files, promised, Good,
           Control, Holding, Building, Driving
  <2>3. Stopped(e)'
    BY <1>1 DEF Domains, Top, locked, owned, start_, files, promised, Good,
           Control, Stopped
  <2>4. Ending(e)'
    BY <1>1 DEF Domains, Top, locked, owned, start_, files, promised, Good,
           Control, Stopped, Ending
  <2> QED BY <2>1, <2>2, <2>3, <2>4 DEF Good
<1>4. ASSUME NEW x \in Engines, x # e  PROVE Same(x)
  BY <1>1, <1>4 DEF Domains, Same, Top, locked, owned, start_, files, promised
<1> QED BY <1>2, <1>3, <1>4, SameGood DEF IInv

(* The only step that begins a chunk; a second after a stop is excluded by Top. *)
LEMMA RunKeeps ==
  ASSUME IInv, NEW e \in Engines, Run(e)
  PROVE  IInv'
<1>1. TypeOK /\ Good(e) /\ Domains
  BY Applied DEF IInv
<1>2. TypeOK'
  <2>1. LockedOK'
    BY <1>1 DEF Run, TypeOK, LockedOK, locked
  <2>2. PanelOK'
    BY <1>1 DEF Run, TypeOK, PanelOK, locked
  <2>3. OwnedOK'
    BY <1>1 DEF Run, TypeOK, OwnedOK, owned
  <2>4. StartOK'
    BY <1>1 DEF Run, TypeOK, StartOK, start_
  <2>5. WorkOK'
    BY <1>1, EngineAssumption DEF Run, TypeOK, WorkOK, Working
  <2>6. FilesOK'
    BY <1>1 DEF Run, TypeOK, FilesOK, files
  <2>7. PromisedOK'
    BY <1>1, EngineAssumption DEF Run, TypeOK, PromisedOK
  <2> QED BY <2>1, <2>2, <2>3, <2>4, <2>5, <2>6, <2>7 DEF TypeOK
<1>3. Good(e)'
  <2>1. Control(e)'
    BY <1>1 DEF Domains, Run, locked, owned, start_, files, Good, Control
  <2>2. Holding(e)'
    BY <1>1 DEF Domains, Run, locked, owned, start_, files, Good, Control,
           Holding, Building, Driving
  <2>3. Stopped(e)'
    BY <1>1 DEF Domains, Run, locked, owned, start_, files, Good, Control,
           Stopped
  <2>4. Ending(e)'
    BY <1>1 DEF Domains, Run, locked, owned, start_, files, Good, Control,
           Stopped, Ending
  <2> QED BY <2>1, <2>2, <2>3, <2>4 DEF Good
<1>4. ASSUME NEW x \in Engines, x # e  PROVE Same(x)
  BY <1>1, <1>4 DEF Domains, Same, Run, locked, owned, start_, files
<1> QED BY <1>2, <1>3, <1>4, SameGood DEF IInv

(* A halt or a cap is decided only of an engine nobody stopped.             *)
LEMMA CheckKeeps ==
  ASSUME IInv, NEW e \in Engines, Check(e)
  PROVE  IInv'
<1>1. TypeOK /\ Good(e) /\ Domains
  BY Applied DEF IInv
<1>2. TypeOK'
  <2>1. LockedOK'
    BY <1>1 DEF Check, AtCap, TypeOK, LockedOK, Facts
  <2>2. PanelOK'
    BY <1>1 DEF Check, TypeOK, PanelOK
  <2>3. OwnedOK'
    BY <1>1 DEF Check, TypeOK, OwnedOK, owned
  <2>4. StartOK'
    BY <1>1 DEF Check, TypeOK, StartOK, start_
  <2>5. WorkOK'
    BY <1>1 DEF Check, AtCap, TypeOK, WorkOK, Working
  <2>6. FilesOK'
    BY <1>1 DEF Check, TypeOK, FilesOK, files
  <2>7. PromisedOK'
    BY <1>1 DEF Check, TypeOK, PromisedOK, promised
  <2> QED BY <2>1, <2>2, <2>3, <2>4, <2>5, <2>6, <2>7 DEF TypeOK
<1>3. Good(e)'
  <2>1. Control(e)'
    BY <1>1 DEF Domains, Check, AtCap, owned, start_, files, promised, Good,
           Control
  <2>2. Holding(e)'
    BY <1>1 DEF Domains, Check, AtCap, owned, start_, files, promised, Good,
           Control, Holding, Building, Driving
  <2>3. Stopped(e)'
    BY <1>1 DEF Domains, Check, AtCap, owned, start_, files, promised, Good,
           Control, Stopped
  <2>4. Ending(e)'
    BY <1>1 DEF Domains, Check, AtCap, owned, start_, files, promised, Good,
           Control, Stopped, Ending
  <2> QED BY <2>1, <2>2, <2>3, <2>4 DEF Good
<1>4. ASSUME NEW x \in Engines, x # e  PROVE Same(x)
  BY <1>1, <1>4 DEF Domains, Same, Check, AtCap, owned, start_, files,
         promised
<1> QED BY <1>2, <1>3, <1>4, SameGood DEF IInv

(* The reason of the end is fixed: nobody can stop a Stopping engine.       *)
LEMMA DecideKeeps ==
  ASSUME IInv, NEW e \in Engines, Decide(e)
  PROVE  IInv'
<1>1. TypeOK /\ Good(e) /\ Domains
  BY Applied DEF IInv
<1>2. TypeOK'
  <2>1. LockedOK'
    BY <1>1 DEF Decide, Publish, Blank, TypeOK, LockedOK, Facts
  <2>2. PanelOK'
    BY <1>1 DEF Decide, Publish, Blank, TypeOK, PanelOK
  <2>3. OwnedOK'
    BY <1>1 DEF Decide, TypeOK, OwnedOK, owned
  <2>4. StartOK'
    BY <1>1 DEF Decide, TypeOK, StartOK, start_
  <2>5. WorkOK'
    BY <1>1 DEF Decide, Publish, Blank, TypeOK, WorkOK, Working
  <2>6. FilesOK'
    BY <1>1 DEF Decide, TypeOK, FilesOK, files
  <2>7. PromisedOK'
    BY <1>1 DEF Decide, TypeOK, PromisedOK, promised
  <2> QED BY <2>1, <2>2, <2>3, <2>4, <2>5, <2>6, <2>7 DEF TypeOK
<1>3. Good(e)'
  <2>1. Control(e)'
    BY <1>1 DEF Domains, Decide, Publish, Blank, owned, start_, files,
           promised, Good, Control
  <2>2. Holding(e)'
    BY <1>1 DEF Domains, Decide, Publish, Blank, owned, start_, files,
           promised, Good, Control, Holding, Building, Driving
  <2>3. Stopped(e)'
    BY <1>1 DEF Domains, Decide, Publish, Blank, owned, start_, files,
           promised, Good, Control, Stopped
  <2>4. Ending(e)'
    <3>1. /\ starter'[e] = "none" /\ starter[e] = "none" /\ panel[e] # "none"
          /\ state'[e] = state[e] /\ state[e] # "Idle"
          /\ accepted'[e] = accepted[e] /\ guest'[e] = guest[e]
          /\ exit[e] = "none" /\ worker[e] = "decide"
          /\ guest[e] = "fault" \/ reached[e] =>
               state[e] = "Stopping" /\ ~accepted[e]
      BY <1>1 DEF Domains, Decide, start_, promised, Good, Control, Ending
    <3>2. state[e] = "Stopping" \/ state[e] = "Running"
      BY <1>1, <3>1 DEF TypeOK, LockedOK, Good, Control
    <3>3. panel'[e] # "none"
      BY <1>1, <3>1 DEF Domains, Decide, Publish, Blank
    <3>4. CASE guest[e] = "ok" /\ reached[e]
      <4>1. worker'[e] = "free" /\ exit'[e] = "cap"
        BY <1>1, <3>4 DEF Domains, Decide
      <4> QED BY <3>1, <3>3, <3>4, <4>1 DEF Ending
    <3>5. CASE guest[e] = "ok" /\ ~reached[e]
      <4>1. worker'[e] = "top" /\ exit'[e] = "none"
        BY <1>1, <3>1, <3>5 DEF Domains, Decide
      <4>2. state[e] = "Stopping" => accepted[e]
        BY <1>1, <3>1, <3>5 DEF Good, Ending, Stopped
      <4> QED BY <3>1, <3>2, <3>3, <3>5, <4>1, <4>2 DEF Ending
    <3>6. CASE guest[e] = "fault"
      <4>1. worker'[e] = "free" /\ exit'[e] = "fault" /\ status'[e] = "halted"
        BY <1>1, <3>6 DEF Domains, Decide, Publish
      <4> QED BY <3>1, <3>3, <3>6, <4>1 DEF Ending
    <3>7. guest[e] = "ok" \/ guest[e] = "fault"
      BY <1>1 DEF TypeOK, WorkOK
    <3> QED BY <3>4, <3>5, <3>6, <3>7
  <2> QED BY <2>1, <2>2, <2>3, <2>4 DEF Good
<1>4. ASSUME NEW x \in Engines, x # e  PROVE Same(x)
  BY <1>1, <1>4 DEF Domains, Same, Decide, Publish, Blank, owned, start_,
         files, promised
<1> QED BY <1>2, <1>3, <1>4, SameGood DEF IInv

(* Only a stopped worker comes here.                                        *)
LEMMA LastPublishKeeps ==
  ASSUME IInv, NEW e \in Engines, LastPublish(e)
  PROVE  IInv'
<1>1. TypeOK /\ Good(e) /\ Domains
  BY Applied DEF IInv
<1>2. TypeOK'
  <2>1. LockedOK'
    BY <1>1 DEF LastPublish, Publish, Blank, TypeOK, LockedOK, Facts
  <2>2. PanelOK'
    BY <1>1 DEF LastPublish, Publish, Blank, TypeOK, PanelOK
  <2>3. OwnedOK'
    BY <1>1 DEF LastPublish, TypeOK, OwnedOK, owned
  <2>4. StartOK'
    BY <1>1 DEF LastPublish, TypeOK, StartOK, start_
  <2>5. WorkOK'
    BY <1>1 DEF LastPublish, Publish, Blank, TypeOK, WorkOK, Working
  <2>6. FilesOK'
    BY <1>1 DEF LastPublish, TypeOK, FilesOK, files
  <2>7. PromisedOK'
    BY <1>1 DEF LastPublish, TypeOK, PromisedOK, promised
  <2> QED BY <2>1, <2>2, <2>3, <2>4, <2>5, <2>6, <2>7 DEF TypeOK
<1>3. Good(e)'
  <2>1. Control(e)'
    BY <1>1 DEF Domains, LastPublish, Publish, Blank, owned, start_, files,
           promised, Good, Control
  <2>2. Holding(e)'
    BY <1>1 DEF Domains, LastPublish, Publish, Blank, owned, start_, files,
           promised, Good, Control, Holding, Building, Driving
  <2>3. Stopped(e)'
    BY <1>1 DEF Domains, LastPublish, Publish, Blank, owned, start_, files,
           promised, Good, Control, Stopped
  <2>4. Ending(e)'
    BY <1>1 DEF Domains, LastPublish, Publish, Blank, owned, start_, files,
           promised, Good, Control, Stopped, Ending
  <2> QED BY <2>1, <2>2, <2>3, <2>4 DEF Good
<1>4. ASSUME NEW x \in Engines, x # e  PROVE Same(x)
  BY <1>1, <1>4 DEF Domains, Same, LastPublish, Publish, Blank, owned, start_,
         files, promised
<1> QED BY <1>2, <1>3, <1>4, SameGood DEF IInv

(* The descriptor goes with the machine.                                    *)
LEMMA FreeMachineKeeps ==
  ASSUME IInv, NEW e \in Engines, FreeMachine(e)
  PROVE  IInv'
<1>1. TypeOK /\ Good(e) /\ Domains
  BY Applied DEF IInv
<1>2. TypeOK'
  <2>1. LockedOK'
    BY <1>1 DEF FreeMachine, TypeOK, LockedOK, locked
  <2>2. PanelOK'
    BY <1>1 DEF FreeMachine, TypeOK, PanelOK, locked
  <2>3. OwnedOK'
    BY <1>1 DEF FreeMachine, TypeOK, OwnedOK
  <2>4. StartOK'
    BY <1>1 DEF FreeMachine, TypeOK, StartOK, start_
  <2>5. WorkOK'
    BY <1>1 DEF FreeMachine, TypeOK, WorkOK, Working
  <2>6. FilesOK'
    BY <1>1 DEF FreeMachine, TypeOK, FilesOK, files
  <2>7. PromisedOK'
    BY <1>1 DEF FreeMachine, TypeOK, PromisedOK, promised
  <2> QED BY <2>1, <2>2, <2>3, <2>4, <2>5, <2>6, <2>7 DEF TypeOK
<1>3. Good(e)'
  <2>1. Control(e)'
    BY <1>1 DEF Domains, FreeMachine, locked, start_, files, promised, Good,
           Control
  <2>2. Holding(e)'
    BY <1>1 DEF Domains, FreeMachine, locked, start_, files, promised, Good,
           Control, Holding, Building, Driving
  <2>3. Stopped(e)'
    BY <1>1 DEF Domains, FreeMachine, locked, start_, files, promised, Good,
           Control, Stopped
  <2>4. Ending(e)'
    BY <1>1 DEF Domains, FreeMachine, locked, start_, files, promised, Good,
           Control, Stopped, Ending
  <2> QED BY <2>1, <2>2, <2>3, <2>4 DEF Good
<1>4. ASSUME NEW x \in Engines, x # e  PROVE Same(x)
  BY <1>1, <1>4 DEF Domains, Same, FreeMachine, locked, start_, files,
         promised
<1> QED BY <1>2, <1>3, <1>4, SameGood DEF IInv

(* Nothing is lent any more.                                                *)
LEMMA CloseBootKeeps ==
  ASSUME IInv, NEW e \in Engines, CloseBoot(e)
  PROVE  IInv'
<1>1. TypeOK /\ Good(e) /\ Domains
  BY Applied DEF IInv
<1>2. TypeOK'
  <2>1. LockedOK'
    BY <1>1 DEF CloseBoot, TypeOK, LockedOK, locked
  <2>2. PanelOK'
    BY <1>1 DEF CloseBoot, TypeOK, PanelOK, locked
  <2>3. OwnedOK'
    BY <1>1 DEF CloseBoot, TypeOK, OwnedOK
  <2>4. StartOK'
    BY <1>1 DEF CloseBoot, TypeOK, StartOK, start_
  <2>5. WorkOK'
    BY <1>1 DEF CloseBoot, TypeOK, WorkOK, Working
  <2>6. FilesOK'
    BY <1>1 DEF CloseBoot, TypeOK, FilesOK, files
  <2>7. PromisedOK'
    BY <1>1 DEF CloseBoot, TypeOK, PromisedOK, promised
  <2> QED BY <2>1, <2>2, <2>3, <2>4, <2>5, <2>6, <2>7 DEF TypeOK
<1>3. Good(e)'
  <2>1. Control(e)'
    BY <1>1 DEF Domains, CloseBoot, locked, start_, files, promised, Good,
           Control
  <2>2. Holding(e)'
    BY <1>1 DEF Domains, CloseBoot, locked, start_, files, promised, Good,
           Control, Holding, Building, Driving
  <2>3. Stopped(e)'
    BY <1>1 DEF Domains, CloseBoot, locked, start_, files, promised, Good,
           Control, Stopped
  <2>4. Ending(e)'
    BY <1>1 DEF Domains, CloseBoot, locked, start_, files, promised, Good,
           Control, Stopped, Ending
  <2> QED BY <2>1, <2>2, <2>3, <2>4 DEF Good
<1>4. ASSUME NEW x \in Engines, x # e  PROVE Same(x)
  BY <1>1, <1>4 DEF Domains, Same, CloseBoot, locked, start_, files, promised
<1> QED BY <1>2, <1>3, <1>4, SameGood DEF IInv

(* What is said is why it ended.                                            *)
LEMMA EndKeeps ==
  ASSUME IInv, NEW e \in Engines, End(e)
  PROVE  IInv'
<1>1. TypeOK /\ Good(e) /\ Domains
  BY Applied DEF IInv
<1>2. TypeOK'
  <2>1. LockedOK'
    BY <1>1, EngineAssumption DEF End, BecomeIdle, Blank, TypeOK, LockedOK,
           Facts
  <2>2. PanelOK'
    BY <1>1, EngineAssumption DEF End, BecomeIdle, Blank, TypeOK, PanelOK
  <2>3. OwnedOK'
    BY <1>1 DEF End, TypeOK, OwnedOK, owned
  <2>4. StartOK'
    BY <1>1 DEF End, TypeOK, StartOK, start_
  <2>5. WorkOK'
    <3>1. 0 \in 0 .. MAX_RETIRED
      BY EngineAssumption
    <3>2. retired' \in [Engines -> 0 .. MAX_RETIRED]
      BY <1>1, <3>1 DEF End, TypeOK, WorkOK
    <3>3. worker' \in [Engines -> Working \cup {"none"}]
      BY <1>1 DEF End, TypeOK, WorkOK
    <3>4. reached' \in [Engines -> BOOLEAN]
      BY <1>1 DEF End, TypeOK, WorkOK
    <3> QED BY <1>1, <3>2, <3>3, <3>4 DEF End, TypeOK, WorkOK
  <2>6. FilesOK'
    BY <1>1 DEF End, TypeOK, FilesOK, files
  <2>7. PromisedOK'
    BY <1>1 DEF End, TypeOK, PromisedOK, promised
  <2> QED BY <2>1, <2>2, <2>3, <2>4, <2>5, <2>6, <2>7 DEF TypeOK
<1>3. Good(e)'
  <2>1. Control(e)'
    BY <1>1 DEF Domains, End, BecomeIdle, Blank, owned, start_, files,
           promised, Good, Control
  <2>2. Holding(e)'
    BY <1>1 DEF Domains, End, BecomeIdle, Blank, owned, start_, files,
           promised, Good, Control, Holding, Building, Driving
  <2>3. Stopped(e)'
    BY <1>1 DEF Domains, End, BecomeIdle, Blank, owned, start_, files,
           promised, Good, Control, Stopped
  <2>4. Ending(e)'
    <3>1. /\ state'[e] = "Idle" /\ worker'[e] = "none"
          /\ starter'[e] = starter[e] /\ starter[e] = "none"
          /\ exit'[e] = exit[e] /\ guest'[e] = guest[e]
          /\ accepted'[e] = accepted[e] /\ panel[e] # "none"
          /\ exit[e] # "none" /\ (accepted[e] <=> exit[e] = "stopped")
          /\ exit[e] = "fault" => guest[e] = "fault" /\ status[e] = "halted"
          /\ exit[e] = "cap" => guest[e] = "ok"
      BY <1>1 DEF Domains, End, BecomeIdle, start_, promised, Good, Control,
                  Ending
    <3>2. CASE exit[e] = "stopped"
      <4>1. status'[e] = "stopped" /\ panel'[e] = "blank"
        BY <1>1, <3>1, <3>2 DEF Domains, End, Blank
      <4> QED BY <3>1, <3>2, <4>1 DEF Ending
    <3>3. CASE exit[e] = "cap"
      <4>1. status'[e] = "cap reached"
        BY <1>1, <3>3 DEF Domains, End
      <4> QED BY <3>1, <3>3, <4>1 DEF Ending
    <3>4. CASE exit[e] = "fault"
      <4>1. status'[e] = status[e]
        BY <1>1, <3>4 DEF Domains, End
      <4> QED BY <3>1, <3>4, <4>1 DEF Ending
    <3>5. exit[e] \in {"none", "stopped", "cap", "fault"}
      BY <1>1 DEF TypeOK, WorkOK
    <3> QED BY <3>1, <3>2, <3>3, <3>4, <3>5
  <2> QED BY <2>1, <2>2, <2>3, <2>4 DEF Good
<1>4. ASSUME NEW x \in Engines, x # e  PROVE Same(x)
  BY <1>1, <1>4 DEF Domains, Same, End, BecomeIdle, Blank, owned, start_,
         files, promised
<1> QED BY <1>2, <1>3, <1>4, SameGood DEF IInv

(* Only the note, the flag and the image change.                            *)
LEMMA ProvisionedKeeps ==
  ASSUME IInv, NEW e \in Engines, Provisioned(e)
  PROVE  IInv'
<1>1. TypeOK /\ Good(e) /\ Domains
  BY Applied DEF IInv
<1>2. TypeOK'
  <2>1. LockedOK'
    <3>1. bringUpNote' \in [Engines -> SUBSET Facts]
      <4>1. PICK said \in {{"ready"}, {"failed"}} :
              bringUpNote' = [bringUpNote EXCEPT ![e] = said]
        BY DEF Provisioned
      <4>2. said \in SUBSET Facts
        BY DEF Facts
      <4> QED BY <1>1, <4>1, <4>2 DEF TypeOK, LockedOK
    <3>2. preparing' \in [Engines -> BOOLEAN]
      BY <1>1 DEF Provisioned, TypeOK, LockedOK
    <3> QED BY <1>1, <3>1, <3>2 DEF Provisioned, TypeOK, LockedOK
  <2>2. PanelOK'
    BY <1>1 DEF Provisioned, TypeOK, PanelOK
  <2>3. OwnedOK'
    BY <1>1 DEF Provisioned, TypeOK, OwnedOK, owned
  <2>4. StartOK'
    BY <1>1 DEF Provisioned, TypeOK, StartOK, start_
  <2>5. WorkOK'
    BY <1>1 DEF Provisioned, TypeOK, WorkOK, work
  <2>6. FilesOK'
    BY <1>1 DEF Provisioned, TypeOK, FilesOK
  <2>7. PromisedOK'
    BY <1>1 DEF Provisioned, TypeOK, PromisedOK, promised
  <2> QED BY <2>1, <2>2, <2>3, <2>4, <2>5, <2>6, <2>7 DEF TypeOK
<1>3. Good(e)'
  <2>1. Control(e)'
    BY <1>1 DEF Domains, Provisioned, owned, start_, work, promised, Good,
           Control
  <2>2. Holding(e)'
    BY <1>1 DEF Domains, Provisioned, owned, start_, work, promised, Good,
           Control, Holding, Building, Driving
  <2>3. Stopped(e)'
    BY <1>1 DEF Domains, Provisioned, owned, start_, work, promised, Good,
           Control, Stopped
  <2>4. Ending(e)'
    BY <1>1 DEF Domains, Provisioned, owned, start_, work, promised, Good,
           Control, Stopped, Ending
  <2> QED BY <2>1, <2>2, <2>3, <2>4 DEF Good
<1>4. ASSUME NEW x \in Engines, x # e  PROVE Same(x)
  BY <1>1, <1>4 DEF Domains, Same, Provisioned, owned, start_, work, promised
<1> QED BY <1>2, <1>3, <1>4, SameGood DEF IInv

(* What was promised of the last life is over.                              *)
LEMMA StartCallKeeps ==
  ASSUME IInv, NEW e \in Engines, StartCall(e)
  PROVE  IInv'
<1>1. TypeOK /\ Good(e) /\ Domains
  BY Applied DEF IInv
<1>2. TypeOK'
  <2>1. LockedOK'
    BY <1>1 DEF StartCall, Blank, TypeOK, LockedOK, Facts
  <2>2. PanelOK'
    BY <1>1 DEF StartCall, Blank, TypeOK, PanelOK
  <2>3. OwnedOK'
    BY <1>1 DEF StartCall, TypeOK, OwnedOK, owned
  <2>4. StartOK'
    BY <1>1 DEF StartCall, Blank, TypeOK, StartOK, Starting, Facts
  <2>5. WorkOK'
    BY <1>1 DEF StartCall, Blank, TypeOK, WorkOK, Working
  <2>6. FilesOK'
    BY <1>1 DEF StartCall, TypeOK, FilesOK, files
  <2>7. PromisedOK'
    BY <1>1 DEF StartCall, Blank, TypeOK, PromisedOK
  <2> QED BY <2>1, <2>2, <2>3, <2>4, <2>5, <2>6, <2>7 DEF TypeOK
<1>3. Good(e)'
  <2>1. Control(e)'
    BY <1>1 DEF Domains, StartCall, Blank, owned, files, Good, Control
  <2>2. Holding(e)'
    BY <1>1 DEF Domains, StartCall, Blank, owned, files, Good, Control,
           Holding, Building, Driving
  <2>3. Stopped(e)'
    BY <1>1 DEF Domains, StartCall, Blank, owned, files, Good, Control,
           Stopped
  <2>4. Ending(e)'
    BY <1>1 DEF Domains, StartCall, Blank, owned, files, Good, Control,
           Stopped, Ending
  <2> QED BY <2>1, <2>2, <2>3, <2>4 DEF Good
<1>4. ASSUME NEW x \in Engines, x # e  PROVE Same(x)
  BY <1>1, <1>4 DEF Domains, Same, StartCall, Blank, owned, files
<1> QED BY <1>2, <1>3, <1>4, SameGood DEF IInv

(* Accepted only of an engine that is Starting or Running.                  *)
LEMMA StopKeeps ==
  ASSUME IInv, NEW e \in Engines, Stop(e)
  PROVE  IInv'
<1>1. TypeOK /\ Good(e) /\ Domains
  BY Applied DEF IInv
<1>2. TypeOK'
  <2>1. LockedOK'
    BY <1>1 DEF Stop, TypeOK, LockedOK, Facts
  <2>2. PanelOK'
    BY <1>1 DEF Stop, TypeOK, PanelOK
  <2>3. OwnedOK'
    BY <1>1 DEF Stop, TypeOK, OwnedOK, owned
  <2>4. StartOK'
    BY <1>1 DEF Stop, TypeOK, StartOK, start_
  <2>5. WorkOK'
    BY <1>1 DEF Stop, TypeOK, WorkOK, work
  <2>6. FilesOK'
    BY <1>1 DEF Stop, TypeOK, FilesOK, files
  <2>7. PromisedOK'
    BY <1>1 DEF Stop, TypeOK, PromisedOK
  <2> QED BY <2>1, <2>2, <2>3, <2>4, <2>5, <2>6, <2>7 DEF TypeOK
<1>3. Good(e)'
  <2>1. Control(e)'
    BY <1>1 DEF Domains, Stop, owned, start_, work, files, Good, Control
  <2>2. Holding(e)'
    BY <1>1 DEF Domains, Stop, owned, start_, work, files, Good, Control,
           Holding, Building, Driving
  <2>3. Stopped(e)'
    BY <1>1 DEF Domains, Stop, owned, start_, work, files, Good, Control,
           Stopped
  <2>4. Ending(e)'
    BY <1>1 DEF Domains, Stop, owned, start_, work, files, Good, Control,
           Stopped, Ending
  <2> QED BY <2>1, <2>2, <2>3, <2>4 DEF Good
<1>4. ASSUME NEW x \in Engines, x # e  PROVE Same(x)
  BY <1>1, <1>4 DEF Domains, Same, Stop, owned, start_, work, files
<1> QED BY <1>2, <1>3, <1>4, SameGood DEF IInv

(* The text of a pause is written only over that of a Running engine.       *)
LEMMA SetPausedKeeps ==
  ASSUME IInv, NEW e \in Engines, NEW p \in BOOLEAN, SetPaused(e, p)
  PROVE  IInv'
<1>1. TypeOK /\ Good(e) /\ Domains
  BY Applied DEF IInv
<1>2. TypeOK'
  <2>1. LockedOK'
    BY <1>1 DEF SetPaused, TypeOK, LockedOK, Facts
  <2>2. PanelOK'
    BY <1>1 DEF SetPaused, TypeOK, PanelOK
  <2>3. OwnedOK'
    BY <1>1 DEF SetPaused, TypeOK, OwnedOK, owned
  <2>4. StartOK'
    BY <1>1 DEF SetPaused, TypeOK, StartOK, start_
  <2>5. WorkOK'
    BY <1>1 DEF SetPaused, TypeOK, WorkOK, work
  <2>6. FilesOK'
    BY <1>1 DEF SetPaused, TypeOK, FilesOK, files
  <2>7. PromisedOK'
    BY <1>1 DEF SetPaused, TypeOK, PromisedOK, promised
  <2> QED BY <2>1, <2>2, <2>3, <2>4, <2>5, <2>6, <2>7 DEF TypeOK
<1>3. Good(e)'
  <2>1. Control(e)'
    BY <1>1 DEF Domains, SetPaused, owned, start_, work, files, promised,
           Good, Control
  <2>2. Holding(e)'
    BY <1>1 DEF Domains, SetPaused, owned, start_, work, files, promised,
           Good, Control, Holding, Building, Driving
  <2>3. Stopped(e)'
    BY <1>1 DEF Domains, SetPaused, owned, start_, work, files, promised,
           Good, Control, Stopped
  <2>4. Ending(e)'
    BY <1>1 DEF Domains, SetPaused, owned, start_, work, files, promised,
           Good, Control, Stopped, Ending
  <2> QED BY <2>1, <2>2, <2>3, <2>4 DEF Good
<1>4. ASSUME NEW x \in Engines, x # e  PROVE Same(x)
  BY <1>1, <1>4 DEF Domains, Same, SetPaused, owned, start_, work, files,
         promised
<1> QED BY <1>2, <1>3, <1>4, SameGood DEF IInv

(* A cap is read by Check alone.                                            *)
LEMMA SetInstructionCapKeeps ==
  ASSUME IInv, NEW e \in Engines, NEW n \in 0 .. MAX_RETIRED, SetInstructionCap(e, n)
  PROVE  IInv'
<1>1. TypeOK /\ Good(e) /\ Domains
  BY Applied DEF IInv
<1>2. TypeOK'
  <2>1. LockedOK'
    BY <1>1, EngineAssumption DEF SetInstructionCap, TypeOK, LockedOK, Facts
  <2>2. PanelOK'
    BY <1>1 DEF SetInstructionCap, TypeOK, PanelOK
  <2>3. OwnedOK'
    BY <1>1 DEF SetInstructionCap, TypeOK, OwnedOK, owned
  <2>4. StartOK'
    BY <1>1 DEF SetInstructionCap, TypeOK, StartOK, start_
  <2>5. WorkOK'
    BY <1>1 DEF SetInstructionCap, TypeOK, WorkOK, work
  <2>6. FilesOK'
    BY <1>1 DEF SetInstructionCap, TypeOK, FilesOK, files
  <2>7. PromisedOK'
    BY <1>1 DEF SetInstructionCap, TypeOK, PromisedOK, promised
  <2> QED BY <2>1, <2>2, <2>3, <2>4, <2>5, <2>6, <2>7 DEF TypeOK
<1>3. Good(e)'
  <2>1. Control(e)'
    BY <1>1 DEF Domains, SetInstructionCap, owned, start_, work, files,
           promised, Good, Control
  <2>2. Holding(e)'
    BY <1>1 DEF Domains, SetInstructionCap, owned, start_, work, files,
           promised, Good, Control, Holding, Building, Driving
  <2>3. Stopped(e)'
    BY <1>1 DEF Domains, SetInstructionCap, owned, start_, work, files,
           promised, Good, Control, Stopped
  <2>4. Ending(e)'
    BY <1>1 DEF Domains, SetInstructionCap, owned, start_, work, files,
           promised, Good, Control, Stopped, Ending
  <2> QED BY <2>1, <2>2, <2>3, <2>4 DEF Good
<1>4. ASSUME NEW x \in Engines, x # e  PROVE Same(x)
  BY <1>1, <1>4 DEF Domains, Same, SetInstructionCap, owned, start_, work,
         files, promised
<1> QED BY <1>2, <1>3, <1>4, SameGood DEF IInv

(* A frame that is there is drawn.                                          *)
LEMMA CopyFrameKeeps ==
  ASSUME IInv, NEW e \in Engines, CopyFrame(e)
  PROVE  IInv'
<1>1. TypeOK /\ Good(e) /\ Domains
  BY Applied DEF IInv
<1>2. TypeOK'
  <2>1. LockedOK'
    BY <1>1 DEF CopyFrame, TypeOK, LockedOK
  <2>2. PanelOK'
    BY <1>1 DEF CopyFrame, TypeOK, PanelOK
  <2>3. OwnedOK'
    BY <1>1 DEF CopyFrame, TypeOK, OwnedOK, owned
  <2>4. StartOK'
    BY <1>1 DEF CopyFrame, TypeOK, StartOK, start_
  <2>5. WorkOK'
    BY <1>1 DEF CopyFrame, TypeOK, WorkOK, work
  <2>6. FilesOK'
    BY <1>1 DEF CopyFrame, TypeOK, FilesOK, files
  <2>7. PromisedOK'
    BY <1>1 DEF CopyFrame, TypeOK, PromisedOK, promised
  <2> QED BY <2>1, <2>2, <2>3, <2>4, <2>5, <2>6, <2>7 DEF TypeOK
<1>3. Good(e)'
  <2>1. Control(e)'
    BY <1>1 DEF Domains, CopyFrame, owned, start_, work, files, promised,
           Good, Control
  <2>2. Holding(e)'
    BY <1>1 DEF Domains, CopyFrame, owned, start_, work, files, promised,
           Good, Control, Holding, Building, Driving
  <2>3. Stopped(e)'
    BY <1>1 DEF Domains, CopyFrame, owned, start_, work, files, promised,
           Good, Control, Stopped
  <2>4. Ending(e)'
    BY <1>1 DEF Domains, CopyFrame, owned, start_, work, files, promised,
           Good, Control, Stopped, Ending
  <2> QED BY <2>1, <2>2, <2>3, <2>4 DEF Good
<1>4. ASSUME NEW x \in Engines, x # e  PROVE Same(x)
  BY <1>1, <1>4 DEF Domains, Same, CopyFrame, owned, start_, work, files,
         promised
<1> QED BY <1>2, <1>3, <1>4, SameGood DEF IInv

(* Nothing exists before the first start.                                   *)
LEMMA InitHolds == Init => IInv
<1> SUFFICES ASSUME Init PROVE IInv
  OBVIOUS
<1>1. TypeOK
  <2>1. 0 \in 0 .. MAX_RETIRED
    BY EngineAssumption
  <2>2. LockedOK /\ PanelOK
    BY <2>1 DEF Init, LockedOK, PanelOK, Facts
  <2>3. OwnedOK /\ StartOK
    BY DEF Init, OwnedOK, StartOK, Facts
  <2>4. WorkOK
    BY <2>1 DEF Init, WorkOK
  <2>5. FilesOK /\ PromisedOK
    BY DEF Init, FilesOK, PromisedOK
  <2> QED BY <2>2, <2>3, <2>4, <2>5 DEF TypeOK
<1>2. ASSUME NEW e \in Engines PROVE Good(e)
  BY <1>2 DEF Init, Good, Control, Holding, Stopped, Ending, Building, Driving
<1> QED BY <1>1, <1>2 DEF IInv

(* start, whole.                                                            *)
LEMMA StartKeeps ==
  ASSUME IInv, NEW e \in Engines, Start(e)
  PROVE  IInv'
  BY AllocSnapshotKeeps, SnapshotFailsKeeps, CancelledEarlyKeeps,
     InitMachineKeeps, InitFailsKeeps, NoPathsKeeps, AdoptKeeps,
     ProbeReadyKeeps, BringUpKeeps, ClaimFirmwareKeeps, BringUpFailsKeeps,
     PrepareKeeps, NotImportedKeeps, TestGuestKeeps, TestGuestFailsKeeps,
     AllocThreadKeeps, CommitKeeps, SpawnKeeps, UnwindKeeps, UnbootKeeps,
     AbandonKeeps DEF Start

(* threadMain, whole.                                                       *)
LEMMA WorkKeeps ==
  ASSUME IInv, NEW e \in Engines, Work(e)
  PROVE  IInv'
  BY TopKeeps, RunKeeps, CheckKeeps, DecideKeeps, LastPublishKeeps,
     FreeMachineKeeps, CloseBootKeeps, EndKeeps DEF Work

(* The calls, whole.                                                        *)
LEMMA CallKeeps ==
  ASSUME IInv, NEW e \in Engines, Call(e)
  PROVE  IInv'
  BY StartCallKeeps, StopKeeps, SetPausedKeeps, SetInstructionCapKeeps,
     CopyFrameKeeps DEF Call

(* No step of any engine breaks the invariant of any.                       *)
LEMMA NextKeeps ==
  ASSUME IInv, [Next]_vars
  PROVE  IInv'
<1>1. CASE UNCHANGED vars
  <2>1. TypeOK'
    BY <1>1 DEF IInv, vars, locked, owned, start_, work, files, promised,
                TypeOK, LockedOK, PanelOK, OwnedOK, StartOK, WorkOK, FilesOK,
                PromisedOK
  <2>2. ASSUME NEW x \in Engines  PROVE Same(x)
    BY <1>1 DEF vars, locked, owned, start_, work, promised, Same
  <2> QED BY <2>1, <2>2, SameGood DEF IInv
<1>2. CASE Next
  BY <1>2, StartKeeps, WorkKeeps, ProvisionedKeeps, CallKeeps DEF Next
<1> QED BY <1>1, <1>2

(* The inductive invariant, of any number of engines over one work image.   *)
LEMMA Inductive == Spec => []IInv
  BY InitHolds, NextKeeps, PTL DEF Spec

(* Every variable of every engine stays in its range, and a frame announced
   to the view is there.                                                    *)
THEOREM TypeCorrect == Spec => []TypeOK
<1>1. IInv => TypeOK
  BY DEF IInv
<1> QED BY <1>1, Inductive, PTL

(* A machine has one owner, the work image outlives it, the flags the UI
   reads say what there is and an Idle engine holds nothing.                *)
THEOREM OwnershipSafe == Spec => []Ownership
<1>1. ASSUME IInv, NEW e \in Engines
      PROVE  OneOwner(e) /\ FlagsTell(e) /\ ImageOutlivesMachine(e)
             /\ IdleHoldsNothing(e)
  <2>1. TypeOK /\ Control(e) /\ Holding(e) /\ Ending(e)
    BY <1>1 DEF IInv, Good
  <2>2. OneOwner(e)
    BY <2>1 DEF Control, Holding, OneOwner
  <2>3. FlagsTell(e)
    <3>1. state[e] = "Running" => machine[e]
      BY <2>1 DEF TypeOK, StartOK, WorkOK, Working, Control, Holding, Ending,
                  Building, Driving
    <3> QED BY <2>1, <3>1 DEF Control, FlagsTell
  <2>4. ImageOutlivesMachine(e)
    BY <2>1 DEF Holding, ImageOutlivesMachine
  <2>5. IdleHoldsNothing(e)
    BY <2>1 DEF TypeOK, OwnedOK, Control, Holding, IdleHoldsNothing, Building, Driving
  <2> QED BY <2>2, <2>3, <2>4, <2>5
<1>2. IInv => Ownership
  BY <1>1 DEF Ownership
<1> QED BY <1>2, Inductive, PTL

(* What an Idle engine says is why its worker ended, whatever was called
   while it was ending.                                                     *)
THEOREM EndTold == Spec => []EndToldTruly
<1>1. IInv => EndToldTruly
  BY DEF IInv, Good, Ending, EndToldTruly
<1> QED BY <1>1, Inductive, PTL

(* After a stop that was accepted no chunk begins but one that was decided
   on before it.                                                            *)
THEOREM OneChunk == Spec => []OneChunkAfterStop
<1>1. IInv => OneChunkAfterStop
  BY DEF IInv, Good, Stopped, OneChunkAfterStop
<1> QED BY <1>1, Inductive, PTL

---------------------------------------------------------------------------
(* The input of the guest.                                                  *)

(* What the controller and the switches are: the wires carry the levels the *)
(* switches and the touch part put on them, the CPU sees the cascade, and a *)
(* level line at its polarity is latched (relatch_level).                   *)
Controller == [raw : SUBSET Lines, driven : SUBSET Lines, level : SUBSET Lines,
               type : SUBSET Lines, en : SUBSET Lines, stat : SUBSET Lines]

Asserts(c, line) == line \in c.raw <=> line \in c.level

Latched(c) ==
  /\ c \in Controller
  /\ Buttons \subseteq c.driven
  /\ \A line \in c.type \cap c.driven : Asserts(c, line) => line \in c.stat

Wires ==
  /\ Latched(ic)
  /\ CascadeFresh

(* The guest's side: where its interrupt handler is, and which lines its    *)
(* drivers have armed.                                                      *)
Report == [n : Nat, phase : {"MAKE_TOUCH", "TOUCHING", "BREAK_TOUCH"}]
Irq ==
  [at : {"off"}] \cup [at : {"read"}, group : Groups]
    \cup [at : {"flip", "ack"}, group : Groups, line : Lines]

Handling ==
  /\ driver \in [irq : Irq, setup : 0 .. Drivers, timer : BOOLEAN,
                 sample : SUBSET Buttons, work : BOOLEAN, resets : Nat]
  /\ driver.irq.at \in {"flip", "ack"} =>
       /\ driver.irq.line \in ic.stat
       /\ Group(driver.irq.line) = driver.irq.group

Armed ==
  /\ \A b \in Buttons \cap ic.en :
       /\ b \in ic.type
       /\ \E i \in DOMAIN Order : Order[i] = b /\ 4 * i <= driver.setup
  /\ \A i \in DOMAIN Order :
       Order[i] \in Buttons /\ 4 * (i - 1) < driver.setup => Order[i] \in ic.type

(* What the guest has not been told of a switch it will be told: a switch   *)
(* that is not armed is at rest, and of an armed one that the guest has     *)
(* wrong something is pending.                                              *)
Told ==
  /\ held \in SUBSET Buttons /\ shadow \in SUBSET Buttons
  /\ \A b \in Buttons \ ic.en : b \notin held /\ b \notin shadow
  /\ \A b \in Buttons \cap ic.en :
       (b \in shadow) # (b \in held) =>
         \/ driver.timer
         \/ b \in driver.sample
         \/ b \in ic.stat /\ ~(driver.irq.at = "ack" /\ driver.irq.line = b)

(* The transitions still to be made: those queued, less one whose pop is    *)
(* still to come.  What was last wanted of a key is the last of them, or    *)
(* what its switch says.                                                    *)
Ahead(i) == i \in DOMAIN bq /\ (at = "button_pop" => i > 1)

Queued ==
  /\ bq \in Seq([which : Buttons, pressed : BOOLEAN])
  /\ Len(bq) <= VM_BUTTON_QUEUE_CAP
  /\ keys \in SUBSET Buttons /\ wanted \in SUBSET Buttons
  /\ at = "button_pop" => bq # <<>>
  /\ \A b \in Buttons :
       (\A i \in DOMAIN bq : Ahead(i) => bq[i].which # b) => (b \in wanted <=> b \in held)
  /\ \A i \in DOMAIN bq :
       Ahead(i) /\ (\A j \in DOMAIN bq : j > i => bq[j].which # bq[i].which)
         => (bq[i].which \in wanted <=> bq[i].pressed)

(* The reports: numbered in the order they were made, the one a drain has   *)
(* handed over still at the head of the queue, and no edge missing.         *)
Reported ==
  /\ tq \in Seq(Report) /\ Len(tq) <= VM_TOUCH_QUEUE_CAP
  /\ mtz2 \in [in_reset : BOOLEAN, hbpp_mode : BOOLEAN, frame : Seq(Report)]
  /\ Len(mtz2.frame) <= 1 /\ (mtz2.in_reset => mtz2.frame = NoFrame)
  /\ heard \in Seq(Nat)
  /\ at \in {"top", "touch_pop", "touch_drop", "button", "button_pop", "chunk"}
  /\ at \in {"touch_pop", "touch_drop"} => tq # <<>>
  /\ at = "touch_pop" => mtz2.frame = <<Head(tq)>>
  /\ ui \in [paused : BOOLEAN, presses : Nat, reports : Nat, pauses : Nat,
             down : BOOLEAN, edges : SUBSET Nat]

Ordered ==
  /\ \A i, j \in DOMAIN OnTheWay : i < j => OnTheWay[i] < OnTheWay[j]
  /\ \A i \in DOMAIN OnTheWay : OnTheWay[i] <= ui.reports
  /\ \A n \in ui.edges : n <= ui.reports
  /\ \A i \in DOMAIN tq : tq[i].phase = "TOUCHING" => tq[i].n \notin ui.edges
  /\ ui.edges \subseteq gone \cup {OnTheWay[i] : i \in DOMAIN OnTheWay}

InputInv == Wires /\ Handling /\ Armed /\ Told /\ Queued /\ Reported /\ Ordered

---------------------------------------------------------------------------
(* The switches, one after the other.                                       *)
(*                                                                         *)
(* s5l_buttons_apply is a fold, a function on the sets of switches that is  *)
(* defined by itself.  That there is one, and what it is at Buttons, is     *)
(* shown from the least counterexample.                                     *)

(* A set of naturals that is not empty has a least one. *)
LEMMA LeastOf ==
  ASSUME NEW S \in SUBSET Nat, S # {}
  PROVE  \E n \in S : \A m \in S : n <= m
<1> DEFINE R == {p \in Nat \X Nat : p[1] < p[2]}
<1>1. IsWellFoundedOn(R, Nat)
  BY NatLessThanWellFounded, Zenon DEF OpToRel
<1>2. PICK n \in S : \A y \in S : ~ (<<y, n>> \in R)
  <2> HIDE DEF R
  <2> QED BY <1>1, WFMin, Zenon
<1>3. \A y \in S : n <= y
  <2> SUFFICES ASSUME NEW y \in S, y < n PROVE FALSE
    BY SMT
  <2>1. <<y, n>> \in R
    BY SMT
  <2> QED BY <1>2, <2>1, Zenon
<1> QED BY <1>3

(* One switch drives its line. *)
Drive(which, c, on) ==
  s5l_gpioic_set_line(c, which, s5l_button_level(which, which \in on))

First(s) == CHOOSE which \in s : TRUE

(* The fold, at s, over its values at smaller sets. *)
FoldAt(f, s, on, c) ==
  IF s = {} THEN c ELSE Drive(First(s), f[s \ {First(s)}], on)

UpTo(n) == {s \in SUBSET Buttons : Cardinality(s) <= n}

FoldsUpTo(f, n, on, c) == f = [s \in UpTo(n) |-> FoldAt(f, s, on, c)]

IsFold(f, on, c) == f = [s \in SUBSET Buttons |-> FoldAt(f, s, on, c)]

LEMMA ApplyIsFold ==
  ASSUME NEW on, NEW c
  PROVE  s5l_buttons_apply(on, c) = (CHOOSE f : IsFold(f, on, c))[Buttons]
BY Zenon DEF s5l_buttons_apply, FoldSet, MapThenFoldSet, IsFold, FoldAt, First, Drive

(* A set of switches is finite, and smaller without its first. *)
LEMMA FewerSwitches ==
  ASSUME NEW s \in SUBSET Buttons
  PROVE  /\ IsFiniteSet(s) /\ Cardinality(s) \in Nat
         /\ Cardinality(s) <= Cardinality(Buttons) /\ Cardinality(Buttons) \in Nat
         /\ Cardinality(s) = 0 <=> s = {}
         /\ s # {} => /\ First(s) \in s
                      /\ s \ {First(s)} \in SUBSET Buttons
                      /\ Cardinality(s \ {First(s)}) = Cardinality(s) - 1
<1>1. /\ IsFiniteSet(s) /\ Cardinality(s) <= Cardinality(Buttons)
      /\ IsFiniteSet(Buttons)
  BY FS_Subset, InputBoardAssumption
<1>2. Cardinality(s) \in Nat /\ Cardinality(Buttons) \in Nat
  BY <1>1, FS_CardinalityType
<1>3. Cardinality(s) = 0 <=> s = {}
  BY <1>1, FS_EmptySet
<1>4. s # {} => First(s) \in s
  BY DEF First
<1>5. s # {} => Cardinality(s \ {First(s)}) = Cardinality(s) - 1
  BY <1>1, <1>4, FS_RemoveElement
<1> QED BY <1>1, <1>2, <1>3, <1>4, <1>5

(* There is a fold over the sets up to any size. *)
LEMMA FoldsExist ==
  ASSUME NEW on, NEW c, NEW n \in Nat
  PROVE  \E f : FoldsUpTo(f, n, on, c)
<1> DEFINE Bad == {m \in Nat : ~ \E f : FoldsUpTo(f, m, on, c)}
<1> SUFFICES ASSUME n \in Bad PROVE FALSE
  OBVIOUS
<1>1. PICK m \in Bad : \A k \in Bad : m <= k
  <2>1. Bad \in SUBSET Nat /\ Bad # {}
    OBVIOUS
  <2> HIDE DEF Bad
  <2> QED BY <2>1, LeastOf, Zenon
<1>2. m \in Nat /\ ~ \E f : FoldsUpTo(f, m, on, c)
  BY <1>1
<1>3. CASE m = 0
  <2> DEFINE f == [s \in UpTo(0) |-> c]
  <2>1. ASSUME NEW s \in UpTo(0) PROVE s = {}
    <3>1. s \in SUBSET Buttons /\ Cardinality(s) <= 0
      BY DEF UpTo
    <3>2. Cardinality(s) \in Nat /\ (Cardinality(s) = 0 <=> s = {})
      BY <3>1, FewerSwitches
    <3> QED BY <3>1, <3>2
  <2>2. f = [s \in UpTo(0) |-> FoldAt(f, s, on, c)]
    BY <2>1, Zenon DEF FoldAt
  <2> QED BY <1>2, <1>3, <2>2, Zenon DEF FoldsUpTo
<1>4. CASE m # 0
  <2>1. m - 1 \in Nat /\ m - 1 \notin Bad
    BY <1>1, <1>2, <1>4
  <2>2. PICK f : FoldsUpTo(f, m - 1, on, c)
    BY <2>1
  <2> DEFINE g == [s \in UpTo(m) |-> FoldAt(f, s, on, c)]
  <2>3. ASSUME NEW s \in UpTo(m) PROVE FoldAt(f, s, on, c) = FoldAt(g, s, on, c)
    <3>1. CASE s = {}
      BY <3>1, Zenon DEF FoldAt
    <3>2. CASE s # {}
      <4> DEFINE t == s \ {First(s)}
      <4>0. s \in SUBSET Buttons /\ Cardinality(s) <= m
        BY DEF UpTo
      <4>1. t \in SUBSET Buttons /\ Cardinality(t) = Cardinality(s) - 1 /\ Cardinality(s) \in Nat
        BY <3>2, <4>0, FewerSwitches
      <4>2. Cardinality(t) <= m - 1 /\ Cardinality(t) <= m
        BY <1>2, <4>0, <4>1
      <4>3. t \in UpTo(m - 1) /\ t \in UpTo(m)
        BY <4>1, <4>2 DEF UpTo
      <4>4. f[t] = FoldAt(f, t, on, c)
        BY <2>2, <4>3, Zenon DEF FoldsUpTo
      <4>5. g[t] = FoldAt(f, t, on, c)
        BY <4>3, Zenon
      <4> QED BY <3>2, <4>4, <4>5, Zenon DEF FoldAt
    <3> QED BY <3>1, <3>2
  <2>4. g = [s \in UpTo(m) |-> FoldAt(g, s, on, c)]
    BY <2>3, Zenon
  <2> QED BY <1>2, <2>4, Zenon DEF FoldsUpTo
<1> QED BY <1>3, <1>4

LEMMA ApplyFolds ==
  ASSUME NEW on, NEW c
  PROVE  \E f : IsFold(f, on, c) /\ s5l_buttons_apply(on, c) = f[Buttons]
<1> DEFINE n == Cardinality(Buttons)
<1>1. n \in Nat
  BY FewerSwitches
<1>2. PICK f : FoldsUpTo(f, n, on, c)
  BY <1>1, FoldsExist
<1>3. UpTo(n) = SUBSET Buttons
  BY FewerSwitches DEF UpTo
<1>4. IsFold(f, on, c)
  BY <1>2, <1>3, Zenon DEF FoldsUpTo, IsFold
<1>5. IsFold((CHOOSE h : IsFold(h, on, c)), on, c)
  BY <1>4, Zenon
<1> QED BY <1>5, ApplyIsFold, Zenon

---------------------------------------------------------------------------
(* The controller: what an operator does to the wires, and that it keeps    *)
(* what is latched and latches what asserts.                                *)

(* d is c with more lines latched, and its wires as they are on. *)
Settles(c, d) ==
  /\ d \in Controller
  /\ d.type = c.type /\ d.level = c.level /\ d.en = c.en
  /\ c.stat \subseteq d.stat

AllLatched(c) ==
  \A line \in c.type \cap c.driven : Asserts(c, line) => line \in c.stat

LEMMA Wiring ==
  /\ MULTITOUCH \in Lines /\ MULTITOUCH \notin Buttons
  /\ Buttons \subseteq Lines /\ RestsHigh \subseteq Buttons
  /\ \A line \in Lines : line # MULTITOUCH => line \in Buttons
  /\ \A line \in Lines : Group(line) \in Groups /\ line \in InGroup(Group(line))
BY InputBoardAssumption DEF Lines, Group, Groups, InGroup

LEMMA RelatchSettles ==
  ASSUME NEW c \in Controller, NEW g
  PROVE  LET d == relatch_level(c, g)
         IN /\ Settles(c, d) /\ d.raw = c.raw /\ d.driven = c.driven
            /\ \A line \in InGroup(g) \cap c.type \cap c.driven :
                  Asserts(c, line) => line \in d.stat
<1> DEFINE asserting == {line \in InGroup(g) : line \in c.raw <=> line \in c.level}
           more == asserting \cap c.type \cap c.driven
           d == relatch_level(c, g)
<1>1. d = [c EXCEPT !.stat = @ \cup more]
  BY DEF relatch_level
<1>2. more \subseteq Lines
  BY DEF Controller
<1>3. \A line \in InGroup(g) \cap c.type \cap c.driven : Asserts(c, line) => line \in more
  BY DEF Asserts
<1> HIDE DEF more
<1>4. /\ d \in Controller /\ d.stat = c.stat \cup more
      /\ d.type = c.type /\ d.level = c.level /\ d.en = c.en
      /\ d.raw = c.raw /\ d.driven = c.driven
  BY <1>1, <1>2 DEF Controller
<1> QED BY <1>3, <1>4 DEF Settles

(* s5l_gpioic_set_line: the wire is as it is set, and nothing that asserts is
   left without its latch.                                                  *)
LEMMA LineSettles ==
  ASSUME NEW c \in Controller, NEW line \in Lines, NEW high \in BOOLEAN
  PROVE  LET d == s5l_gpioic_set_line(c, line, high)
         IN /\ Settles(c, d)
            /\ d.raw = IF high THEN c.raw \cup {line} ELSE c.raw \ {line}
            /\ d.driven = c.driven \cup {line}
            /\ AllLatched(c) => AllLatched(d)
<1> DEFINE now == Driven(c, line, high)
           moves == high # (line \in c.raw) \/ line \notin c.driven
           d == s5l_gpioic_set_line(c, line, high)
<1>1. /\ now \in Controller
      /\ now.raw = IF high THEN c.raw \cup {line} ELSE c.raw \ {line}
      /\ now.driven = c.driven \cup {line}
      /\ now.type = c.type /\ now.level = c.level /\ now.en = c.en /\ now.stat = c.stat
  BY DEF Driven, Controller
<1>2. line \in InGroup(Group(line))
  BY Wiring
<1>3. CASE line \in c.type /\ moves
  <2>1. d = relatch_level(now, Group(line))
    BY <1>3 DEF s5l_gpioic_set_line
  <2> HIDE DEF now, d
  <2>2. /\ Settles(now, d) /\ d.raw = now.raw /\ d.driven = now.driven
        /\ \A x \in InGroup(Group(line)) \cap now.type \cap now.driven :
              Asserts(now, x) => x \in d.stat
    BY <1>1, <2>1, RelatchSettles
  <2>3. Settles(c, d)
    BY <1>1, <2>2 DEF Settles
  <2>4. ASSUME AllLatched(c), NEW x \in d.type \cap d.driven, Asserts(d, x) PROVE x \in d.stat
    <3>1. CASE x = line
      BY <1>1, <1>2, <2>2, <2>4, <3>1 DEF Settles, Asserts
    <3>2. CASE x # line
      <4>1. x \in c.type \cap c.driven /\ Asserts(c, x)
        BY <1>1, <2>2, <2>4, <3>2 DEF Settles, Asserts
      <4> QED BY <2>3, <2>4, <4>1 DEF AllLatched, Settles
    <3> QED BY <3>1, <3>2
  <2> QED BY <1>1, <2>2, <2>3, <2>4 DEF AllLatched, d
<1>4. CASE ~ (line \in c.type /\ moves) /\ (line \notin c.type /\ high /\ line \notin c.raw)
  <2>1. d = [now EXCEPT !.stat = @ \cup {line}]
    BY <1>4 DEF s5l_gpioic_set_line
  <2> HIDE DEF now, d
  <2>2. /\ d \in Controller /\ d.stat = c.stat \cup {line} /\ d.raw = now.raw
        /\ d.driven = now.driven /\ d.type = c.type /\ d.level = c.level /\ d.en = c.en
    BY <1>1, <2>1 DEF Controller
  <2>3. AllLatched(c) => AllLatched(d)
    BY <1>1, <1>4, <2>2 DEF AllLatched, Asserts
  <2> QED BY <1>1, <2>2, <2>3 DEF Settles, d
<1>5. CASE ~ (line \in c.type /\ moves) /\ ~ (line \notin c.type /\ high /\ line \notin c.raw)
  <2>1. d = now
    BY <1>5 DEF s5l_gpioic_set_line
  <2>3. AllLatched(c) => AllLatched(now)
    <3> SUFFICES ASSUME AllLatched(c), NEW x \in now.type \cap now.driven, Asserts(now, x)
                 PROVE  x \in now.stat
      BY DEF AllLatched
    <3> HIDE DEF now
    <3>1. x \in c.type \cap c.driven /\ (x \in now.raw <=> x \in c.raw)
      BY <1>1, <1>5
    <3> QED BY <1>1, <3>1 DEF AllLatched, Asserts
  <2> HIDE DEF now, d
  <2> QED BY <1>1, <2>1, <2>3 DEF Settles, d
<1> QED BY <1>3, <1>4, <1>5

(* What the fold has done when it is through with the switches of s. *)
Through(c, d, s, on) ==
  /\ Settles(c, d)
  /\ \A which \in s : which \in d.raw <=> s5l_button_level(which, which \in on)
  /\ \A line \in Lines \ s : line \in d.raw <=> line \in c.raw
  /\ d.driven = c.driven \cup s
  /\ AllLatched(c) => AllLatched(d)

LEMMA FoldGoesThrough ==
  ASSUME NEW c \in Controller, NEW on, NEW f, IsFold(f, on, c), NEW all \in SUBSET Buttons
  PROVE  Through(c, f[all], all, on)
<1> DEFINE Bad == {n \in Nat : \E s \in SUBSET Buttons :
                                  Cardinality(s) = n /\ ~ Through(c, f[s], s, on)}
<1> SUFFICES ASSUME ~ Through(c, f[all], all, on) PROVE FALSE
  OBVIOUS
<1>0. Cardinality(all) \in Bad
  BY FewerSwitches
<1>1. PICK m \in Bad : \A k \in Bad : m <= k
  <2>1. Bad \in SUBSET Nat /\ Bad # {}
    BY <1>0
  <2> HIDE DEF Bad
  <2> QED BY <2>1, LeastOf, Zenon
<1>2. PICK s \in SUBSET Buttons : Cardinality(s) = m /\ ~ Through(c, f[s], s, on)
  BY <1>1
<1>3. f[s] = FoldAt(f, s, on, c)
  BY Zenon DEF IsFold
<1>4. CASE s = {}
  <2>1. f[s] = c
    BY <1>3, <1>4, Zenon DEF FoldAt
  <2>2. Through(c, c, {}, on)
    BY DEF Through, Settles
  <2> QED BY <1>2, <1>4, <2>1, <2>2
<1>5. CASE s # {}
  <2> DEFINE x == First(s)
             t == s \ {x}
             e == f[t]
             high == s5l_button_level(x, x \in on)
             d == s5l_gpioic_set_line(e, x, high)
  <2>1. /\ x \in s /\ t \in SUBSET Buttons /\ Cardinality(t) = m - 1 /\ m \in Nat
    BY <1>2, <1>5, FewerSwitches
  <2>2. m - 1 \in Nat /\ m - 1 \notin Bad
    <3>1. Cardinality(t) \in Nat
      BY <2>1, FewerSwitches
    <3> HIDE DEF Bad
    <3> QED BY <1>1, <2>1, <3>1
  <2>3. Through(c, e, t, on)
    BY <2>1, <2>2
  <2>4. f[s] = d
    BY <1>3, <1>5, Zenon DEF FoldAt, Drive
  <2>5. x \in Lines /\ high \in BOOLEAN
    BY <2>1, Wiring DEF s5l_button_level
  <2> HIDE DEF x, e, high, d, Bad
  <2>6. e \in Controller
    BY <2>3 DEF Through, Settles
  <2>7. /\ Settles(e, d) /\ d.raw = (IF high THEN e.raw \cup {x} ELSE e.raw \ {x})
        /\ d.driven = e.driven \cup {x} /\ (AllLatched(e) => AllLatched(d))
    <3>1. /\ Settles(e, s5l_gpioic_set_line(e, x, high))
          /\ s5l_gpioic_set_line(e, x, high).raw
               = IF high THEN e.raw \cup {x} ELSE e.raw \ {x}
          /\ s5l_gpioic_set_line(e, x, high).driven = e.driven \cup {x}
          /\ AllLatched(e) => AllLatched(s5l_gpioic_set_line(e, x, high))
      BY <2>5, <2>6, LineSettles, ZenonT(40)
    <3> QED BY <3>1, Zenon DEF d
  <2>8. Settles(c, d)
    BY <2>3, <2>7 DEF Through, Settles
  <2>9. \A which \in s : which \in d.raw <=> s5l_button_level(which, which \in on)
    BY <2>3, <2>7, <2>5 DEF Through, high
  <2>10. \A line \in Lines \ s : line \in d.raw <=> line \in c.raw
    BY <2>1, <2>3, <2>7 DEF Through
  <2>11. d.driven = c.driven \cup s
    BY <2>1, <2>3, <2>7 DEF Through
  <2>12. Through(c, d, s, on)
    BY <2>3, <2>7, <2>8, <2>9, <2>10, <2>11 DEF Through
  <2> QED BY <1>2, <2>4, <2>12
<1> QED BY <1>4, <1>5

(* s5l_buttons_apply. *)
LEMMA ApplySettles ==
  ASSUME NEW c \in Controller, NEW on
  PROVE  Through(c, s5l_buttons_apply(on, c), Buttons, on)
<1>1. PICK f : IsFold(f, on, c) /\ s5l_buttons_apply(on, c) = f[Buttons]
  BY ApplyFolds, Zenon
<1>2. Through(c, f[Buttons], Buttons, on)
  BY <1>1, FoldGoesThrough
<1> QED BY <1>1, <1>2

(* The end of s5l8900_refresh: every wire is at its level. *)
LEMMA RefreshSettles ==
  ASSUME NEW c \in Controller, NEW on, NEW up \in BOOLEAN, AllLatched(c)
  PROVE  LET d == Refreshed(c, on, up)
         IN /\ Settles(c, d) /\ Latched(d)
            /\ (MULTITOUCH \in d.raw) = up
            /\ \A b \in Buttons : (b \in d.raw) = s5l_button_level(b, b \in on)
<1> DEFINE e == s5l_gpioic_set_line(c, MULTITOUCH, up)
           d == s5l_buttons_apply(on, e)
<1>1. Refreshed(c, on, up) = d
  BY DEF Refreshed
<1>2. /\ Settles(c, e) /\ e.raw = (IF up THEN c.raw \cup {MULTITOUCH} ELSE c.raw \ {MULTITOUCH})
      /\ e.driven = c.driven \cup {MULTITOUCH} /\ AllLatched(e)
  BY Wiring, LineSettles
<1> HIDE DEF e
<1>3. Through(e, d, Buttons, on)
  BY <1>2, ApplySettles DEF Settles
<1> HIDE DEF d
<1>4. Settles(c, d) /\ AllLatched(d) /\ Buttons \subseteq d.driven
  BY <1>2, <1>3 DEF Through, Settles
<1>5. Latched(d)
  BY <1>4 DEF Latched, AllLatched, Settles
<1>6. (MULTITOUCH \in d.raw) = up
  BY <1>2, <1>3, Wiring DEF Through
<1>7. \A b \in Buttons : (b \in d.raw) = s5l_button_level(b, b \in on)
  BY <1>3, Wiring DEF Through, s5l_button_level
<1> QED BY <1>1, <1>4, <1>5, <1>6, <1>7

(* The registers. *)
LEMMA LevelWritten ==
  ASSUME NEW c, Latched(c), NEW g, NEW ones \in SUBSET InGroup(g)
  PROVE  LET d == INTLEVEL(c, g, ones)
         IN /\ Latched(d) /\ d.raw = c.raw /\ d.type = c.type /\ d.en = c.en
            /\ c.stat \subseteq d.stat
<1> DEFINE e == [c EXCEPT !.level = (@ \ InGroup(g)) \cup ones]
           d == relatch_level(e, g)
<1>1. INTLEVEL(c, g, ones) = d
  BY DEF INTLEVEL
<1>2. c \in Controller /\ Buttons \subseteq c.driven /\ InGroup(g) \subseteq Lines
  BY DEF Latched, InGroup
<1>3. /\ e \in Controller /\ e.raw = c.raw /\ e.type = c.type /\ e.en = c.en /\ e.stat = c.stat
      /\ e.driven = c.driven /\ e.level = (c.level \ InGroup(g)) \cup ones
  BY <1>2 DEF Controller
<1> HIDE DEF e
<1>4. /\ Settles(e, d) /\ d.raw = e.raw /\ d.driven = e.driven
      /\ \A line \in InGroup(g) \cap e.type \cap e.driven : Asserts(e, line) => line \in d.stat
  BY <1>3, RelatchSettles
<1> HIDE DEF d
<1>5. ASSUME NEW line \in d.type \cap d.driven, Asserts(d, line) PROVE line \in d.stat
  <2>1. CASE line \in InGroup(g)
    BY <1>4, <1>5, <2>1 DEF Settles, Asserts
  <2>2. CASE line \notin InGroup(g)
    <3>1. line \in c.type \cap c.driven /\ Asserts(c, line)
      BY <1>3, <1>4, <1>5, <2>2 DEF Settles, Asserts
    <3> QED BY <1>3, <1>4, <3>1 DEF Latched, Settles
  <2> QED BY <2>1, <2>2
<1> QED BY <1>1, <1>2, <1>3, <1>4, <1>5 DEF Latched, Settles

LEMMA StatWritten ==
  ASSUME NEW c, Latched(c), NEW g, NEW ones \in SUBSET InGroup(g)
  PROVE  LET d == INTSTAT(c, g, ones)
         IN /\ Latched(d) /\ d.raw = c.raw /\ d.type = c.type /\ d.en = c.en
            /\ c.stat \ ones \subseteq d.stat
<1> DEFINE e == [c EXCEPT !.stat = @ \ ones]
           d == relatch_level(e, g)
<1>1. INTSTAT(c, g, ones) = d
  BY DEF INTSTAT
<1>2. c \in Controller /\ Buttons \subseteq c.driven
  BY DEF Latched
<1>3. /\ e \in Controller /\ e.raw = c.raw /\ e.type = c.type /\ e.en = c.en
      /\ e.stat = c.stat \ ones /\ e.driven = c.driven /\ e.level = c.level
  BY <1>2 DEF Controller
<1> HIDE DEF e
<1>4. /\ Settles(e, d) /\ d.raw = e.raw /\ d.driven = e.driven
      /\ \A line \in InGroup(g) \cap e.type \cap e.driven : Asserts(e, line) => line \in d.stat
  BY <1>3, RelatchSettles
<1> HIDE DEF d
<1>5. ASSUME NEW line \in d.type \cap d.driven, Asserts(d, line) PROVE line \in d.stat
  <2>1. CASE line \in InGroup(g)
    BY <1>4, <1>5, <2>1 DEF Settles, Asserts
  <2>2. CASE line \notin InGroup(g)
    <3>1. line \in c.type \cap c.driven /\ Asserts(c, line)
      BY <1>3, <1>4, <1>5, <2>2 DEF Settles, Asserts
    <3>2. line \in e.stat
      BY <1>3, <2>2, <3>1 DEF Latched
    <3> QED BY <1>4, <3>2 DEF Settles
  <2> QED BY <2>1, <2>2
<1> QED BY <1>1, <1>2, <1>3, <1>4, <1>5 DEF Latched, Settles

LEMMA TypeWritten ==
  ASSUME NEW c, Latched(c), NEW g, NEW ones \in SUBSET InGroup(g)
  PROVE  LET d == INTTYPE(c, g, ones)
         IN /\ Latched(d) /\ d.raw = c.raw /\ d.en = c.en /\ c.stat \subseteq d.stat
            /\ d.type = (c.type \ InGroup(g)) \cup ones
<1> DEFINE e == [c EXCEPT !.type = (@ \ InGroup(g)) \cup ones]
           d == relatch_level(e, g)
<1>1. INTTYPE(c, g, ones) = d
  BY DEF INTTYPE
<1>2. c \in Controller /\ Buttons \subseteq c.driven /\ InGroup(g) \subseteq Lines
  BY DEF Latched, InGroup
<1>3. /\ e \in Controller /\ e.raw = c.raw /\ e.level = c.level /\ e.en = c.en /\ e.stat = c.stat
      /\ e.driven = c.driven /\ e.type = (c.type \ InGroup(g)) \cup ones
  BY <1>2 DEF Controller
<1> HIDE DEF e
<1>4. /\ Settles(e, d) /\ d.raw = e.raw /\ d.driven = e.driven
      /\ \A line \in InGroup(g) \cap e.type \cap e.driven : Asserts(e, line) => line \in d.stat
  BY <1>3, RelatchSettles
<1> HIDE DEF d
<1>5. ASSUME NEW line \in d.type \cap d.driven, Asserts(d, line) PROVE line \in d.stat
  <2>1. CASE line \in InGroup(g)
    BY <1>4, <1>5, <2>1 DEF Settles, Asserts
  <2>2. CASE line \notin InGroup(g)
    <3>1. line \in c.type \cap c.driven /\ Asserts(c, line)
      BY <1>3, <1>4, <1>5, <2>2 DEF Settles, Asserts
    <3> QED BY <1>3, <1>4, <3>1 DEF Latched, Settles
  <2> QED BY <2>1, <2>2
<1> QED BY <1>1, <1>2, <1>3, <1>4, <1>5 DEF Latched, Settles

LEMMA EnableWritten ==
  ASSUME NEW c, Latched(c), NEW g, NEW ones \in SUBSET InGroup(g)
  PROVE  LET d == INTEN(c, g, ones)
         IN /\ Latched(d) /\ d.raw = c.raw /\ d.type = c.type /\ d.stat = c.stat
            /\ d.en = (c.en \ InGroup(g)) \cup ones
<1> DEFINE d == [c EXCEPT !.en = (@ \ InGroup(g)) \cup ones]
<1>1. INTEN(c, g, ones) = d
  BY DEF INTEN
<1>2. c \in Controller /\ InGroup(g) \subseteq Lines
  BY DEF Latched, InGroup
<1>3. /\ d \in Controller /\ d.raw = c.raw /\ d.level = c.level /\ d.type = c.type
      /\ d.stat = c.stat /\ d.driven = c.driven /\ d.en = (c.en \ InGroup(g)) \cup ones
  BY <1>2 DEF Controller
<1> HIDE DEF d
<1> QED BY <1>1, <1>3 DEF Latched, Asserts

(* A driver writes one bit of its group's word. *)
LEMMA WordWritten ==
  ASSUME NEW bits \in SUBSET Lines, NEW line \in Lines, NEW one \in BOOLEAN
  PROVE  LET w == Word(bits, line, one)
         IN /\ w \in SUBSET InGroup(Group(line))
            /\ (bits \ InGroup(Group(line))) \cup w
                 = IF one THEN bits \cup {line} ELSE bits \ {line}
<1>1. line \in InGroup(Group(line))
  BY Wiring
<1> QED BY <1>1 DEF Word

(* A tick after an access leaves the wires right, whatever the access did. *)
LEMMA TickWires ==
  ASSUME NEW c, Latched(c), NEW on, NEW m, Ticked(TRUE, on, c, m), held' = on, mtz2' = m
  PROVE  Wires' /\ Settles(c, ic')
<1> DEFINE d == Refreshed(c, on, atn(m))
<1>1. ic' = d /\ vic' = Cascade(ic')
  BY DEF Ticked
<1>2. c \in Controller /\ AllLatched(c) /\ atn(m) \in BOOLEAN
  BY DEF Latched, AllLatched, atn
<1>3. /\ Settles(c, d) /\ Latched(d) /\ (MULTITOUCH \in d.raw) = atn(m)
      /\ \A b \in Buttons : (b \in d.raw) = s5l_button_level(b, b \in on)
  BY <1>2, RefreshSettles
<1> HIDE DEF d
<1>4. Latched(ic)'
  BY <1>1, <1>3 DEF Latched, Asserts, AllLatched
<1>5. CascadeFresh'
  BY <1>1, <1>3 DEF CascadeFresh, Cascade, s5l_gpioic_group_irq, s5l_button_level, atn
<1> QED BY <1>1, <1>3, <1>4, <1>5 DEF Wires

LEMMA AccessWires ==
  ASSUME NEW c, Latched(c), Accesses(c), UNCHANGED held
  PROVE  Wires' /\ Settles(c, ic') /\ UNCHANGED mtz2
<1>1. Ticked(TRUE, held, c, mtz2) /\ mtz2' = mtz2
  BY DEF Accesses
<1> QED BY <1>1, TickWires

---------------------------------------------------------------------------
(* The board and the drivers on it.                                         *)

Board == Wires /\ Handling /\ Armed /\ Told

(* Order gives every line one place. *)
LEMMA OnePlace ==
  /\ Len(Order) \in Nat /\ DOMAIN Order = 1 .. Len(Order)
  /\ \A i \in DOMAIN Order : Order[i] \in Lines
  /\ \A i, j \in DOMAIN Order : Order[i] = Order[j] => i = j
<1> DEFINE n == Cardinality(Lines)
<1>1. IsFiniteSet(Lines) /\ n \in Nat
  <2>1. IsFiniteSet(Buttons) /\ IsFiniteSet({MULTITOUCH})
    BY InputBoardAssumption, FS_Singleton
  <2> QED BY <2>1, FS_Union, FS_CardinalityType DEF Lines
<1>2. IsFiniteSet(1 .. n) /\ Cardinality(1 .. n) = n
  BY <1>1, FS_Interval
<1> HIDE DEF n
<1>3. Order \in [1 .. n -> Lines] /\ \A line \in Lines : \E i \in DOMAIN Order : Order[i] = line
  BY GuestInputAssumption DEF n
<1>4. Order \in Surjection(1 .. n, Lines)
  BY <1>3 DEF Surjection
<1>5. Order \in Injection(1 .. n, Lines)
  BY <1>1, <1>2, <1>4, FS_SurjSameCardinalityImpliesInj DEF n
<1>6. Order \in Seq(Lines) /\ Len(Order) = n
  BY <1>1, <1>3
<1>7. \A i, j \in 1 .. n : Order[i] = Order[j] => i = j
  BY <1>5 DEF Injection, IsInjective
<1>8. DOMAIN Order = 1 .. n /\ \A i \in 1 .. n : Order[i] \in Lines
  BY <1>3
<1> QED BY <1>1, <1>6, <1>7, <1>8

LEMMA BoardInitial == InputInit => Board
<1> SUFFICES ASSUME InputInit PROVE Board
  OBVIOUS
<1> DEFINE c == s5l_gpioic_reset
           d == s5l_buttons_apply({}, c)
<1>1. /\ c \in Controller /\ c.raw = {} /\ c.driven = {} /\ c.type = {} /\ c.en = {}
      /\ c.level = {} /\ c.stat = {}
  BY DEF s5l_gpioic_reset, Controller
<1>2. AllLatched(c)
  BY <1>1 DEF AllLatched
<1> HIDE DEF c
<1>3. Through(c, d, Buttons, {})
  BY <1>1, ApplySettles
<1>4. ic = d /\ held = {} /\ vic = {} /\ shadow = {} /\ mtz2.frame = NoFrame
  BY DEF InputInit, c
<1> HIDE DEF d
<1>5. Latched(ic) /\ ic.en = {}
  BY <1>1, <1>2, <1>3, <1>4 DEF Latched, Through, Settles, AllLatched
<1>6. CascadeFresh
  <2>1. \A g \in Groups : ~ s5l_gpioic_group_irq(ic, g)
    BY <1>5 DEF s5l_gpioic_group_irq
  <2>2. vic = Cascade(ic)
    BY <1>4, <2>1 DEF Cascade
  <2>3. (MULTITOUCH \in ic.raw) = FALSE
    BY <1>1, <1>3, <1>4, Wiring DEF Through
  <2>4. \A b \in Buttons : (b \in ic.raw) = s5l_button_level(b, b \in {})
    BY <1>3, <1>4 DEF Through, s5l_button_level
  <2> QED BY <1>4, <2>2, <2>3, <2>4 DEF CascadeFresh, atn
<1>7. /\ driver = [irq |-> [at |-> "off"], setup |-> 0, timer |-> FALSE,
                   sample |-> {}, work |-> FALSE, resets |-> 0]
  BY DEF InputInit
<1>8. 0 \in 0 .. Drivers
  BY OnePlace DEF Drivers
<1>9. [at |-> "off"] \in Irq
  BY DEF Irq
<1>10. Handling
  BY <1>7, <1>8, <1>9 DEF Handling
<1>11. Armed /\ Told
  <2>1. \A i \in DOMAIN Order : ~ (4 * (i - 1) < driver.setup)
    BY <1>7, OnePlace
  <2> QED BY <1>4, <1>5, <2>1 DEF Armed, Told
<1> QED BY <1>5, <1>6, <1>10, <1>11 DEF Board, Wires

(* The parts of a driver record that stay. *)
SameDriver ==
  /\ driver'.irq = driver.irq /\ driver'.setup = driver.setup
  /\ driver'.timer = driver.timer /\ driver'.sample = driver.sample
  /\ driver'.work \in BOOLEAN /\ driver'.resets \in Nat
  /\ driver' = [irq |-> driver.irq, setup |-> driver.setup, timer |-> driver.timer,
                sample |-> driver.sample, work |-> driver'.work, resets |-> driver'.resets]

LEMMA DriverStays ==
  ASSUME Board
  PROVE  /\ UNCHANGED driver => SameDriver
         /\ \A w \in BOOLEAN : driver' = [driver EXCEPT !.work = w] => SameDriver
         /\ driver' = [driver EXCEPT !.resets = @ + 1] => SameDriver
BY DEF Board, Handling, SameDriver

(* A tick that moves no switch. *)
LEMMA BoardKept ==
  ASSUME Board, Wires', Settles(ic, ic'), UNCHANGED <<held, shadow>>, SameDriver
  PROVE  Board'
<1>1. Handling'
  BY DEF Board, Handling, SameDriver, Settles
<1>2. Armed'
  BY DEF Board, Armed, SameDriver, Settles
<1>3. Told'
  BY DEF Board, Told, SameDriver, Settles
<1> QED BY <1>1, <1>2, <1>3 DEF Board

(* Nothing on the board moves. *)
LEMMA BoardSame ==
  ASSUME Board, UNCHANGED <<board, driver, shadow>>
  PROVE  Board'
BY DEF Board, Wires, Latched, Asserts, CascadeFresh, Cascade, s5l_gpioic_group_irq, s5l_button_level,
       atn, Handling, Armed, Told, board

LEMMA BoardFacts ==
  ASSUME Board
  PROVE  /\ Latched(ic) /\ ic \in Controller
         /\ driver.irq \in Irq /\ driver.setup \in Nat /\ driver.timer \in BOOLEAN
         /\ driver.irq.at \in {"off", "read", "flip", "ack"}
         /\ driver.irq.at # "off" => driver.irq.group \in Groups
         /\ driver.irq.at \in {"flip", "ack"} =>
              /\ driver.irq.line \in Lines
              /\ driver.irq.line \in InGroup(driver.irq.group)
BY DEF Board, Wires, Latched, Handling, Irq, InGroup

LEMMA TouchDrainBoard == ASSUME Board, drainOneTouch PROVE Board'
<1>1. CASE tq # <<>> /\ Accepts(mtz2)
  <2>1. Ticked(TRUE, held, ic, mtz2') /\ UNCHANGED <<held, driver, shadow>>
    BY <1>1 DEF drainOneTouch, guestside
  <2>2. Wires' /\ Settles(ic, ic')
    BY <2>1, BoardFacts, TickWires
  <2> QED BY <2>1, <2>2, DriverStays, BoardKept
<1>2. CASE ~ (tq # <<>> /\ Accepts(mtz2))
  BY <1>2, BoardSame DEF drainOneTouch, guestside, board
<1> QED BY <1>1, <1>2

(* A transition is made only of an armed switch with nothing pending, and it
   leaves its line latched.                                                *)
LEMMA ButtonDrainBoard ==
  ASSUME Board, Queued, drainOneButton
  PROVE  Board'
<1>1. CASE bq = <<>> \/ Refuses(held, ic, Head(bq).which, Head(bq).pressed)
  BY <1>1, BoardSame DEF drainOneButton, guestside, board
<1>2. CASE ~ (bq = <<>> \/ Refuses(held, ic, Head(bq).which, Head(bq).pressed))
  <2> DEFINE e == Head(bq)
             b == e.which
             line == s5l_gpioic_set_line(ic, b, s5l_button_level(b, e.pressed))
             c == IF held' = held THEN ic ELSE line
  <2>1. /\ held' = Switched(held, b, e.pressed)
        /\ Ticked(TRUE, held', c, mtz2) /\ mtz2' = mtz2
        /\ UNCHANGED <<driver, shadow>>
    BY <1>2 DEF drainOneButton, guestside
  <2>2. b \in Buttons /\ e.pressed \in BOOLEAN
    <3>1. bq \in Seq([which : Buttons, pressed : BOOLEAN]) /\ bq # <<>>
      BY <1>2 DEF Queued
    <3>2. e \in [which : Buttons, pressed : BOOLEAN]
      BY <3>1, HeadTailProperties
    <3> HIDE DEF e
    <3> QED BY <3>2
  <2>3. ~ Refuses(held, ic, b, e.pressed)
    BY <1>2
  <2> HIDE DEF e
  <2>4. Latched(line) /\ Settles(ic, line)
    <3>1. b \in Lines /\ s5l_button_level(b, e.pressed) \in BOOLEAN
      BY <2>2, Wiring DEF s5l_button_level
    <3>2. AllLatched(ic) /\ ic \in Controller /\ Buttons \subseteq ic.driven
      BY BoardFacts DEF Latched, AllLatched
    <3> DEFINE high == s5l_button_level(b, e.pressed)
    <3>3. line = s5l_gpioic_set_line(ic, b, high)
      OBVIOUS
    <3> HIDE DEF high, line, b
    <3>4. /\ Settles(ic, line) /\ line.driven = ic.driven \cup {b} /\ AllLatched(line)
      BY <3>1, <3>2, <3>3, LineSettles DEF high
    <3> QED BY <3>2, <3>4 DEF Latched, AllLatched, Settles
  <2>5. Latched(c) /\ Settles(ic, c)
    BY <2>4, BoardFacts DEF Settles
  <2> HIDE DEF line, c
  <2>6. Wires' /\ Settles(c, ic')
    BY <2>1, <2>5, TickWires
  <2>7. Settles(ic, ic')
    BY <2>5, <2>6 DEF Settles
  <2>8. SameDriver
    BY <2>1, DriverStays
  <2>9. CASE held' = held
    BY <2>1, <2>6, <2>7, <2>8, <2>9, BoardKept
  <2>10. CASE held' # held
    <3>1. (b \in held) # e.pressed
      BY <2>1, <2>2, <2>10 DEF Switched, Board, Told
    <3>2. b \in ic.en /\ b \notin ic.stat
      BY <2>3, <3>1 DEF Refuses, s5l_gpioic_pending
    <3>3. b \in ic.type /\ b \in ic.driven
      BY <2>2, <3>2, BoardFacts DEF Board, Armed, Latched
    <3>4. ~ Asserts(ic, b)
      BY <3>2, <3>3, BoardFacts DEF Latched
    <3>5. held' \in SUBSET Buttons /\ (b \in held' <=> b \notin held)
          /\ \A x \in Buttons : x # b => (x \in held' <=> x \in held)
      BY <2>1, <2>2, <3>1 DEF Switched, Board, Told
    <3>6. (b \in ic.raw) = ((b \in held) # (b \in RestsHigh))
      BY <2>2 DEF Board, Wires, CascadeFresh, s5l_button_level
    <3>7. (b \in ic'.raw) = ((b \in held') # (b \in RestsHigh))
      BY <2>2, <2>6 DEF Wires, CascadeFresh, s5l_button_level
    <3>8. Asserts(ic', b)
      BY <2>7, <3>4, <3>5, <3>6, <3>7 DEF Asserts, Settles
    <3>9. b \in ic'.stat
      <4>1. Latched(ic')
        BY <2>6 DEF Wires, Latched, Asserts
      <4> QED BY <2>2, <2>7, <3>3, <3>8, <4>1 DEF Latched, Settles
    <3>10. ~ (driver.irq.at = "ack" /\ driver.irq.line = b)
      BY <3>2 DEF Board, Handling
    <3>11. Told'
      BY <2>1, <2>2, <2>7, <2>8, <3>2, <3>5, <3>9, <3>10 DEF Board, Told, SameDriver, Settles
    <3>12. Handling' /\ Armed'
      BY <2>7, <2>8 DEF Board, Handling, Armed, SameDriver, Settles
    <3> QED BY <2>6, <3>11, <3>12 DEF Board
  <2> QED BY <2>9, <2>10
<1> QED BY <1>1, <1>2

LEMMA TimebaseBoard == ASSUME Board, TimebaseEdge PROVE Board'
<1>1. Ticked(TRUE, held, ic, mtz2) /\ UNCHANGED <<held, mtz2, driver, shadow>>
  BY DEF TimebaseEdge, Ticked, guestside, Unmoved
<1>2. Wires' /\ Settles(ic, ic')
  BY <1>1, BoardFacts, TickWires
<1> QED BY <1>1, <1>2, DriverStays, BoardKept

(* Bringing the part up, resetting it, reading its frame. *)
LEMMA MovesBoard ==
  ASSUME Board, NEW m, Moves(m), UNCHANGED shadow, SameDriver
  PROVE  Board'
<1>1. mtz2' = m /\ Ticked(TRUE, held, ic, m) /\ UNCHANGED held
  BY DEF Moves, Unmoved
<1>2. Wires' /\ Settles(ic, ic')
  BY <1>1, BoardFacts, TickWires
<1> QED BY <1>1, <1>2, BoardKept

LEMMA PartBoard ==
  ASSUME Board, BringUpPart \/ ResetPart \/ ReadFrame
  PROVE  Board'
<1>1. CASE BringUpPart
  <2>1. UNCHANGED <<driver, shadow>> /\ \E m : Moves(m)
    BY <1>1 DEF BringUpPart, guestside
  <2> QED BY <2>1, MovesBoard, DriverStays
<1>2. CASE ResetPart
  BY <1>2, MovesBoard, DriverStays DEF ResetPart
<1>3. CASE ReadFrame
  BY <1>3, MovesBoard, DriverStays DEF ReadFrame
<1> QED BY <1>1, <1>2, <1>3

(* The interrupt handler.                                                   *)
LEMMA TakeIrqBoard == ASSUME Board, TakeIrq PROVE Board'
<1>1. PICK g \in vic : driver' = [driver EXCEPT !.irq = [at |-> "read", group |-> g]]
  BY DEF TakeIrq
<1>2. UNCHANGED <<held, ic, mtz2, vic, seen, shadow>> /\ driver.irq.at = "off"
  BY DEF TakeIrq, Unmoved, InThread
<1>3. g \in Groups
  BY DEF Board, Wires, CascadeFresh, Cascade
<1>4. [at |-> "read", group |-> g] \in Irq
  BY <1>3 DEF Irq
<1>5. /\ driver' \in [irq : Irq, setup : 0 .. Drivers, timer : BOOLEAN,
                      sample : SUBSET Buttons, work : BOOLEAN, resets : Nat]
      /\ driver'.irq.at = "read" /\ driver'.setup = driver.setup
      /\ driver'.timer = driver.timer /\ driver'.sample = driver.sample
  BY <1>1, <1>4 DEF Board, Handling
<1>6. Wires'
  BY <1>2 DEF Board, Wires, Latched, Asserts, CascadeFresh, Cascade, s5l_gpioic_group_irq,
              s5l_button_level, atn
<1> QED BY <1>2, <1>5, <1>6 DEF Board, Handling, Armed, Told

LEMMA ReadStatBoard == ASSUME Board, ReadStat PROVE Board'
<1> DEFINE g == driver.irq.group
           pending == ic.stat \cap InGroup(g)
<1>1. /\ driver.irq.at = "read" /\ Accesses(ic) /\ UNCHANGED <<held, shadow>>
  BY DEF ReadStat, Unmoved
<1>2. Wires' /\ Settles(ic, ic')
  BY <1>1, BoardFacts, AccessWires
<1>3. g \in Groups
  BY <1>1, BoardFacts
<1>4. \/ driver' = [driver EXCEPT !.irq = [at |-> "off"]]
      \/ \E line \in pending :
           driver' = [driver EXCEPT !.irq = [at |-> IF AutoFlips(line) THEN "flip" ELSE "ack",
                                             group |-> g, line |-> line]]
  BY DEF ReadStat
<1>5. CASE driver' = [driver EXCEPT !.irq = [at |-> "off"]]
  <2>1. [at |-> "off"] \in Irq
    BY DEF Irq
  <2>2. /\ driver' \in [irq : Irq, setup : 0 .. Drivers, timer : BOOLEAN,
                        sample : SUBSET Buttons, work : BOOLEAN, resets : Nat]
        /\ driver'.irq.at = "off" /\ driver'.setup = driver.setup
        /\ driver'.timer = driver.timer /\ driver'.sample = driver.sample
    BY <1>5, <2>1 DEF Board, Handling
  <2> QED BY <1>1, <1>2, <2>2 DEF Board, Handling, Armed, Told, Settles
<1>6. CASE \E line \in pending :
             driver' = [driver EXCEPT !.irq = [at |-> IF AutoFlips(line) THEN "flip" ELSE "ack",
                                               group |-> g, line |-> line]]
  <2>1. PICK line \in pending :
          driver' = [driver EXCEPT !.irq = [at |-> IF AutoFlips(line) THEN "flip" ELSE "ack",
                                            group |-> g, line |-> line]]
    BY <1>6
  <2> DEFINE where == IF AutoFlips(line) THEN "flip" ELSE "ack"
             irq == [at |-> where, group |-> g, line |-> line]
  <2>2. line \in ic.stat /\ line \in Lines /\ Group(line) = g
    BY DEF InGroup
  <2>3. where \in {"flip", "ack"}
    OBVIOUS
  <2>4. driver' = [driver EXCEPT !.irq = irq]
    BY <2>1
  <2>5. irq \in Irq /\ irq.at = where /\ irq.group = g /\ irq.line = line
    BY <1>3, <2>2, <2>3 DEF Irq
  <2> HIDE DEF irq, where
  <2>6. /\ driver' \in [irq : Irq, setup : 0 .. Drivers, timer : BOOLEAN,
                        sample : SUBSET Buttons, work : BOOLEAN, resets : Nat]
        /\ driver'.irq = irq /\ driver'.setup = driver.setup
        /\ driver'.timer = driver.timer /\ driver'.sample = driver.sample
    BY <2>4, <2>5 DEF Board, Handling
  <2>7. Handling'
    BY <1>2, <2>2, <2>5, <2>6 DEF Handling, Settles
  <2>8. Armed'
    BY <1>2, <2>6 DEF Board, Armed, Settles
  <2>9. ASSUME NEW b \in Buttons \cap ic.en PROVE ~ (irq.at = "ack" /\ irq.line = b)
    <3> SUFFICES ASSUME b = line PROVE where = "flip"
      BY <2>5
    <3>1. PICK i \in DOMAIN Order : Order[i] = b /\ 4 * i <= driver.setup
      BY DEF Board, Armed
    <3>2. driver.setup > 4 * (i - 1)
      BY <3>1, OnePlace, BoardFacts
    <3>3. AutoFlips(line)
      BY <3>1, <3>2 DEF AutoFlips
    <3> QED BY <3>3 DEF where
  <2>10. Told'
    BY <1>1, <1>2, <2>6, <2>9 DEF Board, Told, Settles
  <2> QED BY <1>2, <2>7, <2>8, <2>10 DEF Board
<1> QED BY <1>4, <1>5, <1>6

LEMMA FlipBoard == ASSUME Board, Flip PROVE Board'
<1> DEFINE g == driver.irq.group
           line == driver.irq.line
           c == INTLEVEL(ic, g, Flipped(line))
<1>1. /\ driver.irq.at = "flip" /\ Accesses(c) /\ UNCHANGED <<held, shadow>>
      /\ driver' = [driver EXCEPT !.irq.at = "ack", !.timer = TRUE]
  BY DEF Flip, Unmoved
<1>2. /\ g \in Groups /\ line \in Lines /\ line \in InGroup(g) /\ Group(line) = g
      /\ line \in ic.stat
  BY <1>1, BoardFacts DEF Board, Handling
<1>3. Flipped(line) \in SUBSET InGroup(g)
  BY <1>2 DEF Flipped
<1>4. /\ Latched(c) /\ c.type = ic.type /\ c.en = ic.en /\ ic.stat \subseteq c.stat
  BY <1>3, BoardFacts, LevelWritten
<1> HIDE DEF c
<1>5. Wires' /\ Settles(c, ic')
  BY <1>1, <1>4, AccessWires
<1>6. driver.irq \in [at : {"flip", "ack"}, group : Groups, line : Lines]
  BY <1>1, BoardFacts DEF Irq
<1> DEFINE irq == [driver.irq EXCEPT !.at = "ack"]
<1>7. irq \in Irq /\ irq.at = "ack" /\ irq.group = g /\ irq.line = line
  BY <1>6 DEF Irq
<1>8. driver' = [[driver EXCEPT !.irq = irq] EXCEPT !.timer = TRUE]
  BY <1>1 DEF Board, Handling
<1> HIDE DEF irq
<1>9. /\ driver' \in [irq : Irq, setup : 0 .. Drivers, timer : BOOLEAN,
                      sample : SUBSET Buttons, work : BOOLEAN, resets : Nat]
      /\ driver'.irq = irq /\ driver'.setup = driver.setup /\ driver'.timer = TRUE
  BY <1>7, <1>8 DEF Board, Handling
<1>10. Handling'
  BY <1>2, <1>4, <1>5, <1>7, <1>9 DEF Handling, Settles
<1>11. Armed' /\ Told'
  BY <1>1, <1>4, <1>5, <1>9 DEF Board, Armed, Told, Settles
<1> QED BY <1>5, <1>10, <1>11 DEF Board

LEMMA AcknowledgeBoard == ASSUME Board, Acknowledge PROVE Board'
<1> DEFINE g == driver.irq.group
           line == driver.irq.line
           c == INTSTAT(ic, g, {line})
           w == driver.work \/ line = MULTITOUCH
           irq == [at |-> "read", group |-> g]
<1>1. /\ driver.irq.at = "ack" /\ Accesses(c) /\ UNCHANGED <<held, shadow>>
      /\ driver' = [[driver EXCEPT !.irq = irq] EXCEPT !.work = w]
  BY DEF Acknowledge, Unmoved, Board, Handling
<1>2. /\ g \in Groups /\ line \in Lines /\ line \in InGroup(g)
  BY <1>1, BoardFacts
<1>3. {line} \in SUBSET InGroup(g)
  BY <1>2
<1>4. /\ Latched(c) /\ c.type = ic.type /\ c.en = ic.en /\ ic.stat \ {line} \subseteq c.stat
  BY <1>3, BoardFacts, StatWritten
<1> HIDE DEF c
<1>5. Wires' /\ Settles(c, ic')
  BY <1>1, <1>4, AccessWires
<1>6. irq \in Irq /\ irq.at = "read" /\ w \in BOOLEAN
  BY <1>2 DEF Irq, Board, Handling
<1> HIDE DEF irq, w
<1>7. /\ driver' \in [irq : Irq, setup : 0 .. Drivers, timer : BOOLEAN,
                      sample : SUBSET Buttons, work : BOOLEAN, resets : Nat]
      /\ driver'.irq = irq /\ driver'.setup = driver.setup
      /\ driver'.timer = driver.timer /\ driver'.sample = driver.sample
  BY <1>1, <1>6 DEF Board, Handling
<1>8. Handling' /\ Armed'
  BY <1>4, <1>5, <1>6, <1>7 DEF Board, Handling, Armed, Settles
<1>9. ASSUME NEW b \in Buttons \cap ic'.en, (b \in shadow') # (b \in held')
      PROVE  \/ driver'.timer
             \/ b \in driver'.sample
             \/ b \in ic'.stat /\ ~(driver'.irq.at = "ack" /\ driver'.irq.line = b)
  <2>1. b \in ic.en
    BY <1>4, <1>5, <1>9 DEF Settles
  <2>2. \/ driver.timer \/ b \in driver.sample
        \/ b \in ic.stat /\ b # line
    BY <1>1, <1>9, <2>1 DEF Board, Told
  <2>3. b \in ic.stat /\ b # line => b \in ic'.stat
    BY <1>4, <1>5 DEF Settles
  <2> QED BY <1>6, <1>7, <2>2, <2>3
<1>10. Told'
  BY <1>1, <1>4, <1>5, <1>9 DEF Board, Told, Settles
<1> QED BY <1>5, <1>8, <1>10 DEF Board

(* The debounce.                                                            *)
LEMMA TimerFiresBoard == ASSUME Board, TimerFires PROVE Board'
<1>1. /\ driver' = [[driver EXCEPT !.timer = FALSE] EXCEPT !.sample = Buttons]
      /\ UNCHANGED <<held, ic, mtz2, vic, seen, shadow>>
  BY DEF TimerFires, Unmoved, Board, Handling
<1>2. /\ driver' \in [irq : Irq, setup : 0 .. Drivers, timer : BOOLEAN,
                      sample : SUBSET Buttons, work : BOOLEAN, resets : Nat]
      /\ driver'.irq = driver.irq /\ driver'.setup = driver.setup
      /\ driver'.sample = Buttons
  BY <1>1 DEF Board, Handling
<1>3. Wires'
  BY <1>1 DEF Board, Wires, Latched, Asserts, CascadeFresh, Cascade, s5l_gpioic_group_irq,
              s5l_button_level, atn
<1> QED BY <1>1, <1>2, <1>3 DEF Board, Handling, Armed, Told

LEMMA SampleBoard ==
  ASSUME Board, NEW b \in Buttons, Sample(b)
  PROVE  Board'
<1> DEFINE down == (b \in ic.raw) # (b \in RestsHigh)
           left == driver.sample \ {b}
<1>1. /\ driver' = [driver EXCEPT !.sample = left]
      /\ shadow' = Switched(shadow, b, down)
      /\ Accesses(ic) /\ UNCHANGED held
  BY DEF Sample, Unmoved, Board, Handling
<1>2. Wires' /\ Settles(ic, ic')
  BY <1>1, BoardFacts, AccessWires
<1>3. down <=> b \in held
  BY DEF Board, Wires, CascadeFresh, s5l_button_level
<1>4. shadow \in SUBSET Buttons
  BY DEF Board, Told
<1>5. /\ shadow' \in SUBSET Buttons /\ (b \in shadow' <=> b \in held)
      /\ \A x \in Buttons : x # b => (x \in shadow' <=> x \in shadow)
  BY <1>1, <1>3, <1>4 DEF Switched
<1> HIDE DEF down
<1>6. /\ driver' \in [irq : Irq, setup : 0 .. Drivers, timer : BOOLEAN,
                      sample : SUBSET Buttons, work : BOOLEAN, resets : Nat]
      /\ driver'.irq = driver.irq /\ driver'.setup = driver.setup
      /\ driver'.timer = driver.timer /\ driver'.sample = left
  BY <1>1 DEF Board, Handling
<1>7. Handling' /\ Armed'
  BY <1>2, <1>6 DEF Board, Handling, Armed, Settles
<1>8. Told'
  <2>1. \A x \in Buttons \ ic'.en : x \notin held' /\ x \notin shadow'
    BY <1>1, <1>2, <1>5 DEF Board, Told, Settles
  <2>2. ASSUME NEW x \in Buttons \cap ic'.en, (x \in shadow') # (x \in held')
        PROVE  \/ driver'.timer
               \/ x \in driver'.sample
               \/ x \in ic'.stat /\ ~(driver'.irq.at = "ack" /\ driver'.irq.line = x)
    <3>1. x # b /\ x \in ic.en /\ (x \in shadow) # (x \in held)
      BY <1>1, <1>2, <1>5, <2>2 DEF Settles
    <3> QED BY <1>2, <1>6, <3>1 DEF Board, Told, Settles
  <2> QED BY <1>1, <1>5, <2>1, <2>2 DEF Board, Told
<1> QED BY <1>2, <1>7, <1>8 DEF Board

(* The drivers come up: a write to one register is a step of setup.          *)
LEMMA Quarters ==
  ASSUME NEW n \in Nat
  PROVE  /\ n \div 4 \in Nat /\ n % 4 \in 0 .. 3
         /\ n = 4 * (n \div 4) + (n % 4)
OBVIOUS

LEMMA SetUpWrites ==
  ASSUME Board, SetUp, NEW c, Latched(c), Accesses(c),
         NEW k \in Nat, 1 + k \in DOMAIN Order,
         4 * k <= driver.setup, driver.setup <= 4 * k + 3,
         NEW line, line = Order[1 + k],
         ic.type \cap Buttons \subseteq c.type,
         line \in Buttons => line \in c.type,
         \/ c.en = ic.en /\ ic.stat \ {line} \subseteq c.stat /\ line \notin Buttons \cap ic.en
         \/ c.en = ic.en /\ ic.stat \subseteq c.stat
         \/ c.en = ic.en \cup {line} /\ ic.stat \subseteq c.stat /\ driver.setup = 4 * k + 3
  PROVE  Board'
<1>1. /\ driver.irq.at = "off" /\ driver.setup < Drivers
      /\ driver' = [driver EXCEPT !.setup = @ + 1] /\ UNCHANGED <<held, shadow>>
  BY DEF SetUp, InThread, Unmoved
<1>2. Wires' /\ Settles(c, ic')
  BY <1>1, AccessWires
<1>3. Drivers \in Nat
  BY OnePlace DEF Drivers
<1>4. /\ driver' \in [irq : Irq, setup : 0 .. Drivers, timer : BOOLEAN,
                      sample : SUBSET Buttons, work : BOOLEAN, resets : Nat]
      /\ driver'.irq = driver.irq /\ driver'.setup = driver.setup + 1
      /\ driver'.timer = driver.timer /\ driver'.sample = driver.sample
      /\ driver.setup \in Nat
  BY <1>1, <1>3 DEF Board, Handling
<1>5. Handling'
  BY <1>1, <1>4 DEF Handling
<1>6. Armed'
  <2>1. ASSUME NEW b \in Buttons \cap ic'.en
        PROVE  /\ b \in ic'.type
               /\ \E i \in DOMAIN Order : Order[i] = b /\ 4 * i <= driver'.setup
    <3>1. b \in c.en
      BY <1>2, <2>1 DEF Settles
    <3>2. CASE b \in ic.en
      <4>1. b \in ic.type
        BY <3>2 DEF Board, Armed
      <4>2. b \in ic'.type
        BY <1>2, <2>1, <4>1 DEF Settles
      <4>3. PICK i \in DOMAIN Order : Order[i] = b /\ 4 * i <= driver.setup
        BY <3>2 DEF Board, Armed
      <4>4. 4 * i <= driver'.setup
        BY <1>4, <4>3, OnePlace
      <4> QED BY <4>2, <4>3, <4>4
    <3>3. CASE b \notin ic.en
      <4>1. b = line /\ driver.setup = 4 * k + 3
        BY <3>1, <3>3
      <4>2. b \in ic'.type
        BY <1>2, <2>1, <4>1 DEF Settles
      <4>3. 4 * (1 + k) <= driver'.setup
        BY <1>4, <4>1
      <4> QED BY <4>1, <4>2, <4>3
    <3> QED BY <3>2, <3>3
  <2>2. ASSUME NEW i \in DOMAIN Order, Order[i] \in Buttons, 4 * (i - 1) < driver'.setup
        PROVE  Order[i] \in ic'.type
    <3>1. CASE i = 1 + k
      BY <1>2, <2>2, <3>1 DEF Settles
    <3>2. CASE i # 1 + k
      <4>1. i \in Nat /\ 4 * (i - 1) < 4 * k + 4
        BY <1>4, <2>2, OnePlace
      <4>2. 4 * (i - 1) < driver.setup
        BY <1>4, <3>2, <4>1
      <4>3. Order[i] \in ic.type
        BY <2>2, <4>2 DEF Board, Armed
      <4> QED BY <1>2, <2>2, <4>3 DEF Settles
    <3> QED BY <3>1, <3>2
  <2> QED BY <2>1, <2>2 DEF Armed
<1>7. Told'
  <2>1. ASSUME NEW x \in Buttons \ ic'.en PROVE x \notin held' /\ x \notin shadow'
    <3>1. x \notin ic.en
      BY <1>2, <2>1 DEF Settles
    <3> QED BY <1>1, <3>1 DEF Board, Told
  <2>2. ASSUME NEW x \in Buttons \cap ic'.en, (x \in shadow') # (x \in held')
        PROVE  \/ driver'.timer
               \/ x \in driver'.sample
               \/ x \in ic'.stat /\ ~(driver'.irq.at = "ack" /\ driver'.irq.line = x)
    <3>1. x \in ic.en
      BY <1>1, <2>2 DEF Board, Told
    <3>2. driver.timer \/ x \in driver.sample \/ x \in ic.stat
      BY <1>1, <2>2, <3>1 DEF Board, Told
    <3>3. x \in ic.stat => x \in ic'.stat
      <4>1. x \in ic.stat => x \in c.stat
        BY <2>2, <3>1
      <4> QED BY <1>2, <4>1 DEF Settles
    <3> QED BY <1>1, <1>4, <3>2, <3>3
  <2> QED BY <1>1, <2>1, <2>2 DEF Board, Told
<1> QED BY <1>2, <1>5, <1>6, <1>7 DEF Board

(* What one step of setup writes, by its register. *)
LEMMA SetUpAccess ==
  ASSUME SetUp, NEW k, k = driver.setup \div 4, NEW line, line = Order[1 + k],
         NEW r, r = driver.setup % 4
  PROVE  /\ r = 0 => Accesses(INTTYPE(ic, Group(line), Word(ic.type, line, line \in Buttons)))
         /\ r = 1 => Accesses(INTLEVEL(ic, Group(line),
                        Word(ic.level, line, line \in Buttons /\ line \notin RestsHigh)))
         /\ r = 2 => Accesses(INTSTAT(ic, Group(line), {line}))
         /\ r = 3 => Accesses(INTEN(ic, Group(line), Word(ic.en, line, TRUE)))
<1> DEFINE A0 == Accesses(INTTYPE(ic, Group(line), Word(ic.type, line, line \in Buttons)))
           A1 == Accesses(INTLEVEL(ic, Group(line),
                        Word(ic.level, line, line \in Buttons /\ line \notin RestsHigh)))
           A2 == Accesses(INTSTAT(ic, Group(line), {line}))
           A3 == Accesses(INTEN(ic, Group(line), Word(ic.en, line, TRUE)))
<1>1. (r = 0 /\ A0) \/ (r = 1 /\ A1) \/ (r = 2 /\ A2) \/ (r = 3 /\ A3)
  BY Zenon DEF SetUp
<1> HIDE DEF A0, A1, A2, A3
<1>2. (r = 0 => A0) /\ (r = 1 => A1) /\ (r = 2 => A2) /\ (r = 3 => A3)
  BY <1>1
<1> QED BY <1>2 DEF A0, A1, A2, A3

LEMMA SetUpBoard == ASSUME Board, SetUp PROVE Board'
<1>1. driver.setup \in Nat /\ driver.setup < 4 * Len(Order) /\ Len(Order) \in Nat
  BY BoardFacts, OnePlace DEF SetUp, Drivers
<1>2. PICK k : k = driver.setup \div 4
  OBVIOUS
<1>3. PICK r : r = driver.setup % 4
  OBVIOUS
<1>4. k \in Nat /\ r \in 0 .. 3 /\ driver.setup = 4 * k + r
  BY <1>1, <1>2, <1>3, Quarters
<1>5. k < Len(Order)
  BY <1>1, <1>4
<1>6. 1 + k \in DOMAIN Order
  BY <1>1, <1>4, <1>5, OnePlace
<1>7. PICK line : line = Order[1 + k]
  OBVIOUS
<1>8. line \in Lines
  BY <1>6, <1>7, OnePlace
<1>9. PICK g : g = Group(line)
  OBVIOUS
<1>10. g \in Groups /\ line \in InGroup(g)
  BY <1>8, <1>9, Wiring
<1>11. 4 * k <= driver.setup /\ driver.setup <= 4 * k + 3
  BY <1>4
<1>12. ASSUME r # 3 PROVE line \notin Buttons \cap ic.en
  <2> SUFFICES ASSUME line \in Buttons \cap ic.en PROVE FALSE
    OBVIOUS
  <2>1. PICK i \in DOMAIN Order : Order[i] = line /\ 4 * i <= driver.setup
    BY DEF Board, Armed
  <2>2. i = 1 + k
    BY <1>6, <1>7, <2>1, OnePlace
  <2> QED BY <1>4, <1>12, <2>1, <2>2
<1>13. ASSUME r # 0, line \in Buttons PROVE line \in ic.type
  <2>1. 4 * ((1 + k) - 1) < driver.setup
    BY <1>4, <1>13
  <2> QED BY <1>6, <1>7, <1>13, <2>1 DEF Board, Armed
<1>14. /\ ic.type \in SUBSET Lines /\ ic.level \in SUBSET Lines /\ ic.en \in SUBSET Lines
       /\ Latched(ic)
  BY BoardFacts DEF Controller
<1>15. CASE r = 0
  <2>1. PICK w : w = Word(ic.type, line, line \in Buttons)
    OBVIOUS
  <2>2. PICK c : c = INTTYPE(ic, g, w)
    OBVIOUS
  <2> DEFINE switch == line \in Buttons
  <2>3. /\ w \in SUBSET InGroup(g)
        /\ (ic.type \ InGroup(g)) \cup w
             = IF line \in Buttons THEN ic.type \cup {line} ELSE ic.type \ {line}
    <3>1. switch \in BOOLEAN /\ w = Word(ic.type, line, switch)
      BY <2>1
    <3>2. (switch => line \in Buttons) /\ (line \in Buttons => switch)
      OBVIOUS
    <3> HIDE DEF switch
    <3> QED BY <1>8, <1>9, <1>14, <3>1, <3>2, WordWritten
  <2>4. Accesses(c)
    BY <1>2, <1>3, <1>7, <1>9, <1>15, <2>1, <2>2, SetUpAccess
  <2>5. /\ Latched(c) /\ c.en = ic.en /\ ic.stat \subseteq c.stat
        /\ c.type = (ic.type \ InGroup(g)) \cup w
    BY <1>14, <2>2, <2>3, TypeWritten
  <2>6. ic.type \cap Buttons \subseteq c.type /\ (line \in Buttons => line \in c.type)
    BY <2>3, <2>5
  <2> QED BY <1>4, <1>6, <1>7, <1>11, <2>4, <2>5, <2>6, SetUpWrites
<1>16. CASE r = 1
  <2>1. PICK w : w = Word(ic.level, line, line \in Buttons /\ line \notin RestsHigh)
    OBVIOUS
  <2>2. PICK c : c = INTLEVEL(ic, g, w)
    OBVIOUS
  <2> DEFINE rises == line \in Buttons /\ line \notin RestsHigh
  <2>3. w \in SUBSET InGroup(g)
    <3>1. rises \in BOOLEAN /\ w = Word(ic.level, line, rises)
      BY <2>1
    <3> HIDE DEF rises
    <3> QED BY <1>8, <1>9, <1>14, <3>1, WordWritten
  <2>4. Accesses(c)
    BY <1>2, <1>3, <1>7, <1>9, <1>16, <2>1, <2>2, SetUpAccess
  <2>5. /\ Latched(c) /\ c.en = ic.en /\ ic.stat \subseteq c.stat /\ c.type = ic.type
    BY <1>14, <2>2, <2>3, LevelWritten
  <2>6. ic.type \cap Buttons \subseteq c.type /\ (line \in Buttons => line \in c.type)
    BY <1>13, <1>16, <2>5
  <2> QED BY <1>4, <1>6, <1>7, <1>11, <2>4, <2>5, <2>6, SetUpWrites
<1>17. CASE r = 2
  <2>1. PICK c : c = INTSTAT(ic, g, {line})
    OBVIOUS
  <2>2. {line} \in SUBSET InGroup(g)
    BY <1>10
  <2>3. Accesses(c)
    BY <1>2, <1>3, <1>7, <1>9, <1>17, <2>1, SetUpAccess
  <2>4. /\ Latched(c) /\ c.en = ic.en /\ ic.stat \ {line} \subseteq c.stat /\ c.type = ic.type
    BY <1>14, <2>1, <2>2, StatWritten
  <2>5. ic.type \cap Buttons \subseteq c.type /\ (line \in Buttons => line \in c.type)
    BY <1>13, <1>17, <2>4
  <2>6. line \notin Buttons \cap ic.en
    BY <1>12, <1>17
  <2> QED BY <1>4, <1>6, <1>7, <1>11, <2>3, <2>4, <2>5, <2>6, SetUpWrites
<1>18. CASE r = 3
  <2>1. PICK w : w = Word(ic.en, line, TRUE)
    OBVIOUS
  <2>2. PICK c : c = INTEN(ic, g, w)
    OBVIOUS
  <2>3. w \in SUBSET InGroup(g) /\ (ic.en \ InGroup(g)) \cup w = ic.en \cup {line}
    BY <1>8, <1>9, <1>14, <2>1, WordWritten
  <2>4. Accesses(c)
    BY <1>2, <1>3, <1>7, <1>9, <1>18, <2>1, <2>2, SetUpAccess
  <2>5. /\ Latched(c) /\ c.en = ic.en \cup {line} /\ c.stat = ic.stat /\ c.type = ic.type
    BY <1>14, <2>2, <2>3, EnableWritten
  <2>6. ic.type \cap Buttons \subseteq c.type /\ (line \in Buttons => line \in c.type)
    BY <1>13, <1>18, <2>5
  <2>7. driver.setup = 4 * k + 3 /\ ic.stat \subseteq c.stat
    BY <1>4, <1>18, <2>5
  <2> QED BY <1>4, <1>6, <1>7, <1>11, <2>4, <2>5, <2>6, <2>7, SetUpWrites
<1> QED BY <1>4, <1>15, <1>16, <1>17, <1>18
LEMMA BoardStep == ASSUME Board, Queued, [InputNext]_inputVars PROVE Board'
<1>1. CASE \/ \E b \in Buttons : setButton(b)
           \/ \E phase \in {"MAKE_TOUCH", "TOUCHING", "BREAK_TOUCH"} : sendTouch(phase)
           \/ setPaused \/ PopTouch \/ PopButton \/ ChunkEnds
           \/ UNCHANGED inputVars
  <2>1. UNCHANGED <<board, driver, shadow>>
    BY <1>1 DEF setButton, sendTouch, setPaused, PopTouch, PopButton, ChunkEnds, inputVars,
                guestside, board
  <2> QED BY <2>1, BoardSame
<1>2. CASE drainOneTouch \/ drainOneButton \/ TimebaseEdge
  BY <1>2, TouchDrainBoard, ButtonDrainBoard, TimebaseBoard
<1>3. CASE Handler
  BY <1>3, TakeIrqBoard, ReadStatBoard, FlipBoard, AcknowledgeBoard DEF Handler
<1>4. CASE SetUp \/ BringUpPart \/ ResetPart \/ ReadFrame \/ TimerFires
  BY <1>4, SetUpBoard, PartBoard, TimerFiresBoard
<1>5. CASE \E b \in Buttons : Sample(b)
  BY <1>5, SampleBoard
<1> QED BY <1>1, <1>2, <1>3, <1>4, <1>5 DEF InputNext

---------------------------------------------------------------------------
(* The transitions of the keys.                                             *)

Transition == [which : Buttons, pressed : BOOLEAN]

LEMMA QueuedInitial == InputInit => Queued
<1> SUFFICES ASSUME InputInit PROVE Queued
  OBVIOUS
<1>1. bq = <<>> /\ keys = {} /\ wanted = {} /\ held = {} /\ at = "top"
  BY DEF InputInit
<1>2. Len(bq) <= VM_BUTTON_QUEUE_CAP
  BY <1>1, GuestInputAssumption
<1> QED BY <1>1, <1>2 DEF Queued, Ahead

LEMMA QueuedSame ==
  ASSUME Queued, UNCHANGED <<bq, keys, wanted, held>>,
         at' = "button_pop" <=> at = "button_pop"
  PROVE  Queued'
BY DEF Queued, Ahead

(* A press or a release joins the queue's tail, whatever the drain is doing. *)
LEMMA SetButtonQueued ==
  ASSUME Queued, NEW b \in Buttons, setButton(b)
  PROVE  Queued'
<1> DEFINE down == b \notin keys
           e == [which |-> b, pressed |-> down]
<1>0. PICK n : n = Len(bq)
  OBVIOUS
<1>1. /\ UNCHANGED <<held, at>> /\ keys' = Switched(keys, b, down)
      /\ bq' = BPushed(bq, e)
      /\ wanted' = IF n = VM_BUTTON_QUEUE_CAP THEN wanted
                   ELSE Switched(wanted, b, down)
  BY <1>0 DEF setButton, board
<1>2. /\ bq \in Seq(Transition) /\ n <= VM_BUTTON_QUEUE_CAP /\ VM_BUTTON_QUEUE_CAP \in Nat
      /\ n \in Nat /\ keys \in SUBSET Buttons /\ wanted \in SUBSET Buttons
      /\ e \in Transition
  BY <1>0, GuestInputAssumption DEF Queued, Transition
<1>3. /\ keys' \in SUBSET Buttons
      /\ Switched(wanted, b, down) \in SUBSET Buttons
      /\ b \in Switched(wanted, b, down) <=> down
      /\ \A x \in Buttons : x # b => (x \in Switched(wanted, b, down) <=> x \in wanted)
  BY <1>1, <1>2 DEF Switched
<1>4. CASE n = VM_BUTTON_QUEUE_CAP
  <2>1. bq' = bq /\ wanted' = wanted
    BY <1>0, <1>1, <1>2, <1>4 DEF BPushed
  <2> QED BY <1>1, <1>3, <2>1 DEF Queued, Ahead
<1>5. CASE n # VM_BUTTON_QUEUE_CAP
  <2>1. n < VM_BUTTON_QUEUE_CAP
    BY <1>2, <1>5
  <2>2. bq' = Append(bq, e) /\ wanted' = Switched(wanted, b, down)
    BY <1>0, <1>1, <1>5, <2>1 DEF BPushed
  <2>3. e.which = b /\ (e.pressed <=> down)
    OBVIOUS
  <2> HIDE DEF e
  <2>4. /\ bq' \in Seq(Transition) /\ Len(bq') = n + 1 /\ bq'[n + 1] = e
        /\ DOMAIN bq' = 1 .. n + 1 /\ DOMAIN bq = 1 .. n
        /\ \A i \in 1 .. n : bq'[i] = bq[i]
    BY <1>0, <1>2, <2>2
  <2>5. Len(bq') <= VM_BUTTON_QUEUE_CAP
    BY <1>2, <2>1, <2>4
  <2>6. at' = "button_pop" => bq # <<>>
    BY <1>1 DEF Queued
  <2>7. /\ bq # <<>> => n > 0
        /\ \A i \in 1 .. n : bq[i] \in Transition
    BY <1>0, <1>2
  <2>8. /\ \A i \in 1 .. n : Ahead(i)' <=> Ahead(i)
        /\ Ahead(n + 1)'
    <3>1. ASSUME NEW i \in 1 .. n PROVE Ahead(i)' <=> Ahead(i)
      <4>1. i \in DOMAIN bq /\ i \in DOMAIN bq'
        BY <1>2, <2>4
      <4> QED BY <1>1, <4>1 DEF Ahead
    <3>2. n + 1 \in DOMAIN bq' /\ (at' = "button_pop" => n + 1 > 1)
      BY <1>2, <2>4, <2>6, <2>7
    <3> QED BY <3>1, <3>2 DEF Ahead
  <2>9. ASSUME NEW x \in Buttons, \A i \in DOMAIN bq' : Ahead(i)' => bq'[i].which # x
        PROVE  x \in wanted' <=> x \in held'
    <3>1. x # b
      <4>1. n + 1 \in DOMAIN bq'
        BY <1>2, <2>4
      <4> QED BY <2>3, <2>4, <2>8, <2>9, <4>1
    <3>2. \A i \in DOMAIN bq : Ahead(i) => bq[i].which # x
      BY <1>2, <2>4, <2>8, <2>9
    <3> QED BY <1>1, <1>3, <2>2, <3>1, <3>2 DEF Queued
  <2>10. ASSUME NEW i \in DOMAIN bq', Ahead(i)',
                \A j \in DOMAIN bq' : j > i => bq'[j].which # bq'[i].which
         PROVE  bq'[i].which \in wanted' <=> bq'[i].pressed
    <3>1. CASE i = n + 1
      BY <1>3, <2>2, <2>3, <2>4, <3>1
    <3>2. CASE i # n + 1
      <4>1. i \in 1 .. n /\ Ahead(i) /\ bq'[i] = bq[i]
        BY <1>2, <2>4, <2>8, <2>10, <3>2
      <4>2. n + 1 > i /\ n + 1 \in DOMAIN bq'
        BY <1>2, <2>4, <4>1
      <4>3. bq[i].which # b
        BY <2>3, <2>4, <2>10, <4>1, <4>2
      <4>4. \A j \in DOMAIN bq : j > i => bq[j].which # bq[i].which
        BY <1>2, <2>4, <2>10, <4>1
      <4>5. bq[i].which \in Buttons
        BY <2>7, <4>1 DEF Transition
      <4>6. bq[i].which \in wanted <=> bq[i].pressed
        BY <2>4, <4>1, <4>4 DEF Queued
      <4> QED BY <1>3, <2>2, <4>1, <4>3, <4>5, <4>6
    <3> QED BY <3>1, <3>2
  <2> QED BY <1>1, <1>3, <2>2, <2>4, <2>5, <2>6, <2>9, <2>10 DEF Queued, Transition
<1> QED BY <1>4, <1>5

(* A drain makes the transition at the head, which stays until it is popped. *)
LEMMA DrainQueued == ASSUME Queued, Told, drainOneButton PROVE Queued'
<1>1. UNCHANGED <<bq, keys, wanted>> /\ at = "button"
  BY DEF drainOneButton, queues, hostside
<1>2. CASE bq = <<>> \/ Refuses(held, ic, Head(bq).which, Head(bq).pressed)
  <2>1. held' = held /\ at' = "chunk"
    BY <1>2 DEF drainOneButton
  <2> QED BY <1>1, <2>1, QueuedSame
<1>3. CASE ~ (bq = <<>> \/ Refuses(held, ic, Head(bq).which, Head(bq).pressed))
  <2>1. held' = Switched(held, Head(bq).which, Head(bq).pressed) /\ at' = "button_pop"
    BY <1>3 DEF drainOneButton
  <2>2. bq # <<>> /\ bq \in Seq(Transition)
    BY <1>3 DEF Queued, Transition
  <2>3. /\ Len(bq) \in Nat /\ Len(bq) > 0 /\ DOMAIN bq = 1 .. Len(bq) /\ Head(bq) = bq[1]
        /\ bq[1] \in Transition
    BY <2>2
  <2>4. bq[1].which \in Buttons /\ bq[1].pressed \in BOOLEAN
    BY <2>3 DEF Transition
  <2>5. /\ bq[1].which \in held' <=> bq[1].pressed
        /\ \A x \in Buttons : x # bq[1].which => (x \in held' <=> x \in held)
    BY <2>1, <2>3, <2>4 DEF Switched, Told
  <2>6. /\ \A i \in DOMAIN bq : Ahead(i)
        /\ \A i \in DOMAIN bq : Ahead(i)' <=> i > 1
    BY <1>1, <2>1 DEF Ahead
  <2>7. ASSUME NEW x \in Buttons, \A i \in DOMAIN bq' : Ahead(i)' => bq'[i].which # x
        PROVE  x \in wanted' <=> x \in held'
    <3>1. \A i \in DOMAIN bq : i > 1 => bq[i].which # x
      BY <1>1, <2>6, <2>7
    <3>2. CASE x = bq[1].which
      <4>1. 1 \in DOMAIN bq
        BY <2>3
      <4>2. bq[1].which \in wanted <=> bq[1].pressed
        BY <2>6, <3>1, <3>2, <4>1 DEF Queued
      <4> QED BY <1>1, <2>5, <3>2, <4>2
    <3>3. CASE x # bq[1].which
      <4>1. \A i \in DOMAIN bq : bq[i].which # x
        BY <2>3, <3>1, <3>3
      <4>2. x \in wanted <=> x \in held
        BY <4>1 DEF Queued
      <4> QED BY <1>1, <2>5, <3>3, <4>2
    <3> QED BY <3>2, <3>3
  <2>8. ASSUME NEW i \in DOMAIN bq', Ahead(i)',
               \A j \in DOMAIN bq' : j > i => bq'[j].which # bq'[i].which
        PROVE  bq'[i].which \in wanted' <=> bq'[i].pressed
    <3>1. i \in DOMAIN bq /\ Ahead(i) /\ \A j \in DOMAIN bq : j > i => bq[j].which # bq[i].which
      BY <1>1, <2>6, <2>8
    <3> QED BY <1>1, <3>1 DEF Queued
  <2> QED BY <1>1, <2>1, <2>2, <2>7, <2>8 DEF Queued
<1> QED BY <1>2, <1>3

LEMMA PopQueued == ASSUME Queued, PopButton PROVE Queued'
<1> DEFINE n == Len(bq)
<1>1. /\ UNCHANGED <<keys, wanted, held>> /\ bq' = Tail(bq)
      /\ at = "button_pop" /\ at' = "chunk"
  BY DEF PopButton, hostside, board
<1>2. bq # <<>> /\ bq \in Seq(Transition) /\ n \in Nat /\ n <= VM_BUTTON_QUEUE_CAP
  BY <1>1 DEF Queued, Transition
<1>3. /\ bq' \in Seq(Transition) /\ n > 0 /\ Len(bq') = n - 1
      /\ DOMAIN bq = 1 .. n /\ DOMAIN bq' = 1 .. n - 1
      /\ \A i \in 1 .. n - 1 : bq'[i] = bq[i + 1]
  BY <1>1, <1>2
<1>4. /\ \A i \in 1 .. n : Ahead(i) <=> i > 1
      /\ \A i \in 1 .. n - 1 : i + 1 \in 1 .. n /\ Ahead(i + 1)
  BY <1>1, <1>2, <1>3 DEF Ahead
<1>5. Len(bq') <= VM_BUTTON_QUEUE_CAP
  BY <1>2, <1>3, GuestInputAssumption
<1> HIDE DEF n
<1>6. ASSUME NEW x \in Buttons, \A i \in DOMAIN bq' : Ahead(i)' => bq'[i].which # x
      PROVE  x \in wanted' <=> x \in held'
  <2>1. \A i \in 1 .. n - 1 : bq[i + 1].which # x
    BY <1>1, <1>3, <1>6 DEF Ahead
  <2>2. ASSUME NEW i \in 1 .. n, i > 1 PROVE bq[i].which # x
    <3>1. i - 1 \in 1 .. n - 1 /\ (i - 1) + 1 = i
      BY <1>2, <2>2 DEF n
    <3> QED BY <2>1, <3>1
  <2>3. \A i \in DOMAIN bq : Ahead(i) => bq[i].which # x
    BY <1>3, <1>4, <2>2
  <2> QED BY <1>1, <2>3 DEF Queued
<1>7. ASSUME NEW i \in DOMAIN bq', Ahead(i)',
             \A j \in DOMAIN bq' : j > i => bq'[j].which # bq'[i].which
      PROVE  bq'[i].which \in wanted' <=> bq'[i].pressed
  <2>1. i \in 1 .. n - 1 /\ i + 1 \in DOMAIN bq /\ Ahead(i + 1) /\ bq'[i] = bq[i + 1]
    BY <1>3, <1>4, <1>7
  <2>2. ASSUME NEW j \in DOMAIN bq, j > i + 1 PROVE bq[j].which # bq[i + 1].which
    <3>1. j - 1 \in 1 .. n - 1 /\ (j - 1) + 1 = j /\ j - 1 > i
      BY <1>2, <1>3, <2>1, <2>2 DEF n
    <3>2. bq'[j - 1] = bq[j]
      BY <1>3, <3>1
    <3> QED BY <1>3, <1>7, <2>1, <3>1, <3>2
  <2>3. bq[i + 1].which \in wanted <=> bq[i + 1].pressed
    BY <2>1, <2>2 DEF Queued
  <2> QED BY <1>1, <2>1, <2>3
<1> QED BY <1>1, <1>2, <1>3, <1>5, <1>6, <1>7 DEF Queued, Transition

LEMMA QueuedStep == ASSUME Queued, Told, [InputNext]_inputVars PROVE Queued'
<1>1. CASE \E b \in Buttons : setButton(b)
  BY <1>1, SetButtonQueued
<1>2. CASE drainOneButton
  BY <1>2, DrainQueued
<1>3. CASE PopButton
  BY <1>3, PopQueued
<1>4. CASE \/ \E phase \in {"MAKE_TOUCH", "TOUCHING", "BREAK_TOUCH"} : sendTouch(phase)
           \/ setPaused \/ drainOneTouch \/ PopTouch \/ ChunkEnds \/ UNCHANGED inputVars
  <2>1. /\ UNCHANGED <<bq, keys, wanted, held>>
        /\ at' = "button_pop" <=> at = "button_pop"
    BY <1>4 DEF sendTouch, setPaused, drainOneTouch, PopTouch, ChunkEnds, inputVars, board, queues,
                hostside
  <2> QED BY <2>1, QueuedSame
<1>5. CASE \/ TimebaseEdge \/ Handler \/ SetUp \/ BringUpPart \/ ResetPart \/ ReadFrame
           \/ TimerFires \/ \E b \in Buttons : Sample(b)
  <2>1. Unmoved
    BY <1>5 DEF TimebaseEdge, Handler, TakeIrq, ReadStat, Flip, Acknowledge, SetUp, BringUpPart,
                ResetPart, ReadFrame, Moves, TimerFires, Sample
  <2> QED BY <2>1, QueuedSame DEF Unmoved, queues, hostside
<1> QED BY <1>1, <1>2, <1>3, <1>4, <1>5 DEF InputNext

---------------------------------------------------------------------------
(* The reports.                                                             *)

Elements(s) == {s[i] : i \in DOMAIN s}
Increasing(s) == \A i, j \in DOMAIN s : i < j => s[i] < s[j]

(* The reports in the touch part that are not in the queue as well. *)
InPart == IF at = "touch_pop" THEN <<>> ELSE Reports(mtz2.frame)

LEMMA JoinedElements ==
  ASSUME NEW a \in Seq(Nat), NEW b \in Seq(Nat)
  PROVE  Elements(a \o b) = Elements(a) \cup Elements(b)
<1>1. /\ a \o b \in Seq(Nat) /\ Len(a) \in Nat /\ Len(b) \in Nat
      /\ DOMAIN (a \o b) = 1 .. Len(a) + Len(b)
      /\ DOMAIN a = 1 .. Len(a) /\ DOMAIN b = 1 .. Len(b)
      /\ \A i \in 1 .. Len(a) : (a \o b)[i] = a[i]
      /\ \A i \in 1 .. Len(b) : (a \o b)[Len(a) + i] = b[i]
  OBVIOUS
<1>2. ASSUME NEW i \in DOMAIN (a \o b) PROVE (a \o b)[i] \in Elements(a) \cup Elements(b)
  <2>1. CASE i <= Len(a)
    BY <1>1, <2>1 DEF Elements
  <2>2. CASE i > Len(a)
    <3>1. i - Len(a) \in 1 .. Len(b) /\ Len(a) + (i - Len(a)) = i
      BY <1>1, <2>2
    <3> QED BY <1>1, <3>1 DEF Elements
  <2> QED BY <1>1, <2>1, <2>2
<1>3. ASSUME NEW i \in DOMAIN a PROVE a[i] \in Elements(a \o b)
  <2>1. i \in DOMAIN (a \o b)
    BY <1>1
  <2> QED BY <1>1, <2>1 DEF Elements
<1>4. ASSUME NEW i \in DOMAIN b PROVE b[i] \in Elements(a \o b)
  <2>1. Len(a) + i \in DOMAIN (a \o b)
    BY <1>1
  <2> QED BY <1>1, <2>1 DEF Elements
<1>5. Elements(a \o b) \subseteq Elements(a) \cup Elements(b)
  BY <1>2 DEF Elements
<1>6. Elements(a) \subseteq Elements(a \o b) /\ Elements(b) \subseteq Elements(a \o b)
  BY <1>3, <1>4 DEF Elements
<1> QED BY <1>5, <1>6

LEMMA JoinedIncreasing ==
  ASSUME NEW a \in Seq(Nat), NEW b \in Seq(Nat)
  PROVE  Increasing(a \o b) <=>
           Increasing(a) /\ Increasing(b) /\ \A x \in Elements(a), y \in Elements(b) : x < y
<1>1. PICK n : n = Len(a)
  OBVIOUS
<1>2. PICK m : m = Len(b)
  OBVIOUS
<1>3. PICK s : s = a \o b
  OBVIOUS
<1>4. /\ n \in Nat /\ m \in Nat /\ DOMAIN s = 1 .. n + m
      /\ DOMAIN a = 1 .. n /\ DOMAIN b = 1 .. m
      /\ \A i \in 1 .. n : s[i] = a[i]
      /\ \A i \in 1 .. m : s[n + i] = b[i]
  BY <1>1, <1>2, <1>3
<1>5. ASSUME Increasing(s) PROVE Increasing(a)
  <2>1. ASSUME NEW i \in 1 .. n, NEW j \in 1 .. n, i < j PROVE a[i] < a[j]
    <3>1. i \in DOMAIN s /\ j \in DOMAIN s
      BY <1>4
    <3>2. s[i] < s[j]
      BY <1>5, <2>1, <3>1 DEF Increasing
    <3> QED BY <1>4, <3>2
  <2> QED BY <1>4, <2>1 DEF Increasing
<1>6. ASSUME Increasing(s) PROVE Increasing(b)
  <2>1. ASSUME NEW i \in 1 .. m, NEW j \in 1 .. m, i < j PROVE b[i] < b[j]
    <3>1. n + i \in DOMAIN s /\ n + j \in DOMAIN s /\ n + i < n + j
      BY <1>4, <2>1
    <3>2. s[n + i] < s[n + j]
      BY <1>6, <3>1 DEF Increasing
    <3> QED BY <1>4, <3>2
  <2> QED BY <1>4, <2>1 DEF Increasing
<1>7. ASSUME Increasing(s), NEW x \in Elements(a), NEW y \in Elements(b) PROVE x < y
  <2>1. PICK i \in 1 .. n : x = a[i]
    BY <1>4 DEF Elements
  <2>2. PICK j \in 1 .. m : y = b[j]
    BY <1>4 DEF Elements
  <2>3. i \in DOMAIN s /\ n + j \in DOMAIN s /\ i < n + j
    BY <1>4
  <2>4. s[i] < s[n + j]
    BY <1>7, <2>3 DEF Increasing
  <2> QED BY <1>4, <2>1, <2>2, <2>4
<1>8. ASSUME Increasing(a), Increasing(b), \A x \in Elements(a), y \in Elements(b) : x < y,
             NEW i \in DOMAIN s, NEW j \in DOMAIN s, i < j
      PROVE  s[i] < s[j]
  <2>1. CASE j <= n
    <3>1. i \in DOMAIN a /\ j \in DOMAIN a /\ s[i] = a[i] /\ s[j] = a[j]
      BY <1>4, <1>8, <2>1
    <3> QED BY <1>8, <3>1 DEF Increasing
  <2>2. CASE n < i
    <3>1. /\ i - n \in 1 .. m /\ j - n \in 1 .. m /\ i - n < j - n
          /\ n + (i - n) = i /\ n + (j - n) = j
      <4>1. i \in 1 .. n + m /\ j \in 1 .. n + m /\ n \in Nat /\ m \in Nat
        BY <1>4
      <4> QED BY <1>8, <2>2, <4>1
    <3>2. b[i - n] < b[j - n]
      BY <1>4, <1>8, <3>1 DEF Increasing
    <3>3. s[i] = b[i - n] /\ s[j] = b[j - n]
      BY <1>4, <3>1
    <3> QED BY <3>2, <3>3
  <2>3. CASE i <= n /\ n < j
    <3>1. i \in 1 .. n /\ j - n \in 1 .. m /\ n + (j - n) = j
      BY <1>4, <2>3
    <3>2. s[i] = a[i] /\ s[j] = b[j - n]
      BY <1>4, <3>1
    <3>3. a[i] \in Elements(a) /\ b[j - n] \in Elements(b)
      BY <1>4, <3>1 DEF Elements
    <3> QED BY <1>8, <3>2, <3>3
  <2> QED BY <1>4, <2>1, <2>2, <2>3
<1>9. Increasing(s) <=>
        Increasing(a) /\ Increasing(b) /\ \A x \in Elements(a), y \in Elements(b) : x < y
  <2>1. ASSUME Increasing(a), Increasing(b), \A x \in Elements(a), y \in Elements(b) : x < y
        PROVE  Increasing(s)
    BY <1>8, <2>1 DEF Increasing
  <2> QED BY <1>5, <1>6, <1>7, <2>1
<1> QED BY <1>3, <1>9

LEMMA OneElement ==
  ASSUME NEW n \in Nat
  PROVE  <<n>> \in Seq(Nat) /\ Elements(<<n>>) = {n} /\ Increasing(<<n>>)
<1>1. <<n>> \in Seq(Nat) /\ DOMAIN <<n>> = 1 .. 1 /\ <<n>>[1] = n
  OBVIOUS
<1>2. \A i \in 1 .. 1 : i = 1
  OBVIOUS
<1> QED BY <1>1, <1>2 DEF Elements, Increasing

LEMMA NoElement == <<>> \in Seq(Nat) /\ Elements(<<>>) = {} /\ Increasing(<<>>)
BY DEF Elements, Increasing

(* The numbers of a sequence of reports. *)
LEMMA ReportsOf ==
  ASSUME NEW s \in Seq(Report)
  PROVE  /\ Reports(s) \in Seq(Nat) /\ Elements(Reports(s)) = Numbers(s)
         /\ Len(Reports(s)) = Len(s) /\ DOMAIN Reports(s) = DOMAIN s
         /\ \A i \in DOMAIN s : Reports(s)[i] = s[i].n /\ s[i].n \in Nat
<1>1. Len(s) \in Nat /\ DOMAIN s = 1 .. Len(s) /\ \A i \in 1 .. Len(s) : s[i] \in Report
  OBVIOUS
<1>2. \A i \in 1 .. Len(s) : s[i].n \in Nat
  BY <1>1 DEF Report
<1>3. Reports(s) = [i \in 1 .. Len(s) |-> s[i].n]
  BY <1>1 DEF Reports
<1>4. Reports(s) \in [1 .. Len(s) -> Nat]
  BY <1>2, <1>3
<1>5. Reports(s) \in Seq(Nat) /\ Len(Reports(s)) = Len(s)
  BY <1>1, <1>4
<1>6. Elements(Reports(s)) = Numbers(s)
  BY <1>1, <1>3 DEF Elements, Numbers
<1> QED BY <1>1, <1>2, <1>3, <1>5, <1>6

LEMMA ReportsJoined ==
  ASSUME NEW s \in Seq(Report), NEW t \in Seq(Report)
  PROVE  Reports(s \o t) = Reports(s) \o Reports(t)
<1>1. PICK n : n = Len(s)
  OBVIOUS
<1>2. PICK m : m = Len(t)
  OBVIOUS
<1>3. /\ s \o t \in Seq(Report) /\ n \in Nat /\ m \in Nat /\ DOMAIN (s \o t) = 1 .. n + m
      /\ \A i \in 1 .. n : (s \o t)[i] = s[i]
      /\ \A i \in 1 .. m : (s \o t)[n + i] = t[i]
      /\ DOMAIN s = 1 .. n /\ DOMAIN t = 1 .. m /\ Len(s \o t) = n + m
  BY <1>1, <1>2
<1>4. PICK u : u = Reports(s) \o Reports(t)
  OBVIOUS
<1>5. /\ u \in Seq(Nat) /\ Len(u) = n + m /\ DOMAIN u = 1 .. n + m
      /\ \A i \in 1 .. n : u[i] = Reports(s)[i]
      /\ \A i \in 1 .. m : u[n + i] = Reports(t)[i]
  <2>1. PICK rs : rs = Reports(s)
    OBVIOUS
  <2>2. PICK rt : rt = Reports(t)
    OBVIOUS
  <2>3. rs \in Seq(Nat) /\ rt \in Seq(Nat) /\ Len(rs) = n /\ Len(rt) = m
    BY <1>1, <1>2, <2>1, <2>2, ReportsOf
  <2>4. u = rs \o rt
    BY <1>4, <2>1, <2>2
  <2>5. /\ u \in Seq(Nat) /\ Len(u) = n + m /\ DOMAIN u = 1 .. n + m
        /\ \A i \in 1 .. n : u[i] = rs[i]
        /\ \A i \in 1 .. m : u[n + i] = rt[i]
    BY <1>3, <2>3, <2>4, SMTT(30)
  <2> QED BY <2>1, <2>2, <2>5
<1>6. PICK v : v = Reports(s \o t)
  OBVIOUS
<1>7. /\ v \in Seq(Nat) /\ Len(v) = n + m /\ DOMAIN v = 1 .. n + m
      /\ \A i \in 1 .. n + m : v[i] = (s \o t)[i].n
  BY <1>3, <1>6, ReportsOf
<1>8. ASSUME NEW i \in 1 .. n + m PROVE u[i] = v[i]
  <2>1. CASE i <= n
    <3>1. i \in 1 .. n /\ i \in DOMAIN s
      BY <1>3, <2>1
    <3>2. u[i] = Reports(s)[i]
      BY <1>5, <3>1
    <3>3. Reports(s)[i] = s[i].n
      BY <3>1, ReportsOf
    <3> QED BY <1>3, <1>7, <3>1, <3>2, <3>3
  <2>2. CASE i > n
    <3>1. i - n \in 1 .. m /\ n + (i - n) = i
      BY <1>3, <2>2
    <3>2. u[i] = t[i - n].n
      <4>1. u[i] = Reports(t)[i - n]
        BY <1>5, <3>1
      <4>2. i - n \in DOMAIN t
        BY <1>3, <3>1
      <4> QED BY <4>1, <4>2, ReportsOf
    <3>3. (s \o t)[i] = t[i - n]
      BY <1>3, <3>1
    <3> QED BY <1>7, <3>2, <3>3
  <2> QED BY <1>3, <2>1, <2>2
<1>9. u = v
  BY <1>3, <1>5, <1>7, <1>8, SeqEqual
<1> QED BY <1>4, <1>6, <1>9

LEMMA ReportsFew ==
  /\ Reports(<<>>) = <<>>
  /\ \A c \in Report : Reports(<<c>>) = <<c.n>> /\ Numbers(<<c>>) = {c.n} /\ c.n \in Nat
<1>1. <<>> \in Seq(Report) /\ Len(<<>>) = 0
  OBVIOUS
<1>2. Reports(<<>>) \in Seq(Nat) /\ Len(Reports(<<>>)) = 0
  BY <1>1, ReportsOf
<1>3. ASSUME NEW c \in Report
      PROVE  Reports(<<c>>) = <<c.n>> /\ Numbers(<<c>>) = {c.n} /\ c.n \in Nat
  <2>1. PICK s : s = <<c>>
    OBVIOUS
  <2>2. s \in Seq(Report) /\ Len(s) = 1 /\ DOMAIN s = 1 .. 1 /\ s[1] = c
    BY <2>1
  <2>3. PICK t : t = Reports(s)
    OBVIOUS
  <2>4. /\ t \in Seq(Nat) /\ Len(t) = 1 /\ 1 \in DOMAIN s
        /\ Elements(t) = Numbers(s)
    BY <2>2, <2>3, ReportsOf
  <2>5. t[1] = c.n /\ c.n \in Nat
    BY <2>2, <2>3, <2>4, ReportsOf
  <2>6. t = <<c.n>>
    BY <2>4, <2>5
  <2> QED BY <2>1, <2>3, <2>4, <2>5, <2>6, OneElement
<1>4. Reports(<<>>) = <<>>
  BY <1>2
<1> QED BY <1>3, <1>4

LEMMA NatConcat ==
  ASSUME NEW a \in Seq(Nat), NEW b \in Seq(Nat), NEW c \in Seq(Nat)
  PROVE  a \o (b \o c) = (a \o b) \o c
<1>1. (a \o b) \o c = a \o (b \o c)
  BY ConcatAssociative, SMTT(60)
<1> QED BY <1>1

LEMMA NatElements ==
  ASSUME NEW s \in Seq(Nat)
  PROVE  \A x \in Elements(s) : x \in Nat
<1>1. DOMAIN s = 1 .. Len(s) /\ \A i \in 1 .. Len(s) : s[i] \in Nat
  OBVIOUS
<1> QED BY <1>1 DEF Elements

LEMMA WayOf ==
  ASSUME Reported
  PROVE  /\ OnTheWay = heard \o InPart \o Reports(tq)
         /\ heard \in Seq(Nat) /\ InPart \in Seq(Nat) /\ Reports(tq) \in Seq(Nat)
         /\ OnTheWay \in Seq(Nat)
         /\ Elements(OnTheWay) = Elements(heard) \cup Elements(InPart) \cup Numbers(tq)
<1>1. heard \in Seq(Nat) /\ tq \in Seq(Report) /\ mtz2.frame \in Seq(Report)
  BY DEF Reported
<1>2. Reports(tq) \in Seq(Nat) /\ Elements(Reports(tq)) = Numbers(tq)
  BY <1>1, ReportsOf
<1>3. InPart \in Seq(Nat)
  BY <1>1, ReportsOf, NoElement DEF InPart
<1>4. OnTheWay = heard \o InPart \o Reports(tq)
  BY DEF OnTheWay, InPart
<1>5. /\ heard \o InPart \in Seq(Nat)
      /\ Elements(heard \o InPart) = Elements(heard) \cup Elements(InPart)
  BY <1>1, <1>3, JoinedElements, ConcatProperties
<1>6. /\ OnTheWay \in Seq(Nat)
      /\ Elements(OnTheWay) = Elements(heard \o InPart) \cup Elements(Reports(tq))
  BY <1>2, <1>4, <1>5, JoinedElements, ConcatProperties
<1> QED BY <1>1, <1>2, <1>3, <1>4, <1>5, <1>6

(* Reports that leave are accounted for, and none comes. *)
LEMMA OrderedKept ==
  ASSUME Ordered, Increasing(OnTheWay'), Elements(OnTheWay') \subseteq Elements(OnTheWay),
         ui'.reports = ui.reports, ui'.edges = ui.edges,
         \A i \in DOMAIN tq' : \E j \in DOMAIN tq : tq'[i] = tq[j],
         gone \cup Elements(OnTheWay) \subseteq gone' \cup Elements(OnTheWay')
  PROVE  Ordered'
<1>1. \A n \in Elements(OnTheWay') : n <= ui'.reports
  BY DEF Ordered, Elements
<1>2. \A i \in DOMAIN OnTheWay' : OnTheWay'[i] <= ui'.reports
  BY <1>1 DEF Elements
<1>3. \A i \in DOMAIN tq' : tq'[i].phase = "TOUCHING" => tq'[i].n \notin ui'.edges
  BY DEF Ordered
<1>4. ui'.edges \subseteq gone' \cup Elements(OnTheWay')
  BY DEF Ordered, Elements
<1> QED BY <1>2, <1>3, <1>4 DEF Ordered, Increasing, Elements

LEMMA OrderedSame ==
  ASSUME Ordered, OnTheWay' = OnTheWay, tq' = tq, gone' = gone,
         ui'.reports = ui.reports, ui'.edges = ui.edges
  PROVE  Ordered'
<1>1. Increasing(OnTheWay')
  BY DEF Ordered, Increasing
<1> QED BY <1>1, OrderedKept

LEMMA WaySame ==
  ASSUME UNCHANGED <<heard, tq>>, mtz2'.frame = mtz2.frame,
         at' = "touch_pop" <=> at = "touch_pop"
  PROVE  OnTheWay' = OnTheWay
BY DEF OnTheWay, Reports

LEMMA ReportedInitial == InputInit => Reported /\ Ordered
<1> SUFFICES ASSUME InputInit PROVE Reported /\ Ordered
  OBVIOUS
<1>1. /\ tq = <<>> /\ at = "top" /\ heard = <<>>
      /\ mtz2 = [in_reset |-> TRUE, hbpp_mode |-> TRUE, frame |-> <<>>]
      /\ ui = [paused |-> FALSE, presses |-> 0, reports |-> 0, pauses |-> 0,
               down |-> FALSE, edges |-> {}]
  BY DEF InputInit, NoFrame
<1>2. VM_TOUCH_QUEUE_CAP \in Nat
  BY GuestInputAssumption
<1>3. Reported
  BY <1>1, <1>2 DEF Reported, NoFrame
<1>4. Elements(OnTheWay) = {}
  <2>1. InPart = <<>> /\ Numbers(tq) = {}
    BY <1>1, ReportsFew DEF InPart, Numbers
  <2> QED BY <1>1, <1>3, <2>1, WayOf, NoElement
<1>5. DOMAIN OnTheWay = {}
  BY <1>4 DEF Elements
<1>6. Ordered
  BY <1>1, <1>5 DEF Ordered
<1> QED BY <1>3, <1>6

(* Nothing of the reports moves. *)
LEMMA ReportsStay ==
  ASSUME Reported, Ordered, UNCHANGED <<tq, heard, gone>>, mtz2'.frame = mtz2.frame,
         mtz2' \in [in_reset : BOOLEAN, hbpp_mode : BOOLEAN, frame : Seq(Report)],
         mtz2'.in_reset => mtz2.in_reset,
         ui' \in [paused : BOOLEAN, presses : Nat, reports : Nat, pauses : Nat,
                  down : BOOLEAN, edges : SUBSET Nat],
         ui'.reports = ui.reports, ui'.edges = ui.edges,
         \/ at' = at
         \/ at \notin {"touch_pop", "touch_drop"} /\ at' \in {"top", "button", "button_pop", "chunk"}
         \/ at \notin {"touch_pop", "touch_drop"} /\ at' = "touch_drop" /\ tq # <<>>
  PROVE  Reported' /\ Ordered'
<1>1. Reported'
  BY DEF Reported, NoFrame
<1>2. OnTheWay' = OnTheWay
  BY WaySame
<1> QED BY <1>1, <1>2, OrderedSame

(* A drain hands the oldest report over and leaves it in the queue; its pop
   takes it out.                                                           *)
LEMMA DrainReported == ASSUME Reported, Ordered, drainOneTouch PROVE Reported' /\ Ordered'
<1>1. UNCHANGED <<ui, tq, heard, gone>> /\ at = "top"
  BY DEF drainOneTouch, hostside, queues, guestside
<1>2. CASE ~ (tq # <<>> /\ Accepts(mtz2))
  <2>1. mtz2' = mtz2 /\ at' = IF tq = <<>> \/ atn(mtz2) THEN "button" ELSE "touch_drop"
    BY <1>2 DEF drainOneTouch
  <2>2. at' = "button" \/ (at' = "touch_drop" /\ tq # <<>>)
    BY <2>1
  <2> QED BY <1>1, <2>1, <2>2, ReportsStay DEF Reported
<1>3. CASE tq # <<>> /\ Accepts(mtz2)
  <2>1. mtz2' = [mtz2 EXCEPT !.frame = <<Head(tq)>>] /\ at' = "touch_pop"
    BY <1>3 DEF drainOneTouch
  <2>2. mtz2.frame = <<>> /\ ~ mtz2.in_reset
    BY <1>3 DEF Accepts, NoFrame
  <2>3. tq \in Seq(Report) /\ Head(tq) \in Report
    BY <1>3, HeadTailProperties DEF Reported
  <2>4. PICK f : f = <<Head(tq)>>
    OBVIOUS
  <2>5. f \in Seq(Report) /\ Len(f) <= 1
    BY <2>3, <2>4
  <2>6. /\ mtz2' \in [in_reset : BOOLEAN, hbpp_mode : BOOLEAN, frame : Seq(Report)]
        /\ mtz2'.frame = f /\ ~ mtz2'.in_reset
    BY <2>1, <2>2, <2>4, <2>5 DEF Reported
  <2>7. Reported'
    BY <1>1, <1>3, <2>1, <2>4, <2>5, <2>6 DEF Reported
  <2>8. OnTheWay' = OnTheWay
    BY <1>1, <2>1, <2>2, ReportsFew DEF OnTheWay, Reports
  <2> QED BY <1>1, <2>7, <2>8, OrderedSame
<1> QED BY <1>2, <1>3

LEMMA HeadFirst ==
  ASSUME NEW s \in Seq(Report), s # <<>>
  PROVE  /\ Head(s) \in Report /\ Tail(s) \in Seq(Report)
         /\ Reports(s) = <<Head(s).n>> \o Reports(Tail(s))
         /\ Reports(<<Head(s)>>) = <<Head(s).n>>
         /\ Numbers(s) = {Head(s).n} \cup Numbers(Tail(s))
         /\ \A i \in DOMAIN Tail(s) : \E j \in DOMAIN s : Tail(s)[i] = s[j]
         /\ Len(Tail(s)) <= Len(s)
<1>1. PICK h : h = Head(s)
  OBVIOUS
<1>2. PICK t : t = Tail(s)
  OBVIOUS
<1>3. /\ h \in Report /\ t \in Seq(Report) /\ <<h>> \in Seq(Report)
      /\ Len(t) = Len(s) - 1 /\ \A i \in 1 .. Len(t) : t[i] = s[i + 1]
  BY <1>1, <1>2, HeadTailProperties
<1>4. s = <<h>> \o t
  <2>1. PICK u : u = <<h>> \o t
    OBVIOUS
  <2>2. u \in Seq(Report) /\ Len(u) = Len(s) /\ \A i \in 1 .. Len(u) : u[i] = s[i]
    BY <1>1, <1>3, <2>1
  <2> QED BY <2>1, <2>2, SeqEqual
<1>5. Reports(<<h>>) = <<h.n>> /\ h.n \in Nat
  BY <1>3, ReportsFew
<1>6. Reports(s) = <<h.n>> \o Reports(t)
  BY <1>3, <1>4, <1>5, ReportsJoined
<1>7. Numbers(s) = {h.n} \cup Numbers(t)
  <2>1. Reports(t) \in Seq(Nat) /\ Elements(Reports(t)) = Numbers(t)
    BY <1>3, ReportsOf
  <2>2. Elements(Reports(s)) = Elements(<<h.n>>) \cup Elements(Reports(t))
    BY <1>5, <1>6, <2>1, OneElement, JoinedElements
  <2>3. Elements(Reports(s)) = Numbers(s)
    BY ReportsOf
  <2> QED BY <1>5, <2>1, <2>2, <2>3, OneElement
<1>8. \A i \in DOMAIN t : \E j \in DOMAIN s : t[i] = s[j]
  <2>1. /\ DOMAIN t = 1 .. Len(t) /\ DOMAIN s = 1 .. Len(s) /\ Len(s) \in Nat
        /\ Len(t) \in Nat
    BY <1>3
  <2>2. ASSUME NEW i \in DOMAIN t PROVE i + 1 \in DOMAIN s /\ t[i] = s[i + 1]
    BY <1>3, <2>1, <2>2
  <2> QED BY <2>2
<1>9. Len(t) <= Len(s)
  BY <1>3
<1> QED BY <1>1, <1>2, <1>3, <1>5, <1>6, <1>7, <1>8, <1>9

(* Taking a part out of the middle. *)
LEMMA MiddleOut ==
  ASSUME NEW a \in Seq(Nat), NEW b \in Seq(Nat), NEW c \in Seq(Nat), Increasing(a \o b \o c)
  PROVE  Increasing(a \o c)
<1>1. PICK ab : ab = a \o b
  OBVIOUS
<1>2. ab \in Seq(Nat) /\ Elements(ab) = Elements(a) \cup Elements(b)
  BY <1>1, JoinedElements, ConcatProperties
<1>3. Increasing(ab \o c)
  BY <1>1
<1>4. Increasing(ab) /\ Increasing(c) /\ \A x \in Elements(ab), y \in Elements(c) : x < y
  BY <1>2, <1>3, JoinedIncreasing
<1>5. Increasing(a)
  BY <1>1, <1>4, JoinedIncreasing
<1> QED BY <1>2, <1>4, <1>5, JoinedIncreasing

LEMMA PopReported == ASSUME Reported, Ordered, PopTouch PROVE Reported' /\ Ordered'
<1>1. /\ UNCHANGED <<ui, mtz2, heard>> /\ tq' = Tail(tq) /\ at' = "button"
      /\ at \in {"touch_pop", "touch_drop"}
      /\ gone' = IF at = "touch_drop" THEN gone \cup {Head(tq).n} ELSE gone
  BY DEF PopTouch, hostside, board, guestside
<1>2. PICK h : h = Head(tq)
  OBVIOUS
<1>3. /\ tq \in Seq(Report) /\ h \in Report /\ tq' \in Seq(Report) /\ Len(tq') <= Len(tq)
      /\ Reports(tq) = <<h.n>> \o Reports(tq') /\ Reports(<<h>>) = <<h.n>>
      /\ Numbers(tq) = {h.n} \cup Numbers(tq')
      /\ \A i \in DOMAIN tq' : \E j \in DOMAIN tq : tq'[i] = tq[j]
  BY <1>1, <1>2, HeadFirst DEF Reported
<1>4. Reported'
  <2>1. Len(tq') <= VM_TOUCH_QUEUE_CAP
    BY <1>3, GuestInputAssumption DEF Reported
  <2> QED BY <1>1, <1>3, <2>1 DEF Reported
<1>5. PICK r : r = Reports(tq')
  OBVIOUS
<1>6. /\ r \in Seq(Nat) /\ heard \in Seq(Nat) /\ InPart \in Seq(Nat) /\ h.n \in Nat
      /\ OnTheWay = heard \o InPart \o (<<h.n>> \o r)
      /\ OnTheWay \in Seq(Nat) /\ Increasing(OnTheWay)
      /\ Elements(OnTheWay) = Elements(heard) \cup Elements(InPart) \cup Numbers(tq)
      /\ <<h.n>> \in Seq(Nat)
  BY <1>3, <1>5, WayOf, ReportsOf, ReportsFew, OneElement DEF Ordered, Increasing
<1>7. OnTheWay' = heard \o Reports(mtz2.frame) \o r
  BY <1>1, <1>5 DEF OnTheWay, Reports
<1>8. CASE at = "touch_pop"
  <2>1. InPart = <<>> /\ Reports(mtz2.frame) = <<h.n>>
    BY <1>2, <1>3, <1>8 DEF Reported, InPart
  <2>2. OnTheWay = heard \o (<<h.n>> \o r)
    BY <1>6, <2>1, ConcatEmptySeq
  <2>3. OnTheWay' = heard \o (<<h.n>> \o r)
    BY <1>6, <1>7, <2>1, ConcatAssociative
  <2>4. OnTheWay' = OnTheWay /\ gone' = gone
    BY <1>1, <1>8, <2>2, <2>3
  <2>5. Increasing(OnTheWay')
    BY <1>6, <2>4
  <2> QED BY <1>1, <1>3, <1>4, <2>4, <2>5, OrderedKept
<1>9. CASE at = "touch_drop"
  <2>1. InPart = Reports(mtz2.frame) /\ gone' = gone \cup {h.n}
    BY <1>1, <1>2, <1>9 DEF InPart
  <2>2. PICK a : a = heard \o InPart
    OBVIOUS
  <2>3. PICK one : one = <<h.n>>
    OBVIOUS
  <2>4. a \in Seq(Nat) /\ one \in Seq(Nat) /\ OnTheWay' = a \o r
    BY <1>6, <1>7, <2>1, <2>2, <2>3, ConcatProperties
  <2>5. OnTheWay = a \o (one \o r)
    BY <1>6, <2>2, <2>3
  <2>6. a \o (one \o r) = a \o one \o r
    <3>1. a \in Seq(Nat) /\ one \in Seq(Nat) /\ r \in Seq(Nat)
      BY <1>6, <2>4
    <3> QED BY <3>1, NatConcat
  <2>7. Increasing(a \o one \o r)
    BY <1>6, <2>5, <2>6
  <2>8. Increasing(OnTheWay')
    BY <1>6, <2>4, <2>7, MiddleOut
  <2>9. Elements(OnTheWay') = Elements(a) \cup Elements(r) /\ Elements(r) = Numbers(tq')
        /\ Elements(a) = Elements(heard) \cup Elements(InPart)
    BY <1>3, <1>5, <1>6, <2>2, <2>4, JoinedElements, ReportsOf
  <2>10. Elements(OnTheWay') \subseteq Elements(OnTheWay)
        /\ gone \cup Elements(OnTheWay) \subseteq gone' \cup Elements(OnTheWay')
    BY <1>3, <1>6, <2>1, <2>9
  <2> QED BY <1>1, <1>3, <1>4, <2>8, <2>10, OrderedKept
<1> QED BY <1>1, <1>8, <1>9

(* A new report goes to the tail, or takes the place of a move that is there
   already, or is refused: an edge never leaves the queue this way.         *)
LEMMA PushedFirst ==
  ASSUME NEW q \in Seq(Report), NEW c \in Report, Len(q) <= VM_TOUCH_QUEUE_CAP
  PROVE  LET p == TPushed(q, c)
         IN /\ p \in Seq(Report) /\ Len(p) <= VM_TOUCH_QUEUE_CAP
            /\ q # <<>> => p # <<>> /\ Head(p) = Head(q)
            /\ \/ p = q \o <<c>>
               \/ p = q
               \/ \E f \in Seq(Report), m \in Report :
                     /\ q = f \o <<m>> /\ p = f \o <<c>>
                     /\ m.phase = "TOUCHING" /\ c.phase = "TOUCHING"
<1>1. VM_TOUCH_QUEUE_CAP \in Nat /\ VM_TOUCH_QUEUE_CAP > 1
  BY GuestInputAssumption
<1>2. PICK p : p = TPushed(q, c)
  OBVIOUS
<1>3. PICK n : n = Len(q)
  OBVIOUS
<1>4. n \in Nat /\ n <= VM_TOUCH_QUEUE_CAP /\ DOMAIN q = 1 .. n
  BY <1>3
<1>5. CASE n < VM_TOUCH_QUEUE_CAP
  <2>1. p = Append(q, c)
    BY <1>2, <1>3, <1>5 DEF TPushed
  <2>2. p = q \o <<c>>
    BY <2>1
  <2>3. p \in Seq(Report) /\ Len(p) = n + 1 /\ (n > 0 => p[1] = q[1])
    BY <1>3, <1>4, <2>1
  <2>4. q # <<>> => p # <<>> /\ Head(p) = Head(q)
    BY <1>3, <1>4, <2>3
  <2>5. Len(p) <= VM_TOUCH_QUEUE_CAP
    BY <1>1, <1>4, <1>5, <2>3
  <2> QED BY <1>2, <2>2, <2>3, <2>4, <2>5
<1>6. CASE n = VM_TOUCH_QUEUE_CAP /\ c.phase = "TOUCHING" /\ q[n].phase = "TOUCHING"
  <2>1. p = [q EXCEPT ![n] = c]
    BY <1>1, <1>2, <1>3, <1>6 DEF TPushed
  <2>2. PICK f : f = SubSeq(q, 1, n - 1)
    OBVIOUS
  <2>3. PICK m : m = q[n]
    OBVIOUS
  <2>4. /\ f \in Seq(Report) /\ Len(f) = n - 1 /\ \A i \in 1 .. n - 1 : f[i] = q[i]
        /\ m \in Report /\ n > 1
    BY <1>1, <1>3, <1>4, <1>6, <2>2, <2>3
  <2>5. /\ p \in Seq(Report) /\ Len(p) = n /\ p[n] = c
        /\ \A i \in 1 .. n - 1 : p[i] = q[i]
    BY <1>3, <1>4, <2>1, <2>4
  <2>6. q = f \o <<m>>
    <3>1. PICK u : u = f \o <<m>>
      OBVIOUS
    <3>2. u \in Seq(Report) /\ Len(u) = n /\ \A i \in 1 .. n : u[i] = q[i]
      BY <1>4, <2>3, <2>4, <3>1
    <3> QED BY <1>3, <3>1, <3>2, SeqEqual
  <2>7. p = f \o <<c>>
    <3>1. PICK u : u = f \o <<c>>
      OBVIOUS
    <3>2. u \in Seq(Report) /\ Len(u) = n /\ \A i \in 1 .. n : u[i] = p[i]
      BY <1>4, <2>4, <2>5, <3>1
    <3> QED BY <2>5, <3>1, <3>2, SeqEqual
  <2>8. p # <<>> /\ Head(p) = Head(q)
    BY <1>3, <1>4, <2>4, <2>5
  <2>9. m.phase = "TOUCHING" /\ c.phase = "TOUCHING" /\ Len(p) <= VM_TOUCH_QUEUE_CAP
    BY <1>4, <1>6, <2>3, <2>5
  <2> QED BY <1>2, <2>4, <2>5, <2>6, <2>7, <2>8, <2>9
<1>7. CASE ~ (n < VM_TOUCH_QUEUE_CAP)
           /\ ~ (n = VM_TOUCH_QUEUE_CAP /\ c.phase = "TOUCHING" /\ q[n].phase = "TOUCHING")
  <2>1. p = q
    BY <1>2, <1>3, <1>7 DEF TPushed
  <2> QED BY <1>2, <2>1
<1> QED BY <1>5, <1>6, <1>7

LEMMA GrowsAtTheEnd ==
  ASSUME NEW a \in Seq(Nat), NEW r \in Nat, Increasing(a), \A x \in Elements(a) : x <= r
  PROVE  Increasing(a \o <<r + 1>>)
<1>1. <<r + 1>> \in Seq(Nat) /\ Increasing(<<r + 1>>) /\ Elements(<<r + 1>>) = {r + 1}
  BY OneElement
<1>2. \A x \in Elements(a) : x \in Nat
  BY NatElements
<1>3. \A x \in Elements(a), y \in Elements(<<r + 1>>) : x < y
  BY <1>1, <1>2
<1> QED BY <1>1, <1>3, JoinedIncreasing

LEMMA JoinedParts ==
  ASSUME NEW s \in Seq(Report), NEW c \in Report
  PROVE  /\ Reports(s \o <<c>>) = Reports(s) \o <<c.n>>
         /\ Numbers(s \o <<c>>) = Numbers(s) \cup {c.n}
         /\ s \o <<c>> \in Seq(Report)
<1>1. <<c>> \in Seq(Report) /\ Reports(<<c>>) = <<c.n>> /\ Numbers(<<c>>) = {c.n} /\ c.n \in Nat
  BY ReportsFew
<1>2. s \o <<c>> \in Seq(Report)
  BY <1>1, ConcatProperties
<1>3. Reports(s \o <<c>>) = Reports(s) \o <<c.n>>
  BY <1>1, ReportsJoined
<1>4. Numbers(s \o <<c>>) = Numbers(s) \cup {c.n}
  <2>1. PICK one : one = <<c.n>>
    OBVIOUS
  <2>2. one \in Seq(Nat) /\ Elements(one) = {c.n}
    BY <1>1, <2>1, OneElement
  <2>3. PICK rs : rs = Reports(s)
    OBVIOUS
  <2>4. rs \in Seq(Nat) /\ Elements(rs) = Numbers(s)
    BY <2>3, ReportsOf
  <2>5. Elements(rs \o one) = Numbers(s) \cup {c.n}
    BY <2>2, <2>4, JoinedElements
  <2>6. Elements(Reports(s \o <<c>>)) = Numbers(s \o <<c>>)
    BY <1>2, ReportsOf
  <2> QED BY <1>3, <2>1, <2>3, <2>5, <2>6
<1> QED BY <1>2, <1>3, <1>4

LEMMA SendReported ==
  ASSUME Reported, Ordered, NEW phase \in {"MAKE_TOUCH", "TOUCHING", "BREAK_TOUCH"},
         sendTouch(phase)
  PROVE  Reported' /\ Ordered'
<1>1. PICK c : c = [n |-> ui.reports + 1, phase |-> phase]
  OBVIOUS
<1>2. /\ ui' = [ui EXCEPT !.reports = @ + 1, !.down = phase # "BREAK_TOUCH",
                          !.edges = IF phase = "TOUCHING" THEN @ ELSE @ \cup {c.n}]
      /\ tq' = TPushed(tq, c)
      /\ gone' = IF c.n \in Numbers(tq') THEN gone ELSE gone \cup {c.n}
      /\ UNCHANGED <<at, mtz2, heard>>
  BY <1>1 DEF sendTouch, board, guestside
<1>3. PICK r : r = ui.reports
  OBVIOUS
<1>4. /\ r \in Nat /\ ui.edges \in SUBSET Nat /\ c \in Report /\ c.n = r + 1 /\ c.phase = phase
      /\ tq \in Seq(Report) /\ Len(tq) <= VM_TOUCH_QUEUE_CAP
  BY <1>1, <1>3 DEF Reported, Report
<1>5. /\ ui' \in [paused : BOOLEAN, presses : Nat, reports : Nat, pauses : Nat,
                  down : BOOLEAN, edges : SUBSET Nat]
      /\ ui'.reports = r + 1
      /\ ui'.edges = IF phase = "TOUCHING" THEN ui.edges ELSE ui.edges \cup {c.n}
  <2>1. PICK edges : edges = IF phase = "TOUCHING" THEN ui.edges ELSE ui.edges \cup {c.n}
    OBVIOUS
  <2>2. PICK down \in BOOLEAN : down <=> phase # "BREAK_TOUCH"
    OBVIOUS
  <2>3. edges \in SUBSET Nat
    BY <1>4, <2>1
  <2>4. ui \in [paused : BOOLEAN, presses : Nat, reports : Nat, pauses : Nat,
                down : BOOLEAN, edges : SUBSET Nat]
    BY DEF Reported
  <2>5. ui' = [[[ui EXCEPT !.reports = r + 1] EXCEPT !.down = down] EXCEPT !.edges = edges]
    BY <1>2, <1>3, <2>1, <2>2, <2>4
  <2>6. ui'.reports = r + 1 /\ ui'.edges = edges
    BY <2>4, <2>5
  <2>7. r + 1 \in Nat
    BY <1>4
  <2>8. ui' \in [paused : BOOLEAN, presses : Nat, reports : Nat, pauses : Nat,
                 down : BOOLEAN, edges : SUBSET Nat]
    BY <2>2, <2>3, <2>4, <2>5, <2>7
  <2> QED BY <2>1, <2>6, <2>8
<1>6. /\ tq' \in Seq(Report) /\ Len(tq') <= VM_TOUCH_QUEUE_CAP
      /\ tq # <<>> => tq' # <<>> /\ Head(tq') = Head(tq)
      /\ \/ tq' = tq \o <<c>>
         \/ tq' = tq
         \/ \E f \in Seq(Report), m \in Report :
               /\ tq = f \o <<m>> /\ tq' = f \o <<c>>
               /\ m.phase = "TOUCHING" /\ c.phase = "TOUCHING"
  BY <1>2, <1>4, PushedFirst
<1>7. Reported'
  BY <1>2, <1>5, <1>6 DEF Reported
<1>8. PICK a : a = heard \o InPart
  OBVIOUS
<1>9. /\ a \in Seq(Nat) /\ Reports(tq) \in Seq(Nat) /\ OnTheWay = a \o Reports(tq)
      /\ OnTheWay \in Seq(Nat)
      /\ Elements(OnTheWay) = Elements(a) \cup Numbers(tq)
      /\ Increasing(OnTheWay)
      /\ \A x \in Elements(OnTheWay) : x <= r
      /\ \A x \in ui.edges : x <= r
      /\ ui.edges \subseteq gone \cup Elements(OnTheWay)
      /\ \A i \in DOMAIN tq : tq[i].phase = "TOUCHING" => tq[i].n \notin ui.edges
  <2>1. /\ OnTheWay = heard \o InPart \o Reports(tq)
        /\ heard \in Seq(Nat) /\ InPart \in Seq(Nat) /\ Reports(tq) \in Seq(Nat)
        /\ OnTheWay \in Seq(Nat)
        /\ Elements(OnTheWay) = Elements(heard) \cup Elements(InPart) \cup Numbers(tq)
    BY WayOf
  <2>2. a \in Seq(Nat) /\ Elements(a) = Elements(heard) \cup Elements(InPart)
    BY <1>8, <2>1, JoinedElements, ConcatProperties
  <2> QED BY <1>3, <1>8, <2>1, <2>2 DEF Ordered, Increasing, Elements
<1>10. OnTheWay' = a \o Reports(tq')
  BY <1>2, <1>8 DEF OnTheWay, InPart, Reports
(* What is asked of the way and the queue after the push. *)
<1>11. ASSUME Increasing(OnTheWay'), \A x \in Elements(OnTheWay') : x <= r + 1,
              \A i \in DOMAIN tq' : tq'[i] = c \/ \E j \in DOMAIN tq : tq'[i] = tq[j],
              ui'.edges \subseteq gone' \cup Elements(OnTheWay')
       PROVE  Ordered'
  <2>1. \A x \in ui'.edges : x <= r + 1
    BY <1>4, <1>5, <1>9
  <2>2. ASSUME NEW i \in DOMAIN tq', tq'[i].phase = "TOUCHING" PROVE tq'[i].n \notin ui'.edges
    <3>1. CASE tq'[i] = c
      BY <1>4, <1>5, <1>9, <2>2, <3>1
    <3>2. CASE \E j \in DOMAIN tq : tq'[i] = tq[j]
      <4>1. PICK j \in DOMAIN tq : tq'[i] = tq[j]
        BY <3>2
      <4>2. tq[j].n \in Elements(OnTheWay)
        BY <1>9 DEF Numbers
      <4>3. tq[j].n \in Nat
        BY <1>4, ReportsOf
      <4>4. tq[j].n # c.n
        BY <1>4, <1>9, <4>2, <4>3
      <4> QED BY <1>5, <1>9, <2>2, <4>1, <4>4
    <3> QED BY <1>11, <3>1, <3>2
  <2>3. \A i \in DOMAIN OnTheWay' : OnTheWay'[i] <= ui'.reports
    BY <1>5, <1>11 DEF Elements
  <2> QED BY <1>5, <1>11, <2>1, <2>2, <2>3 DEF Ordered, Increasing, Elements
<1>12. CASE tq' = tq \o <<c>>
  <2>1. /\ Reports(tq') = Reports(tq) \o <<c.n>>
        /\ Numbers(tq') = Numbers(tq) \cup {c.n}
    BY <1>4, <1>12, JoinedParts
  <2>2. OnTheWay' = OnTheWay \o <<r + 1>>
    <3>1. PICK one : one = <<r + 1>>
      OBVIOUS
    <3>2. one \in Seq(Nat)
      BY <1>4, <3>1
    <3>3. a \o (Reports(tq) \o one) = a \o Reports(tq) \o one
      <4>1. PICK tr : tr = Reports(tq)
        OBVIOUS
      <4>2. a \in Seq(Nat) /\ tr \in Seq(Nat) /\ one \in Seq(Nat)
        BY <1>9, <3>2, <4>1
      <4>3. a \o (tr \o one) = a \o tr \o one
        BY <4>2, NatConcat
      <4> QED BY <4>1, <4>3
    <3> QED BY <1>4, <1>9, <1>10, <2>1, <3>1, <3>3
  <2>3. Increasing(OnTheWay')
    BY <1>4, <1>9, <2>2, GrowsAtTheEnd
  <2>4. Elements(OnTheWay') = Elements(OnTheWay) \cup {r + 1}
    <3>1. PICK one : one = <<r + 1>>
      OBVIOUS
    <3>2. one \in Seq(Nat) /\ Elements(one) = {r + 1}
      BY <1>4, <3>1, OneElement
    <3>3. Elements(OnTheWay \o one) = Elements(OnTheWay) \cup Elements(one)
      BY <1>9, <3>2, JoinedElements, Zenon
    <3> QED BY <2>2, <3>1, <3>2, <3>3
  <2>5. \A x \in Elements(OnTheWay') : x <= r + 1
    <3>1. \A x \in Elements(OnTheWay) : x \in Nat
      BY <1>9, NatElements
    <3> QED BY <1>4, <1>9, <2>4, <3>1
  <2>6. \A i \in DOMAIN tq' : tq'[i] = c \/ \E j \in DOMAIN tq : tq'[i] = tq[j]
    BY <1>4, <1>12
  <2>7. ui'.edges \subseteq gone' \cup Elements(OnTheWay')
    BY <1>2, <1>4, <1>5, <1>9, <2>4
  <2> QED BY <1>7, <1>11, <2>3, <2>5, <2>6, <2>7
<1>13. CASE tq' = tq
  <2>1. OnTheWay' = OnTheWay
    BY <1>9, <1>10, <1>13
  <2>2. \A x \in Elements(OnTheWay) : x \in Nat
    BY <1>9, NatElements
  <2>3. r + 1 \notin Elements(OnTheWay)
    BY <1>4, <1>9
  <2>4. c.n \in gone' /\ gone \subseteq gone'
    BY <1>2, <1>4, <1>9, <1>13, <2>3
  <2>5. ui'.edges \subseteq gone' \cup Elements(OnTheWay')
    BY <1>5, <1>9, <2>1, <2>4
  <2>6. \A x \in Elements(OnTheWay') : x <= r + 1
    <3>1. \A x \in Elements(OnTheWay) : x \in Nat /\ x <= r
      BY <1>9, <2>2
    <3> QED BY <1>4, <2>1, <3>1
  <2>7. \A i \in DOMAIN tq' : tq'[i] = c \/ \E j \in DOMAIN tq : tq'[i] = tq[j]
    BY <1>13
  <2> QED BY <1>7, <1>9, <1>11, <2>1, <2>5, <2>6, <2>7
<1>14. CASE \E f \in Seq(Report), m \in Report :
               /\ tq = f \o <<m>> /\ tq' = f \o <<c>>
               /\ m.phase = "TOUCHING" /\ c.phase = "TOUCHING"
  <2>1. PICK f \in Seq(Report), m \in Report :
               /\ tq = f \o <<m>> /\ tq' = f \o <<c>>
               /\ m.phase = "TOUCHING" /\ c.phase = "TOUCHING"
    BY <1>14
  <2>2. /\ Reports(tq) = Reports(f) \o <<m.n>> /\ Numbers(tq) = Numbers(f) \cup {m.n}
        /\ Reports(tq') = Reports(f) \o <<c.n>> /\ Numbers(tq') = Numbers(f) \cup {c.n}
    BY <1>4, <2>1, JoinedParts
  <2>3. PICK b : b = a \o Reports(f)
    OBVIOUS
  <2>4. PICK last : last = <<m.n>>
    OBVIOUS
  <2>5. PICK one : one = <<r + 1>>
    OBVIOUS
  <2>6. /\ Reports(f) \in Seq(Nat) /\ last \in Seq(Nat) /\ one \in Seq(Nat) /\ m.n \in Nat
        /\ Elements(last) = {m.n} /\ Elements(one) = {r + 1} /\ b \in Seq(Nat)
        /\ Elements(Reports(f)) = Numbers(f)
    BY <1>4, <1>9, <2>1, <2>3, <2>4, <2>5, ReportsOf, ReportsFew, OneElement, ConcatProperties
  <2>7. OnTheWay = b \o last /\ OnTheWay' = b \o one
    <3>1. /\ a \o (Reports(f) \o last) = a \o Reports(f) \o last
          /\ a \o (Reports(f) \o one) = a \o Reports(f) \o one
      <4>1. PICK rf : rf = Reports(f)
        OBVIOUS
      <4>2. a \in Seq(Nat) /\ rf \in Seq(Nat) /\ last \in Seq(Nat) /\ one \in Seq(Nat)
        BY <1>9, <2>6, <4>1
      <4>3. a \o (rf \o last) = a \o rf \o last
        BY <4>2, NatConcat
      <4>4. a \o (rf \o one) = a \o rf \o one
        BY <4>2, NatConcat
      <4> QED BY <4>1, <4>3, <4>4
    <3> QED BY <1>4, <1>9, <1>10, <2>2, <2>3, <2>4, <2>5, <3>1
  <2>8. Elements(OnTheWay) = Elements(b) \cup {m.n} /\ Elements(OnTheWay') = Elements(b) \cup {r + 1}
    BY <2>6, <2>7, JoinedElements
  <2>9. Increasing(b)
    BY <1>9, <2>6, <2>7, JoinedIncreasing
  <2>10. Increasing(OnTheWay')
    BY <1>4, <1>9, <2>5, <2>6, <2>7, <2>8, <2>9, GrowsAtTheEnd
  <2>11. \A x \in Elements(OnTheWay') : x <= r + 1
    <3>1. \A x \in Elements(b) : x \in Nat /\ x <= r
      BY <1>9, <2>6, <2>8, NatElements
    <3> QED BY <1>4, <2>8, <3>1
  <2>12. PICK n : n = Len(f)
    OBVIOUS
  <2>13. /\ n \in Nat /\ DOMAIN tq = 1 .. n + 1 /\ DOMAIN tq' = 1 .. n + 1
         /\ tq[n + 1] = m /\ tq'[n + 1] = c
         /\ \A i \in 1 .. n : tq'[i] = f[i] /\ tq[i] = f[i]
    BY <1>4, <2>1, <2>12
  <2>14. \A i \in DOMAIN tq' : tq'[i] = c \/ \E j \in DOMAIN tq : tq'[i] = tq[j]
    BY <2>13
  <2>15. m.n \notin ui.edges
    <3>1. n + 1 \in DOMAIN tq
      BY <2>13
    <3> QED BY <1>9, <2>1, <2>13, <3>1
  <2>16. ui'.edges = ui.edges /\ gone' = gone
    BY <1>2, <1>4, <1>5, <2>1, <2>2
  <2>17. ui'.edges \subseteq gone' \cup Elements(OnTheWay')
    BY <1>9, <2>8, <2>15, <2>16
  <2> QED BY <1>7, <1>11, <2>10, <2>11, <2>14, <2>17
<1> QED BY <1>6, <1>12, <1>13, <1>14

(* The frame goes: to the guest, or with a reset. *)
LEMMA ReadReported == ASSUME Reported, Ordered, ReadFrame PROVE Reported' /\ Ordered'
<1>1. /\ UNCHANGED <<ui, tq, gone, at>> /\ at = "chunk"
      /\ heard' = heard \o Reports(mtz2.frame)
      /\ mtz2' = [mtz2 EXCEPT !.frame = <<>>]
  BY DEF ReadFrame, InThread, Runs, Moves, Unmoved, hostside, queues, NoFrame
<1>2. /\ mtz2' \in [in_reset : BOOLEAN, hbpp_mode : BOOLEAN, frame : Seq(Report)]
      /\ mtz2'.frame = <<>> /\ Len(mtz2'.frame) <= 1
  <2>1. PICK f : f = <<>>
    OBVIOUS
  <2>2. f \in Seq(Report) /\ Len(f) <= 1
    BY <2>1
  <2> QED BY <1>1, <2>1, <2>2 DEF Reported
<1>3. /\ OnTheWay = heard \o InPart \o Reports(tq) /\ InPart = Reports(mtz2.frame)
      /\ heard \in Seq(Nat) /\ InPart \in Seq(Nat) /\ Reports(tq) \in Seq(Nat)
  BY <1>1, WayOf DEF InPart
<1>4. heard' \in Seq(Nat)
  BY <1>1, <1>3, ConcatProperties
<1>5. Reported'
  BY <1>1, <1>2, <1>4 DEF Reported, NoFrame
<1>6. OnTheWay' = heard' \o <<>> \o Reports(tq)
  BY <1>1, <1>2, ReportsFew DEF OnTheWay, Reports
<1>7. OnTheWay' = OnTheWay
  BY <1>1, <1>3, <1>4, <1>6, ConcatEmptySeq
<1> QED BY <1>1, <1>5, <1>7, OrderedSame

LEMMA ResetReported == ASSUME Reported, Ordered, ResetPart PROVE Reported' /\ Ordered'
<1>1. /\ UNCHANGED <<ui, tq, heard, at>> /\ at = "chunk"
      /\ gone' = gone \cup Numbers(mtz2.frame)
      /\ mtz2' = [mtz2 EXCEPT !.in_reset = TRUE, !.frame = <<>>]
  BY DEF ResetPart, InThread, Runs, Moves, Unmoved, hostside, queues, NoFrame
<1>2. /\ mtz2' \in [in_reset : BOOLEAN, hbpp_mode : BOOLEAN, frame : Seq(Report)]
      /\ mtz2'.frame = <<>> /\ Len(mtz2'.frame) <= 1
  <2>1. PICK f : f = <<>>
    OBVIOUS
  <2>2. f \in Seq(Report) /\ Len(f) <= 1
    BY <2>1
  <2>3. mtz2 \in [in_reset : BOOLEAN, hbpp_mode : BOOLEAN, frame : Seq(Report)]
    BY DEF Reported
  <2>4. mtz2' = [[mtz2 EXCEPT !.in_reset = TRUE] EXCEPT !.frame = f]
    BY <1>1, <2>1, <2>3
  <2> QED BY <2>1, <2>2, <2>3, <2>4
<1>3. Reported'
  BY <1>1, <1>2 DEF Reported, NoFrame
<1>4. /\ OnTheWay = heard \o InPart \o Reports(tq) /\ InPart = Reports(mtz2.frame)
      /\ heard \in Seq(Nat) /\ InPart \in Seq(Nat) /\ Reports(tq) \in Seq(Nat)
      /\ Elements(OnTheWay) = Elements(heard) \cup Elements(InPart) \cup Numbers(tq)
  BY <1>1, WayOf DEF InPart
<1>5. Elements(InPart) = Numbers(mtz2.frame)
  BY <1>4, ReportsOf DEF Reported
<1>6. OnTheWay' = heard \o <<>> \o Reports(tq)
  BY <1>1, <1>2, ReportsFew DEF OnTheWay, Reports
<1>7. OnTheWay' = heard \o Reports(tq)
  BY <1>4, <1>6, ConcatEmptySeq
<1>8. Increasing(heard \o InPart \o Reports(tq))
  BY <1>4 DEF Ordered, Increasing
<1>9. Increasing(OnTheWay')
  BY <1>4, <1>7, <1>8, MiddleOut
<1>10. Elements(OnTheWay') = Elements(heard) \cup Numbers(tq)
  BY <1>4, <1>7, JoinedElements, ReportsOf DEF Reported
<1>11. /\ Elements(OnTheWay') \subseteq Elements(OnTheWay)
       /\ gone \cup Elements(OnTheWay) \subseteq gone' \cup Elements(OnTheWay')
  BY <1>1, <1>4, <1>5, <1>10
<1> QED BY <1>1, <1>3, <1>9, <1>11, OrderedKept

LEMMA ReportsStep ==
  ASSUME Reported, Ordered, [InputNext]_inputVars
  PROVE  Reported' /\ Ordered'
<1> DEFINE Ui == [paused : BOOLEAN, presses : Nat, reports : Nat, pauses : Nat,
                  down : BOOLEAN, edges : SUBSET Nat]
           Part == [in_reset : BOOLEAN, hbpp_mode : BOOLEAN, frame : Seq(Report)]
<1>1. ui \in Ui /\ mtz2 \in Part
  BY DEF Reported
<1>2. CASE (\E b \in Buttons : setButton(b)) \/ setPaused
  <2>1. UNCHANGED <<tq, heard, gone, mtz2, at>>
    BY <1>2 DEF setButton, setPaused, board, guestside, queues
  <2>2. \/ ui' = [ui EXCEPT !.presses = @ + 1]
        \/ ui' = [ui EXCEPT !.paused = ~@, !.pauses = IF ui.paused THEN @ ELSE @ + 1]
    BY <1>2 DEF setButton, setPaused
  <2>3. ui' \in Ui /\ ui'.reports = ui.reports /\ ui'.edges = ui.edges
    <3>1. CASE ui' = [ui EXCEPT !.presses = @ + 1]
      BY <1>1, <3>1
    <3>2. CASE ui' = [ui EXCEPT !.paused = ~@, !.pauses = IF ui.paused THEN @ ELSE @ + 1]
      <4>1. PICK stopped \in BOOLEAN : stopped <=> ~ ui.paused
        OBVIOUS
      <4>2. PICK p \in Nat : p = IF ui.paused THEN ui.pauses ELSE ui.pauses + 1
        BY <1>1
      <4>3. ui' = [[ui EXCEPT !.paused = stopped] EXCEPT !.pauses = p]
        BY <1>1, <3>2, <4>1, <4>2
      <4> QED BY <1>1, <4>1, <4>2, <4>3
    <3> QED BY <2>2, <3>1, <3>2
  <2> QED BY <1>1, <2>1, <2>3, ReportsStay
<1>3. CASE \E phase \in {"MAKE_TOUCH", "TOUCHING", "BREAK_TOUCH"} : sendTouch(phase)
  BY <1>3, SendReported
<1>4. CASE drainOneTouch \/ PopTouch \/ ReadFrame \/ ResetPart
  BY <1>4, DrainReported, PopReported, ReadReported, ResetReported
<1>5. CASE drainOneButton \/ PopButton \/ ChunkEnds
  <2>1. UNCHANGED <<tq, heard, gone, mtz2, ui>>
    BY <1>5 DEF drainOneButton, PopButton, ChunkEnds, hostside, queues, board, guestside
  <2>2. /\ at \notin {"touch_pop", "touch_drop"}
        /\ at' \in {"top", "button", "button_pop", "chunk"}
    BY <1>5 DEF drainOneButton, PopButton, ChunkEnds
  <2> QED BY <1>1, <2>1, <2>2, ReportsStay
<1>6. CASE BringUpPart
  <2>1. UNCHANGED <<tq, heard, gone, ui, at>>
    BY <1>6 DEF BringUpPart, Moves, Unmoved, hostside, queues, guestside
  <2>2. \/ mtz2' = [mtz2 EXCEPT !.in_reset = FALSE]
        \/ mtz2' = [mtz2 EXCEPT !.hbpp_mode = FALSE]
    BY <1>6 DEF BringUpPart, Moves
  <2>3. mtz2' \in Part /\ mtz2'.frame = mtz2.frame /\ (mtz2'.in_reset => mtz2.in_reset)
    BY <1>1, <2>2
  <2> QED BY <1>1, <2>1, <2>3, ReportsStay
<1>7. CASE \/ TimebaseEdge \/ Handler \/ SetUp \/ TimerFires \/ \E b \in Buttons : Sample(b)
           \/ UNCHANGED inputVars
  <2>1. UNCHANGED <<tq, heard, gone, mtz2, ui, at>>
    BY <1>7 DEF TimebaseEdge, Handler, TakeIrq, ReadStat, Flip, Acknowledge, SetUp, Accesses,
                TimerFires, Sample, Unmoved, hostside, queues, guestside, inputVars
  <2> QED BY <1>1, <2>1, ReportsStay
<1> QED BY <1>2, <1>3, <1>4, <1>5, <1>6, <1>7 DEF InputNext

(* The board, the queue of transitions and the reports, taken together, hold
   in every state of the input path.                                       *)
THEOREM InputInvariance == InputSpec => []InputInv
<1>1. InputInit => InputInv
  BY BoardInitial, QueuedInitial, ReportedInitial DEF InputInv, Board
<1>2. InputInv /\ [InputNext]_inputVars => InputInv'
  BY BoardStep, QueuedStep, ReportsStep DEF InputInv, Board
<1> QED BY <1>1, <1>2, PTL DEF InputSpec

(* InputTypeOK: the two queues within their capacities, every register of the
   controller a set of its lines, at most one report in the touch part and
   none while it is in reset.                                              *)
THEOREM InputTypeCorrect == InputSpec => []InputTypeOK
<1>1. InputInv => InputTypeOK
  <2> SUFFICES ASSUME InputInv PROVE InputTypeOK
    OBVIOUS
  <2>1. \A i \in DOMAIN bq : bq[i] \in [which : Buttons, pressed : BOOLEAN]
    <3>1. bq \in Seq(Transition)
      BY DEF InputInv, Queued, Transition
    <3>2. \A i \in DOMAIN bq : bq[i] \in Transition
      BY <3>1
    <3> QED BY <3>2 DEF Transition
  <2>2. ic \in Controller
    BY DEF InputInv, Wires, Latched
  <2>3. \A r \in DOMAIN ic : ic[r] \subseteq Lines
    BY <2>2 DEF Controller
  <2>4. driver.irq.at \in {"off", "read", "flip", "ack"}
    BY BoardFacts DEF InputInv, Board
  <2> QED BY <2>1, <2>3, <2>4 DEF InputInv, InputTypeOK, Queued, Reported, Told
<1> QED BY <1>1, InputInvariance, PTL

(* CascadeFresh: s5l8900_tick skips the refresh while neither an access nor
   ext_inputs says that a level can have moved, and before every instruction
   the CPU sees all the same what a refresh on every tick would show it: the
   cascade of the controller, the attention line of the touch part and the
   level of every switch.                                                   *)
THEOREM CascadeAlwaysFresh == InputSpec => []CascadeFresh
<1>1. InputInv => CascadeFresh
  BY DEF InputInv, Wires
<1> QED BY <1>1, InputInvariance, PTL

(* QuietIsTrue: once nothing of the switches is queued, latched, being handled,
   timed or sampled, what AppleM68Buttons has reported is what s5l_buttons_set
   was last told and what the app last queued: no transition is lost between
   the drain, the latch, the flipped polarity, the acknowledge and the
   debounce, for any switches, rest levels and order of set-up.             *)
THEOREM QuietIsAlwaysTrue == InputSpec => []QuietIsTrue
<1>1. InputInv => QuietIsTrue
  <2> SUFFICES ASSUME InputInv, Quiet PROVE shadow = held /\ held = wanted
    BY DEF QuietIsTrue
  <2>1. shadow \in SUBSET Buttons /\ held \in SUBSET Buttons /\ wanted \in SUBSET Buttons
    BY DEF InputInv, Told, Queued
  <2>2. ASSUME NEW b \in Buttons PROVE b \in shadow <=> b \in held
    <3>1. CASE b \in ic.en
      BY <3>1 DEF InputInv, Told, Quiet
    <3>2. CASE b \notin ic.en
      BY <3>2 DEF InputInv, Told
    <3> QED BY <3>1, <3>2
  <2>3. ASSUME NEW b \in Buttons PROVE b \in wanted <=> b \in held
    <3>1. \A i \in DOMAIN bq : FALSE
      BY DEF Quiet
    <3> QED BY <3>1 DEF InputInv, Queued
  <2> QED BY <2>1, <2>2, <2>3
<1> QED BY <1>1, InputInvariance, PTL

(* EdgesKept: what -drainOneTouch_emulatorThread peeked at and pops later, what
   waits in the part's frame and what the guest has read are one sequence in
   the order the reports were made, each once; and of a gesture's MAKE and
   BREAK only those are missing that a full queue or a part in reset refused;
   what is done during a pause is queued like the rest.                     *)
THEOREM EdgesAlwaysKept == InputSpec => []EdgesKept
<1>1. InputInv => EdgesKept
  BY DEF InputInv, Ordered, EdgesKept
<1> QED BY <1>1, InputInvariance, PTL
=============================================================================
