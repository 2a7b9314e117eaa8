------------------------------- MODULE Engine -------------------------------
(***************************************************************************)
(* The life of VMEngine (app/Sources/VMEngine.m): `start` builds a machine  *)
(* in steps that take and drop _lock, `stop` and `setPaused:` leave a flag, *)
(* a worker thread runs the machine chunk by chunk and takes it apart when  *)
(* it leaves its loop, and another thread makes the root filesystem while   *)
(* the test guest runs.  A step is what is done under one hold of _lock, or *)
(* between two.                                                             *)
(*                                                                         *)
(* Calls come from any thread.  The engines of Engines are those that one   *)
(* machine has had: they open the same work image, and an engine may be     *)
(* running while an older one is not gone yet.  A text is a member of a     *)
(* small set; counters, the console and the rate are left out, the queues   *)
(* of input are in GuestInput.                                              *)
(*                                                                         *)
(* A definition commented as a slip is a mutated form of the definition     *)
(* after it; no specification uses it.                                      *)
(***************************************************************************)
EXTENDS Naturals

CONSTANTS
  Engines,     \* the engines made for the machine
  MAX_RETIRED  \* chunks: caps are no larger, the count stops there

ASSUME EngineAssumption == MAX_RETIRED \in Nat

VARIABLES
  \* what _lock protects
  state, stopRequested, paused, machineReady, thread, cap, status, mode,
  bringUpNote,    \* what -bringUpNote has to tell, a set of facts
  preparing,      \* _preparingRootFS
  panel,          \* _snapshot: not allocated, blank, or a frame
  fresh,          \* _snapshotFresh
  \* what belongs to start, then to the worker
  machine,        \* is guest DRAM allocated?
  bridged,        \* does the machine hold the descriptor of the work image?
  firmwareBoot,   \* not there, made, or with the work image open
  \* the threads
  starter,        \* where start is
  note,           \* its local, the note it is to leave
  failure,        \* the status it leaves if it fails
  worker,         \* where threadMain is
  retired, reached,  \* its locals
  guest, exit,    \* its status and why it ended, kept until the next start
  provisioner,    \* is provisionRootFilesystem: running?
  \* the files, and what was promised
  firmware,       \* has the firmware been imported?
  image,          \* the work image: absent, a shared one to adopt, or there
  accepted,       \* did a stop take effect since the last start?
  late            \* chunks begun after it

locked == <<state, stopRequested, paused, machineReady, thread, cap, status,
            mode, bringUpNote, preparing, panel, fresh>>
owned  == <<machine, bridged, firmwareBoot>>
start_ == <<starter, note, failure>>
work   == <<worker, retired, guest, exit, reached>>
files  == <<provisioner, firmware, image>>
promised == <<accepted, late>>

vars == <<locked, owned, start_, work, files, promised>>

Facts == {"reason", "preparing", "ready", "failed"}

Init ==
  /\ state = [e \in Engines |-> "Idle"]
  /\ stopRequested = [e \in Engines |-> FALSE]
  /\ paused = [e \in Engines |-> FALSE]
  /\ machineReady = [e \in Engines |-> FALSE]
  /\ thread = [e \in Engines |-> FALSE]
  /\ cap = [e \in Engines |-> 0]
  /\ status = [e \in Engines |-> "idle"]
  /\ mode = [e \in Engines |-> "none"]
  /\ bringUpNote = [e \in Engines |-> {}]
  /\ preparing = [e \in Engines |-> FALSE]
  /\ panel = [e \in Engines |-> "none"]
  /\ fresh = [e \in Engines |-> FALSE]
  /\ machine = [e \in Engines |-> FALSE]
  /\ bridged = [e \in Engines |-> FALSE]
  /\ firmwareBoot = [e \in Engines |-> "none"]
  /\ starter = [e \in Engines |-> "none"]
  /\ note = [e \in Engines |-> {}]
  /\ failure = [e \in Engines |-> "idle"]
  /\ worker = [e \in Engines |-> "none"]
  /\ retired = [e \in Engines |-> 0]
  /\ guest = [e \in Engines |-> "ok"]
  /\ exit = [e \in Engines |-> "none"]
  /\ reached = [e \in Engines |-> FALSE]
  /\ provisioner = [e \in Engines |-> FALSE]
  /\ firmware \in BOOLEAN
  /\ image \in {"absent", "shared", "ready"}
  /\ accepted = [e \in Engines |-> FALSE]
  /\ late = [e \in Engines |-> 0]

Cancelled(e) == state[e] = "Stopping" \/ stopRequested[e]

(* The last lines of a start that failed, and of the worker.                *)
BecomeIdle(e) ==
  /\ state' = [state EXCEPT ![e] = "Idle"]
  /\ stopRequested' = [stopRequested EXCEPT ![e] = FALSE]

(* publishBlankSnapshotLocked *)
Blank(e) ==
  IF panel[e] = "none" THEN UNCHANGED <<panel, fresh>>
  ELSE /\ panel' = [panel EXCEPT ![e] = "blank"]
       /\ fresh' = [fresh EXCEPT ![e] = TRUE]

---------------------------------------------------------------------------
(* start                                                                    *)

(* When not Idle the call changes nothing.                                  *)
StartCall(e) ==
  /\ starter[e] = "none"
  /\ state[e] = "Idle"
  /\ state' = [state EXCEPT ![e] = "Starting"]
  /\ stopRequested' = [stopRequested EXCEPT ![e] = FALSE]
  /\ paused' = [paused EXCEPT ![e] = FALSE]
  /\ status' = [status EXCEPT ![e] = "starting"]
  /\ IF panel[e] = "none"
     THEN /\ fresh' = [fresh EXCEPT ![e] = FALSE]
          /\ UNCHANGED panel
     ELSE Blank(e)
  /\ starter' = [starter EXCEPT ![e] = "snapshot"]
  /\ accepted' = [accepted EXCEPT ![e] = FALSE]
  /\ late' = [late EXCEPT ![e] = 0]
  /\ guest' = [guest EXCEPT ![e] = "ok"]
  /\ exit' = [exit EXCEPT ![e] = "none"]
  /\ UNCHANGED <<machineReady, thread, cap, mode, bringUpNote, preparing,
                 owned, note, failure, worker, retired, reached, files>>

(* Slip: the panel is announced and not kept.                               *)
AllocSnapshot_NotKept(e) ==
  /\ starter[e] = "snapshot"
  /\ fresh' = [fresh EXCEPT ![e] = TRUE]
  /\ starter' = [starter EXCEPT ![e] = "early"]
  /\ UNCHANGED <<state, stopRequested, paused, machineReady, thread, cap,
                 status, mode, bringUpNote, preparing, panel, owned, note,
                 failure, work, files, promised>>

(* needSnapshot: the buffer is allocated once, with the lock dropped.       *)
AllocSnapshot(e) ==
  /\ starter[e] = "snapshot"
  /\ IF panel[e] = "none"
     THEN /\ panel' = [panel EXCEPT ![e] = "blank"]
          /\ fresh' = [fresh EXCEPT ![e] = TRUE]
     ELSE UNCHANGED <<panel, fresh>>
  /\ starter' = [starter EXCEPT ![e] = "early"]
  /\ UNCHANGED <<state, stopRequested, paused, machineReady, thread, cap,
                 status, mode, bringUpNote, preparing, owned, note, failure,
                 work, files, promised>>

SnapshotFails(e) ==
  /\ starter[e] = "snapshot"
  /\ panel[e] = "none"
  /\ BecomeIdle(e)
  /\ paused' = [paused EXCEPT ![e] = FALSE]
  /\ status' = [status EXCEPT ![e] = "failed"]
  /\ starter' = [starter EXCEPT ![e] = "none"]
  /\ UNCHANGED <<machineReady, thread, cap, mode, bringUpNote, preparing,
                 panel, fresh, owned, note, failure, work, files, promised>>

CancelledEarly(e) ==
  /\ starter[e] = "early"
  /\ IF Cancelled(e)
     THEN /\ BecomeIdle(e)
          /\ paused' = [paused EXCEPT ![e] = FALSE]
          /\ status' = [status EXCEPT ![e] = "stopped"]
          /\ starter' = [starter EXCEPT ![e] = "none"]
     ELSE /\ starter' = [starter EXCEPT ![e] = "init"]
          /\ UNCHANGED <<state, stopRequested, paused, status>>
  /\ UNCHANGED <<machineReady, thread, cap, mode, bringUpNote, preparing,
                 panel, fresh, owned, note, failure, work, files, promised>>

(* s5l8900_init; when it fails _paused stays as it is.                      *)
InitMachine(e) ==
  /\ starter[e] = "init"
  /\ machine' = [machine EXCEPT ![e] = TRUE]
  /\ starter' = [starter EXCEPT ![e] = "resolve"]
  /\ note' = [note EXCEPT ![e] = {}]
  /\ UNCHANGED <<locked, bridged, firmwareBoot, failure, work, files, promised>>

InitFails(e) ==
  /\ starter[e] = "init"
  /\ BecomeIdle(e)
  /\ status' = [status EXCEPT ![e] = "failed"]
  /\ starter' = [starter EXCEPT ![e] = "none"]
  /\ UNCHANGED <<paused, machineReady, thread, cap, mode, bringUpNote,
                 preparing, panel, fresh, owned, note, failure, work, files,
                 promised>>

(* A start that gives up with a machine in hand.                            *)
GiveUp(e, text) ==
  /\ starter' = [starter EXCEPT ![e] = "unwind"]
  /\ failure' = [failure EXCEPT ![e] = text]

---------------------------------------------------------------------------
(* installGuestPayload                                                      *)

(* resolveFilesInto: refused, with or without a sentence.                   *)
NoPaths(e) ==
  /\ starter[e] = "resolve"
  /\ \E said \in {{}, {"reason"}} : note' = [note EXCEPT ![e] = said]
  /\ starter' = [starter EXCEPT ![e] = "guest"]
  /\ UNCHANGED <<locked, owned, failure, work, files, promised>>

(* vm_instance_work_adopt is a rename, which may fail.                      *)
Adopt(e) ==
  /\ starter[e] = "resolve"
  /\ \/ /\ image # "shared"
        /\ UNCHANGED <<image, note>>
     \/ /\ image = "shared"
        /\ image' = "ready"
        /\ UNCHANGED note
     \/ /\ image = "shared"
        /\ note' = [note EXCEPT ![e] = {"reason"}]
        /\ UNCHANGED image
  /\ starter' = [starter EXCEPT ![e] = "probe"]
  /\ UNCHANGED <<locked, owned, failure, work, provisioner, firmware, promised>>

(* vm_firmware_boot_probe says READY: vm_firmware_boot_create.              *)
ProbeReady(e) ==
  /\ starter[e] = "probe"
  /\ firmware /\ image = "ready"
  /\ \/ /\ firmwareBoot' = [firmwareBoot EXCEPT ![e] = "made"]
        /\ starter' = [starter EXCEPT ![e] = "bringup"]
        /\ UNCHANGED note
     \/ /\ firmwareBoot' = [firmwareBoot EXCEPT ![e] = "none"]
        /\ starter' = [starter EXCEPT ![e] = "guest"]
        /\ note' = [note EXCEPT ![e] = @ \cup {"reason"}]
  /\ UNCHANGED <<locked, machine, bridged, failure, work, files, promised>>

(* vm_firmware_boot_start opens the work image and gives the machine its
   descriptor ...                                                          *)
BringUp(e) ==
  /\ starter[e] = "bringup"
  /\ firmwareBoot' = [firmwareBoot EXCEPT ![e] = "open"]
  /\ bridged' = [bridged EXCEPT ![e] = TRUE]
  /\ starter' = [starter EXCEPT ![e] = "claim"]
  /\ UNCHANGED <<locked, machine, note, failure, work, files, promised>>

ClaimFirmware(e) ==
  /\ starter[e] = "claim"
  /\ mode' = [mode EXCEPT ![e] = "firmware"]
  /\ \E said \in {{}, {"reason"}} :
       bringUpNote' = [bringUpNote EXCEPT ![e] = said]
  /\ starter' = [starter EXCEPT ![e] = "thread"]
  /\ UNCHANGED <<state, stopRequested, paused, machineReady, thread, cap,
                 status, preparing, panel, fresh, owned, note, failure, work,
                 files, promised>>

(* ... or does neither; then the machine is made again for the test guest.  *)
BringUpFails(e) ==
  /\ starter[e] = "bringup"
  /\ firmwareBoot' = [firmwareBoot EXCEPT ![e] = "none"]
  /\ note' = [note EXCEPT ![e] = @ \cup {"reason"}]
  /\ \/ /\ starter' = [starter EXCEPT ![e] = "guest"]
        /\ UNCHANGED <<machine, failure>>
     \/ /\ machine' = [machine EXCEPT ![e] = FALSE]
        /\ GiveUp(e, "failed")
  /\ UNCHANGED <<locked, bridged, work, files, promised>>

(* The work image is to be made; a second start does not make it twice.     *)
Prepare(e) ==
  /\ starter[e] = "probe"
  /\ firmware /\ image # "ready"
  /\ \/ /\ preparing[e]
        /\ note' = [note EXCEPT ![e] = @ \cup {"preparing"}]
        /\ UNCHANGED <<preparing, provisioner>>
     \/ /\ ~preparing[e]
        /\ preparing' = [preparing EXCEPT ![e] = TRUE]
        /\ provisioner' = [provisioner EXCEPT ![e] = TRUE]
        /\ note' = [note EXCEPT ![e] = @ \cup {"preparing"}]
     \/ /\ ~preparing[e]  \* no thread for it
        /\ note' = [note EXCEPT ![e] = @ \cup {"reason"}]
        /\ UNCHANGED <<preparing, provisioner>>
  /\ starter' = [starter EXCEPT ![e] = "guest"]
  /\ UNCHANGED <<state, stopRequested, paused, machineReady, thread, cap,
                 status, mode, bringUpNote, panel, fresh, owned, failure, work,
                 firmware, image, promised>>

NotImported(e) ==
  /\ starter[e] = "probe"
  /\ ~firmware
  /\ starter' = [starter EXCEPT ![e] = "guest"]
  /\ UNCHANGED <<locked, owned, note, failure, work, files, promised>>

(* vm_guest_install *)
TestGuest(e) ==
  /\ starter[e] = "guest"
  /\ mode' = [mode EXCEPT ![e] = "test"]
  /\ bringUpNote' = [bringUpNote EXCEPT ![e] = note[e]]
  /\ starter' = [starter EXCEPT ![e] = "thread"]
  /\ UNCHANGED <<state, stopRequested, paused, machineReady, thread, cap,
                 status, preparing, panel, fresh, owned, note, failure, work,
                 files, promised>>

TestGuestFails(e) ==
  /\ starter[e] = "guest"
  /\ GiveUp(e, "failed")
  /\ UNCHANGED <<locked, owned, note, work, files, promised>>

---------------------------------------------------------------------------
(* The end of start                                                         *)

AllocThread(e) ==
  /\ starter[e] = "thread"
  /\ \/ /\ starter' = [starter EXCEPT ![e] = "commit"]
        /\ UNCHANGED failure
     \/ GiveUp(e, "failed")
  /\ UNCHANGED <<locked, owned, note, work, files, promised>>

(* Slip: the stop that came while the machine was made is not looked at.    *)
Commit_Blind(e) ==
  /\ starter[e] = "commit"
  /\ machineReady' = [machineReady EXCEPT ![e] = TRUE]
  /\ thread' = [thread EXCEPT ![e] = TRUE]
  /\ state' = [state EXCEPT ![e] = "Running"]
  /\ stopRequested' = [stopRequested EXCEPT ![e] = FALSE]
  /\ starter' = [starter EXCEPT ![e] = "spawn"]
  /\ UNCHANGED <<paused, cap, status, mode, bringUpNote, preparing,
                 panel, fresh, owned, note, failure, work, files, promised>>

Commit(e) ==
  /\ starter[e] = "commit"
  /\ IF Cancelled(e)
     THEN /\ GiveUp(e, "stopped")
          /\ UNCHANGED <<machineReady, thread, state>>
     ELSE /\ machineReady' = [machineReady EXCEPT ![e] = TRUE]
          /\ thread' = [thread EXCEPT ![e] = TRUE]
          /\ state' = [state EXCEPT ![e] = "Running"]
          /\ starter' = [starter EXCEPT ![e] = "spawn"]
          /\ UNCHANGED failure
  /\ UNCHANGED <<stopRequested, paused, cap, status, mode, bringUpNote,
                 preparing, panel, fresh, owned, note, work, files, promised>>

Spawn(e) ==
  /\ starter[e] = "spawn"
  /\ worker' = [worker EXCEPT ![e] = "top"]
  /\ starter' = [starter EXCEPT ![e] = "none"]
  /\ note' = [note EXCEPT ![e] = {}]
  /\ UNCHANGED <<locked, owned, failure, retired, guest, exit, reached, files,
                 promised>>

(* s5l8900_free, then vm_firmware_boot_destroy, then the state.             *)
Unwind(e) ==
  /\ starter[e] = "unwind"
  /\ machine' = [machine EXCEPT ![e] = FALSE]
  /\ bridged' = [bridged EXCEPT ![e] = FALSE]
  /\ starter' = [starter EXCEPT ![e] = "unboot"]
  /\ UNCHANGED <<locked, firmwareBoot, note, failure, work, files, promised>>

Unboot(e) ==
  /\ starter[e] = "unboot"
  /\ firmwareBoot' = [firmwareBoot EXCEPT ![e] = "none"]
  /\ starter' = [starter EXCEPT ![e] = "abandon"]
  /\ UNCHANGED <<locked, machine, bridged, note, failure, work, files, promised>>

Abandon(e) ==
  /\ starter[e] = "abandon"
  /\ BecomeIdle(e)
  /\ status' = [status EXCEPT ![e] = failure[e]]
  /\ IF failure[e] = "stopped"
     THEN paused' = [paused EXCEPT ![e] = FALSE]
     ELSE UNCHANGED paused
  /\ starter' = [starter EXCEPT ![e] = "none"]
  /\ note' = [note EXCEPT ![e] = {}]
  /\ failure' = [failure EXCEPT ![e] = "idle"]
  /\ UNCHANGED <<machineReady, thread, cap, mode, bringUpNote, preparing,
                 panel, fresh, owned, work, files, promised>>

Start(e) ==
  \/ AllocSnapshot(e) \/ SnapshotFails(e) \/ CancelledEarly(e)
  \/ InitMachine(e) \/ InitFails(e)
  \/ NoPaths(e) \/ Adopt(e) \/ ProbeReady(e) \/ BringUp(e) \/ ClaimFirmware(e)
  \/ BringUpFails(e) \/ Prepare(e) \/ NotImported(e)
  \/ TestGuest(e) \/ TestGuestFails(e)
  \/ AllocThread(e) \/ Commit(e) \/ Spawn(e)
  \/ Unwind(e) \/ Unboot(e) \/ Abandon(e)

---------------------------------------------------------------------------
(* threadMain                                                               *)

(* publishRetired: the status, and the frame if the display has one.        *)
Publish(e, text) ==
  /\ status' = [status EXCEPT ![e] = text]
  /\ \/ /\ panel' = [panel EXCEPT ![e] = "frame"]
        /\ fresh' = [fresh EXCEPT ![e] = TRUE]
     \/ IF panel[e] = "blank" THEN UNCHANGED <<panel, fresh>> ELSE Blank(e)

(* Slip: the pause is looked at before the stop.                            *)
Top_PauseFirst(e) ==
  /\ worker[e] = "top"
  /\ ~paused[e]
  /\ IF stopRequested[e]
     THEN /\ exit' = [exit EXCEPT ![e] = "stopped"]
          /\ worker' = [worker EXCEPT ![e] = "last"]
     ELSE /\ worker' = [worker EXCEPT ![e] = "run"]
          /\ UNCHANGED exit
  /\ UNCHANGED <<locked, owned, start_, retired, guest, reached, files, promised>>

(* A paused worker sleeps and looks again.                                  *)
Top(e) ==
  /\ worker[e] = "top"
  /\ \/ /\ stopRequested[e]
        /\ exit' = [exit EXCEPT ![e] = "stopped"]
        /\ worker' = [worker EXCEPT ![e] = "last"]
     \/ /\ ~stopRequested[e] /\ ~paused[e]
        /\ worker' = [worker EXCEPT ![e] = "run"]
        /\ UNCHANGED exit
  /\ UNCHANGED <<locked, owned, start_, retired, guest, reached, files, promised>>

(* The input that is drained first is in GuestInput.                        *)
Run(e) ==
  /\ worker[e] = "run"
  /\ retired' = [retired EXCEPT ![e] = IF @ < MAX_RETIRED THEN @ + 1 ELSE @]
  /\ \E s \in {"ok", "fault"} : guest' = [guest EXCEPT ![e] = s]
  /\ worker' = [worker EXCEPT ![e] = "check"]
  /\ late' = [late EXCEPT ![e] = IF accepted[e] THEN @ + 1 ELSE @]
  /\ UNCHANGED <<locked, owned, start_, exit, reached, files, accepted>>

AtCap(e) == cap[e] > 0 /\ retired[e] >= cap[e]

(* Slip: the stop that came during the chunk is not read again.             *)
Check_StaleStop(e) ==
  /\ worker[e] = "check"
  /\ IF (guest[e] = "fault" \/ AtCap(e)) /\ state[e] = "Running"
     THEN state' = [state EXCEPT ![e] = "Stopping"]
     ELSE UNCHANGED state
  /\ reached' = [reached EXCEPT ![e] = AtCap(e)]
  /\ worker' = [worker EXCEPT ![e] = "decide"]
  /\ UNCHANGED <<stopRequested, paused, machineReady, thread, cap, status,
                 mode, bringUpNote, preparing, panel, fresh, owned, start_,
                 retired, guest, exit, files, promised>>

(* "Let the explicit lifecycle request win."                                *)
Check(e) ==
  /\ worker[e] = "check"
  /\ IF stopRequested[e]
     THEN /\ exit' = [exit EXCEPT ![e] = "stopped"]
          /\ worker' = [worker EXCEPT ![e] = "last"]
          /\ UNCHANGED <<state, reached>>
     ELSE /\ IF (guest[e] = "fault" \/ AtCap(e)) /\ state[e] = "Running"
             THEN state' = [state EXCEPT ![e] = "Stopping"]
             ELSE UNCHANGED state
          /\ reached' = [reached EXCEPT ![e] = AtCap(e)]
          /\ worker' = [worker EXCEPT ![e] = "decide"]
          /\ UNCHANGED exit
  /\ UNCHANGED <<stopRequested, paused, machineReady, thread, cap, status,
                 mode, bringUpNote, preparing, panel, fresh, owned, start_,
                 retired, guest, files, promised>>

(* Slip: the cap wins over a fault.                                         *)
Decide_CapFirst(e) ==
  /\ worker[e] = "decide"
  /\ IF reached[e]
     THEN /\ Publish(e, IF guest[e] = "ok" THEN "running" ELSE "halted")
          /\ exit' = [exit EXCEPT ![e] = "cap"]
          /\ worker' = [worker EXCEPT ![e] = "free"]
     ELSE \/ /\ Publish(e, IF guest[e] = "ok" THEN "running" ELSE "halted")
             /\ IF guest[e] = "ok"
                THEN /\ worker' = [worker EXCEPT ![e] = "top"]
                     /\ UNCHANGED exit
                ELSE /\ exit' = [exit EXCEPT ![e] = "fault"]
                     /\ worker' = [worker EXCEPT ![e] = "free"]
          \/ /\ guest[e] = "ok"
             /\ worker' = [worker EXCEPT ![e] = "top"]
             /\ UNCHANGED <<status, panel, fresh, exit>>
  /\ UNCHANGED <<state, stopRequested, paused, machineReady, thread, cap,
                 mode, bringUpNote, preparing, owned, start_, retired, guest,
                 reached, files, promised>>

(* The cap, then the publication that is due or not, then a fault.          *)
Decide(e) ==
  /\ worker[e] = "decide"
  /\ \/ /\ guest[e] = "ok" /\ reached[e]
        /\ exit' = [exit EXCEPT ![e] = "cap"]
        /\ worker' = [worker EXCEPT ![e] = "free"]
        /\ Publish(e, "running")
     \/ /\ guest[e] = "ok" /\ ~reached[e]
        /\ worker' = [worker EXCEPT ![e] = "top"]
        /\ \/ Publish(e, "running")
           \/ UNCHANGED <<status, panel, fresh>>
        /\ UNCHANGED exit
     \/ /\ guest[e] = "fault"
        /\ exit' = [exit EXCEPT ![e] = "fault"]
        /\ worker' = [worker EXCEPT ![e] = "free"]
        /\ Publish(e, "halted")
  /\ UNCHANGED <<state, stopRequested, paused, machineReady, thread, cap,
                 mode, bringUpNote, preparing, owned, start_, retired, guest,
                 reached, files, promised>>

(* What was drawn and written since the last publication.                   *)
LastPublish(e) ==
  /\ worker[e] = "last"
  /\ Publish(e, "running")
  /\ worker' = [worker EXCEPT ![e] = "free"]
  /\ UNCHANGED <<state, stopRequested, paused, machineReady, thread, cap,
                 mode, bringUpNote, preparing, owned, start_, retired, guest,
                 exit, reached, files, promised>>

(* Slip: the work image is closed before the machine is gone.               *)
FreeMachine_CloseFirst(e) ==
  /\ worker[e] = "free"
  /\ firmwareBoot' = [firmwareBoot EXCEPT ![e] = "none"]
  /\ worker' = [worker EXCEPT ![e] = "close"]
  /\ UNCHANGED <<locked, machine, bridged, start_, retired, guest, exit,
                 reached, files, promised>>

FreeMachine(e) ==
  /\ worker[e] = "free"
  /\ IF machineReady[e]
     THEN /\ machine' = [machine EXCEPT ![e] = FALSE]
          /\ bridged' = [bridged EXCEPT ![e] = FALSE]
     ELSE UNCHANGED <<machine, bridged>>
  /\ worker' = [worker EXCEPT ![e] = "close"]
  /\ UNCHANGED <<locked, firmwareBoot, start_, retired, guest, exit, reached,
                 files, promised>>

CloseBoot(e) ==
  /\ worker[e] = "close"
  /\ firmwareBoot' = [firmwareBoot EXCEPT ![e] = "none"]
  /\ worker' = [worker EXCEPT ![e] = "end"]
  /\ UNCHANGED <<locked, machine, bridged, start_, retired, guest, exit,
                 reached, files, promised>>

(* "Publish the terminal state only after the machine is gone."             *)
End(e) ==
  /\ worker[e] = "end"
  /\ machineReady' = [machineReady EXCEPT ![e] = FALSE]
  /\ thread' = [thread EXCEPT ![e] = FALSE]
  /\ CASE exit[e] = "stopped" ->
            /\ Blank(e)
            /\ status' = [status EXCEPT ![e] = "stopped"]
       [] exit[e] = "cap" ->
            /\ status' = [status EXCEPT ![e] = "cap reached"]
            /\ UNCHANGED <<panel, fresh>>
       [] OTHER -> UNCHANGED <<status, panel, fresh>>
  /\ BecomeIdle(e)
  /\ paused' = [paused EXCEPT ![e] = FALSE]
  /\ worker' = [worker EXCEPT ![e] = "none"]
  /\ retired' = [retired EXCEPT ![e] = 0]
  /\ reached' = [reached EXCEPT ![e] = FALSE]
  /\ UNCHANGED <<cap, mode, bringUpNote, preparing, owned, start_, guest,
                 exit, files, promised>>

Work(e) ==
  \/ Top(e) \/ Run(e) \/ Check(e) \/ Decide(e) \/ LastPublish(e)
  \/ FreeMachine(e) \/ CloseBoot(e) \/ End(e)

---------------------------------------------------------------------------
(* provisionRootFilesystem: and the calls of other threads                  *)

(* A failure is not one when the work image is there, whoever made it.      *)
Provisioned(e) ==
  /\ provisioner[e]
  /\ \/ /\ image' = "ready"
        /\ bringUpNote' = [bringUpNote EXCEPT ![e] = {"ready"}]
     \/ /\ image # "ready"
        /\ bringUpNote' = [bringUpNote EXCEPT ![e] = {"failed"}]
        /\ UNCHANGED image
  /\ preparing' = [preparing EXCEPT ![e] = FALSE]
  /\ provisioner' = [provisioner EXCEPT ![e] = FALSE]
  /\ UNCHANGED <<state, stopRequested, paused, machineReady, thread, cap,
                 status, mode, panel, fresh, owned, start_, work, firmware,
                 promised>>

(* Slip: a stop leaves the pause as it is.                                  *)
Stop_StaysPaused(e) ==
  /\ state[e] \in {"Starting", "Running"}
  /\ state' = [state EXCEPT ![e] = "Stopping"]
  /\ stopRequested' = [stopRequested EXCEPT ![e] = ~paused[e]]
  /\ accepted' = [accepted EXCEPT ![e] = TRUE]
  /\ UNCHANGED <<paused, machineReady, thread, cap, status, mode, bringUpNote,
                 preparing, panel, fresh, owned, start_, work, files, late>>

Stop(e) ==
  /\ state[e] \in {"Starting", "Running"}
  /\ stopRequested' = [stopRequested EXCEPT ![e] = TRUE]
  /\ paused' = [paused EXCEPT ![e] = FALSE]
  /\ state' = [state EXCEPT ![e] = "Stopping"]
  /\ accepted' = [accepted EXCEPT ![e] = TRUE]
  /\ UNCHANGED <<machineReady, thread, cap, status, mode, bringUpNote,
                 preparing, panel, fresh, owned, start_, work, files, late>>

SetPaused(e, p) ==
  /\ IF p /\ ~paused[e] /\ state[e] = "Running"
     THEN status' = [status EXCEPT ![e] = "paused"]
     ELSE UNCHANGED status
  /\ paused' = [paused EXCEPT ![e] = p]
  /\ UNCHANGED <<state, stopRequested, machineReady, thread, cap, mode,
                 bringUpNote, preparing, panel, fresh, owned, start_, work,
                 files, promised>>

SetInstructionCap(e, n) ==
  /\ cap' = [cap EXCEPT ![e] = n]
  /\ UNCHANGED <<state, stopRequested, paused, machineReady, thread, status,
                 mode, bringUpNote, preparing, panel, fresh, owned, start_,
                 work, files, promised>>

CopyFrame(e) ==
  /\ fresh[e] /\ panel[e] # "none"
  /\ fresh' = [fresh EXCEPT ![e] = FALSE]
  /\ UNCHANGED <<state, stopRequested, paused, machineReady, thread, cap,
                 status, mode, bringUpNote, preparing, panel, owned, start_,
                 work, files, promised>>

Call(e) ==
  \/ StartCall(e)
  \/ Stop(e)
  \/ \E p \in BOOLEAN : SetPaused(e, p)
  \/ \E n \in 0 .. MAX_RETIRED : SetInstructionCap(e, n)
  \/ CopyFrame(e)

---------------------------------------------------------------------------

Next == \E e \in Engines : Start(e) \/ Work(e) \/ Provisioned(e) \/ Call(e)

(* start runs on its caller's thread and nothing in it waits for another;
   a worker that sleeps looks again; s5l8900_run returns after a chunk.     *)
Fairness == \A e \in Engines : WF_vars(Start(e)) /\ WF_vars(Work(e))

Spec == Init /\ [][Next]_vars

FairSpec == Spec /\ Fairness

---------------------------------------------------------------------------
(* Properties.                                                              *)

Starting == {"snapshot", "early", "init", "resolve", "probe", "bringup",
             "claim", "guest", "thread", "commit", "spawn", "unwind",
             "unboot", "abandon"}
Working  == {"top", "run", "check", "decide", "last", "free", "close", "end"}

LockedOK ==
  /\ state \in [Engines -> {"Idle", "Starting", "Running", "Stopping"}]
  /\ stopRequested \in [Engines -> BOOLEAN]
  /\ paused \in [Engines -> BOOLEAN]
  /\ machineReady \in [Engines -> BOOLEAN]
  /\ thread \in [Engines -> BOOLEAN]
  /\ cap \in [Engines -> 0 .. MAX_RETIRED]
  /\ status \in [Engines -> {"idle", "starting", "running", "paused", "halted",
                             "stopped", "cap reached", "failed"}]
  /\ mode \in [Engines -> {"none", "test", "firmware"}]
  /\ bringUpNote \in [Engines -> SUBSET Facts]
  /\ preparing \in [Engines -> BOOLEAN]

PanelOK ==
  /\ panel \in [Engines -> {"none", "blank", "frame"}]
  /\ fresh \in [Engines -> BOOLEAN]
  /\ \A e \in Engines : fresh[e] => panel[e] # "none"

OwnedOK ==
  /\ machine \in [Engines -> BOOLEAN]
  /\ bridged \in [Engines -> BOOLEAN]
  /\ firmwareBoot \in [Engines -> {"none", "made", "open"}]

StartOK ==
  /\ starter \in [Engines -> Starting \cup {"none"}]
  /\ note \in [Engines -> SUBSET Facts]
  /\ failure \in [Engines -> {"idle", "failed", "stopped"}]

WorkOK ==
  /\ worker \in [Engines -> Working \cup {"none"}]
  /\ retired \in [Engines -> 0 .. MAX_RETIRED]
  /\ guest \in [Engines -> {"ok", "fault"}]
  /\ exit \in [Engines -> {"none", "stopped", "cap", "fault"}]
  /\ reached \in [Engines -> BOOLEAN]

FilesOK ==
  /\ provisioner \in [Engines -> BOOLEAN]
  /\ firmware \in BOOLEAN
  /\ image \in {"absent", "shared", "ready"}

PromisedOK ==
  /\ accepted \in [Engines -> BOOLEAN]
  /\ late \in [Engines -> Nat]

(* Types; and what is said to be there to be drawn is there
   (copyFrameInto:).                                                       *)
TypeOK == LockedOK /\ PanelOK /\ OwnedOK /\ StartOK /\ WorkOK /\ FilesOK /\ PromisedOK

(* start holds the machine until the worker does.                           *)
Building == {"resolve", "probe", "bringup", "claim", "guest", "thread",
             "commit", "spawn"}
Driving  == {"top", "run", "check", "decide", "last", "free"}

(* "Exactly one thread ever calls into it" (VMEngine.h:4): a machine has one
   owner, start or a worker, and an owner has a machine.                    *)
OneOwner(e) ==
  /\ starter[e] # "none" => worker[e] = "none"
  /\ starter[e] \in Building \/ worker[e] \in Driving => machine[e]
  /\ machine[e] => starter[e] \in Building \cup {"unwind"} \/ worker[e] \in Driving

(* The flags the other threads go by say what there is.                     *)
FlagsTell(e) ==
  /\ machineReady[e] <=> worker[e] # "none" \/ starter[e] = "spawn"
  /\ thread[e] <=> machineReady[e]
  /\ state[e] = "Running" => machineReady[e] /\ machine[e]
  /\ state[e] = "Idle" => starter[e] = "none" /\ worker[e] = "none"

(* "AFTER the machine, never before: the memory-disk bridges hold a borrowed
   descriptor onto the work image" (threadMain).                           *)
ImageOutlivesMachine(e) == bridged[e] => machine[e] /\ firmwareBoot[e] = "open"

(* An Idle engine, the only one that can be started, holds no DRAM and no
   work image.                                                             *)
IdleHoldsNothing(e) ==
  state[e] = "Idle" => ~machine[e] /\ firmwareBoot[e] = "none" /\ ~thread[e]

(* Whatever the order of starts, stops, pauses, caps, failures and halts,
   nothing is used after it is gone, freed while it is used, or kept.       *)
Ownership ==
  \A e \in Engines :
    OneOwner(e) /\ FlagsTell(e) /\ ImageOutlivesMachine(e) /\ IdleHoldsNothing(e)

(* "A failure reported as a success is the one outcome this project does not
   permit": what the engine says when its worker has ended is why it ended,
   and a stop that was accepted wins over a halt and leaves a black panel.  *)
EndToldTruly ==
  \A e \in Engines :
    state[e] = "Idle" /\ exit[e] # "none" =>
      /\ accepted[e] => status[e] = "stopped" /\ panel[e] = "blank"
      /\ ~accepted[e] /\ guest[e] = "fault" => status[e] = "halted"
      /\ ~accepted[e] /\ guest[e] = "ok" => status[e] = "cap reached"

(* "The outgoing guest can therefore write through its memory-disk bridge
   for up to one chunk" (resetTapped): no more than that, wherever start or
   the worker was when the stop came.                                      *)
OneChunkAfterStop == \A e \in Engines : late[e] <= 1

(* A start is decided and a stop, a halt or a reached cap ends in Idle, also
   of an engine that is paused: Reset and the next start depend on it.      *)
TransitionsEnd ==
  \A e \in Engines :
    state[e] \in {"Starting", "Stopping"} ~> state[e] \in {"Idle", "Running"}

(* "A suspended machine is retiring nothing, so say nothing rather than
   leaving ... a number that keeps claiming work is being done"
   (setPaused:): what is said of an engine whose worker sleeps.            *)
PausedSaysSo ==
  \A e \in Engines :
    worker[e] = "top" /\ paused[e] /\ state[e] = "Running" =>
      status[e] # "running"

(* "-bringUpNote: why the firmware path was not taken ... or what the app is
   doing about it" (VMEngine.h): it is being done.                          *)
NoteIsCurrent ==
  \A e \in Engines :
    starter[e] = "none" /\ "preparing" \in bringUpNote[e] => preparing[e]

(* isRunningFirmware *)
isRunningFirmware(e) == firmwareBoot[e] # "none" /\ mode[e] = "firmware"

(* "There is no path that makes this YES without bring-up succeeding"
   (VMEngine.h).                                                           *)
FirmwareClaimTrue ==
  \A e \in Engines : isRunningFirmware(e) /\ machine[e] => bridged[e]
=============================================================================
