----------------------------- MODULE GuestInput -----------------------------
(***************************************************************************)
(* A finger on the app's glass and keys, as far as the guest's drivers: the *)
(* queues of VMTouchQueue.c and VMButtonQueue.c, filled on the main thread  *)
(* (-setButton:, -sendTouchAtGuestX: of VMEngine.m) and drained by the      *)
(* emulator thread between chunks, InputBoard's switches, controller and    *)
(* touch part, and the guest, whose drivers are modelled from what          *)
(* core/include/soc.h and test_buttons.c decoded of them: the interrupt     *)
(* handler, the debounce of AppleM68Buttons and the read of a frame.        *)
(*                                                                         *)
(* The peek and the pop of a drain are two holds of _lock, with the call to *)
(* the device between them.  A step of the guest is one instruction with    *)
(* its access to a device and the tick after it.  A report is its number    *)
(* and its phase; coordinates are left out, time is the order of steps.     *)
(***************************************************************************)
EXTENDS Naturals, Sequences, InputBoard

CONSTANTS
  Order,           \* the lines in the order their drivers set them up
  VM_BUTTON_QUEUE_CAP, VM_TOUCH_QUEUE_CAP,
  MAX_INPUTS,      \* bounds for TLC: presses and reports,
  MAX_PAUSES,      \* pauses,
  MAX_RESETS       \* and resets of the touch part

ASSUME GuestInputAssumption ==
  /\ Order \in [1 .. Cardinality(Lines) -> Lines]
  /\ \A line \in Lines : \E i \in DOMAIN Order : Order[i] = line
  /\ {VM_BUTTON_QUEUE_CAP, VM_TOUCH_QUEUE_CAP} \subseteq Nat \ {0, 1}
  /\ {MAX_INPUTS, MAX_PAUSES, MAX_RESETS} \subseteq Nat

VARIABLES
  ui,       \* the main thread: [paused, presses, reports, pauses, down, edges]
  keys,     \* _buttons: what the main thread last said of each key
  wanted,   \* what the last transition taken of each key said
  bq,       \* _buttonQueue
  tq,       \* _touch
  at,       \* where the emulator thread is in its loop
  held,     \* s5l_buttons_t.pressed
  ic,       \* s5l_gpioic_t
  mtz2,     \* [in_reset, hbpp_mode, frame]
  vic,      \* the groups whose line of the VIC is up
  seen,     \* ext_seen
  driver,   \* the drivers: [irq, setup, timer, sample, work, resets]
  shadow,   \* the switches AppleM68Buttons has reported as pressed
  heard,    \* the reports the guest has read
  gone      \* the reports the device or the guest threw away

inputVars == <<ui, keys, wanted, bq, tq, at, held, ic, mtz2, vic, seen, driver,
               shadow, heard, gone>>
board == <<held, ic, mtz2, vic, seen>>
queues == <<bq, tq>>
hostside == <<ui, keys, wanted>>
guestside == <<driver, shadow, heard>>

NoFrame == <<>>
atn(m) == m.frame # NoFrame
Reports(s) == [i \in DOMAIN s |-> s[i].n]
Numbers(s) == {s[i].n : i \in DOMAIN s}

InputInit ==
  /\ ui = [paused |-> FALSE, presses |-> 0, reports |-> 0, pauses |-> 0,
           down |-> FALSE, edges |-> {}]
  /\ keys = {} /\ wanted = {} /\ bq = <<>> /\ tq = <<>>
  /\ at = "top"
  /\ held = {} /\ ic = s5l_buttons_apply({}, s5l_gpioic_reset)
  /\ mtz2 = [in_reset |-> TRUE, hbpp_mode |-> TRUE, frame |-> NoFrame]
  /\ vic = {} /\ seen = ext_inputs({}, FALSE)
  /\ driver = [irq |-> [at |-> "off"], setup |-> 0, timer |-> FALSE,
              sample |-> {}, work |-> FALSE, resets |-> 0]
  /\ shadow = {} /\ heard = <<>> /\ gone = {}

(***************************************************************************)
(* The machine's clock.                                                     *)
(***************************************************************************)
(* Slip: an access of the guest to a device does not mark the levels dirty. *)
Ticked_NotDirty(dirty, held2, ic2, m2) ==
  IF ext_inputs(held2, atn(m2)) # seen
  THEN /\ ic' = Refreshed(ic2, held2, atn(m2))
       /\ vic' = Cascade(ic')
       /\ seen' = ext_inputs(held2, atn(m2))
  ELSE /\ ic' = ic2
       /\ UNCHANGED <<vic, seen>>

(* s5l8900_tick after an instruction (dirty: it accessed a device) or with no
   ticks: the levels are derived again unless nothing can have moved them.   *)
Ticked(dirty, held2, ic2, m2) ==
  IF dirty \/ ext_inputs(held2, atn(m2)) # seen
  THEN /\ ic' = Refreshed(ic2, held2, atn(m2))
       /\ vic' = Cascade(ic')
       /\ seen' = ext_inputs(held2, atn(m2))
  ELSE /\ ic' = ic2
       /\ UNCHANGED <<vic, seen>>

(***************************************************************************)
(* The main thread.                                                         *)
(***************************************************************************)
(* Slip: the last slot is one too far.                                      *)
BPushed_OneMore(q, e) ==
  IF Len(q) <= VM_BUTTON_QUEUE_CAP THEN Append(q, e) ELSE q

(* vm_button_queue_push: a transition is never coalesced away; a full queue
   drops the new one.                                                       *)
BPushed(q, e) == IF Len(q) < VM_BUTTON_QUEUE_CAP THEN Append(q, e) ELSE q

(* Slip: a full queue lets anything take the place of the last report.      *)
TPushed_Edge(q, c) ==
  IF Len(q) < VM_TOUCH_QUEUE_CAP THEN Append(q, c) ELSE [q EXCEPT ![Len(q)] = c]

(* vm_touch_queue_push: only a move is coalesced, and only with a move.     *)
TPushed(q, c) ==
  CASE Len(q) < VM_TOUCH_QUEUE_CAP -> Append(q, c)
    [] /\ Len(q) = VM_TOUCH_QUEUE_CAP
       /\ c.phase = "TOUCHING" /\ q[Len(q)].phase = "TOUCHING" ->
         [q EXCEPT ![Len(q)] = c]
    [] OTHER -> q

Inputs == ui.presses + ui.reports

(* A press or a release: recorded and queued.  A pause stops the drains only:
   what is pressed during it waits in the queue.                            *)
setButton(b) ==
  LET pressed == b \notin keys
      e == [which |-> b, pressed |-> pressed]
  IN /\ Inputs < MAX_INPUTS
     /\ ui' = [ui EXCEPT !.presses = @ + 1]
     /\ keys' = Switched(keys, b, pressed)
     /\ bq' = BPushed(bq, e)
     /\ wanted' = IF Len(bq) = VM_BUTTON_QUEUE_CAP THEN wanted
                  ELSE Switched(wanted, b, pressed)
     /\ UNCHANGED <<tq, at, board, guestside, gone>>

(* The phases UIKit gives one finger.                                       *)
sendTouch(phase) ==
  LET c == [n |-> ui.reports + 1, phase |-> phase]
  IN /\ Inputs < MAX_INPUTS
     /\ phase = "MAKE_TOUCH" <=> ~ui.down
     /\ ui' = [ui EXCEPT !.reports = @ + 1, !.down = phase # "BREAK_TOUCH",
                         !.edges = IF phase = "TOUCHING" THEN @ ELSE @ \cup {c.n}]
     /\ tq' = TPushed(tq, c)
     /\ gone' = IF c.n \in Numbers(tq') THEN gone ELSE gone \cup {c.n}
     /\ UNCHANGED <<keys, wanted, bq, at, board, guestside>>

setPaused ==
  /\ ui.paused \/ ui.pauses < MAX_PAUSES
  /\ ui' = [ui EXCEPT !.paused = ~@, !.pauses = IF ui.paused THEN @ ELSE @ + 1]
  /\ UNCHANGED <<keys, wanted, queues, at, board, guestside, gone>>

(***************************************************************************)
(* The emulator thread: one report, one transition, then a chunk.           *)
(***************************************************************************)
(* s5l_mtz2_set_contacts: not in reset, not while it is a bootloader, not
   while a report waits to be read.                                         *)
Accepts(m) == ~m.in_reset /\ ~m.hbpp_mode /\ m.frame = NoFrame

(* -drainOneTouch_emulatorThread.  The oldest report is peeked at and handed
   over; the pop is another hold of the lock.  A refusal keeps the report
   while the attention line is up, and else throws it away.  threadMain looks
   at _paused first.                                                        *)
drainOneTouch ==
  /\ at = "top" /\ ~ui.paused
  /\ UNCHANGED <<hostside, queues, held, guestside, gone>>
  /\ IF tq # <<>> /\ Accepts(mtz2)
     THEN /\ mtz2' = [mtz2 EXCEPT !.frame = <<Head(tq)>>]
          /\ Ticked(TRUE, held, ic, mtz2')
          /\ at' = "touch_pop"
     ELSE /\ at' = IF tq = <<>> \/ atn(mtz2) THEN "button" ELSE "touch_drop"
          /\ UNCHANGED <<ic, mtz2, vic, seen>>

PopTouch ==
  /\ at \in {"touch_pop", "touch_drop"}
  /\ at' = "button"
  /\ tq' = Tail(tq)
  /\ gone' = IF at = "touch_drop" THEN gone \cup {Head(tq).n} ELSE gone
  /\ UNCHANGED <<hostside, bq, board, guestside>>

(* Slip: a transition the board refuses is popped all the same.             *)
drainOneButton_Drops ==
  /\ at = "button"
  /\ UNCHANGED <<hostside, queues, mtz2, guestside, gone>>
  /\ IF bq = <<>> THEN at' = "chunk" /\ UNCHANGED <<held, ic, vic, seen>>
     ELSE LET e == Head(bq)
              set == ~Refuses(held, ic, e.which, e.pressed)
          IN /\ held' = IF set THEN Switched(held, e.which, e.pressed) ELSE held
             /\ Ticked(TRUE, held', ic, mtz2)
             /\ at' = "button_pop"

(* -drainOneButton_emulatorThread over s5l_buttons_set, which drives the line
   at once.  A refused transition stays.                                    *)
drainOneButton ==
  /\ at = "button"
  /\ UNCHANGED <<hostside, queues, mtz2, guestside, gone>>
  /\ IF bq = <<>> \/ Refuses(held, ic, Head(bq).which, Head(bq).pressed)
     THEN at' = "chunk" /\ UNCHANGED <<held, ic, vic, seen>>
     ELSE LET e == Head(bq)
              line == s5l_gpioic_set_line(ic, e.which,
                                          s5l_button_level(e.which, e.pressed))
          IN /\ held' = Switched(held, e.which, e.pressed)
             /\ Ticked(TRUE, held', IF held' = held THEN ic ELSE line, mtz2)
             /\ at' = "button_pop"

PopButton ==
  /\ at = "button_pop"
  /\ at' = "chunk"
  /\ bq' = Tail(bq)
  /\ UNCHANGED <<hostside, tq, board, guestside, gone>>

ChunkEnds ==
  /\ at = "chunk"
  /\ at' = "top"
  /\ UNCHANGED <<hostside, queues, board, guestside, gone>>

(***************************************************************************)
(* The guest, an instruction at a time.                                     *)
(***************************************************************************)
Runs == at = "chunk"
InThread == Runs /\ driver.irq.at = "off"
Unmoved == UNCHANGED <<hostside, queues, at, held>>

(* An instruction that accesses a device and leaves the controller at ic2.  *)
Accesses(ic2) == Ticked(TRUE, held, ic2, mtz2) /\ UNCHANGED mtz2

(* s5l8900_refresh at an edge of the timebase, whatever is dirty.           *)
TimebaseEdge ==
  /\ Runs
  /\ ic' = Refreshed(ic, held, atn(mtz2))
  /\ vic' = Cascade(ic')
  /\ seen' = ext_inputs(held, atn(mtz2))
  /\ Unmoved
  /\ UNCHANGED <<mtz2, guestside, gone>>

(* The handler of AppleS5L8900XGPIOIC for one group: it reads the pending word
   until it is zero, and never masks it with the enables.                   *)
TakeIrq ==
  /\ InThread
  /\ \E g \in vic : driver' = [driver EXCEPT !.irq = [at |-> "read", group |-> g]]
  /\ Unmoved
  /\ UNCHANGED <<ic, mtz2, vic, seen, shadow, heard, gone>>

(* A level line with auto-flip has its polarity inverted and its child called
   before the acknowledge; an edge line is acknowledged first.              *)
AutoFlips(line) ==
  line \in Buttons /\ \E i \in DOMAIN Order : Order[i] = line /\ driver.setup > 4 * (i - 1)

ReadStat ==
  /\ Runs /\ driver.irq.at = "read"
  /\ LET pending == ic.stat \cap InGroup(driver.irq.group)
         to(where, line) == [at |-> where, group |-> driver.irq.group, line |-> line]
     IN \/ pending = {} /\ driver' = [driver EXCEPT !.irq = [at |-> "off"]]
        \/ \E line \in pending :
             driver' = [driver EXCEPT
               !.irq = to(IF AutoFlips(line) THEN "flip" ELSE "ack", line)]
  /\ Accesses(ic)
  /\ Unmoved
  /\ UNCHANGED <<shadow, heard, gone>>

(* The level of one line inverted in the word it is in.                     *)
Flipped(line) ==
  LET word == ic.level \cap InGroup(Group(line))
  IN IF line \in word THEN word \ {line} ELSE word \cup {line}

Flip ==
  /\ Runs /\ driver.irq.at = "flip"
  /\ driver' = [driver EXCEPT !.irq.at = "ack", !.timer = TRUE]
  /\ Accesses(INTLEVEL(ic, driver.irq.group, Flipped(driver.irq.line)))
  /\ Unmoved
  /\ UNCHANGED <<shadow, heard, gone>>

Acknowledge ==
  /\ Runs /\ driver.irq.at = "ack"
  /\ driver' = [driver EXCEPT !.irq = [at |-> "read", group |-> driver.irq.group],
                            !.work = @ \/ driver.irq.line = MULTITOUCH]
  /\ Accesses(INTSTAT(ic, driver.irq.group, {driver.irq.line}))
  /\ Unmoved
  /\ UNCHANGED <<shadow, heard, gone>>

(* initVector writes INTTYPE, then INTLEVEL; enable clears what is pending,
   then sets the enable.  The polarity of a switch is the one that its rest
   does not assert.  The lines are set up one after the other.              *)
Word(bits, line, one) ==
  LET word == bits \cap InGroup(Group(line))
  IN IF one THEN word \cup {line} ELSE word \ {line}

Drivers == 4 * Len(Order)

SetUp ==
  /\ InThread /\ driver.setup < Drivers
  /\ driver' = [driver EXCEPT !.setup = @ + 1]
  /\ LET line == Order[1 + (driver.setup \div 4)]
         g == Group(line)
         switch == line \in Buttons
         rises == switch /\ line \notin RestsHigh
         step == driver.setup % 4
     IN \/ step = 0 /\ Accesses(INTTYPE(ic, g, Word(ic.type, line, switch)))
        \/ step = 1 /\ Accesses(INTLEVEL(ic, g, Word(ic.level, line, rises)))
        \/ step = 2 /\ Accesses(INTSTAT(ic, g, {line}))
        \/ step = 3 /\ Accesses(INTEN(ic, g, Word(ic.en, line, TRUE)))
  /\ Unmoved
  /\ UNCHANGED <<shadow, heard, gone>>

(* AppleMultitouchZ2SPI brings the part up with its line armed: the reset pin
   is released, then the firmware is in (MTZ2_OP_HBPP_EXEC).                *)
Moves(m2) ==
  /\ mtz2' = m2
  /\ Ticked(TRUE, held, ic, m2)
  /\ Unmoved

BringUpPart ==
  /\ InThread /\ driver.setup = Drivers
  /\ \/ mtz2.in_reset /\ Moves([mtz2 EXCEPT !.in_reset = FALSE])
     \/ ~mtz2.in_reset /\ mtz2.hbpp_mode /\ Moves([mtz2 EXCEPT !.hbpp_mode = FALSE])
  /\ UNCHANGED <<guestside, gone>>

(* s5l_mtz2_reset_pin, asserted again: the report that waits does not survive. *)
ResetPart ==
  /\ InThread /\ driver.resets < MAX_RESETS /\ ~mtz2.in_reset
  /\ driver' = [driver EXCEPT !.resets = @ + 1]
  /\ gone' = gone \cup Numbers(mtz2.frame)
  /\ Moves([mtz2 EXCEPT !.in_reset = TRUE, !.frame = NoFrame])
  /\ UNCHANGED <<shadow, heard>>

(* The work loop reads the frame; the last octet drops the attention line.
   A part in reset, or one that is a bootloader, has none.                  *)
ReadFrame ==
  /\ InThread /\ driver.work
  /\ driver' = [driver EXCEPT !.work = FALSE]
  /\ heard' = heard \o Reports(mtz2.frame)
  /\ Moves([mtz2 EXCEPT !.frame = NoFrame])
  /\ UNCHANGED <<shadow, gone>>

(* The one-shot timer of AppleM68Buttons: at its expiry all the pins are
   sampled, one after the other, and a difference is reported.              *)
TimerFires ==
  /\ InThread /\ driver.timer /\ driver.sample = {}
  /\ driver' = [driver EXCEPT !.timer = FALSE, !.sample = Buttons]
  /\ Unmoved
  /\ UNCHANGED <<ic, mtz2, vic, seen, shadow, heard, gone>>

Sample(b) ==
  /\ InThread /\ b \in driver.sample
  /\ driver' = [driver EXCEPT !.sample = @ \ {b}]
  /\ shadow' = Switched(shadow, b, (b \in ic.raw) # (b \in RestsHigh))
  /\ Accesses(ic)
  /\ Unmoved
  /\ UNCHANGED <<heard, gone>>

Handler == TakeIrq \/ ReadStat \/ Flip \/ Acknowledge

InputNext ==
  \/ \E b \in Buttons : setButton(b)
  \/ \E phase \in {"MAKE_TOUCH", "TOUCHING", "BREAK_TOUCH"} : sendTouch(phase)
  \/ setPaused
  \/ drainOneTouch \/ PopTouch
  \/ drainOneButton \/ PopButton \/ ChunkEnds
  \/ TimebaseEdge \/ Handler
  \/ SetUp \/ BringUpPart \/ ResetPart \/ ReadFrame \/ TimerFires
  \/ \E b \in Buttons : Sample(b)

InputSpec == InputInit /\ [][InputNext]_inputVars

(* The emulator thread goes on; a chunk is 100,000 instructions, so in chunks
   enough the guest does one of the things it goes on being able to do.     *)
GuestWorks ==
  \/ Handler \/ SetUp \/ BringUpPart \/ ReadFrame \/ TimerFires
  \/ \E b \in Buttons : Sample(b)

FairInputSpec ==
  /\ InputSpec
  /\ WF_inputVars(drainOneTouch \/ PopTouch \/ drainOneButton \/ PopButton \/ ChunkEnds)
  /\ SF_inputVars(GuestWorks)

(***************************************************************************)
(* Properties.                                                              *)
(***************************************************************************)
(* What the queues, the controller and the drivers hold.                    *)
InputTypeOK ==
  /\ \A i \in DOMAIN bq : bq[i] \in [which : Buttons, pressed : BOOLEAN]
  /\ Len(bq) <= VM_BUTTON_QUEUE_CAP /\ Len(tq) <= VM_TOUCH_QUEUE_CAP
  /\ at \in {"top", "touch_pop", "touch_drop", "button", "button_pop",
             "chunk"}
  /\ at = "button_pop" => bq # <<>>
  /\ at \in {"touch_pop", "touch_drop"} => tq # <<>>
  /\ {keys, wanted, held, shadow} \subseteq SUBSET Buttons
  /\ \A r \in DOMAIN ic : ic[r] \subseteq Lines
  /\ Len(mtz2.frame) <= 1 /\ (mtz2.in_reset => mtz2.frame = NoFrame)
  /\ driver.irq.at \in {"off", "read", "flip", "ack"}

(* "Never not at all" (level_dirty, soc.h): before every instruction the CPU
   sees the interrupts a machine that refreshed on every tick would show it. *)
CascadeFresh ==
  /\ vic = Cascade(ic)
  /\ (MULTITOUCH \in ic.raw) = atn(mtz2)
  /\ \A b \in Buttons : (b \in ic.raw) = s5l_button_level(b, b \in held)

(* When all is quiet (nothing queued, pending, timed or sampled) the guest
   reports as pressed what the finger last said: no press or release has been
   lost between two interrupts, a flip of the polarity and a debounce.      *)
Quiet ==
  /\ bq = <<>> /\ at # "button_pop"
  /\ driver.setup = Drivers
  /\ ic.stat \cap Buttons = {}
  /\ driver.irq.at = "off" /\ ~driver.timer /\ driver.sample = {}

QuietIsTrue == Quiet => shadow = held /\ held = wanted

(* Reports reach the guest once and in order, and of a gesture's edges only
   those are missing that a full queue or a device in reset refused:
   "replacing an edge would lose a tap".                                    *)
OnTheWay ==
  heard \o (IF at = "touch_pop" THEN <<>> ELSE Reports(mtz2.frame)) \o Reports(tq)

EdgesKept ==
  /\ at # "touch_pop" =>
       \A i, j \in DOMAIN OnTheWay : i < j => OnTheWay[i] < OnTheWay[j]
  /\ ui.edges \subseteq gone \cup {OnTheWay[i] : i \in DOMAIN OnTheWay}

(* While the machine is not paused for good, what the fingers did is heard: the
   keys settle as the last transitions taken, and every report is read or
   refused.                                                                 *)
AllHeard ==
  <>[]~ui.paused => <>[](bq = <<>> /\ shadow = wanted /\ tq = <<>> /\ ~atn(mtz2))

(* "Dropping either turns a tap into nothing" (VMButtonQueue.h): no transition
   the board accepted is passed over by the driver.                         *)
TapSeen ==
  [][\A b \in Buttons : (b \in held) # (b \in held') => (b \in held) = (b \in shadow)]_inputVars
=============================================================================
