----------------------------- MODULE InputBoard -----------------------------
(***************************************************************************)
(* What the machine wires a finger to: the GPIO interrupt controller        *)
(* (core/src/soc/gpioic.c), the switches of core/src/soc/buttons.c on it,   *)
(* the attention line of the touch controller (mtz2.c), and the refresh of  *)
(* core/src/soc/machine.c that hands both to the CPU.  Operators only: the  *)
(* state is GuestInput's.                                                   *)
(*                                                                         *)
(* A register is the set of the lines whose bit is one; group 1 has the     *)
(* switches and group 4 the touch controller.  A pin and a line of a switch *)
(* carry the same level (s5l_buttons_apply drives both).                    *)
(***************************************************************************)
EXTENDS FiniteSets, FiniteSetsExt

CONSTANTS
  Buttons,
  RestsHigh,     \* switches whose released level is high: volup, voldown
  MULTITOUCH     \* line 155

ASSUME InputBoardAssumption ==
  /\ IsFiniteSet(Buttons) /\ RestsHigh \subseteq Buttons
  /\ MULTITOUCH \notin Buttons

Lines == Buttons \cup {MULTITOUCH}
Groups == {1, 4}
Group(line) == IF line = MULTITOUCH THEN 4 ELSE 1
InGroup(g) == {line \in Lines : Group(line) = g}

s5l_gpioic_reset ==
  [raw |-> {}, driven |-> {}, level |-> {}, type |-> {}, en |-> {}, stat |-> {}]

(* Every level line of the group whose wire is at the selected polarity is
   latched.  Set-only, and only of lines something drives.                  *)
relatch_level(ic, g) ==
  LET asserting == {line \in InGroup(g) : line \in ic.raw <=> line \in ic.level}
  IN [ic EXCEPT !.stat = @ \cup (asserting \cap ic.type \cap ic.driven)]

(* Slip: an acknowledge that leaves a level line's latch as it was.         *)
INTSTAT_Sticky(ic, g, ones) ==
  relatch_level([ic EXCEPT !.stat = @ \ (ones \ ic.type)], g)

(* s5l_gpioic_write, bank by bank; `ones` are the bits of the group written
   as one.                                                                  *)
INTLEVEL(ic, g, ones) ==
  relatch_level([ic EXCEPT !.level = (@ \ InGroup(g)) \cup ones], g)

INTSTAT(ic, g, ones) == relatch_level([ic EXCEPT !.stat = @ \ ones], g)

INTEN(ic, g, ones) == [ic EXCEPT !.en = (@ \ InGroup(g)) \cup ones]

INTTYPE(ic, g, ones) ==
  relatch_level([ic EXCEPT !.type = (@ \ InGroup(g)) \cup ones], g)

Driven(ic, line, high) ==
  [ic EXCEPT !.raw = IF high THEN @ \cup {line} ELSE @ \ {line},
             !.driven = @ \cup {line}]

(* A level line is looked at when its wire moves or is first driven; an edge
   line latches when it rises.                                              *)
s5l_gpioic_set_line(ic, line, high) ==
  LET now == Driven(ic, line, high)
      moves == high # (line \in ic.raw) \/ line \notin ic.driven
  IN CASE line \in ic.type /\ moves -> relatch_level(now, Group(line))
       [] line \notin ic.type /\ high /\ line \notin ic.raw ->
            [now EXCEPT !.stat = @ \cup {line}]
       [] OTHER -> now

s5l_gpioic_pending(ic, line) == line \in ic.stat

s5l_gpioic_group_irq(ic, g) == ic.stat \cap ic.en \cap InGroup(g) # {}

(* active_high and the driver's own inversion, composed.                    *)
s5l_button_level(which, pressed) == pressed # (which \in RestsHigh)

(* Every switch drives its line; `held` are those pressed.                  *)
s5l_buttons_apply(held, ic) ==
  FoldSet(
    LAMBDA which, acc :
      s5l_gpioic_set_line(acc, which, s5l_button_level(which, which \in held)),
    ic, Buttons)

(* The end of s5l8900_refresh: the attention line, then the switches.       *)
Refreshed(ic, held, atn) ==
  s5l_buttons_apply(held, s5l_gpioic_set_line(ic, MULTITOUCH, atn))

(* The lines of the VIC the groups drive, which are what the CPU sees.      *)
Cascade(ic) == {g \in Groups : s5l_gpioic_group_irq(ic, g)}

(* What a host can move without the bus.                                    *)
ext_inputs(held, atn) == [pressed |-> held, atn |-> atn]

(* s5l_buttons_set refuses a switch whose line is not armed, or whose last
   transition the guest has not acknowledged; one already there is no
   request.                                                                 *)
Refuses(held, ic, which, pressed) ==
  /\ (which \in held) # pressed
  /\ which \notin ic.en \/ s5l_gpioic_pending(ic, which)

Switched(held, which, pressed) ==
  IF pressed THEN held \cup {which} ELSE held \ {which}
=============================================================================
