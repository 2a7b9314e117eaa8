------------------------------ MODULE VmBlock ------------------------------
(***************************************************************************)
(* The loops of core/src/vm_block.c that make a whole transfer of the short *)
(* ones of a backend.  A transfer is what its function has in locals:       *)
(* `done` is completed, `stuck` is no_progress, and `result` is "going"     *)
(* until the function returns.  A length counts units.                      *)
(***************************************************************************)
EXTENDS Naturals

CONSTANTS
  VM_BLOCK_MAX_CALLBACK_BYTES,  \* what a backend is asked for at most
  VM_BLOCK_NO_PROGRESS_LIMIT    \* answers without a unit before STALLED

ASSUME VmBlockAssumption ==
  /\ VM_BLOCK_MAX_CALLBACK_BYTES \in Nat \ {0}
  /\ VM_BLOCK_NO_PROGRESS_LIMIT \in Nat \ {0}

Results == {"going", "OK", "CANCELLED", "BACKEND", "STALLED", "PROTOCOL"}

(* vm_block_check_range has let the range pass.                             *)
Begun(length) ==
  [length |-> length, done |-> 0, stuck |-> 0,
   result |-> IF length = 0 THEN "OK" ELSE "going"]

Requested(t) ==
  IF t.length - t.done < VM_BLOCK_MAX_CALLBACK_BYTES THEN t.length - t.done
  ELSE VM_BLOCK_MAX_CALLBACK_BYTES

(* What a callback answers: a status, and units it says it has moved.       *)
Answers(t) ==
  [status : {"OK", "RETRY", "ERROR", "other"}, actual : 0 .. Requested(t) + 1]

Cancel(t) == [t EXCEPT !.result = "CANCELLED"]

Moved(t, n) ==
  [t EXCEPT !.done = @ + n, !.stuck = 0,
            !.result = IF t.done + n = t.length THEN "OK" ELSE "going"]

Waited(t) ==
  [t EXCEPT !.stuck = @ + 1,
            !.result = IF t.stuck + 1 >= VM_BLOCK_NO_PROGRESS_LIMIT
                       THEN "STALLED" ELSE "going"]

(* An answer no callback may give.                                          *)
Untrue(t, a) ==
  \/ a.actual > Requested(t)
  \/ a.status = "other"
  \/ a.status # "OK" /\ a.actual # 0

(* Slip: a backend that asks to be called again has not been stuck.         *)
Answered_RetryFree(t, a) ==
  IF Untrue(t, a) THEN [t EXCEPT !.result = "PROTOCOL"]
  ELSE IF a.status = "ERROR" THEN [t EXCEPT !.result = "BACKEND"]
  ELSE IF a.actual # 0 THEN Moved(t, a.actual)
  ELSE IF a.status = "RETRY" THEN [t EXCEPT !.stuck = 0]
  ELSE Waited(t)

(* Slip: an answer of more than was asked for is believed.                  *)
Answered_Trusting(t, a) ==
  IF a.status = "other" THEN [t EXCEPT !.result = "PROTOCOL"]
  ELSE IF a.status = "ERROR" THEN [t EXCEPT !.result = "BACKEND"]
  ELSE IF a.actual # 0 THEN Moved(t, a.actual)
  ELSE Waited(t)

(* One turn of the loop of vm_block_read_exact or vm_block_write_exact.     *)
Answered(t, a) ==
  IF Untrue(t, a) THEN [t EXCEPT !.result = "PROTOCOL"]
  ELSE IF a.status = "ERROR" THEN [t EXCEPT !.result = "BACKEND"]
  ELSE IF a.actual # 0 THEN Moved(t, a.actual)
  ELSE Waited(t)
=============================================================================
