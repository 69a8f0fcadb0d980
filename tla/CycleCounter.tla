---------------------------- MODULE CycleCounter ----------------------------
(***************************************************************************)
(* The countdown shared by DELAY and WAIT (src/src/io/cycle_counter.v).    *)
(* A load costs no cycle of its own: the counter is preset to one less     *)
(* than the requested number of cycles, and expired is computed from the   *)
(* request itself in the cycle of the load.                                *)
(***************************************************************************)
EXTENDS IsaDefs

VARIABLE count

MaxCount == 16777215   \* the register has 24 bits

CounterReset == count' = 0

CounterClockLate(load, mantissa, exponent) ==   \* fault: one cycle too many
  count' = IF load THEN Shifted(mantissa, exponent)
                   ELSE IF count = 0 THEN 0 ELSE count - 1

(* What the count becomes at the next clock edge.                          *)
CounterClock(load, mantissa, exponent) ==
  LET shifted == Shifted(mantissa, exponent)
  IN  count' = IF load THEN IF shifted = 0 THEN 0 ELSE shifted - 1
                       ELSE IF count = 0 THEN 0 ELSE count - 1

(* The level of `expired` in the current cycle.                            *)
Expired(load, mantissa, exponent) ==
  IF load THEN Shifted(mantissa, exponent) = 0 ELSE count = 0
=============================================================================
