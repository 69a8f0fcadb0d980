------------------------------ MODULE MCCycle ------------------------------
(***************************************************************************)
(* TLC instances of CycleRecords.                                          *)
(***************************************************************************)
EXTENDS CycleRecords
=============================================================================
