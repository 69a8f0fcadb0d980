-------------------------------- MODULE Chip --------------------------------
(***************************************************************************)
(* The chip in an arbitrary environment.  The pads take any of the levels  *)
(* in UiValues and UioValues at every clock edge, so that a signal may     *)
(* change in any way between two edges, and reset may come at any time.    *)
(* The cycle-level core then implements the instruction-level              *)
(* specification; the other properties are those it does not state.        *)
(***************************************************************************)
EXTENDS Core

CONSTANTS
  UiValues,    \* the bytes the outside may drive on ui_in
  UioValues    \* the sets of uio pins that may be high

ASSUME UiAssumption == UiValues \subseteq Byte
ASSUME UioAssumption == UioValues \subseteq SUBSET PinIndex

Tick == \E ui \in UiValues, uio \in UioValues : Clock(ui, uio)

Next == Tick \/ Reset

Spec == Init /\ [][Next]_vars

(* The clock runs freely.                                                  *)
FairSpec == Spec /\ WF_vars(Tick)

-----------------------------------------------------------------------------

(***************************************************************************)
(* The refinement mapping.  Between a LOAD or LOADX and the end of the     *)
(* next FETCH_LO the loaded byte is on the read port of the SRAM and not   *)
(* yet in its register: the mapping applies it.  The wait count is read    *)
(* back from the down-counter.                                             *)
(***************************************************************************)
runBar == IF state = S_LOAD THEN "load" ELSE IF halted THEN "halt" ELSE "run"

loadedBar == IF boot_full THEN MemBytes ELSE boot_addr

phaseBar == IF halted THEN 0
            ELSE IF state = S_FETCH_HI THEN 1
            ELSE IF state = S_EXECUTE THEN 2 ELSE 0

counting ==
  /\ state = S_EXECUTE /\ ~halted /\ ~entering_execute
  /\ opcode = OP_DELAY \/ (opcode = OP_WAIT /\ wait_has_timeout)

waitedBar == IF counting THEN Shifted(cnt_mantissa, WExponent(word)) - count
                         ELSE 0

regsBar == IF pending_lx_writeback
             THEN [regs EXCEPT ![pending_lx_rd] = mem_rdata]
             ELSE regs

IsaLevel == INSTANCE Isa WITH
  run <- runBar, loaded <- loadedBar, phase <- phaseBar, waited <- waitedBar,
  regs <- regsBar, uo_out <- uo_out_reg, mem <- sram, pin_mode <- mode,
  pin_drv <- drv, ui_sync <- ui_in_ff2, uio_sync <- uio_in_ff2

(* Every program behaves, cycle by cycle, as golden_model.py says it does: *)
(* the pipeline, the two-byte fetch, the trailing writeback of LOAD and    *)
(* LOADX, and the shared counter are invisible to it (core.v).             *)
ImplementsIsa == IsaLevel!Spec

-----------------------------------------------------------------------------
FsmTypeOK ==
  /\ state \in {S_LOAD, S_FETCH_LO, S_FETCH_HI, S_EXECUTE}
  /\ pc \in WordAddr /\ ir_lo \in Byte /\ ir \in Word
  /\ entering_execute \in BOOLEAN /\ halted \in BOOLEAN
  /\ flag \in BOOLEAN /\ retaddr \in WordAddr /\ return_valid \in BOOLEAN
  /\ illegal_op_flag \in BOOLEAN /\ call_ret_misuse_flag \in BOOLEAN
  /\ boot_addr \in ByteAddr /\ boot_full \in BOOLEAN /\ load_ack \in BOOLEAN
  /\ uo_out_reg \in Byte
  /\ pending_lx_writeback \in BOOLEAN /\ pending_lx_rd \in RegIndex

DataTypeOK ==
  /\ regs \in [RegIndex -> Byte]
  /\ sram \in [ByteAddr -> Byte] /\ mem_rdata \in Byte
  /\ count \in 0..MaxCount

PinTypeOK ==
  /\ ui_in_ff1 \in Byte /\ ui_in_ff2 \in Byte
  /\ uio_in_ff1 \in SUBSET PinIndex /\ uio_in_ff2 \in SUBSET PinIndex
  /\ start_prev \in BOOLEAN /\ host_go_prev \in BOOLEAN
  /\ seen_start_fall \in BOOLEAN
  /\ mode \in [PinIndex -> 0..3] /\ drv \in [PinIndex -> Bit]

TypeOK == FsmTypeOK /\ DataTypeOK /\ PinTypeOK

(***************************************************************************)
(* The pipeline always works on the instruction that is in memory now,     *)
(* even when a STORE has just overwritten it: what each stage holds of the *)
(* word at pc is what the SRAM holds (core.v, word and mem_addr).          *)
(***************************************************************************)
FetchCoherent ==
  /\ state = S_FETCH_HI => mem_rdata = sram[2 * pc]
  /\ state = S_EXECUTE => word = WordAt(sram, pc)

(* The stages that the pipeline leaves behind: a writeback is pending only *)
(* for one FETCH_LO, only DELAY, WAIT and HALT stay in EXECUTE, and a      *)
(* counter in use has not passed its request.                              *)
StageInv ==
  /\ entering_execute => state = S_EXECUTE /\ ~halted
  /\ halted => state = S_EXECUTE /\ opcode = OP_HALT
  /\ pending_lx_writeback => state = S_FETCH_LO
  /\ state = S_EXECUTE /\ ~entering_execute =>
       opcode \in {OP_HALT, OP_DELAY, OP_WAIT}
  /\ opcode = OP_HALT /\ state = S_EXECUTE /\ ~entering_execute => halted
  /\ counting => count < Shifted(cnt_mantissa, WExponent(word))

(* Until START nothing has run: the architectural state is that of reset,  *)
(* and uo_out echoes the saturating byte count (core.v, S_LOAD).           *)
LoadInv ==
  /\ state = S_LOAD =>
       /\ pc = 0 /\ regs = [r \in RegIndex |-> 0]
       /\ ~flag /\ retaddr = 0 /\ ~return_valid
       /\ ~illegal_op_flag /\ ~call_ret_misuse_flag
       /\ uo_out_reg = boot_addr % 256
       /\ ~seen_start_fall
       /\ mode = [p \in PinIndex |-> SET_MODE_INPUT]
       /\ \A p \in PinIndex \ {HOST_STATUS} : drv[p] = 0
  /\ boot_full => boot_addr = MemBytes - 1

(* No instruction can change the half of the memory that holds the program *)
(* (docs/architecture.md LOAD; the STORE address of core.v:307-311).       *)
ProgramProtected ==
  [][state # S_LOAD =>
       \A a \in 0..(DATA_BASE - 1) : sram'[a] = sram[a]]_vars

(***************************************************************************)
(* uio[6] turns from START into HOST_ERROR only when a synchronized START  *)
(* has been seen to fall while running, and stays HOST_ERROR until reset   *)
(* (pin_ctrl.v:141-161).                                                   *)
(***************************************************************************)
DrivesStart == START \in UioOe(mode_load)

StartReleased ==
  [][/\ ~DrivesStart /\ DrivesStart' => START \notin uio_in_ff2 /\ start_prev
     /\ DrivesStart /\ ~DrivesStart' => state' = S_LOAD]_vars

(* A running program never stalls by itself: it keeps starting             *)
(* instructions unless it has halted, waits without a timeout or is reset. *)
KeepsGoing ==
  []<>(\/ state \in {S_LOAD, S_FETCH_LO}
       \/ halted
       \/ state = S_EXECUTE /\ opcode = OP_WAIT /\ ~wait_has_timeout)
=============================================================================
