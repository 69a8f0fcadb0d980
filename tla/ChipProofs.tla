----------------------------- MODULE ChipProofs -----------------------------
(***************************************************************************)
(* Proofs about the chip in an arbitrary environment, for every size of    *)
(* the memory, every content of it and every input.                        *)
(***************************************************************************)
EXTENDS Chip, IsaDefsProofs

-----------------------------------------------------------------------------
(* The wires of core.v have the widths it declares.                        *)

(* The word being decoded, and what is read with its fields.               *)
LEMMA DecodeTypes ==
  ASSUME TypeOK
  PROVE  /\ word \in Word
         /\ opcode \in 0..31
         /\ pin_index \in PinIndex
         /\ pin_read \in Bit
         /\ ra_data \in Byte
         /\ rb_data \in Byte
<1>1. word \in Word
  BY WordOfBytes DEF TypeOK, FsmTypeOK, DataTypeOK, word
<1>2. opcode \in 0..31
  BY <1>1, FieldTypes DEF opcode
<1>3. pin_index \in PinIndex
  BY <1>1, FieldTypes DEF pin_index, PinIndex, HOST_STATUS
<1>4. pin_read \in Bit
  BY DEF pin_read, PinRead, Bit
<1>5. ra_data \in Byte /\ rb_data \in Byte
  BY <1>1, FieldTypes DEF ra_data, rb_data, TypeOK, DataTypeOK
<1> QED
  BY <1>1, <1>2, <1>3, <1>4, <1>5

(* What is written to the register file.                                   *)
LEMMA RegWriteTypes ==
  ASSUME TypeOK
  PROVE  reg_w_sel \in RegIndex /\ reg_w_data \in Byte
<1>1. reg_w_sel \in RegIndex
  BY DecodeTypes, FieldTypes DEF reg_w_sel
<1>2. reg_w_data \in Byte
  <2>1. WLdiValue(word) \in Byte /\ ui_in_sync \in Byte
    BY DecodeTypes, FieldTypes DEF ui_in_sync, TypeOK, PinTypeOK
  <2>2. /\ ShiftByte(ra_data, WShiftDir(word)) \in Byte
        /\ InsertBit(ra_data, WAuxBit(word), pin_read) \in Byte
        /\ XorByte(ra_data, rb_data) \in Byte
    BY DecodeTypes, FieldTypes, ShiftByteType, InsertBitType, XorByteType
  <2>3. (ra_data - 1) % 256 \in Byte /\ (ra_data + rb_data) % 256 \in Byte
    <3>1. ra_data \in Int /\ rb_data \in Int
      BY DecodeTypes, ByteBounds
    <3>2. ASSUME NEW x \in Int PROVE x % 256 \in Byte
      BY DEF Byte
    <3> QED
      BY <3>1, <3>2
  <2>4. 0 \in Byte
    BY DEF Byte
  <2> QED
    BY <2>1, <2>2, <2>3, <2>4 DEF reg_w_data
<1> QED
  BY <1>1, <1>2

(* The port of the SRAM.                                                   *)
LEMMA MemPortTypes ==
  ASSUME TypeOK
  PROVE  mem_addr \in ByteAddr /\ mem_wdata \in Byte
<1>1. Words \in Nat \ {0}
  BY WordsAssumption
<1>2. /\ boot_addr \in ByteAddr /\ 2 * pc \in ByteAddr
      /\ 2 * pc + 1 \in ByteAddr /\ 0 \in ByteAddr
  BY <1>1 DEF TypeOK, FsmTypeOK, WordAddr, ByteAddr, MemBytes
<1>3. ASSUME NEW offset \in Int PROVE DataAddr(offset) \in ByteAddr
  <2>1. offset % Words \in 0..(Words - 1)
    BY <1>1, ModRange
  <2> QED
    BY <1>1, <2>1 DEF DataAddr, DATA_BASE, ByteAddr, MemBytes
<1>4. WImm(word) \in Int /\ rb_data \in Int
  BY DecodeTypes, FieldTypes DEF Byte
<1>5. DataAddr(WImm(word)) \in ByteAddr /\ DataAddr(rb_data) \in ByteAddr
  BY <1>3, <1>4
<1>6. mem_addr \in ByteAddr
  BY <1>2, <1>5 DEF mem_addr
<1>7. mem_wdata \in Byte
  BY DecodeTypes DEF mem_wdata, ui_in_sync, TypeOK, PinTypeOK
<1> QED
  BY <1>6, <1>7

(* The request to the pin controller.                                      *)
LEMMA PinRequestTypes ==
  ASSUME TypeOK
  PROVE  /\ pin_request.pin_index \in PinIndex
         /\ pin_request.set_mode \in 0..3
         /\ pin_request.set_value \in Bit
         /\ pin_request.outb_bit \in Bit
<1>1. WRd(word) \in 0..3 /\ WAuxBit(word) \in Bit
  BY DecodeTypes, FieldTypes DEF RegIndex
<1>2. ra_data \div 128 \in Bit /\ ra_data % 2 \in Bit
  BY DecodeTypes, Z3 DEF Byte, Bit
<1>3. pin_request.pin_index \in PinIndex
  BY DecodeTypes DEF pin_request
<1>4. pin_request.set_mode \in 0..3
  BY <1>1 DEF pin_request, SET_MODE_LEAVE
<1>5. pin_request.set_value \in Bit /\ pin_request.outb_bit \in Bit
  BY <1>1, <1>2 DEF pin_request, Bit
<1> QED
  BY <1>3, <1>4, <1>5

(* The next program counter and the saturating boot address.               *)
LEMMA NextAddressTypes ==
  ASSUME TypeOK
  PROVE  /\ pc_plus_1 \in WordAddr /\ next_pc \in WordAddr
         /\ boot_addr_next \in ByteAddr /\ boot_addr_next % 256 \in Byte
<1>1. Words \in Nat \ {0}
  BY WordsAssumption
<1>2. pc_plus_1 \in WordAddr
  BY <1>1, ModRange DEF pc_plus_1, WordAddr, TypeOK, FsmTypeOK
<1>3. next_pc \in WordAddr
  BY <1>2, DecodeTypes, FieldTypes DEF next_pc, TypeOK, FsmTypeOK
<1>4. boot_addr_next \in ByteAddr
  BY <1>1 DEF boot_addr_next, ByteAddr, MemBytes, TypeOK, FsmTypeOK
<1>5. boot_addr_next \in Int
  BY <1>1, <1>4 DEF ByteAddr, MemBytes
<1>6. boot_addr_next % 256 \in Byte
  BY <1>5, ModRange DEF Byte
<1> QED
  BY <1>2, <1>3, <1>4, <1>6

-----------------------------------------------------------------------------
(* Type correctness, one part of a clock edge at a time.                   *)

(* The arms of the main FSM.                                               *)
LEMMA FsmTypes ==
  ASSUME TypeOK, Fsm
  PROVE  FsmTypeOK'
<1> USE DEF FsmTypeOK
<1>0. FsmTypeOK
  BY DEF TypeOK
<1>1. CASE UNCHANGED fsmVars
  BY <1>0, <1>1 DEF fsmVars, fetchVars, archVars, bootVars, lxVars
<1>2. CASE LoadStart
  <2>1. 0 \in WordAddr /\ 0 \in Byte
    BY WordsAssumption DEF WordAddr, Byte
  <2> QED
    BY <1>0, <1>2, <2>1
    DEF LoadStart, fetchVars, archVars, bootVars, lxVars, S_FETCH_LO
<1>3. CASE LoadAcked
  BY <1>0, <1>3 DEF LoadAcked, host_go_fall, HostGoFall, fetchVars, archVars, lxVars
<1>4. CASE LoadByte
  BY <1>0, <1>4, NextAddressTypes DEF LoadByte, fetchVars, archVars, lxVars
<1>5. CASE FetchLo
  BY <1>0, <1>5 DEF FetchLo, fetchVars, archVars, bootVars, S_FETCH_HI
<1>6. CASE FetchHi
  <2>1. mem_rdata \in Byte
    BY DEF TypeOK, DataTypeOK
  <2> QED
    BY <1>0, <1>6, <2>1 DEF FetchHi, archVars, bootVars, lxVars, S_EXECUTE
<1>7. CASE ExecuteHold
  BY <1>0, <1>7, DecodeTypes DEF ExecuteHold, archVars, bootVars, lxVars
<1>8. CASE ExecuteHalt
  BY <1>0, <1>8, DecodeTypes DEF ExecuteHalt, archVars, bootVars, lxVars
<1>9. CASE ExecuteCommit
  <2>1. /\ ir' \in Word /\ entering_execute' \in BOOLEAN /\ state' = S_FETCH_LO
        /\ pc' \in WordAddr /\ retaddr' \in WordAddr
    BY <1>0, <1>9, DecodeTypes, NextAddressTypes DEF ExecuteCommit
  <2>2. flag' \in BOOLEAN
    BY <1>9 DEF ExecuteCommit, flag_next
  <2>6. return_valid' \in BOOLEAN
    BY <1>9 DEF ExecuteCommit
  <2>7. call_ret_misuse_flag' \in BOOLEAN
    BY <1>9 DEF ExecuteCommit
  <2>8. illegal_op_flag' \in BOOLEAN
    BY <1>9 DEF ExecuteCommit
  <2>3. pending_lx_writeback' \in BOOLEAN /\ pending_lx_rd' \in RegIndex
    BY <1>0, <1>9, DecodeTypes, FieldTypes DEF ExecuteCommit
  <2>4. uo_out_reg' \in Byte
    BY <1>0, <1>9, DecodeTypes DEF ExecuteCommit
  <2>5. UNCHANGED <<ir_lo, halted, bootVars>>
    BY <1>9 DEF ExecuteCommit
  <2> QED
    BY <1>0, <2>1, <2>2, <2>3, <2>4, <2>5, <2>6, <2>7, <2>8 DEF bootVars
<1> QED
  BY <1>1, <1>2, <1>3, <1>4, <1>5, <1>6, <1>7, <1>8, <1>9
  DEF Fsm, Frozen, LoadIdle

(* The register file and the SRAM.                                         *)
LEMMA StoreTypes ==
  ASSUME TypeOK, RegfileClock, MemClock
  PROVE  /\ regs' \in [RegIndex -> Byte]
         /\ sram' \in [ByteAddr -> Byte] /\ mem_rdata' \in Byte
<1>1. /\ regs \in [RegIndex -> Byte] /\ sram \in [ByteAddr -> Byte]
      /\ mem_rdata \in Byte /\ pending_lx_rd \in RegIndex
  BY DEF TypeOK, FsmTypeOK, DataTypeOK
<1>2. regs' \in [RegIndex -> Byte]
  BY <1>1, RegWriteTypes DEF RegfileClock
<1>3. sram' \in [ByteAddr -> Byte] /\ mem_rdata' \in Byte
  BY <1>1, MemPortTypes DEF MemClock
<1> QED
  BY <1>2, <1>3

(* The counter never exceeds its 24 bits: a load presets less than the     *)
(* largest request.                                                        *)
LEMMA CountType ==
  ASSUME TypeOK, CounterClock(cnt_load, cnt_mantissa, WExponent(word))
  PROVE  count' \in 0..MaxCount
<1> DEFINE shifted == Shifted(cnt_mantissa, WExponent(word))
<1>1. cnt_mantissa \in 0..511 /\ WExponent(word) \in RegIndex
  BY DecodeTypes, FieldTypes DEF cnt_mantissa, WDelayMant, WExponent
<1>2. shifted \in Nat /\ shifted <= MaxCount /\ MaxCount \in Nat
  BY <1>1, ShiftedType DEF MaxCount
<1>3. count \in 0..MaxCount
  BY DEF TypeOK, DataTypeOK
<1>4. count' = IF cnt_load THEN IF shifted = 0 THEN 0 ELSE shifted - 1
                           ELSE IF count = 0 THEN 0 ELSE count - 1
  BY DEF CounterClock
<1> HIDE DEF shifted
<1> QED
  BY <1>2, <1>3, <1>4

(* The pin controller.                                                     *)
LEMMA PinTypes ==
  ASSUME TypeOK, NEW ui \in Byte, NEW uio \in SUBSET PinIndex,
         PinClock(ui, uio, mode_load, pin_request)
  PROVE  PinTypeOK'
<1>1. PinTypeOK
  BY DEF TypeOK
<1>2. /\ ui_in_ff1' \in Byte /\ ui_in_ff2' \in Byte
      /\ uio_in_ff1' \in SUBSET PinIndex /\ uio_in_ff2' \in SUBSET PinIndex
  BY <1>1 DEF PinTypeOK, PinClock, Synchronize
<1>3. /\ start_prev' \in BOOLEAN /\ host_go_prev' \in BOOLEAN
      /\ seen_start_fall' \in BOOLEAN
  BY DEF PinClock, Synchronize
<1>4. mode' \in [PinIndex -> 0..3] /\ drv' \in [PinIndex -> Bit]
  BY <1>1, PinRequestTypes DEF PinTypeOK, PinClock, DrivePins
<1> QED
  BY <1>2, <1>3, <1>4 DEF PinTypeOK

(* A whole clock edge.                                                     *)
LEMMA TickTypes ==
  ASSUME TypeOK, Tick
  PROVE  TypeOK'
<1>1. PICK ui \in UiValues, uio \in UioValues : Clock(ui, uio)
  BY DEF Tick
<1>2. ui \in Byte /\ uio \in SUBSET PinIndex
  BY UiAssumption, UioAssumption
<1>3. FsmTypeOK'
  BY <1>1, FsmTypes DEF Clock
<1>4. DataTypeOK'
  BY <1>1, StoreTypes, CountType DEF Clock, DataTypeOK
<1>5. PinTypeOK'
  BY <1>1, <1>2, PinTypes DEF Clock
<1> QED
  BY <1>3, <1>4, <1>5 DEF TypeOK

(* Zero belongs to every type.                                             *)
LEMMA ZeroTypes ==
  /\ 0 \in WordAddr /\ 0 \in Byte /\ 0 \in Word /\ 0 \in ByteAddr
  /\ 0 \in RegIndex /\ 0 \in Bit /\ 0 \in 0..MaxCount
<1>1. 0 \in WordAddr /\ 0 \in ByteAddr
  BY WordsAssumption DEF WordAddr, ByteAddr, MemBytes
<1>2. 0 \in Byte /\ 0 \in RegIndex /\ 0 \in Bit
  BY DEF Byte, RegIndex, Bit
<1>3. 0 \in Word
  BY WordBounds
<1>4. MaxCount \in Nat
  BY DEF MaxCount
<1> QED
  BY <1>1, <1>2, <1>3, <1>4

(* Every register has a reset value of its type.                           *)
LEMMA ResetTypes ==
  ASSUME TypeOK, Reset
  PROVE  TypeOK'
<1>2. FsmTypeOK'
  BY ZeroTypes DEF Reset, FsmTypeOK
<1>3. DataTypeOK'
  BY ZeroTypes DEF Reset, CounterReset, DataTypeOK, TypeOK
<1>4. PinTypeOK'
  <2>1. mode' \in [PinIndex -> 0..3]
    BY DEF Reset, PinReset, SET_MODE_INPUT
  <2>2. drv' \in [PinIndex -> Bit]
    BY ZeroTypes DEF Reset, PinReset
  <2> QED
    BY <2>1, <2>2, ZeroTypes DEF Reset, PinReset, PinTypeOK
<1> QED
  BY <1>2, <1>3, <1>4 DEF TypeOK

(* So has every register at power-up.                                      *)
LEMMA InitTypes ==
  ASSUME Init
  PROVE  TypeOK
<1>2. FsmTypeOK
  BY ZeroTypes DEF Init, FsmTypeOK
<1>3. DataTypeOK
  BY ZeroTypes, SramAssumption DEF Init, DataTypeOK
<1>4. PinTypeOK
  <2>1. mode \in [PinIndex -> 0..3]
    BY DEF Init, PinInit, SET_MODE_INPUT
  <2>2. drv \in [PinIndex -> Bit]
    BY ZeroTypes DEF Init, PinInit
  <2> QED
    BY <2>1, <2>2, ZeroTypes DEF Init, PinInit, PinTypeOK
<1> QED
  BY <1>2, <1>3, <1>4 DEF TypeOK

(* No register ever holds a value it has no bits for.                      *)
THEOREM TypeCorrect == Spec => []TypeOK
<1>1. Init => TypeOK
  BY InitTypes
<1>2. TypeOK /\ [Next]_vars => TypeOK'
  <2> SUFFICES ASSUME TypeOK, [Next]_vars PROVE TypeOK'
    OBVIOUS
  <2>1. CASE Next
    BY <2>1, TickTypes, ResetTypes DEF Next
  <2>2. CASE UNCHANGED vars
    BY <2>2 DEF vars, fsmVars, fetchVars, archVars, bootVars, lxVars, pinVars,
                syncVars, TypeOK, FsmTypeOK, DataTypeOK, PinTypeOK
  <2> QED
    BY <2>1, <2>2
<1> QED
  BY <1>1, <1>2, PTL DEF Spec

-----------------------------------------------------------------------------
(* The pipeline.  StageInv and FetchCoherent are inductive together: that  *)
(* the word in EXECUTE is still in memory after an edge needs that only    *)
(* DELAY, WAIT and HALT stay there, none of which writes the memory.       *)

PipeInv == TypeOK /\ StageInv /\ FetchCoherent

(* The reasons for an instruction not to be done.                          *)
LEMMA NotDone ==
  ASSUME ~exec_done
  PROVE  /\ opcode \in {OP_DELAY, OP_WAIT}
         /\ opcode = OP_DELAY \/ (opcode = OP_WAIT /\ wait_has_timeout)
              => ~cnt_expired
  BY DEF exec_done, delay_pending, wait_pending, OP_DELAY, OP_WAIT

(* The latch takes over the word when EXECUTE is not left.                 *)
LEMMA WordKept ==
  ASSUME ir' = word, entering_execute' = FALSE
  PROVE  word' = word /\ opcode' = opcode
  BY DEF word, opcode

(* In the fetch states the port reads, and in EXECUTE only STORE writes.   *)
LEMMA PortReads ==
  ASSUME MemClock, state # S_LOAD, state = S_EXECUTE => opcode # OP_STORE
  PROVE  sram' = sram /\ mem_rdata' = sram[mem_addr]
  BY DEF MemClock, mem_we

(* Initially and after a reset nothing is in the pipeline.                 *)
LEMMA PipeEmpty ==
  ASSUME state = S_LOAD, ~entering_execute, ~halted, ~pending_lx_writeback
  PROVE  StageInv /\ FetchCoherent
  BY DEF StageInv, FetchCoherent, counting, S_LOAD, S_FETCH_HI, S_FETCH_LO,
         S_EXECUTE

(* What FETCH_LO and FETCH_HI read is the word at pc.                      *)
LEMMA TickFetch ==
  ASSUME PipeInv, Fsm, MemClock
  PROVE  FetchCoherent'
<1> USE DEF S_LOAD, S_FETCH_LO, S_FETCH_HI, S_EXECUTE
<1>1. CASE Frozen
  <2>1. /\ state = S_EXECUTE /\ opcode = OP_HALT /\ ~entering_execute
        /\ UNCHANGED fsmVars
    BY <1>1 DEF Frozen, PipeInv, StageInv
  <2>2. sram' = sram
    BY <2>1, PortReads DEF OP_HALT, OP_STORE
  <2>3. word' = word
    BY <2>1 DEF word, fsmVars, fetchVars
  <2> QED
    BY <2>1, <2>2, <2>3
    DEF PipeInv, FetchCoherent, WordAt, fsmVars
<1>2. CASE LoadStart \/ LoadAcked \/ LoadByte \/ LoadIdle
  BY <1>2 DEF LoadStart, LoadAcked, LoadByte, LoadIdle, fsmVars, FetchCoherent
<1>3. CASE FetchLo
  <2>1. state' = S_FETCH_HI /\ pc' = pc
    BY <1>3 DEF FetchLo
  <2>2. sram' = sram /\ mem_rdata' = sram[2 * pc]
    BY <1>3, PortReads DEF FetchLo, mem_addr
  <2> QED
    BY <2>1, <2>2 DEF FetchCoherent
<1>4. CASE FetchHi
  <2>1. /\ state' = S_EXECUTE /\ pc' = pc /\ ir_lo' = mem_rdata
        /\ entering_execute'
    BY <1>4 DEF FetchHi
  <2>2. sram' = sram /\ mem_rdata' = sram[2 * pc + 1]
    BY <1>4, PortReads DEF FetchHi, mem_addr
  <2>3. mem_rdata = sram[2 * pc]
    BY <1>4 DEF FetchHi, PipeInv, FetchCoherent
  <2> QED
    BY <2>1, <2>2, <2>3 DEF FetchCoherent, word, WordAt
<1>5. CASE ExecuteHold \/ ExecuteHalt
  <2>1. /\ state = S_EXECUTE /\ state' = S_EXECUTE /\ pc' = pc
        /\ ir' = word /\ entering_execute' = FALSE
    BY <1>5 DEF ExecuteHold, ExecuteHalt
  <2>2. opcode # OP_STORE
    BY <1>5, NotDone
    DEF ExecuteHold, ExecuteHalt, OP_HALT, OP_STORE, OP_DELAY, OP_WAIT
  <2>3. sram' = sram /\ word' = word
    BY <2>1, <2>2, PortReads, WordKept
  <2> QED
    BY <2>1, <2>3 DEF PipeInv, FetchCoherent, WordAt
<1>6. CASE ExecuteCommit
  BY <1>6 DEF ExecuteCommit, FetchCoherent
<1> QED
  BY <1>1, <1>2, <1>3, <1>4, <1>5, <1>6 DEF Fsm

(* A load presets the counter to less than the request.                    *)
LEMMA CountBelow ==
  ASSUME TypeOK, CounterClock(cnt_load, cnt_mantissa, WExponent(word)),
         cnt_load, ~cnt_expired
  PROVE  count' < Shifted(cnt_mantissa, WExponent(word))
<1> DEFINE shifted == Shifted(cnt_mantissa, WExponent(word))
<1>1. cnt_mantissa \in 0..511 /\ WExponent(word) \in RegIndex
  BY DecodeTypes, FieldTypes DEF cnt_mantissa, WDelayMant, WExponent
<1>2. shifted \in Nat
  BY <1>1, ShiftedType
<1>3. shifted # 0 /\ count' = IF shifted = 0 THEN 0 ELSE shifted - 1
  BY DEF CounterClock, cnt_expired, Expired
<1> HIDE DEF shifted
<1>4. count' < shifted
  BY <1>2, <1>3
<1> QED
  BY <1>4 DEF shifted

(* A running counter only goes down.                                       *)
LEMMA CountDown ==
  ASSUME TypeOK, CounterClock(cnt_load, cnt_mantissa, WExponent(word)),
         ~cnt_load
  PROVE  count' <= count /\ count \in Int /\ count' \in Int
<1>1. count \in 0..MaxCount
  BY DEF TypeOK, DataTypeOK
<1>2. MaxCount \in Nat
  BY DEF MaxCount
<1>3. count' = IF count = 0 THEN 0 ELSE count - 1
  BY DEF CounterClock
<1> QED
  BY <1>1, <1>2, <1>3

(* What each arm of the FSM leaves in the stages of the pipeline.          *)
LEMMA TickStages ==
  ASSUME PipeInv, Fsm, CounterClock(cnt_load, cnt_mantissa, WExponent(word))
  PROVE  StageInv'
<1> USE DEF S_LOAD, S_FETCH_LO, S_FETCH_HI, S_EXECUTE
<1>0. TypeOK /\ StageInv
  BY DEF PipeInv
<1>1. CASE Frozen
  <2>1. halted /\ UNCHANGED <<halted, state, ir, entering_execute, ir_lo>>
    BY <1>1 DEF Frozen, fsmVars, fetchVars
  <2>2. state = S_EXECUTE /\ opcode = OP_HALT /\ ~entering_execute
    BY <1>0, <2>1 DEF StageInv
  <2>3. pending_lx_writeback' = pending_lx_writeback /\ ~pending_lx_writeback
    BY <1>0, <1>1, <2>2 DEF Frozen, fsmVars, lxVars, StageInv
  <2>4. opcode' = opcode
    BY <2>1, <2>2 DEF opcode, word
  <2> QED
    BY <2>1, <2>2, <2>3, <2>4 DEF StageInv, counting
<1>2. CASE LoadStart \/ LoadAcked \/ LoadByte \/ LoadIdle
  <2>1. ~halted /\ halted' = halted /\ state' \in {S_LOAD, S_FETCH_LO}
    BY <1>2 DEF LoadStart, LoadAcked, LoadByte, LoadIdle, fsmVars
  <2>2. ~entering_execute /\ entering_execute' = entering_execute
    BY <1>0, <1>2
    DEF LoadStart, LoadAcked, LoadByte, LoadIdle, fsmVars, fetchVars, StageInv
  <2>3. /\ ~pending_lx_writeback
        /\ pending_lx_writeback' = pending_lx_writeback
    BY <1>0, <1>2
    DEF LoadStart, LoadAcked, LoadByte, LoadIdle, fsmVars, lxVars, StageInv
  <2> QED
    BY <2>1, <2>2, <2>3 DEF StageInv, counting
<1>3. CASE FetchLo
  BY <1>0, <1>3 DEF FetchLo, fetchVars, StageInv, counting
<1>4. CASE FetchHi
  BY <1>0, <1>4 DEF FetchHi, lxVars, StageInv, counting
<1>5. CASE ExecuteHold
  <2>1. /\ ~halted /\ state = S_EXECUTE /\ ~exec_done
        /\ ir' = word /\ entering_execute' = FALSE
        /\ state' = state /\ halted' = halted
        /\ pending_lx_writeback' = pending_lx_writeback
    BY <1>5 DEF ExecuteHold, lxVars
  <2>2. word' = word /\ opcode' = opcode
    BY <2>1, WordKept
  <2>3. opcode \in {OP_DELAY, OP_WAIT}
    BY <2>1, NotDone
  <2>4. counting' => count' < Shifted(cnt_mantissa, WExponent(word))'
    <3> SUFFICES ASSUME counting'
                 PROVE  count' < Shifted(cnt_mantissa, WExponent(word))'
      OBVIOUS
    <3>1. /\ opcode = OP_DELAY \/ (opcode = OP_WAIT /\ wait_has_timeout)
          /\ ~cnt_expired
      BY <2>1, <2>2, NotDone DEF counting, wait_has_timeout
    <3>2. /\ cnt_mantissa' = cnt_mantissa
          /\ Shifted(cnt_mantissa, WExponent(word))'
               = Shifted(cnt_mantissa, WExponent(word))
      BY <2>2 DEF cnt_mantissa, Shifted, WExponent
    <3>3. CASE entering_execute
      BY <1>0, <3>1, <3>2, <3>3, CountBelow DEF cnt_load
    <3>4. CASE ~entering_execute
      <4>1. counting /\ ~cnt_load
        BY <2>1, <3>1, <3>4 DEF counting, cnt_load
      <4>2. count < Shifted(cnt_mantissa, WExponent(word))
        BY <1>0, <4>1 DEF StageInv
      <4>3. /\ cnt_mantissa \in 0..511 /\ WExponent(word) \in RegIndex
            /\ Shifted(cnt_mantissa, WExponent(word)) \in Nat
        BY <1>0, DecodeTypes, FieldTypes, ShiftedType
        DEF cnt_mantissa, WDelayMant, WExponent
      <4> QED
        BY <1>0, <3>2, <4>1, <4>2, <4>3, CountDown
    <3> QED
      BY <3>3, <3>4
  <2>5. ~pending_lx_writeback
    BY <1>0, <2>1 DEF StageInv
  <2> QED
    BY <2>1, <2>2, <2>3, <2>4, <2>5
    DEF StageInv, OP_HALT, OP_DELAY, OP_WAIT
<1>6. CASE ExecuteHalt
  <2>1. /\ state = S_EXECUTE /\ opcode = OP_HALT
        /\ ir' = word /\ entering_execute' = FALSE
        /\ state' = state /\ halted' = TRUE
        /\ pending_lx_writeback' = pending_lx_writeback
    BY <1>6 DEF ExecuteHalt, lxVars
  <2>2. opcode' = opcode
    BY <2>1, WordKept
  <2> QED
    BY <1>0, <2>1, <2>2 DEF StageInv, counting
<1>7. CASE ExecuteCommit
  BY <1>7 DEF ExecuteCommit, StageInv, counting
<1> QED
  BY <1>1, <1>2, <1>3, <1>4, <1>5, <1>6, <1>7 DEF Fsm

(* The invariant of the pipeline.                                          *)
LEMMA PipelineInvariant == Spec => []PipeInv
<1>1. Init => PipeInv
  BY InitTypes, PipeEmpty DEF Init, PipeInv
<1>2. PipeInv /\ [Next]_vars => PipeInv'
  <2> SUFFICES ASSUME PipeInv, [Next]_vars PROVE PipeInv'
    OBVIOUS
  <2>1. CASE Tick
    <3>1. Fsm /\ MemClock
          /\ CounterClock(cnt_load, cnt_mantissa, WExponent(word))
      BY <2>1 DEF Tick, Clock
    <3> QED
      BY <2>1, <3>1, TickTypes, TickFetch, TickStages DEF PipeInv
  <2>2. CASE Reset
    <3>1. TypeOK'
      BY <2>2, ResetTypes DEF PipeInv
    <3>2. (StageInv /\ FetchCoherent)'
      BY <2>2 DEF Reset, StageInv, FetchCoherent, counting, S_LOAD,
                  S_FETCH_HI, S_FETCH_LO, S_EXECUTE
    <3> QED
      BY <3>1, <3>2 DEF PipeInv
  <2>3. CASE UNCHANGED vars
    BY <2>3 DEF vars, fsmVars, fetchVars, archVars, bootVars, lxVars, pinVars,
                syncVars, PipeInv, TypeOK, FsmTypeOK, DataTypeOK, PinTypeOK,
                StageInv, FetchCoherent, counting, opcode, word, WordAt,
                wait_has_timeout, cnt_mantissa
  <2> QED
    BY <2>1, <2>2, <2>3 DEF Next
<1> QED
  BY <1>1, <1>2, PTL DEF Spec

(* The pipeline keeps its stages apart, and works on the program that is   *)
(* in memory, for every program, including one that overwrites the word    *)
(* being fetched.                                                          *)
THEOREM PipelineCoherent == Spec => [](StageInv /\ FetchCoherent)
<1>1. PipeInv => StageInv /\ FetchCoherent
  BY DEF PipeInv
<1> QED
  BY <1>1, PipelineInvariant, PTL

(* A writeback waits for one FETCH_LO only, nothing but DELAY, WAIT and    *)
(* HALT stays in EXECUTE, and a counter in use has not passed its request  *)
(* (core.v's FSM), for every program and input.                            *)
THEOREM StagesApart == Spec => []StageInv
<1>1. PipeInv => StageInv
  BY DEF PipeInv
<1> QED BY <1>1, PipelineInvariant, PTL

-----------------------------------------------------------------------------
(* Loading.  What LoadInv says of S_LOAD is inductive because no arm of    *)
(* the FSM leads back into that state, and because in it the core asks the *)
(* pin controller for nothing but the level of HOST_STATUS.                *)

(* The two ways of an edge to stay in S_LOAD.                              *)
LEMMA LoadArms ==
  ASSUME PipeInv, Fsm, state' = S_LOAD
  PROVE  /\ state = S_LOAD
         /\ UNCHANGED <<pc, archVars>>
         /\ \/ LoadByte
            \/ UNCHANGED <<boot_addr, boot_full, uo_out_reg>>
<1> USE DEF S_LOAD, S_FETCH_LO, S_FETCH_HI, S_EXECUTE
<1>1. ~Frozen
  BY DEF Frozen, fsmVars, PipeInv, StageInv
<1>2. CASE LoadAcked \/ LoadByte
  BY <1>2 DEF LoadAcked, LoadByte, archVars
<1>3. CASE LoadIdle
  BY <1>3 DEF LoadIdle, fsmVars, archVars, bootVars
<1>4. ~LoadStart /\ ~FetchLo /\ ~FetchHi /\ ~ExecuteCommit
  BY DEF LoadStart, FetchLo, FetchHi, ExecuteCommit
<1>5. ~ExecuteHold /\ ~ExecuteHalt
  BY DEF ExecuteHold, ExecuteHalt
<1> QED
  BY <1>1, <1>2, <1>3, <1>4, <1>5 DEF Fsm

(* The echo on uo_out follows the byte count, which stops at the last      *)
(* address.                                                                *)
LEMMA EchoKept ==
  ASSUME PipeInv, LoadInv, Fsm, state' = S_LOAD
  PROVE  uo_out_reg' = boot_addr' % 256
<1>1. state = S_LOAD /\ uo_out_reg = boot_addr % 256
  BY LoadArms DEF LoadInv
<1>2. CASE LoadByte
  BY <1>2 DEF LoadByte
<1>3. CASE UNCHANGED <<boot_addr, boot_full, uo_out_reg>>
  BY <1>1, <1>3
<1> QED
  BY <1>2, <1>3, LoadArms

LEMMA FullKept ==
  ASSUME LoadInv, Fsm
  PROVE  boot_full' => boot_addr' = MemBytes - 1
<1>1. boot_full => boot_addr = MemBytes - 1
  BY DEF LoadInv
<1>2. CASE LoadByte
  BY <1>1, <1>2 DEF LoadByte, boot_addr_next
<1>3. CASE Frozen \/ LoadIdle
  BY <1>1, <1>3 DEF Frozen, LoadIdle, fsmVars, bootVars
<1>4. CASE LoadStart \/ LoadAcked
  BY <1>1, <1>4 DEF LoadStart, LoadAcked, bootVars
<1>5. CASE FetchLo \/ FetchHi
  BY <1>1, <1>5 DEF FetchLo, FetchHi, bootVars
<1>6. CASE ExecuteHold \/ ExecuteHalt \/ ExecuteCommit
  BY <1>1, <1>6 DEF ExecuteHold, ExecuteHalt, ExecuteCommit, bootVars
<1> QED
  BY <1>2, <1>3, <1>4, <1>5, <1>6 DEF Fsm

(* While loading the core moves no pin but HOST_STATUS.                    *)
LEMMA PinsKept ==
  ASSUME TypeOK, state = S_LOAD, DrivePins(pin_request)
  PROVE  /\ mode' = mode
         /\ \A p \in PinIndex \ {HOST_STATUS} : drv'[p] = drv[p]
<1>1. /\ pin_request.set_mode = SET_MODE_LEAVE /\ ~pin_request.outb_en
      /\ pin_request.pin_index = HOST_STATUS
  BY DEF pin_request, pin_index, mode_load, exec_commit, S_LOAD, S_EXECUTE
<1>2. drv \in [PinIndex -> Bit]
  BY DEF TypeOK, PinTypeOK
<1> QED
  BY <1>1, <1>2 DEF DrivePins

(* A whole edge.                                                           *)
LEMMA TickLoad ==
  ASSUME PipeInv, LoadInv, Tick
  PROVE  LoadInv'
<1>1. PICK ui \in UiValues, uio \in UioValues : Clock(ui, uio)
  BY DEF Tick
<1>2. /\ Fsm /\ RegfileClock /\ DrivePins(pin_request)
      /\ seen_start_fall' = (seen_start_fall \/ (~mode_load /\ StartFallRaw))
  BY <1>1 DEF Clock, PinClock
<1>3. boot_full' => boot_addr' = MemBytes - 1
  BY <1>2, FullKept
<1>4. ASSUME state' = S_LOAD
      PROVE  /\ (pc = 0 /\ regs = [r \in RegIndex |-> 0])'
             /\ (~flag /\ retaddr = 0 /\ ~return_valid)'
             /\ (~illegal_op_flag /\ ~call_ret_misuse_flag)'
             /\ uo_out_reg' = boot_addr' % 256
             /\ ~seen_start_fall'
             /\ mode' = [p \in PinIndex |-> SET_MODE_INPUT]
             /\ \A p \in PinIndex \ {HOST_STATUS} : drv'[p] = 0
  <2>1. state = S_LOAD /\ UNCHANGED <<pc, archVars>>
    BY <1>2, <1>4, LoadArms
  <2>2. UNCHANGED <<pc, flag, retaddr, return_valid, illegal_op_flag,
                    call_ret_misuse_flag>>
    BY <2>1 DEF archVars
  <2>3. uo_out_reg' = boot_addr' % 256
    BY <1>2, <1>4, EchoKept
  <2>4. regs' = regs
    BY <1>2, <2>1 DEF RegfileClock, S_LOAD, S_EXECUTE, S_FETCH_LO
  <2>5. /\ mode' = mode
        /\ \A p \in PinIndex \ {HOST_STATUS} : drv'[p] = drv[p]
    BY <1>2, <2>1, PinsKept DEF PipeInv
  <2>6. ~seen_start_fall'
    BY <1>2, <2>1 DEF mode_load, LoadInv
  <2> QED
    BY <2>1, <2>2, <2>3, <2>4, <2>5, <2>6 DEF LoadInv
<1> QED
  BY <1>3, <1>4 DEF LoadInv

BootInv == PipeInv /\ LoadInv

(* The invariant that the remaining theorems rest on.                      *)
LEMMA BootInvariant == Spec => []BootInv
<1>1. Init => LoadInv
  <2> SUFFICES ASSUME Init PROVE LoadInv
    OBVIOUS
  <2>1. mode = [p \in PinIndex |-> SET_MODE_INPUT]
        /\ drv = [p \in PinIndex |-> 0]
    BY DEF Init, PinInit
  <2> QED
    BY <2>1 DEF Init, PinInit, LoadInv
<1>2. BootInv /\ [Next]_vars => LoadInv'
  <2> SUFFICES ASSUME BootInv, [Next]_vars PROVE LoadInv'
    OBVIOUS
  <2>1. CASE Tick
    BY <2>1, TickLoad DEF BootInv
  <2>2. CASE Reset
    BY <2>2 DEF Reset, PinReset, LoadInv
  <2>3. CASE UNCHANGED vars
    BY <2>3 DEF BootInv, vars, fsmVars, archVars, bootVars, pinVars, LoadInv
  <2> QED
    BY <2>1, <2>2, <2>3 DEF Next
<1>3. Spec => []PipeInv
  BY PipelineInvariant
<1> QED
  BY <1>1, <1>2, <1>3, PTL DEF Spec, BootInv

(* Nothing runs before START: until then every register a program can see  *)
(* keeps its reset value, whatever bytes are loaded and however often the  *)
(* host strobes, and uo_out shows how many bytes have arrived.             *)
THEOREM NothingRunsBeforeStart == Spec => []LoadInv
<1>1. BootInv => LoadInv
  BY DEF BootInv
<1> QED
  BY <1>1, BootInvariant, PTL

(* The half of the memory that holds the program changes in S_LOAD only:   *)
(* no program can modify itself.                                           *)
THEOREM ProgramIsReadOnly == Spec => ProgramProtected
<1> DEFINE Kept == state # S_LOAD =>
                     \A a \in 0..(DATA_BASE - 1) : sram'[a] = sram[a]
<1>1. BootInv /\ [Next]_vars => [Kept]_vars
  <2> SUFFICES ASSUME BootInv, [Next]_vars, state # S_LOAD,
                      NEW a \in 0..(DATA_BASE - 1)
               PROVE  sram'[a] = sram[a] \/ UNCHANGED vars
    BY DEF Kept
  <2>1. CASE Tick
    <3>1. MemClock
      BY <2>1 DEF Tick, Clock
    <3>2. ASSUME NEW offset \in Int PROVE DataAddr(offset) # a
      <4>1. Words \in Nat \ {0} /\ offset % Words \in 0..(Words - 1)
        BY WordsAssumption, ModRange
      <4> QED
        BY <4>1 DEF DataAddr, DATA_BASE
    <3>3. mem_we => mem_addr # a
      <4> SUFFICES ASSUME mem_we PROVE mem_addr # a
        OBVIOUS
      <4>1. state = S_EXECUTE /\ opcode = OP_STORE
        BY DEF mem_we
      <4>2. mem_addr = DataAddr(WImm(word))
        BY <4>1 DEF mem_addr, S_LOAD, S_FETCH_LO, S_FETCH_HI, S_EXECUTE,
                    OP_LOAD, OP_STORE, OP_LOADX
      <4>3. WImm(word) \in Int
        BY DecodeTypes, FieldTypes DEF BootInv, PipeInv
      <4> QED
        BY <3>2, <4>2, <4>3
    <3>4. sram \in [ByteAddr -> Byte]
      BY DEF BootInv, PipeInv, TypeOK, DataTypeOK
    <3>5. a \in ByteAddr
      BY WordsAssumption DEF ByteAddr, MemBytes, DATA_BASE
    <3> QED
      BY <3>1, <3>3, <3>4, <3>5 DEF MemClock
  <2>2. CASE Reset
    BY <2>2 DEF Reset
  <2> QED
    BY <2>1, <2>2 DEF Next
<1> QED
  BY <1>1, BootInvariant, PTL DEF Spec, ProgramProtected

(* The chip takes uio[6] over from the host only after START has been seen *)
(* to fall, and gives it back at a reset only.                             *)
THEOREM StartIsReleased == Spec => StartReleased
<1> DEFINE Change ==
      /\ ~DrivesStart /\ DrivesStart' => START \notin uio_in_ff2 /\ start_prev
      /\ DrivesStart /\ ~DrivesStart' => state' = S_LOAD
<1>1. BootInv /\ [Next]_vars => [Change]_vars
  <2> SUFFICES ASSUME BootInv, Next PROVE Change
    OBVIOUS
  <2> USE DEF HOST_STATUS, START, ProtocolPins
  <2>1. DrivesStart <=> state # S_LOAD /\ seen_start_fall
    BY DEF DrivesStart, UioOe, mode_load
  <2>2. DrivesStart' <=> state' # S_LOAD /\ seen_start_fall'
    BY DEF DrivesStart, UioOe, mode_load
  <2>3. CASE Tick
    <3>1. seen_start_fall' = (seen_start_fall \/ (~mode_load /\ StartFallRaw))
      BY <2>3 DEF Tick, Clock, PinClock
    <3>2. state = S_LOAD => ~seen_start_fall
      BY DEF BootInv, LoadInv
    <3> QED
      BY <2>1, <2>2, <3>1, <3>2 DEF StartFallRaw
  <2>4. CASE Reset
    BY <2>2, <2>4 DEF Reset
  <2> QED
    BY <2>3, <2>4 DEF Next
<1> QED
  BY <1>1, BootInvariant, PTL DEF Spec, StartReleased

-----------------------------------------------------------------------------
(* The chip implements the instruction set: every clock edge of Chip is a  *)
(* step of Isa under the mapping of Chip, or leaves everything a program   *)
(* can see alone.                                                          *)


-----------------------------------------------------------------------------
(* The two levels in EXECUTE.                                              *)

(* Isa decodes the word that is being executed.                            *)
LEMMA SameDecode ==
  ASSUME BootInv, state = S_EXECUTE
  PROVE  /\ IsaLevel!ins = word
         /\ IsaLevel!Opcode(IsaLevel!ins) = opcode
         /\ IsaLevel!WAddr(IsaLevel!ins) = WAddr(word)
         /\ IsaLevel!WCond(IsaLevel!ins) = WCond(word)
         /\ IsaLevel!WRd(IsaLevel!ins) = WRd(word)
         /\ IsaLevel!WRs(IsaLevel!ins) = WRs(word)
         /\ IsaLevel!WImm(IsaLevel!ins) = WImm(word)
         /\ IsaLevel!WLdiValue(IsaLevel!ins) = WLdiValue(word)
         /\ IsaLevel!WAuxBit(IsaLevel!ins) = WAuxBit(word)
         /\ IsaLevel!WBitIdx(IsaLevel!ins) = WBitIdx(word)
         /\ IsaLevel!WExponent(IsaLevel!ins) = WExponent(word)
         /\ IsaLevel!WDelayMant(IsaLevel!ins) = WDelayMant(word)
         /\ IsaLevel!WWaitMant(IsaLevel!ins) = WWaitMant(word)
         /\ IsaLevel!WLoopRd(IsaLevel!ins) = WLoopRd(word)
         /\ IsaLevel!WShiftDir(IsaLevel!ins) = WShiftDir(word)
         /\ IsaLevel!pin = WPinIndex(word)
<1>1. IsaLevel!ins = word
  BY DEF IsaLevel!ins, IsaLevel!WordAt, WordAt, BootInv, PipeInv, FetchCoherent
<1>2. PICK w : w = word OBVIOUS
<1>3. /\ IsaLevel!Opcode(w) = Opcode(w) /\ IsaLevel!WAddr(w) = WAddr(w)
      /\ IsaLevel!WCond(w) = WCond(w) /\ IsaLevel!WRd(w) = WRd(w)
      /\ IsaLevel!WRs(w) = WRs(w) /\ IsaLevel!WImm(w) = WImm(w)
      /\ IsaLevel!WLdiValue(w) = WLdiValue(w) /\ IsaLevel!WAuxBit(w) = WAuxBit(w)
  BY DEF IsaLevel!Opcode, Opcode, IsaLevel!WAddr, WAddr, IsaLevel!WCond, WCond,
     IsaLevel!WRd, WRd, IsaLevel!WRs, WRs, IsaLevel!WImm, WImm,
     IsaLevel!WLdiValue, WLdiValue, IsaLevel!WAuxBit, WAuxBit
<1>4. /\ IsaLevel!WBitIdx(w) = WBitIdx(w) /\ IsaLevel!WExponent(w) = WExponent(w)
      /\ IsaLevel!WDelayMant(w) = WDelayMant(w) /\ IsaLevel!WWaitMant(w) = WWaitMant(w)
      /\ IsaLevel!WLoopRd(w) = WLoopRd(w) /\ IsaLevel!WShiftDir(w) = WShiftDir(w)
      /\ IsaLevel!WPinIndex(w) = WPinIndex(w)
  BY DEF IsaLevel!WBitIdx, WBitIdx, IsaLevel!WExponent, WExponent, IsaLevel!WRd, WRd,
     IsaLevel!WDelayMant, WDelayMant, IsaLevel!WImm, WImm,
     IsaLevel!WWaitMant, WWaitMant, IsaLevel!WLoopRd, WLoopRd,
     IsaLevel!WShiftDir, WShiftDir, IsaLevel!WPinIndex, WPinIndex
<1> QED BY <1>1, <1>2, <1>3, <1>4 DEF opcode, IsaLevel!pin

(* What the instruction reads is the same at both levels; nothing is       *)
(* pending in EXECUTE.                                                     *)
LEMMA SameOperands ==
  ASSUME BootInv, state = S_EXECUTE
  PROVE  /\ regsBar = regs /\ ~pending_lx_writeback
         /\ IsaLevel!Rd = regs[WRd(word)]
         /\ IsaLevel!Rs = rb_data
         /\ opcode # OP_LOOP => ra_data = regs[WRd(word)]
         /\ opcode = OP_LOOP => ra_data = regs[WLoopRd(word)]
         /\ IsaLevel!PinLevel = pin_read
         /\ IsaLevel!pin = pin_index
         /\ IsaLevel!succ = pc_plus_1
<1>1. ~pending_lx_writeback
  BY DEF BootInv, PipeInv, StageInv, S_EXECUTE, S_FETCH_LO
<1>2. regsBar = regs BY <1>1 DEF regsBar
<1>3. IsaLevel!pin = pin_index
  BY SameDecode DEF pin_index, mode_load, S_LOAD, S_EXECUTE
<1>4. IsaLevel!PinLevel = pin_read
  BY <1>3 DEF IsaLevel!PinLevel, pin_read, PinRead
<1>5. IsaLevel!Rd = regs[WRd(word)] /\ IsaLevel!Rs = rb_data
  BY <1>2, SameDecode DEF IsaLevel!Rd, IsaLevel!Rs, rb_data
<1> QED BY <1>1, <1>2, <1>3, <1>4, <1>5 DEF ra_data, IsaLevel!succ, pc_plus_1

-----------------------------------------------------------------------------
(* Completion.                                                             *)

(* The instructions with a cycle count.                                    *)
Counts == opcode = OP_DELAY \/ (opcode = OP_WAIT /\ wait_has_timeout)
Request == Shifted(cnt_mantissa, WExponent(word))

LEMMA RequestType ==
  ASSUME BootInv
  PROVE  Request \in Nat /\ count \in Nat
<1>1. TypeOK BY DEF BootInv, PipeInv
<1>2. cnt_mantissa \in 0..511 /\ WExponent(word) \in RegIndex
  BY <1>1, DecodeTypes, FieldTypes DEF cnt_mantissa, WDelayMant, WExponent
<1>3. count \in 0..MaxCount
  BY <1>1 DEF TypeOK, DataTypeOK
<1>4. count \in Nat
  <2>1. MaxCount \in Nat BY SMT DEF MaxCount
  <2> QED BY <1>3, <2>1
<1> QED BY <1>2, <1>4, ShiftedType DEF Request

(* The down-counter holds what is left of the count of Isa.                *)
LEMMA WaitedIs ==
  ASSUME BootInv, state = S_EXECUTE, ~halted
  PROVE  /\ waitedBar \in Nat
         /\ ~Counts => waitedBar = 0
         /\ Counts /\ entering_execute => waitedBar = 0 /\ (cnt_expired <=> Request = 0)
         /\ Counts /\ ~entering_execute =>
              /\ waitedBar = Request - count /\ count < Request
              /\ cnt_expired <=> count = 0
<1>1. Request \in Nat /\ count \in Nat BY RequestType
<1>2. counting <=> Counts /\ ~entering_execute BY DEF counting, Counts
<1>3. waitedBar = IF Counts /\ ~entering_execute THEN Request - count ELSE 0
  BY <1>2 DEF waitedBar, Request
<1>4. Counts /\ ~entering_execute => count < Request
  BY <1>2 DEF Request, BootInv, PipeInv, StageInv
<1>5. Counts => (cnt_load <=> entering_execute) BY DEF cnt_load, Counts
<1>6. Counts => (cnt_expired <=> IF entering_execute THEN Request = 0 ELSE count = 0)
  BY <1>5 DEF cnt_expired, Expired, Request
<1> QED BY <1>1, <1>3, <1>4, <1>6

(* What Isa asks for.                                                      *)
LEMMA SameRequest ==
  ASSUME BootInv, state = S_EXECUTE
  PROVE  /\ IsaLevel!HasTimeout <=> opcode = OP_WAIT /\ wait_has_timeout
         /\ IsaLevel!Met <=> wait_condition_met
         /\ IsaLevel!Timed <=> Counts
         /\ Counts => IsaLevel!Target = Request
<1>1. /\ IsaLevel!HasTimeout <=> opcode = OP_WAIT /\ wait_has_timeout
      /\ IsaLevel!Timed <=> Counts
  BY SameDecode DEF IsaLevel!HasTimeout, IsaLevel!Timed, IsaLevel!OP_WAIT, OP_WAIT,
     IsaLevel!OP_DELAY, OP_DELAY, wait_has_timeout, Counts
<1>2. IsaLevel!Met <=> wait_condition_met
  BY SameDecode, SameOperands DEF IsaLevel!Met, wait_condition_met
<1>3. ASSUME NEW m, NEW e PROVE IsaLevel!Shifted(m, e) = Shifted(m, e)
  BY DEF IsaLevel!Shifted, Shifted, IsaLevel!TimeoutScale, TimeoutScale
<1>4. IsaLevel!Target = Request
  BY <1>3, SameDecode DEF IsaLevel!Target, Request, cnt_mantissa,
     IsaLevel!OP_DELAY, OP_DELAY
<1> QED BY <1>1, <1>2, <1>4

(* An instruction is done at the clock edge at which it completes.         *)
LEMMA SameCompletion ==
  ASSUME BootInv, state = S_EXECUTE, ~halted
  PROVE  IsaLevel!Completes <=> exec_done
<1>1. phaseBar = 2
  BY DEF phaseBar, S_EXECUTE, S_FETCH_HI
<1>2. Counts => (waitedBar >= Request <=> cnt_expired)
  BY WaitedIs, RequestType
<1>3. IsaLevel!Completes <=>
        /\ opcode = OP_DELAY => waitedBar >= Request
        /\ opcode = OP_WAIT => wait_condition_met \/ (wait_has_timeout /\ waitedBar >= Request)
  BY <1>1, SameDecode, SameRequest DEF IsaLevel!Completes, IsaLevel!OP_DELAY, OP_DELAY,
     IsaLevel!OP_WAIT, OP_WAIT, Counts
<1> QED BY <1>2, <1>3 DEF exec_done, delay_pending, wait_pending, Counts, OP_DELAY, OP_WAIT

-----------------------------------------------------------------------------
(* What a clock edge does besides the arm of the FSM.                      *)
Edge ==
  /\ BootInv /\ TypeOK'
  /\ RegfileClock /\ MemClock
  /\ CounterClock(cnt_load, cnt_mantissa, WExponent(word))
  /\ DrivePins(pin_request)

(* Outside EXECUTE the mapping does not depend on the counter.             *)
LEMMA BarsOutside ==
  ASSUME BootInv, state # S_EXECUTE
  PROVE  /\ ~halted /\ waitedBar = 0
         /\ phaseBar = IF state = S_FETCH_HI THEN 1 ELSE 0
         /\ runBar = IF state = S_LOAD THEN "load" ELSE "run"
BY DEF BootInv, PipeInv, StageInv, waitedBar, counting, phaseBar, runBar

(* In EXECUTE the mapping sees the third cycle, until HALT is done.        *)
LEMMA BarsInside ==
  ASSUME BootInv, state = S_EXECUTE
  PROVE  /\ regsBar = regs /\ ~pending_lx_writeback
         /\ phaseBar = IF halted THEN 0 ELSE 2
         /\ runBar = IF halted THEN "halt" ELSE "run"
BY SameOperands DEF phaseBar, runBar, S_LOAD, S_FETCH_HI, S_EXECUTE

-----------------------------------------------------------------------------
(* Loading.                                                                *)

(* The byte count that the host sees.                                      *)
LEMMA EchoOf ==
  ASSUME NEW a \in ByteAddr, NEW full \in BOOLEAN, full => a = MemBytes - 1
  PROVE  IsaLevel!Echo(IF full THEN MemBytes ELSE a) = a % 256
<1>1. a # MemBytes
  BY WordsAssumption DEF ByteAddr, MemBytes
<1>2. IsaLevel!MemBytes = MemBytes
  BY DEF IsaLevel!MemBytes, MemBytes
<1> QED BY <1>1, <1>2 DEF IsaLevel!Echo

(* While loading only the memory, the echo and the acknowledge change.     *)
LEMMA LoadEdge ==
  ASSUME Edge, state = S_LOAD
  PROVE  /\ regs' = regs /\ mode' = mode
         /\ drv' = [drv EXCEPT ![HOST_STATUS] = IF load_ack THEN 1 ELSE 0]
         /\ sram' = IF host_go_rise /\ ~load_ack /\ ~boot_full
                      THEN [sram EXCEPT ![boot_addr] = ui_in_ff2] ELSE sram
<1> USE DEF S_LOAD, S_FETCH_LO, S_FETCH_HI, S_EXECUTE
<1>1. regs' = regs
  BY DEF Edge, RegfileClock
<1>2. /\ pin_request.set_en /\ ~pin_request.outb_en
      /\ pin_request.set_mode = SET_MODE_LEAVE
      /\ pin_request.set_value = IF load_ack THEN 1 ELSE 0
      /\ pin_request.pin_index = HOST_STATUS
  BY DEF pin_request, pin_index, mode_load, exec_commit
<1>3. /\ mode' = mode
      /\ drv' = [drv EXCEPT ![HOST_STATUS] = IF load_ack THEN 1 ELSE 0]
  BY <1>2 DEF Edge, DrivePins
<1>4. sram' = IF host_go_rise /\ ~load_ack /\ ~boot_full
                THEN [sram EXCEPT ![boot_addr] = ui_in_ff2] ELSE sram
  BY DEF Edge, MemClock, mem_we, mem_addr, mem_wdata, ui_in_sync
<1> QED BY <1>1, <1>3, <1>4

(* The byte is counted when it is written.                                 *)
LEMMA ByteCounted ==
  ASSUME TypeOK, LoadInv, LoadByte
  PROVE  /\ boot_full => loadedBar' = loadedBar
         /\ ~boot_full => /\ loadedBar = boot_addr /\ loadedBar < MemBytes
                          /\ loadedBar' = loadedBar + 1
<1>1. boot_addr \in ByteAddr /\ boot_full \in BOOLEAN
  BY DEF TypeOK, FsmTypeOK
<1>2. MemBytes \in Nat /\ boot_addr \in Nat /\ boot_addr < MemBytes
  BY <1>1, WordsAssumption DEF ByteAddr, MemBytes
<1>3. /\ boot_addr' = IF boot_addr = MemBytes - 1 THEN boot_addr ELSE boot_addr + 1
      /\ boot_full' = (boot_full \/ boot_addr = MemBytes - 1)
  BY DEF LoadByte, boot_addr_next
<1>4. boot_full => boot_addr = MemBytes - 1
  BY DEF LoadInv
<1>5. CASE boot_full
  BY <1>1, <1>3, <1>4, <1>5 DEF loadedBar
<1>6. CASE ~boot_full
  <2>1. boot_full' <=> boot_addr = MemBytes - 1
    BY <1>3, <1>6
  <2>2. loadedBar' = boot_addr + 1
    <3>1. CASE boot_addr = MemBytes - 1
      BY <1>2, <2>1, <3>1 DEF loadedBar
    <3>2. CASE boot_addr # MemBytes - 1
      BY <1>3, <2>1, <3>2 DEF loadedBar
    <3> QED BY <3>1, <3>2
  <2> QED BY <1>2, <1>6, <2>2 DEF loadedBar
<1> QED BY <1>5, <1>6

(* Every edge in S_LOAD is a cycle of loading or START.                    *)
LEMMA LoadMaps ==
  ASSUME Edge, LoadInv', Fsm, state = S_LOAD
  PROVE  IsaLevel!LoadCycle \/ IsaLevel!Go
<1> USE DEF S_LOAD, S_FETCH_LO, S_FETCH_HI, S_EXECUTE
<1>1. /\ ~halted /\ waitedBar = 0 /\ phaseBar = 0 /\ runBar = "load"
      /\ ~pending_lx_writeback /\ regsBar = regs
  BY BarsOutside DEF Edge, BootInv, PipeInv, StageInv, regsBar
<1>2. LoadStart \/ LoadAcked \/ LoadByte \/ LoadIdle
  BY <1>1 DEF Fsm, Frozen, FetchLo, FetchHi, ExecuteHold, ExecuteHalt, ExecuteCommit
<1>3. /\ state' = (IF LoadStart THEN S_FETCH_LO ELSE S_LOAD)
      /\ ~halted' /\ ~pending_lx_writeback'
      /\ pc' = pc /\ UNCHANGED archVars
  <2>1. CASE LoadStart
    BY <1>1, <2>1 DEF LoadStart, lxVars, Edge, BootInv, LoadInv
  <2>2. CASE ~LoadStart
    BY <1>1, <1>2, <2>2
    DEF LoadAcked, LoadByte, LoadIdle, fsmVars, lxVars
  <2> QED BY <2>1, <2>2
<1>4. /\ phaseBar' = 0 /\ waitedBar' = 0
      /\ runBar' = (IF LoadStart THEN "run" ELSE "load")
  BY <1>3 DEF phaseBar, waitedBar, counting, runBar
<1>5. /\ regsBar' = regsBar /\ mode' = mode
      /\ drv' = [drv EXCEPT ![HOST_STATUS] = IF load_ack THEN 1 ELSE 0]
  BY <1>1, <1>3, LoadEdge DEF regsBar
<1>6. sram' = IF host_go_rise /\ ~load_ack /\ ~boot_full
                THEN [sram EXCEPT ![boot_addr] = ui_in_ff2] ELSE sram
  BY LoadEdge
<1>7. /\ flag' = flag /\ retaddr' = retaddr /\ return_valid' = return_valid
      /\ illegal_op_flag' = illegal_op_flag
      /\ call_ret_misuse_flag' = call_ret_misuse_flag
  BY <1>3 DEF archVars
<1>8. \E ack \in IsaLevel!Bit : drv' = [drv EXCEPT ![IsaLevel!HOST_STATUS] = ack]
  <2>1. PICK ack : ack = IF load_ack THEN 1 ELSE 0
    OBVIOUS
  <2>2. ack \in IsaLevel!Bit
    BY <2>1 DEF IsaLevel!Bit
  <2>3. drv' = [drv EXCEPT ![IsaLevel!HOST_STATUS] = ack]
    BY <1>5, <2>1 DEF IsaLevel!HOST_STATUS, HOST_STATUS
  <2> QED BY <2>2, <2>3
<1>9. loadedBar = IF boot_full THEN MemBytes ELSE boot_addr
  BY DEF loadedBar
<1>10. CASE LoadStart
  <2>1. uo_out_reg' = 0 /\ loadedBar' = loadedBar
    BY <1>10 DEF LoadStart, bootVars, loadedBar
  <2>2. sram' = sram \/ (loadedBar < IsaLevel!MemBytes
                           /\ sram' = [sram EXCEPT ![loadedBar] = ui_in_ff2])
    <3>1. boot_addr < MemBytes
      BY WordsAssumption DEF Edge, TypeOK, BootInv, PipeInv, FsmTypeOK, ByteAddr, MemBytes
    <3> QED BY <1>6, <1>9, <3>1 DEF IsaLevel!MemBytes, MemBytes
  <2> QED
    BY <1>1, <1>3, <1>4, <1>5, <1>7, <1>8, <1>10, <2>1, <2>2
    DEF IsaLevel!Go, IsaLevel!link
<1>11. CASE ~LoadStart
  <2>1. uo_out_reg' = IsaLevel!Echo(loadedBar')
    <3>1. PICK a, full : a = boot_addr' /\ full = boot_full'
      OBVIOUS
    <3>2. a \in ByteAddr /\ full \in BOOLEAN
      BY <3>1 DEF Edge, TypeOK, FsmTypeOK
    <3>3. full => a = MemBytes - 1
      BY <3>1 DEF LoadInv
    <3>4. loadedBar' = IF full THEN MemBytes ELSE a
      BY <3>1 DEF loadedBar
    <3>5. uo_out_reg' = a % 256
      BY <1>3, <1>11, <3>1 DEF LoadInv
    <3> QED BY <3>2, <3>3, <3>4, <3>5, EchoOf
  <2>2. \/ loadedBar < IsaLevel!MemBytes /\ loadedBar' = loadedBar + 1
           /\ sram' = [sram EXCEPT ![loadedBar] = ui_in_ff2]
        \/ sram' = sram /\ loadedBar' = loadedBar
    <3>1. CASE LoadByte
      <4>1. host_go_rise /\ ~load_ack
        BY <3>1 DEF LoadByte
      <4> QED
        BY <1>6, <3>1, <4>1, ByteCounted
        DEF Edge, BootInv, PipeInv, IsaLevel!MemBytes, MemBytes
    <3>2. CASE LoadAcked \/ LoadIdle
      <4>1. /\ ~host_go_rise \/ load_ack
            /\ boot_addr' = boot_addr /\ boot_full' = boot_full
        BY <3>2 DEF LoadAcked, LoadIdle, fsmVars, bootVars
      <4> QED BY <1>6, <4>1 DEF loadedBar
    <3> QED BY <1>2, <1>11, <3>1, <3>2
  <2> QED
    BY <1>1, <1>3, <1>4, <1>5, <1>7, <1>8, <1>11, <2>1, <2>2
    DEF IsaLevel!LoadCycle, IsaLevel!TakeByte, IsaLevel!link
<1> QED BY <1>10, <1>11

-----------------------------------------------------------------------------
(* The cycles that complete nothing.                                       *)

(* Outside S_LOAD, unless an instruction commits, no pin moves.            *)
LEMMA QuietPins ==
  ASSUME DrivePins(pin_request), state # S_LOAD,
         ~exec_commit \/ opcode \notin {OP_SET, OP_OUTB}
  PROVE  mode' = mode /\ drv' = drv
<1>1. ~pin_request.set_en /\ ~pin_request.outb_en
  BY DEF pin_request, mode_load
<1> QED BY <1>1 DEF DrivePins

(* FETCH_LO and FETCH_HI are the first two cycles of an instruction; the   *)
(* writeback at the end of FETCH_LO is invisible.                          *)
LEMMA FetchMaps ==
  ASSUME Edge, FetchLo \/ FetchHi
  PROVE  IsaLevel!Cycle
<1> USE DEF S_LOAD, S_FETCH_LO, S_FETCH_HI, S_EXECUTE
<1>1. state \in {S_FETCH_LO, S_FETCH_HI} /\ ~halted
  BY DEF FetchLo, FetchHi
<1>2. /\ waitedBar = 0 /\ runBar = "run"
      /\ phaseBar = IF state = S_FETCH_HI THEN 1 ELSE 0
  BY <1>1, BarsOutside DEF Edge
<1>3. mode' = mode /\ drv' = drv
  BY <1>1, QuietPins DEF exec_commit, Edge
<1>4. sram' = sram
  BY <1>1, PortReads DEF Edge
<1>5. /\ UNCHANGED <<pc, archVars, bootVars, uo_out_reg, halted>>
      /\ state' = IF state = S_FETCH_LO THEN S_FETCH_HI ELSE S_EXECUTE
      /\ state = S_FETCH_LO => ~pending_lx_writeback'
      /\ state = S_FETCH_HI => entering_execute' /\ UNCHANGED lxVars
  BY DEF FetchLo, FetchHi
<1>6. UNCHANGED <<pc, flag, retaddr, return_valid, illegal_op_flag,
                  call_ret_misuse_flag, boot_addr, boot_full, uo_out_reg, halted>>
  BY <1>5 DEF archVars, bootVars
<1>7. /\ phaseBar' = (IF state = S_FETCH_LO THEN 1 ELSE 2)
      /\ waitedBar' = 0 /\ runBar' = "run" /\ loadedBar' = loadedBar
  BY <1>1, <1>5, <1>6 DEF phaseBar, waitedBar, counting, runBar, loadedBar
<1>8. regsBar' = regsBar
  <2>1. CASE state = S_FETCH_LO
    <3>1. regs' = regsBar
      BY <2>1 DEF Edge, RegfileClock, regsBar
    <3> QED BY <1>5, <2>1, <3>1 DEF regsBar
  <2>2. CASE state = S_FETCH_HI
    <3>1. ~pending_lx_writeback /\ ~pending_lx_writeback'
      BY <1>5, <2>2 DEF Edge, BootInv, PipeInv, StageInv, lxVars
    <3>2. regs' = regs
      BY <2>2 DEF Edge, RegfileClock
    <3> QED BY <3>1, <3>2 DEF regsBar
  <2> QED BY <1>1, <2>1, <2>2
<1>9. phaseBar < 2 /\ phaseBar' = phaseBar + 1
  BY <1>1, <1>2, <1>7
<1>10. ~IsaLevel!Completes
  BY <1>9 DEF IsaLevel!Completes
<1> QED
  BY <1>2, <1>3, <1>4, <1>6, <1>7, <1>8, <1>9, <1>10
  DEF IsaLevel!Cycle, IsaLevel!arch, IsaLevel!link, IsaLevel!pads

(* What stays the same in EXECUTE unless an instruction commits.           *)
LEMMA StaysInExecute ==
  ASSUME Edge, state = S_EXECUTE, state' = S_EXECUTE,
         UNCHANGED <<pc, archVars, bootVars, uo_out_reg, lxVars>>,
         exec_done => opcode = OP_HALT
  PROVE  /\ regsBar' = regsBar /\ loadedBar' = loadedBar
         /\ UNCHANGED <<pc, flag, retaddr, return_valid, illegal_op_flag,
                        call_ret_misuse_flag, uo_out_reg, mode, drv, sram>>
<1> USE DEF S_LOAD, S_FETCH_LO, S_FETCH_HI, S_EXECUTE
<1>1. regs' = regs
  BY DEF Edge, RegfileClock, reg_w_en, OP_HALT, OP_LDI, OP_IN, OP_SHIFT, OP_INB,
     OP_LOOP, OP_XOR, OP_ADD
<1>2. regsBar' = regsBar
  BY <1>1, SameOperands DEF regsBar, lxVars, Edge
<1>3. mode' = mode /\ drv' = drv
  BY QuietPins DEF Edge, exec_commit, OP_HALT, OP_SET, OP_OUTB
<1>4. opcode # OP_STORE
  BY DEF exec_done, delay_pending, wait_pending, OP_HALT, OP_STORE, OP_DELAY, OP_WAIT
<1>5. sram' = sram
  BY <1>4, PortReads DEF Edge
<1> QED BY <1>2, <1>3, <1>5 DEF archVars, bootVars, loadedBar

(* A DELAY or a WAIT that goes on is a cycle, counted if it has a count.   *)
LEMMA HoldMaps ==
  ASSUME Edge, ExecuteHold
  PROVE  IsaLevel!Cycle
<1> USE DEF S_LOAD, S_FETCH_LO, S_FETCH_HI, S_EXECUTE
<1>1. /\ ~halted /\ ~halted' /\ state = S_EXECUTE /\ state' = S_EXECUTE
      /\ ~exec_done /\ ir' = word /\ entering_execute' = FALSE
      /\ UNCHANGED <<pc, archVars, bootVars, uo_out_reg, lxVars>>
  BY DEF ExecuteHold
<1>2. /\ regsBar' = regsBar /\ loadedBar' = loadedBar
      /\ UNCHANGED <<pc, flag, retaddr, return_valid, illegal_op_flag,
                     call_ret_misuse_flag, uo_out_reg, mode, drv, sram>>
  BY <1>1, StaysInExecute
<1>3. /\ runBar = "run" /\ runBar' = "run" /\ phaseBar = 2 /\ phaseBar' = 2
  BY <1>1 DEF runBar, phaseBar
<1>4. ~IsaLevel!Completes
  BY <1>1, SameCompletion DEF Edge
<1>5. word' = word
  BY <1>1 DEF word
<1>6. waitedBar' = IF Counts THEN Request - count' ELSE 0
  <2>1. opcode' = opcode /\ cnt_mantissa' = cnt_mantissa /\ (wait_has_timeout' <=> wait_has_timeout)
    BY <1>5 DEF opcode, cnt_mantissa, wait_has_timeout
  <2>2. counting' <=> Counts
    BY <1>1, <2>1 DEF counting, Counts
  <2> QED BY <1>5, <2>1, <2>2 DEF waitedBar, Request
<1>7. waitedBar' = IF Counts THEN waitedBar + 1 ELSE waitedBar
  <2>1. CASE ~Counts
    BY <1>1, <1>6, <2>1, WaitedIs DEF Edge
  <2>2. CASE Counts
    <3>1. ~cnt_expired
      BY <1>1, <2>2 DEF exec_done, delay_pending, wait_pending, Counts, OP_DELAY, OP_WAIT
    <3>2. Request \in Nat /\ count \in Nat
      BY RequestType DEF Edge
    <3>3. count' = IF cnt_load THEN IF Request = 0 THEN 0 ELSE Request - 1
                               ELSE IF count = 0 THEN 0 ELSE count - 1
      BY DEF Edge, CounterClock, Request
    <3>4. cnt_load <=> entering_execute
      BY <2>2 DEF cnt_load, Counts
    <3>5. CASE entering_execute
      BY <1>1, <1>6, <2>2, <3>1, <3>2, <3>3, <3>4, <3>5, WaitedIs DEF Edge
    <3>6. CASE ~entering_execute
      BY <1>1, <1>6, <2>2, <3>1, <3>2, <3>3, <3>4, <3>6, WaitedIs DEF Edge
    <3> QED BY <3>5, <3>6
  <2> QED BY <2>1, <2>2
<1>8. IsaLevel!Timed <=> Counts
  BY <1>1, SameRequest DEF Edge
<1> QED
  BY <1>2, <1>3, <1>4, <1>7, <1>8
  DEF IsaLevel!Cycle, IsaLevel!arch, IsaLevel!link, IsaLevel!pads

(* HALT stops the program and keeps it stopped.                            *)
LEMMA HaltMaps ==
  ASSUME Edge, ExecuteHalt
  PROVE  IsaLevel!Halt
<1> USE DEF S_LOAD, S_FETCH_LO, S_FETCH_HI, S_EXECUTE
<1>1. /\ ~halted /\ halted' /\ state = S_EXECUTE /\ state' = S_EXECUTE
      /\ exec_done /\ opcode = OP_HALT
      /\ UNCHANGED <<pc, archVars, bootVars, uo_out_reg, lxVars>>
  BY DEF ExecuteHalt
<1>2. /\ regsBar' = regsBar /\ loadedBar' = loadedBar
      /\ UNCHANGED <<pc, flag, retaddr, return_valid, illegal_op_flag,
                     call_ret_misuse_flag, uo_out_reg, mode, drv, sram>>
  BY <1>1, StaysInExecute
<1>3. /\ runBar = "run" /\ runBar' = "halt" /\ phaseBar' = 0 /\ waitedBar' = 0
  BY <1>1 DEF runBar, phaseBar, waitedBar, counting
<1>4. waitedBar = 0
  BY <1>1, WaitedIs DEF Edge, Counts, OP_HALT, OP_DELAY, OP_WAIT
<1>5. IsaLevel!Completes /\ IsaLevel!Opcode(IsaLevel!ins) = IsaLevel!OP_HALT
  BY <1>1, SameCompletion, SameDecode DEF Edge, IsaLevel!OP_HALT, OP_HALT
<1> QED
  BY <1>2, <1>3, <1>4, <1>5
  DEF IsaLevel!Halt, IsaLevel!arch, IsaLevel!link, IsaLevel!pads

(* A halted program stays halted.                                          *)
LEMMA FrozenMaps ==
  ASSUME Edge, Frozen
  PROVE  IsaLevel!Halted
<1> USE DEF S_LOAD, S_FETCH_LO, S_FETCH_HI, S_EXECUTE
<1>1. /\ halted /\ halted' /\ state = S_EXECUTE /\ state' = S_EXECUTE
      /\ opcode = OP_HALT
      /\ UNCHANGED <<pc, archVars, bootVars, uo_out_reg, lxVars>>
  BY DEF Frozen, Edge, BootInv, PipeInv, StageInv, fsmVars
<1>2. /\ regsBar' = regsBar /\ loadedBar' = loadedBar
      /\ UNCHANGED <<pc, flag, retaddr, return_valid, illegal_op_flag,
                     call_ret_misuse_flag, uo_out_reg, mode, drv, sram>>
  BY <1>1, StaysInExecute
<1>3. /\ runBar = "halt" /\ runBar' = "halt" /\ phaseBar = 0 /\ phaseBar' = 0
      /\ waitedBar = 0 /\ waitedBar' = 0
  BY <1>1 DEF runBar, phaseBar, waitedBar, counting
<1> QED
  BY <1>2, <1>3
  DEF IsaLevel!Halted, IsaLevel!arch, IsaLevel!link, IsaLevel!pads

-----------------------------------------------------------------------------
(* The edge at which an instruction commits, what it does to each part of  *)
(* the state, before the instructions are told apart.                      *)
Commit == Edge /\ ExecuteCommit

LEMMA CommitPins ==
  ASSUME Commit
  PROVE  /\ mode' = IF opcode = OP_SET /\ WRd(word) # SET_MODE_LEAVE
                      THEN [mode EXCEPT ![WPinIndex(word)] = WRd(word)] ELSE mode
         /\ drv' = IF opcode = OP_OUTB
                     THEN [drv EXCEPT ![WPinIndex(word)] =
                             IF WAuxBit(word) = 1 THEN ra_data \div 128 ELSE ra_data % 2]
                     ELSE IF opcode = OP_SET
                       THEN [drv EXCEPT ![WPinIndex(word)] = WAuxBit(word)] ELSE drv
<1>1. state = S_EXECUTE /\ exec_done /\ ~mode_load
  BY DEF Commit, ExecuteCommit, mode_load, S_EXECUTE, S_LOAD
<1>2. /\ pin_request.set_en <=> opcode = OP_SET
      /\ pin_request.outb_en <=> opcode = OP_OUTB
      /\ pin_request.set_mode = WRd(word)
      /\ pin_request.set_value = WAuxBit(word)
      /\ pin_request.outb_bit =
           IF WAuxBit(word) = 1 THEN ra_data \div 128 ELSE ra_data % 2
      /\ pin_request.pin_index = WPinIndex(word)
  BY <1>1 DEF pin_request, pin_index, exec_commit
<1> QED BY <1>2 DEF Commit, Edge, DrivePins

LEMMA CommitMemory ==
  ASSUME Commit
  PROVE  /\ sram' = IF opcode = OP_STORE
                      THEN [sram EXCEPT ![DataAddr(WImm(word))] = regs[WRd(word)]]
                      ELSE sram
         /\ opcode = OP_LOAD => mem_rdata' = sram[DataAddr(WImm(word))]
         /\ opcode = OP_LOADX => mem_rdata' = sram[DataAddr(rb_data)]
<1> USE DEF S_LOAD, S_FETCH_LO, S_FETCH_HI, S_EXECUTE, OP_STORE, OP_LOAD, OP_LOADX
<1>1. state = S_EXECUTE
  BY DEF Commit, ExecuteCommit
<1>2. mem_we <=> opcode = OP_STORE
  BY <1>1 DEF mem_we
<1>3. opcode = OP_STORE => mem_wdata = regs[WRd(word)]
  BY <1>1 DEF mem_wdata, ra_data, OP_LOOP
<1>4. /\ opcode \in {OP_LOAD, OP_STORE} => mem_addr = DataAddr(WImm(word))
      /\ opcode = OP_LOADX => mem_addr = DataAddr(rb_data)
  BY <1>1 DEF mem_addr
<1>5. /\ mem_we => sram' = [sram EXCEPT ![mem_addr] = mem_wdata]
      /\ ~mem_we => sram' = sram /\ mem_rdata' = sram[mem_addr]
  BY DEF Commit, Edge, MemClock
<1>6. CASE opcode = OP_STORE
  <2>1. mem_addr = DataAddr(WImm(word)) /\ mem_wdata = regs[WRd(word)]
    BY <1>3, <1>4, <1>6
  <2> QED BY <1>2, <1>5, <1>6, <2>1
<1>7. CASE opcode # OP_STORE
  BY <1>2, <1>4, <1>5, <1>7
<1> QED BY <1>6, <1>7

LEMMA CommitRegs ==
  ASSUME Commit
  PROVE  /\ reg_w_en => regsBar' = [regs EXCEPT ![reg_w_sel] = reg_w_data]
         /\ opcode \in {OP_LOAD, OP_LOADX} =>
              regsBar' = [regs EXCEPT ![WRd(word)] = mem_rdata']
         /\ ~reg_w_en /\ opcode \notin {OP_LOAD, OP_LOADX} => regsBar' = regs
<1>1. /\ state = S_EXECUTE /\ exec_done
      /\ pending_lx_writeback' =
           (pending_lx_writeback \/ opcode \in {OP_LOAD, OP_LOADX})
      /\ opcode \in {OP_LOAD, OP_LOADX} => pending_lx_rd' = WRd(word)
  BY DEF Commit, ExecuteCommit
<1>2. pending_lx_writeback' <=> opcode \in {OP_LOAD, OP_LOADX}
  BY <1>1, BarsInside DEF Commit, Edge
<1>3. regs' = IF reg_w_en THEN [regs EXCEPT ![reg_w_sel] = reg_w_data] ELSE regs
  BY <1>1 DEF Commit, Edge, RegfileClock
<1>4. opcode \in {OP_LOAD, OP_LOADX} => ~reg_w_en
  BY DEF reg_w_en, OP_LOAD, OP_LOADX, OP_LDI, OP_IN, OP_SHIFT, OP_INB, OP_LOOP,
     OP_XOR, OP_ADD
<1> QED BY <1>1, <1>2, <1>3, <1>4 DEF regsBar

(* The mapped cycle is over and the next instruction begins.               *)
LEMMA CommitBars ==
  ASSUME Commit
  PROVE  /\ runBar = "run" /\ runBar' = "run"
         /\ phaseBar' = 0 /\ waitedBar' = 0 /\ loadedBar' = loadedBar
         /\ pc' = next_pc /\ flag' \in BOOLEAN /\ (flag' <=> flag_next)
         /\ regsBar = regs /\ IsaLevel!Completes /\ opcode # OP_HALT
<1> USE DEF S_LOAD, S_FETCH_LO, S_FETCH_HI, S_EXECUTE
<1>1. /\ state = S_EXECUTE /\ state' = S_FETCH_LO /\ ~halted /\ ~halted'
      /\ exec_done /\ opcode # OP_HALT /\ pc' = next_pc /\ flag' = flag_next
      /\ UNCHANGED bootVars
  BY DEF Commit, ExecuteCommit
<1>2. IsaLevel!Completes /\ regsBar = regs
  BY <1>1, SameCompletion, SameOperands DEF Commit, Edge
<1>3. flag' \in BOOLEAN
  BY DEF Commit, Edge, TypeOK, FsmTypeOK
<1> QED
  BY <1>1, <1>2, <1>3 DEF runBar, phaseBar, waitedBar, counting, loadedBar, bootVars

(* An instruction of opcode op that goes on at target retires.             *)
LEMMA CommitRetires ==
  ASSUME Commit, NEW target, next_pc = target
  PROVE  IsaLevel!Retire(opcode, target)
<1>1. IsaLevel!Opcode(IsaLevel!ins) = opcode
  BY SameDecode DEF Commit, ExecuteCommit, Edge
<1> QED BY <1>1, CommitBars DEF IsaLevel!Retire

(* The instructions that are neither a branch nor a return go on at the    *)
(* next word; those that are neither a call nor a return leave the return  *)
(* address alone; and so on for each register of the program.              *)
LEMMA CommitRest ==
  ASSUME Commit
  PROVE  /\ opcode \notin {OP_BRANCH, OP_RET, OP_LOOP} => next_pc = IsaLevel!succ
         /\ opcode \notin {OP_BRANCH, OP_RET} =>
              UNCHANGED <<retaddr, return_valid, call_ret_misuse_flag>>
         /\ opcode \notin {OP_CMP, OP_TESTBIT, OP_WAIT, OP_ADD} => flag' = flag
         /\ opcode # OP_OUT => uo_out_reg' = uo_out_reg
         /\ opcode <= OP_ADD => illegal_op_flag' = illegal_op_flag
<1>1. TypeOK /\ state = S_EXECUTE
  BY DEF Commit, Edge, BootInv, PipeInv, ExecuteCommit
<1>2. /\ flag \in BOOLEAN /\ return_valid \in BOOLEAN
      /\ illegal_op_flag \in BOOLEAN /\ call_ret_misuse_flag \in BOOLEAN
  BY <1>1 DEF TypeOK, FsmTypeOK
<1>3. opcode \notin {OP_BRANCH, OP_RET, OP_LOOP} => next_pc = IsaLevel!succ
  BY <1>1, SameOperands DEF Commit, Edge, next_pc, branch_taken, loop_taken, is_ret
<1>4. opcode \notin {OP_BRANCH, OP_RET} =>
        UNCHANGED <<retaddr, return_valid, call_ret_misuse_flag>>
  <2>1. ASSUME ~is_call, ~is_ret
        PROVE UNCHANGED <<retaddr, return_valid, call_ret_misuse_flag>>
    BY <1>2, <2>1 DEF Commit, ExecuteCommit
  <2> QED BY <2>1 DEF is_call, is_ret
<1>5. opcode \notin {OP_CMP, OP_TESTBIT, OP_WAIT, OP_ADD} => flag' = flag
  BY <1>2, CommitBars DEF flag_next
<1>6. opcode # OP_OUT => uo_out_reg' = uo_out_reg
  BY DEF Commit, ExecuteCommit
<1>7. opcode <= OP_ADD => illegal_op_flag' = illegal_op_flag
  <2>1. opcode \in 0..31
    BY <1>1, DecodeTypes
  <2> QED BY <1>2, <2>1 DEF Commit, ExecuteCommit, OP_ADD
<1> QED BY <1>3, <1>4, <1>5, <1>6, <1>7

-----------------------------------------------------------------------------
(* One instruction at a time.                                              *)

(* The arithmetic of both levels is that of IsaDefs.                       *)
LEMMA SameXor ==
  ASSUME NEW a, NEW b PROVE IsaLevel!XorByte(a, b) = XorByte(a, b)
<1>1. ASSUME NEW w PROVE IsaLevel!XorWeight(a, b, w) = XorWeight(a, b, w)
  BY DEF IsaLevel!XorWeight, XorWeight
<1> QED BY <1>1 DEF IsaLevel!XorByte, XorByte

LEMMA SameShift ==
  ASSUME NEW a, NEW b PROVE IsaLevel!ShiftByte(a, b) = ShiftByte(a, b)
BY DEF IsaLevel!ShiftByte, ShiftByte

LEMMA SameInsert ==
  ASSUME NEW a, NEW b, NEW c PROVE IsaLevel!InsertBit(a, b, c) = InsertBit(a, b, c)
BY DEF IsaLevel!InsertBit, InsertBit

LEMMA SameBit ==
  ASSUME NEW a, NEW b PROVE IsaLevel!BitOf(a, b) = BitOf(a, b)
BY DEF IsaLevel!BitOf, BitOf

LEMMA SameDataAddr ==
  ASSUME NEW a PROVE IsaLevel!DataAddr(a) = DataAddr(a)
BY DEF IsaLevel!DataAddr, DataAddr, IsaLevel!DATA_BASE, DATA_BASE

(* What Isa reads when an instruction commits.                             *)
LEMMA CommitReads ==
  ASSUME Commit
  PROVE  /\ IsaLevel!Opcode(IsaLevel!ins) = opcode /\ opcode \in 0..31
         /\ IsaLevel!WAddr(IsaLevel!ins) = WAddr(word)
         /\ IsaLevel!WCond(IsaLevel!ins) = WCond(word)
         /\ IsaLevel!WRd(IsaLevel!ins) = WRd(word)
         /\ IsaLevel!WImm(IsaLevel!ins) = WImm(word)
         /\ IsaLevel!WLdiValue(IsaLevel!ins) = WLdiValue(word)
         /\ IsaLevel!WAuxBit(IsaLevel!ins) = WAuxBit(word)
         /\ IsaLevel!WBitIdx(IsaLevel!ins) = WBitIdx(word)
         /\ IsaLevel!WLoopRd(IsaLevel!ins) = WLoopRd(word)
         /\ IsaLevel!WShiftDir(IsaLevel!ins) = WShiftDir(word)
         /\ IsaLevel!pin = WPinIndex(word)
         /\ IsaLevel!PinLevel = pin_read
         /\ IsaLevel!Rd = regs[WRd(word)]
         /\ IsaLevel!Rs = rb_data
         /\ opcode # OP_LOOP => ra_data = regs[WRd(word)]
         /\ opcode = OP_LOOP => ra_data = regs[WLoopRd(word)]
<1>1. BootInv /\ TypeOK /\ state = S_EXECUTE
  BY DEF Commit, Edge, BootInv, PipeInv, ExecuteCommit
<1> QED BY <1>1, SameDecode, SameOperands, DecodeTypes

(* The instructions that only write Rd.                                    *)
LEMMA RdMaps ==
  ASSUME Commit, NEW op, NEW value, opcode = op,
         op \in {OP_LDI, OP_IN, OP_SHIFT, OP_INB, OP_LOAD, OP_LOADX, OP_XOR},
         regsBar' = [regs EXCEPT ![WRd(word)] = value]
  PROVE  IsaLevel!WriteRd(op, value)
<1> USE DEF OP_LDI, OP_IN, OP_SHIFT, OP_INB, OP_LOAD, OP_LOADX, OP_XOR, OP_BRANCH,
            OP_RET, OP_LOOP, OP_CMP, OP_TESTBIT, OP_WAIT, OP_ADD, OP_OUT, OP_SET,
            OP_OUTB, OP_STORE
<1>1. IsaLevel!Retire(op, IsaLevel!succ)
  BY CommitRetires, CommitRest
<1>2. /\ UNCHANGED <<retaddr, return_valid, call_ret_misuse_flag>>
      /\ flag' = flag /\ uo_out_reg' = uo_out_reg
      /\ illegal_op_flag' = illegal_op_flag
  BY CommitRest
<1>3. mode' = mode /\ drv' = drv
  BY CommitPins
<1>4. sram' = sram
  BY CommitMemory
<1>5. regsBar' = [regsBar EXCEPT ![IsaLevel!WRd(IsaLevel!ins)] = value]
  BY CommitBars, CommitReads
<1> QED
  BY <1>1, <1>2, <1>3, <1>4, <1>5
  DEF IsaLevel!WriteRd, IsaLevel!SetRd, IsaLevel!link, IsaLevel!pads

LEMMA RdInstructions ==
  ASSUME Commit,
         opcode \in {OP_LDI, OP_IN, OP_SHIFT, OP_INB, OP_LOAD, OP_LOADX, OP_XOR}
  PROVE  IsaLevel!Instruction
<1> USE DEF OP_LDI, OP_IN, OP_SHIFT, OP_INB, OP_LOAD, OP_LOADX, OP_XOR, OP_LOOP, OP_ADD
<1>1. opcode \in {OP_LDI, OP_IN, OP_SHIFT, OP_INB, OP_XOR} =>
        regsBar' = [regs EXCEPT ![WRd(word)] = reg_w_data]
  BY CommitRegs DEF reg_w_en, reg_w_sel
<1>2. CASE opcode = OP_LDI
  <2>1. reg_w_data = IsaLevel!WLdiValue(IsaLevel!ins)
    BY <1>2, CommitReads DEF reg_w_data
  <2>2. IsaLevel!Ldi
    BY <1>1, <1>2, <2>1, RdMaps DEF IsaLevel!Ldi, IsaLevel!OP_LDI
  <2> QED BY <2>2 DEF IsaLevel!Instruction
<1>3. CASE opcode = OP_IN
  <2>1. reg_w_data = ui_in_ff2
    BY <1>3 DEF reg_w_data, ui_in_sync
  <2>2. IsaLevel!In
    BY <1>1, <1>3, <2>1, RdMaps DEF IsaLevel!In, IsaLevel!OP_IN
  <2> QED BY <2>2 DEF IsaLevel!Instruction
<1>4. CASE opcode = OP_SHIFT
  <2>1. reg_w_data = IsaLevel!ShiftByte(IsaLevel!Rd, IsaLevel!WShiftDir(IsaLevel!ins))
    BY <1>4, CommitReads, SameShift DEF reg_w_data
  <2>2. IsaLevel!Shift
    BY <1>1, <1>4, <2>1, RdMaps DEF IsaLevel!Shift, IsaLevel!OP_SHIFT
  <2> QED BY <2>2 DEF IsaLevel!Instruction
<1>5. CASE opcode = OP_INB
  <2>1. reg_w_data = IsaLevel!InsertBit(IsaLevel!Rd, IsaLevel!WAuxBit(IsaLevel!ins),
                                        IsaLevel!PinLevel)
    BY <1>5, CommitReads, SameInsert DEF reg_w_data
  <2>2. IsaLevel!Inb
    BY <1>1, <1>5, <2>1, RdMaps DEF IsaLevel!Inb, IsaLevel!OP_INB
  <2> QED BY <2>2 DEF IsaLevel!Instruction
<1>6. CASE opcode = OP_LOAD
  <2>1. PICK value : value = sram[IsaLevel!DataAddr(IsaLevel!WImm(IsaLevel!ins))]
    OBVIOUS
  <2>2. regsBar' = [regs EXCEPT ![WRd(word)] = value]
    BY <1>6, <2>1, CommitReads, CommitRegs, CommitMemory, SameDataAddr
  <2>3. IsaLevel!Load
    BY <1>6, <2>1, <2>2, RdMaps DEF IsaLevel!Load, IsaLevel!OP_LOAD
  <2> QED BY <2>3 DEF IsaLevel!Instruction
<1>7. CASE opcode = OP_LOADX
  <2>1. PICK value : value = sram[IsaLevel!DataAddr(IsaLevel!Rs)]
    OBVIOUS
  <2>2. regsBar' = [regs EXCEPT ![WRd(word)] = value]
    BY <1>7, <2>1, CommitReads, CommitRegs, CommitMemory, SameDataAddr
  <2>3. IsaLevel!Loadx
    BY <1>7, <2>1, <2>2, RdMaps DEF IsaLevel!Loadx, IsaLevel!OP_LOADX
  <2> QED BY <2>3 DEF IsaLevel!Instruction
<1>8. CASE opcode = OP_XOR
  <2>1. reg_w_data = IsaLevel!XorByte(IsaLevel!Rd, IsaLevel!Rs)
    BY <1>8, CommitReads, SameXor DEF reg_w_data
  <2>2. IsaLevel!Xor
    BY <1>1, <1>8, <2>1, RdMaps DEF IsaLevel!Xor, IsaLevel!OP_XOR
  <2> QED BY <2>2 DEF IsaLevel!Instruction
<1> QED BY <1>2, <1>3, <1>4, <1>5, <1>6, <1>7, <1>8

(* NOP and DELAY change nothing but the pc.                                *)
LEMMA IdleInstructions ==
  ASSUME Commit, opcode \in {OP_NOP, OP_DELAY}
  PROVE  IsaLevel!Instruction
<1> USE DEF OP_NOP, OP_DELAY, OP_LDI, OP_IN, OP_SHIFT, OP_INB, OP_LOAD, OP_LOADX,
            OP_XOR, OP_BRANCH, OP_RET, OP_LOOP, OP_CMP, OP_TESTBIT, OP_WAIT, OP_ADD,
            OP_OUT, OP_SET, OP_OUTB, OP_STORE
<1>1. IsaLevel!Retire(opcode, IsaLevel!succ)
  BY CommitRetires, CommitRest
<1>2. /\ UNCHANGED <<retaddr, return_valid, call_ret_misuse_flag>>
      /\ flag' = flag /\ uo_out_reg' = uo_out_reg
      /\ illegal_op_flag' = illegal_op_flag
  BY CommitRest
<1>3. mode' = mode /\ drv' = drv
  BY CommitPins
<1>4. sram' = sram /\ regsBar' = regsBar
  BY CommitMemory, CommitBars, CommitRegs DEF reg_w_en
<1>5. UNCHANGED IsaLevel!arch
  BY <1>2, <1>3, <1>4 DEF IsaLevel!arch, IsaLevel!link, IsaLevel!pads
<1>6. CASE opcode = OP_NOP
  BY <1>1, <1>5, <1>6 DEF IsaLevel!Nop, IsaLevel!OP_NOP, IsaLevel!Instruction
<1>7. CASE opcode = OP_DELAY
  BY <1>1, <1>5, <1>7 DEF IsaLevel!Delay, IsaLevel!OP_DELAY, IsaLevel!Instruction
<1> QED BY <1>6, <1>7

(* WAIT, TESTBIT and CMP only write the flag.                              *)
LEMMA FlagInstructions ==
  ASSUME Commit, opcode \in {OP_WAIT, OP_TESTBIT, OP_CMP}
  PROVE  IsaLevel!Instruction
<1> USE DEF OP_NOP, OP_DELAY, OP_LDI, OP_IN, OP_SHIFT, OP_INB, OP_LOAD, OP_LOADX,
            OP_XOR, OP_BRANCH, OP_RET, OP_LOOP, OP_CMP, OP_TESTBIT, OP_WAIT, OP_ADD,
            OP_OUT, OP_SET, OP_OUTB, OP_STORE
<1>1. IsaLevel!Retire(opcode, IsaLevel!succ)
  BY CommitRetires, CommitRest
<1>2. /\ UNCHANGED <<retaddr, return_valid, call_ret_misuse_flag>>
      /\ uo_out_reg' = uo_out_reg /\ illegal_op_flag' = illegal_op_flag
  BY CommitRest
<1>3. mode' = mode /\ drv' = drv
  BY CommitPins
<1>4. sram' = sram /\ regsBar' = regsBar
  BY CommitMemory, CommitBars, CommitRegs DEF reg_w_en
<1>5. flag' \in BOOLEAN /\ (flag' <=> flag_next)
  BY CommitBars
<1>6. CASE opcode = OP_WAIT
  <2>1. IsaLevel!Met <=> wait_condition_met
    BY SameRequest DEF Commit, Edge, ExecuteCommit
  <2>2. flag_next <=> ~IsaLevel!Met
    BY <1>6, <2>1 DEF flag_next
  <2>3. flag' = ~IsaLevel!Met
    BY <1>5, <2>2
  <2> QED
    BY <1>1, <1>2, <1>3, <1>4, <1>6, <2>3
    DEF IsaLevel!Wait, IsaLevel!WriteFlag, IsaLevel!OP_WAIT, IsaLevel!Instruction,
        IsaLevel!link, IsaLevel!pads
<1>7. CASE opcode = OP_TESTBIT
  <2>1. flag_next <=> IsaLevel!BitOf(IsaLevel!Rd, IsaLevel!WBitIdx(IsaLevel!ins)) = 1
    BY <1>7, CommitReads, SameBit DEF flag_next
  <2>2. flag' = (IsaLevel!BitOf(IsaLevel!Rd, IsaLevel!WBitIdx(IsaLevel!ins)) = 1)
    BY <1>5, <2>1
  <2> QED
    BY <1>1, <1>2, <1>3, <1>4, <1>7, <2>2
    DEF IsaLevel!Testbit, IsaLevel!WriteFlag, IsaLevel!OP_TESTBIT,
        IsaLevel!Instruction, IsaLevel!link, IsaLevel!pads
<1>8. CASE opcode = OP_CMP
  <2>1. flag_next <=> IsaLevel!Rd = IsaLevel!Rs
    BY <1>8, CommitReads DEF flag_next
  <2>2. flag' = (IsaLevel!Rd = IsaLevel!Rs)
    BY <1>5, <2>1
  <2> QED
    BY <1>1, <1>2, <1>3, <1>4, <1>8, <2>2
    DEF IsaLevel!Cmp, IsaLevel!WriteFlag, IsaLevel!OP_CMP,
        IsaLevel!Instruction, IsaLevel!link, IsaLevel!pads
<1> QED BY <1>6, <1>7, <1>8

(* ADD writes Rd and the carry; LOOP counts a register down and jumps      *)
(* until it is zero.                                                       *)
LEMMA ArithmeticInstructions ==
  ASSUME Commit, opcode \in {OP_ADD, OP_LOOP}
  PROVE  IsaLevel!Instruction
<1> USE DEF OP_NOP, OP_DELAY, OP_LDI, OP_IN, OP_SHIFT, OP_INB, OP_LOAD, OP_LOADX,
            OP_XOR, OP_BRANCH, OP_RET, OP_LOOP, OP_CMP, OP_TESTBIT, OP_WAIT, OP_ADD,
            OP_OUT, OP_SET, OP_OUTB, OP_STORE
<1>1. /\ UNCHANGED <<retaddr, return_valid, call_ret_misuse_flag>>
      /\ uo_out_reg' = uo_out_reg /\ illegal_op_flag' = illegal_op_flag
  BY CommitRest
<1>2. mode' = mode /\ drv' = drv
  BY CommitPins
<1>3. sram' = sram /\ regsBar = regs
  BY CommitMemory, CommitBars
<1>4. regsBar' = [regs EXCEPT ![reg_w_sel] = reg_w_data]
  BY CommitRegs DEF reg_w_en
<1>5. CASE opcode = OP_ADD
  <2>1. /\ ra_data = IsaLevel!Rd /\ rb_data = IsaLevel!Rs
        /\ reg_w_sel = IsaLevel!WRd(IsaLevel!ins)
        /\ reg_w_data = (ra_data + rb_data) % 256
        /\ flag_next <=> ra_data + rb_data > 255
    BY <1>5, CommitReads DEF reg_w_sel, reg_w_data, flag_next
  <2>2. regsBar' = [regsBar EXCEPT ![IsaLevel!WRd(IsaLevel!ins)] =
                      (IsaLevel!Rd + IsaLevel!Rs) % 256]
    BY <1>3, <1>4, <2>1
  <2>4. flag' = (IsaLevel!Rd + IsaLevel!Rs > 255)
    BY <2>1, CommitBars
  <2>3. IsaLevel!Retire(opcode, IsaLevel!succ)
    BY <1>5, CommitRetires, CommitRest
  <2> QED
    BY <1>1, <1>2, <1>3, <1>5, <2>2, <2>3, <2>4
    DEF IsaLevel!Add, IsaLevel!SetRd, IsaLevel!OP_ADD, IsaLevel!Instruction,
        IsaLevel!link, IsaLevel!pads
<1>6. CASE opcode = OP_LOOP
  <2>1. PICK left : left = (regsBar[IsaLevel!WLoopRd(IsaLevel!ins)] - 1) % 256
    OBVIOUS
  <2>2. left = (ra_data - 1) % 256
    BY <1>3, <1>6, <2>1, CommitReads
  <2>3. regsBar' = [regsBar EXCEPT ![IsaLevel!WLoopRd(IsaLevel!ins)] = left]
    BY <1>3, <1>4, <1>6, <2>2, CommitReads DEF reg_w_sel, reg_w_data
  <2>4. IsaLevel!Retire(opcode, IF left # 0 THEN IsaLevel!WAddr(IsaLevel!ins)
                                            ELSE IsaLevel!succ)
    <3>1. IsaLevel!succ = pc_plus_1
      BY SameOperands DEF Commit, Edge, ExecuteCommit
    <3>2. next_pc = IF left # 0 THEN IsaLevel!WAddr(IsaLevel!ins) ELSE IsaLevel!succ
      BY <1>6, <2>2, <3>1, CommitReads DEF next_pc, branch_taken, loop_taken, is_ret
    <3> QED BY <3>2, CommitRetires
  <2>5. flag' = flag
    BY <1>6, CommitRest
  <2> QED
    BY <1>1, <1>2, <1>3, <1>6, <2>1, <2>3, <2>4, <2>5
    DEF IsaLevel!Loop, IsaLevel!OP_LOOP, IsaLevel!Instruction,
        IsaLevel!link, IsaLevel!pads
<1> QED BY <1>5, <1>6

(* STORE writes the memory; SET, OUTB and OUT drive pins; an opcode that is *)
(* not assigned only sets the flag that says so.                           *)
LEMMA OutputInstructions ==
  ASSUME Commit, opcode \in {OP_STORE, OP_SET, OP_OUTB, OP_OUT} \/ opcode > OP_ADD
  PROVE  IsaLevel!Instruction
<1> USE DEF OP_NOP, OP_DELAY, OP_LDI, OP_IN, OP_SHIFT, OP_INB, OP_LOAD, OP_LOADX,
            OP_XOR, OP_BRANCH, OP_RET, OP_LOOP, OP_CMP, OP_TESTBIT, OP_WAIT, OP_ADD,
            OP_OUT, OP_SET, OP_OUTB, OP_STORE
<1>0. opcode \in 0..31
  BY CommitReads
<1>1. IsaLevel!Retire(opcode, IsaLevel!succ)
  BY <1>0, CommitRetires, CommitRest
<1>2. /\ UNCHANGED <<retaddr, return_valid, call_ret_misuse_flag>>
      /\ flag' = flag
      /\ opcode # OP_OUT => uo_out_reg' = uo_out_reg
      /\ opcode <= OP_ADD => illegal_op_flag' = illegal_op_flag
  BY <1>0, CommitRest
<1>3. regsBar' = regsBar /\ regsBar = regs
  BY <1>0, CommitBars, CommitRegs DEF reg_w_en
<1>4. opcode # OP_STORE => sram' = sram
  BY CommitMemory
<1>5. opcode \notin {OP_SET, OP_OUTB} => mode' = mode /\ drv' = drv
  BY CommitPins
<1>6. CASE opcode = OP_STORE
  <2>1. sram' = [sram EXCEPT ![IsaLevel!DataAddr(IsaLevel!WImm(IsaLevel!ins))] =
                   IsaLevel!Rd]
    BY <1>6, CommitMemory, CommitReads, SameDataAddr
  <2> QED
    BY <1>1, <1>2, <1>3, <1>5, <1>6, <2>1
    DEF IsaLevel!Store, IsaLevel!OP_STORE, IsaLevel!Instruction, IsaLevel!link,
        IsaLevel!pads
<1>7. CASE opcode = OP_SET
  <2>1. mode' = IF IsaLevel!WRd(IsaLevel!ins) = IsaLevel!SET_MODE_LEAVE THEN mode
                ELSE [mode EXCEPT ![IsaLevel!pin] = IsaLevel!WRd(IsaLevel!ins)]
    BY <1>7, CommitPins, CommitReads DEF IsaLevel!SET_MODE_LEAVE, SET_MODE_LEAVE
  <2>2. drv' = [drv EXCEPT ![IsaLevel!pin] = IsaLevel!WAuxBit(IsaLevel!ins)]
    BY <1>7, CommitPins, CommitReads
  <2> QED
    BY <1>1, <1>2, <1>3, <1>4, <1>7, <2>1, <2>2
    DEF IsaLevel!Set, IsaLevel!OP_SET, IsaLevel!Instruction, IsaLevel!link
<1>8. CASE opcode = OP_OUTB
  <2>1. PICK bit : bit = IF IsaLevel!WAuxBit(IsaLevel!ins) = 1
                           THEN IsaLevel!Rd \div 128 ELSE IsaLevel!Rd % 2
    OBVIOUS
  <2>2. bit = IF WAuxBit(word) = 1 THEN ra_data \div 128 ELSE ra_data % 2
    BY <1>8, <2>1, CommitReads
  <2>3. drv' = [drv EXCEPT ![IsaLevel!pin] = bit] /\ mode' = mode
    BY <1>8, <2>2, CommitPins, CommitReads
  <2> QED
    BY <1>1, <1>2, <1>3, <1>4, <1>8, <2>1, <2>3
    DEF IsaLevel!Outb, IsaLevel!OP_OUTB, IsaLevel!Instruction, IsaLevel!link
<1>9. CASE opcode = OP_OUT
  <2>1. uo_out_reg' = IsaLevel!Rd
    <3>1. uo_out_reg' = ra_data
      BY <1>9 DEF Commit, ExecuteCommit
    <3>2. ra_data = IsaLevel!Rd
      BY <1>9, CommitReads
    <3> QED BY <3>1, <3>2
  <2> QED
    BY <1>1, <1>2, <1>3, <1>4, <1>5, <1>9, <2>1
    DEF IsaLevel!Out, IsaLevel!OP_OUT, IsaLevel!Instruction, IsaLevel!link
<1>10. CASE opcode > OP_ADD
  <2>1. illegal_op_flag' = TRUE
    BY <1>10 DEF Commit, ExecuteCommit
  <2>2. /\ uo_out_reg' = uo_out_reg /\ mode' = mode /\ drv' = drv /\ sram' = sram
    BY <1>0, <1>2, <1>4, <1>5, <1>10
  <2>3. IsaLevel!Opcode(IsaLevel!ins) = opcode
    BY CommitReads
  <2>4. IsaLevel!Retire(IsaLevel!Opcode(IsaLevel!ins), IsaLevel!succ)
    BY <1>1, <2>3
  <2> QED
    BY <1>2, <1>3, <1>10, <2>1, <2>2, <2>3, <2>4
    DEF IsaLevel!Illegal, IsaLevel!OP_ADD, IsaLevel!Instruction, IsaLevel!link,
        IsaLevel!pads
<1> QED BY <1>6, <1>7, <1>8, <1>9, <1>10

(* Branches, calls and returns.                                            *)
LEMMA JumpInstructions ==
  ASSUME Commit, opcode \in {OP_BRANCH, OP_RET}
  PROVE  IsaLevel!Instruction
<1> USE DEF OP_NOP, OP_DELAY, OP_LDI, OP_IN, OP_SHIFT, OP_INB, OP_LOAD, OP_LOADX,
            OP_XOR, OP_BRANCH, OP_RET, OP_LOOP, OP_CMP, OP_TESTBIT, OP_WAIT, OP_ADD,
            OP_OUT, OP_SET, OP_OUTB, OP_STORE
<1>1. /\ flag' = flag /\ uo_out_reg' = uo_out_reg
      /\ illegal_op_flag' = illegal_op_flag
  BY CommitRest
<1>2. mode' = mode /\ drv' = drv
  BY CommitPins
<1>3. sram' = sram /\ regsBar' = regsBar
  BY CommitMemory, CommitBars, CommitRegs DEF reg_w_en
<1>4. /\ retaddr' = (IF is_call THEN pc_plus_1 ELSE retaddr)
      /\ return_valid' = (is_call \/ (return_valid /\ ~is_ret))
      /\ call_ret_misuse_flag' =
           (call_ret_misuse_flag \/ (is_call /\ return_valid)
                                 \/ (is_ret /\ ~return_valid))
  BY DEF Commit, ExecuteCommit
<1>5. /\ return_valid \in BOOLEAN /\ call_ret_misuse_flag \in BOOLEAN
      /\ return_valid' \in BOOLEAN /\ call_ret_misuse_flag' \in BOOLEAN
  BY DEF Commit, Edge, BootInv, PipeInv, TypeOK, FsmTypeOK
<1>6. IsaLevel!succ = pc_plus_1
  BY SameOperands DEF Commit, Edge, ExecuteCommit
<1>7. CASE opcode = OP_RET
  <2>1. next_pc = retaddr /\ is_ret /\ ~is_call
    BY <1>7 DEF next_pc, branch_taken, loop_taken, is_ret, is_call
  <2>2. IsaLevel!Retire(opcode, retaddr)
    BY <2>1, CommitRetires
  <2>3. /\ retaddr' = retaddr /\ return_valid' = FALSE
        /\ call_ret_misuse_flag' = (call_ret_misuse_flag \/ ~return_valid)
    BY <1>4, <1>5, <2>1
  <2> QED
    BY <1>1, <1>2, <1>3, <1>7, <2>2, <2>3
    DEF IsaLevel!Ret, IsaLevel!OP_RET, IsaLevel!Instruction, IsaLevel!pads
<1>8. CASE opcode = OP_BRANCH /\ WCond(word) = COND_CALL
  <2>1. next_pc = WAddr(word) /\ is_call /\ ~is_ret
    BY <1>8 DEF next_pc, branch_taken, loop_taken, is_ret, is_call
  <2>2. IsaLevel!Retire(opcode, IsaLevel!WAddr(IsaLevel!ins))
    BY <2>1, CommitRetires, CommitReads
  <2>3. /\ retaddr' = IsaLevel!succ /\ return_valid' = TRUE
        /\ call_ret_misuse_flag' = (call_ret_misuse_flag \/ return_valid)
    BY <1>4, <1>5, <1>6, <2>1
  <2>4. IsaLevel!WCond(IsaLevel!ins) = IsaLevel!COND_CALL
    BY <1>8, CommitReads DEF IsaLevel!COND_CALL, COND_CALL
  <2> QED
    BY <1>1, <1>2, <1>3, <1>8, <2>2, <2>3, <2>4
    DEF IsaLevel!Call, IsaLevel!OP_BRANCH, IsaLevel!Instruction, IsaLevel!pads
<1>9. CASE opcode = OP_BRANCH /\ WCond(word) # COND_CALL
  <2>1. ~is_call /\ ~is_ret
    BY <1>9 DEF is_ret, is_call
  <2>2. /\ retaddr' = retaddr /\ return_valid' = return_valid
        /\ call_ret_misuse_flag' = call_ret_misuse_flag
    BY <1>4, <1>5, <2>1
  <2>3. IsaLevel!Taken <=> branch_taken
    BY <1>9, CommitReads
    DEF IsaLevel!Taken, branch_taken, IsaLevel!COND_JMP, COND_JMP, IsaLevel!COND_BEQ,
        COND_BEQ, IsaLevel!COND_BNE, COND_BNE
  <2>4. PICK target : target = IF IsaLevel!Taken THEN IsaLevel!WAddr(IsaLevel!ins)
                                                 ELSE IsaLevel!succ
    OBVIOUS
  <2>5. next_pc = target
    BY <1>6, <1>9, <2>1, <2>3, <2>4, CommitReads DEF next_pc, loop_taken
  <2>6. IsaLevel!Retire(opcode, target)
    BY <2>5, CommitRetires
  <2>7. IsaLevel!WCond(IsaLevel!ins) # IsaLevel!COND_CALL
    BY <1>9, CommitReads DEF IsaLevel!COND_CALL, COND_CALL
  <2>8. UNCHANGED IsaLevel!arch
    BY <1>1, <1>2, <1>3, <2>2 DEF IsaLevel!arch, IsaLevel!link, IsaLevel!pads
  <2> QED
    BY <1>9, <2>4, <2>6, <2>7, <2>8
    DEF IsaLevel!Branch, IsaLevel!OP_BRANCH, IsaLevel!Instruction
<1> QED BY <1>7, <1>8, <1>9

(* Every commit is an instruction of Isa.                                  *)
LEMMA CommitMaps ==
  ASSUME Commit
  PROVE  IsaLevel!Instruction
<1>1. opcode \in 0..31 /\ opcode # OP_HALT
  BY CommitReads, CommitBars
<1>2. \/ opcode \in {OP_NOP, OP_DELAY}
      \/ opcode \in {OP_WAIT, OP_TESTBIT, OP_CMP}
      \/ opcode \in {OP_ADD, OP_LOOP}
      \/ opcode \in {OP_STORE, OP_SET, OP_OUTB, OP_OUT} \/ opcode > OP_ADD
      \/ opcode \in {OP_BRANCH, OP_RET}
      \/ opcode \in {OP_LDI, OP_IN, OP_SHIFT, OP_INB, OP_LOAD, OP_LOADX, OP_XOR}
  BY <1>1
  DEF OP_NOP, OP_HALT, OP_DELAY, OP_LDI, OP_IN, OP_SHIFT, OP_INB, OP_LOAD, OP_LOADX,
      OP_XOR, OP_BRANCH, OP_RET, OP_LOOP, OP_CMP, OP_TESTBIT, OP_WAIT, OP_ADD,
      OP_OUT, OP_SET, OP_OUTB, OP_STORE
<1> QED
  BY <1>2, IdleInstructions, FlagInstructions, ArithmeticInstructions,
     OutputInstructions, JumpInstructions, RdInstructions

-----------------------------------------------------------------------------
(* The refinement.                                                         *)

(* Power-up and reset are those of Isa.                                    *)
LEMMA InitMaps ==
  ASSUME Init
  PROVE  IsaLevel!Init
<1> USE DEF S_LOAD, S_FETCH_LO, S_FETCH_HI, S_EXECUTE
<1>1. /\ runBar = "load" /\ loadedBar = 0 /\ phaseBar = 0 /\ waitedBar = 0
      /\ regsBar = regs
  BY DEF Init, runBar, loadedBar, phaseBar, waitedBar, counting, regsBar
<1>2. sram \in [IsaLevel!ByteAddr -> IsaLevel!Byte]
  BY SramAssumption DEF Init, IsaLevel!ByteAddr, ByteAddr, IsaLevel!MemBytes, MemBytes,
     IsaLevel!Byte, Byte
<1> QED
  BY <1>1, <1>2 DEF Init, PinInit, IsaLevel!Init, IsaLevel!Start0, RegIndex, PinIndex,
     IsaLevel!RegIndex, IsaLevel!PinIndex, SET_MODE_INPUT, IsaLevel!SET_MODE_INPUT

LEMMA ResetMaps ==
  ASSUME Reset
  PROVE  IsaLevel!Reset
<1>1. /\ runBar' = "load" /\ loadedBar' = 0 /\ phaseBar' = 0 /\ waitedBar' = 0
      /\ regsBar' = regs'
  BY DEF Reset, runBar, loadedBar, phaseBar, waitedBar, counting, regsBar,
     S_LOAD, S_FETCH_HI, S_EXECUTE
<1> QED
  BY <1>1 DEF Reset, PinReset, IsaLevel!Reset, IsaLevel!Start0, RegIndex, PinIndex,
     IsaLevel!RegIndex, IsaLevel!PinIndex, SET_MODE_INPUT, IsaLevel!SET_MODE_INPUT

(* A clock edge is a cycle of Isa.                                         *)
LEMMA TickMaps ==
  ASSUME BootInv, BootInv', Tick
  PROVE  IsaLevel!Next
<1>1. PICK ui \in UiValues, uio \in UioValues : Clock(ui, uio)
  BY DEF Tick
<1>2. Edge /\ Fsm
  BY <1>1 DEF Clock, PinClock, Edge, BootInv, PipeInv
<1>3. IsaLevel!Sample
  BY DEF BootInv, PipeInv, TypeOK, PinTypeOK, IsaLevel!Sample, IsaLevel!Byte, Byte,
     IsaLevel!PinIndex, PinIndex
<1>4. CASE Frozen
  BY <1>2, <1>3, <1>4, FrozenMaps DEF IsaLevel!Next
<1>5. CASE LoadStart \/ LoadAcked \/ LoadByte \/ LoadIdle
  <2>1. state = S_LOAD
    BY <1>5 DEF LoadStart, LoadAcked, LoadByte, LoadIdle
  <2>2. LoadInv'
    BY DEF BootInv
  <2>3. IsaLevel!LoadCycle \/ IsaLevel!Go
    BY <1>2, <2>1, <2>2, LoadMaps
  <2> QED BY <1>3, <2>3 DEF IsaLevel!Next
<1>6. CASE FetchLo \/ FetchHi
  BY <1>2, <1>3, <1>6, FetchMaps DEF IsaLevel!Next
<1>7. CASE ExecuteHold
  BY <1>2, <1>3, <1>7, HoldMaps DEF IsaLevel!Next
<1>8. CASE ExecuteHalt
  <2>1. IsaLevel!Instruction
    BY <1>2, <1>8, HaltMaps DEF IsaLevel!Instruction
  <2> QED BY <1>3, <2>1 DEF IsaLevel!Next
<1>9. CASE ExecuteCommit
  BY <1>2, <1>3, <1>9, CommitMaps DEF Commit, IsaLevel!Next
<1> QED BY <1>2, <1>4, <1>5, <1>6, <1>7, <1>8, <1>9 DEF Fsm

LEMMA StutterMaps ==
  ASSUME UNCHANGED vars
  PROVE  UNCHANGED IsaLevel!vars
<1>1. UNCHANGED <<state, pc, halted, flag, retaddr, return_valid, illegal_op_flag,
                  call_ret_misuse_flag, boot_addr, boot_full, uo_out_reg,
                  pending_lx_writeback, pending_lx_rd, regs, sram, mem_rdata, count,
                  ir, ir_lo, entering_execute, mode, drv, ui_in_ff2, uio_in_ff2>>
  BY DEF vars, fsmVars, fetchVars, archVars, bootVars, lxVars, pinVars, syncVars
<1>2. word' = word
  BY <1>1 DEF word
<1>3. /\ runBar' = runBar /\ loadedBar' = loadedBar /\ phaseBar' = phaseBar
      /\ regsBar' = regsBar
  BY <1>1 DEF runBar, loadedBar, phaseBar, regsBar
<1>4. waitedBar' = waitedBar
  BY <1>1, <1>2 DEF waitedBar, counting, opcode, wait_has_timeout, cnt_mantissa
<1> QED
  BY <1>1, <1>3, <1>4 DEF IsaLevel!vars, IsaLevel!arch, IsaLevel!link, IsaLevel!pads

(* Every program behaves, cycle by cycle, as golden_model.py says it does. *)
THEOREM Refinement == Spec => ImplementsIsa
<1>1. Init => IsaLevel!Init
  BY InitMaps
<1>2. BootInv /\ BootInv' /\ [Next]_vars => [IsaLevel!Next]_(IsaLevel!vars)
  <2> SUFFICES ASSUME BootInv, BootInv', [Next]_vars
               PROVE  [IsaLevel!Next]_(IsaLevel!vars)
    OBVIOUS
  <2>1. CASE Tick
    BY <2>1, TickMaps
  <2>2. CASE Reset
    BY <2>2, ResetMaps DEF IsaLevel!Next
  <2>3. CASE UNCHANGED vars
    BY <2>3, StutterMaps
  <2> QED BY <2>1, <2>2, <2>3 DEF Next
<1> QED
  BY <1>1, <1>2, BootInvariant, PTL DEF Spec, IsaLevel!Spec, ImplementsIsa
=============================================================================
