-------------------------------- MODULE Core --------------------------------
(***************************************************************************)
(* The sequencer at clock-edge granularity: src/src/cpu/core.v with the    *)
(* register file (src/src/cpu/regfile.v), the SRAM (src/src/mem/mem.v),    *)
(* the counter and the pin controller, wired as src/src/top.v wires them.  *)
(*                                                                         *)
(* Everything the hardware does at one rising edge is one step (Clock),    *)
(* because every register samples the same wires: the wires are state      *)
(* functions of the current state, named as in core.v.  The levels of the  *)
(* pads at the edge are parameters of Clock: Chip.tla lets them be         *)
(* anything, PeHost.tla has the host library drive them.                   *)
(***************************************************************************)
EXTENDS PinCtrl, CycleCounter

CONSTANTS
  SramImages,  \* contents of the SRAM at power-up; it has no reset
  SramReads    \* what its read port may show before the first access

ASSUME SramAssumption ==
  SramImages \subseteq [ByteAddr -> Byte] /\ SramReads \subseteq Byte

VARIABLES
  state, pc, ir_lo, ir, entering_execute, halted,
  flag, retaddr, return_valid, illegal_op_flag, call_ret_misuse_flag,
  boot_addr, boot_full, load_ack, uo_out_reg,
  pending_lx_writeback, pending_lx_rd,
  regs,             \* the four 8-bit registers of regfile.v
  sram, mem_rdata   \* the macro's array and its registered read port

bootVars == <<boot_addr, boot_full, load_ack>>
fetchVars == <<ir_lo, entering_execute>>
archVars == <<flag, retaddr, return_valid, illegal_op_flag,
              call_ret_misuse_flag>>
lxVars == <<pending_lx_writeback, pending_lx_rd>>
fsmVars == <<state, pc, fetchVars, ir, halted, archVars, bootVars,
             uo_out_reg, lxVars>>
vars == <<fsmVars, regs, sram, mem_rdata, count, pinVars>>

S_LOAD == "S_LOAD"
S_FETCH_LO == "S_FETCH_LO"
S_FETCH_HI == "S_FETCH_HI"
S_EXECUTE == "S_EXECUTE"

-----------------------------------------------------------------------------
(* Decode: the live word in the first cycle of EXECUTE, the latched one    *)
(* in the cycles a DELAY or a WAIT stays there.                            *)
wordUnlatched == 256 * mem_rdata + ir_lo   \* fault: ir never latched

word == IF entering_execute THEN 256 * mem_rdata + ir_lo ELSE ir
opcode == Opcode(word)

mode_load == state = S_LOAD
host_go_rise == HostGoRise(mode_load)
host_go_fall == HostGoFall(mode_load)
start_rise == StartRise(mode_load)

pin_index == IF mode_load THEN HOST_STATUS ELSE WPinIndex(word)
pin_read == PinRead(pin_index)

ra_data == regs[IF opcode = OP_LOOP THEN WLoopRd(word) ELSE WRd(word)]
rb_data == regs[WRs(word)]

(* DELAY and WAIT.                                                         *)
wait_has_timeout == WWaitMant(word) # 0
wait_condition_met == pin_read = WAuxBit(word)

cnt_loadLevel ==   \* fault: the load lasts as long as the instruction
  opcode = OP_DELAY \/ (opcode = OP_WAIT /\ wait_has_timeout)

cnt_load ==
  /\ entering_execute
  /\ opcode = OP_DELAY \/ (opcode = OP_WAIT /\ wait_has_timeout)
cnt_mantissa == IF opcode = OP_DELAY THEN WDelayMant(word) ELSE WWaitMant(word)
cnt_expired == Expired(cnt_load, cnt_mantissa, WExponent(word))

delay_pending == opcode = OP_DELAY /\ ~cnt_expired
wait_pending ==
  /\ opcode = OP_WAIT
  /\ ~wait_condition_met
  /\ ~(wait_has_timeout /\ cnt_expired)
exec_done == ~delay_pending /\ ~wait_pending
exec_commit == state = S_EXECUTE /\ exec_done

-----------------------------------------------------------------------------
(* Register file: written at the end of EXECUTE, or by the LOAD/LOADX of   *)
(* the previous instruction at the end of FETCH_LO.                        *)
reg_w_en == opcode \in {OP_LDI, OP_IN, OP_SHIFT, OP_INB, OP_LOOP, OP_XOR, OP_ADD}
reg_w_sel == IF opcode = OP_LOOP THEN WLoopRd(word) ELSE WRd(word)
reg_w_data ==
  CASE opcode = OP_LDI -> WLdiValue(word)
    [] opcode = OP_IN -> ui_in_sync
    [] opcode = OP_SHIFT -> ShiftByte(ra_data, WShiftDir(word))
    [] opcode = OP_INB -> InsertBit(ra_data, WAuxBit(word), pin_read)
    [] opcode = OP_LOOP -> (ra_data - 1) % 256
    [] opcode = OP_XOR -> XorByte(ra_data, rb_data)
    [] opcode = OP_ADD -> (ra_data + rb_data) % 256
    [] OTHER -> 0

RegfileClock ==
  regs' = IF state = S_EXECUTE
            THEN IF exec_done /\ reg_w_en
                   THEN [regs EXCEPT ![reg_w_sel] = reg_w_data]
                   ELSE regs
            ELSE IF state = S_FETCH_LO /\ pending_lx_writeback
                   THEN [regs EXCEPT ![pending_lx_rd] = mem_rdata]
                   ELSE regs

-----------------------------------------------------------------------------
(* Branches.                                                               *)
is_call == opcode = OP_BRANCH /\ WCond(word) = COND_CALL
is_ret == opcode = OP_RET
branch_taken ==
  /\ opcode = OP_BRANCH
  /\ \/ WCond(word) \in {COND_JMP, COND_CALL}
     \/ WCond(word) = COND_BEQ /\ flag
     \/ WCond(word) = COND_BNE /\ ~flag
loop_taken == opcode = OP_LOOP /\ (ra_data - 1) % 256 # 0

pc_plus_1Unwrapped == pc + 1   \* fault: a pc wider than the address field

pc_plus_1 == (pc + 1) % Words
next_pc == IF branch_taken \/ loop_taken THEN WAddr(word)
           ELSE IF is_ret THEN retaddr ELSE pc_plus_1

-----------------------------------------------------------------------------
(* SRAM: one port, registered read, write-through.                         *)
mem_addrNoBase ==   \* fault: LOAD and STORE forget the data base
  CASE state = S_LOAD -> boot_addr
    [] state = S_FETCH_LO -> 2 * pc
    [] state = S_FETCH_HI -> 2 * pc + 1
    [] state = S_EXECUTE /\ opcode \in {OP_LOAD, OP_STORE} -> WImm(word) % Words
    [] OTHER -> 0

mem_addr ==
  CASE state = S_LOAD -> boot_addr
    [] state = S_FETCH_LO -> 2 * pc
    [] state = S_FETCH_HI -> 2 * pc + 1
    [] state = S_EXECUTE /\ opcode \in {OP_LOAD, OP_STORE} -> DataAddr(WImm(word))
    [] state = S_EXECUTE /\ opcode = OP_LOADX -> DataAddr(rb_data)
    [] OTHER -> 0
mem_weOverrun ==   \* fault: strobes past the end rewrite the last byte
  \/ state = S_LOAD /\ host_go_rise /\ ~load_ack
  \/ state = S_EXECUTE /\ opcode = OP_STORE

mem_weLevel ==   \* fault: writes as long as HOST_GO is high
  \/ state = S_LOAD /\ HOST_GO \in uio_in_ff2 /\ ~boot_full
  \/ state = S_EXECUTE /\ opcode = OP_STORE

mem_we ==
  \/ state = S_LOAD /\ host_go_rise /\ ~load_ack /\ ~boot_full
  \/ state = S_EXECUTE /\ opcode = OP_STORE
mem_wdata == IF state = S_LOAD THEN ui_in_sync ELSE ra_data

MemClock ==
  /\ sram' = IF mem_we THEN [sram EXCEPT ![mem_addr] = mem_wdata] ELSE sram
  /\ mem_rdata' = IF mem_we THEN mem_wdata ELSE sram[mem_addr]

-----------------------------------------------------------------------------
(* Request to the pin controller: the boot acknowledge, continuously, or   *)
(* the SET/OUTB that commits in this cycle.                                *)
pin_request ==
  [ set_en |-> mode_load \/ (exec_commit /\ opcode = OP_SET),
    set_mode |-> IF mode_load THEN SET_MODE_LEAVE ELSE WRd(word),
    set_value |-> IF mode_load THEN IF load_ack THEN 1 ELSE 0
                               ELSE WAuxBit(word),
    outb_en |-> exec_commit /\ opcode = OP_OUTB,
    outb_bit |-> IF WAuxBit(word) = 1 THEN ra_data \div 128 ELSE ra_data % 2,
    pin_index |-> pin_index ]

boot_addr_next == IF boot_addr = MemBytes - 1 THEN boot_addr ELSE boot_addr + 1

-----------------------------------------------------------------------------
(* The main FSM, one action per arm, in the priority order of the code.    *)
Frozen == halted /\ UNCHANGED fsmVars

LoadStartKeepsEcho ==   \* fault: the last echo stays on uo_out
  /\ ~halted /\ state = S_LOAD /\ start_rise
  /\ state' = S_FETCH_LO
  /\ pc' = 0
  /\ UNCHANGED <<fetchVars, ir, halted, archVars, bootVars, uo_out_reg,
                 lxVars>>

LoadStart ==
  /\ ~halted /\ state = S_LOAD /\ start_rise
  /\ state' = S_FETCH_LO
  /\ pc' = 0
  /\ uo_out_reg' = 0
  /\ UNCHANGED <<fetchVars, ir, halted, archVars, bootVars, lxVars>>

LoadAckedStuck ==   \* fault: the acknowledge is never withdrawn
  /\ ~halted /\ state = S_LOAD /\ ~start_rise /\ load_ack
  /\ UNCHANGED fsmVars

LoadAcked ==
  /\ ~halted /\ state = S_LOAD /\ ~start_rise /\ load_ack
  /\ load_ack' = ~host_go_fall
  /\ UNCHANGED <<state, pc, fetchVars, ir, halted, archVars, boot_addr,
                 boot_full, uo_out_reg, lxVars>>

LoadByteEchoesOld ==   \* fault: echoes the address before the increment
  /\ ~halted /\ state = S_LOAD /\ ~start_rise /\ ~load_ack /\ host_go_rise
  /\ boot_addr' = boot_addr_next
  /\ boot_full' = (boot_full \/ boot_addr = MemBytes - 1)
  /\ uo_out_reg' = boot_addr % 256
  /\ load_ack' = TRUE
  /\ UNCHANGED <<state, pc, fetchVars, ir, halted, archVars, lxVars>>

LoadByte ==
  /\ ~halted /\ state = S_LOAD /\ ~start_rise /\ ~load_ack /\ host_go_rise
  /\ boot_addr' = boot_addr_next
  /\ boot_full' = (boot_full \/ boot_addr = MemBytes - 1)
  /\ uo_out_reg' = boot_addr_next % 256
  /\ load_ack' = TRUE
  /\ UNCHANGED <<state, pc, fetchVars, ir, halted, archVars, lxVars>>

LoadIdle ==
  /\ ~halted /\ state = S_LOAD /\ ~start_rise /\ ~load_ack /\ ~host_go_rise
  /\ UNCHANGED fsmVars

FetchLoKeepsPending ==   \* fault: the pending writeback is not cleared
  /\ ~halted /\ state = S_FETCH_LO
  /\ state' = S_FETCH_HI
  /\ UNCHANGED <<pc, fetchVars, ir, halted, archVars, bootVars, uo_out_reg,
                 lxVars>>

FetchLo ==
  /\ ~halted /\ state = S_FETCH_LO
  /\ state' = S_FETCH_HI
  /\ pending_lx_writeback' = FALSE
  /\ UNCHANGED <<pc, fetchVars, ir, halted, archVars, bootVars, uo_out_reg,
                 pending_lx_rd>>

FetchHi ==
  /\ ~halted /\ state = S_FETCH_HI
  /\ ir_lo' = mem_rdata
  /\ state' = S_EXECUTE
  /\ entering_execute' = TRUE
  /\ UNCHANGED <<pc, ir, halted, archVars, bootVars, uo_out_reg, lxVars>>

flag_next ==
  \/ opcode = OP_CMP /\ ra_data = rb_data
  \/ opcode = OP_TESTBIT /\ BitOf(ra_data, WBitIdx(word)) = 1
  \/ opcode = OP_WAIT /\ ~wait_condition_met
  \/ opcode = OP_ADD /\ ra_data + rb_data > 255
  \/ opcode \notin {OP_CMP, OP_TESTBIT, OP_WAIT, OP_ADD} /\ flag

(* EXECUTE, a DELAY or a WAIT that is not over.                            *)
ExecuteHold ==
  /\ ~halted /\ state = S_EXECUTE /\ ~exec_done
  /\ ir' = word
  /\ entering_execute' = FALSE
  /\ UNCHANGED <<state, pc, ir_lo, halted, archVars, bootVars, uo_out_reg,
                 lxVars>>

ExecuteHalt ==
  /\ ~halted /\ state = S_EXECUTE /\ exec_done /\ opcode = OP_HALT
  /\ ir' = word
  /\ entering_execute' = FALSE
  /\ halted' = TRUE
  /\ UNCHANGED <<state, pc, ir_lo, archVars, bootVars, uo_out_reg, lxVars>>

ExecuteCommit ==
  /\ ~halted /\ state = S_EXECUTE /\ exec_done /\ opcode # OP_HALT
  /\ ir' = word
  /\ entering_execute' = FALSE
  /\ state' = S_FETCH_LO
  /\ pc' = next_pc
  /\ flag' = flag_next
  /\ retaddr' = IF is_call THEN pc_plus_1 ELSE retaddr
  /\ return_valid' = (is_call \/ (return_valid /\ ~is_ret))
  /\ call_ret_misuse_flag' =
       (call_ret_misuse_flag \/ (is_call /\ return_valid)
                             \/ (is_ret /\ ~return_valid))
  /\ pending_lx_writeback' =
       (pending_lx_writeback \/ opcode \in {OP_LOAD, OP_LOADX})
  /\ pending_lx_rd' = IF opcode \in {OP_LOAD, OP_LOADX} THEN WRd(word)
                                                        ELSE pending_lx_rd
  /\ uo_out_reg' = IF opcode = OP_OUT THEN ra_data ELSE uo_out_reg
  /\ illegal_op_flag' = (illegal_op_flag \/ opcode > OP_ADD)
  /\ UNCHANGED <<ir_lo, halted, bootVars>>

Fsm ==
  \/ Frozen
  \/ LoadStart \/ LoadAcked \/ LoadByte \/ LoadIdle
  \/ FetchLo \/ FetchHi
  \/ ExecuteHold \/ ExecuteHalt \/ ExecuteCommit

-----------------------------------------------------------------------------
(* A rising clock edge with the given levels on the pads.                  *)
Clock(ui, uio) ==
  /\ Fsm
  /\ RegfileClock
  /\ MemClock
  /\ CounterClock(cnt_load, cnt_mantissa, WExponent(word))
  /\ PinClock(ui, uio, mode_load, pin_request)

(* All registers at their reset values; the SRAM has no reset and powers up *)
(* with anything.                                                          *)
Init ==
  /\ state = S_LOAD /\ pc = 0 /\ ir_lo = 0 /\ ir = 0
  /\ entering_execute = FALSE /\ halted = FALSE
  /\ flag = FALSE /\ retaddr = 0 /\ return_valid = FALSE
  /\ illegal_op_flag = FALSE /\ call_ret_misuse_flag = FALSE
  /\ boot_addr = 0 /\ boot_full = FALSE /\ load_ack = FALSE
  /\ uo_out_reg = 0
  /\ pending_lx_writeback = FALSE /\ pending_lx_rd = 0
  /\ regs = [r \in RegIndex |-> 0]
  /\ count = 0
  /\ PinInit
  /\ sram \in SramImages
  /\ mem_rdata \in SramReads

(* rst_n goes low.  It is asynchronous and disables the SRAM, whose        *)
(* contents and output survive.                                            *)
Reset ==
  /\ state' = S_LOAD /\ pc' = 0 /\ ir_lo' = 0 /\ ir' = 0
  /\ entering_execute' = FALSE /\ halted' = FALSE
  /\ flag' = FALSE /\ retaddr' = 0 /\ return_valid' = FALSE
  /\ illegal_op_flag' = FALSE /\ call_ret_misuse_flag' = FALSE
  /\ boot_addr' = 0 /\ boot_full' = FALSE /\ load_ack' = FALSE
  /\ uo_out_reg' = 0
  /\ pending_lx_writeback' = FALSE /\ pending_lx_rd' = 0
  /\ regs' = [r \in RegIndex |-> 0]
  /\ CounterReset
  /\ PinReset
  /\ UNCHANGED <<sram, mem_rdata>>
=============================================================================
