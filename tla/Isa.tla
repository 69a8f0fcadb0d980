--------------------------------- MODULE Isa ---------------------------------
(***************************************************************************)
(* What the sequencer promises a programmer, one instruction at a time:    *)
(* the instruction-level reference model of src/test/golden_model.py with  *)
(* its cycle counts, run from the one memory that holds both program and   *)
(* data.  There is no pipeline here: the word at pc is read when the       *)
(* instruction completes, and every effect of it happens then.             *)
(*                                                                         *)
(* phase counts the cycles of the current instruction up to its third,     *)
(* waited the further ones of a DELAY or of a WAIT with a timeout, the k   *)
(* of golden_model.step.  ui_sync and uio_sync are what io_read returns    *)
(* in the current cycle.  The load mode before START takes bytes in        *)
(* order, each at the address that is the number of bytes taken so far.    *)
(***************************************************************************)
EXTENDS IsaDefs

VARIABLES
  run,       \* "load", "run" or "halt"
  loaded,    \* bytes taken while loading
  phase, waited,
  pc, regs, flag, retaddr, return_valid, illegal_op_flag,
  call_ret_misuse_flag, uo_out, mem, pin_mode, pin_drv,
  ui_sync, uio_sync

link == <<retaddr, return_valid, call_ret_misuse_flag>>
pads == <<uo_out, pin_mode, pin_drv>>
arch == <<regs, flag, link, illegal_op_flag, pads, mem>>
vars == <<run, loaded, phase, waited, pc, arch, ui_sync, uio_sync>>

HOST_STATUS == 5

(* uo_out while loading: the number of bytes taken, which sticks at the    *)
(* last address of the memory.                                             *)
Echo(n) == IF n = MemBytes THEN (MemBytes - 1) % 256 ELSE n % 256

Start0 ==
  /\ run = "load" /\ loaded = 0 /\ phase = 0 /\ waited = 0
  /\ pc = 0 /\ regs = [r \in RegIndex |-> 0]
  /\ flag = FALSE /\ retaddr = 0 /\ return_valid = FALSE
  /\ illegal_op_flag = FALSE /\ call_ret_misuse_flag = FALSE
  /\ uo_out = 0
  /\ pin_mode = [p \in PinIndex |-> SET_MODE_INPUT]
  /\ pin_drv = [p \in PinIndex |-> 0]
  /\ ui_sync = 0 /\ uio_sync = {}

Init == Start0 /\ mem \in [ByteAddr -> Byte]

-----------------------------------------------------------------------------
ins == WordAt(mem, pc)
pin == WPinIndex(ins)
PinLevel == IF pin \in uio_sync THEN 1 ELSE 0

Sample == ui_sync' \in Byte /\ uio_sync' \in SUBSET PinIndex

(* Completion: after three cycles, a DELAY after its count, a WAIT when    *)
(* the pin has the level or, if it has a timeout, when that is reached.    *)
Target == IF Opcode(ins) = OP_DELAY THEN Shifted(WDelayMant(ins), WExponent(ins))
                                    ELSE Shifted(WWaitMant(ins), WExponent(ins))
HasTimeout == Opcode(ins) = OP_WAIT /\ WWaitMant(ins) # 0
Met == PinLevel = WAuxBit(ins)

Completes ==
  /\ phase = 2
  /\ Opcode(ins) = OP_DELAY => waited >= Target
  /\ Opcode(ins) = OP_WAIT => Met \/ (HasTimeout /\ waited >= Target)

Timed == Opcode(ins) = OP_DELAY \/ HasTimeout

(* A cycle in which the instruction does not complete.                     *)
Cycle ==
  /\ run = "run" /\ ~Completes
  /\ phase' = IF phase < 2 THEN phase + 1 ELSE phase
  /\ waited' = IF phase = 2 /\ Timed THEN waited + 1 ELSE waited
  /\ UNCHANGED <<run, loaded, pc, arch>>

-----------------------------------------------------------------------------
(* Completion of an instruction with opcode op, going on at next.          *)
Retire(op, next) ==
  /\ run = "run" /\ Completes /\ Opcode(ins) = op
  /\ pc' = next
  /\ phase' = 0 /\ waited' = 0
  /\ UNCHANGED <<run, loaded>>

succ == (pc + 1) % Words
Rd == regs[WRd(ins)]
Rs == regs[WRs(ins)]
SetRd(value) == regs' = [regs EXCEPT ![WRd(ins)] = value]

Nop == Retire(OP_NOP, succ) /\ UNCHANGED arch

Halt ==
  /\ run = "run" /\ Completes /\ Opcode(ins) = OP_HALT
  /\ run' = "halt" /\ phase' = 0
  /\ UNCHANGED <<loaded, waited, pc, arch>>

Ret ==
  /\ Retire(OP_RET, retaddr)
  /\ call_ret_misuse_flag' = (call_ret_misuse_flag \/ ~return_valid)
  /\ return_valid' = FALSE
  /\ UNCHANGED <<regs, flag, retaddr, illegal_op_flag, pads, mem>>

Taken ==
  \/ WCond(ins) = COND_JMP
  \/ WCond(ins) = COND_BEQ /\ flag
  \/ WCond(ins) = COND_BNE /\ ~flag

Branch ==
  /\ WCond(ins) # COND_CALL
  /\ Retire(OP_BRANCH, IF Taken THEN WAddr(ins) ELSE succ)
  /\ UNCHANGED arch

Call ==
  /\ WCond(ins) = COND_CALL
  /\ Retire(OP_BRANCH, WAddr(ins))
  /\ call_ret_misuse_flag' = (call_ret_misuse_flag \/ return_valid)
  /\ retaddr' = succ
  /\ return_valid' = TRUE
  /\ UNCHANGED <<regs, flag, illegal_op_flag, pads, mem>>

(* The instructions that only write Rd.                                    *)
WriteRd(op, value) ==
  /\ Retire(op, succ)
  /\ SetRd(value)
  /\ UNCHANGED <<flag, link, illegal_op_flag, pads, mem>>

Ldi == WriteRd(OP_LDI, WLdiValue(ins))
In == WriteRd(OP_IN, ui_sync)
Shift == WriteRd(OP_SHIFT, ShiftByte(Rd, WShiftDir(ins)))
Inb == WriteRd(OP_INB, InsertBit(Rd, WAuxBit(ins), PinLevel))
Load == WriteRd(OP_LOAD, mem[DataAddr(WImm(ins))])
Loadx == WriteRd(OP_LOADX, mem[DataAddr(Rs)])
Xor == WriteRd(OP_XOR, XorByte(Rd, Rs))

Add ==
  /\ Retire(OP_ADD, succ)
  /\ SetRd((Rd + Rs) % 256)
  /\ flag' = (Rd + Rs > 255)
  /\ UNCHANGED <<link, illegal_op_flag, pads, mem>>

Loop ==
  LET left == (regs[WLoopRd(ins)] - 1) % 256
  IN  /\ Retire(OP_LOOP, IF left # 0 THEN WAddr(ins) ELSE succ)
      /\ regs' = [regs EXCEPT ![WLoopRd(ins)] = left]
      /\ UNCHANGED <<flag, link, illegal_op_flag, pads, mem>>

(* The instructions that only write the flag.                              *)
WriteFlag(op, value) ==
  /\ Retire(op, succ)
  /\ flag' = value
  /\ UNCHANGED <<regs, link, illegal_op_flag, pads, mem>>

Wait == WriteFlag(OP_WAIT, ~Met)
Testbit == WriteFlag(OP_TESTBIT, BitOf(Rd, WBitIdx(ins)) = 1)
Cmp == WriteFlag(OP_CMP, Rd = Rs)

Delay == Retire(OP_DELAY, succ) /\ UNCHANGED arch

Store ==
  /\ Retire(OP_STORE, succ)
  /\ mem' = [mem EXCEPT ![DataAddr(WImm(ins))] = Rd]
  /\ UNCHANGED <<regs, flag, link, illegal_op_flag, pads>>

(* The instructions that drive pins.                                       *)
Set ==
  /\ Retire(OP_SET, succ)
  /\ pin_mode' = IF WRd(ins) = SET_MODE_LEAVE THEN pin_mode
                 ELSE [pin_mode EXCEPT ![pin] = WRd(ins)]
  /\ pin_drv' = [pin_drv EXCEPT ![pin] = WAuxBit(ins)]
  /\ UNCHANGED <<regs, flag, link, illegal_op_flag, uo_out, mem>>

Outb ==
  /\ Retire(OP_OUTB, succ)
  /\ pin_drv' = [pin_drv EXCEPT ![pin] =
                   IF WAuxBit(ins) = 1 THEN Rd \div 128 ELSE Rd % 2]
  /\ UNCHANGED <<regs, flag, link, illegal_op_flag, uo_out, pin_mode, mem>>

Out ==
  /\ Retire(OP_OUT, succ)
  /\ uo_out' = Rd
  /\ UNCHANGED <<regs, flag, link, illegal_op_flag, pin_mode, pin_drv, mem>>

Illegal ==
  /\ Opcode(ins) > OP_ADD
  /\ Retire(Opcode(ins), succ)
  /\ illegal_op_flag' = TRUE
  /\ UNCHANGED <<regs, flag, link, pads, mem>>

Instruction ==
  \/ Nop \/ Halt \/ Ret \/ Branch \/ Call \/ Ldi \/ Set \/ Out \/ In
  \/ Shift \/ Delay \/ Wait \/ Testbit \/ Outb \/ Inb \/ Load \/ Store
  \/ Loop \/ Cmp \/ Loadx \/ Xor \/ Add \/ Illegal

-----------------------------------------------------------------------------
(* Loading.  A byte that arrives when the memory is full is acknowledged   *)
(* and dropped.  HOST_STATUS is the acknowledge.                           *)
TakeByte ==
  /\ loaded < MemBytes
  /\ mem' = [mem EXCEPT ![loaded] = ui_sync]
  /\ loaded' = loaded + 1

LoadCycle ==
  /\ run = "load"
  /\ TakeByte \/ UNCHANGED <<mem, loaded>>
  /\ uo_out' = Echo(loaded')
  /\ \E ack \in Bit : pin_drv' = [pin_drv EXCEPT ![HOST_STATUS] = ack]
  /\ UNCHANGED <<run, phase, waited, pc, regs, flag, link, illegal_op_flag,
                 pin_mode>>

(* START.  A byte strobed in the very cycle of START is written too, but   *)
(* not acknowledged.                                                       *)
Go ==
  /\ run = "load"
  /\ run' = "run"
  /\ uo_out' = 0
  /\ \/ UNCHANGED mem
     \/ loaded < MemBytes /\ mem' = [mem EXCEPT ![loaded] = ui_sync]
  /\ \E ack \in Bit : pin_drv' = [pin_drv EXCEPT ![HOST_STATUS] = ack]
  /\ UNCHANGED <<loaded, phase, waited, pc, regs, flag, link,
                 illegal_op_flag, pin_mode>>

Halted == run = "halt" /\ UNCHANGED <<run, loaded, phase, waited, pc, arch>>

Reset == Start0' /\ UNCHANGED mem

Next ==
  \/ Sample /\ (LoadCycle \/ Go \/ Cycle \/ Instruction \/ Halted)
  \/ Reset

Spec == Init /\ [][Next]_vars
=============================================================================
