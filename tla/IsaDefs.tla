------------------------------ MODULE IsaDefs ------------------------------
(***************************************************************************)
(* The instruction set of the sequencer: opcodes, operand fields and the   *)
(* byte arithmetic, translated from src/src/cpu/isa_defs.v.  A word is a   *)
(* natural number below 2^16; a field is a bit slice of it.                *)
(*                                                                         *)
(* Words scales the memory: the RTL has Words = 512, i.e. a 1024-byte      *)
(* SRAM, a 9-bit pc and a data region starting at byte 512.  Everything    *)
(* that the RTL truncates to 9 or 10 bits is taken modulo Words or         *)
(* MemBytes, which for Words = 512 is the same number.                     *)
(***************************************************************************)
EXTENDS Integers

CONSTANT Words

ASSUME WordsAssumption == Words \in Nat \ {0}

MemBytes == 2 * Words
DATA_BASE == Words

Byte == 0..255
Word == 0..65535
WordAddr == 0..(Words - 1)
ByteAddr == 0..(MemBytes - 1)
PinIndex == 0..7
RegIndex == 0..3
Bit == 0..1

-----------------------------------------------------------------------------
(* Opcodes.  21..31 are unassigned and execute as NOP.                     *)
OP_NOP == 0
OP_HALT == 1
OP_RET == 2
OP_BRANCH == 3
OP_LDI == 4
OP_SET == 5
OP_OUT == 6
OP_IN == 7
OP_SHIFT == 8
OP_DELAY == 9
OP_WAIT == 10
OP_TESTBIT == 11
OP_OUTB == 12
OP_INB == 13
OP_LOAD == 14
OP_STORE == 15
OP_LOOP == 16
OP_CMP == 17
OP_LOADX == 18
OP_XOR == 19
OP_ADD == 20

COND_JMP == 0
COND_BEQ == 1
COND_BNE == 2
COND_CALL == 3

SET_MODE_LEAVE == 0
SET_MODE_PUSH_PULL == 1
SET_MODE_OPEN_DRAIN == 2
SET_MODE_INPUT == 3

-----------------------------------------------------------------------------
(* Operand fields, named as core.v names the wires that carry them.        *)
Opcode(w) == w \div 2048
WAddr(w) == ((w \div 4) % 512) % Words
WCond(w) == w % 4
WRd(w) == (w \div 512) % 4
WImm(w) == w % 512
WLdiValue(w) == w % 256
WPinIndex(w) == (w \div 64) % 8
WAuxBit(w) == (w \div 32) % 2
WBitIdx(w) == w % 8
WExponent(w) == WRd(w)
WDelayMant(w) == WImm(w)
WWaitMant(w) == w % 32
WLoopRd(w) == w % 4
WRs(w) == (w \div 128) % 4
WShiftDir(w) == w % 2

(* A data-memory operand is an offset into the data region.                *)
DataAddr(offset) == DATA_BASE + (offset % Words)

-----------------------------------------------------------------------------
(* Byte arithmetic of SHIFT, INB, XOR, ADD and TESTBIT.                    *)
BitOf(b, i) == (b \div 2 ^ i) % 2

ShiftByte(b, dir) == IF dir = 0 THEN (b * 2) % 256 ELSE b \div 2

InsertBit(b, aux, level) == IF aux = 1 THEN (128 * level) + (b % 128)
                                       ELSE (2 * (b \div 2)) + level

XorWeight(a, b, weight) ==
  IF (a \div weight) % 2 = (b \div weight) % 2 THEN 0 ELSE weight

XorByte(a, b) ==
  XorWeight(a, b, 128) + XorWeight(a, b, 64) + XorWeight(a, b, 32)
    + XorWeight(a, b, 16) + XorWeight(a, b, 8) + XorWeight(a, b, 4)
    + XorWeight(a, b, 2) + XorWeight(a, b, 1)

(* cycles = mantissa << (exponent * TIMEOUT_SHIFT), TIMEOUT_SHIFT = 5.     *)
TimeoutScale == <<1, 32, 1024, 32768>>
Shifted(mantissa, exponent) == mantissa * TimeoutScale[exponent + 1]

WordAt(m, a) == 256 * m[2 * a + 1] + m[2 * a]
=============================================================================
