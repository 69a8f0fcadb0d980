------------------------------- MODULE IsaAsm -------------------------------
(***************************************************************************)
(* The instruction encoder the tests assemble their programs with          *)
(* (src/test/isa_asm.py): one operator per instruction, every operand      *)
(* masked to the width of its field.                                       *)
(***************************************************************************)
EXTENDS IsaDefs, Sequences

(* _word(opcode, rest11)                                                   *)
AsmWord(op, rest) == (op % 32) * 2048 + (rest % 2048)

RdField(rd) == (rd % 4) * 512
RsField(rs) == (rs % 4) * 128
AddrField(addr) == (addr % 512) * 4
PinField(p) == (p % 8) * 64
AuxField(bit) == (bit % 2) * 32

nop == AsmWord(OP_NOP, 0)
halt == AsmWord(OP_HALT, 0)
ret == AsmWord(OP_RET, 0)
raw(op) == AsmWord(op, 0)

branch(cond, addr) == AsmWord(OP_BRANCH, AddrField(addr) + (cond % 4))
jmp(addr) == branch(COND_JMP, addr)
beq(addr) == branch(COND_BEQ, addr)
bne(addr) == branch(COND_BNE, addr)
call(addr) == branch(COND_CALL, addr)
loop(addr, rd) == AsmWord(OP_LOOP, AddrField(addr) + (rd % 4))

ldi(rd, value) == AsmWord(OP_LDI, RdField(rd) + (value % 256))
set_pin(m, p, value) == AsmWord(OP_SET, RdField(m) + PinField(p) + AuxField(value))
out(rd) == AsmWord(OP_OUT, RdField(rd))
in(rd) == AsmWord(OP_IN, RdField(rd))
shift(rd, dir) == AsmWord(OP_SHIFT, RdField(rd) + (dir % 2))

delay(mantissa, exponent) ==
  AsmWord(OP_DELAY, RdField(exponent) + (mantissa % 512))
wait(p, level, mantissa, exponent) ==
  AsmWord(OP_WAIT, RdField(exponent) + PinField(p) + AuxField(level)
                     + (mantissa % 32))
testbit(rd, bitidx) == AsmWord(OP_TESTBIT, RdField(rd) + (bitidx % 8))
outb(rd, p, bitsel) == AsmWord(OP_OUTB, RdField(rd) + PinField(p) + AuxField(bitsel))
inb(rd, p, bitsel) == AsmWord(OP_INB, RdField(rd) + PinField(p) + AuxField(bitsel))

load(rd, imm) == AsmWord(OP_LOAD, RdField(rd) + (imm % 512))
store(rd, imm) == AsmWord(OP_STORE, RdField(rd) + (imm % 512))
loadx(rd, rs) == AsmWord(OP_LOADX, RdField(rd) + RsField(rs))
cmp(rd, rs) == AsmWord(OP_CMP, RdField(rd) + RsField(rs))
xor(rd, rs) == AsmWord(OP_XOR, RdField(rd) + RsField(rs))
add(rd, rs) == AsmWord(OP_ADD, RdField(rd) + RsField(rs))

(* Boot-stream order: the low byte of a word first.                        *)
to_bytes(words) ==
  [i \in 1..(2 * Len(words)) |->
     LET w == words[(i + 1) \div 2]
     IN  IF i % 2 = 1 THEN w % 256 ELSE (w \div 256) % 256]
=============================================================================
