------------------------------- MODULE MCChip -------------------------------
(***************************************************************************)
(* TLC instances of Chip.  The memory is scaled to Words = 8: four      *)
(* program words and four data words, which are executable too.  Programs  *)
(* are written with the tests' own encoder (IsaAsm).                       *)
(***************************************************************************)
EXTENDS Chip, IsaAsm

P == 0            \* the protocol pin the programs look at and drive

(* An SRAM image: the given words from word 0 on, then copies of fill.     *)
Image(words, fill) ==
  LET w == [i \in 1..Words |-> IF i <= Len(words) THEN words[i] ELSE fill]
      bytes == to_bytes(w)
  IN  [a \in ByteAddr |-> bytes[a + 1]]

(* Programs that put the hazards next to each other.                       *)
Alu == << ldi(0, 240), ldi(1, 47), add(0, 1), beq(6), halt, nop,
          xor(0, 1), shift(0, 1) >>          \* then wraps to word 0
Flags == << ldi(0, 129), testbit(0, 7), bne(0), shift(0, 0), out(0),
            cmp(0, 1), beq(3), jmp(5) >>
Links == << call(2), ret, call(4), ret, ret, raw(21), raw(31), jmp(3) >>
Loops == << ldi(2, 2), out(2), loop(1, 2), ldi(2, 1), loop(1, 2), halt >>
Delays == << delay(0, 0), delay(1, 0), delay(3, 0), delay(1, 1), jmp(0) >>
Waits == << wait(P, 1, 2, 0), beq(4), wait(P, 0, 0, 0), jmp(0),
            wait(P, 1, 1, 1), inb(0, P, 1), inb(0, P, 0), out(0) >>
SelfModify == << ldi(0, 8), store(0, 3), ldi(0, 0), store(0, 2),
                 nop, ldi(3, 255), jmp(0) >>  \* turns word 5 into HALT
Loads == << load(0, 1), add(0, 0), load(0, 3), ldi(0, 5),
            loadx(1, 0), loadx(1, 1), store(1, 0), jmp(0) >>
LoadStore == << ldi(0, 7), store(0, 7), load(1, 7), store(1, 6), load(2, 6),
                loadx(3, 2), cmp(2, 1), halt >>
Pins == << set_pin(1, P, 1), set_pin(0, P, 0), set_pin(2, P, 1),
           ldi(1, 129), outb(1, 5, 1), shift(1, 0), outb(1, P, 1),
           set_pin(3, 6, 1) >>
Inputs == << in(0), store(0, 4), loadx(1, 0), out(1), testbit(0, 0), bne(0),
             in(2), halt >>

Programs == {Alu, Flags, Links, Loops, Delays, Waits, SelfModify, Loads,
             LoadStore, Pins, Inputs}

ProgramImages == {Image(p, nop) : p \in Programs}
InputImages == {Image(p, nop) : p \in {Inputs, Waits}}


(* Every ordered pair of instructions from a sample with one or more of    *)
(* each opcode, after a prefix that gives the registers values.            *)
Sample1 == {nop, ret, jmp(0), beq(5), bne(5), call(6), ldi(0, 200),
            set_pin(1, P, 1), out(0), in(1), shift(0, 0), shift(1, 1),
            delay(2, 0), wait(P, 1, 1, 0), testbit(0, 3), outb(0, P, 1),
            inb(1, P, 1), load(0, 2), store(0, 1), loop(5, 1), cmp(0, 1),
            loadx(0, 1), xor(0, 1), add(0, 1), raw(25), halt}

PairImages ==
  {Image(<<ldi(0, 139), ldi(1, 1), a, b, store(1, 0), halt>>, nop) :
     a \in Sample1, b \in Sample1}

InstrImages == PairImages \cup InputImages

(* Memories for the boot run, powered up with ones.                        *)
BootImages == {[a \in ByteAddr |-> 255]}

NoHostGo == SUBSET {START, P}
NoInput == {{}, {START}}
StartHeld == {{START}, {START, P}}   \* its rise is seen after reset
BootPins == SUBSET {HOST_GO, START}
=============================================================================
