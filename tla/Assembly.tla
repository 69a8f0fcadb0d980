------------------------------ MODULE Assembly ------------------------------
(***************************************************************************)
(* What a program means, stated over the whole source instead of line by   *)
(* line, and what the assembler promises of its words.                     *)
(***************************************************************************)
EXTENDS Assembler

-----------------------------------------------------------------------------
(* The block structure, from the number of .if and .endif in a range.      *)
Count(op, i, j) == Cardinality({n \in i..j : source[n].op = op})
Depth(i, j) == Count("if", i, j) - Count("endif", i, j)

Opens(i) == {j \in 1..(i - 1) : source[j].op = "if"
                 /\ \A n \in j..(i - 1) : Depth(j, n) > 0}
ElsesBefore(j, i) == {n \in j..(i - 1) : source[n].op = "else" /\ Depth(j, n) = 1}

Given == Over(defines, PREDEFINED)

(* What line i means if m says what the lines before it mean.  A line      *)
(* counts if it is in the part that holds of every .if around it; what     *)
(* follows a second .else never does.                                      *)
CountsBy(m, i) ==
  \A j \in Opens(i) :
    /\ m[j].counts
    /\ Cardinality(ElsesBefore(j, i)) = (IF m[j].value # 0 THEN 0 ELSE 1)

(* The constants called x that line i can use, and the value of a constant *)
(* expression there.                                                       *)
DefinitionsBy(m, x, i) ==
  {d \in 1..(i - 1) : source[d].op = "equ" /\ source[d].name = x /\ m[d].counts}

ValueBy(m, val, i) ==
  IF "lit" \in DOMAIN val THEN val.lit
  ELSE IF val.id \in DOMAIN Given THEN Given[val.id]
  ELSE IF DefinitionsBy(m, val.id, i) = {} THEN 0
  ELSE m[Min(DefinitionsBy(m, val.id, i))].value

Meaning(m, i) ==
  [counts |-> CountsBy(m, i),
   value |-> IF source[i].op \in {"if", "equ"} THEN ValueBy(m, source[i].val, i) ELSE 0]

Reading[i \in DOMAIN source] == Meaning(Reading, i)

Counts(i) == Reading[i].counts
Definitions(x, i) == DefinitionsBy(Reading, x, i)
ValueAt(val, i) == ValueBy(Reading, val, i)

End == Len(source) + 1

Places(ops) == {i \in DOMAIN source : source[i].op \in ops /\ Counts(i)}
LabelAt(x) == {i \in Places({"label"}) : source[i].name = x}

(* The instructions before a label, and what an operand is worth, which    *)
(* may be a label.                                                         *)
Target(x) == Cardinality({i \in Places(Mnemonics) : \A l \in LabelAt(x) : i < l})
Operand(val) ==
  IF "id" \in DOMAIN val /\ LabelAt(val.id) # {} THEN Target(val.id) ELSE ValueAt(val, End)

Passed1 == stage \in {"encode", "data", "done"}

(* The instructions kept are those the conditions select, however .if are  *)
(* nested and whatever is inside the parts left out (asm.py:169-185).      *)
ConditionsNest ==
  Passed1 =>
    /\ Range(lines) = Places(Mnemonics)
    /\ \A a, b \in DOMAIN lines : a < b => lines[a] < lines[b]

(* Every branch goes to the instruction after its label, also forwards and *)
(* over parts left out, as the core decodes it (asm.py:186-196, 238-242).  *)
TargetsResolve ==
  \A k \in DOMAIN words :
    source[lines[k]].op = "jmp" =>
      /\ Opcode(words[k]) = OP_BRANCH /\ WCond(words[k]) = COND_JMP
      /\ LabelAt(source[lines[k]].val.id) # {}
      /\ WAddr(words[k]) = Target(source[lines[k]].val.id)

(* A DELAY or timeout takes the encodable number of cycles nearest to what *)
(* is written, exactly that if nothing is said, and a timeout is never 0,  *)
(* which the core takes for no timeout (asm.py:122-135, 296-325).          *)
Dist(a, b) == IF a > b THEN a - b ELSE b - a

NearestCycles ==
  \A k \in DOMAIN words :
    LET want == Operand(source[lines[k]].val)
        mant == IF Opcode(words[k]) = OP_WAIT THEN WWaitMant(words[k])
                                              ELSE WDelayMant(words[k])
        taken == Shifted(mant, WExponent(words[k]))
        top == IF Opcode(words[k]) = OP_WAIT THEN 31 ELSE 511
    IN  Opcode(words[k]) \in {OP_DELAY, OP_WAIT} =>
          /\ \A m \in 0..top, e \in 0..3 :
               Dist(taken, want) <= Dist(Shifted(m, e), want)
          /\ k \in warned <=> taken # want
          /\ Opcode(words[k]) = OP_WAIT => mant # 0

(* The image puts every word and every byte of data where the core fetches *)
(* and loads it from (asm.py:86-92, core.v:304-311).                       *)
ImageInPlace ==
  stage = "done" =>
    LET stored == [a \in 0..(MemBytes - 1) |->
                     IF a < Len(image) THEN image[a + 1] ELSE -1]
    IN  /\ Len(image) <= MemBytes
        /\ \A k \in DOMAIN words : words[k] = WordAt(stored, k - 1)
        /\ \A k \in DOMAIN data : data[k] = stored[DataAddr(k - 1)]

-----------------------------------------------------------------------------
(* A program is well formed: its conditions are closed, every name is      *)
(* defined once, and before an .if or .equ uses it, operands are in range, *)
(* and everything fits.                                                    *)
KnownAt(val, i) ==
  "lit" \in DOMAIN val \/ val.id \in DOMAIN Given \/ Definitions(val.id, i) # {}

Balanced ==
  /\ Depth(1, Len(source)) = 0
  /\ \A i \in DOMAIN source :
       /\ Depth(1, i) >= 0
       /\ source[i].op = "else" => Depth(1, i) > 0

OwnNames ==
  {i \in Places({"label", "equ"}) :
     source[i].op = "equ" => source[i].name \notin DOMAIN defines}

NamesOnce ==
  \A i \in OwnNames :
    /\ source[i].name \notin DOMAIN Given
    /\ \A j \in OwnNames : source[i].name = source[j].name => i = j

UsesKnown ==
  /\ \A i \in Places({"if"}) : KnownAt(source[i].val, i)
  /\ \A i \in OwnNames : source[i].op = "equ" => KnownAt(source[i].val, i)
  /\ \A i \in Places({"jmp"}) :
       "id" \in DOMAIN source[i].val /\ LabelAt(source[i].val.id) # {}

OperandIn(i, S) ==
  LET val == source[i].val
  IN  /\ \/ "id" \in DOMAIN val /\ LabelAt(val.id) # {}
         \/ KnownAt(val, End)
      /\ Operand(val) \in S

InRange ==
  /\ \A i \in Places({"ldi", "byte"}) : OperandIn(i, Byte)
  /\ \A i \in Places({"load"}) : OperandIn(i, 0..(DATA_BYTES - 1))
  /\ \A i \in Places({"delay"}) : OperandIn(i, Nat)
  /\ \A i \in Places({"wait"}) : OperandIn(i, Nat \ {0})

DataLast ==
  LET AfterData(i) == \E d \in Places({"data"}) : d < i
  IN  /\ \A i \in Places(Mnemonics \cup {"label"}) : ~AfterData(i)
      /\ \A i \in Places({"byte"}) : AfterData(i)

Fits ==
  /\ Cardinality(Places(Mnemonics)) <= PROGRAM_WORDS
  /\ Cardinality(Places({"byte"})) <= DATA_BYTES

WellFormed ==
  Balanced /\ UsesKnown /\ NamesOnce /\ InRange /\ DataLast /\ Fits

(* Exactly the well-formed programs are assembled: nothing malformed gets  *)
(* through to the chip, nothing well formed is refused. The AsmErrors for  *)
(* pins, bits, levels, modes and text that does not split into operands    *)
(* are outside the model (asm.py:115-145, 247-258, 281-294, 313, 330).     *)
AcceptsWellFormed ==
  /\ stage = "done" => WellFormed
  /\ stage = "error" => ~WellFormed
=============================================================================
