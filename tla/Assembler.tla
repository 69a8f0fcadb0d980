----------------------------- MODULE Assembler -----------------------------
(***************************************************************************)
(* The assembler (src/firmware/isa/asm.py): the first pass reads the       *)
(* source line by line, with a stack of open .if, and collects constants,  *)
(* labels and the lines that are kept; the second encodes those.           *)
(*                                                                         *)
(* A line is a record: op is the directive or mnemonic, name what it       *)
(* defines, val its operand, which is a literal [lit |-> n] or a name      *)
(* [id |-> x].  A label in front of an instruction is a line of its own.   *)
(* One mnemonic stands for those with the same operand check: JMP for      *)
(* the branches and LOOP, LDI, LOAD for LOAD and STORE, DELAY, WAIT, and   *)
(* NOP for those without an operand that can be wrong here.                *)
(***************************************************************************)
EXTENDS IsaAsm, SequencesExt

CONSTANTS
  Sources,    \* the programs, sequences of lines
  Defines     \* the -D options, functions from names to values

(* Half the words are code, and a branch has nine bits for its target.     *)
ASSUME AssemblerAssumption == Words % 2 = 0 /\ Words <= 512

(* Operands are integers or names, and so are the values of -D.            *)
WithOperand == {"if", "equ", "byte", "jmp", "ldi", "load", "delay", "wait"}

ASSUME SourcesAssumption ==
  /\ \A s \in Sources :
       /\ s \in Seq(Range(s))
       /\ \A i \in DOMAIN s : s[i].op \in WithOperand =>
            s[i].val \in [lit : Int] \/ DOMAIN s[i].val = {"id"}
  /\ \A d \in Defines : \A x \in DOMAIN d : d[x] \in Int

PROGRAM_WORDS == Words \div 2
DATA_BYTES == Words
PREDEFINED == [x \in {"HOST_GO", "HOST_STATUS", "HOST_ERROR"} |->
                 IF x = "HOST_GO" THEN 4 ELSE IF x = "HOST_STATUS" THEN 5 ELSE 6]

(* A dict with those of another beneath it, and with one more entry.       *)
Over(f, g) == [x \in DOMAIN f \cup DOMAIN g |-> IF x \in DOMAIN f THEN f[x] ELSE g[x]]
With(f, name, v) == [x \in DOMAIN f \cup {name} |-> IF x = name THEN v ELSE f[x]]

VARIABLES
  source, defines,
  stage,       \* "scan", "encode", "data", "done" or "error"
  at,          \* line being scanned
  consts, labels,
  cond,        \* the .if stack: [active, taken]
  in_data,
  lines, data_lines,   \* the line numbers kept
  words, data,
  warned       \* the words whose cycle count was not exact

names == <<consts, labels>>
vars == <<source, defines, stage, at, names, cond, in_data, lines, data_lines,
          words, data, warned>>

Init ==
  /\ source \in Sources /\ defines \in Defines
  /\ stage = "scan" /\ at = 1
  /\ consts = Over(defines, PREDEFINED) /\ labels = <<>>
  /\ cond = <<>> /\ in_data = FALSE
  /\ lines = <<>> /\ data_lines = <<>> /\ words = <<>> /\ data = <<>>
  /\ warned = {}

-----------------------------------------------------------------------------
(* _eval of an operand over the names known.                               *)
Known(val, known) == "lit" \in DOMAIN val \/ val.id \in DOMAIN known
Eval(val, known) == IF "lit" \in DOMAIN val THEN val.lit ELSE known[val.id]

(* encode_cycles: the closest cycle count of the form mantissa << 5e, the  *)
(* smallest exponent among the closest.                                    *)
EncodeCyclesTruncated(cycles, mant_bits) ==   \* fault: rounds down
  LET m(e) == Min({cycles \div TimeoutScale[e + 1], (2 ^ mant_bits) - 1})
      off(e) == cycles - Shifted(m(e), e)
      best == CHOOSE e \in 0..3 :
                \A f \in 0..3 : off(e) < off(f) \/ (off(e) = off(f) /\ e <= f)
  IN  [m |-> m(best), e |-> best]

EncodeCycles(cycles, mant_bits) ==
  LET m(e) == Min({(cycles + (TimeoutScale[e + 1] \div 2)) \div TimeoutScale[e + 1],
                   (2 ^ mant_bits) - 1})
      off(e) == LET d == Shifted(m(e), e) - cycles IN IF d < 0 THEN -d ELSE d
      best == CHOOSE e \in 0..3 :
                \A f \in 0..3 : off(e) < off(f) \/ (off(e) = off(f) /\ e <= f)
  IN  [m |-> m(best), e |-> best]

-----------------------------------------------------------------------------
(* Pass 1.                                                                 *)
line == source[at]
Directives == {"if", "else", "endif"}

ActiveInnermost ==   \* fault: not the outer ones
  \A i \in DOMAIN cond : i = Len(cond) => cond[i].active

Active == \A i \in DOMAIN cond : cond[i].active

Fail ==
  /\ stage' = "error"
  /\ UNCHANGED <<source, defines, at, names, cond, in_data, lines, data_lines,
                 words, data, warned>>

Scan(ops) == stage = "scan" /\ at <= Len(source) /\ line.op \in ops

Scanned ==
  /\ at' = at + 1
  /\ UNCHANGED <<source, defines, stage, words, data, warned>>

If ==
  /\ Scan({"if"})
  /\ IF Active /\ ~Known(line.val, consts) THEN Fail
     ELSE LET v == Active /\ Eval(line.val, consts) # 0
          IN  /\ Scanned
              /\ cond' = Append(cond, [active |-> v, taken |-> v])
              /\ UNCHANGED <<names, in_data, lines, data_lines>>

Else ==
  /\ Scan({"else"})
  /\ IF cond = <<>> THEN Fail
     ELSE /\ Scanned
          /\ cond' = Append(Front(cond),
                            [active |-> ~Last(cond).taken, taken |-> TRUE])
          /\ UNCHANGED <<names, in_data, lines, data_lines>>

Endif ==
  /\ Scan({"endif"})
  /\ IF cond = <<>> THEN Fail
     ELSE /\ Scanned
          /\ cond' = Front(cond)
          /\ UNCHANGED <<names, in_data, lines, data_lines>>

Skip ==
  /\ stage = "scan" /\ at <= Len(source) /\ line.op \notin Directives /\ ~Active
  /\ Scanned
  /\ UNCHANGED <<names, cond, in_data, lines, data_lines>>

LabelOfNext ==   \* fault: the address after the next instruction
  /\ Scan({"label"}) /\ Active
  /\ IF line.name \in DOMAIN labels \cup DOMAIN consts \/ in_data THEN Fail
     ELSE /\ Scanned
          /\ labels' = With(labels, line.name, Len(lines) + 1)
          /\ UNCHANGED <<consts, cond, in_data, lines, data_lines>>

Label ==
  /\ Scan({"label"}) /\ Active
  /\ IF line.name \in DOMAIN labels \cup DOMAIN consts \/ in_data THEN Fail
     ELSE /\ Scanned
          /\ labels' = With(labels, line.name, Len(lines))
          /\ UNCHANGED <<consts, cond, in_data, lines, data_lines>>

(* A constant given with -D is not redefined, nor is its value looked at.  *)
Equ ==
  /\ Scan({"equ"}) /\ Active
  /\ IF line.name \in DOMAIN defines THEN Scanned /\ UNCHANGED names
     ELSE IF \/ line.name \in DOMAIN consts \cup DOMAIN labels
             \/ ~Known(line.val, consts)
       THEN Fail
     ELSE /\ Scanned
          /\ consts' = With(consts, line.name, Eval(line.val, consts))
          /\ UNCHANGED labels
  /\ UNCHANGED <<cond, in_data, lines, data_lines>>

Data ==
  /\ Scan({"data"}) /\ Active
  /\ Scanned
  /\ in_data' = TRUE
  /\ UNCHANGED <<names, cond, lines, data_lines>>

ByteLine ==
  /\ Scan({"byte"}) /\ Active
  /\ IF ~in_data THEN Fail
     ELSE /\ Scanned
          /\ data_lines' = Append(data_lines, at)
          /\ UNCHANGED <<names, cond, in_data, lines>>

Mnemonics == {"nop", "jmp", "ldi", "load", "delay", "wait"}

Instruction ==
  /\ Scan(Mnemonics) /\ Active
  /\ IF in_data THEN Fail
     ELSE /\ Scanned
          /\ lines' = Append(lines, at)
          /\ UNCHANGED <<names, cond, in_data, data_lines>>

ScanEndsUnchecked ==   \* fault: an .if that is never closed
  /\ stage = "scan" /\ at > Len(source)
  /\ stage' = IF Len(lines) > PROGRAM_WORDS THEN "error" ELSE "encode"
  /\ UNCHANGED <<source, defines, at, names, cond, in_data, lines, data_lines,
                 words, data, warned>>

ScanEnds ==
  /\ stage = "scan" /\ at > Len(source)
  /\ stage' = IF cond # <<>> \/ Len(lines) > PROGRAM_WORDS THEN "error"
                                                           ELSE "encode"
  /\ UNCHANGED <<source, defines, at, names, cond, in_data, lines, data_lines,
                 words, data, warned>>

-----------------------------------------------------------------------------
(* Pass 2.                                                                 *)
ins == source[lines[Len(words) + 1]]
AllNames == Over(labels, consts)

Encode(ops) == stage = "encode" /\ Len(words) < Len(lines) /\ ins.op \in ops

Emit(w, exact) ==
  /\ words' = Append(words, w)
  /\ warned' = IF exact THEN warned ELSE warned \cup {Len(words) + 1}
  /\ UNCHANGED <<source, defines, stage, at, names, cond, in_data, lines,
                 data_lines, data>>

EncodeNop == Encode({"nop"}) /\ Emit(nop, TRUE)

EncodeJmp ==
  /\ Encode({"jmp"})
  /\ IF Known(ins.val, labels) /\ "id" \in DOMAIN ins.val
       THEN Emit(jmp(labels[ins.val.id]), TRUE) ELSE Fail

EncodeLdi ==
  /\ Encode({"ldi"})
  /\ IF Known(ins.val, AllNames) /\ Eval(ins.val, AllNames) \in Byte
       THEN Emit(ldi(0, Eval(ins.val, AllNames)), TRUE) ELSE Fail

EncodeLoad ==
  /\ Encode({"load"})
  /\ IF Known(ins.val, AllNames) /\ Eval(ins.val, AllNames) \in 0..(DATA_BYTES - 1)
       THEN Emit(load(0, Eval(ins.val, AllNames)), TRUE) ELSE Fail

EncodeDelay ==
  /\ Encode({"delay"})
  /\ IF Known(ins.val, AllNames) /\ Eval(ins.val, AllNames) >= 0
       THEN LET want == Eval(ins.val, AllNames)
                enc == EncodeCycles(want, 9)
            IN  Emit(delay(enc.m, enc.e), Shifted(enc.m, enc.e) = want)
       ELSE Fail

EncodeWait ==
  /\ Encode({"wait"})
  /\ IF /\ Known(ins.val, AllNames) /\ Eval(ins.val, AllNames) > 0
        /\ EncodeCycles(Eval(ins.val, AllNames), 5).m # 0
       THEN LET want == Eval(ins.val, AllNames)
                enc == EncodeCycles(want, 5)
            IN  Emit(wait(0, 1, enc.m, enc.e), Shifted(enc.m, enc.e) = want)
       ELSE Fail

EncodeEnds ==
  /\ stage = "encode" /\ Len(words) = Len(lines)
  /\ stage' = "data"
  /\ UNCHANGED <<source, defines, at, names, cond, in_data, lines, data_lines,
                 words, data, warned>>

EncodeByte ==
  /\ stage = "data" /\ Len(data) < Len(data_lines)
  /\ LET val == source[data_lines[Len(data) + 1]].val
     IN  IF Known(val, AllNames) /\ Eval(val, AllNames) \in Byte
           THEN /\ data' = Append(data, Eval(val, AllNames))
                /\ UNCHANGED <<source, defines, stage, at, names, cond, in_data,
                               lines, data_lines, words, warned>>
           ELSE Fail

Finish ==
  /\ stage = "data" /\ Len(data) = Len(data_lines)
  /\ stage' = IF Len(data) > DATA_BYTES THEN "error" ELSE "done"
  /\ UNCHANGED <<source, defines, at, names, cond, in_data, lines, data_lines,
                 words, data, warned>>

Next ==
  \/ If \/ Else \/ Endif \/ Skip \/ Label \/ Equ \/ Data \/ ByteLine
  \/ Instruction \/ ScanEnds
  \/ EncodeNop \/ EncodeJmp \/ EncodeLdi \/ EncodeLoad \/ EncodeDelay
  \/ EncodeWait \/ EncodeEnds \/ EncodeByte \/ Finish

Spec == Init /\ [][Next]_vars

-----------------------------------------------------------------------------
(* The boot image of a program.                                            *)
imageUnpadded == to_bytes(words) \o data   \* fault: data right after the program

image ==
  IF data = <<>> THEN to_bytes(words)
  ELSE to_bytes(words)
         \o [i \in 1..(2 * (PROGRAM_WORDS - Len(words))) |-> 0] \o data
=============================================================================
