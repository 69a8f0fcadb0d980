--------------------------- MODULE AssemblyProofs ---------------------------
(***************************************************************************)
(* Proofs about the assembler, for every source, every set of -D options   *)
(* and every memory size.                                                  *)
(***************************************************************************)
EXTENDS Assembly, IsaDefsProofs, FiniteSetTheorems, TLAPS

-----------------------------------------------------------------------------
(* What holds when the lines before i have been read.  The lines of some   *)
(* kinds among them that count:                                            *)
Before(ops, i) == {n \in Places(ops) : n < i}

(* Frame k of the .if stack c is that of line j: at the top are those that *)
(* are deepest.  It is active in the first part if that holds, after one   *)
(* .else if it did not hold, and after a second never.                     *)
FrameOf(j, i, c) == Len(c) + 1 - Depth(j, i - 1)

Holds(j) == Counts(j) /\ Reading[j].value # 0

Frame(k, j, i, c) ==
  LET elses == Cardinality(ElsesBefore(j, i))
  IN  /\ Counts(j) <=> \A l \in 1..(k - 1) : c[l].active
      /\ c[k].taken <=> Holds(j) \/ elses > 0
      /\ c[k].active <=> (elses = 0 /\ Holds(j)) \/ (elses = 1 /\ ~Holds(j))

Frames == [active : BOOLEAN, taken : BOOLEAN]

StackOf(i, c) ==
  /\ c \in Seq(Frames)
  /\ \A j \in Opens(i) : FrameOf(j, i, c) \in DOMAIN c /\ Frame(FrameOf(j, i, c), j, i, c)
  /\ \A k \in DOMAIN c : \E j \in Opens(i) : FrameOf(j, i, c) = k

BlocksOf(i, c) ==
  /\ Depth(1, i - 1) = Len(c)
  /\ \A n \in 1..(i - 1) : Depth(1, n) >= 0 /\ (source[n].op = "else" => Depth(1, n) > 0)

(* The constants and labels known.                                         *)
NameIn(ops, i) == {source[n].name : n \in Before(ops, i)}

NamesOf(i, cs, ls) ==
  /\ DOMAIN cs = DOMAIN Given \cup NameIn({"equ"}, i)
  /\ \A x \in DOMAIN cs :
       cs[x] = IF x \in DOMAIN Given THEN Given[x] ELSE Reading[Min(Definitions(x, i))].value
  /\ DOMAIN ls = NameIn({"label"}, i)
  /\ \A l \in Before({"label"}, i) :
       ls[source[l].name] = Cardinality(Before(Mnemonics, l))
  /\ \A m \in OwnNames : m < i =>
       /\ source[m].name \notin DOMAIN Given
       /\ \A n \in OwnNames : n < i /\ source[n].name = source[m].name => n = m

(* The lines kept, in their order.                                         *)
Listed(seq, S) ==
  /\ seq \in Seq(Nat) /\ Range(seq) = S /\ Len(seq) = Cardinality(S)
  /\ \A a, b \in DOMAIN seq : a < b => seq[a] < seq[b]

KeptOf(i, ln, dl, ind) ==
  /\ Listed(ln, Before(Mnemonics, i)) /\ Listed(dl, Before({"byte"}, i))
  /\ ind \in BOOLEAN /\ (ind <=> Before({"data"}, i) # {})

(* What the lines read have to do with one another is in order.            *)
SoundTo(i) ==
  /\ \A n \in Before({"if"}, i) : KnownAt(source[n].val, n)
  /\ \A n \in OwnNames : n < i /\ source[n].op = "equ" => KnownAt(source[n].val, n)
  /\ \A n \in Before(Mnemonics \cup {"label"}, i) : Before({"data"}, n) = {}
  /\ \A n \in Before({"byte"}, i) : Before({"data"}, n) # {}

-----------------------------------------------------------------------------
(* Pass 2: what the words and data so far are.                             *)
Encoded(w, src, warns) ==
  LET v == Operand(src.val)
      enc9 == EncodeCycles(v, 9)
      enc5 == EncodeCycles(v, 5)
  IN  /\ src.op = "nop" => w = nop
      /\ src.op = "jmp" =>
           /\ "id" \in DOMAIN src.val /\ LabelAt(src.val.id) # {}
           /\ w = jmp(Target(src.val.id))
      /\ src.op = "ldi" => w = ldi(0, v)
      /\ src.op = "load" => w = load(0, v)
      /\ src.op = "delay" =>
           w = delay(enc9.m, enc9.e) /\ (warns <=> Shifted(enc9.m, enc9.e) # v)
      /\ src.op = "wait" =>
           w = wait(0, 1, enc5.m, enc5.e) /\ (warns <=> Shifted(enc5.m, enc5.e) # v)

Fitting(i) ==
  /\ source[i].op \in {"ldi", "byte"} => OperandIn(i, Byte)
  /\ source[i].op = "load" => OperandIn(i, 0..(DATA_BYTES - 1))
  /\ source[i].op = "delay" => OperandIn(i, Nat)
  /\ source[i].op = "wait" => OperandIn(i, Nat \ {0})

WordsOK ==
  /\ words \in Seq(Word) /\ Len(words) <= Len(lines) /\ warned \subseteq DOMAIN words
  /\ \A k \in DOMAIN words :
       Encoded(words[k], source[lines[k]], k \in warned) /\ Fitting(lines[k])

DataOK ==
  /\ data \in Seq(Byte) /\ Len(data) <= Len(data_lines)
  /\ \A k \in DOMAIN data : Fitting(data_lines[k])

ScanInv ==
  /\ StackOf(at, cond) /\ BlocksOf(at, cond)
  /\ NamesOf(at, consts, labels)
  /\ KeptOf(at, lines, data_lines, in_data)
  /\ SoundTo(at)

AssemblyInv ==
  /\ source \in Sources /\ defines \in Defines /\ at \in 1..End
  /\ stage \in {"scan", "encode", "data", "done", "error"}
  /\ ScanInv /\ WordsOK /\ DataOK
  /\ Passed1 => at = End /\ cond = <<>> /\ Len(lines) <= PROGRAM_WORDS
  /\ words # <<>> => at = End /\ Len(lines) <= PROGRAM_WORDS
  /\ stage = "scan" => words = <<>> /\ data = <<>>
  /\ stage = "encode" => data = <<>>
  /\ stage \in {"data", "done"} => Len(words) = Len(lines)
  /\ stage = "done" => Len(data) = Len(data_lines) /\ Len(data) <= DATA_BYTES
  /\ stage = "error" => ~WellFormed

-----------------------------------------------------------------------------
(* What a source means is well defined: line i has its meaning from the    *)
(* lines before it.                                                        *)

LEMMA LeastNat ==
  ASSUME NEW T \in SUBSET Nat, T # {}
  PROVE  \E n \in T : \A m \in T : n <= m
<1> DEFINE R == {ss \in Nat \X Nat : ss[1] < ss[2]}
<1>1. OpToRel(<, Nat) = R
  BY DEF OpToRel
<1>2. IsWellFoundedOn(R, Nat)
  BY <1>1, NatLessThanWellFounded
<1> HIDE DEF R
<1>3. PICK n \in T : \A m \in T : <<m, n>> \notin R
  BY <1>2, WFMin
<1>4. ASSUME NEW m \in T, m < n PROVE FALSE
  <2>1. <<m, n>> \in Nat \X Nat /\ <<m, n>>[1] < <<m, n>>[2]
    BY <1>4
  <2>2. <<m, n>> \in R
    BY <2>1 DEF R
  <2> QED BY <2>2, <1>3
<1> QED BY <1>4, n \in Nat

LEMMA SourceType ==
  ASSUME source \in Sources, defines \in Defines
  PROVE  /\ Len(source) \in Nat /\ DOMAIN source = 1..Len(source)
         /\ \A i \in DOMAIN source : source[i].op \in WithOperand =>
              source[i].val \in [lit : Int] \/ DOMAIN source[i].val = {"id"}
         /\ \A x \in DOMAIN defines : defines[x] \in Int
<1>1. source \in Seq(Range(source))
  BY SourcesAssumption
<1>2. Len(source) \in Nat /\ DOMAIN source = 1..Len(source)
  BY <1>1
<1>3. \A i \in DOMAIN source : source[i].op \in WithOperand =>
        source[i].val \in [lit : Int] \/ DOMAIN source[i].val = {"id"}
  BY SourcesAssumption
<1> QED BY <1>2, <1>3, SourcesAssumption

LEMMA DependsOnEarlier ==
  ASSUME NEW f, NEW g, NEW i \in Nat, \A j \in 1..(i - 1) : f[j] = g[j]
  PROVE  Meaning(f, i) = Meaning(g, i)
<1>1. CountsBy(f, i) = CountsBy(g, i)
  BY DEF CountsBy, Opens
<1>2. \A x : DefinitionsBy(f, x, i) = DefinitionsBy(g, x, i)
  BY DEF DefinitionsBy
<1>3. \A val : ValueBy(f, val, i) = ValueBy(g, val, i)
  <2> SUFFICES ASSUME NEW val, DefinitionsBy(f, val.id, i) # {}
               PROVE  f[Min(DefinitionsBy(f, val.id, i))] = g[Min(DefinitionsBy(f, val.id, i))]
    BY <1>2 DEF ValueBy
  <2> DEFINE D == DefinitionsBy(f, val.id, i)
  <2>1. D \in SUBSET Nat /\ D # {} /\ D \subseteq 1..(i - 1)
    BY DEF DefinitionsBy
  <2> HIDE DEF D
  <2>2. Min(D) \in D
    BY <2>1, LeastNat DEF Min
  <2> QED BY <2>1, <2>2 DEF D
<1> QED BY <1>1, <1>3 DEF Meaning

LEMMA ReadingExists ==
  ASSUME source \in Sources, defines \in Defines
  PROVE  \E r : r = [i \in DOMAIN source |-> Meaning(r, i)]
<1> DEFINE Good(n) == \E r : r = [i \in 1..n |-> Meaning(r, i)]
           T == {n \in Nat : n <= Len(source) /\ ~Good(n)}
<1>1. Len(source) \in Nat /\ DOMAIN source = 1..Len(source)
  BY SourceType
<1>2. Good(0)
  <2>1. [i \in {} |-> 0] = [i \in 1..0 |-> Meaning([j \in {} |-> 0], i)]
    OBVIOUS
  <2> QED BY <2>1
<1>3. ASSUME NEW n \in Nat, Good(n) PROVE Good(n + 1)
  <2>1. PICK r : r = [i \in 1..n |-> Meaning(r, i)]
    BY <1>3
  <2> DEFINE s == [i \in 1..(n + 1) |-> IF i <= n THEN r[i] ELSE Meaning(r, n + 1)]
  <2>2. \A i \in 1..(n + 1) : \A j \in 1..(i - 1) : r[j] = s[j]
    OBVIOUS
  <2> HIDE DEF s
  <2>3. \A i \in 1..(n + 1) : Meaning(r, i) = Meaning(s, i)
    BY <2>2, DependsOnEarlier
  <2>4. \A i \in 1..(n + 1) : s[i] = Meaning(r, i)
    BY <2>1 DEF s
  <2>5. s = [i \in 1..(n + 1) |-> Meaning(s, i)]
    BY <2>3, <2>4 DEF s
  <2> QED BY <2>5
<1>4. T = {}
  <2> SUFFICES ASSUME T # {} PROVE FALSE
    OBVIOUS
  <2> HIDE DEF Good
  <2>1. PICK n \in T : \A m \in T : n <= m
    BY LeastNat
  <2>2. n # 0
    BY <1>2
  <2>3. n - 1 \in Nat /\ n - 1 <= Len(source) /\ n - 1 \notin T
    BY <1>1, <2>1, <2>2
  <2>4. Good(n - 1)
    BY <2>3
  <2> QED BY <1>3, <2>2, <2>3, <2>4, n \in T, (n - 1) + 1 = n
<1>5. Good(Len(source))
  BY <1>1, <1>4
<1> QED BY <1>1, <1>5

(* The meaning of a line, unfolded.                                        *)
LEMMA Means ==
  ASSUME source \in Sources, defines \in Defines, NEW i \in DOMAIN source
  PROVE  /\ Reading[i] = Meaning(Reading, i)
         /\ Counts(i) = CountsBy(Reading, i)
<1>1. Reading = CHOOSE r : r = [j \in DOMAIN source |-> Meaning(r, j)]
  BY DEF Reading
<1>2. Reading = [j \in DOMAIN source |-> Meaning(Reading, j)]
  BY <1>1, ReadingExists
<1>3. Reading[i] = Meaning(Reading, i)
  BY <1>2
<1> QED BY <1>3 DEF Counts, Meaning

LEMMA ValueRead ==
  ASSUME source \in Sources, defines \in Defines, NEW i \in DOMAIN source,
         source[i].op \in {"if", "equ"}
  PROVE  Reading[i].value = ValueAt(source[i].val, i)
<1>1. Reading[i] = Meaning(Reading, i)
  BY Means
<1>2. Meaning(Reading, i).value = ValueBy(Reading, source[i].val, i)
  BY DEF Meaning
<1> QED BY <1>1, <1>2 DEF ValueAt

(* It does not change with the state of the assembler.                     *)
LEMMA SameReading ==
  ASSUME UNCHANGED <<source, defines>>
  PROVE  /\ Reading' = Reading /\ Given' = Given /\ End' = End
         /\ \A ops : Places(ops)' = Places(ops)
<1>1. Reading' = Reading
  BY DEF Reading, Meaning, CountsBy, ValueBy, DefinitionsBy, Opens, ElsesBefore, Depth,
         Count, Given, Over
<1> QED BY <1>1 DEF Given, Over, End, Places, Counts

-----------------------------------------------------------------------------
(* Counting .if and .endif line by line.                                   *)
LEMMA CountStep ==
  ASSUME NEW op, NEW i \in Int, NEW j \in Int
  PROVE  /\ Count(op, i, j) \in Nat
         /\ j < i => Count(op, i, j) = 0
         /\ i <= j + 1 => Count(op, i, j + 1)
                            = Count(op, i, j) + (IF source[j + 1].op = op THEN 1 ELSE 0)
<1> DEFINE S(m) == {n \in i..m : source[n].op = op}
<1>1. \A m \in Int : IsFiniteSet(S(m))
  <2> TAKE m \in Int
  <2>1. IsFiniteSet(i..m) /\ S(m) \in SUBSET (i..m)
    BY FS_Interval
  <2> HIDE DEF S
  <2> QED BY <2>1, FS_Subset
<1>2. Count(op, i, j) = Cardinality(S(j)) /\ Count(op, i, j + 1) = Cardinality(S(j + 1))
  BY DEF Count
<1>3. j < i => S(j) = {}
  OBVIOUS
<1>4. i <= j + 1 => S(j + 1) = S(j) \cup (IF source[j + 1].op = op THEN {j + 1} ELSE {})
  OBVIOUS
<1>5. j + 1 \notin S(j)
  OBVIOUS
<1> HIDE DEF S
<1>6. Cardinality(S(j)) \in Nat
  BY <1>1, FS_CardinalityType
<1>7. j < i => Cardinality(S(j)) = 0
  BY <1>3, FS_EmptySet
<1>8. i <= j + 1 => Cardinality(S(j + 1))
                      = Cardinality(S(j)) + (IF source[j + 1].op = op THEN 1 ELSE 0)
  <2>1. Cardinality(S(j) \cup {j + 1}) = Cardinality(S(j)) + 1
    BY <1>1, <1>5, FS_AddElement
  <2>2. CASE source[j + 1].op = op
    BY <1>4, <2>1, <2>2
  <2>3. CASE source[j + 1].op # op
    <3>1. i <= j + 1 => S(j + 1) = S(j)
      BY <1>4, <2>3
    <3> QED BY <1>6, <2>3, <3>1
  <2> QED BY <2>2, <2>3
<1> QED BY <1>2, <1>6, <1>7, <1>8

LEMMA DepthStep ==
  ASSUME NEW i \in Int, NEW j \in Int
  PROVE  /\ Depth(i, j) \in Int
         /\ j < i => Depth(i, j) = 0
         /\ i <= j + 1 => Depth(i, j + 1) = Depth(i, j) +
              (IF source[j + 1].op = "if" THEN 1
               ELSE IF source[j + 1].op = "endif" THEN -1 ELSE 0)
<1>1. Count("if", i, j) \in Nat /\ Count("endif", i, j) \in Nat
  BY CountStep
<1>2. j < i => Count("if", i, j) = 0 /\ Count("endif", i, j) = 0
  BY CountStep
<1>3. i <= j + 1 =>
        /\ Count("if", i, j + 1) = Count("if", i, j) + (IF source[j + 1].op = "if" THEN 1 ELSE 0)
        /\ Count("endif", i, j + 1)
             = Count("endif", i, j) + (IF source[j + 1].op = "endif" THEN 1 ELSE 0)
  BY CountStep
<1> QED BY <1>1, <1>2, <1>3 DEF Depth

(* The .if that are open after line i, from those before it.               *)
LEMMA OpensStep ==
  ASSUME NEW i \in Nat \ {0}
  PROVE  /\ Opens(i) \subseteq 1..(i - 1)
         /\ \A j \in Opens(i) : Depth(j, i - 1) > 0 /\ source[j].op = "if"
         /\ source[i].op = "if" => Opens(i + 1) = Opens(i) \cup {i}
         /\ source[i].op = "endif" => Opens(i + 1) = {j \in Opens(i) : Depth(j, i - 1) > 1}
         /\ source[i].op \notin {"if", "endif"} => Opens(i + 1) = Opens(i)
<1>1. \A j \in 1..i : Depth(j, i - 1) \in Int /\ Depth(j, i) = Depth(j, i - 1) +
              (IF source[i].op = "if" THEN 1
               ELSE IF source[i].op = "endif" THEN -1 ELSE 0)
  <2> TAKE j \in 1..i
  <2> DEFINE p == i - 1
  <2>1. j \in Int /\ p \in Int /\ j <= p + 1 /\ p + 1 = i
    OBVIOUS
  <2> HIDE DEF p
  <2>2. Depth(j, p) \in Int /\ Depth(j, p + 1) = Depth(j, p) +
              (IF source[p + 1].op = "if" THEN 1
               ELSE IF source[p + 1].op = "endif" THEN -1 ELSE 0)
    BY <2>1, DepthStep
  <2> QED BY <2>1, <2>2 DEF p
<1>2. Depth(i, i - 1) = 0
  BY DepthStep
<1>3. \A j \in Opens(i) : j \in 1..(i - 1) /\ Depth(j, i - 1) > 0 /\ source[j].op = "if"
  BY DEF Opens
<1>4. \A j \in 1..(i - 1) : j \in Opens(i + 1) <=> j \in Opens(i) /\ Depth(j, i) > 0
  <2> TAKE j \in 1..(i - 1)
  <2>1. j..i = j..(i - 1) \cup {i} /\ (i + 1) - 1 = i /\ j \in 1..i
    OBVIOUS
  <2> QED BY <2>1 DEF Opens
<1>5. i \in Opens(i + 1) <=> source[i].op = "if" /\ Depth(i, i) > 0
  <2>1. i..((i + 1) - 1) = {i} /\ i \in 1..((i + 1) - 1)
    OBVIOUS
  <2> QED BY <2>1 DEF Opens
<1>6. Opens(i + 1) \subseteq 1..i
  BY DEF Opens
<1>7. \A j : j \in Opens(i + 1) <=>
        \/ j \in Opens(i) /\ Depth(j, i) > 0
        \/ j = i /\ source[i].op = "if"
  <2>1. source[i].op = "if" => Depth(i, i) > 0
    BY <1>1, <1>2
  <2>2. \A j : j \in Opens(i + 1) => j = i \/ j \in 1..(i - 1)
    BY <1>6
  <2>3. \A j : j \in Opens(i) => j \in 1..(i - 1) /\ j # i
    BY <1>3
  <2> QED BY <1>4, <1>5, <2>1, <2>2, <2>3
<1>8. \A j \in Opens(i) : Depth(j, i - 1) \in Int /\ Depth(j, i) = Depth(j, i - 1) +
              (IF source[i].op = "if" THEN 1
               ELSE IF source[i].op = "endif" THEN -1 ELSE 0)
  BY <1>1, <1>3
<1>9. source[i].op = "if" => Opens(i + 1) = Opens(i) \cup {i}
  BY <1>3, <1>7, <1>8
<1>10. source[i].op = "endif" => Opens(i + 1) = {j \in Opens(i) : Depth(j, i - 1) > 1}
  BY <1>3, <1>7, <1>8
<1>11. source[i].op \notin {"if", "endif"} => Opens(i + 1) = Opens(i)
  BY <1>3, <1>7, <1>8
<1> QED BY <1>3, <1>9, <1>10, <1>11

(* And the .else of an open .if.                                           *)
LEMMA ElsesStep ==
  ASSUME NEW i \in Nat \ {0}, NEW j \in 1..i
  PROVE  /\ IsFiniteSet(ElsesBefore(j, i)) /\ Cardinality(ElsesBefore(j, i)) \in Nat
         /\ i = j => Cardinality(ElsesBefore(j, i)) = 0
         /\ source[i].op = "else" /\ Depth(j, i - 1) = 1 =>
              Cardinality(ElsesBefore(j, i + 1)) = Cardinality(ElsesBefore(j, i)) + 1
         /\ ~(source[i].op = "else" /\ Depth(j, i - 1) = 1) =>
              ElsesBefore(j, i + 1) = ElsesBefore(j, i)
<1>1. ElsesBefore(j, i) \in SUBSET (j..(i - 1)) /\ i \notin ElsesBefore(j, i)
  BY DEF ElsesBefore
<1>2. IsFiniteSet(ElsesBefore(j, i)) /\ Cardinality(ElsesBefore(j, i)) \in Nat
  <2>1. IsFiniteSet(j..(i - 1))
    BY FS_Interval
  <2> QED BY <1>1, <2>1, FS_Subset, FS_CardinalityType
<1>3. i = j => Cardinality(ElsesBefore(j, i)) = 0
  <2>1. i = j => ElsesBefore(j, i) = {}
    BY <1>1
  <2> QED BY <2>1, FS_EmptySet
<1>4. source[i].op = "else" => Depth(j, i) = Depth(j, i - 1)
  <2>1. j \in Int /\ i - 1 \in Int /\ j <= (i - 1) + 1 /\ (i - 1) + 1 = i
    OBVIOUS
  <2> QED BY <2>1, DepthStep
<1>5. ElsesBefore(j, i + 1) = ElsesBefore(j, i) \cup
        (IF source[i].op = "else" /\ Depth(j, i) = 1 THEN {i} ELSE {})
  <2>1. j..((i + 1) - 1) = j..(i - 1) \cup {i}
    OBVIOUS
  <2> QED BY <2>1 DEF ElsesBefore
<1>6. Cardinality(ElsesBefore(j, i) \cup {i}) = Cardinality(ElsesBefore(j, i)) + 1
  BY <1>1, <1>2, FS_AddElement
<1> QED BY <1>2, <1>3, <1>4, <1>5, <1>6

-----------------------------------------------------------------------------
(* The stack of open .if.                                                  *)

(* A line counts if and only if every frame is active.                     *)
LEMMA ActiveCounts ==
  ASSUME source \in Sources, defines \in Defines, NEW i \in DOMAIN source, NEW c,
         StackOf(i, c)
  PROVE  Counts(i) <=> \A k \in DOMAIN c : c[k].active
<1>1. i \in Nat \ {0}
  BY SourceType
<1>2. Counts(i) <=> \A j \in Opens(i) :
        Counts(j) /\ Cardinality(ElsesBefore(j, i)) = (IF Reading[j].value # 0 THEN 0 ELSE 1)
  BY Means DEF CountsBy, Counts
<1>3. \A j \in Opens(i) : FrameOf(j, i, c) \in DOMAIN c /\ Frame(FrameOf(j, i, c), j, i, c)
  BY DEF StackOf
<1>4. \A j \in Opens(i) : FrameOf(j, i, c) \in Nat /\ FrameOf(j, i, c) <= Len(c)
  BY <1>3 DEF StackOf
<1>5. DOMAIN c = 1..Len(c) /\ Len(c) \in Nat
  BY DEF StackOf
<1>6. ASSUME Counts(i), NEW k \in DOMAIN c PROVE c[k].active
  <2>1. PICK j \in Opens(i) : FrameOf(j, i, c) = k
    BY DEF StackOf
  <2>2. Frame(k, j, i, c)
    BY <1>3, <2>1
  <2> QED BY <1>2, <1>6, <2>2 DEF Frame, Holds
<1>7. ASSUME \A k \in DOMAIN c : c[k].active, NEW j \in Opens(i)
      PROVE  Counts(j) /\ Cardinality(ElsesBefore(j, i)) = (IF Reading[j].value # 0 THEN 0 ELSE 1)
  <2>1. PICK k \in DOMAIN c : k = FrameOf(j, i, c) /\ Frame(k, j, i, c)
    BY <1>3
  <2>2. Counts(j)
    BY <1>5, <1>7, <2>1 DEF Frame
  <2>3. c[k].active
    BY <1>7
  <2> QED BY <2>1, <2>2, <2>3 DEF Frame, Holds
<1> QED BY <1>2, <1>6, <1>7

LEMMA DepthNow ==
  ASSUME NEW i \in Nat \ {0}, NEW j \in 1..i
  PROVE  /\ Depth(j, i - 1) \in Int
         /\ j = i => Depth(j, i - 1) = 0
         /\ Depth(j, (i + 1) - 1) = Depth(j, i - 1) +
              (IF source[i].op = "if" THEN 1
               ELSE IF source[i].op = "endif" THEN -1 ELSE 0)
<1>1. j \in Int /\ i - 1 \in Int /\ j <= (i - 1) + 1 /\ (i - 1) + 1 = i /\ (i + 1) - 1 = i
  OBVIOUS
<1> QED BY <1>1, DepthStep

LEMMA FrontLast ==
  ASSUME NEW S, NEW s \in Seq(S), s # <<>>
  PROVE  /\ Len(s) \in Nat \ {0} /\ DOMAIN s = 1..Len(s)
         /\ Front(s) \in Seq(S) /\ Len(Front(s)) = Len(s) - 1
         /\ DOMAIN Front(s) = 1..(Len(s) - 1)
         /\ \A k \in 1..(Len(s) - 1) : Front(s)[k] = s[k]
         /\ Last(s) = s[Len(s)] /\ Last(s) \in S
<1>1. Front(s) = [i \in 1..(Len(s) - 1) |-> s[i]]
  BY DEF Front
<1>2. Last(s) = s[Len(s)]
  BY DEF Last
<1> QED BY <1>1, <1>2

(* .if                                                                     *)
LEMMA StackPush ==
  ASSUME source \in Sources, defines \in Defines, NEW i \in DOMAIN source, NEW c,
         StackOf(i, c), source[i].op = "if", NEW v \in BOOLEAN, v <=> Holds(i)
  PROVE  StackOf(i + 1, Append(c, [active |-> v, taken |-> v]))
<1> DEFINE d == Append(c, [active |-> v, taken |-> v])
<1>1. i \in Nat \ {0}
  BY SourceType
<1>2. /\ c \in Seq(Frames) /\ d \in Seq(Frames)
      /\ Len(c) \in Nat /\ Len(d) = Len(c) + 1
      /\ DOMAIN c = 1..Len(c) /\ DOMAIN d = 1..(Len(c) + 1)
      /\ \A k \in DOMAIN c : d[k] = c[k]
      /\ d[Len(c) + 1] = [active |-> v, taken |-> v]
  <2> DEFINE f == [active |-> v, taken |-> v]
  <2>1. f \in Frames
    BY DEF Frames
  <2> HIDE DEF f
  <2>2. c \in Seq(Frames) /\ d = Append(c, f)
    BY DEF StackOf, f
  <2> HIDE DEF d
  <2>3. /\ d \in Seq(Frames) /\ Len(c) \in Nat /\ Len(d) = Len(c) + 1
        /\ DOMAIN c = 1..Len(c) /\ DOMAIN d = 1..(Len(c) + 1)
        /\ \A k \in DOMAIN c : d[k] = c[k]
        /\ d[Len(c) + 1] = f
    BY <2>1, <2>2
  <2> QED BY <2>2, <2>3 DEF f
<1> HIDE DEF d
<1>3. Opens(i + 1) = Opens(i) \cup {i} /\ Opens(i) \subseteq 1..(i - 1)
  BY <1>1, OpensStep
<1>4. ASSUME NEW j \in Opens(i)
      PROVE  /\ FrameOf(j, i + 1, d) = FrameOf(j, i, c) /\ FrameOf(j, i, c) \in DOMAIN c
             /\ Frame(FrameOf(j, i, c), j, i + 1, d)
  <2>1. j \in 1..i
    BY <1>1, <1>3
  <2>2. FrameOf(j, i + 1, d) = FrameOf(j, i, c)
    <3>1. Depth(j, i - 1) \in Int /\ Depth(j, (i + 1) - 1) = Depth(j, i - 1) + 1
      BY <1>1, <2>1, DepthNow
    <3> QED BY <1>2, <3>1 DEF FrameOf
  <2>3. ElsesBefore(j, i + 1) = ElsesBefore(j, i)
    BY <1>1, <2>1, ElsesStep
  <2>4. PICK k \in DOMAIN c : k = FrameOf(j, i, c) /\ Frame(k, j, i, c)
    BY DEF StackOf
  <2>5. Frame(k, j, i + 1, d)
    <3>1. k \in 1..Len(c) /\ d[k] = c[k] /\ \A l \in 1..(k - 1) : d[l] = c[l]
      BY <1>2, <2>4
    <3> QED BY <2>3, <2>4, <3>1 DEF Frame
  <2> QED BY <2>2, <2>4, <2>5
<1>5. FrameOf(i, i + 1, d) = Len(c) + 1 /\ Frame(Len(c) + 1, i, i + 1, d)
  <2>1. i \in 1..i
    BY <1>1
  <2>2. FrameOf(i, i + 1, d) = Len(c) + 1
    BY <1>1, <1>2, <2>1, DepthNow DEF FrameOf
  <2>3. Cardinality(ElsesBefore(i, i + 1)) = 0
    BY <1>1, <2>1, ElsesStep
  <2>4. Counts(i) <=> \A l \in 1..((Len(c) + 1) - 1) : d[l].active
    BY <1>2, ActiveCounts
  <2> QED BY <1>2, <2>2, <2>3, <2>4 DEF Frame
<1>6. ASSUME NEW k \in DOMAIN d PROVE \E j \in Opens(i + 1) : FrameOf(j, i + 1, d) = k
  <2>1. CASE k \in DOMAIN c
    <3>1. PICK j \in Opens(i) : FrameOf(j, i, c) = k
      BY <2>1 DEF StackOf
    <3> QED BY <1>3, <1>4, <3>1
  <2>2. CASE k = Len(c) + 1
    BY <1>3, <1>5, <2>2
  <2> QED BY <1>2, <2>1, <2>2
<1>7. \A j \in Opens(i + 1) :
        FrameOf(j, i + 1, d) \in DOMAIN d /\ Frame(FrameOf(j, i + 1, d), j, i + 1, d)
  BY <1>2, <1>3, <1>4, <1>5
<1> QED BY <1>2, <1>6, <1>7 DEF StackOf, d

(* .else                                                                   *)
LEMMA StackFlip ==
  ASSUME source \in Sources, defines \in Defines, NEW i \in DOMAIN source, NEW c,
         StackOf(i, c), source[i].op = "else", c # <<>>
  PROVE  StackOf(i + 1, Append(Front(c), [active |-> ~Last(c).taken, taken |-> TRUE]))
<1> DEFINE d == Append(Front(c), [active |-> ~Last(c).taken, taken |-> TRUE])
           n == Len(c)
<1>1. i \in Nat \ {0}
  BY SourceType
<1>2. /\ c \in Seq(Frames) /\ n \in Nat \ {0}
      /\ DOMAIN c = 1..n
  <2>1. c \in Seq(Frames)
    BY DEF StackOf
  <2> QED BY <2>1, FrontLast, Zenon
<1>3. /\ Front(c) \in Seq(Frames) /\ Len(Front(c)) = n - 1
      /\ \A k \in 1..(n - 1) : Front(c)[k] = c[k]
      /\ Last(c) = c[n] /\ c[n].taken \in BOOLEAN
  <2>1. /\ Last(c) = c[n] /\ Last(c) \in Frames /\ Front(c) \in Seq(Frames)
        /\ Len(Front(c)) = n - 1 /\ \A k \in 1..(n - 1) : Front(c)[k] = c[k]
    BY <1>2, FrontLast, Zenon
  <2>2. c[n].taken \in BOOLEAN
    BY <2>1 DEF Frames
  <2> QED BY <2>1, <2>2
<1>4. /\ d \in Seq(Frames)
      /\ Len(d) = n /\ DOMAIN d = 1..n
      /\ \A k \in 1..(n - 1) : d[k] = c[k]
      /\ d[n] = [active |-> ~c[n].taken, taken |-> TRUE]
  <2> DEFINE f == [active |-> ~Last(c).taken, taken |-> TRUE]
  <2>1. f \in Frames /\ f = [active |-> ~c[n].taken, taken |-> TRUE]
    BY <1>3 DEF Frames
  <2> HIDE DEF f
  <2>2. d = Append(Front(c), f)
    BY DEF f
  <2> HIDE DEF d
  <2>3. d \in Seq(Frames)
    BY <1>3, <2>1, <2>2
  <2>4. Len(d) = n /\ d[n] = f /\ \A k \in 1..(n - 1) : d[k] = c[k]
    <3> DEFINE S == Frames
               g == Front(c)
    <3>1. g \in Seq(S) /\ f \in S /\ d = Append(g, f) /\ Len(g) = n - 1
      BY <1>3, <2>1, <2>2
    <3> HIDE DEF S, g
    <3>2. Len(d) = Len(g) + 1 /\ d[Len(g) + 1] = f /\ \A k \in 1..Len(g) : d[k] = g[k]
      BY <3>1
    <3> QED BY <1>2, <1>3, <3>1, <3>2 DEF g
  <2> QED BY <1>2, <2>1, <2>3, <2>4
<1> HIDE DEF d
<1>5. Opens(i + 1) = Opens(i) /\ Opens(i) \subseteq 1..(i - 1)
  BY <1>1, OpensStep
<1>6. ASSUME NEW j \in Opens(i)
      PROVE  /\ FrameOf(j, i + 1, d) = FrameOf(j, i, c) /\ FrameOf(j, i, c) \in DOMAIN c
             /\ Frame(FrameOf(j, i, c), j, i + 1, d)
  <2>1. j \in 1..i
    BY <1>1, <1>5
  <2>2. FrameOf(j, i + 1, d) = FrameOf(j, i, c)
    <3>3. /\ Depth(j, i - 1) \in Int
          /\ Depth(j, (i + 1) - 1) = Depth(j, i - 1) +
              (IF source[i].op = "if" THEN 1
               ELSE IF source[i].op = "endif" THEN -1 ELSE 0)
      BY <1>1, <2>1, DepthNow
    <3>1. Depth(j, (i + 1) - 1) = Depth(j, i - 1)
      BY <3>3
    <3>2. Len(d) = Len(c)
      BY <1>4
    <3> QED BY <3>1, <3>2 DEF FrameOf
  <2>3. PICK k \in DOMAIN c : k = FrameOf(j, i, c) /\ Frame(k, j, i, c)
    BY DEF StackOf
  <2>4. Cardinality(ElsesBefore(j, i)) \in Nat
    BY <1>1, <2>1, ElsesStep
  <2>5. CASE k = n
    <3>1. Depth(j, i - 1) = 1
      BY <1>1, <1>2, <2>1, <2>3, <2>5, DepthNow DEF FrameOf
    <3>2. Cardinality(ElsesBefore(j, i + 1)) = Cardinality(ElsesBefore(j, i)) + 1
      BY <1>1, <2>1, <3>1, ElsesStep
    <3>3. d[n].taken /\ (d[n].active <=> ~c[n].taken) /\ c[n].taken \in BOOLEAN
      <4> DEFINE f == [active |-> ~c[n].taken, taken |-> TRUE]
      <4>1. f.taken = TRUE /\ f.active = ~c[n].taken
        OBVIOUS
      <4>2. d[n] = f
        BY <1>4
      <4> HIDE DEF f
      <4>3. d[n].taken = TRUE /\ d[n].active = ~c[n].taken
        BY <4>1, <4>2, Zenon
      <4> QED BY <1>3, <4>3, Zenon
    <3>4. \A l \in 1..(n - 1) : d[l] = c[l]
      BY <1>4
    <3>5. Frame(n, j, i, c)
      BY <2>3, <2>5
    <3>6. Frame(n, j, i + 1, d)
      <4> DEFINE e == Cardinality(ElsesBefore(j, i))
                 more == Cardinality(ElsesBefore(j, i + 1))
      <4>1. /\ Counts(j) <=> \A l \in 1..(n - 1) : c[l].active
            /\ c[n].taken <=> Holds(j) \/ e > 0
        BY <3>5 DEF Frame
      <4>2. e \in Nat /\ more = e + 1
        BY <2>4, <3>2
      <4> HIDE DEF e, more
      <4>3. Counts(j) <=> \A l \in 1..(n - 1) : d[l].active
        BY <3>4, <4>1
      <4>4. d[n].taken <=> Holds(j) \/ more > 0
        BY <3>3, <4>2
      <4>5. d[n].active <=> (more = 0 /\ Holds(j)) \/ (more = 1 /\ ~Holds(j))
        BY <3>3, <4>1, <4>2
      <4> QED BY <4>3, <4>4, <4>5 DEF Frame, more
    <3> QED BY <2>2, <2>3, <2>5, <3>6
  <2>6. CASE k # n
    <3>1. Depth(j, i - 1) # 1
      BY <1>1, <1>2, <2>1, <2>3, <2>6, DepthNow DEF FrameOf
    <3>2. ElsesBefore(j, i + 1) = ElsesBefore(j, i)
      BY <1>1, <2>1, <3>1, ElsesStep
    <3>3. k \in 1..(n - 1)
      BY <1>2, <2>6
    <3>4. d[k] = c[k] /\ \A l \in 1..(k - 1) : d[l] = c[l]
      BY <1>2, <1>4, <3>3
    <3>5. Frame(k, j, i + 1, d)
      BY <2>3, <3>2, <3>4 DEF Frame
    <3> QED BY <2>2, <2>3, <3>5
  <2> QED BY <2>5, <2>6
<1>7. ASSUME NEW k \in DOMAIN d PROVE \E j \in Opens(i + 1) : FrameOf(j, i + 1, d) = k
  <2>1. k \in DOMAIN c
    BY <1>2, <1>4
  <2>2. PICK j \in Opens(i) : FrameOf(j, i, c) = k
    BY <2>1 DEF StackOf
  <2> QED BY <1>5, <1>6, <2>2
<1>8. \A j \in Opens(i + 1) :
        FrameOf(j, i + 1, d) \in DOMAIN d /\ Frame(FrameOf(j, i + 1, d), j, i + 1, d)
  BY <1>2, <1>4, <1>5, <1>6
<1>9. StackOf(i + 1, d)
  BY <1>4, <1>7, <1>8 DEF StackOf
<1> QED BY <1>9 DEF d

(* .endif                                                                  *)
LEMMA StackPop ==
  ASSUME source \in Sources, defines \in Defines, NEW i \in DOMAIN source, NEW c,
         StackOf(i, c), source[i].op = "endif", c # <<>>
  PROVE  StackOf(i + 1, Front(c)) /\ Len(Front(c)) = Len(c) - 1
<1> DEFINE d == Front(c)
           n == Len(c)
<1>1. i \in Nat \ {0}
  BY SourceType
<1>2. /\ c \in Seq(Frames) /\ n \in Nat \ {0}
      /\ DOMAIN c = 1..n
  <2>1. c \in Seq(Frames)
    BY DEF StackOf
  <2> QED BY <2>1, FrontLast, Zenon
<1>3. /\ d \in Seq(Frames)
      /\ Len(d) = n - 1 /\ DOMAIN d = 1..(n - 1)
      /\ \A k \in 1..(n - 1) : d[k] = c[k]
  BY <1>2, FrontLast, Zenon
<1> HIDE DEF d
<1>4. Opens(i + 1) = {j \in Opens(i) : Depth(j, i - 1) > 1} /\ Opens(i) \subseteq 1..(i - 1)
  BY <1>1, OpensStep
<1>5. ASSUME NEW j \in Opens(i)
      PROVE  /\ FrameOf(j, i, c) \in 1..n
             /\ j \in Opens(i + 1) <=> FrameOf(j, i, c) < n
             /\ FrameOf(j, i + 1, d) = FrameOf(j, i, c)
             /\ FrameOf(j, i, c) < n => Frame(FrameOf(j, i, c), j, i + 1, d)
  <2>1. j \in 1..i
    BY <1>1, <1>4
  <2>2. FrameOf(j, i + 1, d) = FrameOf(j, i, c)
    <3>1. Depth(j, i - 1) \in Int /\ Depth(j, (i + 1) - 1) = Depth(j, i - 1) - 1
      BY <1>1, <2>1, DepthNow
    <3> QED BY <1>2, <1>3, <3>1 DEF FrameOf
  <2>3. PICK k \in DOMAIN c : k = FrameOf(j, i, c) /\ Frame(k, j, i, c)
    BY DEF StackOf
  <2>4. ElsesBefore(j, i + 1) = ElsesBefore(j, i)
    BY <1>1, <2>1, ElsesStep
  <2>5. j \in Opens(i + 1) <=> k < n
    <3>1. Depth(j, i - 1) \in Int
      BY <1>1, <2>1, DepthNow
    <3>2. k = n + 1 - Depth(j, i - 1)
      BY <2>3 DEF FrameOf
    <3> QED BY <1>2, <1>4, <3>1, <3>2
  <2>6. k < n => Frame(k, j, i + 1, d)
    <3> SUFFICES ASSUME k < n PROVE Frame(k, j, i + 1, d)
      OBVIOUS
    <3>1. k \in 1..(n - 1) /\ \A l \in 1..(k - 1) : l \in 1..(n - 1)
      BY <1>2
    <3> QED BY <1>3, <2>3, <2>4, <3>1 DEF Frame
  <2> QED BY <1>2, <2>2, <2>3, <2>5, <2>6
<1>6. ASSUME NEW k \in DOMAIN d PROVE \E j \in Opens(i + 1) : FrameOf(j, i + 1, d) = k
  <2>1. k \in DOMAIN c /\ k < n
    BY <1>2, <1>3
  <2>2. PICK j \in Opens(i) : FrameOf(j, i, c) = k
    BY <2>1 DEF StackOf
  <2> QED BY <1>5, <2>1, <2>2
<1>7. \A j \in Opens(i + 1) :
        FrameOf(j, i + 1, d) \in DOMAIN d /\ Frame(FrameOf(j, i + 1, d), j, i + 1, d)
  <2> TAKE j \in Opens(i + 1)
  <2>1. j \in Opens(i)
    BY <1>4
  <2> QED BY <1>2, <1>3, <1>5, <2>1
<1> QED BY <1>3, <1>6, <1>7 DEF StackOf, d

(* Any other line.                                                         *)
LEMMA StackKeep ==
  ASSUME source \in Sources, defines \in Defines, NEW i \in DOMAIN source, NEW c,
         StackOf(i, c), source[i].op \notin Directives
  PROVE  StackOf(i + 1, c)
<1>1. i \in Nat \ {0}
  BY SourceType
<1>2. c \in Seq(Frames) /\ Len(c) \in Nat
  BY DEF StackOf
<1>3. Opens(i + 1) = Opens(i) /\ Opens(i) \subseteq 1..(i - 1)
  BY <1>1, OpensStep DEF Directives
<1>4. ASSUME NEW j \in Opens(i)
      PROVE  /\ FrameOf(j, i + 1, c) = FrameOf(j, i, c)
             /\ ElsesBefore(j, i + 1) = ElsesBefore(j, i)
  <2>1. j \in 1..i
    BY <1>1, <1>3
  <2>2. FrameOf(j, i + 1, c) = FrameOf(j, i, c)
    <3>1. Depth(j, (i + 1) - 1) = Depth(j, i - 1)
      BY <1>1, <2>1, DepthNow DEF Directives
    <3> QED BY <3>1 DEF FrameOf
  <2>3. ElsesBefore(j, i + 1) = ElsesBefore(j, i)
    BY <1>1, <2>1, ElsesStep DEF Directives
  <2> QED BY <2>2, <2>3
<1>5. \A j \in Opens(i + 1) :
        FrameOf(j, i + 1, c) \in DOMAIN c /\ Frame(FrameOf(j, i + 1, c), j, i + 1, c)
  BY <1>3, <1>4 DEF StackOf, Frame
<1>6. \A k \in DOMAIN c : \E j \in Opens(i + 1) : FrameOf(j, i + 1, c) = k
  BY <1>3, <1>4 DEF StackOf
<1> QED BY <1>2, <1>5, <1>6 DEF StackOf

LEMMA StackStart == ASSUME source \in Sources, defines \in Defines PROVE StackOf(1, <<>>)
<1>1. Opens(1) = {}
  BY DEF Opens
<1> QED BY <1>1 DEF StackOf

LEMMA BlocksStep ==
  ASSUME source \in Sources, defines \in Defines, NEW i \in DOMAIN source, NEW c, NEW d,
         BlocksOf(i, c),
         Len(d) = Len(c) + (IF source[i].op = "if" THEN 1
                            ELSE IF source[i].op = "endif" THEN -1 ELSE 0),
         Len(d) \in Nat, source[i].op = "else" => Len(d) > 0
  PROVE  BlocksOf(i + 1, d)
<1>1. i \in Nat \ {0} /\ 1 \in 1..i
  BY SourceType
<1>2. Depth(1, (i + 1) - 1) = Depth(1, i - 1) +
        (IF source[i].op = "if" THEN 1 ELSE IF source[i].op = "endif" THEN -1 ELSE 0)
  BY <1>1, DepthNow
<1>3. Depth(1, (i + 1) - 1) = Len(d) /\ (i + 1) - 1 = i
  BY <1>1, <1>2 DEF BlocksOf
<1>4. \A n \in 1..i : n \in 1..(i - 1) \/ n = i
  BY <1>1
<1> QED BY <1>3, <1>4 DEF BlocksOf

LEMMA BlocksStart == BlocksOf(1, <<>>)
<1>1. Depth(1, 1 - 1) = 0
  BY DepthStep
<1> QED BY <1>1 DEF BlocksOf

-----------------------------------------------------------------------------
(* The lines read so far that count.                                       *)
LEMMA BeforeStep ==
  ASSUME source \in Sources, defines \in Defines, NEW ops, NEW i \in 1..End
  PROVE  /\ Before(ops, i) \subseteq 1..(i - 1) /\ Before(ops, i) \subseteq DOMAIN source
         /\ IsFiniteSet(Before(ops, i)) /\ Cardinality(Before(ops, i)) \in Nat
         /\ Before(ops, 1) = {}
         /\ Before(ops, End) = Places(ops)
         /\ i \in DOMAIN source =>
              Before(ops, i + 1) = Before(ops, i) \cup
                (IF source[i].op \in ops /\ Counts(i) THEN {i} ELSE {})
<1>1. Len(source) \in Nat /\ DOMAIN source = 1..Len(source) /\ End = Len(source) + 1
  BY SourceType DEF End
<1>2. Before(ops, i) \subseteq 1..(i - 1) /\ Before(ops, i) \subseteq DOMAIN source
  BY <1>1 DEF Before, Places
<1>3. IsFiniteSet(1..(i - 1))
  BY <1>1, FS_Interval
<1>4. IsFiniteSet(Before(ops, i)) /\ Cardinality(Before(ops, i)) \in Nat
  BY <1>2, <1>3, FS_Subset, FS_CardinalityType
<1>5. Before(ops, 1) = {} /\ Before(ops, End) = Places(ops)
  BY <1>1 DEF Before, Places
<1>6. i \in DOMAIN source =>
        Before(ops, i + 1) = Before(ops, i) \cup
          (IF source[i].op \in ops /\ Counts(i) THEN {i} ELSE {})
  BY <1>1 DEF Before, Places
<1> QED BY <1>2, <1>4, <1>5, <1>6

LEMMA ListedAppend ==
  ASSUME NEW i \in Nat, NEW S, IsFiniteSet(S), S \subseteq 1..(i - 1), NEW seq, Listed(seq, S)
  PROVE  Listed(Append(seq, i), S \cup {i})
<1> DEFINE t == Append(seq, i)
<1>1. seq \in Seq(Nat) /\ Len(seq) \in Nat /\ DOMAIN seq = 1..Len(seq)
  BY DEF Listed
<1>2. /\ t \in Seq(Nat) /\ Len(t) = Len(seq) + 1 /\ DOMAIN t = 1..(Len(seq) + 1)
      /\ t[Len(seq) + 1] = i /\ \A a \in 1..Len(seq) : t[a] = seq[a]
  BY <1>1
<1> HIDE DEF t
<1>3. \A a \in DOMAIN seq : seq[a] \in S /\ seq[a] < i
  <2>1. \A a \in DOMAIN seq : seq[a] \in S
    BY DEF Listed, Range
  <2>2. \A x \in S : x < i
    OBVIOUS
  <2> QED BY <2>1, <2>2
<1>4. Range(t) = S \cup {i}
  <2>1. Range(seq) = S
    BY DEF Listed
  <2>2. \A a : a \in DOMAIN t <=> a \in DOMAIN seq \/ a = Len(seq) + 1
    BY <1>1, <1>2
  <2>3. \A x : x \in Range(t) <=> x = t[Len(seq) + 1] \/ \E a \in DOMAIN seq : x = t[a]
    BY <1>2, <2>2 DEF Range
  <2>4. \A x : x \in Range(t) <=> x = i \/ \E a \in DOMAIN seq : x = seq[a]
    BY <1>1, <1>2, <2>3
  <2>5. \A x : x \in Range(seq) <=> \E a \in DOMAIN seq : x = seq[a]
    BY DEF Range
  <2>6. \A x : x \in Range(t) <=> x = i \/ x \in S
    BY <2>1, <2>4, <2>5
  <2> QED BY <2>6
<1>5. Len(t) = Cardinality(S \cup {i})
  <2>1. i \notin S /\ Len(seq) = Cardinality(S)
    BY DEF Listed
  <2>2. Cardinality(S \cup {i}) = Cardinality(S) + 1
    BY <2>1, FS_AddElement
  <2> QED BY <1>2, <2>1, <2>2
<1>6. ASSUME NEW a \in DOMAIN t, NEW b \in DOMAIN t, a < b PROVE t[a] < t[b]
  <2>1. a \in DOMAIN seq /\ t[a] = seq[a]
    BY <1>1, <1>2, <1>6
  <2>2. CASE b \in DOMAIN seq
    BY <1>1, <1>2, <1>6, <2>1, <2>2 DEF Listed
  <2>3. CASE b = Len(seq) + 1
    BY <1>2, <1>3, <2>1, <2>3
  <2> QED BY <1>1, <1>2, <2>2, <2>3
<1> QED BY <1>2, <1>4, <1>5, <1>6 DEF Listed, t

(* A line that is kept.                                                    *)
LEMMA KeepLine ==
  ASSUME source \in Sources, defines \in Defines, NEW i \in DOMAIN source, NEW ops, NEW seq,
         Listed(seq, Before(ops, i)), source[i].op \in ops, Counts(i)
  PROVE  Listed(Append(seq, i), Before(ops, i + 1))
<1>1. i \in Nat /\ i \in 1..End
  BY SourceType DEF End
<1> QED BY <1>1, BeforeStep, ListedAppend

(* And one that is not.                                                    *)
LEMMA SkipLine ==
  ASSUME source \in Sources, defines \in Defines, NEW i \in DOMAIN source, NEW ops,
         ~(source[i].op \in ops /\ Counts(i))
  PROVE  Before(ops, i + 1) = Before(ops, i)
<1>1. i \in 1..End
  BY SourceType DEF End
<1>2. Before(ops, i + 1) = Before(ops, i) \cup
        (IF source[i].op \in ops /\ Counts(i) THEN {i} ELSE {})
  BY <1>1, BeforeStep
<1> QED BY <1>2

LEMMA ListedStart == Listed(<<>>, {})
  BY FS_EmptySet DEF Listed, Range

LEMMA SoundStep ==
  ASSUME source \in Sources, defines \in Defines, NEW i \in DOMAIN source, SoundTo(i),
         Counts(i) =>
           /\ source[i].op = "if" => KnownAt(source[i].val, i)
           /\ source[i].op = "equ" /\ source[i].name \notin DOMAIN defines =>
                KnownAt(source[i].val, i)
           /\ source[i].op \in Mnemonics \cup {"label"} => Before({"data"}, i) = {}
           /\ source[i].op = "byte" => Before({"data"}, i) # {}
  PROVE  SoundTo(i + 1)
<1>1. i \in Nat /\ i \in 1..End /\ \A n \in DOMAIN source : n < i + 1 => n < i \/ n = i
  BY SourceType DEF End
<1>2. \A ops : \A n \in Before(ops, i + 1) :
        n \in Before(ops, i) \/ (n = i /\ Counts(i) /\ source[i].op \in ops)
  <2> TAKE ops
  <2>1. Before(ops, i + 1) = Before(ops, i) \cup
          (IF source[i].op \in ops /\ Counts(i) THEN {i} ELSE {})
    BY <1>1, BeforeStep
  <2>2. CASE source[i].op \in ops /\ Counts(i)
    BY <2>1, <2>2
  <2>3. CASE ~(source[i].op \in ops /\ Counts(i))
    BY <2>3, SkipLine
  <2> QED BY <2>2, <2>3
<1>3. \A n \in OwnNames : n \in DOMAIN source /\ Counts(n) /\
        (source[n].op = "equ" => source[n].name \notin DOMAIN defines)
  BY DEF OwnNames, Places
<1>4. \A n \in Before({"if"}, i + 1) : KnownAt(source[n].val, n)
  BY <1>2 DEF SoundTo
<1>5. \A n \in OwnNames : n < i + 1 /\ source[n].op = "equ" => KnownAt(source[n].val, n)
  BY <1>1, <1>3 DEF SoundTo
<1>6. \A n \in Before(Mnemonics \cup {"label"}, i + 1) : Before({"data"}, n) = {}
  BY <1>2 DEF SoundTo
<1>7. \A n \in Before({"byte"}, i + 1) : Before({"data"}, n) # {}
  BY <1>2 DEF SoundTo
<1> QED BY <1>4, <1>5, <1>6, <1>7 DEF SoundTo

-----------------------------------------------------------------------------
(* The names known.                                                        *)
LEMMA DefinitionsAre ==
  ASSUME source \in Sources, defines \in Defines, NEW i \in 1..End, NEW x
  PROVE  /\ Definitions(x, i) = {n \in Before({"equ"}, i) : source[n].name = x}
         /\ (Definitions(x, i) # {} <=> x \in NameIn({"equ"}, i))
         /\ Definitions(x, i) \subseteq DOMAIN source /\ Definitions(x, i) \in SUBSET Nat
<1>1. Len(source) \in Nat /\ DOMAIN source = 1..Len(source) /\ End = Len(source) + 1
  BY SourceType DEF End
<1>2. \A n : n \in Definitions(x, i) <=> (n \in Before({"equ"}, i) /\ source[n].name = x)
  BY <1>1 DEF Definitions, DefinitionsBy, Before, Places, Counts
<1> QED BY <1>1, <1>2 DEF NameIn, Before, Places

LEMMA MinIn ==
  ASSUME NEW D \in SUBSET Nat, D # {}
  PROVE  Min(D) \in D
<1>1. \E n \in D : \A m \in D : n <= m
  BY LeastNat
<1> QED BY <1>1 DEF Min

(* What is known is what the source defines before, and its value the one  *)
(* it gives.                                                               *)
LEMMA KnownValue ==
  ASSUME source \in Sources, defines \in Defines, NEW i \in 1..End, NEW cs, NEW ls,
         NamesOf(i, cs, ls), NEW val
  PROVE  /\ Known(val, cs) <=> KnownAt(val, i)
         /\ Known(val, cs) => Eval(val, cs) = ValueAt(val, i)
<1>1. Definitions(val.id, i) # {} <=> val.id \in NameIn({"equ"}, i)
  BY DefinitionsAre
<1>2. val.id \in DOMAIN cs <=> val.id \in DOMAIN Given \/ Definitions(val.id, i) # {}
  BY <1>1 DEF NamesOf
<1>3. Known(val, cs) <=> KnownAt(val, i)
  BY <1>2 DEF Known, KnownAt
<1>4. ASSUME "lit" \notin DOMAIN val, val.id \in DOMAIN cs
      PROVE  cs[val.id] = ValueAt(val, i)
  <2>1. cs[val.id] = IF val.id \in DOMAIN Given THEN Given[val.id]
                     ELSE Reading[Min(Definitions(val.id, i))].value
    BY <1>4 DEF NamesOf
  <2> QED BY <1>2, <1>4, <2>1 DEF ValueAt, ValueBy, Definitions
<1>5. Known(val, cs) => Eval(val, cs) = ValueAt(val, i)
  BY <1>4 DEF Known, Eval, ValueAt, ValueBy
<1> QED BY <1>3, <1>5

(* A line that defines nothing.                                            *)
LEMMA NamesKeep ==
  ASSUME source \in Sources, defines \in Defines, NEW i \in DOMAIN source, NEW cs, NEW ls,
         NamesOf(i, cs, ls),
         \/ ~Counts(i)
         \/ source[i].op \notin {"label", "equ"}
         \/ source[i].op = "equ" /\ source[i].name \in DOMAIN defines
  PROVE  NamesOf(i + 1, cs, ls)
<1>1. i \in Nat /\ i \in 1..End /\ i + 1 \in 1..End
  BY SourceType DEF End
<1>2. DOMAIN defines \subseteq DOMAIN Given
  BY DEF Given, Over
<1>3. Before({"label"}, i + 1) = Before({"label"}, i)
  BY SkipLine
<1>4. i \notin OwnNames
  BY DEF OwnNames, Places
<1>5. CASE ~(source[i].op = "equ" /\ Counts(i))
  <2>1. Before({"equ"}, i + 1) = Before({"equ"}, i)
    BY <1>5, SkipLine
  <2>2. \A x : Definitions(x, i + 1) = Definitions(x, i)
    BY <1>1, <2>1, DefinitionsAre
  <2>3. \A n \in OwnNames : n < i + 1 => n < i
    BY <1>1, <1>4, SourceType DEF OwnNames, Places
  <2> QED BY <1>3, <2>1, <2>2, <2>3 DEF NamesOf, NameIn
<1>6. CASE source[i].op = "equ" /\ Counts(i)
  <2>1. source[i].name \in DOMAIN Given
    BY <1>2, <1>6
  <2>2. Before({"equ"}, i + 1) = Before({"equ"}, i) \cup {i}
    BY <1>1, <1>6, BeforeStep
  <2>3. NameIn({"equ"}, i + 1) = NameIn({"equ"}, i) \cup {source[i].name}
    BY <2>2 DEF NameIn
  <2>4. DOMAIN cs = DOMAIN Given \cup NameIn({"equ"}, i + 1)
    BY <2>1, <2>3 DEF NamesOf
  <2>5. \A x : x \notin DOMAIN Given => Definitions(x, i + 1) = Definitions(x, i)
    <3> TAKE x
    <3>1. /\ Definitions(x, i + 1) = {n \in Before({"equ"}, i + 1) : source[n].name = x}
          /\ Definitions(x, i) = {n \in Before({"equ"}, i) : source[n].name = x}
      BY <1>1, DefinitionsAre
    <3> QED BY <2>1, <2>2, <3>1
  <2>6. \A n \in OwnNames : n < i + 1 => n < i
    BY <1>1, <1>4, SourceType DEF OwnNames, Places
  <2> QED BY <1>3, <2>4, <2>5, <2>6 DEF NamesOf, NameIn
<1> QED BY <1>5, <1>6

(* A new name is not that of a line before.                                *)
LEMMA NewName ==
  ASSUME source \in Sources, defines \in Defines, NEW i \in DOMAIN source, NEW cs, NEW ls,
         NamesOf(i, cs, ls), i \in OwnNames,
         source[i].name \notin DOMAIN cs \cup DOMAIN ls
  PROVE  \A m \in OwnNames : m < i + 1 =>
           /\ source[m].name \notin DOMAIN Given
           /\ \A n \in OwnNames : n < i + 1 /\ source[n].name = source[m].name => n = m
<1>1. i \in Nat /\ i \in 1..End
  BY SourceType DEF End
<1>2. \A m \in OwnNames : m < i => source[m].name \in DOMAIN cs \cup DOMAIN ls
  BY DEF OwnNames, NamesOf, NameIn, Before, Places
<1>3. \A m \in OwnNames : m < i + 1 => m < i \/ m = i
  BY <1>1, SourceType DEF OwnNames, Places
<1>4. source[i].name \notin DOMAIN Given
  BY DEF NamesOf
<1>5. ASSUME NEW m \in OwnNames, m < i + 1, NEW n \in OwnNames, n < i + 1,
             source[n].name = source[m].name
      PROVE  n = m
  <2>1. CASE n < i /\ m < i
    BY <1>5, <2>1 DEF NamesOf
  <2>2. CASE n = i /\ m < i
    BY <1>2, <1>5, <2>2
  <2>3. CASE n < i /\ m = i
    BY <1>2, <1>5, <2>3
  <2> QED BY <1>3, <1>5, <2>1, <2>2, <2>3
<1>6. \A m \in OwnNames : m < i + 1 => source[m].name \notin DOMAIN Given
  BY <1>3, <1>4 DEF NamesOf
<1> QED BY <1>5, <1>6

LEMMA NamesLabel ==
  ASSUME source \in Sources, defines \in Defines, NEW i \in DOMAIN source, NEW cs, NEW ls,
         NamesOf(i, cs, ls), Counts(i), source[i].op = "label",
         source[i].name \notin DOMAIN cs \cup DOMAIN ls
  PROVE  NamesOf(i + 1, cs, With(ls, source[i].name, Cardinality(Before(Mnemonics, i))))
<1> DEFINE ld == With(ls, source[i].name, Cardinality(Before(Mnemonics, i)))
<1>1. i \in Nat /\ i \in 1..End /\ i + 1 \in 1..End
  BY SourceType DEF End
<1>2. Before({"label"}, i + 1) = Before({"label"}, i) \cup {i}
  BY <1>1, BeforeStep
<1>3. Before({"equ"}, i + 1) = Before({"equ"}, i)
  BY SkipLine
<1>4. \A x : Definitions(x, i + 1) = Definitions(x, i)
  BY <1>1, <1>3, DefinitionsAre
<1>5. i \in OwnNames
  BY DEF OwnNames, Places
<1>6. /\ DOMAIN ld = DOMAIN ls \cup {source[i].name}
      /\ ld[source[i].name] = Cardinality(Before(Mnemonics, i))
      /\ \A y \in DOMAIN ls : y # source[i].name => ld[y] = ls[y]
  BY DEF With
<1> HIDE DEF ld
<1>7. DOMAIN ld = NameIn({"label"}, i + 1)
  BY <1>2, <1>6 DEF NamesOf, NameIn
<1>8. ASSUME NEW l \in Before({"label"}, i + 1)
      PROVE  ld[source[l].name] = Cardinality(Before(Mnemonics, l))
  <2>1. CASE l = i
    BY <1>6, <2>1
  <2>2. CASE l \in Before({"label"}, i)
    <3>1. source[l].name \in DOMAIN ls /\ source[l].name # source[i].name
      BY <2>2 DEF NamesOf, NameIn
    <3> QED BY <1>6, <2>2, <3>1 DEF NamesOf
  <2> QED BY <1>2, <2>1, <2>2
<1>9. DOMAIN cs = DOMAIN Given \cup NameIn({"equ"}, i + 1)
  BY <1>3 DEF NamesOf, NameIn
<1>10. \A x \in DOMAIN cs : cs[x] = IF x \in DOMAIN Given THEN Given[x]
                                     ELSE Reading[Min(Definitions(x, i + 1))].value
  BY <1>4 DEF NamesOf
<1>11. \A m \in OwnNames : m < i + 1 =>
           /\ source[m].name \notin DOMAIN Given
           /\ \A n \in OwnNames : n < i + 1 /\ source[n].name = source[m].name => n = m
  BY <1>5, NewName
<1> QED BY <1>7, <1>8, <1>9, <1>10, <1>11 DEF NamesOf, ld

LEMMA NamesEqu ==
  ASSUME source \in Sources, defines \in Defines, NEW i \in DOMAIN source, NEW cs, NEW ls,
         NamesOf(i, cs, ls), Counts(i), source[i].op = "equ",
         source[i].name \notin DOMAIN defines, source[i].name \notin DOMAIN cs \cup DOMAIN ls
  PROVE  NamesOf(i + 1, With(cs, source[i].name, ValueAt(source[i].val, i)), ls)
<1> DEFINE name == source[i].name
           cd == With(cs, name, ValueAt(source[i].val, i))
<1>1. i \in Nat /\ i \in 1..End /\ i + 1 \in 1..End
  BY SourceType DEF End
<1>2. Before({"equ"}, i + 1) = Before({"equ"}, i) \cup {i}
  BY <1>1, BeforeStep
<1>3. Before({"label"}, i + 1) = Before({"label"}, i)
  BY SkipLine
<1>4. i \in OwnNames
  BY DEF OwnNames, Places
<1>5. /\ DOMAIN cd = DOMAIN cs \cup {name}
      /\ cd[name] = ValueAt(source[i].val, i)
      /\ \A y \in DOMAIN cs : y # name => cd[y] = cs[y]
  BY DEF With
<1> HIDE DEF cd
<1>6. DOMAIN cs = DOMAIN Given \cup NameIn({"equ"}, i)
  BY DEF NamesOf
<1>7. NameIn({"equ"}, i + 1) = NameIn({"equ"}, i) \cup {name}
  BY <1>2 DEF NameIn
<1>8. DOMAIN cd = DOMAIN Given \cup NameIn({"equ"}, i + 1)
  BY <1>5, <1>6, <1>7
<1>9. \A x : x # name => Definitions(x, i + 1) = Definitions(x, i)
  <2> TAKE x
  <2>1. /\ Definitions(x, i + 1) = {n \in Before({"equ"}, i + 1) : source[n].name = x}
        /\ Definitions(x, i) = {n \in Before({"equ"}, i) : source[n].name = x}
    BY <1>1, DefinitionsAre
  <2> QED BY <1>2, <2>1
<1>10. Definitions(name, i + 1) = {i}
  <2>1. Definitions(name, i) = {}
    BY <1>1, <1>6, DefinitionsAre
  <2> QED BY <1>1, <1>2, <2>1, DefinitionsAre
<1>11. Min({i}) = i
  <2>1. {i} \in SUBSET Nat /\ {i} # {}
    BY <1>1
  <2> QED BY <2>1, MinIn
<1>12. Reading[i].value = ValueAt(source[i].val, i)
  BY ValueRead
<1>13. ASSUME NEW x \in DOMAIN cd
       PROVE  cd[x] = IF x \in DOMAIN Given THEN Given[x]
                      ELSE Reading[Min(Definitions(x, i + 1))].value
  <2>1. CASE x = name
    BY <1>5, <1>6, <1>10, <1>11, <1>12, <2>1
  <2>2. CASE x # name
    <3>1. x \in DOMAIN cs /\ cd[x] = cs[x]
      BY <1>5, <2>2
    <3> QED BY <1>9, <2>2, <3>1 DEF NamesOf
  <2> QED BY <2>1, <2>2
<1>14. \A m \in OwnNames : m < i + 1 =>
           /\ source[m].name \notin DOMAIN Given
           /\ \A n \in OwnNames : n < i + 1 /\ source[n].name = source[m].name => n = m
  BY <1>4, NewName
<1>15. /\ DOMAIN ls = NameIn({"label"}, i + 1)
       /\ \A l \in Before({"label"}, i + 1) : ls[source[l].name] = Cardinality(Before(Mnemonics, l))
  BY <1>3 DEF NamesOf, NameIn
<1> QED BY <1>8, <1>13, <1>14, <1>15 DEF NamesOf, cd

LEMMA NamesStart ==
  ASSUME source \in Sources, defines \in Defines
  PROVE  NamesOf(1, Given, <<>>)
<1>1. \A ops : Before(ops, 1) = {}
  BY SourceType DEF Before, Places
<1>2. \A m \in OwnNames : ~(m < 1)
  BY SourceType DEF OwnNames, Places
<1>3. \A ops : NameIn(ops, 1) = {}
  BY <1>1 DEF NameIn
<1>4. DOMAIN Given = DOMAIN Given \cup NameIn({"equ"}, 1)
  <2>1. NameIn({"equ"}, 1) = {}
    BY <1>3
  <2> QED BY <2>1
<1>5. \A l \in Before({"label"}, 1) : FALSE
  BY <1>1
<1>6. \A x \in DOMAIN Given : Given[x] = IF x \in DOMAIN Given THEN Given[x]
                                        ELSE Reading[Min(Definitions(x, 1))].value
  OBVIOUS
<1>7. \A l \in Before({"label"}, 1) :
        <<>>[source[l].name] = Cardinality(Before(Mnemonics, l))
  BY <1>5
<1>8. \A m \in OwnNames : m < 1 =>
        /\ source[m].name \notin DOMAIN Given
        /\ \A n \in OwnNames : n < 1 /\ source[n].name = source[m].name => n = m
  BY <1>2
<1>9. DOMAIN <<>> = NameIn({"label"}, 1)
  <2>1. NameIn({"label"}, 1) = {} /\ DOMAIN <<>> = {}
    BY <1>3
  <2> QED BY <2>1
<1> QED BY <1>4, <1>6, <1>7, <1>8, <1>9 DEF NamesOf

-----------------------------------------------------------------------------
(* The encoding of cycle counts.                                           *)
LEMMA MinTwo ==
  ASSUME NEW a \in Int, NEW b \in Int
  PROVE  Min({a, b}) = IF a <= b THEN a ELSE b
<1> DEFINE D == {a, b}
           n == IF a <= b THEN a ELSE b
<1>1. n \in D /\ \A m \in D : n <= m
  OBVIOUS
<1> HIDE DEF D, n
<1>2. Min(D) \in D /\ \A m \in D : Min(D) <= m
  BY <1>1 DEF Min
<1>3. Min(D) <= n /\ n <= Min(D)
  BY <1>1, <1>2
<1>4. n \in Int /\ D \subseteq Int
  BY DEF D, n
<1>5. Min(D) \in Int
  BY <1>2, <1>4
<1>6. Min(D) = n
  BY <1>3, <1>4, <1>5
<1> QED BY <1>6 DEF D, n

Units == {1, 32, 1024, 32768}
Tops == {31, 511}

(* The nearest multiple of u, and the mantissa it gives for one exponent.   *)
Quotient(c, u) == (c + (u \div 2)) \div u
Capped(c, top, u) == IF Quotient(c, u) <= top THEN Quotient(c, u) ELSE top
Mant(c, top, e) ==
  Min({(c + (TimeoutScale[e + 1] \div 2)) \div TimeoutScale[e + 1], top})
Off(c, top, e) == LET d == Shifted(Mant(c, top, e), e) - c IN IF d < 0 THEN -d ELSE d
Best(c, top) ==
  CHOOSE e \in 0..3 :
    \A f \in 0..3 : Off(c, top, e) < Off(c, top, f) \/ (Off(c, top, e) = Off(c, top, f) /\ e <= f)

LEMMA Scales ==
  /\ TimeoutScale[0 + 1] = 1 /\ TimeoutScale[1 + 1] = 32
  /\ TimeoutScale[2 + 1] = 1024 /\ TimeoutScale[3 + 1] = 32768
  BY DEF TimeoutScale

LEMMA ScaleIn ==
  ASSUME NEW e \in 0..3
  PROVE  TimeoutScale[e + 1] \in Units /\ (e = 0 => TimeoutScale[e + 1] = 1)
<1>1. e = 0 \/ e = 1 \/ e = 2 \/ e = 3
  OBVIOUS
<1> QED BY <1>1, Scales DEF Units

LEMMA NearestMultiple ==
  ASSUME NEW c \in Nat, NEW top \in Tops, NEW u \in Units
  PROVE  /\ Quotient(c, u) \in Nat /\ Capped(c, top, u) \in 0..top
         /\ \A k \in 0..top : Dist(Capped(c, top, u) * u, c) <= Dist(k * u, c)
         /\ u = 1 /\ c > 0 => Capped(c, top, u) # 0
<1> USE DEF Tops
<1>1. CASE u = 1
  <2>1. Quotient(c, u) = c
    BY <1>1 DEF Quotient
  <2> QED BY <1>1, <2>1 DEF Dist, Capped
<1>2. CASE u = 32
  <2>1. Quotient(c, u) = (c + 16) \div 32
    BY <1>2 DEF Quotient
  <2>2. /\ Quotient(c, u) \in Nat /\ 32 * Quotient(c, u) <= c + 16
        /\ c + 16 < 32 * Quotient(c, u) + 32
    BY <2>1
  <2> QED BY <1>2, <2>2 DEF Dist, Capped
<1>3. CASE u = 1024
  <2>1. Quotient(c, u) = (c + 512) \div 1024
    BY <1>3 DEF Quotient
  <2>2. /\ Quotient(c, u) \in Nat /\ 1024 * Quotient(c, u) <= c + 512
        /\ c + 512 < 1024 * Quotient(c, u) + 1024
    BY <2>1
  <2> QED BY <1>3, <2>2 DEF Dist, Capped
<1>4. CASE u = 32768
  <2>1. Quotient(c, u) = (c + 16384) \div 32768
    BY <1>4 DEF Quotient
  <2>2. /\ Quotient(c, u) \in Nat /\ 32768 * Quotient(c, u) <= c + 16384
        /\ c + 16384 < 32768 * Quotient(c, u) + 32768
    BY <2>1
  <2> QED BY <1>4, <2>2 DEF Dist, Capped
<1> QED BY <1>1, <1>2, <1>3, <1>4 DEF Units

LEMMA MantissaNearest ==
  ASSUME NEW c \in Nat, NEW top \in Tops, NEW e \in 0..3
  PROVE  /\ Mant(c, top, e) \in 0..top /\ Off(c, top, e) \in Nat
         /\ Off(c, top, e) = Dist(Shifted(Mant(c, top, e), e), c)
         /\ \A k \in 0..top : Off(c, top, e) <= Dist(Shifted(k, e), c)
         /\ e = 0 /\ c > 0 => Mant(c, top, e) # 0
<1> DEFINE u == TimeoutScale[e + 1]
<1>1. u \in Units /\ (e = 0 => u = 1)
  BY ScaleIn
<1>3. Mant(c, top, e) = Capped(c, top, u)
  <2>1. Mant(c, top, e) = Min({Quotient(c, u), top})
    BY DEF Mant, Quotient
  <2> HIDE DEF u
  <2>2. Quotient(c, u) \in Int
    BY <1>1, NearestMultiple
  <2>3. Min({Quotient(c, u), top}) = IF Quotient(c, u) <= top THEN Quotient(c, u) ELSE top
    BY <2>2, MinTwo DEF Tops
  <2> QED BY <2>1, <2>3 DEF Capped
<1> HIDE DEF u
<1>2. /\ Capped(c, top, u) \in 0..top
      /\ \A k \in 0..top : Dist(Capped(c, top, u) * u, c) <= Dist(k * u, c)
      /\ u = 1 /\ c > 0 => Capped(c, top, u) # 0
  BY <1>1, NearestMultiple
<1>4. Off(c, top, e) = Dist(Capped(c, top, u) * u, c) /\ Dist(Capped(c, top, u) * u, c) \in Nat
  <2>1. Capped(c, top, u) * u \in Int
    BY <1>1, <1>2 DEF Units, Tops
  <2>2. Shifted(Mant(c, top, e), e) = Capped(c, top, u) * u
    BY <1>3 DEF Shifted, u
  <2> QED BY <2>1, <2>2 DEF Off, Dist
<1>5. \A k : Shifted(k, e) = k * u
  BY DEF Shifted, u
<1> QED BY <1>1, <1>2, <1>3, <1>4, <1>5

LEMMA EncodeIs ==
  ASSUME NEW c, NEW b
  PROVE  EncodeCycles(c, b) =
           [m |-> Mant(c, (2 ^ b) - 1, Best(c, (2 ^ b) - 1)), e |-> Best(c, (2 ^ b) - 1)]
  BY DEF EncodeCycles, Mant, Off, Best

LEMMA BestNearest ==
  ASSUME NEW c \in Nat, NEW top \in Tops, NEW enc,
         enc = [m |-> Mant(c, top, Best(c, top)), e |-> Best(c, top)]
  PROVE  /\ enc.m \in 0..top /\ enc.e \in 0..3
         /\ \A m \in 0..top, e \in 0..3 :
              Dist(Shifted(enc.m, enc.e), c) <= Dist(Shifted(m, e), c)
         /\ c > 0 => enc.m # 0
<1> DEFINE o(e) == Off(c, top, e)
           Least(e) == \A f \in 0..3 : o(e) < o(f) \/ (o(e) = o(f) /\ e <= f)
           best == Best(c, top)
<1>2. enc = [m |-> Mant(c, top, best), e |-> best]
  OBVIOUS
<1>3. /\ \A e \in 0..3 : o(e) \in Nat /\ Mant(c, top, e) \in 0..top
      /\ \A e \in 0..3 : o(e) = Dist(Shifted(Mant(c, top, e), e), c)
      /\ \A e \in 0..3 : \A k \in 0..top : o(e) <= Dist(Shifted(k, e), c)
      /\ c > 0 => Mant(c, top, 0) # 0
  <2>1. 0 \in 0..3
    OBVIOUS
  <2>2. ASSUME NEW e \in 0..3
        PROVE  /\ Mant(c, top, e) \in 0..top /\ o(e) \in Nat
               /\ o(e) = Dist(Shifted(Mant(c, top, e), e), c)
               /\ \A k \in 0..top : o(e) <= Dist(Shifted(k, e), c)
               /\ e = 0 /\ c > 0 => Mant(c, top, e) # 0
    BY MantissaNearest
  <2> HIDE DEF o
  <2> QED BY <2>1, <2>2
<1>4. \E e \in 0..3 : Least(e)
  <2>1. o(0) \in Nat /\ o(1) \in Nat /\ o(2) \in Nat /\ o(3) \in Nat
    BY <1>3
  <2>2. \A e \in 0..3 : Least(e) <=>
          /\ o(e) < o(0) \/ (o(e) = o(0) /\ e <= 0)
          /\ o(e) < o(1) \/ (o(e) = o(1) /\ e <= 1)
          /\ o(e) < o(2) \/ (o(e) = o(2) /\ e <= 2)
          /\ o(e) < o(3) \/ (o(e) = o(3) /\ e <= 3)
    <3> HIDE DEF o
    <3>1. 0..3 = {0, 1, 2, 3}
      OBVIOUS
    <3> QED BY <3>1
  <2> HIDE DEF o, Least
  <2>3. Least(0) \/ Least(1) \/ Least(2) \/ Least(3)
    BY <2>1, <2>2
  <2> QED BY <2>3
<1>5. best \in 0..3 /\ Least(best)
  <2>1. best = CHOOSE e \in 0..3 : Least(e)
    BY DEF Best
  <2> HIDE DEF best, Least, o
  <2> QED BY <1>4, <2>1
<1>6. \A e \in 0..3 : o(best) <= o(e)
  <2> HIDE DEF best, o
  <2> QED BY <1>3, <1>5
<1> HIDE DEF best, o
<1>7. /\ enc.m = Mant(c, top, best) /\ enc.e = best
      /\ Dist(Shifted(enc.m, enc.e), c) = o(best)
  BY <1>2, <1>3, <1>5
<1>8. enc.m \in 0..top /\ enc.e \in 0..3
  BY <1>3, <1>5, <1>7
<1>9. ASSUME NEW m \in 0..top, NEW e \in 0..3
      PROVE  Dist(Shifted(enc.m, enc.e), c) <= Dist(Shifted(m, e), c)
  <2>1. o(best) <= o(e) /\ o(e) <= Dist(Shifted(m, e), c)
    BY <1>3, <1>6
  <2>3. Dist(Shifted(m, e), c) \in Int
    <3>1. TimeoutScale[e + 1] \in Units
      BY ScaleIn
    <3>2. Shifted(m, e) \in Int
      BY <3>1 DEF Shifted, Units, Tops
    <3> QED BY <3>2 DEF Dist
  <2> QED BY <1>3, <1>5, <1>7, <2>1, <2>3
<1>10. ASSUME c > 0 PROVE enc.m # 0
  <2>1. Mant(c, top, 0) # 0 /\ 0 \in 0..3 /\ 1 \in 0..top
    BY <1>3, <1>10 DEF Tops
  <2>2. Shifted(0, best) = 0 /\ Dist(0, c) = c
    <3>1. TimeoutScale[best + 1] \in Units
      BY <1>5, ScaleIn
    <3> QED BY <3>1, <1>10 DEF Shifted, Dist, Units
  <2>3. o(0) < c
    <3>1. o(0) <= Dist(Shifted(1, 0), c)
      BY <1>3, <2>1
    <3>2. Shifted(1, 0) = 1 /\ Dist(1, c) = c - 1
      BY <1>10, Scales DEF Shifted, Dist
    <3> QED BY <1>3, <2>1, <3>1, <3>2
  <2>4. o(best) <= o(0)
    BY <1>6, <2>1
  <2> QED BY <1>3, <1>5, <1>7, <2>1, <2>2, <2>3, <2>4
<1> QED BY <1>8, <1>9, <1>10

(* encode_cycles finds the nearest encodable count, and never 0 for a      *)
(* positive one.                                                           *)
Nearest(enc, c, top) ==
  /\ enc.m \in 0..top /\ enc.e \in 0..3
  /\ \A m \in 0..top, e \in 0..3 : Dist(Shifted(enc.m, enc.e), c) <= Dist(Shifted(m, e), c)
  /\ c > 0 => enc.m # 0

LEMMA NearestParts ==
  ASSUME NEW enc, NEW c, NEW top, Nearest(enc, c, top)
  PROVE  enc.m \in 0..top /\ enc.e \in 0..3 /\ (c > 0 => enc.m # 0)
  BY DEF Nearest

LEMMA EncodeNearest ==
  ASSUME NEW c \in Nat
  PROVE  Nearest(EncodeCycles(c, 5), c, 31) /\ Nearest(EncodeCycles(c, 9), c, 511)
<1>1. \A top \in Tops :
        Nearest([m |-> Mant(c, top, Best(c, top)), e |-> Best(c, top)], c, top)
  BY BestNearest DEF Nearest
<1>2. 31 \in Tops /\ 511 \in Tops
  BY DEF Tops
<1>3. (2 ^ 5) - 1 = 31 /\ (2 ^ 9) - 1 = 511
  OBVIOUS
<1>4. EncodeCycles(c, 5) = [m |-> Mant(c, 31, Best(c, 31)), e |-> Best(c, 31)]
  <2>1. EncodeCycles(c, 5) =
          [m |-> Mant(c, (2 ^ 5) - 1, Best(c, (2 ^ 5) - 1)), e |-> Best(c, (2 ^ 5) - 1)]
    BY EncodeIs
  <2> QED BY <1>3, <2>1
<1>5. EncodeCycles(c, 9) = [m |-> Mant(c, 511, Best(c, 511)), e |-> Best(c, 511)]
  <2>1. EncodeCycles(c, 9) =
          [m |-> Mant(c, (2 ^ 9) - 1, Best(c, (2 ^ 9) - 1)), e |-> Best(c, (2 ^ 9) - 1)]
    BY EncodeIs
  <2> QED BY <1>3, <2>1
<1>6. Nearest(EncodeCycles(c, 5), c, 31)
  BY <1>1, <1>2, <1>4
<1>7. Nearest(EncodeCycles(c, 9), c, 511)
  BY <1>1, <1>2, <1>5
<1> QED BY <1>6, <1>7

-----------------------------------------------------------------------------
OpCodes == 0..31
Operands == 0..2047

(* The words, taken apart as the core does.                                *)
LEMMA AsmFields ==
  ASSUME NEW op \in OpCodes, NEW rest \in Operands
  PROVE  /\ AsmWord(op, rest) \in Word /\ Opcode(AsmWord(op, rest)) = op
         /\ WCond(AsmWord(op, rest)) = WCond(rest) /\ WAddr(AsmWord(op, rest)) = WAddr(rest)
         /\ WImm(AsmWord(op, rest)) = WImm(rest)
         /\ WWaitMant(AsmWord(op, rest)) = WWaitMant(rest)
         /\ WExponent(AsmWord(op, rest)) = WExponent(rest)
<1> DEFINE w == AsmWord(op, rest)
<1>0. op \in Int /\ 0 <= op /\ op <= 31 /\ rest \in Int /\ 0 <= rest /\ rest <= 2047
  <2> DEFINE a == 31
             b == 2047
  <2>1. a \in Int /\ b \in Int /\ op \in 0..a /\ rest \in 0..b
    BY DEF OpCodes, Operands
  <2> HIDE DEF a, b
  <2>2. op \in Int /\ 0 <= op /\ op <= a /\ rest \in Int /\ 0 <= rest /\ rest <= b
    BY <2>1
  <2> QED BY <2>2 DEF a, b
<1>1. w = op * 2048 + rest
  <2>1. op % 32 = op /\ rest % 2048 = rest
    BY <1>0
  <2> QED BY <2>1 DEF AsmWord
<1> HIDE DEF w
<1>2. w \in Int /\ 0 <= w /\ w <= 65535
  BY <1>0, <1>1
<1>3. w \in Word
  BY <1>2, WordBounds
<1>4. w \div 2048 = op
  BY <1>0, <1>1
<1>5. w % 4 = rest % 4
  BY <1>0, <1>1
<1>6. w % 32 = rest % 32
  BY <1>0, <1>1
<1>7. w % 512 = rest % 512
  BY <1>0, <1>1
<1>8. (w \div 512) % 4 = (rest \div 512) % 4
  <2>1. w \div 512 = 4 * op + (rest \div 512) /\ rest \div 512 \in 0..3
    BY <1>0, <1>1
  <2> QED BY <1>0, <2>1
<1>9. (w \div 4) % 512 = (rest \div 4) % 512
  <2>1. w \div 4 = 512 * op + (rest \div 4) /\ rest \div 4 \in 0..511
    BY <1>0, <1>1
  <2> QED BY <1>0, <2>1
<1>10. Opcode(w) = op
  BY <1>4 DEF Opcode
<1>11. WCond(w) = WCond(rest) /\ WWaitMant(w) = WWaitMant(rest) /\ WImm(w) = WImm(rest)
  BY <1>5, <1>6, <1>7 DEF WCond, WWaitMant, WImm
<1>12. WExponent(w) = WExponent(rest)
  BY <1>8 DEF WExponent, WRd
<1>13. WAddr(w) = WAddr(rest)
  BY <1>9 DEF WAddr
<1> QED BY <1>3, <1>10, <1>11, <1>12, <1>13 DEF w

LEMMA JmpType ==
  ASSUME NEW t \in Nat
  PROVE  jmp(t) \in Word /\ Opcode(jmp(t)) = OP_BRANCH
<1> DEFINE rest == AddrField(t) + (COND_JMP % 4)
<1>1. rest \in Operands
  <2>1. t % 512 \in 0..511
    OBVIOUS
  <2> QED BY <2>1 DEF Operands, AddrField, COND_JMP
<1>2. OP_BRANCH \in OpCodes
  BY DEF OP_BRANCH, OpCodes
<1>3. jmp(t) = AsmWord(OP_BRANCH, rest)
  BY DEF jmp, branch
<1> HIDE DEF rest
<1> QED BY <1>1, <1>2, <1>3, AsmFields

LEMMA JmpWord ==
  ASSUME NEW t \in 0..511, t < Words
  PROVE  /\ jmp(t) \in Word /\ Opcode(jmp(t)) = OP_BRANCH
         /\ WCond(jmp(t)) = COND_JMP /\ WAddr(jmp(t)) = t
<1> DEFINE rest == AddrField(t) + (COND_JMP % 4)
<1>1. rest = 4 * t
  <2>1. t % 512 = t
    OBVIOUS
  <2> QED BY <2>1 DEF AddrField, COND_JMP
<1>2. jmp(t) = AsmWord(OP_BRANCH, rest)
  BY DEF jmp, branch
<1>3. OP_BRANCH \in OpCodes
  BY DEF OP_BRANCH, OpCodes
<1> HIDE DEF rest
<1>4. rest \in Operands
  BY <1>1 DEF Operands
<1>5. WCond(rest) = COND_JMP
  BY <1>1 DEF WCond, COND_JMP
<1>6. WAddr(rest) = t
  <2>1. (rest \div 4) % 512 = t
    BY <1>1
  <2>2. t % Words = t
    BY WordsAssumption
  <2> QED BY <2>1, <2>2 DEF WAddr
<1> QED BY <1>2, <1>3, <1>4, <1>5, <1>6, AsmFields

LEMMA DelayWord ==
  ASSUME NEW m, NEW e, m \in 0..511, e \in 0..3
  PROVE  /\ delay(m, e) \in Word /\ Opcode(delay(m, e)) = OP_DELAY
         /\ WDelayMant(delay(m, e)) = m /\ WExponent(delay(m, e)) = e
<1> DEFINE rest == RdField(e) + (m % 512)
<1>1. rest = 512 * e + m
  <2>1. e % 4 = e /\ m % 512 = m
    OBVIOUS
  <2> QED BY <2>1 DEF RdField
<1>2. delay(m, e) = AsmWord(OP_DELAY, rest)
  BY DEF delay
<1>3. OP_DELAY \in OpCodes
  BY DEF OP_DELAY, OpCodes
<1> HIDE DEF rest
<1>4. rest \in Operands
  BY <1>1 DEF Operands
<1>5. WImm(rest) = m
  BY <1>1 DEF WImm
<1>6. WExponent(rest) = e
  <2>1. rest \div 512 = e
    BY <1>1
  <2> QED BY <2>1 DEF WExponent, WRd
<1>7. WImm(delay(m, e)) = m
  BY <1>2, <1>3, <1>4, <1>5, AsmFields
<1>8. WDelayMant(delay(m, e)) = m
  BY <1>7 DEF WDelayMant
<1> QED BY <1>2, <1>3, <1>4, <1>6, <1>8, AsmFields

LEMMA WaitWord ==
  ASSUME NEW m, NEW e, m \in 0..31, e \in 0..3
  PROVE  /\ wait(0, 1, m, e) \in Word /\ Opcode(wait(0, 1, m, e)) = OP_WAIT
         /\ WWaitMant(wait(0, 1, m, e)) = m /\ WExponent(wait(0, 1, m, e)) = e
<1> DEFINE rest == RdField(e) + PinField(0) + AuxField(1) + (m % 32)
<1>1. rest = 512 * e + 32 + m
  <2>1. e % 4 = e /\ m % 32 = m
    OBVIOUS
  <2> QED BY <2>1 DEF RdField, PinField, AuxField
<1>2. wait(0, 1, m, e) = AsmWord(OP_WAIT, rest)
  BY DEF wait
<1>3. OP_WAIT \in OpCodes
  BY DEF OP_WAIT, OpCodes
<1> HIDE DEF rest
<1>4. rest \in Operands
  BY <1>1 DEF Operands
<1>5. WWaitMant(rest) = m
  BY <1>1 DEF WWaitMant
<1>6. WExponent(rest) = e
  <2>1. rest \div 512 = e
    BY <1>1
  <2> QED BY <2>1 DEF WExponent, WRd
<1> QED BY <1>2, <1>3, <1>4, <1>5, <1>6, AsmFields

LEMMA OtherWords ==
  ASSUME NEW v \in Int
  PROVE  /\ nop \in Word /\ Opcode(nop) = OP_NOP
         /\ ldi(0, v) \in Word /\ Opcode(ldi(0, v)) = OP_LDI
         /\ load(0, v) \in Word /\ Opcode(load(0, v)) = OP_LOAD
<1>1. 0 \in Operands /\ RdField(0) + (v % 256) \in Operands /\ RdField(0) + (v % 512) \in Operands
  <2>1. v % 256 \in 0..255 /\ v % 512 \in 0..511
    OBVIOUS
  <2> QED BY <2>1 DEF RdField, Operands
<1>2. OP_NOP \in OpCodes /\ OP_LDI \in OpCodes /\ OP_LOAD \in OpCodes
  BY DEF OpCodes, OP_NOP, OP_LDI, OP_LOAD
<1>3. nop \in Word /\ Opcode(nop) = OP_NOP
  BY <1>1, <1>2, AsmFields DEF nop
<1>4. ldi(0, v) \in Word /\ Opcode(ldi(0, v)) = OP_LDI
  BY <1>1, <1>2, AsmFields DEF ldi
<1>5. load(0, v) \in Word /\ Opcode(load(0, v)) = OP_LOAD
  BY <1>1, <1>2, AsmFields DEF load
<1> QED BY <1>3, <1>4, <1>5

-----------------------------------------------------------------------------
(* A step leaves the source and what it means alone.                       *)
LEMMA SameSource ==
  ASSUME source' = source, defines' = defines
  PROVE  /\ Reading' = Reading /\ Given' = Given /\ End' = End /\ OwnNames' = OwnNames
         /\ \A i, j : Depth(i, j)' = Depth(i, j)
         /\ \A i : Opens(i)' = Opens(i) /\ Counts(i)' = Counts(i)
         /\ \A i, j : ElsesBefore(j, i)' = ElsesBefore(j, i)
         /\ \A ops : Places(ops)' = Places(ops)
         /\ \A ops, i : Before(ops, i)' = Before(ops, i)
         /\ \A x, i : Definitions(x, i)' = Definitions(x, i)
         /\ \A x : LabelAt(x)' = LabelAt(x)
<1>1. /\ Reading' = Reading /\ Given' = Given /\ End' = End
      /\ \A ops : Places(ops)' = Places(ops)
  BY SameReading
<1>2. \A i, j : Depth(i, j)' = Depth(i, j)
  BY DEF Depth, Count
<1>3. \A i : Opens(i)' = Opens(i)
  BY DEF Opens, Depth, Count
<1>4. \A i, j : ElsesBefore(j, i)' = ElsesBefore(j, i)
  BY DEF ElsesBefore, Depth, Count
<1>5. \A i : Counts(i)' = Counts(i)
  BY <1>1 DEF Counts
<1>6. \A ops, i : Before(ops, i)' = Before(ops, i)
  BY <1>1 DEF Before
<1>7. \A x, i : Definitions(x, i)' = Definitions(x, i)
  BY <1>1 DEF Definitions, DefinitionsBy
<1>8. \A x : LabelAt(x)' = LabelAt(x)
  BY <1>1 DEF LabelAt
<1>9. OwnNames' = OwnNames
  BY <1>1 DEF OwnNames
<1> QED BY <1>1, <1>2, <1>3, <1>4, <1>5, <1>6, <1>7, <1>8, <1>9

LEMMA SameMeaning ==
  ASSUME source' = source, defines' = defines
  PROVE  /\ \A val, i : KnownAt(val, i)' = KnownAt(val, i)
         /\ \A val, i : ValueAt(val, i)' = ValueAt(val, i)
         /\ \A x : Target(x)' = Target(x)
         /\ \A val : Operand(val)' = Operand(val)
         /\ \A i, S : OperandIn(i, S)' = OperandIn(i, S)
<1>1. \A val, i : KnownAt(val, i)' = KnownAt(val, i)
  BY SameSource DEF KnownAt
<1>2. \A val, i : ValueAt(val, i)' = ValueAt(val, i)
  BY SameSource DEF ValueAt, ValueBy, DefinitionsBy
<1>3. \A x : Target(x)' = Target(x)
  BY SameSource DEF Target
<1>4. \A val : Operand(val)' = Operand(val)
  BY <1>2, <1>3, SameSource DEF Operand
<1>5. \A i, S : OperandIn(i, S)' = OperandIn(i, S)
  BY <1>1, <1>4, SameSource DEF OperandIn
<1> QED BY <1>1, <1>2, <1>3, <1>4, <1>5

LEMMA SameWellFormed ==
  ASSUME source' = source, defines' = defines
  PROVE  /\ WellFormed' = WellFormed
         /\ \A w, s, x : Encoded(w, s, x)' = Encoded(w, s, x)
         /\ \A i : Fitting(i)' = Fitting(i)
<1>1. Balanced' = Balanced /\ NamesOnce' = NamesOnce /\ Fits' = Fits
  BY SameSource DEF Balanced, NamesOnce, Fits
<1>5. DataLast' = DataLast
  BY SameSource DEF DataLast
<1>2. UsesKnown' = UsesKnown /\ InRange' = InRange
  BY SameSource, SameMeaning DEF UsesKnown, InRange
<1>3. \A w, s, x : Encoded(w, s, x)' = Encoded(w, s, x)
  BY SameSource, SameMeaning DEF Encoded
<1>4. \A i : Fitting(i)' = Fitting(i)
  BY SameMeaning DEF Fitting
<1> QED BY <1>1, <1>2, <1>3, <1>4, <1>5 DEF WellFormed

(* The invariant after a step is what holds of the new values, of the same *)
(* source.                                                                 *)
LEMMA AfterScan ==
  ASSUME source' = source, defines' = defines,
         StackOf(at', cond'), BlocksOf(at', cond'), NamesOf(at', consts', labels'),
         KeptOf(at', lines', data_lines', in_data'), SoundTo(at')
  PROVE  ScanInv'
<1>1. StackOf(at, cond)'
  BY SameSource DEF StackOf, FrameOf, Frame, Holds
<1>2. BlocksOf(at, cond)'
  BY SameSource DEF BlocksOf
<1>3. NamesOf(at, consts, labels)'
  BY SameSource DEF NamesOf, NameIn
<1>4. KeptOf(at, lines, data_lines, in_data)'
  BY SameSource DEF KeptOf
<1>5. SoundTo(at)'
  <2>1. /\ \A ops, i : Before(ops, i)' = Before(ops, i)
        /\ OwnNames' = OwnNames
        /\ \A val, i : KnownAt(val, i)' = KnownAt(val, i)
    BY SameSource, SameMeaning, Zenon
  <2> QED BY <2>1 DEF SoundTo
<1> QED BY <1>1, <1>2, <1>3, <1>4, <1>5 DEF ScanInv

-----------------------------------------------------------------------------
(* What a step of the first pass, and a failure, must show.                *)
LEMMA ScannedKeeps ==
  ASSUME AssemblyInv, stage = "scan", at <= Len(source), Scanned,
         StackOf(at + 1, cond'), BlocksOf(at + 1, cond'), NamesOf(at + 1, consts', labels'),
         KeptOf(at + 1, lines', data_lines', in_data'), SoundTo(at + 1)
  PROVE  AssemblyInv'
<1>1. /\ source' = source /\ defines' = defines /\ at' = at + 1 /\ stage' = "scan"
      /\ words' = <<>> /\ data' = <<>> /\ warned' = {}
  BY DEF Scanned, AssemblyInv, WordsOK
<1>2. ScanInv'
  BY <1>1, AfterScan
<1>3. Len(lines') \in Nat /\ Len(data_lines') \in Nat
  BY DEF KeptOf, Listed
<1>4. WordsOK'
  BY <1>1, <1>3 DEF WordsOK
<1>5. DataOK'
  BY <1>1, <1>3 DEF DataOK
<1>6. at' \in 1..End'
  BY <1>1, SourceType, SameSource DEF AssemblyInv, End
<1>7. source' \in Sources /\ defines' \in Defines /\ ~Passed1'
  BY <1>1 DEF AssemblyInv, Passed1
<1> QED BY <1>1, <1>2, <1>4, <1>5, <1>6, <1>7 DEF AssemblyInv

LEMMA FailKeeps ==
  ASSUME AssemblyInv, Fail, ~WellFormed
  PROVE  AssemblyInv'
<1>1. /\ source' = source /\ defines' = defines /\ at' = at /\ stage' = "error"
      /\ consts' = consts /\ labels' = labels /\ cond' = cond /\ in_data' = in_data
      /\ lines' = lines /\ data_lines' = data_lines /\ words' = words /\ data' = data
      /\ warned' = warned
  BY DEF Fail, names
<1>2. ScanInv'
  BY <1>1, AfterScan DEF AssemblyInv, ScanInv
<1>3. WordsOK'
  BY <1>1, SameWellFormed DEF AssemblyInv, WordsOK
<1>4. DataOK'
  BY <1>1, SameWellFormed DEF AssemblyInv, DataOK
<1>5. at' \in 1..End' /\ ~WellFormed'
  BY <1>1, SameSource, SameWellFormed DEF AssemblyInv
<1>6. source' \in Sources /\ defines' \in Defines /\ ~Passed1'
  BY <1>1 DEF AssemblyInv, Passed1
<1>7. words' # <<>> => at' = End'
  BY <1>1, SameSource DEF AssemblyInv
<1> QED BY <1>1, <1>2, <1>3, <1>4, <1>5, <1>6, <1>7 DEF AssemblyInv

LEMMA KeptStep ==
  ASSUME source \in Sources, defines \in Defines, NEW i \in DOMAIN source,
         NEW ln, NEW dl, NEW ind, KeptOf(i, ln, dl, ind)
  PROVE  KeptOf(i + 1,
                IF source[i].op \in Mnemonics /\ Counts(i) THEN Append(ln, i) ELSE ln,
                IF source[i].op = "byte" /\ Counts(i) THEN Append(dl, i) ELSE dl,
                ind \/ (source[i].op = "data" /\ Counts(i)))
<1>1. i \in 1..End
  BY SourceType DEF End
<1>2. Listed(IF source[i].op \in Mnemonics /\ Counts(i) THEN Append(ln, i) ELSE ln,
             Before(Mnemonics, i + 1))
  <2>1. Listed(ln, Before(Mnemonics, i))
    BY DEF KeptOf
  <2>2. CASE source[i].op \in Mnemonics /\ Counts(i)
    BY <2>1, <2>2, KeepLine
  <2>3. CASE ~(source[i].op \in Mnemonics /\ Counts(i))
    BY <2>1, <2>3, SkipLine
  <2> QED BY <2>2, <2>3
<1>3. Listed(IF source[i].op = "byte" /\ Counts(i) THEN Append(dl, i) ELSE dl,
             Before({"byte"}, i + 1))
  <2>1. Listed(dl, Before({"byte"}, i))
    BY DEF KeptOf
  <2>2. CASE source[i].op = "byte" /\ Counts(i)
    BY <2>1, <2>2, KeepLine
  <2>3. CASE ~(source[i].op = "byte" /\ Counts(i))
    BY <2>1, <2>3, SkipLine
  <2> QED BY <2>2, <2>3
<1>4. ind \/ (source[i].op = "data" /\ Counts(i)) <=> Before({"data"}, i + 1) # {}
  <2>1. Before({"data"}, i + 1) = Before({"data"}, i) \cup
          (IF source[i].op \in {"data"} /\ Counts(i) THEN {i} ELSE {})
    BY <1>1, BeforeStep
  <2> QED BY <2>1 DEF KeptOf
<1> QED BY <1>2, <1>3, <1>4 DEF KeptOf

(* A name that is taken, when a line would define it.                      *)
LEMMA NameTaken ==
  ASSUME source \in Sources, defines \in Defines, NEW i \in DOMAIN source, NEW cs, NEW ls,
         NamesOf(i, cs, ls), i \in OwnNames, source[i].name \in DOMAIN cs \cup DOMAIN ls
  PROVE  ~NamesOnce
<1>1. source[i].name \in DOMAIN Given \/ source[i].name \in NameIn({"equ"}, i)
        \/ source[i].name \in NameIn({"label"}, i)
  BY DEF NamesOf
<1>2. DOMAIN defines \subseteq DOMAIN Given
  BY DEF Given, Over
<1>3. CASE source[i].name \in DOMAIN Given
  BY <1>3 DEF NamesOnce
<1>4. CASE source[i].name \notin DOMAIN Given /\ source[i].name \in NameIn({"equ"}, i)
  <2>1. PICK n \in Before({"equ"}, i) : source[n].name = source[i].name
    BY <1>4 DEF NameIn
  <2>2. n \in OwnNames /\ n # i
    BY <1>2, <1>4, <2>1, SourceType DEF OwnNames, Before, Places
  <2> QED BY <2>1, <2>2 DEF NamesOnce
<1>5. CASE source[i].name \in NameIn({"label"}, i)
  <2>1. PICK n \in Before({"label"}, i) : source[n].name = source[i].name
    BY <1>5 DEF NameIn
  <2>2. n \in OwnNames /\ n # i
    BY <2>1, SourceType DEF OwnNames, Before, Places
  <2> QED BY <2>1, <2>2 DEF NamesOnce
<1> QED BY <1>1, <1>3, <1>4, <1>5

-----------------------------------------------------------------------------
(* What is known of the line scanned.                                      *)
LEMMA AtLine ==
  ASSUME AssemblyInv, stage = "scan", at <= Len(source)
  PROVE  /\ source \in Sources /\ defines \in Defines
         /\ at \in DOMAIN source /\ at \in 1..End /\ at \in Nat \ {0} /\ Len(source) \in Nat
         /\ StackOf(at, cond) /\ BlocksOf(at, cond) /\ NamesOf(at, consts, labels)
         /\ KeptOf(at, lines, data_lines, in_data) /\ in_data \in BOOLEAN /\ SoundTo(at)
         /\ (Active <=> Counts(at))
         /\ cond \in Seq(Frames)
<1>1. /\ source \in Sources /\ defines \in Defines /\ at \in 1..End
      /\ StackOf(at, cond) /\ BlocksOf(at, cond) /\ NamesOf(at, consts, labels)
      /\ KeptOf(at, lines, data_lines, in_data) /\ SoundTo(at)
  BY DEF AssemblyInv, ScanInv
<1>2. /\ at \in DOMAIN source /\ Len(source) \in Nat /\ at \in Nat \ {0}
  BY <1>1, SourceType DEF End
<1>3. Active <=> Counts(at)
  BY <1>1, <1>2, ActiveCounts DEF Active
<1>4. in_data \in BOOLEAN /\ cond \in Seq(Frames)
  BY <1>1 DEF KeptOf, StackOf
<1> QED BY <1>1, <1>2, <1>3, <1>4

(* The lines kept when this one is not.                                    *)
LEMMA NotKept ==
  ASSUME AssemblyInv, stage = "scan", at <= Len(source),
         ~Counts(at) \/ line.op \notin Mnemonics \cup {"byte", "data"}
  PROVE  KeptOf(at + 1, lines, data_lines, in_data)
<1>1. KeptOf(at + 1,
             IF source[at].op \in Mnemonics /\ Counts(at) THEN Append(lines, at) ELSE lines,
             IF source[at].op = "byte" /\ Counts(at) THEN Append(data_lines, at) ELSE data_lines,
             in_data \/ (source[at].op = "data" /\ Counts(at)))
  BY AtLine, KeptStep
<1>2. /\ ~(source[at].op \in Mnemonics /\ Counts(at)) /\ ~(source[at].op = "byte" /\ Counts(at))
      /\ ~(source[at].op = "data" /\ Counts(at))
  BY DEF line
<1> QED BY <1>1, <1>2, AtLine

LEMMA IfStep ==
  ASSUME AssemblyInv, If
  PROVE  AssemblyInv'
<1>1. stage = "scan" /\ at <= Len(source) /\ source[at].op = "if"
  BY DEF If, Scan, line
<1>2. CASE Active /\ ~Known(line.val, consts)
  <2>1. Counts(at) /\ ~KnownAt(source[at].val, at)
    BY <1>1, <1>2, AtLine, KnownValue DEF line
  <2>2. at \in Places({"if"})
    BY <1>1, <2>1, AtLine DEF Places
  <2>3. ~WellFormed
    BY <2>1, <2>2 DEF WellFormed, UsesKnown
  <2> QED BY <1>2, <2>3, FailKeeps DEF If
<1>3. CASE ~(Active /\ ~Known(line.val, consts))
  <2> DEFINE v == Active /\ Eval(line.val, consts) # 0
  <2>1. /\ Scanned /\ cond' = Append(cond, [active |-> v, taken |-> v])
        /\ consts' = consts /\ labels' = labels
        /\ in_data' = in_data /\ lines' = lines /\ data_lines' = data_lines
    BY <1>3 DEF If, names
  <2>2. v <=> Holds(at)
    <3>1. Active => Eval(line.val, consts) = ValueAt(source[at].val, at)
      BY <1>1, <1>3, AtLine, KnownValue DEF line
    <3>2. Reading[at].value = ValueAt(source[at].val, at)
      BY <1>1, AtLine, ValueRead
    <3> QED BY <1>1, <3>1, <3>2, AtLine DEF Holds
  <2>3. v \in BOOLEAN
    OBVIOUS
  <2> HIDE DEF v
  <2>4. StackOf(at + 1, cond')
    BY <1>1, <2>1, <2>2, <2>3, AtLine, StackPush
  <2>5. BlocksOf(at + 1, cond')
    <3>1. Len(cond') = Len(cond) + 1 /\ Len(cond) \in Nat
      BY <1>1, <2>1, AtLine
    <3> QED BY <1>1, <3>1, AtLine, BlocksStep
  <2>6. NamesOf(at + 1, consts, labels)
    BY <1>1, AtLine, NamesKeep
  <2>7. KeptOf(at + 1, lines, data_lines, in_data)
    BY <1>1, NotKept DEF line, Mnemonics
  <2>8. SoundTo(at + 1)
    <3>1. Counts(at) => KnownAt(source[at].val, at)
      BY <1>1, <1>3, AtLine, KnownValue DEF line
    <3> QED BY <1>1, <3>1, AtLine, SoundStep DEF Mnemonics
  <2> QED BY <1>1, <2>1, <2>4, <2>5, <2>6, <2>7, <2>8, ScannedKeeps
<1> QED BY <1>2, <1>3

LEMMA ElseStep ==
  ASSUME AssemblyInv, Else
  PROVE  AssemblyInv'
<1>1. stage = "scan" /\ at <= Len(source) /\ source[at].op = "else"
  BY DEF Else, Scan, line
<1>2. CASE cond = <<>>
  <2>1. Depth(1, at - 1) = 0
    BY <1>1, <1>2, AtLine DEF BlocksOf
  <2>2. Depth(1, at) = 0
    <3>1. 1 \in 1..at /\ (at + 1) - 1 = at
      BY <1>1, AtLine
    <3>2. Depth(1, (at + 1) - 1) = Depth(1, at - 1) +
            (IF source[at].op = "if" THEN 1 ELSE IF source[at].op = "endif" THEN -1 ELSE 0)
      BY <1>1, <3>1, AtLine, DepthNow
    <3> QED BY <1>1, <2>1, <3>1, <3>2
  <2>3. ~WellFormed
    BY <1>1, <2>2, AtLine DEF WellFormed, Balanced
  <2> QED BY <1>2, <2>3, FailKeeps DEF Else
<1>3. CASE cond # <<>>
  <2>1. /\ Scanned
        /\ cond' = Append(Front(cond), [active |-> ~Last(cond).taken, taken |-> TRUE])
        /\ consts' = consts /\ labels' = labels
        /\ in_data' = in_data /\ lines' = lines /\ data_lines' = data_lines
    BY <1>3 DEF Else, names
  <2>2. StackOf(at + 1, cond')
    BY <1>1, <1>3, <2>1, AtLine, StackFlip
  <2>3. BlocksOf(at + 1, cond')
    <3>1. /\ Len(cond) \in Nat \ {0} /\ Len(Front(cond)) = Len(cond) - 1
          /\ Front(cond) \in Seq(Frames)
      BY <1>1, <1>3, AtLine, FrontLast
    <3>2. Len(cond') = Len(cond)
      BY <2>1, <3>1
    <3> QED BY <1>1, <3>1, <3>2, AtLine, BlocksStep
  <2>4. NamesOf(at + 1, consts, labels)
    BY <1>1, AtLine, NamesKeep
  <2>5. KeptOf(at + 1, lines, data_lines, in_data)
    BY <1>1, NotKept DEF line, Mnemonics
  <2>6. SoundTo(at + 1)
    BY <1>1, AtLine, SoundStep DEF Mnemonics
  <2> QED BY <1>1, <2>1, <2>2, <2>3, <2>4, <2>5, <2>6, ScannedKeeps
<1> QED BY <1>2, <1>3

LEMMA EndifStep ==
  ASSUME AssemblyInv, Endif
  PROVE  AssemblyInv'
<1>1. stage = "scan" /\ at <= Len(source) /\ source[at].op = "endif"
  BY DEF Endif, Scan, line
<1>2. CASE cond = <<>>
  <2>1. Depth(1, at - 1) = 0
    BY <1>1, <1>2, AtLine DEF BlocksOf
  <2>2. Depth(1, at) = -1
    <3>1. 1 \in 1..at /\ (at + 1) - 1 = at
      BY <1>1, AtLine
    <3>2. Depth(1, (at + 1) - 1) = Depth(1, at - 1) +
            (IF source[at].op = "if" THEN 1 ELSE IF source[at].op = "endif" THEN -1 ELSE 0)
      BY <1>1, <3>1, AtLine, DepthNow
    <3> QED BY <1>1, <2>1, <3>1, <3>2
  <2>3. ~WellFormed
    BY <1>1, <2>2, AtLine DEF WellFormed, Balanced
  <2> QED BY <1>2, <2>3, FailKeeps DEF Endif
<1>3. CASE cond # <<>>
  <2>1. /\ Scanned /\ cond' = Front(cond)
        /\ consts' = consts /\ labels' = labels
        /\ in_data' = in_data /\ lines' = lines /\ data_lines' = data_lines
    BY <1>3 DEF Endif, names
  <2>2. StackOf(at + 1, cond') /\ Len(cond') = Len(cond) - 1
    BY <1>1, <1>3, <2>1, AtLine, StackPop
  <2>3. BlocksOf(at + 1, cond')
    <3>1. Len(cond) \in Nat \ {0}
      BY <1>1, <1>3, AtLine, FrontLast
    <3>2. Len(cond') = Len(cond) + -1 /\ Len(cond') \in Nat
      BY <2>2, <3>1
    <3> QED BY <1>1, <3>2, AtLine, BlocksStep
  <2>4. NamesOf(at + 1, consts, labels)
    BY <1>1, AtLine, NamesKeep
  <2>5. KeptOf(at + 1, lines, data_lines, in_data)
    BY <1>1, NotKept DEF line, Mnemonics
  <2>6. SoundTo(at + 1)
    BY <1>1, AtLine, SoundStep DEF Mnemonics
  <2> QED BY <1>1, <2>1, <2>2, <2>3, <2>4, <2>5, <2>6, ScannedKeeps
<1> QED BY <1>2, <1>3

-----------------------------------------------------------------------------
(* The lines that are not about conditions.                                *)
LEMMA PlainBlocks ==
  ASSUME AssemblyInv, stage = "scan", at <= Len(source), line.op \notin Directives
  PROVE  StackOf(at + 1, cond) /\ BlocksOf(at + 1, cond)
<1>1. source[at].op \notin Directives
  BY DEF line
<1>2. StackOf(at + 1, cond)
  BY <1>1, AtLine, StackKeep
<1>3. Len(cond) = Len(cond) + 0 /\ Len(cond) \in Nat
  BY AtLine
<1>4. BlocksOf(at + 1, cond)
  BY <1>1, <1>3, AtLine, BlocksStep DEF Directives
<1> QED BY <1>2, <1>4

LEMMA SkipStep ==
  ASSUME AssemblyInv, Skip
  PROVE  AssemblyInv'
<1>1. /\ stage = "scan" /\ at <= Len(source) /\ line.op \notin Directives /\ ~Active
      /\ Scanned /\ consts' = consts /\ labels' = labels /\ cond' = cond
      /\ in_data' = in_data /\ lines' = lines /\ data_lines' = data_lines
  BY DEF Skip, names
<1>2. ~Counts(at)
  BY <1>1, AtLine
<1>3. StackOf(at + 1, cond) /\ BlocksOf(at + 1, cond)
  BY <1>1, PlainBlocks
<1>4. NamesOf(at + 1, consts, labels)
  BY <1>1, <1>2, AtLine, NamesKeep
<1>5. KeptOf(at + 1, lines, data_lines, in_data)
  BY <1>1, <1>2, NotKept
<1>6. SoundTo(at + 1)
  BY <1>1, <1>2, AtLine, SoundStep
<1> QED BY <1>1, <1>3, <1>4, <1>5, <1>6, ScannedKeeps

(* Where .data has been read, or has not.                                  *)
LEMMA DataBefore ==
  ASSUME AssemblyInv, stage = "scan", at <= Len(source)
  PROVE  /\ in_data => \E d \in Places({"data"}) : d < at
         /\ ~in_data => ~\E d \in Places({"data"}) : d < at
         /\ in_data <=> Before({"data"}, at) # {}
<1>1. in_data \in BOOLEAN /\ (in_data <=> Before({"data"}, at) # {})
  BY AtLine DEF KeptOf
<1> QED BY <1>1 DEF Before

LEMMA LabelStep ==
  ASSUME AssemblyInv, Label
  PROVE  AssemblyInv'
<1>1. /\ stage = "scan" /\ at <= Len(source) /\ source[at].op = "label" /\ Active
      /\ line.op \notin Directives
  BY DEF Label, Scan, line, Directives
<1>2. Counts(at) /\ at \in Places({"label"}) /\ at \in OwnNames
  BY <1>1, AtLine DEF Places, OwnNames
<1>3. CASE source[at].name \in DOMAIN labels \cup DOMAIN consts \/ in_data
  <2>1. Fail
    BY <1>3 DEF Label, line
  <2>2. CASE source[at].name \in DOMAIN labels \cup DOMAIN consts
    <3>1. ~NamesOnce
      BY <1>1, <1>2, <2>2, AtLine, NameTaken
    <3> QED BY <2>1, <3>1, FailKeeps DEF WellFormed
  <2>3. CASE in_data
    <3>1. ~DataLast
      BY <1>1, <1>2, <2>3, DataBefore DEF DataLast, Places
    <3> QED BY <2>1, <3>1, FailKeeps DEF WellFormed
  <2> QED BY <1>3, <2>2, <2>3
<1>4. CASE ~(source[at].name \in DOMAIN labels \cup DOMAIN consts \/ in_data)
  <2>1. /\ Scanned /\ labels' = With(labels, source[at].name, Len(lines))
        /\ consts' = consts /\ cond' = cond
        /\ in_data' = in_data /\ lines' = lines /\ data_lines' = data_lines
    BY <1>4 DEF Label, line
  <2>2. Len(lines) = Cardinality(Before(Mnemonics, at))
    BY <1>1, AtLine DEF KeptOf, Listed
  <2>3. StackOf(at + 1, cond) /\ BlocksOf(at + 1, cond)
    BY <1>1, PlainBlocks
  <2>4. NamesOf(at + 1, consts, labels')
    BY <1>1, <1>2, <1>4, <2>1, <2>2, AtLine, NamesLabel
  <2>5. KeptOf(at + 1, lines, data_lines, in_data)
    BY <1>1, NotKept DEF line, Mnemonics
  <2>6. SoundTo(at + 1)
    <3>1. Before({"data"}, at) = {}
      BY <1>1, <1>4, DataBefore
    <3> QED BY <1>1, <3>1, AtLine, SoundStep
  <2> QED BY <1>1, <2>1, <2>3, <2>4, <2>5, <2>6, ScannedKeeps
<1> QED BY <1>3, <1>4

LEMMA EquStep ==
  ASSUME AssemblyInv, Equ
  PROVE  AssemblyInv'
<1>1. /\ stage = "scan" /\ at <= Len(source) /\ source[at].op = "equ" /\ Active
      /\ line.op \notin Directives
  BY DEF Equ, Scan, line, Directives
<1>2. Counts(at) /\ at \in Places({"equ"})
  BY <1>1, AtLine DEF Places
<1>3. cond' = cond /\ in_data' = in_data /\ lines' = lines /\ data_lines' = data_lines
  BY DEF Equ
<1>4. StackOf(at + 1, cond) /\ BlocksOf(at + 1, cond)
  BY <1>1, PlainBlocks
<1>5. KeptOf(at + 1, lines, data_lines, in_data)
  BY <1>1, NotKept DEF line, Mnemonics
<1>6. CASE source[at].name \in DOMAIN defines
  <2>1. Scanned /\ consts' = consts /\ labels' = labels
    BY <1>6 DEF Equ, line, names
  <2>2. NamesOf(at + 1, consts, labels)
    BY <1>1, <1>6, AtLine, NamesKeep
  <2>3. SoundTo(at + 1)
    BY <1>1, <1>6, AtLine, SoundStep DEF Mnemonics
  <2> QED BY <1>1, <1>3, <1>4, <1>5, <2>1, <2>2, <2>3, ScannedKeeps
<1>7. CASE source[at].name \notin DOMAIN defines
  <2>1. at \in OwnNames
    BY <1>1, <1>2, <1>7 DEF OwnNames, Places
  <2>2. CASE source[at].name \in DOMAIN consts \cup DOMAIN labels
    <3>1. Fail
      BY <1>7, <2>2 DEF Equ, line
    <3>2. source[at].name \in DOMAIN labels \cup DOMAIN consts
      BY <2>2
    <3>3. ~NamesOnce
      BY <1>1, <2>1, <3>2, AtLine, NameTaken
    <3> QED BY <3>1, <3>3, FailKeeps DEF WellFormed
  <2>3. CASE ~Known(line.val, consts)
    <3>1. Fail
      BY <1>7, <2>3 DEF Equ, line
    <3>2. ~KnownAt(source[at].val, at)
      BY <1>1, <2>3, AtLine, KnownValue DEF line
    <3>3. ~UsesKnown
      BY <1>1, <2>1, <3>2 DEF UsesKnown
    <3> QED BY <3>1, <3>3, FailKeeps DEF WellFormed
  <2>4. CASE source[at].name \notin DOMAIN consts \cup DOMAIN labels /\ Known(line.val, consts)
    <3>1. /\ Scanned /\ labels' = labels
          /\ consts' = With(consts, source[at].name, Eval(source[at].val, consts))
      BY <1>7, <2>4 DEF Equ, line
    <3>2. Eval(source[at].val, consts) = ValueAt(source[at].val, at) /\ KnownAt(source[at].val, at)
      BY <1>1, <2>4, AtLine, KnownValue DEF line
    <3>3. NamesOf(at + 1, consts', labels)
      BY <1>1, <1>2, <1>7, <2>4, <3>1, <3>2, AtLine, NamesEqu
    <3>4. SoundTo(at + 1)
      BY <1>1, <3>2, AtLine, SoundStep DEF Mnemonics
    <3> QED BY <1>1, <1>3, <1>4, <1>5, <3>1, <3>3, <3>4, ScannedKeeps
  <2> QED BY <2>2, <2>3, <2>4
<1> QED BY <1>6, <1>7

LEMMA DataStep ==
  ASSUME AssemblyInv, Data
  PROVE  AssemblyInv'
<1>1. /\ stage = "scan" /\ at <= Len(source) /\ source[at].op = "data" /\ Active
      /\ line.op \notin Directives /\ Scanned /\ in_data' = TRUE
      /\ consts' = consts /\ labels' = labels /\ cond' = cond
      /\ lines' = lines /\ data_lines' = data_lines
  BY DEF Data, Scan, line, Directives, names
<1>2. Counts(at)
  BY <1>1, AtLine
<1>3. StackOf(at + 1, cond) /\ BlocksOf(at + 1, cond)
  BY <1>1, PlainBlocks
<1>4. NamesOf(at + 1, consts, labels)
  BY <1>1, AtLine, NamesKeep
<1>5. KeptOf(at + 1, lines, data_lines, TRUE)
  <2>1. KeptOf(at + 1,
               IF source[at].op \in Mnemonics /\ Counts(at) THEN Append(lines, at) ELSE lines,
               IF source[at].op = "byte" /\ Counts(at) THEN Append(data_lines, at) ELSE data_lines,
               in_data \/ (source[at].op = "data" /\ Counts(at)))
    BY <1>1, AtLine, KeptStep
  <2>2. /\ ~(source[at].op \in Mnemonics /\ Counts(at)) /\ ~(source[at].op = "byte" /\ Counts(at))
        /\ (in_data \/ (source[at].op = "data" /\ Counts(at))) = TRUE
    BY <1>1, <1>2, AtLine DEF Mnemonics
  <2> QED BY <2>1, <2>2
<1>6. SoundTo(at + 1)
  BY <1>1, AtLine, SoundStep DEF Mnemonics
<1> QED BY <1>1, <1>3, <1>4, <1>5, <1>6, ScannedKeeps

LEMMA ByteLineStep ==
  ASSUME AssemblyInv, ByteLine
  PROVE  AssemblyInv'
<1>1. /\ stage = "scan" /\ at <= Len(source) /\ source[at].op = "byte" /\ Active
      /\ line.op \notin Directives
  BY DEF ByteLine, Scan, line, Directives
<1>2. Counts(at) /\ at \in Places({"byte"})
  BY <1>1, AtLine DEF Places
<1>3. CASE ~in_data
  <2>1. ~DataLast
    BY <1>1, <1>2, <1>3, DataBefore DEF DataLast
  <2> QED BY <1>3, <2>1, FailKeeps DEF ByteLine, WellFormed
<1>4. CASE in_data
  <2>1. /\ Scanned /\ data_lines' = Append(data_lines, at)
        /\ consts' = consts /\ labels' = labels /\ cond' = cond
        /\ in_data' = in_data /\ lines' = lines
    BY <1>4 DEF ByteLine, names
  <2>2. StackOf(at + 1, cond) /\ BlocksOf(at + 1, cond)
    BY <1>1, PlainBlocks
  <2>3. NamesOf(at + 1, consts, labels)
    BY <1>1, AtLine, NamesKeep
  <2>4. KeptOf(at + 1, lines, Append(data_lines, at), in_data)
    <3>1. KeptOf(at + 1,
                 IF source[at].op \in Mnemonics /\ Counts(at) THEN Append(lines, at) ELSE lines,
                 IF source[at].op = "byte" /\ Counts(at) THEN Append(data_lines, at) ELSE data_lines,
                 in_data \/ (source[at].op = "data" /\ Counts(at)))
      BY <1>1, AtLine, KeptStep
    <3>2. /\ ~(source[at].op \in Mnemonics /\ Counts(at)) /\ (source[at].op = "byte" /\ Counts(at))
          /\ (in_data \/ (source[at].op = "data" /\ Counts(at))) = in_data
      BY <1>1, <1>2, AtLine DEF Mnemonics
    <3> QED BY <3>1, <3>2
  <2>5. SoundTo(at + 1)
    <3>1. Before({"data"}, at) # {}
      BY <1>1, <1>4, DataBefore
    <3> QED BY <1>1, <3>1, AtLine, SoundStep DEF Mnemonics
  <2> QED BY <1>1, <2>1, <2>2, <2>3, <2>4, <2>5, ScannedKeeps
<1> QED BY <1>3, <1>4

LEMMA InstructionStep ==
  ASSUME AssemblyInv, Instruction
  PROVE  AssemblyInv'
<1>1. /\ stage = "scan" /\ at <= Len(source) /\ source[at].op \in Mnemonics /\ Active
      /\ line.op \notin Directives
  BY DEF Instruction, Scan, line, Directives, Mnemonics
<1>2. Counts(at) /\ at \in Places(Mnemonics \cup {"label"})
  BY <1>1, AtLine DEF Places
<1>3. CASE in_data
  <2>1. ~DataLast
    BY <1>1, <1>2, <1>3, DataBefore DEF DataLast
  <2> QED BY <1>3, <2>1, FailKeeps DEF Instruction, WellFormed
<1>4. CASE ~in_data
  <2>1. /\ Scanned /\ lines' = Append(lines, at)
        /\ consts' = consts /\ labels' = labels /\ cond' = cond
        /\ in_data' = in_data /\ data_lines' = data_lines
    BY <1>4 DEF Instruction, names
  <2>2. StackOf(at + 1, cond) /\ BlocksOf(at + 1, cond)
    BY <1>1, PlainBlocks
  <2>3. NamesOf(at + 1, consts, labels)
    BY <1>1, AtLine, NamesKeep DEF Mnemonics
  <2>4. KeptOf(at + 1, Append(lines, at), data_lines, in_data)
    <3>1. KeptOf(at + 1,
                 IF source[at].op \in Mnemonics /\ Counts(at) THEN Append(lines, at) ELSE lines,
                 IF source[at].op = "byte" /\ Counts(at) THEN Append(data_lines, at) ELSE data_lines,
                 in_data \/ (source[at].op = "data" /\ Counts(at)))
      BY <1>1, AtLine, KeptStep
    <3>2. /\ (source[at].op \in Mnemonics /\ Counts(at)) /\ ~(source[at].op = "byte" /\ Counts(at))
          /\ (in_data \/ (source[at].op = "data" /\ Counts(at))) = in_data
      BY <1>1, <1>2, AtLine DEF Mnemonics
    <3> QED BY <3>1, <3>2
  <2>5. SoundTo(at + 1)
    <3>1. Before({"data"}, at) = {}
      BY <1>1, <1>4, DataBefore
    <3> QED BY <1>1, <3>1, AtLine, SoundStep DEF Mnemonics
  <2> QED BY <1>1, <2>1, <2>2, <2>3, <2>4, <2>5, ScannedKeeps
<1> QED BY <1>3, <1>4

LEMMA ScanEndsStep ==
  ASSUME AssemblyInv, ScanEnds
  PROVE  AssemblyInv'
<1>1. /\ stage = "scan" /\ at > Len(source)
      /\ source' = source /\ defines' = defines /\ at' = at
      /\ consts' = consts /\ labels' = labels /\ cond' = cond /\ in_data' = in_data
      /\ lines' = lines /\ data_lines' = data_lines /\ words' = words /\ data' = data
      /\ warned' = warned
  BY DEF ScanEnds, names
<1>2. /\ source \in Sources /\ defines \in Defines /\ at = End /\ Len(source) \in Nat
      /\ (at - 1 = Len(source))
  BY <1>1, SourceType DEF AssemblyInv, End
<1>3. ScanInv /\ StackOf(at, cond) /\ BlocksOf(at, cond) /\ KeptOf(at, lines, data_lines, in_data)
  BY DEF AssemblyInv, ScanInv
<1>4. CASE cond # <<>> \/ Len(lines) > PROGRAM_WORDS
  <2>1. Fail
    BY <1>4 DEF ScanEnds, Fail
  <2>2. CASE cond # <<>>
    <3>1. Len(cond) # 0
      BY <1>3, <2>2, FrontLast DEF StackOf
    <3>2. Depth(1, Len(source)) # 0
      BY <1>2, <1>3, <3>1 DEF BlocksOf
    <3> QED BY <2>1, <3>2, FailKeeps DEF WellFormed, Balanced
  <2>3. CASE Len(lines) > PROGRAM_WORDS
    <3>1. Len(lines) = Cardinality(Places(Mnemonics)) /\ Len(lines) \in Nat
      <4>1. at \in 1..End
        BY DEF AssemblyInv
      <4>2. Before(Mnemonics, End) = Places(Mnemonics)
        BY <1>2, <4>1, BeforeStep
      <4> QED BY <1>2, <1>3, <4>2 DEF KeptOf, Listed
    <3>2. PROGRAM_WORDS \in Int
      BY WordsAssumption DEF PROGRAM_WORDS
    <3>3. ~Fits
      BY <2>3, <3>1, <3>2 DEF Fits
    <3> QED BY <2>1, <3>3, FailKeeps DEF WellFormed
  <2> QED BY <1>4, <2>2, <2>3
<1>5. CASE ~(cond # <<>> \/ Len(lines) > PROGRAM_WORDS)
  <2>1. stage' = "encode" /\ cond = <<>>
    BY <1>5 DEF ScanEnds
  <2>2. Len(lines) <= PROGRAM_WORDS
    <3>1. PROGRAM_WORDS \in Int
      BY WordsAssumption DEF PROGRAM_WORDS
    <3>2. Len(lines) \in Nat
      BY <1>3 DEF KeptOf, Listed
    <3> QED BY <1>5, <3>1, <3>2
  <2>3. ScanInv'
    BY <1>1, AfterScan DEF AssemblyInv, ScanInv
  <2>4. WordsOK' /\ DataOK'
    BY <1>1, SameWellFormed DEF AssemblyInv, WordsOK, DataOK
  <2>5. at' \in 1..End' /\ at' = End'
    BY <1>1, <1>2, SameSource DEF AssemblyInv
  <2>6. words = <<>> /\ data = <<>>
    BY <1>1 DEF AssemblyInv
  <2> QED BY <1>1, <1>2, <2>1, <2>2, <2>3, <2>4, <2>5, <2>6 DEF AssemblyInv
<1> QED BY <1>4, <1>5

-----------------------------------------------------------------------------
(* The values of operands.                                                 *)
LEMMA GivenInt ==
  ASSUME source \in Sources, defines \in Defines, NEW x \in DOMAIN Given
  PROVE  Given[x] \in Int
<1>1. CASE x \in DOMAIN defines
  BY <1>1, SourceType DEF Given, Over
<1>2. CASE x \notin DOMAIN defines
  <2>1. x \in DOMAIN PREDEFINED /\ Given[x] = PREDEFINED[x]
    BY <1>2 DEF Given, Over
  <2>2. PREDEFINED[x] \in {4, 5, 6}
    BY <2>1 DEF PREDEFINED
  <2> QED BY <2>1, <2>2
<1> QED BY <1>1, <1>2

LEMMA ReadingInt ==
  ASSUME source \in Sources, defines \in Defines
  PROVE  \A i \in DOMAIN source : Reading[i].value \in Int
<1> DEFINE T == {i \in DOMAIN source : Reading[i].value \notin Int}
<1>1. Len(source) \in Nat /\ DOMAIN source = 1..Len(source)
  BY SourceType
<1>2. SUFFICES ASSUME T # {} PROVE FALSE
  OBVIOUS
<1>3. T \in SUBSET Nat
  BY <1>1
<1> HIDE DEF T
<1>4. PICK n \in T : \A m \in T : n <= m
  BY <1>2, <1>3, LeastNat
<1>5. n \in DOMAIN source /\ n \in Nat /\ Reading[n].value \notin Int
  BY <1>1 DEF T
<1>6. \A m \in DOMAIN source : m < n => Reading[m].value \in Int
  <2> TAKE m \in DOMAIN source
  <2>1. m \in T => n <= m
    BY <1>4
  <2> QED BY <1>1, <1>5, <2>1 DEF T
<1>7. Reading[n].value = IF source[n].op \in {"if", "equ"}
                           THEN ValueBy(Reading, source[n].val, n) ELSE 0
  <2>1. Reading[n] = Meaning(Reading, n)
    BY <1>5, Means
  <2> QED BY <2>1 DEF Meaning
<1> DEFINE val == source[n].val
           D == DefinitionsBy(Reading, val.id, n)
<1>8. source[n].op \in {"if", "equ"} => val \in [lit : Int] \/ DOMAIN val = {"id"}
  BY <1>5, SourceType DEF WithOperand
<1>9. D # {} => Min(D) \in DOMAIN source /\ Min(D) < n
  <2>1. D \in SUBSET Nat /\ \A d \in D : d \in DOMAIN source /\ d < n
    BY <1>1, <1>5 DEF DefinitionsBy
  <2> HIDE DEF D
  <2> QED BY <2>1, MinIn
<1>10. source[n].op \in {"if", "equ"} => ValueBy(Reading, val, n) \in Int
  <2> SUFFICES ASSUME source[n].op \in {"if", "equ"} PROVE ValueBy(Reading, val, n) \in Int
    OBVIOUS
  <2>1. CASE "lit" \in DOMAIN val
    <3>1. val \in [lit : Int]
      BY <1>8, <2>1
    <3> QED BY <2>1, <3>1 DEF ValueBy
  <2>2. CASE "lit" \notin DOMAIN val /\ val.id \in DOMAIN Given
    BY <2>2, GivenInt DEF ValueBy
  <2>3. CASE "lit" \notin DOMAIN val /\ val.id \notin DOMAIN Given
    BY <1>6, <1>9, <2>3 DEF ValueBy
  <2> QED BY <2>1, <2>2, <2>3
<1> QED BY <1>5, <1>7, <1>10

LEMMA ValueInt ==
  ASSUME source \in Sources, defines \in Defines, NEW i \in 1..End, NEW val,
         val \in [lit : Int] \/ DOMAIN val = {"id"}
  PROVE  ValueAt(val, i) \in Int
<1>1. CASE "lit" \in DOMAIN val
  <2>1. val \in [lit : Int]
    BY <1>1
  <2> QED BY <1>1, <2>1 DEF ValueAt, ValueBy
<1>2. CASE "lit" \notin DOMAIN val /\ val.id \in DOMAIN Given
  BY <1>2, GivenInt DEF ValueAt, ValueBy
<1>3. CASE "lit" \notin DOMAIN val /\ val.id \notin DOMAIN Given
  <2> DEFINE D == Definitions(val.id, i)
  <2>1. D \subseteq DOMAIN source /\ D \in SUBSET Nat
    BY DefinitionsAre
  <2>2. ValueAt(val, i) = IF D = {} THEN 0 ELSE Reading[Min(D)].value
    BY <1>3 DEF ValueAt, ValueBy, Definitions
  <2> HIDE DEF D
  <2>3. D # {} => Min(D) \in DOMAIN source
    BY <2>1, MinIn
  <2> QED BY <2>2, <2>3, ReadingInt
<1> QED BY <1>1, <1>2, <1>3

LEMMA TargetNat ==
  ASSUME source \in Sources, defines \in Defines, NEW x
  PROVE  /\ Target(x) \in Nat /\ Target(x) <= Cardinality(Places(Mnemonics))
         /\ Cardinality(Places(Mnemonics)) \in Nat
<1> DEFINE S == {i \in Places(Mnemonics) : \A l \in LabelAt(x) : i < l}
<1>1. End \in 1..End
  BY SourceType DEF End
<1>2. IsFiniteSet(Places(Mnemonics)) /\ Cardinality(Places(Mnemonics)) \in Nat
  BY <1>1, BeforeStep
<1>3. S \subseteq Places(Mnemonics)
  OBVIOUS
<1> HIDE DEF S
<1>4. IsFiniteSet(S) /\ Cardinality(S) <= Cardinality(Places(Mnemonics))
  BY <1>2, <1>3, FS_Subset
<1>5. Cardinality(S) \in Nat
  BY <1>4, FS_CardinalityType
<1> QED BY <1>2, <1>4, <1>5 DEF Target, S

LEMMA OperandInt ==
  ASSUME source \in Sources, defines \in Defines, NEW val,
         val \in [lit : Int] \/ DOMAIN val = {"id"}
  PROVE  Operand(val) \in Int
<1>1. End \in 1..End
  BY SourceType DEF End
<1>2. ValueAt(val, End) \in Int
  BY <1>1, ValueInt
<1>3. Target(val.id) \in Int
  BY TargetNat
<1> QED BY <1>2, <1>3 DEF Operand

(* What the two passes make of a name.                                     *)
LEMMA LabelFound ==
  ASSUME source \in Sources, defines \in Defines, NEW cs, NEW ls, NamesOf(End, cs, ls), NEW x
  PROVE  /\ x \in DOMAIN ls <=> LabelAt(x) # {}
         /\ x \in DOMAIN ls => ls[x] = Target(x)
<1>1. End \in 1..End /\ DOMAIN source = 1..Len(source) /\ Len(source) \in Nat
      /\ End = Len(source) + 1
  BY SourceType DEF End
<1>2. Before({"label"}, End) = Places({"label"})
  BY <1>1, BeforeStep
<1>3. x \in DOMAIN ls <=> LabelAt(x) # {}
  BY <1>2 DEF NamesOf, NameIn, LabelAt
<1>4. ASSUME x \in DOMAIN ls PROVE ls[x] = Target(x)
  <2>1. PICK l \in LabelAt(x) : TRUE
    BY <1>3, <1>4
  <2>2. l \in Places({"label"}) /\ source[l].name = x
    BY DEF LabelAt
  <2>3. ls[x] = Cardinality(Before(Mnemonics, l))
    BY <1>2, <2>2 DEF NamesOf
  <2>4. \A k \in LabelAt(x) : k \in OwnNames /\ k < End /\ source[k].name = x
    BY <1>1 DEF LabelAt, OwnNames, Places
  <2>5. \A k \in LabelAt(x) : k = l
    BY <2>1, <2>4 DEF NamesOf
  <2>6. {i \in Places(Mnemonics) : \A k \in LabelAt(x) : i < k} = Before(Mnemonics, l)
    BY <2>1, <2>5 DEF Before
  <2> QED BY <2>3, <2>6 DEF Target
<1> QED BY <1>3, <1>4

LEMMA OperandRead ==
  ASSUME source \in Sources, defines \in Defines, NamesOf(End, consts, labels), NEW val,
         val \in [lit : Int] \/ DOMAIN val = {"id"}
  PROVE  /\ Known(val, AllNames) <=>
              \/ "id" \in DOMAIN val /\ LabelAt(val.id) # {}
              \/ KnownAt(val, End)
         /\ Known(val, AllNames) => Eval(val, AllNames) = Operand(val)
<1>1. End \in 1..End
  BY SourceType DEF End
<1>2. /\ Known(val, consts) <=> KnownAt(val, End)
      /\ Known(val, consts) => Eval(val, consts) = ValueAt(val, End)
  BY <1>1, KnownValue
<1>3. /\ DOMAIN AllNames = DOMAIN labels \cup DOMAIN consts
      /\ \A x \in DOMAIN labels : AllNames[x] = labels[x]
      /\ \A x \in DOMAIN consts : x \notin DOMAIN labels => AllNames[x] = consts[x]
  BY DEF AllNames, Over
<1>4. CASE "lit" \in DOMAIN val
  <2>1. "id" \notin DOMAIN val
    BY <1>4
  <2> QED BY <1>2, <1>4, <2>1 DEF Known, Eval, Operand, KnownAt
<1>5. CASE "lit" \notin DOMAIN val
  <2>1. "id" \in DOMAIN val
    BY <1>5
  <2>2. Known(val, AllNames) <=> val.id \in DOMAIN labels \/ Known(val, consts)
    BY <1>3, <1>5 DEF Known
  <2>3. /\ val.id \in DOMAIN labels <=> LabelAt(val.id) # {}
        /\ val.id \in DOMAIN labels => labels[val.id] = Target(val.id)
    BY LabelFound
  <2>4. CASE val.id \in DOMAIN labels
    BY <1>3, <1>5, <2>1, <2>2, <2>3, <2>4 DEF Eval, Operand
  <2>5. CASE val.id \notin DOMAIN labels
    <3>1. Known(val, consts) => val.id \in DOMAIN consts /\ Eval(val, AllNames) = Eval(val, consts)
      BY <1>3, <1>5, <2>5 DEF Known, Eval
    <3>2. Operand(val) = ValueAt(val, End)
      BY <2>3, <2>5 DEF Operand
    <3> QED BY <1>2, <2>2, <2>3, <2>5, <3>1, <3>2
  <2> QED BY <2>4, <2>5
<1> QED BY <1>4, <1>5

-----------------------------------------------------------------------------
(* What is known once the source has been read.                            *)
LEMMA AtEnd ==
  ASSUME AssemblyInv, at = End
  PROVE  /\ source \in Sources /\ defines \in Defines /\ End \in 1..End /\ End \in Nat
         /\ NamesOf(End, consts, labels) /\ SoundTo(End)
         /\ lines \in Seq(Nat) /\ Range(lines) = Places(Mnemonics)
         /\ Len(lines) = Cardinality(Places(Mnemonics))
         /\ data_lines \in Seq(Nat) /\ Range(data_lines) = Places({"byte"})
         /\ Len(data_lines) = Cardinality(Places({"byte"}))
         /\ \A a, b \in DOMAIN lines : a < b => lines[a] < lines[b]
<1>1. source \in Sources /\ defines \in Defines /\ End \in 1..End /\ End \in Nat
  BY SourceType DEF AssemblyInv, End
<1>2. /\ NamesOf(End, consts, labels) /\ KeptOf(End, lines, data_lines, in_data)
      /\ SoundTo(End)
  BY DEF AssemblyInv, ScanInv
<1>3. \A ops : Before(ops, End) = Places(ops)
  BY <1>1, BeforeStep
<1> QED BY <1>1, <1>2, <1>3 DEF KeptOf, Listed

LEMMA LineKept ==
  ASSUME AssemblyInv, at = End, NEW k \in DOMAIN lines
  PROVE  /\ lines[k] \in DOMAIN source /\ lines[k] \in Places({source[lines[k]].op})
         /\ source[lines[k]].op \in Mnemonics
<1>1. lines[k] \in Range(lines)
  BY DEF Range
<1>2. lines[k] \in Places(Mnemonics)
  BY <1>1, AtEnd
<1> QED BY <1>2 DEF Places

LEMMA ByteKept ==
  ASSUME AssemblyInv, at = End, NEW k \in DOMAIN data_lines
  PROVE  /\ data_lines[k] \in DOMAIN source /\ data_lines[k] \in Places({"byte"})
         /\ source[data_lines[k]].op = "byte"
<1>1. data_lines[k] \in Range(data_lines)
  BY DEF Range
<1>2. data_lines[k] \in Places({"byte"})
  BY <1>1, AtEnd
<1> QED BY <1>2 DEF Places

(* An operand is what the source means by it, or is refused.               *)
LEMMA OperandChecked ==
  ASSUME AssemblyInv, at = End, NEW i \in DOMAIN source, source[i].op \in WithOperand
  PROVE  /\ Operand(source[i].val) \in Int
         /\ Known(source[i].val, AllNames) =>
              Eval(source[i].val, AllNames) = Operand(source[i].val)
         /\ \A S : OperandIn(i, S) <=>
              /\ Known(source[i].val, AllNames)
              /\ Eval(source[i].val, AllNames) \in S
<1> DEFINE val == source[i].val
<1>1. source \in Sources /\ defines \in Defines /\ NamesOf(End, consts, labels)
  BY AtEnd
<1>2. val \in [lit : Int] \/ DOMAIN val = {"id"}
  BY <1>1, SourceType
<1> HIDE DEF val
<1>3. Operand(val) \in Int
  BY <1>1, <1>2, OperandInt
<1>4. /\ Known(val, AllNames) <=>
           \/ "id" \in DOMAIN val /\ LabelAt(val.id) # {}
           \/ KnownAt(val, End)
      /\ Known(val, AllNames) => Eval(val, AllNames) = Operand(val)
  BY <1>1, <1>2, OperandRead
<1>5. \A S : OperandIn(i, S) <=>
        (\/ "id" \in DOMAIN val /\ LabelAt(val.id) # {}
         \/ KnownAt(val, End)) /\ Operand(val) \in S
  BY DEF OperandIn, val
<1>6. \A S : OperandIn(i, S) <=> Known(val, AllNames) /\ Eval(val, AllNames) \in S
  BY <1>4, <1>5
<1> QED BY <1>3, <1>4, <1>6 DEF val

-----------------------------------------------------------------------------
(* The word of the next instruction.                                       *)
LEMMA AtWord ==
  ASSUME AssemblyInv, stage = "encode", Len(words) < Len(lines), NEW k, k = Len(words) + 1
  PROVE  /\ at = End /\ k \in DOMAIN lines /\ k \in Nat \ {0} /\ k \notin DOMAIN words
         /\ lines[k] \in DOMAIN source /\ ins = source[lines[k]]
         /\ lines[k] \in Places({ins.op}) /\ ins.op \in Mnemonics
         /\ words \in Seq(Word) /\ Len(words) \in Nat /\ Len(lines) \in Nat
<1>1. at = End
  BY DEF AssemblyInv, Passed1
<1>2. words \in Seq(Word) /\ Len(words) \in Nat /\ DOMAIN words = 1..Len(words)
  BY DEF AssemblyInv, WordsOK
<1>3. lines \in Seq(Nat) /\ Len(lines) \in Nat /\ DOMAIN lines = 1..Len(lines)
  BY <1>1, AtEnd
<1>4. k \in DOMAIN lines /\ k \in Nat \ {0} /\ k \notin DOMAIN words
  BY <1>2, <1>3
<1>5. ins = source[lines[k]]
  BY DEF ins
<1> QED BY <1>1, <1>2, <1>3, <1>4, <1>5, LineKept

LEMMA EmitKeeps ==
  ASSUME AssemblyInv, stage = "encode", Len(words) < Len(lines), NEW w \in Word,
         NEW exact \in BOOLEAN, Emit(w, exact), Encoded(w, ins, ~exact),
         Fitting(lines[Len(words) + 1])
  PROVE  AssemblyInv'
<1> DEFINE k == Len(words) + 1
<1>1. /\ source' = source /\ defines' = defines /\ at' = at /\ stage' = stage
      /\ consts' = consts /\ labels' = labels /\ cond' = cond /\ in_data' = in_data
      /\ lines' = lines /\ data_lines' = data_lines /\ data' = data
      /\ words' = Append(words, w)
      /\ warned' = IF exact THEN warned ELSE warned \cup {k}
  BY DEF Emit, names
<1>2. /\ at = End /\ k \in DOMAIN lines /\ k \in Nat \ {0} /\ k \notin DOMAIN words
      /\ ins = source[lines[k]] /\ words \in Seq(Word) /\ Len(words) \in Nat
      /\ Len(lines) \in Nat
  BY AtWord
<1>3. /\ words' \in Seq(Word) /\ Len(words') = k /\ DOMAIN words' = DOMAIN words \cup {k}
      /\ words'[k] = w /\ \A a \in DOMAIN words : words'[a] = words[a]
  <2>1. DOMAIN words = 1..Len(words) /\ 1..k = (1..Len(words)) \cup {k}
    BY <1>2
  <2> QED BY <1>1, <1>2, <2>1
<1>4. warned \subseteq DOMAIN words
  BY DEF AssemblyInv, WordsOK
<1>5. k \in warned' <=> ~exact
  BY <1>1, <1>2, <1>4
<1>6. warned' \subseteq DOMAIN words' /\ \A a \in DOMAIN words : a \in warned' <=> a \in warned
  BY <1>1, <1>2, <1>3, <1>4
<1> HIDE DEF k
<1>7. \A a \in DOMAIN words : Encoded(words[a], source[lines[a]], a \in warned) /\ Fitting(lines[a])
  BY DEF AssemblyInv, WordsOK
<1>8. Encoded(w, source[lines[k]], k \in warned') /\ Fitting(lines[k])
  BY <1>2, <1>5 DEF Encoded, k
<1>9. \A a \in DOMAIN words : Encoded(words[a], source[lines[a]], a \in warned')
  BY <1>6, <1>7 DEF Encoded
<1>10. \A a \in DOMAIN words' :
         Encoded(words'[a], source[lines[a]], a \in warned') /\ Fitting(lines[a])
  BY <1>3, <1>7, <1>8, <1>9
<1>11. WordsOK'
  <2>1. Len(words') <= Len(lines)
    BY <1>2, <1>3 DEF k
  <2> QED BY <1>1, <1>3, <1>6, <1>10, <2>1, SameWellFormed DEF WordsOK
<1>12. ScanInv'
  BY <1>1, AfterScan DEF AssemblyInv, ScanInv
<1>13. DataOK'
  BY <1>1, SameWellFormed DEF AssemblyInv, DataOK
<1>14. at' \in 1..End' /\ at' = End'
  BY <1>1, <1>2, SameSource DEF AssemblyInv
<1> QED BY <1>1, <1>11, <1>12, <1>13, <1>14 DEF AssemblyInv, Passed1

(* An operand out of range makes the program malformed.                    *)
LEMMA MalformedOperand ==
  ASSUME NEW i \in DOMAIN source, i \in Places({source[i].op}), ~Fitting(i),
         source[i].op \in {"ldi", "byte", "load", "delay", "wait"}
  PROVE  ~WellFormed
<1>1. \A op : source[i].op = op => i \in Places({op})
  OBVIOUS
<1>2. source[i].op \in {"ldi", "byte"} => i \in Places({"ldi", "byte"})
  BY DEF Places
<1> QED BY <1>1, <1>2 DEF WellFormed, InRange, Fitting

LEMMA EncodeNopStep ==
  ASSUME AssemblyInv, EncodeNop
  PROVE  AssemblyInv'
<1>1. stage = "encode" /\ Len(words) < Len(lines) /\ ins.op = "nop" /\ Emit(nop, TRUE)
  BY DEF EncodeNop, Encode
<1>2. nop \in Word
  BY OtherWords
<1>3. Encoded(nop, ins, ~TRUE)
  BY <1>1 DEF Encoded
<1>4. Fitting(lines[Len(words) + 1])
  BY <1>1, AtWord DEF Fitting
<1> QED BY <1>1, <1>2, <1>3, <1>4, EmitKeeps

LEMMA EncodeJmpStep ==
  ASSUME AssemblyInv, EncodeJmp
  PROVE  AssemblyInv'
<1> DEFINE i == lines[Len(words) + 1]
<1>1. stage = "encode" /\ Len(words) < Len(lines) /\ ins.op = "jmp"
  BY DEF EncodeJmp, Encode
<1>2. /\ at = End /\ i \in DOMAIN source /\ ins = source[i] /\ i \in Places({"jmp"})
      /\ source \in Sources /\ defines \in Defines /\ NamesOf(End, consts, labels)
  BY <1>1, AtWord, AtEnd
<1>3. ins.val \in [lit : Int] \/ DOMAIN ins.val = {"id"}
  BY <1>1, <1>2, SourceType DEF WithOperand
<1>4. /\ ins.val.id \in DOMAIN labels <=> LabelAt(ins.val.id) # {}
      /\ ins.val.id \in DOMAIN labels => labels[ins.val.id] = Target(ins.val.id)
  BY <1>2, LabelFound
<1>5. Known(ins.val, labels) /\ "id" \in DOMAIN ins.val <=>
        "id" \in DOMAIN ins.val /\ LabelAt(ins.val.id) # {}
  BY <1>3, <1>4 DEF Known
<1> HIDE DEF i
<1>6. CASE "id" \in DOMAIN ins.val /\ LabelAt(ins.val.id) # {}
  <2>1. Emit(jmp(Target(ins.val.id)), TRUE)
    BY <1>4, <1>5, <1>6 DEF EncodeJmp
  <2>2. jmp(Target(ins.val.id)) \in Word
    <3>1. Target(ins.val.id) \in Nat
      BY <1>2, TargetNat
    <3> QED BY <3>1, JmpType
  <2>3. Encoded(jmp(Target(ins.val.id)), ins, ~TRUE)
    BY <1>1, <1>6 DEF Encoded
  <2>4. Fitting(lines[Len(words) + 1])
    BY <1>1, <1>2 DEF Fitting, i
  <2> QED BY <1>1, <2>1, <2>2, <2>3, <2>4, EmitKeeps
<1>7. CASE ~("id" \in DOMAIN ins.val /\ LabelAt(ins.val.id) # {})
  <2>1. Fail
    BY <1>5, <1>7 DEF EncodeJmp
  <2>2. ~WellFormed
    BY <1>2, <1>7 DEF WellFormed, UsesKnown
  <2> QED BY <2>1, <2>2, FailKeeps
<1> QED BY <1>6, <1>7

-----------------------------------------------------------------------------
(* The instructions with a value.                                          *)
LEMMA EncodeLdiStep ==
  ASSUME AssemblyInv, EncodeLdi
  PROVE  AssemblyInv'
<1> DEFINE i == lines[Len(words) + 1]
           v == Operand(ins.val)
<1>1. stage = "encode" /\ Len(words) < Len(lines) /\ ins.op = "ldi"
  BY DEF EncodeLdi, Encode
<1>2. at = End /\ i \in DOMAIN source /\ ins = source[i] /\ i \in Places({source[i].op})
  BY <1>1, AtWord
<1>3. /\ v \in Int /\ (Known(ins.val, AllNames) => Eval(ins.val, AllNames) = v)
      /\ OperandIn(i, Byte) <=> Known(ins.val, AllNames) /\ Eval(ins.val, AllNames) \in Byte
  BY <1>1, <1>2, OperandChecked DEF WithOperand
<1>4. Fitting(i) <=> OperandIn(i, Byte)
  BY <1>1, <1>2 DEF Fitting
<1> HIDE DEF i, v
<1>5. CASE Known(ins.val, AllNames) /\ Eval(ins.val, AllNames) \in Byte
  <2>1. Emit(ldi(0, v), TRUE)
    BY <1>3, <1>5 DEF EncodeLdi
  <2>2. ldi(0, v) \in Word
    BY <1>3, OtherWords
  <2>3. Encoded(ldi(0, v), ins, ~TRUE)
    BY <1>1 DEF Encoded, v
  <2> QED BY <1>1, <1>3, <1>4, <1>5, <2>1, <2>2, <2>3, EmitKeeps DEF i
<1>6. CASE ~(Known(ins.val, AllNames) /\ Eval(ins.val, AllNames) \in Byte)
  <2>1. Fail
    BY <1>6 DEF EncodeLdi
  <2>2. ~WellFormed
    BY <1>1, <1>2, <1>3, <1>4, <1>6, MalformedOperand
  <2> QED BY <2>1, <2>2, FailKeeps
<1> QED BY <1>5, <1>6

LEMMA EncodeLoadStep ==
  ASSUME AssemblyInv, EncodeLoad
  PROVE  AssemblyInv'
<1> DEFINE i == lines[Len(words) + 1]
           v == Operand(ins.val)
           S == 0..(DATA_BYTES - 1)
<1>1. stage = "encode" /\ Len(words) < Len(lines) /\ ins.op = "load"
  BY DEF EncodeLoad, Encode
<1>2. at = End /\ i \in DOMAIN source /\ ins = source[i] /\ i \in Places({source[i].op})
  BY <1>1, AtWord
<1> HIDE DEF S
<1>3. /\ v \in Int /\ (Known(ins.val, AllNames) => Eval(ins.val, AllNames) = v)
      /\ OperandIn(i, S) <=> Known(ins.val, AllNames) /\ Eval(ins.val, AllNames) \in S
  BY <1>1, <1>2, OperandChecked DEF WithOperand
<1>4. Fitting(i) <=> OperandIn(i, S)
  BY <1>1, <1>2 DEF Fitting, S
<1> HIDE DEF i, v
<1>5. CASE Known(ins.val, AllNames) /\ Eval(ins.val, AllNames) \in S
  <2>1. Emit(load(0, v), TRUE)
    BY <1>3, <1>5 DEF EncodeLoad, S
  <2>2. load(0, v) \in Word
    BY <1>3, OtherWords
  <2>3. Encoded(load(0, v), ins, ~TRUE)
    BY <1>1 DEF Encoded, v
  <2> QED BY <1>1, <1>3, <1>4, <1>5, <2>1, <2>2, <2>3, EmitKeeps DEF i
<1>6. CASE ~(Known(ins.val, AllNames) /\ Eval(ins.val, AllNames) \in S)
  <2>1. Fail
    BY <1>6 DEF EncodeLoad, S
  <2>2. ~WellFormed
    BY <1>1, <1>2, <1>3, <1>4, <1>6, MalformedOperand
  <2> QED BY <2>1, <2>2, FailKeeps
<1> QED BY <1>5, <1>6

LEMMA EncodeDelayStep ==
  ASSUME AssemblyInv, EncodeDelay
  PROVE  AssemblyInv'
<1> DEFINE i == lines[Len(words) + 1]
           v == Operand(ins.val)
           enc == EncodeCycles(v, 9)
<1>1. stage = "encode" /\ Len(words) < Len(lines) /\ ins.op = "delay"
  BY DEF EncodeDelay, Encode
<1>2. at = End /\ i \in DOMAIN source /\ ins = source[i] /\ i \in Places({source[i].op})
  BY <1>1, AtWord
<1>3. /\ v \in Int /\ (Known(ins.val, AllNames) => Eval(ins.val, AllNames) = v)
      /\ OperandIn(i, Nat) <=> Known(ins.val, AllNames) /\ Eval(ins.val, AllNames) \in Nat
  BY <1>1, <1>2, OperandChecked DEF WithOperand
<1>4. Fitting(i) <=> OperandIn(i, Nat)
  BY <1>1, <1>2 DEF Fitting
<1> HIDE DEF i, v
<1>5. CASE Known(ins.val, AllNames) /\ Eval(ins.val, AllNames) >= 0
  <2>1. Emit(delay(enc.m, enc.e), Shifted(enc.m, enc.e) = v)
    BY <1>3, <1>5 DEF EncodeDelay
  <2>2. delay(enc.m, enc.e) \in Word
    <3>1. v \in Nat
      BY <1>3, <1>5
    <3>2. Nearest(enc, v, 511)
      BY <3>1, EncodeNearest
    <3> HIDE DEF enc
    <3>3. enc.m \in 0..511 /\ enc.e \in 0..3
      BY <3>2, NearestParts
    <3> DEFINE m == enc.m
               e == enc.e
    <3>4. m \in 0..511 /\ e \in 0..3
      BY <3>3
    <3> HIDE DEF m, e
    <3>5. delay(m, e) \in Word
      BY <3>4, DelayWord
    <3> QED BY <3>5 DEF m, e
  <2>3. Encoded(delay(enc.m, enc.e), ins, ~(Shifted(enc.m, enc.e) = v))
    BY <1>1 DEF Encoded, v
  <2>4. Fitting(lines[Len(words) + 1])
    BY <1>3, <1>4, <1>5 DEF i
  <2>5. (Shifted(enc.m, enc.e) = v) \in BOOLEAN
    OBVIOUS
  <2> HIDE DEF enc
  <2> QED BY <1>1, <2>1, <2>2, <2>3, <2>4, <2>5, EmitKeeps
<1>6. CASE ~(Known(ins.val, AllNames) /\ Eval(ins.val, AllNames) >= 0)
  <2>1. Fail
    BY <1>6 DEF EncodeDelay
  <2>2. ~WellFormed
    BY <1>1, <1>2, <1>3, <1>4, <1>6, MalformedOperand
  <2> QED BY <2>1, <2>2, FailKeeps
<1> QED BY <1>5, <1>6

(* A timeout is never refused for being too short.                         *)
LEMMA EncodeWaitStep ==
  ASSUME AssemblyInv, EncodeWait
  PROVE  AssemblyInv'
<1> DEFINE i == lines[Len(words) + 1]
           v == Operand(ins.val)
           enc == EncodeCycles(v, 5)
<1>1. stage = "encode" /\ Len(words) < Len(lines) /\ ins.op = "wait"
  BY DEF EncodeWait, Encode
<1>2. at = End /\ i \in DOMAIN source /\ ins = source[i] /\ i \in Places({source[i].op})
  BY <1>1, AtWord
<1>3. /\ v \in Int /\ (Known(ins.val, AllNames) => Eval(ins.val, AllNames) = v)
      /\ OperandIn(i, Nat \ {0}) <=>
           Known(ins.val, AllNames) /\ Eval(ins.val, AllNames) \in Nat \ {0}
  BY <1>1, <1>2, OperandChecked DEF WithOperand
<1>4. Fitting(i) <=> OperandIn(i, Nat \ {0})
  BY <1>1, <1>2 DEF Fitting
<1> HIDE DEF i, v
<1>5. CASE Known(ins.val, AllNames) /\ Eval(ins.val, AllNames) > 0
  <2>1. enc.m \in 0..31 /\ enc.e \in 0..3 /\ enc.m # 0
    <3>1. v \in Nat /\ v > 0
      BY <1>3, <1>5
    <3>2. Nearest(enc, v, 31)
      BY <3>1, EncodeNearest
    <3> HIDE DEF enc
    <3> QED BY <3>1, <3>2 DEF Nearest
  <2>2. Emit(wait(0, 1, enc.m, enc.e), Shifted(enc.m, enc.e) = v)
    BY <1>3, <1>5, <2>1 DEF EncodeWait
  <2>3. Encoded(wait(0, 1, enc.m, enc.e), ins, ~(Shifted(enc.m, enc.e) = v))
    BY <1>1 DEF Encoded, v
  <2>4. Fitting(lines[Len(words) + 1])
    BY <1>3, <1>4, <1>5 DEF i
  <2>5. (Shifted(enc.m, enc.e) = v) \in BOOLEAN
    OBVIOUS
  <2> HIDE DEF enc
  <2>6. wait(0, 1, enc.m, enc.e) \in Word
    BY <2>1, WaitWord
  <2> QED BY <1>1, <2>2, <2>3, <2>4, <2>5, <2>6, EmitKeeps
<1>6. CASE ~(Known(ins.val, AllNames) /\ Eval(ins.val, AllNames) > 0)
  <2>1. Fail
    BY <1>6 DEF EncodeWait
  <2>2. ~WellFormed
    BY <1>1, <1>2, <1>3, <1>4, <1>6, MalformedOperand
  <2> QED BY <2>1, <2>2, FailKeeps
<1> QED BY <1>5, <1>6

-----------------------------------------------------------------------------
(* The end of the code, and the data.                                      *)
LEMMA EncodeEndsStep ==
  ASSUME AssemblyInv, EncodeEnds
  PROVE  AssemblyInv'
<1>1. /\ stage = "encode" /\ Len(words) = Len(lines) /\ stage' = "data"
      /\ source' = source /\ defines' = defines /\ at' = at
      /\ consts' = consts /\ labels' = labels /\ cond' = cond /\ in_data' = in_data
      /\ lines' = lines /\ data_lines' = data_lines /\ words' = words /\ data' = data
      /\ warned' = warned
  BY DEF EncodeEnds, names
<1>2. ScanInv'
  BY <1>1, AfterScan DEF AssemblyInv, ScanInv
<1>3. WordsOK' /\ DataOK'
  BY <1>1, SameWellFormed DEF AssemblyInv, WordsOK, DataOK
<1>4. at = End /\ at' \in 1..End' /\ at' = End'
  BY <1>1, SameSource DEF AssemblyInv, Passed1
<1> QED BY <1>1, <1>2, <1>3, <1>4 DEF AssemblyInv, Passed1

LEMMA EncodeByteStep ==
  ASSUME AssemblyInv, EncodeByte
  PROVE  AssemblyInv'
<1> DEFINE k == Len(data) + 1
           i == data_lines[k]
           val == source[i].val
<1>1. stage = "data" /\ Len(data) < Len(data_lines)
  BY DEF EncodeByte
<1>2. at = End /\ data \in Seq(Byte) /\ Len(data) \in Nat /\ DOMAIN data = 1..Len(data)
  BY <1>1 DEF AssemblyInv, Passed1, DataOK
<1>3. k \in DOMAIN data_lines /\ k \in Nat \ {0} /\ Len(data_lines) \in Nat
  <2>1. data_lines \in Seq(Nat)
    BY <1>2, AtEnd
  <2> QED BY <1>1, <1>2, <2>1
<1>4. i \in DOMAIN source /\ source[i].op = "byte" /\ i \in Places({source[i].op})
  BY <1>2, <1>3, ByteKept
<1>5. OperandIn(i, Byte) <=> Known(val, AllNames) /\ Eval(val, AllNames) \in Byte
  BY <1>2, <1>4, OperandChecked DEF WithOperand
<1>6. Fitting(i) <=> OperandIn(i, Byte)
  BY <1>4 DEF Fitting
<1>7. CASE Known(val, AllNames) /\ Eval(val, AllNames) \in Byte
  <2> DEFINE b == Eval(val, AllNames)
  <2>1. /\ source' = source /\ defines' = defines /\ at' = at /\ stage' = stage
        /\ consts' = consts /\ labels' = labels /\ cond' = cond /\ in_data' = in_data
        /\ lines' = lines /\ data_lines' = data_lines /\ words' = words
        /\ warned' = warned /\ data' = Append(data, b)
    BY <1>7 DEF EncodeByte, names
  <2> HIDE DEF b
  <2>2. /\ data' \in Seq(Byte) /\ Len(data') = k /\ DOMAIN data' = DOMAIN data \cup {k}
    <3>1. 1..k = (1..Len(data)) \cup {k}
      BY <1>2
    <3>2. b \in Byte
      BY <1>7 DEF b
    <3> QED BY <1>2, <2>1, <3>1, <3>2
  <2>3. \A a \in DOMAIN data' : Fitting(data_lines[a])
    <3>1. \A a \in DOMAIN data : Fitting(data_lines[a])
      BY DEF AssemblyInv, DataOK
    <3> QED BY <1>5, <1>6, <1>7, <2>2, <3>1
  <2>4. Len(data') <= Len(data_lines)
    BY <1>1, <1>2, <1>3, <2>2
  <2>5. DataOK'
    BY <2>1, <2>2, <2>3, <2>4, SameWellFormed DEF DataOK
  <2>6. ScanInv'
    BY <2>1, AfterScan DEF AssemblyInv, ScanInv
  <2>7. WordsOK'
    BY <2>1, SameWellFormed DEF AssemblyInv, WordsOK
  <2>8. at' \in 1..End' /\ at' = End'
    BY <1>2, <2>1, SameSource DEF AssemblyInv
  <2> QED BY <1>1, <2>1, <2>5, <2>6, <2>7, <2>8 DEF AssemblyInv, Passed1
<1>8. CASE ~(Known(val, AllNames) /\ Eval(val, AllNames) \in Byte)
  <2>1. Fail
    BY <1>8 DEF EncodeByte
  <2>2. ~WellFormed
    BY <1>4, <1>5, <1>6, <1>8, MalformedOperand
  <2> QED BY <2>1, <2>2, FailKeeps
<1> QED BY <1>7, <1>8

LEMMA FinishStep ==
  ASSUME AssemblyInv, Finish
  PROVE  AssemblyInv'
<1>1. /\ stage = "data" /\ Len(data) = Len(data_lines)
      /\ source' = source /\ defines' = defines /\ at' = at
      /\ consts' = consts /\ labels' = labels /\ cond' = cond /\ in_data' = in_data
      /\ lines' = lines /\ data_lines' = data_lines /\ words' = words /\ data' = data
      /\ warned' = warned
  BY DEF Finish, names
<1>2. at = End
  BY <1>1 DEF AssemblyInv, Passed1
<1>3. Len(data) = Cardinality(Places({"byte"})) /\ Len(data) \in Nat /\ DATA_BYTES \in Int
  BY <1>1, <1>2, AtEnd, WordsAssumption DEF DATA_BYTES
<1>4. CASE Len(data) > DATA_BYTES
  <2>1. Fail
    BY <1>4 DEF Finish, Fail
  <2>2. ~WellFormed
    BY <1>3, <1>4 DEF WellFormed, Fits
  <2> QED BY <2>1, <2>2, FailKeeps
<1>5. CASE ~(Len(data) > DATA_BYTES)
  <2>1. stage' = "done" /\ Len(data) <= DATA_BYTES
    BY <1>3, <1>5 DEF Finish
  <2>2. ScanInv'
    BY <1>1, AfterScan DEF AssemblyInv, ScanInv
  <2>3. WordsOK' /\ DataOK'
    BY <1>1, SameWellFormed DEF AssemblyInv, WordsOK, DataOK
  <2>4. at' \in 1..End' /\ at' = End'
    BY <1>1, <1>2, SameSource DEF AssemblyInv
  <2> QED BY <1>1, <2>1, <2>2, <2>3, <2>4 DEF AssemblyInv, Passed1
<1> QED BY <1>4, <1>5

-----------------------------------------------------------------------------
(* The invariant.                                                          *)
LEMMA AssemblyStart ==
  ASSUME Init
  PROVE  AssemblyInv
<1>1. source \in Sources /\ defines \in Defines /\ consts = Given
  BY DEF Init, Given
<1>2. at = 1 /\ stage = "scan" /\ labels = <<>> /\ cond = <<>> /\ in_data = FALSE
      /\ lines = <<>> /\ data_lines = <<>> /\ words = <<>> /\ data = <<>> /\ warned = {}
  BY DEF Init
<1>3. Len(source) \in Nat /\ DOMAIN source = 1..Len(source) /\ End = Len(source) + 1 /\ 1 \in 1..End
  BY <1>1, SourceType DEF End
<1>4. \A ops : Before(ops, 1) = {}
  BY <1>3 DEF Before, Places
<1>5. KeptOf(1, <<>>, <<>>, FALSE)
  BY <1>4, ListedStart DEF KeptOf
<1>6. SoundTo(1)
  BY <1>3, <1>4 DEF SoundTo, OwnNames, Places
<1>7. ScanInv
  BY <1>1, <1>2, <1>5, <1>6, StackStart, BlocksStart, NamesStart DEF ScanInv
<1>8. WordsOK /\ DataOK
  BY <1>2 DEF WordsOK, DataOK
<1> QED BY <1>1, <1>2, <1>3, <1>7, <1>8 DEF AssemblyInv, Passed1

LEMMA AssemblyStutter ==
  ASSUME AssemblyInv, UNCHANGED vars
  PROVE  AssemblyInv'
<1>1. /\ source' = source /\ defines' = defines /\ at' = at /\ stage' = stage
      /\ consts' = consts /\ labels' = labels /\ cond' = cond /\ in_data' = in_data
      /\ lines' = lines /\ data_lines' = data_lines /\ words' = words /\ data' = data
      /\ warned' = warned
  BY DEF vars, names
<1>2. ScanInv'
  BY <1>1, AfterScan DEF AssemblyInv, ScanInv
<1>3. WordsOK' /\ DataOK'
  BY <1>1, SameWellFormed DEF AssemblyInv, WordsOK, DataOK
<1>4. End' = End /\ WellFormed' = WellFormed
  BY <1>1, SameSource, SameWellFormed
<1> QED BY <1>1, <1>2, <1>3, <1>4 DEF AssemblyInv, Passed1

(* The inductive invariant of both passes: the stack, the names and the    *)
(* lines kept are those the source means, every word and byte so far is    *)
(* the one its line means, and what was refused is malformed.              *)
THEOREM AssemblyInvariant == Spec => []AssemblyInv
<1>1. Init => AssemblyInv
  BY AssemblyStart
<1>2. AssemblyInv /\ [Next]_vars => AssemblyInv'
  <2> SUFFICES ASSUME AssemblyInv, [Next]_vars PROVE AssemblyInv'
    OBVIOUS
  <2>1. CASE If \/ Else \/ Endif \/ Skip
    BY <2>1, IfStep, ElseStep, EndifStep, SkipStep
  <2>2. CASE Label \/ Equ \/ Data \/ ByteLine \/ Instruction \/ ScanEnds
    BY <2>2, LabelStep, EquStep, DataStep, ByteLineStep, InstructionStep, ScanEndsStep
  <2>3. CASE EncodeNop \/ EncodeJmp \/ EncodeLdi \/ EncodeLoad \/ EncodeDelay \/ EncodeWait
    BY <2>3, EncodeNopStep, EncodeJmpStep, EncodeLdiStep, EncodeLoadStep, EncodeDelayStep,
       EncodeWaitStep
  <2>4. CASE EncodeEnds \/ EncodeByte \/ Finish
    BY <2>4, EncodeEndsStep, EncodeByteStep, FinishStep
  <2>5. CASE UNCHANGED vars
    BY <2>5, AssemblyStutter
  <2> QED BY <2>1, <2>2, <2>3, <2>4, <2>5 DEF Next
<1> QED BY <1>1, <1>2, PTL DEF Spec

-----------------------------------------------------------------------------
(* The instructions kept are those the conditions select, for every        *)
(* nesting of .if, .else and .endif (asm.py:169-185).                      *)
THEOREM ConditionsSelect == Spec => []ConditionsNest
<1>1. ASSUME AssemblyInv PROVE ConditionsNest
  <2> SUFFICES ASSUME Passed1
               PROVE  /\ Range(lines) = Places(Mnemonics)
                      /\ \A a, b \in DOMAIN lines : a < b => lines[a] < lines[b]
    BY DEF ConditionsNest
  <2>1. at = End
    BY <1>1 DEF AssemblyInv
  <2> QED BY <1>1, <2>1, AtEnd
<1> QED BY <1>1, AssemblyInvariant, PTL

(* What is known of a word that has been written.                          *)
LEMMA WordWritten ==
  ASSUME AssemblyInv, NEW k \in DOMAIN words
  PROVE  /\ at = End /\ Len(lines) <= PROGRAM_WORDS /\ k \in DOMAIN lines
         /\ words[k] \in Word
         /\ Encoded(words[k], source[lines[k]], k \in warned) /\ Fitting(lines[k])
         /\ source[lines[k]].op \in Mnemonics /\ lines[k] \in DOMAIN source
<1>1. words \in Seq(Word) /\ Len(words) \in Nat /\ DOMAIN words = 1..Len(words)
  BY DEF AssemblyInv, WordsOK
<1>2. words # <<>>
  BY <1>1
<1>3. at = End /\ Len(lines) <= PROGRAM_WORDS
  BY <1>2 DEF AssemblyInv
<1>4. k \in DOMAIN lines
  <2>1. lines \in Seq(Nat)
    BY <1>3, AtEnd
  <2>2. Len(words) <= Len(lines)
    BY DEF AssemblyInv, WordsOK
  <2> QED BY <1>1, <2>1, <2>2
<1>5. Encoded(words[k], source[lines[k]], k \in warned) /\ Fitting(lines[k])
  BY DEF AssemblyInv, WordsOK
<1>6. words[k] \in Word
  BY <1>1
<1>7. source[lines[k]].op \in Mnemonics /\ lines[k] \in DOMAIN source
  BY <1>3, <1>4, LineKept
<1> QED BY <1>3, <1>4, <1>5, <1>6, <1>7

(* Every branch goes to the instruction after its label, as the core       *)
(* decodes it (asm.py:186-196, 238-242).                                   *)
THEOREM BranchesResolve == Spec => []TargetsResolve
<1>1. ASSUME AssemblyInv PROVE TargetsResolve
  <2> SUFFICES ASSUME NEW k \in DOMAIN words, source[lines[k]].op = "jmp"
               PROVE  /\ Opcode(words[k]) = OP_BRANCH /\ WCond(words[k]) = COND_JMP
                      /\ LabelAt(source[lines[k]].val.id) # {}
                      /\ WAddr(words[k]) = Target(source[lines[k]].val.id)
    BY DEF TargetsResolve
  <2> DEFINE t == Target(source[lines[k]].val.id)
  <2>1. LabelAt(source[lines[k]].val.id) # {} /\ words[k] = jmp(t)
    BY <1>1, WordWritten DEF Encoded
  <2>2. /\ at = End /\ Len(lines) <= PROGRAM_WORDS /\ source \in Sources /\ defines \in Defines
        /\ Len(lines) = Cardinality(Places(Mnemonics))
    BY <1>1, WordWritten, AtEnd
  <2>3. t \in Nat /\ t <= Cardinality(Places(Mnemonics)) /\ Cardinality(Places(Mnemonics)) \in Nat
    BY <2>2, TargetNat
  <2> HIDE DEF t
  <2>4. t \in 0..511 /\ t < Words
    <3>1. /\ Words \in Nat \ {0} /\ Words <= 512
          /\ PROGRAM_WORDS \in Nat /\ PROGRAM_WORDS < Words
      BY WordsAssumption, AssemblerAssumption DEF PROGRAM_WORDS
    <3> QED BY <2>2, <2>3, <3>1
  <2>5. Opcode(jmp(t)) = OP_BRANCH /\ WCond(jmp(t)) = COND_JMP /\ WAddr(jmp(t)) = t
    BY <2>4, JmpWord
  <2> QED BY <2>1, <2>5 DEF t
<1> QED BY <1>1, AssemblyInvariant, PTL

(* A DELAY or timeout takes the encodable number of cycles nearest to the  *)
(* one written, with a warning when it is another, and a timeout is never  *)
(* encoded as none (asm.py:122-135, 296-325).                              *)
THEOREM CyclesNearest == Spec => []NearestCycles
<1>1. ASSUME AssemblyInv PROVE NearestCycles
  <2> DEFINE want(k) == Operand(source[lines[k]].val)
             mant(k) == IF Opcode(words[k]) = OP_WAIT THEN WWaitMant(words[k])
                                                      ELSE WDelayMant(words[k])
             taken(k) == Shifted(mant(k), WExponent(words[k]))
             top(k) == IF Opcode(words[k]) = OP_WAIT THEN 31 ELSE 511
  <2> SUFFICES ASSUME NEW k \in DOMAIN words, Opcode(words[k]) \in {OP_DELAY, OP_WAIT}
               PROVE  /\ \A m \in 0..top(k), e \in 0..3 :
                           Dist(taken(k), want(k)) <= Dist(Shifted(m, e), want(k))
                      /\ k \in warned <=> taken(k) # want(k)
                      /\ Opcode(words[k]) = OP_WAIT => mant(k) # 0
    BY DEF NearestCycles
  <2> DEFINE v == Operand(source[lines[k]].val)
             src == source[lines[k]]
  <2>1. /\ Encoded(words[k], src, k \in warned) /\ Fitting(lines[k]) /\ src.op \in Mnemonics
        /\ at = End /\ lines[k] \in DOMAIN source /\ source \in Sources /\ defines \in Defines
    BY <1>1, WordWritten, AtEnd
  <2>2. src.op \in {"delay", "wait"}
    <3>1. CASE src.op = "nop"
      BY <2>1, <3>1, OtherWords DEF Encoded, OP_NOP, OP_DELAY, OP_WAIT
    <3>2. CASE src.op = "jmp"
      <4>1. Opcode(words[k]) = OP_BRANCH
        BY <1>1, <2>1, <3>2, JmpType, TargetNat DEF Encoded
      <4> QED BY <4>1 DEF OP_BRANCH, OP_DELAY, OP_WAIT
    <3>3. CASE src.op = "ldi"
      <4>1. v \in Int
        BY <1>1, <2>1, <3>3, OperandChecked DEF WithOperand
      <4>2. words[k] = ldi(0, v)
        BY <2>1, <3>3 DEF Encoded
      <4> QED BY <4>1, <4>2, OtherWords DEF OP_LDI, OP_DELAY, OP_WAIT
    <3>4. CASE src.op = "load"
      <4>1. v \in Int
        BY <1>1, <2>1, <3>4, OperandChecked DEF WithOperand
      <4>2. words[k] = load(0, v)
        BY <2>1, <3>4 DEF Encoded
      <4> QED BY <4>1, <4>2, OtherWords DEF OP_LOAD, OP_DELAY, OP_WAIT
    <3> QED BY <2>1, <3>1, <3>2, <3>3, <3>4 DEF Mnemonics
  <2>3. CASE src.op = "delay"
    <3> DEFINE enc == EncodeCycles(v, 9)
    <3>1. v \in Nat
      BY <2>1, <2>3 DEF Fitting, OperandIn
    <3>2. Nearest(enc, v, 511)
      BY <3>1, EncodeNearest
    <3>4. words[k] = delay(enc.m, enc.e) /\ (k \in warned <=> Shifted(enc.m, enc.e) # v)
      BY <2>1, <2>3 DEF Encoded
    <3> HIDE DEF enc
    <3>3. enc.m \in 0..511 /\ enc.e \in 0..3
      BY <3>2, NearestParts
    <3>5. /\ Opcode(words[k]) = OP_DELAY /\ WDelayMant(words[k]) = enc.m
          /\ WExponent(words[k]) = enc.e
      BY <3>3, <3>4, DelayWord
    <3>6. Opcode(words[k]) # OP_WAIT
      BY <3>5 DEF OP_DELAY, OP_WAIT
    <3>7. top(k) = 511 /\ mant(k) = enc.m /\ taken(k) = Shifted(enc.m, enc.e) /\ want(k) = v
      <4>1. top(k) = 511 /\ mant(k) = WDelayMant(words[k])
        BY <3>6
      <4> HIDE DEF top, mant
      <4> QED BY <3>5, <4>1
    <3> HIDE DEF top, mant, taken, want, v
    <3>8. Nearest(enc, v, top(k))
      BY <3>2, <3>7
    <3>9. \A m \in 0..top(k), e \in 0..3 : Dist(taken(k), want(k)) <= Dist(Shifted(m, e), want(k))
      <4>1. \A m \in 0..top(k), e \in 0..3 : Dist(Shifted(enc.m, enc.e), v) <= Dist(Shifted(m, e), v)
        BY <3>8 DEF Nearest
      <4>2. taken(k) = Shifted(enc.m, enc.e) /\ want(k) = v
        BY <3>7
      <4> QED BY <4>1, <4>2
    <3>10. k \in warned <=> taken(k) # want(k)
      BY <3>4, <3>7
    <3> QED BY <3>6, <3>9, <3>10
  <2>4. CASE src.op = "wait"
    <3> DEFINE enc == EncodeCycles(v, 5)
    <3>1. v \in Nat /\ v > 0
      BY <2>1, <2>4 DEF Fitting, OperandIn
    <3>2. Nearest(enc, v, 31)
      BY <3>1, EncodeNearest
    <3>4. words[k] = wait(0, 1, enc.m, enc.e) /\ (k \in warned <=> Shifted(enc.m, enc.e) # v)
      BY <2>1, <2>4 DEF Encoded
    <3> HIDE DEF enc
    <3>3. enc.m \in 0..31 /\ enc.e \in 0..3 /\ enc.m # 0
      BY <3>1, <3>2, NearestParts
    <3>5. /\ Opcode(words[k]) = OP_WAIT /\ WWaitMant(words[k]) = enc.m
          /\ WExponent(words[k]) = enc.e
      BY <3>3, <3>4, WaitWord
    <3>6. top(k) = 31 /\ mant(k) = enc.m /\ taken(k) = Shifted(enc.m, enc.e) /\ want(k) = v
      <4>1. top(k) = 31 /\ mant(k) = WWaitMant(words[k])
        BY <3>5
      <4> HIDE DEF top, mant
      <4> QED BY <3>5, <4>1
    <3> HIDE DEF top, mant, taken, want, v
    <3>7. Nearest(enc, v, top(k))
      BY <3>2, <3>6
    <3>8. \A m \in 0..top(k), e \in 0..3 : Dist(taken(k), want(k)) <= Dist(Shifted(m, e), want(k))
      <4>1. \A m \in 0..top(k), e \in 0..3 : Dist(Shifted(enc.m, enc.e), v) <= Dist(Shifted(m, e), v)
        BY <3>7 DEF Nearest
      <4>2. taken(k) = Shifted(enc.m, enc.e) /\ want(k) = v
        BY <3>6
      <4> QED BY <4>1, <4>2
    <3>9. (k \in warned <=> taken(k) # want(k)) /\ mant(k) # 0
      BY <3>3, <3>4, <3>6
    <3> QED BY <3>8, <3>9
  <2> QED BY <2>2, <2>3, <2>4
<1> QED BY <1>1, AssemblyInvariant, PTL

-----------------------------------------------------------------------------
(* The image.                                                              *)
LEMMA Joined ==
  ASSUME NEW S, NEW s \in Seq(S), NEW t \in Seq(S)
  PROVE  /\ s \o t \in Seq(S) /\ Len(s \o t) = Len(s) + Len(t)
         /\ \A a \in 1..Len(s) : (s \o t)[a] = s[a]
         /\ \A a \in 1..Len(t) : (s \o t)[Len(s) + a] = t[a]
  OBVIOUS

LEMMA ImageBytes ==
  ASSUME words \in Seq(Word), data \in Seq(Byte), Len(words) <= PROGRAM_WORDS,
         Len(data) <= DATA_BYTES
  PROVE  /\ Len(image) \in Nat /\ Len(image) <= MemBytes
         /\ \A a \in 1..(2 * Len(words)) : a <= Len(image) /\ image[a] = to_bytes(words)[a]
         /\ \A a \in 1..Len(data) :
              Words + a <= Len(image) /\ image[Words + a] = data[a]
<1> DEFINE code == to_bytes(words)
           pad == [i \in 1..(2 * (PROGRAM_WORDS - Len(words))) |-> 0]
<1>1. /\ Words \in Nat \ {0} /\ PROGRAM_WORDS \in Nat /\ 2 * PROGRAM_WORDS = Words
      /\ MemBytes = 2 * Words /\ DATA_BYTES = Words
  BY WordsAssumption, AssemblerAssumption DEF PROGRAM_WORDS, MemBytes, DATA_BYTES
<1>2. Len(words) \in Nat /\ Len(data) \in Nat
  OBVIOUS
<1>3. code \in Seq(Byte) /\ Len(code) = 2 * Len(words)
  BY CodeBytes
<1>4. pad \in Seq(Byte) /\ Len(pad) = Words - 2 * Len(words)
  <2>1. 2 * (PROGRAM_WORDS - Len(words)) \in Nat
    BY <1>1, <1>2
  <2>2. 2 * (PROGRAM_WORDS - Len(words)) = Words - 2 * Len(words)
    BY <1>1, <1>2
  <2> QED BY <2>1, <2>2 DEF Byte
<1> HIDE DEF code, pad
<1>5. CASE data = <<>>
  <2>1. image = code /\ Len(data) = 0
    BY <1>5 DEF image, code
  <2> QED BY <1>1, <1>2, <1>3, <2>1 DEF code
<1>6. CASE data # <<>>
  <2>1. image = (code \o pad) \o data
    BY <1>6 DEF image, code, pad
  <2>2. /\ (code \o pad) \in Seq(Byte) /\ Len(code \o pad) = Words
        /\ \A a \in 1..Len(code) : (code \o pad)[a] = code[a]
    <3>1. Len(code) + Len(pad) = Words
      BY <1>1, <1>2, <1>3, <1>4
    <3> QED BY <1>3, <1>4, <3>1, Joined
  <2> DEFINE front == code \o pad
  <2> HIDE DEF front
  <2>3. /\ Len(front \o data) = Words + Len(data)
        /\ \A a \in 1..Words : (front \o data)[a] = front[a]
        /\ \A a \in 1..Len(data) : (front \o data)[Words + a] = data[a]
    <3>1. front \in Seq(Byte) /\ Len(front) = Words
      BY <2>2 DEF front
    <3>2. Len(front \o data) = Len(front) + Len(data)
      BY <3>1, Joined
    <3>3. \A a \in 1..Len(front) : (front \o data)[a] = front[a]
      BY <3>1, Joined
    <3>4. \A a \in 1..Len(data) : (front \o data)[Len(front) + a] = data[a]
      BY <3>1, Joined
    <3> QED BY <3>1, <3>2, <3>3, <3>4
  <2>4. image = front \o data /\ \A a \in 1..Len(code) : front[a] = code[a]
    BY <2>1, <2>2 DEF front
  <2>5. Len(code) <= Words
    BY <1>1, <1>2, <1>3
  <2>6. \A a \in 1..(2 * Len(words)) : a <= Len(image) /\ image[a] = code[a]
    BY <1>1, <1>2, <1>3, <2>3, <2>4, <2>5
  <2>7. \A a \in 1..Len(data) : Words + a <= Len(image) /\ image[Words + a] = data[a]
    BY <1>1, <1>2, <2>3, <2>4
  <2> QED BY <1>1, <1>2, <2>3, <2>4, <2>6, <2>7 DEF code
<1> QED BY <1>5, <1>6

(* The image puts every word and every byte of data where the core fetches *)
(* and loads it from (asm.py:86-92, core.v:304-311).                       *)
THEOREM ImageFetched == Spec => []ImageInPlace
<1>1. ASSUME AssemblyInv PROVE ImageInPlace
  <2> DEFINE stored == [a \in 0..(MemBytes - 1) |->
                          IF a < Len(image) THEN image[a + 1] ELSE -1]
  <2> SUFFICES ASSUME stage = "done"
               PROVE  /\ Len(image) <= MemBytes
                      /\ \A k \in DOMAIN words : words[k] = WordAt(stored, k - 1)
                      /\ \A k \in DOMAIN data : data[k] = stored[DataAddr(k - 1)]
    BY DEF ImageInPlace
  <2>1. /\ words \in Seq(Word) /\ data \in Seq(Byte) /\ Len(words) <= PROGRAM_WORDS
        /\ Len(data) <= DATA_BYTES
    BY <1>1 DEF AssemblyInv, WordsOK, DataOK, Passed1
  <2>2. /\ Words \in Nat \ {0} /\ PROGRAM_WORDS \in Nat /\ 2 * PROGRAM_WORDS = Words
        /\ MemBytes = 2 * Words /\ DATA_BYTES = Words
    BY WordsAssumption, AssemblerAssumption DEF PROGRAM_WORDS, MemBytes, DATA_BYTES
  <2>3. /\ Len(image) \in Nat /\ Len(image) <= MemBytes
        /\ \A a \in 1..(2 * Len(words)) : a <= Len(image) /\ image[a] = to_bytes(words)[a]
        /\ \A a \in 1..Len(data) : Words + a <= Len(image) /\ image[Words + a] = data[a]
    BY <2>1, ImageBytes
  <2>4. \A a : a \in 0..(MemBytes - 1) /\ a < Len(image) => stored[a] = image[a + 1]
    OBVIOUS
  <2> HIDE DEF stored
  <2>5. ASSUME NEW k \in DOMAIN words PROVE words[k] = WordAt(stored, k - 1)
    <3> DEFINE n == k - 1
    <3>0. Len(words) \in Nat /\ k \in 1..Len(words)
      BY <2>1
    <3>1. n \in 0..(Len(words) - 1) /\ Len(words) \in Nat /\ k = n + 1
      BY <3>0
    <3>2. 256 * to_bytes(words)[2 * n + 2] + to_bytes(words)[2 * n + 1] = words[n + 1]
      BY <2>1, <3>1, ImageWord
    <3> HIDE DEF n
    <3>3. 2 * n + 1 \in 1..(2 * Len(words)) /\ 2 * n + 2 \in 1..(2 * Len(words))
      BY <3>1
    <3>4. /\ image[2 * n + 1] = to_bytes(words)[2 * n + 1] /\ 2 * n + 1 <= Len(image)
          /\ image[2 * n + 2] = to_bytes(words)[2 * n + 2] /\ 2 * n + 2 <= Len(image)
      BY <2>3, <3>3
    <3>5. /\ 2 * n \in 0..(MemBytes - 1) /\ 2 * n < Len(image)
          /\ 2 * n + 1 \in 0..(MemBytes - 1) /\ 2 * n + 1 < Len(image)
      BY <2>1, <2>2, <3>1, <3>4
    <3>6. stored[2 * n] = image[2 * n + 1]
      BY <2>4, <3>5
    <3>7. stored[2 * n + 1] = image[2 * n + 2]
      <4>1. stored[2 * n + 1] = image[(2 * n + 1) + 1]
        BY <2>4, <3>5
      <4>2. (2 * n + 1) + 1 = 2 * n + 2
        BY <3>1
      <4> QED BY <4>1, <4>2
    <3>8. WordAt(stored, n) = words[n + 1]
      BY <3>2, <3>4, <3>6, <3>7 DEF WordAt
    <3> QED BY <3>1, <3>8 DEF n
  <2>6. ASSUME NEW k \in DOMAIN data PROVE data[k] = stored[DataAddr(k - 1)]
    <3>1. k \in 1..Len(data) /\ Len(data) \in Nat
      BY <2>1
    <3>2. DataAddr(k - 1) = Words + (k - 1)
      <4>1. k - 1 \in Nat /\ k - 1 < Words
        BY <2>1, <2>2, <3>1
      <4>2. (k - 1) % Words = k - 1
        BY <2>2, <4>1
      <4> QED BY <4>2 DEF DataAddr, DATA_BASE
    <3>3. Words + k <= Len(image) /\ image[Words + k] = data[k]
      BY <2>3, <3>1
    <3> DEFINE a == Words + (k - 1)
    <3>4. a \in 0..(MemBytes - 1) /\ a < Len(image) /\ a + 1 = Words + k
      <4>1. Words \in Nat /\ k \in Nat /\ 1 <= k
        BY <2>2, <3>1
      <4>2. Words + k <= Len(image) /\ Len(image) \in Nat /\ Len(image) <= MemBytes
        BY <2>3, <3>3
      <4>3. MemBytes \in Nat
        BY <2>2
      <4> QED BY <4>1, <4>2, <4>3
    <3>5. stored[DataAddr(k - 1)] = stored[a]
      BY <3>2
    <3> HIDE DEF a
    <3>6. stored[a] = image[a + 1]
      BY <2>4, <3>4
    <3> QED BY <3>3, <3>4, <3>5, <3>6
  <2> QED BY <2>3, <2>5, <2>6 DEF stored
<1> QED BY <1>1, AssemblyInvariant, PTL

-----------------------------------------------------------------------------
(* Exactly the well-formed programs are assembled: every AsmError of the   *)
(* model is for a malformed one, and no malformed one gets through         *)
(* (asm.py:137-366).                                                       *)
THEOREM WellFormedAccepted == Spec => []AcceptsWellFormed
<1>1. ASSUME AssemblyInv, stage = "done" PROVE WellFormed
  <2>1. /\ at = End /\ cond = <<>> /\ Len(lines) <= PROGRAM_WORDS
        /\ Len(words) = Len(lines) /\ Len(data) = Len(data_lines) /\ Len(data) <= DATA_BYTES
    BY <1>1 DEF AssemblyInv, Passed1
  <2>2. /\ source \in Sources /\ defines \in Defines /\ NamesOf(End, consts, labels)
        /\ SoundTo(End) /\ Range(lines) = Places(Mnemonics)
        /\ Len(lines) = Cardinality(Places(Mnemonics))
        /\ Range(data_lines) = Places({"byte"})
        /\ Len(data_lines) = Cardinality(Places({"byte"}))
        /\ lines \in Seq(Nat) /\ data_lines \in Seq(Nat) /\ End \in 1..End
    BY <1>1, <2>1, AtEnd
  <2>3. Len(source) \in Nat /\ DOMAIN source = 1..Len(source) /\ End = Len(source) + 1
    BY <2>2, SourceType DEF End
  <2>4. \A ops : Before(ops, End) = Places(ops)
    BY <2>2, BeforeStep
  <2>5. Balanced
    <3>1. BlocksOf(End, <<>>) /\ End - 1 = Len(source)
      BY <1>1, <2>1, <2>3 DEF AssemblyInv, ScanInv
    <3> QED BY <2>3, <3>1 DEF BlocksOf, Balanced
  <2>6. \A n \in OwnNames : n < End
    BY <2>3 DEF OwnNames, Places
  <2>7. NamesOnce
    BY <2>2, <2>6 DEF NamesOf, NamesOnce
  <2>8. ASSUME NEW i \in Places(Mnemonics)
        PROVE  \E k \in DOMAIN words :
                 lines[k] = i /\ Encoded(words[k], source[i], k \in warned) /\ Fitting(i)
    <3>1. PICK k \in DOMAIN lines : lines[k] = i
      BY <2>2, <2>8 DEF Range
    <3>2. k \in DOMAIN words
      <4>1. words \in Seq(Word)
        BY <1>1 DEF AssemblyInv, WordsOK
      <4> QED BY <2>1, <2>2, <4>1
    <3> QED BY <1>1, <3>1, <3>2, WordWritten
  <2>9. \A i \in Places(Mnemonics) : Fitting(i)
    BY <2>8
  <2>10. \A i \in Places({"byte"}) : Fitting(i)
    <3> TAKE i \in Places({"byte"})
    <3>1. PICK k \in DOMAIN data_lines : data_lines[k] = i
      BY <2>2 DEF Range
    <3>2. k \in DOMAIN data
      <4>1. data \in Seq(Byte)
        BY <1>1 DEF AssemblyInv, DataOK
      <4> QED BY <2>1, <2>2, <4>1
    <3> QED BY <1>1, <3>1, <3>2 DEF AssemblyInv, DataOK
  <2>11. UsesKnown
    <3>1. \A i \in Places({"if"}) : KnownAt(source[i].val, i)
      BY <2>2, <2>4 DEF SoundTo
    <3>2. \A i \in OwnNames : source[i].op = "equ" => KnownAt(source[i].val, i)
      BY <2>2, <2>6 DEF SoundTo
    <3>3. \A i \in Places({"jmp"}) : "id" \in DOMAIN source[i].val /\ LabelAt(source[i].val.id) # {}
      <4> TAKE i \in Places({"jmp"})
      <4>1. i \in Places(Mnemonics) /\ source[i].op = "jmp"
        BY DEF Places, Mnemonics
      <4> QED BY <2>8, <4>1 DEF Encoded
    <3> QED BY <3>1, <3>2, <3>3 DEF UsesKnown
  <2>12. InRange
    <3>1. \A i \in Places({"ldi", "byte"}) : OperandIn(i, Byte)
      <4> TAKE i \in Places({"ldi", "byte"})
      <4>1. i \in Places(Mnemonics) \/ i \in Places({"byte"})
        BY DEF Places, Mnemonics
      <4>2. Fitting(i) /\ source[i].op \in {"ldi", "byte"}
        BY <2>9, <2>10, <4>1 DEF Places
      <4> QED BY <4>2 DEF Fitting
    <3>2. \A i \in Places({"load"}) : OperandIn(i, 0..(DATA_BYTES - 1))
      <4> TAKE i \in Places({"load"})
      <4>1. i \in Places(Mnemonics) /\ source[i].op = "load"
        BY DEF Places, Mnemonics
      <4> QED BY <2>9, <4>1 DEF Fitting
    <3>3. \A i \in Places({"delay"}) : OperandIn(i, Nat)
      <4> TAKE i \in Places({"delay"})
      <4>1. i \in Places(Mnemonics) /\ source[i].op = "delay"
        BY DEF Places, Mnemonics
      <4> QED BY <2>9, <4>1 DEF Fitting
    <3>4. \A i \in Places({"wait"}) : OperandIn(i, Nat \ {0})
      <4> TAKE i \in Places({"wait"})
      <4>1. i \in Places(Mnemonics) /\ source[i].op = "wait"
        BY DEF Places, Mnemonics
      <4> QED BY <2>9, <4>1 DEF Fitting
    <3> QED BY <3>1, <3>2, <3>3, <3>4 DEF InRange
  <2>13. DataLast
    <3>1. \A n : Before({"data"}, n) # {} <=> \E d \in Places({"data"}) : d < n
      BY DEF Before
    <3>2. \A i \in Places(Mnemonics \cup {"label"}) : ~\E d \in Places({"data"}) : d < i
      BY <2>2, <2>4, <3>1 DEF SoundTo
    <3>3. \A i \in Places({"byte"}) : \E d \in Places({"data"}) : d < i
      BY <2>2, <2>4, <3>1 DEF SoundTo
    <3> QED BY <3>2, <3>3 DEF DataLast
  <2>14. Fits
    BY <2>1, <2>2 DEF Fits
  <2> QED BY <2>5, <2>7, <2>11, <2>12, <2>13, <2>14 DEF WellFormed
<1>2. ASSUME AssemblyInv PROVE AcceptsWellFormed
  BY <1>1, <1>2 DEF AcceptsWellFormed, AssemblyInv
<1> QED BY <1>2, AssemblyInvariant, PTL
=============================================================================
