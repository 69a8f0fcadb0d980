---------------------------- MODULE MCAssembler ----------------------------
(***************************************************************************)
(* TLC instances of Assembly: short sources over alphabets of lines, one   *)
(* for conditions, one for names and data, one for cycle counts.           *)
(***************************************************************************)
EXTENDS Assembly

X == [id |-> "x"]
Y == [id |-> "y"]
L == [id |-> "l"]
Lit(n) == [lit |-> n]

Line(op, val) == [op |-> op, val |-> val]
Bare(op) == [op |-> op]
Names(op, x) == [op |-> op, name |-> x]
EquLine(x, val) == [op |-> "equ", name |-> x, val |-> val]

UpTo(S, n) == UNION {[1..k -> S] : k \in 0..n}

ControlLines == {Line("if", X), Line("if", Y), Bare("else"), Bare("endif"),
                 Bare("nop")}
ControlSources == UpTo(ControlLines, 6)

NameLines == {EquLine("x", Lit(2)), EquLine("y", X), Names("label", "l"),
              Names("label", "x"), Line("jmp", L), Line("ldi", X),
              Line("load", Lit(8)), Line("if", Y), Bare("endif"),
              Bare("data"), Line("byte", L), Line("byte", Lit(256)), Bare("nop")}
NameSources == UpTo(NameLines, 4)

(* Cycle counts around every edge of the encoding.                         *)
Edges == UNION {{32 ^ e, 31 * 32 ^ e, 511 * 32 ^ e, 512 * 32 ^ e,
                 (32 ^ e) \div 2, 500 * 32 ^ e, 15 * 32 ^ e, 17 * 32 ^ e} : e \in 0..3}
Near(c) == {c - 1, c, c + 1, c + 15, c + 16, c + 17}
CycleCounts == {-1, 20000000} \cup (0..70) \cup UNION {Near(c) : c \in Edges}
CycleSources == {<<Line(op, Lit(c))>> : op \in {"delay", "wait"}, c \in CycleCounts}

(* Programs at and over the sizes of the two regions.                      *)
Bytes(n) == <<Bare("data")>> \o [i \in 1..n |-> Line("byte", Lit(i))]
SizeSources == {Bytes(DATA_BYTES), Bytes(DATA_BYTES + 1),
                <<Bare("nop")>> \o Bytes(2)}

AllSources == ControlSources \cup NameSources \cup CycleSources \cup SizeSources
AllDefines == {<<>>, ("x" :> 1) @@ ("y" :> 0), ("x" :> 0) @@ ("y" :> 1)}
=============================================================================
