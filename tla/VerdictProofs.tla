---------------------------- MODULE VerdictProofs ----------------------------
(***************************************************************************)
(* What verdicts are worth.  A sign-off that says STABLE is earned, for    *)
(* any gates, any number of mutants, and whatever was edited, committed,   *)
(* signed off or killed before; so is the verdict of a formal run or a     *)
(* red-team evaluation, for any candidates, sweeps and props files, over   *)
(* the files that earlier and stopped runs left in the directory.          *)
(***************************************************************************)
EXTENDS Tools, FiniteSetTheorems, TLAPS

Tested(g, h, S, v) == <<g, h, S>> \in DOMAIN says /\ says[<<g, h, S>>] = v

GatesEarned(h) == \A i \in 1..Len(Gates) : Tested(Gates[i], h, {}, "pass")

(* The mutation gate of h: the baseline passed, and of the mutants, each   *)
(* tested alone, four fifths were killed.                                  *)
MutationEarned(h) ==
  /\ Tested("suite", h, {}, "pass")
  /\ \E dead \in SUBSET (1..Mutants) :
       /\ \A m \in dead : Tested("suite", h, {m}, "fail")
       /\ \A m \in (1..Mutants) \ dead : Tested("suite", h, {m}, "pass")
       /\ 5 * Cardinality(dead) >= 4 * Mutants

Verdicts == {"PASS", "FAIL", "SKIPPED"}
Statuses == {"killed", "survived", "error"}
Mutations ==
  [at : {"idle", "start", "next", "applied", "judged", "exit"}, k : Nat,
   original : SUBSET Nat, rows : Seq(Statuses), rc : {0, 1}]
SignOffs ==
  [at : {"idle", "gates", "mutation"}, skip : SUBSET STRING, dirty : BOOLEAN,
   verdicts : Seq(Verdicts)]
Bounded == [mutants : Nat, commits : Nat, signs : Nat, timeouts : Nat, errors : Nat]
SignTypes ==
  /\ head \in Nat /\ changes \in SUBSET Nat
  /\ budget \in Bounded
  /\ sign \in SignOffs
  /\ mut \in Mutations
  /\ \A q \in DOMAIN says : says[q] \in {"pass", "fail"}

(* The mutation run belongs to the last gate.                              *)
Phase ==
  /\ sign.at # "mutation" => mut.at = "idle"
  /\ sign.at = "mutation" => Len(sign.verdicts) = Len(Gates)

StillClean ==
  /\ sign.at # "idle" /\ ~sign.dirty
  /\ \A i \in 1..Len(sign.verdicts) : sign.verdicts[i] # "FAIL"

VerdictsTrue ==
  \A i \in 1..Len(sign.verdicts) : sign.verdicts[i] = "PASS" =>
    /\ i <= Len(Gates) => Tested(Gates[i], head, {}, "pass")
    /\ i > Len(Gates) => MutationEarned(head)

RowsTrue ==
  \A m \in 1..Len(mut.rows) :
    /\ mut.rows[m] = "killed" => Tested("suite", head, {m}, "fail")
    /\ mut.rows[m] = "survived" => Tested("suite", head, {m}, "pass")

(* Each mutant is alone in the source while it is judged.                  *)
MutationTrue ==
  /\ mut.at \notin {"applied", "judged"} => changes = {}
  /\ mut.at \in {"applied", "judged"} => mut.original = {} /\ mut.k \in 1..Mutants
  /\ mut.at \in {"next", "applied", "judged"} =>
       Tested("suite", head, {}, "pass") /\ RowsTrue
  /\ mut.at = "next" => mut.k \in 1..(Mutants + 1) /\ Len(mut.rows) = mut.k - 1
  /\ mut.at = "applied" => changes = {mut.k} /\ Len(mut.rows) = mut.k - 1
  /\ mut.at = "judged" => Len(mut.rows) = mut.k
  /\ mut.at = "exit" /\ mut.rc = 0 => MutationEarned(head)

ReportTrue == Stable => GatesEarned(report.commit) /\ MutationEarned(report.commit)

(* As long as nothing has failed, on a tree that was clean at the start,   *)
(* all that was tested was the commit.                                     *)
SignInv ==
  /\ SignTypes /\ Phase
  /\ StillClean => VerdictsTrue /\ MutationTrue
  /\ ReportTrue

-----------------------------------------------------------------------------
(* Nothing that was tested is forgotten.                                   *)
Remembers == \A g, h, S, v : Tested(g, h, S, v) => Tested(g, h, S, v)'

(* The answer of a gate is remembered, beside all earlier ones.            *)
LEMMA LearnRemembers ==
  ASSUME NEW g, NEW v \in Says(g), Learn(g, v), UNCHANGED <<head, changes>>
  PROVE Remembers /\ Tested(g, head, changes, v)'
BY DEF Says, Learn, Possible, Learned, Remembers, Tested

(* So what has been earned stays earned.                                   *)
LEMMA EarnedStays ==
  ASSUME Remembers, Mutants' = Mutants
  PROVE /\ \A h : GatesEarned(h) => GatesEarned(h)'
        /\ \A h : MutationEarned(h) => MutationEarned(h)'
<1>1. ASSUME NEW h, GatesEarned(h) PROVE GatesEarned(h)'
  BY <1>1 DEF GatesEarned, Remembers
<1>2. ASSUME NEW h, MutationEarned(h) PROVE MutationEarned(h)'
  BY <1>2 DEF MutationEarned, Remembers
<1> QED BY <1>1, <1>2

(* Two disjoint parts of an interval make up its length.                   *)
LEMMA Parts ==
  ASSUME NEW N \in Nat, NEW A, NEW B, A \cup B = 1..N, A \cap B = {}
  PROVE Cardinality(A) + Cardinality(B) = N
<1>1. IsFiniteSet(1..N) /\ Cardinality(1..N) = N
  <2>1. 1 \in Int /\ N \in Int /\ (N = 0 \/ N > 0)
    OBVIOUS
  <2>2. IsFiniteSet(1..N)
    BY <2>1, FS_Interval
  <2>3. Cardinality(1..N) = IF 1 > N THEN 0 ELSE N - 1 + 1
    BY <2>1, FS_Interval
  <2> QED BY <2>2, <2>3
<1>2. IsFiniteSet(A) /\ IsFiniteSet(B)
  <2>1. A \subseteq 1..N /\ B \subseteq 1..N
    OBVIOUS
  <2> QED BY <1>1, <2>1, FS_Subset
<1>3. Cardinality(A) \in Nat /\ Cardinality(B) \in Nat
  BY <1>2, FS_CardinalityType
<1>4. Cardinality(A \cup B) = Cardinality(A) + Cardinality(B) - Cardinality(A \cap B)
  BY <1>2, FS_Union
<1>5. Cardinality(A \cap B) = 0
  BY FS_EmptySet
<1>6. Cardinality(A \cup B) = N
  BY <1>1
<1> QED BY <1>3, <1>4, <1>5, <1>6

(* A good score, with no errors, over rows that say what was found.        *)
LEMMA ScoreIsEarned ==
  ASSUME SignTypes, RowsTrue, Tested("suite", head, {}, "pass"), GatePass,
         Len(mut.rows) = Mutants
  PROVE MutationEarned(head)
<1>1. Mutants \in Nat /\ mut.rows \in Seq(Statuses) /\ DOMAIN mut.rows = 1..Mutants
  BY DEF SignTypes, Bounded, Mutations, Mutants
<1>2. PICK K : K = {i \in DOMAIN mut.rows : mut.rows[i] = "killed"}
  OBVIOUS
<1>3. PICK S : S = {i \in DOMAIN mut.rows : mut.rows[i] = "survived"}
  OBVIOUS
<1>4. PICK E : E = {i \in DOMAIN mut.rows : mut.rows[i] = "error"}
  OBVIOUS
<1>5. 5 * Cardinality(K) >= 4 * (Cardinality(K) + Cardinality(S)) /\ Cardinality(E) = 0
  BY <1>2, <1>3, <1>4 DEF GatePass, CountOf
<1>6. E = {}
  <2>1. E \subseteq 1..Mutants /\ IsFiniteSet(1..Mutants)
    BY <1>1, <1>4, FS_Interval, 1 \in Int, Mutants \in Int
  <2> QED BY <1>5, <2>1, FS_Subset, FS_EmptySet
<1>7. K \cup S = 1..Mutants /\ K \cap S = {}
  <2>1. ASSUME NEW i \in 1..Mutants PROVE i \in K \cup S
    <3>1. mut.rows[i] \in Statuses
      BY <1>1
    <3> QED BY <1>1, <1>2, <1>3, <1>4, <1>6, <3>1 DEF Statuses
  <2> QED BY <1>1, <1>2, <1>3, <2>1
<1>8. Cardinality(K) + Cardinality(S) = Mutants
  BY <1>1, <1>7, Parts
<1>9. 5 * Cardinality(K) >= 4 * Mutants
  BY <1>5, <1>8
<1>10. \A m \in K : Tested("suite", head, {m}, "fail")
  BY <1>1, <1>2 DEF RowsTrue
<1>11. \A m \in (1..Mutants) \ K : Tested("suite", head, {m}, "pass")
  BY <1>1, <1>3, <1>7 DEF RowsTrue
<1>12. K \in SUBSET (1..Mutants)
  BY <1>7
<1> QED BY <1>9, <1>10, <1>11, <1>12 DEF MutationEarned
-----------------------------------------------------------------------------
(* The shape of the state.                                                 *)
LEMMA VerdictAdded ==
  ASSUME SignTypes, NEW v \in Verdicts, Verdict(v)
  PROVE /\ sign' \in SignOffs
        /\ sign'.at = "gates" /\ sign'.dirty = sign.dirty
        /\ Len(sign'.verdicts) = Len(sign.verdicts) + 1
        /\ \A i \in 1..Len(sign.verdicts) : sign'.verdicts[i] = sign.verdicts[i]
        /\ sign'.verdicts[Len(sign.verdicts) + 1] = v
BY DEF SignTypes, SignOffs, Verdict

(* Nothing has failed after a verdict only if nothing had before.          *)
LEMMA CleanBefore ==
  ASSUME SignTypes, sign.at # "idle", NEW v \in Verdicts, Verdict(v), StillClean'
  PROVE StillClean /\ v # "FAIL"
<1>1. Len(sign.verdicts) \in Nat
  BY DEF SignTypes, SignOffs
<1>2. \A i \in 1..Len(sign.verdicts) + 1 : sign'.verdicts[i] # "FAIL"
  BY VerdictAdded DEF StillClean
<1>3. v # "FAIL"
  BY <1>1, <1>2, VerdictAdded
<1>4. \A i \in 1..Len(sign.verdicts) : sign.verdicts[i] # "FAIL"
  BY <1>1, <1>2, VerdictAdded
<1>5. ~sign.dirty
  BY VerdictAdded DEF StillClean
<1> QED BY <1>3, <1>4, <1>5 DEF StillClean

(* Every gate but the last has a name that is not mutation.                *)
LEMMA GateNames ==
  /\ Gates \in Seq(STRING) /\ Len(Gates) \in Nat /\ Len(Gates) > 0
  /\ \A i \in 1..Len(Gates) : Gates[i] \in STRING /\ Gates[i] # "mutation"
<1>1. Gates \in Seq(STRING) /\ Len(Gates) > 0 /\ \A i \in DOMAIN Gates : Gates[i] # "mutation"
  BY SigningAssumption
<1> QED BY <1>1

(* The gate whose turn it is.                                              *)
LEMMA GateIs ==
  ASSUME SignTypes, AtGate
  PROVE /\ Len(sign.verdicts) \in 0..Len(Gates)
        /\ gate = "mutation" => Len(sign.verdicts) = Len(Gates)
        /\ gate # "mutation" => /\ Len(sign.verdicts) < Len(Gates)
                                /\ gate = Gates[Len(sign.verdicts) + 1]
<1>1. Gates \in Seq(STRING) /\ Len(sign.verdicts) \in Nat
  BY GateNames DEF SignTypes, SignOffs
<1>2. /\ Len(AllGates) = Len(Gates) + 1
      /\ \A i \in 1..Len(Gates) : AllGates[i] = Gates[i]
      /\ AllGates[Len(Gates) + 1] = "mutation"
  BY <1>1 DEF AllGates
<1>3. Len(sign.verdicts) \in 0..Len(Gates)
  BY <1>1, <1>2 DEF AtGate
<1>4. Len(sign.verdicts) = Len(Gates) => gate = "mutation"
  BY <1>2 DEF gate
<1>5. Len(sign.verdicts) # Len(Gates) =>
        gate = Gates[Len(sign.verdicts) + 1] /\ gate # "mutation"
  BY <1>1, <1>2, <1>3, GateNames DEF gate
<1> QED BY <1>1, <1>3, <1>4, <1>5

(* A step learns the answer to one question, or none.                      *)
LEMMA StepRemembers ==
  ASSUME SignOffNext
  PROVE Remembers
<1>1. ASSUME NEW g, NEW v \in Says(g), Learn(g, v)
      PROVE Remembers
  BY <1>1 DEF Says, Learn, Possible, Learned, Remembers, Tested
<1>2. CASE UNCHANGED says
  BY <1>2 DEF Remembers, Tested
<1>3. CASE RunGate
  BY <1>1, <1>3 DEF RunGate
<1>4. CASE Baseline
  BY <1>1, <1>2, <1>4 DEF Baseline
<1>5. CASE Judge
  BY <1>1, <1>5 DEF Judge
<1>6. RunGate \/ Baseline \/ Judge \/ UNCHANGED says
  BY DEF SignOffNext, SignOffStep, Edit, Commit, Discard, StartSignOff, SkipGate,
         GateTimesOut, StartMutation, Apply, MutantErrs, Restore, MutateEnds,
         MutationDone, MutationTimesOut, Report
<1> QED BY <1>2, <1>3, <1>4, <1>5, <1>6

(* A budget is spent one by one, and only if it is there.                  *)
LEMMA Spent ==
  ASSUME NEW b \in Bounded
  PROVE /\ b.commits > 0 => [b EXCEPT !.commits = @ - 1] \in Bounded
        /\ b.signs > 0 => [b EXCEPT !.signs = @ - 1] \in Bounded
        /\ b.timeouts > 0 => [b EXCEPT !.timeouts = @ - 1] \in Bounded
        /\ b.errors > 0 => [b EXCEPT !.errors = @ - 1] \in Bounded
BY DEF Bounded

(* The number of mutants is fixed, and no budget is overdrawn.             *)
LEMMA BudgetKept ==
  ASSUME SignTypes, SignOffNext
  PROVE budget' \in Bounded /\ Mutants' = Mutants
<1>1. budget \in Bounded
  BY DEF SignTypes, Bounded
<1>2. \/ budget' = budget
      \/ budget.commits > 0 /\ budget' = [budget EXCEPT !.commits = @ - 1]
      \/ budget.signs > 0 /\ budget' = [budget EXCEPT !.signs = @ - 1]
      \/ budget.timeouts > 0 /\ budget' = [budget EXCEPT !.timeouts = @ - 1]
      \/ budget.errors > 0 /\ budget' = [budget EXCEPT !.errors = @ - 1]
  BY DEF SignOffNext, SignOffStep, Edit, Commit, Discard, StartSignOff, SkipGate, RunGate,
         GateTimesOut, StartMutation, Baseline, Apply, Judge, MutantErrs, Restore,
         MutateEnds, MutationDone, MutationTimesOut, Report
<1>3. budget' \in Bounded
  BY <1>1, <1>2, Spent
<1>4. Mutants' = Mutants
  BY <1>1, <1>2 DEF Mutants, Bounded
<1> QED BY <1>3, <1>4

(* Gates pass or fail.                                                     *)
LEMMA AnswersKept ==
  ASSUME SignTypes, SignOffNext
  PROVE \A q \in DOMAIN says' : says'[q] \in {"pass", "fail"}
<1>1. ASSUME NEW g, NEW v \in Says(g), Learn(g, v)
      PROVE \A q \in DOMAIN says' : says'[q] \in {"pass", "fail"}
  BY <1>1 DEF SignTypes, Says, Learn, Possible, Learned
<1>2. \/ \E g : \E v \in Says(g) : Learn(g, v)
      \/ UNCHANGED says
  BY DEF SignOffNext, SignOffStep, Edit, Commit, Discard, StartSignOff, SkipGate, RunGate,
         GateTimesOut, StartMutation, Baseline, Apply, Judge, MutantErrs, Restore,
         MutateEnds, MutationDone, MutationTimesOut, Report
<1> QED BY <1>1, <1>2 DEF SignTypes

(* Every step keeps the types, and the mutation run in its place.          *)
LEMMA TypesKept ==
  ASSUME SignTypes, Phase, SignOffNext
  PROVE SignTypes' /\ Phase' /\ Mutants' = Mutants
<1> USE BudgetKept, AnswersKept DEF SignTypes, Phase, Bounded, SignOffs, Mutations
<1>1. CASE Edit \/ Commit \/ Discard
  <2>1. head' \in Nat /\ changes' \in SUBSET Nat
    BY <1>1 DEF Edit, Commit, Discard, TheEdit
  <2>2. UNCHANGED <<sign, mut>>
    BY <1>1 DEF Edit, Commit, Discard
  <2> QED BY <2>1, <2>2
<1>2. CASE StartSignOff
  <2>1. \E skip \in {{}, {Gates[1]}} :
          sign' = [at |-> "gates", skip |-> skip, dirty |-> changes # {}, verdicts |-> <<>>]
    BY <1>2 DEF StartSignOff
  <2>2. {} \in SUBSET STRING /\ {Gates[1]} \in SUBSET STRING
    BY GateNames
  <2>3. PICK skip \in SUBSET STRING :
          sign' = [at |-> "gates", skip |-> skip, dirty |-> changes # {}, verdicts |-> <<>>]
    BY <2>1, <2>2
  <2>4. sign' \in SignOffs
    <3>1. (changes # {}) \in BOOLEAN /\ <<>> \in Seq(Verdicts)
      OBVIOUS
    <3> QED BY <2>3, <3>1
  <2>5. sign'.at = "gates" /\ mut' = mut /\ mut.at = "idle"
    BY <1>2, <2>3 DEF StartSignOff
  <2> QED BY <1>2, <2>4, <2>5 DEF StartSignOff
<1>3. CASE SkipGate
  <2>1. sign.at # "mutation" /\ Verdict("SKIPPED")
    BY <1>3 DEF SkipGate, AtGate
  <2> QED BY <1>3, <2>1, VerdictAdded DEF SkipGate, Verdicts
<1>4. CASE RunGate
  <2>1. PICK v \in Verdicts : Verdict(v)
    BY <1>4 DEF RunGate, Verdicts
  <2> QED BY <1>4, <2>1, VerdictAdded DEF RunGate, AtGate
<1>5. CASE GateTimesOut
  <2>1. sign.at # "mutation" /\ Verdict("FAIL")
    BY <1>5 DEF GateTimesOut, AtGate
  <2> QED BY <1>5, <2>1, VerdictAdded DEF GateTimesOut, Verdicts
<1>6. CASE StartMutation
  <2>1. AtGate /\ gate = "mutation"
    BY <1>6 DEF StartMutation
  <2>2. Len(sign.verdicts) = Len(Gates)
    BY <2>1, GateIs
  <2>3. /\ sign' \in SignOffs
        /\ sign'.at = "mutation" /\ sign'.verdicts = sign.verdicts
    BY <1>6 DEF StartMutation
  <2>4. mut' \in Mutations
    BY <1>6 DEF StartMutation, Mut
  <2> QED BY <1>6, <2>2, <2>3, <2>4 DEF StartMutation
<1>7. CASE Baseline
  <2>1. \/ mut' = Mut("exit", 0, {}, <<>>, 1)
        \/ mut' = Mut("next", 1, {}, <<>>, 0)
    BY <1>7, Zenon DEF Baseline
  <2>2. sign.at = "mutation"
    BY <1>7 DEF Baseline
  <2>3. mut' \in Mutations
    <3>1. Mut("exit", 0, {}, <<>>, 1) \in Mutations
      BY DEF Mut
    <3>2. Mut("next", 1, {}, <<>>, 0) \in Mutations
      BY DEF Mut
    <3> QED BY <2>1, <3>1, <3>2, Zenon
  <2> QED BY <1>7, <2>2, <2>3 DEF Baseline
<1>8. CASE Apply
  BY <1>8 DEF Apply, Mut
<1>9. CASE Judge \/ MutantErrs
  <2>1. PICK status \in Statuses : Judged(status)
    BY <1>9 DEF Judge, MutantErrs, Statuses
  <2>2. Append(mut.rows, status) \in Seq(Statuses)
    OBVIOUS
  <2>3. mut' \in Mutations
    BY <2>1, <2>2 DEF Judged, Mut
  <2>4. mut.at = "applied" /\ UNCHANGED <<head, changes, sign>>
    BY <1>9 DEF Judge, MutantErrs
  <2> QED BY <2>3, <2>4
<1>10. CASE Restore
  BY <1>10 DEF Restore, Mut
<1>11. CASE MutateEnds
  BY <1>11 DEF MutateEnds, Mut
<1>12. CASE MutationDone
  <2>1. PICK v \in Verdicts : Verdict(v)
    BY <1>12 DEF MutationDone, Verdicts
  <2>2. mut' \in Mutations /\ mut'.at = "idle"
    BY <1>12 DEF MutationDone, NoMut, Mut
  <2> QED BY <1>12, <2>1, <2>2, VerdictAdded DEF MutationDone
<1>13. CASE MutationTimesOut
  <2>1. Verdict("FAIL")
    BY <1>13 DEF MutationTimesOut
  <2>2. mut' \in Mutations /\ mut'.at = "idle"
    BY <1>13 DEF MutationTimesOut, NoMut, Mut
  <2>3. "FAIL" \in Verdicts
    BY DEF Verdicts
  <2> QED BY <1>13, <2>1, <2>2, <2>3, VerdictAdded DEF MutationTimesOut
<1>14. CASE Report
  BY <1>14 DEF Report, NoSign
<1> HIDE DEF SignTypes, Phase, Bounded, SignOffs, Mutations
<1>15. SignTypes' /\ Phase'
  BY <1>1, <1>2, <1>3, <1>4, <1>5, <1>6, <1>7, <1>8, <1>9, <1>10, <1>11,
     <1>12, <1>13, <1>14 DEF SignOffNext, SignOffStep
<1> QED BY <1>15, BudgetKept

-----------------------------------------------------------------------------
(* The verdicts stay true, and so does the next one.                       *)
LEMMA VerdictsKept ==
  ASSUME SignTypes, Remembers, Mutants' = Mutants, head' = head, VerdictsTrue,
         NEW v \in Verdicts, Verdict(v), NEW k, k = Len(sign.verdicts) + 1,
         v = "PASS" =>
           /\ k <= Len(Gates) => Tested(Gates[k], head, {}, "pass")'
           /\ k > Len(Gates) => MutationEarned(head)'
  PROVE VerdictsTrue'
<1>1. Len(sign.verdicts) \in Nat
  BY DEF SignTypes, SignOffs
<1>4. Len(sign'.verdicts) = Len(sign.verdicts) + 1
  BY VerdictAdded
<1> SUFFICES ASSUME NEW i \in 1..Len(sign.verdicts) + 1, sign'.verdicts[i] = "PASS"
             PROVE /\ i <= Len(Gates) => Tested(Gates[i], head, {}, "pass")'
                   /\ i > Len(Gates) => MutationEarned(head)'
  BY <1>4 DEF VerdictsTrue
<1>2. CASE i = k
  <2>1. sign'.verdicts[Len(sign.verdicts) + 1] = v
    BY VerdictAdded
  <2>2. v = "PASS"
    BY <1>2, <2>1
  <2> QED BY <1>2, <2>2
<1>3. CASE i \in 1..Len(sign.verdicts)
  <2>1. sign.verdicts[i] = "PASS"
    BY <1>3, VerdictAdded
  <2>2. /\ i <= Len(Gates) => Tested(Gates[i], head, {}, "pass")
        /\ i > Len(Gates) => MutationEarned(head)
    BY <1>3, <2>1 DEF VerdictsTrue
  <2>3. MutationEarned(head) => MutationEarned(head)'
    <3>1. PICK h : h = head
      OBVIOUS
    <3>2. MutationEarned(h) => MutationEarned(h)'
      BY EarnedStays
    <3> QED BY <3>1, <3>2
  <2>4. Tested(Gates[i], head, {}, "pass") => Tested(Gates[i], head, {}, "pass")'
    BY DEF Remembers, Tested
  <2> QED BY <2>2, <2>3, <2>4
<1> QED BY <1>1, <1>2, <1>3

(* A step that gives no verdict, on the same commit.                       *)
LEMMA VerdictsStay ==
  ASSUME Remembers, Mutants' = Mutants, head' = head, VerdictsTrue,
         sign'.verdicts = sign.verdicts
  PROVE VerdictsTrue'
<1> SUFFICES ASSUME NEW i \in 1..Len(sign.verdicts), sign.verdicts[i] = "PASS"
             PROVE /\ i <= Len(Gates) => Tested(Gates[i], head, {}, "pass")'
                   /\ i > Len(Gates) => MutationEarned(head)'
  BY DEF VerdictsTrue
<1>1. /\ i <= Len(Gates) => Tested(Gates[i], head, {}, "pass")
      /\ i > Len(Gates) => MutationEarned(head)
  BY DEF VerdictsTrue
<1>2. MutationEarned(head) => MutationEarned(head)'
  <2>1. PICK h : h = head
    OBVIOUS
  <2>2. MutationEarned(h) => MutationEarned(h)'
    BY EarnedStays
  <2> QED BY <2>1, <2>2
<1>3. Tested(Gates[i], head, {}, "pass") => Tested(Gates[i], head, {}, "pass")'
  BY DEF Remembers, Tested
<1> QED BY <1>1, <1>2, <1>3

(* While no mutants are made src/ is clean.                                *)
LEMMA Outside ==
  ASSUME mut'.at \in {"idle", "start"}, changes' = {}
  PROVE MutationTrue'
BY DEF MutationTrue

(* A sign-off that starts on a clean tree has found nothing yet.           *)
LEMMA StartKeeps ==
  ASSUME SignTypes, Phase, StartSignOff, StillClean'
  PROVE VerdictsTrue' /\ MutationTrue'
<1>1. sign'.verdicts = <<>> /\ sign'.dirty = (changes # {})
  BY DEF StartSignOff
<1>2. VerdictsTrue'
  BY <1>1 DEF VerdictsTrue
<1>3. changes' = {} /\ mut'.at = "idle"
  BY <1>1 DEF StartSignOff, StillClean, Phase
<1> QED BY <1>2, <1>3, Outside

(* A gate that passes has passed on the commit (RunGate).                  *)
LEMMA GatesKeep ==
  ASSUME SignTypes, Phase, SkipGate \/ RunGate \/ StartMutation, StillClean',
         StillClean => VerdictsTrue /\ MutationTrue
  PROVE VerdictsTrue' /\ MutationTrue'
<1> DEFINE nth == Len(sign.verdicts) + 1
<1>1. sign.at = "gates" /\ mut.at = "idle" /\ UNCHANGED <<head, changes>>
  BY DEF SkipGate, RunGate, StartMutation, AtGate, Phase
<1>2. Remembers /\ Mutants' = Mutants
  BY StepRemembers, TypesKept DEF SignOffNext, SignOffStep
<1>3. ASSUME StillClean PROVE changes' = {}
  BY <1>1, <1>3 DEF MutationTrue
<1>4. CASE SkipGate
  <2>1. Verdict("SKIPPED") /\ "SKIPPED" \in Verdicts /\ mut' = mut
    BY <1>4 DEF SkipGate, Verdicts
  <2>2. StillClean
    BY <1>1, <2>1, CleanBefore
  <2>3. PICK k : k = nth
    OBVIOUS
  <2>4. VerdictsTrue'
    BY <1>1, <1>2, <2>1, <2>2, <2>3, VerdictsKept
  <2> QED BY <1>1, <1>3, <2>1, <2>2, <2>4, Outside
<1>5. CASE RunGate
  <2>1. PICK v \in Says(gate) :
          Learn(gate, v) /\ Verdict(IF v = "pass" THEN "PASS" ELSE "FAIL")
    BY <1>5 DEF RunGate
  <2>2. PICK w \in Verdicts : w = IF v = "pass" THEN "PASS" ELSE "FAIL"
    BY DEF Verdicts
  <2>3. StillClean /\ w # "FAIL"
    BY <1>1, <2>1, <2>2, CleanBefore
  <2>4. v = "pass"
    BY <2>2, <2>3
  <2>5. PICK k : k = nth
    OBVIOUS
  <2>6. k <= Len(Gates) /\ gate = Gates[k]
    <3>1. AtGate /\ gate # "mutation"
      BY <1>5 DEF RunGate
    <3> QED BY <2>5, <3>1, GateIs, GateNames DEF SignTypes, SignOffs
  <2>7. PICK g : g = gate
    OBVIOUS
  <2>8. Tested(g, head, {}, "pass")'
    <3>1. changes = {}
      BY <1>1, <1>3, <2>3
    <3> QED BY <1>1, <2>1, <2>4, <2>7, <3>1 DEF Learn, Learned, Tested
  <2>9. Tested(Gates[k], head, {}, "pass")'
    BY <2>6, <2>7, <2>8
  <2>10. ~(k > Len(Gates))
    BY <2>5, <2>6, GateNames DEF SignTypes, SignOffs
  <2>11. VerdictsTrue'
    BY <1>1, <1>2, <2>1, <2>2, <2>3, <2>5, <2>9, <2>10, VerdictsKept
  <2> QED BY <1>1, <1>3, <1>5, <2>3, <2>11, Outside DEF RunGate
<1>6. CASE StartMutation
  <2>1. sign'.verdicts = sign.verdicts /\ sign'.dirty = sign.dirty
    BY <1>6 DEF StartMutation, SignTypes, SignOffs
  <2>2. StillClean
    BY <1>1, <2>1 DEF StillClean
  <2>3. VerdictsTrue'
    BY <1>1, <1>2, <2>1, <2>2, VerdictsStay
  <2>4. mut'.at = "start"
    BY <1>6 DEF StartMutation, Mut
  <2> QED BY <1>3, <2>2, <2>3, <2>4, Outside
<1> QED BY <1>4, <1>5, <1>6

-----------------------------------------------------------------------------
(* The mutation run, from its baseline to its score.                       *)
MutationSteps ==
  Baseline \/ Apply \/ Judge \/ MutantErrs \/ Restore \/ MutateEnds

(* The fields of a mutation run.                                           *)
LEMMA MutantOf ==
  ASSUME NEW where, NEW k, NEW original, NEW judged, NEW rc,
         mut' = Mut(where, k, original, judged, rc)
  PROVE /\ mut'.at = where /\ mut'.k = k /\ mut'.original = original
        /\ mut'.rows = judged /\ mut'.rc = rc
BY DEF Mut

(* Rows stay true as long as the commit does.                              *)
LEMMA RowsStay ==
  ASSUME Remembers, head' = head, RowsTrue, mut'.rows = mut.rows
  PROVE RowsTrue'
BY DEF Remembers, Tested, RowsTrue

(* The suite passes on the commit before the first mutant (Baseline).      *)
LEMMA BaselineKeeps ==
  ASSUME SignTypes, Remembers, Baseline, MutationTrue
  PROVE MutationTrue'
<1>1. changes = {} /\ head' = head /\ changes' = changes
  BY DEF Baseline, MutationTrue
<1>2. CASE mut' = Mut("exit", 0, {}, <<>>, 1)
  BY <1>1, <1>2, MutantOf DEF MutationTrue
<1>3. CASE /\ mut' = Mut("next", 1, {}, <<>>, 0)
           /\ \E v \in Says("suite") : Learn("suite", v) /\ v = "pass"
  <2>1. Tested("suite", head, {}, "pass")'
    BY <1>1, <1>3 DEF Learn, Learned, Tested
  <2>2. mut'.at = "next" /\ mut'.k = 1 /\ mut'.rows = <<>>
    BY <1>3, MutantOf
  <2>3. RowsTrue'
    BY <2>2 DEF RowsTrue
  <2>4. Mutants' \in Nat
    BY DEF Baseline, SignTypes, Mutants, Bounded
  <2>5. PICK N \in Nat : N = Mutants'
    BY <2>4
  <2>6. changes' = {} /\ mut'.at \notin {"applied", "judged", "exit"}
    BY <1>1, <2>2
  <2>7. mut'.k \in 1..(N + 1)
    BY <2>2
  <2>8. Len(mut'.rows) = mut'.k - 1
    BY <2>2
  <2> QED BY <2>1, <2>3, <2>5, <2>6, <2>7, <2>8 DEF MutationTrue
<1> QED BY <1>2, <1>3, Zenon DEF Baseline

(* The original that is kept is the commit's (Apply).                      *)
LEMMA ApplyKeeps ==
  ASSUME SignTypes, Remembers, Mutants' = Mutants, Apply, MutationTrue
  PROVE MutationTrue'
<1>1. /\ mut.at = "next" /\ mut.k <= Mutants /\ head' = head
      /\ changes = {} /\ changes' = {mut.k}
      /\ mut' = Mut("applied", mut.k, changes, mut.rows, 0)
  BY DEF Apply, MutationTrue
<1>2. /\ mut'.at = "applied" /\ mut'.k = mut.k /\ mut'.original = {}
      /\ mut'.rows = mut.rows
  BY <1>1, MutantOf
<1>3. /\ Tested("suite", head, {}, "pass") /\ RowsTrue
      /\ mut.k \in 1..(Mutants + 1) /\ Len(mut.rows) = mut.k - 1
  BY <1>1 DEF MutationTrue
<1>4. RowsTrue' /\ Tested("suite", head, {}, "pass")'
  BY <1>1, <1>2, <1>3, RowsStay DEF Remembers, Tested
<1>5. mut.k \in 1..Mutants
  BY <1>1, <1>3 DEF SignTypes, Mutants, Bounded
<1> QED BY <1>1, <1>2, <1>3, <1>4, <1>5 DEF MutationTrue

(* The mutant is alone in src/ when its row is written.                    *)
LEMMA JudgeKeeps ==
  ASSUME SignTypes, Remembers, Mutants' = Mutants, Judge \/ MutantErrs, MutationTrue
  PROVE MutationTrue'
<1>1. /\ mut.at = "applied" /\ head' = head /\ changes' = changes
      /\ mut.original = {} /\ mut.k \in 1..Mutants /\ changes = {mut.k}
      /\ Tested("suite", head, {}, "pass") /\ RowsTrue /\ Len(mut.rows) = mut.k - 1
  BY DEF Judge, MutantErrs, MutationTrue
<1>2. PICK status \in Statuses :
        /\ Judged(status)
        /\ status = "killed" => Tested("suite", head, changes, "fail")'
        /\ status = "survived" => Tested("suite", head, changes, "pass")'
  <2>1. CASE MutantErrs
    BY <2>1 DEF MutantErrs, Statuses
  <2>2. CASE Judge
    <3>1. PICK v \in Says("suite") :
            Learn("suite", v) /\ Judged(IF v = "pass" THEN "survived" ELSE "killed")
      BY <2>2 DEF Judge
    <3>2. Tested("suite", head, changes, v)'
      BY <1>1, <3>1 DEF Learn, Learned, Tested
    <3>3. v = "fail" \/ v = "pass"
      BY <1>1, <3>1 DEF SignTypes, Says, Possible
    <3>4. CASE v = "pass"
      BY <3>1, <3>2, <3>4 DEF Statuses
    <3>5. CASE v # "pass"
      BY <3>1, <3>2, <3>3, <3>5 DEF Statuses
    <3> QED BY <3>4, <3>5
  <2> QED BY <2>1, <2>2
<1>3. /\ mut'.at = "judged" /\ mut'.k = mut.k /\ mut'.original = {}
      /\ mut'.rows = Append(mut.rows, status)
  <2>1. mut' = Mut("judged", mut.k, mut.original, Append(mut.rows, status), 0)
    BY <1>2 DEF Judged
  <2>2. /\ mut'.at = "judged" /\ mut'.k = mut.k /\ mut'.original = mut.original
        /\ mut'.rows = Append(mut.rows, status)
    BY <2>1, MutantOf
  <2> QED BY <1>1, <2>2
<1>4. /\ mut.rows \in Seq(Statuses) /\ mut.k \in Nat
      /\ Len(mut'.rows) = mut.k /\ mut'.rows[mut.k] = status
      /\ \A m \in 1..Len(mut.rows) : mut'.rows[m] = mut.rows[m]
  BY <1>1, <1>3 DEF SignTypes, Mutations
<1>5. RowsTrue'
  <2> SUFFICES ASSUME NEW m \in 1..Len(mut'.rows)
               PROVE /\ mut'.rows[m] = "killed" => Tested("suite", head, {m}, "fail")'
                     /\ mut'.rows[m] = "survived" => Tested("suite", head, {m}, "pass")'
    BY DEF RowsTrue
  <2>1. CASE m = mut.k
    BY <1>1, <1>2, <1>4, <2>1 DEF Tested
  <2>2. CASE m # mut.k
    <3>1. m \in 1..Len(mut.rows)
      BY <1>1, <1>4, <2>2
    <3>2. mut'.rows[m] = mut.rows[m]
      BY <1>4, <3>1
    <3>3. /\ mut.rows[m] = "killed" => Tested("suite", head, {m}, "fail")
          /\ mut.rows[m] = "survived" => Tested("suite", head, {m}, "pass")
      BY <1>1, <3>1 DEF RowsTrue
    <3> QED BY <1>1, <3>2, <3>3 DEF Remembers, Tested
  <2> QED BY <2>1, <2>2
<1>6. Tested("suite", head, {}, "pass")'
  BY <1>1 DEF Remembers, Tested
<1> QED BY <1>1, <1>3, <1>4, <1>5, <1>6 DEF MutationTrue

(* And it is what is written back (Restore).                               *)
LEMMA RestoreKeeps ==
  ASSUME SignTypes, Remembers, Mutants' = Mutants, Restore, MutationTrue
  PROVE MutationTrue'
<1>1. /\ mut.at = "judged" /\ head' = head /\ changes' = {}
      /\ mut' = Mut("next", mut.k + 1, mut.original, mut.rows, 0)
      /\ mut.k \in 1..Mutants /\ Len(mut.rows) = mut.k
      /\ Tested("suite", head, {}, "pass") /\ RowsTrue
  <2>1. /\ mut.at = "judged" /\ head' = head /\ changes' = mut.original
        /\ mut' = Mut("next", mut.k + 1, mut.original, mut.rows, 0)
    BY DEF Restore
  <2>2. /\ mut.original = {} /\ mut.k \in 1..Mutants /\ Len(mut.rows) = mut.k
        /\ Tested("suite", head, {}, "pass") /\ RowsTrue
    BY <2>1 DEF MutationTrue
  <2> QED BY <2>1, <2>2
<1>2. mut'.at = "next" /\ mut'.k = mut.k + 1 /\ mut'.rows = mut.rows
  BY <1>1, MutantOf
<1>3. RowsTrue' /\ Tested("suite", head, {}, "pass")'
  BY <1>1, <1>2, RowsStay DEF Remembers, Tested
<1>4. mut.k + 1 \in 1..(Mutants + 1) /\ mut.k = (mut.k + 1) - 1
  BY <1>1 DEF SignTypes, Mutants, Bounded
<1> QED BY <1>1, <1>2, <1>3, <1>4 DEF MutationTrue

(* The exit code is 0 only on a good score (MutateEnds).                   *)
LEMMA ScoreKeeps ==
  ASSUME SignTypes, Remembers, Mutants' = Mutants, MutateEnds, MutationTrue
  PROVE MutationTrue'
<1>1. /\ mut.at = "next" /\ mut.k > Mutants /\ head' = head /\ changes' = {}
      /\ mut' = Mut("exit", mut.k, mut.original, mut.rows, IF GatePass THEN 0 ELSE 1)
      /\ mut.k \in 1..(Mutants + 1) /\ Len(mut.rows) = mut.k - 1
      /\ Tested("suite", head, {}, "pass") /\ RowsTrue
  <2>1. /\ mut.at = "next" /\ mut.k > Mutants /\ head' = head /\ changes' = changes
        /\ mut' = Mut("exit", mut.k, mut.original, mut.rows, IF GatePass THEN 0 ELSE 1)
    BY DEF MutateEnds
  <2>2. /\ changes = {} /\ mut.k \in 1..(Mutants + 1) /\ Len(mut.rows) = mut.k - 1
        /\ Tested("suite", head, {}, "pass") /\ RowsTrue
    BY <2>1 DEF MutationTrue
  <2> QED BY <2>1, <2>2
<1>2. mut'.at = "exit" /\ mut'.rc = IF GatePass THEN 0 ELSE 1
  BY <1>1, MutantOf
<1>3. Len(mut.rows) = Mutants
  BY <1>1 DEF SignTypes, Mutants, Bounded
<1>4. GatePass => MutationEarned(head)
  BY <1>1, <1>3, ScoreIsEarned
<1>5. MutationEarned(head) => MutationEarned(head)'
  <2>1. PICK h : h = head
    OBVIOUS
  <2>2. MutationEarned(h) => MutationEarned(h)'
    BY EarnedStays
  <2> QED BY <1>1, <2>1, <2>2
<1> QED BY <1>1, <1>2, <1>4, <1>5 DEF MutationTrue

(* The mutation gate passes only if the run did (MutationDone).            *)
LEMMA DoneKeeps ==
  ASSUME SignTypes, Phase, MutationDone, StillClean',
         StillClean => VerdictsTrue /\ MutationTrue
  PROVE VerdictsTrue' /\ MutationTrue'
<1>1. /\ sign.at = "mutation" /\ mut.at = "exit" /\ mut' = NoMut
      /\ UNCHANGED <<head, changes, says>>
  BY DEF MutationDone
<1>2. Remembers /\ Mutants' = Mutants
  BY StepRemembers, TypesKept DEF SignOffNext, SignOffStep
<1>3. PICK v \in Verdicts :
        Verdict(v) /\ v = IF mut.rc = 0 /\ results = "pass" THEN "PASS" ELSE "FAIL"
  BY DEF MutationDone, Verdicts
<1>4. StillClean /\ v # "FAIL"
  BY <1>1, <1>3, CleanBefore
<1>5. mut.rc = 0 /\ MutationEarned(head) /\ changes = {}
  BY <1>1, <1>3, <1>4 DEF MutationTrue
<1>6. MutationEarned(head)'
  <2>1. PICK h : h = head
    OBVIOUS
  <2>2. MutationEarned(h)'
    BY <1>2, <1>5, <2>1, EarnedStays
  <2> QED BY <1>1, <2>1, <2>2
<1>7. PICK k : k = Len(sign.verdicts) + 1
  OBVIOUS
<1>8. ~(k <= Len(Gates))
  BY <1>1, <1>7, GateNames DEF Phase
<1>9. VerdictsTrue'
  BY <1>1, <1>2, <1>3, <1>4, <1>6, <1>7, <1>8, VerdictsKept
<1>10. mut'.at = "idle"
  BY <1>1 DEF NoMut, Mut
<1> QED BY <1>1, <1>5, <1>9, <1>10, Outside

(* A step of a sign-off that is still clean keeps what it has found true.  *)
LEMMA CleanKept ==
  ASSUME SignInv, SignOffNext, StillClean'
  PROVE VerdictsTrue' /\ MutationTrue'
<1> USE DEF SignInv
<1>1. Remembers /\ Mutants' = Mutants
  BY StepRemembers, TypesKept
<1>2. CASE Edit \/ Commit \/ Discard \/ Report
  BY <1>2 DEF Edit, Commit, Discard, Report, NoSign, StillClean
<1>3. CASE StartSignOff
  BY <1>3, StartKeeps
<1>4. CASE SkipGate \/ RunGate \/ StartMutation
  BY <1>4, GatesKeep
<1>5. CASE GateTimesOut \/ MutationTimesOut
  <2>1. Verdict("FAIL") /\ "FAIL" \in Verdicts /\ sign.at # "idle"
    BY <1>5 DEF GateTimesOut, MutationTimesOut, AtGate, Verdicts
  <2> QED BY <2>1, CleanBefore
<1>6. CASE MutationSteps
  <2>1. sign' = sign /\ head' = head
    BY <1>6 DEF MutationSteps, Baseline, Apply, Judge, MutantErrs, Restore, MutateEnds
  <2>2. StillClean
    BY <2>1 DEF StillClean
  <2>3. VerdictsTrue'
    BY <1>1, <2>1, <2>2, VerdictsStay
  <2>4. MutationTrue'
    BY <1>1, <1>6, <2>2, BaselineKeeps, ApplyKeeps, JudgeKeeps, RestoreKeeps, ScoreKeeps
       DEF MutationSteps
  <2> QED BY <2>3, <2>4
<1>7. CASE MutationDone
  BY <1>7, DoneKeeps
<1> QED BY <1>2, <1>3, <1>4, <1>5, <1>6, <1>7 DEF SignOffNext, SignOffStep, MutationSteps

(* All gates have been passed when the report says STABLE (Report).        *)
LEMMA ReportIsTrue ==
  ASSUME SignInv, Report, Stable'
  PROVE GatesEarned(head) /\ MutationEarned(head)
<1>1. /\ sign.at = "gates" /\ Len(sign.verdicts) = Len(AllGates)
      /\ report' = [commit |-> head, dirty |-> sign.dirty,
           passed |-> "FAIL" \notin {sign.verdicts[i] : i \in DOMAIN sign.verdicts},
           complete |-> "SKIPPED" \notin {sign.verdicts[i] : i \in DOMAIN sign.verdicts}]
  BY DEF Report
<1>2. ~sign.dirty /\ \A i \in DOMAIN sign.verdicts : sign.verdicts[i] \notin {"FAIL", "SKIPPED"}
  BY <1>1 DEF Stable
<1>3. /\ sign.verdicts \in Seq(Verdicts) /\ Gates \in Seq(STRING)
      /\ Len(sign.verdicts) = Len(Gates) + 1
  BY <1>1, GateNames DEF SignInv, SignTypes, SignOffs, AllGates
<1>4. \A i \in 1..Len(Gates) + 1 : sign.verdicts[i] = "PASS"
  BY <1>2, <1>3 DEF Verdicts
<1>5. VerdictsTrue
  BY <1>1, <1>2, <1>3 DEF SignInv, StillClean
<1> QED BY <1>3, <1>4, <1>5 DEF VerdictsTrue, GatesEarned

(* A report stays earned until the next one is written.                    *)
LEMMA ReportKept ==
  ASSUME SignInv, SignOffNext
  PROVE ReportTrue'
<1>1. Remembers /\ Mutants' = Mutants
  BY StepRemembers, TypesKept DEF SignInv
<1>2. CASE Report
  <2>1. SUFFICES ASSUME Stable' PROVE (GatesEarned(report.commit) /\ MutationEarned(report.commit))'
    BY DEF ReportTrue
  <2>2. PICK h : h = head
    OBVIOUS
  <2>3. GatesEarned(h) /\ MutationEarned(h)
    BY <1>2, <2>1, <2>2, ReportIsTrue
  <2>4. GatesEarned(h)' /\ MutationEarned(h)'
    BY <1>1, <2>3, EarnedStays
  <2>5. report'.commit = h
    BY <1>2, <2>2 DEF Report
  <2> QED BY <2>4, <2>5
<1>3. CASE UNCHANGED report
  <2>1. SUFFICES ASSUME Stable' PROVE (GatesEarned(report.commit) /\ MutationEarned(report.commit))'
    BY DEF ReportTrue
  <2>2. PICK h : h = report.commit
    OBVIOUS
  <2>3. GatesEarned(h) /\ MutationEarned(h)
    BY <1>3, <2>1, <2>2 DEF SignInv, ReportTrue, Stable
  <2>4. GatesEarned(h)' /\ MutationEarned(h)'
    BY <1>1, <2>3, EarnedStays
  <2> QED BY <1>3, <2>2, <2>4
<1>4. Report \/ UNCHANGED report
  BY DEF SignOffNext, SignOffStep, Edit, Commit, Discard, StartSignOff, SkipGate, RunGate,
         GateTimesOut, StartMutation, Baseline, Apply, Judge, MutantErrs, Restore,
         MutateEnds, MutationDone, MutationTimesOut
<1> QED BY <1>2, <1>3, <1>4

(* What MutationEarned says, in the words of StableEarned.                 *)
LEMMA EarnedIsStable ==
  ASSUME SignTypes, ReportTrue
  PROVE StableEarned
<1> SUFFICES ASSUME Stable PROVE StableEarned
  BY DEF StableEarned
<1>1. PICK h : h = report.commit
  OBVIOUS
<1>2. GatesEarned(h) /\ MutationEarned(h)
  BY <1>1 DEF ReportTrue
<1>3. PICK dead \in SUBSET (1..Mutants) :
        /\ \A m \in dead : Tested("suite", h, {m}, "fail")
        /\ \A m \in (1..Mutants) \ dead : Tested("suite", h, {m}, "pass")
        /\ 5 * Cardinality(dead) >= 4 * Mutants
  BY <1>2 DEF MutationEarned
<1>4. dead = {m \in 1..Mutants : /\ <<"suite", h, {m}>> \in DOMAIN says
                                 /\ says[<<"suite", h, {m}>>] = "fail"}
  BY <1>3 DEF Tested
<1>5. (1..Mutants) \ dead = {m \in 1..Mutants : /\ <<"suite", h, {m}>> \in DOMAIN says
                                                /\ says[<<"suite", h, {m}>>] = "pass"}
  BY <1>3 DEF Tested
<1>6. \A g \in {"suite"} \cup {Gates[i] : i \in DOMAIN Gates} :
        <<g, h, {}>> \in DOMAIN says /\ says[<<g, h, {}>>] = "pass"
  <2>1. \A i \in 1..Len(Gates) : Tested(Gates[i], h, {}, "pass")
    BY <1>2 DEF GatesEarned
  <2>2. Tested("suite", h, {}, "pass")
    BY <1>2 DEF MutationEarned
  <2>3. DOMAIN Gates = 1..Len(Gates)
    BY GateNames
  <2> QED BY <2>1, <2>2, <2>3 DEF Tested
<1>7. ((1..Mutants) \ dead) \cup dead = 1..Mutants
  OBVIOUS
<1> QED BY <1>1, <1>3, <1>4, <1>5, <1>6, <1>7, Zenon DEF StableEarned

(* A sign-off that says STABLE is earned by the commit it names (signoff's *)
(* main, mutate's main), for any gates and any number of mutants.          *)
THEOREM StableIsEarned == Spec => []StableEarned
<1>1. Init => SignInv
  <2> SUFFICES ASSUME Init PROVE SignInv
    OBVIOUS
  <2>1. PICK b \in Signings : SignInit(b)
    <3>1. command \in Commands /\ \E b \in Only("signoff", Signings) : SignInit(b)
      BY DEF Init
    <3>2. Only("signoff", Signings) \subseteq Signings
      BY SigningAssumption DEF Only
    <3> QED BY <3>1, <3>2
  <2>2. budget \in Bounded
    BY <2>1, SigningAssumption DEF SignInit, Bounded
  <2>3. SignTypes
    BY <2>1, <2>2 DEF SignInit, SignTypes, SignOffs, Mutations, NoSign, NoMut, Mut
  <2>4. Phase /\ ~StillClean /\ ~Stable
    BY <2>1 DEF SignInit, NoSign, NoMut, Mut, NoReport, Phase, StillClean, Stable
  <2> QED BY <2>3, <2>4 DEF SignInv, ReportTrue
<1>2. SignInv /\ [Next]_vars => SignInv'
  <2> SUFFICES ASSUME SignInv, [Next]_vars PROVE SignInv'
    OBVIOUS
  <2>1. SignOffNext \/ UNCHANGED signVars
    BY DEF Next, vars, In, Others
  <2>2. CASE SignOffNext
    BY <2>2, TypesKept, CleanKept, ReportKept DEF SignInv
  <2>3. CASE UNCHANGED signVars
    <3>1. UNCHANGED <<head, changes, says, sign, mut, report, budget>>
      BY <2>3 DEF signVars
    <3>2. SignTypes' = SignTypes /\ Phase' = Phase /\ StillClean' = StillClean
          /\ Stable' = Stable /\ Mutants' = Mutants
      BY <3>1 DEF SignTypes, Phase, StillClean, Stable, Mutants
    <3>3. \A g, h, S, v : Tested(g, h, S, v)' = Tested(g, h, S, v)
      BY <3>1 DEF Tested
    <3>4. /\ \A h : GatesEarned(h)' = GatesEarned(h)
          /\ \A h : MutationEarned(h)' = MutationEarned(h)
      BY <3>2, <3>3 DEF GatesEarned, MutationEarned
    <3>5. RowsTrue' = RowsTrue
      BY <3>1, <3>3 DEF RowsTrue
    <3>6. VerdictsTrue' = VerdictsTrue
      BY <3>1, <3>3, <3>4 DEF VerdictsTrue
    <3>7. MutationTrue' = MutationTrue
      BY <3>1, <3>2, <3>3, <3>4, <3>5 DEF MutationTrue
    <3>8. ReportTrue' = ReportTrue
      BY <3>1, <3>2, <3>4 DEF ReportTrue
    <3> QED BY <3>2, <3>6, <3>7, <3>8 DEF SignInv
  <2> QED BY <2>1, <2>2, <2>3
<1>3. SignInv => StableEarned
  BY EarnedIsStable DEF SignInv
<1> QED BY <1>1, <1>2, <1>3, PTL DEF Spec

-----------------------------------------------------------------------------
(* Formal runs and red-team evaluations.                                   *)

Has(source, check, good) ==
  <<source, check>> \in DOMAIN finds /\ finds[<<source, check>>] \in good

Covered == {"reached", "deep"}

(* What the i-th props file must have found for r to go on unharmed.       *)
Passed(r, i) ==
  /\ r = "vacuity" => Has(Clean, <<"cover", Props[i][1]>>, Covered)
  /\ r # "vacuity" => Has(Source(r), <<"bmc", Props[i][1]>>, {"pass"})
  /\ r \in Inductive => Has(Source(r), <<"induct", Props[i][1]>>, {"pass"})
SimPassed(r) == r \in Candidates => Has(r, <<"sim", r>>, {"pass"})
AllPassed(r) == SimPassed(r) /\ \A i \in DOMAIN Props : Passed(r, i)

(* A good verdict of r, in the terms above.                                *)
GoodEnd(r) ==
  /\ fr[r].verdict = "PASS" => AllPassed(r)
  /\ fr[r].verdict = "SURVIVED_WITNESSED" =>
       /\ r \in Candidates /\ AllPassed(r)
       /\ Has(r, <<"witness", r>>, {"fail"}) /\ Has(Clean, <<"witness", r>>, {"pass"})

(* The names in r's directory lead to its own source.                      *)
Copied(r) ==
  <<Dir(r), module(r)>> \in DOMAIN copy /\ copy[<<Dir(r), module(r)>>] = Source(r)
Built(r) ==
  <<Dir(r), props(r)>> \in DOMAIN smt2 /\ smt2[<<Dir(r), props(r)>>] = Source(r)

Loop == {"build", "yosys", "solve", "induct"}

(* While r is undecided and nothing has failed, all props files before the *)
(* one in hand have passed.                                                *)
RunInv(r) ==
  /\ fr[r] = Progress(fr[r].at, fr[r].k, fr[r].ok, fr[r].verdict)
  /\ fr[r].k \in DOMAIN Props
  /\ fr[r].at # "done" => fr[r].verdict = "none"
  /\ fr[r].at = "gates" => fr[r].k = 1
  /\ fr[r].at = "yosys" => Copied(r)
  /\ fr[r].at \in {"solve", "induct"} => Built(r)
  /\ fr[r].at = "induct" => r \in Inductive /\ Has(Source(r), <<"bmc", props(r)>>, {"pass"})
  /\ fr[r].at \in Loop /\ fr[r].ok => SimPassed(r) /\ \A i \in 1..(fr[r].k - 1) : Passed(r, i)
  /\ fr[r].at = "judge" /\ fr[r].ok => AllPassed(r)
  /\ fr[r].at = "witness" => r \in Candidates /\ AllPassed(r)
  /\ GoodEnd(r)

(* No two runs that are under way have the same directory.                 *)
OneAtATime == \A q, r \in Running : q # r => Dir(q) # Dir(r)

FormalInv ==
  fr = [r \in DOMAIN fr |-> fr[r]] /\ OneAtATime /\ \A r \in DOMAIN fr : RunInv(r)

-----------------------------------------------------------------------------
(* A step of r leaves what was found; only its own witness is written      *)
(* over.                                                                   *)
Grows(r) ==
  \A s, c, good : c # <<"witness", r>> /\ Has(s, c, good) => Has(s, c, good)'

(* A step of r leaves the files in the other directories.                  *)
LeavesFiles(r) ==
  \A d, x : d # Dir(r) =>
    /\ <<d, x>> \in DOMAIN copy =>
         <<d, x>> \in DOMAIN copy' /\ copy'[<<d, x>>] = copy[<<d, x>>]
    /\ <<d, x>> \in DOMAIN smt2 =>
         <<d, x>> \in DOMAIN smt2' /\ smt2'[<<d, x>>] = smt2[<<d, x>>]

(* What a check finds is found from then on (run_smtbmc).                  *)
LEMMA FindsOnce ==
  ASSUME NEW r, NEW source, NEW check, NEW options,
         NEW v \in Finds(source, check, options), Found(source, check, v)
  PROVE Grows(r) /\ Has(source, check, {v})' /\ \A good : v \in good => Has(source, check, good)'
BY DEF Finds, Found, Possible, Learned, Grows, Has

(* What has passed stays passed.                                           *)
LEMMA PassedStays ==
  ASSUME NEW r, NEW q, Grows(r)
  PROVE /\ \A i : Passed(q, i) => Passed(q, i)'
        /\ SimPassed(q) => SimPassed(q)'
        /\ AllPassed(q) => AllPassed(q)'
<1>1. ASSUME NEW i, Passed(q, i) PROVE Passed(q, i)'
  BY <1>1 DEF Grows, Passed
<1>2. ASSUME SimPassed(q) PROVE SimPassed(q)'
  BY <1>2 DEF Grows, SimPassed
<1> QED BY <1>1, <1>2 DEF AllPassed

(* A step of r is none of another run's business, if that has ended or is  *)
(* in another directory.                                                   *)
LEMMA Elsewhere ==
  ASSUME NEW r, NEW q \in DOMAIN fr, q # r, RunInv(q), fr'[q] = fr[q],
         Grows(r), LeavesFiles(r),
         fr[q].at = "done" \/ UNCHANGED <<copy, smt2>> \/ Dir(q) # Dir(r)
  PROVE RunInv(q)'
<1>1. fr[q].at # "done" => (Copied(q) => Copied(q)')
  BY DEF Copied, LeavesFiles, module
<1>2. fr[q].at # "done" => (Built(q) => Built(q)')
  BY DEF Built, LeavesFiles, props
<1>3. Has(Source(q), <<"bmc", props(q)>>, {"pass"}) => Has(Source(q), <<"bmc", props(q)>>, {"pass"})'
  <2>1. PICK x, own : x = props(q) /\ own = Source(q) OBVIOUS
  <2>2. x = props(q)' BY <2>1 DEF props
  <2>3. Has(own, <<"bmc", x>>, {"pass"}) => Has(own, <<"bmc", x>>, {"pass"})'
    BY DEF Grows
  <2> QED BY <2>1, <2>2, <2>3
<1>4. GoodEnd(q) => GoodEnd(q)'
  <2>1. Has(q, <<"witness", q>>, {"fail"}) => Has(q, <<"witness", q>>, {"fail"})'
    BY DEF Grows
  <2>2. Has(Clean, <<"witness", q>>, {"pass"}) => Has(Clean, <<"witness", q>>, {"pass"})'
    BY DEF Grows
  <2> QED BY <2>1, <2>2, PassedStays DEF GoodEnd
<1> QED BY <1>1, <1>2, <1>3, <1>4, PassedStays DEF RunInv

(* One run steps: it is enough to look at that run.                        *)
LEMMA OneRun ==
  ASSUME NEW r \in DOMAIN fr, NEW v, FormalInv, fr[r].at # "done", fr' = [fr EXCEPT ![r] = v],
         Grows(r), LeavesFiles(r), RunInv(r)'
  PROVE FormalInv'
<1>1. /\ DOMAIN fr' = DOMAIN fr /\ fr' = [q \in DOMAIN fr' |-> fr'[q]]
      /\ \A q \in DOMAIN fr : q # r => fr'[q] = fr[q]
  BY DEF FormalInv
<1>2. \A q \in DOMAIN fr : q # r => fr[q].at = "done" \/ Dir(q) # Dir(r)
  BY DEF FormalInv, OneAtATime, Running
<1>3. ASSUME NEW q \in DOMAIN fr' PROVE RunInv(q)'
  <2>1. CASE q = r BY <2>1
  <2>2. CASE q # r BY <1>1, <1>2, <2>2, Elsewhere DEF FormalInv
  <2> QED BY <2>1, <2>2
<1>4. OneAtATime'
  <2>1. Running' \subseteq Running
    BY <1>1 DEF Running
  <2> QED BY <2>1 DEF FormalInv, OneAtATime, Dir
<1> QED BY <1>1, <1>3, <1>4 DEF FormalInv

(* What a run that goes on looks like afterwards.                          *)
LEMMA TurnsTo ==
  ASSUME NEW r \in DOMAIN fr, FormalInv, NEW where, NEW k, NEW ok, Turns(r, where, k, ok)
  PROVE /\ fr'[r].at = where /\ fr'[r].k = k /\ fr'[r].verdict = fr[r].verdict
        /\ fr'[r] = Progress(fr'[r].at, fr'[r].k, fr'[r].ok, fr'[r].verdict)
        /\ fr'[r].ok => fr[r].ok /\ ok
BY DEF Turns, Progress, FormalInv

(* What a run that only takes a step looks like afterwards.                *)
LEMMA StepsTo ==
  ASSUME NEW r \in DOMAIN fr, FormalInv, NEW where, Goes(r, where)
  PROVE /\ fr'[r].at = where /\ fr'[r].k = fr[r].k /\ fr'[r].verdict = fr[r].verdict
        /\ fr'[r].ok = fr[r].ok
        /\ fr'[r] = Progress(fr'[r].at, fr'[r].k, fr'[r].ok, fr'[r].verdict)
BY DEF Goes, Progress, FormalInv

(* What a run that ends looks like afterwards.                             *)
LEMMA EndsAs ==
  ASSUME NEW r \in DOMAIN fr, FormalInv, NEW verdict, Ends(r, verdict)
  PROVE /\ fr'[r].at = "done" /\ fr'[r].k = fr[r].k /\ fr'[r].verdict = verdict
        /\ fr'[r] = Progress(fr'[r].at, fr'[r].k, fr'[r].ok, fr'[r].verdict)
BY DEF Ends, Progress, FormalInv

(* The props files are numbered from one.                                  *)
LEMMA Numbered ==
  /\ Len(Props) \in Nat /\ Len(Props) > 0 /\ DOMAIN Props = 1..Len(Props)
BY FormalAssumption

(* Going on within the loop, with nothing new passed.                      *)
LEMMA LoopKeeps ==
  ASSUME NEW r \in DOMAIN fr, FormalInv, NEW where \in Loop,
         fr[r].at \in Loop, Goes(r, where), Grows(r), LeavesFiles(r),
         where = "yosys" => Copied(r)',
         where \in {"solve", "induct"} => Built(r)',
         where = "induct" => r \in Inductive /\ Has(Source(r), <<"bmc", props(r)>>, {"pass"})'
  PROVE FormalInv'
<1>2. /\ fr'[r].at = where /\ fr'[r].k = fr[r].k /\ fr'[r].verdict = fr[r].verdict
      /\ fr'[r] = Progress(fr'[r].at, fr'[r].k, fr'[r].ok, fr'[r].verdict)
      /\ fr'[r].ok = fr[r].ok
  BY StepsTo
<1>3. RunInv(r) BY DEF FormalInv
<1>4. fr[r].verdict = "none" BY <1>3 DEF RunInv, Loop
<1>5. GoodEnd(r)' BY <1>2, <1>4 DEF GoodEnd
<1>6. fr'[r].ok => SimPassed(r)' /\ \A i \in 1..(fr'[r].k - 1) : Passed(r, i)'
  BY <1>2, <1>3, PassedStays DEF RunInv
<1>7. RunInv(r)'
  BY <1>2, <1>3, <1>4, <1>5, <1>6 DEF RunInv, Loop
<1> QED BY <1>7, OneRun DEF Goes, Loop

(* Going on to the next props file, with this one passed if all is well.   *)
LEMMA NextKeeps ==
  ASSUME NEW r \in DOMAIN fr, FormalInv, NEW ok, fr[r].at \in Loop, NextProps(r, ok),
         Grows(r), LeavesFiles(r), NEW K, K = fr[r].k, ok => Passed(r, K)'
  PROVE FormalInv'
<1>1. RunInv(r) BY DEF FormalInv
<1>2. K \in 1..Len(Props) /\ fr[r].verdict = "none" BY <1>1, Numbered DEF RunInv, Loop
<1>3. ASSUME fr[r].ok, ok PROVE SimPassed(r)' /\ \A i \in 1..K : Passed(r, i)'
  <2>1. SimPassed(r)' BY <1>1, <1>3, PassedStays DEF RunInv
  <2>2. ASSUME NEW i \in 1..K PROVE Passed(r, i)'
    <3>1. CASE i = K BY <1>3, <3>1
    <3>2. CASE i # K
      <4>1. i \in 1..(K - 1) BY <1>2, <3>2, Numbered
      <4>2. Passed(r, i) BY <1>1, <1>3, <4>1 DEF RunInv
      <4> QED BY <4>2, PassedStays
    <3> QED BY <3>1, <3>2
  <2> QED BY <2>1, <2>2
<1>4. CASE K < Len(Props)
  <2>1. Turns(r, "build", K + 1, ok) BY <1>4 DEF NextProps
  <2>2. /\ fr'[r].at = "build" /\ fr'[r].k = K + 1 /\ fr'[r].verdict = fr[r].verdict
        /\ fr'[r] = Progress(fr'[r].at, fr'[r].k, fr'[r].ok, fr'[r].verdict)
        /\ fr'[r].ok => fr[r].ok /\ ok
    BY <2>1, TurnsTo
  <2>3. GoodEnd(r)' BY <1>2, <2>2 DEF GoodEnd
  <2>4. fr'[r].ok => SimPassed(r)' /\ \A i \in 1..(fr'[r].k - 1) : Passed(r, i)'
    BY <1>2, <1>3, <2>2
  <2>5. RunInv(r)' BY <1>2, <1>4, <2>2, <2>3, <2>4, Numbered DEF RunInv, Loop
  <2> QED BY <2>1, <2>5, OneRun DEF Turns, Loop
<1>5. CASE ~(K < Len(Props))
  <2>1. Turns(r, "judge", K, ok) BY <1>5 DEF NextProps
  <2>2. /\ fr'[r].at = "judge" /\ fr'[r].k = K /\ fr'[r].verdict = fr[r].verdict
        /\ fr'[r] = Progress(fr'[r].at, fr'[r].k, fr'[r].ok, fr'[r].verdict)
        /\ fr'[r].ok => fr[r].ok /\ ok
    BY <2>1, TurnsTo
  <2>3. GoodEnd(r)' BY <1>2, <2>2 DEF GoodEnd
  <2>4. fr'[r].ok => AllPassed(r)'
    BY <1>2, <1>3, <1>5, <2>2, Numbered DEF AllPassed
  <2>5. RunInv(r)' BY <1>2, <2>2, <2>3, <2>4, Numbered DEF RunInv, Loop
  <2> QED BY <2>1, <2>5, OneRun DEF Turns, Loop
<1> QED BY <1>4, <1>5

-----------------------------------------------------------------------------
(* A candidate's own gates come before the formal ones (main).             *)
LEMMA FormalGatesKeep ==
  ASSUME NEW r \in DOMAIN fr, FormalInv, Invalid(r) \/ SimGates(r)
  PROVE FormalInv'
<1>1. RunInv(r) BY DEF FormalInv
<1>2. CASE Invalid(r)
  <2>1. Ends(r, "INVALID") /\ Grows(r) /\ LeavesFiles(r)
    BY <1>2 DEF Invalid, Grows, Has, LeavesFiles
  <2>2. RunInv(r)' BY <1>1, <2>1, EndsAs DEF RunInv, GoodEnd, Loop
  <2> QED BY <1>2, <2>1, <2>2, OneRun DEF Ends, Invalid, At
<1>3. CASE SimGates(r)
  <2>1. PICK v \in Finds(r, <<"sim", r>>, {"pass", "fail"}) :
          Found(r, <<"sim", r>>, v) /\ Turns(r, "build", 1, v = "pass")
    BY <1>3 DEF SimGates
  <2>2. Grows(r) /\ Has(r, <<"sim", r>>, {v})' BY <2>1, FindsOnce
  <2>3. LeavesFiles(r) BY <1>3 DEF SimGates, LeavesFiles
  <2>4. Turns(r, "build", 1, v = "pass") BY <2>1
  <2>5. fr[r].at = "gates" /\ fr[r].k = 1 /\ fr[r].verdict = "none"
    BY <1>1, <1>3 DEF SimGates, At, RunInv
  <2>6. /\ fr'[r].at = "build" /\ fr'[r].k = 1 /\ fr'[r].verdict = "none"
        /\ fr'[r] = Progress(fr'[r].at, fr'[r].k, fr'[r].ok, fr'[r].verdict)
        /\ fr'[r].ok => v = "pass"
    <3> DEFINE good == v = "pass"
    <3>1. Turns(r, "build", 1, good) BY <2>4
    <3> HIDE DEF good
    <3>2. /\ fr'[r].at = "build" /\ fr'[r].k = 1 /\ fr'[r].verdict = "none"
          /\ fr'[r] = Progress(fr'[r].at, fr'[r].k, fr'[r].ok, fr'[r].verdict)
          /\ fr'[r].ok => good
      BY <2>5, <3>1, TurnsTo
    <3> QED BY <3>2 DEF good
  <2>7. fr'[r].ok => SimPassed(r)' BY <2>2, <2>6 DEF SimPassed
  <2>8. RunInv(r)' BY <2>6, <2>7, Numbered DEF RunInv, GoodEnd, Loop
  <2> QED BY <2>2, <2>3, <2>4, <2>5, <2>8, OneRun DEF Turns
<1> QED BY <1>2, <1>3

(* Alone in its directory, r writes its source over what it finds there    *)
(* (generate_debug_copy, build_smt2).                                      *)
LEMMA BuildKeeps ==
  ASSUME NEW r \in DOMAIN fr, FormalInv, DebugCopy(r) \/ Yosys(r) \/ BuildError(r)
  PROVE FormalInv'
<1>1. RunInv(r) BY DEF FormalInv
<1>2. CASE DebugCopy(r)
  <2>1. Goes(r, "yosys") /\ fr[r].at \in Loop BY <1>2 DEF DebugCopy, At, Loop
  <2>2. Grows(r) /\ LeavesFiles(r)
    BY <1>1, <1>2 DEF DebugCopy, Grows, Has, LeavesFiles, Learned
  <2>3. module(r)' = module(r)
    BY <2>1, StepsTo DEF module
  <2>4. Copied(r)' BY <1>1, <1>2, <2>3 DEF DebugCopy, Copied, Learned
  <2> QED BY <2>1, <2>2, <2>4, LoopKeeps DEF Loop
<1>3. CASE Yosys(r)
  <2>1. Goes(r, "solve") /\ fr[r].at \in Loop /\ Copied(r)
    BY <1>1, <1>3 DEF Yosys, At, Loop, RunInv
  <2>2. Grows(r) /\ LeavesFiles(r)
    BY <1>1, <1>3 DEF Yosys, Grows, Has, LeavesFiles, Learned
  <2>3. props(r)' = props(r)
    BY <2>1, StepsTo DEF props
  <2>4. Built(r)' BY <1>1, <1>3, <2>1, <2>3 DEF Yosys, Built, Copied, Learned
  <2> QED BY <2>1, <2>2, <2>4, LoopKeeps DEF Loop
<1>4. CASE BuildError(r)
  <2>1. NextProps(r, FALSE) /\ fr[r].at \in Loop /\ Grows(r) /\ LeavesFiles(r)
    BY <1>4 DEF BuildError, At, Loop, Grows, Has, LeavesFiles
  <2>2. PICK K : K = fr[r].k OBVIOUS
  <2> QED BY <2>1, <2>2, NextKeeps
<1> QED BY <1>2, <1>3, <1>4

(* A solver's answer is about r's own source (run_smtbmc, main).           *)
LEMMA SolveKeeps ==
  ASSUME NEW r \in DOMAIN fr, FormalInv, Bmc(r) \/ Induct(r) \/ Cover(r)
  PROVE FormalInv'
<1>1. RunInv(r) BY DEF FormalInv
<1>2. fr[r].at \in {"solve", "induct"} BY DEF Bmc, Induct, Cover, At
<1>3. Solved(r) = Source(r) /\ fr[r].at \in Loop
  BY <1>1, <1>2 DEF RunInv, Built, Solved, Loop
<1>4. LeavesFiles(r) BY DEF Bmc, Induct, Cover, LeavesFiles
<1>5. PICK K, own : K = fr[r].k /\ own = Source(r) OBVIOUS
<1>6. PICK x : x = Props[K][1] OBVIOUS
<1>7. props(r) = x BY <1>5, <1>6 DEF props
<1>8. /\ r = "vacuity" => Source(r) = Clean
      /\ r \in Inductive => r # "vacuity"
  BY FormalAssumption DEF Source, Inductive, Makes
<1>9. CASE Bmc(r)
  <2>1. PICK v \in Finds(own, <<"bmc", x>>, {"pass", "fail"}) :
          /\ Found(own, <<"bmc", x>>, v)
          /\ IF v = "pass" /\ r \in Inductive THEN Goes(r, "induct")
                                              ELSE NextProps(r, v = "pass")
    BY <1>3, <1>5, <1>7, <1>9 DEF Bmc
  <2>2. Grows(r) /\ Has(own, <<"bmc", x>>, {v})' BY <2>1, FindsOnce
  <2>3. CASE v = "pass" /\ r \in Inductive
    <3>1. Goes(r, "induct") BY <2>1, <2>3
    <3>2. props(r)' = x BY <1>7, <3>1, StepsTo DEF props
    <3>3. Built(r)'
      BY <1>1, <1>2, <1>9, <3>2, <1>7 DEF RunInv, Built, Bmc
    <3>4. Has(Source(r), <<"bmc", props(r)>>, {"pass"})'
      BY <1>5, <2>2, <2>3, <3>2
    <3> QED BY <1>3, <1>4, <2>2, <2>3, <3>1, <3>3, <3>4, LoopKeeps DEF Loop
  <2>4. CASE ~(v = "pass" /\ r \in Inductive)
    <3>1. NextProps(r, v = "pass") BY <2>1, <2>4
    <3>2. r # "vacuity" BY <1>9 DEF Bmc
    <3>3. v = "pass" => Passed(r, K)'
      BY <1>5, <1>6, <2>2, <2>4, <3>2 DEF Passed
    <3> QED BY <1>3, <1>4, <1>5, <2>2, <3>1, <3>3, NextKeeps
  <2> QED BY <2>3, <2>4
<1>10. CASE Induct(r)
  <2>1. PICK v \in Finds(own, <<"induct", x>>, {"pass", "fail"}) :
          Found(own, <<"induct", x>>, v) /\ NextProps(r, v = "pass")
    BY <1>3, <1>5, <1>7, <1>10 DEF Induct
  <2>2. Grows(r) /\ Has(own, <<"induct", x>>, {v})' BY <2>1, FindsOnce
  <2>3. r \in Inductive /\ Has(own, <<"bmc", x>>, {"pass"})
    BY <1>1, <1>5, <1>7, <1>10 DEF Induct, At, RunInv
  <2>4. Has(own, <<"bmc", x>>, {"pass"})' BY <2>2, <2>3 DEF Grows
  <2>5. v = "pass" => Passed(r, K)'
    BY <1>5, <1>6, <1>8, <2>2, <2>3, <2>4 DEF Passed
  <2> QED BY <1>3, <1>4, <1>5, <2>1, <2>2, <2>5, NextKeeps
<1>11. CASE Cover(r)
  <2>1. PICK v \in Finds(own, <<"cover", x>>, CoverKinds) :
          /\ Found(own, <<"cover", x>>, v)
          /\ NextProps(r, v = "reached" \/ deep_policy(v))
    BY <1>3, <1>5, <1>7, <1>11 DEF Cover
  <2>2. Grows(r) /\ \A good : v \in good => Has(own, <<"cover", x>>, good)'
    BY <2>1, FindsOnce
  <2>3. r = "vacuity" BY <1>11 DEF Cover
  <2>4. v = "reached" \/ deep_policy(v) => Passed(r, K)'
    BY <1>5, <1>6, <1>8, <2>2, <2>3 DEF Passed, deep_policy, Covered
  <2> QED BY <1>3, <1>4, <1>5, <2>1, <2>2, <2>4, NextKeeps
<1> QED BY <1>9, <1>10, <1>11

(* A run that is killed has no good verdict, and its files are not         *)
(* looked at again (sh's time-out, redteam_eval.py and blind_mutate.py).   *)
LEMMA StoppedKeeps ==
  ASSUME NEW r \in DOMAIN fr, FormalInv, Stopped(r)
  PROVE FormalInv'
<1>1. RunInv(r) /\ fr[r].at \in Loop BY DEF FormalInv, Stopped, Loop
<1>2. Grows(r) /\ LeavesFiles(r) BY DEF Stopped, Grows, Has, LeavesFiles
<1>3. fr[r].verdict = "none" /\ fr[r].k \in DOMAIN Props BY <1>1 DEF RunInv, Loop
<1>4. CASE r \in Candidates
  <2>1. Turns(r, "judge", fr[r].k, FALSE) BY <1>4 DEF Stopped
  <2>2. /\ fr'[r].at = "judge" /\ fr'[r].k = fr[r].k /\ fr'[r].verdict = "none"
        /\ fr'[r] = Progress(fr'[r].at, fr'[r].k, fr'[r].ok, fr'[r].verdict)
        /\ ~fr'[r].ok
    <3> DEFINE good == FALSE
    <3>1. Turns(r, "judge", fr[r].k, good) BY <2>1
    <3> HIDE DEF good
    <3>2. /\ fr'[r].at = "judge" /\ fr'[r].k = fr[r].k /\ fr'[r].verdict = "none"
          /\ fr'[r] = Progress(fr'[r].at, fr'[r].k, fr'[r].ok, fr'[r].verdict)
          /\ fr'[r].ok => good
      BY <1>3, <3>1, TurnsTo
    <3> QED BY <3>2 DEF good
  <2>3. RunInv(r)' BY <1>3, <2>2 DEF RunInv, GoodEnd, Loop
  <2> QED BY <1>1, <1>2, <2>1, <2>3, OneRun DEF Turns, Loop
<1>5. CASE r \notin Candidates
  <2>1. Ends(r, "killed") BY <1>5 DEF Stopped
  <2>2. RunInv(r)' BY <1>3, <2>1, EndsAs DEF RunInv, GoodEnd, Loop
  <2> QED BY <1>1, <1>2, <2>1, <2>2, OneRun DEF Ends, Loop
<1> QED BY <1>4, <1>5

(* The verdict, or on to the witness of a candidate that survives (main).  *)
LEMMA ConcludeKeeps ==
  ASSUME NEW r \in DOMAIN fr, FormalInv, Conclude(r)
  PROVE FormalInv'
<1>1. RunInv(r) /\ fr[r].at = "judge" BY DEF FormalInv, Conclude, At
<1>2. Grows(r) /\ LeavesFiles(r) BY DEF Conclude, Grows, Has, LeavesFiles
<1>3. fr[r].ok => AllPassed(r) /\ AllPassed(r)'
  BY <1>1, <1>2, PassedStays DEF RunInv
<1>4. CASE r \notin Candidates /\ Ends(r, IF fr[r].ok THEN "PASS" ELSE "FAIL")
  <2>1. PICK verdict : verdict = IF fr[r].ok THEN "PASS" ELSE "FAIL" OBVIOUS
  <2>2. Ends(r, verdict) BY <1>4, <2>1
  <2>3. GoodEnd(r)' BY <1>3, <2>1, <2>2, EndsAs DEF GoodEnd
  <2>4. RunInv(r)' BY <1>1, <2>2, <2>3, EndsAs DEF RunInv, Loop
  <2> QED BY <1>1, <1>2, <2>2, <2>4, OneRun DEF Ends
<1>5. CASE r \in Candidates /\ (Ends(r, "KILLED") \/ Ends(r, "SURVIVED_NO_WITNESS"))
  <2>1. PICK verdict \in {"KILLED", "SURVIVED_NO_WITNESS"} : Ends(r, verdict)
    BY <1>5
  <2>2. GoodEnd(r)' BY <2>1, EndsAs DEF GoodEnd
  <2>3. RunInv(r)' BY <1>1, <2>1, <2>2, EndsAs DEF RunInv, Loop
  <2> QED BY <1>1, <1>2, <2>1, <2>3, OneRun DEF Ends
<1>6. CASE r \in Candidates /\ fr[r].ok /\ Goes(r, "witness")
  <2>1. /\ fr'[r].at = "witness" /\ fr'[r].k = fr[r].k /\ fr'[r].verdict = "none"
        /\ fr'[r] = Progress(fr'[r].at, fr'[r].k, fr'[r].ok, fr'[r].verdict)
    BY <1>1, <1>6, StepsTo DEF RunInv
  <2>2. RunInv(r)' BY <1>1, <1>3, <1>6, <2>1 DEF RunInv, GoodEnd, Loop
  <2> QED BY <1>1, <1>2, <1>6, <2>2, OneRun DEF Goes
<1> QED BY <1>4, <1>5, <1>6 DEF Conclude

(* A witness that fails on the mutant and passes on the clean tree         *)
(* (replay, run_cocotb_witness).                                           *)
LEMMA WitnessKeeps ==
  ASSUME NEW r \in DOMAIN fr, FormalInv, Witness(r)
  PROVE FormalInv'
<1>1. RunInv(r) /\ fr[r].at = "witness" BY DEF FormalInv, Witness, At
<1>2. r \in Candidates /\ AllPassed(r) /\ r # Clean
  BY <1>1, FormalAssumption DEF RunInv, Clean
<1>3. PICK m \in {"pass", "fail", "error"}, c \in {"pass", "fail", "error"} :
        /\ finds' = Learned(Learned(finds, <<Clean, <<"witness", r>>>>, c),
                            <<r, <<"witness", r>>>>, m)
        /\ Ends(r, IF Witnessed(m, c) THEN "SURVIVED_WITNESSED" ELSE "INVALID")
  BY DEF Witness
<1>4. Grows(r) BY <1>3 DEF Grows, Has, Learned
<1>5. LeavesFiles(r) BY DEF Witness, LeavesFiles
<1>6. Has(r, <<"witness", r>>, {m})' /\ Has(Clean, <<"witness", r>>, {c})'
  BY <1>2, <1>3 DEF Has, Learned
<1>7. PICK verdict : verdict = IF Witnessed(m, c) THEN "SURVIVED_WITNESSED" ELSE "INVALID"
  OBVIOUS
<1>8. Ends(r, verdict) BY <1>3, <1>7
<1>9. GoodEnd(r)'
  <2>1. AllPassed(r)' BY <1>2, <1>4, PassedStays
  <2>2. verdict = "SURVIVED_WITNESSED" => m = "fail" /\ c = "pass"
    BY <1>7 DEF Witnessed
  <2> QED BY <1>2, <1>6, <1>8, <2>1, <2>2, EndsAs DEF GoodEnd
<1>10. RunInv(r)' BY <1>1, <1>8, <1>9, EndsAs DEF RunInv, Loop
<1> QED BY <1>1, <1>4, <1>5, <1>8, <1>10, OneRun DEF Ends

-----------------------------------------------------------------------------
(* A run is started beside those under way only if it has a directory, or  *)
(* none of them is in the default one.                                     *)
LEMMA StartKeepsRuns ==
  ASSUME NEW r, FormalInv, FormalStart(r)
  PROVE FormalInv'
<1> DEFINE new == Progress(IF r \in Candidates THEN "gates" ELSE "build", 1, TRUE, "none")
<1>1. /\ r \notin DOMAIN fr /\ UNCHANGED <<finds, copy, smt2>>
      /\ r \in Sweeps \/ Running \subseteq Sweeps
      /\ fr' = Learned(fr, r, new)
  BY DEF FormalStart
<1>2. /\ new.at = (IF r \in Candidates THEN "gates" ELSE "build")
      /\ new.k = 1 /\ new.verdict = "none"
      /\ new = Progress(new.at, new.k, new.ok, new.verdict)
  BY DEF Progress
<1> HIDE DEF new
<1>3. /\ DOMAIN fr' = DOMAIN fr \cup {r} /\ fr'[r] = new
      /\ fr' = [q \in DOMAIN fr' |-> fr'[q]]
      /\ \A q \in DOMAIN fr : fr'[q] = fr[q]
  BY <1>1 DEF Learned
<1>4. RunInv(r)'
  <2>1. fr'[r].at \in Loop => SimPassed(r)' BY <1>2, <1>3 DEF SimPassed, Loop
  <2>2. fr'[r].k \in DOMAIN Props /\ \A i \in 1..(fr'[r].k - 1) : Passed(r, i)'
    BY <1>2, <1>3, Numbered
  <2>3. fr'[r].at \in {"gates", "build"} BY <1>2, <1>3
  <2>4. GoodEnd(r)' BY <1>2, <1>3 DEF GoodEnd
  <2> QED BY <1>2, <1>3, <2>1, <2>2, <2>3, <2>4 DEF RunInv
<1>5. ASSUME NEW q \in DOMAIN fr PROVE RunInv(q)'
  <2>1. RunInv(q) /\ q # r /\ fr'[q] = fr[q] BY <1>1, <1>3 DEF FormalInv
  <2>2. \A x : Grows(x) BY <1>1 DEF Grows, Has
  <2>3. LeavesFiles(r) BY <1>1 DEF LeavesFiles
  <2> QED BY <1>1, <2>1, <2>2, <2>3, Elsewhere
<1>6. OneAtATime'
  <2>1. Running' \subseteq Running \cup {r} BY <1>3 DEF Running
  <2>2. ASSUME NEW q \in Running, q # r PROVE Dir(q) # Dir(r)
    BY <1>1, <2>2, FormalAssumption DEF Dir
  <2> QED BY <2>1, <2>2 DEF FormalInv, OneAtATime, Dir
<1> QED BY <1>3, <1>4, <1>5, <1>6 DEF FormalInv

(* At the start there is no run.                                           *)
LEMMA FormalStarts == Init => FormalInv
<1>1. FormalInit => fr = [r \in DOMAIN fr |-> fr[r]] /\ DOMAIN fr = {}
  BY DEF FormalInit
<1> QED BY <1>1 DEF Init, FormalInv, OneAtATime, Running

(* Every step of every run keeps the invariant.                            *)
LEMMA FormalKeeps == FormalInv /\ [Next]_vars => FormalInv'
<1> SUFFICES ASSUME FormalInv, [Next]_vars PROVE FormalInv' OBVIOUS
<1>1. CASE UNCHANGED formalVars
  <2>1. ASSUME NEW r \in DOMAIN fr, RunInv(r) PROVE RunInv(r)'
    <3>1. UNCHANGED <<finds, copy, smt2, fr>>
      BY <1>1 DEF formalVars
    <3>2. \A source, check, good : Has(source, check, good)' = Has(source, check, good)
      BY <3>1 DEF Has
    <3>3. /\ SimPassed(r)' = SimPassed(r)
          /\ \A i : Passed(r, i)' = Passed(r, i)
      BY <3>2 DEF SimPassed, Passed
    <3>4. AllPassed(r)' = AllPassed(r)
      BY <3>3 DEF AllPassed
    <3>5. Copied(r)' = Copied(r) /\ Built(r)' = Built(r) /\ props(r)' = props(r)
      BY <3>1 DEF Copied, Built, module, props
    <3>6. GoodEnd(r)' = GoodEnd(r)
      BY <3>1, <3>2, <3>4 DEF GoodEnd
    <3> QED BY <2>1, <3>1, <3>2, <3>3, <3>4, <3>5, <3>6 DEF RunInv
  <2>2. OneAtATime'
    BY <1>1 DEF formalVars, FormalInv, OneAtATime, Running, Dir
  <2> QED BY <1>1, <2>1, <2>2 DEF formalVars, FormalInv
<1>2. ASSUME NEW r, FormalStep(r) PROVE FormalInv'
  <2>1. r \in DOMAIN fr
    BY <1>2 DEF FormalStep, Invalid, SimGates, DebugCopy, Yosys, BuildError, Bmc,
       Induct, Cover, Conclude, Witness, At
  <2> QED BY <1>2, <2>1, FormalGatesKeep, BuildKeeps, SolveKeeps, ConcludeKeeps, WitnessKeeps
       DEF FormalStep
<1>3. ASSUME NEW r, Stopped(r) PROVE FormalInv'
  BY <1>3, StoppedKeeps DEF Stopped
<1> QED BY <1>1, <1>2, <1>3, StartKeepsRuns DEF Next, In, Others, FormalNext, vars

(* Any number of runs of any sources, those in the default directory one   *)
(* after another and a sweep's side by side, each over what earlier and    *)
(* stopped runs left, end in verdicts that their own sources have earned:  *)
(* PROVEN by both steps of every props file, no vacuous cover, and a       *)
(* surviving candidate that passes every gate and alone breaks its         *)
(* witness.                                                                *)
THEOREM EarnedVerdicts == Spec => []VerdictEarned
<1>1. FormalInv => VerdictEarned
  <2> SUFFICES ASSUME FormalInv, NEW r \in DOMAIN fr
               PROVE VerdictEarned!(r)
    BY DEF VerdictEarned
  <2>1. GoodEnd(r) BY DEF FormalInv, RunInv
  <2> QED BY <2>1, FormalAssumption
       DEF GoodEnd, AllPassed, SimPassed, Passed, Has, Every, Source, Clean, Covered, Makes,
           Inductive
<1>2. FormalInv /\ [Next]_vars => FormalInv' BY FormalKeeps
<1> QED BY <1>1, <1>2, FormalStarts, PTL DEF Spec
=============================================================================
