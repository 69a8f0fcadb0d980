------------------------------ MODULE SignOff ------------------------------
(***************************************************************************)
(* Sign-off (src/scripts/signoff.py) and the mutation gate it ends with    *)
(* (src/scripts/mutate.py), which edits src/ in place, one mutant after    *)
(* the other.  The working tree of src/ is the set of its differences from *)
(* the commit: mutants, and the edit of a developer.  What a gate says of  *)
(* a tree is decided the first time it is asked.                           *)
(***************************************************************************)
EXTENDS Integers, Sequences, FiniteSets, Answers

CONSTANTS
  Gates,     \* the gates before mutation, in order
  Signings   \* bound: [mutants, commits, signs, timeouts, errors], how many of each

ASSUME SigningAssumption ==
  /\ Gates \in Seq(STRING) /\ Len(Gates) > 0
  /\ \A i \in DOMAIN Gates : Gates[i] # "mutation"
  /\ Signings # {}
  /\ Signings \subseteq [mutants : Nat, commits : Nat, signs : Nat, timeouts : Nat, errors : Nat]

VARIABLES
  head,    \* the commit
  changes, \* differences of src/ from it: TheEdit and mutants
  staged,  \* whether the edit is in the index
  says,    \* <<gate, commit, changes>> -> "pass" or "fail"
  sign,    \* the sign-off that runs
  mut,     \* the mutation run in it
  results, \* mutation_results.json: whether the gate passed, or "none"
  report,  \* signoff_report.json
  budget     \* the number of mutants, and what is left of the bounds

signVars == <<head, changes, staged, says, sign, mut, results, report, budget>>

TheEdit == 0   \* mutants are 1..Mutants
NoSign == [at |-> "idle", skip |-> {}, dirty |-> FALSE, verdicts |-> <<>>]
Mut(where, k, original, judged, rc) ==
  [at |-> where, k |-> k, original |-> original, rows |-> judged, rc |-> rc]
NoMut == Mut("idle", 0, {}, <<>>, 0)
NoReport == [commit |-> 0, dirty |-> TRUE, passed |-> FALSE, complete |-> FALSE]

SignInit(b) ==
  /\ head = 1 /\ changes = {} /\ staged = FALSE /\ says = <<>>
  /\ sign = NoSign /\ mut = NoMut /\ results = "none" /\ report = NoReport
  /\ budget = b

Mutants == budget.mutants
AllGates == Append(Gates, "mutation")
gate == AllGates[Len(sign.verdicts) + 1]

Says(g) == Possible(says, <<g, head, changes>>, {"pass", "fail"})
Learn(g, v) == says' = Learned(says, <<g, head, changes>>, v)

-----------------------------------------------------------------------------
(* Between sign-offs a developer edits, stages, commits or discards.       *)
Edit ==
  /\ sign.at = "idle" /\ changes = {}
  /\ changes' = {TheEdit} /\ staged' \in BOOLEAN
  /\ UNCHANGED <<head, says, sign, mut, results, report, budget>>

Commit ==
  /\ sign.at = "idle" /\ changes = {TheEdit} /\ budget.commits > 0
  /\ head' = head + 1 /\ changes' = {} /\ staged' = FALSE
  /\ budget' = [budget EXCEPT !.commits = @ - 1]
  /\ UNCHANGED <<says, sign, mut, results, report>>

Discard ==
  /\ sign.at = "idle" /\ changes # {}
  /\ changes' = {} /\ staged' = FALSE
  /\ UNCHANGED <<head, says, sign, mut, results, report, budget>>

(* git is asked once, at the start.                                        *)
StartSignOff ==
  /\ sign.at = "idle" /\ budget.signs > 0
  /\ \E skip \in {{}, {Gates[1]}} :
       sign' = [at |-> "gates", skip |-> skip, dirty |-> changes # {}, verdicts |-> <<>>]
  /\ budget' = [budget EXCEPT !.signs = @ - 1]
  /\ UNCHANGED <<head, changes, staged, says, mut, results, report>>

Verdict(v) ==
  sign' = [at |-> "gates", skip |-> sign.skip, dirty |-> sign.dirty,
           verdicts |-> Append(sign.verdicts, v)]
AtGate == sign.at = "gates" /\ Len(sign.verdicts) < Len(AllGates)

SkipGate ==
  /\ AtGate /\ gate \in sign.skip
  /\ Verdict("SKIPPED")
  /\ UNCHANGED <<head, changes, staged, says, mut, results, report, budget>>

RunGate ==
  /\ AtGate /\ gate \notin sign.skip /\ gate # "mutation"
  /\ \E v \in Says(gate) :
       Learn(gate, v) /\ Verdict(IF v = "pass" THEN "PASS" ELSE "FAIL")
  /\ UNCHANGED <<head, changes, staged, mut, results, report, budget>>

(* sh gives up, for a gate other than mutation.                            *)
GateTimesOut ==
  /\ AtGate /\ gate \notin sign.skip /\ gate # "mutation" /\ budget.timeouts > 0
  /\ Verdict("FAIL")
  /\ budget' = [budget EXCEPT !.timeouts = @ - 1]
  /\ UNCHANGED <<head, changes, staged, says, mut, results, report>>

StartMutation ==
  /\ AtGate /\ gate \notin sign.skip /\ gate = "mutation"
  /\ results' = "none"
  /\ sign' = [sign EXCEPT !.at = "mutation"]
  /\ mut' = Mut("start", 0, {}, <<>>, 0)
  /\ UNCHANGED <<head, changes, staged, says, report, budget>>

-----------------------------------------------------------------------------
(* git diff compares src/ with the index, then the baseline is run.        *)
Dirty == changes \ (IF staged THEN {TheEdit} ELSE {}) # {}

Baseline ==
  /\ mut.at = "start"
  /\ IF Dirty
     THEN mut' = Mut("exit", 0, {}, <<>>, 1) /\ UNCHANGED says
     ELSE \E v \in Says("suite") :
            /\ Learn("suite", v)
            /\ mut' = IF v = "pass" THEN Mut("next", 1, {}, <<>>, 0)
                                    ELSE Mut("exit", 0, {}, <<>>, 1)
  /\ UNCHANGED <<head, changes, staged, sign, results, report, budget>>

(* The original is read and the mutant written.                            *)
Apply ==
  /\ mut.at = "next" /\ mut.k <= Mutants
  /\ mut' = Mut("applied", mut.k, changes, mut.rows, 0)
  /\ changes' = changes \cup {mut.k}
  /\ UNCHANGED <<head, staged, says, sign, results, report, budget>>

Judged(status) ==
  mut' = Mut("judged", mut.k, mut.original, Append(mut.rows, status), 0)

Judge ==
  /\ mut.at = "applied"
  /\ \E v \in Says("suite") :
       /\ Learn("suite", v)
       /\ Judged(IF v = "pass" THEN "survived" ELSE "killed")
  /\ UNCHANGED <<head, changes, staged, sign, results, report, budget>>

(* An edit does not apply, or the mutant does not build.                   *)
MutantErrs ==
  /\ mut.at = "applied" /\ budget.errors > 0
  /\ budget' = [budget EXCEPT !.errors = @ - 1]
  /\ Judged("error")
  /\ UNCHANGED <<head, changes, staged, says, sign, results, report>>

Restore ==
  /\ mut.at = "judged"
  /\ changes' = mut.original
  /\ mut' = Mut("next", mut.k + 1, mut.original, mut.rows, 0)
  /\ UNCHANGED <<head, staged, says, sign, results, report, budget>>

CountOf(status) == Cardinality({i \in DOMAIN mut.rows : mut.rows[i] = status})

GatePassIgnoresErrors ==   \* fault: mutants that did not run do not count
  LET scored == CountOf("killed") + CountOf("survived") IN
  scored > 0 /\ 5 * CountOf("killed") >= 4 * scored

(* The score is at least 0.80 and nothing errored.                         *)
GatePass ==
  LET scored == CountOf("killed") + CountOf("survived") IN
  scored > 0 /\ 5 * CountOf("killed") >= 4 * scored /\ CountOf("error") = 0

MutateEnds ==
  /\ mut.at = "next" /\ mut.k > Mutants
  /\ results' = IF GatePass THEN "pass" ELSE "fail"
  /\ mut' = Mut("exit", mut.k, mut.original, mut.rows, IF GatePass THEN 0 ELSE 1)
  /\ UNCHANGED <<head, changes, staged, says, sign, report, budget>>

-----------------------------------------------------------------------------
MutationDone ==
  /\ sign.at = "mutation" /\ mut.at = "exit"
  /\ Verdict(IF mut.rc = 0 /\ results = "pass" THEN "PASS" ELSE "FAIL")
  /\ mut' = NoMut
  /\ UNCHANGED <<head, changes, staged, says, results, report, budget>>

(* sh kills mutate.py, which bash has become: no finally runs.             *)
MutationTimesOut ==
  /\ sign.at = "mutation" /\ mut.at # "exit" /\ budget.timeouts > 0
  /\ Verdict("FAIL")
  /\ mut' = NoMut
  /\ budget' = [budget EXCEPT !.timeouts = @ - 1]
  /\ UNCHANGED <<head, changes, staged, says, results, report>>

Report ==
  /\ sign.at = "gates" /\ Len(sign.verdicts) = Len(AllGates)
  /\ report' = [commit |-> head, dirty |-> sign.dirty,
                passed |-> "FAIL" \notin {sign.verdicts[i] : i \in DOMAIN sign.verdicts},
                complete |-> "SKIPPED" \notin {sign.verdicts[i] : i \in DOMAIN sign.verdicts}]
  /\ sign' = NoSign
  /\ UNCHANGED <<head, changes, staged, says, mut, results, budget>>

Stable == report.passed /\ report.complete /\ ~report.dirty

SignOffStep ==
  \/ SkipGate \/ RunGate \/ GateTimesOut \/ StartMutation
  \/ Baseline \/ Apply \/ Judge \/ MutantErrs \/ Restore \/ MutateEnds
  \/ MutationDone \/ MutationTimesOut \/ Report
SignOffNext == Edit \/ Commit \/ Discard \/ StartSignOff \/ SignOffStep

-----------------------------------------------------------------------------
(* A sign-off that says STABLE is earned by the commit it names: every     *)
(* gate passed on exactly that source, four fifths of the mutants, each    *)
(* applied to it alone, were killed, and none went untested.  A mutant     *)
(* that an earlier sign-off has left in src/ is never signed off.          *)
StableEarned ==
  Stable =>
    LET clean(g) == <<g, report.commit, {}>>
        mutant(m) == <<"suite", report.commit, {m}>>
        with(v) == {m \in 1..Mutants : mutant(m) \in DOMAIN says /\ says[mutant(m)] = v}
    IN
    /\ \A g \in {"suite"} \cup {Gates[i] : i \in DOMAIN Gates} :
         clean(g) \in DOMAIN says /\ says[clean(g)] = "pass"
    /\ with("pass") \cup with("fail") = 1..Mutants
    /\ 5 * Cardinality(with("fail")) >= 4 * Mutants

(* "UNCONDITIONALLY restore in try/finally -- a crash mid-mutant must      *)
(* never leave src/ mutated" (mutate.py:20-21).                            *)
Restored == mut.at = "idle" => changes \subseteq {TheEdit}
=============================================================================
