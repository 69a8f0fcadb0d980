----------------------------- MODULE FormalRun -----------------------------
(***************************************************************************)
(* Formal runs (src/formal/scripts: formal_common.py, run_formal.py,       *)
(* vacuity_check.py), the red-team evaluation that contains one            *)
(* (src/scripts/redteam_eval.py) and those of the mutant sweeps            *)
(* (blind_mutate.py, formal_mutants.py).  A run writes a debug copy of its *)
(* source into a scratch directory, synthesises it into an SMT2 file       *)
(* there, and solves that.  A sweep gives each of its runs a directory;    *)
(* all others use the default one, one after the other, and find there     *)
(* what the runs before left, also those that were stopped half-way.  What *)
(* a check makes of a source is decided the first time it is run.          *)
(***************************************************************************)
EXTENDS Naturals, Sequences, FiniteSets, Answers

CONSTANTS
  Candidates, \* red-team candidates; each is evaluated on a copy of its own
  Sweeps,     \* mutants of a sweep; each has a copy, and a directory in it
  Props,      \* props files, in order: <<name, module it is bound to>>
  MaxRuns     \* bound: how many runs are started

Makes == {"prove", "vacuity"}   \* make prove, make vacuity
ASSUME FormalAssumption ==
  /\ Candidates \cap Sweeps = {}
  /\ (Candidates \cup Sweeps) \cap (Makes \cup {"clean", "default"}) = {}
  /\ Props \in Seq(STRING \X STRING) /\ Len(Props) > 0

VARIABLES
  finds,   \* <<source, check>> -> what it finds
  copy,    \* <<directory, module>> -> the source in <module>_dbgcopy.v
  smt2,    \* <<directory, props>> -> the source in its SMT2 file
  fr       \* run -> [at, k, ok, verdict]

formalVars == <<finds, copy, smt2, fr>>

Clean == "clean"
FormalRuns == Candidates \cup Sweeps \cup Makes
Inductive == Sweeps \cup {"prove"}   \* --induct
Source(r) == IF r \in Makes THEN Clean ELSE r
Dir(r) == IF r \in Sweeps THEN r ELSE "default"   \* FORMAL_SCRATCH

Progress(where, k, ok, verdict) ==
  [at |-> where, k |-> k, ok |-> ok, verdict |-> verdict]

FormalInit == finds = <<>> /\ copy = <<>> /\ smt2 = <<>> /\ fr = <<>>

Running == {r \in DOMAIN fr : fr[r].at # "done"}

(* One of the runs without a directory at a time ("run one eval at a       *)
(* time", redteam/AGENT_CONTRACT.md:10), beside any number of a sweep's.   *)
FormalStart(r) ==
  /\ r \notin DOMAIN fr /\ Cardinality(DOMAIN fr) < MaxRuns
  /\ r \in Sweeps \/ Running \subseteq Sweeps
  /\ fr' = Learned(fr, r, Progress(IF r \in Candidates THEN "gates" ELSE "build",
                                   1, TRUE, "none"))
  /\ UNCHANGED <<finds, copy, smt2>>

Finds(source, check, options) ==
  Possible(finds, <<source, check>>, options)
Found(source, check, v) == finds' = Learned(finds, <<source, check>>, v)

At(r, where) == r \in DOMAIN fr /\ fr[r].at = where
Turns(r, where, k, ok) ==
  fr' = [fr EXCEPT ![r] = Progress(where, k, fr[r].ok /\ ok, fr[r].verdict)]
Goes(r, where) ==
  fr' = [fr EXCEPT ![r] = Progress(where, fr[r].k, fr[r].ok, fr[r].verdict)]
Ends(r, verdict) ==
  fr' = [fr EXCEPT ![r] = Progress("done", fr[r].k, fr[r].ok, verdict)]

props(r) == Props[fr[r].k][1]
module(r) == Props[fr[r].k][2]

-----------------------------------------------------------------------------
(* The candidate's edits do not apply, or the mutant does not build.       *)
Invalid(r) ==
  /\ At(r, "gates")
  /\ Ends(r, "INVALID")
  /\ UNCHANGED <<finds, copy, smt2>>

(* Directed, random and board on the copy; formal follows in any case.  A  *)
(* gate that is killed at its time-out has failed.                         *)
SimGates(r) ==
  /\ At(r, "gates")
  /\ \E v \in Finds(r, <<"sim", r>>, {"pass", "fail"}) :
       Found(r, <<"sim", r>>, v) /\ Turns(r, "build", 1, v = "pass")
  /\ UNCHANGED <<copy, smt2>>

(* generate_debug_copy, then the wrapper and the props without bind.       *)
DebugCopy(r) ==
  /\ At(r, "build")
  /\ copy' = Learned(copy, <<Dir(r), module(r)>>, Source(r))
  /\ Goes(r, "yosys")
  /\ UNCHANGED <<finds, smt2>>

Yosys(r) ==
  /\ At(r, "yosys")
  /\ smt2' = Learned(smt2, <<Dir(r), props(r)>>, copy[<<Dir(r), module(r)>>])
  /\ Goes(r, "solve")
  /\ UNCHANGED <<finds, copy>>

NextProps(r, ok) ==
  IF fr[r].k < Len(Props) THEN Turns(r, "build", fr[r].k + 1, ok)
                          ELSE Turns(r, "judge", fr[r].k, ok)

BuildErrorMissed(r) ==   \* fault: it only looks whether there is an SMT2 file
  /\ At(r, "build") \/ At(r, "yosys")
  /\ IF <<Dir(r), props(r)>> \in DOMAIN smt2 THEN Goes(r, "solve") ELSE NextProps(r, FALSE)
  /\ UNCHANGED <<finds, copy, smt2>>

(* A props file whose build fails, before the copy is written or after, is *)
(* reported and the next one taken.                                        *)
BuildError(r) ==
  /\ At(r, "build") \/ At(r, "yosys")
  /\ NextProps(r, FALSE)
  /\ UNCHANGED <<finds, copy, smt2>>

Solved(r) == smt2[<<Dir(r), props(r)>>]

(* BMC; with --induct, induction follows if it passes.                     *)
Bmc(r) ==
  /\ At(r, "solve") /\ r # "vacuity"
  /\ \E v \in Finds(Solved(r), <<"bmc", props(r)>>, {"pass", "fail"}) :
       /\ Found(Solved(r), <<"bmc", props(r)>>, v)
       /\ IF v = "pass" /\ r \in Inductive THEN Goes(r, "induct")
                                       ELSE NextProps(r, v = "pass")
  /\ UNCHANGED <<copy, smt2>>

Induct(r) ==
  /\ At(r, "induct")
  /\ \E v \in Finds(Solved(r), <<"induct", props(r)>>, {"pass", "fail"}) :
       Found(Solved(r), <<"induct", props(r)>>, v) /\ NextProps(r, v = "pass")
  /\ UNCHANGED <<copy, smt2>>

(* Covers that are not reached must be tagged [deep] in a file that names  *)
(* a test that exists.                                                     *)
CoverKinds == {"reached", "deep", "deep, no test", "vacuous"}
deep_policy(v) == v = "deep"

Cover(r) ==
  /\ At(r, "solve") /\ r = "vacuity"
  /\ \E v \in Finds(Solved(r), <<"cover", props(r)>>, CoverKinds) :
       /\ Found(Solved(r), <<"cover", props(r)>>, v)
       /\ NextProps(r, v = "reached" \/ deep_policy(v))
  /\ UNCHANGED <<copy, smt2>>

(* Killed at its time-out, or by hand: its files stay as they are.  To an  *)
(* evaluation that is a failed gate.                                       *)
Stopped(r) ==
  /\ r \in DOMAIN fr /\ fr[r].at \in {"build", "yosys", "solve", "induct"}
  /\ IF r \in Candidates THEN Turns(r, "judge", fr[r].k, FALSE) ELSE Ends(r, "killed")
  /\ UNCHANGED <<finds, copy, smt2>>

-----------------------------------------------------------------------------
Conclude(r) ==
  /\ At(r, "judge")
  /\ \/ r \notin Candidates /\ Ends(r, IF fr[r].ok THEN "PASS" ELSE "FAIL")
     \/ r \in Candidates /\ ~fr[r].ok /\ Ends(r, "KILLED")
     \/ /\ r \in Candidates /\ fr[r].ok
        /\ Ends(r, "SURVIVED_NO_WITNESS") \/ Goes(r, "witness")
  /\ UNCHANGED <<finds, copy, smt2>>

Witnessed(onMutant, onClean) == onMutant = "fail" /\ onClean = "pass"

(* The witness, on the copy with the mutant and on a clean tree; it may    *)
(* not run at all.                                                         *)
Witness(r) ==
  /\ At(r, "witness")
  /\ \E m, c \in {"pass", "fail", "error"} :
       /\ finds' = Learned(Learned(finds, <<Clean, <<"witness", r>>>>, c), <<r, <<"witness", r>>>>, m)
       /\ Ends(r, IF Witnessed(m, c) THEN "SURVIVED_WITNESSED" ELSE "INVALID")
  /\ UNCHANGED <<copy, smt2>>

FormalStep(r) ==
  \/ Invalid(r) \/ SimGates(r) \/ DebugCopy(r) \/ Yosys(r) \/ BuildError(r)
  \/ Bmc(r) \/ Induct(r) \/ Cover(r) \/ Conclude(r) \/ Witness(r)
FormalNext == \E r \in FormalRuns : FormalStart(r) \/ FormalStep(r) \/ Stopped(r)

-----------------------------------------------------------------------------
Every(source, kind, good) ==
  \A i \in DOMAIN Props :
    LET k == <<source, <<kind, Props[i][1]>>>> IN
    k \in DOMAIN finds /\ finds[k] \in good

(* A good verdict is earned by the run's own source, never by a file that  *)
(* an earlier run, or a stopped one, left in the directory: PROVEN by both *)
(* steps on every props file, no vacuous cover, and a candidate that       *)
(* survives with a witness passes every gate, breaks the witness and is    *)
(* the only thing that breaks it.                                          *)
VerdictEarned ==
  \A r \in DOMAIN fr :
    /\ r \in Inductive /\ fr[r].verdict = "PASS" =>
         Every(Source(r), "bmc", {"pass"}) /\ Every(Source(r), "induct", {"pass"})
    /\ r = "vacuity" /\ fr[r].verdict = "PASS" => Every(Clean, "cover", {"reached", "deep"})
    /\ fr[r].verdict = "SURVIVED_WITNESSED" =>
         /\ finds[<<r, <<"sim", r>>>>] = "pass" /\ Every(r, "bmc", {"pass"})
         /\ finds[<<r, <<"witness", r>>>>] = "fail"
         /\ finds[<<Clean, <<"witness", r>>>>] = "pass"
=============================================================================
