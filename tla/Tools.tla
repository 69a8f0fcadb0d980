------------------------------- MODULE Tools -------------------------------
(***************************************************************************)
(* The tools of src/scripts and src/formal/scripts, one per behaviour      *)
(* (`command`), and what their results are worth.  They share the source   *)
(* tree but run one after the other; what runs side by side within one is  *)
(* in its module.                                                          *)
(***************************************************************************)
EXTENDS Minimize, Bisect, TriageBench, SignOff, Campaign, FormalRun

CONSTANTS
  Sizes,    \* bound: <<instructions, replays, mishaps, verdicts>>
  Histories \* bound: the trees of good and of the commits up to bad

(* Seeds have programs of some size, and "hang" is no check.               *)
ASSUME SizesAssumption == \A z \in Sizes : z[1] \in Nat /\ "hang" \notin z[4]

VARIABLE command

vars == <<command, seedVars, minVars, bisectVars, benchVars, signVars, campVars, formalVars>>

Commands == {"minimize", "bisect", "setup", "signoff", "campaign", "formal"}

(* What a command does not use has one initial value.                      *)
Only(c, S) == IF command = c THEN S ELSE {CHOOSE x \in S : TRUE}

Init ==
  /\ command \in Commands
  /\ \E z \in Only("minimize", Sizes) : SeedInit(z[3], z[4]) /\ MinInit(z)
  /\ \E h \in Only("bisect", Histories) : BisectInit(h)
  /\ BenchInit
  /\ \E b \in Only("signoff", Signings) : SignInit(b)
  /\ \E b \in Only("campaign", Campaigns), e \in Only("campaign", SUBSET Sites) :
       CampInit(b, e)
  /\ FormalInit

Others(c) ==
  /\ c # "minimize" => UNCHANGED <<seedVars, minVars>>
  /\ c # "bisect" => UNCHANGED bisectVars
  /\ c # "setup" => UNCHANGED benchVars
  /\ c # "signoff" => UNCHANGED signVars
  /\ c # "campaign" => UNCHANGED campVars
  /\ c # "formal" => UNCHANGED formalVars
In(c, Action) == command = c /\ Action /\ Others(c) /\ UNCHANGED command

Next ==
  \/ In("minimize", MinimizeNext)
  \/ In("bisect", FailsAt)
  \/ In("setup", BenchNext)
  \/ In("signoff", SignOffNext)
  \/ In("campaign", CampaignNext)
  \/ In("formal", FormalNext)

(* Each process runs on: the kernel wakes who waits for a lock that is     *)
(* free, and simulations, solvers and suites end or are killed.  Nothing   *)
(* makes anyone start a command.                                           *)
Fairness ==
  /\ WF_vars(In("minimize", MinStep \/ MinReads))
  /\ \A p \in Procs : SF_vars(In("minimize", SeedStep(p)))
  /\ WF_vars(In("minimize", RepReads))
  /\ WF_vars(In("bisect", FailsAt))
  /\ WF_vars(In("setup", BenchNext))
  /\ WF_vars(In("signoff", SignOffStep))
  /\ WF_vars(In("campaign", Campaigning))
  /\ WF_vars(In("campaign", Proving))
  /\ \A r \in FormalRuns : WF_vars(In("formal", FormalStep(r)))

Spec == Init /\ [][Next]_vars
FairSpec == Spec /\ Fairness

-----------------------------------------------------------------------------
TimedOut == {"timed out"}

(* A run returns what its own program does, or raises: it never reads the  *)
(* record of another run.                                                  *)
ReadsOwn ==
  \A p \in Procs :
    run[p].at = "read" =>
      Returned(p) \in {"raises"} \cup
        (IF run[p].prog \in DOMAIN known THEN {known[run[p].prog]} ELSE {})

(* That is what the lock is for, and it does it as long as no run times    *)
(* out (run_seed).                                                         *)
OwnVerdict == mishap # TimedOut => ReadsOwn

(* What minimize leaves still fails the same check, and no instruction of  *)
(* it can be spared: without it the program passes, fails otherwise, or    *)
(* does not halt.  Again as long as no run times out.                      *)
Minimal ==
  stage = "done" /\ mishap # TimedOut =>
    LET least == Elems(items) IN
    /\ known[least] = signature /\ written = signature
    /\ Cardinality(least) > 1 =>
         \A i \in least : LET rest == least \ {i} IN
           rest \in DOMAIN known /\ known[rest] # signature

(* Bisect names a commit that fails and whose predecessor passes.          *)
BlamesTheCommit ==
  ask = "found" =>
    /\ history[hi] \in DOMAIN outcome /\ outcome[history[hi]] = "FAIL"
    /\ LET before == IF hi = 1 THEN goodTree ELSE history[hi - 1] IN
       before \in DOMAIN outcome /\ outcome[before] = "pass"

(* A benchmark task is given with both bugs in the tree, on a seed that    *)
(* the primary alone fails in the same way and the decoy alone passes,     *)
(* while the decoy fails on another (triage_bench.py:214-216, 234).        *)
OnlyPrimaryExplains ==
  at = "ready" =>
    LET s == failure[1] IN
    /\ tree = Planted
    /\ does[<<{"primary"}, s>>] = failure[2]
    /\ does[<<Planted, s>>] = failure[2]
    /\ does[<<{"decoy"}, s>>] = None
    /\ \E t \in 1..Seeds : <<{"decoy"}, t>> \in DOMAIN does
                              /\ does[<<{"decoy"}, t>>] # None

(* Every command that was started ends, also beside others and after       *)
(* time-outs, errors and kills.                                            *)
Quiet ==
  CASE command = "minimize" -> stage \in {"clean", "done", "raised"}
    [] command = "bisect" -> ask \notin {"good", "bad", "mid"}
    [] command = "setup" -> at \in {"ready", "refused"}
    [] command = "signoff" -> sign.at = "idle"
    [] command = "campaign" -> camp.at = "idle" /\ prover.at = "idle"
    [] command = "formal" -> \A r \in DOMAIN fr : fr[r].at = "done"
CommandEnds == []<>Quiet
=============================================================================
