---------------------------- MODULE TriageBench ----------------------------
(***************************************************************************)
(* setup of src/scripts/triage_bench.py for a case with a decoy: two bugs  *)
(* are planted in a copy of the tree, and a seed is looked for whose       *)
(* failure only the primary one explains.  The tree is the set of bugs in  *)
(* it, and what a seed does with it is decided when it is first run.       *)
(***************************************************************************)
EXTENDS Naturals, Answers

CONSTANTS
  Seeds,   \* the number of seeds tried (--seeds)
  Checks   \* checks a seed can fail

VARIABLES
  tree,    \* bugs in the copy of the tree: "primary", "decoy"
  does,    \* <<tree, seed>> -> the check it fails, or "pass"
  seed,    \* the seed under test
  at,      \* "both", "alone", "decoy", "live"; "ready", "refused"
  both, alone,  \* failure records of the runs with both bugs and with one
  failure  \* the record the task names: <<seed, check>>

benchVars == <<tree, does, seed, at, both, alone, failure>>

None == "pass"   \* first_failure returns None
Planted == {"primary", "decoy"}

BenchInit ==
  /\ tree = Planted /\ does = <<>> /\ seed = 1 /\ at = "both"
  /\ both = None /\ alone = None /\ failure = <<>>

Outcomes(s) == Possible(does, <<tree, s>>, Checks \cup {None})
Runs(s, c) == does' = Learned(does, <<tree, s>>, c)

NextSeed == IF seed < Seeds THEN seed' = seed + 1 /\ at' = "both"
                            ELSE seed' = seed /\ at' = "refused"

RunBoth ==
  /\ at = "both"
  /\ \E c \in Outcomes(seed) :
       /\ Runs(seed, c)
       /\ both' = c
       /\ IF c = None THEN NextSeed /\ UNCHANGED tree
          ELSE /\ at' = "alone" /\ tree' = tree \ {"decoy"}
               /\ UNCHANGED seed
  /\ UNCHANGED <<alone, failure>>

RunAlone ==
  /\ at = "alone"
  /\ \E c \in Outcomes(seed) : Runs(seed, c) /\ alone' = c
  /\ tree' = {"decoy"} /\ at' = "decoy"
  /\ UNCHANGED <<seed, both, failure>>

IsolatesAny(decoyAlone) ==   \* fault: the check is not compared
  alone # None /\ decoyAlone = None
Isolates(decoyAlone) ==
  alone # None /\ alone = both /\ decoyAlone = None

(* The primary is put back, and after the loop removed once more to see    *)
(* that the decoy fails on some seed.                                      *)
RunDecoy ==
  /\ at = "decoy"
  /\ \E c \in Outcomes(seed) :
       /\ Runs(seed, c)
       /\ IF Isolates(c)
          THEN /\ failure' = <<seed, both>> /\ at' = "live"
               /\ tree' = {"decoy"} /\ UNCHANGED seed
          ELSE NextSeed /\ tree' = Planted /\ UNCHANGED failure
  /\ UNCHANGED <<both, alone>>

(* first_failure over all seeds stops at the first that fails.             *)
RunLive ==
  /\ at = "live"
  /\ \/ \E s \in 1..Seeds : \E c \in Outcomes(s) \ {None} :
          /\ \A t \in 1..(s - 1) : None \in Outcomes(t)
          /\ does' = Over([k \in {<<tree, t>> : t \in 1..s} |->
                             IF k[2] = s THEN c ELSE None], does)
          /\ at' = "ready"
     \/ /\ \A t \in 1..Seeds : None \in Outcomes(t)
        /\ does' = Over([k \in {<<tree, t>> : t \in 1..Seeds} |-> None], does)
        /\ at' = "refused"
  /\ tree' = Planted
  /\ UNCHANGED <<seed, both, alone, failure>>

BenchNext == RunBoth \/ RunAlone \/ RunDecoy \/ RunLive
=============================================================================
