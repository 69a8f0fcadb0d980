------------------------------ MODULE Minimize ------------------------------
(***************************************************************************)
(* minimize and replay of src/scripts/triage.py: delta debugging of a      *)
(* failing program, while another session may replay the same seed in the  *)
(* same tree.  A program is the set of its instructions that are not       *)
(* replaced by NOP.                                                        *)
(***************************************************************************)
EXTENDS SeedRun

VARIABLES
  size,      \* the program of the seed: instructions 1..size
  stage,     \* "first", "search", "final"; "clean", "done", "raised"
  signature, \* the check to reproduce
  items,     \* what is left, in order
  n,         \* into how many pieces it is cut
  next,      \* the next of the tests of this round
  written,   \* failure.json in --out
  replays    \* bound: replays that may still be started

minVars == <<size, stage, signature, items, n, next, written, replays>>

Min == "minimize"
Rep == "replay"
ASSUME ProcsAssumption == {Min, Rep} \subseteq Procs /\ NoOne \notin Procs

Elems(s) == {s[i] : i \in DOMAIN s}
Full == 1..size

MinInit(z) ==
  /\ size = z[1] /\ replays = z[2]
  /\ stage = "first" /\ signature = "none" /\ items = <<>>
  /\ n = 2 /\ next = 1 /\ written = "none"

AtMost(a, b) == IF a < b THEN a ELSE b
AtLeast(a, b) == IF a > b THEN a ELSE b
Chunk == AtLeast(1, Len(items) \div n)
Pieces == (Len(items) + Chunk - 1) \div Chunk

(* Piece i is what comes after the first Before(i) items, up to Upto(i).    *)
Before(i) == (i - 1) * Chunk
Upto(i) == AtMost(i * Chunk, Len(items))
Subset(i) == SubSeq(items, Before(i) + 1, Upto(i))

(* No instruction is in items twice: all that are not in a piece are       *)
(* those before and after it.                                              *)
Complement(i) == SubSeq(items, 1, Before(i)) \o SubSeq(items, Upto(i) + 1, Len(items))

(* The tests of a round: each piece alone, then all but each piece, unless *)
(* that is nothing.                                                        *)
Tests == IF Pieces > 1 THEN 2 * Pieces ELSE Pieces
Test(i) == IF i <= Pieces THEN Subset(i) ELSE Complement(i - Pieces)

(* The loop goes on to a new round, or ends.                               *)
Round(left, cut) ==
  /\ items' = left /\ n' = cut /\ next' = 1
  /\ stage' = IF Len(left) >= 2 THEN "search" ELSE "final"

FailedTest ==
  Round(Test(next), IF next <= Pieces THEN 2 ELSE AtLeast(n - 1, 2))

PassedTestStopsEarly ==   \* fault: the finest cut is not tried
  CASE next < Tests -> next' = next + 1 /\ UNCHANGED <<items, n, stage>>
    [] 2 * n >= Len(items) /\ next = Tests
         -> stage' = "final" /\ UNCHANGED <<items, n, next>>
    [] OTHER -> Round(items, AtMost(Len(items), 2 * n))

PassedTestNeverStops ==   \* fault: n cannot exceed the number of items
  CASE next < Tests -> next' = next + 1 /\ UNCHANGED <<items, n, stage>>
    [] n > Len(items) /\ next = Tests
         -> stage' = "final" /\ UNCHANGED <<items, n, next>>
    [] OTHER -> Round(items, AtMost(Len(items), 2 * n))

PassedTest ==
  CASE next < Tests -> next' = next + 1 /\ UNCHANGED <<items, n, stage>>
    [] n >= Len(items) /\ next = Tests
         -> stage' = "final" /\ UNCHANGED <<items, n, next>>
    [] OTHER -> Round(items, AtMost(Len(items), 2 * n))

-----------------------------------------------------------------------------
Still == UNCHANGED <<size, replays>>

RunFirst ==
  /\ stage = "first" /\ run[Min].at = "idle"
  /\ Ask(Min, Full)
  /\ UNCHANGED <<verdicts, known, lock, art, orphans, mishap, minVars>>

(* A candidate the golden model does not see halt is not simulated.        *)
Candidate ==
  /\ stage = "search" /\ run[Min].at = "idle"
  /\ LET prog == Elems(Test(next)) IN
     \E v \in Possible(known, prog, {"hang", "run"}) :
       IF v = "hang"
       THEN /\ PassedTest
            /\ known' = Learned(known, prog, v)
            /\ UNCHANGED <<verdicts, lock, art, run, orphans, mishap, signature, written>>
            /\ Still
       ELSE /\ Ask(Min, prog)
            /\ UNCHANGED <<verdicts, known, lock, art, orphans, mishap, minVars>>

RunFinal ==
  /\ stage = "final" /\ run[Min].at = "idle"
  /\ Ask(Min, Elems(items))
  /\ UNCHANGED <<verdicts, known, lock, art, orphans, mishap, minVars>>

Fails(f) == f = signature

(* What the minimizer does with what run_seed returns.                     *)
MinReads ==
  /\ Release(Min)
  /\ LET f == Returned(Min) IN
     CASE f = "raises" ->
            /\ stage' = "raised"
            /\ UNCHANGED <<signature, items, n, next, written>>
       [] stage = "first" /\ f = "pass" ->
            /\ stage' = "clean"
            /\ UNCHANGED <<signature, items, n, next, written>>
       [] stage = "first" /\ f \notin {"pass", "raises"} ->
            /\ signature' = f
            /\ Round([i \in Full |-> i], 2)
            /\ UNCHANGED written
       [] stage = "search" /\ f # "raises" ->
            /\ IF Fails(f) THEN FailedTest ELSE PassedTest
            /\ UNCHANGED <<signature, written>>
       [] stage = "final" /\ f # "raises" ->
            /\ stage' = IF f = "pass" THEN "raised" ELSE "done"
            /\ written' = IF f = "pass" THEN written ELSE f
            /\ UNCHANGED <<signature, items, n, next>>
  /\ Still

MinTimesOut ==
  /\ TimesOut(Min)
  /\ stage' = "raised"
  /\ UNCHANGED <<signature, items, n, next, written>> /\ Still

Replay ==
  /\ replays > 0 /\ run[Rep].at = "idle"
  /\ replays' = replays - 1
  /\ Ask(Rep, Full)
  /\ UNCHANGED <<verdicts, known, lock, art, orphans, mishap,
                 size, stage, signature, items, n, next, written>>

MinStep == (RunFirst \/ Candidate \/ RunFinal)
SeedStep(p) == (Acquire(p) \/ Simulate(p)) /\ UNCHANGED minVars
RepReads == Release(Rep) /\ UNCHANGED minVars

MinimizeNext ==
  \/ MinStep
  \/ \E p \in Procs : SeedStep(p)
  \/ \E p \in Procs : Breaks(p) /\ UNCHANGED minVars
  \/ MinReads
  \/ MinTimesOut
  \/ Replay
  \/ RepReads
  \/ TimesOut(Rep) /\ UNCHANGED minVars
  \/ OrphanEnds /\ UNCHANGED minVars
=============================================================================
