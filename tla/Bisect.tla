------------------------------- MODULE Bisect -------------------------------
(***************************************************************************)
(* bisect of src/scripts/triage.py: the first commit between good and bad  *)
(* whose src/ makes the program fail, found in a worktree that starts at   *)
(* HEAD and into which src/ of one commit after the other is checked out.  *)
(* A tree of src/ is a function from its files to their versions.          *)
(***************************************************************************)
EXTENDS Integers, Sequences, Answers

VARIABLES
  history, \* <<trees of the commits, oldest first>>; good is `goodTree`
  goodTree,
  src,     \* src/ of the worktree
  outcome, \* tree -> "FAIL" or "pass", once tested
  lo, hi,
  ask      \* what is tested next: "good", "bad", "mid"; or how it ended:
           \* "found" (hi), "fails at good", "passes at bad"

bisectVars == <<history, goodTree, src, outcome, lo, hi, ask>>

BisectInit(h) ==
  /\ goodTree = h[1] /\ history = Tail(h)
  /\ src = history[Len(history)]
  /\ outcome = <<>>
  /\ lo = 0 /\ hi = Len(history)
  /\ ask = "good"

bad == Len(history)
mid == (lo + hi) \div 2

Asked == CASE ask = "good" -> goodTree
           [] ask = "bad" -> history[bad]
           [] ask = "mid" -> history[mid]

(* git checkout sha -- src writes the files of the commit.                 *)
Checkout(tree) == Over(tree, src)

NarrowEarly(l, h) ==   \* fault: the last commit between is not tested
  /\ lo' = l /\ hi' = h
  /\ ask' = IF h - l > 2 THEN "mid" ELSE "found"

Narrow(l, h) ==
  /\ lo' = l /\ hi' = h
  /\ ask' = IF h - l > 1 THEN "mid" ELSE "found"

GoesTo(where) == ask' = where /\ UNCHANGED <<lo, hi>>

(* fails_at, and what cmd_bisect makes of it.                              *)
FailsAt ==
  /\ ask \in {"good", "bad", "mid"}
  /\ src' = Checkout(Asked)
  /\ \E verdict \in Possible(outcome, src', {"FAIL", "pass"}) :
       /\ outcome' = Learned(outcome, src', verdict)
       /\ \/ ask = "good" /\ verdict = "FAIL" /\ GoesTo("fails at good")
          \/ ask = "good" /\ verdict = "pass" /\ GoesTo("bad")
          \/ ask = "bad" /\ verdict = "pass" /\ GoesTo("passes at bad")
          \/ ask = "bad" /\ verdict = "FAIL" /\ Narrow(lo, hi)
          \/ ask = "mid" /\ verdict = "FAIL" /\ Narrow(lo, mid)
          \/ ask = "mid" /\ verdict = "pass" /\ Narrow(mid, hi)
  /\ UNCHANGED <<history, goodTree>>
=============================================================================
