------------------------------ MODULE SeedRun ------------------------------
(***************************************************************************)
(* One seed through the simulation, as src/scripts/triage.py runs it       *)
(* (run_seed): under a lock per tree the record of an earlier failure is   *)
(* removed, the simulation writes a new one if it fails, and what is then  *)
(* in the tree is the verdict.  A process runs one program at a time; a    *)
(* program is what tells its candidates apart, and what it does is decided *)
(* the first time it is looked at.                                         *)
(***************************************************************************)
EXTENDS Naturals, Sequences, FiniteSets, Answers

CONSTANT Procs  \* processes that run seeds in the tree

VARIABLES
  verdicts,  \* what a simulated program can do: "pass", or a check it fails
  known,     \* program -> what it does; programs nobody looked at are absent
  lock,      \* who holds test/.triage.lock
  art,       \* regression_artifacts/seed_N/failure.json: a check, or "none"
  run,       \* process -> its run
  orphans,   \* simulations whose run_seed has timed out
  mishap     \* bound: what may still go wrong, once, or what did

seedVars == <<verdicts, known, lock, art, run, orphans, mishap>>

NoOne == "nobody"
Run(where, prog, what) == [at |-> where, prog |-> prog, said |-> what]
Idle == Run("idle", {}, "nothing")

SeedInit(mishaps, vs) ==
  /\ verdicts = vs
  /\ known = <<>> /\ lock = NoOne /\ art = "none" /\ orphans = {}
  /\ run = [p \in Procs |-> Idle]
  /\ mishap = mishaps

Does(prog) == Possible(known, prog, verdicts)

Ask(p, prog) == run' = [run EXCEPT ![p] = Run("wait", prog, "nothing")]

AcquireUnlocked(p) ==   \* fault: the lock is not waited for
  /\ run[p].at = "wait"
  /\ lock' = p /\ art' = "none"
  /\ run' = [run EXCEPT ![p] = Run("sim", @.prog, "nothing")]
  /\ UNCHANGED <<verdicts, known, orphans, mishap>>

Acquire(p) ==
  /\ run[p].at = "wait" /\ lock = NoOne
  /\ lock' = p /\ art' = "none"
  /\ run' = [run EXCEPT ![p] = Run("sim", @.prog, "nothing")]
  /\ UNCHANGED <<verdicts, known, orphans, mishap>>

(* The simulation ends; it says on its output whether all seeds passed.    *)
Simulate(p) ==
  /\ run[p].at = "sim"
  /\ \E v \in Does(run[p].prog) :
       /\ known' = Learned(known, run[p].prog, v)
       /\ art' = IF v = "pass" THEN art ELSE v
       /\ run' = [run EXCEPT ![p] = Run("read", @.prog, v)]
  /\ UNCHANGED <<verdicts, lock, orphans, mishap>>

(* It neither passes nor leaves a record: a problem of the build.          *)
Breaks(p) ==
  /\ run[p].at = "sim" /\ "broken" \in mishap
  /\ mishap' = {"broke"}
  /\ run' = [run EXCEPT ![p] = Run("read", @.prog, "broken")]
  /\ UNCHANGED <<verdicts, known, lock, art, orphans>>

(* What run_seed returns, or that it raises.                               *)
Returned(p) ==
  IF art # "none" THEN art ELSE IF run[p].said = "pass" THEN "pass" ELSE "raises"

Release(p) ==
  /\ run[p].at = "read"
  /\ lock' = NoOne
  /\ run' = [run EXCEPT ![p] = Idle]
  /\ UNCHANGED <<verdicts, known, art, orphans, mishap>>

(* subprocess.run gives up after 600 s and kills the shell, not what the   *)
(* shell has started; the lock is released and TimeoutExpired raised.      *)
TimesOut(p) ==
  /\ run[p].at = "sim" /\ "timeout" \in mishap
  /\ mishap' = {"timed out"}
  /\ orphans' = orphans \cup {run[p].prog}
  /\ lock' = NoOne
  /\ run' = [run EXCEPT ![p] = Idle]
  /\ UNCHANGED <<verdicts, known, art>>

OrphanEnds ==
  \E prog \in orphans : \E v \in Does(prog) :
    /\ known' = Learned(known, prog, v)
    /\ art' = IF v = "pass" THEN art ELSE v
    /\ orphans' = orphans \ {prog}
    /\ UNCHANGED <<verdicts, lock, run, mishap>>
=============================================================================
