------------------------------- MODULE Ledger -------------------------------
(***************************************************************************)
(* The record of agent runs (src/scripts/ledger.py): one file per open     *)
(* run, holding the outcome of the gates so far, and runs.jsonl, to which *)
(* finish appends.  A run id is a number; what cmd_start snapshots, and    *)
(* the comparison with it, is the parameter `clean` of finish.             *)
(***************************************************************************)
EXTENDS Integers, Sequences, FiniteSets, Answers

VARIABLES
  open,   \* open runs: id -> whether its gates ran and all passed, and
          \* whether the file is whole; writing it starts by truncating it
  runs    \* runs.jsonl: finished runs, in the order they were appended

ledgerVars == <<open, runs>>

LedgerInit == open = <<>> /\ runs = <<>>

Recorded == {runs[i].id : i \in DOMAIN runs}
NewRunForgets ==   \* fault: only the open runs are taken
  Cardinality(DOMAIN open) + 1

NewRun == Cardinality(DOMAIN open \cup Recorded) + 1

Readable(id) == id \in DOMAIN open /\ open[id].whole

LedgerStart(id) ==
  /\ open' = Learned(open, id, [gates |-> "none", whole |-> TRUE])
  /\ UNCHANGED runs

AfterGate(gates, passed) ==
  IF passed /\ gates # "failed" THEN "passed" ELSE "failed"

(* Runs one gate; without a readable file it fails before the command.     *)
LedgerGate(id, passed) ==
  /\ open' = IF Readable(id)
               THEN [open EXCEPT ![id] = [gates |-> AfterGate(@.gates, passed),
                                          whole |-> TRUE]]
               ELSE open
  /\ UNCHANGED runs

RefusesNoGates(id, verdict, clean) ==   \* fault: no gate is no failing gate
  \/ ~Readable(id)
  \/ verdict = "accepted" /\ ~(open[id].gates # "failed" /\ clean)

Refuses(id, verdict, clean) ==
  \/ ~Readable(id)
  \/ verdict = "accepted" /\ ~(open[id].gates = "passed" /\ clean)

(* finish appends the entry, and then removes the file of the run.         *)
LedgerAppend(id, verdict) ==
  /\ runs' = Append(runs, [id |-> id, verdict |-> verdict,
                           gates |-> open[id].gates])
  /\ UNCHANGED open

LedgerUnlink(id) ==
  /\ open' = [r \in DOMAIN open \ {id} |-> open[r]]
  /\ UNCHANGED runs

LedgerTear(id) ==
  /\ Readable(id)
  /\ open' = [open EXCEPT ![id] = [gates |-> @.gates, whole |-> FALSE]]
  /\ UNCHANGED runs
=============================================================================
