---------------------------- MODULE CycleRecords ----------------------------
(***************************************************************************)
(* What the verification cycle promises of its records: the state file,    *)
(* the ledger of agent runs and the list of closed cycles, across commands *)
(* that are killed and resumed.                                            *)
(***************************************************************************)
EXTENDS Orchestrator

Tickets(x) == {x.tickets[i] : i \in DOMAIN x.tickets}

(* A ticket the parent can read has a run in the ledger, open or already   *)
(* recorded, however often the command that wrote it or one that worked on *)
(* it was killed: no agent is launched unrecorded (orchestrate.py:201-206).*)
TicketHasRun ==
  IsCycle(disk) =>
    \A t \in Tickets(disk) : t.run \in DOMAIN open \cup Recorded

(* The tickets of different cycles have different runs, so that a verdict  *)
(* in the ledger belongs to one ticket (ledger.py:143-149).                *)
RunsApart ==
  \A i, j \in DOMAIN cycles :
    cycles[i].cycle # cycles[j].cycle =>
      \A t \in Tickets(cycles[i]), u \in Tickets(cycles[j]) : t.run # u.run

(* A cycle in progress that waits, waits for its last ticket, the only one *)
(* that is dispatched; one that does not wait has none.                    *)
WaitsForDispatched ==
  IsCycle(disk) /\ ~Ended(disk) =>
    \A i \in DOMAIN disk.tickets :
      disk.tickets[i].status = "dispatched"
        <=> disk.waiting_on = i /\ i = Len(disk.tickets)

(* No verdict is better than the ledger's: an accepted ticket was accepted *)
(* there, with gates, all of them passing (ledger.py:252-268,              *)
(* orchestrate.py:290-296).                                                *)
AcceptedIsRecorded ==
  IsCycle(disk) =>
    \A t \in Tickets(disk) : t.result = "accepted" =>
      \E i \in DOMAIN runs :
        runs[i].id = t.run /\ runs[i].verdict = "accepted"
          /\ runs[i].gates = "passed"

(* A cycle that is over, to whoever reads the state file, is in            *)
(* cycles.jsonl with the same outcome, reason and tickets (close_cycle).   *)
EndIsRecorded ==
  IsCycle(disk) /\ Ended(disk) => \E i \in DOMAIN cycles : cycles[i] = CycleRecord(disk)

(* The stop rules (orchestrate.py:23-31): a cycle is only ever done with a *)
(* clean sign-off and nothing for a human to look at; the red team works   *)
(* after a sign-off that passed, never beside or after a triage; a cycle   *)
(* that found a bug or a survivor is halted; and no cycle gives more       *)
(* tickets than its own --max-tickets, none if that is 0.                  *)
StopRules ==
  \A i \in DOMAIN cycles :
    LET c == cycles[i] IN
    /\ Len(c.tickets) <= c.max_tickets
    /\ c.outcome = "done" =>
         /\ c.signoff.passed
         /\ \A t \in Tickets(c) : t.result = "accepted" /\ ~t.survivors
    /\ \A t \in Tickets(c) : t.task = "redteam" =>
         /\ c.signoff.passed
         /\ \A u \in Tickets(c) : u.task = "redteam"
    /\ \A t \in Tickets(c) :
         t.result = "accepted" /\ (t.task \in Seeds \/ t.survivors)
           => c.outcome = "halted"

(* Every cycle ends, or its state file has been torn by a kill in the      *)
(* middle of a save, which no command repairs.                             *)
CycleEnds == IsCycle(disk) ~> Ended(disk) \/ disk = Torn

-----------------------------------------------------------------------------
(* What the documentation says, and the code does not do.                  *)

(* "red-team agent, only after a clean signoff" (docs/VAL.md:940): of the  *)
(* commit the cycle is about.                                              *)
RedTeamOnCleanTree ==
  IsCycle(disk) =>
    \A t \in Tickets(disk) :
      t.task = "redteam" => disk.signoff.commit = disk.tree

(* "the parent re-runs it as the gate and trusts only its own run"         *)
(* (scripts/redteam_eval.py:5-6).                                          *)
OwnRunTrusted ==
  IsCycle(disk) =>
    \A t \in Tickets(disk) : t.result = "accepted" => ~t.claimed
=============================================================================
