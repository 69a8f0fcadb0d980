---------------------------- MODULE Orchestrator ----------------------------
(***************************************************************************)
(* The verification cycle of src/scripts/orchestrate.py: a state machine   *)
(* kept in a file between commands, which a parent session runs one at a   *)
(* time.  A command works on a copy of the state, s, and what it leaves    *)
(* behind are its writes: the state file, ledger/cycles.jsonl and the      *)
(* ledger.  Every write is a step, and the command can be killed between   *)
(* any two of them, or in the middle of rewriting a file.                  *)
(*                                                                         *)
(* at is where the running command is; cur what complete and abort keep in *)
(* local variables.  The outcomes of sign-off, gates and agents are free.  *)
(***************************************************************************)
EXTENDS Ledger

CONSTANTS
  Seeds,          \* random seeds that may fail
  MaxTickets,     \* bound on --max-tickets
  MaxCandidates,  \* bound on the candidates of a red-team pass
  Starts,         \* bound on the cycles started
  Mishaps         \* bound on aborts, commits and crashes together

ASSUME OrchestratorAssumption ==
  /\ IsFiniteSet(Seeds) /\ "redteam" \notin Seeds
  /\ {MaxTickets, MaxCandidates, Starts, Mishaps} \subseteq Nat

VARIABLES
  disk,     \* orchestrate_state.json
  s, at, cur,
  cycles,   \* ledger/cycles.jsonl
  report,   \* signoff_report.json
  head,     \* the commit checked out
  starts, mishaps

bounds == <<starts, mishaps>>
vars == <<disk, s, at, cur, cycles, report, head, bounds, ledgerVars>>

NoCycle == [stage |-> "none"]
Torn == [stage |-> "torn"]
NoReport == [commit |-> 0]
Idle == [ticket |-> 0]

Ended(x) == x.stage \in {"halted", "done"}
IsCycle(x) == x.stage \notin {"none", "torn"}

Init ==
  /\ disk = NoCycle /\ s = NoCycle /\ at = "none" /\ cur = Idle
  /\ cycles = <<>> /\ report = NoReport /\ head = 1
  /\ starts = 0 /\ mishaps = 0
  /\ LedgerInit

Mishap == mishaps < Mishaps /\ mishaps' = mishaps + 1

-----------------------------------------------------------------------------
Goto(x, where) == s' = x /\ at' = where

HaltedBy(x, reason) == [x EXCEPT !.stage = "halted", !.halt_reason = reason]

HaltUnclosed(x, reason) ==   \* fault: a halt leaves no record
  Goto(HaltedBy(x, reason), "save")

(* halt closes the cycle, wherever it is called.                           *)
Halt(x, reason) == Goto(HaltedBy(x, reason), "close")

AfterClean(x) == IF x.redteam THEN "redteam" ELSE "close"

(* The record, and beside it the --max-tickets the cycle was started with. *)
CycleRecord(x) ==
  [cycle |-> x.cycle, outcome |-> x.stage, halt_reason |-> x.halt_reason,
   signoff |-> x.signoff, tickets |-> x.tickets, max_tickets |-> x.max_tickets]

(* close_cycle appends the record and saves.                               *)
CloseCycle ==
  /\ at = "close"
  /\ cycles' = Append(cycles, CycleRecord(s))
  /\ at' = "save"
  /\ UNCHANGED <<disk, s, cur, report, head, bounds, ledgerVars>>

Save ==
  /\ at = "save"
  /\ disk' = s
  /\ at' = "step"
  /\ UNCHANGED <<s, cur, cycles, report, head, bounds, ledgerVars>>

-----------------------------------------------------------------------------
(* step: one iteration of its loop, which ends with a save.                *)
Stepping(stage) == at = "step" /\ s.stage = stage /\ s.waiting_on = 0

(* The failing seeds, each once, as the directory lists them.              *)
Orders(seeds) ==
  {q \in [1..Cardinality(seeds) -> seeds] : \A x \in seeds : \E i \in DOMAIN q : q[i] = x}

(* What stage_signoff makes of the report it reads.                        *)
Judge(rep) ==
  LET x == [s EXCEPT !.signoff = [commit |-> rep.commit, passed |-> rep.passed],
                     !.tree = head]
  IN  IF rep.passed THEN Goto([x EXCEPT !.stage = AfterClean(s)], "save")
      ELSE \E failures \in SUBSET Seeds :
        IF failures = {} THEN Halt(x, "no seed to triage")
        ELSE \E q \in Orders(failures) :
          Goto([x EXCEPT !.queue = q, !.stage = "triage",
                         !.pending_halt = rep.non_random], "save")

(* whole: complete and not dirty.                                          *)
Reports ==
  {rep \in [commit : {head}, passed : BOOLEAN, non_random : BOOLEAN,
            whole : BOOLEAN] : rep.passed => ~rep.non_random}

SignoffReused ==
  /\ Stepping("signoff")
  /\ s.reuse_signoff /\ report # NoReport
  /\ report.commit = head /\ report.whole
  /\ Judge(report)
  /\ UNCHANGED <<disk, cur, cycles, report, head, bounds, ledgerVars>>

SignoffRuns ==
  /\ Stepping("signoff")
  /\ \E rep \in Reports : report' = rep /\ Judge(rep)
  /\ UNCHANGED <<disk, cur, cycles, head, bounds, ledgerVars>>

(* After two hours signoff.py is killed.  It writes its report last, so    *)
(* what is read then is the report of an earlier run; without one the      *)
(* command fails, see Crash.                                               *)
SignoffTimesOut ==
  /\ Stepping("signoff") /\ report # NoReport
  /\ Judge(report)
  /\ UNCHANGED <<disk, cur, cycles, report, head, bounds, ledgerVars>>

Dispatched(x) ==
  [x EXCEPT !.queue = Tail(@),
            !.tickets = Append(@, [task |-> Head(x.queue), run |-> NewRun,
                                   status |-> "dispatched", result |-> "",
                                   survivors |-> FALSE, claimed |-> FALSE]),
            !.budget_left = @ - 1,
            !.waiting_on = Len(x.tickets) + 1]

NextTicketUnbounded(x) ==   \* fault: the budget is not looked at
  Goto(Dispatched(x), "save") /\ LedgerStart(NewRun)

NextTicketUnstarted(x) ==   \* fault: a run the ledger did not start is used
  IF x.budget_left <= 0 THEN Halt(x, "budget") /\ UNCHANGED ledgerVars
  ELSE Goto(Dispatched(x), "save") /\ (LedgerStart(NewRun) \/ UNCHANGED ledgerVars)

NextTicket(x) ==
  IF x.budget_left <= 0 THEN Halt(x, "budget") /\ UNCHANGED ledgerVars
  ELSE Goto(Dispatched(x), "save") /\ LedgerStart(NewRun)

Triage ==
  /\ Stepping("triage")
  /\ IF s.queue # <<>> THEN NextTicket(s)
     ELSE /\ UNCHANGED ledgerVars
          /\ IF s.pending_halt THEN Halt(s, "non-random gates")
             ELSE Goto([s EXCEPT !.stage = AfterClean(s)], "save")
  /\ UNCHANGED <<disk, cur, cycles, report, head, bounds>>

RedTeam ==
  /\ Stepping("redteam")
  /\ IF \A i \in DOMAIN s.tickets : s.tickets[i].task # "redteam"
       THEN NextTicket([s EXCEPT !.queue = Append(@, "redteam")])
       ELSE Goto([s EXCEPT !.stage = "close"], "save") /\ UNCHANGED ledgerVars
  /\ UNCHANGED <<disk, cur, cycles, report, head, bounds>>

Close ==
  /\ Stepping("close")
  /\ Goto([s EXCEPT !.stage = "done"], "close")
  /\ UNCHANGED <<disk, cur, cycles, report, head, bounds, ledgerVars>>

(* The loop is over: the last save, and the command ends.                  *)
LoopOver == at = "step" /\ (Ended(s) \/ s.waiting_on # 0)

StepReturns ==
  /\ LoopOver
  /\ disk' = s
  /\ Goto(NoCycle, "none")
  /\ cur' = Idle
  /\ UNCHANGED <<cycles, report, head, bounds, ledgerVars>>

-----------------------------------------------------------------------------
(* complete: the gates, the ledger, the verdict.                           *)
ticket == s.tickets[cur.ticket]
Verdicts == {"KILLED", "SURVIVED_WITNESSED", "SURVIVED_NO_WITNESS", "INVALID"}

CmdComplete ==
  /\ at = "none" /\ IsCycle(disk)
  /\ \E i \in DOMAIN disk.tickets :
       /\ disk.tickets[i].status = "dispatched"
       /\ \E gates \in IF disk.tickets[i].task = "redteam" THEN 0..MaxCandidates
                                                            ELSE {3} :
            cur' = [ticket |-> i, gates |-> gates, ok |-> TRUE, verdict |-> ""]
  /\ Goto(disk, "gates")
  /\ UNCHANGED <<disk, cycles, report, head, bounds, ledgerVars>>

(* complete_triage: a verdict that fails its schema is not examined.       *)
TriageGate ==
  /\ at = "gates" /\ cur.gates > 0 /\ ticket.task # "redteam"
  /\ \E passed \in BOOLEAN :
       LET ok == Readable(ticket.run) /\ passed
       IN  /\ LedgerGate(ticket.run, passed)
           /\ cur' = [cur EXCEPT
                        !.ok = @ /\ ok,
                        !.gates = IF @ = 3 /\ ~ok THEN 0 ELSE @ - 1]
  /\ UNCHANGED <<disk, s, at, cycles, report, head, bounds>>

(* What is kept of the evaluation of one candidate.                        *)
Evaluated(t, verdict, claimed) ==
  [t EXCEPT !.survivors = @ \/ verdict = "SURVIVED_WITNESSED",
            !.claimed = @ \/ claimed]

(* complete_redteam evaluates a copy of a candidate, made with everything  *)
(* beside it: if the evaluation leaves no result, the one the agent wrote  *)
(* is there to be read.  The gate itself is the exit code of a tail.       *)
RedTeamGate ==
  /\ at = "gates" /\ cur.gates > 0 /\ ticket.task = "redteam"
  /\ \E own \in IF Readable(ticket.run) THEN Verdicts \cup {"none"} ELSE {"none"},
        claim \in Verdicts \cup {"none"} :
       LET verdict == IF own # "none" THEN own ELSE claim
       IN  /\ cur' = [cur EXCEPT
                        !.ok = @ /\ Readable(ticket.run)
                                 /\ verdict \notin {"none", "INVALID"},
                        !.gates = @ - 1]
           /\ s' = [s EXCEPT !.tickets[cur.ticket] =
                      Evaluated(@, verdict, own = "none" /\ claim # "none")]
  /\ LedgerGate(ticket.run, TRUE)
  /\ UNCHANGED <<disk, at, cycles, report, head, bounds>>

(* The first ledger finish.                                                *)
Finish ==
  /\ at = "gates" /\ cur.gates = 0
  /\ \E clean \in BOOLEAN :
       LET verdict == IF cur.ok THEN "accepted" ELSE "rejected"
       IN  IF Refuses(ticket.run, verdict, clean)
             THEN /\ cur' = [cur EXCEPT !.verdict = "rejected"]
                  /\ at' = "reject"
                  /\ UNCHANGED ledgerVars
             ELSE /\ cur' = [cur EXCEPT !.verdict = verdict]
                  /\ at' = "unlink"
                  /\ LedgerAppend(ticket.run, verdict)
  /\ UNCHANGED <<disk, s, cycles, report, head, bounds>>

(* The second one, after a refusal, and that of abort.  Its failure is     *)
(* ignored.                                                                *)
FinishRejected ==
  /\ at = "reject"
  /\ IF Readable(ticket.run)
       THEN at' = "unlink" /\ LedgerAppend(ticket.run, "rejected")
       ELSE at' = "update" /\ UNCHANGED ledgerVars
  /\ UNCHANGED <<disk, s, cur, cycles, report, head, bounds>>

Unlink ==
  /\ at = "unlink"
  /\ LedgerUnlink(ticket.run)
  /\ at' = "update"
  /\ UNCHANGED <<disk, s, cur, cycles, report, head, bounds>>

Done(t, verdict) == [t EXCEPT !.status = "done", !.result = verdict]

AnsweredStillWaits ==   \* fault: waiting_on is not cleared
  [s EXCEPT !.tickets[cur.ticket] = Done(@, cur.verdict)]

Answered ==
  [s EXCEPT !.tickets[cur.ticket] = Done(@, cur.verdict), !.waiting_on = 0]

Update ==
  /\ at = "update" /\ cur.verdict # "aborted"
  /\ IF cur.verdict = "rejected" THEN Halt(Answered, "rejected")
     ELSE IF ticket.task # "redteam" THEN Halt(Answered, "confirmed bug")
     ELSE IF ticket.survivors THEN Halt(Answered, "survivors")
     ELSE Goto(Answered, "save")
  /\ UNCHANGED <<disk, cur, cycles, report, head, bounds, ledgerVars>>

-----------------------------------------------------------------------------
(* abort: the dispatched ticket, if there is one, and the cycle.           *)
CmdAbort ==
  /\ at = "none" /\ IsCycle(disk) /\ Mishap
  /\ \/ \E i \in DOMAIN disk.tickets :
          /\ disk.tickets[i].status = "dispatched"
          /\ cur' = [ticket |-> i, gates |-> 0, ok |-> FALSE,
                     verdict |-> "aborted"]
          /\ Goto(disk, "reject")
     \/ /\ \A i \in DOMAIN disk.tickets : disk.tickets[i].status # "dispatched"
        /\ Halt(disk, "aborted")
        /\ UNCHANGED cur
  /\ UNCHANGED <<disk, cycles, report, head, starts, ledgerVars>>

Aborted == [s EXCEPT !.tickets[cur.ticket] = [@ EXCEPT !.status = "aborted"]]

UpdateAborted ==
  /\ at = "update" /\ cur.verdict = "aborted"
  /\ Halt(Aborted, "aborted")
  /\ UNCHANGED <<disk, cur, cycles, report, head, bounds, ledgerVars>>

-----------------------------------------------------------------------------
CmdStart ==
  /\ at = "none" /\ (disk = NoCycle \/ Ended(disk)) /\ starts < Starts
  /\ starts' = starts + 1
  /\ \E redteam, reuse \in BOOLEAN, max_tickets \in 0..MaxTickets :
       Goto([cycle |-> starts + 1, stage |-> "signoff", halt_reason |-> "",
             redteam |-> redteam, reuse_signoff |-> reuse,
             max_tickets |-> max_tickets, budget_left |-> max_tickets,
             queue |-> <<>>, tickets |-> <<>>, waiting_on |-> 0,
             pending_halt |-> FALSE, signoff |-> NoReport, tree |-> 0], "save")
  /\ UNCHANGED <<disk, cur, cycles, report, head, mishaps, ledgerVars>>

CmdStep ==
  /\ at = "none" /\ IsCycle(disk)
  /\ Goto(disk, "step")
  /\ UNCHANGED <<disk, cur, cycles, report, head, bounds, ledgerVars>>

(* The parent works on the repository between commands.                    *)
Commit ==
  /\ at = "none" /\ Mishap
  /\ head' = head + 1
  /\ UNCHANGED <<disk, s, at, cur, cycles, report, starts, ledgerVars>>

(* The running command is killed, or stopped by an exception.              *)
Crash ==
  /\ at # "none" /\ Mishap
  /\ Goto(NoCycle, "none")
  /\ cur' = Idle
  /\ \/ UNCHANGED <<disk, ledgerVars>>
     \/ (at = "save" \/ LoopOver) /\ disk' = Torn /\ UNCHANGED ledgerVars
     \/ at = "gates" /\ LedgerTear(ticket.run) /\ UNCHANGED disk
  /\ UNCHANGED <<cycles, report, head, starts>>

Run ==
  \/ CloseCycle \/ Save
  \/ SignoffReused \/ SignoffRuns \/ SignoffTimesOut
  \/ Triage \/ RedTeam \/ Close \/ StepReturns
  \/ TriageGate \/ RedTeamGate \/ Finish \/ FinishRejected \/ Unlink \/ Update
  \/ UpdateAborted

Next ==
  \/ Run
  \/ CmdStart \/ CmdStep \/ CmdComplete \/ CmdAbort
  \/ Commit \/ Crash

Spec == Init /\ [][Next]_vars

(* A command runs to its end; the parent resumes a cycle that is not       *)
(* finished, and completes the ticket it waits for.                        *)
FairSpec ==
  /\ Spec
  /\ WF_vars(Run) /\ SF_vars(CmdStep) /\ SF_vars(CmdComplete)
=============================================================================
