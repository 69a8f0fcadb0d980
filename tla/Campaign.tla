------------------------------ MODULE Campaign ------------------------------
(***************************************************************************)
(* The blind mutation campaign (src/scripts/blind_mutate.py) and the       *)
(* equivalence proofs of its survivors (src/scripts/prove_equiv.py).  src/ *)
(* is a function from the sites of mutants to the text there.  A mutant's  *)
(* id is where it is and what it writes, so that an edit may leave it the  *)
(* same.  What the gates make of a mutant is decided when it is first run, *)
(* and what the tie-off check makes of it when it is first reported on.    *)
(***************************************************************************)
EXTENDS Integers, Sequences, FiniteSets, Answers

CONSTANTS
  Sites,      \* one mutant each
  Moves,      \* sites whose mutant gets another id when they are edited
  TieSites,   \* the sites in mem/mem.v, where the tie-offs are
  Jobs,       \* -j
  Campaigns   \* bound: [edits, runs, proofs, errors, kills], how many of each

ASSUME SitesAssumption == TieSites \subseteq Sites

VARIABLES
  rtl,        \* src/: site -> its text
  truth,      \* <<rtl, site>> -> what the mutant is
  ties,       \* <<mem.v, site>> -> whether check_tieoffs fails on the mutant
  explained,  \* EQUIVALENT and FORMAL_ONLY: sites, with the text they quote
  rows,       \* the lines of --out: [id, result, of]
  camp,       \* the campaign: [at, todo, jobs]
  proofs,     \* equiv_proofs.json: [sha, results]
  prover,     \* the proof run: [at, todo, recorded]
  summary,    \* what the last report says
  spare       \* what is left of the bounds

campVars == <<rtl, truth, ties, explained, rows, camp, proofs, prover, summary, spare>>

Id(s) == <<s, IF s \in Moves THEN rtl[s] ELSE 1>>
Ids == {Id(s) : s \in Sites}   \* generate
NoCamp == [at |-> "idle", todo |-> {}, jobs |-> {}]
NoProver == [at |-> "idle", todo |-> {}, recorded |-> <<>>]
NoSummary == [rc |-> 1, of |-> <<>>, proven |-> {}, measured |-> {}]

CampInit(b, sites) ==
  /\ rtl = [s \in Sites |-> 1] /\ truth = <<>> /\ ties = <<>>
  /\ explained = {<<s, 1>> : s \in sites}
  /\ rows = <<>> /\ camp = NoCamp
  /\ proofs = [sha |-> <<>>, results |-> <<>>] /\ prover = NoProver
  /\ summary = NoSummary
  /\ spare = b

Spend(what) == spare' = [spare EXCEPT ![what] = @ - 1]

(* stillborn: does not compile; killed: by the simulation; formal: only by *)
(* the properties; same: by neither, and the pins never differ; gap: by    *)
(* neither, and they do.                                                   *)
Kinds == {"stillborn", "killed", "formal", "same", "gap"}
Is(src, s) == Possible(truth, <<src, s>>, Kinds)

EditSite ==
  /\ spare.edits > 0
  /\ \E s \in Sites : rtl' = [rtl EXCEPT ![s] = 3 - @]   \* there and back
  /\ Spend("edits")
  /\ UNCHANGED <<truth, ties, explained, rows, camp, proofs, prover, summary>>

-----------------------------------------------------------------------------
RowIds == {rows[i].id : i \in DOMAIN rows}
RowOf(i) == rows[CHOOSE k \in DOMAIN rows :
                   rows[k].id = i /\ \A j \in DOMAIN rows : rows[j].id = i => j <= k]

TodoAll ==   \* fault: what is in --out is run again
  Ids
Todo == Ids \ RowIds

CampaignRun ==
  /\ camp.at = "idle" /\ spare.runs > 0
  /\ camp' = [at |-> "run", todo |-> Todo, jobs |-> {}]
  /\ Spend("runs")
  /\ UNCHANGED <<rtl, truth, ties, explained, rows, proofs, prover, summary>>

(* A worker copies the tree and applies the mutant to the copy.            *)
StartJob ==
  /\ camp.at = "run" /\ Cardinality(camp.jobs) < Jobs
  /\ \E i \in camp.todo :
       camp' = [at |-> "run", todo |-> camp.todo \ {i},
                jobs |-> camp.jobs \cup {[id |-> i, src |-> rtl]}]
  /\ UNCHANGED <<rtl, truth, ties, explained, rows, proofs, prover, summary, spare>>

(* A row's status, sim and formal, together.  killed and hung are by the   *)
(* simulation, hung at its time-out, whatever the properties say; formal,  *)
(* formal hung, silent and survived passed it, and their formal runs say   *)
(* "killed", "killed:timeout", "error" and "survived".                     *)
Results == {"stillborn", "error", "killed", "hung", "formal", "formal hung", "silent", "survived"}
RowWritten(j, result) ==
  /\ rows' = Append(rows, [id |-> j.id, result |-> result, of |-> j.src])
  /\ camp' = [camp EXCEPT !.jobs = @ \ {j}]

(* run_one, and its row once it has ended; jobs end in any order.          *)
EndJob ==
  /\ \E j \in camp.jobs : \E v \in Is(j.src, j.id[1]) :
       /\ truth' = Learned(truth, <<j.src, j.id[1]>>, v)
       /\ RowWritten(j, IF v \in {"same", "gap"} THEN "survived" ELSE v)
  /\ UNCHANGED <<rtl, ties, explained, proofs, prover, summary, spare>>

(* The harness fails, or a suite hits its time-out, which is a kill: a row *)
(* too.  So is a formal run that hits its time-out, or that says nothing,  *)
(* for a mutant that passed the simulation.                                *)
JobErrs ==
  /\ spare.errors > 0
  /\ \E j \in camp.jobs :
       \/ \E result \in {"error", "hung"} : RowWritten(j, result) /\ UNCHANGED truth
       \/ \E v \in Is(j.src, j.id[1]) \ {"stillborn", "killed"} :
            /\ truth' = Learned(truth, <<j.src, j.id[1]>>, v)
            /\ \E result \in {"formal hung", "silent"} : RowWritten(j, result)
  /\ Spend("errors")
  /\ UNCHANGED <<rtl, ties, explained, proofs, prover, summary>>

(* Interrupted: the rows stay, what the workers were at is lost.           *)
CampaignKilled ==
  /\ camp.at = "run" /\ spare.kills > 0
  /\ camp' = NoCamp /\ Spend("kills")
  /\ UNCHANGED <<rtl, truth, ties, explained, rows, proofs, prover, summary>>

With(results) == {i \in Ids \cap RowIds : RowOf(i).result \in results}
UnkilledOfBoth ==   \* fault: only what both suites pass; a silent run is left out
  With({"survived"})
Unkilled == With({"survived", "silent"})
FormalOnly == With({"formal", "formal hung"})   \* a time-out is a kill
listed(i) == \E e \in explained : e[1] = i[1]   \* by file and line alone
equivalent(i) == <<i[1], rtl[i[1]]>> \in explained   \* the quoted line is there

proven_ids ==
  {i \in DOMAIN proofs.results : proofs.sha = rtl /\ proofs.results[i] = "PROVEN"}

MemV(src) == [s \in TieSites |-> src[s]]   \* the only file check_tieoffs reads
tieoff_kill(fails, i) == i[1] \in TieSites /\ fails[i[1]]

(* report: a survivor of every gate, the tie-off check on its mem.v among  *)
(* them, must be explained by equivalent(), or it ends with 1.  A formal   *)
(* run that said nothing kills nothing.  Rows with status error and ids    *)
(* without a row are printed or passed over; a row of an older source is   *)
(* taken if the id is still the same.                                      *)
Reports ==
  \E fails \in [TieSites -> BOOLEAN] :
    /\ \A s \in TieSites : fails[s] \in Possible(ties, <<MemV(rtl), s>>, BOOLEAN)
    /\ ties' = Over([q \in {MemV(rtl)} \X TieSites |-> fails[q[2]]], ties)
    /\ LET surv == {i \in Unkilled : ~tieoff_kill(fails, i)} IN
       summary' =
         [rc |-> IF \A i \in surv : equivalent(i) THEN 0 ELSE 1,
          of |-> rtl,
          proven |-> proven_ids \cap ({i \in surv : equivalent(i)} \cup FormalOnly),
          measured |-> {s \in Sites : \E k \in DOMAIN rows :
                          /\ rows[k].id = Id(s) /\ rows[k].of = rtl
                          /\ rows[k].result \notin {"error", "hung", "formal hung"}}]

CampaignEnds ==
  /\ camp.at = "run" /\ camp.todo = {} /\ camp.jobs = {}
  /\ camp' = NoCamp /\ Reports
  /\ UNCHANGED <<rtl, truth, explained, rows, proofs, prover, spare>>

ReportOnly ==
  /\ camp.at = "idle" /\ summary.of # rtl
  /\ Reports
  /\ UNCHANGED <<rtl, truth, explained, rows, camp, proofs, prover, spare>>

-----------------------------------------------------------------------------
(* What both suites pass and EQUIVALENT explains, or the formal-only kills *)
(* listed in FORMAL_ONLY; the tie-off check is not asked.                  *)
ProveRun ==
  /\ prover.at = "idle" /\ spare.proofs > 0
  /\ \E todo \in {{i \in With({"survived"}) : equivalent(i)}, {i \in FormalOnly : listed(i)}} :
       prover' = [at |-> "run", todo |-> todo, recorded |-> <<>>]
  /\ Spend("proofs")
  /\ UNCHANGED <<rtl, truth, ties, explained, rows, camp, proofs, summary>>

RecordKeepsAll(done) ==   \* fault: older results are kept under the new hash
  proofs' = [sha |-> rtl, results |-> Over(done, proofs.results)]
Record(done) ==
  proofs' = [sha |-> rtl,
             results |-> Over(done, IF proofs.sha = rtl THEN proofs.results ELSE <<>>)]

(* One mutant, against the chip; a proof may fail although they are        *)
(* equivalent.                                                             *)
Prove ==
  /\ prover.at = "run"
  /\ \E i \in prover.todo : \E v \in Is(rtl, i[1]) \ {"stillborn"} :
       \E status \in {"PROVEN", "INCONCLUSIVE"} :
         /\ status = "PROVEN" => v \in {"same", "formal"}
         /\ truth' = Learned(truth, <<rtl, i[1]>>, v)
         /\ LET done == Learned(prover.recorded, i, status) IN
            /\ prover' = [at |-> "run", todo |-> prover.todo \ {i}, recorded |-> done]
            /\ Record(done)
  /\ UNCHANGED <<rtl, ties, explained, rows, camp, summary, spare>>

ProveEnds ==
  /\ prover.at = "run" /\ prover.todo = {}
  /\ prover' = NoProver
  /\ UNCHANGED <<rtl, truth, ties, explained, rows, camp, proofs, summary, spare>>

ProveKilled ==
  /\ prover.at = "run" /\ spare.kills > 0
  /\ prover' = NoProver /\ Spend("kills")
  /\ UNCHANGED <<rtl, truth, ties, explained, rows, camp, proofs, summary>>

Campaigning == StartJob \/ EndJob \/ JobErrs \/ CampaignEnds
Proving == Prove \/ ProveEnds
(* src/ is edited between the runs only.                                   *)
EditBetween == camp.at = "idle" /\ prover.at = "idle" /\ EditSite
CampaignNext ==
  \/ EditBetween \/ CampaignRun \/ ReportOnly \/ ProveRun
  \/ Campaigning \/ CampaignKilled \/ Proving \/ ProveKilled

-----------------------------------------------------------------------------
(* A report calls a mutant proven only if it is equivalent in the source   *)
(* reported on, whatever was edited, killed or proved before.  (What is    *)
(* killed by formal only and proven never reaches the pins.)               *)
ProvenCurrent ==
  \A i \in summary.proven :
    LET k == <<summary.of, i[1]>> IN k \in DOMAIN truth /\ truth[k] \in {"same", "formal"}

(* A report that ends with 0 leaves nothing unexplained among the mutants  *)
(* it has a measurement of: those with a row of this very source that is   *)
(* not an error or a time-out (a formal run that said nothing is one).     *)
(* Each is killed, by a suite or by the tie-off check, or its line as it   *)
(* stands is explained.  Of the other mutants 0 says nothing: error rows   *)
(* and missing rows are not looked at, a time-out is taken for a kill, and *)
(* a row of an older source counts as if it were of this one.              *)
ReportEarned ==
  summary.rc = 0 =>
    \A s \in summary.measured :
      LET k == <<summary.of, s>>  t == <<MemV(summary.of), s>> IN
      /\ k \in DOMAIN truth
      /\ truth[k] \in {"same", "gap"} =>
           \/ t \in DOMAIN ties /\ ties[t]
           \/ <<s, summary.of[s]>> \in explained

(* An interrupted campaign resumes: no mutant is measured twice, and when  *)
(* a run ends every mutant has its row (blind_mutate.py:42-43).            *)
MeasuredOnce ==
  /\ \A j, k \in DOMAIN rows : rows[j].id = rows[k].id => j = k
  /\ camp.at = "run" => Ids \subseteq RowIds \cup camp.todo \cup {j.id : j \in camp.jobs}
=============================================================================
