---------------------------- MODULE CycleProofs ----------------------------
(***************************************************************************)
(* Proofs about the records of the verification cycle, for every set of    *)
(* seeds, every budget and any number of cycles, aborts and crashes.       *)
(***************************************************************************)
EXTENDS CycleRecords, FiniteSetTheorems, TLAPS

(* What the state file, the ledger and the list of cycles hold.            *)
TaskT == Seeds \cup {"redteam"}
TicketT ==
  [task : TaskT, run : Nat, status : {"dispatched", "done", "aborted"},
   result : {"", "accepted", "rejected"}, survivors : BOOLEAN, claimed : BOOLEAN]
SignedT == [commit : Nat, passed : BOOLEAN]
ReportT == [commit : Nat, passed : BOOLEAN, non_random : BOOLEAN, whole : BOOLEAN]
StageT == {"signoff", "triage", "redteam", "close", "halted", "done"}
ReasonT ==
  {"", "no seed to triage", "budget", "non-random gates", "rejected",
   "confirmed bug", "survivors", "aborted"}
CycleT ==
  [cycle : Nat, stage : StageT, halt_reason : ReasonT, redteam : BOOLEAN,
   reuse_signoff : BOOLEAN, max_tickets : Nat, budget_left : Nat, queue : Seq(TaskT),
   tickets : Seq(TicketT), waiting_on : Nat, pending_halt : BOOLEAN,
   signoff : SignedT \cup {NoReport}, tree : Nat]
RecordT ==
  [cycle : Nat, outcome : StageT, halt_reason : ReasonT,
   signoff : SignedT \cup {NoReport}, tickets : Seq(TicketT), max_tickets : Nat]
GatesT == {"none", "passed", "failed"}
OpenT == [gates : GatesT, whole : BOOLEAN]
RunT == [id : Nat, verdict : {"accepted", "rejected"}, gates : GatesT]
CurT ==
  [ticket : Nat, gates : Nat, ok : BOOLEAN,
   verdict : {"", "accepted", "rejected", "aborted"}]
Completing == {"gates", "reject", "unlink", "update"}
Places == {"none", "close", "save", "step"} \cup Completing

(* The run ids that are taken are the first ones.                          *)
Ids == DOMAIN open \cup Recorded

LedgerOK ==
  /\ open \in [DOMAIN open -> OpenT] /\ runs \in Seq(RunT)
  /\ Cardinality(Ids) \in Nat /\ Ids = 1..Cardinality(Ids)

(* The stages of a cycle.  It has at most one ticket, because every triage *)
(* ends in a halt.                                                         *)
Signed(x) == x.signoff \in SignedT /\ x.signoff.passed

Fresh(x) == x.tickets = <<>> /\ x.waiting_on = 0

Waits(x) ==
  /\ Len(x.tickets) = 1 /\ x.waiting_on = 1
  /\ x.tickets[1].status = "dispatched" /\ x.tickets[1].result = ""

Passed(x) ==
  /\ Len(x.tickets) = 1 /\ x.waiting_on = 0
  /\ x.tickets[1].task = "redteam" /\ x.tickets[1].status = "done"
  /\ x.tickets[1].result = "accepted" /\ ~x.tickets[1].survivors

Shape(x) ==
  /\ Len(x.tickets) + x.budget_left <= x.max_tickets
  /\ Len(x.tickets) <= 1
  /\ \A i \in DOMAIN x.tickets : x.tickets[i].task = "redteam" => Signed(x)
  /\ x.stage = "signoff" => Fresh(x) /\ x.queue = <<>>
  /\ x.stage = "triage" =>
       /\ x.queue \in Seq(Seeds)
       /\ \/ Fresh(x) /\ x.queue # <<>>
          \/ Waits(x) /\ x.tickets[1].task \in Seeds
  /\ x.stage = "redteam" =>
       /\ Signed(x) /\ x.queue = <<>>
       /\ Fresh(x) \/ Passed(x) \/ (Waits(x) /\ x.tickets[1].task = "redteam")
  /\ x.stage \in {"close", "done"} => Signed(x) /\ (Fresh(x) \/ Passed(x))
  /\ x.stage = "halted" => \A i \in DOMAIN x.tickets : x.tickets[i].status # "dispatched"

(* Accepted tickets are accepted in the ledger.                            *)
Backed(r) ==
  \E i \in DOMAIN runs :
    runs[i].id = r /\ runs[i].verdict = "accepted" /\ runs[i].gates = "passed"

AllBacked(x) ==
  \A i \in DOMAIN x.tickets :
    x.tickets[i].result = "accepted" => Backed(x.tickets[i].run)

Good(x) == x \in CycleT /\ Shape(x) /\ AllBacked(x)

(* A cycle that has ended is closed before it is saved.                    *)
Closed(x) == \E i \in DOMAIN cycles : cycles[i] = CycleRecord(x)

FilesInv ==
  /\ cycles \in Seq(RecordT) /\ report \in ReportT \cup {NoReport}
  /\ head \in Nat /\ starts \in Nat
  /\ disk \in {NoCycle, Torn} \/ Good(disk)
  /\ disk \in CycleT /\ Ended(disk) => Closed(disk)

(* What the running command has in memory, and the ticket it completes.    *)
WorkInv ==
  /\ cur \in CurT /\ cur.ticket \in DOMAIN s.tickets
  /\ s.tickets[cur.ticket].status = "dispatched"
  /\ at = "reject" => cur.verdict \in {"rejected", "aborted"}
  /\ at \in {"unlink", "update"} => cur.verdict # ""
  /\ at = "unlink" => s.tickets[cur.ticket].run \in Recorded
  /\ at \in {"unlink", "update"} /\ cur.verdict = "accepted" =>
       Backed(s.tickets[cur.ticket].run)

CommandInv ==
  /\ at \in Places
  /\ at = "none" => s = NoCycle
  /\ at # "none" => Good(s)
  /\ at = "close" => Ended(s)
  /\ at \in {"save", "step"} /\ Ended(s) => Closed(s)
  /\ at \in Completing => WorkInv

(* Every run of a ticket is taken, and no two cycles share one.            *)
Views ==
  {x \in {disk, s} : x \in CycleT} \cup {cycles[i] : i \in DOMAIN cycles}

TicketRuns(x) == {x.tickets[i].run : i \in DOMAIN x.tickets}

RunsInv ==
  /\ \A x \in Views : TicketRuns(x) \subseteq Ids
  /\ \A x, y \in Views :
       x.cycle # y.cycle => TicketRuns(x) \cap TicketRuns(y) = {}

RecordsInv ==
  LedgerOK /\ FilesInv /\ CommandInv /\ RunsInv /\ StopRules

-----------------------------------------------------------------------------
(* The ledger.                                                             *)

(* A new run gets the next id.                                             *)
LEMMA NextRun ==
  ASSUME LedgerOK
  PROVE  /\ NewRun \in Nat /\ NewRun \notin Ids
         /\ Ids \cup {NewRun} = 1..Cardinality(Ids \cup {NewRun})
<1>1. PICK k : k = Cardinality(Ids)
  OBVIOUS
<1>2. Ids = 1..k
  BY <1>1 DEF LedgerOK
<1>3. k \in Nat
  BY <1>1 DEF LedgerOK
<1>4. NewRun = k + 1
  BY <1>1 DEF NewRun, Ids
<1>5. Ids \cup {NewRun} = 1..(k + 1) /\ NewRun \notin Ids
  BY <1>2, <1>3, <1>4
<1>6. Cardinality(1..(k + 1)) = k + 1
  BY <1>3, FS_Interval
<1>7. Cardinality(Ids \cup {NewRun}) = k + 1
  BY <1>5, <1>6
<1>8. Ids \cup {NewRun} = 1..Cardinality(Ids \cup {NewRun})
  BY <1>5, <1>7
<1> QED BY <1>3, <1>4, <1>5, <1>8

(* What every operation of the ledger keeps: ids are taken for ever, and   *)
(* runs.jsonl only grows.                                                  *)
LedgerStep ==
  /\ LedgerOK' /\ Ids \subseteq Ids' /\ Recorded \subseteq Recorded'
  /\ runs' = runs \/ \E e \in RunT : runs' = Append(runs, e)

(* Leaving the ledger alone is such an operation.                           *)
LEMMA LedgerStutters ==
  ASSUME LedgerOK, UNCHANGED ledgerVars
  PROVE  LedgerStep /\ Ids' = Ids
BY DEF LedgerOK, LedgerStep, Ids, Recorded, ledgerVars

(* start takes the next id.                                                 *)
LEMMA StartStep ==
  ASSUME LedgerOK, LedgerStart(NewRun)
  PROVE  LedgerStep /\ Ids' = Ids \cup {NewRun}
<1>1. PICK run : run = NewRun
  OBVIOUS
<1>2. open' = Learned(open, run, [gates |-> "none", whole |-> TRUE]) /\ runs' = runs
  BY <1>1 DEF LedgerStart
<1>3. PICK r \in OpenT : r = [gates |-> "none", whole |-> TRUE]
  BY DEF OpenT, GatesT
<1>a. open \in [DOMAIN open -> OpenT]
  BY DEF LedgerOK
<1>b. PICK f : f = open
  OBVIOUS
<1>c. open' = Learned(f, run, r)
  BY <1>2, <1>3, <1>b
<1>d. f \in [DOMAIN f -> OpenT]
  BY <1>a, <1>b
<1>e. /\ Learned(f, run, r) \in [DOMAIN Learned(f, run, r) -> OpenT]
      /\ DOMAIN Learned(f, run, r) = DOMAIN f \cup {run}
  BY <1>3, <1>d DEF Learned
<1>4. open' \in [DOMAIN open' -> OpenT] /\ DOMAIN open' = DOMAIN open \cup {run}
  BY <1>b, <1>c, <1>e
<1>5. Recorded' = Recorded
  BY <1>2 DEF Recorded
<1>6. Ids' = Ids \cup {run}
  BY <1>4, <1>5 DEF Ids
<1>7. Cardinality(Ids') \in Nat /\ Ids' = 1..Cardinality(Ids')
  <2>1. /\ run \in Nat /\ Ids \cup {run} = 1..Cardinality(Ids \cup {run})
        /\ run = Cardinality(Ids) + 1 /\ Cardinality(Ids) \in Nat
        /\ Ids = 1..Cardinality(Ids)
    BY <1>1, NextRun DEF LedgerOK, NewRun, Ids
  <2>2. Ids \cup {run} = 1..run
    BY <2>1
  <2>3. Cardinality(1..run) = run
    BY <2>1, FS_Interval
  <2> QED BY <1>6, <2>1, <2>2, <2>3
<1> QED
  BY <1>1, <1>2, <1>4, <1>5, <1>6, <1>7 DEF LedgerOK, LedgerStep

(* The operations that leave the set of open runs alone.                   *)
LEMMA GateStep ==
  ASSUME LedgerOK, NEW id, NEW passed \in BOOLEAN, LedgerGate(id, passed)
  PROVE  LedgerStep /\ Ids' = Ids
<1>1. \A g \in GatesT : AfterGate(g, passed) \in GatesT
  BY DEF AfterGate, GatesT
<1>2. open' \in [DOMAIN open -> OpenT] /\ runs' = runs
  <2>1. CASE Readable(id)
    <3>1. PICK gates : gates = AfterGate(open[id].gates, passed)
      OBVIOUS
    <3>2. gates \in GatesT
      BY <1>1, <2>1, <3>1 DEF LedgerOK, Readable, OpenT
    <3>3. PICK r : r = [gates |-> gates, whole |-> TRUE]
      OBVIOUS
    <3>4. r \in OpenT
      BY <3>2, <3>3 DEF OpenT
    <3>5. open' = [open EXCEPT ![id] = r]
      BY <2>1, <3>1, <3>3 DEF LedgerGate
    <3>6. open \in [DOMAIN open -> OpenT]
      BY DEF LedgerOK
    <3> QED BY <3>4, <3>5, <3>6 DEF LedgerGate
  <2>2. CASE ~Readable(id)
    BY <2>2 DEF LedgerGate, LedgerOK
  <2> QED BY <2>1, <2>2
<1>3. DOMAIN open' = DOMAIN open /\ Recorded' = Recorded
  BY <1>2 DEF Recorded
<1> QED BY <1>2, <1>3 DEF LedgerOK, LedgerStep, Ids

(* A kill while the file of a run is rewritten.                             *)
LEMMA TearStep ==
  ASSUME LedgerOK, NEW id, LedgerTear(id)
  PROVE  LedgerStep /\ Ids' = Ids
<1>1. PICK gates : gates = open[id].gates
  OBVIOUS
<1>2. gates \in GatesT
  BY <1>1 DEF LedgerOK, LedgerTear, Readable, OpenT
<1>3. PICK r : r = [gates |-> gates, whole |-> FALSE]
  OBVIOUS
<1>a. r \in OpenT
  BY <1>2, <1>3 DEF OpenT
<1>b. open' = [open EXCEPT ![id] = r]
  BY <1>1, <1>3 DEF LedgerTear
<1>c. open \in [DOMAIN open -> OpenT]
  BY DEF LedgerOK
<1>4. open' \in [DOMAIN open -> OpenT] /\ runs' = runs
  BY <1>a, <1>b, <1>c DEF LedgerTear
<1>5. DOMAIN open' = DOMAIN open /\ Recorded' = Recorded
  BY <1>4 DEF Recorded
<1> QED BY <1>4, <1>5 DEF LedgerOK, LedgerStep, Ids

(* finish records the run with what its gates said.                         *)
LEMMA AppendStep ==
  ASSUME LedgerOK, NEW id, NEW verdict \in {"accepted", "rejected"},
         Readable(id), LedgerAppend(id, verdict)
  PROVE  /\ LedgerStep /\ Ids' = Ids /\ id \in Recorded'
         /\ verdict = "accepted" /\ open[id].gates = "passed" => Backed(id)'
<1>1. PICK gates : gates = open[id].gates
  OBVIOUS
<1>2. id \in Ids /\ gates \in GatesT
  BY <1>1 DEF LedgerOK, Readable, Ids, OpenT
<1>3. id \in Nat
  BY <1>2 DEF LedgerOK
<1>4. PICK e : e = [id |-> id, verdict |-> verdict, gates |-> gates]
  OBVIOUS
<1>5. e \in RunT /\ e.id = id /\ e.verdict = verdict /\ e.gates = gates
  BY <1>2, <1>3, <1>4 DEF RunT
<1>6. runs' = Append(runs, e) /\ open' = open
  BY <1>1, <1>4 DEF LedgerAppend
<1>7. runs \in Seq(RunT)
  BY DEF LedgerOK
<1>8. /\ runs' \in Seq(RunT) /\ DOMAIN runs' = DOMAIN runs \cup {Len(runs) + 1}
      /\ \A i \in DOMAIN runs : runs'[i] = runs[i]
      /\ runs'[Len(runs) + 1] = e
  BY <1>5, <1>6, <1>7
<1>9. Recorded' = Recorded \cup {id}
  BY <1>5, <1>8 DEF Recorded
<1>10. Ids' = Ids
  BY <1>2, <1>6, <1>9 DEF Ids
<1>11. verdict = "accepted" /\ open[id].gates = "passed" => Backed(id)'
  BY <1>1, <1>5, <1>8 DEF Backed
<1> QED BY <1>5, <1>6, <1>8, <1>9, <1>10, <1>11 DEF LedgerOK, LedgerStep

(* The file of a recorded run may go: the record keeps the id taken.        *)
LEMMA UnlinkStep ==
  ASSUME LedgerOK, NEW id \in Recorded, LedgerUnlink(id)
  PROVE  LedgerStep /\ Ids' = Ids
<1>1. open' \in [DOMAIN open \ {id} -> OpenT] /\ runs' = runs
  BY DEF LedgerOK, LedgerUnlink
<1>2. DOMAIN open' = DOMAIN open \ {id} /\ Recorded' = Recorded
  BY <1>1 DEF Recorded
<1>3. Ids' = Ids
  BY <1>2 DEF Ids
<1> QED BY <1>1, <1>2, <1>3 DEF LedgerOK, LedgerStep

(* A verdict in the ledger stays there.                                    *)
LEMMA BackedStays ==
  ASSUME LedgerOK, LedgerStep, NEW r, Backed(r)
  PROVE  Backed(r)'
<1>1. runs \in Seq(RunT)
  BY DEF LedgerOK
<1>2. DOMAIN runs \subseteq DOMAIN runs' /\ \A i \in DOMAIN runs : runs'[i] = runs[i]
  BY <1>1 DEF LedgerStep
<1> QED BY <1>2 DEF Backed

-----------------------------------------------------------------------------
(* The updates of a cycle.                                                 *)

(* y has the tickets of x, for the same cycle.                             *)
Keeps(y, x) ==
  /\ y.cycle = x.cycle /\ y.tickets = x.tickets
  /\ y.budget_left = x.budget_left /\ y.max_tickets = x.max_tickets

(* Sequences of at most one element.                                       *)
LEMMA ShortSeq ==
  ASSUME NEW S, NEW q \in Seq(S), Len(q) <= 1
  PROVE  /\ Len(q) = 1 => DOMAIN q = {1} /\ q[1] \in S
         /\ Len(q) # 1 => q = <<>>
         /\ \A k \in DOMAIN q : k = 1 /\ Len(q) = 1 /\ q # <<>>
<1>1. Len(q) \in Nat /\ DOMAIN q = 1..Len(q) /\ (Len(q) = 0 => q = <<>>)
  OBVIOUS
<1>2. CASE Len(q) = 0
  BY <1>1, <1>2
<1>3. CASE Len(q) = 1
  BY <1>1, <1>3
<1> QED BY <1>1, <1>2, <1>3

(* The first element of a sequence.                                         *)
LEMMA FirstOfSeq ==
  ASSUME NEW S, NEW e \in S
  PROVE  LET q == Append(<<>>, e) IN q \in Seq(S) /\ Len(q) = 1 /\ q[1] = e
OBVIOUS

(* What a state file may be read as.                                       *)
LEMMA CycleTypes ==
  ASSUME NEW x \in CycleT
  PROVE  /\ x # NoCycle /\ x # Torn /\ IsCycle(x)
         /\ x.tickets \in Seq(TicketT) /\ x.budget_left \in Nat /\ x.max_tickets \in Nat
         /\ \A i \in DOMAIN x.tickets :
              x.tickets[i] \in TicketT /\ i \in Nat /\ i > 0
<1>1. /\ x.tickets \in Seq(TicketT) /\ x.stage \in StageT
      /\ x.budget_left \in Nat /\ x.max_tickets \in Nat
  BY DEF CycleT
<1>2. x # NoCycle /\ x # Torn /\ IsCycle(x)
  BY <1>1 DEF StageT, NoCycle, Torn, IsCycle
<1> QED BY <1>1, <1>2

(* A halt keeps the tickets.                                               *)
LEMMA HaltedByIs ==
  ASSUME NEW x \in CycleT, NEW reason \in ReasonT
  PROVE  /\ HaltedBy(x, reason) \in CycleT /\ Keeps(HaltedBy(x, reason), x)
         /\ HaltedBy(x, reason).stage = "halted"
         /\ HaltedBy(x, reason).signoff = x.signoff
BY DEF HaltedBy, Keeps, CycleT, StageT

(* The cycle moves on to another stage.                                    *)
LEMMA StagedIs ==
  ASSUME NEW x \in CycleT, NEW stage \in StageT,
         NEW y, y = [x EXCEPT !.stage = stage]
  PROVE  /\ y \in CycleT /\ Keeps(y, x) /\ y.stage = stage
         /\ y.signoff = x.signoff /\ y.queue = x.queue
         /\ y.waiting_on = x.waiting_on
BY DEF Keeps, CycleT

(* One ticket is rewritten.                                                *)
WithTicket(x, k, t) == [x EXCEPT !.tickets[k] = t]

(* All else of the cycle stays.                                             *)
LEMMA TicketIs ==
  ASSUME NEW x \in CycleT, NEW k \in DOMAIN x.tickets, NEW t \in TicketT
  PROVE  LET y == WithTicket(x, k, t) IN
         /\ y \in CycleT /\ y.cycle = x.cycle /\ y.stage = x.stage
         /\ y.budget_left = x.budget_left /\ y.max_tickets = x.max_tickets /\ y.signoff = x.signoff
         /\ y.queue = x.queue /\ y.waiting_on = x.waiting_on
         /\ Len(y.tickets) = Len(x.tickets) /\ DOMAIN y.tickets = DOMAIN x.tickets
         /\ y.tickets[k] = t
<1>1. PICK ts : ts = [x.tickets EXCEPT ![k] = t]
  OBVIOUS
<1>2. x.tickets \in Seq(TicketT)
  BY DEF CycleT
<1>3. /\ ts \in Seq(TicketT) /\ Len(ts) = Len(x.tickets)
      /\ DOMAIN ts = DOMAIN x.tickets /\ ts[k] = t
  BY <1>1, <1>2
<1>4. PICK y : y = WithTicket(x, k, t)
  OBVIOUS
<1>5. y = [x EXCEPT !.tickets = ts]
  BY <1>1, <1>4 DEF WithTicket
<1>6. y.tickets = ts
  BY <1>5 DEF CycleT
<1>7. /\ y \in CycleT /\ y.cycle = x.cycle /\ y.stage = x.stage
      /\ y.budget_left = x.budget_left /\ y.max_tickets = x.max_tickets /\ y.signoff = x.signoff
      /\ y.queue = x.queue /\ y.waiting_on = x.waiting_on
  BY <1>3, <1>5 DEF CycleT
<1> QED BY <1>3, <1>4, <1>6, <1>7

(* What becomes of a ticket.                                               *)
LEMMA DoneIs ==
  ASSUME NEW t \in TicketT, NEW verdict \in {"accepted", "rejected"}
  PROVE  /\ Done(t, verdict) \in TicketT
         /\ Done(t, verdict).run = t.run /\ Done(t, verdict).task = t.task
         /\ Done(t, verdict).status = "done" /\ Done(t, verdict).result = verdict
         /\ Done(t, verdict).survivors = t.survivors
BY DEF TicketT, Done

LEMMA TicketUpdates ==
  ASSUME NEW t \in TicketT
  PROVE  LET u == [t EXCEPT !.status = "aborted"] IN
         /\ u \in TicketT /\ u.run = t.run /\ u.task = t.task
         /\ u.status = "aborted" /\ u.result = t.result
BY DEF TicketT

(* The evaluation of a candidate leaves the ticket as it was.              *)
LEMMA EvaluatedIs ==
  ASSUME NEW t \in TicketT, NEW v, NEW c \in BOOLEAN
  PROVE  /\ Evaluated(t, v, c) \in TicketT
         /\ Evaluated(t, v, c).run = t.run /\ Evaluated(t, v, c).task = t.task
         /\ Evaluated(t, v, c).status = t.status
         /\ Evaluated(t, v, c).result = t.result
<1>1. PICK b \in BOOLEAN : b <=> (t.survivors \/ v = "SURVIVED_WITNESSED")
  OBVIOUS
<1>2. PICK d \in BOOLEAN : d <=> (t.claimed \/ c)
  OBVIOUS
<1>3. Evaluated(t, v, c) = [t EXCEPT !.survivors = b, !.claimed = d]
  BY <1>1, <1>2 DEF Evaluated, TicketT
<1> QED BY <1>3 DEF TicketT

-----------------------------------------------------------------------------
(* The shape of a cycle after an update.                                   *)

(* The only ticket that may be dispatched is the one the cycle waits for.  *)
LEMMA Working ==
  ASSUME NEW x \in CycleT, Shape(x), NEW k \in DOMAIN x.tickets,
         x.tickets[k].status = "dispatched"
  PROVE  /\ k = 1 /\ Len(x.tickets) = 1 /\ Waits(x)
         /\ x.stage \in {"triage", "redteam"}
         /\ x.stage = "triage" => x.tickets[1].task \in Seeds
         /\ x.stage = "redteam" => x.tickets[1].task = "redteam"
<1>1. x.tickets \in Seq(TicketT) /\ x.stage \in StageT
  BY DEF CycleT
<1>a. Len(x.tickets) <= 1
  BY DEF Shape
<1>2. k = 1 /\ Len(x.tickets) = 1 /\ x.tickets # <<>>
  BY <1>1, <1>a, ShortSeq
<1>3. ~Fresh(x) /\ ~Passed(x)
  BY <1>2 DEF Fresh, Passed
<1> QED BY <1>1, <1>2, <1>3 DEF Shape, StageT

(* A cycle that waits for nothing has no ticket that is dispatched.        *)
LEMMA NotWaiting ==
  ASSUME NEW x \in CycleT, Shape(x), x.waiting_on = 0
  PROVE  /\ \A i \in DOMAIN x.tickets : x.tickets[i].status # "dispatched"
         /\ x.stage = "triage" => Fresh(x)
         /\ x.stage = "redteam" => Fresh(x) \/ Passed(x)
<1>1. ~Waits(x)
  BY DEF Waits
<1> QED BY <1>1, Working DEF Shape

(* Halting is possible once no ticket is dispatched.                       *)
LEMMA HaltedShape ==
  ASSUME NEW x \in CycleT, Shape(x), NEW reason \in ReasonT,
         \A i \in DOMAIN x.tickets : x.tickets[i].status # "dispatched"
  PROVE  Shape(HaltedBy(x, reason))
<1>1. PICK y : y = HaltedBy(x, reason)
  OBVIOUS
<1>2. Keeps(y, x) /\ y.stage = "halted" /\ y.signoff = x.signoff
  BY <1>1, HaltedByIs
<1>3. Shape(y)
  BY <1>2 DEF Shape, Keeps, Signed
<1> QED BY <1>1, <1>3

(* A dispatched ticket is answered, or aborted.                            *)
LEMMA AnsweredShape ==
  ASSUME NEW x \in CycleT, Shape(x), NEW t \in TicketT,
         1 \in DOMAIN x.tickets, t.task = x.tickets[1].task,
         t.status # "dispatched",
         NEW y \in CycleT, y.stage = "halted", y.budget_left = x.budget_left,
         y.max_tickets = x.max_tickets,
         y.signoff = x.signoff, Len(y.tickets) = Len(x.tickets),
         DOMAIN y.tickets = DOMAIN x.tickets, y.tickets[1] = t
  PROVE  Shape(y)
<1>1. x.tickets \in Seq(TicketT)
  BY DEF CycleT
<1>2. DOMAIN x.tickets = {1}
  BY <1>1 DEF Shape
<1> QED BY <1>2 DEF Shape, Signed

(* The next ticket: the first of the queue, with the next run.             *)
LEMMA DispatchedIs ==
  ASSUME NEW x \in CycleT, x.budget_left > 0, x.queue # <<>>, Fresh(x),
         NewRun \in Nat
  PROVE  /\ Dispatched(x) \in CycleT /\ Dispatched(x).cycle = x.cycle
         /\ Dispatched(x).stage = x.stage /\ Dispatched(x).signoff = x.signoff
         /\ Dispatched(x).budget_left = x.budget_left - 1
         /\ Dispatched(x).max_tickets = x.max_tickets
         /\ Dispatched(x).queue = Tail(x.queue)
         /\ Waits(Dispatched(x))
         /\ Dispatched(x).tickets[1].task = Head(x.queue)
         /\ Dispatched(x).tickets[1].run = NewRun
<1>1. /\ x.queue \in Seq(TaskT) /\ x.tickets = <<>>
      /\ x.budget_left \in Nat
  BY DEF CycleT, Fresh
<1>2. PICK q : q = Tail(x.queue)
  OBVIOUS
<1>3. PICK task : task = Head(x.queue)
  OBVIOUS
<1>4. q \in Seq(TaskT) /\ task \in TaskT
  BY <1>1, <1>2, <1>3
<1>5. PICK run : run = NewRun
  OBVIOUS
<1>6. PICK t : t = [task |-> task, run |-> run, status |-> "dispatched",
                    result |-> "", survivors |-> FALSE, claimed |-> FALSE]
  OBVIOUS
<1>7. /\ t \in TicketT /\ t.task = task /\ t.run = run
      /\ t.status = "dispatched" /\ t.result = ""
  BY <1>4, <1>5, <1>6 DEF TicketT
<1>8. PICK ts : ts = Append(x.tickets, t)
  OBVIOUS
<1>9. ts \in Seq(TicketT) /\ Len(ts) = 1 /\ ts[1] = t
  BY <1>1, <1>7, <1>8, FirstOfSeq
<1>10. PICK b : b = x.budget_left - 1
  OBVIOUS
<1>11. PICK w : w = Len(x.tickets) + 1
  OBVIOUS
<1>12. b \in Nat /\ w = 1
  BY <1>1, <1>10, <1>11
<1>13. PICK y : y = [x EXCEPT !.queue = q, !.tickets = ts, !.budget_left = b,
                              !.waiting_on = w]
  OBVIOUS
<1>14. y = Dispatched(x)
  BY <1>2, <1>3, <1>5, <1>6, <1>8, <1>10, <1>11, <1>13 DEF Dispatched, CycleT
<1>15. /\ y \in CycleT /\ y.cycle = x.cycle /\ y.stage = x.stage
       /\ y.signoff = x.signoff /\ y.budget_left = b /\ y.queue = q
       /\ y.max_tickets = x.max_tickets
       /\ y.tickets = ts /\ y.waiting_on = w
  BY <1>4, <1>9, <1>12, <1>13 DEF CycleT
<1>16. Waits(y) /\ y.tickets[1].task = task /\ y.tickets[1].run = run
  BY <1>7, <1>9, <1>12, <1>15 DEF Waits
<1> QED BY <1>2, <1>3, <1>5, <1>10, <1>14, <1>15, <1>16

(* A ticket given in its stage leaves the cycle well-shaped.               *)
LEMMA DispatchedShape ==
  ASSUME NEW x \in CycleT, NEW y \in CycleT,
         x.budget_left <= x.max_tickets, y.budget_left = x.budget_left - 1,
         y.max_tickets = x.max_tickets,
         y.stage = x.stage, y.signoff = x.signoff, Waits(y),
         y.queue = Tail(x.queue), y.tickets[1].task = Head(x.queue),
         \/ x.stage = "triage" /\ x.queue \in Seq(Seeds) /\ x.queue # <<>>
         \/ x.stage = "redteam" /\ Signed(x) /\ x.queue = <<"redteam">>
  PROVE  Shape(y)
<1>1. /\ x.budget_left \in Nat /\ x.max_tickets \in Nat
      /\ y.tickets \in Seq(TicketT)
  BY DEF CycleT
<1>2. Len(y.tickets) + y.budget_left <= y.max_tickets /\ Len(y.tickets) <= 1
  <2>1. Len(y.tickets) = 1
    BY DEF Waits
  <2> QED BY <1>1, <2>1
<1>3. DOMAIN y.tickets = {1}
  BY <1>1, <1>2, ShortSeq DEF Waits
<1>4. CASE x.stage = "triage" /\ x.queue \in Seq(Seeds) /\ x.queue # <<>>
  <2>1. y.queue \in Seq(Seeds) /\ y.tickets[1].task \in Seeds
    BY <1>4
  <2>2. y.tickets[1].task # "redteam"
    BY <2>1, OrchestratorAssumption
  <2> QED BY <1>2, <1>3, <1>4, <2>1, <2>2 DEF Shape
<1>5. CASE x.stage = "redteam" /\ Signed(x) /\ x.queue = <<"redteam">>
  <2>1. y.queue = <<>> /\ y.tickets[1].task = "redteam" /\ Signed(y)
    BY <1>5 DEF Signed
  <2> QED BY <1>2, <1>3, <1>5, <2>1 DEF Shape
<1> QED BY <1>4, <1>5

-----------------------------------------------------------------------------
(* What a step may do to the files and to the runs.                        *)

(* Runs may be handed on, and only one cycle at a time takes new ones.     *)
HandedOn(c, N) ==
  /\ N \cap Ids = {} /\ N \subseteq Ids'
  /\ \A x \in Views' :
       \/ TicketRuns(x) = {}
       \/ \E y \in Views :
            /\ x.cycle = y.cycle
            /\ \/ TicketRuns(x) \subseteq TicketRuns(y)
               \/ x.cycle = c /\ TicketRuns(x) \subseteq TicketRuns(y) \cup N

(* Such a step keeps the runs of different cycles apart.                    *)
LEMMA RunsStep ==
  ASSUME RunsInv, Ids \subseteq Ids', NEW c, NEW N, HandedOn(c, N)
  PROVE  RunsInv'
<1>1. ASSUME NEW x \in Views' PROVE TicketRuns(x) \subseteq Ids'
  BY <1>1 DEF RunsInv, HandedOn
<1>2. ASSUME NEW x \in Views', NEW z \in Views', x.cycle # z.cycle
      PROVE  TicketRuns(x) \cap TicketRuns(z) = {}
  <2>1. CASE TicketRuns(x) = {} \/ TicketRuns(z) = {}
    BY <2>1
  <2>2. CASE TicketRuns(x) # {} /\ TicketRuns(z) # {}
    <3>1. PICK y \in Views :
            /\ x.cycle = y.cycle
            /\ \/ TicketRuns(x) \subseteq TicketRuns(y)
               \/ x.cycle = c /\ TicketRuns(x) \subseteq TicketRuns(y) \cup N
      BY <2>2 DEF HandedOn
    <3>2. PICK w \in Views :
            /\ z.cycle = w.cycle
            /\ \/ TicketRuns(z) \subseteq TicketRuns(w)
               \/ z.cycle = c /\ TicketRuns(z) \subseteq TicketRuns(w) \cup N
      BY <2>2 DEF HandedOn
    <3>3. /\ TicketRuns(y) \cap TicketRuns(w) = {}
          /\ TicketRuns(y) \subseteq Ids /\ TicketRuns(w) \subseteq Ids
      BY <1>2, <3>1, <3>2 DEF RunsInv
    <3> QED BY <1>2, <3>1, <3>2, <3>3 DEF HandedOn
  <2> QED BY <2>1, <2>2
<1> QED BY <1>1, <1>2 DEF RunsInv, TicketRuns

(* Nothing that is good becomes bad when the ledger moves on.              *)
LEMMA GoodStays ==
  ASSUME LedgerOK, LedgerStep, NEW x, Good(x)
  PROVE  Good(x)'
BY BackedStays DEF Good, AllBacked

(* A step that writes neither the state file nor cycles.jsonl.             *)
LEMMA FilesStay ==
  ASSUME RecordsInv, LedgerStep, UNCHANGED <<disk, cycles>>,
         report' \in ReportT \cup {NoReport}, head' \in Nat, starts' \in Nat
  PROVE  LedgerOK' /\ FilesInv' /\ StopRules'
<1>1. LedgerOK'
  BY DEF LedgerStep
<1>2. disk' \in {NoCycle, Torn} \/ Good(disk)'
  <2>1. PICK d : d = disk
    OBVIOUS
  <2>2. d \in {NoCycle, Torn} \/ Good(d)'
    BY <2>1, GoodStays DEF RecordsInv, FilesInv
  <2> QED BY <2>1, <2>2
<1>3. disk' \in CycleT /\ Ended(disk)' => Closed(disk)'
  BY DEF RecordsInv, FilesInv, Ended, Closed
<1>4. cycles' \in Seq(RecordT)
  BY DEF RecordsInv, FilesInv
<1>5. StopRules'
  BY DEF RecordsInv, StopRules, Tickets
<1> QED BY <1>1, <1>2, <1>3, <1>4, <1>5 DEF FilesInv

(* What the command holds hands its runs on.                               *)
LEMMA RunsStay ==
  ASSUME RecordsInv, Ids \subseteq Ids', UNCHANGED cycles,
         disk' \in {NoCycle, Torn} \/ disk' = disk \/ disk' = s,
         \/ s' = NoCycle
         \/ TicketRuns(s') = {}
         \/ \E y \in Views : s'.cycle = y.cycle /\ TicketRuns(s') \subseteq TicketRuns(y)
  PROVE  RunsInv'
<1>1. NoCycle \notin CycleT /\ Torn \notin CycleT
  BY CycleTypes
<1>2. ASSUME NEW x \in Views'
      PROVE  \/ TicketRuns(x) = {}
             \/ \E y \in Views : x.cycle = y.cycle /\ TicketRuns(x) \subseteq TicketRuns(y)
  <2>1. x \in Views \/ (x \in CycleT /\ x = s')
    BY <1>1 DEF Views
  <2> QED BY <1>1, <2>1
<1>3. HandedOn(0, {})
  BY <1>2 DEF HandedOn
<1> QED BY <1>3, RunsStep DEF RecordsInv

(* A step of the command.                                                  *)
LEMMA CommandStep ==
  ASSUME RecordsInv, LedgerStep, UNCHANGED <<disk, cycles, head, starts>>,
         report' \in ReportT \cup {NoReport}, Good(s)',
         TicketRuns(s') = {}
           \/ \E y \in Views : s'.cycle = y.cycle /\ TicketRuns(s') \subseteq TicketRuns(y),
         at' \in Places \ {"none"}, at' = "close" => Ended(s)',
         at' \in {"save", "step"} => ~Ended(s)', at' \in Completing => WorkInv'
  PROVE  RecordsInv'
<1>1. LedgerOK' /\ FilesInv' /\ StopRules'
  BY FilesStay DEF RecordsInv, FilesInv
<1>2. RunsInv'
  BY RunsStay DEF LedgerStep
<1>3. CommandInv'
  BY DEF CommandInv
<1> QED BY <1>1, <1>2, <1>3 DEF RecordsInv

-----------------------------------------------------------------------------
(* Halting, closing and saving.                                            *)

(* What the command and the files hold.                                    *)
LEMMA Held ==
  ASSUME RecordsInv, at # "none"
  PROVE  /\ s \in CycleT /\ Shape(s) /\ AllBacked(s) /\ s \in Views
         /\ s.tickets \in Seq(TicketT) /\ s.budget_left \in Nat /\ s.max_tickets \in Nat
BY CycleTypes DEF RecordsInv, CommandInv, Good, Views

(* What a command that reads a cycle reads.                                 *)
LEMMA OnDisk ==
  ASSUME RecordsInv, IsCycle(disk)
  PROVE  disk \in CycleT /\ Shape(disk) /\ AllBacked(disk) /\ disk \in Views
<1>1. disk # NoCycle /\ disk # Torn
  BY DEF IsCycle, NoCycle, Torn
<1> QED BY <1>1 DEF RecordsInv, FilesInv, Good, Views

(* Every halt leaves a cycle to be closed, and its tickets as they were.   *)
LEMMA HaltStep ==
  ASSUME RecordsInv, UNCHANGED <<disk, cycles, head, starts, ledgerVars>>,
         report' \in ReportT \cup {NoReport},
         NEW x \in CycleT, NEW reason \in ReasonT, Shape(x), AllBacked(x),
         \A i \in DOMAIN x.tickets : x.tickets[i].status # "dispatched",
         \E y \in Views : x.cycle = y.cycle /\ TicketRuns(x) \subseteq TicketRuns(y),
         Halt(x, reason)
  PROVE  RecordsInv'
<1>1. s' = HaltedBy(x, reason) /\ at' = "close"
  BY DEF Halt, Goto
<1>2. s' \in CycleT /\ Keeps(s', x) /\ s'.stage = "halted"
  BY <1>1, HaltedByIs
<1>3. Shape(s') /\ Ended(s')
  BY <1>1, <1>2, HaltedShape DEF Ended
<1>4. LedgerStep
  BY LedgerStutters DEF RecordsInv
<1>5. AllBacked(x)'
  BY DEF AllBacked, Backed, ledgerVars
<1>6. AllBacked(s)'
  BY <1>2, <1>5 DEF AllBacked, Keeps
<1>7. \E y \in Views : s'.cycle = y.cycle /\ TicketRuns(s') \subseteq TicketRuns(y)
  BY <1>2 DEF TicketRuns, Keeps
<1>8. Good(s)' /\ Ended(s)'
  BY <1>2, <1>3, <1>6 DEF Good
<1>9. /\ at' \in Places \ {"none"} /\ at' = "close"
      /\ at' \notin {"save", "step"} \cup Completing
  BY <1>1 DEF Places, Completing
<1> QED BY <1>4, <1>7, <1>8, <1>9, CommandStep

(* cycles.jsonl gets the record of a cycle that has ended.                 *)
LEMMA CloseCycleStep ==
  ASSUME RecordsInv, CloseCycle
  PROVE  RecordsInv'
<1>1. PICK c : c = CycleRecord(s)
  OBVIOUS
<1>2. /\ s \in CycleT /\ Shape(s) /\ AllBacked(s) /\ s \in Views /\ Ended(s)
      /\ s.tickets \in Seq(TicketT) /\ s.budget_left \in Nat /\ s.max_tickets \in Nat
  BY Held DEF CloseCycle, RecordsInv, CommandInv
<1>3. /\ c \in RecordT /\ c.cycle = s.cycle /\ c.tickets = s.tickets
      /\ c.outcome = s.stage /\ c.signoff = s.signoff
      /\ c.max_tickets = s.max_tickets
  BY <1>1, <1>2 DEF CycleRecord, CycleT, RecordT
<1>4. cycles \in Seq(RecordT) /\ cycles' = Append(cycles, c)
  BY <1>1 DEF CloseCycle, RecordsInv, FilesInv
<1>5. /\ cycles' \in Seq(RecordT)
      /\ DOMAIN cycles' = DOMAIN cycles \cup {Len(cycles) + 1}
      /\ \A i \in DOMAIN cycles : cycles'[i] = cycles[i]
      /\ cycles'[Len(cycles) + 1] = c
  BY <1>3, <1>4
<1>6. ledgerVars' = ledgerVars /\ UNCHANGED <<disk, s, report, head, starts>>
  BY DEF CloseCycle, bounds
<1>7. LedgerOK' /\ Ids' = Ids
  BY <1>6, LedgerStutters DEF RecordsInv, LedgerStep
<1>8. FilesInv'
  <2>1. disk' \in {NoCycle, Torn} \/ Good(disk)'
    BY <1>6 DEF RecordsInv, FilesInv, Good, AllBacked, Backed, ledgerVars
  <2>2. disk \in CycleT /\ Ended(disk) => Closed(disk)'
    BY <1>5, <1>6 DEF RecordsInv, FilesInv, Closed
  <2> QED BY <1>5, <1>6, <2>1, <2>2 DEF RecordsInv, FilesInv, Ended
<1>9. CommandInv'
  <2>1. Good(s)'
    BY <1>2, <1>6 DEF Good, AllBacked, Backed, ledgerVars
  <2>2. Closed(s)'
    BY <1>1, <1>5, <1>6 DEF Closed
  <2>3. at' = "save"
    BY DEF CloseCycle
  <2> QED BY <2>1, <2>2, <2>3 DEF CommandInv, Places, Completing
<1>10. RunsInv'
  <2>1. ASSUME NEW x \in Views'
        PROVE  \E y \in Views : x.cycle = y.cycle /\ TicketRuns(x) \subseteq TicketRuns(y)
    <3>1. x \in Views \/ x = c
      BY <1>5, <1>6 DEF Views
    <3>2. TicketRuns(c) = TicketRuns(s)
      BY <1>3 DEF TicketRuns
    <3> QED BY <1>2, <1>3, <3>1, <3>2
  <2>2. HandedOn(0, {})
    BY <2>1 DEF HandedOn
  <2> QED BY <1>7, <2>2, RunsStep DEF RecordsInv
<1>11. StopRules'
  <2>1. /\ Len(c.tickets) <= c.max_tickets
        /\ c.outcome = "done" => Signed(c) /\ (Fresh(s) \/ Passed(s))
        /\ \A i \in DOMAIN c.tickets :
             i = 1 /\ Len(c.tickets) = 1 /\ (c.tickets[i].task = "redteam" => Signed(c))
        /\ c.outcome \in {"halted", "done"}
    <3>1. Len(s.tickets) <= s.max_tickets
      BY <1>2, OrchestratorAssumption DEF Shape
    <3>2. Len(s.tickets) <= 1
      BY <1>2 DEF Shape
    <3>3. \A i \in DOMAIN s.tickets : i = 1 /\ Len(s.tickets) = 1
      BY <1>2, <3>2, ShortSeq
    <3> QED BY <1>2, <1>3, <3>1, <3>3 DEF Shape, Signed, Ended
  <2>2. c.outcome = "done" =>
          \A i \in DOMAIN c.tickets :
            /\ c.tickets[i].result = "accepted" /\ ~c.tickets[i].survivors
            /\ c.tickets[i].task = "redteam"
    BY <1>3, <2>1 DEF Fresh, Passed
  <2>3. \A t \in Tickets(c) : \E i \in DOMAIN c.tickets : t = c.tickets[i]
    BY DEF Tickets
  <2>4. /\ c.outcome = "done" =>
             /\ c.signoff.passed
             /\ \A t \in Tickets(c) : t.result = "accepted" /\ ~t.survivors
        /\ \A t \in Tickets(c) : t.task = "redteam" =>
             c.signoff.passed /\ \A u \in Tickets(c) : u.task = "redteam"
        /\ \A t \in Tickets(c) :
             t.result = "accepted" /\ (t.task \in Seeds \/ t.survivors)
               => c.outcome = "halted"
    BY <2>1, <2>2, <2>3, OrchestratorAssumption DEF Signed
  <2>5. \A i \in DOMAIN cycles' : cycles'[i] = c \/ (i \in DOMAIN cycles /\ cycles'[i] = cycles[i])
    BY <1>5
  <2> QED BY <2>1, <2>4, <2>5 DEF RecordsInv, StopRules
<1> QED BY <1>7, <1>8, <1>9, <1>10, <1>11 DEF RecordsInv

(* The state file becomes what the command holds.                          *)
LEMMA DiskStep ==
  ASSUME RecordsInv, at # "none", Ended(s) => Closed(s),
         disk' = s, UNCHANGED <<cycles, report, head, starts, ledgerVars>>,
         s' = NoCycle \/ s' = s
  PROVE  LedgerOK' /\ FilesInv' /\ RunsInv' /\ StopRules' /\ Good(s)
<1>1. Good(s) /\ s \in CycleT /\ s \in Views
  BY Held DEF Good
<1>2. LedgerOK' /\ Ids' = Ids
  BY LedgerStutters DEF RecordsInv, LedgerStep
<1>3. Good(disk)' /\ disk' \in CycleT
  BY <1>1 DEF Good, AllBacked, Backed, ledgerVars
<1>4. Ended(disk)' => Closed(disk)'
  BY DEF Ended, Closed
<1>5. FilesInv'
  BY <1>3, <1>4 DEF RecordsInv, FilesInv
<1>6. RunsInv'
  BY <1>1, <1>2, RunsStay
<1>7. StopRules'
  BY DEF RecordsInv, StopRules, Tickets
<1> QED BY <1>1, <1>2, <1>5, <1>6, <1>7

(* A save.                                                                 *)
LEMMA SaveStep ==
  ASSUME RecordsInv, Save
  PROVE  RecordsInv'
<1>1. /\ at = "save" /\ at' = "step" /\ disk' = s /\ s' = s
      /\ UNCHANGED <<cycles, report, head, starts, ledgerVars>>
  BY DEF Save, bounds
<1>2. Ended(s) => Closed(s)
  BY <1>1 DEF RecordsInv, CommandInv
<1>3. LedgerOK' /\ FilesInv' /\ RunsInv' /\ StopRules' /\ Good(s)
  BY <1>1, <1>2, DiskStep
<1>4. Good(s)' /\ (Ended(s)' => Closed(s)')
  BY <1>1, <1>2, <1>3 DEF Good, AllBacked, Backed, ledgerVars, Ended, Closed
<1>5. CommandInv'
  BY <1>1, <1>4 DEF CommandInv, Places, Completing
<1> QED BY <1>3, <1>5 DEF RecordsInv

(* The end of the loop.                                                    *)
LEMMA StepReturnsStep ==
  ASSUME RecordsInv, StepReturns
  PROVE  RecordsInv'
<1>1. /\ at = "step" /\ at' = "none" /\ disk' = s /\ s' = NoCycle
      /\ UNCHANGED <<cycles, report, head, starts, ledgerVars>>
  BY DEF StepReturns, LoopOver, Goto, bounds
<1>2. Ended(s) => Closed(s)
  BY <1>1 DEF RecordsInv, CommandInv
<1>3. LedgerOK' /\ FilesInv' /\ RunsInv' /\ StopRules'
  BY <1>1, <1>2, DiskStep
<1>4. CommandInv'
  BY <1>1 DEF CommandInv, Places, Completing
<1> QED BY <1>3, <1>4 DEF RecordsInv

-----------------------------------------------------------------------------
(* The stages.                                                             *)

(* A cycle that moves on to another stage is saved, or closed.             *)
LEMMA StageStep ==
  ASSUME RecordsInv, at # "none",
         LedgerStep, UNCHANGED <<disk, cycles, head, starts>>,
         report' \in ReportT \cup {NoReport},
         s' \in CycleT, Shape(s'), AllBacked(s)',
         s'.cycle = s.cycle, TicketRuns(s') \subseteq TicketRuns(s),
         \/ at' = "save" /\ ~Ended(s')
         \/ at' = "close" /\ Ended(s')
  PROVE  RecordsInv'
<1>1. s \in Views
  BY Held
<1>2. Good(s)' /\ (Ended(s)' <=> Ended(s'))
  BY DEF Good, Ended
<1>3. /\ at' \in Places \ {"none"} /\ at' \notin Completing
      /\ at' = "close" => Ended(s)' /\ (at' \in {"save", "step"} => ~Ended(s)')
      /\ at' \in {"save", "step"} => ~Ended(s)'
  BY <1>2 DEF Places, Completing
<1> QED BY <1>1, <1>2, <1>3, CommandStep

(* What stage_signoff makes of a report.                                   *)
LEMMA JudgeStep ==
  ASSUME RecordsInv, Stepping("signoff"), NEW rep \in ReportT, Judge(rep),
         UNCHANGED <<disk, cycles, head, starts, ledgerVars>>,
         report' \in ReportT \cup {NoReport}
  PROVE  RecordsInv'
<1>1. /\ s \in CycleT /\ Shape(s) /\ AllBacked(s) /\ s \in Views /\ at # "none"
      /\ Fresh(s) /\ s.queue = <<>>
  BY Held DEF Stepping, Shape
<1>2. PICK sg : sg = [commit |-> rep.commit, passed |-> rep.passed]
  OBVIOUS
<1>3. sg \in SignedT /\ sg.passed = rep.passed
  BY <1>2 DEF SignedT, ReportT
<1>4. PICK tr : tr = head
  OBVIOUS
<1>5. PICK x : x = [s EXCEPT !.signoff = sg, !.tree = tr]
  OBVIOUS
<1>6. /\ x \in CycleT /\ Keeps(x, s) /\ x.signoff = sg /\ x.queue = s.queue
      /\ x.waiting_on = s.waiting_on /\ x.stage = "signoff"
  <2>1. tr \in Nat
    BY <1>4 DEF RecordsInv, FilesInv
  <2> QED BY <1>1, <1>3, <1>5, <2>1 DEF CycleT, Keeps, Stepping
<1>7. Fresh(x) /\ x.queue = <<>> /\ Shape(x) /\ DOMAIN x.tickets = {}
  BY <1>1, <1>6 DEF Fresh, Keeps, Shape
<1>8. LedgerStep
  BY LedgerStutters DEF RecordsInv
<1>9. ASSUME NEW y \in CycleT, y = s', Keeps(y, x), Shape(y), y.stage # "halted",
             y.stage # "done", at' = "save"
      PROVE  RecordsInv'
  <2>1. s' = y
    BY <1>9
  <2>2. DOMAIN y.tickets = {} /\ TicketRuns(y) = {} /\ y.cycle = s.cycle
    BY <1>6, <1>7, <1>9 DEF TicketRuns, Keeps
  <2>3. AllBacked(s)'
    BY <2>1, <2>2 DEF AllBacked
  <2>4. ~Ended(y)
    BY <1>9 DEF Ended
  <2> QED BY <1>1, <1>8, <1>9, <2>1, <2>2, <2>3, <2>4, StageStep
<1>10. CASE rep.passed
  <2>1. PICK stage : stage = AfterClean(s)
    OBVIOUS
  <2>2. stage \in {"redteam", "close"} /\ stage \in StageT
    BY <2>1 DEF AfterClean, StageT
  <2>3. PICK y : y = [x EXCEPT !.stage = stage]
    OBVIOUS
  <2>4. /\ y \in CycleT /\ Keeps(y, x) /\ y.stage = stage /\ y.signoff = sg
        /\ y.queue = <<>> /\ y.waiting_on = x.waiting_on
    BY <1>6, <1>7, <2>2, <2>3, StagedIs
  <2>5. Shape(y)
    <3>1. Signed(y) /\ Fresh(y)
      BY <1>3, <1>7, <1>10, <2>4 DEF Signed, Fresh, Keeps
    <3> QED BY <1>7, <2>2, <2>4, <3>1 DEF Shape, Keeps
  <2>6. s' = y /\ at' = "save"
    BY <1>2, <1>4, <1>5, <1>10, <2>1, <2>3 DEF Judge, Goto
  <2> QED BY <1>9, <2>2, <2>4, <2>5, <2>6
<1>11. CASE ~rep.passed /\ Halt(x, "no seed to triage")
  <2>1. AllBacked(x)
    BY <1>7 DEF AllBacked
  <2>2. x.cycle = s.cycle /\ TicketRuns(x) \subseteq TicketRuns(s)
    BY <1>6 DEF Keeps, TicketRuns
  <2> QED BY <1>1, <1>6, <1>7, <1>11, <2>1, <2>2, HaltStep DEF ReasonT
<1>12. ASSUME ~rep.passed, NEW failures \in SUBSET Seeds, failures # {},
              NEW q \in Orders(failures),
              s' = [x EXCEPT !.queue = q, !.stage = "triage",
                             !.pending_halt = rep.non_random],
              at' = "save"
       PROVE  RecordsInv'
  <2>1. q \in Seq(Seeds) /\ q # <<>>
    <3>1. IsFiniteSet(failures) /\ Cardinality(failures) \in Nat
      BY <1>12, OrchestratorAssumption, FS_Subset, FS_CardinalityType
    <3>2. q \in [1..Cardinality(failures) -> failures]
      BY DEF Orders
    <3>3. q \in Seq(Seeds)
      BY <3>1, <3>2
    <3>4. DOMAIN q # {}
      BY <1>12 DEF Orders
    <3> QED BY <3>3, <3>4
  <2>2. q \in Seq(TaskT)
    BY <2>1 DEF TaskT
  <2>3. PICK b : b = rep.non_random
    OBVIOUS
  <2>4. b \in BOOLEAN
    BY <2>3 DEF ReportT
  <2>5. PICK y : y = [x EXCEPT !.queue = q, !.stage = "triage", !.pending_halt = b]
    OBVIOUS
  <2>6. /\ y \in CycleT /\ Keeps(y, x) /\ y.stage = "triage" /\ y.queue = q
        /\ y.waiting_on = x.waiting_on /\ y.signoff = x.signoff
    BY <1>6, <2>2, <2>4, <2>5 DEF CycleT, Keeps, StageT
  <2>7. Shape(y)
    <3>1. Fresh(y)
      BY <1>7, <2>6 DEF Fresh, Keeps
    <3> QED BY <1>7, <2>1, <2>6, <3>1 DEF Shape, Keeps
  <2>8. s' = y
    BY <1>12, <2>3, <2>5
  <2> QED BY <1>9, <1>12, <2>6, <2>7, <2>8
<1>13. ~rep.passed =>
         \/ Halt(x, "no seed to triage")
         \/ \E failures \in SUBSET Seeds :
              /\ failures # {}
              /\ \E q \in Orders(failures) :
                   /\ s' = [x EXCEPT !.queue = q, !.stage = "triage",
                                     !.pending_halt = rep.non_random]
                   /\ at' = "save"
  BY <1>2, <1>4, <1>5 DEF Judge, Goto
<1> QED BY <1>10, <1>11, <1>12, <1>13

(* The three ways to a report.                                              *)
LEMMA SignoffStep ==
  ASSUME RecordsInv, SignoffReused \/ SignoffRuns \/ SignoffTimesOut
  PROVE  RecordsInv'
<1>1. head \in Nat /\ report \in ReportT \cup {NoReport}
  BY DEF RecordsInv, FilesInv
<1>2. Reports \subseteq ReportT
  BY <1>1 DEF Reports, ReportT
<1>3. CASE SignoffReused
  <2>1. report \in ReportT
    BY <1>1, <1>3 DEF SignoffReused
  <2>2. /\ Stepping("signoff") /\ Judge(report) /\ report' = report
        /\ UNCHANGED <<disk, cycles, head, starts, ledgerVars>>
    BY <1>3 DEF SignoffReused, bounds
  <2> QED BY <1>1, <2>1, <2>2, JudgeStep
<1>4. CASE SignoffRuns
  <2>1. PICK rep \in ReportT : report' = rep /\ Judge(rep)
    BY <1>2, <1>4 DEF SignoffRuns
  <2>2. /\ Stepping("signoff")
        /\ UNCHANGED <<disk, cycles, head, starts, ledgerVars>>
    BY <1>4 DEF SignoffRuns, bounds
  <2> QED BY <2>1, <2>2, JudgeStep
<1>5. CASE SignoffTimesOut
  <2>1. report \in ReportT
    BY <1>1, <1>5 DEF SignoffTimesOut
  <2>2. /\ Stepping("signoff") /\ Judge(report) /\ report' = report
        /\ UNCHANGED <<disk, cycles, head, starts, ledgerVars>>
    BY <1>5 DEF SignoffTimesOut, bounds
  <2> QED BY <1>1, <2>1, <2>2, JudgeStep
<1> QED BY <1>3, <1>4, <1>5

(* The next ticket is given with a new run, or the budget is spent.        *)
LEMMA NextTicketStep ==
  ASSUME RecordsInv, at = "step", NEW x \in CycleT, Fresh(x), Shape(s),
         x.cycle = s.cycle, x.budget_left <= x.max_tickets, x.queue # <<>>,
         \/ x.stage = "triage" /\ x.queue \in Seq(Seeds)
         \/ x.stage = "redteam" /\ Signed(x) /\ x.queue = <<"redteam">>,
         NextTicket(x), UNCHANGED <<disk, cycles, report, head, starts>>
  PROVE  RecordsInv'
<1>1. s \in CycleT /\ s \in Views /\ x.budget_left \in Nat /\ x.tickets = <<>>
  BY Held DEF CycleT, Fresh
<1>2. report' \in ReportT \cup {NoReport}
  BY DEF RecordsInv, FilesInv
<1>3. CASE x.budget_left <= 0
  <2>1. Halt(x, "budget") /\ UNCHANGED ledgerVars
    BY <1>3 DEF NextTicket
  <2>2. s' = HaltedBy(x, "budget") /\ at' = "close"
    BY <2>1 DEF Halt, Goto
  <2>a. s' \in CycleT /\ Keeps(s', x) /\ s'.stage = "halted"
    BY <2>2, HaltedByIs DEF ReasonT
  <2>b. Shape(s')
    BY <1>1, <2>a DEF Shape, Keeps
  <2>3. s' \in CycleT /\ Keeps(s', x) /\ s'.stage = "halted" /\ Shape(s')
    BY <2>a, <2>b
  <2>4. TicketRuns(s') = {} /\ AllBacked(s)' /\ Ended(s')
    BY <1>1, <2>3 DEF TicketRuns, AllBacked, Keeps, Ended
  <2>5. LedgerStep
    BY <2>1, LedgerStutters DEF RecordsInv
  <2>6. s'.cycle = s.cycle
    BY <2>3 DEF Keeps
  <2> QED BY <1>2, <2>2, <2>3, <2>4, <2>5, <2>6, StageStep
<1>4. CASE x.budget_left > 0
  <2>1. PICK y : y = Dispatched(x)
    OBVIOUS
  <2>2. s' = y /\ at' = "save" /\ LedgerStart(NewRun)
    BY <1>1, <1>4, <2>1 DEF NextTicket, Goto
  <2>3. PICK run : run = NewRun
    OBVIOUS
  <2>4. LedgerStep /\ Ids' = Ids \cup {run} /\ run \notin Ids /\ run \in Nat
    BY <2>2, <2>3, StartStep, NextRun DEF RecordsInv
  <2>6. /\ y \in CycleT /\ y.cycle = x.cycle /\ y.stage = x.stage
        /\ y.signoff = x.signoff /\ y.max_tickets = x.max_tickets
        /\ y.budget_left = x.budget_left - 1
        /\ y.queue = Tail(x.queue) /\ Waits(y)
        /\ y.tickets[1].task = Head(x.queue) /\ y.tickets[1].run = run
    BY <1>4, <2>1, <2>3, <2>4, DispatchedIs
  <2>7. Shape(y)
    BY <2>6, DispatchedShape
  <2>8. DOMAIN y.tickets = {1}
    <3>1. y.tickets \in Seq(TicketT) /\ Len(y.tickets) = 1
      BY <2>6 DEF CycleT, Waits
    <3> QED BY <3>1, ShortSeq
  <2>9. TicketRuns(y) = {run}
    BY <2>6, <2>8 DEF TicketRuns
  <2>10. AllBacked(s)'
    BY <2>2, <2>6, <2>8 DEF AllBacked, Waits
  <2>11. LedgerOK' /\ FilesInv' /\ StopRules'
    BY <1>2, <2>4, FilesStay DEF RecordsInv, FilesInv
  <2>12. RunsInv'
    <3>2. PICK N : N = {run}
      OBVIOUS
    <3>3. PICK c : c = s.cycle
      OBVIOUS
    <3>1. ASSUME NEW z \in Views'
          PROVE  \E w \in Views :
                   /\ z.cycle = w.cycle
                   /\ \/ TicketRuns(z) \subseteq TicketRuns(w)
                      \/ z.cycle = c /\ TicketRuns(z) \subseteq TicketRuns(w) \cup N
      <4>1. z \in Views \/ z = y
        BY <2>2 DEF Views
      <4> QED BY <1>1, <2>6, <2>9, <3>2, <3>3, <4>1
    <3>4. N \cap Ids = {} /\ N \subseteq Ids' /\ Ids \subseteq Ids'
      BY <2>4, <3>2
    <3>5. HandedOn(c, N)
      BY <3>1, <3>4 DEF HandedOn
    <3> QED BY <3>4, <3>5, RunsStep DEF RecordsInv
  <2>13. CommandInv'
    <3>1. Good(s)' /\ ~Ended(s)'
      BY <2>2, <2>6, <2>7, <2>10 DEF Good, Ended
    <3> QED BY <2>2, <3>1 DEF CommandInv, Places, Completing
  <2> QED BY <2>11, <2>12, <2>13 DEF RecordsInv
<1> QED BY <1>1, <1>3, <1>4

(* Triage: every ticket ends the cycle, so there is no second one.         *)
LEMMA TriageStep ==
  ASSUME RecordsInv, Triage
  PROVE  RecordsInv'
<1>1. /\ at = "step" /\ s.stage = "triage" /\ s.waiting_on = 0
      /\ UNCHANGED <<disk, cycles, report, head, starts>>
  BY DEF Triage, Stepping, bounds
<1>2. /\ s \in CycleT /\ Shape(s) /\ s.tickets \in Seq(TicketT)
      /\ s.budget_left \in Nat /\ s.max_tickets \in Nat
  BY <1>1, Held
<1>3. Fresh(s)
  BY <1>1, <1>2, NotWaiting
<1>4. s.queue \in Seq(Seeds) /\ s.queue # <<>>
  BY <1>1, <1>2 DEF Shape, Waits
<1>5. NextTicket(s)
  BY <1>4 DEF Triage
<1>6. s.budget_left <= s.max_tickets
  BY <1>2, OrchestratorAssumption DEF Shape
<1> QED BY <1>1, <1>2, <1>3, <1>4, <1>5, <1>6, NextTicketStep

(* The red team works once.                                                *)
LEMMA RedTeamStep ==
  ASSUME RecordsInv, RedTeam
  PROVE  RecordsInv'
<1>1. /\ at = "step" /\ s.stage = "redteam" /\ s.waiting_on = 0
      /\ UNCHANGED <<disk, cycles, report, head, starts>>
  BY DEF RedTeam, Stepping, bounds
<1>2. /\ s \in CycleT /\ Shape(s) /\ AllBacked(s)
      /\ s.budget_left \in Nat /\ s.max_tickets \in Nat
      /\ s.tickets \in Seq(TicketT)
  BY <1>1, Held
<1>3. Signed(s) /\ s.queue = <<>> /\ (Fresh(s) \/ Passed(s))
  BY <1>1, <1>2, NotWaiting DEF Shape
<1>4. CASE \A i \in DOMAIN s.tickets : s.tickets[i].task # "redteam"
  <2>1. Fresh(s)
    <3>1. SUFFICES ASSUME Passed(s) PROVE FALSE
      BY <1>3
    <3>2. 1 \in DOMAIN s.tickets /\ s.tickets[1].task = "redteam"
      BY <1>2, <3>1 DEF Passed
    <3> QED BY <1>4, <3>2
  <2>2. PICK q : q = Append(s.queue, "redteam")
    OBVIOUS
  <2>3. "redteam" \in TaskT
    BY DEF TaskT
  <2>4. q \in Seq(TaskT) /\ Len(q) = 1 /\ q = <<"redteam">>
    BY <1>3, <2>2, <2>3, FirstOfSeq
  <2>5. PICK x : x = [s EXCEPT !.queue = q]
    OBVIOUS
  <2>6. /\ x \in CycleT /\ Keeps(x, s) /\ x.stage = "redteam" /\ x.queue = q
        /\ x.signoff = s.signoff /\ x.waiting_on = s.waiting_on
    BY <1>1, <1>2, <2>4, <2>5 DEF CycleT, Keeps
  <2>7. NextTicket(x)
    BY <1>4, <2>2, <2>5 DEF RedTeam
  <2>8. Fresh(x) /\ Signed(x) /\ x.cycle = s.cycle
    BY <1>3, <2>1, <2>6 DEF Fresh, Keeps, Signed
  <2>9. x.budget_left <= x.max_tickets
    BY <1>2, <2>6, OrchestratorAssumption DEF Shape, Keeps
  <2>10. x.queue # <<>>
    BY <2>4, <2>6
  <2> QED BY <1>1, <1>2, <2>4, <2>6, <2>7, <2>8, <2>9, <2>10, NextTicketStep
<1>5. CASE ~\A i \in DOMAIN s.tickets : s.tickets[i].task # "redteam"
  <2>1. Passed(s)
    BY <1>2, <1>3, <1>5 DEF Fresh
  <2>2. /\ s' = [s EXCEPT !.stage = "close"] /\ at' = "save"
        /\ UNCHANGED ledgerVars
    BY <1>5 DEF RedTeam, Goto
  <2>3. /\ s' \in CycleT /\ Keeps(s', s) /\ s'.stage = "close"
        /\ s'.signoff = s.signoff /\ s'.waiting_on = s.waiting_on
    BY <1>2, <2>2, StagedIs DEF StageT
  <2>4. Shape(s')
    <3>1. Passed(s') /\ Signed(s')
      BY <1>3, <2>1, <2>3 DEF Passed, Signed, Keeps
    <3> QED BY <1>2, <2>3, <3>1 DEF Shape, Keeps
  <2>5. AllBacked(s)'
    BY <1>2, <2>2, <2>3 DEF AllBacked, Backed, Keeps, ledgerVars
  <2>6. s'.cycle = s.cycle /\ TicketRuns(s') = TicketRuns(s) /\ ~Ended(s')
    BY <2>3 DEF Keeps, TicketRuns, Ended
  <2>7. LedgerStep /\ report' \in ReportT \cup {NoReport}
    BY <1>1, <2>2, LedgerStutters DEF RecordsInv, FilesInv
  <2> QED BY <1>1, <2>2, <2>3, <2>4, <2>5, <2>6, <2>7, StageStep
<1> QED BY <1>4, <1>5

(* The end of a cycle that nothing stopped.                                *)
LEMMA CloseStep ==
  ASSUME RecordsInv, Close
  PROVE  RecordsInv'
<1>1. /\ at = "step" /\ s.stage = "close" /\ at' = "close"
      /\ s' = [s EXCEPT !.stage = "done"]
      /\ UNCHANGED <<disk, cycles, report, head, starts, ledgerVars>>
  BY DEF Close, Stepping, Goto, bounds
<1>2. s \in CycleT /\ Shape(s) /\ AllBacked(s)
  BY <1>1, Held
<1>3. /\ s' \in CycleT /\ Keeps(s', s) /\ s'.stage = "done"
      /\ s'.signoff = s.signoff /\ s'.waiting_on = s.waiting_on
  BY <1>1, <1>2, StagedIs DEF StageT
<1>4. Shape(s')
  <2>1. Signed(s') /\ (Fresh(s') \/ Passed(s'))
    BY <1>1, <1>2, <1>3 DEF Shape, Signed, Fresh, Passed, Keeps
  <2> QED BY <1>2, <1>3, <2>1 DEF Shape, Keeps
<1>5. AllBacked(s)'
  BY <1>1, <1>2, <1>3 DEF AllBacked, Backed, Keeps, ledgerVars
<1>6. s'.cycle = s.cycle /\ TicketRuns(s') = TicketRuns(s) /\ Ended(s')
  BY <1>3 DEF Keeps, TicketRuns, Ended
<1>7. LedgerStep /\ report' \in ReportT \cup {NoReport}
  BY <1>1, LedgerStutters DEF RecordsInv, FilesInv
<1> QED BY <1>1, <1>3, <1>4, <1>5, <1>6, <1>7, StageStep

-----------------------------------------------------------------------------
(* Completing a ticket.                                                    *)

(* The ticket that is completed, and the cycle it belongs to.              *)
LEMMA TheTicket ==
  ASSUME RecordsInv, at \in Completing
  PROVE  /\ WorkInv /\ s \in CycleT /\ Shape(s) /\ AllBacked(s) /\ s \in Views
         /\ cur.ticket = 1 /\ DOMAIN s.tickets = {1} /\ s.tickets[1] \in TicketT
         /\ ticket = s.tickets[1] /\ Waits(s) /\ ~Ended(s)
         /\ s.stage \in {"triage", "redteam"}
         /\ s.stage = "triage" => s.tickets[1].task \in Seeds
         /\ s.stage = "redteam" => s.tickets[1].task = "redteam"
<1>1. WorkInv /\ at # "none"
  BY DEF RecordsInv, CommandInv, Completing
<1>2. s \in CycleT /\ Shape(s) /\ AllBacked(s) /\ s \in Views /\ s.tickets \in Seq(TicketT)
  BY <1>1, Held
<1>3. cur.ticket \in DOMAIN s.tickets /\ s.tickets[cur.ticket].status = "dispatched"
  BY <1>1 DEF WorkInv
<1>4. /\ cur.ticket = 1 /\ Len(s.tickets) = 1 /\ Waits(s)
      /\ s.stage \in {"triage", "redteam"}
      /\ s.stage = "triage" => s.tickets[1].task \in Seeds
      /\ s.stage = "redteam" => s.tickets[1].task = "redteam"
  BY <1>2, <1>3, Working
<1>5. DOMAIN s.tickets = {1} /\ s.tickets[1] \in TicketT
  BY <1>2, <1>4, ShortSeq
<1> QED BY <1>1, <1>2, <1>4, <1>5 DEF ticket, Ended

(* The ledger is called, and the cycle stays as it was read.               *)
LEMMA WorkStep ==
  ASSUME RecordsInv, at \in Completing, LedgerStep,
         UNCHANGED <<disk, s, cycles, report, head, starts>>,
         at' \in Completing, cur' \in CurT, cur'.ticket = cur.ticket,
         at' = "reject" => cur'.verdict \in {"rejected", "aborted"},
         at' \in {"unlink", "update"} => cur'.verdict # "",
         at' = "unlink" => ticket.run \in Recorded',
         at' \in {"unlink", "update"} /\ cur'.verdict = "accepted" =>
           \E r : r = ticket.run /\ Backed(r)'
  PROVE  RecordsInv'
<1>1. /\ WorkInv /\ s \in CycleT /\ Shape(s) /\ AllBacked(s) /\ s \in Views
      /\ cur.ticket = 1 /\ ticket = s.tickets[1] /\ ~Ended(s)
  BY TheTicket
<1>2. PICK x : x = s
  OBVIOUS
<1>3. Good(x)'
  BY <1>1, <1>2, GoodStays DEF Good, RecordsInv
<1>4. Good(s)'
  BY <1>2, <1>3
<1>5. PICK r : r = s.tickets[1].run
  OBVIOUS
<1>6. at' \in {"unlink", "update"} /\ cur'.verdict = "accepted" => Backed(r)'
  BY <1>1, <1>5
<1>7. r = s'.tickets[cur'.ticket].run
  BY <1>1, <1>5
<1>8. at' \in {"unlink", "update"} /\ cur'.verdict = "accepted" =>
        Backed(s.tickets[cur.ticket].run)'
  BY <1>6, <1>7 DEF Backed
<1>9. WorkInv'
  BY <1>1, <1>8 DEF WorkInv
<1>10. report' \in ReportT \cup {NoReport}
  BY DEF RecordsInv, FilesInv
<1>11. at' \in Places \ {"none"} /\ at' # "close" /\ at' \notin {"save", "step"}
  BY DEF Places, Completing
<1>12. s'.cycle = s.cycle /\ TicketRuns(s') = TicketRuns(s)
  BY DEF TicketRuns
<1> QED BY <1>1, <1>4, <1>9, <1>10, <1>11, <1>12, CommandStep

(* The gates of a triage.                                                  *)
LEMMA TriageGateStep ==
  ASSUME RecordsInv, TriageGate
  PROVE  RecordsInv'
<1>1. /\ at = "gates" /\ at' = "gates" /\ cur.gates > 0
      /\ UNCHANGED <<disk, s, cycles, report, head, starts>>
  BY DEF TriageGate, bounds
<1>2. at \in Completing /\ cur \in CurT
  BY <1>1 DEF Completing, RecordsInv, CommandInv, WorkInv
<1>3. PICK passed \in BOOLEAN :
        /\ LedgerGate(ticket.run, passed)
        /\ cur' = [cur EXCEPT
             !.ok = @ /\ Readable(ticket.run) /\ passed,
             !.gates = IF @ = 3 /\ ~(Readable(ticket.run) /\ passed) THEN 0 ELSE @ - 1]
  BY DEF TriageGate
<1>4. PICK id : id = ticket.run
  OBVIOUS
<1>5. LedgerStep
  BY <1>3, <1>4, GateStep DEF RecordsInv
<1>6. PICK ok \in BOOLEAN : ok <=> (cur.ok /\ Readable(ticket.run) /\ passed)
  OBVIOUS
<1>7. PICK left : left = IF cur.gates = 3 /\ ~(Readable(ticket.run) /\ passed)
                           THEN 0 ELSE cur.gates - 1
  OBVIOUS
<1>a. cur.gates \in Nat /\ cur.gates > 0
  BY <1>1, <1>2 DEF CurT
<1>8. left \in Nat
  BY <1>7, <1>a
<1>9. cur' = [cur EXCEPT !.ok = ok, !.gates = left]
  BY <1>2, <1>3, <1>6, <1>7 DEF CurT
<1>10. cur' \in CurT /\ cur'.ticket = cur.ticket
  BY <1>2, <1>8, <1>9 DEF CurT
<1> QED BY <1>1, <1>2, <1>5, <1>10, WorkStep

(* The ticket of the cycle is rewritten, and its run kept.                 *)
LEMMA Rewritten ==
  ASSUME RecordsInv, at \in Completing, LedgerStep,
         NEW t \in TicketT, t.run = s.tickets[1].run,
         t.result = "accepted" => Backed(t.run),
         NEW y, y = WithTicket(s, 1, t)
  PROVE  /\ y \in CycleT /\ y.cycle = s.cycle /\ y.stage = s.stage
         /\ y.budget_left = s.budget_left /\ y.max_tickets = s.max_tickets /\ y.signoff = s.signoff
         /\ y.queue = s.queue /\ y.waiting_on = s.waiting_on
         /\ Len(y.tickets) = 1 /\ DOMAIN y.tickets = {1} /\ y.tickets[1] = t
         /\ TicketRuns(y) = TicketRuns(s) /\ AllBacked(y) /\ AllBacked(y)'
<1>1. s \in CycleT /\ DOMAIN s.tickets = {1} /\ Len(s.tickets) = 1
  BY TheTicket DEF Waits
<1>2. PICK x : x = s
  OBVIOUS
<1>3. x \in CycleT /\ 1 \in DOMAIN x.tickets /\ y = WithTicket(x, 1, t)
  BY <1>1, <1>2
<1>4. /\ y \in CycleT /\ y.cycle = x.cycle /\ y.stage = x.stage
      /\ y.budget_left = x.budget_left /\ y.max_tickets = x.max_tickets /\ y.signoff = x.signoff
      /\ y.queue = x.queue /\ y.waiting_on = x.waiting_on
      /\ Len(y.tickets) = Len(x.tickets) /\ DOMAIN y.tickets = DOMAIN x.tickets
      /\ y.tickets[1] = t
  BY <1>3, TicketIs
<1>5. TicketRuns(y) = TicketRuns(s)
  BY <1>1, <1>2, <1>4 DEF TicketRuns
<1>6. PICK r : r = t.run
  OBVIOUS
<1>7. t.result = "accepted" => Backed(r) /\ Backed(r)'
  BY <1>6, BackedStays DEF RecordsInv
<1>8. AllBacked(y) /\ AllBacked(y)'
  BY <1>1, <1>2, <1>4, <1>6, <1>7 DEF AllBacked
<1> QED BY <1>1, <1>2, <1>4, <1>5, <1>8

(* The gates of a red-team pass.                                           *)
LEMMA RedTeamGateStep ==
  ASSUME RecordsInv, RedTeamGate
  PROVE  RecordsInv'
<1>1. /\ at = "gates" /\ at' = "gates" /\ cur.gates > 0
      /\ UNCHANGED <<disk, cycles, report, head, starts>>
      /\ LedgerGate(ticket.run, TRUE)
  BY DEF RedTeamGate, bounds
<1>2. /\ at \in Completing /\ cur \in CurT /\ WorkInv /\ s \in CycleT /\ Shape(s)
      /\ cur.ticket = 1 /\ s.tickets[1] \in TicketT /\ ticket = s.tickets[1]
      /\ Waits(s) /\ ~Ended(s) /\ s \in Views /\ DOMAIN s.tickets = {1}
      /\ s.stage \in {"triage", "redteam"}
      /\ s.stage = "triage" => s.tickets[1].task \in Seeds
      /\ s.stage = "redteam" => s.tickets[1].task = "redteam"
  BY <1>1, TheTicket DEF Completing, WorkInv
<1>3. PICK own \in Verdicts \cup {"none"}, claim \in Verdicts \cup {"none"} :
        LET verdict == IF own # "none" THEN own ELSE claim
        IN  /\ cur' = [cur EXCEPT
                         !.ok = @ /\ Readable(ticket.run)
                                  /\ verdict \notin {"none", "INVALID"},
                         !.gates = @ - 1]
            /\ s' = [s EXCEPT !.tickets[cur.ticket] =
                       Evaluated(@, verdict, own = "none" /\ claim # "none")]
  BY DEF RedTeamGate
<1>4. PICK verdict : verdict = IF own # "none" THEN own ELSE claim
  OBVIOUS
<1>5. PICK claimed \in BOOLEAN : claimed <=> (own = "none" /\ claim # "none")
  OBVIOUS
<1>6. PICK t : t = Evaluated(s.tickets[1], verdict, claimed)
  OBVIOUS
<1>7. /\ t \in TicketT /\ t.run = s.tickets[1].run /\ t.task = s.tickets[1].task
      /\ t.status = s.tickets[1].status /\ t.result = s.tickets[1].result
  BY <1>2, <1>6, EvaluatedIs
<1>8. s' = WithTicket(s, 1, t)
  BY <1>2, <1>3, <1>4, <1>5, <1>6 DEF WithTicket
<1>9. t.status = "dispatched" /\ t.result = ""
  BY <1>2, <1>7 DEF Waits
<1>10. PICK id : id = ticket.run
  OBVIOUS
<1>11. LedgerStep
  BY <1>1, <1>10, GateStep DEF RecordsInv
<1>12. PICK y : y = s'
  OBVIOUS
<1>13. /\ y \in CycleT /\ y.cycle = s.cycle /\ y.stage = s.stage
       /\ y.budget_left = s.budget_left /\ y.max_tickets = s.max_tickets /\ y.signoff = s.signoff
       /\ y.queue = s.queue /\ y.waiting_on = s.waiting_on
       /\ Len(y.tickets) = 1 /\ DOMAIN y.tickets = {1} /\ y.tickets[1] = t
       /\ TicketRuns(y) = TicketRuns(s) /\ AllBacked(y)'
  <2>1. at \in Completing /\ t \in TicketT /\ t.run = s.tickets[1].run
    BY <1>2, <1>7
  <2>2. t.result = "accepted" => Backed(t.run)
    BY <1>9
  <2>3. y = WithTicket(s, 1, t)
    BY <1>8, <1>12
  <2> QED BY <1>11, <2>1, <2>2, <2>3, Rewritten
<1>14. Shape(y)
  <2>1. Waits(y)
    BY <1>2, <1>9, <1>13 DEF Waits
  <2>2. Len(s.tickets) = 1
    BY <1>2 DEF Waits
  <2> QED BY <1>2, <1>7, <1>13, <2>1, <2>2 DEF Shape, Signed
<1>15. Good(s)' /\ TicketRuns(s') = TicketRuns(s) /\ s'.cycle = s.cycle
  BY <1>12, <1>13, <1>14 DEF Good
<1>16. PICK ok \in BOOLEAN :
         ok <=> (cur.ok /\ Readable(ticket.run) /\ verdict \notin {"none", "INVALID"})
  OBVIOUS
<1>17. PICK left : left = cur.gates - 1
  OBVIOUS
<1>a. cur.gates \in Nat /\ cur.gates > 0
  BY <1>1, <1>2 DEF CurT
<1>18. left \in Nat
  BY <1>17, <1>a
<1>19. cur' = [cur EXCEPT !.ok = ok, !.gates = left]
  BY <1>2, <1>3, <1>4, <1>16, <1>17 DEF CurT
<1>20. cur' \in CurT /\ cur'.ticket = 1
  BY <1>2, <1>18, <1>19 DEF CurT
<1>21. WorkInv'
  <2>1. s'.tickets[cur'.ticket] = t /\ cur'.ticket \in DOMAIN s'.tickets
    BY <1>12, <1>13, <1>20
  <2> QED BY <1>1, <1>9, <1>20, <2>1 DEF WorkInv
<1>22. report' \in ReportT \cup {NoReport}
  BY <1>1 DEF RecordsInv, FilesInv
<1>23. at' \in Places \ {"none"} /\ at' # "close" /\ at' \notin {"save", "step"}
  BY <1>1 DEF Places, Completing
<1> QED BY <1>1, <1>2, <1>11, <1>15, <1>21, <1>22, <1>23, CommandStep

(* The first ledger finish: what is accepted has passed every gate.        *)
LEMMA FinishStep ==
  ASSUME RecordsInv, Finish
  PROVE  RecordsInv'
<1>1. at = "gates" /\ UNCHANGED <<disk, s, cycles, report, head, starts>>
  BY DEF Finish, bounds
<1>2. at \in Completing /\ cur \in CurT
  BY <1>1 DEF Completing, RecordsInv, CommandInv, WorkInv
<1>3. PICK verdict : verdict = IF cur.ok THEN "accepted" ELSE "rejected"
  OBVIOUS
<1>4. PICK id : id = ticket.run
  OBVIOUS
<1>5. PICK clean \in BOOLEAN :
        IF Refuses(id, verdict, clean)
          THEN /\ cur' = [cur EXCEPT !.verdict = "rejected"]
               /\ at' = "reject"
               /\ UNCHANGED ledgerVars
          ELSE /\ cur' = [cur EXCEPT !.verdict = verdict]
               /\ at' = "unlink"
               /\ LedgerAppend(id, verdict)
  BY <1>3, <1>4 DEF Finish
<1>6. verdict \in {"accepted", "rejected"}
  BY <1>3
<1>7. CASE Refuses(id, verdict, clean)
  <2>1. cur' \in CurT /\ cur'.ticket = cur.ticket /\ cur'.verdict = "rejected"
    BY <1>2, <1>5, <1>7 DEF CurT
  <2>2. at' = "reject" /\ LedgerStep
    BY <1>5, <1>7, LedgerStutters DEF RecordsInv
  <2>3. at' \in Completing
    BY <2>2 DEF Completing
  <2> QED BY <1>1, <1>2, <2>1, <2>2, <2>3, WorkStep
<1>8. CASE ~Refuses(id, verdict, clean)
  <2>1. cur' \in CurT /\ cur'.ticket = cur.ticket /\ cur'.verdict = verdict
    BY <1>2, <1>5, <1>6, <1>8 DEF CurT
  <2>2. at' = "unlink" /\ LedgerAppend(id, verdict)
    BY <1>5, <1>8
  <2>3. Readable(id) /\ (verdict = "accepted" => open[id].gates = "passed")
    BY <1>8 DEF Refuses
  <2>4. /\ LedgerStep /\ id \in Recorded'
        /\ verdict = "accepted" => Backed(id)'
    BY <1>6, <2>2, <2>3, AppendStep DEF RecordsInv
  <2>5. at' \in Completing
    BY <2>2 DEF Completing
  <2>6. cur'.verdict # ""
    BY <1>6, <2>1
  <2>7. at' \in {"unlink", "update"} /\ cur'.verdict = "accepted" =>
          \E r : r = ticket.run /\ Backed(r)'
    BY <1>4, <2>1, <2>4
  <2> QED BY <1>1, <1>2, <1>4, <2>1, <2>2, <2>4, <2>5, <2>6, <2>7, WorkStep
<1> QED BY <1>7, <1>8

(* The second one.                                                         *)
LEMMA FinishRejectedStep ==
  ASSUME RecordsInv, FinishRejected
  PROVE  RecordsInv'
<1>1. at = "reject" /\ UNCHANGED <<disk, s, cur, cycles, report, head, starts>>
  BY DEF FinishRejected, bounds
<1>2. /\ at \in Completing /\ cur \in CurT
      /\ cur.verdict \in {"rejected", "aborted"}
  BY <1>1 DEF Completing, RecordsInv, CommandInv, WorkInv
<1>3. PICK id : id = ticket.run
  OBVIOUS
<1>4. CASE Readable(ticket.run)
  <2>1. at' = "unlink" /\ LedgerAppend(id, "rejected")
    BY <1>3, <1>4 DEF FinishRejected
  <2>2. LedgerStep /\ id \in Recorded'
    BY <1>3, <1>4, <2>1, AppendStep DEF RecordsInv
  <2>3. at' \in Completing
    BY <2>1 DEF Completing
  <2> QED BY <1>1, <1>2, <1>3, <2>1, <2>2, <2>3, WorkStep
<1>5. CASE ~Readable(ticket.run)
  <2>1. at' = "update" /\ LedgerStep
    BY <1>5, LedgerStutters DEF FinishRejected, RecordsInv
  <2>2. at' \in Completing
    BY <2>1 DEF Completing
  <2> QED BY <1>1, <1>2, <2>1, <2>2, WorkStep
<1> QED BY <1>4, <1>5

(* The file of the run is removed, its entry is in runs.jsonl.             *)
LEMMA UnlinkedStep ==
  ASSUME RecordsInv, Unlink
  PROVE  RecordsInv'
<1>1. /\ at = "unlink" /\ at' = "update"
      /\ UNCHANGED <<disk, s, cur, cycles, report, head, starts>>
  BY DEF Unlink, bounds
<1>2. PICK id : id = ticket.run
  OBVIOUS
<1>3. /\ at \in Completing /\ at' \in Completing /\ cur \in CurT
      /\ cur.verdict # "" /\ id \in Recorded
      /\ cur.verdict = "accepted" => Backed(id)
  BY <1>1, <1>2 DEF Completing, RecordsInv, CommandInv, WorkInv, ticket
<1>4. LedgerUnlink(id)
  BY <1>2 DEF Unlink
<1>5. LedgerStep
  BY <1>3, <1>4, UnlinkStep DEF RecordsInv
<1>6. cur'.verdict = "accepted" => Backed(id)'
  BY <1>1, <1>3, <1>5, BackedStays DEF RecordsInv
<1> QED BY <1>1, <1>2, <1>3, <1>5, <1>6, WorkStep

(* The ticket of the cycle is settled: it is dispatched no longer.         *)
LEMMA Settled ==
  ASSUME RecordsInv, at = "update", ledgerVars' = ledgerVars,
         NEW t \in TicketT, t.run = s.tickets[1].run, t.task = s.tickets[1].task,
         t.status # "dispatched",
         t.result = "accepted" => Backed(t.run),
         NEW x \in CycleT, x.cycle = s.cycle, x.stage = s.stage,
         x.budget_left = s.budget_left, x.max_tickets = s.max_tickets,
         x.signoff = s.signoff,
         Len(x.tickets) = 1, DOMAIN x.tickets = {1}, x.tickets[1] = t,
         NEW reason \in ReasonT, Halt(x, reason),
         UNCHANGED <<disk, cycles, report, head, starts>>
  PROVE  RecordsInv'
<1>1. /\ s \in CycleT /\ Shape(s) /\ s \in Views /\ s.tickets[1] \in TicketT
      /\ DOMAIN s.tickets = {1} /\ Len(s.tickets) = 1
  BY TheTicket DEF Waits, Completing
<1>2. s' = HaltedBy(x, reason) /\ at' = "close"
  BY DEF Halt, Goto
<1>3. /\ s' \in CycleT /\ Keeps(s', x) /\ s'.stage = "halted"
      /\ s'.signoff = x.signoff
  BY <1>2, HaltedByIs
<1>4. Shape(s')
  <2>1. /\ s'.tickets = x.tickets
        /\ s'.budget_left = s.budget_left /\ s'.max_tickets = s.max_tickets
        /\ s'.signoff = s.signoff
    BY <1>3 DEF Keeps
  <2>2. Len(s.tickets) + s.budget_left <= s.max_tickets
    BY <1>1 DEF Shape
  <2>3. t.task = "redteam" => Signed(s)
    BY <1>1 DEF Shape
  <2> QED BY <1>1, <1>3, <2>1, <2>2, <2>3 DEF Shape, Signed
<1>5. LedgerStep
  BY LedgerStutters DEF RecordsInv
<1>6. AllBacked(s)'
  <2>1. PICK r : r = t.run
    OBVIOUS
  <2>2. t.result = "accepted" => Backed(r)'
    BY <2>1 DEF Backed, ledgerVars
  <2>3. s'.tickets = x.tickets
    BY <1>3 DEF Keeps
  <2> QED BY <2>1, <2>2, <2>3 DEF AllBacked
<1>7. s'.cycle = s.cycle /\ TicketRuns(s') \subseteq TicketRuns(s) /\ Ended(s')
  BY <1>1, <1>3 DEF Keeps, TicketRuns, Ended
<1>8. at # "none" /\ report' \in ReportT \cup {NoReport}
  BY DEF RecordsInv, FilesInv
<1> QED BY <1>2, <1>3, <1>4, <1>5, <1>6, <1>7, <1>8, StageStep

(* The verdict is written to the ticket, and what it means for the cycle.  *)
LEMMA UpdateStep ==
  ASSUME RecordsInv, Update
  PROVE  RecordsInv'
<1>1. /\ at = "update" /\ cur.verdict # "aborted"
      /\ UNCHANGED <<disk, cycles, report, head, starts, ledgerVars>>
  BY DEF Update, bounds
<1>2. /\ s \in CycleT /\ Shape(s) /\ AllBacked(s) /\ s \in Views
      /\ cur.ticket = 1 /\ s.tickets[1] \in TicketT /\ ticket = s.tickets[1]
      /\ DOMAIN s.tickets = {1} /\ Waits(s)
      /\ s.stage \in {"triage", "redteam"}
      /\ s.stage = "triage" => s.tickets[1].task \in Seeds
      /\ s.stage = "redteam" => s.tickets[1].task = "redteam"
  BY <1>1, TheTicket DEF Completing
<1>3. PICK verdict : verdict = cur.verdict
  OBVIOUS
<1>4. /\ verdict \in {"accepted", "rejected"}
      /\ verdict = "accepted" => Backed(s.tickets[1].run)
  BY <1>1, <1>2, <1>3 DEF RecordsInv, CommandInv, WorkInv, Completing, CurT
<1>5. PICK t : t = Done(s.tickets[1], verdict)
  OBVIOUS
<1>6. /\ t \in TicketT /\ t.run = s.tickets[1].run /\ t.task = s.tickets[1].task
      /\ t.status = "done" /\ t.result = verdict
      /\ t.survivors = s.tickets[1].survivors
  <2>1. PICK u : u = s.tickets[1]
    OBVIOUS
  <2>2. u \in TicketT /\ t = Done(u, verdict)
    BY <1>2, <1>5, <2>1
  <2>3. verdict \in {"accepted", "rejected"}
    BY <1>4
  <2>4. /\ Done(u, verdict) \in TicketT
        /\ Done(u, verdict).run = u.run /\ Done(u, verdict).task = u.task
        /\ Done(u, verdict).status = "done" /\ Done(u, verdict).result = verdict
        /\ Done(u, verdict).survivors = u.survivors
    BY <2>2, <2>3, DoneIs
  <2> QED BY <2>1, <2>2, <2>4
<1>7. PICK y : y = WithTicket(s, 1, t)
  OBVIOUS
<1>8. LedgerStep
  BY <1>1, LedgerStutters DEF RecordsInv
<1>9. /\ y \in CycleT /\ y.cycle = s.cycle /\ y.stage = s.stage
      /\ y.budget_left = s.budget_left /\ y.max_tickets = s.max_tickets /\ y.signoff = s.signoff
      /\ y.queue = s.queue
      /\ Len(y.tickets) = 1 /\ DOMAIN y.tickets = {1} /\ y.tickets[1] = t
      /\ TicketRuns(y) = TicketRuns(s) /\ AllBacked(y) /\ AllBacked(y)'
  BY <1>1, <1>4, <1>6, <1>7, <1>8, Rewritten DEF Completing
<1>10. PICK w : w = 0
  OBVIOUS
<1>11. PICK x : x = [y EXCEPT !.waiting_on = w]
  OBVIOUS
<1>12. /\ x \in CycleT /\ Keeps(x, y) /\ x.stage = y.stage
       /\ x.signoff = y.signoff /\ x.queue = y.queue /\ x.waiting_on = 0
  BY <1>9, <1>10, <1>11 DEF CycleT, Keeps
<1>13. x = Answered
  BY <1>2, <1>3, <1>5, <1>7, <1>10, <1>11 DEF Answered, WithTicket, CycleT
<1>14. /\ x.cycle = s.cycle /\ x.budget_left = s.budget_left /\ x.max_tickets = s.max_tickets
       /\ x.tickets = y.tickets
  BY <1>9, <1>12 DEF Keeps
<1>15. CASE \E reason \in ReasonT : Halt(x, reason)
  BY <1>1, <1>4, <1>6, <1>9, <1>12, <1>14, <1>15, Settled
<1>16. CASE /\ s' = x /\ at' = "save"
            /\ verdict = "accepted" /\ ticket.task = "redteam" /\ ~ticket.survivors
  <2>1. s.stage = "redteam"
    BY <1>2, <1>16, OrchestratorAssumption
  <2>2. Passed(x)
    BY <1>2, <1>6, <1>9, <1>12, <1>14, <1>16 DEF Passed
  <2>3. Signed(s) /\ s.queue = <<>>
    BY <1>2, <2>1 DEF Shape
  <2>4. Len(s.tickets) + s.budget_left <= s.max_tickets /\ Len(s.tickets) = 1
    BY <1>2 DEF Shape, Waits
  <2>a. Len(x.tickets) + x.budget_left <= x.max_tickets /\ Len(x.tickets) <= 1
    <3>1. Len(x.tickets) = 1 /\ x.budget_left = s.budget_left /\ x.max_tickets = s.max_tickets
      BY <1>9, <1>14
    <3> QED BY <2>4, <3>1
  <2>b. x.stage = "redteam" /\ Signed(x) /\ x.queue = <<>>
    BY <1>9, <1>12, <2>1, <2>3 DEF Signed
  <2>5. Shape(x)
    BY <2>2, <2>a, <2>b DEF Shape
  <2>6. AllBacked(x)'
    BY <1>9, <1>14 DEF AllBacked
  <2>7. AllBacked(s)'
    BY <1>16, <2>6 DEF AllBacked
  <2>8. s'.cycle = s.cycle /\ TicketRuns(s') \subseteq TicketRuns(s) /\ ~Ended(s')
    BY <1>9, <1>12, <1>14, <1>16, <2>1 DEF TicketRuns, Ended
  <2>9. at # "none" /\ report' \in ReportT \cup {NoReport}
    BY <1>1 DEF RecordsInv, FilesInv
  <2> QED BY <1>1, <1>8, <1>12, <1>16, <2>5, <2>7, <2>8, <2>9, StageStep
<1>17. \/ \E reason \in ReasonT : Halt(x, reason)
       \/ /\ s' = x /\ at' = "save"
          /\ verdict = "accepted" /\ ticket.task = "redteam" /\ ~ticket.survivors
  BY <1>3, <1>4, <1>13 DEF Update, Goto, ReasonT
<1> QED BY <1>15, <1>16, <1>17

(* An aborted ticket, and its cycle.                                       *)
LEMMA UpdateAbortedStep ==
  ASSUME RecordsInv, UpdateAborted
  PROVE  RecordsInv'
<1>1. /\ at = "update" /\ Halt(Aborted, "aborted")
      /\ UNCHANGED <<disk, cycles, report, head, starts, ledgerVars>>
  BY DEF UpdateAborted, bounds
<1>2. /\ s \in CycleT /\ cur.ticket = 1 /\ s.tickets[1] \in TicketT
      /\ DOMAIN s.tickets = {1} /\ Waits(s)
  BY <1>1, TheTicket DEF Completing
<1>3. PICK t : t = [s.tickets[1] EXCEPT !.status = "aborted"]
  OBVIOUS
<1>4. /\ t \in TicketT /\ t.run = s.tickets[1].run /\ t.task = s.tickets[1].task
      /\ t.status = "aborted" /\ t.result = s.tickets[1].result
  BY <1>2, <1>3, TicketUpdates
<1>5. t.result = "" /\ t.status # "dispatched"
  BY <1>2, <1>4 DEF Waits
<1>6. PICK y : y = WithTicket(s, 1, t)
  OBVIOUS
<1>7. LedgerStep
  BY <1>1, LedgerStutters DEF RecordsInv
<1>8. /\ y \in CycleT /\ y.cycle = s.cycle /\ y.stage = s.stage
      /\ y.budget_left = s.budget_left /\ y.max_tickets = s.max_tickets /\ y.signoff = s.signoff
      /\ Len(y.tickets) = 1 /\ DOMAIN y.tickets = {1} /\ y.tickets[1] = t
  BY <1>1, <1>4, <1>5, <1>6, <1>7, Rewritten DEF Completing
<1>9. y = Aborted
  BY <1>2, <1>3, <1>6 DEF Aborted, WithTicket
<1>10. "aborted" \in ReasonT
  BY DEF ReasonT
<1> QED BY <1>1, <1>4, <1>5, <1>8, <1>9, <1>10, Settled

-----------------------------------------------------------------------------
(* The commands.                                                           *)

(* A command reads the state file.                                         *)
LEMMA ReadStep ==
  ASSUME RecordsInv, IsCycle(disk), s' = disk, at' \in {"step", "gates", "reject"},
         at' \in {"gates", "reject"} => WorkInv',
         UNCHANGED <<disk, cycles, report, head, starts, ledgerVars>>
  PROVE  RecordsInv'
<1>1. disk \in CycleT /\ Shape(disk) /\ AllBacked(disk) /\ disk \in Views
  BY OnDisk
<1>2. LedgerStep /\ Ids \subseteq Ids'
  BY LedgerStutters DEF RecordsInv, LedgerStep
<1>3. report' \in ReportT \cup {NoReport} /\ head' \in Nat /\ starts' \in Nat
  BY DEF RecordsInv, FilesInv
<1>4. LedgerOK' /\ FilesInv' /\ StopRules'
  BY <1>2, <1>3, FilesStay
<1>5. Good(s)'
  BY <1>1 DEF Good, AllBacked, Backed, ledgerVars
<1>6. Ended(s)' => Closed(s)'
  BY <1>1 DEF RecordsInv, FilesInv, Ended, Closed
<1>7. CommandInv'
  BY <1>5, <1>6 DEF CommandInv, Places, Completing
<1>8. s'.cycle = disk.cycle /\ TicketRuns(s') \subseteq TicketRuns(disk)
  BY DEF TicketRuns
<1>9. RunsInv'
  BY <1>1, <1>2, <1>8, RunsStay
<1> QED BY <1>4, <1>7, <1>9 DEF RecordsInv

(* step goes on from the state file.                                        *)
LEMMA CmdStepStep ==
  ASSUME RecordsInv, CmdStep
  PROVE  RecordsInv'
BY ReadStep DEF CmdStep, Goto, bounds

(* complete: the dispatched ticket, with its gates before it.               *)
LEMMA CmdCompleteStep ==
  ASSUME RecordsInv, CmdComplete
  PROVE  RecordsInv'
<1>1. /\ IsCycle(disk) /\ s' = disk /\ at' = "gates"
      /\ UNCHANGED <<disk, cycles, report, head, starts, ledgerVars>>
  BY DEF CmdComplete, Goto, bounds
<1>2. disk \in CycleT
  BY <1>1, OnDisk
<1>3. PICK i \in DOMAIN disk.tickets :
        /\ disk.tickets[i].status = "dispatched"
        /\ \E gates \in IF disk.tickets[i].task = "redteam" THEN 0..MaxCandidates
                                                            ELSE {3} :
             cur' = [ticket |-> i, gates |-> gates, ok |-> TRUE, verdict |-> ""]
  BY DEF CmdComplete
<1>4. PICK gates : /\ gates \in 0..MaxCandidates \cup {3}
                   /\ cur' = [ticket |-> i, gates |-> gates, ok |-> TRUE,
                              verdict |-> ""]
  BY <1>3
<1>5. gates \in Nat
  <2>1. MaxCandidates \in Nat
    BY OrchestratorAssumption
  <2>2. gates \in 0..MaxCandidates \/ gates = 3
    BY <1>4
  <2> QED BY <2>1, <2>2
<1>a. i \in Nat
  BY <1>2, CycleTypes
<1>6. cur' \in CurT /\ cur'.ticket = i
  BY <1>4, <1>5, <1>a DEF CurT
<1>7. WorkInv'
  BY <1>1, <1>3, <1>6 DEF WorkInv
<1> QED BY <1>1, <1>7, ReadStep

(* abort: the dispatched ticket is finished first, if there is one.         *)
LEMMA CmdAbortStep ==
  ASSUME RecordsInv, CmdAbort
  PROVE  RecordsInv'
<1>1. /\ IsCycle(disk)
      /\ UNCHANGED <<disk, cycles, report, head, starts, ledgerVars>>
  BY DEF CmdAbort
<1>2. disk \in CycleT /\ Shape(disk) /\ AllBacked(disk) /\ disk \in Views
  BY <1>1, OnDisk
<1>3. CASE \E i \in DOMAIN disk.tickets :
             /\ disk.tickets[i].status = "dispatched"
             /\ cur' = [ticket |-> i, gates |-> 0, ok |-> FALSE,
                        verdict |-> "aborted"]
             /\ Goto(disk, "reject")
  <2>1. PICK i \in DOMAIN disk.tickets :
             /\ disk.tickets[i].status = "dispatched"
             /\ cur' = [ticket |-> i, gates |-> 0, ok |-> FALSE,
                        verdict |-> "aborted"]
             /\ Goto(disk, "reject")
    BY <1>3
  <2>2. s' = disk /\ at' = "reject"
    BY <2>1 DEF Goto
  <2>3. i \in Nat
    BY <1>2, CycleTypes
  <2>4. cur' \in CurT /\ cur'.ticket = i /\ cur'.verdict = "aborted"
    BY <2>1, <2>3 DEF CurT
  <2>5. WorkInv'
    BY <2>1, <2>2, <2>4 DEF WorkInv
  <2> QED BY <1>1, <2>2, <2>5, ReadStep
<1>4. CASE /\ \A i \in DOMAIN disk.tickets : disk.tickets[i].status # "dispatched"
           /\ Halt(disk, "aborted")
  <2>1. report' \in ReportT \cup {NoReport} /\ "aborted" \in ReasonT
    BY <1>1 DEF RecordsInv, FilesInv, ReasonT
  <2> QED BY <1>1, <1>2, <1>4, <2>1, HaltStep
<1> QED BY <1>3, <1>4 DEF CmdAbort

(* A new cycle has no ticket.                                              *)
LEMMA CmdStartStep ==
  ASSUME RecordsInv, CmdStart
  PROVE  RecordsInv'
<1>1. /\ at' = "save" /\ starts' = starts + 1
      /\ UNCHANGED <<disk, cycles, report, head, ledgerVars>>
  BY DEF CmdStart, Goto
<1>2. PICK redteam \in BOOLEAN, reuse \in BOOLEAN, max_tickets \in 0..MaxTickets :
        s' = [cycle |-> starts + 1, stage |-> "signoff", halt_reason |-> "",
              redteam |-> redteam, reuse_signoff |-> reuse,
              max_tickets |-> max_tickets, budget_left |-> max_tickets,
              queue |-> <<>>, tickets |-> <<>>,
              waiting_on |-> 0, pending_halt |-> FALSE,
              signoff |-> NoReport, tree |-> 0]
  BY DEF CmdStart, Goto
<1>3. PICK c \in Nat : c = starts + 1
  BY DEF RecordsInv, FilesInv
<1>4. max_tickets \in Nat /\ max_tickets <= MaxTickets
  BY OrchestratorAssumption
<1>5. PICK none : none = NoReport
  OBVIOUS
<1>6. PICK q : q = <<>>
  OBVIOUS
<1>7. q \in Seq(TaskT) /\ q \in Seq(TicketT) /\ Len(q) = 0 /\ DOMAIN q = {}
  BY <1>6
<1>8. /\ s' \in CycleT /\ s'.stage = "signoff" /\ s'.tickets = <<>>
      /\ s'.queue = <<>> /\ s'.waiting_on = 0 /\ s'.budget_left <= s'.max_tickets
  <2>1. s' = [cycle |-> c, stage |-> "signoff", halt_reason |-> "",
              redteam |-> redteam, reuse_signoff |-> reuse,
              max_tickets |-> max_tickets, budget_left |-> max_tickets,
              queue |-> q, tickets |-> q,
              waiting_on |-> 0, pending_halt |-> FALSE,
              signoff |-> none, tree |-> 0]
    BY <1>2, <1>3, <1>5, <1>6
  <2>2. none \in SignedT \cup {NoReport}
    BY <1>5
  <2>3. s' \in CycleT
    BY <1>4, <1>7, <2>1, <2>2 DEF CycleT, StageT, ReasonT
  <2>4. /\ s'.stage = "signoff" /\ s'.tickets = q /\ s'.queue = q /\ s'.waiting_on = 0
        /\ s'.budget_left = max_tickets /\ s'.max_tickets = max_tickets
    BY <2>1
  <2> QED BY <1>4, <1>6, <2>3, <2>4
<1>9. Shape(s') /\ AllBacked(s)' /\ TicketRuns(s') = {} /\ ~Ended(s')
  <2>1. Len(s'.tickets) = 0 /\ DOMAIN s'.tickets = {} /\ s'.budget_left \in Nat
    BY <1>6, <1>7, <1>8 DEF CycleT
  <2> QED BY <1>8, <2>1, OrchestratorAssumption
          DEF Shape, Fresh, AllBacked, TicketRuns, Ended
<1>10. LedgerStep /\ Ids \subseteq Ids'
  BY <1>1, LedgerStutters DEF RecordsInv, LedgerStep
<1>11. report' \in ReportT \cup {NoReport} /\ head' \in Nat /\ starts' \in Nat
  BY <1>1 DEF RecordsInv, FilesInv
<1>12. LedgerOK' /\ FilesInv' /\ StopRules'
  BY <1>1, <1>10, <1>11, FilesStay
<1>13. RunsInv'
  BY <1>1, <1>9, <1>10, RunsStay
<1>14. CommandInv'
  BY <1>1, <1>8, <1>9 DEF CommandInv, Good, Places, Completing, Ended
<1> QED BY <1>12, <1>13, <1>14 DEF RecordsInv

(* Commands are killed at any point, and the tree moves between them.      *)
LEMMA GoneStep ==
  ASSUME RecordsInv, LedgerStep, s' = NoCycle, at' = "none",
         disk' = disk \/ disk' = Torn, UNCHANGED <<cycles, report, starts>>,
         head' \in Nat
  PROVE  RecordsInv'
<1>1. NoCycle \notin CycleT /\ Torn \notin CycleT
  BY CycleTypes
<1>2. report' \in ReportT \cup {NoReport} /\ starts' \in Nat /\ cycles' \in Seq(RecordT)
  BY DEF RecordsInv, FilesInv
<1>3. LedgerOK' /\ Ids \subseteq Ids'
  BY DEF LedgerStep
<1>4. FilesInv'
  <2>1. PICK d : d = disk
    OBVIOUS
  <2>2. d \in {NoCycle, Torn} \/ Good(d)'
    BY <2>1, GoodStays DEF RecordsInv, FilesInv
  <2>3. disk' \in {NoCycle, Torn} \/ Good(disk)'
    BY <2>1, <2>2
  <2>4. disk' \in CycleT /\ Ended(disk)' => Closed(disk)'
    BY <1>1 DEF RecordsInv, FilesInv, Ended, Closed
  <2> QED BY <1>2, <2>3, <2>4 DEF FilesInv
<1>5. CommandInv'
  BY DEF CommandInv, Places, Completing
<1>6. RunsInv'
  BY <1>3, RunsStay
<1>7. StopRules'
  BY DEF RecordsInv, StopRules, Tickets
<1> QED BY <1>3, <1>4, <1>5, <1>6, <1>7 DEF RecordsInv

(* A commit between two commands.                                           *)
LEMMA CommitStep ==
  ASSUME RecordsInv, Commit
  PROVE  RecordsInv'
<1>1. /\ s' = NoCycle /\ at' = "none" /\ head' \in Nat
      /\ UNCHANGED <<disk, cycles, report, starts, ledgerVars>>
  BY DEF Commit, RecordsInv, CommandInv, FilesInv
<1>2. LedgerStep
  BY <1>1, LedgerStutters DEF RecordsInv
<1> QED BY <1>1, <1>2, GoneStep

(* A kill, which may tear the file that is being written.                   *)
LEMMA CrashStep ==
  ASSUME RecordsInv, Crash
  PROVE  RecordsInv'
<1>1. /\ s' = NoCycle /\ at' = "none" /\ UNCHANGED <<cycles, report, head, starts>>
      /\ disk' = disk \/ disk' = Torn
      /\ UNCHANGED ledgerVars \/ LedgerTear(ticket.run)
  BY DEF Crash, Goto
<1>2. PICK id : id = ticket.run
  OBVIOUS
<1>3. LedgerStep
  BY <1>1, <1>2, LedgerStutters, TearStep DEF RecordsInv
<1>4. head' \in Nat
  BY <1>1 DEF RecordsInv, FilesInv
<1> QED BY <1>1, <1>3, <1>4, GoneStep

-----------------------------------------------------------------------------
(* The induction, and what follows from it.                                *)

(* Nothing has been written yet.                                            *)
LEMMA RecordsInit == Init => RecordsInv
<1> SUFFICES ASSUME Init PROVE RecordsInv
  OBVIOUS
<1>1. /\ disk = NoCycle /\ s = NoCycle /\ at = "none" /\ cycles = <<>>
      /\ report = NoReport /\ head = 1 /\ starts = 0 /\ open = <<>> /\ runs = <<>>
  BY DEF Init, LedgerInit
<1>2. NoCycle \notin CycleT
  BY CycleTypes
<1>3. DOMAIN open = {} /\ DOMAIN runs = {} /\ DOMAIN cycles = {}
  BY <1>1
<1>4. LedgerOK
  <2>1. Ids = {}
    BY <1>3 DEF Ids, Recorded
  <2>2. Cardinality(Ids) = 0
    BY <2>1, FS_EmptySet
  <2>3. open \in [DOMAIN open -> OpenT] /\ runs \in Seq(RunT)
    BY <1>1
  <2> QED BY <2>1, <2>2, <2>3 DEF LedgerOK
<1>5. FilesInv
  BY <1>1, <1>2 DEF FilesInv
<1>6. CommandInv
  BY <1>1 DEF CommandInv, Places, Completing
<1>7. Views = {}
  BY <1>1, <1>2, <1>3 DEF Views
<1>8. RunsInv /\ StopRules
  BY <1>3, <1>7 DEF RunsInv, StopRules
<1> QED BY <1>4, <1>5, <1>6, <1>8 DEF RecordsInv

(* Every step keeps the records.                                            *)
LEMMA RecordsNext == RecordsInv /\ [Next]_vars => RecordsInv'
<1> SUFFICES ASSUME RecordsInv, [Next]_vars PROVE RecordsInv'
  OBVIOUS
<1>1. CASE Run
  <2>1. CASE CloseCycle
    BY <2>1, CloseCycleStep
  <2>2. CASE Save
    BY <2>2, SaveStep
  <2>3. CASE SignoffReused \/ SignoffRuns \/ SignoffTimesOut
    BY <2>3, SignoffStep
  <2>4. CASE Triage
    BY <2>4, TriageStep
  <2>5. CASE RedTeam
    BY <2>5, RedTeamStep
  <2>6. CASE Close
    BY <2>6, CloseStep
  <2>7. CASE StepReturns
    BY <2>7, StepReturnsStep
  <2>8. CASE TriageGate
    BY <2>8, TriageGateStep
  <2>9. CASE RedTeamGate
    BY <2>9, RedTeamGateStep
  <2>10. CASE Finish
    BY <2>10, FinishStep
  <2>11. CASE FinishRejected
    BY <2>11, FinishRejectedStep
  <2>12. CASE Unlink
    BY <2>12, UnlinkedStep
  <2>13. CASE Update
    BY <2>13, UpdateStep
  <2>14. CASE UpdateAborted
    BY <2>14, UpdateAbortedStep
  <2> QED BY <1>1, <2>1, <2>2, <2>3, <2>4, <2>5, <2>6, <2>7, <2>8, <2>9, <2>10,
             <2>11, <2>12, <2>13, <2>14 DEF Run
<1>2. CASE CmdStart \/ CmdStep \/ CmdComplete \/ CmdAbort
  BY <1>2, CmdStartStep, CmdStepStep, CmdCompleteStep, CmdAbortStep
<1>3. CASE Commit \/ Crash
  BY <1>3, CommitStep, CrashStep
<1>4. CASE UNCHANGED vars
  <2>1. UNCHANGED <<disk, s, at, cur, cycles, report, head, starts, ledgerVars>>
    BY <1>4 DEF vars, bounds
  <2>2. UNCHANGED <<open, runs>>
    BY <2>1 DEF ledgerVars
  <2>3. LedgerOK' /\ Ids' = Ids
    BY <2>2 DEF RecordsInv, LedgerOK, Ids, Recorded
  <2>5. FilesInv'
    BY <2>1, <2>2 DEF RecordsInv, FilesInv, Good, AllBacked, Backed, Closed, Ended
  <2>6. WorkInv => WorkInv'
    BY <2>1, <2>2 DEF WorkInv, Backed, Recorded
  <2>7. CommandInv'
    BY <2>1, <2>2, <2>6
       DEF RecordsInv, CommandInv, Good, AllBacked, Backed, Closed, Ended
  <2>8. Views' = Views /\ StopRules'
    BY <2>1 DEF Views, RecordsInv, StopRules, Tickets
  <2>9. RunsInv'
    BY <2>3, <2>8 DEF RecordsInv, RunsInv, TicketRuns
  <2> QED BY <2>3, <2>5, <2>7, <2>8, <2>9 DEF RecordsInv
<1> QED BY <1>1, <1>2, <1>3, <1>4 DEF Next

(* Everything the cycle keeps, in every state it can be in.                *)
THEOREM RecordsKept == Spec => []RecordsInv
BY RecordsInit, RecordsNext, PTL DEF Spec

(* No agent is launched without a run in the ledger: every ticket of the   *)
(* state file has one, whatever was killed on the way.                     *)
THEOREM TicketsHaveRuns == Spec => []TicketHasRun
<1>1. RecordsInv => TicketHasRun
  <2> SUFFICES ASSUME RecordsInv, IsCycle(disk), NEW t \in Tickets(disk)
               PROVE  t.run \in DOMAIN open \cup Recorded
    BY DEF TicketHasRun
  <2>1. t.run \in TicketRuns(disk)
    BY DEF Tickets, TicketRuns
  <2>2. TicketRuns(disk) \subseteq Ids
    BY OnDisk DEF RecordsInv, RunsInv
  <2> QED BY <2>1, <2>2 DEF Ids
<1> QED BY <1>1, RecordsKept, PTL

(* A run belongs to one cycle.                                             *)
THEOREM RunsAreApart == Spec => []RunsApart
<1>1. RecordsInv => RunsApart
  <2> SUFFICES ASSUME RecordsInv, NEW i \in DOMAIN cycles, NEW j \in DOMAIN cycles,
                      cycles[i].cycle # cycles[j].cycle,
                      NEW t \in Tickets(cycles[i]), NEW u \in Tickets(cycles[j])
               PROVE  t.run # u.run
    BY DEF RunsApart
  <2>1. t.run \in TicketRuns(cycles[i]) /\ u.run \in TicketRuns(cycles[j])
    BY DEF Tickets, TicketRuns
  <2>2. cycles[i] \in Views /\ cycles[j] \in Views
    BY DEF Views
  <2>3. TicketRuns(cycles[i]) \cap TicketRuns(cycles[j]) = {}
    BY <2>2 DEF RecordsInv, RunsInv
  <2> QED BY <2>1, <2>3
<1> QED BY <1>1, RecordsKept, PTL

(* A cycle in progress waits for its dispatched ticket, if it has one.     *)
THEOREM WaitsRight == Spec => []WaitsForDispatched
<1>1. RecordsInv => WaitsForDispatched
  <2> SUFFICES ASSUME RecordsInv, IsCycle(disk), ~Ended(disk),
                      NEW i \in DOMAIN disk.tickets
               PROVE  disk.tickets[i].status = "dispatched"
                        <=> disk.waiting_on = i /\ i = Len(disk.tickets)
    BY DEF WaitsForDispatched
  <2>1. disk \in CycleT /\ Shape(disk)
    BY OnDisk
  <2>2. disk.stage \in {"signoff", "triage", "redteam", "close"}
    BY <2>1 DEF CycleT, StageT, Ended
  <2>3. Len(disk.tickets) <= 1 /\ disk.tickets \in Seq(TicketT)
    BY <2>1 DEF Shape, CycleT
  <2>4. i = 1 /\ Len(disk.tickets) = 1 /\ disk.tickets # <<>>
    BY <2>3, ShortSeq
  <2>5. Waits(disk) \/ Passed(disk)
    BY <2>1, <2>2, <2>4 DEF Shape, Fresh
  <2>6. CASE Waits(disk)
    BY <2>4, <2>6 DEF Waits
  <2>7. CASE Passed(disk)
    BY <2>4, <2>7 DEF Passed
  <2> QED BY <2>5, <2>6, <2>7
<1> QED BY <1>1, RecordsKept, PTL

(* An accepted ticket is accepted in runs.jsonl, its gates passed.         *)
THEOREM AcceptedRecorded == Spec => []AcceptedIsRecorded
<1>1. RecordsInv => AcceptedIsRecorded
  BY OnDisk DEF AcceptedIsRecorded, AllBacked, Backed, Tickets
<1> QED BY <1>1, RecordsKept, PTL

(* A cycle that has ended has its record in cycles.jsonl.                  *)
THEOREM EndRecorded == Spec => []EndIsRecorded
<1>1. RecordsInv => EndIsRecorded
  BY OnDisk DEF EndIsRecorded, RecordsInv, FilesInv, Closed
<1> QED BY <1>1, RecordsKept, PTL

(* What is on record obeys the stop rules.                                 *)
THEOREM StopsByTheRules == Spec => []StopRules
<1>1. RecordsInv => StopRules
  BY DEF RecordsInv
<1> QED BY <1>1, RecordsKept, PTL
=============================================================================
