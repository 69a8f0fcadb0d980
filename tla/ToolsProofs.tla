---------------------------- MODULE ToolsProofs ----------------------------
(***************************************************************************)
(* What Tools promises for any number of processes, verdicts, commits,     *)
(* sites and jobs.                                                         *)
(***************************************************************************)
EXTENDS Tools, FiniteSetTheorems, SequenceTheorems, TLAPS

-----------------------------------------------------------------------------
(* Every entry of run has its three fields.                                *)
Entry(r) == r = [at |-> r.at, prog |-> r.prog, said |-> r.said]
RunShape ==
  /\ run = [p \in Procs |-> run[p]]
  /\ \A p \in Procs : Entry(run[p])

(* What p has in its hand once it has simulated is its program's verdict.  *)
HasOwn(p) ==
  \/ run[p].said = "broken" /\ art = "none"
  \/ /\ run[p].prog \in DOMAIN known /\ known[run[p].prog] = run[p].said
     /\ art = IF run[p].said = "pass" THEN "none" ELSE run[p].said

(* Who simulates or reads holds the lock, on a tree without an old record. *)
Exclusive ==
  /\ orphans = {}
  /\ \A p \in Procs :
       /\ run[p].at \in {"sim", "read"} => lock = p
       /\ run[p].at = "sim" => art = "none"
       /\ run[p].at = "read" => HasOwn(p)

LockInv == RunShape /\ (mishap # TimedOut => Exclusive)

(* A run that has its own verdict in hand returns it, or raises            *)
(* (_run_seed, lines 79-85).                                               *)
LEMMA OwnIsReturned ==
  ASSUME NEW p \in Procs, HasOwn(p)
  PROVE Returned(p) \in {"raises"} \cup
          (IF run[p].prog \in DOMAIN known THEN {known[run[p].prog]} ELSE {})
BY DEF HasOwn, Returned

(* An answer is never taken back.                                          *)
LEMMA Learning ==
  ASSUME NEW f, NEW q, NEW options, NEW a \in Possible(f, q, options)
  PROVE /\ q \in DOMAIN Learned(f, q, a) /\ Learned(f, q, a)[q] = a
        /\ \A x \in DOMAIN f : x \in DOMAIN Learned(f, q, a) /\ Learned(f, q, a)[x] = f[x]
        /\ \A x \in DOMAIN Learned(f, q, a) : x = q \/ x \in DOMAIN f
BY DEF Possible, Learned

(* Changing one entry of run.                                              *)
LEMMA OneEntry ==
  ASSUME NEW p \in Procs, NEW where, NEW prog, NEW what, RunShape,
         run' = [run EXCEPT ![p] = Run(where, prog, what)]
  PROVE /\ run' = [q \in Procs |-> IF q = p THEN Run(where, prog, what) ELSE run[q]]
        /\ RunShape'
        /\ run'[p].at = where /\ run'[p].prog = prog /\ run'[p].said = what
        /\ \A q \in Procs : q # p => run'[q] = run[q]
<1>1. run' = [q \in Procs |-> IF q = p THEN Run(where, prog, what) ELSE run[q]]
  BY DEF RunShape
<1> QED BY <1>1 DEF RunShape, Entry, Run

(* Asking for a run takes neither the lock nor the record (Ask).           *)
LEMMA AskKeeps ==
  ASSUME NEW p \in Procs, NEW prog, LockInv, Ask(p, prog), run[p].at = "idle",
         UNCHANGED <<verdicts, known, lock, art, orphans, mishap>>
  PROVE LockInv'
<1>1. /\ RunShape' /\ run'[p].at = "wait"
      /\ \A q \in Procs : q # p => run'[q] = run[q]
  BY OneEntry DEF LockInv, Ask
<1>2. ASSUME mishap # TimedOut PROVE Exclusive'
  BY <1>1, <1>2 DEF LockInv, Exclusive, HasOwn
<1> QED BY <1>1, <1>2 DEF LockInv

(* The lock is taken by one process, and the old record goes (Acquire).    *)
LEMMA AcquireKeeps ==
  ASSUME NEW p \in Procs, LockInv, Acquire(p)
  PROVE LockInv'
<1>1. /\ RunShape' /\ run'[p].at = "sim"
      /\ \A q \in Procs : q # p => run'[q] = run[q]
  BY OneEntry DEF LockInv, Acquire
<1>2. ASSUME mishap # TimedOut PROVE Exclusive'
  <2>1. \A q \in Procs : run[q].at \notin {"sim", "read"}
    BY <1>2, ProcsAssumption DEF LockInv, Exclusive, Acquire
  <2> QED BY <1>1, <1>2, <2>1 DEF LockInv, Exclusive, HasOwn, Acquire
<1> QED BY <1>1, <1>2 DEF LockInv, Acquire

(* A simulation leaves its own record, with nobody else between (Simulate).*)
LEMMA SimulateKeeps ==
  ASSUME NEW p \in Procs, LockInv, Simulate(p)
  PROVE LockInv'
<1>1. PICK v \in Does(run[p].prog) :
        /\ known' = Learned(known, run[p].prog, v)
        /\ art' = IF v = "pass" THEN art ELSE v
        /\ run' = [run EXCEPT ![p] = Run("read", run[p].prog, v)]
  BY Zenon DEF Simulate
<1>2. /\ RunShape' /\ run'[p].at = "read" /\ run'[p].prog = run[p].prog /\ run'[p].said = v
      /\ \A q \in Procs : q # p => run'[q] = run[q]
  <2>1. RunShape
    BY DEF LockInv
  <2>2. run' = [run EXCEPT ![p] = Run("read", run[p].prog, v)]
    BY <1>1
  <2>3. run' = [q \in Procs |-> IF q = p THEN Run("read", run[p].prog, v) ELSE run[q]]
    BY <2>1, <2>2 DEF RunShape
  <2> QED BY <2>1, <2>3 DEF RunShape, Entry, Run
<1>3. run[p].prog \in DOMAIN known' /\ known'[run[p].prog] = v
  BY <1>1 DEF Learned
<1>4. ASSUME mishap # TimedOut PROVE Exclusive'
  <2>1. \A q \in Procs : q # p => run[q].at \notin {"sim", "read"}
    BY <1>4 DEF LockInv, Exclusive, Simulate
  <2>2. art = "none"
    BY <1>4 DEF LockInv, Exclusive, Simulate
  <2>3. HasOwn(p)'
    BY <1>1, <1>2, <1>3, <2>2 DEF HasOwn
  <2> QED BY <1>2, <1>4, <2>1, <2>3 DEF LockInv, Exclusive, Simulate
<1> QED BY <1>2, <1>4 DEF LockInv, Simulate

(* A build that breaks leaves no record (Breaks).                          *)
LEMMA BreaksKeeps ==
  ASSUME NEW p \in Procs, LockInv, Breaks(p)
  PROVE LockInv'
<1>1. /\ RunShape' /\ run'[p].at = "read" /\ run'[p].said = "broken"
      /\ \A q \in Procs : q # p => run'[q] = run[q]
  BY OneEntry DEF LockInv, Breaks
<1>2. mishap # TimedOut
  <2>1. "broken" \notin TimedOut
    BY DEF TimedOut
  <2> QED BY <2>1 DEF Breaks
<1>3. \A q \in Procs : q # p => run[q].at \notin {"sim", "read"}
  BY <1>2 DEF LockInv, Exclusive, Breaks
<1>4. Exclusive'
  BY <1>1, <1>2, <1>3 DEF LockInv, Exclusive, HasOwn, Breaks
<1> QED BY <1>1, <1>4 DEF LockInv

(* Who has read gives the lock back (Release).                             *)
LEMMA ReleaseKeeps ==
  ASSUME NEW p \in Procs, LockInv, Release(p)
  PROVE LockInv'
<1>1. /\ RunShape' /\ run'[p].at = "idle"
      /\ \A q \in Procs : q # p => run'[q] = run[q]
  BY OneEntry DEF LockInv, Release, Idle
<1>2. ASSUME mishap # TimedOut PROVE Exclusive'
  <2>1. \A q \in Procs : q # p => run[q].at \notin {"sim", "read"}
    BY <1>2 DEF LockInv, Exclusive, Release
  <2> QED BY <1>1, <1>2, <2>1 DEF LockInv, Exclusive, Release
<1> QED BY <1>1, <1>2 DEF LockInv, Release

(* Nothing is promised after a time-out (TimesOut).                        *)
LEMMA TimesOutKeeps ==
  ASSUME NEW p \in Procs, LockInv, TimesOut(p)
  PROVE LockInv'
<1>1. RunShape'
  BY OneEntry DEF LockInv, TimesOut, Idle
<1> QED BY <1>1 DEF LockInv, TimesOut, TimedOut

(* There is no orphan before one (OrphanEnds).                             *)
LEMMA OrphanKeeps ==
  ASSUME LockInv, OrphanEnds
  PROVE LockInv'
BY DEF LockInv, OrphanEnds, Exclusive, RunShape, Entry

(* What another command does leaves the seeds alone.                       *)
LEMMA SeedsStill ==
  ASSUME LockInv, UNCHANGED seedVars
  PROVE LockInv'
BY DEF LockInv, seedVars, Exclusive, RunShape, Entry, HasOwn

(* Every step of minimize and replay is one of these (MinimizeNext).       *)
LEMMA MinimizeKeeps ==
  ASSUME LockInv, MinimizeNext
  PROVE LockInv'
<1> Min \in Procs /\ Rep \in Procs
  BY ProcsAssumption
<1>1. CASE RunFirst
  BY <1>1, AskKeeps DEF RunFirst
<1>2. CASE Candidate
  <2> DEFINE prog == Elems(Test(next))
  <2>1. PICK v \in Possible(known, prog, {"hang", "run"}) :
          IF v = "hang"
          THEN /\ known' = Learned(known, prog, v)
               /\ UNCHANGED <<verdicts, lock, art, run, orphans, mishap>>
          ELSE /\ Ask(Min, prog)
               /\ UNCHANGED <<verdicts, known, lock, art, orphans, mishap>>
    BY <1>2 DEF Candidate
  <2> HIDE DEF prog
  <2>2. CASE v = "hang"
    BY <2>1, <2>2, Learning DEF LockInv, Exclusive, RunShape, Entry, HasOwn
  <2>3. CASE v # "hang"
    <3>1. run[Min].at = "idle"
      BY <1>2 DEF Candidate
    <3> QED BY <2>1, <2>3, <3>1, AskKeeps
  <2> QED BY <2>2, <2>3
<1>3. CASE RunFinal
  BY <1>3, AskKeeps DEF RunFinal
<1>4. CASE \E p \in Procs : SeedStep(p)
  BY <1>4, AcquireKeeps, SimulateKeeps DEF SeedStep
<1>5. CASE \E p \in Procs : Breaks(p) /\ UNCHANGED minVars
  BY <1>5, BreaksKeeps
<1>6. CASE MinReads
  BY <1>6, ReleaseKeeps DEF MinReads
<1>7. CASE MinTimesOut \/ TimesOut(Rep)
  BY <1>7, TimesOutKeeps DEF MinTimesOut
<1>8. CASE Replay
  BY <1>8, AskKeeps DEF Replay
<1>9. CASE RepReads
  BY <1>9, ReleaseKeeps DEF RepReads
<1>10. CASE OrphanEnds
  BY <1>10, OrphanKeeps
<1> QED
  BY <1>1, <1>2, <1>3, <1>4, <1>5, <1>6, <1>7, <1>8, <1>9, <1>10 DEF MinimizeNext, MinStep

(* The lock of run_seed does what it is for, for any number of processes,  *)
(* programs and verdicts: as long as none of them times out, no run reads  *)
(* the record of another.                                                  *)
THEOREM LockedVerdict == Spec => []OwnVerdict
<1>1. Init => LockInv
  BY DEF Init, SeedInit, LockInv, RunShape, Entry, Exclusive, Idle, Run
<1>2. LockInv /\ [Next]_vars => LockInv'
  <2> SUFFICES ASSUME LockInv, [Next]_vars PROVE LockInv'
    OBVIOUS
  <2>1. MinimizeNext \/ UNCHANGED seedVars
    BY DEF Next, vars, In, Others
  <2> QED BY <2>1, MinimizeKeeps, SeedsStill
<1>3. LockInv => OwnVerdict
  <2> SUFFICES ASSUME LockInv, mishap # TimedOut, NEW p \in Procs, run[p].at = "read"
               PROVE Returned(p) \in {"raises"} \cup
                       (IF run[p].prog \in DOMAIN known THEN {known[run[p].prog]} ELSE {})
    BY DEF OwnVerdict, ReadsOwn
  <2>1. HasOwn(p)
    BY DEF LockInv, Exclusive
  <2> QED BY <2>1, OwnIsReturned
<1> QED BY <1>1, <1>2, <1>3, PTL DEF Spec

-----------------------------------------------------------------------------
(* What the program q does is known, and is or is not the check that       *)
(* minimize looks for.                                                     *)
StillFails(q) == q \in DOMAIN known /\ known[q] = signature
NotSo(q) == q \in DOMAIN known /\ known[q] # signature

Distinct(s) == \A i, j \in DOMAIN s : s[i] = s[j] => i = j
Lists == {s \in Seq(Nat) : Distinct(s)}

(* No single one of the items can be spared.                               *)
NoneSpared(s) == Len(s) > 1 => \A i \in DOMAIN s : NotSo(Elems(s) \ {s[i]})

(* What minimize waits for.                                                *)
Asks ==
  IF stage = "first" THEN Full
  ELSE IF stage = "search" THEN Elems(Test(next)) ELSE Elems(items)

(* Of a round, what was tested so far has passed or failed otherwise.      *)
Cutting ==
  /\ Len(items) >= 2 /\ n \in Nat /\ n >= 2 /\ next \in 1..Tests
  /\ \A i \in 1..(next - 1) : NotSo(Elems(Test(i)))

(* Where the search is, or what it has ended with.                         *)
Searched ==
  /\ items \in Lists /\ signature # "hang" /\ StillFails(Elems(items))
  /\ stage = "search" => Cutting
  /\ stage \in {"final", "done"} => NoneSpared(items)

(* What holds of minimize as long as no run has timed out.                 *)
CutInv ==
  /\ size \in Nat /\ "hang" \notin verdicts
  /\ run[Min].at # "idle" => /\ stage \in {"first", "search", "final"}
                             /\ run[Min].prog = Asks
  /\ stage = "first" => \A q \in DOMAIN known : known[q] # "hang"
  /\ stage \in {"search", "final", "done"} => Searched
  /\ stage = "done" => written = signature

MinimizeInv ==
  /\ LockInv
  /\ command # "minimize" => stage = "first"
  /\ command = "minimize" /\ mishap # TimedOut => CutInv

-----------------------------------------------------------------------------
(* The sizes of the pieces of a round.                                     *)
LEMMA Sizing ==
  ASSUME NEW len \in Nat, NEW c \in Nat, c >= 1, c <= len, NEW p, p = (len + c - 1) \div c
  PROVE /\ p \in Nat /\ p >= 1 /\ p * c <= len + c - 1
        /\ \A i \in 1..p : (i - 1) * c \in 0..(len - 1) /\ i * c \in Nat
<1>1. p \in Nat /\ p * c <= len + c - 1 /\ len + c - 1 < (p + 1) * c
  OBVIOUS
<1>2. p >= 1
  <2> SUFFICES ASSUME p = 0 PROVE FALSE BY <1>1
  <2> QED BY <1>1
<1>3. ASSUME NEW i \in 1..p PROVE (i - 1) * c \in 0..(len - 1) /\ i * c \in Nat
  <2>1. i * c <= p * c BY <1>1
  <2>2. (i - 1) * c = i * c - c BY <1>1
  <2>3. (i - 1) * c \in Nat /\ i * c \in Nat BY <1>1
  <2> QED BY <1>1, <2>1, <2>2, <2>3
<1> QED BY <1>1, <1>2, <1>3

(* A chunk has at least one and at most all of the items, and one if there *)
(* are to be as many pieces as items.                                      *)
LEMMA ChunkSize ==
  ASSUME NEW len \in Nat, len >= 2, NEW k \in Nat, k >= 2,
         NEW c, c = AtLeast(1, len \div k)
  PROVE /\ c \in Nat /\ c >= 1 /\ c <= len
        /\ k >= len => c = 1
<1> DEFINE q == len \div k
<1>1. q \in Nat /\ k * q <= len /\ len < k * q + k OBVIOUS
<1>2. q <= len BY <1>1
<1>3. k >= len => q <= 1
  <2> SUFFICES ASSUME k >= len, q >= 2 PROVE FALSE BY <1>1
  <2>1. k * q >= k * 2 BY <1>1
  <2> QED BY <1>1, <2>1
<1>4. c = IF 1 > q THEN 1 ELSE q BY DEF AtLeast
<1> QED BY <1>1, <1>2, <1>3, <1>4

(* Where each piece begins and ends.                                       *)
LEMMA PieceBounds ==
  ASSUME items \in Seq(Nat), Len(items) >= 2, n \in Nat, n >= 2
  PROVE /\ Pieces \in Nat /\ Pieces >= 1
        /\ \A i \in 1..Pieces : /\ Before(i) \in 0..(Len(items) - 1)
                                /\ Upto(i) \in 0..Len(items)
                                /\ Before(i) <= Upto(i)
        /\ n >= Len(items) =>
             /\ Pieces = Len(items)
             /\ \A i \in 1..Pieces : Before(i) = i - 1 /\ Upto(i) = i
<1>1. Chunk \in Nat /\ Chunk >= 1 /\ Chunk <= Len(items) /\ (n >= Len(items) => Chunk = 1)
  BY ChunkSize DEF Chunk
<1>2. Len(items) \in Nat OBVIOUS
<1>3. /\ Pieces \in Nat /\ Pieces >= 1
      /\ \A i \in 1..Pieces : (i - 1) * Chunk \in 0..(Len(items) - 1) /\ i * Chunk \in Nat
  BY <1>1, <1>2, Sizing DEF Pieces
<1>4. ASSUME NEW i \in 1..Pieces
      PROVE /\ Before(i) \in 0..(Len(items) - 1) /\ Upto(i) \in 0..Len(items)
            /\ Before(i) <= Upto(i)
  <2>1. (i - 1) * Chunk \in 0..(Len(items) - 1) /\ i * Chunk \in Nat BY <1>3
  <2>2. (i - 1) * Chunk <= i * Chunk BY <1>1, <1>3
  <2> DEFINE a == (i - 1) * Chunk
             b == i * Chunk
  <2>3. Before(i) = a /\ Upto(i) = IF b < Len(items) THEN b ELSE Len(items)
    BY DEF Before, Upto, AtMost
  <2>4. a \in 0..(Len(items) - 1) /\ b \in Nat /\ a <= b BY <2>1, <2>2
  <2> HIDE DEF a, b
  <2> QED BY <1>2, <2>3, <2>4
<1>5. ASSUME n >= Len(items)
      PROVE /\ Pieces = Len(items)
            /\ \A i \in 1..Pieces : Before(i) = i - 1 /\ Upto(i) = i
  <2>1. Chunk = 1 BY <1>1, <1>5
  <2>2. Pieces = Len(items) BY <1>2, <2>1 DEF Pieces
  <2> QED BY <1>2, <2>1, <2>2 DEF Before, Upto, AtMost
<1> QED BY <1>3, <1>4, <1>5

(* What is between two places of a list, and what is left without it.      *)
LEMMA CutOut ==
  ASSUME NEW s \in Lists, NEW a \in 0..Len(s), NEW b \in a..Len(s)
  PROVE /\ SubSeq(s, a + 1, b) \in Lists
        /\ SubSeq(s, 1, a) \o SubSeq(s, b + 1, Len(s)) \in Lists
        /\ b = a + 1 => Elems(SubSeq(s, 1, a) \o SubSeq(s, b + 1, Len(s)))
                          = Elems(s) \ {s[b]}
<1> DEFINE m == SubSeq(s, a + 1, b)
           u == SubSeq(s, 1, a)
           v == SubSeq(s, b + 1, Len(s))
           t == u \o v
           Place(k) == IF k <= a THEN k ELSE b + k - a
<1>1. s \in Seq(Nat) /\ Distinct(s) BY DEF Lists
<1>2. Len(s) \in Nat /\ a \in Nat /\ b \in Nat /\ a <= b /\ b <= Len(s) BY <1>1
<1>3. \A i \in 1..Len(s) : s[i] \in Nat BY <1>1
<1>4. m \in Seq(Nat) /\ Len(m) = b - a /\ \A i \in 1..(b - a) : m[i] = s[a + i]
  <2>1. a + 1 \in Int /\ b \in Int /\ \A i \in (a + 1)..b : s[i] \in Nat BY <1>2, <1>3
  <2>2. /\ m \in Seq(Nat) /\ Len(m) = IF a + 1 <= b THEN b - (a + 1) + 1 ELSE 0
        /\ \A i \in 1..(b - (a + 1) + 1) : m[i] = s[a + 1 + i - 1]
    BY <2>1, SubSeqProperties
  <2> HIDE DEF m
  <2>3. b - (a + 1) + 1 = b - a /\ \A i \in 1..(b - a) : a + 1 + i - 1 = a + i
    BY <1>2
  <2>4. Len(m) = b - a
    BY <1>2, <2>2
  <2>5. \A i \in 1..(b - a) : m[i] = s[a + i]
    BY <2>2, <2>3
  <2> QED BY <2>2, <2>4, <2>5
<1>5. u \in Seq(Nat) /\ Len(u) = a /\ \A i \in 1..a : u[i] = s[i]
  <2>1. 1 \in Int /\ a \in Int /\ \A i \in 1..a : s[i] \in Nat BY <1>2, <1>3
  <2>2. /\ u \in Seq(Nat) /\ Len(u) = IF 1 <= a THEN a - 1 + 1 ELSE 0
        /\ \A i \in 1..(a - 1 + 1) : u[i] = s[1 + i - 1]
    BY <2>1, SubSeqProperties
  <2> HIDE DEF u
  <2>3. \A i \in 1..a : i \in 1..(a - 1 + 1) /\ 1 + i - 1 = i BY <1>2
  <2>4. Len(u) = a BY <1>2, <2>2
  <2>5. ASSUME NEW i \in 1..a PROVE u[i] = s[i] BY <2>2, <2>3
  <2> QED BY <2>2, <2>4, <2>5
<1>6. /\ v \in Seq(Nat) /\ Len(v) = Len(s) - b
      /\ \A i \in 1..(Len(s) - b) : v[i] = s[b + i]
  <2>1. b + 1 \in Int /\ Len(s) \in Int /\ \A i \in (b + 1)..Len(s) : s[i] \in Nat
    BY <1>2, <1>3
  <2>2. /\ v \in Seq(Nat) /\ Len(v) = IF b + 1 <= Len(s) THEN Len(s) - (b + 1) + 1 ELSE 0
        /\ \A i \in 1..(Len(s) - (b + 1) + 1) : v[i] = s[b + 1 + i - 1]
    BY <2>1, SubSeqProperties
  <2> HIDE DEF v
  <2>3. \A i \in 1..(Len(s) - b) :
          i \in 1..(Len(s) - (b + 1) + 1) /\ b + 1 + i - 1 = b + i
    BY <1>2
  <2>4. Len(v) = Len(s) - b BY <1>2, <2>2
  <2>5. ASSUME NEW i \in 1..(Len(s) - b) PROVE v[i] = s[b + i] BY <2>2, <2>3
  <2> QED BY <2>2, <2>4, <2>5
<1> HIDE DEF m, u, v
<1>7. t \in Seq(Nat) /\ Len(t) = Len(u) + Len(v)
      /\ \A i \in 1..Len(t) : t[i] = IF i <= Len(u) THEN u[i] ELSE v[i - Len(u)]
  BY <1>5, <1>6, ConcatProperties
<1> HIDE DEF t
<1>8. /\ Len(t) = a + Len(s) - b /\ DOMAIN t = 1..Len(t) /\ DOMAIN s = 1..Len(s)
      /\ \A i \in 1..Len(t) : Place(i) \in 1..Len(s) /\ t[i] = s[Place(i)]
  <2>1. Len(t) = a + Len(s) - b /\ DOMAIN t = 1..Len(t) /\ DOMAIN s = 1..Len(s)
    BY <1>1, <1>2, <1>5, <1>6, <1>7
  <2>2. ASSUME NEW i \in 1..Len(t), i <= a PROVE Place(i) \in 1..Len(s) /\ t[i] = s[Place(i)]
    BY <1>2, <1>5, <1>7, <2>1, <2>2
  <2>3. ASSUME NEW i \in 1..Len(t), i > a PROVE Place(i) \in 1..Len(s) /\ t[i] = s[Place(i)]
    <3>1. t[i] = v[i - a] BY <1>2, <1>5, <1>7, <2>1, <2>3
    <3>2. i - a \in 1..(Len(s) - b) BY <1>2, <2>1, <2>3
    <3>3. v[i - a] = s[b + (i - a)] BY <1>6, <3>2
    <3>4. Place(i) = b + i - a /\ b + (i - a) = b + i - a BY <1>2, <2>1, <2>3
    <3> QED BY <1>2, <3>1, <3>2, <3>3, <3>4
  <2> QED BY <1>2, <2>1, <2>2, <2>3
<1>9. \A i, j \in 1..Len(t) : Place(i) = Place(j) => i = j BY <1>2, <1>8
<1>10. Distinct(m)
  <2> SUFFICES ASSUME NEW i \in 1..(b - a), NEW j \in 1..(b - a), m[i] = m[j] PROVE i = j
    BY <1>4 DEF Distinct
  <2>1. s[a + i] = s[a + j] BY <1>4
  <2>2. a + i \in DOMAIN s /\ a + j \in DOMAIN s BY <1>2, <1>8
  <2>3. a + i = a + j BY <1>1, <2>1, <2>2 DEF Distinct
  <2> QED BY <1>2, <2>3
<1>11. Distinct(t)
  <2> SUFFICES ASSUME NEW i \in 1..Len(t), NEW j \in 1..Len(t), t[i] = t[j] PROVE i = j
    BY <1>8 DEF Distinct
  <2>1. Place(i) = Place(j) BY <1>1, <1>8 DEF Distinct
  <2> QED BY <1>9, <2>1
<1>12. ASSUME b = a + 1 PROVE Elems(t) = Elems(s) \ {s[b]}
  <2>1. \A i \in 1..Len(t) : Place(i) # b BY <1>2, <1>8, <1>12
  <2>2. \A i \in 1..Len(s) : i # b => \E j \in 1..Len(t) : Place(j) = i
    <3> SUFFICES ASSUME NEW i \in 1..Len(s), i # b PROVE \E j \in 1..Len(t) : Place(j) = i
      OBVIOUS
    <3>1. CASE i <= a
      <4>1. i \in 1..Len(t) /\ Place(i) = i BY <1>2, <1>8, <3>1
      <4> QED BY <4>1
    <3>2. CASE i > b
      <4>1. i - 1 \in 1..Len(t) /\ Place(i - 1) = i BY <1>2, <1>8, <1>12, <3>2
      <4> QED BY <4>1
    <3> QED BY <1>2, <1>12, <3>1, <3>2
  <2> HIDE DEF Place
  <2>3. \A i \in DOMAIN t : t[i] \in Elems(s) \ {s[b]}
    <3> SUFFICES ASSUME NEW i \in 1..Len(t) PROVE t[i] \in Elems(s) \ {s[b]} BY <1>8
    <3>1. Place(i) \in DOMAIN s /\ b \in DOMAIN s /\ t[i] = s[Place(i)] BY <1>2, <1>8, <1>12
    <3>2. s[Place(i)] # s[b] BY <1>1, <2>1, <3>1 DEF Distinct
    <3> QED BY <3>1, <3>2 DEF Elems
  <2>4. \A x \in Elems(s) \ {s[b]} : x \in Elems(t)
    <3> SUFFICES ASSUME NEW i \in DOMAIN s, s[i] # s[b] PROVE s[i] \in Elems(t)
      BY DEF Elems
    <3>1. PICK j \in 1..Len(t) : Place(j) = i BY <1>8, <2>2
    <3>2. t[j] = s[i] BY <1>8, <3>1
    <3> QED BY <1>8, <3>2 DEF Elems
  <2> QED BY <2>3, <2>4 DEF Elems
<1> QED BY <1>4, <1>7, <1>10, <1>11, <1>12 DEF Lists, m, t, u, v

(* A piece is a list, and so is what is left without it.                   *)
LEMMA TestsAreLists ==
  ASSUME items \in Lists, Cutting
  PROVE Test(next) \in Lists
<1>1. items \in Seq(Nat) BY DEF Lists
<1>2. Pieces \in Nat /\ Pieces >= 1 BY <1>1, PieceBounds DEF Cutting
<1>3. ASSUME NEW i \in 1..Pieces PROVE Subset(i) \in Lists /\ Complement(i) \in Lists
  <2>1. Before(i) \in 0..Len(items) /\ Upto(i) \in Before(i)..Len(items)
    BY <1>1, PieceBounds DEF Cutting
  <2> QED BY <2>1, CutOut DEF Subset, Complement
<1>4. next <= Pieces => next \in 1..Pieces BY <1>2 DEF Cutting, Tests
<1>5. ~(next <= Pieces) => next - Pieces \in 1..Pieces BY <1>2 DEF Cutting, Tests
<1> QED BY <1>3, <1>4, <1>5 DEF Test

-----------------------------------------------------------------------------
(* What is known is never taken back.                                      *)
Grows == \A q \in DOMAIN known : q \in DOMAIN known' /\ known'[q] = known[q]

(* NotSo of a program that does not change.                                *)
NotSoNext(q) == q \in DOMAIN known' /\ known'[q] # signature'

LEMMA AnswersStay ==
  ASSUME Grows, UNCHANGED signature
  PROVE \A q : (StillFails(q) => StillFails(q)') /\ (NotSo(q) => NotSo(q)')
BY DEF Grows, StillFails, NotSo

(* The tests of a round are what they are while its items are.             *)
LEMMA TestsStay ==
  ASSUME UNCHANGED <<items, n>>
  PROVE Tests' = Tests /\ \A i : Elems(Test(i))' = Elems(Test(i))
<1>1. Chunk' = Chunk BY DEF Chunk
<1>2. Pieces' = Pieces BY <1>1 DEF Pieces
<1>3. \A i : Before(i)' = Before(i) /\ Upto(i)' = Upto(i) BY <1>1 DEF Before, Upto
<1>4. \A i : Subset(i)' = Subset(i) /\ Complement(i)' = Complement(i)
  BY <1>3 DEF Subset, Complement
<1>5. \A i : Test(i)' = Test(i) BY <1>2, <1>4 DEF Test
<1> QED BY <1>2, <1>5 DEF Tests, Elems

(* A new round begins with its first test, or there is nothing to cut      *)
(* (cmd_minimize, line 176).                                               *)
LEMMA RoundBegins ==
  ASSUME NEW left \in Lists, NEW cut \in Nat, cut >= 2, Round(left, cut),
         Elems(left) \in DOMAIN known, known[Elems(left)] = signature',
         signature' # "hang", Grows
  PROVE Searched' /\ stage' \in {"search", "final"}
<1>1. /\ items' = left /\ n' = cut /\ next' = 1
      /\ stage' = IF Len(left) >= 2 THEN "search" ELSE "final"
  BY DEF Round
<1>2. left \in Seq(Nat) /\ Len(left) \in Nat BY DEF Lists
<1>3. Elems(items)' = Elems(left) BY <1>1 DEF Elems
<1>4. StillFails(Elems(items))' BY <1>1, <1>3 DEF Grows, StillFails
<1>5. ASSUME stage' = "search" PROVE Cutting'
  <2>1. Len(left) >= 2 BY <1>1, <1>5
  <2>2. Chunk' = AtLeast(1, Len(left) \div cut) BY <1>1 DEF Chunk
  <2>3. Chunk' \in Nat /\ Chunk' >= 1 /\ Chunk' <= Len(left)
    BY <1>2, <2>1, <2>2, ChunkSize
  <2>4. Pieces' = (Len(left) + Chunk' - 1) \div Chunk' BY <1>1 DEF Pieces
  <2>5. Pieces' \in Nat /\ Pieces' >= 1 BY <1>2, <2>3, <2>4, Sizing
  <2>6. Tests' \in Nat /\ Tests' >= 1
    <3> DEFINE p == Pieces'
               t == Tests'
    <3>1. t = IF p > 1 THEN 2 * p ELSE p BY DEF Tests
    <3>2. p \in Nat /\ p >= 1 BY <2>5
    <3> HIDE DEF p, t
    <3>3. t \in Nat /\ t >= 1 BY <3>1, <3>2
    <3> QED BY <3>3 DEF t
  <2> QED BY <1>1, <2>1, <2>6 DEF Cutting
<1>6. ASSUME stage' = "final" PROVE NoneSpared(items)'
  BY <1>1, <1>2, <1>6 DEF NoneSpared
<1> QED BY <1>1, <1>4, <1>5, <1>6 DEF Searched

(* A test that fails the same way becomes the program (lines 180-190).     *)
LEMMA FailedCuts ==
  ASSUME Searched, stage = "search", FailedTest, StillFails(Elems(Test(next))),
         UNCHANGED <<signature, known>>
  PROVE Searched' /\ stage' \in {"search", "final"}
<1>1. items \in Lists /\ Cutting BY DEF Searched
<1>2. Test(next) \in Lists BY <1>1, TestsAreLists
<1> DEFINE cut == IF next <= Pieces THEN 2 ELSE AtLeast(n - 1, 2)
<1>3. cut \in Nat /\ cut >= 2 BY <1>1 DEF Cutting, AtLeast
<1>4. Round(Test(next), cut) BY DEF FailedTest
<1>5. Grows BY DEF Grows
<1> HIDE DEF cut
<1> QED BY <1>2, <1>3, <1>4, <1>5, RoundBegins DEF Searched, StillFails

(* When the last test of the finest round has passed, so has the program   *)
(* without any one of its items (lines 186-193).                           *)
LEMMA FinestRound ==
  ASSUME items \in Lists, Cutting, n >= Len(items), UNCHANGED <<items, n>>,
         \A i \in 1..Tests : NotSoNext(Elems(Test(i)))
  PROVE NoneSpared(items)'
<1>1. items \in Seq(Nat) /\ Len(items) \in Nat BY DEF Lists
<1>2. /\ Pieces = Len(items)
      /\ \A i \in 1..Pieces : Before(i) = i - 1 /\ Upto(i) = i
  BY <1>1, PieceBounds DEF Cutting
<1>3. Tests = 2 * Len(items) BY <1>1, <1>2 DEF Tests, Cutting
<1>4. ASSUME NEW i \in DOMAIN items PROVE NotSo(Elems(items) \ {items[i]})'
  <2>1. i \in 1..Len(items) BY <1>1
  <2>2. i - 1 \in 0..Len(items) /\ i \in (i - 1)..Len(items) /\ i = (i - 1) + 1
    BY <1>1, <2>1
  <2>3. Elems(SubSeq(items, 1, i - 1) \o SubSeq(items, i + 1, Len(items)))
          = Elems(items) \ {items[i]}
    BY <2>2, CutOut
  <2>4. Pieces + i \in 1..Tests /\ ~(Pieces + i <= Pieces) /\ Pieces + i - Pieces = i
    BY <1>1, <1>2, <1>3, <2>1
  <2>5. Before(i) = i - 1 /\ Upto(i) = i BY <1>2, <2>1
  <2>6. Test(Pieces + i) = Complement(i) BY <1>1, <1>2, <2>1, <2>4 DEF Test
  <2>7. Elems(Test(Pieces + i)) = Elems(items) \ {items[i]}
    BY <2>3, <2>5, <2>6 DEF Complement
  <2> QED BY <2>4, <2>7 DEF NotSo, NotSoNext, Elems
<1> QED BY <1>4 DEF NoneSpared

(* A test that passes is followed by the next, by a finer round, or by the *)
(* end (lines 180-194).                                                    *)
LEMMA PassedCuts ==
  ASSUME Searched, stage = "search", PassedTest, Grows, UNCHANGED signature,
         NotSoNext(Elems(Test(next)))
  PROVE Searched' /\ stage' \in {"search", "final"}
<1>1. items \in Lists /\ Cutting /\ StillFails(Elems(items)) BY DEF Searched
<1>2. items \in Seq(Nat) /\ Len(items) \in Nat BY <1>1 DEF Lists
<1>3. Pieces \in Nat /\ Pieces >= 1 BY <1>1, <1>2, PieceBounds DEF Cutting
<1>4. Tests \in Nat /\ Tests >= 1 BY <1>3 DEF Tests
<1>5. \A i \in 1..next : NotSoNext(Elems(Test(i)))
  <2> SUFFICES ASSUME NEW i \in 1..next PROVE NotSoNext(Elems(Test(i))) OBVIOUS
  <2>1. next \in Nat BY <1>1, <1>4 DEF Cutting
  <2>2. CASE i = next BY <2>2
  <2>3. CASE i \in 1..(next - 1)
    <3>1. NotSo(Elems(Test(i))) BY <1>1, <2>3 DEF Cutting
    <3> QED BY <3>1 DEF NotSo, NotSoNext, Grows
  <2> QED BY <2>1, <2>2, <2>3
<1>6. UNCHANGED items => StillFails(Elems(items))' /\ items' \in Lists
  <2> SUFFICES ASSUME UNCHANGED items PROVE StillFails(Elems(items))' /\ items' \in Lists
    OBVIOUS
  <2>1. Elems(items)' = Elems(items) BY DEF Elems
  <2> QED BY <1>1, <2>1 DEF StillFails, Grows
<1>7. CASE next < Tests
  <2>1. next' = next + 1 /\ UNCHANGED <<items, n, stage>>
    <3>1. next # Tests BY <1>1, <1>4, <1>7 DEF Cutting
    <3> QED BY <1>7, <3>1 DEF PassedTest
  <2>2. Tests' = Tests /\ \A i : Elems(Test(i))' = Elems(Test(i)) BY <2>1, TestsStay
  <2>3. next' \in 1..Tests' BY <1>1, <1>4, <1>7, <2>1, <2>2 DEF Cutting
  <2>4. ASSUME NEW i \in 1..(next' - 1) PROVE NotSo(Elems(Test(i)))'
    <3>1. i \in 1..next BY <1>1, <1>4, <2>1 DEF Cutting
    <3>2. NotSoNext(Elems(Test(i))) BY <1>5, <3>1
    <3>3. Elems(Test(i))' = Elems(Test(i)) BY <2>2
    <3> QED BY <3>2, <3>3 DEF NotSo, NotSoNext
  <2>5. Cutting' BY <1>1, <2>1, <2>3, <2>4 DEF Cutting
  <2> QED BY <1>6, <2>1, <2>5 DEF Searched
<1>8. CASE n >= Len(items) /\ next = Tests
  <2>1. stage' = "final" /\ UNCHANGED <<items, n, next>> BY <1>4, <1>8 DEF PassedTest
  <2>2. NoneSpared(items)' BY <1>1, <1>5, <1>8, <2>1, FinestRound
  <2> QED BY <1>6, <2>1, <2>2 DEF Searched
<1>9. CASE ~(next < Tests) /\ ~(n >= Len(items) /\ next = Tests)
  <2> DEFINE cut == AtMost(Len(items), 2 * n)
  <2>1. Round(items, cut) BY <1>9 DEF PassedTest
  <2>2. cut \in Nat /\ cut >= 2 BY <1>1, <1>2 DEF Cutting, AtMost
  <2> HIDE DEF cut
  <2> QED BY <1>1, <2>1, <2>2, RoundBegins DEF Searched, StillFails
<1> QED BY <1>7, <1>8, <1>9

-----------------------------------------------------------------------------
(* What another process does takes nothing from minimize.                  *)
LEMMA Unaware ==
  ASSUME CutInv, UNCHANGED <<verdicts, size, stage, signature, items, n, next, written>>,
         Grows,
         stage = "first" => \A q \in DOMAIN known' : known'[q] # "hang",
         run'[Min].at # "idle" => run[Min].at # "idle" /\ run'[Min].prog = run[Min].prog
  PROVE CutInv'
<1>1. Tests' = Tests /\ \A i : Elems(Test(i))' = Elems(Test(i)) BY TestsStay
<1>2. Elems(items)' = Elems(items) BY DEF Elems
<1>3. Asks' = Asks BY <1>1, <1>2 DEF Asks, Full
<1>4. Cutting => Cutting' BY <1>1 DEF Cutting, NotSo, Grows
<1>5. NoneSpared(items) => NoneSpared(items)'
  BY <1>2 DEF NoneSpared, NotSo, Grows
<1>6. Searched => Searched' BY <1>2, <1>4, <1>5 DEF Searched, StillFails, Grows
<1> QED BY <1>3, <1>6 DEF CutInv

(* minimize asks for a run of what it is at (RunFirst, Candidate, RunFinal)*)
LEMMA AskCuts ==
  ASSUME CutInv, RunShape, run[Min].at = "idle", Ask(Min, Asks),
         stage \in {"first", "search", "final"},
         UNCHANGED <<verdicts, known, size, stage, signature, items, n, next, written>>
  PROVE CutInv'
<1>1. Min \in Procs BY ProcsAssumption
<1>2. run'[Min].at = "wait" /\ run'[Min].prog = Asks BY <1>1, OneEntry DEF Ask
<1>3. Tests' = Tests /\ \A i : Elems(Test(i))' = Elems(Test(i)) BY TestsStay
<1>4. Elems(items)' = Elems(items) BY DEF Elems
<1>5. Asks' = Asks BY <1>3, <1>4 DEF Asks, Full
<1>6. Cutting => Cutting' BY <1>3 DEF Cutting, NotSo
<1>7. NoneSpared(items) => NoneSpared(items)' BY <1>4 DEF NoneSpared, NotSo
<1>8. Searched => Searched' BY <1>4, <1>6, <1>7 DEF Searched, StillFails
<1> QED BY <1>2, <1>5, <1>8 DEF CutInv

(* What minimize makes of an answer, which is that of its own program      *)
(* (MinReads).                                                             *)
LEMMA ReadCuts ==
  ASSUME LockInv, CutInv, mishap # TimedOut, MinReads
  PROVE CutInv'
<1>1. Min \in Procs BY ProcsAssumption
<1>2. /\ run[Min].at = "read" /\ run' = [run EXCEPT ![Min] = Idle]
      /\ UNCHANGED <<verdicts, known, size>>
  BY DEF MinReads, Release, Still
<1>3. run'[Min].at = "idle" BY <1>1, <1>2, OneEntry DEF LockInv, Idle
<1>4. stage \in {"first", "search", "final"} /\ run[Min].prog = Asks BY <1>2 DEF CutInv
<1>5. HasOwn(Min) BY <1>1, <1>2 DEF LockInv, Exclusive
<1> DEFINE f == Returned(Min)
<1>6. f # "raises" => Asks \in DOMAIN known /\ known[Asks] = f
  BY <1>1, <1>4, <1>5, OwnIsReturned
<1>7. Grows BY <1>2 DEF Grows
<1>8. size' \in Nat /\ "hang" \notin verdicts' BY <1>2 DEF CutInv
<1> HIDE DEF f
<1>9. CASE f = "raises" \/ (stage = "first" /\ f = "pass")
  <2>1. stage' \in {"raised", "clean"} BY <1>9 DEF MinReads, f
  <2> QED BY <1>3, <1>8, <2>1 DEF CutInv
<1>10. CASE stage = "first" /\ f \notin {"pass", "raises"}
  <2> DEFINE left == [i \in Full |-> i]
  <2>1. signature' = f /\ Round(left, 2) BY <1>10 DEF MinReads, f
  <2>2. left \in Lists BY DEF CutInv, Lists, Distinct, Full
  <2>3. Elems(left) = Full BY DEF Elems
  <2>4. Full \in DOMAIN known /\ known[Full] = f BY <1>6, <1>10 DEF Asks
  <2>5. f # "hang" BY <1>10, <2>4 DEF CutInv
  <2> HIDE DEF left
  <2>6. Searched' /\ stage' \in {"search", "final"}
    BY <1>7, <2>1, <2>2, <2>3, <2>4, <2>5, RoundBegins
  <2> QED BY <1>3, <1>8, <2>6 DEF CutInv
<1>11. CASE stage = "search" /\ f # "raises"
  <2>1. Searched BY <1>11 DEF CutInv
  <2>2. Asks = Elems(Test(next)) BY <1>11 DEF Asks
  <2>3. signature' = signature /\ IF Fails(f) THEN FailedTest ELSE PassedTest
    BY <1>11 DEF MinReads, f
  <2>4. CASE Fails(f)
    <3>1. StillFails(Elems(Test(next))) BY <1>6, <1>11, <2>2, <2>4 DEF StillFails, Fails
    <3> QED BY <1>2, <1>3, <1>8, <1>11, <2>1, <2>3, <2>4, <3>1, FailedCuts DEF CutInv
  <2>5. CASE ~Fails(f)
    <3>1. NotSoNext(Elems(Test(next)))
      BY <1>2, <1>6, <1>11, <2>2, <2>3, <2>5 DEF NotSoNext, Fails
    <3> QED BY <1>3, <1>7, <1>8, <1>11, <2>1, <2>3, <2>5, <3>1, PassedCuts DEF CutInv
  <2> QED BY <2>4, <2>5
<1>12. CASE stage = "final" /\ f # "raises"
  <2>1. /\ stage' = IF f = "pass" THEN "raised" ELSE "done"
        /\ written' = IF f = "pass" THEN written ELSE f
        /\ UNCHANGED <<signature, items, n, next>>
    BY <1>12 DEF MinReads, f
  <2>2. Searched BY <1>12 DEF CutInv
  <2>3. Elems(items)' = Elems(items) BY <2>1 DEF Elems
  <2>4. f = signature BY <1>6, <1>12, <2>2 DEF Asks, Searched, StillFails
  <2>5. NoneSpared(items)'
    BY <1>2, <1>12, <2>1, <2>2, <2>3 DEF Searched, NoneSpared, NotSo
  <2>6. stage' # "raised" => Searched' /\ written' = signature'
    BY <1>2, <2>1, <2>2, <2>3, <2>4, <2>5 DEF Searched, StillFails
  <2> QED BY <1>3, <1>8, <2>1, <2>6 DEF CutInv
<1>13. \/ f = "raises" \/ (stage = "first" /\ f = "pass")
       \/ (stage = "first" /\ f \notin {"pass", "raises"})
       \/ (stage = "search" /\ f # "raises")
       \/ (stage = "final" /\ f # "raises")
  BY <1>4
<1> QED BY <1>9, <1>10, <1>11, <1>12, <1>13

(* A time-out is not forgotten.                                            *)
LEMMA NeverAgain ==
  ASSUME MinimizeNext, mishap = TimedOut
  PROVE mishap' = TimedOut
BY DEF MinimizeNext, MinStep, SeedStep, Acquire, Simulate, Breaks, TimesOut, MinTimesOut,
       RunFirst, Candidate, RunFinal, MinReads, Release, Replay, RepReads, OrphanEnds,
       TimedOut

(* Every step of minimize and of who runs seeds beside it (MinimizeNext).  *)
LEMMA CutKeeps ==
  ASSUME LockInv, CutInv, mishap # TimedOut, mishap' # TimedOut, MinimizeNext
  PROVE CutInv'
<1> Min \in Procs /\ Rep \in Procs /\ Min # Rep
  BY ProcsAssumption DEF Min, Rep
<1>1. RunShape /\ orphans = {} BY DEF LockInv, Exclusive
<1>2. CASE RunFirst
  BY <1>1, <1>2, AskCuts DEF RunFirst, minVars, Asks
<1>3. CASE Candidate
  <2> DEFINE prog == Elems(Test(next))
  <2>1. PICK v \in Possible(known, prog, {"hang", "run"}) :
          IF v = "hang"
          THEN /\ PassedTest /\ known' = Learned(known, prog, v)
               /\ UNCHANGED <<verdicts, run, signature, written, size>>
          ELSE Ask(Min, prog) /\ UNCHANGED <<verdicts, known, minVars>>
    BY <1>3 DEF Candidate, Still
  <2>2. stage = "search" /\ run[Min].at = "idle" BY <1>3 DEF Candidate
  <2>3. Asks = prog BY <2>2 DEF Asks
  <2> HIDE DEF prog
  <2>4. CASE v = "hang"
    <3>1. Searched BY <2>2 DEF CutInv
    <3>2. Grows /\ prog \in DOMAIN known' /\ known'[prog] = "hang"
      BY <2>1, <2>4, Learning DEF Grows
    <3>3. NotSoNext(prog) BY <2>1, <2>4, <3>1, <3>2 DEF NotSoNext, Searched
    <3>4. Searched' /\ stage' \in {"search", "final"}
      BY <2>1, <2>2, <2>4, <3>1, <3>2, <3>3, PassedCuts DEF prog
    <3> QED BY <2>1, <2>2, <2>4, <3>4 DEF CutInv
  <2>5. CASE v # "hang"
    BY <1>1, <2>1, <2>2, <2>3, <2>5, AskCuts DEF minVars
  <2> QED BY <2>4, <2>5
<1>4. CASE RunFinal
  BY <1>1, <1>4, AskCuts DEF RunFinal, minVars, Asks
<1>5. ASSUME NEW p \in Procs, Acquire(p), UNCHANGED minVars PROVE CutInv'
  <2>1. run' = [run EXCEPT ![p] = Run("sim", run[p].prog, "nothing")] /\ run[p].at = "wait"
    BY <1>5 DEF Acquire
  <2>2. run'[Min].at # "idle" => run[Min].at # "idle" /\ run'[Min].prog = run[Min].prog
    <3>1. /\ run'[p].prog = run[p].prog
          /\ \A q \in Procs : q # p => run'[q] = run[q]
      BY <1>1, <2>1 DEF RunShape, Entry, Run
    <3> QED BY <2>1, <3>1
  <2> QED BY <1>5, <2>2, Unaware DEF Acquire, minVars, Grows, CutInv
<1>6. ASSUME NEW p \in Procs, Simulate(p), UNCHANGED minVars PROVE CutInv'
  <2>1. PICK v \in Does(run[p].prog) :
          /\ known' = Learned(known, run[p].prog, v)
          /\ run' = [run EXCEPT ![p] = Run("read", run[p].prog, v)]
    BY <1>6, Zenon DEF Simulate
  <2>2. run[p].at = "sim" /\ UNCHANGED verdicts BY <1>6 DEF Simulate
  <2>3. run'[Min].at # "idle" => run[Min].at # "idle" /\ run'[Min].prog = run[Min].prog
    <3>1. /\ run'[p].prog = run[p].prog
          /\ \A q \in Procs : q # p => run'[q] = run[q]
      BY <1>1, <2>1 DEF RunShape, Entry, Run
    <3> QED BY <2>2, <3>1
  <2>4. Grows BY <2>1, Learning DEF Grows, Does
  <2>5. stage = "first" => \A q \in DOMAIN known' : known'[q] # "hang"
    <3>1. stage = "first" => v # "hang"
      BY <2>1 DEF CutInv, Does, Possible
    <3>2. \A q \in DOMAIN known' : q = run[p].prog \/ q \in DOMAIN known
      BY <2>1, Learning DEF Does
    <3>3. known'[run[p].prog] = v BY <2>1, Learning DEF Does
    <3> QED BY <2>4, <3>1, <3>2, <3>3 DEF CutInv, Grows
  <2> QED BY <1>6, <2>2, <2>3, <2>4, <2>5, Unaware DEF minVars
<1>7. ASSUME NEW p \in Procs, Breaks(p), UNCHANGED minVars PROVE CutInv'
  <2>1. run' = [run EXCEPT ![p] = Run("read", run[p].prog, "broken")] /\ run[p].at = "sim"
    BY <1>7 DEF Breaks
  <2>2. run'[Min].at # "idle" => run[Min].at # "idle" /\ run'[Min].prog = run[Min].prog
    <3>1. /\ run'[p].prog = run[p].prog
          /\ \A q \in Procs : q # p => run'[q] = run[q]
      BY <1>1, <2>1 DEF RunShape, Entry, Run
    <3> QED BY <2>1, <3>1
  <2> QED BY <1>7, <2>2, Unaware DEF Breaks, minVars, Grows, CutInv
<1>8. CASE MinReads
  BY <1>8, ReadCuts
<1>9. CASE MinTimesOut \/ TimesOut(Rep)
  BY <1>9 DEF MinTimesOut, TimesOut, TimedOut
<1>10. CASE Replay
  <2>1. run' = [run EXCEPT ![Rep] = Run("wait", Full, "nothing")]
    BY <1>10 DEF Replay, Ask
  <2>2. run'[Min] = run[Min] BY <1>1, <2>1, OneEntry
  <2> QED BY <1>10, <2>2, Unaware DEF Replay, Grows, CutInv
<1>11. CASE RepReads
  <2>1. run' = [run EXCEPT ![Rep] = Idle] BY <1>11 DEF RepReads, Release
  <2>2. run'[Min] = run[Min] BY <1>1, <2>1, OneEntry DEF Idle
  <2> QED BY <1>11, <2>2, Unaware DEF RepReads, Release, minVars, Grows, CutInv
<1>12. CASE OrphanEnds
  BY <1>1, <1>12 DEF OrphanEnds
<1> QED
  BY <1>2, <1>3, <1>4, <1>5, <1>6, <1>7, <1>8, <1>9, <1>10, <1>11, <1>12
  DEF MinimizeNext, MinStep, SeedStep

(* What minimize leaves still fails the same check, and without any one of *)
(* its instructions it does not: for any number of instructions, checks    *)
(* and processes beside it, as long as no run times out.                   *)
THEOREM LeastProgram == Spec => []Minimal
<1>1. Init => MinimizeInv
  <2> SUFFICES ASSUME Init PROVE MinimizeInv OBVIOUS
  <2>1. LockInv
    BY DEF Init, SeedInit, LockInv, RunShape, Entry, Exclusive, Idle, Run
  <2>2. PICK z \in Only("minimize", Sizes) : SeedInit(z[3], z[4]) /\ MinInit(z)
    BY DEF Init
  <2>3. stage = "first" BY <2>2 DEF MinInit
  <2>4. ASSUME command = "minimize" PROVE CutInv
    <3>1. z \in Sizes BY <2>4 DEF Only
    <3>2. size = z[1] /\ verdicts = z[4] /\ known = <<>> /\ run[Min] = Idle
      BY <2>2, ProcsAssumption DEF MinInit, SeedInit
    <3> QED BY <2>3, <3>1, <3>2, SizesAssumption DEF CutInv, Idle, Run
  <2> QED BY <2>1, <2>3, <2>4 DEF MinimizeInv
<1>2. MinimizeInv /\ [Next]_vars => MinimizeInv'
  <2> SUFFICES ASSUME MinimizeInv, [Next]_vars PROVE MinimizeInv' OBVIOUS
  <2>1. CASE MinimizeNext /\ command = "minimize" /\ UNCHANGED command
    <3>1. LockInv' BY <2>1, MinimizeKeeps DEF MinimizeInv
    <3>2. ASSUME mishap' # TimedOut PROVE CutInv'
      <4>1. mishap # TimedOut BY <2>1, <3>2, NeverAgain
      <4> QED BY <2>1, <3>2, <4>1, CutKeeps DEF MinimizeInv
    <3> QED BY <2>1, <3>1, <3>2 DEF MinimizeInv
  <2>2. CASE UNCHANGED <<seedVars, minVars, command>>
    <3>1. LockInv' BY <2>2, SeedsStill DEF MinimizeInv
    <3>2. CutInv => CutInv' BY <2>2, Unaware DEF seedVars, minVars, Grows, CutInv
    <3> QED BY <2>2, <3>1, <3>2 DEF MinimizeInv, seedVars, minVars
  <2> QED BY <2>1, <2>2 DEF Next, vars, In, Others
<1>3. MinimizeInv => Minimal
  <2> DEFINE least == Elems(items)
  <2> SUFFICES ASSUME MinimizeInv, stage = "done", mishap # TimedOut
      PROVE /\ known[least] = signature /\ written = signature
            /\ Cardinality(least) > 1 =>
                 \A i \in least : NotSo(least \ {i})
    BY DEF Minimal, NotSo
  <2>1. CutInv BY DEF MinimizeInv
  <2>2. /\ items \in Lists /\ StillFails(least) /\ NoneSpared(items)
        /\ written = signature
    BY <2>1 DEF CutInv, Searched
  <2>3. ASSUME Cardinality(least) > 1 PROVE Len(items) > 1
    <3>1. items \in Seq(Nat) /\ Len(items) \in Nat /\ DOMAIN items = 1..Len(items)
      BY <2>2 DEF Lists
    <3>2. CASE Len(items) = 0
      <4>1. least = {} BY <3>1, <3>2 DEF Elems
      <4> QED BY <2>3, <4>1, FS_EmptySet
    <3>3. CASE Len(items) = 1
      <4>1. least = {items[1]} BY <3>1, <3>3 DEF Elems
      <4>2. Cardinality({items[1]}) = 1 BY FS_Singleton
      <4> QED BY <2>3, <4>1, <4>2
    <3> QED BY <3>1, <3>2, <3>3
  <2>4. ASSUME Cardinality(least) > 1, NEW i \in least PROVE NotSo(least \ {i})
    <3>1. PICK k \in DOMAIN items : items[k] = i BY <2>4 DEF Elems
    <3> QED BY <2>2, <2>3, <2>4, <3>1 DEF NoneSpared
  <2> QED BY <2>2, <2>4 DEF StillFails
<1> QED BY <1>1, <1>2, <1>3, PTL DEF Spec

-----------------------------------------------------------------------------
(* The trees of a history all have the same files, and there is a commit   *)
(* after good.                                                             *)
SameFiles(Files, Versions) ==
  \A h \in Histories : h \in Seq([Files -> Versions]) /\ Len(h) > 1

Told(w, v) == w \in DOMAIN outcome /\ outcome[w] = v

(* good passes, the commit at hi fails, the one at lo, if any, passes.     *)
Bounds ==
  /\ ask \in {"good", "bad"} => lo = 0 /\ hi = Len(history)
  /\ ask \in {"bad", "mid", "found"} => Told(goodTree, "pass")
  /\ ask \in {"mid", "found"} =>
       /\ lo \in 0..(hi - 1) /\ hi \in 1..Len(history)
       /\ Told(history[hi], "FAIL")
       /\ lo > 0 => Told(history[lo], "pass")
  /\ ask = "mid" => hi - lo > 1
  /\ ask = "found" => hi - lo = 1

BisectInv(T) ==
  IF command = "bisect"
  THEN /\ goodTree \in T /\ src \in T
       /\ history \in Seq(T) /\ Len(history) > 0
       /\ lo \in Int /\ hi \in Int
       /\ Bounds
  ELSE ask = "good"

(* Checking out a commit with the same files gives its tree (Checkout).    *)
LEMMA CheckoutIsTree ==
  ASSUME NEW Files, NEW Versions, src \in [Files -> Versions], NEW w \in [Files -> Versions]
  PROVE Checkout(w) = w
BY DEF Checkout, Over

(* What is tested is always the tree of a commit (fails_at).               *)
LEMMA AskedIsTree ==
  ASSUME NEW T, BisectInv(T), command = "bisect", ask \in {"good", "bad", "mid"}
  PROVE Asked \in T
<1>1. CASE ask = "good"
  BY <1>1 DEF BisectInv, Asked
<1>2. CASE ask = "bad"
  BY <1>2 DEF BisectInv, Asked, bad
<1>3. CASE ask = "mid"
  <2>1. mid \in 1..Len(history)
    BY <1>3 DEF BisectInv, Bounds, mid
  <2> QED BY <1>3, <2>1 DEF BisectInv, Asked
<1> QED BY <1>1, <1>2, <1>3

(* Each answer keeps the bounds on a failing and a passing commit.         *)
LEMMA FailsAtKeeps ==
  ASSUME NEW Files, NEW Versions, BisectInv([Files -> Versions]),
         command = "bisect", command' = command, FailsAt
  PROVE BisectInv([Files -> Versions])'
<1> DEFINE T == [Files -> Versions]
<1>1. Asked \in T /\ src' = Asked
  BY AskedIsTree, CheckoutIsTree DEF FailsAt, BisectInv
<1>2. PICK verdict \in Possible(outcome, src', {"FAIL", "pass"}) :
        /\ outcome' = Learned(outcome, src', verdict)
        /\ \/ ask = "good" /\ verdict = "FAIL" /\ GoesTo("fails at good")
           \/ ask = "good" /\ verdict = "pass" /\ GoesTo("bad")
           \/ ask = "bad" /\ verdict = "pass" /\ GoesTo("passes at bad")
           \/ ask = "bad" /\ verdict = "FAIL" /\ Narrow(lo, hi)
           \/ ask = "mid" /\ verdict = "FAIL" /\ Narrow(lo, mid)
           \/ ask = "mid" /\ verdict = "pass" /\ Narrow(mid, hi)
  BY DEF FailsAt
<1>3. outcome'[src'] = verdict /\ src' \in DOMAIN outcome'
  BY <1>2 DEF Learned
<1>4. \A w, v : Told(w, v) => Told(w, v)'
  BY <1>2 DEF Told, Possible, Learned
<1>5. history' = history /\ goodTree' = goodTree
  BY DEF FailsAt
<1>6. goodTree \in T /\ history \in Seq(T) /\ Len(history) > 0 /\ lo \in Int /\ hi \in Int /\ Bounds
  BY DEF BisectInv
<1>7. CASE ask = "good" /\ (GoesTo("fails at good") \/ (verdict = "pass" /\ GoesTo("bad")))
  <2>1. ask' = "bad" => Told(goodTree, "pass")'
    BY <1>1, <1>3, <1>5, <1>7 DEF Asked, GoesTo, Told
  <2>2. Bounds'
    BY <1>5, <1>6, <1>7, <2>1 DEF Bounds, GoesTo
  <2> QED BY <1>1, <1>5, <1>6, <1>7, <2>2 DEF BisectInv, GoesTo
<1>8. CASE ask = "bad" /\ GoesTo("passes at bad")
  BY <1>1, <1>5, <1>6, <1>8 DEF BisectInv, GoesTo, Bounds
<1>9. CASE ask = "bad" /\ verdict = "FAIL" /\ Narrow(lo, hi)
  <2>1. lo = 0 /\ hi = Len(history) /\ Told(goodTree, "pass")
    BY <1>6, <1>9 DEF Bounds
  <2>2. Told(history[hi], "FAIL")' /\ Told(goodTree, "pass")'
    <3>1. src' = history'[hi']
      BY <1>1, <1>5, <1>9, <2>1 DEF Asked, bad, Narrow
    <3>2. Told(goodTree, "pass")'
      BY <1>4, <1>5, <2>1 DEF Told
    <3> QED BY <1>3, <1>9, <3>1, <3>2 DEF Told
  <2>3. Bounds'
    BY <1>5, <1>6, <1>9, <2>1, <2>2 DEF Bounds, Narrow
  <2> QED BY <1>1, <1>5, <1>6, <1>9, <2>3 DEF BisectInv, Narrow
<1>10. CASE ask = "mid"
  <2>1. /\ lo \in 0..(hi - 1) /\ hi \in 1..Len(history) /\ hi - lo > 1
        /\ Told(goodTree, "pass") /\ Told(history[hi], "FAIL")
        /\ lo > 0 => Told(history[lo], "pass")
    BY <1>6, <1>10 DEF Bounds
  <2>2. mid \in Int /\ lo < mid /\ mid < hi
    BY <2>1 DEF mid
  <2>3. Told(goodTree, "pass")' /\ history[mid] \in DOMAIN outcome' /\ outcome'[history[mid]] = verdict
    <3>1. src' = history[mid]
      BY <1>1, <1>10 DEF Asked
    <3> QED BY <1>3, <1>4, <1>5, <2>1, <3>1 DEF Told
  <2>4. CASE verdict = "FAIL" /\ Narrow(lo, mid)
    <3>1. lo' = lo /\ hi' = mid /\ ask' = IF mid - lo > 1 THEN "mid" ELSE "found"
      BY <2>4 DEF Narrow
    <3>2. Told(history[hi], "FAIL")' /\ (lo' > 0 => Told(history[lo], "pass")')
      BY <1>4, <1>5, <2>1, <2>3, <2>4, <3>1 DEF Told
    <3> QED BY <1>1, <1>5, <1>6, <2>1, <2>2, <2>3, <3>1, <3>2 DEF BisectInv, Bounds
  <2>5. CASE verdict = "pass" /\ Narrow(mid, hi)
    <3>1. lo' = mid /\ hi' = hi /\ ask' = IF hi - mid > 1 THEN "mid" ELSE "found"
      BY <2>5 DEF Narrow
    <3>2. Told(history[hi], "FAIL")' /\ (lo' > 0 => Told(history[lo], "pass")')
      BY <1>4, <1>5, <2>1, <2>3, <2>5, <3>1 DEF Told
    <3> QED BY <1>1, <1>5, <1>6, <2>1, <2>2, <2>3, <3>1, <3>2 DEF BisectInv, Bounds
  <2>6. ask # "good" /\ ask # "bad"
    BY <1>10
  <2> QED BY <1>2, <2>4, <2>5, <2>6
<1> QED BY <1>2, <1>7, <1>8, <1>9, <1>10

(* Over histories of any length, of trees with the same files, bisect      *)
(* names a commit that fails and whose predecessor passes (cmd_bisect).    *)
THEOREM FirstBad ==
  ASSUME NEW Files, NEW Versions, SameFiles(Files, Versions)
  PROVE Spec => []BlamesTheCommit
<1> DEFINE T == [Files -> Versions]
           BInv == BisectInv(T)
<1>1. Init => BInv
  <2> SUFFICES ASSUME Init PROVE BisectInv(T)
    OBVIOUS
  <2>1. CASE command # "bisect"
    BY <2>1 DEF Init, BisectInit, BisectInv
  <2>2. CASE command = "bisect"
    <3>1. PICK h \in Histories : BisectInit(h)
      BY <2>2 DEF Init, Only
    <3>2. h \in Seq(T) /\ Len(h) > 1
      BY DEF SameFiles
    <3>3. goodTree \in T /\ history \in Seq(T) /\ Len(history) > 0
      BY <3>1, <3>2 DEF BisectInit
    <3>4. src \in T /\ lo = 0 /\ hi = Len(history) /\ ask = "good"
      BY <3>1, <3>3 DEF BisectInit
    <3> QED BY <2>2, <3>3, <3>4 DEF BisectInv, Bounds
  <2> QED BY <2>1, <2>2
<1>2. BInv /\ [Next]_vars => BInv'
  <2> SUFFICES ASSUME BisectInv(T), [Next]_vars PROVE BisectInv(T)'
    OBVIOUS
  <2>1. \/ command = "bisect" /\ command' = command /\ FailsAt
        \/ command' = command /\ UNCHANGED bisectVars
    BY DEF Next, vars, In, Others
  <2>2. CASE command = "bisect" /\ command' = command /\ FailsAt
    BY <2>2, FailsAtKeeps
  <2>3. CASE command' = command /\ UNCHANGED bisectVars
    BY <2>3 DEF BisectInv, Bounds, Told, bisectVars
  <2> QED BY <2>1, <2>2, <2>3
<1>3. BInv => BlamesTheCommit
  BY DEF BisectInv, Bounds, Told, BlamesTheCommit
<1> HIDE DEF BInv
<1> QED BY <1>1, <1>2, <1>3, PTL DEF Spec

-----------------------------------------------------------------------------
AllIds == Sites \X {1, 2}
Sources == [Sites -> {1, 2}]
RowSet == [id : AllIds, result : Results, of : Sources]
CampType ==
  /\ rtl \in Sources
  /\ \A q \in DOMAIN truth : truth[q] \in Kinds
  /\ rows \in Seq(RowSet)
  /\ camp \in [at : {"idle", "run"}, todo : SUBSET AllIds, jobs : SUBSET [id : AllIds, src : Sources]]

JobIds == {j.id : j \in camp.jobs}

(* An id has a row, waits, or is being measured, and only one of these.    *)
InOnePlace ==
  /\ \A j, k \in DOMAIN rows : rows[j].id = rows[k].id => j = k
  /\ \A j, k \in camp.jobs : j.id = k.id => j = k
  /\ \A i \in RowIds : i \notin camp.todo /\ i \notin JobIds
  /\ \A i \in JobIds : i \notin camp.todo
  /\ camp.at = "run" => Ids \subseteq RowIds \cup camp.todo \cup JobIds
  /\ camp.at = "idle" => camp.todo = {} /\ camp.jobs = {}

CampInv == CampType /\ InOnePlace

(* Sites have ids of this form in every source.                            *)
LEMMA IdsAreIds == ASSUME CampType PROVE Ids \subseteq AllIds
BY DEF CampType, Ids, Id, AllIds, Sources

(* So do the rows.                                                         *)
LEMMA RowIdsAreIds == ASSUME CampType PROVE RowIds \subseteq AllIds
<1> SUFFICES ASSUME NEW i \in DOMAIN rows PROVE rows[i].id \in AllIds
  BY DEF RowIds
<1>1. rows[i] \in RowSet
  BY DEF CampType
<1> QED BY <1>1 DEF RowSet

(* What run_one returns is appended, and the job is gone (cmd_run).        *)
LEMMA RowKeeps ==
  ASSUME CampInv, NEW j \in camp.jobs,
         NEW result \in Results,
         RowWritten(j, result), UNCHANGED rtl, \A q \in DOMAIN truth' : truth'[q] \in Kinds
  PROVE CampInv'
<1> DEFINE row == [id |-> j.id, result |-> result, of |-> j.src]
<1>1. /\ rows \in Seq(RowSet)
      /\ camp \in [at : {"idle", "run"}, todo : SUBSET AllIds, jobs : SUBSET [id : AllIds, src : Sources]]
  BY DEF CampInv, CampType
<1>2. row \in RowSet
  BY <1>1 DEF RowSet
<1>3. rows' = Append(rows, row)
  BY DEF RowWritten
<1>4. /\ camp' = [at |-> camp.at, todo |-> camp.todo, jobs |-> camp.jobs \ {j}]
  BY <1>1 DEF RowWritten
<1>5. CampType'
  <2>1. rows' \in Seq(RowSet)
    BY <1>1, <1>2, <1>3
  <2>2. camp' \in [at : {"idle", "run"}, todo : SUBSET AllIds,
                   jobs : SUBSET [id : AllIds, src : Sources]]
    BY <1>1, <1>4
  <2>3. rtl' \in Sources
    BY DEF CampInv, CampType
  <2> QED BY <2>1, <2>2, <2>3 DEF CampType
<1>6. RowIds' = RowIds \cup {j.id}
  <2>1. row.id = j.id
    OBVIOUS
  <2>2. PICK new : new = row
    OBVIOUS
  <2>3. rows' = Append(rows, new) /\ new.id = j.id
    BY <1>3, <2>1, <2>2
  <2>4. DOMAIN rows' = DOMAIN rows \cup {Len(rows) + 1} /\ rows'[Len(rows) + 1] = new
        /\ \A k \in DOMAIN rows : rows'[k] = rows[k]
    BY <1>1, <2>3
  <2> QED BY <2>3, <2>4 DEF RowIds
<1>7. JobIds' = JobIds \ {j.id}
  BY <1>4 DEF JobIds, CampInv, InOnePlace
<1>8. j.id \notin RowIds /\ j.id \in JobIds /\ j.id \notin camp.todo
  BY DEF CampInv, InOnePlace, JobIds
<1>9. \A k, l \in DOMAIN rows' : rows'[k].id = rows'[l].id => k = l
  <2>1. \A k \in DOMAIN rows : rows[k].id # j.id
    BY <1>8 DEF RowIds
  <2> QED BY <1>1, <1>2, <1>3, <2>1 DEF CampInv, InOnePlace
<1>10. Ids' = Ids
  BY DEF Ids, Id
<1>11. camp.at = "run" /\ camp.jobs # {}
  BY <1>1 DEF CampInv, InOnePlace
<1>12. InOnePlace'
  BY <1>4, <1>6, <1>7, <1>8, <1>9, <1>10, <1>11 DEF CampInv, InOnePlace
<1> QED BY <1>5, <1>12 DEF CampInv

(* Learning what a mutant does moves no id.                                *)
LEMMA TruthKeeps ==
  ASSUME CampType, NEW q, NEW v \in Possible(truth, q, Kinds), truth' = Learned(truth, q, v)
  PROVE \A x \in DOMAIN truth' : truth'[x] \in Kinds
BY DEF CampType, Possible, Learned

(* Every step of the campaign, of the proofs, and of who edits between.    *)
LEMMA CampaignKeeps ==
  ASSUME CampInv, CampaignNext
  PROVE CampInv'
<1> USE DEF CampInv
<1>1. CASE EditBetween
  <2>1. PICK s \in Sites : rtl' = [rtl EXCEPT ![s] = 3 - @]
    BY <1>1 DEF EditBetween, EditSite
  <2>2. rtl' \in Sources
    BY <2>1 DEF CampType, Sources
  <2>3. camp.at = "idle" /\ UNCHANGED <<truth, rows, camp>>
    BY <1>1 DEF EditBetween, EditSite
  <2> QED BY <2>2, <2>3 DEF CampType, InOnePlace, RowIds, JobIds
<1>2. CASE CampaignRun
  <2>1. /\ camp.at = "idle" /\ camp' = [at |-> "run", todo |-> Ids \ RowIds, jobs |-> {}]
        /\ UNCHANGED <<rtl, truth, rows>>
    BY <1>2 DEF CampaignRun, Todo
  <2>2. Ids' = Ids /\ RowIds' = RowIds /\ JobIds' = {}
    BY <2>1 DEF Ids, Id, RowIds, JobIds
  <2>3. CampType'
    BY <2>1, IdsAreIds DEF CampType
  <2>4. InOnePlace'
    BY <2>1, <2>2 DEF InOnePlace
  <2> QED BY <2>3, <2>4
<1>3. CASE StartJob
  <2>1. PICK i \in camp.todo :
          camp' = [at |-> "run", todo |-> camp.todo \ {i},
                   jobs |-> camp.jobs \cup {[id |-> i, src |-> rtl]}]
    BY <1>3 DEF StartJob
  <2>2. camp.at = "run" /\ UNCHANGED <<rtl, truth, rows>>
    BY <1>3 DEF StartJob
  <2>3. i \in AllIds
    BY DEF CampType
  <2>4. CampType'
    BY <2>1, <2>2, <2>3 DEF CampType
  <2>5. Ids' = Ids /\ RowIds' = RowIds /\ JobIds' = JobIds \cup {i}
    <3>1. Ids' = Ids /\ RowIds' = RowIds
      BY <2>2 DEF Ids, Id, RowIds
    <3>2. camp'.jobs = camp.jobs \cup {[id |-> i, src |-> rtl]}
      BY <2>1
    <3>3. JobIds' = JobIds \cup {i}
      <4>1. [id |-> i, src |-> rtl].id = i
        OBVIOUS
      <4>2. JobIds' = {j.id : j \in camp'.jobs}
        BY DEF JobIds
      <4> QED BY <3>2, <4>1, <4>2 DEF JobIds
    <3> QED BY <3>1, <3>3
  <2>6. i \notin JobIds /\ i \notin RowIds
    BY DEF InOnePlace
  <2>7. \A j, k \in camp'.jobs : j.id = k.id => j = k
    BY <2>1, <2>6 DEF InOnePlace, JobIds
  <2>8. InOnePlace'
    BY <2>1, <2>2, <2>5, <2>6, <2>7 DEF InOnePlace
  <2> QED BY <2>4, <2>8
<1>4. CASE EndJob
  <2>0. PICK j \in camp.jobs : \E v \in Possible(truth, <<j.src, j.id[1]>>, Kinds) :
          /\ truth' = Learned(truth, <<j.src, j.id[1]>>, v)
          /\ RowWritten(j, IF v \in {"same", "gap"} THEN "survived" ELSE v)
    BY <1>4 DEF EndJob, Is
  <2>1. PICK v \in Possible(truth, <<j.src, j.id[1]>>, Kinds) :
          /\ truth' = Learned(truth, <<j.src, j.id[1]>>, v)
          /\ RowWritten(j, IF v \in {"same", "gap"} THEN "survived" ELSE v)
    BY <2>0
  <2>2. v \in Kinds
    BY DEF CampType, Possible
  <2>3. \A x \in DOMAIN truth' : truth'[x] \in Kinds
    BY <2>1, TruthKeeps
  <2>4. (IF v \in {"same", "gap"} THEN "survived" ELSE v) \in Results
    BY <2>2 DEF Kinds, Results
  <2>5. UNCHANGED rtl
    BY <1>4 DEF EndJob
  <2> QED BY <2>1, <2>3, <2>4, <2>5, RowKeeps
<1>5. CASE JobErrs
  <2>1. UNCHANGED rtl /\ \A x \in DOMAIN truth : truth[x] \in Kinds
    BY <1>5 DEF JobErrs, CampType
  <2>2. CASE \E j \in camp.jobs, result \in {"error", "hung"} :
               RowWritten(j, result) /\ UNCHANGED truth
    <3>1. PICK j \in camp.jobs, result \in {"error", "hung"} :
            RowWritten(j, result) /\ UNCHANGED truth
      BY <2>2
    <3>2. result \in Results
      BY DEF Results
    <3> QED BY <2>1, <3>1, <3>2, RowKeeps
  <2>3. CASE \E j \in camp.jobs : \E v \in Possible(truth, <<j.src, j.id[1]>>, Kinds) :
               /\ truth' = Learned(truth, <<j.src, j.id[1]>>, v)
               /\ \E result \in {"formal hung", "silent"} : RowWritten(j, result)
    <3>1. PICK j \in camp.jobs : \E v \in Possible(truth, <<j.src, j.id[1]>>, Kinds) :
            /\ truth' = Learned(truth, <<j.src, j.id[1]>>, v)
            /\ \E result \in {"formal hung", "silent"} : RowWritten(j, result)
      BY <2>3
    <3>2. PICK result \in {"formal hung", "silent"} : RowWritten(j, result)
      BY <3>1
    <3>3. \A x \in DOMAIN truth' : truth'[x] \in Kinds
      BY <3>1, TruthKeeps
    <3>4. result \in Results
      BY DEF Results
    <3> QED BY <2>1, <3>2, <3>3, <3>4, RowKeeps
  <2> QED BY <1>5, <2>2, <2>3 DEF JobErrs, Is
<1>6. CASE CampaignEnds \/ CampaignKilled
  <2>1. camp' = NoCamp /\ UNCHANGED <<rtl, truth, rows>>
    BY <1>6 DEF CampaignEnds, CampaignKilled
  <2>2. RowIds' = RowIds /\ JobIds' = {}
    BY <2>1 DEF RowIds, JobIds, NoCamp
  <2> QED BY <2>1, <2>2 DEF CampType, InOnePlace, NoCamp
<1>7. CASE ReportOnly \/ ProveRun \/ ProveEnds \/ ProveKilled
  <2>1. UNCHANGED <<rtl, truth, rows, camp>>
    BY <1>7 DEF ReportOnly, ProveRun, ProveEnds, ProveKilled
  <2> QED BY <2>1 DEF CampType, InOnePlace, Ids, Id, RowIds, JobIds
<1>8. CASE Prove
  <2>1. UNCHANGED <<rtl, rows, camp>>
    BY <1>8 DEF Prove
  <2>2. PICK i \in prover.todo : \E v \in Possible(truth, <<rtl, i[1]>>, Kinds) :
          truth' = Learned(truth, <<rtl, i[1]>>, v)
    BY <1>8 DEF Prove, Is
  <2>3. \A x \in DOMAIN truth' : truth'[x] \in Kinds
    BY <2>2, TruthKeeps
  <2>4. CampType'
    BY <2>1, <2>3 DEF CampType
  <2>5. Ids' = Ids /\ RowIds' = RowIds /\ JobIds' = JobIds
    BY <2>1 DEF Ids, Id, RowIds, JobIds
  <2>6. InOnePlace'
    BY <2>1, <2>5 DEF InOnePlace
  <2> QED BY <2>4, <2>6
<1> QED
  BY <1>1, <1>2, <1>3, <1>4, <1>5, <1>6, <1>7, <1>8
     DEF CampaignNext, Campaigning, Proving

(* However often a campaign is killed and resumed, with any number of      *)
(* sites and jobs, no mutant gets two rows and none is passed over         *)
(* (cmd_run).                                                              *)
THEOREM EachMeasuredOnce == Spec => []MeasuredOnce
<1>1. Init => CampInv
  <2> SUFFICES ASSUME Init PROVE CampInv
    OBVIOUS
  <2>1. rtl = [s \in Sites |-> 1] /\ truth = <<>> /\ rows = <<>> /\ camp = NoCamp
    BY DEF Init, CampInit
  <2> QED BY <2>1 DEF CampInv, CampType, InOnePlace, NoCamp, Sources, RowIds, JobIds
<1>2. CampInv /\ [Next]_vars => CampInv'
  <2> SUFFICES ASSUME CampInv, [Next]_vars PROVE CampInv'
    OBVIOUS
  <2>1. CampaignNext \/ UNCHANGED campVars
    BY DEF Next, vars, In, Others
  <2>2. CASE UNCHANGED campVars
    BY <2>2 DEF campVars, CampInv, CampType, InOnePlace, Ids, Id, RowIds, JobIds
  <2> QED BY <2>1, <2>2, CampaignKeeps
<1>3. CampInv => MeasuredOnce
  BY DEF CampInv, InOnePlace, MeasuredOnce, JobIds
<1> QED BY <1>1, <1>2, <1>3, PTL DEF Spec

-----------------------------------------------------------------------------
(* A proof of i in this source has been made: the mutant never reaches the *)
(* pins there.                                                             *)
Shown(source, i) ==
  <<source, i[1]>> \in DOMAIN truth /\ truth[<<source, i[1]>>] \in {"same", "formal"}

(* What is in the file, in the hand of the prover and in the report has    *)
(* been shown, of the source it is kept under.                             *)
ProofInv ==
  /\ prover.at \in {"idle", "run"}
  /\ \A i \in DOMAIN proofs.results : proofs.results[i] = "PROVEN" => Shown(proofs.sha, i)
  /\ prover.at = "run" =>
       \A i \in DOMAIN prover.recorded : prover.recorded[i] = "PROVEN" => Shown(rtl, i)
  /\ \A i \in summary.proven : Shown(summary.of, i)

(* Nothing that is known is forgotten.                                     *)
LEMMA ShownStays ==
  ASSUME NEW q, NEW v \in Possible(truth, q, Kinds), truth' = Learned(truth, q, v)
  PROVE \A source, i : Shown(source, i) => Shown(source, i)'
BY DEF Shown, Possible, Learned

(* record keeps earlier results only if they are of the same source.       *)
LEMMA ProveKeeps ==
  ASSUME ProofInv, Prove
  PROVE ProofInv'
<1>1. PICK i \in prover.todo : \E v \in Is(rtl, i[1]) \ {"stillborn"} :
        \E status \in {"PROVEN", "INCONCLUSIVE"} :
          /\ status = "PROVEN" => v \in {"same", "formal"}
          /\ truth' = Learned(truth, <<rtl, i[1]>>, v)
          /\ prover' = [at |-> "run", todo |-> prover.todo \ {i},
                        recorded |-> Learned(prover.recorded, i, status)]
          /\ Record(Learned(prover.recorded, i, status))
  BY DEF Prove
<1>2. PICK v \in Possible(truth, <<rtl, i[1]>>, Kinds) :
        \E status \in {"PROVEN", "INCONCLUSIVE"} :
          /\ status = "PROVEN" => v \in {"same", "formal"}
          /\ truth' = Learned(truth, <<rtl, i[1]>>, v)
          /\ prover' = [at |-> "run", todo |-> prover.todo \ {i},
                        recorded |-> Learned(prover.recorded, i, status)]
          /\ Record(Learned(prover.recorded, i, status))
  BY <1>1 DEF Is
<1>3. PICK status \in {"PROVEN", "INCONCLUSIVE"} :
          /\ status = "PROVEN" => v \in {"same", "formal"}
          /\ truth' = Learned(truth, <<rtl, i[1]>>, v)
          /\ prover' = [at |-> "run", todo |-> prover.todo \ {i},
                        recorded |-> Learned(prover.recorded, i, status)]
          /\ Record(Learned(prover.recorded, i, status))
  BY <1>2
<1>4. prover.at = "run" /\ UNCHANGED <<rtl, summary>>
  BY DEF Prove
<1> DEFINE done == Learned(prover.recorded, i, status)
<1>5. \A source, k : Shown(source, k) => Shown(source, k)'
  BY <1>2, <1>3, ShownStays
<1>6. status = "PROVEN" => Shown(rtl, i)'
  BY <1>3, <1>4 DEF Shown, Learned
<1>7. \A k \in DOMAIN done : done[k] = "PROVEN" => Shown(rtl, k)'
  BY <1>4, <1>5, <1>6 DEF ProofInv, Learned
<1>8. proofs' = [sha |-> rtl,
                 results |-> Over(done, IF proofs.sha = rtl THEN proofs.results ELSE <<>>)]
  BY <1>3 DEF Record
<1>9. prover'.at = "run" /\ prover'.recorded = done
  BY <1>3
<1> HIDE DEF done
<1>10. \A k \in DOMAIN proofs'.results : proofs'.results[k] = "PROVEN" => Shown(rtl, k)'
  BY <1>4, <1>5, <1>7, <1>8 DEF ProofInv, Over
<1>11. \A k \in summary.proven : Shown(summary.of, k)'
  BY <1>4, <1>5 DEF ProofInv
<1> QED BY <1>4, <1>7, <1>8, <1>9, <1>10, <1>11 DEF ProofInv

(* What a report says, field by field.                                     *)
LEMMA ReportSays ==
  ASSUME Reports
  PROVE \E fails \in [TieSites -> BOOLEAN] :
          /\ ties' = Over([q \in {MemV(rtl)} \X TieSites |-> fails[q[2]]], ties)
          /\ summary'.of = rtl
          /\ summary'.proven \subseteq proven_ids
          /\ summary'.rc = 0 => \A i \in Unkilled : tieoff_kill(fails, i) \/ equivalent(i)
          /\ summary'.measured =
               {s \in Sites : \E k \in DOMAIN rows :
                  /\ rows[k].id = Id(s) /\ rows[k].of = rtl
                  /\ rows[k].result \notin {"error", "hung", "formal hung"}}
<1> DEFINE surv(fails) == {i \in Unkilled : ~tieoff_kill(fails, i)}
           measured == {s \in Sites : \E k \in DOMAIN rows :
                          /\ rows[k].id = Id(s) /\ rows[k].of = rtl
                          /\ rows[k].result \notin {"error", "hung", "formal hung"}}
           proven(fails) == proven_ids \cap ({i \in surv(fails) : equivalent(i)} \cup FormalOnly)
           rc(fails) == IF \A i \in surv(fails) : equivalent(i) THEN 0 ELSE 1
<1>1. PICK fails \in [TieSites -> BOOLEAN] :
        /\ ties' = Over([q \in {MemV(rtl)} \X TieSites |-> fails[q[2]]], ties)
        /\ summary' = [rc |-> rc(fails), of |-> rtl, proven |-> proven(fails),
                       measured |-> measured]
  BY DEF Reports
<1>2. proven(fails) \subseteq proven_ids
  OBVIOUS
<1>3. rc(fails) = 0 => \A i \in Unkilled : tieoff_kill(fails, i) \/ equivalent(i)
  OBVIOUS
<1> HIDE DEF proven, rc, measured
<1>4. /\ summary'.rc = rc(fails) /\ summary'.of = rtl /\ summary'.proven = proven(fails)
      /\ summary'.measured = measured
  BY <1>1
<1> QED BY <1>1, <1>2, <1>3, <1>4 DEF measured

(* The report repeats only proofs of the present source (cmd_report).      *)
LEMMA ReportKeeps ==
  ASSUME ProofInv, Reports, UNCHANGED <<rtl, truth, proofs>>
  PROVE (\A i \in summary.proven : Shown(summary.of, i))'
<1>1. summary'.of = rtl /\ summary'.proven \subseteq proven_ids
  BY ReportSays
<1>2. \A i \in proven_ids : Shown(rtl, i)
  BY DEF proven_ids, ProofInv
<1> QED BY <1>1, <1>2 DEF Shown

(* Every step of the campaign keeps the proofs true.                       *)
LEMMA ProofsKept ==
  ASSUME ProofInv, CampaignNext
  PROVE ProofInv'
<1>1. CASE Prove
  BY <1>1, ProveKeeps
<1>2. CASE EndJob \/ JobErrs
  <2>1. \/ UNCHANGED truth
        \/ \E j \in camp.jobs : \E v \in Possible(truth, <<j.src, j.id[1]>>, Kinds) :
             truth' = Learned(truth, <<j.src, j.id[1]>>, v)
    BY <1>2 DEF EndJob, JobErrs, Is
  <2>2. \A source, i : Shown(source, i) => Shown(source, i)'
    <3>1. CASE UNCHANGED truth
      BY <3>1 DEF Shown
    <3>2. CASE \E j \in camp.jobs : \E v \in Possible(truth, <<j.src, j.id[1]>>, Kinds) :
                 truth' = Learned(truth, <<j.src, j.id[1]>>, v)
      BY <3>2, ShownStays
    <3> QED BY <2>1, <3>1, <3>2
  <2>3. UNCHANGED <<rtl, proofs, prover, summary>>
    BY <1>2 DEF EndJob, JobErrs
  <2> QED BY <2>2, <2>3 DEF ProofInv
<1>3. CASE CampaignEnds \/ ReportOnly
  <2>1. UNCHANGED <<rtl, truth, proofs, prover>> /\ Reports
    BY <1>3 DEF CampaignEnds, ReportOnly
  <2>2. (\A i \in summary.proven : Shown(summary.of, i))'
    BY <2>1, ReportKeeps
  <2> QED BY <2>1, <2>2 DEF ProofInv, Shown
<1>4. CASE EditBetween
  BY <1>4 DEF EditBetween, EditSite, ProofInv, Shown
<1>5. CASE ProveRun
  <2>1. prover'.at = "run" /\ prover'.recorded = <<>> /\ UNCHANGED <<rtl, truth, proofs, summary>>
    BY <1>5 DEF ProveRun
  <2> QED BY <2>1 DEF ProofInv, Shown
<1>6. CASE ProveEnds \/ ProveKilled
  BY <1>6 DEF ProveEnds, ProveKilled, NoProver, ProofInv, Shown
<1>7. CASE CampaignRun \/ StartJob \/ CampaignKilled
  BY <1>7 DEF CampaignRun, StartJob, CampaignKilled, ProofInv, Shown
<1> QED
  BY <1>1, <1>2, <1>3, <1>4, <1>5, <1>6, <1>7 DEF CampaignNext, Campaigning, Proving

(* Whatever was edited, undone, killed or proved before, a report calls a  *)
(* mutant proven only if that was shown of the source it reports on        *)
(* (record, proven_ids, cmd_report).                                       *)
THEOREM ProvenIsCurrent == Spec => []ProvenCurrent
<1>1. Init => ProofInv
  BY DEF Init, CampInit, NoProver, NoSummary, ProofInv
<1>2. ProofInv /\ [Next]_vars => ProofInv'
  <2> SUFFICES ASSUME ProofInv, [Next]_vars PROVE ProofInv'
    OBVIOUS
  <2>1. CampaignNext \/ UNCHANGED campVars
    BY DEF Next, vars, In, Others
  <2>2. CASE UNCHANGED campVars
    BY <2>2 DEF campVars, ProofInv, Shown
  <2> QED BY <2>1, <2>2, ProofsKept
<1>3. ProofInv => ProvenCurrent
  BY DEF ProofInv, ProvenCurrent, Shown
<1> QED BY <1>1, <1>2, <1>3, PTL DEF Spec

-----------------------------------------------------------------------------
(* What a row says of a mutant is what the gates made of it there: one     *)
(* that neither suite kills is a survivor.  An error or a time-out says    *)
(* nothing.                                                                *)
TrueRow(row) ==
  LET q == <<row.of, row.id[1]>> IN
  \/ row.result \in {"error", "hung", "formal hung"}
  \/ q \in DOMAIN truth /\ (truth[q] \in {"same", "gap"} => row.result \in {"survived", "silent"})

RowsTrue == \A k \in DOMAIN rows : TrueRow(rows[k])
RowsInv == CampInv /\ RowsTrue /\ ReportEarned

(* Every id that has a row has one that RowOf finds.                       *)
LEMMA RowFound ==
  ASSUME CampInv, NEW i \in RowIds
  PROVE \E k \in DOMAIN rows : RowOf(i) = rows[k] /\ rows[k].id = i
<1>1. PICK m \in DOMAIN rows : rows[m].id = i BY DEF RowIds
<1>2. \A j \in DOMAIN rows : rows[j].id = i => j <= m
  BY <1>1 DEF CampInv, CampType, InOnePlace
<1>3. \E k \in DOMAIN rows : rows[k].id = i /\ \A j \in DOMAIN rows : rows[j].id = i => j <= k
  BY <1>1, <1>2
<1> QED BY <1>3, Zenon DEF RowOf

(* What is learned leaves the rows and the last report as true as they     *)
(* were.                                                                   *)
LEMMA TruthGrows ==
  ASSUME NEW q, NEW v \in Possible(truth, q, Kinds), truth' = Learned(truth, q, v)
  PROVE /\ \A row : TrueRow(row) => TrueRow(row)'
        /\ q \in DOMAIN truth' /\ truth'[q] = v
        /\ ReportEarned /\ UNCHANGED <<summary, explained, ties>> => ReportEarned'
BY DEF Possible, Learned, TrueRow, ReportEarned

(* A report that ends with 0 is right about what has been measured         *)
(* (cmd_report): the row of a mutant that both suites pass is among        *)
(* Unkilled, and then the tie-off check fails on it, or it is explained.   *)
LEMMA ReportsEarn ==
  ASSUME RowsInv, Reports, UNCHANGED <<rtl, truth, explained, rows>>
  PROVE ReportEarned'
<1>1. PICK fails \in [TieSites -> BOOLEAN] :
        /\ ties' = Over([q \in {MemV(rtl)} \X TieSites |-> fails[q[2]]], ties)
        /\ summary'.of = rtl
        /\ summary'.rc = 0 => \A i \in Unkilled : tieoff_kill(fails, i) \/ equivalent(i)
        /\ summary'.measured =
             {s \in Sites : \E k \in DOMAIN rows :
                /\ rows[k].id = Id(s) /\ rows[k].of = rtl
                /\ rows[k].result \notin {"error", "hung", "formal hung"}}
  BY ReportSays
<1>2. SUFFICES ASSUME summary'.rc = 0, NEW s \in summary'.measured
      PROVE /\ <<rtl, s>> \in DOMAIN truth
            /\ truth[<<rtl, s>>] \in {"same", "gap"} =>
                 \/ <<MemV(rtl), s>> \in DOMAIN ties' /\ ties'[<<MemV(rtl), s>>]
                 \/ <<s, rtl[s]>> \in explained
  BY <1>1 DEF ReportEarned
<1>3. PICK k \in DOMAIN rows :
        /\ rows[k].id = Id(s) /\ rows[k].of = rtl
        /\ rows[k].result \notin {"error", "hung", "formal hung"}
  BY <1>1
<1>4. s \in Sites /\ Id(s)[1] = s /\ Id(s) \in Ids /\ Id(s) \in RowIds
  BY <1>1, <1>3 DEF Id, Ids, RowIds
<1>5. RowOf(Id(s)) = rows[k]
  <2>1. PICK m \in DOMAIN rows : RowOf(Id(s)) = rows[m] /\ rows[m].id = Id(s)
    BY <1>4, RowFound DEF RowsInv
  <2>2. m = k
    BY <1>3, <2>1 DEF RowsInv, CampInv, InOnePlace
  <2> QED BY <2>1, <2>2
<1>6. TrueRow(rows[k])
  BY DEF RowsInv, RowsTrue
<1>7. /\ <<rtl, s>> \in DOMAIN truth
      /\ truth[<<rtl, s>>] \in {"same", "gap"} => rows[k].result \in {"survived", "silent"}
  BY <1>3, <1>4, <1>6 DEF TrueRow
<1>8. ASSUME rows[k].result \in {"survived", "silent"}, ~equivalent(Id(s))
      PROVE <<MemV(rtl), s>> \in DOMAIN ties' /\ ties'[<<MemV(rtl), s>>]
  <2>1. Id(s) \in Unkilled
    BY <1>4, <1>5, <1>8 DEF Unkilled, With
  <2>2. s \in TieSites /\ fails[s]
    BY <1>1, <1>2, <1>4, <1>8, <2>1 DEF tieoff_kill
  <2>3. PICK new : new = [q \in {MemV(rtl)} \X TieSites |-> fails[q[2]]]
    OBVIOUS
  <2>4. <<MemV(rtl), s>> \in DOMAIN new /\ new[<<MemV(rtl), s>>] = fails[s]
    BY <2>2, <2>3
  <2>5. ties' = Over(new, ties)
    BY <1>1, <2>3
  <2>6. /\ <<MemV(rtl), s>> \in DOMAIN ties'
        /\ ties'[<<MemV(rtl), s>>] = new[<<MemV(rtl), s>>]
    BY <2>4, <2>5 DEF Over
  <2> QED BY <2>2, <2>4, <2>6
<1>9. equivalent(Id(s)) => <<s, rtl[s]>> \in explained
  BY <1>4 DEF equivalent
<1> QED BY <1>7, <1>8, <1>9

(* Every step of the campaign keeps its rows true.                         *)
LEMMA RowsKept ==
  ASSUME RowsInv, CampaignNext
  PROVE RowsInv'
<1>1. CampInv' BY CampaignKeeps DEF RowsInv
<1>2. CASE UNCHANGED <<truth, ties, rows, summary, explained>>
  BY <1>1, <1>2 DEF RowsInv, RowsTrue, TrueRow, ReportEarned
<1>3. CASE CampaignEnds \/ ReportOnly
  <2>1. Reports /\ UNCHANGED <<rtl, truth, explained, rows>>
    BY <1>3 DEF CampaignEnds, ReportOnly
  <2> QED BY <1>1, <2>1, ReportsEarn DEF RowsInv, RowsTrue, TrueRow
<1>4. ASSUME UNCHANGED <<summary, explained, ties>>, NEW j \in camp.jobs,
             NEW result \in Results, RowWritten(j, result),
             \A r : TrueRow(r) => TrueRow(r)', ReportEarned',
             \A r : r.id = j.id /\ r.of = j.src /\ r.result = result => TrueRow(r)'
      PROVE RowsInv'
  <2>1. PICK r : r = [id |-> j.id, result |-> result, of |-> j.src]
    OBVIOUS
  <2>2. TrueRow(r)'
    BY <1>4, <2>1
  <2>3. rows' = Append(rows, r)
    BY <1>4, <2>1 DEF RowWritten
  <2>4. rows \in Seq(RowSet) BY DEF RowsInv, CampInv, CampType
  <2>5. ASSUME NEW k \in DOMAIN rows' PROVE TrueRow(rows[k])'
    <3>1. CASE k \in DOMAIN rows
      <4>1. rows'[k] = rows[k] BY <2>3, <2>4, <3>1
      <4>2. PICK o : o = rows[k] OBVIOUS
      <4>3. TrueRow(o)' BY <1>4, <3>1, <4>2 DEF RowsInv, RowsTrue
      <4> QED BY <4>1, <4>2, <4>3
    <3>2. CASE k \notin DOMAIN rows
      <4>1. rows'[k] = r BY <2>3, <2>4, <3>2
      <4> QED BY <2>2, <4>1
    <3> QED BY <3>1, <3>2
  <2> QED BY <1>1, <1>4, <2>5 DEF RowsInv, RowsTrue
<1>5. ASSUME UNCHANGED <<summary, explained, ties>>, NEW j \in camp.jobs,
             NEW v \in Possible(truth, <<j.src, j.id[1]>>, Kinds),
             truth' = Learned(truth, <<j.src, j.id[1]>>, v),
             NEW result \in Results, RowWritten(j, result),
             v \in {"same", "gap"} => result \in {"survived", "silent", "formal hung"}
      PROVE RowsInv'
  <2>1. /\ \A r : TrueRow(r) => TrueRow(r)'
        /\ <<j.src, j.id[1]>> \in DOMAIN truth' /\ truth'[<<j.src, j.id[1]>>] = v
        /\ ReportEarned'
    BY <1>5, TruthGrows DEF RowsInv
  <2>2. ASSUME NEW r, r.id = j.id, r.of = j.src, r.result = result PROVE TrueRow(r)'
    BY <1>5, <2>1, <2>2 DEF TrueRow
  <2> QED BY <1>4, <1>5, <2>1, <2>2
<1>7. CASE JobErrs
  <2>1. UNCHANGED <<summary, explained, ties>> BY <1>7 DEF JobErrs
  <2>2. CASE \E j \in camp.jobs, result \in {"error", "hung"} :
               RowWritten(j, result) /\ UNCHANGED truth
    <3>1. PICK j \in camp.jobs, result \in {"error", "hung"} :
            RowWritten(j, result) /\ UNCHANGED truth
      BY <2>2
    <3>2. \A r : TrueRow(r) => TrueRow(r)' BY <3>1 DEF TrueRow
    <3>3. ReportEarned' BY <2>1, <3>1 DEF RowsInv, ReportEarned
    <3>4. \A r : r.id = j.id /\ r.of = j.src /\ r.result = result => TrueRow(r)'
      BY DEF TrueRow
    <3>5. result \in Results BY DEF Results
    <3> QED BY <1>4, <2>1, <3>1, <3>2, <3>3, <3>4, <3>5
  <2>3. CASE \E j \in camp.jobs : \E v \in Possible(truth, <<j.src, j.id[1]>>, Kinds) :
               /\ truth' = Learned(truth, <<j.src, j.id[1]>>, v)
               /\ \E result \in {"formal hung", "silent"} : RowWritten(j, result)
    <3>1. PICK j \in camp.jobs, v \in Kinds :
            /\ v \in Possible(truth, <<j.src, j.id[1]>>, Kinds)
            /\ truth' = Learned(truth, <<j.src, j.id[1]>>, v)
            /\ \E result \in {"formal hung", "silent"} : RowWritten(j, result)
      BY <2>3 DEF Possible, RowsInv, CampInv, CampType
    <3>2. PICK result \in {"formal hung", "silent"} : RowWritten(j, result)
      BY <3>1
    <3>3. result \in Results BY DEF Results
    <3> QED BY <1>5, <2>1, <3>1, <3>2, <3>3
  <2> QED BY <1>7, <2>2, <2>3 DEF JobErrs, Is
<1>8. CASE EndJob
  <2>1. UNCHANGED <<summary, explained, ties>> BY <1>8 DEF EndJob
  <2>2. PICK j \in camp.jobs : \E v \in Possible(truth, <<j.src, j.id[1]>>, Kinds) :
          /\ truth' = Learned(truth, <<j.src, j.id[1]>>, v)
          /\ RowWritten(j, IF v \in {"same", "gap"} THEN "survived" ELSE v)
    BY <1>8 DEF EndJob, Is
  <2>3. PICK v \in Possible(truth, <<j.src, j.id[1]>>, Kinds) :
          /\ truth' = Learned(truth, <<j.src, j.id[1]>>, v)
          /\ RowWritten(j, IF v \in {"same", "gap"} THEN "survived" ELSE v)
    BY <2>2
  <2>4. PICK result : result = IF v \in {"same", "gap"} THEN "survived" ELSE v
    OBVIOUS
  <2>5. result \in Results
    BY <2>4 DEF Results, Kinds, Possible, RowsInv, CampInv, CampType
  <2> QED BY <1>5, <2>1, <2>3, <2>4, <2>5
<1>6. CASE Prove
  <2>1. PICK i \in prover.todo : \E v \in Possible(truth, <<rtl, i[1]>>, Kinds) :
          truth' = Learned(truth, <<rtl, i[1]>>, v)
    BY <1>6 DEF Prove, Is
  <2>2. UNCHANGED <<rows, summary, explained, ties>> BY <1>6 DEF Prove
  <2>3. (\A r : TrueRow(r) => TrueRow(r)') /\ ReportEarned'
    BY <2>1, <2>2, TruthGrows DEF RowsInv
  <2>4. ASSUME NEW k \in DOMAIN rows' PROVE TrueRow(rows[k])'
    <3>1. PICK o : o = rows[k] OBVIOUS
    <3>2. TrueRow(o)' BY <2>2, <2>3, <3>1 DEF RowsInv, RowsTrue
    <3> QED BY <2>2, <3>1, <3>2
  <2> QED BY <1>1, <2>3, <2>4 DEF RowsInv, RowsTrue
<1> QED
  BY <1>2, <1>3, <1>6, <1>7, <1>8 DEF CampaignNext, Campaigning, Proving, EditBetween,
     EditSite, CampaignRun, StartJob, CampaignKilled, ProveRun, ProveEnds, ProveKilled

(* Whatever is edited, killed, resumed or proved between, with any number  *)
(* of sites and jobs, a report that ends with 0 leaves no survivor         *)
(* unexplained among the mutants measured in the source it reports on      *)
(* (cmd_report).  Of error rows, missing rows, time-outs and rows of an    *)
(* older source it says nothing.                                           *)
THEOREM ZeroIsEarned == Spec => []ReportEarned
<1>1. Init => RowsInv
  <2> SUFFICES ASSUME Init PROVE RowsInv OBVIOUS
  <2>1. /\ rtl = [s \in Sites |-> 1] /\ truth = <<>> /\ rows = <<>> /\ camp = NoCamp
        /\ summary = NoSummary
    BY DEF Init, CampInit
  <2>2. CampInv
    BY <2>1 DEF CampInv, CampType, InOnePlace, NoCamp, Sources, RowIds, JobIds
  <2> QED BY <2>1, <2>2 DEF RowsInv, RowsTrue, ReportEarned, NoSummary
<1>2. RowsInv /\ [Next]_vars => RowsInv'
  <2> SUFFICES ASSUME RowsInv, [Next]_vars PROVE RowsInv'
    OBVIOUS
  <2>1. CampaignNext \/ UNCHANGED campVars
    BY DEF Next, vars, In, Others
  <2>2. CASE UNCHANGED campVars
    <3>1. CampInv'
      BY <2>2 DEF campVars, RowsInv, CampInv, CampType, InOnePlace, Ids, Id, RowIds, JobIds
    <3>2. UNCHANGED <<truth, rows, summary, ties, explained>>
      BY <2>2 DEF campVars
    <3>3. RowsTrue'
      BY <3>2 DEF RowsInv, RowsTrue, TrueRow
    <3>4. ReportEarned'
      BY <3>2 DEF RowsInv, ReportEarned
    <3> QED BY <3>1, <3>3, <3>4 DEF RowsInv
  <2> QED BY <2>1, <2>2, RowsKept
<1>3. RowsInv => ReportEarned BY DEF RowsInv
<1> QED BY <1>1, <1>2, <1>3, PTL DEF Spec

-----------------------------------------------------------------------------
(* What is known of a seed.                                                *)
Did(bugs, s, c) == <<bugs, s>> \in DOMAIN does /\ does[<<bugs, s>>] = c

(* The tree and what has been seen of the seed, at each of the runs.       *)
BenchInv ==
  /\ at = "both" => tree = Planted
  /\ at = "alone" => /\ tree = Planted \ {"decoy"} /\ both # None
                     /\ Did(Planted, seed, both)
  /\ at = "decoy" => /\ tree = {"decoy"} /\ both # None
                     /\ Did(Planted, seed, both) /\ Did({"primary"}, seed, alone)
  /\ at \in {"live", "ready"} =>
       /\ Did(Planted, failure[1], failure[2])
       /\ Did({"primary"}, failure[1], failure[2])
       /\ Did({"decoy"}, failure[1], None)
  /\ at = "live" => tree = {"decoy"}
  /\ at = "ready" => /\ tree = Planted
                     /\ \E t \in 1..Seeds : \E c : Did({"decoy"}, t, c) /\ c # None

(* A run tells what the tree does with a seed, and what was known stays.   *)
LEMMA SeedRuns ==
  ASSUME NEW s, NEW c \in Outcomes(s), Runs(s, c)
  PROVE /\ \A bugs, r, b : Did(bugs, r, b) => Did(bugs, r, b)'
        /\ \A bugs : bugs = tree => Did(bugs, s, c)'
BY DEF Outcomes, Runs, Possible, Learned, Did

(* The runs that look for a live decoy contradict nothing known (RunLive). *)
LEMMA LiveKeeps ==
  ASSUME BenchInv, RunLive, at' = "ready"
  PROVE BenchInv'
<1>1. PICK s \in 1..Seeds : \E c \in Outcomes(s) \ {None} :
        /\ \A t \in 1..(s - 1) : None \in Outcomes(t)
        /\ does' = Over([k \in {<<tree, t>> : t \in 1..s} |->
                           IF k[2] = s THEN c ELSE None], does)
  BY DEF RunLive
<1>2. PICK c \in Outcomes(s) \ {None} :
        /\ \A t \in 1..(s - 1) : None \in Outcomes(t)
        /\ does' = Over([k \in {<<tree, t>> : t \in 1..s} |->
                           IF k[2] = s THEN c ELSE None], does)
  BY <1>1
<1>3. /\ at = "live" /\ tree = {"decoy"} /\ tree' = Planted /\ failure' = failure
  BY DEF RunLive, BenchInv
<1>4. PICK new : new = [k \in {<<tree, t>> : t \in 1..s} |-> IF k[2] = s THEN c ELSE None]
  OBVIOUS
<1>5. \A t \in 1..s : <<tree, t>> \in DOMAIN new /\ new[<<tree, t>>] = IF t = s THEN c ELSE None
  BY <1>4
<1>6. \A t \in 1..s : <<tree, t>> \in DOMAIN does => does[<<tree, t>>] = new[<<tree, t>>]
  <2> SUFFICES ASSUME NEW t \in 1..s, <<tree, t>> \in DOMAIN does
               PROVE does[<<tree, t>>] = new[<<tree, t>>]
    OBVIOUS
  <2>1. CASE t = s
    BY <1>2, <1>5, <2>1 DEF Outcomes, Possible
  <2>2. CASE t # s
    <3>1. t \in 1..(s - 1)
      BY <2>2
    <3>2. None \in Outcomes(t)
      BY <1>2, <3>1
    <3> QED BY <1>5, <2>2, <3>2 DEF Outcomes, Possible
  <2> QED BY <2>1, <2>2
<1>7. \A k \in DOMAIN does : k \in DOMAIN does' /\ does'[k] = does[k]
  <2> SUFFICES ASSUME NEW k \in DOMAIN does
               PROVE k \in DOMAIN does' /\ does'[k] = does[k]
    OBVIOUS
  <2>1. does' = Over(new, does)
    BY <1>2, <1>4
  <2>2. k \in DOMAIN new => new[k] = does[k]
    BY <1>4, <1>6
  <2> QED BY <2>1, <2>2 DEF Over
<1>8. s \in 1..s
  OBVIOUS
<1>9. Did({"decoy"}, s, c)'
  BY <1>2, <1>3, <1>4, <1>5, <1>8 DEF Over, Did
<1>10. \A bugs, r, b : Did(bugs, r, b) => Did(bugs, r, b)'
  BY <1>7 DEF Did
<1>11. c # None
  BY <1>2
<1>12. /\ Did(Planted, failure[1], failure[2])
       /\ Did({"primary"}, failure[1], failure[2])
       /\ Did({"decoy"}, failure[1], None)
  BY <1>3 DEF BenchInv
<1>13. /\ Did(Planted, failure[1], failure[2])'
       /\ Did({"primary"}, failure[1], failure[2])'
       /\ Did({"decoy"}, failure[1], None)'
  BY <1>3, <1>7, <1>12 DEF Did
<1> QED BY <1>3, <1>9, <1>11, <1>13 DEF BenchInv

(* Each run keeps what is known of its seed.                               *)
LEMMA BenchKeeps ==
  ASSUME BenchInv, BenchNext
  PROVE BenchInv'
<1>1. CASE RunBoth
  <2>1. at = "both" /\ tree = Planted
    BY <1>1 DEF RunBoth, BenchInv
  <2>2. PICK c \in Outcomes(seed) :
          /\ Runs(seed, c) /\ both' = c
          /\ \/ c = None /\ NextSeed /\ UNCHANGED tree
             \/ c # None /\ at' = "alone" /\ tree' = tree \ {"decoy"} /\ UNCHANGED seed
    BY <1>1 DEF RunBoth
  <2>3. CASE c = None
    BY <2>1, <2>2, <2>3 DEF NextSeed, BenchInv
  <2>4. CASE c # None
    <3>1. PICK s : s = seed
      OBVIOUS
    <3>2. Did(Planted, s, c)'
      BY <2>1, <2>2, <3>1, SeedRuns
    <3>3. seed' = s /\ both' = c /\ at' = "alone" /\ tree' = tree \ {"decoy"}
      BY <2>2, <2>4, <3>1
    <3> QED BY <2>1, <2>4, <3>2, <3>3 DEF BenchInv
  <2> QED BY <2>3, <2>4
<1>2. CASE RunAlone
  <2>1. /\ at = "alone" /\ tree = Planted \ {"decoy"} /\ both # None
        /\ Did(Planted, seed, both)
    BY <1>2 DEF RunAlone, BenchInv
  <2>2. PICK c \in Outcomes(seed) : Runs(seed, c) /\ alone' = c
    BY <1>2 DEF RunAlone
  <2>3. PICK s, b : s = seed /\ b = both
    OBVIOUS
  <2>4. tree = {"primary"}
    BY <2>1 DEF Planted
  <2>5. Did({"primary"}, s, c)' /\ Did(Planted, s, b)'
    BY <2>1, <2>2, <2>3, <2>4, SeedRuns
  <2>6. seed' = s /\ both' = b /\ at' = "decoy" /\ tree' = {"decoy"}
    BY <1>2, <2>3 DEF RunAlone
  <2> QED BY <2>1, <2>2, <2>3, <2>5, <2>6 DEF BenchInv
<1>3. CASE RunDecoy
  <2>1. /\ at = "decoy" /\ tree = {"decoy"} /\ both # None
        /\ Did(Planted, seed, both) /\ Did({"primary"}, seed, alone)
    BY <1>3 DEF RunDecoy, BenchInv
  <2>2. PICK c \in Outcomes(seed) :
          /\ Runs(seed, c)
          /\ \/ /\ Isolates(c) /\ failure' = <<seed, both>> /\ at' = "live"
                /\ tree' = {"decoy"}
             \/ NextSeed /\ tree' = Planted
    BY <1>3 DEF RunDecoy
  <2>3. CASE at' # "live"
    BY <2>1, <2>2, <2>3 DEF NextSeed, BenchInv
  <2>4. CASE at' = "live"
    <3>1. Isolates(c) /\ failure' = <<seed, both>> /\ tree' = {"decoy"}
      BY <2>2, <2>4 DEF NextSeed
    <3>2. c = None /\ alone = both
      BY <3>1 DEF Isolates
    <3>3. PICK s, b : s = seed /\ b = both
      OBVIOUS
    <3>4. Did(Planted, s, b)' /\ Did({"primary"}, s, b)' /\ Did({"decoy"}, s, None)'
      BY <2>1, <2>2, <3>2, <3>3, SeedRuns
    <3>5. failure'[1] = s /\ failure'[2] = b
      BY <3>1, <3>3
    <3> QED BY <2>4, <3>1, <3>4, <3>5 DEF BenchInv
  <2> QED BY <2>3, <2>4
<1>4. CASE RunLive
  <2>1. at' = "ready" \/ at' = "refused"
    BY <1>4 DEF RunLive
  <2> QED BY <1>4, <2>1, LiveKeeps DEF BenchInv
<1> QED BY <1>1, <1>2, <1>3, <1>4 DEF BenchNext

(* A task is ready only if the primary bug alone explains the failure it   *)
(* names, and the decoy is live (triage_bench.py's setup), for any number  *)
(* of seeds and checks.                                                    *)
THEOREM PrimaryExplains == Spec => []OnlyPrimaryExplains
<1>1. Init => BenchInv
  BY DEF Init, BenchInit, BenchInv
<1>2. BenchInv /\ [Next]_vars => BenchInv'
  <2> SUFFICES ASSUME BenchInv, [Next]_vars PROVE BenchInv'
    OBVIOUS
  <2>1. BenchNext \/ UNCHANGED benchVars
    BY DEF Next, vars, In, Others
  <2>2. CASE UNCHANGED benchVars
    BY <2>2 DEF benchVars, BenchInv, Did
  <2> QED BY <2>1, <2>2, BenchKeeps
<1>3. BenchInv => OnlyPrimaryExplains
  BY DEF BenchInv, OnlyPrimaryExplains, Did
<1> QED BY <1>1, <1>2, <1>3, PTL DEF Spec
=============================================================================
