# A TLA+ model of the protocol emulator

The repository is a small chip - a cycle-exact sequencer CPU that bit-bangs
serial protocols from firmware - with its host library, assembler, firmware
and verification scripts. This directory holds TLA+ models of it, the TLC runs
that check them and TLAPS proofs about them. Source paths are given as
`src/<path in the repository>`.

## 1. The system

| part | state it keeps | operations | interacts through |
|---|---|---|---|
| sequencer core `src/src/cpu/core.v` | FSM state, pc, ir, flag, link, boot address, echo | one clock edge; asynchronous reset | SRAM port, register file, counter, pin request |
| register file `src/src/cpu/regfile.v` | 4 bytes | one write per edge | core |
| SRAM `src/src/mem/mem.v` and macro | 1024 bytes, read port | one access per edge, write-through | core |
| cycle counter `src/src/io/cycle_counter.v` | 24-bit count | load, count down | core (DELAY, WAIT) |
| pin controller `src/src/io/pin_ctrl.v` | synchronizers, edge detectors, START latch, pin modes and levels | one clock edge | pads, core |
| host library `src/firmware/host/pe_host.py` | the generator's position, pins driven | `load`, `send`, `recv` as pin operations, with timeouts | pads only, no shared clock |
| firmware `src/firmware/protocols/*.asm`, the echo program of `src/test/test_host_loader.py` | registers and data memory | instructions | HOST_GO / HOST_STATUS, protocol pins |
| golden model `src/test/golden_model.py` | architectural state | `step`: one instruction and its cycles | compared with the RTL by the random tests |
| encoder `src/test/isa_asm.py` | none | one function per instruction | tests |
| assembler `src/firmware/isa/asm.py` | symbols, location | two passes, `.if`, cycle encodings | firmware images |
| pipeline `src/scripts/orchestrate.py`, `ledger.py` | cycle state file, open runs, ledger | start, step, complete, abort; start, gate, finish | files, killed at any point |
| sign-off `src/scripts/signoff.py` | report file | run the gates, report | git, every gate, read by the pipeline |
| mutation gate `src/scripts/mutate.py` | `src/` itself, results file | mutate, run, restore, score | `src/` in place; started by sign-off |
| triage `src/scripts/triage.py` | lock, failure record, worktree | replay, minimize, bisect a failing seed | the simulator, other sessions in the same tree |
| triage benchmark `src/scripts/triage_bench.py` | a copy of the tree | plant two bugs, find a seed for the task | the simulator |
| blind mutation `src/scripts/blind_mutate.py`, `prove_equiv.py` | rows of results, proofs with a hash of `src/` | run in parallel jobs, resume, prove, report | copies of the tree, formal tooling |
| formal tooling `src/formal/scripts/*.py` | files in a scratch directory | debug copy, synthesis, solving, verdict | one another, through the scratch directory |
| red-team evaluation `src/scripts/redteam_eval.py` | a copy of the tree, result file | gates and formal on a candidate, then its witness | formal tooling; read by the pipeline |

What is hard here: the two-byte fetch, the trailing writeback and the shared
counter overlap consecutive instructions; program and data share one memory
port and a stored word can be executed; inputs arrive without a clock; `uio[6]`
changes direction at run time; host and firmware share two level wires and no
clock; the echo that guards booting has fewer bits than the address; a load can
be abandoned anywhere. The verification pipeline keeps three records - a state
file, a ledger of agent runs and a list of cycles - and can be killed between
any two writes to them. The tools around it take hours, are killed by
time-outs, work on `src/` while nobody may edit it, resume from what an earlier
run left, and pass results by file name through directories that others use
too. `PROJECT.json` lists these hazards line by line.

What makes each part correct: the core is cycle-exact to the golden model for
every program; no program can overwrite itself through STORE below the data
region; the loader stores each byte once, at its place, and acknowledges it
afterwards; both sides never drive `uio[6]` apart; a host session delivers
every byte once and in order and ends; the pipeline's three records agree and
obey its stop rules; and whatever a tool reports - a verdict, a minimal program,
a first bad commit, STABLE, PROVEN, a surviving mutant - was earned by runs on
exactly the source it is reported of.

## 2. Modules

| module | models |
|---|---|
| `IsaDefs` | `isa_defs.v`: opcodes, fields, byte arithmetic; `Words` scales the memory |
| `CycleCounter` | `cycle_counter.v` |
| `PinCtrl` | `pin_ctrl.v` |
| `Core` | `core.v` with `regfile.v`, the SRAM, and the wiring of `top.v` |
| `Chip` | `Core` in an arbitrary environment; the refinement mapping to `Isa`; properties |
| `Isa` | the abstract specification: `golden_model.py`'s `step` with its cycle counts, and loading |
| `IsaAsm` | `isa_asm.py`; the programs of the runs are written with it |
| `Firmware` | the echo program of `test_host_loader.py` |
| `PeHost` | `pe_host.py` composed with `Core` |
| `HostSession` | properties of that composition |
| `Ledger` | `ledger.py`: open runs and `runs.jsonl` |
| `Orchestrator` | `orchestrate.py`: the cycle, its commands, and a kill at any write |
| `CycleRecords` | what the three records promise |
| `Assembler` | `asm.py`: the two passes over a source, line by line |
| `Assembly` | what a source means as a whole, and when it is well formed |
| `Answers` | what is not known beforehand and never changes, as a function from questions to answers |
| `SeedRun` | `run_seed` of `triage.py`: one seed through the simulation, under a lock |
| `Minimize` | `minimize` beside `replay` |
| `Bisect` | `bisect` |
| `TriageBench` | `setup` of `triage_bench.py` |
| `SignOff` | `signoff.py` with `mutate.py` |
| `Campaign` | `blind_mutate.py` with `prove_equiv.py` |
| `FormalRun` | `run_formal.py`, `vacuity_check.py`, `formal_common.py` and `redteam_eval.py`; the formal runs of a mutant sweep |
| `Tools` | these together, their fairness and properties |
| `MCChip`, `MCHost`, `MCCycle`, `MCAssembler`, `MCTools` | instances for TLC |
| `IsaDefsProofs`, `ChipProofs` | theorems about the chip |
| `HostProofs`, `EchoProofs` | theorems about host and chip, and with the echo firmware |
| `AssemblyProofs` | theorems about the assembler |
| `CycleProofs` | theorems about the pipeline's records |
| `ToolsProofs`, `VerdictProofs` | theorems about the tools |

`Core` extends `PinCtrl`, `CycleCounter` and `IsaDefs`, as the Verilog modules
are wired to one clock. A step `Clock(ui, uio)` is a rising edge with the given
levels on the pads; every wire of `core.v` is a state function with its name,
and the FSM has one action per arm of the `case` (`LoadStart`, `LoadByte`,
`FetchLo`, `ExecuteCommit`, ...). `Reset` is the asynchronous reset; the SRAM
survives it. `Chip` gives the pads any value at every edge, and reset at any
time. `PeHost` makes each pin operation a step of its own, so any number of
clock edges fall between two of them; driving a pin that was released is two
steps, first the direction and then the level, as in `set_uio`.

`Orchestrator` extends `Ledger` and runs one command at a time. A command works
on a copy `s` of the state file `disk`; every write (`Save`, `CloseCycle`,
`LedgerGate`, `LedgerAppend`, `LedgerUnlink`) is a step, and `Crash` can come
between any two, or leave the file being rewritten torn. The outcomes of
sign-off, gates, agents and scope checks are free, and commits are made between
commands.

`Assembler` reads one line of `source` per step in its first pass and encodes
one kept line per step in its second. A line is already split into directive or
mnemonic, name and operand, and an operand is a literal or a name. `Assembly`
defines the same without passes: `Reading` is a recursive function that gives
each line its meaning - whether it counts, and what its expression is worth -
from that of the lines before it and the block structure of the source
(`Depth`, `Opens`), and an address is the number of counted instructions before
it. The core reads a branch target from nine bits and takes it modulo `Words`
(`WAddr`), as the address lines of a smaller memory would.

The tools all ask questions whose answers the scripts cannot foresee: does this
program fail, does the suite pass on this source, does the solver find a
counterexample. Each module keeps such answers in a function (`known`,
`outcome`, `does`, `says`, `truth`, `finds`) from the question - the program,
the tree, the gate with the commit and its changes - to the answer, which is
chosen freely the first time and is the same ever after (`Answers`). Every
property then compares what a tool reports with what that function says of the
source the report names; a result that was read from the wrong file, kept under
the wrong hash or left by a killed run would differ from it.

- `SeedRun`: the record of a failure is one variable, `art`, because all runs of
  a seed use one path. `Acquire` takes the lock and removes the old record,
  `Simulate` writes a new one, `Returned` is what is then read. A run that times
  out leaves an orphan, which may still write (`subprocess.run` kills the shell
  it has started and not the simulator under it).
- `Minimize`: a program is the set of its instructions that are not NOP. The
  tests of a round are a sequence and the loop of `cmd_minimize` goes through it
  one run at a time, with a replay anywhere in between.
- `Bisect`: a tree is a function from files to versions; checking out a commit
  writes its files over what is there.
- `TriageBench`: the tree is the set of bugs planted in it. One action per
  simulation; the runs after the loop are one action.
- `SignOff`: `changes` is what distinguishes `src/` from the commit. The gates
  before mutation are named by `Gates`. `Edit`, `Commit` and `Discard` happen
  between sign-offs, so that one starts on a tree that is clean, edited, or
  still mutated.
- `Campaign`: `src/` is a function from the sites of mutants to their text, and
  an id is a site with, at some sites, the text (an edit changes the id of some
  mutants and not of others). Jobs run side by side and end in any order. The
  `result` of a row is its `status`, `sim` and `formal` together; a formal run
  that says nothing leaves the mutant a survivor (`silent`), as in `cmd_report`.
  `ties` is what the tie-off check makes of the mutants of `mem.v` (`TieSites`),
  asked whenever there is a report.
- `FormalRun`: a file is named by its directory and module or props file. Each
  write and each read of the scratch directory is a step. A mutant of a sweep
  has a directory (`Sweeps`, `FORMAL_SCRATCH`); `make prove`, `make vacuity` and
  the evaluations use the default one, one at a time (`FormalStart`), over what
  the runs before left there, which may have been killed anywhere (`Stopped`).
- `Tools`: `command` says which of the six a behaviour is about. They share the
  variables of none; the variables of the other five keep one initial value.

A pin level is the set of pins that are high; a word is a number below 65536.
An operator whose name extends that of the operator after it and that carries
the comment `fault:` is a deliberately wrong variant, used to see that the
properties notice; nothing else refers to it.

`Isa` reads the word at `pc` when the instruction completes and does everything
then. `phase` and `waited` count its cycles. The mapping (`regsBar`,
`waitedBar`, ... in `Chip`) applies a pending writeback early and turns the
down-counter into the number of cycles waited.

## 3. Runs

| run | what it shows | bounds |
|---|---|---|
| `programs` | eleven programs are cycle-exact to the golden model; the pipeline never works on a stale word; the program half of the memory is never written; no instruction stalls by itself | 8 words (4 program, 4 data), ui_in fixed, START and one protocol pin free at every edge, reset any time |
| `instructions` | every ordered pair of 26 sample instructions, at least one per opcode, and two programs that read inputs, with ui_in and a pin changing at every edge | the same memory, two values of ui_in, START held high |
| `chip_boot` | the loader with HOST_GO, START and ui_in free, over-run and simultaneous edges included | 1 word: the memory fills after two strobes |
| `host` | the host library loads an image after one load abandoned at any point; a send to firmware that never answers, or never lets go, fails, and another load recovers the chip; and send/recv three times through the echo firmware | 8 images of 1-3 bytes, memory of 32 bytes (the echo program fits); bytes {0, 65} |
| `cycle` | cycles, aborted or not, keep their records consistent and their stop rules, stay apart in the ledger, and end | 2 cycles (`Starts`), 1 seed, 0 or 1 ticket, 1 candidate, one mishap (`Mishaps`): kill, abort or commit |
| `assemble` | the assembler takes exactly the well-formed sources, and makes of them what they mean | sources up to 6 lines of conditions and up to 4 of names and data, cycle counts around every edge of their encoding, three sets of -D options, 6 words (3 program) |
| `tools` | minimize, bisect, setup, sign-off, campaign and formal runs report only what they have earned, and end | below |
| `full`, `stale_report`, `claim`, `restore` | the findings below | |

The memory is scaled because a property about addresses needs the boundary,
not the distance to it: with 1, 8 or 16 words the wrap of pc, the end of the
memory and the start of the data region are all reached. All fields keep their
real width, so all 65536 words decode as on the chip. The instruction pairs
are enough for interference since nothing an instruction leaves behind in the
pipeline lasts longer than the next FETCH_LO (`StageInv`). `Patience` (the
timeout, 10^7 cycles in reality) is a few cycles, so that "no call fails"
means the chip answers within a few cycles. `HoldCycles = 4` is the least
`hold()` promises (`pe_host.py:191`). `Interrupts` bounds abandoned loads.
Six control lines hold two nested `.if` with an `.else` and an instruction, or
an `.if` with two `.else`; four lines hold a definition, a use, and something
that can come between them.

`tools` has six kinds of behaviour, and no product of them:

- minimize: programs of 4 instructions, 3 beside a replay, and 2 beside a replay
  with one build that breaks or one run that times out (`Sessions`); every
  assignment of verdicts and hangs to all their subsets. Four instructions are
  the fewest for which a cut is refined after a piece was dropped.
- bisect: histories of 2 to 7 trees (`OneFile`), every pattern of passes and
  failures, monotone or not.
- setup: 3 seeds, 2 checks: one seed to reject, one to keep, one to show the
  decoy.
- sign-off: six mutants and one sign-off (five killed of six pass the threshold,
  four do not), and two mutants with two sign-offs, a commit, an edit, a
  time-out and an error anywhere (`TwoSignings`). One gate before mutation: the
  gates differ only in what they run.
- campaign: two sites, one of which changes its id when edited, two jobs, up to
  two runs and two proof runs with two edits (there and back), one error and
  one kill (`TwoCampaigns`); any sites explained beforehand; one site in `mem.v`.
- formal: any two (`MaxRuns`) of two candidates, `make prove`, `make vacuity` and
  a sweep's mutant, one after the other or, with the sweep's, side by side, over
  two props files. Two are enough to find the files of another run.

`restore` uses a smaller one: two mutants and a time-out.

Fairness: `WF(Tick)` - the clock runs; `WF(HostStep)` - the driver loop keeps
running the generator (`pe_host.py:104-112`). `WF(GiveUp)` - a
wait that is never answered ends (`wait_uio` tests the time in its loop).
Nothing is assumed of reset, inputs or the host's speed. `WF(Run)` - a command
that was started runs on; `SF(CmdStep)`, `SF(CmdComplete)` - the parent session
resumes a cycle and completes its ticket, whatever else it does in between
(VAL.md section 18 makes that its duty; kills are bounded by `Mishaps`).
Of the tools: weak fairness of each process of a command that was started
(simulations, suites and solvers end or are killed by the time-out of the
script that started them), and strong fairness of `SeedStep`, because the lock
may be taken by the other session again and again, and the kernel wakes who
waits (`fcntl.flock`). Nobody is made to start a command, to edit or to commit.

One ticket is enough: a completed triage ticket, accepted or rejected, halts
the cycle, and the red team works only when there was no triage, so no second
ticket is ever dispatched. It follows that `pending_halt`
(`orchestrate.py:217-218`) and the step from triage to red team (220) are never
reached, and the ticket budget matters only when it is 0. A file append is
taken to be whole; two commands never run at once; and a sign-off killed at its
timeout writes nothing more.

### Findings

- `full`: `load()` accepts 1024 bytes, but the echo of the last one is that of
  the saturated address (0xFF), while `k & 0xFF` is 0: a HostError every time. That
  the counterexample ends at the last byte shows that the echo's three earlier
  wraps do no harm.
- `stale_report`: after the two-hour timeout of `sh`, which nobody looks at, the
  report of an earlier commit decides, and can send the new one to the red team.
- `claim`: `complete_redteam` evaluates a copy of the candidate's directory, the
  author's own result included, and reads that if the evaluation leaves none.
- `restore`: `mutate.py` promises to restore `src/` unconditionally, but sign-off
  kills it at its time-out (SIGKILL, and `bash -c` has become that process), so
  no `finally` runs and the mutant stays in `src/`. `StableEarned` shows that
  nothing is signed off on it: git is asked at the start of the next sign-off.

Met while modelling, without a run of their own:

- the chip drives `uio[6]` while the host still drives START low in its second
  hold (`pe_host.py:73-75`), which `docs/architecture.md:132-133` rules out; a
  second `load()` drives `uio[6]` (`pe_host.py:58`) before it resets a chip that
  may be driving HOST_ERROR there (lines 69-70 say to stop driving it);
- `complete` killed after the ledger accepted and before the state is saved
  (`orchestrate.py:292`) is repeated without an open run, and rejects the ticket;
  `finish` appends and then unlinks (`ledger.py:286-288`), and killed in between,
  appends the run again; `abort` halts a cycle that is already done and records
  it twice (`orchestrate.py:368-374`);
- a seed run that times out leaves its simulation behind (`triage.py:75`), which
  may write its record into a later run of the seed (`OwnVerdict` and `Minimal`
  therefore say "as long as no run times out");
- `bisect` checks out a commit's files over those of the last
  (`triage.py:240`) and deletes none, so that files added or removed between
  good and bad are not those of the commit: the histories of the run, and the
  assumption `SameFiles` of the theorem, have the same files throughout. It also
  does not expect an empty list of commits;
- `record` hashes `src/` after each proof (`prove_equiv.py:254-259`): edited in
  the middle of a proof run, it would store what was proved before under the
  hash of what is there after (`EditBetween` makes edits between runs only);
- a report of `blind_mutate.py` that ends with 0 does not say that every mutant
  was measured: rows of an earlier source whose id is still the same are not
  measured again and count, rows with status `error` and ids without a row are
  not looked at, and a time-out is a kill by intention. `ReportEarned` therefore
  speaks of the mutants that have a row of the source reported on, without an
  error or a time-out (`measured`), each by itself;
- nothing keeps two evaluations, or one beside `make prove`, out of one another's
  files in the default scratch directory (`formal_common.py:51-53`,
  `redteam_eval.py:91`). `redteam/AGENT_CONTRACT.md:10` asks for one at a time, and
  `FormalStart` takes that for given;
- `mutate.py:360` compares `src/` with the index and not with the commit, so that
  a staged edit is not refused (`Dirty`); sign-off's own `dirty` notices it.

A kill in the middle of `save` leaves a state file that no command can load,
not even `start`; `CycleEnds` therefore has that alternative.

Of the assembler, `assemble` shows that its refusal of a timeout that "rounds to
0" (`asm.py:320-321`) never happens, since the finest unit is one cycle; and a
second `.else` in an `.if` is not refused, and what follows it is dropped
(`asm.py:178-180`), which `Assembly` takes for its meaning.

A related detail: `set_uio` enables the driver before it sets the level, so a
load that follows one abandoned while START was high drives START high for a
moment, into a chip that may already own the pin.

## 4. Proofs

`IsaDefsProofs` types the fields and the byte arithmetic for every word and
byte. `ChipProofs` proves over `Chip`, for every memory size, power-up content
and set of inputs:

- `TypeCorrect`: `Spec => []TypeOK`. Inductive as it stands; one lemma per part
  of a clock edge (FSM, storage, counter, pins) and one for reset.
- `PipelineCoherent`: `Spec => [](StageInv /\ FetchCoherent)`. `FetchCoherent`
  alone is not inductive: that the latched word is still in memory after an
  edge needs that only DELAY, WAIT and HALT stay in EXECUTE (`StageInv`), and
  that a halted core holds a HALT. `StageInv` in turn needs the types, for the
  arithmetic of the counter. The induction is over `PipeInv`, their conjunction.
- `NothingRunsBeforeStart`: `Spec => []LoadInv`, by induction over `PipeInv` and
  `LoadInv`: no arm of the FSM leads back into S_LOAD (a frozen core is in
  EXECUTE, by `StageInv`), and in S_LOAD the core asks the pin controller for
  HOST_STATUS only.
- `ProgramIsReadOnly`: `Spec => ProgramProtected`. Outside S_LOAD only a STORE
  writes, and `DATA_BASE + (x % Words)` is never below `DATA_BASE`.
- `StartIsReleased`: `Spec => StartReleased`. Its first half needs `LoadInv`:
  the latch that hands uio[6] over is clear all through loading.
- `StagesApart`: `Spec => []StageInv`, from the same induction.

Then `Refinement`: `Spec => ImplementsIsa`, the refinement of the golden model, over
the same invariant (`BootInv`). Initial states
map to initial states, a reset to a reset, and every edge to one step of `Isa`: a
load step, a fetch, a wait that goes on, a halt, or the commit of one of the 21
instructions, each with a lemma of its own. What takes an argument is that the
writeback pending from a LOAD lands one edge late and is mapped as if it had
landed, that `counting` reads the wait back from the down-counter, and that the
latched word of a DELAY or WAIT is the one in memory.

`HostProofs` proves over `HostSession`, for every image, list of calls and size
of the memory, and any number of edges between two steps of the host:

- `BootsInStep`, `AcksCommit`: `HSpec => []BootInStep`, `HSpec => []AckIsCommit`. The
  invariant (`FeedInv`) says where HOST_GO is on its way through synchronizer, edge
  detector, acknowledge and HOST_STATUS: `n` edges after it rose (`Rising(n)`) or
  fell (`Falling(n)`), with `n` from 0 to 4, the byte travelling with it, and the
  byte count one higher from the third edge on. It needs neither a bound on the
  timeout nor one on the hold.
- `LoadsSucceed`, `WholeImageRuns`, `NothingElseWritten`: `HSpec => []NoHostError`,
  `HSpec => WholeImage`, `HSpec => NothingBeyond`. These add the way of START
  (`StartInv`) and two hypotheses. `Timely`: a hold of at least 3 cycles and a
  timeout of at least 4 (`pe_host.py:191` holds for 500 cycles and says at
  least 4 are needed; the timeout is a second). `Short`: every image leaves a byte
  of the memory free - one that fills it fails at the last echo, see `full`.
- `HostDrivesChip`: `HSpec => Spec`, if `Chip` may see any levels: what is proved
  of `Chip` holds with the host on its pads. `HostRunsIsa` draws the conclusion
  for `ImplementsIsa`, `ProgramProtected` and `StartReleased`.

`EchoProofs` goes on with the echo firmware on the chip: `BytesEchoed`
(`HSpec => []EchoesInOrder`) and `WindowsKept` (`HSpec => []HandshakeWindows`), for any
number of sends and recvs of any bytes, any loads abandoned before them, and any
number of edges between two steps of the host. The invariant (`EchoInv`, over that
of the loads) cuts the firmware into six stretches (`AwaitsByte`, `Reads`, `Acks`,
`AwaitsRecv`, `Writes`, `Replied`) and says of each what the host can be doing, where
HOST_GO is between its flops and the core, what is in R0 and on `uo_out`, whether a
byte is owed, and - because a wait that gives up would break all this - how long
the host can have waited at this clock cycle of the firmware (`Step`). Every
instruction has a lemma for its edge. The hypotheses, beside `Short`:

- `Echoing`: the echo program is what every load sends, and the script sends and
  then receives (`test_host_loader.py:122-125`, `148-149`). A second send without a recv in
  between would be taken for the recv of the first: HOST_GO says only "go".
- `Patient`: a hold lasts 3 cycles and a timeout 12. Twelve is exact: four
  instructions of three cycles lie between a recv and its answer when HOST_GO
  rises at the worst moment, and TLC finds the error with 11.

`AssemblyProofs` proves over `Assembly`, for every source, every -D options and
every memory of up to 512 words: `ConditionsSelect`, `BranchesResolve`,
`CyclesNearest`, `ImageFetched` and `WellFormedAccepted`, that is
`Spec => []ConditionsNest` and so on for the five invariants. They follow from one
inductive invariant, `AssemblyInv` (`AssemblyInvariant`), which relates what the
passes have at line `at` to what the source means up to there:

- `StackOf`, `BlocksOf`: the .if stack is the open blocks, the outermost first,
  and a frame is active and taken as the blocks' conditions and .else say. That the
  lines counted are those with an active stack follows from the frames below.
- `NamesOf`, `KeptOf`: `consts` and `labels` are the definitions that count, each
  defined once, a label with its address; the lines kept are the counted ones in
  their order.
- `SoundTo`: nothing read so far is malformed; and what ended in an error is.
  Each refusal has a lemma that names the part of `WellFormed` it breaks.
- `WordsOK`, `DataOK`: every word so far is the encoding of its line under the
  whole source's names, every operand was in range.

The passes never compute `Reading`, so that the induction is over steps and not
over data. That `Reading` exists takes an argument all the same: a meaning of the
first `n` lines extends to the next line, and a prefix without a meaning would
have a shortest one (`ReadingExists`, with `LeastNat` from the well-founded order
of the naturals).
`CyclesNearest` compares with every encodable number: the nearest multiple of
each of the four units (1, 32, 1024, 32768 cycles), capped by the mantissa's
width, is the nearest of that unit, and the assembler takes the best of the four.

`CycleProofs` proves over `CycleRecords`, for every set of seeds, every budget,
and any number of cycles, aborts and kills: `TicketsHaveRuns`, `RunsAreApart`,
`WaitsRight`, `AcceptedRecorded`, `EndRecorded` and `StopsByTheRules`, that is
`Spec => []TicketHasRun` and so on for the six invariants. The induction is over
`RecordsInv`, in five parts: the ledger (`LedgerOK`: the ids taken are the first
ones, so that a new run never has an old id), the files (`FilesInv`: the state
file is of one of the shapes that `Shape` allows at its stage, its accepted
tickets are in `runs.jsonl`, and when it has ended it has its record), the running
command (`CommandInv`: what the copy in memory is at each write, in particular
that `unlink` comes after the append and the ticket's update after both), the
runs (`RunsInv`: those of a ticket are taken, and no two cycles share one) and
`StopRules`, of which the budget is that of each cycle (`--max-tickets`). The
invariants that the runs check are not inductive: that a torn or lost state file
leaves the ledger ahead and never behind needs all five.

`ToolsProofs` and `VerdictProofs` prove over `Tools`:

- `LockedVerdict`: `Spec => []OwnVerdict`, for any number of processes. The
  invariant (`LockInv`) is that as long as nothing timed out there are no
  orphans, whoever simulates or reads holds the lock, who simulates sees no
  record, and who reads has that of its own program or none.
- `LeastProgram`: `Spec => []Minimal`, for programs of any size. As long as nothing
  timed out (`CutInv`), what `minimize` waits for is what it asked for, every test
  of the round so far has passed, failed otherwise or does not halt, and what is
  left has failed the same check. A round ends the search only if it has as many
  pieces as there are items, and then its complements are the program without
  each single one of them (`FinestRound`, from `CutOut` about `SubSeq` and from
  the sizes of the pieces, `Sizing` and `ChunkSize`). The argument goes round by
  round, so that it needs no induction over the program.
- `FirstBad`: if all trees of a history have the same files,
  `Spec => []BlamesTheCommit`. The invariant (`BisectInv`) is that of binary
  search - good passes, `hi` fails, `lo` passes, `lo < hi` - together with: what
  is tested is a tree of the history and not a mixture (`CheckoutIsTree`).
- `EachMeasuredOnce`: `Spec => []MeasuredOnce`. The invariant (`CampInv`): an id
  is in at most one of the rows, the jobs and what is left to do.
- `ProvenIsCurrent`: `Spec => []ProvenCurrent`. What is in the file, in the hand of
  the prover and in the report has been shown of the source it is kept under.
- `PrimaryExplains`: `Spec => []OnlyPrimaryExplains`. At each of the four runs the
  tree is known, and so is what the seed did in the runs before (`BenchInv`).
- `StableIsEarned`: `Spec => []StableEarned`, for any gates and number of mutants.
  The invariant (`SignInv`) says something only of a sign-off that began on a
  clean tree and in which nothing has failed (`StillClean`): then `src/` is the
  commit but while a mutant is judged, and then it is the commit with that
  mutant; every PASS and every row is what was found there. A time-out leaves a
  mutant behind and a FAIL with it, so that the report is not STABLE; the next
  sign-off is not clean. The score needs the cardinalities of the killed and the
  survived to add up (`Parts`, `ScoreIsEarned`).
- `ZeroIsEarned`: `Spec => []ReportEarned`: of the mutants measured in the source
  reported on, 0 leaves no survivor unexplained; of the others it says nothing.
  The invariant (`RowsInv`) adds to `CampInv` that a row without error or time-out
  says what the suites do on the source the row was measured of (`RowsTrue`): one
  that neither kills is `survived` or `silent`, and so among those that the report
  wants explained or killed by the tie-off check (`ReportsEarn`).
- `EarnedVerdicts`: `Spec => []VerdictEarned`, for any number of runs. The
  invariant (`FormalInv`): no two runs under way have the same directory
  (`OneAtATime`); a run has written its own source over what it found there by
  the time it reads it (`Copied`, `Built`); and what it has found so far is what
  the solver says of that. A red-team verdict rests on gates that passed on the
  candidate's tree before; a build that fails and a run that is stopped are
  never good.

Assumed: that the constants are of their types (`WordsAssumption`,
`SramAssumption`, `UiAssumption`, `UioAssumption`, `HostAssumption`,
`AssemblerAssumption`, which also says that half the words are code and that a
branch has nine bits for its target), that operands are integers or names
(`SourcesAssumption`), that seeds have programs of some size and "hang" is no
check (`SizesAssumption`), that the seeds are finitely many and the bounds of the
pipeline numbers (`OrchestratorAssumption`), that the two sessions are processes
and their names are not that of no one (`ProcsAssumption`), that there is a gate,
none is called mutation, and the bounds are numbers (`SigningAssumption`), that the
sites of `mem.v` are sites (`SitesAssumption`), and that there is a props file and
candidates, a sweep's mutants and the other runs have different names
(`FormalAssumption`).
Hypotheses of single theorems are named with them above.

Each inductive invariant was checked by TLC on the instances of the runs as well.
With a fault put into the model the proofs fail at the lemma about the faulty
action; this was tried with a sample of faults for `CycleProofs`,
`HostProofs` (the old count echoed, a write on the level of the strobe instead
of its edge, HOLD read inverted) and `LeastProgram` (a round too few, a piece cut
one item too long, any failure taken for the same).

Left to TLC:

- liveness under fairness (`KeepsGoing`, `SessionEnds`, `CycleEnds`, `CommandEnds`), which
  the provers cannot do;
- which instances there are: that the runs' programs, sources and scripts reach the
  cases of interest, and that a fault in the model is noticed.

Every other invariant and action property of the runs is stated by a theorem.

## 5. Plan

1. Firmware on the instruction-level specification with a model of the other
   end: UART transmit/receive, I2C with clock stretching.
2. Compose the assembler with the host session: `AssemblyProofs` says where the words
   of an image are, `HostProofs` that an image arrives; a theorem over both would
   say that the chip runs what the source means.

## 6. Not modelled

- Protocol firmware (`src/firmware/protocols`): planned.
- Random stimulus and its coverage, directed tests, board models and their
  helpers (`src/test`, `src/spec_tests`): they produce inputs and compare; what they
  find is a free answer of the tools' models.
- The SystemVerilog properties (`src/formal/*.v`), which another tool checks; the
  same behaviour is stated here over the model. The rewriting of Verilog text in
  `formal_common.py`, the solver, and the miter of `prove_equiv.py` are external.
- Coverage scripts (`rtl_coverage.py`, `merge_coverage.py`, `check_tieoffs.py`): each
  reads its files once and compares them with lists in its own text; of
  `check_tieoffs.py`, `Campaign` has the verdict as a free answer. One
  thing to know of them: a partial run of `rtl_coverage.py` keeps the `.dat` files
  of earlier runs and merges them.
- The pipeline's own two-hour limit on sign-off (`orchestrate.py:135`) kills
  sign-off and leaves the `mutate.py` under it running; `Orchestrator` takes
  sign-off as one step that writes a report or none, `SignOff` is about one
  sign-off at a time.
- Benchmark cases with one bug, and scoring an answer, which compares texts.
- Electrical behaviour below one clock edge (metastability is what the two
  synchronizer flops are for; an edge simply samples some level), layout and
  timing, BIST ports of the macro.
- Text formats, command lines, the splitting of source text and the arithmetic
  of expressions in the assembler.
