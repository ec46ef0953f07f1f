# cargo-gamma in TLA+

`cargo-gamma` is a mutation tester for Rust. It copies the workspace under test,
compiles every mutant into one build behind a runtime switch, runs the test
binaries once per mutant, and reports which mutants no test notices. This
directory holds TLA+ specifications of the parts of it whose correctness depends
on the order of events: interrupts, processes, threads, retries.

All paths below are relative to `src/`.

## 1. Inventory

| Component | State it keeps | Operations | Talks to | What is hard | What makes it correct |
|---|---|---|---|---|---|
| Cancellation, `crates/cargo-gamma-unsafe/src/interrupt.rs` | 1024 atomic slots of watched groups, a count of open spawn windows, the signal received | `open`, `signal`, `close`, `claim`, `release`, `interrupt`, `sweep`, `die` | every spawn, every signal handler, through one static registry | lock-free handshake between spawners and handlers, on several threads | no child of the run outlives an interrupt; an interrupt is never lost; no signal to somebody else's group |
| Process containment, `crates/cargo-gamma-process/src/process_tree.rs` | the `Child`, its group, its slot, its cgroup or job | `prepare`, `adopt`, `observe`, `terminate`, `Drop`, `abandon` | cancellation; callers in verdict, baseline, build | ids reused after a reap; descendants that survive their leader; partial failure of a setup | kill, then release, then reap, on every way out |
| Memory accounting, `crates/cargo-gamma-unsafe/src/{cgroup,job}.rs` | cgroup leaves, a reaper process for leaves left behind | `create`, `arm`, `kill`, `usage`, removal | process containment | a leaf that is still busy when removed, a crash before removal | a leaf is removed, or left to the reaper |
| Verdict, `crates/cargo-gamma-lib/src/exec/verdict.rs` with `verdict/hubs.rs`, `progress.rs`, `stall.rs` | a pulse (counter and condition variable), the progress of both streams, deadlines | `run_binary`, `run_with`, `settle_suspicions`, `confirm_kill`, `confirm_enumeration`, `spawn_patiently` | process containment, sweep | two reader threads, a child that may exit, hang, print or be killed at any moment; retries | a kill is believed only if a test really fails because of the mutant; the wait always ends |
| Sweep, `crates/cargo-gamma-lib/src/exec/sweep.rs`, `killers.rs` | a work counter, an abandonment flag, a learning table with a condition variable, a channel of outcomes | `schedule`, `test_all`, `judge_learning`, `judge_ordered`, `probe` | verdict, census | worker threads, learning one file's killing test while others wait | every mutant gets exactly one outcome, the outcome the full test order would give |
| Census, `crates/cargo-gamma-rt/src/lib.rs`, `crates/cargo-gamma-lib/src/exec/census.rs` | per-process files of the mutants each test reached, a seal written last | guard, record, seal; read and merge | the code under test; sweep | many processes and threads of the code under test append at once; processes are killed half way | an absent or unsealed census means "run everything" |
| Build and rollback, `crates/cargo-gamma-lib/src/exec/build.rs`, `build/*` | the mutants withdrawn and abandoned, the census of recorded errors, the rounds spent, the scope of builds | `preflight`, `converge`, `isolate`, `probe`, `stage`, `finish` | scratch tree, cargo, measure | errors mask each other; several mutants fail only together; a diagnostic may name nobody; builds are narrowed and widened | it ends; nobody is convicted in company; what is judged is what was built |
| Scratch tree and session, `exec/{workspace,sync,copy,session}.rs` | a copy of the workspace, a lock, a manifest of what was spliced | sync, splice, restore, lock | build | a run killed half way leaves a spliced tree; two runs at once | the user's tree is never changed; two runs never share a tree |
| Baseline and measurement, `exec/{baseline,measure,stall,memory}.rs` | timings, memory peaks, flaky test lists | the unmutated run, budgets | verdict | budgets derived from one noisy measurement | a budget is never below what the unmutated run needed |
| Incremental adoption, `commands/run.rs`, `discover/{record,workspace_snapshot}.rs`, `exec/incremental_mode.rs` | the last run's record with a snapshot of sources and context | match, adopt, save | report, sweep | stale records | only a verdict settled by the same sources and context is adopted |
| Discovery, `discover/*`, `cargo-gamma-engine/src/{parse,ops,model}` | the list of mutants and their identities | survey, collect, identify | everything | stable identities under edits | an identity names one mutant |
| Suppression and fixing, `suppress/*`, `fix/*` | directives in sources | parse, apply, remove | discovery, commands | textual edits of user code | only the selected mutants are suppressed |
| Merge, `merge/*`, `commands/merge.rs` | reports of runs and listings; in a merged one, where each verdict and text came from | `merge`, `populations`, `sources`, `retain`, `rotation`, `rebuild` | reports, as files between machines | reports of different texts, shards and times, in any order, merged in stages; silence means gone, or not mine | the order of the arguments changes nothing; with a newest listing the merged report is true of the source |
| Reports, `report/*`, `elements/*`, `html.rs`, `ci/*`, `advise/*`, `estimate.rs`, `diag/*` | none that outlives a call, but published files | render, publish | commands | formats | out of scope here |
| Configuration and commands, `config.rs`, `cfg/*`, `commands/*`, `migrate/*`, `cargo-gamma/src/main.rs` | settings | parse, dispatch | everything | precedence | out of scope here |
| Attributes, `cargo-gamma-attrs*` | none | macro expansion | code under test | none | pass-through expansion |

## 2. Plan

Modules are written in the order in which a mistake would do harm: first what
could hurt the user's machine, then what could make a verdict wrong, then what
could make a run waste its work.

| # | Module | Of | Abstract counterpart | State |
|---|---|---|---|---|
| 1 | `Containment` | interrupts and process trees | `Cancellation` (refinement) | done, safety and refinement proved |
| 2 | `Observation` | one run of a test binary | a run is one step of `Confirmation` | done, safety proved |
| 3 | `Confirmation` | second looks at a verdict | a verdict is one step of `Sweep` | done, safety proved |
| 4 | `Sweep` | the workers and the drain | the cold sequential order (`ColdOutcome`) | done, safety proved |
| 5 | `Rollback` | converging on a build that compiles | the errors the code really holds (`world`) | done, safety proved |
| 6 | `Recorder`, `Census` | one census sample; the walk over all tests | one answer per sample: its sites, or nothing | done, safety of both proved |
| 7 | `Scratch` | the scratch tree from one run to the next | the tree is the source (`MirrorsSource`) | done, safety proved |
| 8 | `Adoption` | verdicts of an earlier run | a verdict stands for the workspace it was reached on (`ReachedOn`) | done, safety proved |
| 9 | `Leaves` | cgroup leaves and their reapers | every leaf is removed, none while in use | done, safety proved |
| 10 | `Merge` | reports of many runs made into one | the newest listing, each mutant with the last verdict on it | done, safety proved |

Composition: `Sweep` takes one run of a test binary as one step that may come to
any verdict; `Confirmation` is the inside of that step and takes one launch as
one step; `Observation` is the inside of that one and takes `ProcessTree` as
atomic; `Containment` is the inside of that. Each level assumes of the level
below only what a property there states: that a run returns (`RunReturns`), that
a verdict is one of those listed (`TypeOK`), that nothing contained survives a
run (`NothingLeaks`, `StrandedByEscapeOnly`).

`Rollback` comes before all of these in time: it settles which mutants are in the
binaries a `Sweep` then judges (`JudgedAsBuilt`).

`Recorder` is the inside of one step of `Census`, whose samples answer or are
refused; what `Census` answers is what `Sweep` takes as the binaries and tests it
need not run. `Leaves` is the memory accounting a `ProcessTree` is given. `Scratch`
comes before `Rollback` and `Adoption` before `Sweep`: the first hands over a tree
that is the source, the second takes mutants out of the population.

Every safety property a passing run checks is also a theorem, and so is the refinement. What
a proof could still add are the levels between: that the verdicts `Observation` comes to
are those `Confirmation` lets one launch come to, and likewise one level up. Today each
level restates what it assumes of the one below.

## 3. What is modelled

### Containment

Of `interrupt.rs` (`Registry`) and `process_tree.rs`, on Unix.

| State | Code |
|---|---|
| `watched`, `spawning`, `interrupted` | the fields of `Registry`, the static that spawners and handlers share |
| `proc` | the kernel: what each pid is, and whether descendants live in its group |
| `group`, `slot` | the `Child` and the slot a `ProcessTree` holds |
| `cursor`, `hand` | locals of `Registry::sweep`: the slot scanned, the group swapped out |
| `pc`, `then` | where each thread and handler is; what a thread does after its window |
| `dead` | `die` has re-raised the signal |

Each atomic operation and each system call on a group is one step: `open`,
the check for an interrupt, the spawn, `claim` (compare-and-swap, load, kill),
`close` (decrement, load, sweep, death), `observe`/`terminate` (kill, release,
reap), and in a handler the store, the load of `spawning`, and per slot the swap
and the kill. The orderings are `SeqCst` for the Dekker pair (`spawning` and
`interrupted`) and read-modify-writes for the slots, so an interleaving of steps
loses nothing. The environment forks, exits and reuses pids as it likes.

Abstracted: which of the four signals arrived; a `SIGKILL` is immediate. Left
out: descendants that leave their group with `setsid`, the cgroup and job
object, Windows. A handler is an actor beside the threads; that it runs *on* a
thread only removes interleavings.

`Cancellation` is what this promises to the rest of the program: no licence to
create a group is granted once interrupted, and the run dies with no group
settled (neither fresh in its spawner's window nor already doomed).

### Observation

Of `run_with`, `readers`, `drain`, `collected`, `cut_short` in `verdict.rs`, and
`verdict/hubs.rs`, `progress.rs`, `stall.rs`.

The waiter's actions are the steps of the loop in `run_with`: `See` (read the
generation), `Ask` (`ProcessTree::observe`), `CheckFailure`, `CheckBudgets`,
`Wait`/`WakeUp`, then `Collect` and `Judge`. A reader's are `Read`,
`EndOfStream`, `ReadFails`, and the two halves of `Pulse::signal`. A lock region
is one step. Time is two flags, the deadline has passed (`late`) and the silence
outlasts the budget (`silent`), which the clock may raise at any moment.

The harness is the environment: it writes lines, blocks on a full pipe, fails on
a closed one, forks descendants in or out of the containment, runs out of memory,
hangs, or exits, closing its descriptors before its exit is observable.
Abstracted: the parsing of lines (a line is "plain" or announces a failure), the
command line and environment, the retries of a refused spawn (which may end in a
refusal all the same).

### Confirmation

Of `run_binary`, `settle_suspicions`, `confirm_kill`, `confirm_enumeration`.

`Init` chooses a world: what the mutant makes fail, what fails without it and
whether that needs company, what a run takes in time, silence and memory, how
slow the machine is, which budgets there are and whether kills are confirmed.
`Outcomes(attempt)` is every verdict such a world allows an attempt, plus
refusals, plus up to `Noise` runs cut short for no reason. Durations are
multiples of budgets. `SecondLook` is one round of the ladder, `ConfirmKill` and
`ConfirmEnumeration` the control runs. `runs` is history.

### Sweep

Of `test_all`, `judge_learning`, `judge_ordered`, `probe` in `sweep.rs`, and
`killers.rs`.

`next`, `abandoned`, `learning` and `channel` are what the workers share;
`pc`, `index`, `role`, `learned`, `left`, `judged` are a worker's locals;
`outcome`, `killedBy`, `killers`, `reported`, `result` are written by the calling
thread alone. `Check`, `Take`, `Send`, `Abandon` are the worker's loop;
`ConsultHinted`, `ConsultFile`, `Wake`, `Teach` are `judge_learning` with its
condition variable; `Probe`, `Run`, `Exhaust` are `judge_ordered`; `Record` and
`Finish` are the drain. `evidence` is history.

Abstracted: the schedule is any permutation the configuration lists, the cold
order any injective ranking, the census the set of binaries it does not rule out
for a mutant, the 50 ms of `LEARNING_WAIT` a wait that may end at any moment.
Left out: the tally of launches, notes, a worker that panics, the killers file.

### Rollback

Of `exec/build.rs` (`preflight`, `converge`, `isolate`, `probe`, `stage`,
`finish`, `withdraw`, `settle`) and the calls `exec/measure.rs` makes of them.

| State | Code |
|---|---|
| `planned`, `withdrawn`, `abandoned`, `probed`, `census` | the plan's mutants scanned so far and the sets a build session keeps over them |
| `outcome` | the outcome written on each mutant |
| `whole`, `oracle` | `whole_workspace` and the packages whose tests may judge |
| `stage`, `build`, `built` | the loop over `discover::stages`, the command and selection being converged, `anything_live` |
| `rounds`, `suspects` | locals of `converge` and of `isolate` |
| `file`, `splices` | the file of each mutant; `Splices`: what the last `instrument` left in which file, and the withdrawals and mutants it knew of |
| `world`, `late` | environment and history: what is wrong with the code, and whether a timeout cut a build short |

One cargo run is one step. What rustc and cargo say is a set of errors: each has
the mutants it *needs* live, the mutants whose guards its spans *name*, the
package it is *in*, the *kind* of target it takes (library, test, link), and the
packages whose features *cure* it. A build raises every error its tree and
selection meet and reports some of them, or, if a proof build or a probe runs
late, none; so masking and timeouts need no state of their own. `Preflight` is
the check with its two fallbacks; `Scan`, `StageBuilt` and `StageStuck` the loop
over stages; `Probe` the build of the hinted mutants alone; `RoundPasses`,
`RoundBlames`, `RoundsRunOut`, `RoundBlamesNobody` and `RoundTimesOut` the ways a
round ends; `Pristine`, `Halve`, `RemoveItem`, `GiveUpItem` and `Convict` the
isolation of a failure that names nobody; `Finish`, `Widened` and `RunStuck` the
builds that decide the run.

The tree is not put together anew for a build: `Instrument` rewrites the files that
are `Dirty`, those of a mutant scanned or withdrawn since the last time, and all of
them when a mutant is back, and leaves every other file as it is. A dirty file gets
the live mutants of its list, and the list is of *positions* in the plan, noted when
they were scanned (`Position`, `Home`). `plan.sort()` comes between the stages and
`finish` (`Sorted`) and the positions are not noted again, so a mutant may be spliced
into a file that is not its own, or into none. `Init` chooses the file of each mutant
(`Filings`); where the stages scan the files in the order of their paths (`InOrder`)
sorting moves nothing. A mutant in a foreign file is a stray: an error needs mutants
in place, or strays (`amid`), and where two edits overlap or a guard is missing
`SpliceFails` ends the run. Mutants without an ordinal (`Idle`) have a position and are in no list.

Abstracted: the tiers by which a diagnostic is attributed (a reported error names
a set of mutants), the text of a splice, which files a compilation read
(`Dependencies`). The round counter saturates at the limit, past every
comparison made with it. Left out: the setting that tests the whole workspace, a
cargo that cannot be spawned and other I/O errors, all of which abort a run.

### Recorder

Of `cargo-gamma-rt/src/lib.rs` (`note`, `RecorderState`, `seal`, `write_reached`)
and of `sample` and `decode` in `exec/census.rs`: one test, in a process of its
own, with the programs it starts, which append to the same file.

| State | Code |
|---|---|
| `lease` | `RecorderState.value`: a count of leases, or the closed bit |
| `reached`, `overflowed` | the bitmap `REACHED`, and `OVERFLOWED` for a site past it |
| `selection` | what `ACTIVE` says to record, "none" when the handler could not be registered |
| `at`, `want`, `seen` | where each thread is in `note`, its site, the word it loaded |
| `life`, `cursor`, `file` | each process, the word its handler writes, what landed in the file |
| `sampled` | what `sample` returned |

Every atomic access is a step: the load, the exchange (which may fail for no
reason), the bit, the return of the lease; in the handler the load, the exchange
that closes the word, and each write. A process may exit with its threads still
running, end without its handler, or be killed with a write half done. `ran` is
history: what ran before a process closed its census.

Abstracted: a write is a set of records or a marker, the bitmap two words of one
site. Left out: guards of the thread that runs the handler, a mutant being
selected, and the harness's own output.

### Census

Of `take`, `walk_with` and `Census::reaching` in `exec/census.rs`. `Unlisted` and
`Listed` are the answers a binary gives when asked for its tests; `Take`, `Skip`,
`Launch`, `Attribute`, `Spoil` and `Leave` are the loop of a worker, `Map` what is
kept once all are joined; `attributed` holds, per binary, which test was seen at which site.
`reach` is the environment: what each test really reaches. Left out: how long each test took, and the interning of equal sets.

### Scratch

Of `exec/workspace.rs` (`prepare`, `overwrite`, `settle`, `teardown`),
`exec/sync.rs` and `exec/copy.rs`.

| State | Code |
|---|---|
| `source`, `outside` | the user's workspace, and what a link in it leads to |
| `exists`, `tree`, `sentinel` | the scratch tree and `.gamma-sync-ok` |
| `built`, `fresh`, `aged` | Cargo's artifacts: what each was made from, whether its source looks no newer, and whether a full copy is why |
| `leftover` | history: what this run failed to remove before its full copy |
| `pc`, `todo`, `expected`, `settled` | how far the run is; `collect_source_entries`; `Workspace.settled` |

`SyncOrCopy` chooses between the full copy, clearing first, and the delta sync;
`CopyEntry` and `SyncEntry` take the entries in any order, as the parallel walk
does; `SyncDir`, `SyncSymlink` and `SyncFile` are the three arms of the sync, with
what `exists` and `is_dir` answer through a link; `RemoveStale`, `MarkConsistent`
and the two failures follow. A synchronisation that fails removes the tree, as far as
it can, and copies over what is left (`SyncFails`); a file is then written over, a
directory taken as it is, and a file that git tracks and an ignore rule hides
(`Hidden`) passed when it is there (`Passed`). What a synchronisation copies is dated
(`Written`); what a full copy copies may keep the date of the source (`CopyFile`,
`Undated`). `Overwrite` writes a splice or the original back;
`Build` is Cargo, which goes by time. `Kill` ends a run anywhere.

Abstracted: a file's content is a version or a splice, a path has one directory
above it at most. The lock is that runs come one after the other. Left out: the
anchoring of manifests, vendored sources, what of version control is copied,
ignore rules.

### Adoption

Of `discover/record.rs`, `discover/workspace_snapshot.rs`, the scan for tests of
`discover/killers.rs`, and what `commands/run.rs` does with them.

| State | Code |
|---|---|
| `tree`, `clock` | the workspace: text and modification time of each file |
| `record` | `target/gamma/last-run.json`: context, snapshot, an entry per mutant |
| `context`, `full`, `selected` | the digest of flags and toolchain, `--incremental`, the population |
| `killers`, `inputs`, `complete` | the scan's digests, the snapshot taken, whether it is complete |
| `adopted`, `copied`, `verdicts` | what was adopted, the scratch tree file by file, what the run holds |

`Survey`, `Capture`, `Adopt`, `CopyFile`, `Sweep`, `Draft`, `Store` and `Refuse`
are the order of `run`; the user may edit a file between any two of them. Each
verdict carries, as history, the texts and the context it was really reached on.
Judging may come to anything for each mutant. The two gaps the code accepts (a
filesystem clock too coarse to tell two writes apart, a platform without
modification times) are outside: every write advances the clock.

Left out: mutants that are ignored, probes for flaky tests and hints, the encoding
of the file and its digests.

### Leaves

Of `cgroup.rs`: `create`, `arm` and `drop` of a leaf, `reap_owned_leaves` in
`discover` and in `reaper_loop`. A member of `Procs` is one incarnation of
cargo-gamma, `PidOf` the pid it runs under, so a pid can come back. The mutex is
`creating` where it is held across a system call, and one step elsewhere. `Look`
reads one entry of the directory and decides; `Remove` is the `rmdir` after it; `Believe`
is what the reaper's loop makes of a scan that came to its end.
Processes in a leaf, and cargo-gamma itself, end when they like. Left out: the
delegation of the controller, name collisions, the ceiling and the peak.

### Merge

Of `merge/union.rs`, `collect_reports` and `merge_at` of `commands/merge.rs`, and what
makes a report: `Survey::scan`, `elements::build`, `emit_reports`, `write_population`.

| State | Code |
|---|---|
| `version`, `rewrites` | the source, one file of it, and how often the user edited it |
| `flight` | runs and listings that have surveyed it and not reported |
| `reports` | report files: path, `started_at`, shard, `merged`, source, mutants, `MergeProvenance` |
| `answer` | what `merge` returned, and for which reports |

`Start` surveys, `Publish` writes the report; the time and the text in it are read
then, as the code does, so an edit may fall between. `Higher`, `Outranks`, `Complete`,
`Selected`, `Withdraws`, `Retain`, `Rotation` are the functions of the same purpose,
and `Union` is `merge`; `Newest` and `Latest` go through the reports in their order, one
after the other, as its loops do. Ranks compare a time, a path and a hash, and hashes of
different statuses differ (`MergeAssumption`): what two equal blake3 hashes would do is
outside. `Keep` is `rebuild`:
the merged report is put among the others and may be merged again. A verdict of a run
is any status but Pending. `narrow`, whether a run was over a diff, is history. Left
out: the window of freshness and other figures counted from the statuses, documents
`read` refuses, mutants a sharded run adopted or suppressed, which it lists whatever its
shard, and where in the text a mutant is shown.

## 4. What is checked

Ten runs pass and two refute something the documents or the comments say.

| Run | Instance | What it shows |
|---|---|---|
| `ContainmentHolds` | 2 threads, 2 signals, 2 pids, 1 slot | Watched ids are pinned; nothing leaks at a reap; no child that was handed over outlives the process but in the hand of a sweep; a living child out of its window is reachable; nobody unregisters another's child; `Cancellation` is implemented; an interrupt ends the run |
| `ObservationDirect` | 1 stream, 2 lines, a pipe of 1, kept text of 1, with and without deadline | No wakeup is lost; an unnamed kill on whole text had no name; a green suite fails only on a lost stream; only an escapee strands a reader; the run returns |
| `ConfirmationJudges` | 2 tests, factor 3, 2 rounds, 2 disturbed runs, demands 1, 2, 4 | Detections are controlled; one overrun convicts nobody; a red suite convicts nobody; a quiet machine judges right |
| `SweepHolds` | 3 mutants, 2 files, 2 workers, 2 binaries; any of 3 verdicts per run, or one of 16 suites that repeat themselves; hints and census | Every mutant once; outcomes rest on that mutant's runs; racing and learning move no score; the sweep returns |
| `RollbackConverges` | 4 packages, 5 mutants in 3 items, one of them without an ordinal, 2 filings, pairs of some forty errors, limits 2 and 6, 3 oracles | Nobody is convicted in company; what is judged is what was built; a tree that compiles only whole is built whole; one error costs one item; the rollback ends |
| `RollbackPlaced` | the same | refutes `EveryPendingIsPlaced` |
| `CensusSamples` | one sample: a test with 2 threads, a child with 1, 1 guard each, a bitmap of 2 words, a site past it, 1 lease at a time; or the walk: binaries of 3, 1 and 0 tests, 1 site, 2 workers | A seal vouches for what ran before it; a closed bitmap is final; the exit handler ends; what is said of a binary is exact |
| `ScratchReuse` | a file, a directory and a hidden file in it, which may change kind; 2 versions, 1 splice, 3 runs, 1 edit | A run starts from a tree that is the source, but for what it could not remove; Cargo takes nothing stale for it, but what nobody dated; preparing ends |
| `ScratchLinks` | the same with a directory that may be a link; 2 runs, 2 edits | refutes `SourceUntouched` |
| `AdoptionBinds` | 2 packages, one compiled against the other, 2 mutants, 1 test an edit can delete, 2 texts, 2 test selections, 2 runs, 2 edits | The record is bound to what it was reached on; what is adopted was judged on this workspace; narrow runs accumulate |
| `LeavesReap` | 3 incarnations, 2 of them under one pid, 2 leaves | A leaf in use stands; one given up on is reaped; a dead process's leaves are reaped |
| `MergeHolds` | 2 mutants, 2 texts, 1 rewrite, 2 reports and a merged one, 2 paths, 2 seconds, 3 statuses, rotations of 2 and 3 | The order of reports changes no answer; with a newest listing the merged report holds what that lists, each mutant with its last verdict and that verdict's age |

Why the bounds are enough. Two threads and two signals give every pair of
actors the handshake is about, and two pids let an id be reused by one thread
while the other still has it in hand. One slot is the smallest registry that can
be full, and one that a sweep can free under a claim; what larger registries
could add is covered by the theorems, which hold for any capacity. A pipe and a
text of one line are full after one line, and the second overflows them. That a
run under nextest pipes two streams adds a second reader: the theorems hold for
any set of streams and either way of running. A demand of 1 fits its budget, 2
only the loosened one, 4 neither; two disturbed runs are what it takes to convict
a harmless mutant. Three mutants over two files give one file a learner and a
sibling while the other is judged alone. Four live mutants in three items give the
halving an odd set, an item of two and a package that uses another; two errors
at once are what masking, and an interaction that hides another, take; a limit of
2 runs out and one of 6 cannot; one filing is in the order the stages scan, the
other is not, and a mutant without an ordinal shifts the positions behind it. Two threads of one process and one of another give
the seal a guard to race and a foreign block to meet; a word that counts one lease
is the smallest that is full, and a thread's one guard may start before, during
or after the seal. Three tests over two workers let one be refused while another is
attributed and a third not yet taken. Three runs are one that leaves a tree, one
killed while it repairs it, and one that finds that; a path that is a file in one
version and a directory in the next is every change of kind. Two runs and two
edits are an edit and its revert, before, between or during them; an edit of the
dependency, of the dependent or of the test file. A pid that comes back needs two
incarnations under it, and the reaper of neither needs a third, which only scans. Two reports and a merged one are
an older verdict, a newer listing and what an earlier merge made of both; two
paths and two seconds let them tie in either or in both.

The caps on deliveries, pids, lines, noise and rounds are constants
(`Deliveries`, `Pids`, `Lines`, `Noise`, `CONFIRM_ROUNDS`), the last of them the
code's own; so are those on guards (`Notes`), runs and edits (`Runs`, `Edits`,
`MaxRuns`, `MaxEdits`), and those on the reports (`MaxFlight`, `MaxReports`, `MaxMerged`,
`MaxClock`). Deadlock is not checked anywhere: each of these systems really
stops (the process dies, the run returns, the verdict is reached, the sweep
ends, the runs and edits of the bounds are used up). That they stop only there is what the liveness properties say.

### Fairness

* `ContainmentHolds`: weak fairness of each step of a thread inside the
  protocol and of a handler that was entered. None for spawning, for a child's
  exit or for the delivery of a signal.
* `ObservationDirect`: weak fairness of the waiter, of each reader, of the clock
  and of an exit under way. The workload may hang for ever; without a deadline
  the run is only promised to return once the workload has exited.
* `SweepHolds`: weak fairness of each worker and of the calling thread. A run of
  a binary ends (`RunReturns`, given a deadline) and the wait for a learner is
  bounded, so a worker that can step does.
* `RollbackConverges`: weak fairness of the one thread there is; a cargo run ends
  by itself or by its timeout.

* `CensusSamples`: weak fairness of giving a lease back and of each step of an
  exit handler. None for running a guard, so it is promised only that the handler
  ends when guards are not run for ever; and a process may be killed at any moment.
  None for the walk, of which nothing is promised but what it answers.
* `ScratchReuse`: weak fairness of `Prepare`, the run's own thread.
* `LeavesReap`: weak fairness of a scan under way or due (the reaper's thread
  wakes every 100 ms) and of whoever holds the mutex. The leads-to properties ask
  that the reaper's thread could be started and that its process lives on.

### What was refuted

| Run | Claim | What happens |
|---|---|---|
| `ScratchLinks` | `README.md:141`: the original source code is not changed, all work happens on copied state; `sync.rs:224`: a non-directory where a directory should be is replaced | a link to a directory outside the tree, copied as a link, became a real directory in the workspace; `exists` and `is_dir` look through the old link, so it stays, and the directory's files are written through it over the user's |
| `RollbackPlaced` | `splices.rs:133`: a live mutant with no guard would be recorded as a survivor, so the invariant is checked rather than assumed | the stages scan one file before another that precedes it in the report's order; the plan is sorted, the positions noted are not, and when the last build withdraws a mutant its file is spliced from what is at those positions now; the mutants that were there stay Pending and are in no binary. The check looks only at the list just made |

### Noticed

Described without a run of their own. In the containment: a thread may re-raise
while a child exists that nothing was told about (`interrupt.rs:30` says it never
does), because `close` settles who is last before it reads the signal
(`interrupt.rs:138`); the group a sweep has taken out of the registry may be
unkilled when another actor sweeps the emptied registry and ends the process
(`interrupt.rs:414`), and its id may be reused meanwhile (`interrupt.rs:155`).

In one run: the exit path names a failure from the handed-back text only, which
may be late or cut at the cap, so the order of a published failure and an exit
does decide whether the name is kept (`verdict.rs:785`, against `verdict.rs:939`);
a reader that cannot be started closes the pipe under a healthy suite, which then
fails to write (`verdict.rs:1184`, against `verdict.rs:717`); an exit is visible on
the pipe before it is to `waitid`, so a waiter can sleep its whole cap after the
last signal.

In the confirmation: every second look loosens one budget only, so a machine twice
as slow alternates between timeout and stall until the rounds are over
(`verdict.rs:383`, against `verdict.rs:503`); the control of a named failure runs
that test alone, so a test that fails only in company is credited to the mutant
(`verdict.rs:404`).

In the sweep: a first binary that is flaky excludes the mutant in a cold run and
not in a hinted one (`sweep.rs:522` says no score moves); a learner that finds
nothing writes `Exhausted` over a killer that a hinted worker published meanwhile
(`sweep.rs:763`), which costs an order and no verdict.

In the rollback: a stage builds a narrower selection than the preflight checked,
and may meet an error of the tree that another member's features cured
(`build.rs:981`, against `build.rs:799`); `docs/DESIGN.md:372` calls a diagnostic
that cannot be attributed a hard error, where `converge` isolates it and goes on; a
round that isolates does not ask the limit of `--rollback-rounds` (`build.rs:187`);
two interactions of mutants that both fail silently defeat the isolation, and the
whole population of the build is given up on; sorting the plan under the positions of
`Splices` (`measure.rs:392`, `splices.rs:99`) is the run `RollbackPlaced`, and everything
said of trees here is said of plans whose files were scanned in order (`InOrder`).

In the census: a program a test starts that never seals leaves nothing in the
file, so its sites are missing from a sample its parent's seal vouches for;
`SealVouches` speaks of the process that sealed.

In the scratch tree: a full copy into a missing root does not clear a sentinel
that outlived it (harmless, since a sync compares everything); a changed file that
is read-only cannot be dated, which fails the sync and costs a full copy. When a sync
has failed, a removal that fails as well is not looked at (`sync.rs:86`, where
`sync.rs:69` looks), although what fails the one may fail the other (`remove_stale`,
`sync.rs:454`): the copy goes over what is left and the tree is marked consistent, so a
file the user has deleted, or one that git tracks and an ignore rule hides
(`copy.rs:220`), stays as an earlier run left it; `MirrorsSource` excepts exactly these.
The `fs::copy` that a full copy falls back on is not freshened (`copy.rs:412`), nor is a
clone whose stamping fails (`copy.rs:434`). Where `fs::copy` keeps the date of the
source, as on Windows and macOS, a full copy beside a build directory that survived
holds sources older than the artifacts, and Cargo takes what an earlier run spliced for
what is there; `NeverStaleBuild` excepts the files so dated, until they are written again.

In the adoption: adopting takes only the outcome of an entry (`survey.rs:593`), so an
adopted kill is recorded again without its killing test (`record.rs:830`), which
`still_killed` requires (`record.rs:1022`), and is tested again every second run
(`run.rs:909` says an adopted cache is preserved); the record is read before the scratch lock is taken;
`README.md:1526` says a run adopts by default only what cannot move a score, where
the default is full (`run.rs:659`). In the leaves: in another pid namespace `/proc` does not show a
live creator, and a leaf between its creation and its child's arrival can be
removed (`cgroup.rs:190`; `LeftBehindProofs` states the hypothesis as `Visible`).

In the merge: a run over a diff writes a report without a shard that lists only the
mutants touched (`survey.rs:578`), where `union.rs:237` says an unsharded report lists
every mutant of the files it covers, so as the newest input it withdraws living ones;
`ListingMakesItTrue` asks for a report that is not one. A file without mutants is in no
report (`elements/report.rs:443`), so a listing never withdraws those of a file that was
emptied or deleted (`README.md:1777`). Once a file was edited, a merge of shards alone
counts the verdicts over its older text as incompatible (`README.md:1762` says that
coverage accumulates whoever edits a file). `started_at` is the time the report was
written (`run.rs:99`; `elements/report.rs:76` says when the run started). Every candidate
of a file has the rank of the selected source, so `retain` keeps the first presentation
that fits, in the order of the arguments; positions may then depend on that order when a
run's text was edited under it. A merge of merges can bring back a verdict older than one
that an earlier stage dropped as incompatible.

## 5. What is proved

TLAPS checks these for every value of the constants, from the named assumption
of each module and nothing else.

* `ContainmentProofs`. `IInv` is `TypeOK`, who owns which group (`Ownership`),
  which slot holds it (`SlotDiscipline`), that an adopted living child is in its
  slot or in a sweep's hand (`Reach`), what a sweep has left behind its cursor
  (`SweepDone`), that `spawning` counts the open windows (`WindowCount`) and that
  a dying handler has none beside it (`HandlerAlone`). None of the safety
  properties is inductive alone: that a handler dies last needs the count, the
  count needs the windows' labels, and that a sweep misses nobody needs that a
  claim behind the cursor will see the signal. Proved: `TypeOK`,
  `WatchedIsPinned`, `NothingLeaks`, `RunningIsReachable`,
  `SettledNeverOrphaned`, `HandlerDiesLast`, `RegistrationKept`; and that every step
  of the registry, the windows and the process trees is a step of `Cancellation` or a
  stutter (`ImplementsCancellation`): no permission to spawn once interrupted, and no
  death with a group settled. That the registry and the count amount to this is what
  the same invariant says.
* `ObservationProofs`. Four invariants, each on top of the one before: a failure
  on its way has a reader before its signal (`Heard`, `Signalled`); who can hold
  a pipe at each stage (`Held`); a green suite writes no failure and exits well
  unless a stream is lost (`Green`); a failure that was said is in the pipe, in
  kept text, or marked as cut (`Accounted`). Proved: `TypeOK`,
  `AnnouncedFailureWakes`, `StrandedByEscapeOnly`, `GreenFailsOnlyUnread`,
  `UnnamedIsUnannounced`.
* `ConfirmationProofs`. `IInv` ties the number of runs to the place in the
  ladder (`Ladder`), the suspicion in hand to what was spent on it (`Spent`), and
  the name of a failure to the red suite (`RedNamed`). On a machine that interferes
  with nothing, `OnlyTruth` adds that the verdict in hand is the mutant's own or a
  suspicion that one more look will clear. Proved: `TypeOK`, `Controlled`,
  `OneOverrunConvictsNobody`, `RedSuiteConvictsNobody`, `QuietMachineJudgesRight`.
* `SweepProofs`. A mutant is with one worker, or its verdict is on the way, or
  recorded, or it is yet to be taken, never two of these (`Exclusive`) and never
  none unless its worker could not meter it (`Accounted`, `Ended`); so nobody else
  touches the runs of a mutant a worker holds (`Alone`), and every judgement in
  hand, sent or recorded rests on them (`Grounded`); and a run came to what the
  suite allows (`Genuine`), which with `OutcomesRestOnRuns` is why the order moves
  no score. Proved: `TypeOK`, `EveryMutantOnce`, `OutcomesRestOnRuns`,
  `LearningIsHonest`, `ScoreIsOrderFree`: all of the module's safety.
* `RollbackProofs`. `IInv` has two parts. Of every plan: that the compiler's verdicts
  are written only at the end (`Undecided`), that a wide tree's builds are of the whole
  workspace (`Wide`), who is suspected and on what record. Of a plan scanned in order
  (`Orderly`): that every `instrument` leaves in the tree what it knew of and had not
  withdrawn, each mutant in its own file (`Tidy`), though it rewrote only dirty files;
  that every round of a build but its last withdrew somebody (`Budgeted`); and that
  the suspects of an isolation fail by themselves and the tree without the build's
  own mutants does not (`Narrowing`, whence the last suspect is needed alone).
  `PositionsStand` says that sorting moves nothing, `InstrumentHolds` that from a
  `Tidy` tree the next one is `Holding` the mutants asked for, whichever files were
  dirty; from there on the argument is about sets of mutants. `Losses` lists the ways a
  mutant can leave the tree; most of the argument is a case for each. Proved:
  `TypeOK`, `ConvictedAlone`, `JudgedAsBuilt`, `WideTreeBlamesMutants`,
  `AccusedStand`, `OneErrorCostsOneItem`. For the last, `Laid` says which mutants the
  stages so far have put in the tree, and `Cheap` that the one error has cost nothing
  yet (`Unpaid`: every stage that was built could not have raised it) or its price is
  paid and it is gone (`Paid`). Its premise that no feature cures the error is needed:
  with the stages `<<{p, s}, {q}>>` and an error in `p` that `s` cures, the build of
  `q` alone fails where no mutant of its own is to blame, and loses them all.
* `RecordsProofs`, of the record a run adopts from. `IInv` adds to `TypeOK` that equal times mean equal texts
  between a snapshot and the workspace it was taken of (`SnapshotIsPast`), that the
  scratch tree is the snapshot as long as the workspace still is
  (`CopiesAreFaithful`), and that what a run holds was reached on what it says
  (`VerdictsAreGrounded`). The record stays bound because `Store` looks again
  before it writes; without the times a revert would defeat it. Proved: `TypeOK`,
  `RecordIsBound`, `AdoptedWasJudgedHere`, and the action property
  `NarrowRunsAccumulate`.
  Of the merge, that ranks are in one line (`RanksInLine`, `VerdictsInLine`) and what a
  pass over the reports keeps is one that no other outranks (`NewestIs`, `LatestIs`), so
  of two orders both keep it, or one that cannot be told from it (`OneAnswer`).
  `MergeInv` says that an answer is that of some arguments and that every verdict,
  however often merged, is that of a run (`Descended`). Proved: its types, `OrderFree`,
  `ListingMakesItTrue`. The second comes down to `ListingDecides`: a listing no argument
  is newer than is the population and gives the text, so it withdraws what it does not
  list and nothing it does.
* `LeftBehindProofs`. Of the leaves: one in use exists and is under the mutex or
  registered (`Protected`), what a scan is about to remove is not in use (`Condemned`),
  and only the living use leaves (`OfTheLiving`). Proved: `TypeOK`, and
  `LiveLeafStands` for processes that see each other (`Visible`). Of the scratch tree:
  while a run prepares, what is not on the list of paths left to do is as the source has
  it (`MirrorInv`), but for what could not be removed, and an artifact that Cargo would take
  is of the file as it is, unless a copy aged the file (`Dated`). Proved: `NeverStaleBuild`, and, as long as no path is ever both a link and
  a directory (`LinksAside`), `MirrorsSource` and `SourceUntouched`. Without that
  hypothesis the second is false: the run `ScratchLinks` refutes it.
* `CensusProofs`, of one sample. The lease word is the number of threads that hold a lease, and
  nobody holds one once it is sealed (`Counted`, which is why a handler that finds
  it 0 has the bitmap to itself); how far a process is says what it has (`Staged`);
  what ran is in the bitmap, beyond it, or about to be marked by a holder (`Noted`);
  what a handler's cursor has passed is in the file (`Written`); seals and sealed
  processes are one to one (`OneSealEach`); and a sample is believed as the file
  says when all has ended (`Believed`). Proved: `TypeOK`, `SealVouches`, and the
  action property `ClosedBitmapIsFinal`. Of the walk: every place of the queue is one
  test of one binary (`PlaceOf`, from what `Offsets` adds up); a place that was taken is
  seen to its end, or its binary is spoiled, or a worker is at it (`NothingMissed`); and
  what is attributed is reached (`Truthful`). Proved: `CensusTypeOK`, `ReachingIsExact`.

Three definitions are recursive functions: `Offsets`, `Newest` and `Latest`. That each
has its equation for every number of binaries or reports is proved, by a least number for
which it would not (`StartsExist`, `NewestUpToExists`, `LatestUpToExists`), and so is what
they compute; no induction theorem of the library is used for it.

Hypotheses beyond the named assumptions: `Visible` and `LinksAside`, above, and
`InOrder`, which `ConvictedAlone`, `OneErrorCostsOneItem` and the second half of
`JudgedAsBuilt` carry in themselves. The first two are about the world the tool runs in,
the third about the order of its stages; the code checks none of them. Without the first two
the property is false, and without the third so is that half of `JudgedAsBuilt`.

Only model-checked is liveness (`InterruptEndsRun`, `RunReturns`, `SweepReturns`,
`RunEnds`, `SealEnds`, `PrepareEnds`, `AbandonedIsReaped`,
`StaleIsReaped`): what a fair run must come to needs `ENABLED`, which these provers do
not handle.

## 6. What is not modelled

Of the modelled components, what section 3 says is left out. Of the others: discovery
and the mutation engine are pure functions over syntax trees, suppression and
fixing edit source text, the
baseline turns measured durations into the budgets that `Observation` and
`Confirmation` take as parameters, reports format finished data, configuration and
commands parse and dispatch, the attribute crates pass their input through: none has state that
outlives a call, and what could be wrong with them is in their data, which a
small model would not have.
