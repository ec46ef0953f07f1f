------------------------------ MODULE Adoption ------------------------------
(***************************************************************************)
(* The run record (discover/record.rs, discover/workspace_snapshot.rs) and *)
(* the part of a run that reads and rewrites it (commands/run.rs).         *)
(*                                                                         *)
(* A run scans the test files for declarations, takes a snapshot of every  *)
(* workspace file, adopts from the record of earlier runs the verdicts the *)
(* snapshot still supports, copies the tree file by file, judges the       *)
(* mutants that are left, and writes what it holds back over the record.   *)
(* The user edits and reverts files at any moment, and a run may be killed *)
(* at any moment.  Every verdict carries, for the properties only, the     *)
(* texts and the context it was really reached on.                         *)
(*                                                                         *)
(* One run at a time has the record.  The times are those of a clock that  *)
(* every write advances: the two gaps workspace_snapshot.rs accepts, a     *)
(* coarse clock and a platform without one, are outside the model.         *)
(***************************************************************************)
EXTENDS Naturals, FiniteSets

CONSTANTS Files, Mutants, Tests, Packages,
          Texts,      \* what a file may hold
          Builds,     \* the context terms both tiers require
          Suites,     \* the one term only verdicts require: which tests run
          None,
          Home,       \* the file a mutant lies in
          PackageOf,  \* the package a file belongs to
          Roots,      \* the files a package's compilation reads
          Declares,   \* the tests a file that holds a text declares
          First,      \* the workspace before the first edit
          MaxEdits, MaxRuns

ASSUME AdoptionAssumption ==
  /\ Home \in [Mutants -> Files]
  /\ PackageOf \in [Files -> Packages]
  /\ Roots \in [Packages -> SUBSET Files]
  /\ Declares \in [Files -> [Texts -> SUBSET Tests]]
  /\ First \in [Files -> Texts] /\ Builds # {} /\ Suites # {}
  /\ None \notin Files \union Tests \union [Files -> Texts]
  /\ MaxEdits \in Nat /\ MaxRuns \in Nat

VARIABLES tree,      \* the workspace: each file's text and modification time
          clock,     \* the time of the last write
          record,    \* target/gamma/last-run.json
          runs,      \* the runs started
          at,        \* how far the current run is
          context,   \* its build context
          full,      \* whether it carries test verdicts (--incremental full)
          selected,  \* the mutants it has in its population
          killers,   \* the texts its scan for tests read, None if it failed
          inputs,    \* its snapshot of the workspace
          complete,  \* whether that snapshot is complete
          adopted,   \* the mutants it settled from the record
          copied,    \* the files of the scratch tree, as they were copied
          verdicts   \* what it holds of each mutant, adopted or judged
          
runVars == <<context, full, selected, killers, inputs, complete, adopted,
             copied, verdicts>>
vars == <<tree, clock, record, runs, at, runVars>>

Contexts == [build : Builds, suite : Suites]
Snapshots == [Files -> [text : Texts, time : 0..MaxEdits]]

\* A settled verdict: killed (by a test, declared in a file, when both are
\* known) or unviable; `on` and `under` say where it was really reached.
Entries == [outcome : {"killed", "unviable"},
            test : Tests \union {None}, file : Files \union {None},
            on : [Files -> Texts], under : Contexts]

ASSUME NoneIsNoEntry == None \notin Entries

Records == [context : Contexts, inputs : Snapshots,
            entries : [Mutants -> Entries \union {None}]]

Stages == {"idle", "surveyed", "captured", "copying", "swept", "drafted"}

TypeOK ==
  /\ tree \in Snapshots /\ clock \in 0..MaxEdits
  /\ record \in Records /\ runs \in 0..MaxRuns /\ at \in Stages
  /\ context \in Contexts /\ full \in BOOLEAN /\ selected \in SUBSET Mutants
  /\ killers \in [Files -> Texts] \union {None}
  /\ inputs \in Snapshots /\ complete \in BOOLEAN
  /\ adopted \in SUBSET Mutants
  /\ copied \in [Files -> Texts \union {None}]
  /\ verdicts \in [Mutants -> Entries \union {None}]

TextsOf(snapshot) == [f \in Files |-> snapshot[f].text]
NoVerdicts == [m \in Mutants |-> None]

-----------------------------------------------------------------------------
(* What a record settles.                                                   *)

\* Mutated: only the package's own files decide whether it compiles.
SameCompilationOwn(then, now, m) ==
  \A f \in Files : PackageOf[f] = PackageOf[Home[m]] => then[f] = now[f]

\* The compilation inputs of m's package are the same, times included.
SameCompilation(then, now, m) ==
  \A f \in Roots[PackageOf[Home[m]]] : then[f] = now[f]

\* The file that declares test t, according to a scan that succeeded.
VerdictFile(scan, t) ==
  LET declaring == {f \in Files : scan # None /\ t \in Declares[f][scan[f]]}
  IN  IF declaring = {} THEN None ELSE CHOOSE f \in declaring : TRUE

\* The recorded text of f is what the scan read and what is there now.
Unmoved(rec, f) == tree[f].text = rec.inputs[f].text

StillKilled(rec, entry, scan) ==
  /\ entry.test # None /\ entry.file # None
  /\ VerdictFile(scan, entry.test) = entry.file
  /\ scan[entry.file] = rec.inputs[entry.file].text
  /\ Unmoved(rec, entry.file)

Admitted(rec, now, ctx, m) ==
  /\ rec.entries[m] # None
  /\ IF rec.entries[m].outcome = "unviable"
       THEN rec.context.build = ctx.build /\ SameCompilation(rec.inputs, now, m)
       ELSE rec.context = ctx /\ rec.inputs = now

Settled(rec, now, ctx, all, scan) ==
  {m \in Mutants :
     /\ Admitted(rec, now, ctx, m)
     /\ Unmoved(rec, Home[m])
     /\ rec.entries[m].outcome = "killed"
          => all /\ StillKilled(rec, rec.entries[m], scan)}

-----------------------------------------------------------------------------
(* A run.                                                                   *)

Reset ==
  /\ at' = "idle" /\ killers' = None /\ adopted' = {} /\ selected' = {}
  /\ copied' = [f \in Files |-> None] /\ verdicts' = NoVerdicts
  /\ context' = record'.context /\ inputs' = record'.inputs
  /\ full' = FALSE /\ complete' = FALSE

\* The context is resolved, and the scan for tests reads every file.
Survey ==
  /\ at = "idle" /\ runs < MaxRuns
  /\ runs' = runs + 1 /\ at' = "surveyed"
  /\ context' \in Contexts /\ full' \in BOOLEAN
  /\ selected' \in SUBSET Mutants \ {{}}
  /\ killers' \in {TextsOf(tree), None}
  /\ UNCHANGED <<tree, clock, record, inputs, complete, adopted, copied, verdicts>>

\* The snapshot reads every file, or something of it cannot be read.
Capture ==
  /\ at = "surveyed" /\ at' = "captured"
  /\ inputs' = tree /\ complete' \in BOOLEAN
  /\ UNCHANGED <<tree, clock, record, runs, context, full, selected, killers,
                 adopted, copied, verdicts>>

\* An adopted verdict takes the outcome and nothing else of the entry.
Carried(entry) == [entry EXCEPT !.test = None, !.file = None]

Adopt ==
  /\ at = "captured" /\ at' = "copying"
  /\ adopted' = IF complete
                  THEN selected \intersect Settled(record, inputs, context, full, killers)
                  ELSE {}
  /\ verdicts' = [m \in Mutants |->
                    IF m \in adopted' THEN Carried(record.entries[m]) ELSE None]
  /\ UNCHANGED <<tree, clock, record, runs, context, full, selected, killers,
                 inputs, complete, copied>>

CopyFile(f) ==
  /\ at = "copying" /\ copied[f] = None
  /\ copied' = [copied EXCEPT ![f] = tree[f].text]
  /\ UNCHANGED <<tree, clock, record, runs, at, context, full, selected, killers,
                 inputs, complete, adopted, verdicts>>

\* What judging one mutant on the copied tree may leave: a kill by a test, an
\* unviable mutant, or an outcome that is not recorded.
Judged ==
  {None} \union
  [outcome : {"unviable"}, test : {None}, file : {None},
   on : {copied}, under : {context}] \union
  UNION {[outcome : {"killed"}, test : {t}, file : {VerdictFile(killers, t)},
          on : {copied}, under : {context}] : t \in Tests}

Sweep ==
  /\ at = "copying" /\ \A f \in Files : copied[f] # None
  /\ at' = "swept"
  /\ verdicts' \in {v \in [Mutants -> Judged \union {verdicts[m] : m \in adopted}] :
                      \A m \in Mutants :
                        CASE m \in adopted -> v[m] = verdicts[m]
                          [] m \in selected \ adopted -> v[m] \in Judged
                          [] OTHER -> v[m] = None}
  /\ UNCHANGED <<tree, clock, record, runs, context, full, selected, killers,
                 inputs, complete, adopted, copied>>

\* Mutated: the times are not compared.
MatchesTexts == complete /\ TextsOf(inputs) = TextsOf(tree)

\* The workspace is still exactly the snapshot, which was complete.
MatchesCurrent == complete /\ inputs = tree

\* from_plan_snapshot, and store's first look.
Draft ==
  /\ at = "swept" /\ MatchesCurrent
  /\ at' = "drafted"
  /\ UNCHANGED <<tree, clock, record, runs, runVars>>

\* Mutated: this run alone is written.
AbsorbingNothing(earlier) == verdicts

\* What the earlier record adds for the files this run settled nothing in.
Absorbing(earlier) ==
  [m \in Mutants |->
     IF \E n \in Mutants : Home[n] = Home[m] /\ verdicts[n] # None
       THEN verdicts[m]
       ELSE IF Admitted(earlier, inputs, context, m) /\ Unmoved(earlier, Home[m])
              THEN earlier.entries[m]
              ELSE None]

\* The merge and its second look, then the atomic replacement of the file.
Store ==
  /\ at = "drafted" /\ MatchesCurrent
  /\ record' = [context |-> context, inputs |-> inputs, entries |-> Absorbing(record)]
  /\ UNCHANGED <<tree, clock, runs>>
  /\ Reset

\* The workspace moved under the run: it ends without touching the record.
Refuse ==
  /\ at \in {"swept", "drafted"} /\ ~MatchesCurrent
  /\ UNCHANGED <<tree, clock, record, runs>>
  /\ Reset

\* The run is killed, fails, or could not write the record.
Stop ==
  /\ at # "idle"
  /\ UNCHANGED <<tree, clock, record, runs>>
  /\ Reset

\* The user writes a file: another text, or the one it held before.
Edit(f) ==
  /\ clock < MaxEdits
  /\ clock' = clock + 1
  /\ \E text \in Texts : tree' = [tree EXCEPT ![f] = [text |-> text, time |-> clock + 1]]
  /\ UNCHANGED <<record, runs, at, runVars>>

Init ==
  /\ tree = [f \in Files |-> [text |-> First[f], time |-> 0]]
  /\ clock = 0 /\ runs = 0
  /\ context = CHOOSE c \in Contexts : TRUE
  /\ record = [context |-> context, inputs |-> tree, entries |-> NoVerdicts]
  /\ at = "idle" /\ full = FALSE /\ selected = {} /\ killers = None
  /\ inputs = tree /\ complete = FALSE /\ adopted = {}
  /\ copied = [f \in Files |-> None] /\ verdicts = NoVerdicts

Next ==
  \/ Survey \/ Capture \/ Adopt \/ Sweep \/ Draft \/ Store \/ Refuse \/ Stop
  \/ \E f \in Files : CopyFile(f) \/ Edit(f)

Spec == Init /\ [][Next]_vars

-----------------------------------------------------------------------------
(* The verdict `entry` of m was reached on what the snapshot and the context *)
(* say: a kill on every text and the whole context, an unviable mutant on    *)
(* what its package's compilation reads.                                     *)
ReachedOn(entry, m, snapshot, ctx) ==
  IF entry.outcome = "killed"
    THEN entry.on = TextsOf(snapshot) /\ entry.under = ctx
    ELSE /\ entry.under.build = ctx.build
         /\ \A f \in Roots[PackageOf[Home[m]]] : entry.on[f] = snapshot[f].text

\* No verdict in the record is bound to a workspace it was not reached on, by
\* whatever sequence of edits, reverts, narrow runs and merges it came there
\* (record.rs from_snapshot_with_roots, absorbing).
RecordIsBound ==
  \A m \in Mutants :
    record.entries[m] # None
      => ReachedOn(record.entries[m], m, record.inputs, record.context)

\* Every verdict a run adopts was reached, by some run, on the workspace and
\* the context this run has: a kill never outlives an edit of any file, and an
\* unviable mutant never outlives an edit of what it compiles against
\* (record.rs settled_against).
AdoptedWasJudgedHere ==
  \A m \in adopted : ReachedOn(verdicts[m], m, inputs, context)

\* Runs over parts of the workspace accumulate: what the record settled, and
\* this run's snapshot still supports, is still there after a run that settled
\* nothing in that file (record.rs store).
NarrowRunsAccumulate ==
  [][\A m \in Mutants :
       /\ record' # record
       /\ m \in Settled(record, inputs, context, full, killers)
       /\ \A n \in selected : Home[n] # Home[m]
       => record'.entries[m] = record.entries[m]]_vars
=============================================================================
