------------------------------ MODULE Scratch ------------------------------
(***************************************************************************)
(* The scratch tree from one run to the next: copied or synchronised from  *)
(* the source, spliced, built, left behind or torn down                    *)
(* (crates/cargo-gamma-lib/src/exec/workspace.rs, sync.rs, copy.rs).       *)
(*                                                                         *)
(* The tree outlives the run.  A run may be killed at any step, the user   *)
(* edits the source at any time, and Cargo rebuilds what looks newer than  *)
(* its artifacts.  The scratch lock turns a second run away before it      *)
(* touches anything, so runs come one after the other.                     *)
(*                                                                         *)
(* A path is a file, a directory or a link to a directory outside the      *)
(* tree, with at most one directory above it; a file's content is a        *)
(* version of the source or what a splice made of it.                      *)
(***************************************************************************)
EXTENDS Naturals, FiniteSets

CONSTANTS
  Paths,     \* the paths of the workspace
  Top,       \* not a path: the root of the tree
  Parent,    \* the directory each path is in, or Top
  Shapes,    \* what the user may make of each path
  Versions,  \* contents of source files
  Splices,   \* contents a run may splice into a file
  Sources,   \* the workspaces the user may start from
  Hidden,    \* the files git tracks that an ignore rule hides from the walk
  Runs,      \* how many runs start (bound)
  Edits      \* how often the user edits the source (bound)

ASSUME ScratchAssumption ==
  /\ Top \notin Paths
  /\ Parent \in [Paths -> Paths \union {Top}]
  /\ \A p \in Paths : Parent[p] # Top => Parent[Parent[p]] = Top
  /\ Versions \intersect Splices = {} /\ Hidden \subseteq Paths
  /\ Runs \in Nat /\ Edits \in Nat

\* What is at a path.
Absent  == [kind |-> "none"]
Dir     == [kind |-> "dir"]
Link    == [kind |-> "link"]
File(c) == [kind |-> "file", data |-> c]
Files(C) == {File(c) : c \in C}
Entry(C) == {Absent, Dir, Link} \union Files(C)

\* A workspace as it may be found: entries only under directories.
Found(t) == \A p \in Paths : t[p] # Absent /\ Parent[p] # Top => t[Parent[p]] = Dir

ASSUME SourcesAssumption ==
  Sources \subseteq [Paths -> Entry(Versions)] /\ \A t \in Sources : Found(t)

VARIABLES
  source,    \* the user's workspace
  outside,   \* what the paths under a link lead to: also the user's
  exists,    \* the tree's root is a directory
  tree,      \* what the tree holds at each path
  sentinel,  \* .gamma-sync-ok is there and whole
  built,     \* what Cargo's artifacts were made from, path by path
  fresh,     \* the paths Cargo takes to be no newer than their artifact
  aged,      \* those of them a full copy has put there with the date of the source
  pc,        \* how far the run is, or "idle" between two
  todo,      \* the entries its copy or synchronisation has not reached
  expected,  \* collect_source_entries
  settled,   \* Workspace.settled
  started,   \* how many runs have started
  edited,    \* how often the source was edited
  still,     \* history: the source was not edited since the run started
  leftover   \* history: what this run failed to remove before its full copy

users   == <<source, outside, edited>>
cargo   == <<built, fresh, aged>>
run     == <<pc, todo, expected, settled, started>>
past    == <<still, leftover>>
scratchVars == <<users, exists, tree, sentinel, cargo, run, past>>

-----------------------------------------------------------------------------
(***************************************************************************)
(* Paths.                                                                  *)
(***************************************************************************)
Present(t)     == {p \in Paths : t[p] # Absent}
Children(d)    == {p \in Paths : Parent[p] = d}
Behind(p)      == Parent[p] # Top /\ tree[Parent[p]] = Link
UnderFile(p)  == Parent[p] # Top /\ tree[Parent[p]].kind = "file"

\* What a system call finds at p: it follows a link above it.
At(p) == IF Behind(p) THEN outside[p] ELSE tree[p]

\* The tree with p replaced, and what was below it gone; a missing parent is made.
Put(t, p, entry) ==
  [q \in Paths |->
     CASE q = p -> entry
       [] Parent[q] = p -> Absent
       [] q = Parent[p] /\ t[q] = Absent -> Dir
       [] OTHER -> t[q]]

Nothing == [p \in Paths |-> Absent]

\* What remove_dir_all may leave of a tree when it is cut short.
Remains(t) ==
  {[p \in Paths |-> IF p \in kept THEN t[p] ELSE Absent] :
     kept \in {S \in SUBSET Present(t) : \A p \in S : Parent[p] \in S \union {Top}}}

-----------------------------------------------------------------------------
(***************************************************************************)
(* The user.                                                               *)
(***************************************************************************)
Edit(p, entry) ==
  /\ edited < Edits /\ edited' = edited + 1
  /\ entry.kind \in Shapes[p] /\ source[p] # entry
  /\ Parent[p] # Top => source[Parent[p]] = Dir
  /\ source' = [q \in Paths |->
       IF q = p THEN entry ELSE IF Parent[q] = p THEN Absent ELSE source[q]]
  /\ still' = FALSE
  /\ UNCHANGED <<outside, exists, tree, sentinel, cargo, run, leftover>>

-----------------------------------------------------------------------------
(***************************************************************************)
(* prepare: claim the lock, then sync_or_copy.                             *)
(***************************************************************************)
Copying(entries) == pc' = "copying" /\ todo' = entries /\ exists' = TRUE

SyncOrCopy ==
  /\ pc = "idle" /\ started < Runs /\ started' = started + 1
  /\ still' = TRUE /\ settled' = FALSE
  /\ \/ /\ ~exists
        /\ Copying(Present(source))
        /\ UNCHANGED <<sentinel, expected>>
     \/ /\ exists /\ ~sentinel
        /\ pc' = "clearing"
        /\ UNCHANGED <<exists, sentinel, todo, expected>>
     \/ /\ exists /\ sentinel
        /\ sentinel' = FALSE
        /\ pc' = "syncing"
        /\ expected' = Present(source) /\ todo' = expected'
        /\ UNCHANGED exists
  /\ UNCHANGED <<users, tree, cargo, leftover>>

\* remove_dir_all, then the full copy; a removal that fails ends the run (see Kill).
Clear ==
  /\ pc = "clearing"
  /\ tree' = Nothing
  /\ Copying(Present(source))
  /\ UNCHANGED <<users, sentinel, cargo, expected, settled, started, past>>

\* Mutant: every write keeps the time of what it was copied from.
WrittenLongAgo(p) ==
  fresh' = (IF built[p] # Absent THEN fresh \union {p} ELSE fresh) /\ aged' = aged \ {p}

\* Cargo goes by time: what was just written is newer than any artifact.
Written(p) == fresh' = fresh \ {p} /\ aged' = aged \ {p}

\* fs::copy may keep the date of the source, as a clone does whose stamping failed:
\* the file then looks older than an artifact that has survived.
Undated(p) == built[p] # Absent /\ fresh' = fresh \union {p} /\ aged' = aged \union {p}

\* An entry is put where the path leads: through a link, outside the tree.
Place(p) ==
  IF Behind(p) THEN outside' = [outside EXCEPT ![p] = source[p]] /\ UNCHANGED tree
  ELSE tree' = Put(tree, p, source[p]) /\ UNCHANGED outside

\* copy_file_for_sync and everything but a full copy's files: dated as it is written.
Write(p) == Place(p) /\ Written(p)

\* copy_file: a clone is dated, if it can be; a copy is not.  A file that is in the way
\* is written over, a link too (the clone failing there takes it away).
CopyFile(p) ==
  source[p].kind = "file" /\ At(p).kind \in {"none", "file", "link"} /\ Place(p) /\ (Written(p) \/ Undated(p))

\* copy_tracked, after the walk: a file that is there is left as it is, one that is
\* nowhere is none to copy.
Passed(p) == p \in Hidden /\ (At(p) # Absent \/ source[p] = Absent)

\* copy_entry: the parallel walk reaches the entries in any order.  A directory that
\* is there is taken as it is; anything else in the way fails the copy.
CopyEntry(p) ==
  /\ pc = "copying" /\ p \in todo /\ ~UnderFile(p)
  /\ p \in Hidden => todo \subseteq Hidden
  /\ todo' = todo \ {p}
  /\ \/ ~Passed(p) /\ CopyFile(p)
     \/ source[p] \in {Link, Dir} /\ At(p) = Absent /\ Write(p)
     \/ /\ Passed(p) \/ (source[p] = Dir /\ At(p) \in {Dir, Link})
        /\ UNCHANGED <<tree, fresh, aged, outside>>
  /\ UNCHANGED <<source, edited, exists, sentinel, built, pc, expected, settled, started, past>>

\* sync_entry, for a directory: exists() and is_dir() look through a link.
SyncDir(p) ==
  /\ source[p] = Dir
  /\ IF At(p) \in {Dir, Link} THEN UNCHANGED <<tree, fresh, aged, outside>> ELSE Write(p)

SyncSymlink(p) ==
  /\ source[p] = Link
  /\ IF At(p) = Link THEN UNCHANGED <<tree, fresh, aged, outside>> ELSE Write(p)

\* Mutant: two files of the same size are taken to be the same.
SyncFileBySize(p) ==
  /\ source[p].kind = "file"
  /\ IF At(p).kind = "file" THEN UNCHANGED <<tree, fresh, aged, outside>> ELSE Write(p)

\* sync_file: what differs is removed and copied, what does not is left alone.
SyncFile(p) ==
  /\ source[p].kind = "file"
  /\ IF At(p) = source[p] THEN UNCHANGED <<tree, fresh, aged, outside>> ELSE Write(p)

\* Nothing can be made below a file: the synchronisation fails there.
SyncEntry(p) ==
  /\ pc = "syncing" /\ p \in todo /\ ~UnderFile(p)
  /\ todo' = todo \ {p}
  /\ SyncDir(p) \/ SyncSymlink(p) \/ SyncFile(p)
  /\ UNCHANGED <<source, edited, exists, sentinel, built, pc, expected, settled, started, past>>

\* remove_stale: the walk does not follow links; a directory goes only when empty.
RemoveStale ==
  LET kept(p) == p \in expected \/ (tree[p] = Dir /\ Children(p) \intersect expected \intersect Present(tree) # {})
  IN /\ pc = "syncing" /\ todo = {}
     /\ tree' = [p \in Paths |-> IF kept(p) THEN tree[p] ELSE Absent]
     /\ pc' = "copied"
     /\ UNCHANGED <<users, exists, sentinel, cargo, todo, expected, settled, started, past>>

\* mark_consistent: the sentinel's own write may fail, which nobody is told.
MarkConsistent ==
  /\ pc = "copied" \/ (pc = "copying" /\ todo = {})
  /\ sentinel' \in {TRUE, sentinel}
  /\ pc' = "mirrored"
  /\ UNCHANGED <<users, exists, tree, cargo, todo, expected, settled, started, past>>

\* Mutant: a synchronisation that fails is tried again.
SyncAgain ==
  /\ pc = "syncing"
  /\ tree' = Nothing
  /\ todo' = expected
  /\ UNCHANGED <<users, exists, sentinel, cargo, pc, expected, settled, started, past>>

\* A delta synchronisation that fails clears the tree and copies it whole, over what is
\* left of it when that removal fails too: nobody looks.
SyncFails ==
  /\ pc = "syncing"
  /\ tree' \in Remains(tree)
  /\ leftover' = Present(tree')
  /\ Copying(Present(source))
  /\ UNCHANGED <<users, sentinel, cargo, expected, settled, started, still>>

\* A copy that fails ends the run: there is no Workspace to tear down.
CopyFails ==
  /\ pc = "copying"
  /\ pc' = "idle" /\ leftover' = {}
  /\ UNCHANGED <<users, exists, tree, sentinel, cargo, todo, expected, settled, started, still>>

-----------------------------------------------------------------------------
(***************************************************************************)
(* The rest of the run.                                                    *)
(***************************************************************************)
Working == {"mirrored", "ready", "built"}

\* overwrite: only a file the copy put inside the tree, and only when it changes.
Overwrite(p, c) ==
  /\ pc \in Working
  /\ tree[p].kind = "file" /\ tree[p] # File(c) /\ ~Behind(p)
  /\ tree' = [tree EXCEPT ![p] = File(c)]
  /\ Written(p)
  /\ pc' = "ready"
  /\ UNCHANGED <<users, exists, sentinel, built, todo, expected, settled, started, past>>

\* Cargo, external: it compiles what its time says is newer than the artifact.
Build ==
  LET files == {p \in Paths : tree[p].kind = "file"} IN
  /\ pc \in {"mirrored", "ready"}
  /\ built' = [p \in Paths |-> IF p \in files \ fresh THEN tree[p] ELSE built[p]]
  /\ fresh' = fresh \union files /\ UNCHANGED aged
  /\ pc' = "built"
  /\ UNCHANGED <<users, exists, tree, sentinel, todo, expected, settled, started, past>>

Settle ==
  /\ pc = "built" /\ ~settled
  /\ settled' = TRUE
  /\ UNCHANGED <<users, exists, tree, sentinel, cargo, pc, todo, expected, started, past>>

\* The run ends, well or with an error; a settled one, or one told to leak, keeps it all.
Finish ==
  /\ pc \in Working /\ leftover' = {}
  /\ \/ pc' = "idle"
     \/ pc' = "removing" /\ ~settled
  /\ UNCHANGED <<users, exists, tree, sentinel, cargo, todo, expected, settled, started, still>>

\* teardown of a run that did not settle: the tree goes, then the artifacts.
RemoveTree ==
  /\ pc = "removing" /\ exists
  /\ exists' = FALSE /\ tree' = Nothing
  /\ UNCHANGED <<users, sentinel, cargo, run, past>>

RemoveTarget ==
  /\ pc = "removing" /\ ~exists
  /\ built' = Nothing /\ fresh' = {} /\ aged' = {}
  /\ pc' = "idle"
  /\ UNCHANGED <<users, exists, tree, sentinel, todo, expected, settled, started, past>>

\* A signal ends the run where it is, as an error of remove_dir_all does before the full
\* copy of an untrusted tree; a removal under way may be half done.
Kill ==
  /\ pc # "idle"
  /\ pc' = "idle" /\ leftover' = {}
  /\ \/ UNCHANGED tree
     \/ pc = "clearing" /\ tree' \in Remains(tree)
     \/ pc = "removing" /\ exists /\ tree' \in Remains(tree)
  /\ UNCHANGED <<users, exists, sentinel, cargo, todo, expected, settled, started, still>>

-----------------------------------------------------------------------------
ScratchInit ==
  /\ source \in Sources
  /\ outside = [p \in Paths |-> Absent]
  /\ exists = FALSE /\ tree = Nothing /\ sentinel = FALSE
  /\ built = Nothing /\ fresh = {} /\ aged = {}
  /\ pc = "idle" /\ todo = {} /\ expected = {} /\ settled = FALSE
  /\ started = 0 /\ edited = 0 /\ still = TRUE /\ leftover = {}

Prepare ==
  \/ Clear \/ RemoveStale \/ MarkConsistent \/ SyncFails \/ CopyFails
  \/ \E p \in Paths : CopyEntry(p) \/ SyncEntry(p)

ScratchNext ==
  \/ \E p \in Paths, entry \in Entry(Versions) : Edit(p, entry)
  \/ SyncOrCopy \/ Prepare
  \/ \E p \in Paths, c \in Versions \union Splices : Overwrite(p, c)
  \/ Build \/ Settle \/ Finish \/ RemoveTree \/ RemoveTarget \/ Kill

ScratchSpec == ScratchInit /\ [][ScratchNext]_scratchVars

\* prepare goes on by itself.
FairSpec == ScratchSpec /\ WF_scratchVars(Prepare)

-----------------------------------------------------------------------------
Preparing == {"clearing", "copying", "syncing", "copied"}

\* A full copy does not write here: there is nothing to copy, or what is here is passed.
Uncopied(p) == source[p] = Absent \/ p \in Hidden

\* The types of the variables.
ScratchTypeOK ==
  /\ source \in [Paths -> Entry(Versions)] /\ outside \in [Paths -> Entry(Versions)]
  /\ tree \in [Paths -> Entry(Versions \union Splices)]
  /\ built \in [Paths -> Entry(Versions \union Splices)]
  /\ exists \in BOOLEAN /\ sentinel \in BOOLEAN /\ settled \in BOOLEAN /\ still \in BOOLEAN
  /\ fresh \subseteq Paths /\ aged \subseteq Paths /\ leftover \subseteq Paths /\ todo \subseteq Paths /\ expected \subseteq Paths
  /\ pc \in {"idle", "removing"} \union Preparing \union Working
  /\ started \in 0 .. Runs /\ edited \in 0 .. Edits

\* Whatever an earlier run left, and wherever it was killed, a run starts from a tree
\* that is the source: nothing spliced is left in it, nothing missing, nothing stale,
\* but for what this run has failed to remove and nothing was then to be copied over.
\* (sync_or_copy; an edit during the copy is the user's own race)
MirrorsSource ==
  pc = "mirrored" /\ still =>
    \A p \in Paths : tree[p] = source[p] \/ (p \in leftover /\ Uncopied(p))

\* Cargo never takes what an earlier run spliced for what the tree holds: what a build
\* leaves in the artifacts is what is in the tree, but for a file that a full copy has
\* put there older than its artifact and no run has written since.  (stamp_mtime, which
\* dates every synchronised copy; overwrite, which leaves equal files their date; a
\* full copy's fs::copy and freshen, which need not date theirs)
NeverStaleBuild ==
  pc = "built" => \A p \in Paths \ aged : tree[p].kind = "file" => built[p] = tree[p]

\* A run is never held up between two ways of preparing its tree: a synchronisation that
\* fails falls back on one full copy, and that ends, well or not.  (sync_or_copy)
PrepareEnds == pc \in Preparing ~> pc \notin Preparing

\* The README: a run does not change the original source code, all of its work happens
\* on copied state.
SourceUntouched == [][outside' = outside]_scratchVars

-----------------------------------------------------------------------------
(***************************************************************************)
(* The inductive invariants behind MirrorsSource, SourceUntouched (when no *)
(* link ever stands where a directory may) and NeverStaleBuild.            *)
(***************************************************************************)
MayBe(p, kind) == kind \in Shapes[p] \/ \E t \in Sources : t[p].kind = kind

\* A path at which the user ever has a link never is a directory.
LinksAside == \A p \in Paths : ~(MayBe(p, "link") /\ MayBe(p, "dir"))

\* The user's tree is one that can be found on a disk, of the shapes it may have.
UserTree ==
  /\ Found(source)
  /\ \A p \in Paths : source[p] \in {Dir, Link} => MayBe(p, source[p].kind)

\* So is the scratch tree, which holds no link the user never had.
OwnTree ==
  /\ Found(tree)
  /\ ~exists => tree = Nothing
  /\ \A p \in Paths : tree[p] = Link => MayBe(p, "link")

\* How much of the tree is the source while nobody edits it: a copy grows from
\* nothing, or over what could not be removed, a synchronisation puts right what it has reached.
Mirroring ==
  still =>
    /\ pc = "copying" =>
         \A p \in Paths :
           \/ tree[p] = source[p]
           \/ p \in todo /\ (tree[p] = Absent \/ p \in leftover)
           \/ p \in leftover /\ Uncopied(p)
    /\ pc = "syncing" =>
         /\ expected = Present(source)
         /\ \A p \in expected \ todo : tree[p] = source[p]
    /\ pc = "copied" => tree = source
    /\ MirrorsSource

MirrorInv == ScratchTypeOK /\ UserTree /\ OwnTree /\ Mirroring

\* What Cargo takes for fresh it has built from what is there now, unless a copy aged
\* it, and after a build that is every file.
Dated ==
  /\ \A p \in fresh \ aged : tree[p].kind = "file" => built[p] = tree[p]
  /\ pc = "built" => \A p \in Paths : tree[p].kind = "file" => p \in fresh
=============================================================================
