------------------------------ MODULE Recorder ------------------------------
(***************************************************************************)
(* One census sample: what the runtime linked into an instrumented program *)
(* records (crates/cargo-gamma-rt/src/lib.rs) and what the tool believes   *)
(* of the file it leaves (crates/cargo-gamma-lib/src/exec/census.rs).      *)
(*                                                                         *)
(* A sample is one test, run in a process of its own; the programs that    *)
(* test starts are linked with the same runtime, inherit the census path   *)
(* and append to the same file.  In each process guards set bits of a      *)
(* bitmap under a lease, and an exit handler closes the lease word, waits  *)
(* for no lease to be out, and writes the bitmap word by word and a seal.  *)
(* Every atomic access is a step, every write to the file is one.          *)
(*                                                                         *)
(* A write is abstracted to its records: the sites of one bitmap word, or  *)
(* a marker.  The thread that calls exit runs no guard of its own.         *)
(***************************************************************************)
EXTENDS Integers, Sequences, FiniteSets

CONSTANTS
  Processes,  \* the processes of the sampled test, its own and its children
  Root,       \* the one the tool started
  Threads,    \* the threads that run guards
  Home,       \* the process of each thread
  Words,      \* the bitmap: the sites of each of its words
  Beyond,     \* sites past SITES, which the bitmap has no bit for
  Code,       \* the sites in the code each thread may run
  Mask,       \* RECORDER_MASK: the most leases the word can count
  Notes       \* how many guards a thread runs (bound)

ASSUME RecorderAssumption ==
  /\ Root \in Processes
  /\ IsFiniteSet(Threads)
  /\ Home \in [Threads -> Processes]
  /\ Mask \in Nat \ {0} /\ Notes \in Nat

Within == UNION {Words[i] : i \in DOMAIN Words}
Site   == Within \union Beyond

ASSUME BitmapAssumption ==
  /\ Words \in Seq(SUBSET Within) /\ Within \intersect Beyond = {}
  /\ Code \in [Threads -> SUBSET Site]

VARIABLES
  life,       \* how far each process is, from its launch to its end
  selection,  \* ACTIVE: "census", or "none" when the handler was not registered
  lease,      \* RecorderState.value
  reached,    \* REACHED
  overflowed, \* OVERFLOWED
  cursor,     \* the word write_reached is at
  at, want,   \* where each thread is in note, and the site it is at, as a set
  seen,       \* the lease word it loaded
  left,       \* how many guards it may still run
  file,       \* the census file: the writes that landed, in order
  sampled,    \* what sample answered: a set of sites, or Unknown
  ran         \* history: the sites that ran before the process closed its census

process == <<life, selection, lease, cursor>>
bitmap  == <<reached, overflowed>>
thread  == <<at, want, seen, left>>
vars    == <<process, bitmap, thread, file, sampled, ran>>

Sealing == Mask + 1   \* the high bit of the lease word
Unread  == [state |-> "unread", sites |-> {}]
Unknown == [state |-> "unknown", sites |-> {}]  \* None: it cannot be trusted
Known(sites) == [state |-> "known", sites |-> sites]

Alive == {"running", "closing", "claiming", "writing"}
Ended == {"sealed", "failed", "quit", "killed"}

Chunk == [sites : SUBSET Within, mark : {"none", "overflow", "seal", "torn"}]
Marker(mark)   == [sites |-> {}, mark |-> mark]
Records(sites) == [sites |-> sites, mark |-> "none"]

-----------------------------------------------------------------------------
(***************************************************************************)
(* The file, as the tool reads it.                                         *)
(***************************************************************************)
Whole(f) ==
  /\ f # << >>
  /\ f[Len(f)].mark = "seal"
  /\ \A i \in 1 .. Len(f) - 1 : f[i].mark = "none"

Decode(f) == 
  IF Whole(f) THEN Known(UNION {f[i].sites : i \in DOMAIN f}) ELSE Unknown

-----------------------------------------------------------------------------
(***************************************************************************)
(* Guards.  The lease is taken before the bit is set and given back after. *)
(***************************************************************************)
\* Mutant: the high bit is not looked at.
NeverClosed(word) == FALSE

Closed(word) == word = Sealing

Running(t) == life[Home[t]] \in Alive

Ran(t) == [ran EXCEPT ![Home[t]] = @ \union want[t]]

\* selected, then note: without a registered handler the process records nothing.
Guard(t, site) ==
  /\ at[t] = "user" /\ left[t] > 0 /\ Running(t)
  /\ left' = [left EXCEPT ![t] = @ - 1]
  /\ \/ /\ selection[Home[t]] = "census"
        /\ at' = [at EXCEPT ![t] = "loading"]
        /\ want' = [want EXCEPT ![t] = {site}]
        /\ UNCHANGED ran
     \/ /\ selection[Home[t]] = "none"
        /\ ran' = [ran EXCEPT ![Home[t]] = @ \union {site}]
        /\ UNCHANGED <<at, want>>
  /\ UNCHANGED <<process, bitmap, seen, file, sampled>>

\* A word counting all the leases it can makes the guard spin.
Load(t) ==
  LET word == lease[Home[t]] IN
  /\ at[t] = "loading" /\ Running(t) /\ ~Closed(word) /\ word # Mask
  /\ seen' = [seen EXCEPT ![t] = word]
  /\ at' = [at EXCEPT ![t] = "swapping"]
  /\ UNCHANGED <<process, bitmap, want, left, file, sampled, ran>>

Refused(t) ==
  LET word == lease[Home[t]] IN
  /\ at[t] = "loading" /\ Running(t) /\ Closed(word)
  /\ at' = [at EXCEPT ![t] = "user"]
  /\ want' = [want EXCEPT ![t] = {}]
  /\ ran' = IF word = Sealing THEN ran ELSE Ran(t)
  /\ UNCHANGED <<process, bitmap, seen, left, file, sampled>>

Lease(t) ==
  LET p == Home[t] IN
  /\ at[t] = "swapping" /\ Running(t) /\ lease[p] = seen[t]
  /\ lease' = [lease EXCEPT ![p] = @ + 1]
  /\ at' = [at EXCEPT ![t] = "leased"]
  /\ seen' = [seen EXCEPT ![t] = 0]
  /\ ran' = Ran(t)
  /\ UNCHANGED <<life, selection, cursor, bitmap, want, left, file, sampled>>

\* The word changed, or the weak exchange failed for no reason.
Retry(t) ==
  /\ at[t] = "swapping" /\ Running(t)
  /\ at' = [at EXCEPT ![t] = "loading"]
  /\ seen' = [seen EXCEPT ![t] = 0]
  /\ UNCHANGED <<process, bitmap, want, left, file, sampled, ran>>

Mark(t) ==
  LET p == Home[t] IN
  /\ at[t] = "leased" /\ Running(t)
  /\ \/ /\ want[t] \subseteq Within
        /\ reached' = [reached EXCEPT ![p] = @ \union want[t]]
        /\ UNCHANGED overflowed
     \/ /\ want[t] \subseteq Beyond
        /\ overflowed' = [overflowed EXCEPT ![p] = TRUE]
        /\ UNCHANGED reached
  /\ at' = [at EXCEPT ![t] = "leaving"]
  /\ UNCHANGED <<process, want, seen, left, file, sampled, ran>>

\* Mutant: the overflow path returns with its lease.
ReleaseUnlessFar(t) ==
  /\ at[t] = "leaving" /\ Running(t)
  /\ lease' = [lease EXCEPT ![Home[t]] = IF want[t] \subseteq Beyond THEN @ ELSE @ - 1]
  /\ at' = [at EXCEPT ![t] = "user"]
  /\ want' = [want EXCEPT ![t] = {}]
  /\ UNCHANGED <<life, selection, cursor, bitmap, seen, left, file, sampled, ran>>

Release(t) ==
  /\ at[t] = "leaving" /\ Running(t)
  /\ lease' = [lease EXCEPT ![Home[t]] = @ - 1]
  /\ at' = [at EXCEPT ![t] = "user"]
  /\ want' = [want EXCEPT ![t] = {}]
  /\ UNCHANGED <<life, selection, cursor, bitmap, seen, left, file, sampled, ran>>

-----------------------------------------------------------------------------
(***************************************************************************)
(* Processes.                                                              *)
(***************************************************************************)
\* A running process starts another; its constructor may fail to register the handler.
Spawn(p) ==
  /\ life[p] = "absent" /\ \E parent \in Processes : life[parent] \in Alive
  /\ life' = [life EXCEPT ![p] = "running"]
  /\ \E s \in {"census", "none"} : selection' = [selection EXCEPT ![p] = s]
  /\ UNCHANGED <<lease, cursor, bitmap, thread, file, sampled, ran>>

\* exit(): the registered handler runs while the other threads still do.
Exit(p) ==
  /\ life[p] = "running"
  /\ life' = [life EXCEPT ![p] = IF selection[p] = "census" THEN "closing" ELSE "quit"]
  /\ UNCHANGED <<selection, lease, cursor, bitmap, thread, file, sampled, ran>>

\* _exit(), or an exec: the process ends well, and no handler runs.
Quit(p) ==
  /\ life[p] = "running"
  /\ life' = [life EXCEPT ![p] = "quit"]
  /\ UNCHANGED <<selection, lease, cursor, bitmap, thread, file, sampled, ran>>

\* A signal, a crash or a settled containment; a write under way may be torn.
Kill(p) ==
  /\ life[p] \in Alive
  /\ life' = [life EXCEPT ![p] = "killed"]
  /\ \/ UNCHANGED file
     \/ life[p] = "writing" /\ file' = Append(file, Marker("torn"))
  /\ UNCHANGED <<selection, lease, cursor, bitmap, thread, sampled, ran>>

\* try_begin_seal: a recorder in progress makes the sealer spin.
TryBeginSeal(p) ==
  /\ life[p] = "closing" /\ lease[p] = 0
  /\ life' = [life EXCEPT ![p] = "claiming"]
  /\ UNCHANGED <<selection, lease, cursor, bitmap, thread, file, sampled, ran>>

\* Mutant: the word is closed without asking whether it changed.
ClaimBlind(p) ==
  /\ life[p] = "claiming"
  /\ lease' = [lease EXCEPT ![p] = Sealing]
  /\ life' = [life EXCEPT ![p] = "writing"]
  /\ UNCHANGED <<selection, cursor, bitmap, thread, file, sampled, ran>>

Claim(p) ==
  /\ life[p] = "claiming"
  /\ IF lease[p] = 0
       THEN /\ lease' = [lease EXCEPT ![p] = Sealing]
            /\ life' = [life EXCEPT ![p] = "writing"]
       ELSE /\ life' = [life EXCEPT ![p] = "closing"]
            /\ UNCHANGED lease
  /\ UNCHANGED <<selection, cursor, bitmap, thread, file, sampled, ran>>

\* write_reached: one word after another, nothing for a word with no bit set.
WriteWord(p) ==
  LET sites == reached[p] \intersect Words[cursor[p]] IN
  /\ life[p] = "writing" /\ cursor[p] \in DOMAIN Words
  /\ file' = IF sites = {} THEN file ELSE Append(file, Records(sites))
  /\ cursor' = [cursor EXCEPT ![p] = @ + 1]
  /\ UNCHANGED <<life, selection, lease, bitmap, thread, sampled, ran>>

WriteOverflow(p) ==
  /\ life[p] = "writing" /\ cursor[p] = Len(Words) + 1
  /\ file' = IF overflowed[p] THEN Append(file, Marker("overflow")) ELSE file
  /\ cursor' = [cursor EXCEPT ![p] = @ + 1]
  /\ UNCHANGED <<life, selection, lease, bitmap, thread, sampled, ran>>

WriteSeal(p) ==
  /\ life[p] = "writing" /\ cursor[p] = Len(Words) + 2
  /\ file' = Append(file, Marker("seal"))
  /\ life' = [life EXCEPT ![p] = "sealed"]
  /\ UNCHANGED <<selection, lease, cursor, bitmap, thread, sampled, ran>>

\* The file cannot be opened, or a write is refused or cut short: no seal.
WriteFails(p) ==
  /\ life[p] = "writing"
  /\ life' = [life EXCEPT ![p] = "failed"]
  /\ file' \in {file, Append(file, Marker("torn"))}
  /\ UNCHANGED <<selection, lease, cursor, bitmap, thread, sampled, ran>>

\* sample: the test has ended, its tree with it; only a run that passed is read.
Sample ==
  /\ sampled = Unread /\ life[Root] \in Ended
  /\ life' = [p \in Processes |-> IF life[p] \in Alive THEN "killed" ELSE life[p]]
  /\ sampled' = IF life[Root] = "killed" THEN Unknown ELSE Decode(file)
  /\ UNCHANGED <<selection, lease, cursor, bitmap, thread, file, ran>>

-----------------------------------------------------------------------------
Init ==
  /\ life = [p \in Processes |-> IF p = Root THEN "running" ELSE "absent"]
  /\ selection \in [Processes -> {"census", "none"}]
  /\ \A p \in Processes \ {Root} : selection[p] = "none"
  /\ lease = [p \in Processes |-> 0] /\ cursor = [p \in Processes |-> 1]
  /\ reached = [p \in Processes |-> {}] /\ overflowed = [p \in Processes |-> FALSE]
  /\ at = [t \in Threads |-> "user"]
  /\ want = [t \in Threads |-> {}] /\ seen = [t \in Threads |-> 0]
  /\ left = [t \in Threads |-> Notes]
  /\ file = << >> /\ sampled = Unread /\ ran = [p \in Processes |-> {}]

Program(t) ==
  \/ \E site \in Code[t] : Guard(t, site)
  \/ Load(t) \/ Refused(t) \/ Lease(t) \/ Retry(t) \/ Mark(t) \/ Release(t)

Handler(p) ==
  \/ TryBeginSeal(p) \/ Claim(p) \/ WriteWord(p) \/ WriteOverflow(p) \/ WriteSeal(p)

World(p) == Spawn(p) \/ Exit(p) \/ Quit(p) \/ Kill(p) \/ WriteFails(p)

Next ==
  \/ \E t \in Threads : Program(t)
  \/ \E p \in Processes : Handler(p) \/ World(p)
  \/ Sample

Spec == Init /\ [][Next]_vars

\* A thread with a lease gives it back, and an exiting thread runs its handler.
Fairness ==
  /\ \A t \in Threads : WF_vars(Mark(t)) /\ WF_vars(Release(t))
  /\ \A p \in Processes : WF_vars(Handler(p))

FairSpec == Spec /\ Fairness

-----------------------------------------------------------------------------
TypeOK ==
  /\ life \in [Processes -> {"absent"} \union Alive \union Ended]
  /\ selection \in [Processes -> {"census", "none"}]
  /\ lease \in [Processes -> 0 .. Sealing]
  /\ cursor \in [Processes -> 1 .. Len(Words) + 2]
  /\ reached \in [Processes -> SUBSET Within]
  /\ overflowed \in [Processes -> BOOLEAN]
  /\ at \in [Threads -> {"user", "loading", "swapping", "leased", "leaving"}]
  /\ want \in [Threads -> SUBSET Site] /\ seen \in [Threads -> 0 .. Mask - 1]
  /\ left \in [Threads -> 0 .. Notes]
  /\ file \in Seq(Chunk)
  /\ sampled \in [state : {"unread", "unknown", "known"}, sites : SUBSET Within]
  /\ ran \in [Processes -> SUBSET Site]

\* A seal vouches for what came before it: a sample is believed only when exactly
\* one process sealed the file, and it then holds every site that process ran before
\* it closed its census.  (seal, write_reached and begin_recording; decode)
SealVouches ==
  sampled.state = "known" =>
    \E p \in Processes :
      /\ \A q \in Processes : life[q] = "sealed" <=> q = p
      /\ ran[p] \subseteq sampled.sites

\* A bitmap being written no longer changes: once a process claimed its seal none of
\* its guards sets a bit, however late it started.  (begin_recording, begin_seal)
ClosedBitmapIsFinal ==
  [][\A p \in Processes : lease[p] = Sealing =>
       /\ lease'[p] = Sealing
       /\ reached'[p] = reached[p] /\ overflowed'[p] = overflowed[p]]_vars

\* No process is held up by its own census: an exit handler that started ends, whatever
\* the other threads of the process do, as long as they do not run guards for ever.
\* (begin_seal waits for leases, which every path of note gives back)
SealEnds == \A p \in Processes : life[p] \in {"closing", "claiming", "writing"} ~> life[p] \in Ended
=============================================================================
