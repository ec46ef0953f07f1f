----------------------------- MODULE Observation -----------------------------
(***************************************************************************)
(* One observed run of a test binary: run_with and the reader threads it   *)
(* starts (crates/cargo-gamma-lib/src/exec/verdict.rs, verdict/hubs.rs,    *)
(* progress.rs, stall.rs).                                                 *)
(*                                                                         *)
(* The waiting thread starts the workload, asks after it, and between two  *)
(* looks sleeps on a Pulse.  A reader per piped stream drains it, publishes*)
(* the first announced failure, and signals.  The workload writes, forks,  *)
(* runs out of memory, exits or hangs as it likes.  Lock regions and       *)
(* channel operations are one step each; the two halves of Pulse::signal,  *)
(* the increment and the notification, are two.                            *)
(***************************************************************************)
EXTENDS Integers, Sequences, FiniteSets

CONSTANTS
  Attempts,   \* which parts of the Attempt are Some, in the runs considered
  Streams,    \* the piped streams: stdout, and stderr under nextest
  Lines,      \* how many lines the workload writes to a stream (bound)
  PipeCap,    \* how many lines a pipe holds before its writer blocks
  OutputCap,  \* OUTPUT_CAP, in lines
  Nextest,    \* the workload is run by nextest
  Watching    \* failures are read from the output as it arrives (watch # Off)

ASSUME ObservationAssumption ==
  /\ Attempts \subseteq [active : BOOLEAN, timeout : BOOLEAN, stall : BOOLEAN, limit : BOOLEAN]
  /\ IsFiniteSet(Streams)
  /\ Lines \in Nat /\ PipeCap \in Nat \ {0} /\ OutputCap \in Nat
  /\ Nextest \in BOOLEAN /\ Watching \in BOOLEAN

VARIABLES
  attempt,     \* the Attempt: which of its parts are Some
  suite,       \* what the suite does by itself: "green", "red" or "crash"
  child,       \* the leader of the subtree
  code,        \* what it exited with
  writers,     \* who holds the write end of each stream
  pipe,        \* the lines in each pipe
  written,     \* how many lines were written to each stream
  said,        \* a failure announcement has been written
  exhausted,   \* the platform recorded that the ceiling fired
  failed,      \* Progress.failed is Some
  silent,      \* nothing was heard for longer than the stall budget
  late,        \* the deadline has passed
  generation,  \* Pulse.generation
  reader,      \* each reader thread
  lost,        \* history: the streams whose reader never started or failed to read
  drained,     \* the channel the readers hand their text back over
  pc, seen,    \* the waiting thread, and the generation it last saw
  text,        \* what collected has gathered
  verdict      \* what run_with returned, or "none"

workload == <<suite, child, code, writers, pipe, written, said, exhausted>>
progress == <<failed, silent>>
waiting  == <<pc, seen, text, verdict>>
vars     == <<attempt, workload, progress, late, generation, reader, lost,
              drained, waiting>>

-----------------------------------------------------------------------------
(***************************************************************************)
(* The workload.  "kin" and "escapee" are descendants that inherited the   *)
(* pipes; an escapee has left the containment.                             *)
(***************************************************************************)
Closed(s)   == reader[s].pc \in {"refused", "end", "ended", "gone"}
ChildOf(ws) == [s \in Streams |-> ws[s] \ {"child"}]
Running     == child = "running"

ExitWith(c) ==
  /\ child' = "exiting"
  /\ code' = c
  /\ writers' = ChildOf(writers)
  /\ UNCHANGED <<suite, pipe, written, said, exhausted>>

\* The codes the workload may end with of its own accord.
Codes ==
  (CASE suite = "green" -> {"ok"}
     [] suite = "red"   -> IF said THEN {"failed"} ELSE {}
     [] suite = "crash" -> IF Nextest THEN {"failed", "notests", "nolist", "signal"}
                                      ELSE {"failed"})
    \union (IF exhausted THEN {"failed", "signal"} ELSE {})

Write(s) ==
  /\ Running /\ ~Closed(s)
  /\ written[s] < Lines /\ Len(pipe[s]) < PipeCap
  /\ \E line \in {"plain"} \union (IF suite = "red" THEN {"fail"} ELSE {}) :
       /\ pipe' = [pipe EXCEPT ![s] = Append(@, line)]
       /\ said' = (said \/ line = "fail")
  /\ written' = [written EXCEPT ![s] = @ + 1]
  /\ UNCHANGED <<suite, child, code, writers, exhausted>>

\* Writing to a pipe whose read end was dropped fails, and the harness with it:
\* libtest exits as a failing suite does, nextest with a code of its own.
WriteFails(s) ==
  /\ Running /\ Closed(s) /\ written[s] < Lines
  /\ ExitWith(IF Nextest THEN "signal" ELSE "failed")

Exit == Running /\ \E c \in Codes : ExitWith(c)

\* The exit becomes observable only after the descriptors were closed.
Zombie ==
  /\ child = "exiting"
  /\ child' = "zombie"
  /\ UNCHANGED <<suite, code, writers, pipe, written, said, exhausted>>

Fork(heir) ==
  /\ Running
  /\ \E s \in Streams : heir \notin writers[s]
  /\ writers' = [s \in Streams |-> writers[s] \union {heir}]
  /\ UNCHANGED <<suite, child, code, pipe, written, said, exhausted>>

HeirExits(heir) ==
  /\ \E s \in Streams : heir \in writers[s]
  /\ writers' = [s \in Streams |-> writers[s] \ {heir}]
  /\ UNCHANGED <<suite, child, code, pipe, written, said, exhausted>>

Exhaust ==
  /\ Running /\ attempt.limit /\ ~exhausted
  /\ exhausted' = TRUE
  /\ UNCHANGED <<suite, child, code, writers, pipe, written, said>>

Perform == Exit \/ Zombie \/ \E s \in Streams : Write(s) \/ WriteFails(s)

Workload ==
  /\ \/ Perform \/ Exhaust
     \/ \E heir \in {"kin", "escapee"} : Fork(heir) \/ HeirExits(heir)
  /\ UNCHANGED <<attempt, progress, late, generation, reader, lost, drained, waiting>>

\* The clock: the deadline passes, or the silence outlasts the stall budget.
Late ==
  /\ attempt.timeout /\ ~late /\ pc \notin {"launch", "adopt", "readers"}
  /\ late' = TRUE
  /\ UNCHANGED <<attempt, workload, progress, generation, reader, lost, drained, waiting>>

FallSilent ==
  /\ attempt.stall /\ ~silent
  /\ silent' = TRUE
  /\ UNCHANGED <<attempt, workload, failed, late, generation, reader, lost, drained, waiting>>

-----------------------------------------------------------------------------
(***************************************************************************)
(* A reader thread: drain, Progress::heard, and Pulse::signal.             *)
(***************************************************************************)
ReaderAt(s, label) == reader' = [reader EXCEPT ![s].pc = label]

\* Mutant of Keep: text that was cut off at the cap still passes for whole.
KeepSilently(r, line, label) ==
  IF r.kept < OutputCap
  THEN [pc |-> label, kept |-> r.kept + 1, named |-> r.named \/ line = "fail", whole |-> r.whole]
  ELSE [r EXCEPT !.pc = label]

\* The excess over the cap is read and discarded, and the text is not whole.
Keep(r, line, label) ==
  IF r.kept < OutputCap
  THEN [pc |-> label, kept |-> r.kept + 1, named |-> r.named \/ line = "fail", whole |-> r.whole]
  ELSE [r EXCEPT !.pc = label, !.whole = FALSE]

Read(s) ==
  /\ reader[s].pc = "read" /\ pipe[s] # <<>>
  /\ LET line == Head(pipe[s])
         announces == Watching /\ line = "fail"
     IN  /\ failed' = (failed \/ announces)
         /\ reader' = [reader EXCEPT ![s] =
                         Keep(@, line, IF announces /\ ~failed THEN "bump" ELSE "read")]
  /\ silent' = FALSE
  /\ pipe' = [pipe EXCEPT ![s] = Tail(@)]
  /\ UNCHANGED <<attempt, suite, child, code, writers, written, said, exhausted,
                 late, generation, lost, drained, waiting>>

HandBack(s, whole) ==
  /\ drained' = Append(drained, [named |-> reader[s].named, whole |-> whole])
  /\ ReaderAt(s, "end")
  /\ UNCHANGED <<attempt, workload, progress, late, generation, waiting>>

\* Mutant of EndOfStream: the reader stops once it has kept all it may.
StopsAtCap(s) ==
  /\ reader[s].pc = "read"
  /\ (pipe[s] = <<>> /\ writers[s] = {}) \/ reader[s].kept = OutputCap
  /\ HandBack(s, reader[s].whole)
  /\ UNCHANGED lost

EndOfStream(s) ==
  /\ reader[s].pc = "read" /\ pipe[s] = <<>> /\ writers[s] = {}
  /\ HandBack(s, reader[s].whole)
  /\ UNCHANGED lost

ReadFails(s) ==
  /\ reader[s].pc = "read"
  /\ HandBack(s, FALSE)
  /\ lost' = lost \union {s}

\* Mutant of Bump: the generation stays.
BumpNothing(s) ==
  /\ reader[s].pc \in {"bump", "end"}
  /\ ReaderAt(s, IF reader[s].pc = "bump" THEN "notify" ELSE "ended")
  /\ UNCHANGED <<attempt, workload, progress, late, generation, lost, drained, waiting>>

\* Pulse::signal, first half: the generation moves on under its lock.
Bump(s) ==
  /\ reader[s].pc \in {"bump", "end"}
  /\ generation' = generation + 1
  /\ ReaderAt(s, IF reader[s].pc = "bump" THEN "notify" ELSE "ended")
  /\ UNCHANGED <<attempt, workload, progress, late, lost, drained, waiting>>

\* Pulse::signal, second half: notify_all.  The thread ends and drops its sender.
Notify(s) ==
  /\ reader[s].pc \in {"notify", "ended"}
  /\ ReaderAt(s, IF reader[s].pc = "notify" THEN "read" ELSE "gone")
  /\ pc' = IF pc = "asleep" THEN "seen" ELSE pc
  /\ UNCHANGED <<attempt, workload, progress, late, generation, lost, drained,
                 seen, text, verdict>>

Reader(s) == Read(s) \/ EndOfStream(s) \/ Bump(s) \/ Notify(s)

-----------------------------------------------------------------------------
(***************************************************************************)
(* The waiting thread.                                                     *)
(***************************************************************************)
Return(v) == pc' = "done" /\ verdict' = v

\* ProcessTree::observe and terminate: everything contained is killed, and the
\* leader reaped.
Reaped == /\ child' = "reaped"
          /\ writers' = [s \in Streams |-> writers[s] \intersect {"escapee"}]
          /\ UNCHANGED <<suite, code, pipe, written, said, exhausted>>

\* launcher and spawn_patiently: the binary runs, or the run is given up.
Launch ==
  /\ pc = "launch"
  /\ \/ /\ child' = "running"
        /\ writers' = [s \in Streams |-> {"child"}]
        /\ pc' = "adopt" /\ UNCHANGED verdict
     \/ /\ \E v \in {"Unmetered", "Unjudged"} : Return(v)
        /\ UNCHANGED <<child, writers>>
  /\ UNCHANGED <<attempt, suite, code, pipe, written, said, exhausted, progress, late,
                 generation, reader, lost, drained, seen, text>>

Adopt ==
  /\ pc = "adopt"
  /\ \/ pc' = "readers" /\ UNCHANGED <<verdict, workload>>
     \/ Return("Unjudged") /\ Reaped
  /\ UNCHANGED <<attempt, progress, late, generation, reader, lost, drained, seen, text>>

\* readers: a thread per stream, or for one that cannot be started an empty,
\* partial text and a signal.
StartReaders ==
  /\ pc = "readers"
  /\ \E refused \in SUBSET Streams :
       /\ reader' = [s \in Streams |->
                       [reader[s] EXCEPT !.pc = IF s \in refused THEN "refused" ELSE "read"]]
       /\ lost' = refused
       /\ drained' = [i \in 1..Cardinality(refused) |-> [named |-> FALSE, whole |-> FALSE]]
       /\ generation' = generation + Cardinality(refused)
  /\ pc' = "seen"
  /\ UNCHANGED <<attempt, workload, progress, late, seen, text, verdict>>

\* Pulse::seen, before the child is asked after.
See ==
  /\ pc = "seen"
  /\ seen' = generation
  /\ pc' = "ask"
  /\ UNCHANGED <<attempt, workload, progress, late, generation, reader, lost, drained,
                 text, verdict>>

\* Mutant of Ask: the subtree of a finished child is not swept before the drain.
AskUnswept ==
  /\ pc = "ask"
  /\ IF child = "zombie" THEN child' = "reaped" /\ pc' = "drain"
                         ELSE pc' = "failure" /\ UNCHANGED child
  /\ UNCHANGED <<attempt, suite, code, writers, pipe, written, said, exhausted, progress,
                 late, generation, reader, lost, drained, seen, text, verdict>>

Ask ==
  /\ pc = "ask"
  /\ IF child = "zombie" THEN Reaped /\ pc' = "drain"
                         ELSE pc' = "failure" /\ UNCHANGED workload
  /\ UNCHANGED <<attempt, progress, late, generation, reader, lost, drained, seen, text,
                 verdict>>

\* The child can no longer be observed: it is ended, the readers are drained.
AskFails ==
  /\ pc = "ask"
  /\ Reaped
  /\ pc' = "discard"
  /\ UNCHANGED <<attempt, progress, late, generation, reader, lost, drained, seen, text,
                 verdict>>

Ceiling == attempt.limit /\ exhausted

\* cut_short: end the subtree, then read the accounting.
CutShort(v) == Reaped /\ Return(v)

CheckFailure ==
  /\ pc = "failure"
  /\ IF failed THEN CutShort("Failed")
               ELSE pc' = "budgets" /\ UNCHANGED <<workload, verdict>>
  /\ UNCHANGED <<attempt, progress, late, generation, reader, lost, drained, seen, text>>

CheckBudgets ==
  /\ pc = "budgets"
  /\ IF silent \/ late
     THEN CutShort(IF Ceiling THEN "MemoryLimit" ELSE IF silent THEN "Stalled" ELSE "TimedOut")
     ELSE pc' = "wait" /\ UNCHANGED <<workload, verdict>>
  /\ UNCHANGED <<attempt, progress, late, generation, reader, lost, drained, seen, text>>

\* Mutant of Wait: it sleeps without looking at the generation.
WaitBlindly ==
  /\ pc = "wait"
  /\ pc' = "asleep"
  /\ UNCHANGED <<attempt, workload, progress, late, generation, reader, lost, drained,
                 seen, text, verdict>>

\* Pulse::wait: at once if the generation moved on, else asleep until notified.
Wait ==
  /\ pc = "wait"
  /\ pc' = IF generation # seen THEN "seen" ELSE "asleep"
  /\ UNCHANGED <<attempt, workload, progress, late, generation, reader, lost, drained,
                 seen, text, verdict>>

\* Mutant of WakeUp: the wait has no cap.
NeverWakes == FALSE /\ UNCHANGED vars

\* WAIT_CAP, the rest of the deadline or of the stall budget has elapsed.
WakeUp ==
  /\ pc = "asleep"
  /\ pc' = "seen"
  /\ UNCHANGED <<attempt, workload, progress, late, generation, reader, lost, drained,
                 seen, text, verdict>>

\* Mutant of Collected: running out of grace passes for a disconnect.
CollectedAnyway(ended) == text' = text

\* Only a disconnect says that every reader has sent its text.
Collected(ended) == text' = [text EXCEPT !.whole = @ /\ ended]

\* collected: take a text, or end at a disconnect or out of grace.
Collect ==
  /\ pc \in {"drain", "discard"}
  /\ \/ /\ drained # <<>>
        /\ text' = [named |-> text.named \/ Head(drained).named,
                    whole |-> text.whole /\ Head(drained).whole]
        /\ drained' = Tail(drained)
        /\ UNCHANGED <<pc, verdict>>
     \/ /\ drained = <<>>
        /\ Collected(\A s \in Streams : reader[s].pc \in {"gone", "refused"})
        /\ IF pc = "drain" THEN pc' = "judge" /\ UNCHANGED verdict
                           ELSE Return("Unjudged")
        /\ UNCHANGED drained
  /\ UNCHANGED <<attempt, workload, progress, late, generation, reader, lost, seen>>

Settle ==
  IF ~Nextest \/ code = "failed" THEN IF text.named THEN "Failed" ELSE "FailedUnnamed"
  ELSE IF code = "nolist" /\ attempt.active THEN "TestEnumerationFailed"
  ELSE "Unmetered"

PreferNamed(v) == IF Ceiling /\ v = "FailedUnnamed" THEN "MemoryLimit" ELSE v

Judge ==
  /\ pc = "judge"
  /\ Return(IF code = "ok" THEN "Passed" ELSE PreferNamed(Settle))
  /\ UNCHANGED <<attempt, workload, progress, late, generation, reader, lost, drained,
                 seen, text>>

Waiter == \/ Launch \/ Adopt \/ StartReaders \/ See \/ Ask \/ CheckFailure
          \/ CheckBudgets \/ Wait \/ WakeUp \/ Collect \/ Judge

-----------------------------------------------------------------------------
Init ==
  /\ attempt \in Attempts
  /\ suite \in {"green", "red", "crash"}
  /\ child = "unborn" /\ code = "none"
  /\ writers = [s \in Streams |-> {}]
  /\ pipe = [s \in Streams |-> <<>>]
  /\ written = [s \in Streams |-> 0]
  /\ said = FALSE /\ exhausted = FALSE
  /\ failed = FALSE /\ silent = FALSE /\ late = FALSE
  /\ generation = 0
  /\ reader = [s \in Streams |-> [pc |-> "none", kept |-> 0, named |-> FALSE, whole |-> TRUE]]
  /\ lost = {}
  /\ drained = <<>>
  /\ pc = "launch" /\ seen = 0
  /\ text = [named |-> FALSE, whole |-> TRUE]
  /\ verdict = "none"

Next ==
  \/ Workload \/ Late \/ FallSilent
  \/ \E s \in Streams : Reader(s) \/ ReadFails(s)
  \/ Waiter \/ AskFails

Spec == Init /\ [][Next]_vars

\* The threads of the run are scheduled and the clock goes on; the workload may
\* hang, except that an exit under way completes.
Fairness ==
  /\ WF_vars(Waiter)
  /\ \A s \in Streams : WF_vars(Reader(s))
  /\ WF_vars(Late)
  /\ WF_vars(Zombie /\ Workload)

FairSpec == Spec /\ Fairness

-----------------------------------------------------------------------------
Verdicts == {"Passed", "Failed", "FailedUnnamed", "MemoryLimit", "TimedOut", "Stalled",
             "Unmetered", "Unjudged", "TestEnumerationFailed"}

\* Every variable stays within its type.
TypeOK ==
  /\ attempt \in Attempts
  /\ suite \in {"green", "red", "crash"}
  /\ child \in {"unborn", "running", "exiting", "zombie", "reaped"}
  /\ code \in {"none", "ok", "failed", "notests", "nolist", "signal"}
  /\ writers \in [Streams -> SUBSET {"child", "kin", "escapee"}]
  /\ pipe \in [Streams -> Seq({"plain", "fail"})]
  /\ written \in [Streams -> 0..Lines]
  /\ said \in BOOLEAN /\ exhausted \in BOOLEAN
  /\ failed \in BOOLEAN /\ silent \in BOOLEAN /\ late \in BOOLEAN
  /\ generation \in Nat /\ seen \in Nat
  /\ reader \in [Streams -> [pc : {"none", "read", "bump", "notify", "end", "ended", "gone", "refused"},
                             kept : 0..OutputCap, named : BOOLEAN, whole : BOOLEAN]]
  /\ lost \in SUBSET Streams
  /\ drained \in Seq([named : BOOLEAN, whole : BOOLEAN])
  /\ pc \in {"launch", "adopt", "readers", "seen", "ask", "failure", "budgets", "wait",
             "asleep", "drain", "discard", "judge", "done"}
  /\ text \in [named : BOOLEAN, whole : BOOLEAN]
  /\ verdict \in Verdicts \union {"none"}

\* The wakeup is not lost: a waiter asleep on a run whose failure was announced has
\* a reader on its way to wake it (hubs.rs: a generation counter rather than a flag).
AnnouncedFailureWakes ==
  (pc = "asleep" /\ failed) => \E s \in Streams : reader[s].pc \in {"bump", "notify"}

\* A kill without a name on text that was not reported as partial really had none to
\* read: the workload announced no failure (verdict.rs: collected, announce_partial).
UnnamedIsUnannounced ==
  (pc = "done" /\ verdict = "FailedUnnamed" /\ text.whole) => ~said

\* A suite that is green is only ever called failing when a stream of its output was
\* lost, so that it wrote to a closed pipe (verdict.rs: drain reads past the cap).
GreenFailsOnlyUnread ==
  (suite = "green" /\ verdict \in {"Failed", "FailedUnnamed"}) => lost # {}

\* A reader left behind by a run that has ended is held by a descendant that escaped
\* the containment, and by nothing else (hubs.rs: Readers).
StrandedByEscapeOnly ==
  pc = "done" => \A s \in Streams : writers[s] \subseteq {"escapee"}

\* A run always ends: with a deadline whatever the workload does, and without one as
\* soon as the workload has exited.
RunReturns ==
  /\ attempt.timeout ~> pc = "done"
  /\ (child = "zombie") ~> (pc = "done")
=============================================================================
