-------------------------- MODULE ObservationProofs --------------------------
(***************************************************************************)
(* What Observation keeps for every set of streams, every capacity of the  *)
(* pipes and of the kept text, and every amount of output.  Each theorem   *)
(* rests on the type invariant and on a conjunction of named parts.        *)
(***************************************************************************)
EXTENDS Observation, FiniteSetTheorems, SequenceTheorems, TLAPS

Readers == [pc : {"none", "read", "bump", "notify", "end", "ended", "gone", "refused"},
            kept : 0..OutputCap, named : BOOLEAN, whole : BOOLEAN]
Texts   == [named : BOOLEAN, whole : BOOLEAN]
Holders == {"child", "kin", "escapee"}

-----------------------------------------------------------------------------
(***************************************************************************)
(* Types.                                                                  *)
(***************************************************************************)

\* What the workload does keeps the types.
LEMMA WorkloadTyped == ASSUME TypeOK, Workload PROVE TypeOK'
<1> USE ObservationAssumption
<1> DEFINE Rest == UNCHANGED <<attempt, progress, late, generation, reader, lost,
                               drained, waiting>>
<1>1. CASE Exit
  <2>1. PICK c \in Codes : ExitWith(c)
    BY <1>1 DEF Exit
  <2>2. c \in {"ok", "failed", "notests", "nolist", "signal"}
    BY DEF Codes, TypeOK
  <2> QED
    BY <2>1, <2>2 DEF Workload, ExitWith, ChildOf, TypeOK, progress, waiting
<1>2. CASE Zombie
  BY <1>2 DEF Workload, Zombie, TypeOK, progress, waiting
<1>3. CASE \E s \in Streams : Write(s)
  <2>1. PICK s \in Streams : Write(s)
    BY <1>3
  <2>2. PICK line \in {"plain"} \union (IF suite = "red" THEN {"fail"} ELSE {}) :
          /\ pipe' = [pipe EXCEPT ![s] = Append(@, line)]
          /\ said' = (said \/ line = "fail")
    BY <2>1 DEF Write
  <2>3. pipe' \in [Streams -> Seq({"plain", "fail"})] /\ said' \in BOOLEAN
    BY <2>2 DEF TypeOK
  <2>4. written' \in [Streams -> 0..Lines]
    <3>1. written[s] \in 0..Lines /\ written[s] < Lines
      BY <2>1 DEF Write, TypeOK
    <3>2. written[s] + 1 \in 0..Lines
      BY <3>1
    <3> QED
      BY <2>1, <3>2 DEF Write, TypeOK
  <2> QED
    BY <2>1, <2>3, <2>4 DEF Workload, Write, TypeOK, progress, waiting
<1>4. CASE \E s \in Streams : WriteFails(s)
  BY <1>4 DEF Workload, WriteFails, ExitWith, ChildOf, TypeOK, progress, waiting
<1>5. CASE Exhaust
  BY <1>5 DEF Workload, Exhaust, TypeOK, progress, waiting
<1>6. CASE \E heir \in {"kin", "escapee"} : Fork(heir)
  BY <1>6 DEF Workload, Fork, TypeOK, progress, waiting
<1>7. CASE \E heir \in {"kin", "escapee"} : HeirExits(heir)
  BY <1>7 DEF Workload, HeirExits, TypeOK, progress, waiting
<1> QED
  BY <1>1, <1>2, <1>3, <1>4, <1>5, <1>6, <1>7 DEF Workload, Perform

\* What a reader keeps of a line leaves its record in its type.
LEMMA KeepTyped ==
  ASSUME NEW r \in Readers, NEW line \in {"plain", "fail"}, NEW label \in {"bump", "read"}
  PROVE  Keep(r, line, label) \in Readers
<1>1. CASE r.kept < OutputCap
  <2>1. r.kept + 1 \in 0..OutputCap
    BY <1>1, ObservationAssumption DEF Readers
  <2> QED
    BY <1>1, <2>1 DEF Keep, Readers
<1>2. CASE ~(r.kept < OutputCap)
  BY <1>2 DEF Keep, Readers
<1> QED
  BY <1>1, <1>2

\* What a reader does keeps the types.
LEMMA ReaderTyped ==
  ASSUME TypeOK, NEW s \in Streams, Reader(s) \/ ReadFails(s)
  PROVE  TypeOK'
<1> USE ObservationAssumption
<1>0. reader \in [Streams -> Readers]
  BY DEF TypeOK, Readers
<1>1. CASE Read(s)
  <2>1. pipe[s] \in Seq({"plain", "fail"}) /\ pipe[s] # <<>>
    BY <1>1 DEF Read, TypeOK
  <2>2. Head(pipe[s]) \in {"plain", "fail"} /\ Tail(pipe[s]) \in Seq({"plain", "fail"})
    BY <2>1
  <2> DEFINE label == IF (Watching /\ Head(pipe[s]) = "fail") /\ ~failed THEN "bump" ELSE "read"
  <2>3. Keep(reader[s], Head(pipe[s]), label) \in Readers
    BY <1>0, <2>2, KeepTyped
  <2>4. reader' = [reader EXCEPT ![s] = Keep(reader[s], Head(pipe[s]), label)]
    BY <1>1, <1>0 DEF Read
  <2>5. reader' \in [Streams -> Readers]
    BY <1>0, <2>3, <2>4
  <2>6. pipe' \in [Streams -> Seq({"plain", "fail"})]
    BY <1>1, <2>2 DEF Read, TypeOK
  <2>7. failed' \in BOOLEAN
    BY <1>1 DEF Read, TypeOK
  <2>8. silent' = FALSE /\ UNCHANGED <<attempt, suite, child, code, writers, written, said,
                                       exhausted, late, generation, lost, drained, waiting>>
    BY <1>1 DEF Read
  <2>9. /\ attempt' \in Attempts
        /\ suite' \in {"green", "red", "crash"}
        /\ child' \in {"unborn", "running", "exiting", "zombie", "reaped"}
        /\ code' \in {"none", "ok", "failed", "notests", "nolist", "signal"}
        /\ writers' \in [Streams -> SUBSET {"child", "kin", "escapee"}]
        /\ written' \in [Streams -> 0..Lines]
        /\ said' \in BOOLEAN /\ exhausted' \in BOOLEAN
        /\ silent' \in BOOLEAN /\ late' \in BOOLEAN
    BY <2>8 DEF TypeOK
  <2>10. /\ generation' \in Nat /\ seen' \in Nat
         /\ lost' \in SUBSET Streams
         /\ drained' \in Seq([named : BOOLEAN, whole : BOOLEAN])
         /\ pc' = pc
         /\ text' \in [named : BOOLEAN, whole : BOOLEAN]
         /\ verdict' \in Verdicts \union {"none"}
    BY <2>8 DEF TypeOK, waiting
  <2> QED
    BY <2>5, <2>6, <2>7, <2>9, <2>10, Zenon DEF TypeOK, Readers
<1>2. ASSUME NEW w \in BOOLEAN, HandBack(s, w), lost' \in SUBSET Streams
      PROVE  TypeOK'
  <2>1. reader[s].named \in BOOLEAN
    BY <1>0 DEF Readers
  <2>2. drained' \in Seq(Texts)
    BY <1>2, <2>1 DEF HandBack, TypeOK, Texts
  <2>3. reader' \in [Streams -> Readers]
    BY <1>0, <1>2 DEF HandBack, ReaderAt, Readers
  <2> QED
    BY <1>2, <2>2, <2>3 DEF HandBack, TypeOK, Readers, Texts, workload, progress, waiting
<1>3. CASE EndOfStream(s)
  BY <1>0, <1>2, <1>3 DEF EndOfStream, Readers, TypeOK
<1>4. CASE ReadFails(s)
  BY <1>2, <1>4 DEF ReadFails, TypeOK
<1>5. CASE Bump(s)
  <2>1. reader' \in [Streams -> Readers]
    BY <1>0, <1>5 DEF Bump, ReaderAt, Readers
  <2> QED
    BY <1>5, <2>1 DEF Bump, TypeOK, Readers, workload, progress, waiting
<1>6. CASE Notify(s)
  <2>1. reader' \in [Streams -> Readers]
    BY <1>0, <1>6 DEF Notify, ReaderAt, Readers
  <2> QED
    BY <1>6, <2>1 DEF Notify, TypeOK, Readers, workload, progress
<1> QED
  BY <1>1, <1>3, <1>4, <1>5, <1>6 DEF Reader

\* What the waiting thread does keeps the types.
LEMMA WaiterTyped == ASSUME TypeOK, Waiter \/ AskFails PROVE TypeOK'
<1> USE ObservationAssumption
<1>0. ASSUME Reaped
      PROVE  /\ child' = "reaped" /\ writers' \in [Streams -> SUBSET Holders]
             /\ UNCHANGED <<suite, code, pipe, written, said, exhausted>>
  BY <1>0 DEF Reaped, TypeOK, Holders
<1>1. CASE Launch
  BY <1>1 DEF Launch, Return, TypeOK, Verdicts, progress
<1>2. CASE Adopt
  BY <1>0, <1>2 DEF Adopt, Return, TypeOK, Verdicts, Holders, workload, progress
<1>3. CASE StartReaders
  <2>1. PICK refused \in SUBSET Streams :
          /\ reader' = [s \in Streams |->
                          [reader[s] EXCEPT !.pc = IF s \in refused THEN "refused" ELSE "read"]]
          /\ lost' = refused
          /\ drained' = [i \in 1..Cardinality(refused) |-> [named |-> FALSE, whole |-> FALSE]]
          /\ generation' = generation + Cardinality(refused)
    BY <1>3 DEF StartReaders
  <2>2. Cardinality(refused) \in Nat
    BY FS_Subset, FS_CardinalityType
  <2>3. drained' \in Seq(Texts)
    <3>1. [named |-> FALSE, whole |-> FALSE] \in Texts
      BY DEF Texts
    <3>2. drained' \in [1..Cardinality(refused) -> Texts]
      BY <2>1, <3>1
    <3> QED
      BY <2>2, <3>2, SeqDef
  <2>4. reader' \in [Streams -> Readers]
    <3>1. ASSUME NEW s \in Streams, NEW to \in {"refused", "read"}
          PROVE  [reader[s] EXCEPT !.pc = to] \in Readers
      <4>1. reader[s] \in Readers
        BY DEF TypeOK, Readers
      <4> QED
        BY <4>1 DEF Readers
    <3> QED
      BY <2>1, <3>1
  <2>5. generation' \in Nat
    BY <2>1, <2>2 DEF TypeOK
  <2>6. pc' = "seen" /\ lost' \in SUBSET Streams
          /\ UNCHANGED <<attempt, workload, progress, late, seen, text, verdict>>
    BY <1>3, <2>1 DEF StartReaders
  <2> QED
    BY <2>3, <2>4, <2>5, <2>6 DEF TypeOK, Readers, Texts, workload, progress
<1>4. CASE See
  BY <1>4 DEF See, TypeOK, workload, progress
<1>5. CASE Ask
  BY <1>0, <1>5 DEF Ask, TypeOK, Holders, workload, progress
<1>6. CASE CheckFailure
  BY <1>0, <1>6 DEF CheckFailure, CutShort, Return, TypeOK, Verdicts, Holders, workload, progress
<1>7. CASE CheckBudgets
  BY <1>0, <1>7 DEF CheckBudgets, CutShort, Return, TypeOK, Verdicts, Holders, workload, progress
<1>8. CASE Wait
  BY <1>8 DEF Wait, TypeOK, workload, progress
<1>9. CASE WakeUp
  BY <1>9 DEF WakeUp, TypeOK, workload, progress
<1>10. CASE Collect
  <2>1. CASE drained # <<>>
    <3>0. drained \in Seq(Texts)
      BY DEF TypeOK, Texts
    <3>1. Head(drained) \in Texts /\ Tail(drained) \in Seq(Texts)
      BY <2>1, <3>0
    <3>2. /\ drained' = Tail(drained)
          /\ text' = [named |-> text.named \/ Head(drained).named,
                      whole |-> text.whole /\ Head(drained).whole]
          /\ UNCHANGED <<pc, verdict, attempt, workload, progress, late, generation, reader,
                         lost, seen>>
      BY <1>10, <2>1 DEF Collect
    <3>3. text' \in Texts
      BY <3>1, <3>2 DEF Texts, TypeOK
    <3> QED
      BY <3>1, <3>2, <3>3 DEF TypeOK, Texts, workload, progress
  <2>2. CASE drained = <<>>
    <3>1. text' \in Texts
      BY <1>10, <2>2 DEF Collect, Collected, TypeOK, Texts
    <3> QED
      BY <1>10, <2>2, <3>1 DEF Collect, Return, TypeOK, Texts, Verdicts, workload, progress
  <2> QED
    BY <2>1, <2>2
<1>11. CASE Judge
  BY <1>11 DEF Judge, Return, Settle, PreferNamed, TypeOK, Verdicts, workload, progress
<1>12. CASE AskFails
  BY <1>0, <1>12 DEF AskFails, TypeOK, Holders, progress
<1> QED
  BY <1>1, <1>2, <1>3, <1>4, <1>5, <1>6, <1>7, <1>8, <1>9, <1>10, <1>11, <1>12 DEF Waiter

\* Every variable of an observed run keeps its type, whatever the workload does.
THEOREM TypeCorrect == Spec => []TypeOK
<1>1. Init => TypeOK
  <2> SUFFICES ASSUME Init PROVE TypeOK
    OBVIOUS
  <2>1. reader \in [Streams -> Readers]
    BY ObservationAssumption DEF Init, Readers
  <2>2. pipe \in [Streams -> Seq({"plain", "fail"})] /\ drained \in Seq(Texts)
    BY DEF Init
  <2>3. text \in Texts
    BY DEF Init, Texts
  <2>4. writers \in [Streams -> SUBSET {"child", "kin", "escapee"}] /\ written \in [Streams -> 0..Lines]
    BY ObservationAssumption DEF Init
  <2> QED
    BY <2>1, <2>2, <2>3, <2>4 DEF Init, TypeOK, Readers, Texts
<1>2. TypeOK /\ [Next]_vars => TypeOK'
  <2> SUFFICES ASSUME TypeOK, [Next]_vars PROVE TypeOK'
    OBVIOUS
  <2>1. CASE Workload
    BY <2>1, WorkloadTyped
  <2>2. CASE Late
    BY <2>2 DEF Late, TypeOK, workload, progress, waiting
  <2>3. CASE FallSilent
    BY <2>3 DEF FallSilent, TypeOK, workload, waiting
  <2>4. CASE \E s \in Streams : Reader(s) \/ ReadFails(s)
    BY <2>4, ReaderTyped
  <2>5. CASE Waiter \/ AskFails
    BY <2>5, WaiterTyped
  <2>6. CASE UNCHANGED vars
    BY <2>6 DEF vars, TypeOK, workload, progress, waiting
  <2> QED
    BY <2>1, <2>2, <2>3, <2>4, <2>5, <2>6 DEF Next
<1> QED
  BY <1>1, <1>2, PTL DEF Spec

-----------------------------------------------------------------------------
(***************************************************************************)
(* The wakeup.  A failure published after the waiter last looked is on a   *)
(* reader that has still to signal, or has moved the generation past what  *)
(* the waiter saw; and if the waiter went to sleep before that, the        *)
(* notification is still to come.                                          *)
(***************************************************************************)
Signalled ==
  \/ \E s \in Streams : reader[s].pc = "bump"
  \/ /\ generation > seen
     /\ pc = "asleep" => \E s \in Streams : reader[s].pc = "notify"

Heard ==
  /\ seen <= generation
  /\ (failed /\ pc \in {"budgets", "wait", "asleep"}) => Signalled

\* At the start no failure has been signalled.
LEMMA HeardInitially == Init => Heard
BY DEF Init, Heard

\* A reader's step keeps the wakeup on its way.
LEMMA ReaderHeard ==
  ASSUME TypeOK, Heard, NEW s \in Streams, Reader(s) \/ ReadFails(s)
  PROVE  Heard'
<1>0. /\ reader \in [Streams -> Readers] /\ generation \in Nat /\ seen \in Nat
      /\ failed \in BOOLEAN
  BY DEF TypeOK, Readers
<1>1. CASE Read(s)
  <2> DEFINE label == IF (Watching /\ Head(pipe[s]) = "fail") /\ ~failed THEN "bump" ELSE "read"
  <2>1. reader' = [reader EXCEPT ![s] = Keep(reader[s], Head(pipe[s]), label)]
    BY <1>1, <1>0 DEF Read
  <2>2. Keep(reader[s], Head(pipe[s]), label).pc = label
    BY <1>0 DEF Keep, Readers
  <2>3. reader'[s].pc = label
    BY <2>1, <2>2, <1>0
  <2>4. /\ UNCHANGED <<generation, pc, seen>> /\ reader[s].pc = "read"
        /\ failed' = (failed \/ (Watching /\ Head(pipe[s]) = "fail"))
    BY <1>1 DEF Read, waiting
  <2>5. \A r \in Streams \ {s} : reader'[r] = reader[r]
    BY <2>1, <1>0
  <2>6. CASE ~failed /\ failed'
    BY <2>3, <2>4, <2>6 DEF Heard, Signalled
  <2>7. CASE failed
    <3>1. \A r \in Streams : reader[r].pc \in {"bump", "notify"} => reader'[r].pc = reader[r].pc
      BY <2>4, <2>5
    <3> QED
      BY <2>4, <2>7, <3>1 DEF Heard, Signalled
  <2>8. CASE ~failed'
    BY <2>4, <2>8 DEF Heard
  <2> QED
    BY <2>6, <2>7, <2>8
<1>2. CASE EndOfStream(s) \/ ReadFails(s)
  <2>1. /\ UNCHANGED <<generation, failed, pc, seen>> /\ reader[s].pc = "read"
        /\ reader' = [reader EXCEPT ![s].pc = "end"]
    BY <1>2 DEF EndOfStream, ReadFails, HandBack, ReaderAt, progress, waiting
  <2>2. \A r \in Streams : reader[r].pc \in {"bump", "notify"} => reader'[r].pc = reader[r].pc
    BY <2>1, <1>0
  <2> QED
    BY <2>1, <2>2 DEF Heard, Signalled
<1>3. CASE Bump(s)
  <2>1. /\ generation' = generation + 1 /\ UNCHANGED <<failed, pc, seen>>
        /\ reader' = [reader EXCEPT ![s].pc = IF reader[s].pc = "bump" THEN "notify" ELSE "ended"]
    BY <1>3 DEF Bump, ReaderAt, progress, waiting
  <2>2. \A r \in Streams \ {s} : reader'[r].pc = reader[r].pc
    BY <2>1, <1>0
  <2>3. reader[s].pc = "bump" => reader'[s].pc = "notify"
    BY <2>1, <1>0 DEF Readers
  <2>4. reader[s].pc \in {"bump", "end"}
    BY <1>3 DEF Bump
  <2> QED
    BY <2>1, <2>2, <2>3, <2>4, <1>0 DEF Heard, Signalled
<1>4. CASE Notify(s)
  <2>1. /\ UNCHANGED <<generation, failed, seen>> /\ reader[s].pc \in {"notify", "ended"}
        /\ pc' = IF pc = "asleep" THEN "seen" ELSE pc
        /\ reader' = [reader EXCEPT ![s].pc = IF reader[s].pc = "notify" THEN "read" ELSE "gone"]
    BY <1>4 DEF Notify, ReaderAt, progress
  <2>2. \A r \in Streams \ {s} : reader'[r].pc = reader[r].pc
    BY <2>1, <1>0
  <2> QED
    BY <2>1, <2>2, <1>0 DEF Heard, Signalled
<1> QED
  BY <1>1, <1>2, <1>3, <1>4 DEF Reader

\* The waiter looks for a failure before it sleeps, and sleeps only on the generation it saw.
LEMMA WaiterHeard == ASSUME TypeOK, Heard, Waiter \/ AskFails PROVE Heard'
<1>0. generation \in Nat /\ seen \in Nat
  BY DEF TypeOK
<1>1. CASE Launch \/ Adopt \/ Ask \/ AskFails \/ Judge \/ WakeUp
  BY <1>1 DEF Launch, Adopt, Ask, AskFails, Judge, WakeUp, Return, Heard, Signalled, progress
<1>2. CASE StartReaders
  <2>1. PICK refused \in SUBSET Streams : generation' = generation + Cardinality(refused)
    BY <1>2 DEF StartReaders
  <2>2. Cardinality(refused) \in Nat
    BY FS_Subset, FS_CardinalityType, ObservationAssumption DEF ObservationAssumption
  <2>3. pc' = "seen" /\ seen' = seen
    BY <1>2 DEF StartReaders
  <2> QED
    BY <1>0, <2>1, <2>2, <2>3 DEF Heard
<1>3. CASE See
  BY <1>0, <1>3 DEF See, Heard
<1>4. CASE CheckFailure
  BY <1>4 DEF CheckFailure, CutShort, Return, Heard, progress
<1>5. CASE CheckBudgets
  BY <1>5 DEF CheckBudgets, CutShort, Return, Heard, Signalled, progress
<1>6. CASE Wait
  BY <1>0, <1>6 DEF Wait, Heard, Signalled, progress
<1>7. CASE Collect
  BY <1>7 DEF Collect, Return, Heard, progress
<1> QED
  BY <1>1, <1>2, <1>3, <1>4, <1>5, <1>6, <1>7 DEF Waiter

\* The waiter never sleeps through a failure that a reader published: whatever the
\* interleaving of its look at the generation, its look at the failure and its sleep with
\* the two halves of a signal, a notification is still to come.
THEOREM NoLostWakeup == Spec => []AnnouncedFailureWakes
<1>1. TypeOK /\ Heard /\ [Next]_vars => Heard'
  <2> SUFFICES ASSUME TypeOK, Heard, [Next]_vars PROVE Heard'
    OBVIOUS
  <2>1. CASE Workload \/ Late \/ FallSilent \/ UNCHANGED vars
    BY <2>1 DEF Workload, Late, FallSilent, vars, progress, waiting, Heard, Signalled
  <2>2. CASE \E s \in Streams : Reader(s) \/ ReadFails(s)
    BY <2>2, ReaderHeard
  <2>3. CASE Waiter \/ AskFails
    BY <2>3, WaiterHeard
  <2> QED
    BY <2>1, <2>2, <2>3 DEF Next
<1>2. TypeOK /\ Heard => AnnouncedFailureWakes
  BY DEF Heard, Signalled, AnnouncedFailureWakes
<1> QED
  BY HeardInitially, TypeCorrect, <1>1, <1>2, PTL DEF Spec

-----------------------------------------------------------------------------
(***************************************************************************)
(* Who holds the streams.                                                  *)
(***************************************************************************)
Held ==
  /\ pc = "launch" => child = "unborn"
  /\ child = "unborn" => \A s \in Streams : writers[s] = {}
  /\ child = "reaped" => \A s \in Streams : writers[s] \subseteq {"escapee"}
  /\ pc \in {"drain", "discard", "judge"} => child = "reaped"
  /\ pc = "done" => child \in {"unborn", "reaped"}

\* Once its tree is reaped, only what escaped it holds a stream.
LEMMA ReapedHeld == ASSUME TypeOK, Reaped PROVE \A s \in Streams : writers'[s] \subseteq {"escapee"}
BY DEF Reaped, TypeOK

\* No step of the workload gives a stream back to a run that has ended.
LEMMA WorkloadHeld == ASSUME TypeOK, Held, Workload PROVE Held'
<1>0. UNCHANGED pc /\ writers \in [Streams -> SUBSET Holders]
  BY DEF Workload, waiting, TypeOK, Holders
<1>1. CASE child = "running"
  <2>1. child' \in {"running", "exiting"} /\ pc' \notin {"launch", "drain", "discard", "judge", "done"}
    BY <1>0, <1>1 DEF Held, Workload, Perform, Exit, ExitWith, Zombie, Write, WriteFails,
                      Exhaust, Fork, HeirExits
  <2> QED
    BY <2>1 DEF Held
<1>2. CASE child # "running"
  <2>1. /\ \A s \in Streams : writers'[s] \subseteq writers[s]
        /\ child' = child \/ (child = "exiting" /\ child' = "zombie")
    BY <1>0, <1>2 DEF Workload, Perform, Exit, Running, Zombie, Write, WriteFails, Exhaust, Fork,
                      HeirExits
  <2> QED
    BY <1>0, <2>1 DEF Held
<1> QED
  BY <1>1, <1>2

\* The waiter ends everything contained on every path out of a run it started.
LEMMA WaiterHeld == ASSUME TypeOK, Held, Waiter \/ AskFails PROVE Held'
<1>1. CASE Launch
  BY <1>1 DEF Launch, Return, Held
<1>2. CASE Adopt
  <2>1. CASE Return("Unjudged") /\ Reaped
    BY <2>1, ReapedHeld DEF Return, Reaped, Held
  <2>2. CASE pc' = "readers" /\ UNCHANGED workload
    BY <2>2 DEF Held, workload
  <2> QED
    BY <1>2, <2>1, <2>2 DEF Adopt
<1>3. CASE StartReaders \/ See \/ Wait \/ WakeUp
  BY <1>3 DEF StartReaders, See, Wait, WakeUp, Held, workload
<1>4. CASE Ask
  <2>1. CASE Reaped /\ pc' = "drain"
    BY <2>1, ReapedHeld DEF Reaped, Held
  <2>2. CASE pc' = "failure" /\ UNCHANGED workload
    BY <2>2 DEF Held, workload
  <2> QED
    BY <1>4, <2>1, <2>2 DEF Ask
<1>5. CASE CheckFailure \/ CheckBudgets
  <2>1. CASE Reaped /\ pc' = "done"
    BY <2>1, ReapedHeld DEF Reaped, Held
  <2>2. CASE pc' \in {"budgets", "wait"} /\ UNCHANGED workload
    BY <2>2 DEF Held, workload
  <2> QED
    BY <1>5, <2>1, <2>2 DEF CheckFailure, CheckBudgets, CutShort, Return
<1>6. CASE Collect \/ Judge
  BY <1>6 DEF Collect, Judge, Return, Held, workload
<1>7. CASE AskFails
  BY <1>7, ReapedHeld DEF AskFails, Reaped, Held
<1> QED
  BY <1>1, <1>2, <1>3, <1>4, <1>5, <1>6, <1>7 DEF Waiter

\* Who may hold a stream, at each stage of the run.
LEMMA HoldersKnown == Spec => []Held
<1>1. Init => Held
  BY DEF Init, Held
<1>2. TypeOK /\ Held /\ [Next]_vars => Held'
  <2> SUFFICES ASSUME TypeOK, Held, [Next]_vars PROVE Held'
    OBVIOUS
  <2>1. CASE Workload
    BY <2>1, WorkloadHeld
  <2>2. CASE Late \/ FallSilent \/ UNCHANGED vars
    BY <2>2 DEF Late, FallSilent, vars, workload, waiting, Held
  <2>3. ASSUME NEW s \in Streams, Reader(s) \/ ReadFails(s)
        PROVE  Held'
    <3>1. UNCHANGED <<child, writers>> /\ (pc' = pc \/ (pc = "asleep" /\ pc' = "seen"))
      BY <2>3 DEF Reader, Read, EndOfStream, ReadFails, HandBack, Bump, Notify, workload, waiting
    <3> QED
      BY <3>1 DEF Held
  <2>4. CASE Waiter \/ AskFails
    BY <2>4, WaiterHeld
  <2> QED
    BY <2>1, <2>2, <2>3, <2>4 DEF Next
<1> QED
  BY TypeCorrect, <1>1, <1>2, PTL DEF Spec

\* A run that has ended, on whatever path, leaves no contained process holding a stream:
\* the only reader it can strand is held by a descendant that escaped the containment.
THEOREM OnlyEscapeesStrand == Spec => []StrandedByEscapeOnly
<1>1. Held => StrandedByEscapeOnly
  BY DEF Held, StrandedByEscapeOnly
<1> QED
  BY HoldersKnown, <1>1, PTL

-----------------------------------------------------------------------------
(***************************************************************************)
(* No green suite is convicted.  Four parts: where the waiter is says what *)
(* has happened; a reader that let go of its pipe did so after the leader  *)
(* had, or is lost; the leader of a green suite exits badly only when it   *)
(* ran out of memory or lost a stream; and nothing a green suite says      *)
(* names a failure.                                                        *)
(***************************************************************************)
Early     == {"launch", "adopt", "readers"}
Anonymous == [named : {FALSE}, whole : BOOLEAN]

Stages ==
  /\ pc = "launch" => child = "unborn"
  /\ pc \in Early => lost = {} /\ \A s \in Streams : reader[s].pc = "none"
  /\ pc # "done" => verdict = "none"
  /\ child \in {"exiting", "zombie"} => code # "none"
  /\ pc \in {"drain", "judge"} => code # "none"
  /\ exhausted => attempt.limit

Kept ==
  /\ child = "running" => \A s \in Streams : "child" \in writers[s]
  /\ \A s \in Streams : Closed(s) /\ s \notin lost => child # "running"

Blameless ==
  /\ suite = "green" /\ code \notin {"none", "ok"} => exhausted \/ lost # {}
  /\ suite = "green" /\ verdict \in {"Failed", "FailedUnnamed"} => lost # {}

Nameless ==
  suite = "green" =>
    /\ ~failed /\ ~text.named
    /\ \A s \in Streams : ~reader[s].named /\ pipe[s] \in Seq({"plain"})
    /\ drained \in Seq(Anonymous)

Green == Stages /\ Kept /\ Blameless /\ Nameless

\* At the start the workload is green.
LEMMA GreenInitially == Init => Green
BY DEF Init, Green, Stages, Kept, Blameless, Nameless, Closed, Early

\* A green suite writes no failure, and exits badly only when its memory or a stream is gone.
LEMMA WorkloadGreen == ASSUME TypeOK, Green, Workload PROVE Green'
<1>0. /\ UNCHANGED <<attempt, failed, silent, late, generation, reader, lost, drained, pc, seen,
                     text, verdict>>
      /\ suite' = suite
      /\ writers \in [Streams -> SUBSET Holders]
      /\ pipe \in [Streams -> Seq({"plain", "fail"})]
      /\ code \in {"none", "ok", "failed", "notests", "nolist", "signal"}
  BY DEF Workload, Perform, Exit, ExitWith, Zombie, Write, WriteFails, Exhaust, Fork, HeirExits,
         progress, waiting, TypeOK, Holders
<1>1. ASSUME NEW c \in {"ok", "failed", "notests", "nolist", "signal"}, Running, ExitWith(c),
             suite = "green" /\ c # "ok" => exhausted \/ lost # {}
      PROVE  Green'
  <2>1. /\ child' = "exiting" /\ code' = c
        /\ UNCHANGED <<pipe, exhausted>> /\ child = "running"
    BY <1>1 DEF ExitWith, Running
  <2>2. Stages'
    BY <1>0, <2>1 DEF Green, Stages, Early
  <2>3. Kept'
    BY <1>0, <2>1 DEF Green, Kept, Closed
  <2>4. Blameless'
    BY <1>0, <1>1, <2>1 DEF Green, Blameless
  <2>5. Nameless'
    BY <1>0, <2>1 DEF Green, Nameless
  <2> QED
    BY <2>2, <2>3, <2>4, <2>5 DEF Green
<1>2. CASE Exit
  <2>1. PICK c \in Codes : Running /\ ExitWith(c)
    BY <1>2 DEF Exit
  <2>2. /\ c \in {"ok", "failed", "notests", "nolist", "signal"}
        /\ suite = "green" /\ c # "ok" => exhausted
    BY DEF Codes, TypeOK
  <2> QED
    BY <1>1, <2>1, <2>2
<1>3. CASE \E s \in Streams : WriteFails(s)
  <2>1. PICK s \in Streams : WriteFails(s)
    BY <1>3
  <2>2. lost # {}
    BY <2>1 DEF WriteFails, Running, Green, Kept
  <2> QED
    BY <1>1, <2>1, <2>2 DEF WriteFails
<1>4. CASE \E s \in Streams : Write(s)
  <2>1. PICK s \in Streams : Write(s)
    BY <1>4
  <2>2. UNCHANGED <<child, code, writers, exhausted>> /\ child = "running"
    BY <2>1 DEF Write, Running
  <2>3. Stages' /\ Kept' /\ Blameless'
    BY <1>0, <2>2 DEF Green, Stages, Kept, Blameless, Closed, Early
  <2>4. suite = "green" => pipe' = [pipe EXCEPT ![s] = Append(pipe[s], "plain")]
    BY <2>1, <1>0 DEF Write
  <2>5. ASSUME suite = "green", NEW r \in Streams
        PROVE  pipe'[r] \in Seq({"plain"})
    <3>1. pipe[r] \in Seq({"plain"}) /\ pipe[s] \in Seq({"plain"})
      BY <2>5 DEF Green, Nameless
    <3>2. Append(pipe[s], "plain") \in Seq({"plain"})
      BY <3>1
    <3> QED
      BY <1>0, <2>4, <2>5, <3>1, <3>2
  <2>6. Nameless'
    BY <1>0, <2>5 DEF Green, Nameless
  <2> QED
    BY <2>3, <2>6 DEF Green
<1>5. CASE Zombie
  <2>1. child = "exiting" /\ child' = "zombie" /\ UNCHANGED <<code, writers, pipe, exhausted>>
    BY <1>5 DEF Zombie
  <2> QED
    BY <1>0, <2>1 DEF Green, Stages, Kept, Blameless, Nameless, Closed, Early
<1>6. CASE Exhaust
  <2>1. attempt.limit /\ exhausted' /\ UNCHANGED <<child, code, writers, pipe>>
    BY <1>6 DEF Exhaust
  <2> QED
    BY <1>0, <2>1 DEF Green, Stages, Kept, Blameless, Nameless, Closed, Early
<1>7. CASE \E heir \in {"kin", "escapee"} : Fork(heir) \/ HeirExits(heir)
  <2>1. /\ UNCHANGED <<child, code, pipe, exhausted>>
        /\ \A s \in Streams : "child" \in writers[s] => "child" \in writers'[s]
    BY <1>7 DEF Fork, HeirExits
  <2> QED
    BY <1>0, <2>1 DEF Green, Stages, Kept, Blameless, Nameless, Closed, Early
<1> QED
  BY <1>2, <1>3, <1>4, <1>5, <1>6, <1>7 DEF Workload, Perform

\* A reader lets go of its pipe at the end of the stream, or is lost; it hears no failure of
\* a green suite.
LEMMA ReaderGreen ==
  ASSUME TypeOK, Green, NEW s \in Streams, Reader(s) \/ ReadFails(s)
  PROVE  Green'
<1>0. /\ reader \in [Streams -> Readers] /\ lost \in SUBSET Streams
      /\ pipe \in [Streams -> Seq({"plain", "fail"})]
      /\ UNCHANGED <<attempt, suite, child, code, writers, exhausted, verdict, text>>
      /\ pc' = pc \/ (pc = "asleep" /\ pc' = "seen")
      /\ reader[s].pc # "none" /\ pc \notin Early
  BY DEF TypeOK, Readers, Reader, Read, EndOfStream, ReadFails, HandBack, Bump, Notify, workload,
         waiting, Green, Stages, Early
<1>1. lost \subseteq lost'
  BY DEF Reader, Read, EndOfStream, ReadFails, Bump, Notify
<1>2. Stages' /\ Blameless'
  BY <1>0, <1>1 DEF Green, Stages, Blameless, Early
<1>3. \A r \in Streams \ {s} : reader'[r] = reader[r]
  BY <1>0 DEF Reader, Read, EndOfStream, ReadFails, HandBack, ReaderAt, Bump, Notify
<1>4. Kept'
  <2>1. CASE Closed(s)
    BY <1>0, <1>1, <1>3, <2>1 DEF Green, Kept, Closed
  <2>2. CASE ~Closed(s)
    <3>1. CASE EndOfStream(s)
      BY <1>0, <1>1, <1>3, <3>1 DEF EndOfStream, Green, Kept, Closed
    <3>2. CASE ReadFails(s)
      BY <1>0, <1>1, <1>3, <3>2 DEF ReadFails, Green, Kept, Closed
    <3>3. CASE Bump(s)
      <4>1. reader[s].pc = "bump" /\ reader' = [reader EXCEPT ![s].pc = "notify"]
        BY <2>2, <3>3 DEF Bump, ReaderAt, Closed
      <4>2. reader'[s].pc = "notify"
        BY <1>0, <4>1 DEF Readers
      <4> QED
        BY <1>0, <1>1, <1>3, <4>2 DEF Green, Kept, Closed
    <3>4. CASE Notify(s)
      <4>1. reader[s].pc = "notify" /\ reader' = [reader EXCEPT ![s].pc = "read"]
        BY <2>2, <3>4 DEF Notify, ReaderAt, Closed
      <4>2. reader'[s].pc = "read"
        BY <1>0, <4>1 DEF Readers
      <4> QED
        BY <1>0, <1>1, <1>3, <4>2 DEF Green, Kept, Closed
    <3>5. CASE Read(s)
      <4>1. reader'[s].pc \in {"bump", "read"}
        BY <1>0, <3>5 DEF Read, Keep, Readers
      <4> QED
        BY <1>0, <1>1, <1>3, <4>1 DEF Green, Kept, Closed
    <3> QED
      BY <3>1, <3>2, <3>3, <3>4, <3>5 DEF Reader
  <2> QED
    BY <2>1, <2>2
<1>5. ASSUME suite = "green"
      PROVE  /\ ~failed' /\ \A r \in Streams : ~reader'[r].named /\ pipe'[r] \in Seq({"plain"})
             /\ drained' \in Seq(Anonymous)
  <2>0. /\ ~failed /\ drained \in Seq(Anonymous)
        /\ \A r \in Streams : ~reader[r].named /\ pipe[r] \in Seq({"plain"})
        /\ reader[s].named = FALSE
    BY <1>0, <1>5 DEF Green, Nameless, Readers
  <2>1. CASE Read(s)
    <3>1. Head(pipe[s]) = "plain" /\ Tail(pipe[s]) \in Seq({"plain"})
      BY <2>0, <2>1 DEF Read
    <3>2. ~failed' /\ drained' = drained /\ pipe' = [pipe EXCEPT ![s] = Tail(pipe[s])]
      BY <2>0, <2>1, <3>1 DEF Read
    <3>3. ~reader'[s].named
      BY <1>0, <2>0, <2>1, <3>1 DEF Read, Keep, Readers
    <3> QED
      BY <1>0, <1>3, <2>0, <3>1, <3>2, <3>3
  <2>2. ASSUME NEW w \in BOOLEAN, HandBack(s, w)
        PROVE  /\ drained' \in Seq(Anonymous) /\ UNCHANGED <<failed, pipe>>
               /\ reader'[s].named = reader[s].named
    <3>1. [named |-> reader[s].named, whole |-> w] \in Anonymous
      BY <2>0, <2>2 DEF Anonymous
    <3>2. drained' = Append(drained, [named |-> reader[s].named, whole |-> w])
      BY <2>2 DEF HandBack
    <3>3. drained' \in Seq(Anonymous)
      BY <2>0, <3>1, <3>2
    <3>4. UNCHANGED <<failed, pipe>> /\ reader' = [reader EXCEPT ![s].pc = "end"]
      BY <2>2 DEF HandBack, ReaderAt, workload, progress
    <3>5. reader'[s].named = reader[s].named
      BY <1>0, <3>4 DEF Readers
    <3> QED
      BY <3>3, <3>4, <3>5
  <2>3. CASE EndOfStream(s)
    BY <1>0, <1>3, <2>0, <2>2, <2>3 DEF EndOfStream, Readers
  <2>4. CASE ReadFails(s)
    BY <1>0, <1>3, <2>0, <2>2, <2>4 DEF ReadFails
  <2>5. CASE Bump(s) \/ Notify(s)
    <3>1. UNCHANGED <<failed, pipe, drained>> /\ reader'[s].named = reader[s].named
      BY <1>0, <2>5 DEF Bump, Notify, ReaderAt, workload, progress, Readers
    <3> QED
      BY <1>3, <2>0, <3>1
  <2> QED
    BY <2>1, <2>3, <2>4, <2>5 DEF Reader
<1>6. Nameless'
  BY <1>0, <1>5 DEF Green, Nameless
<1> QED
  BY <1>2, <1>4, <1>6 DEF Green

\* The waiter convicts on what the suite said or on how it exited.
LEMMA WaiterGreen == ASSUME TypeOK, Green, Waiter \/ AskFails PROVE Green'
<1>0. /\ reader \in [Streams -> Readers]
      /\ drained \in Seq(Texts) /\ text \in Texts
      /\ code \in {"none", "ok", "failed", "notests", "nolist", "signal"}
  BY DEF TypeOK, Readers, Texts
<1>1. CASE Launch
  <2>1. /\ UNCHANGED <<attempt, suite, code, pipe, exhausted, failed, reader, lost, drained, text>>
        /\ pc = "launch"
        /\ \/ /\ pc' = "adopt" /\ verdict' = verdict /\ child' = "running"
              /\ \A s \in Streams : "child" \in writers'[s]
           \/ pc' = "done" /\ verdict' \in {"Unmetered", "Unjudged"} /\ UNCHANGED <<child, writers>>
    BY <1>1 DEF Launch, Return, progress
  <2> QED
    BY <2>1 DEF Green, Stages, Kept, Blameless, Nameless, Closed, Early
<1>2. ASSUME Reaped, pc \notin {"launch", "done"},
             UNCHANGED <<attempt, failed, reader, lost, drained, text>>,
             \/ pc' = "drain" /\ code # "none" /\ verdict' = verdict
             \/ pc' = "discard" /\ verdict' = verdict
             \/ pc' = "done" /\ (suite = "green" => verdict' \notin {"Failed", "FailedUnnamed"})
      PROVE  Green'
  <2>1. child' = "reaped" /\ UNCHANGED <<suite, code, pipe, exhausted>>
    BY <1>2 DEF Reaped
  <2> QED
    BY <1>2, <2>1 DEF Green, Stages, Kept, Blameless, Nameless, Closed, Early
<1>3. ASSUME UNCHANGED <<attempt, workload, failed, reader, lost, drained, text, verdict>>,
             pc \notin {"launch", "done"}, pc' \notin {"launch", "adopt", "done", "drain"},
             pc' = "readers" => pc = "adopt",
             pc' = "judge" => pc = "drain"
      PROVE  Green'
  BY <1>3 DEF Green, Stages, Kept, Blameless, Nameless, Closed, Early, workload
<1>4. CASE Adopt
  BY <1>2, <1>3, <1>4 DEF Adopt, Return, progress
<1>5. CASE StartReaders
  <2>1. PICK refused \in SUBSET Streams :
          /\ reader' = [s \in Streams |->
                          [reader[s] EXCEPT !.pc = IF s \in refused THEN "refused" ELSE "read"]]
          /\ lost' = refused
          /\ drained' = [i \in 1..Cardinality(refused) |-> [named |-> FALSE, whole |-> FALSE]]
    BY <1>5 DEF StartReaders
  <2>2. /\ pc = "readers" /\ pc' = "seen"
        /\ UNCHANGED <<attempt, suite, child, code, writers, pipe, exhausted, failed, text, verdict>>
    BY <1>5 DEF StartReaders, workload, progress
  <2>3. \A s \in Streams : /\ reader'[s].named = reader[s].named
                           /\ reader'[s].pc = IF s \in refused THEN "refused" ELSE "read"
    BY <1>0, <2>1 DEF Readers
  <2>4. drained' \in Seq(Anonymous)
    <3>1. Cardinality(refused) \in Nat
      BY FS_Subset, FS_CardinalityType, ObservationAssumption DEF ObservationAssumption
    <3>2. drained' \in [1..Cardinality(refused) -> Anonymous]
      BY <2>1 DEF Anonymous
    <3> QED
      BY <3>1, <3>2, SeqDef
  <2>5. Stages'
    BY <2>2 DEF Green, Stages, Early
  <2>6. Kept'
    BY <2>1, <2>2, <2>3 DEF Green, Kept, Closed
  <2>7. Blameless'
    BY <2>2 DEF Green, Stages, Blameless, Early
  <2>8. Nameless'
    BY <2>2, <2>3, <2>4 DEF Green, Nameless
  <2> QED
    BY <2>5, <2>6, <2>7, <2>8 DEF Green
<1>6. CASE See \/ Wait \/ WakeUp
  BY <1>3, <1>6 DEF See, Wait, WakeUp, progress
<1>7. CASE Ask
  <2>1. child = "zombie" => code # "none"
    BY DEF Green, Stages
  <2> QED
    BY <1>2, <1>3, <1>7, <2>1 DEF Ask, progress
<1>8. CASE CheckFailure
  <2>1. suite = "green" => ~failed
    BY DEF Green, Nameless
  <2>2. suite' = suite
    BY <1>8 DEF CheckFailure, CutShort, Reaped, workload
  <2> QED
    BY <1>2, <1>3, <1>8, <2>1 DEF CheckFailure, CutShort, Return, progress
<1>9. CASE CheckBudgets
  BY <1>2, <1>3, <1>9 DEF CheckBudgets, CutShort, Return, progress
<1>10. CASE Collect
  <2>1. /\ UNCHANGED <<attempt, suite, child, code, writers, pipe, exhausted, failed, reader, lost>>
        /\ pc \in {"drain", "discard"}
        /\ \/ pc' = pc /\ verdict' = verdict
           \/ pc = "drain" /\ pc' = "judge" /\ verdict' = verdict
           \/ pc' = "done" /\ verdict' = "Unjudged"
    BY <1>10 DEF Collect, Return, workload, progress
  <2>2. Stages' /\ Kept' /\ Blameless'
    BY <2>1 DEF Green, Stages, Kept, Blameless, Closed, Early
  <2>3. ASSUME suite = "green"
        PROVE  ~text'.named /\ drained' \in Seq(Anonymous)
    <3>0. ~text.named /\ drained \in Seq(Anonymous)
      BY <2>3 DEF Green, Nameless
    <3>1. CASE drained # <<>>
      <4>1. /\ Head(drained) \in Anonymous
            /\ Tail(drained) \in Seq(Anonymous)
        BY <3>0, <3>1
      <4>2. /\ text' = [named |-> text.named \/ Head(drained).named,
                        whole |-> text.whole /\ Head(drained).whole]
            /\ drained' = Tail(drained)
        BY <1>10, <3>1 DEF Collect
      <4>3. Head(drained).named = FALSE /\ text'.named = (text.named \/ Head(drained).named)
        BY <4>1, <4>2 DEF Anonymous
      <4> QED
        BY <3>0, <4>1, <4>2, <4>3
    <3>2. CASE drained = <<>>
      <4>1. drained' = drained /\ text'.named = text.named
        BY <1>0, <1>10, <3>2 DEF Collect, Collected, Texts
      <4> QED
        BY <3>0, <4>1
    <3> QED
      BY <3>1, <3>2
  <2>4. Nameless'
    BY <2>1, <2>3 DEF Green, Nameless
  <2> QED
    BY <2>2, <2>4 DEF Green
<1>11. CASE Judge
  <2>1. /\ UNCHANGED <<attempt, suite, child, code, writers, pipe, exhausted, failed, reader, lost,
                       drained, text>>
        /\ pc = "judge" /\ pc' = "done"
        /\ verdict' = IF code = "ok" THEN "Passed" ELSE PreferNamed(Settle)
    BY <1>11 DEF Judge, Return, workload, progress
  <2>2. ASSUME suite = "green", verdict' \in {"Failed", "FailedUnnamed"}
        PROVE  lost # {}
    <3>1. code \notin {"none", "ok"} /\ ~text.named
      BY <2>1, <2>2 DEF Green, Stages, Nameless
    <3>2. Settle # "Failed"
      BY <3>1 DEF Settle
    <3>3. verdict' = "FailedUnnamed" /\ ~Ceiling
      BY <2>1, <2>2, <3>1, <3>2 DEF PreferNamed
    <3>4. ~exhausted
      BY <3>3 DEF Ceiling, Green, Stages
    <3> QED
      BY <2>2, <3>1, <3>4 DEF Green, Blameless
  <2>3. Stages' /\ Kept' /\ Nameless'
    BY <2>1 DEF Green, Stages, Kept, Nameless, Closed, Early
  <2>4. Blameless'
    BY <2>1, <2>2 DEF Green, Blameless
  <2> QED
    BY <2>3, <2>4 DEF Green
<1>12. CASE AskFails
  BY <1>2, <1>12 DEF AskFails, progress
<1> QED
  BY <1>1, <1>4, <1>5, <1>6, <1>7, <1>8, <1>9, <1>10, <1>11, <1>12 DEF Waiter

\* The four parts hold throughout.
LEMMA GreenKept == Spec => []Green
<1>1. TypeOK /\ Green /\ [Next]_vars => Green'
  <2> SUFFICES ASSUME TypeOK, Green, [Next]_vars PROVE Green'
    OBVIOUS
  <2>1. CASE Workload
    BY <2>1, WorkloadGreen
  <2>2. CASE Late \/ FallSilent \/ UNCHANGED vars
    <3>1. UNCHANGED <<attempt, suite, child, code, writers, pipe, exhausted, failed, reader, lost,
                      drained, pc, text, verdict>>
      BY <2>2 DEF Late, FallSilent, vars, workload, progress, waiting
    <3> QED
      BY <3>1 DEF Green, Stages, Kept, Blameless, Nameless, Closed, Early
  <2>3. CASE \E s \in Streams : Reader(s) \/ ReadFails(s)
    BY <2>3, ReaderGreen
  <2>4. CASE Waiter \/ AskFails
    BY <2>4, WaiterGreen
  <2> QED
    BY <2>1, <2>2, <2>3, <2>4 DEF Next
<1> QED
  BY GreenInitially, TypeCorrect, <1>1, PTL DEF Spec

\* However much it writes, whatever it forks and whenever it is asked after, a suite that is
\* green is only judged failing in a run that lost one of its streams.
THEOREM GreenNeedsLoss == Spec => []GreenFailsOnlyUnread
<1>1. Green => GreenFailsOnlyUnread
  BY DEF Green, Blameless, GreenFailsOnlyUnread
<1> QED
  BY GreenKept, <1>1, PTL

-----------------------------------------------------------------------------
(***************************************************************************)
(* Nothing that was announced gets lost unnoticed.  An announcement is in  *)
(* a pipe, or has left a mark on the reader that took it out; a reader     *)
(* that has handed its text back emptied its pipe or is lost, and passed   *)
(* its mark on; and the text that is judged has every mark.                *)
(***************************************************************************)
InPipe(s) == \E i \in 1..Len(pipe[s]) : pipe[s][i] = "fail"
Marked(s) == reader[s].named \/ ~reader[s].whole \/ s \in lost
Told      == \/ text.named \/ ~text.whole
             \/ \E i \in 1..Len(drained) : drained[i].named \/ ~drained[i].whole

Accounted ==
  /\ said => \E s \in Streams : InPipe(s) \/ Marked(s)
  /\ \A s \in Streams : Closed(s) /\ s \notin lost => pipe[s] = <<>>
  /\ \A s \in lost : Closed(s)
  /\ \A s \in Streams : Closed(s) /\ Marked(s) => Told
  /\ pc = "judge" /\ text.whole /\ said => text.named
  /\ verdict = "FailedUnnamed" /\ text.whole => ~said
  /\ pc \in {"launch", "adopt", "readers"} =>
       lost = {} /\ \A s \in Streams : reader[s].pc = "none"

\* The elements of a tail are those of the sequence but the first.
LEMMA TailElement ==
  ASSUME NEW S, NEW q \in Seq(S), NEW i \in 1..Len(q), i # 1
  PROVE  i - 1 \in 1..Len(Tail(q)) /\ Tail(q)[i - 1] = q[i]
<1>1. q # <<>> /\ Len(q) \in Nat
  OBVIOUS
<1>2. Len(Tail(q)) = Len(q) - 1 /\ \A j \in 1..Len(q) - 1 : Tail(q)[j] = q[j + 1]
  BY <1>1
<1>3. i - 1 \in 1..Len(q) - 1 /\ (i - 1) + 1 = i
  BY <1>1
<1> QED
  BY <1>2, <1>3

\* At the start every failure named is accounted for.
LEMMA AccountedInitially == Init => Accounted
BY DEF Init, Accounted, Closed

\* What the workload announces goes into a pipe that is read.
LEMMA WorkloadAccounted ==
  ASSUME TypeOK, Held, Accounted, verdict # "none" => pc = "done", Workload
  PROVE  Accounted'
<1>0. /\ UNCHANGED <<reader, lost, drained, pc, text, verdict>>
      /\ pipe \in [Streams -> Seq({"plain", "fail"})]
  BY DEF Workload, waiting, TypeOK
<1>1. CASE \E s \in Streams : Write(s)
  <2>1. PICK s \in Streams : Write(s)
    BY <1>1
  <2>2. PICK line \in {"plain", "fail"} :
          /\ pipe' = [pipe EXCEPT ![s] = Append(pipe[s], line)]
          /\ said' = (said \/ line = "fail")
    BY <2>1 DEF Write
  <2>3. ~Closed(s) /\ pc \notin {"judge", "done"}
    BY <2>1 DEF Write, Running, Held
  <2>4. /\ \A r \in Streams \ {s} : pipe'[r] = pipe[r]
        /\ pipe'[s] = Append(pipe[s], line) /\ pipe[s] \in Seq({"plain", "fail"})
    BY <1>0, <2>2
  <2>5. \A r \in Streams : InPipe(r) => InPipe(r)'
    BY <2>4 DEF InPipe
  <2>6. line = "fail" => InPipe(s)'
    <3>1. Len(pipe'[s]) = Len(pipe[s]) + 1 /\ pipe'[s][Len(pipe[s]) + 1] = line
      BY <2>4
    <3>2. Len(pipe[s]) \in Nat
      BY <2>4
    <3> QED
      BY <3>1, <3>2 DEF InPipe
  <2>7. said' => \E r \in Streams : InPipe(r)' \/ Marked(r)'
    BY <1>0, <2>2, <2>5, <2>6 DEF Accounted, Marked
  <2> QED
    BY <1>0, <2>3, <2>4, <2>7 DEF Accounted, Closed, Marked, Told
<1>2. CASE ~\E s \in Streams : Write(s)
  <2>1. UNCHANGED <<pipe, said>>
    BY <1>2 DEF Workload, Perform, Exit, ExitWith, Zombie, WriteFails, Exhaust, Fork, HeirExits
  <2> QED
    BY <1>0, <2>1 DEF Accounted, Closed, InPipe, Marked, Told
<1> QED
  BY <1>1, <1>2

\* A reader that takes an announcement out of its pipe keeps it, or owns that it could not,
\* and passes that on.
LEMMA ReaderAccounted ==
  ASSUME TypeOK, Accounted, NEW s \in Streams, Reader(s) \/ ReadFails(s)
  PROVE  Accounted'
<1>0. /\ reader \in [Streams -> Readers] /\ drained \in Seq(Texts) /\ text \in Texts
      /\ pipe \in [Streams -> Seq({"plain", "fail"})] /\ lost \in SUBSET Streams
      /\ UNCHANGED <<said, verdict, text>>
      /\ pc' = pc \/ (pc = "asleep" /\ pc' = "seen")
      /\ pc \notin {"launch", "adopt", "readers"}
  BY DEF TypeOK, Readers, Texts, Reader, Read, EndOfStream, ReadFails, HandBack, Bump, Notify,
         workload, waiting, Accounted
<1>1. \A r \in Streams \ {s} : reader'[r] = reader[r]
  BY <1>0 DEF Reader, Read, EndOfStream, ReadFails, HandBack, ReaderAt, Bump, Notify
<1>2. CASE Read(s)
  <2> DEFINE line  == Head(pipe[s])
             label == IF (Watching /\ line = "fail") /\ ~failed THEN "bump" ELSE "read"
  <2>1. /\ pipe' = [pipe EXCEPT ![s] = Tail(pipe[s])] /\ pipe[s] # <<>>
        /\ reader' = [reader EXCEPT ![s] = Keep(reader[s], line, label)]
        /\ UNCHANGED <<lost, drained>> /\ reader[s].pc = "read"
    BY <1>2, <1>0 DEF Read
  <2>2. reader'[s] = Keep(reader[s], line, label)
    BY <1>0, <2>1
  <2>3. /\ reader'[s].pc \in {"bump", "read"}
        /\ reader[s].named => reader'[s].named
        /\ ~reader[s].whole => ~reader'[s].whole
        /\ line = "fail" => reader'[s].named \/ ~reader'[s].whole
    BY <1>0, <2>2, ObservationAssumption DEF Keep, Readers
  <2>4. \A r \in Streams : Marked(r) => Marked(r)'
    BY <1>1, <2>1, <2>3 DEF Marked
  <2>5. ASSUME NEW r \in Streams, InPipe(r)
        PROVE  InPipe(r)' \/ Marked(r)'
    <3>1. CASE r # s
      BY <1>0, <2>1, <2>5, <3>1 DEF InPipe
    <3>2. CASE r = s
      <4>1. PICK i \in 1..Len(pipe[s]) : pipe[s][i] = "fail"
        BY <2>5, <3>2 DEF InPipe
      <4>2. pipe'[s] = Tail(pipe[s]) /\ pipe[s] \in Seq({"plain", "fail"})
        BY <1>0, <2>1
      <4>3. CASE i = 1
        BY <2>3, <3>2, <4>1, <4>2, <4>3 DEF Marked
      <4>4. CASE i # 1
        <5>1. i - 1 \in 1..Len(pipe'[s]) /\ pipe'[s][i - 1] = pipe[s][i]
          BY <4>1, <4>2, <4>4, TailElement
        <5> QED
          BY <3>2, <4>1, <5>1 DEF InPipe
      <4> QED
        BY <4>3, <4>4
    <3> QED
      BY <3>1, <3>2
  <2>6. \A r \in Streams : Closed(r)' => Closed(r) /\ r # s
    BY <1>1, <2>3 DEF Closed
  <2>7. \A r \in Streams \ {s} : pipe'[r] = pipe[r] /\ (Marked(r)' => Marked(r))
    BY <1>0, <1>1, <2>1 DEF Marked
  <2>8. Told' = Told
    BY <1>0, <2>1 DEF Told
  <2>9. \A r \in lost' : Closed(r)'
    <3>1. s \notin lost
      BY <2>1 DEF Accounted, Closed
    <3> QED
      BY <1>0, <1>1, <2>1, <3>1 DEF Accounted, Closed
  <2> QED
    BY <1>0, <2>1, <2>4, <2>5, <2>6, <2>7, <2>8, <2>9 DEF Accounted
<1>3. ASSUME NEW w \in BOOLEAN, HandBack(s, w), reader[s].pc = "read", lost \subseteq lost',
             lost' \subseteq lost \union {s},
             s \notin lost' => pipe[s] = <<>>,
             s \in lost' \/ ~reader[s].whole => ~w
      PROVE  Accounted'
  <2>1. /\ drained' = Append(drained, [named |-> reader[s].named, whole |-> w])
        /\ reader' = [reader EXCEPT ![s].pc = "end"] /\ pipe' = pipe
    BY <1>3 DEF HandBack, ReaderAt, workload
  <2>2. reader'[s].named = reader[s].named /\ reader'[s].whole = reader[s].whole
    BY <1>0, <2>1 DEF Readers
  <2>3. /\ Len(drained') = Len(drained) + 1 /\ Len(drained) \in Nat
        /\ drained'[Len(drained) + 1] = [named |-> reader[s].named, whole |-> w]
        /\ \A i \in 1..Len(drained) : drained'[i] = drained[i]
    <3>1. [named |-> reader[s].named, whole |-> w] \in Texts
      BY <1>0, <1>3 DEF Readers, Texts
    <3> QED
      BY <1>0, <2>1, <3>1
  <2>4. Told => Told'
    BY <1>0, <2>3 DEF Told
  <2>5. Marked(s)' => Told'
    <3>1. Marked(s)' => reader[s].named \/ ~w
      BY <1>3, <2>2 DEF Marked
    <3>2. Len(drained) + 1 \in 1..Len(drained')
      BY <2>3
    <3>3. drained'[Len(drained) + 1].named = reader[s].named /\ drained'[Len(drained) + 1].whole = w
      BY <2>3
    <3> QED
      BY <3>1, <3>2, <3>3 DEF Told
  <2>6. \A r \in Streams \ {s} : /\ Closed(r)' = Closed(r)
                                 /\ Marked(r)' = Marked(r) /\ (r \in lost' <=> r \in lost)
    BY <1>1, <1>3 DEF Closed, Marked
  <2>7. \A r \in Streams : InPipe(r)' = InPipe(r) /\ (Marked(r) => Marked(r)')
    BY <1>3, <2>1, <2>2, <2>6 DEF InPipe, Marked
  <2>8. \A r \in lost' : Closed(r)'
    <3>1. Closed(s)'
      BY <1>0, <2>1 DEF Closed
    <3> QED
      BY <1>0, <1>3, <2>6, <3>1 DEF Accounted
  <2> QED
    BY <1>0, <1>3, <2>1, <2>4, <2>5, <2>6, <2>7, <2>8 DEF Accounted
<1>4. CASE EndOfStream(s)
  <2>1. s \notin lost
    BY <1>4 DEF EndOfStream, Accounted, Closed
  <2>2. reader[s].whole \in BOOLEAN
    BY <1>0 DEF Readers
  <2> QED
    BY <1>3, <1>4, <2>1, <2>2 DEF EndOfStream
<1>5. CASE ReadFails(s)
  BY <1>3, <1>5 DEF ReadFails
<1>6. CASE Bump(s) \/ Notify(s)
  <2>1. /\ UNCHANGED <<pipe, lost, drained>>
        /\ reader'[s].named = reader[s].named /\ reader'[s].whole = reader[s].whole
        /\ Closed(s)' = Closed(s)
    BY <1>0, <1>6 DEF Bump, Notify, ReaderAt, workload, Readers, Closed
  <2>2. \A r \in Streams : /\ Closed(r)' = Closed(r) /\ Marked(r)' = Marked(r)
                           /\ InPipe(r)' = InPipe(r)
    BY <1>1, <2>1 DEF Closed, Marked, InPipe
  <2>3. Told' = Told
    BY <1>0, <2>1 DEF Told
  <2> QED
    BY <1>0, <2>1, <2>2, <2>3 DEF Accounted
<1> QED
  BY <1>2, <1>4, <1>5, <1>6 DEF Reader

\* The waiter judges a text to be whole only once every mark is in it.
LEMMA WaiterAccounted ==
  ASSUME TypeOK, Held, Accounted, verdict # "none" => pc = "done", Waiter \/ AskFails
  PROVE  Accounted'
<1>0. /\ reader \in [Streams -> Readers] /\ drained \in Seq(Texts) /\ text \in Texts
      /\ lost \in SUBSET Streams
  BY DEF TypeOK, Readers, Texts
<1>1. ASSUME UNCHANGED <<said, pipe, reader, lost, drained, text>>,
             pc' = "judge" => pc = "judge",
             pc' \in {"launch", "adopt", "readers"} => pc \in {"launch", "adopt", "readers"},
             verdict' # "FailedUnnamed"
      PROVE  Accounted'
  BY <1>1 DEF Accounted, Closed, InPipe, Marked, Told
<1>2. verdict # "FailedUnnamed" \/ pc = "done"
  OBVIOUS
<1>3. CASE Launch \/ Adopt \/ See \/ Ask \/ CheckFailure \/ CheckBudgets \/ Wait \/ WakeUp \/ AskFails
  <2>1. UNCHANGED <<said, pipe, reader, lost, drained, text>>
    BY <1>3 DEF Launch, Adopt, See, Ask, CheckFailure, CheckBudgets, Wait, WakeUp, AskFails, CutShort,
                Reaped, workload
  <2>2. /\ pc' # "judge" /\ pc # "done" /\ verdict' # "FailedUnnamed"
        /\ pc' \in {"launch", "adopt", "readers"} => pc \in {"launch", "adopt", "readers"}
    BY <1>3 DEF Launch, Adopt, See, Ask, CheckFailure, CheckBudgets, Wait, WakeUp, AskFails, CutShort,
                Return
  <2> QED
    BY <1>1, <2>1, <2>2
<1>4. CASE StartReaders
  <2>1. PICK refused \in SUBSET Streams :
          /\ reader' = [s \in Streams |->
                          [reader[s] EXCEPT !.pc = IF s \in refused THEN "refused" ELSE "read"]]
          /\ lost' = refused
          /\ drained' = [i \in 1..Cardinality(refused) |-> [named |-> FALSE, whole |-> FALSE]]
    BY <1>4 DEF StartReaders
  <2>2. /\ pc = "readers" /\ pc' = "seen" /\ UNCHANGED <<said, pipe, text, verdict>>
    BY <1>4 DEF StartReaders, workload
  <2>3. \A s \in Streams : /\ reader'[s].named = reader[s].named /\ reader'[s].whole = reader[s].whole
                           /\ reader'[s].pc = IF s \in refused THEN "refused" ELSE "read"
    BY <1>0, <2>1 DEF Readers
  <2>4. lost = {} /\ verdict # "FailedUnnamed"
    BY <1>2, <2>2 DEF Accounted
  <2>5. \A s \in Streams : /\ InPipe(s)' = InPipe(s) /\ (Marked(s) => Marked(s)')
                           /\ (Closed(s)' <=> s \in refused)
    BY <2>1, <2>2, <2>3, <2>4 DEF InPipe, Marked, Closed
  <2>6. ASSUME refused # {} PROVE Told'
    <3>1. Cardinality(refused) \in Nat /\ Cardinality(refused) # 0
      BY <2>6, FS_Subset, FS_CardinalityType, FS_EmptySet, ObservationAssumption
      DEF ObservationAssumption
    <3>2. Len(drained') = Cardinality(refused)
      BY <2>1, <3>1
    <3>3. 1 \in 1..Len(drained') /\ drained'[1].whole = FALSE
      BY <2>1, <3>1, <3>2
    <3> QED
      BY <3>3 DEF Told
  <2> QED
    BY <2>1, <2>2, <2>4, <2>5, <2>6 DEF Accounted
<1>5. CASE Collect
  <2>1. /\ pc \in {"drain", "discard"} /\ verdict' # "FailedUnnamed"
        /\ pc' \in {"drain", "discard", "judge", "done"}
        /\ UNCHANGED <<said, pipe, reader, lost>>
    BY <1>2, <1>5 DEF Collect, Return, workload
  <2>2. \A s \in Streams : InPipe(s)' = InPipe(s) /\ Marked(s)' = Marked(s) /\ Closed(s)' = Closed(s)
    BY <2>1 DEF InPipe, Marked, Closed
  <2>3. CASE drained # <<>>
    <3>1. /\ pc' = pc /\ drained' = Tail(drained)
          /\ text' = [named |-> text.named \/ Head(drained).named,
                      whole |-> text.whole /\ Head(drained).whole]
      BY <1>5, <2>3 DEF Collect
    <3>2. ASSUME Told PROVE Told'
      <4>0. /\ text'.named = (text.named \/ Head(drained).named)
            /\ text'.whole = (text.whole /\ Head(drained).whole)
            /\ Head(drained) = drained[1]
        BY <3>1
      <4>1. CASE text.named \/ ~text.whole
        BY <4>0, <4>1 DEF Told
      <4>2. CASE \E i \in 1..Len(drained) : drained[i].named \/ ~drained[i].whole
        <5>1. PICK i \in 1..Len(drained) : drained[i].named \/ ~drained[i].whole
          BY <4>2
        <5>2. CASE i = 1
          BY <4>0, <5>1, <5>2 DEF Told
        <5>3. CASE i # 1
          <6>1. i - 1 \in 1..Len(drained') /\ drained'[i - 1] = drained[i]
            BY <1>0, <3>1, <5>3, TailElement
          <6> QED
            BY <5>1, <6>1 DEF Told
        <5> QED
          BY <5>2, <5>3
      <4> QED
        BY <3>2, <4>1, <4>2 DEF Told
    <3> QED
      BY <1>0, <2>1, <2>2, <3>1, <3>2 DEF Accounted
  <2>4. CASE drained = <<>>
    <3>1. /\ drained' = drained
          /\ text' = [text EXCEPT !.whole = @ /\ \A s \in Streams : reader[s].pc \in {"gone", "refused"}]
      BY <1>5, <2>4 DEF Collect, Collected
    <3>2. /\ text'.named = text.named
          /\ text'.whole => text.whole /\ \A s \in Streams : reader[s].pc \in {"gone", "refused"}
      BY <1>0, <3>1 DEF Texts
    <3>3. Told => Told'
      BY <3>1, <3>2 DEF Told
    <3>4. ASSUME text'.whole, said PROVE text.named
      <4>1. PICK s \in Streams : InPipe(s) \/ Marked(s)
        BY <3>4 DEF Accounted
      <4>2. Closed(s)
        BY <3>2, <3>4 DEF Closed
      <4>3. Marked(s)
        <5>1. CASE s \in lost
          BY <5>1 DEF Marked
        <5>2. CASE s \notin lost
          BY <4>1, <4>2, <5>2 DEF Accounted, InPipe
        <5> QED
          BY <5>1, <5>2
      <4>4. Told
        BY <4>2, <4>3 DEF Accounted
      <4> QED
        BY <2>4, <3>2, <3>4, <4>4 DEF Told
    <3> QED
      BY <1>0, <2>1, <2>2, <3>1, <3>2, <3>3, <3>4 DEF Accounted
  <2> QED
    BY <2>3, <2>4
<1>6. CASE Judge
  <2>1. /\ pc = "judge" /\ pc' = "done" /\ UNCHANGED <<said, pipe, reader, lost, drained, text>>
        /\ verdict' = IF code = "ok" THEN "Passed" ELSE PreferNamed(Settle)
    BY <1>6 DEF Judge, Return, workload
  <2>2. verdict' = "FailedUnnamed" => ~text.named
    BY <2>1 DEF PreferNamed, Settle
  <2>3. verdict' = "FailedUnnamed" /\ text.whole => ~said
    BY <2>1, <2>2 DEF Accounted
  <2> QED
    BY <2>1, <2>3 DEF Accounted, Closed, InPipe, Marked, Told
<1> QED
  BY <1>3, <1>4, <1>5, <1>6 DEF Waiter

\* A kill without a name, on text nobody called partial, is the kill of a suite that announced
\* no failure: an announcement can be cut off, held back or lost, but not unnoticed.
THEOREM UnnamedHadNoName == Spec => []UnnamedIsUnannounced
<1>2. TypeOK /\ Held /\ Stages /\ Accounted /\ [Next]_vars => Accounted'
  <2> SUFFICES ASSUME TypeOK, Held, Stages, Accounted, [Next]_vars PROVE Accounted'
    OBVIOUS
  <2>0. verdict # "none" => pc = "done"
    BY DEF Stages
  <2>1. CASE Workload
    BY <2>0, <2>1, WorkloadAccounted
  <2>2. CASE Late \/ FallSilent \/ UNCHANGED vars
    <3>1. UNCHANGED <<said, pipe, reader, lost, drained, pc, text, verdict>>
      BY <2>2 DEF Late, FallSilent, vars, workload, waiting
    <3> QED
      BY <3>1 DEF Accounted, Closed, InPipe, Marked, Told
  <2>3. CASE \E s \in Streams : Reader(s) \/ ReadFails(s)
    BY <2>3, ReaderAccounted
  <2>4. CASE Waiter \/ AskFails
    BY <2>0, <2>4, WaiterAccounted
  <2> QED
    BY <2>1, <2>2, <2>3, <2>4 DEF Next
<1>3. Accounted => UnnamedIsUnannounced
  BY DEF Accounted, UnnamedIsUnannounced
<1>4. Green => Stages
  BY DEF Green
<1> QED
  BY AccountedInitially, TypeCorrect, HoldersKnown, GreenKept, <1>2, <1>3, <1>4, PTL DEF Spec

=============================================================================
