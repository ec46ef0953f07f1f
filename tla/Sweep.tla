-------------------------------- MODULE Sweep --------------------------------
(***************************************************************************)
(* The sweep: worker threads judge every pending mutant against the test   *)
(* binaries that can reach it, and the calling thread records the verdicts *)
(* as they arrive (crates/cargo-gamma-lib/src/exec/sweep.rs, killers.rs).  *)
(*                                                                         *)
(* Mutants are plan positions.  A run of a binary is one step, and comes   *)
(* to anything the suite of this world allows; Confirmation is the inside  *)
(* of that step.  A lock region, an atomic operation and a channel         *)
(* operation are one step each.                                            *)
(***************************************************************************)
EXTENDS Integers, Sequences, FiniteSets

CONSTANTS
  N,         \* how many mutants are pending: the plan positions 1 .. N
  Workers,   \* the worker threads, `jobs` of them
  Binaries,  \* the test binaries
  Tests,     \* the names of tests
  None,      \* an Option that is empty
  Files,     \* the source files
  FileOf,    \* the file each mutant is in
  Reachable, \* the binaries that can reach each mutant
  Rank,      \* where order_reachable puts each binary, for each mutant
  Orders,    \* the orders in which schedule may leave the queue
  Coverings, \* the censuses considered: the binaries not ruled out for a mutant
  Hintings,  \* the killers considered that an earlier run may have left
  Suites     \* what the runs of the worlds considered may come to

Mutants  == 1 .. N
Killers  == [binary : Binaries, test : Tests]
Verdicts == [kind : {"Failed"}, test : Tests \union {None}]
            \union [kind : {"Passed", "TestEnumerationFailed", "TimedOut", "Stalled",
                            "MemoryLimit", "Flaky", "Unmetered", "Unjudged"},
                    test : {None}]

ASSUME SweepAssumption ==
  /\ N \in Nat \ {0}
  /\ IsFiniteSet(Workers) /\ Workers # {}
  /\ None \notin Tests /\ None \notin Killers /\ None \notin Mutants
  /\ FileOf \in [Mutants -> Files]
  /\ Reachable \in [Mutants -> SUBSET Binaries]
  /\ Rank \in [Mutants -> [Binaries -> Nat]]
  /\ \A m \in Mutants : \A b, c \in Binaries : Rank[m][b] = Rank[m][c] => b = c
  /\ Orders \subseteq [Mutants -> Mutants]
  /\ \A order \in Orders : \A m \in Mutants : \E i \in Mutants : order[i] = m
  /\ \A order \in Orders : \A i, j \in Mutants : order[i] = order[j] => i = j
  /\ Coverings \subseteq [Mutants -> SUBSET Binaries]
  /\ Hintings \subseteq [Mutants -> Killers \union {None}]
  /\ Suites \subseteq [Mutants -> [Binaries -> SUBSET Verdicts]]

VARIABLES
  suite,      \* what a run of each mutant on each binary may come to
  covered,    \* the binaries the census does not rule out for each mutant
  hints,      \* the killer each mutant had before the sweep, cloned up front
  pending,    \* the schedule: which mutant each queue position holds
  next,       \* the next queue position to be taken
  abandoned,  \* some worker could not meter its run
  learning,   \* the FileLearning of each file
  channel,    \* the verdicts on their way to the calling thread
  pc,         \* where each worker is
  index,      \* the queue position it holds
  role,       \* how it takes part in the learning of its file
  learned,    \* the killer it took from there
  left,       \* the binaries it has still to run
  judged,     \* the Judgement it reached
  outcome,    \* plan.mutants[m].outcome
  killedBy,   \* the killer that came with it
  killers,    \* the map of killers that is written back
  reported,   \* how often events.mutant was told of each mutant
  result,     \* what test_all returned, or "running"
  evidence    \* history: the runs made with each mutant active

world   == <<suite, covered, hints, pending>>
shared  == <<next, abandoned, learning, channel>>
workers == <<pc, index, role, learned, left, judged>>
plan    == <<outcome, killedBy, killers, reported, result>>
vars    == <<world, shared, workers, plan, evidence>>

-----------------------------------------------------------------------------
(***************************************************************************)
(* Verdicts and judgements.                                                *)
(***************************************************************************)
Plain(kind)  == [kind |-> kind, test |-> None]
Failed(test) == [kind |-> "Failed", test |-> test]
Passed       == Plain("Passed")

Reached(o, killer) == [outcome |-> o, killer |-> killer]
Abandoned          == Reached("Abandoned", None)
Outcomes   == {"Pending", "Killed", "Timeout", "OutOfMemory", "Flaky", "Survived",
               "NoCoverage"}
Judgements == [outcome : Outcomes \union {"Abandoned"}, killer : Killers \union {None}]

\* What a verdict other than Passed makes of the mutant.
JudgementOn(b, v) ==
  CASE v.kind = "Failed" ->
         Reached("Killed",
                 IF v.test = None THEN None ELSE [binary |-> b, test |-> v.test])
    [] v.kind = "TestEnumerationFailed" -> Reached("Killed", None)
    [] v.kind \in {"TimedOut", "Stalled"} -> Reached("Timeout", None)
    [] v.kind = "MemoryLimit" -> Reached("OutOfMemory", None)
    [] v.kind = "Flaky"       -> Reached("Flaky", None)
    [] v.kind = "Unjudged"    -> Reached("Pending", None)
    [] v.kind = "Unmetered"   -> Abandoned

Detections == {"Failed", "TestEnumerationFailed", "TimedOut", "Stalled", "MemoryLimit"}

\* A probe runs one test of the binary.  It may pass where the whole fails, and
\* fail where the whole is detected by something else.
ProbeVerdicts(m, hint) ==
  LET whole == suite[m][hint.binary]
  IN  whole \union {Passed}
      \union (IF \E v \in whole : v.kind \in Detections THEN {Failed(hint.test)} ELSE {})

-----------------------------------------------------------------------------
(***************************************************************************)
(* The work of one mutant.  Everything a worker needs of its mutant was    *)
(* looked up by queue position after the schedule was fixed.               *)
(***************************************************************************)
\* As it would be were the ordinals collected before the queue is scheduled.
PlanOrdinal(w) == index[w]

Position(w)  == pending[index[w]]
Ordinal(w)   == pending[index[w]]
FileSlot(w)  == FileOf[pending[index[w]]]
Hint(w)      == hints[pending[index[w]]]

\* The binaries judge_ordered would run: the reachable ones the census does not
\* show to be idle.
Selected(m) == Reachable[m] \intersect covered[m]

\* The binary that comes first among those left: the file's learned killer's, or
\* the first in the order of order_reachable.
Foremost(m, bs) == CHOOSE b \in bs : \A c \in bs : Rank[m][b] <= Rank[m][c]
NextBinary(m, bs, killer) ==
  IF killer # None /\ killer.binary \in bs THEN killer.binary ELSE Foremost(m, bs)

Goto(w, place) == pc' = [pc EXCEPT ![w] = place]

\* As it would be were nothing but the learned binary run.
BeginNarrowly(w, killer) ==
  /\ left' = [left EXCEPT ![w] = Selected(Ordinal(w)) \intersect
                                 (IF killer = None THEN Binaries ELSE {killer.binary})]
  /\ learned' = [learned EXCEPT ![w] = killer]
  /\ Goto(w, "run")

\* Enters judge_ordered, without a hint or with one that names nothing reachable.
Begin(w, killer) ==
  /\ left' = [left EXCEPT ![w] = Selected(Ordinal(w))]
  /\ learned' = [learned EXCEPT ![w] = killer]
  /\ Goto(w, "run")

Check(w) ==
  /\ pc[w] = "check"
  /\ Goto(w, IF abandoned THEN "exited" ELSE "take")
  /\ UNCHANGED <<world, shared, index, role, learned, left, judged, plan, evidence>>

Take(w) ==
  /\ pc[w] = "take"
  /\ next' = next + 1
  /\ IF next \in Mutants
       THEN /\ index' = [index EXCEPT ![w] = next]
            /\ Goto(w, "consult")
       ELSE /\ Goto(w, "exited")
            /\ UNCHANGED index
  /\ UNCHANGED <<world, abandoned, learning, channel, role, learned, left, judged, plan,
                 evidence>>

(***************************************************************************)
(* judge_learning.                                                         *)
(***************************************************************************)
Untried    == [state |-> "Untried", killer |-> None]
InProgress == [state |-> "InProgress", killer |-> None]
Exhausted  == [state |-> "Exhausted", killer |-> None]
Learned(k) == [state |-> "Learned", killer |-> k]
Learnings  == {Untried, InProgress, Exhausted} \union {Learned(k) : k \in Killers}

ConsultHinted(w) ==
  /\ pc[w] = "consult"
  /\ Hint(w) # None
  /\ role' = [role EXCEPT ![w] = "hinted"]
  /\ IF Hint(w).binary \in Reachable[Ordinal(w)]
       THEN Goto(w, "probe") /\ UNCHANGED <<learned, left>>
       ELSE Begin(w, None)
  /\ UNCHANGED <<world, shared, index, judged, plan, evidence>>

ConsultFile(w) ==
  /\ pc[w] = "consult"
  /\ Hint(w) = None
  /\ LET f == FileSlot(w) IN
       CASE learning[f] = Untried ->
              /\ learning' = [learning EXCEPT ![f] = InProgress]
              /\ role' = [role EXCEPT ![w] = "learner"]
              /\ Begin(w, None)
         [] learning[f] = InProgress ->
              /\ role' = [role EXCEPT ![w] = "sibling"]
              /\ Goto(w, "wait")
              /\ UNCHANGED <<learning, learned, left>>
         [] OTHER ->
              /\ role' = [role EXCEPT ![w] = "sibling"]
              /\ Begin(w, learning[f].killer)
              /\ UNCHANGED learning
  /\ UNCHANGED <<world, next, abandoned, channel, index, judged, plan, evidence>>

\* As it would be were a wait to end only with something learned.
WakeWhenTaught(w) ==
  /\ pc[w] = "wait"
  /\ learning[FileSlot(w)].state = "Learned"
  /\ Begin(w, learning[FileSlot(w)].killer)
  /\ UNCHANGED <<world, shared, index, role, judged, plan, evidence>>

\* The wait ends when the file is no longer InProgress or LEARNING_WAIT is over,
\* and reads the state again.
Wake(w) ==
  /\ pc[w] = "wait"
  /\ Begin(w, learning[FileSlot(w)].killer)
  /\ UNCHANGED <<world, shared, index, role, judged, plan, evidence>>

Teaches(w) ==
  \/ role[w] = "learner"
  \/ role[w] = "hinted" /\ judged[w].killer # None

Teach(w) ==
  /\ pc[w] = "teach"
  /\ learning' =
       IF Teaches(w)
         THEN [learning EXCEPT ![FileSlot(w)] =
                 IF judged[w].killer = None THEN Exhausted ELSE Learned(judged[w].killer)]
         ELSE learning
  /\ Goto(w, IF judged[w] = Abandoned THEN "abandon" ELSE "send")
  /\ UNCHANGED <<world, next, abandoned, channel, index, role, learned, left, judged,
                 plan, evidence>>

(***************************************************************************)
(* judge_ordered.                                                          *)
(***************************************************************************)
Witness(w, run) == evidence' = [evidence EXCEPT ![Ordinal(w)] = @ \union {run}]

Judge(w, judgement) ==
  /\ judged' = [judged EXCEPT ![w] = judgement]
  /\ Goto(w, "teach")

\* Only a failing probe is believed.
Probe(w) ==
  /\ pc[w] = "probe"
  /\ \E v \in ProbeVerdicts(Ordinal(w), Hint(w)) :
       /\ Witness(w, [binary |-> Hint(w).binary, probe |-> TRUE, verdict |-> v])
       /\ IF v.kind = "Failed"
            THEN /\ Judge(w, Reached("Killed",
                            [binary |-> Hint(w).binary,
                             test |-> IF v.test = None THEN Hint(w).test ELSE v.test]))
                 /\ UNCHANGED <<learned, left>>
            ELSE Begin(w, None) /\ UNCHANGED judged
  /\ UNCHANGED <<world, shared, index, role, plan>>

Run(w) ==
  /\ pc[w] = "run"
  /\ left[w] # {}
  /\ LET m == Ordinal(w)
         b == NextBinary(m, left[w], learned[w])
     IN \E v \in suite[m][b] :
          /\ Witness(w, [binary |-> b, probe |-> FALSE, verdict |-> v])
          /\ left' = [left EXCEPT ![w] = @ \ {b}]
          /\ IF v.kind = "Passed"
               THEN UNCHANGED <<pc, judged>>
               ELSE Judge(w, JudgementOn(b, v))
  /\ UNCHANGED <<world, shared, index, role, learned, plan>>

\* Every binary left the mutant alone, or there was none to run.
Exhaust(w) ==
  /\ pc[w] = "run"
  /\ left[w] = {}
  /\ Judge(w, Reached(IF Selected(Ordinal(w)) = {} THEN "NoCoverage" ELSE "Survived", None))
  /\ UNCHANGED <<world, shared, index, role, learned, left, plan, evidence>>

(***************************************************************************)
(* The end of a mutant, and the calling thread.                            *)
(***************************************************************************)
Send(w) ==
  /\ pc[w] = "send"
  /\ channel' = Append(channel, [position |-> Position(w), judgement |-> judged[w]])
  /\ Goto(w, "check")
  /\ UNCHANGED <<world, next, abandoned, learning, index, role, learned, left, judged, plan,
                 evidence>>

Abandon(w) ==
  /\ pc[w] = "abandon"
  /\ abandoned' = TRUE
  /\ Goto(w, "exited")
  /\ UNCHANGED <<world, next, learning, channel, index, role, learned, left, judged, plan,
                 evidence>>

Record ==
  /\ channel # <<>>
  /\ LET m == Head(channel).position
         j == Head(channel).judgement
     IN /\ outcome' = [outcome EXCEPT ![m] = j.outcome]
        /\ killedBy' = [killedBy EXCEPT ![m] = j.killer]
        /\ killers' = [killers EXCEPT ![m] = j.killer]
        /\ reported' = [reported EXCEPT ![m] = @ + 1]
  /\ channel' = Tail(channel)
  /\ UNCHANGED <<world, next, abandoned, learning, workers, result, evidence>>

\* As it would be were the drain to end when the queue is taken.
FinishEarly ==
  /\ result = "running"
  /\ channel = <<>> /\ next > N
  /\ result' = IF abandoned THEN "error" ELSE "ok"
  /\ UNCHANGED <<world, shared, workers, outcome, killedBy, killers, reported, evidence>>

\* The drain ends when the last sender is dropped, the scope when the last
\* worker has exited.
Finish ==
  /\ result = "running"
  /\ channel = <<>>
  /\ \A w \in Workers : pc[w] = "exited"
  /\ result' = IF abandoned THEN "error" ELSE "ok"
  /\ UNCHANGED <<world, shared, workers, outcome, killedBy, killers, reported, evidence>>

-----------------------------------------------------------------------------
Init ==
  /\ suite \in Suites
  /\ covered \in Coverings
  /\ hints \in Hintings
  /\ pending \in Orders
  /\ next = 1
  /\ abandoned = FALSE
  /\ learning = [f \in Files |-> Untried]
  /\ channel = <<>>
  /\ pc = [w \in Workers |-> "check"]
  /\ index = [w \in Workers |-> 1]
  /\ role = [w \in Workers |-> "sibling"]
  /\ learned = [w \in Workers |-> None]
  /\ left = [w \in Workers |-> {}]
  /\ judged = [w \in Workers |-> Abandoned]
  /\ outcome = [m \in Mutants |-> "Pending"]
  /\ killedBy = [m \in Mutants |-> None]
  /\ killers = hints
  /\ reported = [m \in Mutants |-> 0]
  /\ result = "running"
  /\ evidence = [m \in Mutants |-> {}]

Worker(w) ==
  \/ Check(w) \/ Take(w)
  \/ ConsultHinted(w) \/ ConsultFile(w) \/ Wake(w) \/ Teach(w)
  \/ Probe(w) \/ Run(w) \/ Exhaust(w)
  \/ Send(w) \/ Abandon(w)

Next ==
  \/ \E w \in Workers : Worker(w)
  \/ Record
  \/ Finish

Spec == Init /\ [][Next]_vars

\* A thread that can step does: every run of a binary returns, the wait for a
\* learner is bounded, and the calling thread does nothing but drain.
Fairness ==
  /\ \A w \in Workers : WF_vars(Worker(w))
  /\ WF_vars(Record) /\ WF_vars(Finish)

FairSpec == Spec /\ Fairness

-----------------------------------------------------------------------------
(***************************************************************************)
(* Properties.                                                             *)
(***************************************************************************)
Places == {"check", "take", "consult", "wait", "probe", "run", "teach", "send", "abandon",
           "exited"}
Runs   == [binary : Binaries, probe : BOOLEAN, verdict : Verdicts]

TypeOK ==
  /\ suite \in Suites
  /\ covered \in Coverings
  /\ hints \in Hintings
  /\ pending \in Orders
  /\ next \in Nat \ {0}
  /\ abandoned \in BOOLEAN
  /\ learning \in [Files -> Learnings]
  /\ channel \in Seq([position : Mutants, judgement : Judgements])
  /\ pc \in [Workers -> Places]
  /\ index \in [Workers -> Mutants]
  /\ role \in [Workers -> {"hinted", "learner", "sibling"}]
  /\ learned \in [Workers -> Killers \union {None}]
  /\ left \in [Workers -> SUBSET Binaries]
  /\ judged \in [Workers -> Judgements]
  /\ outcome \in [Mutants -> Outcomes]
  /\ killedBy \in [Mutants -> Killers \union {None}]
  /\ killers \in [Mutants -> Killers \union {None}]
  /\ reported \in [Mutants -> Nat]
  /\ result \in {"running", "ok", "error"}
  /\ evidence \in [Mutants -> SUBSET Runs]

\* Every mutant is judged once.  Whatever the workers and the calling thread
\* interleave, no verdict is recorded twice, none that was sent is lost, a sweep
\* that returns Ok has recorded one for every pending mutant, and one is an error
\* exactly if a worker could not meter a run.
EveryMutantOnce ==
  /\ \A m \in Mutants : reported[m] <= 1
  /\ result = "ok" => \A m \in Mutants : reported[m] = 1
  /\ result # "running" =>
       \A m \in Mutants : reported[m] = 0 =>
         result = "error" /\ \/ evidence[m] = {}
                             \/ \E r \in evidence[m] : r.verdict.kind = "Unmetered"

Whole(m) == {r \in evidence[m] : ~r.probe}

\* A recorded outcome rests on the runs of that mutant and no other's, whatever
\* was hinted or learned.  A survivor was run against every binary that can reach
\* it and that the census does not rule out, and passed each; an uncovered mutant
\* had none; a killed one failed on the binary and the test it is credited to.
OutcomesRestOnRuns ==
  \A m \in Mutants : reported[m] = 1 =>
    /\ outcome[m] = "Survived" =>
         /\ Selected(m) # {}
         /\ Whole(m) = [binary : Selected(m), probe : {FALSE}, verdict : {Passed}]
    /\ outcome[m] = "NoCoverage" => Selected(m) = {} /\ Whole(m) = {}
    /\ killedBy[m] # None =>
         /\ outcome[m] = "Killed" /\ killedBy[m].binary \in Reachable[m]
         /\ \E r \in evidence[m] : /\ r.binary = killedBy[m].binary
                                   /\ \/ r.verdict = Failed(killedBy[m].test)
                                      \/ r.probe /\ r.verdict = Failed(None)
    /\ outcome[m] \notin {"Survived", "NoCoverage"} /\ killedBy[m] = None =>
         \E r \in Whole(m) :
           r.verdict # Passed /\ JudgementOn(r.binary, r.verdict) = Reached(outcome[m], None)

\* What a file has learned convicted a mutant of that file in this sweep, and a
\* file in progress has a worker at it that will say how it went.
LearningIsHonest ==
  \A f \in Files :
    /\ learning[f].state = "Learned" =>
         \E m \in Mutants : /\ FileOf[m] = f
                            /\ \E r \in evidence[m] : /\ r.binary = learning[f].killer.binary
                                                      /\ r.verdict.kind = "Failed"
    /\ learning[f] = InProgress =>
         \E w \in Workers : /\ role[w] = "learner" /\ FileSlot(w) = f
                            /\ pc[w] \in {"run", "teach"}

\* How an outcome counts: Outcome::scoring.
Scoring(o) ==
  CASE o \in {"Killed", "Timeout", "OutOfMemory"} -> "Detected"
    [] o \in {"Survived", "NoCoverage"}           -> "Undetected"
    [] OTHER                                      -> "Excluded"

\* A suite that does the same in every run, and a census that is right about it.
Deterministic(m) ==
  /\ \A b \in Binaries : \E v \in Verdicts : suite[m][b] = {v}
  /\ \A b \in Binaries \ covered[m] : suite[m][b] = {Passed}

Excluding == {"Flaky", "Unjudged", "Unmetered"}
Decisive(m) == \A b \in Binaries : \A v \in suite[m][b] : v.kind \notin Excluding

\* The outcome of the mutant were its binaries run in order, nothing being
\* hinted or learned.
ColdOutcome(m) ==
  LET caught == {b \in Selected(m) : suite[m][b] # {Passed}}
      first  == Foremost(m, caught)
  IN  IF Selected(m) = {} THEN "NoCoverage"
      ELSE IF caught = {} THEN "Survived"
      ELSE JudgementOn(first, CHOOSE v \in suite[m][first] : TRUE).outcome

Agrees(m) == Scoring(outcome[m]) = Scoring(ColdOutcome(m))

\* Neither the killers of an earlier run, nor what the workers teach each other
\* while they race, can change how a mutant counts: with a suite that decides the
\* same way every time the score is that of the cold, sequential order.
ScoreIsOrderFree ==
  \A m \in Mutants : reported[m] = 1 /\ Deterministic(m) /\ Decisive(m) => Agrees(m)

\* A sweep that began returns.
SweepReturns == <>(result # "running")
=============================================================================
