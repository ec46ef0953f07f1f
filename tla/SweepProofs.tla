----------------------------- MODULE SweepProofs -----------------------------
(* What a sweep keeps, for every number of mutants, every set of workers and *)
(* every suite: the types, that each mutant is judged once, on its own runs, *)
(* and that what the workers teach each other is true and changes no score.  *)
EXTENDS Sweep, TLAPS, WellFoundedInduction, SequenceTheorems

\* A worker between taking a mutant and parting with it.
Holding == {"consult", "wait", "probe", "run", "teach", "send", "abandon"}
Holds(w) == pc[w] \in Holding

\* A mutant is with one worker, or one verdict on its way, or reported, or yet to
\* be taken, and never with two of these.
Exclusive ==
  /\ \A w \in Workers : Holds(w) => index[w] < next /\ reported[Position(w)] = 0
  /\ \A v, w \in Workers : Holds(v) /\ Holds(w) /\ index[v] = index[w] => v = w
  /\ \A k \in DOMAIN channel :
       /\ reported[channel[k].position] = 0
       /\ \A l \in DOMAIN channel : channel[l].position = channel[k].position => l = k
       /\ \A w \in Workers : Holds(w) => Position(w) # channel[k].position
  /\ \A i \in Mutants : i >= next =>
       /\ reported[pending[i]] = 0
       /\ \A k \in DOMAIN channel : channel[k].position # pending[i]
  /\ \A m \in Mutants : reported[m] <= 1

\* Nor with none, unless its worker could not meter a run of it.
Unmetered(runs) == \E r \in runs : r.verdict.kind = "Unmetered"
Accounted ==
  \A i \in Mutants : i < next =>
    \/ reported[pending[i]] = 1
    \/ \E k \in DOMAIN channel : channel[k].position = pending[i]
    \/ \E w \in Workers : Holds(w) /\ index[w] = i
    \/ abandoned /\ Unmetered(evidence[pending[i]])

\* Why a worker, and the sweep, ended.
Ended ==
  /\ \A w \in Workers : pc[w] = "exited" => abandoned \/ next > N
  /\ result # "running" => channel = <<>> /\ \A w \in Workers : pc[w] = "exited"
  /\ result = "ok" => ~abandoned

\* The runs that can have led to a judgement.
Rests(m, selected, runs, j) ==
  /\ j.outcome = "Survived" =>
       /\ selected # {}
       /\ {r \in runs : ~r.probe} = [binary : selected, probe : {FALSE}, verdict : {Passed}]
  /\ j.outcome = "NoCoverage" => selected = {} /\ {r \in runs : ~r.probe} = {}
  /\ j.killer # None =>
       /\ j.outcome = "Killed" /\ j.killer.binary \in Reachable[m]
       /\ \E r \in runs : /\ r.binary = j.killer.binary
                          /\ \/ r.verdict = Failed(j.killer.test)
                             \/ r.probe /\ r.verdict = Failed(None)
  /\ j.outcome \notin {"Survived", "NoCoverage"} /\ j.killer = None =>
       \E r \in runs : /\ ~r.probe /\ r.verdict # Passed
                       /\ JudgementOn(r.binary, r.verdict) = Reached(j.outcome, None)

\* How far a worker is says what was run, and every judgement rests on its runs.
OnItsRuns(w) ==
  /\ pc[w] \in {"consult", "wait", "probe"} => evidence[Ordinal(w)] = {}
  /\ pc[w] = "probe" => Hint(w) # None /\ Hint(w).binary \in Reachable[Ordinal(w)]
  /\ pc[w] = "run" =>
       /\ left[w] \subseteq Selected(Ordinal(w))
       /\ Whole(Ordinal(w)) =
            [binary : Selected(Ordinal(w)) \ left[w], probe : {FALSE}, verdict : {Passed}]
  /\ pc[w] \in {"teach", "send", "abandon"} =>
       Rests(Ordinal(w), Selected(Ordinal(w)), evidence[Ordinal(w)], judged[w])
  /\ pc[w] = "send" => judged[w].outcome \in Outcomes
  /\ pc[w] = "abandon" => judged[w] = Abandoned

SentRest ==
  \A k \in DOMAIN channel :
    LET m == channel[k].position
    IN  /\ Rests(m, Selected(m), evidence[m], channel[k].judgement)
        /\ channel[k].judgement.outcome \in Outcomes

RecordedRest ==
  \A m \in Mutants : reported[m] = 1 =>
    Rests(m, Selected(m), evidence[m], Reached(outcome[m], killedBy[m]))

Grounded ==
  /\ \A i \in Mutants : i >= next => evidence[pending[i]] = {}
  /\ \A w \in Workers : OnItsRuns(w)
  /\ SentRest /\ RecordedRest

\* A run was of a binary that can reach the mutant, and came to what the suite allows.
Genuine ==
  \A m \in Mutants : \A r \in evidence[m] :
    /\ r.binary \in Reachable[m]
    /\ \/ r.verdict \in suite[m][r.binary]
       \/ r.probe /\ r.verdict = Passed
       \/ r.probe /\ \E v \in suite[m][r.binary] : v.kind \in Detections

IInv == TypeOK /\ Exclusive /\ Accounted /\ Ended /\ Grounded /\ Genuine /\ LearningIsHonest

-----------------------------------------------------------------------------
\* A set of ranks has a least one.
Less == {pair \in Nat \X Nat : pair[1] < pair[2]}

\* A set of ranks that is not empty has a least one.
LEMMA SomeLeast ==
  ASSUME NEW T \in SUBSET Nat, T # {}
  PROVE  \E x \in T : \A y \in T : x <= y
<1>1. IsWellFoundedOn(Less, Nat)
  BY NatLessThanWellFounded, Zenon DEF Less, OpToRel
<1>2. PICK x \in T : \A y \in T : ~(<<y, x>> \in Less)
  BY <1>1, WFMin
<1>3. \A i, j \in Nat : i < j => <<i, j>> \in Less
  BY DEF Less
<1>4. ASSUME NEW y \in T PROVE x <= y
  <2>1. x \in Nat /\ y \in Nat
    OBVIOUS
  <2>2. ~(y < x)
    BY <1>2, <1>3, <2>1
  <2> QED
    BY <2>1, <2>2
<1> QED
  BY <1>4

\* The foremost of a set of binaries is one of them.
LEMMA SomeForemost ==
  ASSUME NEW m \in Mutants, NEW bs \in SUBSET Binaries, bs # {}
  PROVE  Foremost(m, bs) \in bs
<1> DEFINE T == {Rank[m][b] : b \in bs}
<1>1. Rank[m] \in [Binaries -> Nat]
  BY SweepAssumption
<1>2. T \subseteq Nat /\ T # {}
  BY <1>1
<1>3. \E x \in T : \A y \in T : x <= y
  BY <1>2, SomeLeast
<1>4. PICK b \in bs : \A c \in bs : Rank[m][b] <= Rank[m][c]
  BY <1>3
<1> QED
  BY <1>4 DEF Foremost

\* The binary a worker turns to is one that is left.
LEMMA NextIsLeft ==
  ASSUME NEW m \in Mutants, NEW bs \in SUBSET Binaries, bs # {}, NEW killer
  PROVE  NextBinary(m, bs, killer) \in bs
BY SomeForemost DEF NextBinary

\* What a verdict makes of a mutant is a judgement, and when it is Abandoned.
LEMMA JudgementType ==
  ASSUME NEW b \in Binaries, NEW v \in Verdicts, v.kind # "Passed"
  PROVE  /\ JudgementOn(b, v) \in Judgements
         /\ JudgementOn(b, v).killer # None =>
              /\ v = Failed(v.test)
              /\ JudgementOn(b, v) = Reached("Killed", [binary |-> b, test |-> v.test])
         /\ JudgementOn(b, v).outcome \notin {"Survived", "NoCoverage"}
         /\ JudgementOn(b, v).outcome = "Abandoned" <=> v.kind = "Unmetered"
<1> USE SweepAssumption DEF JudgementOn, Verdicts, Judgements, Outcomes, Reached, Abandoned, Killers, Failed
<1>1. CASE v.kind = "Failed" /\ v.test = None
  BY <1>1
<1>2. CASE v.kind = "Failed" /\ v.test # None
  BY <1>2
<1>3. CASE v.kind = "TestEnumerationFailed"
  BY <1>3
<1>4. CASE v.kind \in {"TimedOut", "Stalled"}
  BY <1>4
<1>5. CASE v.kind = "MemoryLimit"
  BY <1>5
<1>6. CASE v.kind = "Flaky"
  BY <1>6
<1>7. CASE v.kind = "Unjudged"
  BY <1>7
<1>8. CASE v.kind = "Unmetered"
  BY <1>8
<1> QED
  BY <1>1, <1>2, <1>3, <1>4, <1>5, <1>6, <1>7, <1>8

\* What a worker looks up of its mutant.
LEMMA Lookups ==
  ASSUME TypeOK
  PROVE  /\ \A w \in Workers :
              /\ Ordinal(w) \in Mutants /\ Position(w) = Ordinal(w)
              /\ FileSlot(w) = FileOf[Ordinal(w)] /\ FileSlot(w) \in Files
              /\ Hint(w) \in Killers \union {None}
         /\ \A m \in Mutants : Selected(m) \subseteq Reachable[m] /\ Reachable[m] \subseteq Binaries
         /\ \A m \in Mutants : \A b \in Binaries : suite[m][b] \subseteq Verdicts
         /\ \A i \in Mutants : pending[i] \in Mutants
         /\ \A i, j \in Mutants : pending[i] = pending[j] => i = j
         /\ \A m \in Mutants : \E i \in Mutants : pending[i] = m
BY SweepAssumption DEF TypeOK, Ordinal, Position, FileSlot, Hint, Selected

\* The types of what a file learns.
LEMMA LearningType ==
  ASSUME NEW x \in Learnings
  PROVE  /\ x.killer \in Killers \union {None}
         /\ x.state = "Learned" => x.killer \in Killers /\ x = Learned(x.killer)
         /\ x.state = "InProgress" <=> x = InProgress
BY DEF Learnings, Learned, Untried, InProgress, Exhausted

\* A verdict of a probe is a verdict.
LEMMA ProbeType ==
  ASSUME NEW m \in Mutants, NEW hint \in Killers, suite[m][hint.binary] \subseteq Verdicts,
         NEW v \in ProbeVerdicts(m, hint)
  PROVE  v \in Verdicts
BY DEF ProbeVerdicts, Verdicts, Killers, Failed, Passed, Plain

-----------------------------------------------------------------------------
\* The invariant holds at the start.
LEMMA InitIInv == Init => IInv
<1> SUFFICES ASSUME Init PROVE IInv
  OBVIOUS
<1> USE SweepAssumption DEF Init
<1>1. TypeOK
  <2>1. Abandoned \in Judgements
    BY DEF Judgements, Abandoned, Reached
  <2>2. Untried \in Learnings
    BY DEF Learnings
  <2>3. hints \in [Mutants -> Killers \union {None}]
    OBVIOUS
  <2>4. channel \in Seq([position : Mutants, judgement : Judgements])
    OBVIOUS
  <2>5. index \in [Workers -> Mutants]
    BY DEF Mutants
  <2>6. pc \in [Workers -> Places] /\ outcome \in [Mutants -> Outcomes]
    BY DEF Places, Outcomes
  <2>7. evidence \in [Mutants -> SUBSET Runs] /\ reported \in [Mutants -> Nat]
    OBVIOUS
  <2>8. judged \in [Workers -> Judgements] /\ learning \in [Files -> Learnings]
    BY <2>1, <2>2
  <2>9. killers \in [Mutants -> Killers \union {None}] /\ killedBy \in [Mutants -> Killers \union {None}]
    BY <2>3
  <2>10. /\ role \in [Workers -> {"hinted", "learner", "sibling"}]
         /\ learned \in [Workers -> Killers \union {None}]
         /\ left \in [Workers -> SUBSET Binaries]
    <3>1. role \in [Workers -> {"hinted", "learner", "sibling"}]
      OBVIOUS
    <3>2. learned \in [Workers -> Killers \union {None}]
      OBVIOUS
    <3>3. left \in [Workers -> SUBSET Binaries]
      OBVIOUS
    <3> QED
      BY <3>1, <3>2, <3>3
  <2>11. next \in Nat \ {0}
    OBVIOUS
  <2>12. abandoned \in BOOLEAN
    BY Zenon
  <2>13. result \in {"running", "ok", "error"}
    OBVIOUS
  <2> QED
    BY <2>3, <2>4, <2>5, <2>6, <2>7, <2>8, <2>9, <2>10, <2>11, <2>12, <2>13 DEF TypeOK
<1>2. Exclusive /\ Accounted
  BY DEF Exclusive, Accounted, Holds, Holding, Mutants
<1>3. Ended /\ Genuine
  BY DEF Ended, Genuine
<1>4. Grounded
  BY <1>1, Lookups DEF Grounded, OnItsRuns, SentRest, RecordedRest
<1>5. LearningIsHonest
  BY DEF LearningIsHonest, Untried, InProgress
<1> QED
  BY <1>1, <1>2, <1>3, <1>4, <1>5 DEF IInv

-----------------------------------------------------------------------------
\* The types of what a worker notes of one run.
LEMMA WitnessType ==
  ASSUME TypeOK, NEW w \in Workers, NEW run \in Runs, Witness(w, run)
  PROVE  evidence' \in [Mutants -> SUBSET Runs]
BY Lookups DEF TypeOK, Witness

\* The types of what a worker begins with.
LEMMA BeginType ==
  ASSUME TypeOK, NEW w \in Workers, NEW killer \in Killers \union {None}, Begin(w, killer)
  PROVE  /\ left' \in [Workers -> SUBSET Binaries] /\ pc' \in [Workers -> Places]
         /\ learned' \in [Workers -> Killers \union {None}]
BY Lookups DEF TypeOK, Begin, Goto, Places

\* The types of what a worker judges.
LEMMA JudgeType ==
  ASSUME TypeOK, NEW w \in Workers, NEW judgement \in Judgements, Judge(w, judgement)
  PROVE  judged' \in [Workers -> Judgements] /\ pc' \in [Workers -> Places]
BY DEF TypeOK, Judge, Goto, Places

\* The types, action by action.
LEMMA TypeStep == IInv /\ [Next]_vars => TypeOK'
<1> SUFFICES ASSUME IInv, [Next]_vars PROVE TypeOK'
  OBVIOUS
<1> USE DEF TypeOK, world, shared, workers, plan
<1>0. TypeOK
  BY DEF IInv
<1>1. ASSUME NEW w \in Workers, Check(w) PROVE TypeOK'
  BY <1>0, <1>1 DEF Check, Goto, Places
<1>2. ASSUME NEW w \in Workers, Take(w) PROVE TypeOK'
  <2>1. next' \in Nat \ {0}
    BY <1>0, <1>2 DEF Take
  <2>2. \/ index' = [index EXCEPT ![w] = next] /\ next \in Mutants
        \/ index' = index
    BY <1>2 DEF Take
  <2>3. index' \in [Workers -> Mutants]
    BY <1>0, <2>2
  <2>4. pc' = [pc EXCEPT ![w] = "consult"] \/ pc' = [pc EXCEPT ![w] = "exited"]
    BY <1>2 DEF Take, Goto
  <2>5. pc' \in [Workers -> Places]
    BY <1>0, <2>4 DEF Places
  <2> QED
    BY <1>0, <1>2, <2>1, <2>3, <2>5 DEF Take
<1>3. ASSUME NEW w \in Workers, ConsultHinted(w) PROVE TypeOK'
  <2>1. role' \in [Workers -> {"hinted", "learner", "sibling"}]
    BY <1>0, <1>3 DEF ConsultHinted
  <2>2. CASE Begin(w, None)
    BY <1>0, <1>3, <2>1, <2>2, BeginType DEF ConsultHinted
  <2>3. CASE Goto(w, "probe") /\ UNCHANGED <<learned, left>>
    BY <1>0, <1>3, <2>1, <2>3 DEF ConsultHinted, Goto, Places
  <2> QED
    BY <1>3, <2>2, <2>3 DEF ConsultHinted
<1>4. ASSUME NEW w \in Workers, ConsultFile(w) PROVE TypeOK'
  <2> DEFINE f == FileSlot(w)
  <2>1. f \in Files /\ learning[f] \in Learnings
    BY <1>0, Lookups
  <2>2. CASE learning[f] = Untried
    <3>0. Untried # InProgress
      BY DEF Untried, InProgress
    <3>1. /\ Begin(w, None) /\ learning' = [learning EXCEPT ![f] = InProgress]
          /\ role' = [role EXCEPT ![w] = "learner"]
      BY <1>4, <2>2, <3>0 DEF ConsultFile
    <3>2. learning' \in [Files -> Learnings]
      BY <1>0, <3>1 DEF Learnings
    <3>3. role' \in [Workers -> {"hinted", "learner", "sibling"}]
      BY <1>0, <3>1
    <3> QED
      BY <1>0, <1>4, <3>1, <3>2, <3>3, BeginType DEF ConsultFile
  <2>3. CASE learning[f] = InProgress
    <3>1. Untried # InProgress
      BY DEF Untried, InProgress
    <3>2. /\ role' = [role EXCEPT ![w] = "sibling"] /\ Goto(w, "wait")
          /\ UNCHANGED <<learning, learned, left>>
      BY <1>4, <2>3, <3>1 DEF ConsultFile
    <3> QED
      BY <1>0, <1>4, <3>2 DEF ConsultFile, Goto, Places
  <2>4. CASE learning[f] # Untried /\ learning[f] # InProgress
    <3>1. Begin(w, learning[f].killer) /\ UNCHANGED learning
          /\ role' = [role EXCEPT ![w] = "sibling"]
      BY <1>4, <2>4 DEF ConsultFile
    <3>2. learning[f].killer \in Killers \union {None}
      BY <2>1, LearningType
    <3>3. role' \in [Workers -> {"hinted", "learner", "sibling"}]
      BY <1>0, <3>1
    <3> QED
      BY <1>0, <1>4, <3>1, <3>2, <3>3, BeginType DEF ConsultFile
  <2> QED
    BY <2>2, <2>3, <2>4
<1>5. ASSUME NEW w \in Workers, Wake(w) PROVE TypeOK'
  <2>1. learning[FileSlot(w)].killer \in Killers \union {None}
    BY <1>0, Lookups, LearningType
  <2> QED
    BY <1>0, <1>5, <2>1, BeginType DEF Wake
<1>6. ASSUME NEW w \in Workers, Teach(w) PROVE TypeOK'
  <2>1. judged[w].killer \in Killers \union {None}
    BY <1>0 DEF Judgements
  <2>2. learning' \in [Files -> Learnings]
    BY <1>0, <1>6, <2>1 DEF Teach, Learnings
  <2> QED
    BY <1>0, <1>6, <2>2 DEF Teach, Goto, Places
<1>7. ASSUME NEW w \in Workers, Probe(w) PROVE TypeOK'
  <2> DEFINE m == Ordinal(w)
             h == Hint(w)
             killer(v) == [binary |-> h.binary, test |-> IF v.test = None THEN h.test ELSE v.test]
  <2>1. h \in Killers /\ m \in Mutants
    BY <1>0, <1>7, Lookups DEF Probe, IInv, Grounded, OnItsRuns
  <2>2. h.binary \in Binaries /\ h.test \in Tests
    BY <2>1 DEF Killers
  <2>3. PICK v \in ProbeVerdicts(m, h) :
          /\ Witness(w, [binary |-> h.binary, probe |-> TRUE, verdict |-> v])
          /\ IF v.kind = "Failed"
               THEN Judge(w, Reached("Killed", killer(v))) /\ UNCHANGED <<learned, left>>
               ELSE Begin(w, None) /\ UNCHANGED judged
    BY <1>7 DEF Probe
  <2>4. v \in Verdicts
    BY <1>0, <2>1, <2>2, ProbeType, Lookups
  <2>5. evidence' \in [Mutants -> SUBSET Runs]
    <3>1. [binary |-> h.binary, probe |-> TRUE, verdict |-> v] \in Runs
      BY <2>2, <2>4 DEF Runs
    <3> QED
      BY <1>0, <2>3, <3>1, WitnessType
  <2>6. Reached("Killed", killer(v)) \in Judgements
    <3>1. v.test \in Tests \union {None}
      BY <2>4 DEF Verdicts
    <3> QED
      BY <2>2, <3>1 DEF Reached, Judgements, Outcomes, Killers
  <2> HIDE DEF m, h, killer
  <2>7. CASE v.kind = "Failed"
    BY <1>0, <1>7, <2>3, <2>5, <2>6, <2>7, JudgeType DEF Probe
  <2>8. CASE v.kind # "Failed"
    BY <1>0, <1>7, <2>3, <2>5, <2>8, BeginType DEF Probe
  <2> QED
    BY <2>7, <2>8
<1>8. ASSUME NEW w \in Workers, Run(w) PROVE TypeOK'
  <2> DEFINE m == Ordinal(w)
             b == NextBinary(m, left[w], learned[w])
  <2>1. m \in Mutants /\ left[w] \in SUBSET Binaries /\ left[w] # {}
    BY <1>0, <1>8, Lookups DEF Run
  <2>2. b \in Binaries
    BY <2>1, NextIsLeft
  <2>3. PICK v \in suite[m][b] :
          /\ Witness(w, [binary |-> b, probe |-> FALSE, verdict |-> v])
          /\ left' = [left EXCEPT ![w] = @ \ {b}]
          /\ IF v.kind = "Passed" THEN UNCHANGED <<pc, judged>> ELSE Judge(w, JudgementOn(b, v))
    BY <1>8 DEF Run
  <2>4. v \in Verdicts
    BY <1>0, <2>1, <2>2, Lookups
  <2>5. evidence' \in [Mutants -> SUBSET Runs]
    <3>1. [binary |-> b, probe |-> FALSE, verdict |-> v] \in Runs
      BY <2>2, <2>4 DEF Runs
    <3> QED
      BY <1>0, <2>3, <3>1, WitnessType
  <2>6. left' \in [Workers -> SUBSET Binaries]
    BY <1>0, <2>3
  <2> HIDE DEF m, b
  <2>7. CASE v.kind = "Passed"
    BY <1>0, <1>8, <2>3, <2>5, <2>6, <2>7 DEF Run
  <2>8. CASE v.kind # "Passed"
    <3>1. JudgementOn(b, v) \in Judgements
      BY <2>2, <2>4, <2>8, JudgementType
    <3> QED
      BY <1>0, <1>8, <2>3, <2>5, <2>6, <2>8, <3>1, JudgeType DEF Run
  <2> QED
    BY <2>7, <2>8
<1>9. ASSUME NEW w \in Workers, Exhaust(w) PROVE TypeOK'
  <2> DEFINE j == Reached(IF Selected(Ordinal(w)) = {} THEN "NoCoverage" ELSE "Survived", None)
  <2>1. j \in Judgements
    BY DEF Reached, Judgements, Outcomes
  <2> HIDE DEF j
  <2> QED
    BY <1>0, <1>9, <2>1, JudgeType DEF Exhaust, j
<1>10. ASSUME NEW w \in Workers, Send(w) PROVE TypeOK'
  <2>1. [position |-> Position(w), judgement |-> judged[w]] \in [position : Mutants, judgement : Judgements]
    BY <1>0, Lookups
  <2>2. channel' \in Seq([position : Mutants, judgement : Judgements])
    BY <1>0, <1>10, <2>1, AppendProperties DEF Send
  <2> QED
    BY <1>0, <1>10, <2>2 DEF Send, Goto, Places
<1>11. ASSUME NEW w \in Workers, Abandon(w) PROVE TypeOK'
  BY <1>0, <1>11 DEF Abandon, Goto, Places
<1>12. ASSUME Record PROVE TypeOK'
  <2>1. 1 \in DOMAIN channel /\ Head(channel) = channel[1]
    BY <1>0, <1>12 DEF Record
  <2>2. Head(channel).position \in Mutants /\ Head(channel).judgement.killer \in Killers \union {None}
    <3>1. channel[1] \in [position : Mutants, judgement : Judgements]
      <4>1. 1 \in 1 .. Len(channel)
        BY <1>0, <2>1
      <4> QED
        BY <1>0, <4>1, ElementOfSeq
    <3> QED
      BY <2>1, <3>1 DEF Judgements
  <2>3. Head(channel).judgement.outcome \in Outcomes
    BY <2>1 DEF IInv, Grounded, SentRest
  <2>4. channel' \in Seq([position : Mutants, judgement : Judgements])
    BY <1>0, <1>12 DEF Record
  <2> DEFINE m == Head(channel).position
             j == Head(channel).judgement
  <2>5. /\ outcome' = [outcome EXCEPT ![m] = j.outcome]
        /\ killedBy' = [killedBy EXCEPT ![m] = j.killer]
        /\ killers' = [killers EXCEPT ![m] = j.killer]
        /\ reported' = [reported EXCEPT ![m] = @ + 1]
    BY <1>12 DEF Record
  <2> HIDE DEF m, j
  <2>6. outcome' \in [Mutants -> Outcomes] /\ reported' \in [Mutants -> Nat]
    BY <1>0, <2>2, <2>3, <2>5 DEF m, j
  <2>7. killedBy' \in [Mutants -> Killers \union {None}] /\ killers' \in [Mutants -> Killers \union {None}]
    BY <1>0, <2>2, <2>5 DEF m, j
  <2> QED
    BY <1>0, <1>12, <2>4, <2>6, <2>7 DEF Record
<1>13. ASSUME Finish PROVE TypeOK'
  BY <1>0, <1>13 DEF Finish
<1>14. CASE UNCHANGED vars
  BY <1>0, <1>14 DEF vars
<1> QED
  BY <1>1, <1>2, <1>3, <1>4, <1>5, <1>6, <1>7, <1>8, <1>9, <1>10, <1>11, <1>12, <1>13,
     <1>14 DEF Next, Worker

-----------------------------------------------------------------------------
\* A worker that goes on with its mutant.
GoesOn(w) ==
  /\ Holds(w) /\ pc' \in [Workers -> Places] /\ pc'[w] \in Holding
  /\ \A v \in Workers \ {w} :
       pc'[v] = pc[v] /\ role'[v] = role[v] /\ left'[v] = left[v] /\ judged'[v] = judged[v]
  /\ UNCHANGED <<world, index, next, abandoned, channel, plan>>
  /\ \A m \in Mutants : evidence[m] \subseteq evidence'[m]
  /\ \A m \in Mutants \ {Ordinal(w)} : evidence'[m] = evidence[m]

\* A run adds to the evidence of its own mutant alone.
LEMMA WitnessGrows ==
  ASSUME TypeOK, NEW w \in Workers, NEW run, Witness(w, run)
  PROVE  /\ \A m \in Mutants : evidence[m] \subseteq evidence'[m]
         /\ evidence'[Ordinal(w)] = evidence[Ordinal(w)] \union {run}
         /\ \A m \in Mutants \ {Ordinal(w)} : evidence'[m] = evidence[m]
BY Lookups DEF TypeOK, Witness

\* Most steps of a worker leave it with its mutant.
LEMMA MostGoOn ==
  ASSUME IInv, NEW w \in Workers, TypeOK',
         ConsultHinted(w) \/ ConsultFile(w) \/ Wake(w) \/ Teach(w) \/ Probe(w) \/ Run(w) \/ Exhaust(w)
  PROVE  GoesOn(w)
<1> USE DEF GoesOn, Holds, Holding, Goto, Begin, Judge, shared, workers
<1>0. TypeOK /\ pc' \in [Workers -> Places] /\ pc \in [Workers -> Places]
  BY DEF IInv, TypeOK
<1>8. /\ role \in [Workers -> {"hinted", "learner", "sibling"}]
      /\ left \in [Workers -> SUBSET Binaries] /\ judged \in [Workers -> Judgements]
  BY <1>0 DEF TypeOK
<1>1. CASE ConsultHinted(w)
  BY <1>0, <1>8, <1>1 DEF ConsultHinted
<1>2. CASE ConsultFile(w)
  <2>1. Untried # InProgress
    BY DEF Untried, InProgress
  <2>2. pc' = [pc EXCEPT ![w] = "run"] \/ pc' = [pc EXCEPT ![w] = "wait"]
    <3>1. CASE learning[FileSlot(w)] = Untried
      BY <1>2, <2>1, <3>1 DEF ConsultFile
    <3>2. CASE learning[FileSlot(w)] = InProgress
      BY <1>2, <2>1, <3>2 DEF ConsultFile
    <3>3. CASE learning[FileSlot(w)] # Untried /\ learning[FileSlot(w)] # InProgress
      BY <1>2, <3>3 DEF ConsultFile
    <3> QED
      BY <3>1, <3>2, <3>3
  <2>3. /\ pc[w] = "consult"
        /\ UNCHANGED <<world, next, abandoned, channel, index, judged, plan, evidence>>
    BY <1>2 DEF ConsultFile
  <2>4. \A v \in Workers \ {w} : role'[v] = role[v] /\ left'[v] = left[v]
    <3>1. CASE learning[FileSlot(w)] = Untried
      BY <1>2, <1>8, <2>1, <3>1 DEF ConsultFile
    <3>2. CASE learning[FileSlot(w)] = InProgress
      BY <1>2, <1>8, <2>1, <3>2 DEF ConsultFile
    <3>3. CASE learning[FileSlot(w)] # Untried /\ learning[FileSlot(w)] # InProgress
      BY <1>2, <1>8, <3>3 DEF ConsultFile
    <3> QED
      BY <3>1, <3>2, <3>3
  <2> QED
    BY <1>0, <2>2, <2>3, <2>4
<1>3. CASE Wake(w)
  BY <1>0, <1>8, <1>3 DEF Wake
<1>4. CASE Teach(w)
  BY <1>0, <1>8, <1>4 DEF Teach
<1>5. CASE Probe(w)
  <2>1. /\ \A m \in Mutants : evidence[m] \subseteq evidence'[m]
        /\ \A m \in Mutants \ {Ordinal(w)} : evidence'[m] = evidence[m]
    BY <1>0, <1>8, <1>5, WitnessGrows DEF Probe
  <2>2. pc' = [pc EXCEPT ![w] = "run"] \/ pc' = [pc EXCEPT ![w] = "teach"]
    BY <1>5 DEF Probe
  <2> QED
    BY <1>0, <1>8, <1>5, <2>1, <2>2 DEF Probe
<1>6. CASE Run(w)
  <2>1. /\ \A m \in Mutants : evidence[m] \subseteq evidence'[m]
        /\ \A m \in Mutants \ {Ordinal(w)} : evidence'[m] = evidence[m]
    BY <1>0, <1>8, <1>6, WitnessGrows DEF Run
  <2>2. pc' = pc \/ pc' = [pc EXCEPT ![w] = "teach"]
    BY <1>6 DEF Run
  <2> QED
    BY <1>0, <1>8, <1>6, <2>1, <2>2 DEF Run
<1>7. CASE Exhaust(w)
  BY <1>0, <1>8, <1>7 DEF Exhaust
<1> QED
  BY <1>1, <1>2, <1>3, <1>4, <1>5, <1>6, <1>7

\* One queue position is one mutant, and no step moves it.
LEMMA SamePlace ==
  ASSUME TypeOK, UNCHANGED world, UNCHANGED index
  PROVE  /\ \A w \in Workers : Position(w)' = Position(w) /\ Ordinal(w)' = Ordinal(w)
         /\ \A w \in Workers : Hint(w)' = Hint(w) /\ FileSlot(w)' = FileSlot(w)
         /\ \A m \in Mutants : Selected(m)' = Selected(m)
BY DEF world, Position, Ordinal, Hint, FileSlot, Selected

\* A worker that stays with its mutant loses none.
LEMMA GoingOnKeepsTheQueue ==
  ASSUME IInv, NEW w \in Workers, GoesOn(w)
  PROVE  Exclusive' /\ Accounted' /\ Ended'
<1>0. TypeOK /\ Exclusive /\ Accounted /\ Ended
  BY DEF IInv
<1>1. \A v \in Workers : Holds(v)' <=> Holds(v)
  BY DEF GoesOn, Holds
<1>2. Exclusive'
  <2>1. \A v \in Workers : Position(v)' = Position(v)
    BY <1>0, SamePlace DEF GoesOn
  <2> QED
    BY <1>0, <1>1, <2>1 DEF Exclusive, GoesOn, world, plan
<1>3. Accounted'
  <2>1. \A m \in Mutants : Unmetered(evidence[m]) => Unmetered(evidence[m])'
    BY DEF GoesOn, Unmetered
  <2>2. \A i \in Mutants : pending[i] \in Mutants
    BY <1>0, Lookups
  <2> QED
    BY <1>0, <1>1, <2>1, <2>2 DEF Accounted, GoesOn, world, plan
<1>4. Ended'
  <2>1. pc[w] # "exited" /\ pc'[w] # "exited"
    BY DEF GoesOn, Holds, Holding
  <2> QED
    BY <1>0, <2>1 DEF Ended, GoesOn, plan
<1> QED
  BY <1>2, <1>3, <1>4

\* Looking whether to stop loses no mutant.
LEMMA CheckKeepsTheQueue ==
  ASSUME IInv, NEW w \in Workers, Check(w)
  PROVE  Exclusive' /\ Accounted' /\ Ended'
<1>0. TypeOK /\ Exclusive /\ Accounted /\ Ended
  BY DEF IInv
<1>1. /\ pc[w] = "check" /\ UNCHANGED <<world, shared, index, plan, evidence>>
      /\ pc' = [pc EXCEPT ![w] = IF abandoned THEN "exited" ELSE "take"]
  BY DEF Check, Goto
<1>2. \A v \in Workers : (Holds(v)' <=> Holds(v)) /\ (pc'[v] = "exited" => pc[v] = "exited" \/ abandoned)
  BY <1>0, <1>1 DEF TypeOK, Holds, Holding
<1>3. Exclusive'
  <2>1. \A v \in Workers : Position(v)' = Position(v)
    BY <1>0, <1>1, SamePlace
  <2> QED
    BY <1>0, <1>1, <1>2, <2>1 DEF Exclusive, world, shared, plan
<1>4. Accounted'
  BY <1>0, <1>1, <1>2 DEF Accounted, world, shared, plan
<1>5. Ended'
  BY <1>0, <1>1, <1>2 DEF Ended, shared, plan
<1> QED
  BY <1>3, <1>4, <1>5

\* Taking a mutant loses none and gives none to two workers.
LEMMA TakeKeepsTheQueue ==
  ASSUME IInv, NEW w \in Workers, Take(w)
  PROVE  Exclusive' /\ Accounted' /\ Ended'
<1>0. TypeOK /\ Exclusive /\ Accounted /\ Ended
  BY DEF IInv
<1>1. /\ pc[w] = "take" /\ next' = next + 1 /\ next \in Nat \ {0}
      /\ UNCHANGED <<world, abandoned, channel, plan, evidence>>
  BY <1>0 DEF Take, TypeOK
<1>2. CASE next \in Mutants
  <2>1. index' = [index EXCEPT ![w] = next] /\ pc' = [pc EXCEPT ![w] = "consult"]
    BY <1>2 DEF Take, Goto
  <2>2. /\ \A v \in Workers \ {w} : (Holds(v)' <=> Holds(v)) /\ index'[v] = index[v]
        /\ ~Holds(w) /\ Holds(w)' /\ index'[w] = next
    BY <1>0, <1>1, <2>1 DEF TypeOK, Holds, Holding
  <2>3. /\ \A v \in Workers \ {w} : Position(v)' = Position(v) /\ index[v] \in Mutants
        /\ Position(w)' = pending[next]
    BY <1>0, <1>1, <2>2 DEF Position, world, TypeOK
  <2>4. \A i \in Mutants : i \in Nat
    BY DEF Mutants
  <2>5. Exclusive'
    <3>1. \A v \in Workers : Holds(v)' => index'[v] < next' /\ reported'[Position(v)'] = 0
      <4>1. \A v \in Workers \ {w} : Holds(v)' => index'[v] < next' /\ reported'[Position(v)'] = 0
        BY <1>0, <1>1, <2>2, <2>3, <2>4 DEF Exclusive, plan
      <4>2. index'[w] < next' /\ reported'[Position(w)'] = 0
        BY <1>0, <1>1, <1>2, <2>2, <2>3 DEF Exclusive, plan
      <4> QED
        BY <4>1, <4>2
    <3>2. \A v, u \in Workers : Holds(v)' /\ Holds(u)' /\ index'[v] = index'[u] => v = u
      <4>1. \A v \in Workers \ {w} : Holds(v)' => index'[v] # next
        BY <1>0, <1>1, <2>2, <2>3, <2>4 DEF Exclusive
      <4> QED
        BY <1>0, <2>2, <4>1 DEF Exclusive
    <3>3. \A k \in DOMAIN channel : \A v \in Workers : Holds(v)' => Position(v)' # channel[k].position
      BY <1>0, <1>1, <1>2, <2>2, <2>3 DEF Exclusive
    <3>4. \A i \in Mutants : i >= next' => i >= next
      BY <1>1, <2>4
    <3> QED
      BY <1>0, <1>1, <3>1, <3>2, <3>3, <3>4 DEF Exclusive, world, plan
  <2>6. Accounted'
    <3> SUFFICES ASSUME NEW i \in Mutants, i < next'
                 PROVE  \/ reported'[pending'[i]] = 1
                        \/ \E k \in DOMAIN channel' : channel'[k].position = pending'[i]
                        \/ \E v \in Workers : Holds(v)' /\ index'[v] = i
                        \/ abandoned' /\ Unmetered(evidence'[pending'[i]])
      BY DEF Accounted, Unmetered
    <3>1. CASE i = next
      BY <2>2, <3>1
    <3>2. CASE i # next
      <4>1. i < next
        BY <1>1, <2>4, <3>2
      <4>2. \A v \in Workers : Holds(v) => v # w
        BY <2>2
      <4> QED
        BY <1>0, <1>1, <2>2, <4>1, <4>2 DEF Accounted, world, plan
    <3> QED
      BY <3>1, <3>2
  <2>7. Ended'
    <3>1. ~(next > N)
      BY <1>2, SweepAssumption DEF Mutants
    <3>2. \A v \in Workers : pc'[v] = "exited" => pc[v] = "exited"
      BY <1>0, <2>1 DEF TypeOK
    <3>3. result = "running"
      BY <1>0, <1>1 DEF Ended
    <3> QED
      BY <1>0, <1>1, <3>1, <3>2, <3>3 DEF Ended, plan
  <2> QED
    BY <2>5, <2>6, <2>7
<1>3. CASE next \notin Mutants
  <2>1. index' = index /\ pc' = [pc EXCEPT ![w] = "exited"]
    BY <1>3 DEF Take, Goto
  <2>2. \A v \in Workers : (Holds(v)' <=> Holds(v)) /\ Position(v)' = Position(v)
    <3>1. \A v \in Workers : Position(v)' = Position(v)
      BY <1>0, <1>1, <2>1, SamePlace
    <3> QED
      BY <1>0, <1>1, <2>1, <3>1 DEF TypeOK, Holds, Holding
  <2>3. next > N /\ next' > N /\ \A i \in Mutants : i < next /\ i < next'
    BY <1>1, <1>3, SweepAssumption DEF Mutants
  <2>4. Exclusive'
    <3>1. index'= index /\ \A v \in Workers : index[v] < next'
      BY <1>0, <2>1, <2>3 DEF TypeOK
    <3>2. \A i \in Mutants : ~(i >= next')
      BY <1>1, <2>3 DEF Mutants
    <3> QED
      BY <1>0, <1>1, <2>2, <3>1, <3>2 DEF Exclusive, world, plan
  <2>5. Accounted'
    BY <1>0, <1>1, <2>1, <2>2, <2>3 DEF Accounted, world, plan
  <2>6. Ended'
    BY <1>0, <1>1, <2>1, <2>3 DEF Ended, plan, TypeOK
  <2> QED
    BY <2>4, <2>5, <2>6
<1> QED
  BY <1>2, <1>3

\* Abandoning a mutant accounts for it.
LEMMA AbandonKeepsTheQueue ==
  ASSUME IInv, NEW w \in Workers, Abandon(w), Unmetered(evidence[Ordinal(w)])
  PROVE  Exclusive' /\ Accounted' /\ Ended'
<1>0. TypeOK /\ Exclusive /\ Accounted /\ Ended
  BY DEF IInv
<1>1. /\ pc[w] = "abandon" /\ UNCHANGED <<world, next, channel, index, plan, evidence>>
      /\ abandoned' = TRUE /\ pc' = [pc EXCEPT ![w] = "exited"]
  BY DEF Abandon, Goto
<1>2. \A v \in Workers : (Holds(v)' <=> (Holds(v) /\ v # w)) /\ Position(v)' = Position(v)
  <2>1. \A v \in Workers : Position(v)' = Position(v)
    BY <1>0, <1>1, SamePlace
  <2> QED
    BY <1>0, <1>1, <2>1 DEF TypeOK, Holds, Holding
<1>3. Exclusive'
  BY <1>0, <1>1, <1>2 DEF Exclusive, world, plan
<1>4. Accounted'
  <2>1. \A i \in Mutants : index[w] = i => Unmetered(evidence[pending[i]])
    BY DEF Ordinal
  <2> QED
    BY <1>0, <1>1, <1>2, <2>1 DEF Accounted, world, plan, Unmetered
<1>5. Ended'
  BY <1>0, <1>1 DEF Ended, plan, TypeOK
<1> QED
  BY <1>3, <1>4, <1>5

\* Sending a verdict accounts for its mutant.
LEMMA SendKeepsTheQueue ==
  ASSUME IInv, NEW w \in Workers, Send(w)
  PROVE  Exclusive' /\ Accounted' /\ Ended'
<1>0. TypeOK /\ Exclusive /\ Accounted /\ Ended
  BY DEF IInv
<1> DEFINE sent == [position |-> Position(w), judgement |-> judged[w]]
<1>1. /\ pc[w] = "send" /\ UNCHANGED <<world, next, abandoned, index, plan, evidence>>
      /\ channel' = Append(channel, sent) /\ pc' = [pc EXCEPT ![w] = "check"]
  BY DEF Send, Goto
<1>2. \A v \in Workers : (Holds(v)' <=> (Holds(v) /\ v # w)) /\ Position(v)' = Position(v)
  <2>1. \A v \in Workers : Position(v)' = Position(v)
    BY <1>0, <1>1, SamePlace
  <2> QED
    BY <1>0, <1>1, <2>1 DEF TypeOK, Holds, Holding
<1>3. /\ channel \in Seq([position : Mutants, judgement : Judgements])
      /\ DOMAIN channel = 1 .. Len(channel) /\ Len(channel) \in Nat
      /\ DOMAIN channel' = 1 .. Len(channel) + 1
      /\ \A k \in DOMAIN channel : channel'[k] = channel[k]
      /\ channel'[Len(channel) + 1].position = Position(w)
  BY <1>0, <1>1 DEF TypeOK
<1>4. Holds(w) /\ index[w] \in Mutants /\ Position(w) = pending[index[w]]
  BY <1>0, <1>1 DEF Holds, Holding, TypeOK, Position
<1>5. \A k \in DOMAIN channel' :
         k \in DOMAIN channel \/ (k = Len(channel) + 1 /\ k \notin DOMAIN channel)
  <2>1. \A k \in 1 .. Len(channel) + 1 : k \in 1 .. Len(channel) \/ k = Len(channel) + 1
    BY <1>3
  <2>2. Len(channel) + 1 \notin 1 .. Len(channel)
    BY <1>3
  <2> QED
    BY <1>3, <2>1, <2>2
<1>6. Exclusive'
  <2>1. \A v \in Workers : Holds(v)' => index'[v] < next' /\ reported'[Position(v)'] = 0
    BY <1>0, <1>1, <1>2 DEF Exclusive, plan
  <2>2. \A u, v \in Workers : Holds(v)' /\ Holds(u)' /\ index'[v] = index'[u] => v = u
    BY <1>0, <1>1, <1>2 DEF Exclusive
  <2>3. \A k \in DOMAIN channel' : reported'[channel'[k].position] = 0
    BY <1>0, <1>1, <1>3, <1>4, <1>5 DEF Exclusive, plan
  <2>4. \A k, l \in DOMAIN channel' : channel'[l].position = channel'[k].position => l = k
    BY <1>0, <1>3, <1>4, <1>5 DEF Exclusive
  <2>5. \A k \in DOMAIN channel' : \A v \in Workers : Holds(v)' => Position(v)' # channel'[k].position
    <3>1. \A v \in Workers : Holds(v) /\ v # w => Position(v) # Position(w)
      <4>1. \A v \in Workers : index[v] \in Mutants /\ Position(v) = pending[index[v]]
        BY <1>0 DEF TypeOK, Position
      <4> QED
        BY <1>0, <1>4, <4>1, Lookups DEF Exclusive
    <3> QED
      BY <1>0, <1>2, <1>3, <1>4, <1>5, <3>1 DEF Exclusive
  <2>6. \A i \in Mutants : i >= next' =>
          reported'[pending'[i]] = 0 /\ \A k \in DOMAIN channel' : channel'[k].position # pending'[i]
    <3>1. \A i \in Mutants : i >= next => pending[i] # Position(w)
      <4>1. index[w] < next /\ next \in Nat /\ \A i \in Mutants : i \in Nat
        BY <1>0, <1>4 DEF Exclusive, TypeOK, Mutants
      <4> QED
        BY <1>0, <1>4, <4>1, Lookups
    <3> QED
      BY <1>0, <1>1, <1>3, <1>5, <3>1 DEF Exclusive, world, plan
  <2>7. \A m \in Mutants : reported'[m] <= 1
    BY <1>0, <1>1 DEF Exclusive, plan
  <2> QED
    BY <2>1, <2>2, <2>3, <2>4, <2>5, <2>6, <2>7 DEF Exclusive
<1>7. Accounted'
  <2> SUFFICES ASSUME NEW i \in Mutants, i < next'
               PROVE  \/ reported'[pending'[i]] = 1
                      \/ \E k \in DOMAIN channel' : channel'[k].position = pending'[i]
                      \/ \E v \in Workers : Holds(v)' /\ index'[v] = i
                      \/ abandoned' /\ Unmetered(evidence'[pending'[i]])
    BY DEF Accounted, Unmetered
  <2>1. CASE i = index[w]
    <3>1. Len(channel) + 1 \in DOMAIN channel' /\ pending'[i] = Position(w)
      BY <1>1, <1>3, <1>4, <2>1 DEF world
    <3> QED
      BY <1>3, <3>1
  <2>2. CASE \E k \in DOMAIN channel : channel[k].position = pending[i]
    <3>1. \A k \in DOMAIN channel : k \in DOMAIN channel'
      BY <1>3
    <3> QED
      BY <1>1, <1>3, <2>2, <3>1 DEF world
  <2>3. CASE i # index[w] /\ ~\E k \in DOMAIN channel : channel[k].position = pending[i]
    BY <1>0, <1>1, <1>2, <2>3 DEF Accounted, world, plan
  <2> QED
    BY <2>1, <2>2, <2>3
<1>8. Ended'
  BY <1>0, <1>1 DEF Ended, plan, TypeOK
<1> QED
  BY <1>6, <1>7, <1>8

\* Recording a verdict records it once.
LEMMA RecordKeepsTheQueue ==
  ASSUME IInv, Record
  PROVE  Exclusive' /\ Accounted' /\ Ended'
<1>0. TypeOK /\ Exclusive /\ Accounted /\ Ended
  BY DEF IInv
<1>1. /\ channel # <<>> /\ channel' = Tail(channel)
      /\ reported' = [reported EXCEPT ![Head(channel).position] = @ + 1]
      /\ UNCHANGED <<world, next, abandoned, workers, result, evidence>>
  BY DEF Record
<1>2. /\ channel \in Seq([position : Mutants, judgement : Judgements])
      /\ DOMAIN channel = 1 .. Len(channel) /\ Len(channel) \in Nat \ {0}
      /\ DOMAIN channel' = 1 .. Len(channel) - 1
      /\ \A k \in DOMAIN channel' : channel'[k] = channel[k + 1]
      /\ Head(channel) = channel[1]
  BY <1>0, <1>1, HeadTailProperties DEF TypeOK
<1>3. 1 \in DOMAIN channel /\ \A k \in DOMAIN channel' : k + 1 \in DOMAIN channel /\ k + 1 # 1
  BY <1>2
<1>4. PICK m \in Mutants : m = channel[1].position
  <2>1. channel[1] \in [position : Mutants, judgement : Judgements]
    <3>1. 1 \in 1 .. Len(channel)
      BY <1>2
    <3> QED
      BY <1>2, <3>1, ElementOfSeq
  <2> QED
    BY <2>1
<1>5. /\ reported[m] = 0 /\ reported'[m] = 1
      /\ \A n \in Mutants \ {m} : reported'[n] = reported[n]
  BY <1>0, <1>1, <1>2, <1>3, <1>4 DEF Exclusive, TypeOK
<1>6. \A k \in DOMAIN channel' : channel'[k].position # m /\ channel'[k].position \in Mutants
  <2>1. \A k \in DOMAIN channel : channel[k] \in [position : Mutants, judgement : Judgements]
    BY <1>2, ElementOfSeq
  <2> QED
    BY <1>0, <1>2, <1>3, <1>4, <2>1 DEF Exclusive
<1>7. \A v \in Workers : (Holds(v)' <=> Holds(v)) /\ Position(v)' = Position(v) /\ Position(v) \in Mutants
  <2>1. \A v \in Workers : Position(v)' = Position(v)
    BY <1>0, <1>1, SamePlace DEF workers
  <2> QED
    BY <1>0, <1>1, <2>1, Lookups DEF Holds, workers
<1>8. Exclusive'
  <2>1. \A v \in Workers : Holds(v)' => index'[v] < next' /\ reported'[Position(v)'] = 0
    BY <1>0, <1>1, <1>3, <1>4, <1>5, <1>7 DEF Exclusive, workers
  <2>2. \A u, v \in Workers : Holds(v)' /\ Holds(u)' /\ index'[v] = index'[u] => v = u
    BY <1>0, <1>1, <1>7 DEF Exclusive, workers
  <2>3. \A k \in DOMAIN channel' : reported'[channel'[k].position] = 0
    BY <1>0, <1>2, <1>3, <1>5, <1>6 DEF Exclusive
  <2>4. \A k, l \in DOMAIN channel' : channel'[l].position = channel'[k].position => l = k
    <3>1. \A k, l \in DOMAIN channel' : channel'[l].position = channel'[k].position => l + 1 = k + 1
      BY <1>0, <1>2, <1>3 DEF Exclusive
    <3> QED
      BY <1>2, <3>1
  <2>5. \A k \in DOMAIN channel' : \A v \in Workers : Holds(v)' => Position(v)' # channel'[k].position
    BY <1>0, <1>2, <1>3, <1>7 DEF Exclusive
  <2>6. \A i \in Mutants : i >= next' =>
          reported'[pending'[i]] = 0 /\ \A k \in DOMAIN channel' : channel'[k].position # pending'[i]
    BY <1>0, <1>1, <1>2, <1>3, <1>4, <1>5, Lookups DEF Exclusive, world
  <2>7. \A n \in Mutants : reported'[n] <= 1
    BY <1>0, <1>5 DEF Exclusive
  <2> QED
    BY <2>1, <2>2, <2>3, <2>4, <2>5, <2>6, <2>7 DEF Exclusive
<1>9. Accounted'
  <2> SUFFICES ASSUME NEW i \in Mutants, i < next'
               PROVE  \/ reported'[pending'[i]] = 1
                      \/ \E k \in DOMAIN channel' : channel'[k].position = pending'[i]
                      \/ \E v \in Workers : Holds(v)' /\ index'[v] = i
                      \/ abandoned' /\ Unmetered(evidence'[pending'[i]])
    BY DEF Accounted, Unmetered
  <2>1. pending'[i] = pending[i] /\ pending[i] \in Mutants /\ i < next
    BY <1>0, <1>1, Lookups DEF world
  <2>2. CASE pending[i] = m
    BY <1>5, <2>1, <2>2
  <2>3. CASE pending[i] # m /\ \E k \in DOMAIN channel : channel[k].position = pending[i]
    <3>1. PICK k \in DOMAIN channel : channel[k].position = pending[i]
      BY <2>3
    <3>2. k - 1 \in DOMAIN channel' /\ k - 1 + 1 = k
      BY <1>2, <1>4, <2>3, <3>1
    <3> QED
      BY <1>2, <2>1, <3>1, <3>2
  <2>4. CASE pending[i] # m /\ ~\E k \in DOMAIN channel : channel[k].position = pending[i]
    BY <1>0, <1>1, <1>5, <1>7, <2>1, <2>4 DEF Accounted, workers
  <2> QED
    BY <2>2, <2>3, <2>4
<1>10. Ended'
  BY <1>0, <1>1 DEF Ended, workers
<1> QED
  BY <1>8, <1>9, <1>10

\* The end of a sweep leaves every mutant accounted for.
LEMMA FinishKeepsTheQueue ==
  ASSUME IInv, Finish \/ UNCHANGED vars
  PROVE  Exclusive' /\ Accounted' /\ Ended'
<1>0. TypeOK /\ Exclusive /\ Accounted /\ Ended
  BY DEF IInv
<1>1. UNCHANGED <<world, shared, workers, reported, evidence>>
  BY DEF Finish, vars, plan
<1>2. \A v \in Workers : (Holds(v)' <=> Holds(v)) /\ Position(v)' = Position(v)
  <2>1. \A v \in Workers : Position(v)' = Position(v)
    BY <1>0, <1>1, SamePlace DEF workers
  <2> QED
    BY <1>1, <2>1 DEF Holds, workers
<1>3. Exclusive' /\ Accounted'
  BY <1>0, <1>1, <1>2 DEF Exclusive, Accounted, world, shared, workers
<1>4. Ended'
  BY <1>0, <1>1 DEF Ended, Finish, vars, plan, shared, workers
<1> QED
  BY <1>3, <1>4

-----------------------------------------------------------------------------
\* The mutant a worker holds is nobody else's.
LEMMA Alone ==
  ASSUME IInv, NEW w \in Workers, Holds(w)
  PROVE  /\ \A v \in Workers \ {w} : Holds(v) => Ordinal(v) # Ordinal(w)
         /\ \A k \in DOMAIN channel : channel[k].position \in Mutants \ {Ordinal(w)}
         /\ \A m \in Mutants : reported[m] = 1 => m # Ordinal(w)
         /\ \A i \in Mutants : i >= next => pending[i] # Ordinal(w)
<1>0. TypeOK /\ Exclusive
  BY DEF IInv
<1>1. \A v \in Workers : index[v] \in Mutants /\ Ordinal(v) = pending[index[v]] /\ Position(v) = Ordinal(v)
  BY <1>0 DEF TypeOK, Ordinal, Position
<1>2. \A v \in Workers \ {w} : Holds(v) => Ordinal(v) # Ordinal(w)
  BY <1>0, <1>1, Lookups DEF Exclusive
<1>3. \A k \in DOMAIN channel : channel[k].position \in Mutants \ {Ordinal(w)}
  <2>1. \A k \in DOMAIN channel : channel[k] \in [position : Mutants, judgement : Judgements]
    <3>1. channel \in Seq([position : Mutants, judgement : Judgements]) /\ DOMAIN channel = 1 .. Len(channel)
      BY <1>0 DEF TypeOK
    <3> QED
      BY <3>1, ElementOfSeq
  <2> QED
    BY <1>0, <1>1, <2>1 DEF Exclusive
<1>4. \A m \in Mutants : reported[m] = 1 => m # Ordinal(w)
  BY <1>0, <1>1 DEF Exclusive
<1>5. \A i \in Mutants : i >= next => pending[i] # Ordinal(w)
  <2>1. index[w] < next /\ next \in Nat /\ \A i \in Mutants : i \in Nat
    BY <1>0 DEF Exclusive, TypeOK, Mutants
  <2> QED
    BY <1>0, <1>1, <2>1, Lookups
<1> QED
  BY <1>2, <1>3, <1>4, <1>5

\* A worker that goes on disturbs no other's mutant.
LEMMA OthersStayGrounded ==
  ASSUME IInv, NEW w \in Workers, GoesOn(w), OnItsRuns(w)'
  PROVE  Grounded'
<1>0. TypeOK /\ Grounded /\ Holds(w)
  BY DEF IInv, GoesOn
<1>1. UNCHANGED <<world, index, next, channel, plan>>
  BY DEF GoesOn
<1>2. /\ \A v \in Workers : Ordinal(v)' = Ordinal(v) /\ Hint(v)' = Hint(v) /\ Ordinal(v) \in Mutants
      /\ \A m \in Mutants : Selected(m)' = Selected(m)
  BY <1>0, <1>1, SamePlace, Lookups
<1>3. \A i \in Mutants : i >= next' => evidence'[pending'[i]] = {}
  <2> SUFFICES ASSUME NEW i \in Mutants, i >= next PROVE evidence'[pending[i]] = {}
    BY <1>1 DEF world
  <2>1. pending[i] \in Mutants \ {Ordinal(w)}
    BY <1>0, Alone, Lookups
  <2>2. evidence'[pending[i]] = evidence[pending[i]]
    BY <2>1 DEF GoesOn
  <2> QED
    BY <1>0, <2>2 DEF Grounded
<1>4. ASSUME NEW v \in Workers, v # w PROVE OnItsRuns(v)'
  <2>1. OnItsRuns(v) /\ pc'[v] = pc[v] /\ left'[v] = left[v] /\ judged'[v] = judged[v]
    BY <1>0, <1>4 DEF Grounded, GoesOn
  <2>2. Holds(v) => evidence'[Ordinal(v)] = evidence[Ordinal(v)]
    BY <1>0, <1>2, <1>4, Alone DEF GoesOn
  <2>3. Holds(v) => Whole(Ordinal(v))' = Whole(Ordinal(v))
    BY <1>2, <2>2 DEF Whole
  <2> QED
    BY <1>2, <2>1, <2>2, <2>3 DEF OnItsRuns, Holds, Holding
<1>5. SentRest'
  <2> SUFFICES ASSUME NEW k \in DOMAIN channel
               PROVE  LET m == channel[k].position
                      IN  /\ Rests(m, Selected(m)', evidence'[m], channel[k].judgement)
                          /\ channel[k].judgement.outcome \in Outcomes
    BY <1>1 DEF SentRest
  <2>1. channel[k].position \in Mutants /\ evidence'[channel[k].position] = evidence[channel[k].position]
    BY <1>0, Alone DEF GoesOn
  <2>2. Selected(channel[k].position)' = Selected(channel[k].position)
    BY <1>1 DEF Selected, world
  <2>3. /\ Rests(channel[k].position, Selected(channel[k].position), evidence[channel[k].position],
                 channel[k].judgement)
        /\ channel[k].judgement.outcome \in Outcomes
    BY <1>0 DEF Grounded, SentRest
  <2> QED
    BY <1>1, <2>1, <2>2, <2>3
<1>6. RecordedRest'
  <2> SUFFICES ASSUME NEW m \in Mutants, reported[m] = 1
               PROVE  Rests(m, Selected(m)', evidence'[m], Reached(outcome[m], killedBy[m]))
    BY <1>1 DEF RecordedRest, plan
  <2>1. evidence'[m] = evidence[m]
    BY <1>0, Alone DEF GoesOn
  <2> QED
    BY <1>0, <1>2, <2>1 DEF Grounded, RecordedRest
<1> QED
  BY <1>3, <1>4, <1>5, <1>6 DEF Grounded

\* No run, and nothing passed by: where judge_ordered begins.
LEMMA BeginsWithNothing ==
  ASSUME IInv, NEW w \in Workers, NEW killer, Begin(w, killer), UNCHANGED <<world, index>>,
         \A r \in evidence'[Ordinal(w)] : r.probe
  PROVE  OnItsRuns(w)'
<1>1. pc'[w] = "run" /\ left'[w] = Selected(Ordinal(w)) /\ Ordinal(w)' = Ordinal(w)
      /\ Selected(Ordinal(w))' = Selected(Ordinal(w))
  BY SamePlace, Lookups DEF IInv, TypeOK, Begin, Goto
<1>2. Whole(Ordinal(w))' = {}
  BY <1>1 DEF Whole
<1>3. [binary : Selected(Ordinal(w)) \ left'[w], probe : {FALSE}, verdict : {Passed}] = {}
  BY <1>1
<1> QED
  BY <1>1, <1>2, <1>3 DEF OnItsRuns

\* Teaching leaves every judgement resting on the runs.
LEMMA TeachIsGrounded ==
  ASSUME IInv, NEW w \in Workers, Teach(w)
  PROVE  OnItsRuns(w)'
<1>0. TypeOK /\ OnItsRuns(w)
  BY DEF IInv, Grounded
<1>1. /\ pc[w] = "teach" /\ pc'[w] = (IF judged[w] = Abandoned THEN "abandon" ELSE "send")
      /\ UNCHANGED <<world, index, judged, evidence>>
  BY <1>0 DEF Teach, Goto, TypeOK
<1>2. Rests(Ordinal(w), Selected(Ordinal(w)), evidence[Ordinal(w)], judged[w])
  BY <1>0, <1>1 DEF OnItsRuns
<1>3. judged[w] # Abandoned => judged[w].outcome \in Outcomes
  <2>1. judged[w] \in Judgements
    BY <1>0 DEF TypeOK
  <2>2. judged[w].outcome = "Abandoned" => judged[w].killer = None
    BY <1>2 DEF Rests
  <2> QED
    BY <2>1, <2>2 DEF Judgements, Abandoned, Reached
<1>4. Ordinal(w)' = Ordinal(w) /\ Selected(Ordinal(w))' = Selected(Ordinal(w))
  BY <1>0, <1>1, SamePlace, Lookups
<1> QED
  BY <1>1, <1>2, <1>3, <1>4 DEF OnItsRuns

\* A probe leaves every judgement resting on the runs.
LEMMA ProbeIsGrounded ==
  ASSUME IInv, NEW w \in Workers, Probe(w)
  PROVE  OnItsRuns(w)' /\ Genuine'
<1>0. TypeOK /\ OnItsRuns(w) /\ Genuine
  BY DEF IInv, Grounded
<1>1. pc[w] = "probe" /\ UNCHANGED <<world, index>>
  BY DEF Probe, shared
<1>2. PICK m \in Mutants : m = Ordinal(w)
  BY <1>0, Lookups
<1>3. PICK h \in Killers : h = Hint(w)
  BY <1>0, <1>1, Lookups DEF OnItsRuns
<1>4. evidence[m] = {} /\ h.binary \in Reachable[m] /\ h.binary \in Binaries /\ h.test \in Tests
  BY <1>0, <1>1, <1>2, <1>3 DEF OnItsRuns, Killers
<1>5. PICK v \in ProbeVerdicts(m, h) :
        /\ Witness(w, [binary |-> h.binary, probe |-> TRUE, verdict |-> v])
        /\ IF v.kind = "Failed"
             THEN Judge(w, Reached("Killed",
                           [binary |-> h.binary, test |-> IF v.test = None THEN h.test ELSE v.test]))
             ELSE Begin(w, None)
  BY <1>2, <1>3 DEF Probe
<1>6. PICK run : run = [binary |-> h.binary, probe |-> TRUE, verdict |-> v]
  OBVIOUS
<1>7. /\ evidence'[m] = {run} /\ run.probe /\ run.verdict = v /\ run.binary = h.binary
      /\ \A n \in Mutants \ {m} : evidence'[n] = evidence[n]
  BY <1>0, <1>2, <1>4, <1>5, <1>6, WitnessGrows
<1>8. v \in Verdicts
  BY <1>0, <1>4, ProbeType, Lookups
<1>9. OnItsRuns(w)'
  <2>1. CASE v.kind = "Failed"
    <3>1. PICK j : j = Reached("Killed",
                        [binary |-> h.binary, test |-> IF v.test = None THEN h.test ELSE v.test])
      OBVIOUS
    <3>2. j.outcome = "Killed" /\ j.killer.binary = h.binary
          /\ j.killer.test = (IF v.test = None THEN h.test ELSE v.test)
      BY <3>1 DEF Reached
    <3>3. v = Failed(v.test)
      BY <1>8, <2>1 DEF Verdicts, Failed
    <3>4. j.killer # None
      <4>1. j.killer \in Killers
        BY <1>4, <1>8, <3>1 DEF Reached, Killers, Verdicts
      <4> QED
        BY <4>1, SweepAssumption
    <3>5. \A sel : Rests(m, sel, evidence'[m], j)
      BY <1>4, <1>7, <3>2, <3>3, <3>4 DEF Rests
    <3>6. pc'[w] = "teach" /\ judged'[w] = j /\ Ordinal(w)' = m
      BY <1>0, <1>1, <1>2, <1>5, <2>1, <3>1, SamePlace DEF Judge, Goto, TypeOK
    <3> QED
      BY <3>5, <3>6 DEF OnItsRuns
  <2>2. CASE v.kind # "Failed"
    BY <1>1, <1>2, <1>5, <1>7, <2>2, BeginsWithNothing
  <2> QED
    BY <2>1, <2>2
<1>10. Genuine'
  <2>1. \/ v \in suite[m][h.binary] \/ v = Passed
        \/ \E u \in suite[m][h.binary] : u.kind \in Detections
    BY <1>5 DEF ProbeVerdicts
  <2> QED
    BY <1>0, <1>1, <1>4, <1>7, <2>1 DEF Genuine, world
<1> QED
  BY <1>9, <1>10

\* A run leaves every judgement resting on the runs.
LEMMA RunIsGrounded ==
  ASSUME IInv, NEW w \in Workers, Run(w)
  PROVE  OnItsRuns(w)' /\ Genuine'
<1>0. TypeOK /\ OnItsRuns(w) /\ Genuine
  BY DEF IInv, Grounded
<1>1. pc[w] = "run" /\ left[w] # {} /\ UNCHANGED <<world, index>>
  BY DEF Run, shared
<1>2. PICK m \in Mutants : m = Ordinal(w)
  BY <1>0, Lookups
<1>3. PICK b : b = NextBinary(m, left[w], learned[w])
  OBVIOUS
<1>4. b \in left[w] /\ b \in Binaries /\ b \in Reachable[m] /\ left[w] \subseteq Selected(m)
  <2>1. left[w] \in SUBSET Binaries /\ left[w] \subseteq Selected(m) /\ Selected(m) \subseteq Reachable[m]
    BY <1>0, <1>1, <1>2, Lookups DEF TypeOK, OnItsRuns
  <2> QED
    BY <1>1, <1>3, <2>1, NextIsLeft
<1>5. PICK v \in suite[m][b] :
        /\ Witness(w, [binary |-> b, probe |-> FALSE, verdict |-> v])
        /\ left' = [left EXCEPT ![w] = @ \ {b}]
        /\ IF v.kind = "Passed" THEN UNCHANGED <<pc, judged>> ELSE Judge(w, JudgementOn(b, v))
  BY <1>2, <1>3 DEF Run
<1>6. PICK run : run = [binary |-> b, probe |-> FALSE, verdict |-> v]
  OBVIOUS
<1>7. /\ evidence'[m] = evidence[m] \union {run} /\ ~run.probe /\ run.verdict = v /\ run.binary = b
      /\ \A n \in Mutants \ {m} : evidence'[n] = evidence[n]
  BY <1>0, <1>2, <1>5, <1>6, WitnessGrows
<1>8. v \in Verdicts
  BY <1>0, <1>4, <1>5, Lookups
<1>9. Ordinal(w)' = m /\ Selected(m)' = Selected(m)
  BY <1>0, <1>1, <1>2, SamePlace
<1>10. ASSUME v.kind = "Passed" PROVE OnItsRuns(w)'
  <2>1. v = Passed
    BY <1>8, <1>10 DEF Verdicts, Passed, Plain
  <2>2. pc'[w] = "run" /\ left'[w] = left[w] \ {b}
    BY <1>0, <1>1, <1>5, <1>10 DEF TypeOK
  <2>3. Whole(m) = [binary : Selected(m) \ left[w], probe : {FALSE}, verdict : {Passed}]
    BY <1>0, <1>1, <1>2 DEF OnItsRuns
  <2>4. Whole(m)' = Whole(m) \union {run}
    BY <1>7 DEF Whole
  <2>5. Whole(m)' = [binary : Selected(m) \ left'[w], probe : {FALSE}, verdict : {Passed}]
    <3>1. Selected(m) \ left'[w] = (Selected(m) \ left[w]) \union {b}
      BY <1>4, <2>2
    <3>2. run \in [binary : {b}, probe : {FALSE}, verdict : {Passed}]
      BY <1>6, <2>1
    <3>3. [binary : {b}, probe : {FALSE}, verdict : {Passed}] = {run}
      <4>1. ASSUME NEW x \in [binary : {b}, probe : {FALSE}, verdict : {Passed}] PROVE x = run
        BY <1>6, <2>1
      <4> QED
        BY <3>2, <4>1
    <3>4. [binary : (Selected(m) \ left[w]) \union {b}, probe : {FALSE}, verdict : {Passed}]
            = [binary : Selected(m) \ left[w], probe : {FALSE}, verdict : {Passed}]
              \union [binary : {b}, probe : {FALSE}, verdict : {Passed}]
      OBVIOUS
    <3> QED
      BY <2>3, <2>4, <3>1, <3>3, <3>4
  <2> QED
    <3>1. left'[w] \subseteq Selected(m)
      BY <1>4, <2>2
    <3>2. Selected(Ordinal(w))' = Selected(m)
      BY <1>9
    <3>3. Whole(Ordinal(w))' = Whole(m)'
      BY <1>9 DEF Whole
    <3> QED
      BY <2>2, <2>5, <3>1, <3>2, <3>3 DEF OnItsRuns
<1>11. ASSUME v.kind # "Passed" PROVE OnItsRuns(w)'
  <2>1. PICK j : j = JudgementOn(b, v)
    OBVIOUS
  <2>2. /\ j \in Judgements /\ j.outcome \notin {"Survived", "NoCoverage"}
        /\ j.killer # None =>
             v = Failed(v.test) /\ j = Reached("Killed", [binary |-> b, test |-> v.test])
    BY <1>4, <1>8, <1>11, <2>1, JudgementType
  <2>3. v # Passed
    BY <1>11 DEF Passed, Plain
  <2>4. j = Reached(j.outcome, j.killer)
    BY <2>2 DEF Judgements, Reached
  <2>5. \A sel : Rests(m, sel, evidence'[m], j)
    <3>1. CASE j.killer = None
      BY <1>7, <2>1, <2>2, <2>3, <2>4, <3>1 DEF Rests
    <3>2. CASE j.killer # None
      <4>1. j.outcome = "Killed" /\ j.killer.binary = b /\ v = Failed(j.killer.test)
        BY <2>2, <3>2 DEF Reached
      <4> QED
        BY <1>4, <1>7, <3>2, <4>1 DEF Rests
    <3> QED
      BY <3>1, <3>2
  <2>6. pc'[w] = "teach" /\ judged'[w] = j
    BY <1>0, <1>5, <1>11, <2>1 DEF Judge, Goto, TypeOK
  <2> QED
    BY <1>9, <2>5, <2>6 DEF OnItsRuns
<1>12. Genuine'
  BY <1>0, <1>1, <1>4, <1>5, <1>7 DEF Genuine, world
<1> QED
  BY <1>10, <1>11, <1>12

\* A mutant that survived all its runs rests on them.
LEMMA ExhaustIsGrounded ==
  ASSUME IInv, NEW w \in Workers, Exhaust(w)
  PROVE  OnItsRuns(w)'
<1>0. TypeOK /\ OnItsRuns(w)
  BY DEF IInv, Grounded
<1>1. pc[w] = "run" /\ left[w] = {} /\ UNCHANGED <<world, index, evidence>>
  BY DEF Exhaust, shared
<1>2. PICK m \in Mutants : m = Ordinal(w)
  BY <1>0, Lookups
<1>3. Whole(m) = [binary : Selected(m), probe : {FALSE}, verdict : {Passed}]
  <2>1. Selected(m) \ left[w] = Selected(m)
    BY <1>1
  <2> QED
    BY <1>0, <1>1, <1>2, <2>1 DEF OnItsRuns
<1>4. PICK j : j = Reached(IF Selected(m) = {} THEN "NoCoverage" ELSE "Survived", None)
  OBVIOUS
<1>5. j.outcome = (IF Selected(m) = {} THEN "NoCoverage" ELSE "Survived") /\ j.killer = None
  BY <1>4 DEF Reached
<1>6. Rests(m, Selected(m), evidence[m], j)
  <2>1. CASE Selected(m) = {}
    <3>1. Whole(m) = {}
      BY <1>3, <2>1
    <3> QED
      BY <1>5, <2>1, <3>1 DEF Rests, Whole
  <2>2. CASE Selected(m) # {}
    BY <1>3, <1>5, <2>2 DEF Rests, Whole
  <2> QED
    BY <2>1, <2>2
<1>7. pc'[w] = "teach" /\ judged'[w] = j
  BY <1>0, <1>2, <1>4 DEF Exhaust, Judge, Goto, TypeOK
<1>8. Ordinal(w)' = m /\ Selected(m)' = Selected(m)
  BY <1>0, <1>1, <1>2, SamePlace
<1> QED
  BY <1>1, <1>6, <1>7, <1>8 DEF OnItsRuns

-----------------------------------------------------------------------------
\* Every step leaves every judgement resting on the runs.
LEMMA GroundedStep == IInv /\ [Next]_vars => Grounded' /\ Genuine'
<1> SUFFICES ASSUME IInv, [Next]_vars PROVE Grounded' /\ Genuine'
  OBVIOUS
<1>0. TypeOK /\ TypeOK' /\ Grounded /\ Genuine
  BY TypeStep DEF IInv
<1> DEFINE NoRun == UNCHANGED <<world, evidence>>
<1>1. NoRun => Genuine'
  BY <1>0 DEF Genuine, world
<1>2. ASSUME NEW w \in Workers, ConsultHinted(w) PROVE Grounded' /\ Genuine'
  <2>1. GoesOn(w)
    BY <1>0, <1>2, MostGoOn
  <2>2. /\ pc[w] = "consult" /\ Hint(w) # None /\ UNCHANGED <<world, index, evidence>>
        /\ \/ Hint(w).binary \in Reachable[Ordinal(w)] /\ Goto(w, "probe")
           \/ Begin(w, None)
    BY <1>2 DEF ConsultHinted, shared
  <2>3. evidence[Ordinal(w)] = {} /\ evidence'[Ordinal(w)] = {}
    BY <1>0, <2>2 DEF Grounded, OnItsRuns
  <2>4. OnItsRuns(w)'
    <3>1. CASE Begin(w, None)
      BY <2>2, <2>3, <3>1, BeginsWithNothing
    <3>2. CASE Hint(w).binary \in Reachable[Ordinal(w)] /\ Goto(w, "probe")
      <4>1. pc'[w] = "probe" /\ Hint(w)' = Hint(w) /\ Ordinal(w)' = Ordinal(w)
        BY <1>0, <2>2, <3>2, SamePlace DEF Goto, TypeOK
      <4> QED
        BY <2>2, <2>3, <3>2, <4>1 DEF OnItsRuns
    <3> QED
      BY <2>2, <3>1, <3>2
  <2> QED
    BY <1>1, <2>1, <2>2, <2>4, OthersStayGrounded
<1>3. ASSUME NEW w \in Workers, ConsultFile(w) PROVE Grounded' /\ Genuine'
  <2>1. GoesOn(w)
    BY <1>0, <1>3, MostGoOn
  <2>2. pc[w] = "consult" /\ UNCHANGED <<world, index, evidence>>
    BY <1>3 DEF ConsultFile
  <2>3. evidence[Ordinal(w)] = {} /\ evidence'[Ordinal(w)] = {}
    BY <1>0, <2>2 DEF Grounded, OnItsRuns
  <2>4. Begin(w, None) \/ Begin(w, learning[FileSlot(w)].killer) \/ Goto(w, "wait")
    <3>0. Untried # InProgress
      BY DEF Untried, InProgress
    <3>1. CASE learning[FileSlot(w)] = Untried
      BY <1>3, <3>0, <3>1 DEF ConsultFile
    <3>2. CASE learning[FileSlot(w)] = InProgress
      BY <1>3, <3>0, <3>2 DEF ConsultFile
    <3>3. CASE learning[FileSlot(w)] # Untried /\ learning[FileSlot(w)] # InProgress
      BY <1>3, <3>3 DEF ConsultFile
    <3> QED
      BY <3>1, <3>2, <3>3
  <2>5. OnItsRuns(w)'
    <3>1. CASE Goto(w, "wait")
      <4>1. pc'[w] = "wait" /\ Ordinal(w)' = Ordinal(w)
        BY <1>0, <2>2, <3>1, SamePlace DEF Goto, TypeOK
      <4> QED
        BY <2>3, <4>1 DEF OnItsRuns
    <3> QED
      BY <2>2, <2>3, <2>4, <3>1, BeginsWithNothing
  <2> QED
    BY <1>1, <2>1, <2>2, <2>5, OthersStayGrounded
<1>4. ASSUME NEW w \in Workers, Wake(w) PROVE Grounded' /\ Genuine'
  <2>1. GoesOn(w)
    BY <1>0, <1>4, MostGoOn
  <2>2. /\ pc[w] = "wait" /\ UNCHANGED <<world, index, evidence>>
        /\ Begin(w, learning[FileSlot(w)].killer)
    BY <1>4 DEF Wake, shared
  <2>3. evidence[Ordinal(w)] = {} /\ evidence'[Ordinal(w)] = {}
    BY <1>0, <2>2 DEF Grounded, OnItsRuns
  <2> QED
    BY <1>1, <2>1, <2>2, <2>3, BeginsWithNothing, OthersStayGrounded
<1>5. ASSUME NEW w \in Workers, Teach(w) \/ Exhaust(w) PROVE Grounded' /\ Genuine'
  <2>1. GoesOn(w) /\ OnItsRuns(w)'
    BY <1>0, <1>5, MostGoOn, TeachIsGrounded, ExhaustIsGrounded
  <2>2. NoRun
    BY <1>5 DEF Teach, Exhaust
  <2> QED
    BY <1>1, <2>1, <2>2, OthersStayGrounded
<1>6. ASSUME NEW w \in Workers, Probe(w) \/ Run(w) PROVE Grounded' /\ Genuine'
  BY <1>0, <1>6, MostGoOn, ProbeIsGrounded, RunIsGrounded, OthersStayGrounded
<1>7. ASSUME NEW w \in Workers, Check(w) \/ Abandon(w) PROVE Grounded' /\ Genuine'
  <2>1. UNCHANGED <<world, index, next, channel, left, judged, plan, evidence>>
    BY <1>7 DEF Check, Abandon, shared
  <2>2. /\ \A v \in Workers \ {w} : pc'[v] = pc[v]
        /\ pc'[w] \in {"exited", "take"}
    BY <1>0, <1>7 DEF Check, Abandon, Goto, TypeOK
  <2>3. \A v \in Workers : OnItsRuns(v)'
    <3>1. OnItsRuns(w)'
      BY <2>2 DEF OnItsRuns
    <3>2. ASSUME NEW v \in Workers, v # w PROVE OnItsRuns(v)'
      <4>1. OnItsRuns(v) /\ pc'[v] = pc[v]
        BY <1>0, <2>2, <3>2 DEF Grounded
      <4> QED
        BY <2>1, <4>1 DEF OnItsRuns, Ordinal, Hint, Selected, Whole, world
    <3> QED
      BY <3>1, <3>2
  <2>4. SentRest' /\ RecordedRest' /\ \A i \in Mutants : i >= next' => evidence'[pending'[i]] = {}
    BY <1>0, <2>1 DEF Grounded, SentRest, RecordedRest, Selected, world, plan
  <2> QED
    BY <1>1, <2>1, <2>3, <2>4 DEF Grounded
<1>8. ASSUME NEW w \in Workers, Take(w) PROVE Grounded' /\ Genuine'
  <2>1. /\ pc[w] = "take" /\ next' = next + 1 /\ next \in Nat \ {0}
        /\ UNCHANGED <<world, channel, left, judged, plan, evidence>>
    BY <1>0, <1>8 DEF Take, TypeOK
  <2>2. /\ \A v \in Workers \ {w} : pc'[v] = pc[v] /\ index'[v] = index[v]
        /\ \/ next \in Mutants /\ pc'[w] = "consult" /\ index'[w] = next
           \/ pc'[w] = "exited" /\ index'[w] = index[w]
    <3>1. CASE next \in Mutants
      BY <1>0, <1>8, <3>1 DEF Take, Goto, TypeOK
    <3>2. CASE next \notin Mutants
      BY <1>0, <1>8, <3>2 DEF Take, Goto, TypeOK
    <3> QED
      BY <3>1, <3>2
  <2>3. OnItsRuns(w)'
    <3>1. CASE next \in Mutants /\ pc'[w] = "consult" /\ index'[w] = next
      <4>1. Ordinal(w)' = pending[next]
        BY <2>1, <3>1 DEF Ordinal, world
      <4>2. evidence[pending[next]] = {}
        BY <1>0, <2>1, <3>1 DEF Grounded
      <4> QED
        BY <2>1, <3>1, <4>1, <4>2 DEF OnItsRuns
    <3>2. CASE pc'[w] = "exited"
      BY <3>2 DEF OnItsRuns
    <3> QED
      BY <2>2, <3>1, <3>2
  <2>4. ASSUME NEW v \in Workers, v # w PROVE OnItsRuns(v)'
    <3>1. OnItsRuns(v) /\ pc'[v] = pc[v] /\ index'[v] = index[v]
      BY <1>0, <2>2, <2>4 DEF Grounded
    <3> QED
      BY <2>1, <3>1 DEF OnItsRuns, Ordinal, Hint, Selected, Whole, world
  <2>5. SentRest' /\ RecordedRest'
    BY <1>0, <2>1 DEF Grounded, SentRest, RecordedRest, Selected, world, plan
  <2>6. \A i \in Mutants : i >= next' => evidence'[pending'[i]] = {}
    <3>1. \A i \in Mutants : i >= next' => i >= next
      BY <2>1 DEF Mutants
    <3> QED
      BY <1>0, <2>1, <3>1 DEF Grounded, world
  <2> QED
    BY <1>1, <2>1, <2>3, <2>4, <2>5, <2>6 DEF Grounded
<1>9. ASSUME NEW w \in Workers, Send(w) PROVE Grounded' /\ Genuine'
  <2>1. /\ pc[w] = "send" /\ pc'[w] = "check" /\ \A v \in Workers \ {w} : pc'[v] = pc[v]
        /\ UNCHANGED <<world, index, next, left, judged, plan, evidence>>
        /\ channel' = Append(channel, [position |-> Position(w), judgement |-> judged[w]])
    BY <1>0, <1>9 DEF Send, Goto, TypeOK
  <2>2. \A v \in Workers : OnItsRuns(v)'
    <3>1. OnItsRuns(w)'
      BY <2>1 DEF OnItsRuns
    <3>2. ASSUME NEW v \in Workers, v # w PROVE OnItsRuns(v)'
      <4>1. OnItsRuns(v) /\ pc'[v] = pc[v]
        BY <1>0, <2>1, <3>2 DEF Grounded
      <4> QED
        BY <2>1, <4>1 DEF OnItsRuns, Ordinal, Hint, Selected, Whole, world
    <3> QED
      BY <3>1, <3>2
  <2>3. SentRest'
    <3> SUFFICES ASSUME NEW k \in DOMAIN channel'
                 PROVE  LET m == channel'[k].position
                        IN  /\ Rests(m, Selected(m), evidence[m], channel'[k].judgement)
                            /\ channel'[k].judgement.outcome \in Outcomes
      BY <2>1 DEF SentRest, Selected, world
    <3>1. /\ channel \in Seq([position : Mutants, judgement : Judgements])
          /\ \/ k \in DOMAIN channel /\ channel'[k] = channel[k]
             \/ channel'[k] = [position |-> Position(w), judgement |-> judged[w]]
      <4>1. channel \in Seq([position : Mutants, judgement : Judgements])
        BY <1>0 DEF TypeOK
      <4>2. k \in 1 .. Len(channel) + 1 /\ Len(channel) \in Nat /\ DOMAIN channel = 1 .. Len(channel)
        BY <2>1, <4>1
      <4>3. k \in 1 .. Len(channel) \/ k = Len(channel) + 1
        BY <4>2
      <4> QED
        BY <2>1, <4>1, <4>2, <4>3
    <3>2. CASE k \in DOMAIN channel /\ channel'[k] = channel[k]
      BY <1>0, <3>2 DEF Grounded, SentRest
    <3>3. CASE channel'[k] = [position |-> Position(w), judgement |-> judged[w]]
      <4>1. channel'[k].position = Ordinal(w) /\ channel'[k].judgement = judged[w]
        BY <1>0, <3>3, Lookups
      <4>2. OnItsRuns(w)
        BY <1>0 DEF Grounded
      <4> QED
        BY <2>1, <4>1, <4>2 DEF OnItsRuns
    <3> QED
      BY <3>1, <3>2, <3>3
  <2>4. RecordedRest' /\ \A i \in Mutants : i >= next' => evidence'[pending'[i]] = {}
    BY <1>0, <2>1 DEF Grounded, RecordedRest, Selected, world, plan
  <2> QED
    BY <1>1, <2>1, <2>2, <2>3, <2>4 DEF Grounded
<1>10. ASSUME Record PROVE Grounded' /\ Genuine'
  <2>1. UNCHANGED <<world, next, workers, evidence>> /\ channel # <<>> /\ channel' = Tail(channel)
    BY <1>10 DEF Record
  <2>2. /\ channel \in Seq([position : Mutants, judgement : Judgements])
        /\ DOMAIN channel = 1 .. Len(channel) /\ Len(channel) \in Nat \ {0}
        /\ DOMAIN channel' = 1 .. Len(channel) - 1 /\ Head(channel) = channel[1]
        /\ \A k \in DOMAIN channel' : channel'[k] = channel[k + 1]
    BY <1>0, <2>1, HeadTailProperties DEF TypeOK
  <2>3. 1 \in DOMAIN channel /\ \A k \in DOMAIN channel' : k + 1 \in DOMAIN channel
    BY <2>2
  <2>4. \A v \in Workers : OnItsRuns(v)'
    BY <1>0, <2>1 DEF Grounded, OnItsRuns, Ordinal, Hint, Selected, Whole, world, workers
  <2>5. SentRest'
    <3> SUFFICES ASSUME NEW k \in DOMAIN channel'
                 PROVE  LET m == channel[k + 1].position
                        IN  /\ Rests(m, Selected(m), evidence[m], channel[k + 1].judgement)
                            /\ channel[k + 1].judgement.outcome \in Outcomes
      BY <2>1, <2>2 DEF SentRest, Selected, world
    <3> QED
      BY <1>0, <2>3 DEF Grounded, SentRest
  <2>6. RecordedRest'
    <3> SUFFICES ASSUME NEW n \in Mutants, reported'[n] = 1
                 PROVE  Rests(n, Selected(n), evidence[n], Reached(outcome'[n], killedBy'[n]))
      BY <2>1 DEF RecordedRest, Selected, world
    <3>1. PICK m : m = channel[1].position
      OBVIOUS
    <3>2. PICK j : j = channel[1].judgement
      OBVIOUS
    <3>3. m \in Mutants /\ j \in Judgements
      <4>1. 1 \in 1 .. Len(channel)
        BY <2>2
      <4>2. channel[1] \in [position : Mutants, judgement : Judgements]
        BY <2>2, <4>1, ElementOfSeq
      <4> QED
        BY <3>1, <3>2, <4>2
    <3>4. /\ outcome' = [outcome EXCEPT ![m] = j.outcome]
          /\ killedBy' = [killedBy EXCEPT ![m] = j.killer]
          /\ reported' = [reported EXCEPT ![m] = @ + 1]
      BY <1>10, <2>2, <3>1, <3>2 DEF Record
    <3>5. CASE n = m
      <4>1. Rests(m, Selected(m), evidence[m], j)
        BY <1>0, <2>3, <3>1, <3>2 DEF Grounded, SentRest
      <4>2. Reached(j.outcome, j.killer) = j
        BY <3>3 DEF Reached, Judgements
      <4>3. outcome'[n] = j.outcome /\ killedBy'[n] = j.killer
        BY <1>0, <3>4, <3>5 DEF TypeOK
      <4> QED
        BY <3>5, <4>1, <4>2, <4>3
    <3>6. CASE n # m
      <4>1. outcome'[n] = outcome[n] /\ killedBy'[n] = killedBy[n] /\ reported[n] = 1
        BY <1>0, <3>4, <3>6 DEF TypeOK
      <4> QED
        BY <1>0, <4>1 DEF Grounded, RecordedRest
    <3> QED
      BY <3>5, <3>6
  <2>7. \A i \in Mutants : i >= next' => evidence'[pending'[i]] = {}
    BY <1>0, <2>1 DEF Grounded, world
  <2> QED
    BY <1>1, <2>1, <2>4, <2>5, <2>6, <2>7 DEF Grounded
<1>11. ASSUME Finish \/ UNCHANGED vars PROVE Grounded' /\ Genuine'
  <2>1. UNCHANGED <<world, next, channel, workers, outcome, killedBy, reported, evidence>>
    BY <1>11 DEF Finish, vars, shared, plan
  <2>2. \A v \in Workers : OnItsRuns(v)'
    BY <1>0, <2>1 DEF Grounded, OnItsRuns, Ordinal, Hint, Selected, Whole, world, workers
  <2>3. SentRest' /\ RecordedRest' /\ \A i \in Mutants : i >= next' => evidence'[pending'[i]] = {}
    BY <1>0, <2>1 DEF Grounded, SentRest, RecordedRest, Selected, world
  <2> QED
    BY <1>1, <2>1, <2>2, <2>3 DEF Grounded
<1> QED
  BY <1>2, <1>3, <1>4, <1>5, <1>6, <1>7, <1>8, <1>9, <1>10, <1>11 DEF Next, Worker

-----------------------------------------------------------------------------
\* A killer that was taught convicted a mutant of its file.
LEMMA TaughtIsTrue ==
  ASSUME IInv, NEW w \in Workers, pc[w] = "teach", judged[w].killer # None
  PROVE  \E r \in evidence[Ordinal(w)] :
           r.binary = judged[w].killer.binary /\ r.verdict.kind = "Failed"
<1>1. Rests(Ordinal(w), Selected(Ordinal(w)), evidence[Ordinal(w)], judged[w])
  BY DEF IInv, Grounded, OnItsRuns
<1> QED
  BY <1>1 DEF Rests, Failed

\* Somebody who convicted a mutant of the file, and a learner at work on it.
Convicted(f, binary, runs) ==
  \E m \in Mutants : FileOf[m] = f /\ \E r \in runs[m] :
    r.binary = binary /\ r.verdict.kind = "Failed"
AtWork(f) ==
  \E w \in Workers : role[w] = "learner" /\ FileSlot(w) = f /\ pc[w] \in {"run", "teach"}

\* Every step leaves what was learned true.
LEMMA LearningStep == IInv /\ [Next]_vars => LearningIsHonest'
<1> SUFFICES ASSUME IInv, [Next]_vars PROVE LearningIsHonest'
  OBVIOUS
<1>0. TypeOK /\ TypeOK' /\ LearningIsHonest
  BY TypeStep DEF IInv
<1>1. SUFFICES ASSUME NEW f \in Files
               PROVE  /\ learning'[f].state = "Learned" => Convicted(f, learning'[f].killer.binary, evidence')
                      /\ learning'[f] = InProgress => AtWork(f)'
  BY DEF LearningIsHonest, Convicted, AtWork
<1>2. /\ learning[f].state = "Learned" => Convicted(f, learning[f].killer.binary, evidence)
      /\ learning[f] = InProgress => AtWork(f)
  BY <1>0 DEF LearningIsHonest, Convicted, AtWork
<1>3. ASSUME NEW w \in Workers, GoesOn(w)
      PROVE  /\ \A b : Convicted(f, b, evidence) => Convicted(f, b, evidence')
             /\ pc[w] \notin {"run", "teach"} \/ (pc'[w] \in {"run", "teach"} /\ role'[w] = role[w]) =>
                  (AtWork(f) => AtWork(f)')
             /\ \A v \in Workers : FileSlot(v)' = FileSlot(v)
  <2>1. \A v \in Workers : FileSlot(v)' = FileSlot(v)
    BY <1>0, <1>3, SamePlace DEF GoesOn
  <2>2. \A b : Convicted(f, b, evidence) => Convicted(f, b, evidence')
    BY <1>3 DEF GoesOn, Convicted
  <2>3. ASSUME pc[w] \notin {"run", "teach"} \/ (pc'[w] \in {"run", "teach"} /\ role'[w] = role[w]), AtWork(f)
        PROVE  AtWork(f)'
    <3>1. PICK v \in Workers : role[v] = "learner" /\ FileSlot(v) = f /\ pc[v] \in {"run", "teach"}
      BY <2>3 DEF AtWork
    <3>2. role'[v] = "learner" /\ pc'[v] \in {"run", "teach"}
      <4>1. CASE v = w
        BY <2>3, <3>1, <4>1
      <4>2. CASE v # w
        BY <1>3, <3>1, <4>2 DEF GoesOn
      <4> QED
        BY <4>1, <4>2
    <3> QED
      BY <2>1, <3>1, <3>2 DEF AtWork
  <2> QED
    BY <2>1, <2>2, <2>3
<1> DEFINE Goal == /\ learning'[f].state = "Learned" => Convicted(f, learning'[f].killer.binary, evidence')
                   /\ learning'[f] = InProgress => AtWork(f)'
<1>4. ASSUME NEW w \in Workers, ConsultHinted(w) \/ Wake(w) \/ Probe(w) PROVE Goal
  <2>1. GoesOn(w)
    BY <1>0, <1>4, MostGoOn
  <2>2. pc[w] \notin {"run", "teach"} /\ learning' = learning
    BY <1>4 DEF ConsultHinted, Wake, Probe, shared
  <2> QED
    BY <1>2, <1>3, <2>1, <2>2
<1>5. ASSUME NEW w \in Workers, Run(w) \/ Exhaust(w) PROVE Goal
  <2>1. GoesOn(w)
    BY <1>0, <1>5, MostGoOn
  <2>2. learning' = learning /\ role' = role
    BY <1>5 DEF Run, Exhaust, shared
  <2>3. pc'[w] \in {"run", "teach"}
    <3>1. pc[w] = "run" /\ (pc' = pc \/ pc' = [pc EXCEPT ![w] = "teach"])
      BY <1>5 DEF Run, Exhaust, Judge, Goto
    <3> QED
      BY <1>0, <3>1 DEF TypeOK
  <2> QED
    BY <1>2, <1>3, <2>1, <2>2, <2>3
<1>6. ASSUME NEW w \in Workers, ConsultFile(w) PROVE Goal
  <2>1. GoesOn(w)
    BY <1>0, <1>6, MostGoOn
  <2>2. pc[w] = "consult"
    BY <1>6 DEF ConsultFile
  <2>3. Untried # InProgress
    BY DEF Untried, InProgress
  <2>4. CASE learning[FileSlot(w)] = Untried
    <3>1. /\ learning' = [learning EXCEPT ![FileSlot(w)] = InProgress]
          /\ role' = [role EXCEPT ![w] = "learner"] /\ pc' = [pc EXCEPT ![w] = "run"]
      BY <1>6, <2>3, <2>4 DEF ConsultFile, Begin, Goto
    <3>2. role'[w] = "learner" /\ pc'[w] = "run" /\ FileSlot(w)' = FileSlot(w)
      BY <1>0, <1>3, <2>1, <3>1 DEF TypeOK
    <3>3. CASE f = FileSlot(w)
      <4>1. learning'[f] = InProgress
        BY <1>0, <3>1, <3>3 DEF TypeOK
      <4>2. learning'[f].state # "Learned"
        BY <4>1 DEF InProgress
      <4>3. AtWork(f)'
        BY <3>2, <3>3 DEF AtWork
      <4> QED
        BY <4>2, <4>3
    <3>4. CASE f # FileSlot(w)
      <4>1. learning'[f] = learning[f]
        BY <1>0, <3>1, <3>4 DEF TypeOK
      <4> QED
        BY <1>2, <1>3, <2>1, <2>2, <4>1
    <3> QED
      BY <3>3, <3>4
  <2>5. CASE learning[FileSlot(w)] # Untried
    <3>1. learning' = learning
      <4>1. CASE learning[FileSlot(w)] = InProgress
        BY <1>6, <2>3, <4>1 DEF ConsultFile
      <4>2. CASE learning[FileSlot(w)] # InProgress
        BY <1>6, <2>5, <4>2 DEF ConsultFile
      <4> QED
        BY <4>1, <4>2
    <3> QED
      BY <1>2, <1>3, <2>1, <2>2, <3>1
  <2> QED
    BY <2>4, <2>5
<1>7. ASSUME NEW w \in Workers, Teach(w) PROVE Goal
  <2>1. GoesOn(w)
    BY <1>0, <1>7, MostGoOn
  <2>2. /\ pc[w] = "teach" /\ UNCHANGED <<role, evidence>>
        /\ learning' = IF Teaches(w)
                         THEN [learning EXCEPT ![FileSlot(w)] =
                                 IF judged[w].killer = None THEN Exhausted ELSE Learned(judged[w].killer)]
                         ELSE learning
    BY <1>7 DEF Teach
  <2>3. CASE ~Teaches(w) \/ f # FileSlot(w)
    <3>1. learning'[f] = learning[f]
      BY <1>0, <2>2, <2>3 DEF TypeOK
    <3>2. AtWork(f) /\ learning[f] = InProgress => AtWork(f)'
      <4>1. SUFFICES ASSUME AtWork(f) PROVE AtWork(f)'
        OBVIOUS
      <4>2. PICK v \in Workers : role[v] = "learner" /\ FileSlot(v) = f /\ pc[v] \in {"run", "teach"}
        BY <4>1 DEF AtWork
      <4>3. v # w
        BY <2>3, <4>2 DEF Teaches
      <4>4. role'[v] = "learner" /\ FileSlot(v)' = f /\ pc'[v] \in {"run", "teach"}
        BY <1>3, <2>1, <4>2, <4>3 DEF GoesOn
      <4> QED
        BY <4>4 DEF AtWork
    <3> QED
      BY <1>2, <1>3, <2>1, <3>1, <3>2
  <2>4. CASE Teaches(w) /\ f = FileSlot(w)
    <3>1. learning'[f] = IF judged[w].killer = None THEN Exhausted ELSE Learned(judged[w].killer)
      BY <1>0, <2>2, <2>4 DEF TypeOK
    <3>2. learning'[f] # InProgress
      BY <3>1 DEF Exhausted, Learned, InProgress
    <3>3. CASE judged[w].killer = None
      BY <3>1, <3>2, <3>3 DEF Exhausted
    <3>4. CASE judged[w].killer # None
      <4>1. learning'[f].killer = judged[w].killer
        BY <3>1, <3>4 DEF Learned
      <4>2. Convicted(f, judged[w].killer.binary, evidence)
        <5>1. FileOf[Ordinal(w)] = f /\ Ordinal(w) \in Mutants
          BY <1>0, <2>4, Lookups
        <5> QED
          BY <2>2, <3>4, <5>1, TaughtIsTrue DEF Convicted
      <4> QED
        BY <1>3, <2>1, <3>2, <4>1, <4>2
    <3> QED
      BY <3>3, <3>4
  <2> QED
    BY <2>3, <2>4
<1>8. ASSUME NEW w \in Workers, Check(w) \/ Take(w) \/ Send(w) \/ Abandon(w) PROVE Goal
  <2>1. /\ UNCHANGED <<world, learning, role, evidence>> /\ pc[w] \notin {"run", "teach"}
        /\ \A v \in Workers \ {w} : pc'[v] = pc[v] /\ index'[v] = index[v]
    <3>1. CASE Take(w)
      <4>1. \A v \in Workers \ {w} : pc'[v] = pc[v] /\ index'[v] = index[v]
        <5>1. CASE next \in Mutants
          BY <1>0, <3>1, <5>1 DEF Take, Goto, TypeOK
        <5>2. CASE next \notin Mutants
          BY <1>0, <3>1, <5>2 DEF Take, Goto, TypeOK
        <5> QED
          BY <5>1, <5>2
      <4> QED
        BY <3>1, <4>1 DEF Take
    <3>2. CASE Check(w) \/ Send(w) \/ Abandon(w)
      BY <1>0, <3>2 DEF Check, Send, Abandon, Goto, TypeOK, shared
    <3> QED
      BY <1>8, <3>1, <3>2
  <2>2. \A b : Convicted(f, b, evidence) => Convicted(f, b, evidence')
    BY <2>1 DEF Convicted
  <2>3. AtWork(f) => AtWork(f)'
    BY <2>1 DEF AtWork, FileSlot, world
  <2> QED
    BY <1>2, <2>1, <2>2, <2>3
<1>9. ASSUME Record \/ Finish \/ UNCHANGED vars PROVE Goal
  <2>1. UNCHANGED <<world, learning, workers, evidence>>
    BY <1>9 DEF Record, Finish, vars, shared
  <2>2. \A b : Convicted(f, b, evidence) => Convicted(f, b, evidence')
    BY <2>1 DEF Convicted
  <2>3. AtWork(f) => AtWork(f)'
    BY <2>1 DEF AtWork, FileSlot, world, workers
  <2> QED
    BY <1>2, <2>1, <2>2, <2>3
<1> QED
  BY <1>4, <1>5, <1>6, <1>7, <1>8, <1>9 DEF Next, Worker

-----------------------------------------------------------------------------
\* What holds throughout a sweep, for every schedule, suite, census and hints.
THEOREM Invariance == Spec => []IInv
<1>1. IInv /\ [Next]_vars => IInv'
  <2> SUFFICES ASSUME IInv, [Next]_vars PROVE IInv'
    OBVIOUS
  <2>1. TypeOK'
    BY TypeStep
  <2>2. Grounded' /\ Genuine' /\ LearningIsHonest'
    BY GroundedStep, LearningStep
  <2>3. ASSUME NEW w \in Workers, Worker(w) PROVE Exclusive' /\ Accounted' /\ Ended'
    <3>1. CASE Abandon(w)
      <4>1. pc[w] = "abandon" /\ OnItsRuns(w) /\ TypeOK
        BY <3>1 DEF Abandon, IInv, Grounded
      <4>2. Unmetered(evidence[Ordinal(w)])
        <5>1. Rests(Ordinal(w), Selected(Ordinal(w)), evidence[Ordinal(w)], Abandoned)
          BY <4>1 DEF OnItsRuns
        <5>2. PICK r \in evidence[Ordinal(w)] :
                /\ ~r.probe /\ r.verdict # Passed
                /\ JudgementOn(r.binary, r.verdict) = Abandoned
          BY <5>1 DEF Rests, Abandoned, Reached
        <5>3. r \in Runs
          BY <4>1, <5>2, Lookups DEF TypeOK
        <5>4. r.binary \in Binaries /\ r.verdict \in Verdicts
          BY <5>3 DEF Runs
        <5>5. r.verdict.kind # "Passed"
          BY <5>2, <5>4 DEF Verdicts, Passed, Plain
        <5> QED
          BY <5>2, <5>4, <5>5, JudgementType DEF Unmetered, Abandoned, Reached
      <4> QED
        BY <3>1, <4>2, AbandonKeepsTheQueue
    <3>2. CASE Check(w) \/ Take(w) \/ Send(w)
      BY <3>2, CheckKeepsTheQueue, TakeKeepsTheQueue, SendKeepsTheQueue
    <3>3. CASE ConsultHinted(w) \/ ConsultFile(w) \/ Wake(w) \/ Teach(w) \/ Probe(w) \/ Run(w) \/ Exhaust(w)
      BY <2>1, <3>3, MostGoOn, GoingOnKeepsTheQueue
    <3> QED
      BY <2>3, <3>1, <3>2, <3>3 DEF Worker
  <2>4. ASSUME Record \/ Finish \/ UNCHANGED vars PROVE Exclusive' /\ Accounted' /\ Ended'
    BY <2>4, RecordKeepsTheQueue, FinishKeepsTheQueue
  <2> QED
    BY <2>1, <2>2, <2>3, <2>4 DEF Next, IInv
<1> HIDE DEF IInv
<1> QED
  BY <1>1, InitIInv, PTL DEF Spec

\* Every variable of a sweep keeps its type.
THEOREM TypeCorrect == Spec => []TypeOK
<1>1. IInv => TypeOK
  BY DEF IInv
<1> HIDE DEF IInv
<1> QED
  BY <1>1, Invariance, PTL

\* What a file has learned convicted a mutant of that file, and a file in progress has
\* a learner at work.  (judge_learning and FileLearning::publish)
THEOREM LearningStaysHonest == Spec => []LearningIsHonest
<1>1. IInv => LearningIsHonest
  BY DEF IInv
<1> HIDE DEF IInv
<1> QED
  BY <1>1, Invariance, PTL

\* Every mutant is judged once, and a sweep that returns Ok has judged them all.
\* (test_all, the workers' loop and the drain)
THEOREM JudgedOnce == Spec => []EveryMutantOnce
<1>1. IInv => EveryMutantOnce
  <2> SUFFICES ASSUME IInv PROVE EveryMutantOnce
    OBVIOUS
  <2>0. TypeOK /\ Exclusive /\ Accounted /\ Ended /\ Grounded
    BY DEF IInv
  <2>1. \A m \in Mutants : reported[m] <= 1
    BY <2>0 DEF Exclusive
  <2>2. ASSUME result # "running", NEW m \in Mutants, reported[m] # 1
        PROVE  /\ result = "error"
               /\ evidence[m] = {} \/ Unmetered(evidence[m])
    <3>1. channel = <<>> /\ \A w \in Workers : pc[w] = "exited"
      BY <2>0, <2>2 DEF Ended
    <3>2. PICK i \in Mutants : pending[i] = m
      BY <2>0, Lookups
    <3>3. CASE i < next
      <4>1. ~\E k \in DOMAIN channel : channel[k].position = m
        BY <3>1
      <4>2. ~\E w \in Workers : Holds(w) /\ index[w] = i
        BY <3>1 DEF Holds, Holding
      <4>3. abandoned /\ Unmetered(evidence[m])
        BY <2>0, <2>2, <3>2, <3>3, <4>1, <4>2 DEF Accounted
      <4> QED
        BY <2>0, <2>2, <4>3 DEF Ended, TypeOK
    <3>4. CASE ~(i < next)
      <4>1. i >= next /\ ~(next > N)
        BY <2>0, <3>4, SweepAssumption DEF TypeOK, Mutants
      <4>2. evidence[m] = {}
        BY <2>0, <3>2, <4>1 DEF Grounded
      <4>3. abandoned
        BY <2>0, <3>1, <4>1, SweepAssumption DEF Ended
      <4> QED
        BY <2>0, <2>2, <4>2, <4>3 DEF Ended, TypeOK
    <3> QED
      BY <3>3, <3>4
  <2>3. result = "ok" => \A m \in Mutants : reported[m] = 1
    BY <2>2
  <2>4. result # "running" =>
          \A m \in Mutants : reported[m] = 0 =>
            result = "error" /\ (evidence[m] = {} \/ Unmetered(evidence[m]))
    BY <2>2
  <2> QED
    BY <2>1, <2>3, <2>4 DEF EveryMutantOnce, Unmetered
<1> HIDE DEF IInv
<1> QED
  BY <1>1, Invariance, PTL

\* The invariant gives that recorded outcomes rest on the runs.
LEMMA InvariantRests == IInv => OutcomesRestOnRuns
<1> SUFFICES ASSUME IInv PROVE OutcomesRestOnRuns
  OBVIOUS
<1>1. SUFFICES ASSUME NEW m \in Mutants, reported[m] = 1
               PROVE  /\ outcome[m] = "Survived" =>
                           /\ Selected(m) # {}
                           /\ Whole(m) = [binary : Selected(m), probe : {FALSE}, verdict : {Passed}]
                      /\ outcome[m] = "NoCoverage" => Selected(m) = {} /\ Whole(m) = {}
                      /\ killedBy[m] # None =>
                           /\ outcome[m] = "Killed" /\ killedBy[m].binary \in Reachable[m]
                           /\ \E r \in evidence[m] : /\ r.binary = killedBy[m].binary
                                                     /\ \/ r.verdict = Failed(killedBy[m].test)
                                                        \/ r.probe /\ r.verdict = Failed(None)
                      /\ outcome[m] \notin {"Survived", "NoCoverage"} /\ killedBy[m] = None =>
                           \E r \in Whole(m) :
                             r.verdict # Passed
                             /\ JudgementOn(r.binary, r.verdict) = Reached(outcome[m], None)
  BY DEF OutcomesRestOnRuns
<1>2. PICK j : j = Reached(outcome[m], killedBy[m])
  OBVIOUS
<1>3. j.outcome = outcome[m] /\ j.killer = killedBy[m]
  BY <1>2 DEF Reached
<1>4. Rests(m, Selected(m), evidence[m], j)
  BY <1>1, <1>2 DEF IInv, Grounded, RecordedRest
<1> QED
  BY <1>3, <1>4 DEF Rests, Whole

\* A recorded outcome rests on the runs of that mutant and no other's.
\* (judge_ordered, judge_learning, order_reachable)
THEOREM OutcomesRest == Spec => []OutcomesRestOnRuns
<1> HIDE DEF IInv
<1> QED
  BY InvariantRests, Invariance, PTL

-----------------------------------------------------------------------------
\* Where a run was made with the mutant on and did anything but pass, a suite that
\* does the same every time has a binary that catches it.
LEMMA CaughtSomewhere ==
  ASSUME IInv, NEW m \in Mutants, Deterministic(m), NEW b \in Binaries, b \in Reachable[m],
         suite[m][b] # {Passed}
  PROVE  b \in {c \in Selected(m) : suite[m][c] # {Passed}}
BY DEF Deterministic, Selected, IInv, TypeOK

\* How a mutant counts that some binary catches.
LEMMA ColdDetects ==
  ASSUME IInv, NEW m \in Mutants, Deterministic(m), Decisive(m),
         NEW b \in Binaries, b \in Reachable[m], suite[m][b] # {Passed}
  PROVE  Scoring(ColdOutcome(m)) = "Detected"
<1>0. TypeOK
  BY DEF IInv
<1>1. PICK caught : caught = {c \in Selected(m) : suite[m][c] # {Passed}}
  OBVIOUS
<1>2. b \in caught /\ caught \in SUBSET Binaries /\ Selected(m) # {} /\ caught # {}
  BY <1>0, <1>1, CaughtSomewhere, Lookups
<1>3. PICK first : first = Foremost(m, caught)
  OBVIOUS
<1>4. first \in caught /\ first \in Binaries
  BY <1>2, <1>3, SomeForemost
<1>5. PICK v : v = (CHOOSE u \in suite[m][first] : TRUE)
  OBVIOUS
<1>6. suite[m][first] # {} /\ suite[m][first] = {v}
  <2>1. PICK x : suite[m][first] = {x}
    BY <1>4 DEF Deterministic
  <2> QED
    BY <1>5, <2>1
<1>7. v \in Verdicts /\ v # Passed /\ v.kind \notin Excluding
  BY <1>0, <1>1, <1>4, <1>6, Lookups DEF Decisive
<1>8. v.kind # "Passed"
  BY <1>7 DEF Verdicts, Passed, Plain
<1>9. JudgementOn(first, v).outcome \in {"Killed", "Timeout", "OutOfMemory"}
  BY <1>7, <1>8, SweepAssumption DEF JudgementOn, Verdicts, Excluding, Reached
<1>10. ColdOutcome(m) = JudgementOn(first, v).outcome
  BY <1>1, <1>2, <1>3, <1>5 DEF ColdOutcome
<1> QED
  BY <1>9, <1>10 DEF Scoring

\* The invariant gives that the score is free of order.
LEMMA InvariantScore == IInv => ScoreIsOrderFree
<1> SUFFICES ASSUME IInv, NEW m \in Mutants, reported[m] = 1, Deterministic(m), Decisive(m)
             PROVE  Scoring(outcome[m]) = Scoring(ColdOutcome(m))
  BY DEF ScoreIsOrderFree, Agrees
<1>0. TypeOK /\ Genuine /\ OutcomesRestOnRuns
  BY InvariantRests DEF IInv
<1>1. outcome[m] \in Outcomes /\ killedBy[m] \in Killers \union {None} /\ Selected(m) \subseteq Binaries
  BY <1>0, Lookups DEF TypeOK
<1>2. \A r \in evidence[m] : r.binary \in Binaries /\ r.verdict \in Verdicts
  BY <1>0 DEF TypeOK, Runs
<1>3. CASE outcome[m] = "NoCoverage"
  <2>1. Selected(m) = {}
    BY <1>0, <1>3 DEF OutcomesRestOnRuns
  <2> QED
    BY <1>3, <2>1 DEF ColdOutcome
<1>4. CASE outcome[m] = "Survived"
  <2>1. Selected(m) # {} /\ Whole(m) = [binary : Selected(m), probe : {FALSE}, verdict : {Passed}]
    BY <1>0, <1>4 DEF OutcomesRestOnRuns
  <2>2. ASSUME NEW b \in Selected(m) PROVE suite[m][b] = {Passed}
    <3>1. PICK r \in evidence[m] : ~r.probe /\ r.binary = b /\ r.verdict = Passed
      <4>1. [binary |-> b, probe |-> FALSE, verdict |-> Passed] \in Whole(m)
        BY <2>1
      <4> QED
        BY <4>1 DEF Whole
    <3>2. Passed \in suite[m][b]
      BY <1>0, <3>1 DEF Genuine
    <3>3. PICK x : suite[m][b] = {x}
      BY <1>1 DEF Deterministic
    <3> QED
      BY <3>2, <3>3
  <2>3. {c \in Selected(m) : suite[m][c] # {Passed}} = {}
    BY <2>2
  <2> QED
    BY <1>4, <2>1, <2>3 DEF ColdOutcome
<1>5. CASE outcome[m] \notin {"Survived", "NoCoverage"} /\ killedBy[m] = None
  <2>1. PICK r \in Whole(m) :
          r.verdict # Passed /\ JudgementOn(r.binary, r.verdict) = Reached(outcome[m], None)
    BY <1>0, <1>5 DEF OutcomesRestOnRuns
  <2>2. r \in evidence[m] /\ ~r.probe /\ r.binary \in Binaries /\ r.verdict \in Verdicts
    BY <1>2, <2>1 DEF Whole
  <2>3. r.verdict \in suite[m][r.binary]
    BY <1>0, <2>2 DEF Genuine
  <2>4. r.verdict.kind # "Passed" /\ r.verdict.kind \notin Excluding
    BY <2>1, <2>2, <2>3 DEF Decisive, Verdicts, Passed, Plain
  <2>5. outcome[m] \in {"Killed", "Timeout", "OutOfMemory"}
    BY <2>1, <2>2, <2>4, SweepAssumption DEF JudgementOn, Verdicts, Excluding, Reached
  <2>6. r.binary \in Reachable[m] /\ suite[m][r.binary] # {Passed}
    BY <1>0, <2>1, <2>2, <2>3 DEF IInv, Genuine
  <2> QED
    BY <2>2, <2>5, <2>6, ColdDetects DEF Scoring
<1>6. CASE killedBy[m] # None
  <2>1. PICK r \in evidence[m] :
          /\ outcome[m] = "Killed" /\ killedBy[m].binary \in Reachable[m]
          /\ r.binary = killedBy[m].binary /\ r.verdict.kind = "Failed"
    <3>1. /\ outcome[m] = "Killed" /\ killedBy[m].binary \in Reachable[m]
          /\ \E r \in evidence[m] : /\ r.binary = killedBy[m].binary
                                    /\ \/ r.verdict = Failed(killedBy[m].test)
                                       \/ r.probe /\ r.verdict = Failed(None)
      BY <1>0, <1>6 DEF OutcomesRestOnRuns
    <3>2. PICK r \in evidence[m] : /\ r.binary = killedBy[m].binary
                                   /\ \/ r.verdict = Failed(killedBy[m].test)
                                      \/ r.verdict = Failed(None)
      BY <3>1
    <3>3. r.verdict.kind = "Failed"
      BY <3>2 DEF Failed
    <3> QED
      BY <3>1, <3>2, <3>3
  <2>2. suite[m][r.binary] # {Passed}
    BY <1>0, <2>1 DEF Genuine, Passed, Plain, Detections
  <2> QED
    BY <1>2, <2>1, <2>2, ColdDetects DEF Scoring
<1> QED
  BY <1>1, <1>3, <1>4, <1>5, <1>6 DEF Outcomes

\* How a mutant counts does not depend on hints, on what workers taught each other or on
\* the order in which they ran.  (judge_learning, NextBinary)
THEOREM ScoreStaysOrderFree == Spec => []ScoreIsOrderFree
<1> HIDE DEF IInv
<1> QED
  BY InvariantScore, Invariance, PTL

=============================================================================
