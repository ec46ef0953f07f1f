------------------------- MODULE ConfirmationProofs -------------------------
(***************************************************************************)
(* What Confirmation proves for any tests, any demands, any factor, any    *)
(* number of rounds and of disturbed runs.                                 *)
(***************************************************************************)
EXTENDS Confirmation, TLAPS

(***************************************************************************)
(* Facts about one run.                                                    *)
(***************************************************************************)

\* A run comes to a verdict, and names a test of the binary or none.
LEMMA OutcomesAreVerdicts ==
  ASSUME world \in Worlds, NEW a \in Attempts
  PROVE  Outcomes(a) \subseteq Verdicts
<1>1. FailsUnder(a) \subseteq Tests \union {NoTest}
  BY DEF FailsUnder, Attempts
<1>2. Overrun(a) \subseteq Overruns
  BY DEF Overrun, Overruns
<1>3. ASSUME NEW k \in Detections \union Refusals \union {"Passed", "Flaky"}
      PROVE  Plain(k) \in Verdicts
  BY DEF Plain, Verdicts
<1>4. ASSUME NEW t \in Tests \union {NoTest}
      PROVE  Failed(t) \in Verdicts
  BY DEF Failed, Verdicts, Detections
<1>5. Undisturbed(a) \subseteq Verdicts
  BY <1>1, <1>2, <1>3, <1>4 DEF Undisturbed, Detections
<1>6. Disturbed(a) \subseteq Verdicts
  BY <1>3 DEF Disturbed, Detections, Overruns
<1> QED
  BY <1>3, <1>5, <1>6 DEF Outcomes

\* The attempts run_binary makes of the one it was given are attempts.
LEMMA AttemptsMade ==
  ASSUME world \in Worlds
  PROVE  /\ given \in Attempts
         /\ given.active = world.active
         /\ given.only = Whole
         /\ \A k \in Overruns :
              /\ checking(k, given) \in Attempts
              /\ checking(k, given).active = world.active
              /\ checking(k, given).only = Whole
         /\ exonerating(given) \in Attempts
         /\ ~exonerating(given).active
         /\ exonerating(given).only = Whole
         /\ \A t \in Tests : /\ isolating(given, t) \in Attempts
                             /\ ~isolating(given, t).active
                             /\ isolating(given, t).only = t
<1>1. /\ given \in Attempts
      /\ given.active = world.active
      /\ given.only = Whole
      /\ given.timeout \in {1, Unlimited}
      /\ given.stall \in {1, Unlimited}
  BY DEF given, Attempts, Worlds, Budgets
<1>2. \A b \in {1, Unlimited} : Scaled(b) \in Budgets
  BY ConfirmationAssumption DEF Scaled, Budgets, Unlimited
<1>3. ASSUME NEW k \in Overruns
      PROVE  /\ checking(k, given) \in Attempts
             /\ checking(k, given).active = world.active
             /\ checking(k, given).only = Whole
  <2>1. lengthened(given) \in Attempts /\ patient(given) \in Attempts
    BY <1>1, <1>2 DEF lengthened, patient, Attempts
  <2>2. /\ lengthened(given).active = world.active /\ lengthened(given).only = Whole
        /\ patient(given).active = world.active /\ patient(given).only = Whole
    BY <1>1 DEF lengthened, patient, Attempts
  <2> QED
    BY <1>1, <2>1, <2>2 DEF checking, Overruns
<1>4. /\ exonerating(given) \in Attempts
      /\ ~exonerating(given).active
      /\ exonerating(given).only = Whole
  BY <1>1 DEF exonerating, Attempts
<1>5. ASSUME NEW t \in Tests
      PROVE  /\ isolating(given, t) \in Attempts
             /\ ~isolating(given, t).active
             /\ isolating(given, t).only = t
  BY <1>4 DEF isolating, Attempts
<1> QED
  BY <1>1, <1>3, <1>4, <1>5

\* The verdicts a run may come to, by their kind.
LEMMA KindOfRun ==
  ASSUME NEW a \in Attempts, NEW v \in Outcomes(a), world \in Worlds
  PROVE  /\ v.kind \in Overruns \union Refusals
                       \union {"Passed", "Failed", "TestEnumerationFailed"}
         /\ v.kind = "Failed" => v \in Undisturbed(a) /\ v.test \in FailsUnder(a)
         /\ v.kind = "Passed" => v \in Undisturbed(a) /\ v = Plain("Passed")
                                 /\ FailsUnder(a) = {}
         /\ v.kind = "TestEnumerationFailed"
              => v = Plain("TestEnumerationFailed") /\ world.effect = NoList
<1>1. Overrun(a) \subseteq Overruns
  BY DEF Overrun, Overruns
<1>2. CASE v \in Undisturbed(a)
  BY <1>1, <1>2 DEF Undisturbed, Plain, Failed, Overruns
<1>3. CASE v \in Disturbed(a)
  BY <1>3 DEF Disturbed, Plain, Overruns
<1>4. CASE v \in {Plain(r) : r \in Refusals}
  BY <1>4 DEF Plain, Refusals, Overruns
<1> QED
  BY <1>2, <1>3, <1>4 DEF Outcomes

\* A run of an innocent mutant passes unless it is disturbed or refused.
LEMMA InnocentRun ==
  ASSUME world \in Worlds, Innocent, NEW a \in Attempts, a.only = Whole
  PROVE  Undisturbed(a) = {Plain("Passed")}
<1>1. FailsUnder(a) = {}
  BY DEF FailsUnder, Innocent
<1>2. Overrun(a) = {}
  BY ConfirmationAssumption DEF Overrun, Innocent, Exceeds, Attempts, Budgets, Unlimited
<1>3. world.effect # NoList
  BY DEF Innocent, Harmless, NoList
<1> QED
  BY <1>1, <1>2, <1>3 DEF Undisturbed

(***************************************************************************)
(* The inductive invariant.                                                *)
(***************************************************************************)
Settling == pc \in {"settle", "confirm"}

\* The ladder: what has been run so far, and that the verdict in hand is that
\* of the last run.
Ladder ==
  /\ pc = "run" => runs = <<>> /\ round = 0 /\ noise = Noise
  /\ Settling => /\ Len(runs) = round + 1
                 /\ Last.verdict = verdict
                 /\ Last.attempt.active = world.active
                 /\ verdict.kind = "TestEnumerationFailed"
                      => verdict = Plain("TestEnumerationFailed")
  /\ Len(runs) <= round + 2
  /\ checked # "nothing" => round > 0

\* Every overrun of an innocent mutant, and every second look at one, has used
\* up one of the runs the machine may disturb.
Spent ==
  Innocent /\ Settling =>
    /\ verdict.kind \in Overruns \union Refusals \union {"Passed"}
    /\ verdict.kind \in Overruns => noise + 1 <= Noise
    /\ round > 0 => noise + 1 <= Noise
    /\ verdict.kind \in Overruns /\ round > 0 => noise + 2 <= Noise
    /\ verdict.kind \in Overruns /\ pc = "confirm" => round > 0

RedAlone ==
  /\ world.red # Harmless /\ ~world.company
  /\ world.effect \in {Harmless, world.red}
  /\ world.confirm /\ world.active

\* When one test fails with and without the mutant, that one is named.
RedNamed ==
  RedAlone /\ Settling /\ verdict.kind = "Failed" => verdict.test = world.red

IInv ==
  /\ TypeOK
  /\ Ladder
  /\ Controlled
  /\ Spent /\ OneOverrunConvictsNobody
  /\ RedNamed /\ RedSuiteConvictsNobody


\* The invariant holds at the start.
LEMMA InitHolds == Init => IInv
<1> SUFFICES ASSUME Init PROVE IInv
  OBVIOUS
<1>1. TypeOK
  <2>1. Plain("Unjudged") \in Verdicts
    BY DEF Plain, Verdicts, Refusals
  <2> QED
    BY <2>1, ConfirmationAssumption DEF Init, TypeOK
<1>2. pc = "run"
  BY DEF Init
<1> QED
  BY <1>1, <1>2 DEF Init, IInv, Ladder, Controlled, Spent, OneOverrunConvictsNobody,
     RedNamed, RedSuiteConvictsNobody, Settling, Done

(***************************************************************************)
(* A run of the ladder: the first one, or a second look.                   *)
(***************************************************************************)
LEMMA LadderRun ==
  ASSUME IInv, pc \in {"run", "settle"},
         NEW a \in Attempts, a.active = world.active, a.only = Whole,
         NEW v \in Outcomes(a), Observe(a, v), verdict' = v, pc' = "settle",
         UNCHANGED world,
         \/ pc = "run" /\ UNCHANGED <<checked, round>>
         \/ /\ pc = "settle" /\ Suspicious /\ round # CONFIRM_ROUNDS
            /\ checked' = verdict.kind /\ round' = round + 1
  PROVE  IInv'
<1> USE DEF IInv
<1>1. world \in Worlds /\ v \in Verdicts
  BY OutcomesAreVerdicts DEF TypeOK
<1>2. /\ noise \in Nat /\ noise' \in Nat /\ noise' \in 0 .. Noise
      /\ v \in Undisturbed(a) \/ v.kind \in Refusals \/ noise' + 1 = noise
      /\ noise' <= noise
      /\ noise' = noise => v \in Undisturbed(a) \/ v.kind \in Refusals
  BY ConfirmationAssumption DEF Observe, TypeOK
<1>3. /\ runs' \in Seq([attempt : Attempts, verdict : Verdicts])
      /\ Len(runs') = Len(runs) + 1
      /\ runs'[Len(runs')] = [attempt |-> a, verdict |-> v]
  BY <1>1 DEF Observe, TypeOK
<1>4. /\ round' \in 0 .. CONFIRM_ROUNDS /\ Len(runs') = round' + 1
      /\ Len(runs') <= round' + 2
  BY <1>3, ConfirmationAssumption DEF TypeOK, Ladder, Settling
<1>5. TypeOK'
  BY <1>1, <1>2, <1>3, <1>4, ConfirmationAssumption DEF TypeOK, Suspicious
<1>6. Ladder'
  <2>1. checked' # "nothing" => round' > 0
    BY ConfirmationAssumption DEF Ladder, TypeOK
  <2>2. Last' = [attempt |-> a, verdict |-> v]
    BY <1>3 DEF Last
  <2>3. v.kind = "TestEnumerationFailed" => v = Plain("TestEnumerationFailed")
    BY <1>1, KindOfRun
  <2>4. verdict' = v /\ pc' = "settle" /\ world' = world
    OBVIOUS
  <2>5. Last'.verdict = v /\ Last'.attempt.active = world.active
    BY <2>2
  <2> HIDE DEF IInv
  <2> QED
    BY <1>4, <2>1, <2>3, <2>4, <2>5 DEF Ladder, Settling
<1>7. Spent'
  <2> SUFFICES ASSUME Innocent PROVE Spent'
    BY DEF Spent, Innocent
  <2>1. Undisturbed(a) = {Plain("Passed")}
    BY <1>1, InnocentRun
  <2>2. /\ v.kind \in Overruns \union Refusals \union {"Passed"}
        /\ v.kind \in Overruns => noise' + 1 = noise
    <3>1. v.kind \notin {"Failed", "TestEnumerationFailed"}
      BY <1>1, <2>1, KindOfRun DEF Plain, Innocent, Harmless, NoList
    <3>2. v.kind \in Overruns => v \notin Undisturbed(a) /\ v.kind \notin Refusals
      BY <2>1 DEF Plain, Overruns, Refusals
    <3> QED
      BY <1>1, <1>2, <3>1, <3>2, KindOfRun
  <2>3. CASE pc = "run"
    <3>1. round' = 0 /\ noise = Noise
      BY <2>3 DEF Ladder, TypeOK
    <3>2. v.kind \in Overruns => noise' + 1 <= Noise
      BY <2>2, <3>1, ConfirmationAssumption
    <3>3. verdict' = v /\ pc' = "settle"
      OBVIOUS
    <3> HIDE DEF IInv
    <3> QED
      BY <2>2, <3>1, <3>2, <3>3 DEF Spent
  <2>4. CASE pc = "settle"
    <3>1. noise + 1 <= Noise
      BY <2>4 DEF Spent, Settling, Suspicious
    <3> HIDE DEF IInv
    <3>2. /\ noise' + 1 <= Noise
          /\ v.kind \in Overruns => noise' + 2 <= Noise
      <4>1. \A m \in Nat, n \in Nat, top \in Nat :
               n + 1 <= top /\ m <= n
                 => m + 1 <= top /\ (m + 1 = n => m + 2 <= top)
        OBVIOUS
      <4>2. noise \in Nat /\ noise' \in Nat /\ Noise \in Nat
        BY <1>2, ConfirmationAssumption
      <4> QED
        BY <1>2, <2>2, <3>1, <4>1, <4>2, Zenon
    <3>3. verdict' = v /\ pc' = "settle"
      OBVIOUS
    <3> HIDE DEF IInv
    <3> QED
      BY <2>2, <3>2, <3>3 DEF Spent
  <2> QED
    BY <2>3, <2>4
<1>8. RedNamed'
  <2> SUFFICES ASSUME RedAlone, v.kind = "Failed" PROVE v.test = world.red
    BY DEF RedNamed, RedAlone
  <2>1. v.test \in FailsUnder(a)
    BY <1>1, KindOfRun
  <2> QED
    BY <2>1 DEF FailsUnder, RedAlone
<1>9. (Controlled /\ OneOverrunConvictsNobody /\ RedSuiteConvictsNobody)'
  BY DEF Controlled, OneOverrunConvictsNobody, RedSuiteConvictsNobody, Done
<1> QED
  BY <1>5, <1>6, <1>7, <1>8, <1>9

(***************************************************************************)
(* A control run: the same binary, or the named test, with the mutant off. *)
(***************************************************************************)
LEMMA ControlRun ==
  ASSUME IInv, pc = "confirm",
         NEW a \in Attempts, ~a.active,
         NEW v \in Outcomes(a), Observe(a, v), pc' = "done",
         UNCHANGED <<world, checked, round>>,
         verdict' \in Verdicts
  PROVE  /\ TypeOK' /\ Ladder' /\ Spent' /\ RedNamed'
         /\ noise' <= noise
         /\ noise' = Noise => v \in Undisturbed(a) \/ v.kind \in Refusals
         /\ Len(runs') = Len(runs) + 1 /\ Len(runs) > 0
         /\ Last' = [attempt |-> a, verdict |-> v]
         /\ BeforeLast' = Last
<1> USE DEF IInv
<1>1. world \in Worlds /\ v \in Verdicts
  BY OutcomesAreVerdicts DEF TypeOK
<1>2. /\ noise' \in 0 .. Noise /\ noise' <= noise
      /\ noise' = Noise => v \in Undisturbed(a) \/ v.kind \in Refusals
  BY ConfirmationAssumption DEF Observe, TypeOK
<1>3. /\ runs' \in Seq([attempt : Attempts, verdict : Verdicts])
      /\ Len(runs') = Len(runs) + 1 /\ Len(runs) = round + 1
      /\ runs'[Len(runs')] = [attempt |-> a, verdict |-> v]
      /\ runs'[Len(runs)] = runs[Len(runs)]
  BY <1>1 DEF Observe, TypeOK, Ladder, Settling
<1>4. TypeOK'
  BY <1>2, <1>3, ConfirmationAssumption DEF TypeOK
<1>5. Ladder' /\ Spent' /\ RedNamed'
  BY <1>3, ConfirmationAssumption DEF Ladder, Spent, RedNamed, Settling, TypeOK
<1>6. Last' = [attempt |-> a, verdict |-> v] /\ BeforeLast' = Last
  BY <1>3, ConfirmationAssumption DEF Last, BeforeLast, TypeOK
<1> QED
  BY <1>2, <1>3, <1>4, <1>5, <1>6, ConfirmationAssumption DEF TypeOK

\* Every step keeps the invariant, stuttering included.
LEMMA StepHolds == IInv /\ [Next]_vars => IInv'
<1> SUFFICES ASSUME IInv, [Next]_vars PROVE IInv'
  OBVIOUS
<1> USE DEF IInv
<1>w. world \in Worlds /\ verdict \in Verdicts
  BY DEF TypeOK
<1>1. CASE FirstRun
  <2>1. PICK v \in Outcomes(given) : Observe(given, v) /\ verdict' = v
    BY <1>1 DEF FirstRun
  <2> QED
    BY <1>1, <1>w, <2>1, AttemptsMade, LadderRun DEF FirstRun
<1>2. CASE SecondLook
  <2> DEFINE again == checking(verdict.kind, given)
  <2>1. PICK v \in Outcomes(again) : Observe(again, v) /\ verdict' = v
    BY <1>2 DEF SecondLook
  <2>2. again \in Attempts /\ again.active = world.active /\ again.only = Whole
    BY <1>2, <1>w, AttemptsMade DEF SecondLook, Suspicious
  <2> HIDE DEF again
  <2> QED
    BY <1>2, <2>1, <2>2, LadderRun DEF SecondLook, OutOfRounds
<1>3. CASE Settled
  <2>1. (verdict.kind \in Overruns => round > 0)
    BY <1>3, ConfirmationAssumption DEF Settled, Suspicious, Agreed, OutOfRounds, Ladder, TypeOK,
       Overruns
  <2>2. TypeOK' /\ Ladder' /\ Spent' /\ RedNamed'
    BY <1>3, <2>1 DEF Settled, TypeOK, Ladder, Spent, RedNamed, RedAlone, Innocent, Settling, Last
  <2>3. (Controlled /\ OneOverrunConvictsNobody /\ RedSuiteConvictsNobody)'
    BY <1>3 DEF Settled, Controlled, OneOverrunConvictsNobody, RedSuiteConvictsNobody, Done
  <2> QED
    BY <2>2, <2>3
<1>4. CASE ConfirmKill
  <2> DEFINE test == verdict.test
             control == IF test = NoTest THEN exonerating(given) ELSE isolating(given, test)
  <2>1. PICK v \in Outcomes(control) : Observe(control, v) /\ verdict' = Exonerated(test, v)
    BY <1>4 DEF ConfirmKill
  <2>2. test \in Tests \union {NoTest}
    BY <1>w DEF Verdicts
  <2>3. /\ control \in Attempts /\ ~control.active
        /\ control.only = IF test = NoTest THEN Whole ELSE test
    BY <1>w, <2>2, AttemptsMade
  <2>4. /\ pc = "confirm" /\ pc' = "done" /\ UNCHANGED <<world, checked, round>>
        /\ verdict.kind = "Failed"
    BY <1>4 DEF ConfirmKill
  <2>5. v \in Verdicts
    BY <1>w, <2>3, OutcomesAreVerdicts
  <2> HIDE DEF control
  <2>6. /\ verdict' \in Verdicts
        /\ verdict'.kind \in {"Failed", "Flaky"} \union Refusals
        /\ verdict'.kind = "Failed" => v.kind = "Passed" /\ verdict' = verdict
    BY <1>w, <2>1, <2>2, <2>4, <2>5
       DEF Exonerated, Failed, Flaky, Or, Verdicts, Detections, Refusals
  <2> HIDE DEF test
  <2>7. /\ TypeOK' /\ Ladder' /\ Spent' /\ RedNamed'
        /\ noise' = Noise => v \in Undisturbed(control) \/ v.kind \in Refusals
        /\ Len(runs') = Len(runs) + 1 /\ Len(runs) > 0
        /\ Last' = [attempt |-> control, verdict |-> v]
        /\ BeforeLast' = Last
    BY <2>1, <2>3, <2>4, <2>6, ControlRun
  <2>8. Controlled'
    <3>1. v.kind = "Passed" => v = Plain("Passed")
      BY <1>w, <2>3, KindOfRun
    <3>2. Last.attempt.active = world.active /\ Last.verdict = verdict
      BY <2>4 DEF Ladder, Settling
    <3> QED
      BY <2>3, <2>4, <2>6, <2>7, <3>1, <3>2
         DEF Controlled, Done, test, Overruns, Refusals, TypeOK
  <2>9. OneOverrunConvictsNobody'
    <3>1. ~Innocent
      BY <2>4 DEF Spent, Settling, Overruns, Refusals
    <3> QED
      BY <2>4, <3>1 DEF OneOverrunConvictsNobody, Innocent
  <2>10. RedSuiteConvictsNobody'
    <3> SUFFICES ASSUME RedAlone, verdict'.kind = "Failed" PROVE FALSE
      BY <2>4 DEF RedSuiteConvictsNobody, RedAlone, Done
    <3>1. test = world.red /\ FailsUnder(control) = {}
      BY <1>w, <2>3, <2>4, <2>6, KindOfRun DEF RedNamed, Settling, test
    <3>2. world.red \in FailsUnder(control)
      BY <1>w, <2>2, <2>3, <3>1, ConfirmationAssumption DEF FailsUnder, RedAlone, Worlds
    <3> QED
      BY <3>1, <3>2
  <2> QED
    BY <2>7, <2>8, <2>9, <2>10
<1>5. CASE ConfirmEnumeration
  <2> DEFINE control == exonerating(given)
  <2>1. PICK v \in Outcomes(control) : Observe(control, v) /\ verdict' = Listed(v)
    BY <1>5 DEF ConfirmEnumeration
  <2>2. control \in Attempts /\ ~control.active /\ control.only = Whole
    BY <1>w, AttemptsMade
  <2> HIDE DEF control
  <2>3. /\ pc = "confirm" /\ pc' = "done" /\ UNCHANGED <<world, checked, round>>
        /\ verdict.kind = "TestEnumerationFailed"
    BY <1>5 DEF ConfirmEnumeration
  <2>4. v \in Verdicts
    BY <1>w, <2>2, OutcomesAreVerdicts
  <2>5. /\ verdict' \in Verdicts
        /\ verdict'.kind \in {"TestEnumerationFailed", "Flaky"} \union Refusals
        /\ verdict'.kind = "TestEnumerationFailed"
             => v.kind = "Passed" /\ verdict' = Plain("TestEnumerationFailed")
    BY <2>1, <2>4 DEF Listed, Plain, Flaky, Verdicts, Detections, Refusals
  <2>6. /\ TypeOK' /\ Ladder' /\ Spent' /\ RedNamed'
        /\ Len(runs') = Len(runs) + 1 /\ Len(runs) > 0
        /\ Last' = [attempt |-> control, verdict |-> v]
        /\ BeforeLast' = Last
    BY <2>1, <2>2, <2>3, <2>5, ControlRun
  <2>7. Controlled'
    <3>1. v.kind = "Passed" => v = Plain("Passed")
      BY <1>w, <2>2, KindOfRun
    <3>2. Last.attempt.active = world.active /\ Last.verdict = verdict
      BY <2>3 DEF Ladder, Settling
    <3>3. verdict = Plain("TestEnumerationFailed")
      BY <2>3 DEF Ladder, Settling
    <3> QED
      BY <2>2, <2>3, <2>5, <2>6, <3>1, <3>2, <3>3 DEF Controlled, Done, Overruns, Refusals, TypeOK
  <2>8. OneOverrunConvictsNobody'
    <3>1. ~Innocent
      BY <2>3 DEF Spent, Settling, Overruns, Refusals
    <3> QED
      BY <2>3, <3>1 DEF OneOverrunConvictsNobody, Innocent
  <2>9. RedSuiteConvictsNobody'
    BY <2>3, <2>5 DEF RedSuiteConvictsNobody, Done, Refusals
  <2> QED
    BY <2>6, <2>7, <2>8, <2>9
<1>6. CASE TakenAsItStands
  <2>1. /\ pc = "confirm" /\ pc' = "done"
        /\ UNCHANGED <<world, noise, verdict, checked, round, runs>>
        /\ verdict.kind # "TestEnumerationFailed"
        /\ verdict.kind = "Failed" => ~(world.confirm /\ world.active)
    BY <1>6 DEF TakenAsItStands
  <2>2. TypeOK' /\ Ladder' /\ Spent' /\ RedNamed'
    BY <2>1 DEF TypeOK, Ladder, Spent, RedNamed, Settling
  <2>3. Controlled'
    BY <2>1 DEF Controlled, Done, Ladder, Settling, Last, Overruns
  <2>4. OneOverrunConvictsNobody'
    BY <2>1 DEF OneOverrunConvictsNobody, Innocent, Done, Spent, Settling, Overruns, Refusals,
       Detections
  <2>5. RedSuiteConvictsNobody'
    BY <2>1 DEF RedSuiteConvictsNobody, Done
  <2> QED
    BY <2>2, <2>3, <2>4, <2>5
<1>7. CASE UNCHANGED vars
  BY <1>7 DEF vars, TypeOK, Ladder, Controlled, Spent, OneOverrunConvictsNobody, RedNamed,
     RedAlone, RedSuiteConvictsNobody, Innocent, Settling, Done, Last, BeforeLast
<1> QED
  BY <1>1, <1>2, <1>3, <1>4, <1>5, <1>6, <1>7 DEF Next

(***************************************************************************)
(* The theorems.                                                           *)
(***************************************************************************)

\* IInv is an invariant of run_binary.
THEOREM Invariance == Spec => []IInv
<1> QED
  BY InitHolds, StepHolds, PTL DEF Spec

\* Every variable keeps its type, and a verdict costs at most CONFIRM_ROUNDS + 2
\* runs, whatever the machine does.
THEOREM TypeCorrect == Spec => []TypeOK
<1>1. IInv => TypeOK
  BY DEF IInv
<1> QED
  BY <1>1, Invariance, PTL

\* A detection run_binary hands back was observed with the mutant on and, where
\* it was a failing suite or list, not observed with the mutant off.
THEOREM DetectionsAreControlled == Spec => []Controlled
<1>1. IInv => Controlled
  BY DEF IInv
<1> QED
  BY <1>1, Invariance, PTL

\* However many rounds and whatever the factor, an innocent mutant is detected
\* only by two disturbed runs.
THEOREM OneOverrunIsNotEnough == Spec => []OneOverrunConvictsNobody
<1>1. IInv => OneOverrunConvictsNobody
  BY DEF IInv
<1> QED
  BY <1>1, Invariance, PTL

\* A suite that is red by itself is never credited with a kill.
THEOREM RedSuitesConvictNobody == Spec => []RedSuiteConvictsNobody
<1>1. IInv => RedSuiteConvictsNobody
  BY DEF IInv
<1> QED
  BY <1>1, Invariance, PTL

(***************************************************************************)
(* A machine that disturbs and refuses nothing.                            *)
(***************************************************************************)
Quiet ==
  noise = Noise /\ ~Refused /\ ~world.hoard /\ world.red = Harmless /\ world.active

\* A run goes over the budget, or the silence, the sweep gave it.
Slow   == world.timed /\ world.need * world.load > 1
Hushed == world.watched /\ world.hush * world.load > 1

AtEase   == world.load = 1 /\ ~Slow /\ ~Hushed
Lenient  == /\ world.effect = Harmless /\ ~(Slow /\ Hushed)
            /\ Fits(world.need, world.timed) /\ Fits(world.hush, world.watched)
Hopeless == /\ world.effect = Harmless
            /\ ~Fits(world.need, world.timed) \/ ~Fits(world.hush, world.watched)

\* The verdict a quiet machine leads to, from the first run on.
OnlyTruth ==
  Quiet /\ pc # "run" =>
    /\ AtEase => /\ world.effect \in Tests \union {NoTest} => verdict = Failed(world.effect)
                 /\ world.effect = NoList => verdict = Plain("TestEnumerationFailed")
    /\ Lenient => \/ verdict = Plain("Passed")
                  \/ /\ pc = "settle" /\ checked = "nothing" /\ round = 0
                     /\ \/ Slow /\ verdict = Plain("TimedOut")
                        \/ Hushed /\ verdict = Plain("Stalled")
    /\ Hopeless => verdict.kind \in Overruns

\* What run_binary asks for: the budgets as they are, or one of them loosened.
LEMMA BudgetsGiven ==
  ASSUME world \in Worlds
  PROVE  /\ given.timeout = (IF world.timed THEN 1 ELSE 0)
         /\ given.stall = (IF world.watched THEN 1 ELSE 0)
         /\ checking("TimedOut", given).timeout = (IF world.timed THEN CONFIRM_FACTOR ELSE 0)
         /\ checking("TimedOut", given).stall = given.stall
         /\ checking("Stalled", given).timeout = given.timeout
         /\ checking("Stalled", given).stall = (IF world.watched THEN CONFIRM_FACTOR ELSE 0)
         /\ exonerating(given).timeout = given.timeout
         /\ exonerating(given).stall = given.stall
         /\ \A t \in Tests : /\ isolating(given, t).timeout = given.timeout
                             /\ isolating(given, t).stall = given.stall
<1>1. /\ given.timeout = (IF world.timed THEN 1 ELSE 0)
      /\ given.stall = (IF world.watched THEN 1 ELSE 0)
      /\ given \in Attempts
  BY AttemptsMade DEF given, Unlimited
<1>2. Scaled(1) = CONFIRM_FACTOR /\ Scaled(0) = 0
  BY ConfirmationAssumption DEF Scaled
<1>3. /\ lengthened(given).timeout = Scaled(given.timeout)
      /\ lengthened(given).stall = given.stall
      /\ patient(given).timeout = given.timeout
      /\ patient(given).stall = Scaled(given.stall)
  BY <1>1 DEF lengthened, patient, Attempts
<1>4. /\ exonerating(given).timeout = given.timeout
      /\ exonerating(given).stall = given.stall
      /\ \A t \in Tests : /\ isolating(given, t).timeout = given.timeout
                          /\ isolating(given, t).stall = given.stall
  BY <1>1 DEF exonerating, isolating, Attempts
<1>5. checking("TimedOut", given) = lengthened(given) /\ checking("Stalled", given) = patient(given)
  BY DEF checking
<1> QED
  BY <1>1, <1>2, <1>3, <1>4, <1>5

\* Only a run of a quiet machine is what the mutant and the suite make of it.
LEMMA QuietRun ==
  ASSUME TypeOK, NEW a, NEW v, Observe(a, v), Quiet', UNCHANGED world
  PROVE  Quiet /\ v \in Undisturbed(a)
<1>1. /\ noise \in Nat /\ Noise \in Nat /\ noise <= Noise
      /\ runs \in Seq([attempt : Attempts, verdict : Verdicts])
  BY ConfirmationAssumption DEF TypeOK
<1>2. runs' = Append(runs, [attempt |-> a, verdict |-> v])
  BY DEF Observe
<1>3. /\ Len(runs') = Len(runs) + 1
      /\ runs'[Len(runs')].verdict = v
      /\ \A i \in DOMAIN runs : i \in DOMAIN runs' /\ runs'[i] = runs[i]
      /\ Len(runs') \in DOMAIN runs'
  BY <1>1, <1>2
<1>4. ~Refused /\ v.kind \notin Refusals
  BY <1>3 DEF Quiet, Refused
<1>5. noise' = Noise
  BY DEF Quiet
<1>6. noise = Noise /\ v \in Undisturbed(a)
  BY <1>1, <1>4, <1>5 DEF Observe
<1> QED
  BY <1>4, <1>6 DEF Quiet

\* A control run on a machine as fast as at the baseline passes.
LEMMA QuietControl ==
  ASSUME world \in Worlds, Quiet, world.load = 1,
         NEW a \in Attempts, ~a.active, a.timeout \in {0, 1}, a.stall \in {0, 1}
  PROVE  Undisturbed(a) = {Plain("Passed")}
<1>1. FailsUnder(a) = {}
  BY DEF FailsUnder, Quiet
<1>2. Overrun(a) = {}
  BY DEF Overrun, Exceeds, Unlimited
<1> QED
  BY <1>1, <1>2 DEF Undisturbed

\* A run with the mutant on, looked at at leisure, shows what the mutant does.
LEMMA QuietProbe ==
  ASSUME world \in Worlds, Quiet, NEW a \in Attempts, a.active, a.only = Whole
  PROVE  /\ world.effect \in Tests \union {NoTest} => FailsUnder(a) = {world.effect}
         /\ world.effect \in {Harmless, NoList} => FailsUnder(a) = {}
         /\ Overrun(a) = (IF Exceeds(world.need, a.timeout) THEN {"TimedOut"} ELSE {})
                           \union (IF Exceeds(world.hush, a.stall) THEN {"Stalled"} ELSE {})
<1>1. world.effect \in Tests \union {NoTest} => world.effect \notin {Harmless, NoList}
  BY ConfirmationAssumption
<1>2. FailsUnder(a) =
        ({world.effect, Harmless} \ {Harmless, NoList}) \intersect (Tests \union {NoTest})
  BY DEF FailsUnder, Quiet, Whole
<1>3. Overrun(a) = (IF Exceeds(world.need, a.timeout) THEN {"TimedOut"} ELSE {})
                     \union (IF Exceeds(world.hush, a.stall) THEN {"Stalled"} ELSE {})
  BY DEF Overrun, Quiet
<1> QED
  BY <1>1, <1>2, <1>3

\* The ladder, on a quiet machine: the first run and every second look leave a verdict
\* that is true, or a suspicion that one more look will clear.
LEMMA QuietLadder ==
  ASSUME IInv, OnlyTruth,
         NEW a \in Attempts, NEW v \in Undisturbed(a), verdict' = v, Quiet, Quiet',
         UNCHANGED world, a.active, a.only = Whole, pc' = "settle",
         \/ pc = "run" /\ a = given /\ UNCHANGED <<checked, round>>
         \/ pc = "settle" /\ Suspicious /\ a = checking(verdict.kind, given)
  PROVE  OnlyTruth'
<1> DEFINE late == Exceeds(world.need, a.timeout)
           mute == Exceeds(world.hush, a.stall)
<1>1. world \in Worlds
  BY DEF IInv, TypeOK
<1>2. /\ world.need \in Nat /\ world.hush \in Nat /\ world.load \in Nat
      /\ world.need * world.load \in Nat /\ world.hush * world.load \in Nat
      /\ world.active
  <2>1. /\ world.need \in Nat /\ world.hush \in Nat /\ world.load \in Nat
        /\ world.active
    BY <1>1, ConfirmationAssumption DEF Worlds, Quiet
  <2>2. \A m, n \in Nat : m * n \in Nat
    OBVIOUS
  <2> QED
    BY <2>1, <2>2
<1>3. Overrun(a) = (IF late THEN {"TimedOut"} ELSE {}) \union (IF mute THEN {"Stalled"} ELSE {})
  BY <1>1, QuietProbe
<1>4. /\ late <=> a.timeout # 0 /\ world.need * world.load > a.timeout
      /\ mute <=> a.stall # 0 /\ world.hush * world.load > a.stall
  BY DEF Exceeds, Unlimited
<1>5. /\ pc = "run" => a = given
      /\ pc # "run" =>
           \/ a = given /\ verdict.kind = "MemoryLimit"
           \/ a = checking("TimedOut", given) /\ verdict.kind = "TimedOut"
           \/ a = checking("Stalled", given) /\ verdict.kind = "Stalled"
  <2>1. CASE pc = "settle" /\ Suspicious /\ a = checking(verdict.kind, given)
    <3>1. CASE verdict.kind = "TimedOut"
      BY <2>1, <3>1
    <3>2. CASE verdict.kind = "Stalled"
      BY <2>1, <3>2
    <3>3. CASE verdict.kind = "MemoryLimit"
      BY <2>1, <3>3 DEF checking
    <3> QED
      BY <2>1, <3>1, <3>2, <3>3 DEF Suspicious, Overruns
  <2> QED
    BY <2>1
<1>6. /\ a.timeout = (IF ~world.timed THEN 0
                      ELSE IF pc # "run" /\ verdict.kind = "TimedOut" THEN CONFIRM_FACTOR ELSE 1)
      /\ a.stall = (IF ~world.watched THEN 0
                    ELSE IF pc # "run" /\ verdict.kind = "Stalled" THEN CONFIRM_FACTOR ELSE 1)
  BY <1>1, <1>5, BudgetsGiven
<1>7. CONFIRM_FACTOR \in Nat /\ CONFIRM_FACTOR > 1
  BY ConfirmationAssumption
<1> HIDE DEF late, mute
<1>8. ASSUME AtEase
      PROVE  /\ world.effect \in Tests \union {NoTest} => v = Failed(world.effect)
             /\ world.effect = NoList => v = Plain("TestEnumerationFailed")
  <2> SUFFICES ASSUME world.effect \in Tests \union {NoTest, NoList}
               PROVE  /\ world.effect \in Tests \union {NoTest} => v = Failed(world.effect)
                      /\ world.effect = NoList => v = Plain("TestEnumerationFailed")
    OBVIOUS
  <2>1. pc = "run"
    BY <1>8 DEF OnlyTruth, Suspicious, Failed, Plain, Overruns
  <2>2. Overrun(a) = {}
    BY <1>2, <1>3, <1>4, <1>6, <1>8, <2>1 DEF AtEase, Slow, Hushed
  <2>3. /\ world.effect \in Tests \union {NoTest} =>
             FailsUnder(a) = {world.effect} /\ world.effect # NoList
        /\ world.effect = NoList => FailsUnder(a) = {}
    BY <1>1, QuietProbe, ConfirmationAssumption
  <2> QED
    BY <2>2, <2>3 DEF Undisturbed
<1>9. ASSUME Lenient
      PROVE  \/ v = Plain("Passed")
             \/ /\ pc = "run"
                /\ \/ Slow /\ v = Plain("TimedOut")
                   \/ Hushed /\ v = Plain("Stalled")
  <2>1. FailsUnder(a) = {} /\ world.effect # NoList
    BY <1>1, <1>9, QuietProbe DEF Lenient, Harmless, NoList
  <2>2. CASE pc = "run"
    <3>1. (late => Slow) /\ (mute => Hushed) /\ ~(late /\ mute)
      BY <1>2, <1>4, <1>6, <1>9, <2>2 DEF Lenient, Slow, Hushed
    <3> QED
      BY <1>3, <2>1, <2>2, <3>1 DEF Undisturbed
  <2>3. CASE pc # "run"
    <3>1. \/ Slow /\ verdict.kind = "TimedOut"
          \/ Hushed /\ verdict.kind = "Stalled"
      BY <1>9, <2>3 DEF OnlyTruth, Plain, Suspicious, Overruns
    <3>2. ~late /\ ~mute
      BY <1>2, <1>4, <1>6, <1>7, <1>9, <2>3, <3>1 DEF Lenient, Slow, Hushed, Fits
    <3> QED
      BY <1>3, <2>1, <3>2 DEF Undisturbed
  <2> QED
    BY <2>2, <2>3
<1>10. ASSUME Hopeless
       PROVE  v.kind \in Overruns
  <2>1. FailsUnder(a) = {} /\ world.effect # NoList
    BY <1>1, <1>10, QuietProbe DEF Hopeless, Harmless, NoList
  <2>2. late \/ mute
    BY <1>2, <1>4, <1>6, <1>7, <1>10 DEF Hopeless, Fits
  <2>3. Overrun(a) # {} /\ Overrun(a) \subseteq Overruns
    BY <1>3, <2>2 DEF Overruns
  <2> QED
    BY <2>1, <2>3 DEF Undisturbed, Plain
<1>11. pc = "run" => checked = "nothing" /\ round = 0
  BY DEF IInv, Ladder, TypeOK
<1> QED
  BY <1>8, <1>9, <1>10, <1>11 DEF OnlyTruth, AtEase, Lenient, Hopeless, Slow, Hushed, Fits

\* No step on a quiet machine leads to another verdict than the mutant's own.
LEMMA QuietStep == IInv /\ OnlyTruth /\ [Next]_vars => OnlyTruth'
<1> SUFFICES ASSUME IInv, OnlyTruth, [Next]_vars, Quiet', pc' # "run"
             PROVE  OnlyTruth'
  BY DEF OnlyTruth
<1>1. TypeOK /\ world \in Worlds /\ verdict \in Verdicts
  BY DEF IInv, TypeOK
<1>2. world' = world
  BY DEF Next, vars, FirstRun, SecondLook, Settled, ConfirmKill, ConfirmEnumeration, TakenAsItStands
<1>3. CASE FirstRun
  <2>1. PICK v \in Outcomes(given) : Observe(given, v) /\ verdict' = v
    BY <1>3 DEF FirstRun
  <2>2. Quiet /\ v \in Undisturbed(given)
    BY <1>1, <1>2, <2>1, QuietRun
  <2>3. given \in Attempts /\ given.active /\ given.only = Whole
    BY <1>1, <2>2, AttemptsMade DEF Quiet
  <2> QED
    BY <1>2, <1>3, <2>1, <2>2, <2>3, QuietLadder DEF FirstRun
<1>4. CASE SecondLook
  <2> DEFINE again == checking(verdict.kind, given)
  <2>1. PICK v \in Outcomes(again) : Observe(again, v) /\ verdict' = v
    BY <1>4 DEF SecondLook
  <2>2. Quiet /\ v \in Undisturbed(again)
    BY <1>1, <1>2, <2>1, QuietRun
  <2>3. again \in Attempts /\ again.active /\ again.only = Whole
    BY <1>1, <1>4, <2>2, AttemptsMade DEF Quiet, SecondLook, Suspicious
  <2>4. pc = "settle" /\ pc' = "settle" /\ Suspicious
    BY <1>4 DEF SecondLook
  <2> HIDE DEF again
  <2> QED
    BY <1>2, <2>1, <2>2, <2>3, <2>4, QuietLadder DEF again
<1>5. CASE Settled
  <2>1. /\ UNCHANGED <<world, noise, verdict, checked, round, runs>> /\ pc = "settle"
        /\ ~Suspicious \/ checked = verdict.kind \/ round = CONFIRM_ROUNDS
    BY <1>5 DEF Settled, Agreed, OutOfRounds
  <2>2. Quiet
    BY <2>1 DEF Quiet, Refused
  <2>3. Lenient => verdict = Plain("Passed")
    BY <2>1, <2>2, ConfirmationAssumption DEF OnlyTruth, Suspicious, Overruns, Plain
  <2> QED
    BY <2>1, <2>2, <2>3 DEF OnlyTruth, AtEase, Lenient, Hopeless, Slow, Hushed, Fits
<1>6. CASE ConfirmKill
  <2> DEFINE test == verdict.test
             control == IF test = NoTest THEN exonerating(given) ELSE isolating(given, test)
  <2>1. PICK v \in Outcomes(control) : Observe(control, v) /\ verdict' = Exonerated(test, v)
    BY <1>6 DEF ConfirmKill
  <2>2. Quiet /\ v \in Undisturbed(control)
    BY <1>1, <1>2, <2>1, QuietRun
  <2>3. pc = "confirm" /\ verdict.kind = "Failed"
    BY <1>6 DEF ConfirmKill
  <2>4. ~Lenient /\ ~Hopeless
    BY <2>2, <2>3 DEF OnlyTruth, Plain, Overruns
  <2>5. ASSUME AtEase, world.effect \in Tests \union {NoTest}
        PROVE  verdict' = Failed(world.effect)
    <3>1. verdict = Failed(world.effect) /\ test \in Tests \union {NoTest}
      BY <2>2, <2>3, <2>5 DEF OnlyTruth, Failed
    <3>2. /\ control \in Attempts /\ ~control.active
          /\ control.timeout \in {0, 1} /\ control.stall \in {0, 1}
      BY <1>1, <3>1, AttemptsMade, BudgetsGiven
    <3> HIDE DEF control
    <3>3. v = Plain("Passed")
      BY <1>1, <2>2, <2>5, <3>2, QuietControl DEF AtEase
    <3> QED
      BY <2>1, <3>1, <3>3 DEF Exonerated, Plain, Failed, Refusals
  <2>6. ~(AtEase /\ world.effect = NoList)
    BY <2>2, <2>3 DEF OnlyTruth, Plain
  <2> QED
    BY <1>2, <2>4, <2>5, <2>6 DEF OnlyTruth, AtEase, Lenient, Hopeless, Slow, Hushed, Fits
<1>7. CASE ConfirmEnumeration
  <2> DEFINE control == exonerating(given)
  <2>1. PICK v \in Outcomes(control) : Observe(control, v) /\ verdict' = Listed(v)
    BY <1>7 DEF ConfirmEnumeration
  <2>2. Quiet /\ v \in Undisturbed(control)
    BY <1>1, <1>2, <2>1, QuietRun
  <2>3. pc = "confirm" /\ verdict.kind = "TestEnumerationFailed"
    BY <1>7 DEF ConfirmEnumeration
  <2>4. ~Lenient /\ ~Hopeless
    BY <2>2, <2>3 DEF OnlyTruth, Plain, Overruns
  <2>5. ASSUME AtEase
        PROVE  verdict' = Plain("TestEnumerationFailed")
    <3>1. /\ control \in Attempts /\ ~control.active
          /\ control.timeout \in {0, 1} /\ control.stall \in {0, 1}
      BY <1>1, AttemptsMade, BudgetsGiven
    <3> HIDE DEF control
    <3>2. v = Plain("Passed")
      BY <1>1, <2>2, <2>5, <3>1, QuietControl DEF AtEase
    <3> QED
      BY <2>1, <3>2 DEF Listed, Plain, Refusals
  <2>6. ~(AtEase /\ world.effect \in Tests \union {NoTest})
    BY <2>2, <2>3 DEF OnlyTruth, Failed
  <2> QED
    BY <1>2, <2>4, <2>5, <2>6 DEF OnlyTruth, AtEase, Lenient, Hopeless, Slow, Hushed, Fits
<1>8. CASE TakenAsItStands \/ UNCHANGED vars
  <2>1. UNCHANGED <<world, noise, verdict, checked, round, runs>> /\ pc # "run"
        /\ (pc = pc' \/ pc = "confirm")
    BY <1>8 DEF TakenAsItStands, vars
  <2>2. Quiet
    BY <2>1 DEF Quiet, Refused
  <2> QED
    BY <2>1, <2>2 DEF OnlyTruth, AtEase, Lenient, Hopeless, Slow, Hushed, Fits
<1> QED
  BY <1>3, <1>4, <1>5, <1>6, <1>7, <1>8 DEF Next

\* With enough patience and no interference the verdict is the truth about the mutant:
\* whatever it demands, whatever the factor, one round of confirmation is enough.
THEOREM QuietMachinesJudgeRight == Spec => []QuietMachineJudgesRight
<1>1. Init => OnlyTruth
  BY DEF Init, OnlyTruth
<1>2. OnlyTruth => QuietMachineJudgesRight
  BY DEF OnlyTruth, QuietMachineJudgesRight, Quiet, AtEase, Lenient, Hopeless, Slow, Hushed
<1> QED
  BY <1>1, <1>2, Invariance, QuietStep, PTL DEF Spec
=============================================================================
