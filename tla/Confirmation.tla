---------------------------- MODULE Confirmation ----------------------------
(***************************************************************************)
(* The verdict on one mutant against one test binary: run_binary and the   *)
(* second looks it takes before it believes a detection                    *)
(* (crates/cargo-gamma-lib/src/exec/verdict.rs).                           *)
(*                                                                         *)
(* Every run of the binary is one step, whose verdict is anything the      *)
(* suite, the mutant and the machine of this world can bring about under   *)
(* the budgets of the attempt; Observation is the inside of that step.     *)
(* Durations are multiples: what a run takes is compared with what the     *)
(* attempt allows, 1 being the budget the sweep gave it.                   *)
(***************************************************************************)
EXTENDS Integers, Sequences

CONSTANTS
  Tests,           \* the names of the tests of the binary
  NoTest,          \* None, where a test name is an Option
  CONFIRM_FACTOR,  \* how much more room a suspected overrun is given
  CONFIRM_ROUNDS,  \* how many confirmations a verdict may cost
  Demands,         \* what a run may take, in multiples of its budget
  Noise            \* how many runs the machine may cut short for no reason

Whole    == "whole"     \* Only::All, or the selection a census made
Harmless == "harmless"  \* a mutant, or a suite, that makes no test fail
NoList   == "nolist"    \* a mutant that keeps nextest from listing tests

ASSUME ConfirmationAssumption ==
  /\ NoTest \notin Tests
  /\ {Whole, Harmless, NoList} \intersect (Tests \union {NoTest}) = {}
  /\ CONFIRM_FACTOR \in Nat /\ CONFIRM_FACTOR > 1
  /\ CONFIRM_ROUNDS \in Nat /\ CONFIRM_ROUNDS > 0
  /\ Demands \subseteq Nat \ {0}
  /\ Noise \in Nat

VARIABLES
  world,    \* the mutant, the suite and the machine; never changes
  noise,    \* how many more runs the machine may cut short
  pc,       \* where run_binary is
  verdict,  \* the verdict in hand
  checked,  \* the suspicion the last confirmation was checking
  round,    \* how many confirmations were made
  runs      \* history: every run made, with its verdict

vars == <<world, noise, pc, verdict, checked, round, runs>>

-----------------------------------------------------------------------------
Unlimited == 0  \* a budget that is None

Overruns   == {"TimedOut", "Stalled", "MemoryLimit"}
Detections == Overruns \union {"Failed", "TestEnumerationFailed"}
Refusals   == {"Unmetered", "Unjudged"}
Verdicts   == [kind : Detections \union Refusals \union {"Passed", "Flaky"},
               test : Tests \union {NoTest}]
Budgets    == {1, CONFIRM_FACTOR, Unlimited}
Attempts   == [active : BOOLEAN, timeout : Budgets, stall : Budgets,
               only : Tests \union {Whole}]

\* What a world is: what the mutant makes fail; what fails without it, and
\* whether that needs company; what a run with the mutant takes, in time and
\* in its longest silence, and whether it outgrows its memory; how much slower
\* than at the baseline the machine is; and what the sweep asked for.
Worlds ==
  [effect : Tests \union {NoTest, Harmless, NoList},
   red : Tests \union {NoTest, Harmless}, company : BOOLEAN,
   need : Demands, hush : Demands, hoard : BOOLEAN, load : Demands,
   active : BOOLEAN, timed : BOOLEAN, watched : BOOLEAN, confirm : BOOLEAN]

Plain(kind) == [kind |-> kind, test |-> NoTest]
Failed(t)   == [kind |-> "Failed", test |-> t]
Flaky(t)    == [kind |-> "Flaky", test |-> t]

-----------------------------------------------------------------------------
(***************************************************************************)
(* One run of the binary.                                                  *)
(***************************************************************************)
FailsUnder(a) ==
  LET culprits == (IF a.active THEN {world.effect} ELSE {})
                  \union (IF a.only # Whole /\ world.company THEN {} ELSE {world.red})
  IN (culprits \ {Harmless, NoList}) \intersect
       (IF a.only = Whole THEN Tests \union {NoTest} ELSE {a.only})

Exceeds(takes, budget) == budget # Unlimited /\ takes * world.load > budget

\* The budgets a run of this attempt goes over.
Overrun(a) ==
  LET time    == IF a.active THEN world.need ELSE 1
      silence == IF a.active THEN world.hush ELSE 1
  IN  (IF Exceeds(time, a.timeout) THEN {"TimedOut"} ELSE {})
      \union (IF Exceeds(silence, a.stall) THEN {"Stalled"} ELSE {})
      \union (IF a.active /\ world.hoard THEN {"MemoryLimit"} ELSE {})

\* The verdicts of a run nothing outside it disturbs.  A failing test may end a
\* run before a budget does.
Undisturbed(a) ==
  {Plain(o) : o \in Overrun(a)}
  \union (IF a.active /\ world.effect = NoList THEN {Plain("TestEnumerationFailed")}
                                                ELSE {Failed(t) : t \in FailsUnder(a)})
  \union (IF Overrun(a) = {} /\ FailsUnder(a) = {} /\ ~(a.active /\ world.effect = NoList)
            THEN {Plain("Passed")} ELSE {})

\* The machine may cut a run short although the run fits its budgets.
Disturbed(a) ==
  {Plain("MemoryLimit")}
  \union (IF a.timeout = Unlimited THEN {} ELSE {Plain("TimedOut")})
  \union (IF a.stall = Unlimited THEN {} ELSE {Plain("Stalled")})

Outcomes(a) ==
  Undisturbed(a) \union Disturbed(a) \union {Plain(r) : r \in Refusals}

\* One run of the attempt comes to v.  Only so many runs are disturbed.
Observe(a, v) ==
  /\ IF v \in Undisturbed(a) \/ v.kind \in Refusals
       THEN noise' = noise
       ELSE noise > 0 /\ noise' = noise - 1
  /\ runs' = Append(runs, [attempt |-> a, verdict |-> v])

-----------------------------------------------------------------------------
(***************************************************************************)
(* The attempts.                                                           *)
(***************************************************************************)
given == [active  |-> world.active,
          timeout |-> IF world.timed THEN 1 ELSE Unlimited,
          stall   |-> IF world.watched THEN 1 ELSE Unlimited,
          only    |-> Whole]

Scaled(budget) == budget * CONFIRM_FACTOR

exonerating(a)    == [a EXCEPT !.active = FALSE]
isolating(a, t)   == [exonerating(a) EXCEPT !.only = t]
lengthened(a)     == [a EXCEPT !.timeout = Scaled(@)]
\* As it would be had the wrong budget been loosened.
impatient(a)      == [a EXCEPT !.timeout = Scaled(@)]
patient(a)        == [a EXCEPT !.stall = Scaled(@)]

checking(suspicion, a) ==
  CASE suspicion = "TimedOut"    -> lengthened(a)
    [] suspicion = "Stalled"     -> patient(a)
    [] suspicion = "MemoryLimit" -> a

-----------------------------------------------------------------------------
(***************************************************************************)
(* settle_suspicions.                                                      *)
(***************************************************************************)
FirstRun ==
  /\ pc = "run"
  /\ \E v \in Outcomes(given) : Observe(given, v) /\ verdict' = v
  /\ pc' = "settle"
  /\ UNCHANGED <<world, checked, round>>

\* As it would be were a memory verdict taken for evidence.
Unsuspecting == verdict.kind \in Overruns \ {"MemoryLimit"}

Suspicious  == verdict.kind \in Overruns
Agreed      == checked = verdict.kind
OutOfRounds == round = CONFIRM_ROUNDS

SecondLook ==
  /\ pc = "settle"
  /\ Suspicious /\ ~Agreed /\ ~OutOfRounds
  /\ checked' = verdict.kind
  /\ round' = round + 1
  /\ LET again == checking(verdict.kind, given)
     IN \E v \in Outcomes(again) : Observe(again, v) /\ verdict' = v
  /\ UNCHANGED <<world, pc>>

Settled ==
  /\ pc = "settle"
  /\ ~Suspicious \/ Agreed \/ OutOfRounds
  /\ pc' = "confirm"
  /\ UNCHANGED <<world, noise, verdict, checked, round, runs>>

(***************************************************************************)
(* confirm_kill and confirm_enumeration.                                   *)
(***************************************************************************)
Or(test, also) == IF test = NoTest THEN also ELSE test

\* As it would be were a control that was cut short read as a green one.
ExoneratedByDefault(test, v) ==
  CASE v.kind = "Failed"    -> Flaky(Or(test, v.test))
    [] v.kind \in Refusals  -> v
    [] OTHER                -> Failed(test)

\* As it would be were a failure that nothing names not compared.
ExoneratedByName(test, v) ==
  CASE v.kind = "Passed"                      -> Failed(test)
    [] v.kind = "Failed" /\ test \in Tests    -> Flaky(test)
    [] v.kind = "Failed" /\ test \notin Tests -> Failed(v.test)
    [] v.kind \in Refusals                    -> v
    [] OTHER                                  -> Flaky(test)

\* What an exoneration makes of a failing test.
Exonerated(test, v) ==
  CASE v.kind = "Passed"    -> Failed(test)
    [] v.kind = "Failed"    -> Flaky(Or(test, v.test))
    [] v.kind \in Refusals  -> v
    [] OTHER                -> Flaky(test)

\* What it makes of a selection nextest could not list.
Listed(v) ==
  CASE v.kind = "Passed"    -> Plain("TestEnumerationFailed")
    [] v.kind = "Failed"    -> Flaky(v.test)
    [] v.kind \in Refusals  -> v
    [] OTHER                -> Flaky(NoTest)

ConfirmKill ==
  /\ pc = "confirm"
  /\ verdict.kind = "Failed" /\ world.confirm /\ world.active
  /\ LET control == IF verdict.test = NoTest THEN exonerating(given)
                                             ELSE isolating(given, verdict.test)
     IN \E v \in Outcomes(control) :
          Observe(control, v) /\ verdict' = Exonerated(verdict.test, v)
  /\ pc' = "done"
  /\ UNCHANGED <<world, checked, round>>

ConfirmEnumeration ==
  /\ pc = "confirm"
  /\ verdict.kind = "TestEnumerationFailed"
  /\ \E v \in Outcomes(exonerating(given)) :
       Observe(exonerating(given), v) /\ verdict' = Listed(v)
  /\ pc' = "done"
  /\ UNCHANGED <<world, checked, round>>

TakenAsItStands ==
  /\ pc = "confirm"
  /\ verdict.kind # "TestEnumerationFailed"
  /\ verdict.kind = "Failed" => ~(world.confirm /\ world.active)
  /\ pc' = "done"
  /\ UNCHANGED <<world, noise, verdict, checked, round, runs>>

-----------------------------------------------------------------------------
Init ==
  /\ world \in Worlds
  /\ noise = Noise
  /\ pc = "run"
  /\ verdict = Plain("Unjudged")
  /\ checked = "nothing"
  /\ round = 0
  /\ runs = <<>>

Next ==
  \/ FirstRun
  \/ SecondLook
  \/ Settled
  \/ ConfirmKill
  \/ ConfirmEnumeration
  \/ TakenAsItStands

Spec == Init /\ [][Next]_vars
-----------------------------------------------------------------------------
(***************************************************************************)
(* Properties.                                                             *)
(***************************************************************************)

\* Every variable has its type, and a verdict costs no more runs than the first
\* one, the confirmations and the control.
TypeOK ==
  /\ world \in Worlds
  /\ noise \in 0 .. Noise
  /\ pc \in {"run", "settle", "confirm", "done"}
  /\ verdict \in Verdicts
  /\ checked \in Overruns \union {"nothing"}
  /\ round \in 0 .. CONFIRM_ROUNDS
  /\ runs \in Seq([attempt : Attempts, verdict : Verdicts])
  /\ Len(runs) <= CONFIRM_ROUNDS + 2

Done(kinds) == pc = "done" /\ verdict.kind \in kinds

Last        == runs[Len(runs)]
BeforeLast  == runs[Len(runs) - 1]

\* A detection is something that was observed of the mutant.  An overrun is the
\* verdict of the last run, which had the mutant on; a failing suite, or one that
\* could not be listed, was seen with the mutant on and then seen to pass with
\* it off.  No verdict of a control run is handed back as the mutant's, and a
\* control that came to nothing is not read as a green one.
Controlled ==
  world.active =>
    /\ Done(Overruns) => Last.attempt.active /\ Last.verdict = verdict
    /\ Done({"TestEnumerationFailed"} \union (IF world.confirm THEN {"Failed"} ELSE {}))
         => /\ Len(runs) > 1
            /\ BeforeLast.attempt.active /\ BeforeLast.verdict = verdict
            /\ ~Last.attempt.active /\ Last.verdict = Plain("Passed")
            /\ Last.attempt.only \in {Whole, verdict.test}

\* The mutant changes nothing, the suite is green and the machine is no slower
\* than it was at the baseline.
Innocent ==
  /\ world.effect = Harmless /\ world.red = Harmless
  /\ world.need = 1 /\ world.hush = 1 /\ world.load = 1 /\ ~world.hoard

\* One run cut short by the machine convicts nobody: a mutant that changes
\* nothing is detected only if two runs of it were disturbed.
OneOverrunConvictsNobody ==
  Innocent /\ Done(Detections) => noise + 2 <= Noise

\* A suite whose test fails with the mutant off, on its own or in company, as it
\* does with the mutant on, was not detecting anything and is never a kill.
RedSuiteConvictsNobody ==
  /\ world.red # Harmless /\ ~world.company
  /\ world.effect \in {Harmless, world.red}
  /\ world.confirm /\ world.active /\ noise = Noise
  => ~Done({"Failed"})

Refused == \E i \in DOMAIN runs : runs[i].verdict.kind \in Refusals

\* Whether a run that takes so much is let finish when it is looked at again.
Fits(takes, budgeted) == ~budgeted \/ takes * world.load <= CONFIRM_FACTOR

\* On a machine that disturbs and refuses nothing, with a green suite, the
\* verdict is the truth about the mutant: a failing test is credited, a list that
\* cannot be made too, a run that fits the looser budget is not convicted for
\* going over the tight one if it goes over one alone, and one that does not fit
\* even the looser budget is caught.
QuietMachineJudgesRight ==
  LET slow  == world.timed /\ world.need * world.load > 1
      still == world.watched /\ world.hush * world.load > 1
      settled == pc = "done" /\ noise = Noise /\ ~Refused /\ ~world.hoard
                 /\ world.red = Harmless /\ world.active
  IN  settled =>
        /\ world.load = 1 /\ ~slow /\ ~still =>
             /\ world.effect \in Tests \union {NoTest} => verdict = Failed(world.effect)
             /\ world.effect = NoList => verdict = Plain("TestEnumerationFailed")
        /\ world.effect = Harmless =>
             /\ ~(slow /\ still) /\ Fits(world.need, world.timed) /\ Fits(world.hush, world.watched)
                  => verdict = Plain("Passed")
             /\ ~Fits(world.need, world.timed) \/ ~Fits(world.hush, world.watched)
                  => verdict.kind \in Overruns
=============================================================================
