------------------------------- MODULE MCSweep -------------------------------
(***************************************************************************)
(* Sweep with a few mutants, two binaries of one test each and two files.  *)
(***************************************************************************)
EXTENDS Sweep, TLC

CONSTANTS b1, b2, t, f1, f2

K1 == [binary |-> b1, test |-> t]
K2 == [binary |-> b2, test |-> t]

\* The last mutant is alone in its file and in another package than the others.
MCFileOf    == [m \in Mutants |-> IF m < 3 THEN f1 ELSE f2]
MCRank      == [m \in Mutants |-> IF m < 3 THEN (b1 :> 1 @@ b2 :> 2) ELSE (b1 :> 2 @@ b2 :> 1)]
MCReachable == [m \in Mutants |-> IF m < 3 THEN {b1, b2} ELSE {b2}]

InPlanOrder == [i \in Mutants |-> i]
Reversed    == [i \in Mutants |-> N + 1 - i]
MCOrders    == {InPlanOrder, Reversed}

Everything == [m \in Mutants |-> {b1, b2}]
Nothing    == [m \in Mutants |-> None]

\* One world whose runs may come to anything, and those whose suites do the same
\* in every run: harmless, caught by either binary, or by both but differently.
AnyVerdict == {Passed, Failed(t), Plain("Unmetered")}
Unruly     == [m \in Mutants |-> [b \in Binaries |-> AnyVerdict]]
Decided    == {(b1 :> {p[1]} @@ b2 :> {p[2]}) :
                 p \in {<<Passed, Passed>>, <<Passed, Failed(t)>>,
                              <<Failed(t), Passed>>, <<Plain("TimedOut"), Failed(t)>>}}
Harmless   == [b \in Binaries |-> {Passed}]
MCSuites   == {Unruly} \union {(1 :> p[1] @@ 2 :> p[2] @@ 3 :> Harmless) : p \in Decided \X Decided}

MCHintings  == {Nothing, [Nothing EXCEPT ![1] = K2, ![3] = K1]}
MCCoverings == {[Everything EXCEPT ![1] = {b2}], [Everything EXCEPT ![3] = {b1}]}
=============================================================================
