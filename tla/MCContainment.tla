---------------------------- MODULE MCContainment ----------------------------
(***************************************************************************)
(* Small instances of Containment.                                         *)
(***************************************************************************)
EXTENDS Containment, TLC

\* Threads, handlers and pids are interchangeable: no definition names one.
Symmetry == Permutations(Threads) \union Permutations(Deliveries)
              \union Permutations(Pids)

=============================================================================
