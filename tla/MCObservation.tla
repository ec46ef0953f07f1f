---------------------------- MODULE MCObservation ----------------------------
(***************************************************************************)
(* An instance of Observation for TLC: a binary run directly, with its     *)
(* stdout piped.                                                           *)
(***************************************************************************)
EXTENDS Observation, TLC

CONSTANT out

Direct == {out}

\* A deadline, a stall budget and a ceiling need not bite, so a run with all three
\* behaves in every way a run with fewer does.
Unbounded == {[active |-> TRUE, timeout |-> t, stall |-> TRUE, limit |-> TRUE] : t \in BOOLEAN}
=============================================================================
