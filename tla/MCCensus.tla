------------------------------ MODULE MCCensus ------------------------------
(***************************************************************************)
(* An instance of Recorder and Census for TLC.  Recorder: a test with two  *)
(* threads, which may start a program with one.  Census: a binary of three *)
(* tests, one of one and one whose listing is empty, sampled by two        *)
(* workers.                                                                *)
(*                                                                         *)
(* Each is checked by itself, the other one being over: a census none of   *)
(* whose binaries was listed, or a test that ended without its exit        *)
(* handler.                                                                *)
(***************************************************************************)
EXTENDS Recorder, Census, TLC

CONSTANTS test, child, t1, t2, c1, big, small, empty

TestAndChild == {test, child}
AllThreads   == {t1, t2, c1}
Homes        == (t1 :> test) @@ (t2 :> test) @@ (c1 :> child)
TwoWords     == <<{1}, {2}>>
TooFar       == {9}
Codes        == (t1 :> {1, 9}) @@ (t2 :> {2}) @@ (c1 :> {2})

ThreeBinaries == {big, small, empty}
Listing       == (big :> 3) @@ (small :> 1) @@ (empty :> 0)

SampleOver ==
  /\ life = [p \in Processes |-> IF p = Root THEN "quit" ELSE "absent"]
  /\ selection = [p \in Processes |-> "none"]
  /\ lease = [p \in Processes |-> 0] /\ cursor = [p \in Processes |-> 1]
  /\ reached = [p \in Processes |-> {}] /\ overflowed = [p \in Processes |-> FALSE]
  /\ at = [t \in Threads |-> "user"]
  /\ want = [t \in Threads |-> {}] /\ seen = [t \in Threads |-> 0]
  /\ left = [t \in Threads |-> Notes]
  /\ file = << >> /\ sampled = Unknown /\ ran = [p \in Processes |-> {}]

CensusOver ==
  /\ reach = [b \in Binaries |-> [t \in TestsOf(b) |-> {}]]
  /\ phase = "mapped" /\ asked = Binaries /\ listed = << >>
  /\ next = 0 /\ launches = 0 /\ spoiled = {} /\ census = {}
  /\ completed = Cardinality(Binaries)
  /\ pc = [w \in Workers |-> "idle"] /\ task = [w \in Workers |-> 0]
  /\ attributed = [b \in Binaries |-> {}] /\ remaining = Tests

EitherInit == (Init /\ CensusOver) \/ (CensusInit /\ SampleOver)
EitherNext == (Next /\ UNCHANGED censusVars) \/ (CensusNext /\ UNCHANGED vars)
EitherSpec == EitherInit /\ [][EitherNext]_<<vars, censusVars>> /\ Fairness
=============================================================================
