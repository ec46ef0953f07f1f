------------------------------- MODULE Census -------------------------------
(***************************************************************************)
(* The census: which tests reach which sites, by running each test alone   *)
(* (crates/cargo-gamma-lib/src/exec/census.rs).                            *)
(*                                                                         *)
(* take asks every binary for its tests; walk hands the pairs of a binary  *)
(* and a test, laid end to end in one queue, to a pool of workers; what    *)
(* the workers gathered is kept for the binaries none of whose samples was *)
(* refused.  Recorder models one sample: here it answers the sites the     *)
(* test reaches, or nothing.                                               *)
(*                                                                         *)
(* Reach sets are sets, not indices into an interning table, and how long  *)
(* each test took is left out.                                             *)
(***************************************************************************)
EXTENDS Integers, Sequences, FiniteSets

CONSTANTS
  Binaries,  \* the test binaries
  Tests,     \* how many tests each would list
  Sites,     \* the mutation sites
  Workers    \* the workers of the pool

ASSUME CensusAssumption ==
  /\ IsFiniteSet(Binaries) /\ IsFiniteSet(Workers) /\ Workers # {}
  /\ Tests \in [Binaries -> Nat]

TestsOf(b) == 1 .. Tests[b]

VARIABLES
  reach,      \* what each test of each binary reaches, run without a mutant
  phase,      \* take: "listing", then "walking", then "mapped"
  asked,      \* the binaries asked for their tests
  listed,     \* those that answered with some, in order
  next,       \* the queue's cursor
  pc, task,   \* where each worker is, and the index it took
  launches,   \* how many samples were started
  attributed, \* per binary, which test was seen at which site
  spoiled,    \* the binaries one of whose samples was refused
  remaining,  \* per binary, how many of its tests no worker has finished with
  completed,  \* how many binaries progress has been told of
  census      \* the Census: the binaries it knows

worker     == <<pc, task>>
walked     == <<next, launches, attributed, spoiled, remaining>>
censusVars == <<reach, phase, asked, listed, worker, walked, completed, census>>

CensusTypeOK ==
  /\ \A b \in Binaries : reach[b] \in [TestsOf(b) -> SUBSET Sites]
  /\ phase \in {"listing", "walking", "mapped"}
  /\ asked \subseteq Binaries /\ listed \in Seq(Binaries)
  /\ pc \in [Workers -> {"idle", "taken", "sampling", "leaving", "done"}]
  /\ task \in [Workers -> Nat] /\ next \in Nat /\ launches \in Nat
  /\ attributed \in [Binaries -> SUBSET (Sites \X Nat)]
  /\ spoiled \subseteq Binaries /\ census \subseteq Binaries
  /\ remaining \in [Binaries -> Int] /\ completed \in Nat

-----------------------------------------------------------------------------
(***************************************************************************)
(* What the census answers.                                                *)
(***************************************************************************)
TestsAt(b, site) == {t \in TestsOf(b) : <<site, t>> \in attributed[b]}

\* Naming more than half of the tests is not worth it.
TooMany(b, site) == Cardinality(TestsAt(b, site)) * 2 > Tests[b]

\* reaching: None, or Some of the tests to run, as a set of at most one answer.
Reaching(b, site) ==
  IF b \notin census \/ TooMany(b, site) THEN {} ELSE {TestsAt(b, site)}

-----------------------------------------------------------------------------
(***************************************************************************)
(* take.                                                                   *)
(***************************************************************************)
\* listed: no answer, a failure, a listing cut short or one that took too long.
Unlisted(b) ==
  /\ phase = "listing" /\ b \notin asked
  /\ asked' = asked \union {b} /\ completed' = completed + 1
  /\ UNCHANGED <<reach, phase, listed, worker, walked, census>>

Listed(b) ==
  /\ phase = "listing" /\ b \notin asked
  /\ asked' = asked \union {b}
  /\ IF Tests[b] = 0
       THEN census' = census \union {b} /\ completed' = completed + 1 /\ UNCHANGED listed
       ELSE listed' = Append(listed, b) /\ UNCHANGED <<census, completed>>
  /\ UNCHANGED <<reach, phase, worker, walked>>

\* walk_with: without a directory to write to nothing is sampled.
Walk ==
  /\ phase = "listing" /\ asked = Binaries
  /\ phase' \in {"walking", "mapped"}
  /\ UNCHANGED <<reach, asked, listed, worker, walked, completed, census>>

\* Mutant: what was gathered of a spoiled binary is kept.
MapSpoiled ==
  /\ phase = "walking" /\ \A w \in Workers : pc[w] = "done"
  /\ phase' = "mapped"
  /\ census' = census \union {listed[k] : k \in DOMAIN listed}
  /\ UNCHANGED <<reach, asked, listed, worker, walked, completed>>

\* The scope has joined its workers.
Map ==
  /\ phase = "walking" /\ \A w \in Workers : pc[w] = "done"
  /\ phase' = "mapped"
  /\ census' = census \union ({listed[k] : k \in DOMAIN listed} \ spoiled)
  /\ UNCHANGED <<reach, asked, listed, worker, walked, completed>>

-----------------------------------------------------------------------------
(***************************************************************************)
(* The workers.                                                            *)
(***************************************************************************)
\* Where each listed binary starts in the queue, and where the last one ends.
Offsets ==
  LET start[k \in 1 .. Len(listed) + 1] ==
        IF k = 1 THEN 0 ELSE start[k - 1] + Tests[listed[k - 1]]
  IN start

Total == Offsets[Len(listed) + 1]

Slot(i) == CHOOSE k \in DOMAIN listed : Offsets[k] <= i /\ i < Offsets[k + 1]

BinaryAt(i) == listed[Slot(i)]
TestAt(i)   == i - Offsets[Slot(i)] + 1

Take(w) ==
  /\ phase = "walking" /\ pc[w] = "idle"
  /\ next' = next + 1
  /\ task' = [task EXCEPT ![w] = next]
  /\ pc' = [pc EXCEPT ![w] = IF next >= Total THEN "done" ELSE "taken"]
  /\ UNCHANGED <<reach, phase, asked, listed, launches, attributed, spoiled, remaining, completed, census>>

\* The binary was spoiled by another worker: nothing more is asked of it.
Skip(w) ==
  /\ pc[w] = "taken" /\ BinaryAt(task[w]) \in spoiled
  /\ pc' = [pc EXCEPT ![w] = "leaving"]
  /\ UNCHANGED <<reach, phase, asked, listed, task, walked, completed, census>>

Launch(w) ==
  /\ pc[w] = "taken" /\ BinaryAt(task[w]) \notin spoiled
  /\ pc' = [pc EXCEPT ![w] = "sampling"]
  /\ launches' = launches + 1
  /\ UNCHANGED <<reach, phase, asked, listed, task, next, attributed, spoiled, remaining, completed, census>>

\* The sample is believed; its sites are attributed under the binary's lock.
Attribute(w) ==
  LET b == BinaryAt(task[w])
      t == TestAt(task[w])
  IN /\ pc[w] = "sampling"
     /\ pc' = [pc EXCEPT ![w] = "leaving"]
     /\ attributed' = [attributed EXCEPT ![b] = @ \union {<<site, t>> : site \in reach[b][t]}]
     /\ UNCHANGED <<reach, phase, asked, listed, task, next, launches, spoiled, remaining, completed, census>>

\* The sample is refused: a test that did not simply pass, or an unsealed file.
Spoil(w) ==
  /\ pc[w] = "sampling"
  /\ pc' = [pc EXCEPT ![w] = "leaving"]
  /\ spoiled' = spoiled \union {BinaryAt(task[w])}
  /\ UNCHANGED <<reach, phase, asked, listed, task, next, launches, attributed, remaining, completed, census>>

\* The last of a binary's tests reports it.
Leave(w) ==
  LET b == BinaryAt(task[w]) IN
  /\ pc[w] = "leaving"
  /\ pc' = [pc EXCEPT ![w] = "idle"]
  /\ remaining' = [remaining EXCEPT ![b] = @ - 1]
  /\ completed' = IF remaining[b] = 1 THEN completed + 1 ELSE completed
  /\ UNCHANGED <<reach, phase, asked, listed, task, next, launches, attributed, spoiled, census>>

-----------------------------------------------------------------------------
CensusInit ==
  /\ reach \in [Binaries -> UNION {[1 .. n -> SUBSET Sites] : n \in {Tests[b] : b \in Binaries}}]
  /\ \A b \in Binaries : DOMAIN reach[b] = TestsOf(b)
  /\ phase = "listing" /\ asked = {} /\ listed = << >>
  /\ next = 0 /\ launches = 0 /\ spoiled = {} /\ completed = 0 /\ census = {}
  /\ pc = [w \in Workers |-> "idle"] /\ task = [w \in Workers |-> 0]
  /\ attributed = [b \in Binaries |-> {}]
  /\ remaining = Tests

Worker(w) ==
  Take(w) \/ Skip(w) \/ Launch(w) \/ Attribute(w) \/ Spoil(w) \/ Leave(w)

CensusNext ==
  \/ \E b \in Binaries : Unlisted(b) \/ Listed(b)
  \/ Walk \/ Map
  \/ \E w \in Workers : Worker(w)

CensusSpec == CensusInit /\ [][CensusNext]_censusVars

-----------------------------------------------------------------------------
\* An absent census is never an absent test: what the census says of a binary is the
\* tests that reach the site, all of them and no other, and it says nothing of a
\* binary one of whose tests it did not see to the end.  (walk_with, reaching)
ReachingIsExact ==
  phase = "mapped" =>
    \A b \in Binaries, site \in Sites :
      Reaching(b, site) \subseteq {{t \in TestsOf(b) : site \in reach[b][t]}}
=============================================================================
