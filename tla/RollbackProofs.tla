--------------------------- MODULE RollbackProofs ---------------------------
(***************************************************************************)
(* What holds of Rollback for every workspace, every set of mutants and    *)
(* every way their errors may mask each other.                             *)
(*                                                                         *)
(* What the tree holds is known only of a plan whose files were scanned in *)
(* the order of their paths (InOrder), so the part of the invariant that   *)
(* speaks of trees is conditional on it; the rest is not.                  *)
(***************************************************************************)
EXTENDS Rollback, FiniteSetTheorems, TLAPS

\* The program points at which a build is being converged.
Building == {"probe", "round", "isolate", "narrow"}

\* The tree before a mutant is applied to it.
Bare == [placed |-> {}, withdrawn |-> {}, indexed |-> {}]

\* The preflight comes before any mutant, and concerns the whole workspace.
Fresh == pc = "preflight" => withdrawn = {} /\ build.select = Packages /\ splices = Bare

\* A build of a stage is of a stage there is.
Staged == pc \in Building /\ build.verb = "build" => stage \in DOMAIN Stages

\* What is planned has an ordinal, and so a place in its file's list.
Numbered == planned \intersect Idle = {}

\* Suspicion falls on the build's own mutants, and only while a failure is narrowed down.
Suspected == suspects \subseteq IF pc = "narrow" THEN Mine ELSE {}

Recorded == Accused \subseteq DOMAIN census /\ ConvictedAlone

\* Outcomes of the compiler's are written when the run is over, not before.
Undecided ==
  /\ pc = "over" <=> result # "running"
  /\ result = "running" => \A m \in Mutants : outcome[m] # "CompileError"

WholeClears == ErrorsIn(Bare, Packages, "check") = {}

Wide == /\ whole => WholeClears /\ build.select = Packages
        /\ WideTreeBlamesMutants

\* The tree that holds these mutants, each in its own file.
Holding(live) == [placed    |-> {<<m, file[m]>> : m \in live},
                  withdrawn |-> planned \ live,
                  indexed   |-> planned]

\* What was spliced is what was known and not withdrawn.
Tidy(t) ==
  /\ t.withdrawn \subseteq t.indexed /\ t.indexed \subseteq planned
  /\ t.placed = {<<m, file[m]>> : m \in t.indexed \ t.withdrawn}

\* Every round of a build but the last has taken somebody out of the tree.
Budgeted ==
  /\ pc = "probe" => rounds = 0
  /\ pc = "round" => rounds <= Cardinality(withdrawn)
  /\ rounds <= Cardinality(withdrawn) + 1

\* A failure that is isolated is one: while it is, the suspects fail by themselves and the rest
\* of the tree, with the build's own packages pristine, does not.
Narrowing ==
  /\ pc = "isolate" => Fails(Holding(Live))
  /\ pc = "narrow" => Fails(Holding(Only(suspects))) /\ ~Fails(Holding(Without(Mine)))

Orderly == InOrder => Tidy(splices) /\ Budgeted /\ Narrowing

\* The inductive invariant.
IInv == TypeOK /\ Fresh /\ Staged /\ Numbered /\ Suspected /\ Recorded /\ Undecided /\ Wide
          /\ JudgedAsBuilt /\ Orderly

(***************************************************************************)
(* The tree of a plan scanned in order.                                    *)
(***************************************************************************)

\* An instrument takes out of the dirty files what they hold, and splices their lists.
LEMMA InstrumentSplices ==
  ASSUME NEW t, NEW live
  PROVE  LET dirty == Dirty(t, planned \ live)
         IN Instrument(t, live) =
              [placed    |-> {x \in t.placed : x[2] \notin dirty}
                               \union {<<m, Home(m)>> : m \in {l \in live : Home(l) \in dirty}},
               withdrawn |-> planned \ live,
               indexed   |-> planned]
<1> DEFINE spliced(dirty) ==
             {x \in t.placed : x[2] \notin dirty}
               \union {<<m, Home(m)>> : m \in {l \in live : Home(l) \in dirty}}
           dirtied == Dirty(t, planned \ live)
<1>1. Instrument(t, live) = [placed    |-> UNION {spliced(dirty) : dirty \in {dirtied}},
                             withdrawn |-> planned \ live,
                             indexed   |-> planned]
  BY Zenon DEF Instrument
<1> HIDE DEF spliced, dirtied
<1>2. UNION {spliced(dirty) : dirty \in {dirtied}} = spliced(dirtied)
  OBVIOUS
<1> QED
  BY <1>1, <1>2, Zenon DEF spliced, dirtied

\* A plan scanned in order is one that sorting does not move.
LEMMA PositionsStand ==
  ASSUME TypeOK, InOrder, NEW m \in Mutants
  PROVE  Position(m) = m
<1>1. N \in Nat /\ file \in [Mutants -> Nat \ {0}] /\ m \in Nat /\ m >= 1
  BY RollbackAssumption DEF TypeOK, Mutants
<1>2. {k \in Mutants : Ahead(k, m)} = 1 .. (m - 1)
  <2>1. ASSUME NEW k \in Mutants, Ahead(k, m)
        PROVE  k \in 1 .. (m - 1)
    <3>1. k \in Nat /\ k >= 1 /\ file[k] \in Nat /\ file[m] \in Nat
      BY <1>1 DEF Mutants
    <3>2. m < k => file[m] <= file[k]
      BY DEF InOrder
    <3>3. k < m
      BY <1>1, <2>1, <3>1, <3>2 DEF Ahead
    <3> QED
      BY <1>1, <3>1, <3>3
  <2>2. ASSUME NEW k \in 1 .. (m - 1)
        PROVE  k \in Mutants /\ Ahead(k, m)
    <3>1. k \in Mutants /\ k < m
      BY <1>1 DEF Mutants
    <3>2. file[k] <= file[m] /\ file[k] \in Nat /\ file[m] \in Nat
      BY <1>1, <3>1 DEF InOrder
    <3> QED
      BY <3>1, <3>2 DEF Ahead
  <2> QED
    BY <2>1, <2>2
<1>3. Cardinality(1 .. (m - 1)) = IF 1 > m - 1 THEN 0 ELSE m - 1 - 1 + 1
  BY <1>1, FS_Interval
<1>4. Cardinality({k \in Mutants : Ahead(k, m)}) = m - 1
  <2>1. Cardinality(1 .. (m - 1)) = m - 1
    BY <1>1, <1>3
  <2> QED
    BY <1>2, <2>1
<1> QED
  BY <1>1, <1>4 DEF Position

\* A planned mutant of such a plan is in the list of its own file.
LEMMA HomesStand ==
  ASSUME TypeOK, Numbered, InOrder, NEW m \in planned
  PROVE  Home(m) = file[m]
<1>1. m \in Mutants /\ m \notin Idle
  BY DEF TypeOK, Numbered
<1> QED
  BY <1>1, PositionsStand DEF Home

\* Instrumenting a tidy tree leaves in it what it is told to, and nothing else.
LEMMA InstrumentHolds ==
  ASSUME TypeOK, Numbered, InOrder, NEW t, Tidy(t), NEW live \in SUBSET planned
  PROVE  Instrument(t, live) = Holding(live)
<1> DEFINE gone  == planned \ live
           dirty == Dirty(t, gone)
           kept  == {x \in t.placed : x[2] \notin dirty}
           new   == {<<m, Home(m)>> : m \in {l \in live : Home(l) \in dirty}}
           all   == {<<m, file[m]>> : m \in live}
<1>1. Instrument(t, live) = [placed |-> kept \union new, withdrawn |-> gone, indexed |-> planned]
  BY InstrumentSplices, Zenon
<1>2. \A m \in live : Home(m) = file[m]
  BY HomesStand
<1>3. planned \subseteq Mutants
  BY DEF TypeOK
<1>4. /\ t.withdrawn \subseteq t.indexed /\ t.indexed \subseteq planned
      /\ t.placed = {<<m, file[m]>> : m \in t.indexed \ t.withdrawn}
  BY DEF Tidy
<1>5. dirty = {file[m] : m \in IF t.withdrawn \subseteq gone
                                THEN (planned \ t.indexed) \union (gone \ t.withdrawn)
                                ELSE Mutants}
  BY DEF Dirty
<1>6. ASSUME NEW m \in planned, file[m] \notin dirty
      PROVE  m \in t.indexed \ t.withdrawn <=> m \in live
  <2>1. m \in Mutants
    BY <1>3
  <2>2. t.withdrawn \subseteq gone /\ m \notin (planned \ t.indexed) \union (gone \ t.withdrawn)
    BY <1>5, <1>6, <2>1
  <2> QED
    BY <2>2
<1> HIDE DEF dirty
<1>7. kept \union new \subseteq all
  <2>1. ASSUME NEW x \in kept PROVE x \in all
    <3>1. PICK m \in t.indexed \ t.withdrawn : x = <<m, file[m]>>
      BY <1>4, <2>1
    <3>2. m \in planned /\ file[m] \notin dirty
      BY <1>4, <2>1, <3>1
    <3> QED
      BY <1>6, <3>1, <3>2
  <2>2. new \subseteq all
    BY <1>2
  <2> QED
    BY <2>1, <2>2
<1>8. all \subseteq kept \union new
  <2>1. SUFFICES ASSUME NEW m \in live
                 PROVE  <<m, file[m]>> \in kept \union new
    OBVIOUS
  <2>2. CASE file[m] \in dirty
    BY <1>2, <2>2
  <2>3. CASE file[m] \notin dirty
    <3>1. m \in t.indexed \ t.withdrawn
      BY <1>6, <2>3
    <3> QED
      BY <1>4, <2>3, <3>1
  <2> QED
    BY <2>2, <2>3
<1>9. kept \union new = all
  BY <1>7, <1>8
<1> QED
  BY <1>1, <1>9 DEF Holding

\* A tree that holds these mutants is tidy, and holds these mutants.
LEMMA HoldingIsTidy ==
  ASSUME TypeOK, NEW live \in SUBSET planned
  PROVE  /\ Tidy(Holding(live))
         /\ InPlace(Holding(live)) = live /\ Guarded(Holding(live)) = live
         /\ Strays(Holding(live)) = {}
<1>1. Holding(live).placed = {<<m, file[m]>> : m \in live}
  BY DEF Holding
<1>2. Tidy(Holding(live))
  <2>1. planned \ (planned \ live) = live
    OBVIOUS
  <2> QED
    BY <1>1, <2>1 DEF Tidy, Holding
<1>3. Strays(Holding(live)) = {}
  BY <1>1 DEF Strays
<1>4. {x[1] : x \in {<<m, file[m]>> : m \in live}} = live
  <2>1. \A m \in live : <<m, file[m]>>[1] = m
    OBVIOUS
  <2>2. ASSUME NEW x \in {<<m, file[m]>> : m \in live} PROVE x[1] \in live
    BY <2>1
  <2>3. ASSUME NEW m \in live
        PROVE  \E x \in {<<k, file[k]>> : k \in live} : x[1] = m
    BY <2>1
  <2> QED
    BY <2>2, <2>3
<1>5. InPlace(Holding(live)) = live
  <2>1. {y \in Holding(live).placed : y[2] = file[y[1]]} = {<<m, file[m]>> : m \in live}
    BY <1>1
  <2> QED
    BY <1>4, <2>1 DEF InPlace
<1>6. Guarded(Holding(live)) = live
  BY <1>1, <1>4 DEF Guarded
<1> QED
  BY <1>2, <1>3, <1>5, <1>6

\* A build of this selection meets this error in a tree with what the error needs.
Meets(e, select, verb) ==
  /\ e.amid = {} /\ e.kind \in Sees(verb)
  /\ e.in \in IF e.kind = "test" THEN select ELSE UNION {Reach[p] : p \in select}
  /\ e.cure \intersect select = {}

\* What a tree raises that holds these mutants is what they need, and nothing else.
LEMMA HoldingRaises ==
  ASSUME TypeOK, NEW live \in SUBSET planned, NEW e, NEW select, NEW verb
  PROVE  Raised(e, Holding(live), select, verb) <=> e.needs \subseteq live /\ Meets(e, select, verb)
<1>1. e.amid \subseteq {} <=> e.amid = {}
  OBVIOUS
<1> QED
  BY <1>1, HoldingIsTidy DEF Raised, Meets

\* The trees of the builds of a run that is in order.
LEMMA TreesHold ==
  ASSUME TypeOK, Numbered, InOrder, Tidy(splices)
  PROVE  /\ \A live \in SUBSET Live : Instrument(splices, live) = Holding(live)
         /\ Spliced = Holding(Live) /\ Cleared = Holding(Without(Mine))
         /\ LeftTree = Holding(Only(Left)) /\ RightTree = Holding(Only(Right))
         /\ \A i : LessItem(i) = Holding(Without(MembersOf({i})))
<1>1. \A ms : Only(ms) \in SUBSET planned /\ Without(ms) \in SUBSET planned
  BY DEF Only, Without, Live
<1>2. Live \in SUBSET planned
  BY DEF Live
<1>3. LeftTree = Holding(Only(Left))
  BY <1>1, InstrumentHolds DEF LeftTree
<1>4. RightTree = Holding(Only(Right))
  <2>1. Tidy(Holding(Only(Left)))
    BY <1>1, HoldingIsTidy
  <2> QED
    BY <1>1, <1>3, <2>1, InstrumentHolds DEF RightTree
<1>5. \A i : LessItem(i) = Holding(Without(MembersOf({i})))
  <2>1. Tidy(Holding(Only(Right)))
    BY <1>1, HoldingIsTidy
  <2> QED
    BY <1>1, <1>4, <2>1, InstrumentHolds DEF LessItem
<1>6. Spliced = Holding(Live) /\ Cleared = Holding(Without(Mine))
  BY <1>1, <1>2, InstrumentHolds DEF Spliced, Cleared
<1> QED
  BY <1>2, <1>3, <1>4, <1>5, <1>6, InstrumentHolds

(***************************************************************************)
(* Who leaves the tree, and how.                                           *)
(***************************************************************************)

\* Some error needs this mutant and no other of its package.
Sole(m) == \E e \in world : e.needs \intersect Housed({PackageOf[m]}) = {m}

Kept == UNCHANGED <<withdrawn, abandoned, census>>

\* The errors of a tree that is given some of the live mutants accuse those they name.
NamedIn(t) ==
  \E reported \in SUBSET ErrorsIn(t, build.select, build.verb) : Withdraw(reported, t)

Named == /\ pc \in Building
         /\ \E live \in SUBSET Live : NamedIn(Instrument(splices, live))
         /\ UNCHANGED abandoned

Lost == (\E lost \in SUBSET Live : Abandon(lost)) /\ UNCHANGED census

Convicted == \E ms \in SUBSET Live : Isolated(ms, TRUE) /\ (InOrder => \A m \in ms : Sole(m))
GivenUp   == \E ms \in SUBSET Live : Isolated(ms, FALSE)

\* The files of a run and what it scanned, of the types there are.
LEMMA TreesTyped ==
  ASSUME TypeOK
  PROVE  /\ N \in Nat /\ file \in [Mutants -> Nat \ {0}]
         /\ \A m \in Mutants : Home(m) \in Nat
         /\ \A live \in SUBSET planned : \A t \in [placed : SUBSET (planned \X Nat),
                                                   withdrawn : SUBSET planned,
                                                   indexed : SUBSET planned] :
              Instrument(t, live) \in [placed : SUBSET (planned \X Nat),
                                       withdrawn : SUBSET planned, indexed : SUBSET planned]
<1> DEFINE Trees == [placed : SUBSET (planned \X Nat), withdrawn : SUBSET planned,
                     indexed : SUBSET planned]
<1>1. N \in Nat /\ file \in [Mutants -> Nat \ {0}] /\ planned \subseteq Mutants
  BY RollbackAssumption DEF TypeOK
<1>2. IsFiniteSet(Mutants)
  BY <1>1, FS_Interval DEF Mutants
<1>3. ASSUME NEW m \in Mutants PROVE Home(m) \in Nat
  <2> DEFINE ahead == {k \in Mutants : Ahead(k, m)}
  <2>1. m \in Nat /\ m >= 1 /\ m <= N
    BY <1>1 DEF Mutants
  <2>2. CASE ~Sorted
    BY <1>1, <1>3, <2>1, <2>2 DEF Home, Position
  <2>3. CASE Sorted
    <3>1. ahead \in SUBSET (Mutants \ {m})
      BY <1>1, <1>3 DEF Ahead, Mutants
    <3>2. IsFiniteSet(Mutants \ {m}) /\ Cardinality(Mutants \ {m}) = N - 1
      <4>1. IsFiniteSet(Mutants) /\ Cardinality(Mutants) = N
        BY <1>1, <2>1, FS_Interval DEF Mutants
      <4> QED
        BY <1>1, <1>3, <4>1, FS_RemoveElement
    <3>3. Cardinality(ahead) \in Nat /\ Cardinality(ahead) <= N - 1
      BY <3>1, <3>2, FS_Subset, FS_CardinalityType
    <3>4. Position(m) = Cardinality(ahead) + 1
      BY <2>3 DEF Position
    <3>5. Position(m) \in Mutants
      BY <1>1, <3>3, <3>4 DEF Mutants
    <3> QED
      BY <1>1, <3>5 DEF Home
  <2> QED
    BY <2>2, <2>3
<1>4. ASSUME NEW live \in SUBSET planned, NEW t \in Trees
      PROVE  Instrument(t, live) \in Trees
  <2> DEFINE dirty == Dirty(t, planned \ live)
             kept  == {x \in t.placed : x[2] \notin dirty}
             new   == {<<m, Home(m)>> : m \in {l \in live : Home(l) \in dirty}}
  <2>1. Instrument(t, live)
          = [placed |-> kept \union new, withdrawn |-> planned \ live, indexed |-> planned]
    BY InstrumentSplices, Zenon
  <2>2. kept \subseteq planned \X Nat
    <3>1. kept \subseteq t.placed
      OBVIOUS
    <3>2. t.placed \in SUBSET (planned \X Nat)
      BY <1>4
    <3> HIDE DEF kept
    <3> QED
      BY <3>1, <3>2
  <2>3. \A m \in live : m \in planned /\ Home(m) \in Nat
    BY <1>1, <1>3
  <2>4. new \subseteq planned \X Nat
    BY <2>3
  <2> HIDE DEF kept, new
  <2> QED
    BY <2>1, <2>2, <2>4
<1> QED
  BY <1>1, <1>3, <1>4

\* What a tree of live mutants guards has been scanned, and is live if it is in order.
LEMMA GuardedKnown ==
  ASSUME TypeOK, Numbered, NEW live \in SUBSET Live,
         InOrder => Tidy(splices)
  PROVE  /\ Guarded(Instrument(splices, live)) \subseteq planned
         /\ InOrder => Guarded(Instrument(splices, live)) \subseteq Live
<1>1. live \in SUBSET planned
  BY DEF Live
<1>2. Instrument(splices, live).placed \subseteq planned \X Nat
  <2>1. splices \in [placed : SUBSET (planned \X Nat), withdrawn : SUBSET planned,
                     indexed : SUBSET planned]
    BY DEF TypeOK
  <2> QED
    BY <1>1, <2>1, TreesTyped
<1>3. Guarded(Instrument(splices, live)) \subseteq planned
  BY <1>2 DEF Guarded
<1>4. CASE InOrder
  <2>1. Instrument(splices, live) = Holding(live)
    BY <1>1, <1>4, InstrumentHolds
  <2> QED
    BY <1>1, <1>3, <2>1, HoldingIsTidy
<1> QED
  BY <1>3, <1>4

\* What a stuck build costs is given up on, never blamed.
LEMMA StuckLoses ==
  ASSUME NEW spent, Stuck(spent), UNCHANGED census
  PROVE  Kept \/ Lost
<1>1. CASE StageStuck(spent)
  BY <1>1 DEF StageStuck, Lost
<1>2. CASE Widened
  BY <1>2 DEF Widened, Kept
<1>3. CASE RunStuck(spent)
  BY <1>3 DEF RunStuck, Lost
<1> QED
  BY <1>1, <1>2, <1>3 DEF Stuck

\* In a plan scanned in order the last suspect is needed by an error that needs no other
\* mutant of its package.
LEMMA LastSuspectIsSole ==
  ASSUME TypeOK, Suspected, Orderly, InOrder, pc = "narrow", NEW m, suspects = {m}
  PROVE  Sole(m)
<1>1. m \in Live /\ PackageOf[m] \in build.select /\ m \in Mutants \ Idle
  BY DEF Suspected, Mine, Live, Housed
<1>2. Fails(Holding(Only({m}))) /\ ~Fails(Holding(Without(Mine)))
  BY DEF Orderly, Narrowing
<1>3. Only({m}) \in SUBSET planned /\ Without(Mine) \in SUBSET planned
  BY DEF Only, Without, Live
<1>4. PICK e \in world : Raised(e, Holding(Only({m})), build.select, build.verb)
  BY <1>2 DEF Fails, ErrorsIn
<1>5. ~Raised(e, Holding(Without(Mine)), build.select, build.verb)
  BY <1>2 DEF Fails, ErrorsIn
<1>6. e.needs \subseteq Only({m}) /\ ~(e.needs \subseteq Without(Mine))
  BY <1>3, <1>4, <1>5, HoldingRaises
<1>7. m \in e.needs
  BY <1>6 DEF Only, Without
<1>8. \A x \in e.needs : x \in Housed({PackageOf[m]}) => x = m
  BY <1>1, <1>6 DEF Only, Housed, Mine, Live
<1>9. m \in Housed({PackageOf[m]})
  BY <1>1 DEF Housed
<1> QED
  BY <1>7, <1>8, <1>9 DEF Sole

\* A tree built from live mutants accuses those its errors name.
LEMMA BuildNames ==
  ASSUME pc \in Building, NEW live \in SUBSET Live, UNCHANGED abandoned,
         NEW reported \in SUBSET ErrorsIn(Instrument(splices, live), build.select, build.verb),
         Withdraw(reported, Instrument(splices, live))
  PROVE  Named
<1>1. NamedIn(Instrument(splices, live))
  BY DEF NamedIn
<1> QED
  BY <1>1 DEF Named

\* Whatever a step does, the tree loses nobody, or the mutants the compiler named,
\* or a build's population given up on, or an item isolation convicts or gives up.
LEMMA Losses ==
  ASSUME TypeOK, Suspected, Orderly, [Next]_vars
  PROVE  Kept \/ Named \/ Lost \/ Convicted \/ GivenUp
<1>1. CASE \/ Preflight \/ Scan \/ NothingLive \/ Finish \/ SkipProbe \/ RoundPasses
           \/ RoundTimesOut \/ RoundBlamesNobody \/ Halve \/ SpliceFails \/ UNCHANGED vars
  BY <1>1 DEF Preflight, Scan, NothingLive, Finish, SkipProbe, RoundPasses, RoundTimesOut,
              RoundBlamesNobody, Halve, SpliceFails, vars, Kept
<1>2. CASE Probe
  <2>1. Only(Offered) \in SUBSET Live /\ Offering = Instrument(splices, Only(Offered))
    BY DEF Only, Offering
  <2>2. PICK reported \in SUBSET ErrorsIn(Offering, build.select, build.verb) :
               Withdraw(reported, Offering)
    BY <1>2 DEF Probe
  <2> QED
    BY <1>2, <2>1, <2>2, BuildNames DEF Probe, Building
<1>3. CASE RoundBlames
  <2>1. Spliced = Instrument(splices, Live)
    BY DEF Spliced
  <2>2. PICK reported \in SUBSET ErrorsIn(Spliced, build.select, build.verb) :
               Withdraw(reported, Spliced)
    BY <1>3 DEF RoundBlames, Met
  <2> QED
    BY <1>3, <2>1, <2>2, BuildNames DEF RoundBlames, Building
<1>4. CASE RoundsRunOut
  BY <1>4, StuckLoses DEF RoundsRunOut
<1>5. CASE Pristine
  <2>1. CASE Unisolated
    BY <2>1, StuckLoses DEF Unisolated
  <2> QED
    BY <1>5, <2>1 DEF Pristine, Kept
<1>6. ASSUME NEW S PROVE MembersOf(S) \in SUBSET Live
  BY DEF MembersOf, Mine
<1>7. CASE RemoveItem
  <2>1. CASE Unisolated
    BY <2>1, StuckLoses DEF Unisolated
  <2>2. CASE \E i \in ItemsOf(suspects) : Isolated(MembersOf({i}), FALSE)
    BY <2>2, <1>6 DEF GivenUp
  <2> QED
    BY <1>7, <2>1, <2>2 DEF RemoveItem
<1>8. CASE GiveUpItem
  BY <1>8, <1>6 DEF GiveUpItem, GivenUp
<1>9. CASE Convict
  <2>1. Cardinality(suspects) = 1 /\ Isolated(suspects, TRUE) /\ pc = "narrow"
    BY <1>9 DEF Convict
  <2>2. suspects \in SUBSET Live /\ IsFiniteSet(suspects)
    <3>1. suspects \subseteq 1 .. N
      BY DEF TypeOK, Mutants
    <3>2. N \in Nat
      BY RollbackAssumption
    <3>3. IsFiniteSet(1 .. N)
      BY <3>2, FS_Interval
    <3>4. IsFiniteSet(suspects)
      BY <3>1, <3>3, FS_Subset
    <3> QED
      BY <3>4 DEF TypeOK, Live
  <2>3. PICK m : suspects = {m}
    BY <2>1, <2>2, FS_Singleton
  <2>4. InOrder => \A x \in suspects : Sole(x)
    BY <2>1, <2>3, LastSuspectIsSole
  <2> QED
    BY <2>1, <2>2, <2>4 DEF Convicted
<1> QED
  BY <1>1, <1>2, <1>3, <1>4, <1>5, <1>7, <1>8, <1>9 DEF Next

\* Nobody comes back, and nobody who was blamed is given up on.
LEMMA LossesStand ==
  ASSUME TypeOK, Suspected, Orderly, [Next]_vars
  PROVE  withdrawn \subseteq withdrawn' /\ abandoned \subseteq abandoned' /\ Accused \subseteq Accused'
<1>1. CASE Kept
  BY <1>1 DEF Kept, Accused
<1>2. CASE Named
  <2>1. withdrawn \subseteq withdrawn' /\ abandoned' = abandoned
    BY <1>2 DEF Named, NamedIn, Withdraw
  <2> QED
    BY <2>1 DEF Accused
<1>3. CASE Lost
  BY <1>3 DEF Lost, Abandon, Accused, Live
<1>4. CASE Convicted
  BY <1>4 DEF Convicted, Isolated, Accused, Live
<1>5. CASE GivenUp
  BY <1>5 DEF GivenUp, Isolated, Accused, Live
<1> QED
  BY <1>1, <1>2, <1>3, <1>4, <1>5, Losses

\* The code, the limit and the files a run was given are the same throughout.
LEMMA WorldStands ==
  ASSUME [Next]_vars
  PROVE  world' = world /\ limit' = limit /\ file' = file /\ (InOrder' <=> InOrder)
<1>1. world' = world /\ limit' = limit /\ file' = file
  BY DEF Next, vars, Preflight, Scan, NothingLive, Finish, SkipProbe, Probe, RoundPasses,
         RoundTimesOut, RoundBlames, RoundsRunOut, RoundBlamesNobody, Pristine, Halve,
         RemoveItem, GiveUpItem, Convict, SpliceFails
<1> QED
  BY <1>1 DEF InOrder

\* The reported errors that name a mutant are what is recorded for it, unless the
\* mutant has been recorded before; in a plan scanned in order none has.
LEMMA WithdrawRecords ==
  ASSUME TypeOK, Numbered, Orderly,
         NEW live \in SUBSET Live, NEW t, t = Instrument(splices, live),
         NEW reported \in SUBSET ErrorsIn(t, build.select, build.verb),
         Withdraw(reported, t)
  PROVE  /\ Blamed(reported, t) \subseteq planned
         /\ InOrder => Blamed(reported, t) \subseteq Live
         /\ withdrawn' = withdrawn \union Blamed(reported, t)
         /\ DOMAIN census' = DOMAIN census \union Blamed(reported, t)
         /\ \A m \in DOMAIN census : census'[m] = census[m]
         /\ \A m \in Blamed(reported, t) \ DOMAIN census :
              census'[m] # {} /\ census'[m] \subseteq reported
         /\ reported \subseteq world
<1>1. Guarded(t) \subseteq planned /\ (InOrder => Guarded(t) \subseteq Live)
  BY GuardedKnown DEF Orderly
<1>2. Blamed(reported, t) \subseteq planned /\ (InOrder => Blamed(reported, t) \subseteq Live)
  BY <1>1 DEF Blamed
<1>3. ASSUME NEW m \in Blamed(reported, t)
      PROVE  \E e \in reported : m \in e.names
  BY DEF Blamed
<1>4. /\ withdrawn' = withdrawn \union Blamed(reported, t)
      /\ census' = [m \in DOMAIN census \union Blamed(reported, t) |->
                      IF m \in DOMAIN census THEN census[m]
                      ELSE {e \in reported : m \in e.names}]
  BY DEF Withdraw
<1>5. ASSUME NEW m \in Blamed(reported, t) \ DOMAIN census
      PROVE  census'[m] # {} /\ census'[m] \subseteq reported
  <2>1. census'[m] = {e \in reported : m \in e.names}
    BY <1>4
  <2> QED
    BY <1>3, <2>1
<1>6. reported \subseteq world
  BY DEF ErrorsIn
<1> QED
  BY <1>2, <1>4, <1>5, <1>6

\* What isolation takes out is recorded with no error of its own.
LEMMA IsolatedRecords ==
  ASSUME TypeOK, NEW ms \in SUBSET Live,
         census' = [m \in DOMAIN census \union ms |->
                      IF m \in DOMAIN census THEN census[m] ELSE {}]
  PROVE  /\ DOMAIN census' = DOMAIN census \union ms
         /\ \A m \in DOMAIN census : census'[m] = census[m]
         /\ \A m \in ms : census'[m] = {}
<1>1. DOMAIN census \intersect ms = {}
  BY DEF TypeOK, Live
<1> QED
  BY <1>1

\* The accused are those that were, and those this step has records of.
LEMMA NamedRecords ==
  ASSUME TypeOK, Numbered, Orderly, Named
  PROVE  /\ withdrawn \subseteq withdrawn' /\ withdrawn' \subseteq planned
         /\ DOMAIN census \subseteq DOMAIN census' /\ DOMAIN census' \subseteq withdrawn'
         /\ \A m \in DOMAIN census : census'[m] = census[m]
         /\ \A m \in DOMAIN census' : census'[m] \subseteq world
         /\ \A m \in Accused' : m \in Accused \/ (m \in DOMAIN census' /\ census'[m] # {})
         /\ \E t : \A m \in DOMAIN census' \ DOMAIN census :
                     census'[m] \subseteq ErrorsIn(t, build.select, build.verb)
<1>1. PICK live \in SUBSET Live : NamedIn(Instrument(splices, live))
  BY DEF Named
<1> DEFINE t == Instrument(splices, live)
<1>2. PICK reported \in SUBSET ErrorsIn(t, build.select, build.verb) : Withdraw(reported, t)
  BY <1>1 DEF NamedIn
<1> DEFINE ms == Blamed(reported, t)
<1>3. /\ ms \subseteq planned
      /\ withdrawn' = withdrawn \union ms
      /\ DOMAIN census' = DOMAIN census \union ms
      /\ \A m \in DOMAIN census : census'[m] = census[m]
      /\ \A m \in ms \ DOMAIN census : census'[m] # {} /\ census'[m] \subseteq reported
      /\ reported \subseteq world
  BY <1>2, WithdrawRecords
<1> HIDE DEF ms, t
<1>4. /\ DOMAIN census \subseteq withdrawn /\ withdrawn \subseteq planned
      /\ \A m \in DOMAIN census : census[m] \subseteq world
      /\ abandoned \subseteq withdrawn
  BY DEF TypeOK
<1>5. abandoned' = abandoned
  BY DEF Named
<1>6. ASSUME NEW m \in Accused'
      PROVE  m \in Accused \/ (m \in DOMAIN census' /\ census'[m] # {})
  <2>1. m \in withdrawn \union ms /\ m \notin abandoned
    BY <1>3, <1>5 DEF Accused
  <2>2. CASE m \in withdrawn
    BY <2>1, <2>2 DEF Accused
  <2>3. CASE m \notin withdrawn
    BY <1>3, <1>4, <2>1, <2>3
  <2> QED
    BY <2>2, <2>3
<1> QED
  BY <1>2, <1>3, <1>4, <1>6

\* What the census holds against a mutant stays, and convicts it rightly.
LEMMA RecordsKept ==
  ASSUME TypeOK, Numbered, Suspected, Orderly, Recorded, [Next]_vars
  PROVE  Recorded' /\ DOMAIN census' \subseteq withdrawn'
           /\ \A m \in DOMAIN census' : census'[m] \subseteq world'
<1> DEFINE Grounded(m) == InOrder /\ census[m] = {} => Sole(m)
<1>1. Accused \subseteq DOMAIN census /\ \A m \in Accused : Grounded(m)
  BY DEF Recorded, ConvictedAlone, Sole
<1>2. world' = world /\ (InOrder' <=> InOrder) /\ \A m : Sole(m)' <=> Sole(m)
  BY WorldStands DEF Sole, Housed
<1>3. /\ DOMAIN census \subseteq withdrawn
      /\ \A m \in DOMAIN census : census[m] \subseteq world
  BY DEF TypeOK
<1>4. SUFFICES /\ Accused' \subseteq DOMAIN census'
               /\ \A m \in Accused' : InOrder /\ census'[m] = {} => Sole(m)
               /\ DOMAIN census' \subseteq withdrawn'
               /\ \A m \in DOMAIN census' : census'[m] \subseteq world
  BY <1>2 DEF Recorded, ConvictedAlone, Sole
<1>5. CASE Kept
  BY <1>5, <1>1, <1>3 DEF Kept, Accused
<1>6. CASE Named
  BY <1>1, <1>6, NamedRecords
<1>7. CASE Lost
  BY <1>7, <1>1, <1>3 DEF Lost, Abandon, Accused, Live
<1>8. CASE Convicted
  <2>1. PICK ms \in SUBSET Live : Isolated(ms, TRUE) /\ (InOrder => \A m \in ms : Sole(m))
    BY <1>8 DEF Convicted
  <2>2. Accused' \subseteq Accused \union ms
    BY <2>1 DEF Isolated, Accused
  <2>3. /\ withdrawn' = withdrawn \union ms
        /\ census' = [m \in DOMAIN census \union ms |->
                        IF m \in DOMAIN census THEN census[m] ELSE {}]
    BY <2>1 DEF Isolated
  <2>4. /\ DOMAIN census' = DOMAIN census \union ms
        /\ \A m \in DOMAIN census : census'[m] = census[m]
        /\ \A m \in ms : census'[m] = {}
    BY <2>3, IsolatedRecords
  <2> QED
    BY <1>1, <1>3, <2>1, <2>2, <2>3, <2>4
<1>9. CASE GivenUp
  <2>1. PICK ms \in SUBSET Live : Isolated(ms, FALSE)
    BY <1>9 DEF GivenUp
  <2>2. Accused' \subseteq Accused
    BY <2>1 DEF Isolated, Accused
  <2>3. /\ withdrawn' = withdrawn \union ms
        /\ census' = [m \in DOMAIN census \union ms |->
                        IF m \in DOMAIN census THEN census[m] ELSE {}]
    BY <2>1 DEF Isolated
  <2>4. /\ DOMAIN census' = DOMAIN census \union ms
        /\ \A m \in DOMAIN census : census'[m] = census[m]
        /\ \A m \in ms : census'[m] = {}
    BY <2>3, IsolatedRecords
  <2> QED
    BY <1>1, <1>3, <2>1, <2>2, <2>3, <2>4
<1> QED
  BY <1>5, <1>6, <1>7, <1>8, <1>9, Losses

(***************************************************************************)
(* A tree that only compiles whole is only built whole.                    *)
(***************************************************************************)

\* What is spliced causes it, or only a link reports it.
OfSplices(e) == e.needs # {} \/ e.amid # {} \/ e.kind = "link"

\* What no mutant causes and no link reports, the preflight would have met.
LEMMA WideErrorsAreMutants ==
  ASSUME TypeOK, WholeClears, build.select = Packages, NEW t,
         NEW e \in ErrorsIn(t, build.select, build.verb)
  PROVE  OfSplices(e)
<1>1. e \in world /\ Raised(e, t, Packages, build.verb)
  BY DEF ErrorsIn
<1>2. ~Raised(e, Bare, Packages, "check")
  BY <1>1 DEF WholeClears, ErrorsIn
<1>3. e \in Errors
  BY <1>1, RollbackAssumption DEF TypeOK
<1>4. e.kind \in {"lib", "test", "link"}
  BY <1>3 DEF Errors
<1>5. e.kind # "link" => e.kind \in Sees("check")
  BY <1>4 DEF Sees
<1>6. {} \subseteq InPlace(Bare) /\ {} \subseteq Strays(Bare)
  OBVIOUS
<1> QED
  BY <1>1, <1>2, <1>5, <1>6 DEF Raised, OfSplices

\* No build after a preflight that needed the whole workspace is narrower.
LEMMA BuildsStayWide ==
  ASSUME TypeOK, Fresh, Wide, [Next]_vars
  PROVE  whole' => WholeClears' /\ build'.select = Packages
<1> DEFINE Whole == whole => WholeClears /\ build.select = Packages
<1>0. Whole /\ (WholeClears' <=> WholeClears)
  <2>1. world' = world /\ file' = file
    BY WorldStands
  <2>2. \A e : Raised(e, Bare, Packages, "check")' <=> Raised(e, Bare, Packages, "check")
    BY <2>1 DEF Raised, InPlace, Strays, Bare
  <2> QED
    BY <2>1, <2>2 DEF Wide, WholeClears, ErrorsIn
<1>1. CASE Preflight
  <2>1. whole' => whole \/ Clears(Packages)
    BY <1>1 DEF Preflight
  <2>2. Clears(Packages) => WholeClears
    BY <1>1 DEF Preflight, Fresh, Clears, WholeClears
  <2> QED
    BY <1>0, <1>1, <2>1, <2>2 DEF Preflight, Fresh
<1>2. CASE Scan
  BY <1>0, <1>2 DEF Scan, Converge, Scoped
<1>3. CASE Finish
  BY <1>0, <1>3 DEF Finish, Converge, Scoped
<1>4. ASSUME NEW spent, Stuck(spent), UNCHANGED whole
      PROVE  Whole'
  BY <1>0, <1>4 DEF Stuck, StageStuck, Widened, RunStuck, Converge
<1>5. CASE RoundsRunOut
  BY <1>4, <1>5 DEF RoundsRunOut
<1>6. CASE Pristine
  <2>1. CASE Unisolated
    BY <1>4, <1>6, <2>1 DEF Unisolated, Pristine
  <2> QED
    BY <1>0, <1>6, <2>1 DEF Pristine
<1>7. CASE RemoveItem
  <2>1. CASE Unisolated
    BY <1>4, <1>7, <2>1 DEF Unisolated, RemoveItem
  <2> QED
    BY <1>0, <1>7, <2>1 DEF RemoveItem, Isolated
<1>8. CASE RoundPasses
  BY <1>0, <1>8 DEF RoundPasses, StageBuilt, TestsBuilt, RunBuilt, Converge
<1>9. CASE \/ NothingLive \/ SkipProbe \/ Probe \/ RoundTimesOut \/ RoundBlames
           \/ RoundBlamesNobody \/ Halve \/ GiveUpItem \/ Convict \/ SpliceFails \/ UNCHANGED vars
  BY <1>0, <1>9 DEF NothingLive, SkipProbe, Probe, RoundTimesOut, RoundBlames,
                    RoundBlamesNobody, Halve, GiveUpItem, Convict, SpliceFails, Isolated, vars
<1> QED
  BY <1>1, <1>2, <1>3, <1>5, <1>6, <1>7, <1>8, <1>9 DEF Next

\* Only the preflight decides that every build is of the whole workspace.
LEMMA OnlyPreflightWidens ==
  ASSUME TypeOK, [Next]_vars, ~whole, whole'
  PROVE  Preflight
BY DEF Next, vars, Scan, NothingLive, Finish, SkipProbe, Probe, RoundPasses,
       RoundTimesOut, RoundBlames, RoundsRunOut, RoundBlamesNobody, Pristine, Halve,
       RemoveItem, GiveUpItem, Convict, SpliceFails

\* A step keeps a wide tree wide and its accusations to mutants.
LEMMA WideKept ==
  ASSUME TypeOK, Fresh, Numbered, Suspected, Orderly, Recorded, Wide, [Next]_vars
  PROVE  Wide'
<1> DEFINE OfMutants(m) == \A e \in census[m] : OfSplices(e)
<1>1. whole => \A m \in Accused : OfMutants(m)
  BY DEF Wide, WideTreeBlamesMutants, OfSplices
<1>2. whole => WholeClears /\ build.select = Packages
  BY DEF Wide
<1>3. Accused \subseteq DOMAIN census
  BY DEF Recorded
<1>4. SUFFICES ASSUME whole' PROVE \A m \in Accused' : OfMutants(m)'
  BY BuildsStayWide DEF Wide, WideTreeBlamesMutants, OfSplices
<1>5. CASE ~whole
  BY <1>4, <1>5, OnlyPreflightWidens DEF Preflight, Fresh, Accused
<1>6. CASE whole /\ Kept
  BY <1>1, <1>6 DEF Kept, Accused
<1>7. CASE whole /\ Named
  <2>1. PICK t : \A m \in DOMAIN census' \ DOMAIN census :
                   census'[m] \subseteq ErrorsIn(t, build.select, build.verb)
    BY <1>7, NamedRecords
  <2>2. \A e \in ErrorsIn(t, build.select, build.verb) : OfSplices(e)
    BY <1>2, <1>7, WideErrorsAreMutants
  <2>3. /\ \A m \in DOMAIN census : census'[m] = census[m]
        /\ \A m \in Accused' : m \in Accused \/ m \in DOMAIN census'
        /\ \A m \in Accused' : m \notin Accused => m \notin DOMAIN census
    <3>1. \A m \in DOMAIN census : m \in Accused \/ m \in abandoned
      BY DEF TypeOK, Accused
    <3>2. abandoned' = abandoned
      BY <1>7 DEF Named
    <3> QED
      BY <1>7, <3>1, <3>2, NamedRecords DEF Accused
  <2> QED
    BY <1>1, <1>3, <1>7, <2>1, <2>2, <2>3
<1>8. CASE whole /\ Lost
  BY <1>1, <1>8 DEF Lost, Abandon, Accused
<1>9. CASE whole /\ (Convicted \/ GivenUp)
  <2>1. PICK ms \in SUBSET Live : Isolated(ms, TRUE) \/ Isolated(ms, FALSE)
    BY <1>9 DEF Convicted, GivenUp
  <2>2. Accused' \subseteq Accused \union ms
    BY <2>1 DEF Isolated, Accused
  <2>3. census' = [m \in DOMAIN census \union ms |->
                     IF m \in DOMAIN census THEN census[m] ELSE {}]
    BY <2>1 DEF Isolated
  <2>4. /\ \A m \in DOMAIN census : census'[m] = census[m]
        /\ \A m \in ms : census'[m] = {}
    BY <2>3, IsolatedRecords
  <2> QED
    BY <1>1, <1>3, <1>9, <2>2, <2>4
<1> QED
  BY <1>5, <1>6, <1>7, <1>8, <1>9, Losses

(***************************************************************************)
(* What the run comes to.                                                  *)
(***************************************************************************)

\* How a stuck build goes on, or ends the run.
LEMMA StuckGoesOn ==
  ASSUME NEW spent, Stuck(spent)
  PROVE  \/ /\ pc' = "scan" /\ result' = result
            /\ \A m \in Mutants : outcome'[m] # "CompileError" \/ outcome'[m] = outcome[m]
         \/ /\ pc' = "probe" /\ result' = result /\ outcome' = outcome
            /\ build'.verb = "tests" /\ build'.select = Packages /\ rounds' = 0
         \/ pc' = "over" /\ result' = "stuck"
BY DEF Stuck, StageStuck, Widened, RunStuck, Converge, Over

\* No step leads back to the preflight.
LEMMA FreshKept ==
  ASSUME Fresh, [Next]_vars
  PROVE  Fresh'
<1>1. pc' = "preflight" => UNCHANGED vars
  <2>1. CASE RoundsRunOut
    BY <2>1, StuckGoesOn DEF RoundsRunOut
  <2>2. CASE Pristine
    BY <2>2, StuckGoesOn DEF Pristine, Unisolated
  <2>3. CASE RemoveItem
    BY <2>3, StuckGoesOn DEF RemoveItem, Unisolated, Isolated
  <2>4. CASE \/ Preflight \/ Scan \/ NothingLive \/ Finish \/ SkipProbe \/ Probe \/ RoundPasses
             \/ RoundTimesOut \/ RoundBlames \/ RoundBlamesNobody \/ Halve \/ GiveUpItem
             \/ Convict \/ SpliceFails
    BY <2>4 DEF Preflight, Scan, NothingLive, Finish, SkipProbe, Probe, RoundPasses,
                StageBuilt, TestsBuilt, RunBuilt, RoundTimesOut, RoundBlames,
                RoundBlamesNobody, Halve, GiveUpItem, Convict, SpliceFails, Isolated,
                Converge, Over
  <2> QED
    BY <2>1, <2>2, <2>3, <2>4 DEF Next
<1> QED
  BY <1>1 DEF Fresh, vars

\* The actions that end the run, with what it came to.
LEMMA Endings ==
  ASSUME TypeOK, Undecided, Next
  PROVE  /\ result = "running" /\ pc # "over"
         /\ pc' = "over" <=> result' # "running"
         /\ result' = "built" => RoundPasses /\ RunBuilt
         /\ result' = "running" => \A m \in Mutants : outcome'[m] # "CompileError"
<1>0. \A m \in Mutants : outcome[m] # "CompileError" \/ result # "running"
  BY DEF Undecided
<1>1. CASE RoundsRunOut
  <2>1. pc = "round" /\ Stuck(Spent)
    BY <1>1 DEF RoundsRunOut
  <2> QED
    BY <1>0, <2>1, StuckGoesOn DEF Undecided
<1>2. CASE Pristine
  <2>1. CASE Unisolated
    <3>1. pc = "isolate" /\ Stuck(rounds)
      BY <1>2, <2>1 DEF Pristine, Unisolated
    <3> QED
      BY <1>0, <3>1, StuckGoesOn DEF Undecided
  <2> QED
    BY <1>0, <1>2, <2>1 DEF Pristine, Undecided
<1>3. CASE RemoveItem
  <2>1. CASE Unisolated
    <3>1. pc = "narrow" /\ Stuck(rounds)
      BY <1>3, <2>1 DEF RemoveItem, Unisolated
    <3> QED
      BY <1>0, <3>1, StuckGoesOn DEF Undecided
  <2> QED
    BY <1>0, <1>3, <2>1 DEF RemoveItem, Isolated, Undecided
<1>4. CASE RoundPasses
  BY <1>0, <1>4 DEF RoundPasses, StageBuilt, TestsBuilt, RunBuilt, Converge, Over, Undecided
<1>5. CASE \/ Preflight \/ Scan \/ NothingLive \/ Finish
  BY <1>0, <1>5 DEF Preflight, Scan, NothingLive, Finish, Converge, Over, Undecided
<1>6. CASE \/ SkipProbe \/ Probe \/ RoundTimesOut \/ RoundBlames \/ RoundBlamesNobody
           \/ Halve \/ GiveUpItem \/ Convict \/ SpliceFails
  BY <1>0, <1>6 DEF SkipProbe, Probe, RoundTimesOut, RoundBlames, RoundBlamesNobody,
                    Halve, GiveUpItem, Convict, SpliceFails, Isolated, Over, Undecided
<1> QED
  BY <1>1, <1>2, <1>3, <1>4, <1>5, <1>6 DEF Next

\* No step writes a verdict of the compiler's before the run is over.
LEMMA UndecidedKept ==
  ASSUME TypeOK, Undecided, [Next]_vars
  PROVE  Undecided'
BY Endings DEF Undecided, vars

\* Only the run build ends a run as built, and what it built is what is judged.
LEMMA JudgedKept ==
  ASSUME TypeOK, Numbered, Orderly, Undecided, JudgedAsBuilt, [Next]_vars
  PROVE  JudgedAsBuilt'
<1>0. world' = world /\ file' = file /\ (InOrder' <=> InOrder)
  BY WorldStands
<1>1. CASE UNCHANGED vars
  <2>1. /\ ErrorsIn(splices, build.select, "run")' = ErrorsIn(splices, build.select, "run")
        /\ Strays(splices)' = Strays(splices) /\ InPlace(splices)' = InPlace(splices)
    BY <1>1 DEF vars, ErrorsIn, Raised, InPlace, Strays
  <2> QED
    BY <1>0, <1>1, <2>1 DEF vars, JudgedAsBuilt
<1>2. CASE Next
  <2> SUFFICES ASSUME result' = "built"
               PROVE  /\ ErrorsIn(splices, build.select, "run")' = {}
                      /\ InOrder =>
                           /\ Strays(splices)' = {}
                           /\ InPlace(splices)' = planned' \ withdrawn'
                           /\ \A m \in planned' : outcome'[m] = "Pending" => m \in InPlace(splices)'
                           /\ \A m \in InPlace(splices)' : outcome'[m] # "CompileError"
    BY <1>0 DEF JudgedAsBuilt
  <2>1. RoundPasses /\ RunBuilt /\ result = "running"
    BY <1>2, Endings
  <2>2. /\ planned' = planned /\ withdrawn' = withdrawn /\ splices' = Spliced /\ build' = build
        /\ ErrorsIn(Spliced, build.select, "run") = {}
    BY <2>1 DEF RoundPasses, RunBuilt, Met
  <2>3. /\ ErrorsIn(splices, build.select, "run")' = ErrorsIn(Spliced, build.select, "run")
        /\ Strays(splices)' = Strays(Spliced) /\ InPlace(splices)' = InPlace(Spliced)
    BY <1>0, <2>2 DEF ErrorsIn, Raised, InPlace, Strays
  <2>4. InOrder => Strays(Spliced) = {} /\ InPlace(Spliced) = Live
    <3>1. Live \in SUBSET planned
      BY DEF Live
    <3> QED
      BY <3>1, TreesHold, HoldingIsTidy DEF Orderly
  <2>5. planned \subseteq Mutants
    BY DEF TypeOK
  <2>6. ASSUME NEW m \in planned
        PROVE  /\ outcome'[m] = "Pending" => m \in Live
               /\ m \in Live => outcome'[m] # "CompileError"
    <3>1. m \in Mutants /\ outcome[m] # "CompileError" /\ abandoned \subseteq withdrawn
      BY <2>1, <2>5 DEF Undecided, TypeOK
    <3> DEFINE told == Settled(withdrawn, abandoned)[m]
    <3>2. told = IF m \in abandoned THEN "NotBuilt"
                 ELSE IF m \in withdrawn THEN "CompileError" ELSE outcome[m]
      BY <3>1 DEF Settled
    <3>3. outcome'[m] = told \/ (told = "Pending" /\ outcome'[m] = "NotBuilt")
      BY <2>1, <3>1 DEF RunBuilt
    <3> HIDE DEF told
    <3> QED
      BY <3>1, <3>2, <3>3 DEF Live
  <2> QED
    BY <2>2, <2>3, <2>4, <2>6 DEF Live
<1> QED
  BY <1>1, <1>2

(***************************************************************************)
(* The stage a build is of, and the suspects of an isolation.              *)
(***************************************************************************)

\* The stage a stage build is of is one of the stages.
LEMMA StagedKept ==
  ASSUME TypeOK, Staged, [Next]_vars
  PROVE  Staged'
<1>1. CASE UNCHANGED vars
  BY <1>1 DEF Staged, vars
<1>2. CASE Preflight \/ NothingLive \/ RoundTimesOut
  BY <1>2 DEF Preflight, NothingLive, RoundTimesOut, Over, Staged, Building
<1>3. CASE Scan \/ Finish
  BY <1>3 DEF Scan, Finish, Converge, Staged, Building
<1>4. ASSUME NEW spent, Stuck(spent) PROVE Staged'
  BY <1>4, StuckGoesOn DEF Staged, Building
<1>5. CASE RoundsRunOut
  BY <1>4, <1>5 DEF RoundsRunOut
<1>6. CASE Pristine
  BY <1>4, <1>6 DEF Pristine, Unisolated, Staged, Building
<1>7. CASE RemoveItem
  BY <1>4, <1>7 DEF RemoveItem, Unisolated, Isolated, Staged, Building
<1>8. CASE RoundPasses
  BY <1>8 DEF RoundPasses, StageBuilt, TestsBuilt, RunBuilt, Converge, Over, Staged, Building
<1>9. CASE \/ SkipProbe \/ Probe \/ RoundBlames \/ RoundBlamesNobody \/ Halve \/ GiveUpItem
           \/ Convict \/ SpliceFails
  BY <1>9 DEF SkipProbe, Probe, RoundBlames, RoundBlamesNobody, Halve, GiveUpItem, Convict,
              SpliceFails, Over, Isolated, Staged, Building
<1> QED
  BY <1>1, <1>2, <1>3, <1>5, <1>6, <1>7, <1>8, <1>9 DEF Next

\* What a half is made of is under suspicion already.
LEMMA HalvesSuspected ==
  ASSUME Suspected, pc = "narrow"
  PROVE  Left \subseteq Mine /\ Right \subseteq Mine
BY DEF Suspected, Left, Right, MembersOf, LowerHalf

\* Only a failure that is narrowed down casts suspicion.
LEMMA SuspectedKept ==
  ASSUME TypeOK, Suspected, [Next]_vars
  PROVE  Suspected'
<1>1. pc # "narrow" => suspects = {}
  BY DEF Suspected
<1>2. ASSUME UNCHANGED <<planned, withdrawn, build>>
      PROVE  Mine' = Mine
  BY <1>2 DEF Mine, Live
<1>3. CASE UNCHANGED vars
  BY <1>2, <1>3 DEF Suspected, vars
<1>4. CASE \/ Preflight \/ NothingLive \/ RoundTimesOut \/ Scan \/ Finish \/ RoundPasses
           \/ SkipProbe \/ Probe \/ RoundBlames \/ RoundBlamesNobody
  <2>1. suspects' = suspects /\ pc # "narrow"
    BY <1>4 DEF Preflight, NothingLive, RoundTimesOut, Scan, Finish, RoundPasses, SkipProbe,
                Probe, RoundBlames, RoundBlamesNobody
  <2> QED
    BY <1>1, <2>1 DEF Suspected
<1>5. CASE RoundsRunOut
  <2>1. suspects' = suspects /\ pc # "narrow"
    BY <1>5 DEF RoundsRunOut
  <2> QED
    BY <1>1, <2>1 DEF Suspected
<1>6. ASSUME suspects' = {} PROVE Suspected'
  BY <1>6 DEF Suspected
<1>7. CASE \/ GiveUpItem \/ Convict \/ RemoveItem \/ SpliceFails
  BY <1>6, <1>7 DEF GiveUpItem, Convict, RemoveItem, SpliceFails, Unisolated, Isolated
<1>8. CASE Pristine
  <2>1. CASE Unisolated
    BY <1>6, <2>1 DEF Unisolated
  <2>2. CASE suspects' = Mine /\ pc' = "narrow" /\ UNCHANGED <<planned, withdrawn, build>>
    BY <1>2, <2>2 DEF Suspected
  <2> QED
    BY <1>8, <2>1, <2>2 DEF Pristine
<1>9. CASE Halve
  <2>1. /\ pc = "narrow" /\ pc' = "narrow" /\ UNCHANGED <<planned, withdrawn, build>>
        /\ suspects' = Left \/ suspects' = Right
    BY <1>9 DEF Halve
  <2> QED
    BY <1>2, <2>1, HalvesSuspected DEF Suspected
<1> QED
  BY <1>3, <1>4, <1>5, <1>7, <1>8, <1>9 DEF Next

\* In a plan scanned in order, halving keeps a half that fails by itself.
LEMMA NarrowingKept ==
  ASSUME TypeOK, Numbered, Suspected, InOrder, Tidy(splices), Narrowing, [Next]_vars
  PROVE  Narrowing'
<1> DEFINE failing(live) == Fails(Holding(live))
<1>0. world' = world /\ file' = file
  BY WorldStands
<1>1. ASSUME UNCHANGED <<planned, withdrawn, build>>
      PROVE  /\ Live' = Live /\ Mine' = Mine
             /\ \A ms : Without(ms)' = Without(ms) /\ Only(ms)' = Only(ms)
             /\ \A live : failing(live)' <=> failing(live)
  <2>1. Live' = Live /\ Mine' = Mine
    BY <1>1 DEF Live, Mine
  <2>2. \A ms : Without(ms)' = Without(ms) /\ Only(ms)' = Only(ms)
    BY <2>1 DEF Without, Only
  <2>3. \A live : Holding(live)' = Holding(live)
    BY <1>0, <1>1 DEF Holding
  <2>4. \A t : Fails(t)' <=> Fails(t)
    BY <1>0, <1>1 DEF Fails, ErrorsIn, Raised, InPlace, Strays
  <2> QED
    BY <2>1, <2>2, <2>3, <2>4
<1>2. /\ Spliced = Holding(Live) /\ Cleared = Holding(Without(Mine))
      /\ LeftTree = Holding(Only(Left)) /\ RightTree = Holding(Only(Right))
  BY TreesHold
<1>3. ASSUME pc' \notin {"isolate", "narrow"} PROVE Narrowing'
  BY <1>3 DEF Narrowing
<1>4. CASE UNCHANGED vars
  <2>1. /\ suspects' = suspects /\ pc' = pc /\ UNCHANGED <<planned, withdrawn, build>>
    BY <1>4 DEF vars
  <2> QED
    BY <1>1, <2>1 DEF Narrowing
<1>5. CASE Preflight \/ NothingLive \/ RoundTimesOut \/ SpliceFails
  BY <1>3, <1>5 DEF Preflight, NothingLive, RoundTimesOut, SpliceFails, Over
<1>6. CASE Scan \/ Finish
  BY <1>3, <1>6 DEF Scan, Finish, Converge
<1>7. ASSUME NEW spent, Stuck(spent) PROVE Narrowing'
  BY <1>3, <1>7, StuckGoesOn
<1>8. CASE RoundsRunOut
  BY <1>7, <1>8 DEF RoundsRunOut
<1>9. CASE RoundPasses
  BY <1>3, <1>9 DEF RoundPasses, StageBuilt, TestsBuilt, RunBuilt, Converge, Over
<1>10. CASE \/ SkipProbe \/ Probe \/ RoundBlames
  BY <1>3, <1>10 DEF SkipProbe, Probe, RoundBlames
<1>11. CASE RoundBlamesNobody
  <2>1. pc' = "isolate" /\ UNCHANGED <<planned, withdrawn, build>>
    BY <1>11 DEF RoundBlamesNobody
  <2>2. Fails(Spliced)
    BY <1>11 DEF RoundBlamesNobody, Met, Fails
  <2>3. failing(Live)
    BY <1>2, <2>2
  <2> HIDE DEF failing
  <2>4. failing(Live)'
    BY <1>1, <2>1, <2>3
  <2> QED
    BY <2>1, <2>4 DEF Narrowing, failing
<1>12. CASE GiveUpItem \/ Convict
  BY <1>3, <1>12 DEF GiveUpItem, Convict, Isolated
<1>13. CASE RemoveItem
  BY <1>3, <1>7, <1>13 DEF RemoveItem, Unisolated, Isolated
<1>14. CASE Pristine
  <2>1. CASE Unisolated
    BY <1>7, <2>1 DEF Unisolated
  <2>2. CASE ~Fails(Cleared) /\ suspects' = Mine /\ pc' = "narrow"
              /\ UNCHANGED <<planned, withdrawn, build>>
    <3>1. Only(Mine) = Live
      BY DEF Only
    <3>2. failing(Only(Mine)) /\ ~failing(Without(Mine))
      BY <1>2, <1>14, <2>2, <3>1 DEF Pristine, Narrowing
    <3> HIDE DEF failing
    <3>3. failing(Only(suspects))' /\ ~failing(Without(Mine))'
      BY <1>1, <2>2, <3>2
    <3> QED
      BY <2>2, <3>3 DEF Narrowing, failing
  <2> QED
    BY <1>14, <2>1, <2>2 DEF Pristine
<1>15. CASE Halve
  <2>1. /\ pc' = "narrow" /\ UNCHANGED <<planned, withdrawn, build>>
        /\ \/ suspects' = Left /\ Fails(LeftTree)
           \/ suspects' = Right /\ Fails(RightTree)
    BY <1>15 DEF Halve
  <2>2. failing(Only(suspects')) /\ ~failing(Without(Mine))
    BY <1>2, <1>15, <2>1 DEF Narrowing, Halve
  <2> HIDE DEF failing
  <2>3. failing(Only(suspects))' /\ ~failing(Without(Mine))'
    BY <1>1, <2>1, <2>2
  <2> QED
    BY <2>1, <2>3 DEF Narrowing, failing
<1> QED
  BY <1>4, <1>5, <1>6, <1>8, <1>9, <1>10, <1>11, <1>12, <1>13, <1>14, <1>15 DEF Next

(***************************************************************************)
(* Types, and the budget of a build.                                       *)
(***************************************************************************)

\* Selections are of packages, and populations of mutants.
LEMMA SelectionsTyped ==
  /\ Intended \subseteq Packages
  /\ \A i \in DOMAIN Stages : Stages[i] \subseteq Packages /\ i + 1 \in 1 .. Len(Stages) + 1
  /\ \A mutated, admitted : Reaching(mutated, admitted) \subseteq Packages
  /\ \A select : select \subseteq Packages => Scoped(select) \subseteq Packages
  /\ \A ps : Housed(ps) \subseteq Mutants
<1>1. Stages \in Seq(SUBSET Packages)
  BY RollbackAssumption
<1>2. \A i \in DOMAIN Stages : Stages[i] \subseteq Packages
  BY <1>1
<1>3. \A i \in DOMAIN Stages : i + 1 \in 1 .. Len(Stages) + 1
  BY <1>1
<1> QED
  BY <1>2, <1>3 DEF Intended, Reaching, Scoped, Housed

Builds == [verb : {"check", "build", "tests", "run"}, select : SUBSET Packages]

\* A build converged anew starts at the probe, with its budget unspent.
LEMMA ConvergeTyped ==
  ASSUME NEW verb \in {"check", "build", "tests", "run"}, NEW select \in SUBSET Packages,
         Converge(verb, select)
  PROVE  build' \in Builds /\ pc' = "probe" /\ rounds' = 0
BY DEF Converge, Builds

Counters == /\ pc \in {"preflight", "scan", "probe", "round", "isolate", "narrow", "over"}
            /\ stage \in 1 .. Len(Stages) + 1
            /\ build \in Builds

\* A stuck build leaves a stage, a selection or the run behind.
LEMMA StuckTyped ==
  ASSUME Counters, NEW spent, Stuck(spent), Staged, pc \in Building
  PROVE  Counters'
<1>1. CASE StageStuck(spent)
  BY <1>1, SelectionsTyped DEF StageStuck, Counters, Staged
<1>2. CASE Widened
  BY <1>2, ConvergeTyped DEF Widened, Counters
<1>3. CASE RunStuck(spent)
  BY <1>3 DEF RunStuck, Over, Counters
<1> QED
  BY <1>1, <1>2, <1>3 DEF Stuck

\* A step keeps the run at one of its points, and its stage and build typed.
LEMMA CountersKept ==
  ASSUME Counters, Staged, [Next]_vars
  PROVE  Counters'
<1>1. CASE UNCHANGED vars
  BY <1>1 DEF Counters, vars
<1>2. CASE Preflight \/ NothingLive \/ RoundTimesOut
  BY <1>2 DEF Preflight, NothingLive, RoundTimesOut, Over, Counters
<1>3. CASE Scan
  <2>1. CASE UNCHANGED <<pc, build>>
    BY <1>3, <2>1, SelectionsTyped DEF Scan, Converge, Counters
  <2>2. CASE Converge("build", Scoped(Stages[stage])) /\ UNCHANGED stage
    <3>1. Scoped(Stages[stage]) \in SUBSET Packages
      BY <1>3, SelectionsTyped DEF Scan
    <3> QED
      BY <2>2, <3>1, ConvergeTyped DEF Counters
  <2> QED
    BY <1>3, <2>1, <2>2 DEF Scan
<1>4. CASE Finish
  <2>1. Scoped(Reaching({PackageOf[m] : m \in Pending}, oracle)) \in SUBSET Packages
    BY SelectionsTyped
  <2>2. pc' = "probe" /\ build' \in Builds /\ stage' = stage
    BY <1>4, <2>1, ConvergeTyped DEF Finish
  <2> QED
    BY <2>2 DEF Counters
<1>5. CASE RoundsRunOut
  BY <1>5, StuckTyped DEF RoundsRunOut, Building
<1>6. CASE Pristine
  BY <1>6, StuckTyped DEF Pristine, Unisolated, Counters, Building
<1>7. CASE RemoveItem
  BY <1>7, StuckTyped DEF RemoveItem, Unisolated, Isolated, Counters, Building
<1>8. CASE RoundPasses
  <2>1. CASE StageBuilt
    BY <1>8, <2>1, SelectionsTyped DEF RoundPasses, StageBuilt, Counters, Staged, Building
  <2>2. CASE TestsBuilt
    <3>1. build.select \in SUBSET Packages
      BY DEF Counters, Builds
    <3> QED
      BY <2>2, <3>1, ConvergeTyped DEF TestsBuilt, Counters
  <2>3. CASE RunBuilt
    BY <2>3 DEF RunBuilt, Over, Counters
  <2> QED
    BY <1>8, <2>1, <2>2, <2>3 DEF RoundPasses
<1>9. CASE \/ SkipProbe \/ Probe \/ RoundBlames \/ RoundBlamesNobody \/ Halve \/ GiveUpItem
           \/ Convict \/ SpliceFails
  BY <1>9 DEF SkipProbe, Probe, RoundBlames, RoundBlamesNobody, Halve, GiveUpItem, Convict,
              SpliceFails, Over, Isolated, Counters
<1> QED
  BY <1>1, <1>2, <1>3, <1>4, <1>5, <1>6, <1>7, <1>8, <1>9 DEF Next

Flags == /\ whole \in BOOLEAN /\ built \in BOOLEAN /\ late \in BOOLEAN
         /\ result \in {"running", "error", "idle", "built", "stuck"}

\* A step keeps what the run has come to one of the results there are.
LEMMA FlagsKept ==
  ASSUME Flags, [Next]_vars
  PROVE  Flags'
<1>1. ASSUME NEW spent, Stuck(spent) PROVE result' = result \/ result' = "stuck"
  BY <1>1, StuckGoesOn
<1>2. CASE Preflight
  BY <1>2 DEF Preflight, Flags
<1>3. CASE \/ Scan \/ NothingLive \/ Finish \/ SkipProbe \/ Probe \/ UNCHANGED vars
  BY <1>3 DEF Scan, NothingLive, Finish, SkipProbe, Probe, Over, Converge, Flags, vars
<1>4. CASE RoundPasses
  BY <1>4 DEF RoundPasses, StageBuilt, TestsBuilt, RunBuilt, Over, Converge, Flags
<1>5. CASE \/ RoundTimesOut \/ RoundBlames \/ RoundBlamesNobody
  BY <1>5 DEF RoundTimesOut, RoundBlames, RoundBlamesNobody, Over, Flags
<1>6. CASE RoundsRunOut
  BY <1>1, <1>6 DEF RoundsRunOut, Flags
<1>7. CASE Pristine
  BY <1>1, <1>7 DEF Pristine, Unisolated, Flags
<1>8. CASE RemoveItem
  BY <1>1, <1>8 DEF RemoveItem, Unisolated, Isolated, Flags
<1>9. CASE \/ Halve \/ GiveUpItem \/ Convict \/ SpliceFails
  BY <1>9 DEF Halve, GiveUpItem, Convict, SpliceFails, Over, Isolated, Flags
<1> QED
  BY <1>2, <1>3, <1>4, <1>5, <1>6, <1>7, <1>8, <1>9 DEF Next

Outcomes == outcome \in [Mutants -> {"Pending", "NotBuilt", "CompileError"}]

\* A step writes no outcome but the two of the rollback.
LEMMA OutcomesKept ==
  ASSUME Outcomes, [Next]_vars
  PROVE  Outcomes'
<1>1. ASSUME NEW w, NEW a
      PROVE  Settled(w, a) \in [Mutants -> {"Pending", "NotBuilt", "CompileError"}]
  BY DEF Settled, Outcomes
<1>2. ASSUME NEW spent, Stuck(spent) PROVE Outcomes'
  BY <1>1, <1>2 DEF Stuck, StageStuck, Widened, RunStuck, Outcomes
<1>3. CASE RoundPasses
  <2>1. CASE RunBuilt
    <3>1. PICK compiled \in Dependencies :
            outcome' = [m \in Mutants |->
                          IF /\ compiled # {} /\ m \in planned \ compiled
                             /\ Settled(withdrawn, abandoned)[m] = "Pending"
                          THEN "NotBuilt" ELSE Settled(withdrawn, abandoned)[m]]
      BY <2>1 DEF RunBuilt
    <3> QED
      BY <1>1, <3>1 DEF Outcomes
  <2> QED
    BY <1>3, <2>1 DEF RoundPasses, StageBuilt, TestsBuilt, Outcomes
<1>4. CASE RoundsRunOut
  BY <1>2, <1>4 DEF RoundsRunOut
<1>5. CASE Pristine
  BY <1>2, <1>5 DEF Pristine, Unisolated, Outcomes
<1>6. CASE RemoveItem
  BY <1>2, <1>6 DEF RemoveItem, Unisolated, Isolated, Outcomes
<1>7. CASE NothingLive
  BY <1>1, <1>7 DEF NothingLive, Outcomes
<1>8. CASE \/ Preflight \/ Scan \/ Finish \/ SkipProbe \/ Probe \/ RoundTimesOut \/ RoundBlames
           \/ RoundBlamesNobody \/ Halve \/ GiveUpItem \/ Convict \/ SpliceFails
           \/ UNCHANGED vars
  BY <1>8 DEF Preflight, Scan, Finish, SkipProbe, Probe, RoundTimesOut, RoundBlames,
              RoundBlamesNobody, Halve, GiveUpItem, Convict, SpliceFails, Isolated, vars,
              Outcomes
<1> QED
  BY <1>3, <1>4, <1>5, <1>6, <1>7, <1>8 DEF Next

\* The sets a run keeps, but for what has left the tree.
Populations == /\ oracle \subseteq Packages /\ planned \subseteq Mutants
               /\ planned \intersect Idle = {} /\ probed \subseteq planned

\* A step keeps the run's sets of mutants within those it scanned.
LEMMA PopulationsKept ==
  ASSUME Populations, [Next]_vars
  PROVE  Populations' /\ planned \subseteq planned'
<1>1. CASE Preflight
  BY <1>1, SelectionsTyped DEF Preflight, NarrowedOracle, Populations
<1>2. CASE Scan
  <2>1. planned' = planned \union Housed(Stages[stage]) /\ UNCHANGED <<oracle, probed>>
    BY <1>2 DEF Scan
  <2>2. Housed(Stages[stage]) \subseteq Mutants \ Idle
    BY DEF Housed
  <2> QED
    BY <2>1, <2>2 DEF Populations
<1>3. CASE Probe
  BY <1>3 DEF Probe, Offered, Mine, Live, Populations
<1>4. CASE \/ NothingLive \/ Finish \/ SkipProbe \/ RoundPasses \/ RoundTimesOut \/ RoundBlames
           \/ RoundsRunOut \/ RoundBlamesNobody \/ Pristine \/ Halve \/ RemoveItem
           \/ GiveUpItem \/ Convict \/ SpliceFails \/ UNCHANGED vars
  <2>1. UNCHANGED <<oracle, planned, probed>>
    BY <1>4 DEF NothingLive, Finish, SkipProbe, RoundPasses, RoundTimesOut, RoundBlames,
                RoundsRunOut, RoundBlamesNobody, Pristine, Halve, RemoveItem, GiveUpItem,
                Convict, SpliceFails, vars
  <2> QED
    BY <2>1 DEF Populations
<1> QED
  BY <1>1, <1>2, <1>3, <1>4 DEF Next

Trees == [placed : SUBSET (planned \X Nat), withdrawn : SUBSET planned, indexed : SUBSET planned]

\* What a step leaves spliced is what was, or what an instrument of its trees leaves.
LEMMA Splicing ==
  ASSUME [Next]_vars
  PROVE  \/ splices' = splices
         \/ /\ planned' = planned
            /\ \/ splices' \in {Offering, Spliced, Cleared, LeftTree, RightTree}
               \/ \E i : splices' = LessItem(i)
<1>1. CASE \/ Preflight \/ Scan \/ NothingLive \/ Finish \/ SkipProbe \/ Convict \/ SpliceFails
           \/ UNCHANGED vars
  BY <1>1 DEF Preflight, Scan, NothingLive, Finish, SkipProbe, Convict, SpliceFails, vars
<1>2. CASE \/ Probe \/ RoundPasses \/ RoundTimesOut \/ RoundBlames \/ RoundsRunOut
           \/ RoundBlamesNobody \/ Pristine \/ Halve \/ RemoveItem \/ GiveUpItem
  BY <1>2 DEF Probe, RoundPasses, RoundTimesOut, RoundBlames, RoundsRunOut, RoundBlamesNobody,
              Pristine, Halve, RemoveItem, GiveUpItem
<1> QED
  BY <1>1, <1>2 DEF Next

\* A step keeps what is spliced to mutants that were scanned.
LEMMA SplicesKept ==
  ASSUME TypeOK, [Next]_vars
  PROVE  splices' \in Trees'
<1>1. planned \subseteq planned'
  <2>1. CASE Scan
    BY <2>1 DEF Scan
  <2>2. CASE \/ Preflight \/ NothingLive \/ Finish \/ SkipProbe \/ Probe \/ RoundPasses
             \/ RoundTimesOut \/ RoundBlames \/ RoundsRunOut \/ RoundBlamesNobody \/ Pristine
             \/ Halve \/ RemoveItem \/ GiveUpItem \/ Convict \/ SpliceFails \/ UNCHANGED vars
    BY <2>2 DEF Preflight, NothingLive, Finish, SkipProbe, Probe, RoundPasses, RoundTimesOut,
                RoundBlames, RoundsRunOut, RoundBlamesNobody, Pristine, Halve, RemoveItem,
                GiveUpItem, Convict, SpliceFails, vars
  <2> QED
    BY <2>1, <2>2 DEF Next
<1>2. splices \in Trees
  BY DEF TypeOK, Trees
<1>3. \A live \in SUBSET planned : \A t \in Trees : Instrument(t, live) \in Trees
  BY TreesTyped DEF Trees
<1>4. \A ms : Only(ms) \in SUBSET planned /\ Without(ms) \in SUBSET planned
  BY DEF Only, Without, Live
<1>5. Live \in SUBSET planned
  BY DEF Live
<1>6. Offering \in Trees /\ Spliced \in Trees /\ Cleared \in Trees /\ LeftTree \in Trees
  BY <1>2, <1>3, <1>4, <1>5 DEF Offering, Spliced, Cleared, LeftTree
<1>7. RightTree \in Trees
  BY <1>3, <1>4, <1>6 DEF RightTree
<1>8. \A i : LessItem(i) \in Trees
  BY <1>3, <1>4, <1>7 DEF LessItem
<1>9. CASE splices' = splices
  BY <1>1, <1>2, <1>9 DEF Trees
<1>10. CASE splices' \in Trees /\ planned' = planned
  BY <1>10 DEF Trees
<1> QED
  BY <1>6, <1>7, <1>8, <1>9, <1>10, Splicing

\* In a plan scanned in order, what is spliced stays what was known and not withdrawn.
LEMMA TidyKept ==
  ASSUME TypeOK, Numbered, InOrder, Tidy(splices), [Next]_vars
  PROVE  Tidy(splices)'
<1>1. file' = file /\ planned \subseteq planned'
  BY WorldStands, PopulationsKept DEF TypeOK, Numbered, Populations
<1>2. CASE splices' = splices
  BY <1>1, <1>2 DEF Tidy
<1>3. ASSUME planned' = planned, NEW live \in SUBSET planned, splices' = Holding(live)
      PROVE  Tidy(splices)'
  <2>1. Tidy(splices')
    BY <1>3, HoldingIsTidy
  <2> QED
    BY <1>1, <1>3, <2>1 DEF Tidy
<1>4. \A ms : Only(ms) \in SUBSET planned /\ Without(ms) \in SUBSET planned
  BY DEF Only, Without, Live
<1>5. Live \in SUBSET planned
  BY DEF Live
<1>6. Offering = Holding(Only(Offered))
  BY <1>4, InstrumentHolds DEF Offering
<1>7. /\ Spliced = Holding(Live) /\ Cleared = Holding(Without(Mine))
      /\ LeftTree = Holding(Only(Left)) /\ RightTree = Holding(Only(Right))
      /\ \A i : LessItem(i) = Holding(Without(MembersOf({i})))
  BY TreesHold
<1> QED
  BY <1>2, <1>3, <1>4, <1>5, <1>6, <1>7, Splicing

\* Who leaves the tree had been scanned, and who is given up on has left it.
LEMMA LossesTyped ==
  ASSUME TypeOK, Numbered, Suspected, Orderly, [Next]_vars
  PROVE  withdrawn' \subseteq planned' /\ abandoned' \subseteq withdrawn'
<1>1. planned \subseteq planned'
  BY PopulationsKept DEF TypeOK, Numbered, Populations
<1>2. withdrawn \subseteq planned /\ abandoned \subseteq withdrawn
  BY DEF TypeOK
<1>3. CASE Kept
  BY <1>1, <1>2, <1>3 DEF Kept
<1>4. CASE Named
  <2>1. withdrawn \subseteq withdrawn' /\ withdrawn' \subseteq planned /\ abandoned' = abandoned
    BY <1>4, NamedRecords DEF Named
  <2> QED
    BY <1>1, <1>2, <2>1
<1>5. CASE Lost
  BY <1>1, <1>2, <1>5 DEF Lost, Abandon, Live
<1>6. CASE Convicted \/ GivenUp
  <2>1. \E ms \in SUBSET Live : /\ withdrawn' = withdrawn \union ms
                                /\ abandoned' \in {abandoned, abandoned \union ms}
    BY <1>6 DEF Convicted, GivenUp, Isolated
  <2> QED
    BY <1>1, <1>2, <2>1 DEF Live
<1> QED
  BY <1>3, <1>4, <1>5, <1>6, Losses

\* The budget of a build is not exceeded.
LEMMA RoundsKept ==
  ASSUME TypeOK, [Next]_vars
  PROVE  rounds' \in 0 .. limit' /\ Spent \in 0 .. limit /\ Spent <= rounds + 1
<1>1. limit \in Nat \ {0} /\ rounds \in 0 .. limit
  BY RollbackAssumption DEF TypeOK
<1>2. Spent \in 0 .. limit /\ Spent <= rounds + 1
  BY <1>1 DEF Spent
<1>3. 0 \in 0 .. limit /\ limit' = limit
  BY <1>1, WorldStands
<1> DEFINE Counted == rounds' = 0 \/ rounds' = rounds \/ rounds' = Spent
<1> SUFFICES Counted
  BY <1>1, <1>2, <1>3
<1>4. ASSUME NEW spent \in {rounds, Spent}, Stuck(spent)
      PROVE  Counted
  BY <1>4 DEF Stuck, StageStuck, Widened, RunStuck, Converge
<1>5. CASE RoundsRunOut
  BY <1>4, <1>5 DEF RoundsRunOut
<1>6. CASE Pristine \/ RemoveItem
  BY <1>4, <1>6 DEF Pristine, RemoveItem, Unisolated, Isolated
<1>7. CASE RoundPasses
  BY <1>7 DEF RoundPasses, StageBuilt, TestsBuilt, RunBuilt, Converge
<1>8. CASE RoundTimesOut \/ RoundBlames \/ RoundBlamesNobody
  BY <1>8 DEF RoundTimesOut, RoundBlames, RoundBlamesNobody
<1>9. CASE Scan \/ Finish
  BY <1>9 DEF Scan, Finish, Converge
<1>10. CASE \/ Preflight \/ NothingLive \/ SkipProbe \/ Probe \/ Halve \/ GiveUpItem \/ Convict
            \/ SpliceFails \/ UNCHANGED vars
  BY <1>10 DEF Preflight, NothingLive, SkipProbe, Probe, Halve, GiveUpItem, Convict,
               SpliceFails, Isolated, vars
<1> QED
  BY <1>5, <1>6, <1>7, <1>8, <1>9, <1>10 DEF Next

\* Sets of mutants are finite, and larger when something is added.
LEMMA MutantsCount ==
  ASSUME NEW T \in SUBSET Mutants, NEW S \in SUBSET T
  PROVE  /\ Cardinality(S) \in Nat /\ Cardinality(T) \in Nat
         /\ Cardinality(S) <= Cardinality(T) /\ Cardinality(T) <= N
         /\ S # T => Cardinality(S) + 1 <= Cardinality(T)
<1>1. N \in Nat
  BY RollbackAssumption
<1>2. IsFiniteSet(Mutants) /\ Cardinality(Mutants) <= N
  BY <1>1, FS_Interval DEF Mutants
<1>3. IsFiniteSet(T) /\ Cardinality(T) <= Cardinality(Mutants)
  BY <1>2, FS_Subset
<1>4. /\ IsFiniteSet(S) /\ Cardinality(S) <= Cardinality(T)
      /\ Cardinality(T) = Cardinality(S) => S = T
  BY <1>3, FS_Subset
<1>5. Cardinality(S) \in Nat /\ Cardinality(T) \in Nat /\ Cardinality(Mutants) \in Nat
  BY <1>2, <1>3, <1>4, FS_CardinalityType
<1> QED
  BY <1>1, <1>2, <1>3, <1>4, <1>5

\* In a plan scanned in order, every round of a build but its last withdraws somebody.
LEMMA BudgetedKept ==
  ASSUME TypeOK, Numbered, Suspected, Orderly, InOrder, [Next]_vars
  PROVE  Budgeted'
<1> DEFINE taken == Cardinality(withdrawn)
           after == Cardinality(withdrawn')
<1>1. withdrawn \subseteq withdrawn' /\ withdrawn' \subseteq Mutants /\ withdrawn \subseteq Mutants
  <2>1. planned' \subseteq Mutants /\ planned \subseteq Mutants
    BY PopulationsKept DEF TypeOK, Numbered, Populations
  <2> QED
    BY <2>1, LossesTyped, LossesStand DEF TypeOK
<1>2. /\ taken \in Nat /\ after \in Nat /\ taken <= after /\ after <= N /\ N \in Nat
      /\ withdrawn # withdrawn' => taken + 1 <= after
  BY <1>1, MutantsCount, RollbackAssumption
<1>3. /\ rounds \in Nat /\ rounds <= taken + 1 /\ Spent \in Nat /\ Spent <= rounds + 1
      /\ pc = "round" => rounds <= taken
      /\ pc = "probe" => rounds = 0
  <2>1. rounds \in 0 .. limit /\ limit \in Nat
    BY RollbackAssumption DEF TypeOK
  <2>2. Spent \in 0 .. limit /\ Spent <= rounds + 1
    BY RoundsKept
  <2> QED
    BY <2>1, <2>2 DEF Orderly, Budgeted
<1> HIDE DEF taken, after
<1>4. SUFFICES /\ rounds' \in Nat /\ rounds' <= after + 1
               /\ pc' = "round" => rounds' <= after
               /\ pc' = "probe" => rounds' = 0
  BY <1>2 DEF Budgeted, after
<1>5. CASE Preflight \/ SkipProbe \/ Probe
  BY <1>2, <1>3, <1>5 DEF Preflight, SkipProbe, Probe
<1>6. CASE UNCHANGED <<rounds, pc, withdrawn>>
  <2>1. after = taken
    BY <1>6 DEF taken, after
  <2> QED
    BY <1>3, <1>6, <2>1
<1>7. ASSUME UNCHANGED rounds, pc' \notin {"round", "probe"}
      PROVE  /\ rounds' \in Nat /\ rounds' <= after + 1
             /\ pc' # "round" /\ pc' # "probe"
  BY <1>2, <1>3, <1>7
<1>8. ASSUME pc' = "probe", rounds' = 0
      PROVE  rounds' \in Nat /\ rounds' <= after + 1 /\ pc' # "round"
  BY <1>2, <1>8
<1>9. CASE Scan \/ Finish
  BY <1>6, <1>7, <1>8, <1>9 DEF Scan, Finish, Converge
<1>10. CASE NothingLive
  BY <1>7, <1>10 DEF NothingLive, Over
<1>11. ASSUME NEW spent \in {rounds, Spent}, Stuck(spent), pc = "round" \/ spent = rounds
       PROVE  /\ rounds' \in Nat /\ rounds' <= after + 1 /\ pc' # "round"
              /\ pc' = "probe" => rounds' = 0
  <2>1. (pc' \in {"scan", "over"} /\ rounds' = spent) \/ (pc' = "probe" /\ rounds' = 0)
    BY <1>11 DEF Stuck, StageStuck, Widened, RunStuck, Converge, Over
  <2>2. spent \in Nat /\ spent <= taken + 1
    BY <1>2, <1>3, <1>11
  <2> QED
    BY <1>2, <1>8, <2>1, <2>2
<1>12. CASE RoundsRunOut
  BY <1>3, <1>11, <1>12 DEF RoundsRunOut
<1>13. CASE RoundTimesOut \/ RoundBlamesNobody
  BY <1>2, <1>3, <1>13 DEF RoundTimesOut, RoundBlamesNobody, Over
<1>14. CASE RoundPasses
  BY <1>2, <1>3, <1>8, <1>14
  DEF RoundPasses, StageBuilt, TestsBuilt, RunBuilt, Converge, Over
<1>15. CASE RoundBlames
  <2>1. PICK reported \in SUBSET Met :
               Blamed(reported, Spliced) # {} /\ Withdraw(reported, Spliced)
    BY <1>15 DEF RoundBlames
  <2>2. withdrawn # withdrawn'
    <3>1. Guarded(Spliced) = Live
      <4>1. Live \in SUBSET planned
        BY DEF Live
      <4> QED
        BY <4>1, TreesHold, HoldingIsTidy DEF Orderly
    <3> QED
      BY <2>1, <3>1 DEF Withdraw, Blamed, Live
  <2>3. pc = "round" /\ pc' = "round" /\ rounds' = Spent
    BY <1>3, <1>15 DEF RoundBlames
  <2> QED
    BY <1>2, <1>3, <2>2, <2>3
<1>16. ASSUME NEW ms \in SUBSET Live, ms # {}, Isolated(ms, TRUE) \/ Isolated(ms, FALSE)
       PROVE  rounds' \in Nat /\ rounds' <= after /\ rounds' <= after + 1 /\ pc' = "round"
  <2>1. withdrawn' = withdrawn \union ms /\ rounds' = rounds /\ pc' = "round"
    BY <1>16 DEF Isolated
  <2>2. withdrawn # withdrawn'
    BY <1>16, <2>1 DEF Live
  <2> QED
    BY <1>2, <1>3, <2>1, <2>2
<1>17. CASE Pristine
  <2>1. CASE Unisolated
    BY <1>3, <1>11, <2>1 DEF Unisolated
  <2> QED
    BY <1>7, <1>17, <2>1 DEF Pristine
<1>18. CASE Halve
  BY <1>7, <1>18 DEF Halve
<1>19. ASSUME pc = "narrow"
       PROVE  \A m \in suspects : m \in MembersOf({ItemOf[m]}) /\ m \in MembersOf(ItemsOf(suspects))
  BY <1>19 DEF Suspected, MembersOf, ItemsOf
<1>20. \A is : MembersOf(is) \in SUBSET Live
  BY DEF MembersOf, Mine
<1>21. CASE RemoveItem
  <2>1. CASE Unisolated
    BY <1>3, <1>11, <2>1 DEF Unisolated
  <2>2. CASE \E i \in ItemsOf(suspects) : Isolated(MembersOf({i}), FALSE)
    <3>1. PICK m \in suspects : Isolated(MembersOf({ItemOf[m]}), FALSE)
      BY <2>2 DEF ItemsOf
    <3>2. MembersOf({ItemOf[m]}) # {}
      BY <1>19, <1>21 DEF RemoveItem
    <3> QED
      BY <1>16, <1>20, <3>1, <3>2
  <2> QED
    BY <1>21, <2>1, <2>2 DEF RemoveItem
<1>22. suspects # {} \/ Cardinality(suspects) = 0
  BY FS_EmptySet
<1>23. CASE GiveUpItem
  <2>1. /\ pc = "narrow" /\ Cardinality(suspects) > 1
        /\ Isolated(MembersOf(ItemsOf(suspects)), FALSE)
    BY <1>23 DEF GiveUpItem
  <2>2. suspects # {}
    BY <1>22, <2>1
  <2>3. MembersOf(ItemsOf(suspects)) # {}
    BY <1>19, <2>1, <2>2
  <2> QED
    BY <1>16, <1>20, <2>1, <2>3
<1>24. CASE Convict
  <2>1. Cardinality(suspects) = 1 /\ Isolated(suspects, TRUE)
    BY <1>24 DEF Convict
  <2>2. suspects # {} /\ suspects \in SUBSET Live
    BY <1>22, <2>1 DEF TypeOK, Live
  <2> QED
    BY <1>16, <2>1, <2>2
<1>25. CASE UNCHANGED vars
  BY <1>6, <1>25 DEF vars
<1>26. CASE SpliceFails
  BY <1>7, <1>26 DEF SpliceFails, Over
<1> QED
  BY <1>5, <1>9, <1>10, <1>12, <1>13, <1>14, <1>15, <1>17, <1>18, <1>21, <1>23, <1>24, <1>25,
     <1>26
  DEF Next

(***************************************************************************)
(* The theorems.                                                           *)
(***************************************************************************)

\* A step of the invariant keeps the types.
LEMMA TypesKept ==
  ASSUME TypeOK, Staged, Numbered, Suspected, Orderly, Suspected', [Next]_vars,
         DOMAIN census' \subseteq withdrawn' /\ \A m \in DOMAIN census' : census'[m] \subseteq world'
  PROVE  TypeOK' /\ Numbered'
<1>1. world' \in Worlds /\ limit' \in Limits /\ file' \in Filings
  BY WorldStands DEF TypeOK
<1>2. Counters'
  BY CountersKept DEF TypeOK, Counters, Builds
<1>3. Flags'
  BY FlagsKept DEF TypeOK, Flags
<1>4. Outcomes'
  BY OutcomesKept DEF TypeOK, Outcomes
<1>5. Populations'
  BY PopulationsKept DEF TypeOK, Numbered, Populations
<1>6. withdrawn' \subseteq planned' /\ abandoned' \subseteq withdrawn'
  BY LossesTyped
<1>7. rounds' \in 0 .. limit'
  BY RoundsKept
<1>8. splices' \in Trees'
  BY SplicesKept
<1>9. suspects' \subseteq planned' \ withdrawn'
  BY DEF Suspected, Mine, Live
<1>10. Numbered'
  BY <1>5 DEF Numbered, Populations
<1> QED
  BY <1>1, <1>2, <1>3, <1>4, <1>5, <1>6, <1>7, <1>8, <1>9, <1>10
  DEF TypeOK, Counters, Builds, Flags, Outcomes, Populations, Trees

\* A plan scanned in order stays tidy, within its budget and rightly narrowed down.
LEMMA OrderlyKept ==
  ASSUME TypeOK, Numbered, Suspected, Orderly, [Next]_vars
  PROVE  Orderly'
<1> SUFFICES ASSUME InOrder PROVE Tidy(splices)' /\ Budgeted' /\ Narrowing'
  BY WorldStands DEF Orderly
<1>1. Tidy(splices) /\ Narrowing
  BY DEF Orderly
<1> QED
  BY <1>1, TidyKept, BudgetedKept, NarrowingKept

\* The inductive invariant holds of every reachable state.
THEOREM Invariant == Spec => []IInv
<1>1. Init => IInv
  <2> SUFFICES ASSUME Init PROVE IInv
    OBVIOUS
  <2>1. TypeOK
    <3>1. stage \in 1 .. Len(Stages) + 1
      BY RollbackAssumption DEF Init
    <3>2. rounds \in 0 .. limit
      BY RollbackAssumption DEF Init
    <3>3. census = <<>> /\ DOMAIN census = {}
      BY DEF Init
    <3>4. oracle \subseteq Packages
      BY RollbackAssumption DEF Init
    <3> QED
      BY <3>1, <3>2, <3>3, <3>4 DEF Init, TypeOK
  <2>2. Fresh /\ Staged /\ Numbered /\ Suspected /\ Undecided /\ JudgedAsBuilt
    BY DEF Init, Fresh, Bare, Staged, Building, Numbered, Suspected, Undecided, JudgedAsBuilt
  <2>3. Orderly
    <3>1. Budgeted
      BY FS_EmptySet DEF Init, Budgeted
    <3>2. Narrowing
      BY DEF Init, Narrowing
    <3>3. Tidy(splices)
      BY DEF Init, Tidy
    <3> QED
      BY <3>1, <3>2, <3>3 DEF Orderly
  <2>4. Recorded /\ Wide
    BY DEF Init, Recorded, ConvictedAlone, Accused, Wide, WideTreeBlamesMutants
  <2> QED
    BY <2>1, <2>2, <2>3, <2>4 DEF IInv
<1>2. IInv /\ [Next]_vars => IInv'
  <2> SUFFICES ASSUME IInv, [Next]_vars PROVE IInv'
    OBVIOUS
  <2>1. /\ TypeOK /\ Fresh /\ Staged /\ Numbered /\ Suspected /\ Recorded /\ Undecided
        /\ Wide /\ JudgedAsBuilt /\ Orderly
    BY DEF IInv
  <2>2. Fresh' /\ Undecided' /\ JudgedAsBuilt' /\ Staged'
    BY <2>1, FreshKept, UndecidedKept, JudgedKept, StagedKept
  <2>3. Suspected' /\ Orderly' /\ Wide'
    BY <2>1, SuspectedKept, OrderlyKept, WideKept
  <2>4. /\ Recorded' /\ DOMAIN census' \subseteq withdrawn'
        /\ \A m \in DOMAIN census' : census'[m] \subseteq world'
    BY <2>1, RecordsKept
  <2>5. TypeOK' /\ Numbered'
    BY <2>1, <2>3, <2>4, TypesKept
  <2> QED
    BY <2>2, <2>3, <2>4, <2>5 DEF IInv
<1> QED
  BY <1>1, <1>2, PTL DEF Spec

\* The state a run keeps is of its types: no build spends more rounds than its limit, what
\* is withdrawn or spliced was scanned, and every record is of a mutant that was withdrawn.
THEOREM TypeCorrect == Spec => []TypeOK
<1>1. IInv => TypeOK
  BY DEF IInv
<1> QED
  BY <1>1, Invariant, PTL

\* In a plan scanned in order, a mutant no diagnostic named is convicted only on an error
\* that needs it and no other mutant of its package, whatever else the tree holds.
THEOREM ConvictsAlone == Spec => []ConvictedAlone
<1>1. IInv => ConvictedAlone
  BY DEF IInv, Recorded
<1> QED
  BY <1>1, Invariant, PTL

\* The binaries that judge are built without an error; of a plan scanned in the order of
\* its paths, from the mutants left in the run, each in its own file, and from no others.
THEOREM JudgesWhatWasBuilt == Spec => []JudgedAsBuilt
<1>1. IInv => JudgedAsBuilt
  BY DEF IInv
<1> QED
  BY <1>1, Invariant, PTL

\* Once only the whole workspace was shown to compile, no mutant is charged with
\* an error of the unmutated tree, links apart.
THEOREM WideTreesBlameMutants == Spec => []WideTreeBlamesMutants
<1>1. IInv => WideTreeBlamesMutants
  BY DEF IInv, Wide
<1> QED
  BY <1>1, Invariant, PTL

\* A mutant the compiler rejected is never given up on instead, nor put back.
THEOREM AccusationsStand == Spec => AccusedStand
<1>1. IInv /\ [Next]_vars => [Accused \subseteq Accused']_vars
  BY LossesStand DEF IInv
<1> QED
  BY <1>1, Invariant, PTL DEF Spec, AccusedStand

(***************************************************************************)
(* What one error costs.                                                   *)
(***************************************************************************)

\* One error that mutants of its own package cause and no feature hides, in a run
\* nothing cuts short, of a plan scanned in order.
Lone(e) == /\ world = {e} /\ ~late /\ limit > N /\ InOrder
           /\ e.needs # {} /\ e.needs \subseteq Housed({e.in}) /\ e.names \subseteq e.needs
           /\ e.cure = {} /\ e.amid = {}

\* The stages up to the one at hand hold every mutant in the tree, and a build of a
\* stage is of all the mutants of its packages.
Before(k) == {m \in Mutants : \E j \in DOMAIN Stages : j < k /\ m \in Housed(Stages[j])}

Laid ==
  pc # "over" =>
    /\ planned \subseteq IF pc \in Building /\ build.verb = "build" THEN Before(stage + 1)
                                                                    ELSE Before(stage)
    /\ pc \in Building /\ build.verb = "build" =>
         build.select = Scoped(Stages[stage]) /\ Housed(Stages[stage]) \subseteq planned

\* Before an error has cost a mutant, no stage that was built can have raised it ...
Unpaid(e) ==
  /\ withdrawn = {}
  /\ \A j \in DOMAIN Stages : j < stage /\ e.in \in Stages[j] => e.kind = "test"

\* ... and once it has, it has cost those it names or one item, and is gone.
Paid(e) ==
  /\ withdrawn \intersect e.needs # {}
  /\ withdrawn \subseteq e.names \/ Cardinality(ItemsOf(withdrawn)) <= 1

Cheap == \A e \in world : Lone(e) => result # "stuck" /\ (Unpaid(e) \/ Paid(e))

\* The mutants scanned are those of the stages there have been.
LEMMA LaidKept ==
  ASSUME TypeOK, Staged, Laid, [Next]_vars
  PROVE  Laid'
<1>0. /\ stage \in Nat /\ Before(stage) \subseteq Before(stage + 1)
      /\ stage \in DOMAIN Stages => Housed(Stages[stage]) \subseteq Before(stage + 1)
  <2>1. stage \in Nat /\ DOMAIN Stages \subseteq Nat
    BY RollbackAssumption DEF TypeOK
  <2> QED
    BY <2>1 DEF Before, Housed
<1>1. CASE UNCHANGED vars
  BY <1>1 DEF Laid, vars, Scoped, Building
<1>2. CASE Preflight \/ NothingLive \/ RoundTimesOut \/ SpliceFails
  BY <1>2 DEF Preflight, NothingLive, RoundTimesOut, SpliceFails, Over, Laid, Building
<1>3. CASE Scan
  <2>1. CASE stage' = stage + 1 /\ UNCHANGED <<pc, build, rounds>>
    BY <1>0, <1>3, <2>1 DEF Scan, Laid, Building
  <2>2. CASE Converge("build", Scoped(Stages[stage])) /\ UNCHANGED stage
    BY <1>0, <1>3, <2>2 DEF Scan, Converge, Laid, Building, Scoped
  <2> QED
    BY <1>3, <2>1, <2>2 DEF Scan
<1>4. CASE Finish
  BY <1>4 DEF Finish, Converge, Laid, Building
<1>5. ASSUME NEW spent, Stuck(spent), UNCHANGED planned, pc \in Building
      PROVE  Laid'
  <2>1. CASE StageStuck(spent)
    BY <1>0, <1>5, <2>1 DEF StageStuck, Laid, Building
  <2>2. CASE Widened
    BY <1>5, <2>2 DEF Widened, Converge, Laid, Building
  <2>3. CASE RunStuck(spent)
    BY <2>3 DEF RunStuck, Over, Laid
  <2> QED
    BY <1>5, <2>1, <2>2, <2>3 DEF Stuck
<1>6. CASE RoundsRunOut
  BY <1>5, <1>6 DEF RoundsRunOut, Building
<1>7. ASSUME UNCHANGED <<planned, stage, build, whole>>, pc \in Building, pc' \in Building
      PROVE  Laid'
  BY <1>7 DEF Laid, Building, Scoped
<1>8. CASE Pristine
  BY <1>5, <1>7, <1>8 DEF Pristine, Unisolated, Building
<1>9. CASE RemoveItem
  BY <1>5, <1>7, <1>9 DEF RemoveItem, Unisolated, Isolated, Building
<1>10. CASE RoundPasses
  <2>1. CASE StageBuilt
    BY <1>0, <1>10, <2>1 DEF RoundPasses, StageBuilt, Laid, Building
  <2>2. CASE TestsBuilt
    BY <1>10, <2>2 DEF RoundPasses, TestsBuilt, Converge, Laid, Building
  <2>3. CASE RunBuilt
    BY <2>3 DEF RunBuilt, Over, Laid
  <2> QED
    BY <1>10, <2>1, <2>2, <2>3 DEF RoundPasses
<1>11. CASE \/ SkipProbe \/ Probe \/ RoundBlames \/ RoundBlamesNobody \/ Halve \/ GiveUpItem
            \/ Convict
  BY <1>7, <1>11 DEF SkipProbe, Probe, RoundBlames, RoundBlamesNobody, Halve, GiveUpItem,
                     Convict, Isolated, Building
<1> QED
  BY <1>1, <1>2, <1>3, <1>4, <1>6, <1>8, <1>9, <1>10, <1>11 DEF Next

\* What a lone error is, and what a build that fails because of it has in its tree.
LEMMA LoneFacts ==
  ASSUME TypeOK, NEW e \in world, Lone(e)
  PROVE  /\ e.needs \subseteq Mutants /\ e.in \in Packages /\ e.kind \in {"lib", "test", "link"}
         /\ e.cure = {} /\ e.needs # {} /\ e.amid = {}
         /\ \A t : ErrorsIn(t, build.select, build.verb) \subseteq {e}
         /\ \A live \in SUBSET planned :
              Fails(Holding(live)) <=> e.needs \subseteq live /\ Meets(e, build.select, build.verb)
<1>1. e \in Errors /\ world \in Worlds
  BY RollbackAssumption DEF TypeOK
<1>2. e.cure = {} /\ e.needs # {} /\ e.amid = {}
  BY DEF Lone
<1>3. \A t : ErrorsIn(t, build.select, build.verb) \subseteq {e}
  BY DEF ErrorsIn, Lone
<1>4. ASSUME NEW live \in SUBSET planned
      PROVE  Fails(Holding(live)) <=> e.needs \subseteq live /\ Meets(e, build.select, build.verb)
  <2>1. Fails(Holding(live)) <=> Raised(e, Holding(live), build.select, build.verb)
    BY DEF Fails, ErrorsIn, Lone
  <2> QED
    BY <2>1, HoldingRaises
<1> QED
  BY <1>1, <1>2, <1>3, <1>4 DEF Errors

\* A build that fails because of it is a build of its own package.
LEMMA HomeIsBuilt ==
  ASSUME TypeOK, Staged, Laid, NEW e \in world, Lone(e), Unpaid(e),
         pc \in Building, NEW live \in SUBSET Live, Fails(Holding(live))
  PROVE  e.needs \subseteq Mine
<1>1. e.needs \subseteq live /\ live \subseteq Live /\ Meets(e, build.select, build.verb)
  <2>1. live \in SUBSET planned
    BY DEF Live
  <2> QED
    BY <2>1, LoneFacts
<1>2. e.in \in build.select
  <2>1. CASE e.kind = "test"
    BY <1>1, <2>1 DEF Meets
  <2>2. CASE e.kind # "test"
    <3>1. PICK m \in e.needs : m \in planned
      BY <1>1, LoneFacts DEF Live
    <3>2. m \in Mutants /\ PackageOf[m] = e.in
      BY <3>1, LoneFacts DEF Lone, Housed
    <3>3. PICK j \in DOMAIN Stages :
                 /\ m \in Housed(Stages[j])
                 /\ j < stage \/ (j = stage /\ pc \in Building /\ build.verb = "build")
      <4>1. stage \in Nat /\ DOMAIN Stages \subseteq Nat
        BY RollbackAssumption DEF TypeOK
      <4> QED
        BY <3>1, <4>1 DEF Laid, Building, Before
    <3>4. e.in \in Stages[j]
      BY <3>2, <3>3 DEF Housed
    <3>5. j = stage /\ build.verb = "build"
      BY <2>2, <3>3, <3>4 DEF Unpaid
    <3>6. build.select = Scoped(Stages[stage])
      BY <3>5 DEF Laid, Building
    <3> QED
      BY <3>4, <3>5, <3>6, LoneFacts DEF Scoped
  <2> QED
    BY <2>1, <2>2
<1> QED
  BY <1>1, <1>2, LoneFacts DEF Mine, Housed, Lone

\* A build that was stopped is not forgotten.
LEMMA LateStays ==
  ASSUME [Next]_vars, late
  PROVE  late'
BY DEF Next, vars, Preflight, Scan, NothingLive, Finish, SkipProbe, Probe, RoundPasses,
       RoundTimesOut, RoundBlames, RoundsRunOut, RoundBlamesNobody, Pristine, Halve,
       RemoveItem, GiveUpItem, Convict, SpliceFails

\* A set within one of a single item is of at most one.
LEMMA OneItem ==
  ASSUME NEW i, NEW S \in SUBSET {i}
  PROVE  Cardinality(S) <= 1
<1>1. IsFiniteSet({i}) /\ Cardinality({i}) = 1
  BY FS_Singleton
<1> QED
  BY <1>1, FS_Subset

\* An error whose mutants have left the tree never costs another.
LEMMA PaidKept ==
  ASSUME TypeOK, Numbered, Suspected, Orderly, NEW e \in world, Lone(e), Paid(e),
         result # "stuck", [Next]_vars
  PROVE  Paid(e)' /\ result' # "stuck"
<1>0. InOrder /\ Tidy(splices) /\ Narrowing
  BY DEF Lone, Orderly
<1>1. ASSUME NEW live \in SUBSET Live
      PROVE  ~Fails(Holding(live)) /\ ErrorsIn(Holding(live), build.select, build.verb) = {}
  <2>1. ~(e.needs \subseteq live)
    BY DEF Paid, Live
  <2>2. live \in SUBSET planned
    BY DEF Live
  <2> QED
    BY <2>1, <2>2, LoneFacts DEF Fails
<1>2. Met = {} /\ pc \notin {"isolate", "narrow"}
  <2>1. Only(suspects) \in SUBSET Live /\ Spliced = Holding(Live)
    BY <1>0, TreesHold DEF Only
  <2> QED
    BY <1>0, <1>1, <2>1 DEF Met, Narrowing
<1>3. withdrawn' = withdrawn /\ result' # "stuck"
  <2>1. CASE Probe
    <3>1. Only(Offered) \in SUBSET Live
      BY DEF Only
    <3>2. ErrorsIn(Offering, build.select, build.verb) = {}
      BY <1>0, <1>1, <3>1, TreesHold DEF Offering
    <3>3. Withdraw({}, Offering) /\ result' = result
      BY <2>1, <3>2 DEF Probe
    <3> QED
      BY <3>3 DEF Withdraw, Blamed
  <2>2. ~RoundBlames /\ ~RoundsRunOut
    BY <1>2 DEF RoundBlames, RoundsRunOut, Blamed
  <2>3. ~Pristine /\ ~Halve /\ ~RemoveItem /\ ~GiveUpItem /\ ~Convict
    BY <1>2 DEF Pristine, Halve, RemoveItem, GiveUpItem, Convict
  <2>4. CASE \/ Preflight \/ Scan \/ NothingLive \/ Finish \/ SkipProbe \/ RoundPasses
             \/ RoundTimesOut \/ RoundBlamesNobody \/ SpliceFails \/ UNCHANGED vars
    BY <2>4 DEF Preflight, Scan, NothingLive, Finish, SkipProbe, RoundPasses, StageBuilt,
                TestsBuilt, RunBuilt, RoundTimesOut, RoundBlamesNobody, SpliceFails, Over, vars
  <2> QED
    BY <2>1, <2>2, <2>3, <2>4 DEF Next
<1> QED
  BY <1>3 DEF Paid

\* The first thing an error costs is what it names, or one item.
LEMMA UnpaidKept ==
  ASSUME TypeOK, Staged, Numbered, Suspected, Orderly, Laid,
         NEW e \in world, Lone(e), Unpaid(e), result # "stuck", [Next]_vars, ~late'
  PROVE  result' # "stuck" /\ (Unpaid(e)' \/ Paid(e)')
<1>0. withdrawn = {} /\ InOrder /\ Tidy(splices) /\ Budgeted /\ Narrowing
  BY DEF Unpaid, Lone, Orderly
<1>0a. /\ Spliced = Holding(Live) /\ Cleared = Holding(Without(Mine))
       /\ \A i : LessItem(i) = Holding(Without(MembersOf({i})))
  BY <1>0, TreesHold
<1>0b. /\ Live \in SUBSET planned
       /\ \A ms : Only(ms) \in SUBSET planned /\ Without(ms) \in SUBSET planned
  BY DEF Live, Only, Without
<1>1. ASSUME UNCHANGED <<withdrawn, stage>>, result' # "stuck"
      PROVE  result' # "stuck" /\ Unpaid(e)'
  BY <1>1 DEF Unpaid
<1>2. CASE \/ Preflight \/ NothingLive \/ Finish \/ SkipProbe \/ RoundTimesOut
           \/ RoundBlamesNobody \/ Halve \/ SpliceFails \/ UNCHANGED vars
  BY <1>1, <1>2 DEF Preflight, NothingLive, Finish, SkipProbe, RoundTimesOut,
                    RoundBlamesNobody, Halve, SpliceFails, Over, Converge, vars
<1>3. ASSUME stage \in DOMAIN Stages, e.in \in Stages[stage] => e.kind = "test",
             UNCHANGED withdrawn, stage' = stage + 1
      PROVE  Unpaid(e)'
  <2>1. DOMAIN Stages \subseteq Nat /\ stage \in Nat
    BY RollbackAssumption DEF TypeOK
  <2>2. \A j \in DOMAIN Stages : j < stage + 1 => j < stage \/ j = stage
    BY <2>1
  <2> QED
    BY <1>3, <2>2 DEF Unpaid
<1>4. CASE Scan
  <2>1. CASE Housed(Stages[stage]) = {}
    <3>1. e.in \notin Stages[stage]
      BY <2>1, LoneFacts DEF Lone, Housed
    <3> QED
      BY <1>3, <1>4, <2>1, <3>1 DEF Scan
  <2> QED
    BY <1>1, <1>4, <2>1 DEF Scan
<1>5. ASSUME NEW t, NEW reported \in SUBSET ErrorsIn(t, build.select, build.verb),
             Withdraw(reported, t), UNCHANGED <<stage, result>>
      PROVE  result' # "stuck" /\ (Unpaid(e)' \/ Paid(e)')
  <2>1. withdrawn' \subseteq e.names
    BY <1>0, <1>5, LoneFacts DEF Withdraw, Blamed
  <2>2. CASE withdrawn' = {}
    BY <1>0, <1>1, <1>5, <2>2
  <2>3. CASE withdrawn' # {}
    BY <1>5, <2>1, <2>3 DEF Paid, Lone
  <2> QED
    BY <2>2, <2>3
<1>6. CASE Probe
  BY <1>5, <1>6 DEF Probe
<1>7. CASE RoundBlames
  BY <1>5, <1>7 DEF RoundBlames, Met
<1>8. CASE RoundPasses
  <2>1. CASE StageBuilt
    <3>1. stage \in DOMAIN Stages /\ build.select = Scoped(Stages[stage])
            /\ Housed(Stages[stage]) \subseteq Live
      BY <1>0, <1>8, <2>1 DEF RoundPasses, StageBuilt, Staged, Laid, Building, Live
    <3>2. ~Fails(Holding(Live)) /\ build.verb = "build"
      BY <1>0a, <1>8, <2>1 DEF RoundPasses, StageBuilt, Met, Fails
    <3>3. ASSUME e.in \in Stages[stage], e.kind # "test"
          PROVE  FALSE
      <4>1. e.needs \subseteq Live
        BY <3>1, <3>3 DEF Lone, Housed
      <4>2. e.in \in build.select
        BY <3>1, <3>3, LoneFacts DEF Scoped
      <4>3. e.in \in UNION {Reach[q] : q \in build.select}
        BY <4>2, LoneFacts, RollbackAssumption
      <4>4. e.kind \in Sees("build") /\ e.cure = {}
        BY <3>3, LoneFacts DEF Sees
      <4> QED
        <5>1. Meets(e, build.select, build.verb)
          BY <3>2, <3>3, <4>3, <4>4, LoneFacts DEF Meets
        <5> QED
          BY <1>0b, <3>2, <4>1, <5>1, LoneFacts
    <3> QED
      BY <1>3, <1>8, <2>1, <3>1, <3>3 DEF RoundPasses, StageBuilt
  <2> QED
    BY <1>1, <1>8, <2>1 DEF RoundPasses, TestsBuilt, RunBuilt, Converge, Over
<1>9. ~RoundsRunOut
  <2>1. PICK m \in e.needs : m \in 1 .. N
    BY LoneFacts DEF Mutants
  <2>2. N \in Nat /\ N >= 1 /\ limit \in Nat /\ limit > 1
    BY <2>1, RollbackAssumption DEF TypeOK, Lone
  <2>3. pc = "round" => rounds = 0
    BY <1>0, FS_EmptySet DEF Budgeted, TypeOK
  <2>4. pc = "round" => Spent = 1
    BY <2>2, <2>3 DEF Spent
  <2> QED
    BY <2>2, <2>4 DEF RoundsRunOut
<1>10. ASSUME NEW ms \in SUBSET Live, ms \intersect e.needs # {},
              Cardinality(ItemsOf(ms)) <= 1, Isolated(ms, TRUE) \/ Isolated(ms, FALSE)
       PROVE  result' # "stuck" /\ Paid(e)'
  <2>1. withdrawn' = ms /\ result' = result
    BY <1>0, <1>10 DEF Isolated
  <2> QED
    BY <1>10, <2>1 DEF Paid, ItemsOf
<1>11. ASSUME NEW ms, e.needs \subseteq Mine, e.needs \intersect ms \intersect Mine # {}
       PROVE  ~Fails(Holding(Without(ms)))
  <2>1. ~(e.needs \subseteq Without(ms))
    BY <1>11 DEF Without
  <2> QED
    BY <1>0b, <2>1, LoneFacts
<1>12. CASE Pristine
  <2>1. e.needs \subseteq Mine /\ Mine # {} /\ ~Fails(Cleared)
    <3>1. Live \in SUBSET Live /\ Fails(Holding(Live)) /\ pc \in Building
      BY <1>0, <1>12 DEF Pristine, Narrowing, Building
    <3>2. e.needs \subseteq Mine
      BY <3>1, HomeIsBuilt
    <3> QED
      BY <1>0a, <1>11, <3>2, LoneFacts
  <2> QED
    BY <1>1, <1>12, <2>1 DEF Pristine
<1>13. pc = "narrow" => e.needs \subseteq suspects /\ e.needs \subseteq Mine
  <2> SUFFICES ASSUME pc = "narrow" PROVE e.needs \subseteq suspects /\ e.needs \subseteq Mine
    OBVIOUS
  <2>1. Only(suspects) \in SUBSET Live /\ Fails(Holding(Only(suspects))) /\ pc \in Building
    BY <1>0 DEF Only, Narrowing, Building
  <2>2. e.needs \subseteq Mine /\ e.needs \subseteq Only(suspects)
    BY <1>0b, <2>1, HomeIsBuilt, LoneFacts
  <2> QED
    BY <2>2 DEF Only
<1>14. \A is : MembersOf(is) \in SUBSET Live /\ ItemsOf(MembersOf(is)) \subseteq is
  BY DEF MembersOf, Mine, ItemsOf
<1>15. CASE RemoveItem
  <2>0. pc = "narrow"
    BY <1>15 DEF RemoveItem
  <2>1. PICK m \in e.needs : m \in suspects /\ m \in Mine
    BY <1>13, <2>0, LoneFacts
  <2>2. ItemOf[m] \in ItemsOf(suspects) /\ ~Fails(LessItem(ItemOf[m]))
    <3>1. e.needs \intersect MembersOf({ItemOf[m]}) \intersect Mine # {}
      BY <2>1 DEF MembersOf
    <3> QED
      BY <1>0a, <1>11, <1>13, <2>0, <2>1, <3>1 DEF ItemsOf
  <2>3. PICK i \in ItemsOf(suspects) :
               ~Fails(LessItem(i)) /\ Isolated(MembersOf({i}), FALSE)
    BY <1>15, <2>2 DEF RemoveItem
  <2>4. MembersOf({i}) \intersect e.needs # {}
    <3>1. PICK x \in e.needs : x \in MembersOf({i})
      <4>1. CASE MembersOf({i}) \intersect e.needs = {}
        <5>1. e.needs \subseteq Live
          BY <1>13, <2>0 DEF Mine
        <5>2. Meets(e, build.select, build.verb)
          BY <1>0, <1>0b, <2>0, LoneFacts DEF Narrowing
        <5>3. e.needs \subseteq Without(MembersOf({i}))
          BY <4>1, <5>1 DEF Without
        <5> QED
          BY <1>0a, <1>0b, <2>3, <5>2, <5>3, LoneFacts
      <4> QED
        BY <4>1
    <3> QED
      BY <3>1
  <2>5. Cardinality(ItemsOf(MembersOf({i}))) <= 1
    BY <1>14, OneItem
  <2> QED
    BY <1>10, <1>14, <2>3, <2>4, <2>5
<1>16. IsFiniteSet(suspects)
  <2>1. suspects \in SUBSET (1 .. N)
    BY DEF TypeOK, Mutants
  <2>2. IsFiniteSet(1 .. N)
    BY RollbackAssumption, FS_Interval
  <2> QED
    BY <2>1, <2>2, FS_Subset
<1>17. CASE GiveUpItem
  <2> DEFINE ms == MembersOf(ItemsOf(suspects))
  <2>1. pc = "narrow" /\ Cardinality(ItemsOf(suspects)) = 1 /\ Isolated(ms, FALSE)
    BY <1>17 DEF GiveUpItem
  <2>2. ItemsOf(ms) = ItemsOf(suspects)
    BY <2>1 DEF MembersOf, ItemsOf, Suspected
  <2>3. ms \intersect e.needs # {} /\ ms \in SUBSET Live
    BY <1>13, <1>14, <2>1, LoneFacts DEF MembersOf, ItemsOf
  <2>4. Cardinality(ItemsOf(ms)) <= 1
    BY <2>1, <2>2
  <2> HIDE DEF ms
  <2> QED
    BY <1>10, <2>1, <2>3, <2>4
<1>18. CASE Convict
  <2>1. pc = "narrow" /\ Cardinality(suspects) = 1 /\ Isolated(suspects, TRUE)
    BY <1>18 DEF Convict
  <2>2. PICK m : suspects = {m}
    BY <1>16, <2>1, FS_Singleton
  <2>3. Cardinality(ItemsOf(suspects)) <= 1
    BY <2>2, OneItem DEF ItemsOf
  <2>4. suspects \in SUBSET Live /\ suspects \intersect e.needs # {}
    BY <1>13, <2>1, LoneFacts DEF TypeOK, Live
  <2> QED
    BY <1>10, <2>1, <2>3, <2>4
<1> QED
  BY <1>2, <1>4, <1>6, <1>7, <1>8, <1>9, <1>12, <1>15, <1>17, <1>18 DEF Next

\* So it stays, whatever the run does next.
LEMMA CheapKept ==
  ASSUME IInv, Laid, Cheap, [Next]_vars
  PROVE  Cheap'
<1> SUFFICES ASSUME NEW e \in world', Lone(e)'
             PROVE  (result # "stuck" /\ (Unpaid(e) \/ Paid(e)))'
  BY DEF Cheap
<1>1. e \in world /\ world' = world /\ limit' = limit /\ ~late /\ ~late' /\ (InOrder' <=> InOrder)
  BY WorldStands, LateStays DEF Lone
<1>2. Lone(e)
  BY <1>1 DEF Lone, Housed
<1> QED
  BY <1>1, <1>2, PaidKept, UnpaidKept DEF IInv, Cheap

\* One error that mutants of its own package cause costs those it names or one item,
\* for every workspace and every order of its stages.  No feature may hide it: the
\* build of another stage would then fail where no mutant of its own is to blame.
THEOREM OneErrorIsCheap == Spec => []OneErrorCostsOneItem
<1>1. Init => Laid /\ Cheap
  <2> SUFFICES ASSUME Init PROVE Laid /\ Cheap
    OBVIOUS
  <2>1. Laid
    BY DEF Init, Laid, Building
  <2>2. \A j \in DOMAIN Stages : ~(j < 1)
    BY RollbackAssumption
  <2> QED
    BY <2>1, <2>2 DEF Init, Cheap, Unpaid
<1>2. IInv /\ Laid /\ Cheap /\ [Next]_vars => Laid' /\ Cheap'
  BY LaidKept, CheapKept DEF IInv
<1>3. Cheap => OneErrorCostsOneItem
  <2> SUFFICES ASSUME Cheap, NEW e \in world, Lone(e)
               PROVE  /\ result # "stuck"
                      /\ withdrawn \subseteq e.names \/ Cardinality(ItemsOf(withdrawn)) <= 1
    BY DEF OneErrorCostsOneItem, Lone
  <2> QED
    BY DEF Cheap, Unpaid, Paid
<1> QED
  BY <1>1, <1>2, <1>3, Invariant, PTL DEF Spec
=============================================================================
