------------------------------ MODULE Rollback -------------------------------
(***************************************************************************)
(* The rollback loop: every mutant is spliced into one tree, and the tree  *)
(* is built until it compiles, stage by stage and then as a whole          *)
(* (crates/cargo-gamma-lib/src/exec/build.rs, and the calls of it in       *)
(* exec/measure.rs).                                                       *)
(*                                                                         *)
(* What rustc and cargo say is a set of errors, each raised by every build *)
(* that has all the mutants the error needs, the package it is in and the  *)
(* target it is in, and lacks every package whose features would cure it.  *)
(* A failed build reports some of the errors it met, since one error may   *)
(* mask another, and may be stopped by its timeout instead.                *)
(*                                                                         *)
(* A package selection of None is the set of all packages.  A cargo run is *)
(* one step.                                                               *)
(*                                                                         *)
(* What is spliced into the tree is kept up file by file (exec/build/      *)
(* splices.rs).  The mutants of a file are found by their positions in the *)
(* plan, which are noted once, when a mutant is scanned; the plan is put   *)
(* in report order after the stages, and the positions are not noted       *)
(* again.                                                                  *)
(***************************************************************************)
EXTENDS Integers, Sequences, FiniteSets

CONSTANTS
  Packages,    \* the members of the workspace
  Reach,       \* the members each one is built with: itself and what it uses
  Stages,      \* discover::stages: the mutated packages, dependencies first
  Oracles,     \* the packages whose tests may judge; all of them if unrestricted
  N,           \* the mutants of the plan are 1 .. N, in the order they are scanned
  Idle,        \* those without an ordinal: suppressed, or settled by an earlier run
  Filings,     \* the file of each, numbered in path order, as it may be
  PackageOf,   \* the package of each mutant
  ItemOf,      \* the item each mutant is in, numbered in item_path order
  Hinted,      \* the mutants an earlier run's record says do not compile
  PROBE_FLOOR, \* how many hinted mutants make a probe worth a build
  Limits,      \* the values of --rollback-rounds considered
  Worlds,      \* the errors the code can hold, in each of the worlds considered
  Dependencies \* the mutants whose file some compilation may turn out to have read

Mutants == 1 .. N
Errors  == [needs : SUBSET Mutants,                \* only when these are all live
            amid  : SUBSET (Mutants \X Nat),       \* only amid these, out of place
            names : SUBSET Mutants,                \* whose guards its spans lie in
            in    : Packages,
            kind  : {"lib", "test", "link"},       \* which targets, which commands
            cure  : SUBSET Packages]               \* not when one of these is built too

ASSUME RollbackAssumption ==
  /\ IsFiniteSet(Packages)
  /\ Reach \in [Packages -> SUBSET Packages]
  /\ \A p \in Packages : p \in Reach[p]
  /\ Stages \in Seq(SUBSET Packages)
  /\ Oracles \subseteq (SUBSET Packages) \ {{}}
  /\ N \in Nat /\ Idle \subseteq Mutants
  /\ Filings \subseteq [Mutants -> Nat \ {0}]
  /\ PackageOf \in [Mutants -> Packages]
  /\ ItemOf \in [Mutants -> Nat]
  /\ Hinted \subseteq Mutants
  /\ PROBE_FLOOR \in Nat \ {0}
  /\ Limits \subseteq Nat \ {0}
  /\ Worlds \subseteq SUBSET Errors
  /\ Dependencies \subseteq SUBSET Mutants

VARIABLES
  world,     \* the errors of this code
  limit,     \* its --rollback-rounds
  file,      \* the file of each of its mutants
  pc,        \* where the run is
  stage,     \* the stage being converged
  build,     \* the cargo command being converged: its verb and its packages
  oracle,    \* the packages whose tests may judge
  whole,     \* whole_workspace: every build must be of the whole workspace
  planned,   \* the mutants scanned so far
  outcome,   \* the outcome written on each mutant
  withdrawn, \* the mutants taken out of the tree for the rest of the run
  abandoned, \* those of them given up on rather than blamed
  probed,    \* the mutants already put through a probe
  census,    \* for each mutant recorded, the errors whose code may be recorded for it
  rounds,    \* the rounds this build has spent
  suspects,  \* while a failure is isolated: the mutants left under suspicion
  built,     \* anything_live: some stage was made to compile
  splices,   \* the last instrument: what it left spliced into which file, and the
             \* withdrawals and the mutants it knew of
  late,      \* some build was stopped by its timeout
  result     \* what the run has come to

vars == <<world, limit, file, pc, stage, build, oracle, whole, planned, outcome, withdrawn,
          abandoned, probed, census, rounds, suspects, built, splices, late, result>>

----------------------------------------------------------------------------
\* Cargo and rustc.

\* Linking is what `check` never reaches; a stage builds no test target.
Sees(verb) == CASE verb = "check" -> {"lib", "test"}
                [] verb = "build" -> {"lib", "link"}
                [] OTHER          -> {"lib", "test", "link"}

\* The mutants that are where they belong, those with a guard somewhere, and what is
\* spliced where it does not belong.
Strays(s)  == {x \in s.placed : x[2] # file[x[1]]}
InPlace(s) == {x[1] : x \in {y \in s.placed : y[2] = file[y[1]]}}
Guarded(s) == {x[1] : x \in s.placed}

Raised(e, s, select, verb) ==
  /\ e.needs \subseteq InPlace(s) /\ e.amid \subseteq Strays(s)
  /\ e.kind \in Sees(verb)
  /\ e.in \in IF e.kind = "test" THEN select ELSE UNION {Reach[p] : p \in select}
  /\ e.cure \intersect select = {}

ErrorsIn(s, select, verb) == {e \in world : Raised(e, s, select, verb)}

\* Only a mutant with a guard can have a diagnostic land in it.
Blamed(reported, s) == (UNION {e.names : e \in reported}) \intersect Guarded(s)

----------------------------------------------------------------------------
\* The populations a build is about.

Housed(ps) == {m \in Mutants \ Idle : PackageOf[m] \in ps}
Live       == planned \ withdrawn
Mine       == Live \intersect Housed(build.select)

\* The packages whose targets are built to judge mutants of the packages `mutated`.
Reaching(mutated, admitted) ==
  {p \in Packages : IF p \in admitted THEN Reach[p] \intersect mutated # {} ELSE p \in mutated}

\* As it would be were a build free to narrow whatever the preflight needed.
Unscoped(select) == select

Scoped(select) == IF whole THEN Packages ELSE select

Intended == UNION {Stages[i] : i \in DOMAIN Stages}

----------------------------------------------------------------------------
\* The splices (Splices::instrument).

\* plan.sort() comes between the stages and the build that decides the run.
Sorted    == build.verb \in {"tests", "run"}
Ahead(k, m) == file[k] < file[m] \/ (file[k] = file[m] /\ k < m)
Position(m) == IF Sorted THEN Cardinality({k \in Mutants : Ahead(k, m)}) + 1 ELSE m

\* The file whose list has the position a mutant is at; none has an idle mutant's.
Home(m) == IF Position(m) \in Idle THEN 0 ELSE file[Position(m)]

\* As it would be were nobody ever put back into the tree.
DirtyForward(s, gone) == {file[m] : m \in (planned \ s.indexed) \union (gone \ s.withdrawn)}

\* refresh_index: the files of what was scanned or withdrawn since, all if any is back.
Dirty(s, gone) ==
  {file[m] : m \in IF s.withdrawn \subseteq gone
                    THEN (planned \ s.indexed) \union (gone \ s.withdrawn)
                    ELSE Mutants}

\* A dirty file gets the live mutants of its list, every other file is left alone.
Instrument(s, live) ==
  LET spliced(dirty) == {x \in s.placed : x[2] \notin dirty}
                          \union {<<m, Home(m)>> : m \in {l \in live : Home(l) \in dirty}}
  IN [placed    |-> UNION {spliced(dirty) : dirty \in {Dirty(s, planned \ live)}},
      withdrawn |-> planned \ live,
      indexed   |-> planned]

\* Splicing can fail only over a mutant of another file: where two edits overlap, or
\* the mutant does not fit and has no guard elsewhere.
Astray(s, live) ==
  \E m \in live : Home(m) # file[m] /\ Home(m) \in Dirty(s, planned \ live)

----------------------------------------------------------------------------
Init ==
  /\ world \in Worlds /\ limit \in Limits /\ file \in Filings
  /\ pc = "preflight" /\ stage = 1
  /\ build = [verb |-> "check", select |-> Packages]
  /\ oracle \in Oracles /\ whole = FALSE
  /\ planned = {} /\ outcome = [m \in Mutants |-> "Pending"]
  /\ withdrawn = {} /\ abandoned = {} /\ probed = {} /\ census = <<>>
  /\ rounds = 0 /\ suspects = {} /\ built = FALSE
  /\ splices = [placed |-> {}, withdrawn |-> {}, indexed |-> {}]
  /\ late = FALSE /\ result = "running"

----------------------------------------------------------------------------
\* The preflight: the tree must compile before a mutant is applied to it, in
\* the packages that reach what will be mutated, failing that in the whole
\* workspace, failing that in the mutated packages alone.

Clears(select) == ErrorsIn(splices, select, "check") = {}

\* An unrestricted oracle shrinks to what was checked, a named one by what was not.
NarrowedOracle(dropped) == IF oracle = Packages THEN Intended ELSE oracle \ dropped

Preflight ==
  LET checking == Reaching(Intended, oracle)
      dropped  == checking \ Intended
      asked    == {checking} \union (IF checking = Packages THEN {} ELSE {Packages})
                    \union (IF checking = Packages \/ dropped = {} THEN {} ELSE {Intended})
      settled(next, outcomeOfRun) == pc' = next /\ result' = outcomeOfRun
  IN /\ pc = "preflight"
     /\ \/ /\ Clears(checking)
           /\ settled("scan", "running")
           /\ UNCHANGED <<whole, oracle, late>>
        \/ /\ checking # Packages /\ Clears(Packages)
           /\ late' = (late \/ Clears(checking))
           /\ whole' = TRUE
           /\ settled("scan", "running")
           /\ UNCHANGED oracle
        \/ /\ checking # Packages /\ dropped # {} /\ Clears(Intended)
           /\ late' = (late \/ Clears(checking) \/ Clears(Packages))
           /\ oracle' = NarrowedOracle(dropped)
           /\ IF oracle' = {} THEN settled("over", "error") ELSE settled("scan", "running")
           /\ UNCHANGED whole
        \/ /\ late' = (late \/ \E s \in asked : Clears(s))
           /\ settled("over", "error")
           /\ UNCHANGED <<whole, oracle>>
     /\ UNCHANGED <<world, limit, file, stage, build, planned, outcome, withdrawn, abandoned,
                    probed, census, rounds, suspects, built, splices>>

----------------------------------------------------------------------------
\* The stages, and the build that decides the run.

Converge(verb, select) ==
  /\ build' = [verb |-> verb, select |-> select]
  /\ rounds' = 0
  /\ pc' = "probe"

Scan ==
  /\ pc = "scan" /\ stage \in DOMAIN Stages
  /\ planned' = planned \union Housed(Stages[stage])
  /\ IF Housed(Stages[stage]) = {}
     THEN stage' = stage + 1 /\ UNCHANGED <<pc, build, rounds>>
     ELSE Converge("build", Scoped(Stages[stage])) /\ UNCHANGED stage
  /\ UNCHANGED <<world, limit, file, oracle, whole, outcome, withdrawn, abandoned, probed,
                 census, suspects, built, splices, late, result>>

Settled(w, a) ==
  [m \in Mutants |-> IF m \in a THEN "NotBuilt"
                     ELSE IF m \in w THEN "CompileError" ELSE outcome[m]]

Over(r) == pc' = "over" /\ result' = r

NothingLive ==
  /\ pc = "scan" /\ stage \notin DOMAIN Stages /\ ~built
  /\ outcome' = Settled(withdrawn, abandoned)
  /\ Over("idle")
  /\ UNCHANGED <<world, limit, file, stage, build, oracle, whole, planned, withdrawn, abandoned,
                 probed, census, rounds, suspects, built, splices, late>>

Pending == {m \in planned : outcome[m] = "Pending"}

Finish ==
  /\ pc = "scan" /\ stage \notin DOMAIN Stages /\ built
  /\ Converge("tests", Scoped(Reaching({PackageOf[m] : m \in Pending}, oracle)))
  /\ UNCHANGED <<world, limit, file, stage, oracle, whole, planned, outcome, withdrawn, abandoned,
                 probed, census, suspects, built, splices, late, result>>

----------------------------------------------------------------------------
\* What a build that could not be made to compile costs.

Abandon(ms) == withdrawn' = withdrawn \union ms /\ abandoned' = abandoned \union ms

StageStuck(spent) ==
  LET lost == Live \intersect Housed(Stages[stage])
  IN /\ build.verb = "build"
     /\ outcome' = [m \in Mutants |-> IF m \in lost THEN "NotBuilt" ELSE outcome[m]]
     /\ Abandon(lost)
     /\ stage' = stage + 1 /\ pc' = "scan" /\ rounds' = spent
     /\ UNCHANGED <<build, result>>

\* A narrowed build may have failed for want of a feature: the selection is given up.
Widened ==
  /\ build.verb # "build" /\ build.select # Packages
  /\ Converge("tests", Packages)
  /\ UNCHANGED <<outcome, withdrawn, abandoned, stage, result>>

RunStuck(spent) ==
  /\ build.verb # "build" /\ build.select = Packages
  /\ outcome' = Settled(withdrawn, abandoned \union Live)
  /\ Abandon(Live)
  /\ Over("stuck")
  /\ rounds' = spent
  /\ UNCHANGED <<stage, build>>

Stuck(spent) == StageStuck(spent) \/ Widened \/ RunStuck(spent)

----------------------------------------------------------------------------
\* A probe offers the compiler the hinted mutants first, and alone.

Withdraw(reported, s) ==
  LET ms == Blamed(reported, s)
  IN /\ withdrawn' = withdrawn \union ms
     /\ census' = [m \in DOMAIN census \union ms |->
                     IF m \in DOMAIN census THEN census[m]
                     ELSE {e \in reported : m \in e.names}]

Offered     == (Mine \intersect Hinted) \ probed
Without(ms) == Live \ ms
Only(ms)    == Live \ (Mine \ ms)
Offering    == Instrument(splices, Only(Offered))

SkipProbe ==
  /\ pc = "probe" /\ Cardinality(Offered) < PROBE_FLOOR
  /\ pc' = "round"
  /\ UNCHANGED <<world, limit, file, stage, build, oracle, whole, planned, outcome, withdrawn,
                 abandoned, probed, census, rounds, suspects, built, splices, late, result>>

Probe ==
  /\ pc = "probe" /\ Cardinality(Offered) >= PROBE_FLOOR
  /\ probed' = probed \union Offered
  /\ splices' = Offering
  /\ LET met == ErrorsIn(Offering, build.select, build.verb)
     IN \E reported \in SUBSET met :
          /\ Withdraw(reported, Offering)
          /\ late' = (late \/ (reported = {} /\ met # {}))
  /\ pc' = "round"
  /\ UNCHANGED <<world, limit, file, stage, build, oracle, whole, planned, outcome, abandoned,
                 rounds, suspects, built, result>>

----------------------------------------------------------------------------
\* The rounds of a build.

\* The counter saturates, at u32::MAX in the code and past every use of it here.
Spent == IF rounds < limit THEN rounds + 1 ELSE limit

Spliced == Instrument(splices, Live)
Met     == ErrorsIn(Spliced, build.select, build.verb)

StageBuilt ==
  /\ build.verb = "build"
  /\ built' = TRUE /\ stage' = stage + 1 /\ pc' = "scan" /\ rounds' = Spent
  /\ UNCHANGED <<build, outcome, result>>

\* The binaries have to come from the command that would run them.
TestsBuilt ==
  /\ build.verb = "tests"
  /\ Converge("run", build.select)
  /\ UNCHANGED <<built, stage, outcome, result>>

\* A mutant in a file no compilation read cannot be judged, unless the sets of
\* files do not agree at all.
RunBuilt ==
  /\ build.verb = "run"
  /\ \E compiled \in Dependencies :
       outcome' = [m \in Mutants |->
                     IF /\ compiled # {} /\ m \in planned \ compiled
                        /\ Settled(withdrawn, abandoned)[m] = "Pending"
                     THEN "NotBuilt" ELSE Settled(withdrawn, abandoned)[m]]
  /\ Over("built") /\ rounds' = Spent
  /\ UNCHANGED <<built, stage, build>>

RoundPasses ==
  /\ pc = "round" /\ Met = {}
  /\ splices' = Spliced
  /\ StageBuilt \/ TestsBuilt \/ RunBuilt
  /\ UNCHANGED <<world, limit, file, oracle, whole, planned, withdrawn, abandoned, probed,
                 census, suspects, late>>

RoundTimesOut ==
  /\ pc = "round"
  /\ rounds' = Spent /\ splices' = Spliced /\ late' = TRUE
  /\ Over("error")
  /\ UNCHANGED <<world, limit, file, stage, build, oracle, whole, planned, outcome, withdrawn,
                 abandoned, probed, census, suspects, built>>

RoundBlames ==
  /\ pc = "round" /\ Spent < limit
  /\ \E reported \in SUBSET Met :
       Blamed(reported, Spliced) # {} /\ Withdraw(reported, Spliced)
  /\ rounds' = Spent /\ splices' = Spliced
  /\ UNCHANGED <<world, limit, file, pc, stage, build, oracle, whole, planned, outcome,
                 abandoned, probed, suspects, built, late, result>>

RoundsRunOut ==
  /\ pc = "round" /\ Spent >= limit
  /\ \E reported \in SUBSET Met : Blamed(reported, Spliced) # {}
  /\ Stuck(Spent)
  /\ splices' = Spliced
  /\ UNCHANGED <<world, limit, file, oracle, whole, planned, probed, census, suspects, built, late>>

RoundBlamesNobody ==
  /\ pc = "round"
  /\ \E reported \in SUBSET Met : reported # {} /\ Blamed(reported, Spliced) = {}
  /\ rounds' = Spent /\ splices' = Spliced
  /\ pc' = "isolate"
  /\ UNCHANGED <<world, limit, file, stage, build, oracle, whole, planned, outcome, withdrawn,
                 abandoned, probed, census, suspects, built, late, result>>

----------------------------------------------------------------------------
\* Isolation: proof builds of chosen subsets find what a failure that names
\* nobody is due to.  A proof build that runs late proves nothing.

Fails(s) == ErrorsIn(s, build.select, build.verb) # {}

\* The tree of a proof build without the whole of the build's mutants.
Cleared == Instrument(splices, Without(Mine))

Unisolated ==
  /\ Stuck(rounds)
  /\ suspects' = {}
  /\ UNCHANGED census

\* First the pristine packages, so that a broken environment is no mutant's fault.
Pristine ==
  /\ pc = "isolate"
  /\ splices' = Cleared
  /\ \/ /\ Mine # {} /\ ~Fails(Cleared)
        /\ suspects' = Mine /\ pc' = "narrow"
        /\ UNCHANGED <<late, stage, build, outcome, withdrawn, abandoned, census, rounds, result>>
     \/ /\ late' = (late \/ (Mine # {} /\ ~Fails(Cleared)))
        /\ Unisolated
  /\ UNCHANGED <<world, limit, file, oracle, whole, planned, probed, built>>

ItemsOf(ms)   == {ItemOf[m] : m \in ms}
MembersOf(is) == {m \in Mine : ItemOf[m] \in is}
LowerHalf(S)  == {x \in S : 2 * (Cardinality({y \in S : y < x}) + 1) <= Cardinality(S)}

\* Items are halved while there are several, then the mutants of the one left.
Left  == IF Cardinality(ItemsOf(suspects)) > 1
         THEN MembersOf(LowerHalf(ItemsOf(suspects)))
         ELSE LowerHalf(suspects)
Right == suspects \ Left

\* The trees of the proof builds that follow each other, each from what the last left.
LeftTree       == Instrument(splices, Only(Left))
RightTree      == Instrument(LeftTree, Only(Right))
LessItem(item) == Instrument(RightTree, Without(MembersOf({item})))

\* As it would be were an item given up on but left in the tree.
IsolatedInPlace(ms, blamed) ==
  /\ withdrawn' = IF blamed THEN withdrawn \union ms ELSE withdrawn
  /\ census' = [m \in DOMAIN census \union ms |->
                  IF m \in DOMAIN census THEN census[m] ELSE {}]
  /\ abandoned' = IF blamed THEN abandoned ELSE abandoned \union ms
  /\ suspects' = {} /\ pc' = "round"
  /\ UNCHANGED <<stage, build, outcome, rounds, result>>

Isolated(ms, blamed) ==
  /\ withdrawn' = withdrawn \union ms
  /\ census' = [m \in DOMAIN census \union ms |->
                  IF m \in DOMAIN census THEN census[m] ELSE {}]
  /\ abandoned' = IF blamed THEN abandoned ELSE abandoned \union ms
  /\ suspects' = {} /\ pc' = "round"
  /\ UNCHANGED <<stage, build, outcome, rounds, result>>

\* As it would be were the half that fails the one that is dropped.
HalveAway ==
  /\ pc = "narrow" /\ Cardinality(suspects) > 1
  /\ \/ Fails(LeftTree) /\ suspects' = Right /\ splices' = LeftTree /\ UNCHANGED late
     \/ /\ Fails(RightTree) /\ suspects' = Left /\ splices' = RightTree
        /\ late' = (late \/ Fails(LeftTree))
  /\ UNCHANGED <<world, limit, file, pc, stage, build, oracle, whole, planned, outcome, withdrawn,
                 abandoned, probed, census, rounds, built, result>>

Halve ==
  /\ pc = "narrow" /\ Cardinality(suspects) > 1
  /\ \/ Fails(LeftTree) /\ suspects' = Left /\ splices' = LeftTree /\ UNCHANGED late
     \/ /\ Fails(RightTree) /\ suspects' = Right /\ splices' = RightTree
        /\ late' = (late \/ Fails(LeftTree))
  /\ UNCHANGED <<world, limit, file, pc, stage, build, oracle, whole, planned, outcome, withdrawn,
                 abandoned, probed, census, rounds, built, result>>

\* Neither half fails alone, so several items fail together: give up the first
\* whose removal is proven to restore the build, or nobody.
RemoveItem ==
  LET items       == ItemsOf(suspects)
      restores(i) == ~Fails(LessItem(i))
      lateHalf    == \E half \in {LeftTree, RightTree} : Fails(half)
  IN /\ pc = "narrow" /\ Cardinality(items) > 1
     /\ \/ \E i \in items :
             /\ restores(i)
             /\ splices' = LessItem(i)
             /\ late' = (late \/ lateHalf \/ \E j \in items : j < i /\ restores(j))
             /\ Isolated(MembersOf({i}), FALSE)
        \/ /\ late' = (late \/ lateHalf \/ \E i \in items : restores(i))
           /\ splices' = LessItem(CHOOSE i \in items : \A j \in items : j <= i)
           /\ Unisolated
     /\ UNCHANGED <<world, limit, file, oracle, whole, planned, probed, built>>

\* As it would be were the halves that compile not to clear anybody.
ConvictItem ==
  /\ pc = "narrow" /\ Cardinality(ItemsOf(suspects)) = 1 /\ Cardinality(suspects) > 1
  /\ splices' = RightTree
  /\ late' = (late \/ \E half \in {LeftTree, RightTree} : Fails(half))
  /\ Isolated(suspects, TRUE)
  /\ UNCHANGED <<world, limit, file, oracle, whole, planned, probed, built>>

\* The mutants of one item fail together: none can be blamed alone.
GiveUpItem ==
  /\ pc = "narrow" /\ Cardinality(ItemsOf(suspects)) = 1 /\ Cardinality(suspects) > 1
  /\ splices' = RightTree
  /\ late' = (late \/ \E half \in {LeftTree, RightTree} : Fails(half))
  /\ Isolated(MembersOf(ItemsOf(suspects)), FALSE)
  /\ UNCHANGED <<world, limit, file, oracle, whole, planned, probed, built>>

Convict ==
  /\ pc = "narrow" /\ Cardinality(suspects) = 1
  /\ Isolated(suspects, TRUE)
  /\ UNCHANGED <<world, limit, file, oracle, whole, planned, probed, built, splices, late>>

\* An instrument that would splice a mutant into another file may end the run.
SpliceFails ==
  /\ \/ /\ pc = "probe" /\ Cardinality(Offered) >= PROBE_FLOOR
        /\ Astray(splices, Only(Offered))
     \/ pc = "round" /\ Astray(splices, Live)
     \/ pc = "isolate" /\ Mine # {} /\ Astray(splices, Without(Mine))
     \/ /\ pc = "narrow" /\ Cardinality(suspects) > 1
        /\ \/ Astray(splices, Only(Left)) \/ Astray(LeftTree, Only(Right))
           \/ /\ Cardinality(ItemsOf(suspects)) > 1
              /\ \E i \in ItemsOf(suspects) : Astray(RightTree, Without(MembersOf({i})))
  /\ Over("error") /\ suspects' = {}
  /\ UNCHANGED <<world, limit, file, stage, build, oracle, whole, planned, outcome, withdrawn,
                 abandoned, probed, census, rounds, built, splices, late>>

----------------------------------------------------------------------------
Next == \/ Preflight \/ Scan \/ NothingLive \/ Finish
        \/ SkipProbe \/ Probe
        \/ RoundPasses \/ RoundTimesOut \/ RoundBlames \/ RoundsRunOut \/ RoundBlamesNobody
        \/ Pristine \/ Halve \/ RemoveItem \/ GiveUpItem \/ Convict \/ SpliceFails

Spec == Init /\ [][Next]_vars

\* The run is one thread, and cargo ends: by itself or by its timeout.
FairSpec == Spec /\ WF_vars(Next)
----------------------------------------------------------------------------
(***************************************************************************)
(* Properties.                                                             *)
(***************************************************************************)

\* The type invariant.
TypeOK ==
  /\ world \in Worlds /\ limit \in Limits /\ file \in Filings
  /\ pc \in {"preflight", "scan", "probe", "round", "isolate", "narrow", "over"}
  /\ stage \in 1 .. Len(Stages) + 1
  /\ build \in [verb : {"check", "build", "tests", "run"}, select : SUBSET Packages]
  /\ oracle \subseteq Packages /\ whole \in BOOLEAN
  /\ planned \subseteq Mutants
  /\ outcome \in [Mutants -> {"Pending", "NotBuilt", "CompileError"}]
  /\ withdrawn \subseteq planned /\ abandoned \subseteq withdrawn /\ probed \subseteq planned
  /\ DOMAIN census \subseteq withdrawn /\ \A m \in DOMAIN census : census[m] \subseteq world
  /\ rounds \in 0 .. limit
  /\ suspects \subseteq planned \ withdrawn
  /\ built \in BOOLEAN /\ late \in BOOLEAN
  /\ splices \in [placed : SUBSET (planned \X Nat), withdrawn : SUBSET planned,
                  indexed : SUBSET planned]
  /\ result \in {"running", "error", "idle", "built", "stuck"}

\* The mutants the compiler is held to have rejected.
Accused == withdrawn \ abandoned

\* The stages scan the files in the order of their paths, so that plan.sort() moves
\* nothing and every position noted is still the mutant's.
InOrder == \A m, k \in Mutants : m < k => file[m] <= file[k]

\* A mutant nobody's diagnostic named is called unviable only if some error needs
\* it and no other mutant of its package: one that fails in company, or a broken
\* environment, convicts nobody (Isolation::Blamed, and the pristine proof build).
ConvictedAlone ==
  InOrder => \A m \in Accused :
    census[m] = {} => \E e \in world : e.needs \intersect Housed({PackageOf[m]}) = {m}

\* The binaries that judge the mutants come from a tree that raises no error of this
\* code; and if the files were scanned in the order of their paths it holds exactly
\* the mutants still in the run, each in its own file: a mutant left Pending is really
\* in the binary its verdict will come from.
JudgedAsBuilt ==
  result = "built" =>
    /\ ErrorsIn(splices, build.select, "run") = {}
    /\ InOrder => /\ Strays(splices) = {}
                  /\ InPlace(splices) = planned \ withdrawn
                  /\ \A m \in planned : outcome[m] = "Pending" => m \in InPlace(splices)
                  /\ \A m \in InPlace(splices) : outcome[m] # "CompileError"

\* splices.rs, of the guards it looks for: a live mutant with none would still be run,
\* with nothing in the tree to make it behave differently, and its verdict recorded as
\* a survivor, so this is checked rather than assumed.
EveryPendingIsPlaced ==
  result = "built" => \A m \in planned : outcome[m] = "Pending" => m \in InPlace(splices)

\* Once only the whole workspace was shown to compile, no error that the unmutated
\* tree raises under some narrower selection is ever charged to a mutant.
WideTreeBlamesMutants ==
  whole => \A m \in Accused : \A e \in census[m] :
             e.needs # {} \/ e.amid # {} \/ e.kind = "link"

\* One error that mutants of its own package cause, and no other package's features
\* hide, in a run that had the rounds, whose builds were not stopped and whose files
\* were scanned in order, costs the mutants it names or one item, never the population
\* of a package.
OneErrorCostsOneItem ==
  \A e \in world :
    /\ world = {e} /\ ~late /\ limit > N /\ InOrder
    /\ e.needs # {} /\ e.needs \subseteq Housed({e.in}) /\ e.names \subseteq e.needs
    /\ e.cure = {} /\ e.amid = {}
    => /\ result # "stuck"
       /\ withdrawn \subseteq e.names \/ Cardinality(ItemsOf(withdrawn)) <= 1

\* A mutant the compiler rejected is never given up on instead, nor put back.
AccusedStand == [][Accused \subseteq Accused']_vars

\* However the errors mask each other, the rollback ends.
RunEnds == <>(result # "running")
=============================================================================
