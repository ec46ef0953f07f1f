---------------------------- MODULE RecordsProofs ----------------------------
(***************************************************************************)
(* What is made of the records of earlier runs.                            *)
(*                                                                         *)
(* The first part is about the record a run adopts verdicts from: no       *)
(* verdict of it, and none a run adopts, is bound to a workspace it was    *)
(* not reached on, for every workspace, every record and any number of     *)
(* runs and edits.  A write gives a file a time no snapshot has yet, so a  *)
(* file that still has the time of the snapshot still has its text, and    *)
(* what was copied of it since is that text.  When the whole workspace     *)
(* equals the snapshot, the copied tree is the snapshot's, and the         *)
(* verdicts reached on it may be bound to it.                              *)
(*                                                                         *)
(* The second is about the merge of many reports: whatever order they are  *)
(* given in they make one answer, and a listing or a full run that is the  *)
(* newest of them makes the merged report true.                            *)
(***************************************************************************)
EXTENDS Adoption, Merge, FiniteSetTheorems, SequenceTheorems, WellFoundedInduction, TLAPS

-----------------------------------------------------------------------------
(***************************************************************************)
(* The record of the last run.                                             *)
(***************************************************************************)
\* The times of the snapshot are past, and a time names one text.
SnapshotIsPast ==
  \A f \in Files :
    /\ inputs[f].time <= clock /\ tree[f].time <= clock
    /\ record.inputs[f].time <= clock
    /\ inputs[f].time = tree[f].time => inputs[f].text = tree[f].text
    /\ record.inputs[f].time = tree[f].time => record.inputs[f].text = tree[f].text

Early == {"idle", "surveyed", "captured"}

\* Once the snapshot is taken, an unwritten file was copied as the snapshot
\* has it; before that nothing is copied.
CopiesAreFaithful ==
  /\ at \in Early => \A f \in Files : copied[f] = None
  /\ \A f \in Files :
       (copied[f] # None /\ inputs[f].time = tree[f].time) => copied[f] = inputs[f].text
  /\ at \in {"swept", "drafted"} => \A f \in Files : copied[f] # None

\* What the run holds it adopted, bound to its snapshot, or reached on its copy.
Grounded(m) ==
  /\ m \in adopted => verdicts[m] # None /\ ReachedOn(verdicts[m], m, inputs, context)
  /\ (verdicts[m] # None /\ m \notin adopted)
       => at \in {"swept", "drafted"} /\ verdicts[m].on = copied /\ verdicts[m].under = context

VerdictsAreGrounded ==
  /\ \A m \in Mutants : Grounded(m)
  /\ \A m \in Mutants : verdicts[m] # None => m \in selected
  /\ at \in Early => adopted = {} /\ verdicts = NoVerdicts

IInv == /\ TypeOK /\ SnapshotIsPast /\ CopiesAreFaithful
        /\ VerdictsAreGrounded /\ RecordIsBound

-----------------------------------------------------------------------------
\* The run's end changes no file and no record, and holds nothing.
LEMMA ResetType ==
  ASSUME TypeOK, record' \in Records, Reset, UNCHANGED <<tree, clock, runs>>
  PROVE  TypeOK'
<1> USE AdoptionAssumption
<1>1. NoVerdicts \in [Mutants -> Entries \union {None}]
  BY DEF NoVerdicts
<1>2. record'.context \in Contexts /\ record'.inputs \in Snapshots
  BY DEF Records
<1> QED
  BY <1>1, <1>2 DEF TypeOK, Reset, Stages

\* What a settled entry of a record is, given that the record is bound.
LEMMA SettledIsBound ==
  ASSUME TypeOK, RecordIsBound, NEW m \in Mutants, NEW ctx \in Contexts,
         NEW now \in Snapshots, Admitted(record, now, ctx, m)
  PROVE  /\ record.entries[m] \in Entries
         /\ ReachedOn(record.entries[m], m, now, ctx)
<1> DEFINE e == record.entries[m]
<1>1. e \in Entries
  BY DEF Admitted, TypeOK, Records
<1>2. ReachedOn(e, m, record.inputs, record.context)
  BY DEF RecordIsBound, Admitted
<1>3. CASE e.outcome = "unviable"
  <2>1. /\ record.context.build = ctx.build
        /\ \A f \in Roots[PackageOf[Home[m]]] : record.inputs[f] = now[f]
    BY <1>3 DEF Admitted, SameCompilation
  <2>2. /\ e.under.build = record.context.build
        /\ \A f \in Roots[PackageOf[Home[m]]] : e.on[f] = record.inputs[f].text
    BY <1>2, <1>3 DEF ReachedOn
  <2> QED
    BY <1>1, <1>3, <2>1, <2>2 DEF ReachedOn
<1>4. CASE e.outcome # "unviable"
  BY <1>1, <1>2, <1>4 DEF Admitted, ReachedOn, Entries
<1> QED
  BY <1>1, <1>3, <1>4

\* A verdict carried forward was reached where the entry was.
LEMMA CarriedIsTyped ==
  ASSUME NEW e \in Entries
  PROVE  /\ Carried(e) \in Entries /\ Carried(e).outcome = e.outcome
         /\ Carried(e).on = e.on /\ Carried(e).under = e.under
BY DEF Carried, Entries

\* Judging leaves nothing, or an entry reached on the copied tree.
LEMMA JudgedIsTyped ==
  ASSUME TypeOK, \A f \in Files : copied[f] # None, NEW e \in Judged
  PROVE  e # None => e \in Entries /\ e.on = copied /\ e.under = context
<1>1. copied \in [Files -> Texts]
  BY DEF TypeOK
<1>2. \A s, u : VerdictFile(s, u) \in Files \union {None}
  BY DEF VerdictFile
<1> QED
  BY <1>1, <1>2 DEF Judged, Entries, TypeOK

\* The types hold at the start.
LEMMA TypeInit == Init => TypeOK
<1> SUFFICES ASSUME Init PROVE TypeOK
  OBVIOUS
<1> USE AdoptionAssumption
<1>1. tree \in Snapshots /\ clock \in 0..MaxEdits
  BY DEF Init, Snapshots
<1>2. NoVerdicts \in [Mutants -> Entries \union {None}]
  BY DEF NoVerdicts
<1>3. context \in Contexts
  <2>1. PICK b \in Builds, u \in Suites : TRUE
    OBVIOUS
  <2>2. [build |-> b, suite |-> u] \in Contexts
    BY DEF Contexts
  <2> QED
    BY <2>2 DEF Init
<1>4. record \in Records
  BY <1>1, <1>2, <1>3 DEF Init, Records
<1>5. /\ inputs \in Snapshots /\ verdicts \in [Mutants -> Entries \union {None}]
      /\ copied \in [Files -> Texts \union {None}]
  BY <1>1, <1>2 DEF Init
<1>7. runs \in 0..MaxRuns
  BY DEF Init
<1>6. /\ at \in Stages /\ full \in BOOLEAN /\ complete \in BOOLEAN
      /\ selected \in SUBSET Mutants /\ adopted \in SUBSET Mutants
      /\ killers \in [Files -> Texts] \union {None}
  BY DEF Init, Stages
<1> QED
  BY <1>1, <1>3, <1>4, <1>5, <1>6, <1>7 DEF TypeOK

\* The invariant holds at the start.
LEMMA InitHolds == Init => IInv
<1> SUFFICES ASSUME Init PROVE IInv
  OBVIOUS
<1> USE AdoptionAssumption DEF Init
<1>1. TypeOK
  BY TypeInit
<1>2. SnapshotIsPast
  BY DEF SnapshotIsPast
<1>3. CopiesAreFaithful
  BY DEF CopiesAreFaithful, Early
<1>4. VerdictsAreGrounded
  BY DEF VerdictsAreGrounded, Grounded, NoVerdicts
<1>5. RecordIsBound
  BY DEF RecordIsBound, NoVerdicts
<1> QED
  BY <1>1, <1>2, <1>3, <1>4, <1>5 DEF IInv

-----------------------------------------------------------------------------
\* A run that ends leaves a state that holds nothing.
LEMMA ResetHolds ==
  ASSUME IInv, record' \in Records, RecordIsBound', Reset,
         UNCHANGED <<tree, clock, runs>>,
         record' = record \/ record'.inputs = inputs
  PROVE  IInv'
<1>1. TypeOK'
  BY ResetType DEF IInv
<1>2. SnapshotIsPast'
  BY DEF IInv, SnapshotIsPast, Reset
<1>3. CopiesAreFaithful'
  BY DEF CopiesAreFaithful, Reset
<1>4. VerdictsAreGrounded'
  BY DEF VerdictsAreGrounded, Grounded, NoVerdicts, Reset
<1> QED
  BY <1>1, <1>2, <1>3, <1>4 DEF IInv

\* Reading the texts keeps the invariant.
LEMMA SurveyHolds == IInv /\ Survey => IInv'
<1> SUFFICES ASSUME IInv, Survey PROVE IInv'
  OBVIOUS
<1>1. TypeOK'
  <2>1. TextsOf(tree) \in [Files -> Texts]
    BY DEF IInv, TypeOK, Snapshots, TextsOf
  <2>2. runs' \in 0..MaxRuns
    BY AdoptionAssumption DEF IInv, TypeOK, Survey
  <2> QED
    BY <2>1, <2>2 DEF IInv, TypeOK, Survey, Stages
<1>2. SnapshotIsPast'
  BY DEF IInv, SnapshotIsPast, Survey
<1>3. CopiesAreFaithful'
  BY DEF IInv, CopiesAreFaithful, Survey, Early
<1>4. VerdictsAreGrounded'
  BY DEF IInv, VerdictsAreGrounded, Grounded, NoVerdicts, Survey, Early
<1>5. RecordIsBound'
  BY DEF IInv, RecordIsBound, Survey, ReachedOn, TextsOf
<1> QED
  BY <1>1, <1>2, <1>3, <1>4, <1>5 DEF IInv

\* Taking the snapshot keeps the invariant.
LEMMA CaptureHolds == IInv /\ Capture => IInv'
<1> SUFFICES ASSUME IInv, Capture PROVE IInv'
  OBVIOUS
<1>1. TypeOK'
  BY DEF IInv, TypeOK, Capture, Stages
<1>2. SnapshotIsPast'
  BY DEF IInv, SnapshotIsPast, Capture
<1>3. CopiesAreFaithful'
  BY DEF IInv, CopiesAreFaithful, Capture, Early
<1>4. VerdictsAreGrounded'
  BY DEF IInv, VerdictsAreGrounded, Grounded, NoVerdicts, Capture, Early
<1>5. RecordIsBound'
  BY DEF IInv, RecordIsBound, Capture, ReachedOn, TextsOf
<1> QED
  BY <1>1, <1>2, <1>3, <1>4, <1>5 DEF IInv

\* Adopting from the record keeps the invariant.
LEMMA AdoptHolds == IInv /\ Adopt => IInv'
<1> SUFFICES ASSUME IInv, Adopt PROVE IInv'
  OBVIOUS
<1>0. \A m \in adopted' : /\ m \in Mutants /\ m \in selected
                          /\ record.entries[m] \in Entries
                          /\ ReachedOn(record.entries[m], m, inputs, context)
  <2> SUFFICES ASSUME NEW m \in adopted'
               PROVE  /\ m \in Mutants /\ m \in selected
                      /\ record.entries[m] \in Entries
                      /\ ReachedOn(record.entries[m], m, inputs, context)
    OBVIOUS
  <2>1. /\ m \in Mutants /\ m \in selected
        /\ Admitted(record, inputs, context, m)
    BY DEF Adopt, Settled
  <2> QED
    BY <2>1, SettledIsBound DEF IInv, TypeOK
<1>a. \A m \in adopted' : /\ verdicts'[m] = Carried(record.entries[m])
                          /\ verdicts'[m] \in Entries
                          /\ verdicts'[m].outcome = record.entries[m].outcome
                          /\ verdicts'[m].on = record.entries[m].on
                          /\ verdicts'[m].under = record.entries[m].under
  BY <1>0, CarriedIsTyped DEF Adopt
<1>b. \A m \in Mutants \ adopted' : verdicts'[m] = None
  BY DEF Adopt
<1>c. verdicts' \in [Mutants -> Entries \union {None}]
  BY <1>0, <1>a, <1>b DEF Adopt
<1>1. TypeOK'
  <2>1. adopted' \in SUBSET Mutants
    BY <1>0
  <2> QED
    BY <2>1, <1>c DEF IInv, TypeOK, Adopt, Stages
<1>2. SnapshotIsPast'
  BY DEF IInv, SnapshotIsPast, Adopt
<1>3. CopiesAreFaithful'
  BY DEF IInv, CopiesAreFaithful, Adopt, Early
<1>4. VerdictsAreGrounded'
  <2>1. \A m \in adopted' : ReachedOn(verdicts'[m], m, inputs, context)
    BY <1>0, <1>a DEF ReachedOn
  <2>2. \A m \in Mutants : Grounded(m)'
    <3> SUFFICES ASSUME NEW m \in Mutants PROVE Grounded(m)'
      OBVIOUS
    <3>1. inputs' = inputs /\ context' = context
      BY DEF Adopt
    <3>2. None \notin Entries
      BY NoneIsNoEntry
    <3> QED
      BY <1>a, <1>b, <2>1, <3>1, <3>2 DEF Grounded, ReachedOn, TextsOf
  <2>3. \A m \in Mutants : verdicts'[m] # None => m \in selected'
    BY <1>0, <1>b DEF Adopt
  <2>4. at' \notin Early
    BY DEF Adopt, Early
  <2> QED
    BY <2>2, <2>3, <2>4 DEF VerdictsAreGrounded
<1>5. RecordIsBound'
  BY DEF IInv, RecordIsBound, Adopt, ReachedOn, TextsOf
<1> QED
  BY <1>1, <1>2, <1>3, <1>4, <1>5 DEF IInv

\* Copying a file into the tree keeps the invariant.
LEMMA CopyFileHolds == ASSUME NEW f \in Files, IInv, CopyFile(f) PROVE IInv'
<1>1. TypeOK'
  BY DEF IInv, TypeOK, CopyFile, Snapshots
<1>2. SnapshotIsPast'
  BY DEF IInv, SnapshotIsPast, CopyFile
<1>3. CopiesAreFaithful'
  <2>1. copied' = [copied EXCEPT ![f] = tree[f].text] /\ at' = "copying" /\ inputs' = inputs /\ tree' = tree
    BY DEF CopyFile
  <2>2. inputs[f].time = tree[f].time => inputs[f].text = tree[f].text
    BY DEF IInv, SnapshotIsPast
  <2>3. \A g \in Files : (copied'[g] # None /\ inputs[g].time = tree[g].time)
                            => copied'[g] = inputs[g].text
    BY <2>1, <2>2 DEF IInv, TypeOK, CopiesAreFaithful
  <2> QED
    BY <2>1, <2>3 DEF CopiesAreFaithful, Early
<1>4. VerdictsAreGrounded'
  BY DEF IInv, VerdictsAreGrounded, Grounded, CopyFile, Early, ReachedOn, TextsOf
<1>5. RecordIsBound'
  BY DEF IInv, RecordIsBound, CopyFile, ReachedOn, TextsOf
<1> QED
  BY <1>1, <1>2, <1>3, <1>4, <1>5 DEF IInv

\* Judging what was not adopted keeps the invariant.
LEMMA SweepHolds == IInv /\ Sweep => IInv'
<1> SUFFICES ASSUME IInv, Sweep PROVE IInv'
  OBVIOUS
<1>0. \A f \in Files : copied[f] # None
  BY DEF Sweep
<1>a. /\ DOMAIN verdicts' = Mutants
      /\ verdicts' = [m \in Mutants |-> verdicts'[m]]
  BY DEF Sweep
<1>b. \A m \in Mutants : CASE m \in adopted -> verdicts'[m] = verdicts[m]
                           [] m \in selected \ adopted -> verdicts'[m] \in Judged
                           [] OTHER -> verdicts'[m] = None
  BY DEF Sweep
<1>c. \A m \in Mutants \ adopted : verdicts'[m] # None =>
        /\ m \in selected /\ verdicts'[m] \in Entries
        /\ verdicts'[m].on = copied /\ verdicts'[m].under = context
  BY <1>0, <1>b, JudgedIsTyped DEF IInv
<1>d. \A m \in Mutants : m \in adopted => verdicts'[m] = verdicts[m]
  BY <1>b
<1>1. TypeOK'
  <2>1. \A m \in Mutants : verdicts'[m] \in Entries \union {None}
    BY <1>c, <1>d DEF IInv, TypeOK
  <2>2. verdicts' \in [Mutants -> Entries \union {None}]
    BY <1>a, <2>1
  <2> QED
    BY <2>2 DEF IInv, TypeOK, Sweep, Stages
<1>2. SnapshotIsPast'
  BY DEF IInv, SnapshotIsPast, Sweep
<1>3. CopiesAreFaithful'
  BY DEF IInv, CopiesAreFaithful, Sweep, Early
<1>4. VerdictsAreGrounded'
  <2>1. \A m \in Mutants : Grounded(m)'
    <3> SUFFICES ASSUME NEW m \in Mutants PROVE Grounded(m)'
      OBVIOUS
    <3>1. /\ inputs' = inputs /\ context' = context /\ adopted' = adopted
          /\ copied' = copied /\ at' = "swept"
      BY DEF Sweep
    <3>2. Grounded(m)
      BY DEF IInv, VerdictsAreGrounded
    <3>3. CASE m \in adopted
      BY <1>d, <3>1, <3>2, <3>3 DEF Grounded, ReachedOn, TextsOf
    <3>4. CASE m \notin adopted
      BY <1>c, <3>1, <3>4 DEF Grounded
    <3> QED
      BY <3>3, <3>4
  <2>2. \A m \in Mutants : verdicts'[m] # None => m \in selected'
    BY <1>c, <1>d DEF IInv, VerdictsAreGrounded, Sweep
  <2>3. at' \notin Early
    BY DEF Sweep, Early
  <2> QED
    BY <2>1, <2>2, <2>3 DEF VerdictsAreGrounded
<1>5. RecordIsBound'
  BY DEF IInv, RecordIsBound, Sweep, ReachedOn, TextsOf
<1> QED
  BY <1>1, <1>2, <1>3, <1>4, <1>5 DEF IInv

\* Drafting the next record keeps the invariant.
LEMMA DraftHolds == IInv /\ Draft => IInv'
<1> SUFFICES ASSUME IInv, Draft PROVE IInv'
  OBVIOUS
<1> USE DEF Draft, runVars
<1>1. TypeOK'
  BY DEF IInv, TypeOK, Stages
<1>2. SnapshotIsPast'
  BY DEF IInv, SnapshotIsPast
<1>3. CopiesAreFaithful'
  BY DEF IInv, CopiesAreFaithful, Early
<1>4. VerdictsAreGrounded'
  BY DEF IInv, VerdictsAreGrounded, Grounded, Early, ReachedOn, TextsOf
<1>5. RecordIsBound'
  BY DEF IInv, RecordIsBound, ReachedOn, TextsOf
<1> QED
  BY <1>1, <1>2, <1>3, <1>4, <1>5 DEF IInv

\* Where the workspace still is the snapshot, what the run holds was reached
\* on it; and what the earlier record adds is still bound.
LEMMA AbsorbingIsBound ==
  ASSUME IInv, at = "drafted", MatchesCurrent, NEW m \in Mutants,
         Absorbing(record)[m] # None
  PROVE  /\ Absorbing(record)[m] \in Entries
         /\ ReachedOn(Absorbing(record)[m], m, inputs, context)
<1>1. copied = TextsOf(inputs)
  <2>1. \A f \in Files : copied[f] = inputs[f].text
    BY DEF IInv, CopiesAreFaithful, MatchesCurrent
  <2>2. copied = [f \in Files |-> copied[f]]
    BY DEF IInv, TypeOK
  <2> QED
    BY <2>1, <2>2 DEF TextsOf
<1>2. ASSUME verdicts[m] # None
      PROVE  verdicts[m] \in Entries /\ ReachedOn(verdicts[m], m, inputs, context)
  <2>1. verdicts[m] \in Entries
    BY <1>2 DEF IInv, TypeOK
  <2>2. Grounded(m)
    BY DEF IInv, VerdictsAreGrounded
  <2>3. CASE m \in adopted
    BY <2>1, <2>2, <2>3 DEF Grounded
  <2>4. CASE m \notin adopted
    <3>1. verdicts[m].on = TextsOf(inputs) /\ verdicts[m].under = context
      BY <1>1, <1>2, <2>2, <2>4 DEF Grounded
    <3>2. \A f \in Roots[PackageOf[Home[m]]] : TextsOf(inputs)[f] = inputs[f].text
      BY AdoptionAssumption DEF TextsOf
    <3> QED
      BY <2>1, <3>1, <3>2 DEF ReachedOn
  <2> QED
    BY <2>3, <2>4
<1>3. ASSUME Admitted(record, inputs, context, m)
      PROVE  /\ record.entries[m] \in Entries
             /\ ReachedOn(record.entries[m], m, inputs, context)
  BY <1>3, SettledIsBound DEF IInv, TypeOK
<1> QED
  BY <1>2, <1>3 DEF Absorbing

\* Storing the record keeps the invariant.
LEMMA StoreHolds == IInv /\ Store => IInv'
<1> SUFFICES ASSUME IInv, Store PROVE IInv'
  OBVIOUS
<1>1. \A m \in Mutants : Absorbing(record)[m] # None =>
        /\ Absorbing(record)[m] \in Entries
        /\ ReachedOn(Absorbing(record)[m], m, inputs, context)
  BY AbsorbingIsBound DEF Store
<1>2. Absorbing(record) \in [Mutants -> Entries \union {None}]
  <2>1. /\ DOMAIN Absorbing(record) = Mutants
        /\ Absorbing(record) = [m \in Mutants |-> Absorbing(record)[m]]
    BY DEF Absorbing
  <2> QED
    BY <1>1, <2>1
<1>3. record' = [context |-> context, inputs |-> inputs, entries |-> Absorbing(record)]
  BY DEF Store
<1> HIDE DEF Absorbing
<1>4. record' \in Records
  BY <1>2, <1>3 DEF Records, IInv, TypeOK
<1>5. RecordIsBound'
  BY <1>1, <1>3 DEF RecordIsBound, ReachedOn, TextsOf
<1>6. record'.inputs = inputs
  BY <1>3
<1> QED
  BY <1>4, <1>5, <1>6, ResetHolds DEF Store

\* An edit of the user's, at any moment, keeps the invariant.
LEMMA EditHolds == ASSUME NEW f \in Files, IInv, Edit(f) PROVE IInv'
<1>0. PICK text \in Texts : tree' = [tree EXCEPT ![f] = [text |-> text, time |-> clock + 1]]
  BY DEF Edit
<1>a. /\ clock \in Nat /\ MaxEdits \in Nat /\ clock + 1 \in 0..MaxEdits /\ clock' = clock + 1
  BY AdoptionAssumption DEF Edit, IInv, TypeOK
<1>b. /\ tree'[f] = [text |-> text, time |-> clock + 1]
      /\ \A g \in Files : g # f => tree'[g] = tree[g]
  BY <1>0 DEF IInv, TypeOK, Snapshots
<1>1. TypeOK'
  <2>1. tree' \in Snapshots
    BY <1>0, <1>a DEF IInv, TypeOK, Snapshots
  <2> QED
    BY <1>a, <2>1 DEF IInv, TypeOK, Edit, runVars
<1>2. SnapshotIsPast'
  <2> SUFFICES ASSUME NEW g \in Files
               PROVE  /\ inputs[g].time <= clock + 1 /\ tree'[g].time <= clock + 1
                      /\ record.inputs[g].time <= clock + 1
                      /\ inputs[g].time = tree'[g].time => inputs[g].text = tree'[g].text
                      /\ record.inputs[g].time = tree'[g].time
                           => record.inputs[g].text = tree'[g].text
    BY <1>a DEF SnapshotIsPast, Edit, runVars
  <2>1. /\ inputs[g].time \in Nat /\ tree[g].time \in Nat /\ record.inputs[g].time \in Nat
    BY DEF IInv, TypeOK, Snapshots, Records
  <2>2. /\ inputs[g].time <= clock /\ tree[g].time <= clock /\ record.inputs[g].time <= clock
        /\ inputs[g].time = tree[g].time => inputs[g].text = tree[g].text
        /\ record.inputs[g].time = tree[g].time => record.inputs[g].text = tree[g].text
    BY DEF IInv, SnapshotIsPast
  <2>3. CASE g = f
    BY <1>a, <1>b, <2>1, <2>2, <2>3
  <2>4. CASE g # f
    BY <1>a, <1>b, <2>1, <2>2, <2>4
  <2> QED
    BY <2>3, <2>4
<1>3. CopiesAreFaithful'
  <2>1. inputs' = inputs /\ copied' = copied /\ at' = at
    BY DEF Edit, runVars
  <2>2. \A g \in Files : (copied[g] # None /\ inputs[g].time = tree'[g].time)
                            => copied[g] = inputs[g].text
    <3> SUFFICES ASSUME NEW g \in Files, copied[g] # None, inputs[g].time = tree'[g].time
                 PROVE  copied[g] = inputs[g].text
      OBVIOUS
    <3>1. inputs[g].time \in Nat /\ inputs[g].time <= clock
      BY DEF IInv, TypeOK, Snapshots, SnapshotIsPast
    <3>2. g # f
      BY <1>a, <1>b, <3>1
    <3> QED
      BY <1>b, <3>2 DEF IInv, CopiesAreFaithful
  <2> QED
    BY <2>1, <2>2 DEF IInv, CopiesAreFaithful
<1>4. VerdictsAreGrounded'
  BY DEF IInv, VerdictsAreGrounded, Grounded, Edit, runVars, ReachedOn, TextsOf
<1>5. RecordIsBound'
  BY DEF IInv, RecordIsBound, Edit, runVars, ReachedOn, TextsOf
<1> QED
  BY <1>1, <1>2, <1>3, <1>4, <1>5 DEF IInv

\* A run that refuses or stops leaves the record as it was.
LEMMA LeaveHolds ==
  ASSUME IInv, Reset, UNCHANGED <<tree, clock, record, runs>> PROVE IInv'
<1>1. record' \in Records /\ record' = record
  BY DEF IInv, TypeOK
<1>2. RecordIsBound'
  BY DEF IInv, RecordIsBound, ReachedOn, TextsOf
<1> QED
  BY <1>1, <1>2, ResetHolds

\* Every step keeps the invariant, stuttering included.
LEMMA StepHolds == IInv /\ [Next]_vars => IInv'
<1> SUFFICES ASSUME IInv, [Next]_vars PROVE IInv'
  OBVIOUS
<1>1. CASE UNCHANGED vars
  BY <1>1 DEF vars, runVars, IInv, TypeOK, SnapshotIsPast, CopiesAreFaithful,
     VerdictsAreGrounded, Grounded, RecordIsBound, ReachedOn, TextsOf
<1>2. CASE Refuse \/ Stop
  BY <1>2, LeaveHolds DEF Refuse, Stop
<1>3. ASSUME NEW f \in Files, CopyFile(f) \/ Edit(f) PROVE IInv'
  BY <1>3, CopyFileHolds, EditHolds
<1> QED
  BY <1>1, <1>2, <1>3, SurveyHolds, CaptureHolds, AdoptHolds, SweepHolds,
     DraftHolds, StoreHolds DEF Next

\* The inductive invariant holds of every run over the record.  (incremental_context, adopt, store)
THEOREM Invariance == Spec => []IInv
BY InitHolds, StepHolds, PTL DEF Spec

\* The variables have their types.
THEOREM TypeCorrect == Spec => []TypeOK
<1>1. IInv => TypeOK
  BY DEF IInv
<1> QED
  BY <1>1, Invariance, PTL

\* No verdict in the record is bound to a workspace it was not reached on.
THEOREM RecordStaysBound == Spec => []RecordIsBound
<1>1. IInv => RecordIsBound
  BY DEF IInv
<1> QED
  BY <1>1, Invariance, PTL

\* What a run adopts was reached on the workspace and the context it has.
THEOREM AdoptionIsSound == Spec => []AdoptedWasJudgedHere
<1>1. IInv => AdoptedWasJudgedHere
  BY DEF IInv, TypeOK, VerdictsAreGrounded, Grounded, AdoptedWasJudgedHere
<1> QED
  BY <1>1, Invariance, PTL

\* Runs over parts of the workspace accumulate.
THEOREM Accumulation == Spec => NarrowRunsAccumulate
<1> DEFINE Step ==
      \A m \in Mutants :
        /\ record' # record
        /\ m \in Settled(record, inputs, context, full, killers)
        /\ \A n \in selected : Home[n] # Home[m]
        => record'.entries[m] = record.entries[m]
<1>1. ASSUME IInv, [Next]_vars PROVE Step
  <2> SUFFICES ASSUME NEW m \in Mutants, record' # record,
                      m \in Settled(record, inputs, context, full, killers),
                      \A n \in selected : Home[n] # Home[m]
               PROVE  record'.entries[m] = record.entries[m]
    OBVIOUS
  <2>1. Store
    BY <1>1 DEF Next, vars, Survey, Capture, Adopt, Sweep, Draft, Refuse, Stop,
       CopyFile, Edit
  <2>2. ~ \E n \in Mutants : Home[n] = Home[m] /\ verdicts[n] # None
    BY <1>1 DEF IInv, VerdictsAreGrounded
  <2>3. Admitted(record, inputs, context, m) /\ Unmoved(record, Home[m])
    BY DEF Settled
  <2>4. Absorbing(record)[m] = record.entries[m]
    BY <2>2, <2>3 DEF Absorbing
  <2> QED
    BY <2>1, <2>4 DEF Store
<1>2. IInv /\ [Next]_vars => [Step]_vars
  BY <1>1
<1> QED
  BY <1>2, Invariance, PTL DEF Spec, NarrowRunsAccumulate

-----------------------------------------------------------------------------
(***************************************************************************)
(* The merge.                                                              *)
(***************************************************************************)
Less == {pair \in Nat \X Nat : pair[1] < pair[2]}

\* A set of natural numbers that is not empty has a least one.
LEMMA SomeLeast ==
  ASSUME NEW T \in SUBSET Nat, T # {}
  PROVE  \E x \in T : \A y \in T : x <= y
<1>1. IsWellFoundedOn(Less, Nat)
  BY NatLessThanWellFounded, Zenon DEF Less, OpToRel
<1>2. PICK x \in T : \A y \in T : ~(<<y, x>> \in Less)
  BY <1>1, WFMin
<1>3. \A i, j \in Nat : i < j => <<i, j>> \in Less
  BY DEF Less
<1>4. ASSUME NEW y \in T PROVE x <= y
  <2>1. x \in Nat /\ y \in Nat
    OBVIOUS
  <2>2. ~(y < x)
    BY <1>2, <1>3, <2>1
  <2> QED
    BY <2>1, <2>2
<1> QED
  BY <1>4

\* A rank is higher at the first place where two differ.
LEMMA HigherMeans ==
  ASSUME NEW a \in Ranks, NEW b \in Ranks
  PROVE  /\ a[1] \in Nat /\ a[2] \in Nat /\ a[3] \in Nat
         /\ Higher(a, b) <=> \/ a[1] > b[1]
                             \/ a[1] = b[1] /\ a[2] > b[2]
                             \/ a[1] = b[1] /\ a[2] = b[2] /\ a[3] > b[3]
<1>1. 1 .. 3 = {1, 2, 3} /\ 1 .. 1 - 1 = {} /\ 1 .. 2 - 1 = {1} /\ 1 .. 3 - 1 = {1, 2}
  OBVIOUS
<1> QED
  BY <1>1 DEF Higher, Ranks

\* Ranks are in one line.
LEMMA RanksInLine ==
  ASSUME NEW a \in Ranks, NEW b \in Ranks
  PROVE  /\ ~Higher(a, a)
         /\ ~(Higher(a, b) /\ Higher(b, a))
         /\ Higher(a, b) \/ Higher(b, a) \/ a = b
         /\ \A c \in Ranks : ~Higher(a, b) /\ ~Higher(b, c) => ~Higher(a, c)
<1>1. a = <<a[1], a[2], a[3]>> /\ b = <<b[1], b[2], b[3]>>
  BY DEF Ranks
<1>2. ~Higher(a, a) /\ ~(Higher(a, b) /\ Higher(b, a))
  BY HigherMeans
<1>3. Higher(a, b) \/ Higher(b, a) \/ a = b
  BY <1>1, HigherMeans
<1>4. ASSUME NEW c \in Ranks, ~Higher(a, b), ~Higher(b, c)
      PROVE  ~Higher(a, c)
  BY <1>4, HigherMeans
<1> QED
  BY <1>2, <1>3, <1>4

\* What Newest is meant to go through, up to n reports.
NewestUpTo(f, order, rs, n) ==
  f = [i \in 0 .. n |->
         IF i = 0 THEN << >>
         ELSE IF order[i] \in rs THEN Prefer(f[i - 1], order[i]) ELSE f[i - 1]]

\* However many reports there are, the fold has a result.
LEMMA NewestUpToExists ==
  ASSUME NEW order, NEW rs, NEW n \in Nat
  PROVE  \E f : NewestUpTo(f, order, rs, n)
<1> DEFINE T == {m \in Nat : ~\E f : NewestUpTo(f, order, rs, m)}
<1>1. SUFFICES ASSUME T # {} PROVE FALSE
  OBVIOUS
<1>2. PICK x \in T : \A y \in T : x <= y
  BY <1>1, SomeLeast
<1>3. CASE x = 0
  <2>1. NewestUpTo([i \in 0 .. 0 |-> << >>], order, rs, 0)
    BY DEF NewestUpTo
  <2> QED
    BY <1>2, <1>3, <2>1
<1>4. CASE x # 0
  <2>1. x - 1 \in Nat /\ x \in Nat /\ x - 1 \notin T
    BY <1>2, <1>4
  <2>2. PICK f : NewestUpTo(f, order, rs, x - 1)
    BY <2>1
  <2> DEFINE last == IF order[x] \in rs THEN Prefer(f[x - 1], order[x]) ELSE f[x - 1]
             g    == [i \in 0 .. x |-> IF i = x THEN last ELSE f[i]]
  <2>3. \A i \in 0 .. x - 1 :
          f[i] = IF i = 0 THEN << >>
                 ELSE IF order[i] \in rs THEN Prefer(f[i - 1], order[i]) ELSE f[i - 1]
    BY <2>1, <2>2 DEF NewestUpTo
  <2>4. ASSUME NEW i \in 0 .. x
        PROVE  g[i] = IF i = 0 THEN << >>
                      ELSE IF order[i] \in rs THEN Prefer(g[i - 1], order[i]) ELSE g[i - 1]
    <3>1. CASE i = x
      <4>1. g[i] = last /\ g[i - 1] = f[i - 1] /\ i # 0
        BY <1>4, <2>1, <3>1
      <4> QED
        BY <4>1, <3>1
    <3>2. CASE i # x
      <4>1. i \in 0 .. x - 1 /\ g[i] = f[i] /\ (i # 0 => g[i - 1] = f[i - 1])
        BY <2>1, <3>2
      <4> QED
        BY <2>3, <4>1
    <3> QED
      BY <3>1, <3>2
  <2> HIDE DEF last
  <2>5. NewestUpTo(g, order, rs, x)
    BY <2>1, <2>4 DEF NewestUpTo
  <2> QED
    BY <1>2, <2>5
<1> QED
  BY <1>3, <1>4

\* The newest of the reports rs in an order is one of them that no other is newer than.
LEMMA NewestIs ==
  ASSUME NEW S, \A r \in S : ReportOK(r), NEW order \in Seq(S), NEW rs
  PROVE  \/ /\ Newest(order, rs) = << >>
            /\ \A i \in DOMAIN order : order[i] \notin rs
         \/ \E k \in DOMAIN order :
              /\ Newest(order, rs) = <<order[k]>> /\ order[k] \in rs
              /\ \A i \in DOMAIN order : order[i] \in rs => ~Higher(order[i].source, order[k].source)
<1>1. /\ Len(order) \in Nat /\ DOMAIN order = 1 .. Len(order)
      /\ \A i \in DOMAIN order : order[i].source \in Ranks
  BY DEF ReportOK
<1>2. PICK f : NewestUpTo(f, order, rs, Len(order)) /\ Newest(order, rs) = f[Len(order)]
  <2> DEFINE g == CHOOSE f : NewestUpTo(f, order, rs, Len(order))
  <2>1. NewestUpTo(g, order, rs, Len(order))
    BY <1>1, NewestUpToExists
  <2>2. Newest(order, rs) = g[Len(order)]
    BY Zenon DEF NewestUpTo, Newest
  <2> QED
    BY <2>1, <2>2
<1>3. /\ f[0] = << >>
      /\ \A i \in 1 .. Len(order) :
           f[i] = IF order[i] \in rs THEN Prefer(f[i - 1], order[i]) ELSE f[i - 1]
  <2>1. f[0] = << >>
    BY <1>1, <1>2 DEF NewestUpTo
  <2>2. ASSUME NEW i \in 1 .. Len(order)
        PROVE  f[i] = IF order[i] \in rs THEN Prefer(f[i - 1], order[i]) ELSE f[i - 1]
    <3>1. i \in 0 .. Len(order) /\ i # 0
      BY <1>1
    <3> QED
      BY <1>2, <3>1, Zenon DEF NewestUpTo
  <2> QED
    BY <2>1, <2>2
<1> DEFINE Is(n) == \/ f[n] = << >> /\ \A i \in 1 .. n : order[i] \notin rs
                    \/ \E k \in 1 .. n :
                         /\ f[n] = <<order[k]>> /\ order[k] \in rs
                         /\ \A i \in 1 .. n : order[i] \in rs => ~Higher(order[i].source, order[k].source)
           T == {n \in 0 .. Len(order) : ~Is(n)}
<1>4. Is(0)
  BY <1>3
<1>5. ASSUME NEW n \in 1 .. Len(order), Is(n - 1)
      PROVE  Is(n)
  <2>1. n - 1 \in Nat /\ n \in Nat /\ 1 .. n = 1 .. (n - 1) \union {n} /\ n \in 1 .. n
    BY <1>1
  <2>2. \A i \in 1 .. n : i \in DOMAIN order /\ order[i].source \in Ranks
    BY <1>1, <2>1
  <2>3. CASE order[n] \notin rs
    <3>1. f[n] = f[n - 1]
      BY <1>3, <2>3
    <3> QED
      BY <1>5, <2>1, <2>3, <3>1
  <2>4. CASE order[n] \in rs
    <3>1. f[n] = Prefer(f[n - 1], order[n])
      BY <1>3, <2>4
    <3>2. ~Higher(order[n].source, order[n].source)
      BY <2>1, <2>2, RanksInLine
    <3>3. CASE f[n - 1] = << >> /\ \A i \in 1 .. (n - 1) : order[i] \notin rs
      <4>1. f[n] = <<order[n]>>
        BY <3>1, <3>3 DEF Prefer
      <4> QED
        BY <2>1, <2>4, <3>2, <3>3, <4>1
    <3>4. CASE \E k \in 1 .. (n - 1) :
                 /\ f[n - 1] = <<order[k]>> /\ order[k] \in rs
                 /\ \A i \in 1 .. (n - 1) : order[i] \in rs => ~Higher(order[i].source, order[k].source)
      <4>1. PICK k \in 1 .. (n - 1) :
                 /\ f[n - 1] = <<order[k]>> /\ order[k] \in rs
                 /\ \A i \in 1 .. (n - 1) : order[i] \in rs => ~Higher(order[i].source, order[k].source)
        BY <3>4
      <4>2. CASE Higher(order[n].source, order[k].source)
        <5>1. f[n] = <<order[n]>>
          BY <3>1, <4>1, <4>2 DEF Prefer
        <5>2. ASSUME NEW i \in 1 .. n, order[i] \in rs
              PROVE  ~Higher(order[i].source, order[n].source)
          <6>1. CASE i = n
            BY <3>2, <6>1
          <6>2. CASE i \in 1 .. (n - 1)
            <7>1. ~Higher(order[i].source, order[k].source) /\ ~Higher(order[k].source, order[n].source)
              BY <2>1, <2>2, <4>1, <4>2, <5>2, <6>2, RanksInLine
            <7> QED
              BY <2>1, <2>2, <4>1, <6>2, <7>1, RanksInLine
          <6> QED
            BY <2>1, <6>1, <6>2
        <5> QED
          BY <2>1, <2>4, <5>1, <5>2
      <4>3. CASE ~Higher(order[n].source, order[k].source)
        <5>1. f[n] = <<order[k]>>
          <6>1. <<order[k]>> # << >> /\ <<order[k]>>[1] = order[k]
            OBVIOUS
          <6> QED
            BY <3>1, <4>1, <4>3, <6>1 DEF Prefer
        <5> QED
          BY <2>1, <4>1, <4>3, <5>1
      <4> QED
        BY <4>2, <4>3
    <3> QED
      BY <1>5, <3>3, <3>4
  <2> QED
    BY <2>3, <2>4
<1>6. T = {}
  <2>1. SUFFICES ASSUME T # {} PROVE FALSE
    OBVIOUS
  <2>2. T \in SUBSET Nat
    BY <1>1
  <2>3. PICK x \in T : \A y \in T : x <= y
    BY <2>1, <2>2, SomeLeast
  <2>4. x \in 0 .. Len(order) /\ ~Is(x)
    BY <2>3
  <2> HIDE DEF Is
  <2>5. x \in 1 .. Len(order)
    BY <1>1, <1>4, <2>4
  <2>6. x - 1 \in 0 .. Len(order) /\ ~(x <= x - 1)
    BY <1>1, <2>5
  <2>7. Is(x - 1)
    BY <2>3, <2>6
  <2> QED
    BY <1>5, <2>4, <2>5, <2>7
<1>7. Is(Len(order))
  BY <1>1, <1>6
<1> QED
  BY <1>1, <1>2, <1>7

\* A report's verdict on a mutant outranks that of another.
Beats(r, s, id) ==
  \/ r.status[id] # Pending /\ s.status[id] = Pending
  \/ ((r.status[id] = Pending) <=> (s.status[id] = Pending)) /\ Higher(r.tested[id], s.tested[id])

\* Verdicts are in one line, and two of one place are the same.
LEMMA VerdictsInLine ==
  ASSUME NEW id, NEW r, ReportOK(r), id \in Lists(r), NEW s, ReportOK(s), id \in Lists(s)
  PROVE  /\ ~Beats(r, r, id)
         /\ ~(Beats(r, s, id) /\ Beats(s, r, id))
         /\ Beats(r, s, id) \/ Beats(s, r, id) \/ (r.status[id] = s.status[id] /\ r.tested[id] = s.tested[id])
         /\ \A t : ReportOK(t) /\ id \in Lists(t) /\ ~Beats(r, s, id) /\ ~Beats(s, t, id) => ~Beats(r, t, id)
<1>1. \A q : ReportOK(q) /\ id \in Lists(q) =>
        /\ q.tested[id] \in Ranks /\ q.status[id] \in Statuses
        /\ q.tested[id][3] = Lineage[q.status[id]]
  BY DEF ReportOK, Lists
<1>2. ~Beats(r, r, id) /\ ~(Beats(r, s, id) /\ Beats(s, r, id))
  BY <1>1, RanksInLine DEF Beats
<1>3. Beats(r, s, id) \/ Beats(s, r, id) \/ (r.status[id] = s.status[id] /\ r.tested[id] = s.tested[id])
  <2>1. Higher(r.tested[id], s.tested[id]) \/ Higher(s.tested[id], r.tested[id]) \/ r.tested[id] = s.tested[id]
    BY <1>1, RanksInLine
  <2>2. r.tested[id] = s.tested[id] => r.status[id] = s.status[id]
    BY <1>1, MergeAssumption
  <2> QED
    BY <2>1, <2>2 DEF Beats
<1>4. ASSUME NEW t, ReportOK(t), id \in Lists(t), ~Beats(r, s, id), ~Beats(s, t, id)
      PROVE  ~Beats(r, t, id)
  <2>1. r.tested[id] \in Ranks /\ s.tested[id] \in Ranks /\ t.tested[id] \in Ranks
    BY <1>1, <1>4
  <2>2. ~Higher(r.tested[id], s.tested[id]) /\ ~Higher(s.tested[id], t.tested[id]) =>
          ~Higher(r.tested[id], t.tested[id])
    BY <2>1, RanksInLine
  <2> QED
    BY <1>4, <2>2 DEF Beats
<1> QED
  BY <1>2, <1>3, <1>4

\* What Latest is meant to go through, up to n reports.
LatestUpTo(f, order, id, n) ==
  f = [i \in 0 .. n |->
         IF i = 0 THEN << >>
         ELSE IF Admits(order, order[i], id)
           THEN Retain(f[i - 1], Candidate(order, order[i], id)) ELSE f[i - 1]]

\* However many reports there are, the fold has a result.
LEMMA LatestUpToExists ==
  ASSUME NEW order, NEW id, NEW n \in Nat
  PROVE  \E f : LatestUpTo(f, order, id, n)
<1> DEFINE T == {m \in Nat : ~\E f : LatestUpTo(f, order, id, m)}
<1>1. SUFFICES ASSUME T # {} PROVE FALSE
  OBVIOUS
<1>2. PICK x \in T : \A y \in T : x <= y
  BY <1>1, SomeLeast
<1>3. CASE x = 0
  <2>1. LatestUpTo([i \in 0 .. 0 |-> << >>], order, id, 0)
    BY DEF LatestUpTo
  <2> QED
    BY <1>2, <1>3, <2>1
<1>4. CASE x # 0
  <2>1. x - 1 \in Nat /\ x \in Nat /\ x - 1 \notin T
    BY <1>2, <1>4
  <2>2. PICK f : LatestUpTo(f, order, id, x - 1)
    BY <2>1
  <2> DEFINE step(g, i) == IF Admits(order, order[i], id)
                             THEN Retain(g[i - 1], Candidate(order, order[i], id)) ELSE g[i - 1]
             last == step(f, x)
             h    == [i \in 0 .. x |-> IF i = x THEN last ELSE f[i]]
  <2>3. \A i \in 0 .. x - 1 : f[i] = IF i = 0 THEN << >> ELSE step(f, i)
    BY <2>1, <2>2 DEF LatestUpTo
  <2>4. ASSUME NEW i \in 0 .. x
        PROVE  h[i] = IF i = 0 THEN << >> ELSE step(h, i)
    <3>1. CASE i = x
      <4>1. h[i] = last /\ h[i - 1] = f[i - 1] /\ i # 0
        BY <1>4, <2>1, <3>1
      <4> QED
        BY <4>1, <3>1
    <3>2. CASE i # x
      <4>1. i \in 0 .. x - 1 /\ h[i] = f[i] /\ (i # 0 => h[i - 1] = f[i - 1])
        BY <2>1, <3>2
      <4> QED
        BY <2>3, <4>1
    <3> QED
      BY <3>1, <3>2
  <2> HIDE DEF last
  <2>5. LatestUpTo(h, order, id, x)
    BY <2>1, <2>4 DEF LatestUpTo
  <2> QED
    BY <1>2, <2>5
<1> QED
  BY <1>3, <1>4

\* The reports whose text is rendered, if it is that of this one.
Fits(order, r) == {source \in Range(Selected(order)) : r.text = source.text}

\* What is kept of identity id after the first n of order, the verdict being the k-th's.
KeptOf(order, id, k, n) ==
  [status |-> order[k].status[id], tested |-> order[k].tested[id],
   fits |-> UNION {Fits(order, order[i]) : i \in {j \in 1 .. n : Admits(order, order[j], id)}}]

\* The verdict kept is one that is admitted and that no other outranks, and it is shown
\* if some report that is admitted fits.
LEMMA LatestIs ==
  ASSUME NEW S, \A r \in S : ReportOK(r), NEW order \in Seq(S), NEW id
  PROVE  \/ /\ Latest(order, id) = << >>
            /\ \A i \in DOMAIN order : ~Admits(order, order[i], id)
         \/ \E k \in DOMAIN order :
              /\ Latest(order, id) = <<KeptOf(order, id, k, Len(order))>>
              /\ Admits(order, order[k], id)
              /\ \A i \in DOMAIN order : Admits(order, order[i], id) => ~Beats(order[i], order[k], id)
<1>1. /\ Len(order) \in Nat /\ DOMAIN order = 1 .. Len(order)
      /\ \A i \in DOMAIN order : ReportOK(order[i])
  OBVIOUS
<1>2. PICK f : LatestUpTo(f, order, id, Len(order)) /\ Latest(order, id) = f[Len(order)]
  <2> DEFINE g == CHOOSE f : LatestUpTo(f, order, id, Len(order))
  <2>1. LatestUpTo(g, order, id, Len(order))
    BY <1>1, LatestUpToExists
  <2>2. Latest(order, id) = g[Len(order)]
    BY Zenon DEF LatestUpTo, Latest
  <2> QED
    BY <2>1, <2>2
<1>3. /\ f[0] = << >>
      /\ \A i \in 1 .. Len(order) :
           f[i] = IF Admits(order, order[i], id)
                    THEN Retain(f[i - 1], Candidate(order, order[i], id)) ELSE f[i - 1]
  <2>1. f[0] = << >>
    BY <1>1, <1>2 DEF LatestUpTo
  <2>2. ASSUME NEW i \in 1 .. Len(order)
        PROVE  f[i] = IF Admits(order, order[i], id)
                        THEN Retain(f[i - 1], Candidate(order, order[i], id)) ELSE f[i - 1]
    <3>1. i \in 0 .. Len(order) /\ i # 0
      BY <1>1
    <3> QED
      BY <1>2, <3>1, Zenon DEF LatestUpTo
  <2> QED
    BY <2>1, <2>2
<1> DEFINE In(i) == Admits(order, order[i], id)
           Is(n) == \/ f[n] = << >> /\ \A i \in 1 .. n : ~In(i)
                    \/ \E k \in 1 .. n :
                         /\ f[n] = <<KeptOf(order, id, k, n)>> /\ In(k)
                         /\ \A i \in 1 .. n : In(i) => ~Beats(order[i], order[k], id)
           T == {n \in 0 .. Len(order) : ~Is(n)}
<1>4. Is(0)
  BY <1>3
<1>5. ASSUME NEW n \in 1 .. Len(order), Is(n - 1)
      PROVE  Is(n)
  <2>1. n - 1 \in Nat /\ n \in Nat /\ 1 .. n = 1 .. (n - 1) \union {n} /\ n \in 1 .. n
    BY <1>1
  <2>2. \A i \in 1 .. n : i \in DOMAIN order /\ ReportOK(order[i]) /\ (In(i) => id \in Lists(order[i]))
    BY <1>1, <2>1 DEF Admits
  <2> DEFINE c == Candidate(order, order[n], id)
  <2>0. /\ c.status = order[n].status[id] /\ c.tested = order[n].tested[id]
        /\ c = [status |-> c.status, tested |-> c.tested, fits |-> Fits(order, order[n])]
    BY DEF Candidate, Fits
  <2> HIDE DEF c
  <2>3. CASE ~In(n)
    <3>1. f[n] = f[n - 1]
      BY <1>3, <2>3
    <3>2. \A k : KeptOf(order, id, k, n) = KeptOf(order, id, k, n - 1)
      BY <2>1, <2>3 DEF KeptOf
    <3> QED
      BY <1>5, <2>1, <2>3, <3>1, <3>2
  <2>4. CASE In(n)
    <3>1. f[n] = Retain(f[n - 1], c)
      BY <1>3, <2>4 DEF c
    <3>2. ~Beats(order[n], order[n], id)
      BY <2>1, <2>2, <2>4, VerdictsInLine
    <3>3. CASE f[n - 1] = << >> /\ \A i \in 1 .. (n - 1) : ~In(i)
      <4>1. f[n] = <<c>>
        BY <3>1, <3>3 DEF Retain
      <4>2. UNION {Fits(order, order[i]) : i \in {j \in 1 .. n : In(j)}} = Fits(order, order[n])
        BY <2>1, <2>4, <3>3
      <4>3. c = KeptOf(order, id, n, n)
        BY <2>0, <4>2 DEF KeptOf
      <4> QED
        BY <2>1, <2>4, <3>2, <3>3, <4>1, <4>3
    <3>4. CASE \E k \in 1 .. (n - 1) :
                 /\ f[n - 1] = <<KeptOf(order, id, k, n - 1)>> /\ In(k)
                 /\ \A i \in 1 .. (n - 1) : In(i) => ~Beats(order[i], order[k], id)
      <4>1. PICK k \in 1 .. (n - 1) :
                 /\ f[n - 1] = <<KeptOf(order, id, k, n - 1)>> /\ In(k)
                 /\ \A i \in 1 .. (n - 1) : In(i) => ~Beats(order[i], order[k], id)
        BY <3>4
      <4> DEFINE held == KeptOf(order, id, k, n - 1)
      <4>2. /\ held.status = order[k].status[id] /\ held.tested = order[k].tested[id]
            /\ f[n - 1] # << >> /\ f[n - 1][1] = held
        BY <4>1 DEF KeptOf
      <4>3. f[n] = <<[(IF Outranks(c, held) THEN c ELSE held) EXCEPT !.fits = held.fits \union c.fits]>>
        BY <3>1, <4>2, Zenon DEF Retain
      <4>4. Outranks(c, held) <=> Beats(order[n], order[k], id)
        BY <2>0, <4>2 DEF Outranks, Beats
      <4>5. held.fits \union c.fits = UNION {Fits(order, order[i]) : i \in {j \in 1 .. n : In(j)}}
        <5>1. held.fits = UNION {Fits(order, order[i]) : i \in {j \in 1 .. n - 1 : In(j)}}
          BY DEF KeptOf
        <5>2. c.fits = Fits(order, order[n])
          BY <2>0
        <5> QED
          BY <2>1, <2>4, <5>1, <5>2
      <4>7. CASE Beats(order[n], order[k], id)
        <5>1. f[n] = <<KeptOf(order, id, n, n)>>
          <6>1. f[n] = <<[c EXCEPT !.fits = held.fits \union c.fits]>>
            BY <4>3, <4>4, <4>7
          <6>2. [c EXCEPT !.fits = held.fits \union c.fits]
                  = [status |-> order[n].status[id], tested |-> order[n].tested[id],
                     fits |-> held.fits \union c.fits]
            <7>1. \A v : [c EXCEPT !.fits = v]
                            = [status |-> order[n].status[id], tested |-> order[n].tested[id], fits |-> v]
              BY <2>0
            <7> QED
              BY <7>1
          <6>3. KeptOf(order, id, n, n)
                  = [status |-> order[n].status[id], tested |-> order[n].tested[id],
                     fits |-> held.fits \union c.fits]
            BY <4>5 DEF KeptOf
          <6> QED
            BY <6>1, <6>2, <6>3
        <5>2. ASSUME NEW i \in 1 .. n, In(i)
              PROVE  ~Beats(order[i], order[n], id)
          <6>1. CASE i = n
            BY <3>2, <6>1
          <6>2. CASE i \in 1 .. (n - 1)
            <7>1. ~Beats(order[i], order[k], id) /\ ~Beats(order[k], order[n], id)
              BY <2>1, <2>2, <2>4, <4>1, <4>7, <5>2, <6>2, VerdictsInLine
            <7>2. /\ ReportOK(order[i]) /\ id \in Lists(order[i]) /\ ReportOK(order[k]) /\ id \in Lists(order[k])
                  /\ ReportOK(order[n]) /\ id \in Lists(order[n])
              BY <2>1, <2>2, <2>4, <4>1, <5>2
            <7> QED
              BY <7>1, <7>2, VerdictsInLine
          <6> QED
            BY <2>1, <6>1, <6>2
        <5> QED
          BY <2>1, <2>4, <5>1, <5>2
      <4>8. CASE ~Beats(order[n], order[k], id)
        <5>1. f[n] = <<KeptOf(order, id, k, n)>>
          <6>1. f[n] = <<[held EXCEPT !.fits = held.fits \union c.fits]>>
            BY <4>3, <4>4, <4>8
          <6>2. [held EXCEPT !.fits = held.fits \union c.fits]
                  = [status |-> order[k].status[id], tested |-> order[k].tested[id],
                     fits |-> held.fits \union c.fits]
            <7>1. PICK u : held = [status |-> order[k].status[id], tested |-> order[k].tested[id], fits |-> u]
              BY DEF KeptOf
            <7> HIDE DEF held
            <7>2. \A v : [held EXCEPT !.fits = v]
                            = [status |-> order[k].status[id], tested |-> order[k].tested[id], fits |-> v]
              BY <7>1
            <7> QED
              BY <7>2
          <6>3. KeptOf(order, id, k, n)
                  = [status |-> order[k].status[id], tested |-> order[k].tested[id],
                     fits |-> held.fits \union c.fits]
            BY <4>5 DEF KeptOf
          <6> QED
            BY <6>1, <6>2, <6>3
        <5> QED
          BY <2>1, <4>1, <4>8, <5>1
      <4> QED
        BY <4>7, <4>8
    <3> QED
      BY <1>5, <3>3, <3>4
  <2> QED
    BY <2>3, <2>4
<1>6. T = {}
  <2>1. SUFFICES ASSUME T # {} PROVE FALSE
    OBVIOUS
  <2>2. T \in SUBSET Nat
    BY <1>1
  <2>3. PICK x \in T : \A y \in T : x <= y
    BY <2>1, <2>2, SomeLeast
  <2>4. x \in 0 .. Len(order) /\ ~Is(x)
    BY <2>3
  <2> HIDE DEF Is
  <2>5. x \in 1 .. Len(order)
    BY <1>1, <1>4, <2>4
  <2>6. x - 1 \in 0 .. Len(order) /\ ~(x <= x - 1)
    BY <1>1, <2>5
  <2>7. Is(x - 1)
    BY <2>3, <2>6
  <2> QED
    BY <1>5, <2>4, <2>5, <2>7
<1>7. Is(Len(order))
  BY <1>1, <1>6
<1> QED
  BY <1>1, <1>2, <1>7

\* The arguments of a merge in some order: all of them, and sound.
Given(order, rs) ==
  /\ order \in Seq(rs) /\ Range(order) = rs
  /\ \A r \in rs : ReportOK(r) /\ (~r.merged => r.source[2] = r.name)
  /\ \A r, s \in rs : r.name = s.name => r = s

\* The newest of some reports is the same whatever the order, but for another of the
\* same rank.
LEMMA NewestOf ==
  ASSUME NEW rs, NEW order, Given(order, rs), NEW cs \in SUBSET rs
  PROVE  \/ Newest(order, cs) = << >> /\ cs = {}
         \/ \E r \in cs : Newest(order, cs) = <<r>> /\ \A q \in cs : ~Higher(q.source, r.source)
<1>1. order \in Seq(rs) /\ \A r \in rs : ReportOK(r)
  BY DEF Given
<1>2. (\A i \in DOMAIN order : order[i] \in rs) /\ \A r \in rs : \E i \in DOMAIN order : order[i] = r
  BY DEF Given, Range
<1>3. \/ /\ Newest(order, cs) = << >>
         /\ \A i \in DOMAIN order : order[i] \notin cs
      \/ \E k \in DOMAIN order :
           /\ Newest(order, cs) = <<order[k]>> /\ order[k] \in cs
           /\ \A i \in DOMAIN order : order[i] \in cs => ~Higher(order[i].source, order[k].source)
  BY <1>1, NewestIs
<1>4. CASE Newest(order, cs) = << >> /\ \A i \in DOMAIN order : order[i] \notin cs
  BY <1>2, <1>4
<1>5. ASSUME NEW k \in DOMAIN order,
             Newest(order, cs) = <<order[k]>>, order[k] \in cs,
             \A i \in DOMAIN order : order[i] \in cs => ~Higher(order[i].source, order[k].source)
      PROVE  \E r \in cs : Newest(order, cs) = <<r>> /\ \A q \in cs : ~Higher(q.source, r.source)
  <2>1. \A q \in cs : ~Higher(q.source, order[k].source)
    BY <1>2, <1>5
  <2> QED
    BY <1>5, <2>1
<1> QED
  BY <1>3, <1>4, <1>5

\* The population is the same whatever the order: of complete reports, which are none of
\* them merged, two of one rank have one path.
LEMMA OnePopulation ==
  ASSUME NEW rs, NEW a, NEW b, Given(a, rs), Given(b, rs)
  PROVE  Population(a) = Population(b)
<1> DEFINE cs == {r \in rs : Complete(r)}
<1>1. Population(a) = Newest(a, cs) /\ Population(b) = Newest(b, cs)
  BY DEF Population, Given
<1>2. \A r, q \in cs : ~Higher(q.source, r.source) /\ ~Higher(r.source, q.source) => r = q
  <2>1. ASSUME NEW r \in cs, NEW q \in cs, ~Higher(q.source, r.source), ~Higher(r.source, q.source)
        PROVE  r = q
    <3>1. r.source \in Ranks /\ q.source \in Ranks /\ r.source[2] = r.name /\ q.source[2] = q.name
      BY DEF Given, Complete, ReportOK
    <3>2. r.source = q.source
      BY <2>1, <3>1, RanksInLine
    <3> QED
      BY <3>1, <3>2 DEF Given
  <2> QED
    BY <2>1
<1> HIDE DEF cs
<1>3. cs \in SUBSET rs
  BY DEF cs
<1>4. \/ Newest(a, cs) = << >> /\ cs = {}
      \/ \E r \in cs : Newest(a, cs) = <<r>> /\ \A q \in cs : ~Higher(q.source, r.source)
  BY <1>3, NewestOf
<1>5. \/ Newest(b, cs) = << >> /\ cs = {}
      \/ \E r \in cs : Newest(b, cs) = <<r>> /\ \A q \in cs : ~Higher(q.source, r.source)
  BY <1>3, NewestOf
<1> QED
  BY <1>1, <1>2, <1>4, <1>5

\* The text that is rendered is the same whatever the order.
LEMMA OneText ==
  ASSUME NEW rs, NEW a, NEW b, Given(a, rs), Given(b, rs)
  PROVE  \/ Selected(a) = << >> /\ Selected(b) = << >>
         \/ \E r, q \in rs : /\ Selected(a) = <<r>> /\ Selected(b) = <<q>>
                             /\ r.source = q.source /\ r.text = q.text
<1> DEFINE cs == {r \in rs : Lists(r) # {}}
<1>1. Selected(a) = Newest(a, cs) /\ Selected(b) = Newest(b, cs)
  BY DEF Selected, Given
<1>2. \A r, q \in cs : ~Higher(q.source, r.source) /\ ~Higher(r.source, q.source) =>
                          r.source = q.source /\ r.text = q.text
  <2>1. ASSUME NEW r \in cs, NEW q \in cs, ~Higher(q.source, r.source), ~Higher(r.source, q.source)
        PROVE  r.source = q.source /\ r.text = q.text
    <3>1. r.source \in Ranks /\ q.source \in Ranks /\ r.source[3] = r.text /\ q.source[3] = q.text
      BY DEF Given, ReportOK
    <3>2. r.source = q.source
      BY <2>1, <3>1, RanksInLine
    <3> QED
      BY <3>1, <3>2
  <2> QED
    BY <2>1
<1> HIDE DEF cs
<1>3. cs \in SUBSET rs
  BY DEF cs
<1>4. \/ Newest(a, cs) = << >> /\ cs = {}
      \/ \E r \in cs : Newest(a, cs) = <<r>> /\ \A q \in cs : ~Higher(q.source, r.source)
  BY <1>3, NewestOf
<1>5. \/ Newest(b, cs) = << >> /\ cs = {}
      \/ \E r \in cs : Newest(b, cs) = <<r>> /\ \A q \in cs : ~Higher(q.source, r.source)
  BY <1>3, NewestOf
<1> QED
  BY <1>1, <1>2, <1>3, <1>4, <1>5

\* LatestIs, of the reports as a set.
LEMMA LatestOf ==
  ASSUME NEW rs, NEW order, Given(order, rs), NEW id
  PROVE  \/ /\ Latest(order, id) = << >>
            /\ \A r \in rs : ~Admits(order, r, id)
         \/ \E r \in rs :
              /\ Admits(order, r, id) /\ Latest(order, id) # << >>
              /\ Latest(order, id)[1].status = r.status[id] /\ Latest(order, id)[1].tested = r.tested[id]
              /\ Latest(order, id)[1].fits # {} <=>
                   \E q \in rs : Admits(order, q, id) /\ Fits(order, q) # {}
              /\ \A q \in rs : Admits(order, q, id) => ~Beats(q, r, id)
<1>1. order \in Seq(rs) /\ \A r \in rs : ReportOK(r)
  BY DEF Given
<1>2. (\A i \in DOMAIN order : order[i] \in rs) /\ \A r \in rs : \E i \in DOMAIN order : order[i] = r
  BY DEF Given, Range
<1>3. \/ /\ Latest(order, id) = << >>
         /\ \A i \in DOMAIN order : ~Admits(order, order[i], id)
      \/ \E k \in DOMAIN order :
           /\ Latest(order, id) = <<KeptOf(order, id, k, Len(order))>>
           /\ Admits(order, order[k], id)
           /\ \A i \in DOMAIN order : Admits(order, order[i], id) => ~Beats(order[i], order[k], id)
  BY <1>1, LatestIs
<1>4. CASE Latest(order, id) = << >> /\ \A i \in DOMAIN order : ~Admits(order, order[i], id)
  BY <1>2, <1>4
<1>5. ASSUME NEW k \in DOMAIN order,
             Latest(order, id) = <<KeptOf(order, id, k, Len(order))>>,
             Admits(order, order[k], id),
             \A i \in DOMAIN order : Admits(order, order[i], id) => ~Beats(order[i], order[k], id)
      PROVE  \E r \in rs :
              /\ Admits(order, r, id) /\ Latest(order, id) # << >>
              /\ Latest(order, id)[1].status = r.status[id] /\ Latest(order, id)[1].tested = r.tested[id]
              /\ Latest(order, id)[1].fits # {} <=>
                   \E q \in rs : Admits(order, q, id) /\ Fits(order, q) # {}
              /\ \A q \in rs : Admits(order, q, id) => ~Beats(q, r, id)
  <2> DEFINE kept == KeptOf(order, id, k, Len(order))
  <2>1. Latest(order, id) # << >> /\ Latest(order, id)[1] = kept
    BY <1>5
  <2>2. kept.status = order[k].status[id] /\ kept.tested = order[k].tested[id]
    BY DEF KeptOf
  <2>3. kept.fits # {} <=> \E q \in rs : Admits(order, q, id) /\ Fits(order, q) # {}
    <3>1. kept.fits = UNION {Fits(order, order[i]) : i \in {j \in DOMAIN order : Admits(order, order[j], id)}}
      BY <1>1 DEF KeptOf
    <3>2. kept.fits # {} <=> \E i \in DOMAIN order : Admits(order, order[i], id) /\ Fits(order, order[i]) # {}
      BY <3>1
    <3> QED
      BY <1>2, <3>2
  <2>4. \A q \in rs : Admits(order, q, id) => ~Beats(q, order[k], id)
    BY <1>2, <1>5
  <2> HIDE DEF kept
  <2> QED
    BY <1>2, <1>5, <2>1, <2>2, <2>3, <2>4
<1> QED
  BY <1>3, <1>4, <1>5

\* A sequence of one has the one.
LEMMA RangeOfOne ==
  ASSUME NEW r
  PROVE  Range(<<r>>) = {r}
<1>1. DOMAIN <<r>> = {1} /\ <<r>>[1] = r
  OBVIOUS
<1> QED
  BY <1>1 DEF Range

\* Whose verdict is kept of an identity, in whatever order: one that no other outranks.
LEMMA OneVerdict ==
  ASSUME NEW rs, NEW a, NEW b, Given(a, rs), Given(b, rs), NEW id
  PROVE  /\ Latest(a, id) = << >> <=> Latest(b, id) = << >>
         /\ Latest(a, id) # << >> =>
              /\ Latest(a, id)[1].status = Latest(b, id)[1].status
              /\ Latest(a, id)[1].tested = Latest(b, id)[1].tested
              /\ Latest(a, id)[1].fits # {} <=> Latest(b, id)[1].fits # {}
<1>1. \A r : Admits(a, r, id) <=> Admits(b, r, id)
  BY OnePopulation DEF Admits, Withdraws
<1>2. \A r : Fits(a, r) # {} <=> Fits(b, r) # {}
  <2>1. CASE Selected(a) = << >> /\ Selected(b) = << >>
    BY <2>1 DEF Fits
  <2>2. ASSUME NEW r \in rs, NEW q \in rs, Selected(a) = <<r>>, Selected(b) = <<q>>, r.text = q.text
        PROVE  \A s : Fits(a, s) # {} <=> Fits(b, s) # {}
    <3>1. Range(Selected(a)) = {r} /\ Range(Selected(b)) = {q}
      BY <2>2, RangeOfOne
    <3> QED
      BY <2>2, <3>1 DEF Fits
  <2> QED
    BY <2>1, <2>2, OneText
<1>3. CASE \A r \in rs : ~Admits(a, r, id)
  BY <1>1, <1>3, LatestOf
<1>4. CASE \E r \in rs : Admits(a, r, id)
  <2>1. PICK r \in rs :
          /\ Admits(a, r, id) /\ Latest(a, id) # << >>
          /\ Latest(a, id)[1].status = r.status[id] /\ Latest(a, id)[1].tested = r.tested[id]
          /\ Latest(a, id)[1].fits # {} <=> \E q \in rs : Admits(a, q, id) /\ Fits(a, q) # {}
          /\ \A q \in rs : Admits(a, q, id) => ~Beats(q, r, id)
    BY <1>4, LatestOf
  <2>2. PICK s \in rs :
          /\ Admits(b, s, id) /\ Latest(b, id) # << >>
          /\ Latest(b, id)[1].status = s.status[id] /\ Latest(b, id)[1].tested = s.tested[id]
          /\ Latest(b, id)[1].fits # {} <=> \E q \in rs : Admits(b, q, id) /\ Fits(b, q) # {}
          /\ \A q \in rs : Admits(b, q, id) => ~Beats(q, s, id)
    BY <1>1, <1>4, LatestOf
  <2>3. ReportOK(r) /\ id \in Lists(r) /\ ReportOK(s) /\ id \in Lists(s)
    BY <2>1, <2>2 DEF Given, Admits
  <2>4. ~Beats(s, r, id) /\ ~Beats(r, s, id)
    BY <1>1, <2>1, <2>2
  <2>5. r.status[id] = s.status[id] /\ r.tested[id] = s.tested[id]
    BY <2>3, <2>4, VerdictsInLine
  <2>6. (\E q \in rs : Admits(a, q, id) /\ Fits(a, q) # {}) <=> (\E q \in rs : Admits(b, q, id) /\ Fits(b, q) # {})
    BY <1>1, <1>2
  <2> QED
    BY <2>1, <2>2, <2>5, <2>6
<1> QED
  BY <1>3, <1>4

\* The parts of what a merge concludes that the order could make a difference to.
Held(order)  == {id \in Ids : Latest(order, id) # << >>}
Shown(order) == {id \in Held(order) : Latest(order, id)[1].fits # {}}
Of(order)    == IF Shown(order) = {} THEN {} ELSE Range(Selected(order))

\* Union, from its parts.
LEMMA UnionIs ==
  ASSUME NEW order
  PROVE  Union(order) =
    [source       |-> {r.source : r \in Of(order)},
     text         |-> {r.text : r \in Of(order)},
     status       |-> [id \in Shown(order) |-> Latest(order, id)[1].status],
     tested       |-> [id \in Shown(order) |-> Latest(order, id)[1].tested],
     incompatible |-> Held(order) \ Shown(order),
     withdrawn    |-> {id \in Ids : \E r \in Range(order) : Withdraws(order, r, id)},
     count        |-> Rotation(Range(order)),
     seen         |-> {r.shard.index : r \in {r \in Range(order) : r.shard # Whole}},
     inconsistent |-> {r.name : r \in {s \in {r \in Range(order) : r.shard # Whole} :
                                         s.shard.count # Rotation(Range(order))}}]
<1> DEFINE latest == [id \in Ids |-> Latest(order, id)]
           held   == {id \in Ids : latest[id] # << >>}
           shown  == {id \in held : latest[id][1].fits # {}}
           of     == IF shown = {} THEN {} ELSE Range(Selected(order))
<1>1. held = Held(order)
  BY DEF Held
<1>2. shown = Shown(order)
  BY <1>1 DEF Shown, Held
<1>3. of = Of(order)
  BY <1>2 DEF Of
<1>4. /\ [id \in shown |-> latest[id][1].status] = [id \in Shown(order) |-> Latest(order, id)[1].status]
      /\ [id \in shown |-> latest[id][1].tested] = [id \in Shown(order) |-> Latest(order, id)[1].tested]
  BY <1>2 DEF Shown, Held
<1>5. Union(order) =
    [source       |-> {r.source : r \in of},
     text         |-> {r.text : r \in of},
     status       |-> [id \in shown |-> latest[id][1].status],
     tested       |-> [id \in shown |-> latest[id][1].tested],
     incompatible |-> held \ shown,
     withdrawn    |-> {id \in Ids : \E r \in Range(order) : Withdraws(order, r, id)},
     count        |-> Rotation(Range(order)),
     seen         |-> {r.shard.index : r \in {r \in Range(order) : r.shard # Whole}},
     inconsistent |-> {r.name : r \in {s \in {r \in Range(order) : r.shard # Whole} :
                                         s.shard.count # Rotation(Range(order))}}]
  BY Zenon DEF Union
<1> HIDE DEF of, shown, held, latest
<1> QED
  BY <1>1, <1>2, <1>3, <1>4, <1>5, Zenon

\* Whatever the order, the answer is the same.
LEMMA OneAnswer ==
  ASSUME NEW rs, NEW a, NEW b, Given(a, rs), Given(b, rs)
  PROVE  Union(a) = Union(b)
<1>1. Held(a) = Held(b) /\ Shown(a) = Shown(b)
  BY OneVerdict DEF Held, Shown
<1>2. /\ [id \in Shown(a) |-> Latest(a, id)[1].status] = [id \in Shown(b) |-> Latest(b, id)[1].status]
      /\ [id \in Shown(a) |-> Latest(a, id)[1].tested] = [id \in Shown(b) |-> Latest(b, id)[1].tested]
  <2>1. \A id \in Shown(a) : /\ Latest(a, id)[1].status = Latest(b, id)[1].status
                             /\ Latest(a, id)[1].tested = Latest(b, id)[1].tested
    BY OneVerdict DEF Held, Shown
  <2> QED
    BY <1>1, <2>1
<1> DEFINE Sources(order)  == {r.source : r \in Of(order)}
           Wordings(order) == {r.text : r \in Of(order)}
<1>3. Sources(a) = Sources(b) /\ Wordings(a) = Wordings(b)
  <2>1. CASE Shown(a) = {} \/ (Selected(a) = << >> /\ Selected(b) = << >>)
    BY <1>1, <2>1 DEF Of
  <2>2. CASE \E r, q \in rs : /\ Selected(a) = <<r>> /\ Selected(b) = <<q>>
                             /\ r.source = q.source /\ r.text = q.text
    <3>1. PICK r, q \in rs : /\ Selected(a) = <<r>> /\ Selected(b) = <<q>>
                             /\ r.source = q.source /\ r.text = q.text
      BY <2>2
    <3>2. Range(Selected(a)) = {r} /\ Range(Selected(b)) = {q}
      BY <3>1, RangeOfOne
    <3>3. CASE Shown(a) = {}
      BY <2>1, <3>3
    <3>4. CASE Shown(a) # {}
      <4>1. Of(a) = {r} /\ Of(b) = {q}
        BY <1>1, <3>2, <3>4 DEF Of
      <4>2. Sources(a) = {r.source} /\ Sources(b) = {q.source} /\ Wordings(a) = {r.text} /\ Wordings(b) = {q.text}
        BY <4>1
      <4> QED
        BY <3>1, <4>2
    <3> QED
      BY <3>3, <3>4
  <2>3. \/ Selected(a) = << >> /\ Selected(b) = << >>
        \/ \E r, q \in rs : /\ Selected(a) = <<r>> /\ Selected(b) = <<q>>
                            /\ r.source = q.source /\ r.text = q.text
    BY OneText
  <2> QED
    BY <2>1, <2>2, <2>3, Zenon
<1>4. {id \in Ids : \E r \in Range(a) : Withdraws(a, r, id)} = {id \in Ids : \E r \in Range(b) : Withdraws(b, r, id)}
  BY OnePopulation DEF Withdraws, Given
<1>5. Range(a) = Range(b)
  BY DEF Given
<1> QED
  BY <1>1, <1>2, <1>3, <1>4, <1>5, UnionIs, Zenon

\* What is known of the answer, field by field.
LEMMA UnionSays ==
  ASSUME NEW order
  PROVE  /\ Union(order).source = {r.source : r \in Of(order)}
         /\ Union(order).status = [id \in Shown(order) |-> Latest(order, id)[1].status]
         /\ Union(order).tested = [id \in Shown(order) |-> Latest(order, id)[1].tested]
         /\ Union(order).withdrawn = {id \in Ids : \E r \in Range(order) : Withdraws(order, r, id)}
BY UnionIs

\* Every verdict of an answer is that of one of the reports, and its text that of one.
LEMMA UnionSound ==
  ASSUME NEW rs, NEW order, Given(order, rs)
  PROVE  /\ Union(order).status \in [Shown(order) -> Statuses]
         /\ Union(order).tested \in [Shown(order) -> Ranks]
         /\ \A id \in Shown(order) :
              /\ Union(order).tested[id][3] = Lineage[Union(order).status[id]]
              /\ \E r \in rs : /\ Admits(order, r, id)
                               /\ Union(order).status[id] = r.status[id]
                               /\ Union(order).tested[id] = r.tested[id]
                               /\ \A q \in rs : Admits(order, q, id) => ~Beats(q, r, id)
         /\ \A source \in Union(order).source : \E r \in rs : source = r.source
<1>1. ASSUME NEW id \in Shown(order)
      PROVE  /\ Latest(order, id)[1].status \in Statuses /\ Latest(order, id)[1].tested \in Ranks
             /\ Latest(order, id)[1].tested[3] = Lineage[Latest(order, id)[1].status]
             /\ \E r \in rs : /\ Admits(order, r, id)
                              /\ Latest(order, id)[1].status = r.status[id]
                              /\ Latest(order, id)[1].tested = r.tested[id]
                              /\ \A q \in rs : Admits(order, q, id) => ~Beats(q, r, id)
  <2>1. Latest(order, id) # << >>
    BY DEF Shown, Held
  <2>2. PICK r \in rs : /\ Admits(order, r, id)
                        /\ Latest(order, id)[1].status = r.status[id]
                        /\ Latest(order, id)[1].tested = r.tested[id]
                        /\ \A q \in rs : Admits(order, q, id) => ~Beats(q, r, id)
    BY <2>1, LatestOf
  <2>3. ReportOK(r) /\ id \in DOMAIN r.status
    BY <2>2 DEF Given, Admits, Lists
  <2>4. r.status[id] \in Statuses /\ r.tested[id] \in Ranks /\ r.tested[id][3] = Lineage[r.status[id]]
    BY <2>3 DEF ReportOK
  <2> QED
    BY <2>2, <2>4
<1>2. /\ Union(order).status = [id \in Shown(order) |-> Latest(order, id)[1].status]
      /\ Union(order).tested = [id \in Shown(order) |-> Latest(order, id)[1].tested]
  BY UnionSays
<1>3. ASSUME NEW source \in Union(order).source
      PROVE  \E r \in rs : source = r.source
  <2>1. Union(order).source = {r.source : r \in Of(order)}
    BY UnionSays
  <2>2. Of(order) \subseteq Range(Selected(order))
    BY DEF Of
  <2>3. PICK r \in Range(Selected(order)) : source = r.source
    BY <1>3, <2>1, <2>2
  <2>4. r \in rs
    <3>1. \/ Selected(order) = << >>
          \/ \E q \in rs : Selected(order) = <<q>>
      BY OneText
    <3>2. CASE Selected(order) = << >>
      BY <2>3, <3>2 DEF Range
    <3>3. ASSUME NEW q \in rs, Selected(order) = <<q>> PROVE r \in rs
      <4>1. Range(Selected(order)) = {q}
        BY <3>3, RangeOfOne
      <4> QED
        BY <2>3, <4>1
    <3> QED
      BY <3>1, <3>2, <3>3
  <2> QED
    BY <2>3, <2>4
<1> QED
  BY <1>1, <1>2, <1>3

\* What a run reports is its own, and of the time of its report.
Own == \A r \in reports : ~r.merged => r.source[2] = r.name /\ \A id \in Lists(r) : r.at = r.tested[id][1]

\* Every verdict, however often merged, is that of a run.
Descended ==
  \A r \in reports : \A id \in Lists(r) :
    \E run \in reports : /\ ~run.merged /\ id \in Lists(run)
                         /\ run.at = r.tested[id][1] /\ run.status[id] = r.status[id]

\* An answer is of arguments that could be given now.
Answered ==
  answer # NoAnswer => \E order \in Arguments : answer = [inputs |-> Range(order), out |-> Union(order)]

MergeInv == MergeTypeOK /\ Own /\ Descended /\ Answered

\* The arguments of a merge are some reports in some order.
LEMMA ArgumentsGiven ==
  ASSUME MergeTypeOK, Own, NEW order \in Arguments
  PROVE  Given(order, Range(order)) /\ Range(order) \subseteq reports
<1>1. PICK rs \in SUBSET reports : order \in SetToSeqs(rs)
  BY DEF Arguments
<1>2. Cardinality(rs) \in Nat
  BY FS_Subset, FS_CardinalityType DEF MergeTypeOK
<1>3. order \in [1 .. Cardinality(rs) -> rs]
  BY <1>1 DEF SetToSeqs
<1>4. order \in Seq(Range(order)) /\ Range(order) \subseteq rs
  BY <1>2, <1>3 DEF Range
<1>5. \A r, s \in Range(order) : r.name = s.name => r = s
  BY DEF Arguments, Range
<1>6. \A r \in Range(order) : ReportOK(r) /\ (~r.merged => r.source[2] = r.name)
  BY <1>4 DEF MergeTypeOK, Own
<1> QED
  BY <1>4, <1>5, <1>6 DEF Given

\* The order that the property compares with is one of the reports themselves.
LEMMA SetToSeqGiven ==
  ASSUME NEW S, IsFiniteSet(S)
  PROVE  SetToSeq(S) \in Seq(S) /\ Range(SetToSeq(S)) = S
<1> DEFINE D == 1 .. Cardinality(S)
           f == SetToSeq(S)
<1>1. Cardinality(S) \in Nat /\ ExistsBijection(D, S)
  BY FS_CardinalityType
<1>2. \E g \in [D -> S] : IsInjective(g)
  BY <1>1 DEF ExistsBijection, Bijection, Injection
<1>3. f \in [D -> S] /\ IsInjective(f)
  BY <1>2 DEF SetToSeq
<1>4. IsFiniteSet(D) /\ Cardinality(D) = Cardinality(S)
  BY <1>1, FS_Interval
<1>5. f \in Surjection(D, S)
  BY <1>3, <1>4, FS_Injection DEF Injection
<1> HIDE DEF f
<1>6. Range(f) = S
  BY <1>5 DEF Surjection, Range
<1>7. f \in Seq(S)
  BY <1>1, <1>3
<1> QED
  BY <1>6, <1>7 DEF f

\* A report that is sound, and its own.
OwnReport(r) ==
  /\ ReportOK(r) /\ ~r.merged /\ r.source[2] = r.name
  /\ \A id \in Lists(r) : r.at = r.tested[id][1]

\* What a run reports is such a report.
LEMMA ReportSound ==
  ASSUME version \in Versions, NEW name \in Names, NEW time \in Nat, NEW mode, NEW status,
         status \in [DOMAIN status -> Statuses], DOMAIN status \subseteq Ids
  PROVE  OwnReport(Report(name, time, mode, status))
<1> DEFINE ids == DOMAIN status
<1>0. PICK r : r = Report(name, time, mode, status)
  OBVIOUS
<1>1. version \in Nat /\ name \in Nat /\ \A s \in Statuses : Lineage[s] \in Nat
  BY MergeAssumption
<1>2. /\ r.name = name /\ r.at = time /\ r.merged = FALSE /\ r.text = version
      /\ r.source = <<time, name, version>> /\ r.status = status
      /\ r.tested = [id \in ids |-> <<time, name, Lineage[status[id]]>>]
  BY <1>0 DEF Report
<1>3. DOMAIN r.status = ids
  BY <1>2
<1>4. r.source \in Ranks /\ r.source[3] = r.text /\ r.source[2] = r.name
  BY <1>1, <1>2 DEF Ranks
<1>5. \A id \in ids : /\ r.tested[id] \in Ranks /\ r.tested[id][1] = time
                      /\ r.tested[id][3] = Lineage[r.status[id]]
  BY <1>1, <1>2 DEF Ranks
<1>6. r.tested \in [ids -> Ranks]
  BY <1>2, <1>5
<1> QED
  BY <1>0, <1>2, <1>3, <1>4, <1>5, <1>6 DEF OwnReport, ReportOK, Lists

\* The merged report that is written is sound, and descends from runs.
LEMMA KeepSound ==
  ASSUME MergeInv, Keep
  PROVE  \E m : /\ reports' = reports \union {m} /\ ReportOK(m) /\ m.merged
                /\ \A id \in Lists(m) : \E r \in reports :
                     /\ id \in Lists(r) /\ r.status[id] = m.status[id] /\ r.tested[id] = m.tested[id]
<1>1. PICK order \in Arguments : answer = [inputs |-> Range(order), out |-> Union(order)]
  BY DEF MergeInv, Answered, Keep
<1>2. Given(order, Range(order)) /\ Range(order) \subseteq reports
  BY ArgumentsGiven DEF MergeInv
<1> DEFINE out    == Union(order)
           source == CHOOSE s \in out.source : TRUE
           time   == Max({source[1]} \union {t[1] : t \in Range(out.tested)})
           m      == [name |-> Kept, at |-> time,
                      merged |-> TRUE, narrow |-> FALSE, shard |-> Whole,
                      text |-> source[3], source |-> source,
                      status |-> out.status, tested |-> out.tested]
<1>3. answer.out = out /\ out.source # {} /\ reports' = reports \union {m}
  BY <1>1 DEF Keep
<1>4. source \in Ranks
  <2>1. source \in out.source
    BY <1>3
  <2>2. PICK r \in Range(order) : source = r.source
    BY <1>2, <2>1, UnionSound
  <2> QED
    BY <1>2, <2>2 DEF Given, ReportOK
<1>5. /\ out.status \in [Shown(order) -> Statuses] /\ out.tested \in [Shown(order) -> Ranks]
      /\ \A id \in Shown(order) : out.tested[id][3] = Lineage[out.status[id]]
  BY <1>2, UnionSound
<1>6. \A id \in Shown(order) : \E r \in reports :
        id \in Lists(r) /\ r.status[id] = out.status[id] /\ r.tested[id] = out.tested[id]
  BY <1>2, UnionSound DEF Admits
<1>7. Shown(order) \subseteq Ids
  BY DEF Shown, Held
<1> HIDE DEF out, source, time
<1>8. /\ m.merged = TRUE /\ m.source = source /\ m.text = source[3]
      /\ m.status = out.status /\ m.tested = out.tested
  OBVIOUS
<1> HIDE DEF m
<1>9. DOMAIN m.status = Shown(order)
  BY <1>5, <1>8
<1>10. ReportOK(m) /\ m.merged
  BY <1>4, <1>5, <1>7, <1>8, <1>9 DEF ReportOK
<1>11. \A id \in Lists(m) : \E r \in reports :
         id \in Lists(r) /\ r.status[id] = m.status[id] /\ r.tested[id] = m.tested[id]
  BY <1>6, <1>8, <1>9 DEF Lists
<1> QED
  BY <1>3, <1>10, <1>11

\* What is reported, and the answer that is had, stay true.
THEOREM MergeInvariance == MergeSpec => []MergeInv
<1>1. MergeInit => MergeInv
  BY FS_EmptySet DEF MergeInit, MergeInv, MergeTypeOK, Own, Descended, Answered
<1>2. MergeInv /\ [MergeNext]_mergeVars => MergeInv'
  <2> SUFFICES ASSUME MergeInv, [MergeNext]_mergeVars
               PROVE  MergeInv'
    OBVIOUS
  <2>1. CASE Rewrite
    BY <2>1 DEF Rewrite, MergeInv, MergeTypeOK, Own, Descended, Answered
  <2>2. ASSUME NEW mode \in Modes, Start(mode)
        PROVE  MergeInv'
    <3>1. PICK ids \in Scanned(mode) : flight' = flight \union {[mode |-> mode, ids |-> ids]}
      BY <2>2 DEF Start
    <3>2. ids \in SUBSET Ids
      BY MergeAssumption DEF Scanned, MergeInv, MergeTypeOK
    <3>3. flight' \subseteq [mode : Modes, ids : SUBSET Ids]
      BY <3>1, <3>2 DEF MergeInv, MergeTypeOK
    <3> QED
      BY <2>2, <3>3 DEF Start, MergeInv, MergeTypeOK, Own, Descended, Answered
  <2>3. ASSUME NEW run \in flight, NEW name \in Names, Publish(run, name)
        PROVE  MergeInv'
    <3>1. PICK status \in [run.ids -> IF run.mode.kind = "list" THEN {Pending} ELSE Statuses \ {Pending}] :
            reports' = reports \union {Report(name, date', run.mode, status)}
      BY <2>3 DEF Publish
    <3>2. status \in [run.ids -> Statuses] /\ run.ids \in SUBSET Ids
      BY MergeAssumption DEF MergeInv, MergeTypeOK
    <3>3. date' \in Nat
      BY <2>3, MergeAssumption DEF Publish, MergeInv, MergeTypeOK
    <3>4. PICK time \in Nat : time = date'
      BY <3>3
    <3>5. PICK r : r = Report(name, time, run.mode, status)
      OBVIOUS
    <3>6. status \in [DOMAIN status -> Statuses] /\ DOMAIN status \subseteq Ids /\ version \in Versions
      BY <3>2 DEF MergeInv, MergeTypeOK
    <3>7. OwnReport(r)
      BY <3>4, <3>5, <3>6, ReportSound
    <3>8. IsFiniteSet(reports')
      BY <3>1, <3>4, <3>5, FS_AddElement DEF MergeInv, MergeTypeOK
    <3>9. reports' = reports \union {r} /\ flight' \subseteq flight /\ answer' = NoAnswer
          /\ UNCHANGED <<version, rewrites>>
      BY <2>3, <3>1, <3>4, <3>5 DEF Publish
    <3>10. MergeTypeOK'
      BY <3>3, <3>7, <3>8, <3>9 DEF OwnReport, MergeInv, MergeTypeOK
    <3>11. Own' /\ Descended' /\ Answered'
      BY <3>7, <3>9 DEF OwnReport, MergeInv, Own, Descended, Answered
    <3> QED
      BY <3>10, <3>11 DEF MergeInv
  <2>4. ASSUME NEW order \in Arguments, MergeReports(order)
        PROVE  MergeInv'
    <3>1. order \in Arguments' /\ answer' = [inputs |-> Range(order), out |-> Union(order)]
      BY <2>4 DEF MergeReports, Arguments
    <3>2. Answered'
      BY <3>1 DEF Answered
    <3> QED
      BY <2>4, <3>2 DEF MergeReports, MergeInv, MergeTypeOK, Own, Descended
  <2>5. CASE Keep
    <3>1. PICK m : /\ reports' = reports \union {m} /\ ReportOK(m) /\ m.merged
                   /\ \A id \in Lists(m) : \E r \in reports :
                        /\ id \in Lists(r) /\ r.status[id] = m.status[id] /\ r.tested[id] = m.tested[id]
      BY <2>5, KeepSound
    <3>2. answer' = NoAnswer /\ UNCHANGED <<date, version, rewrites, flight>>
      BY <2>5 DEF Keep
    <3>3. IsFiniteSet(reports')
      BY <3>1, FS_AddElement DEF MergeInv, MergeTypeOK
    <3>4. MergeTypeOK' /\ Own' /\ Answered'
      BY <3>1, <3>2, <3>3 DEF MergeInv, MergeTypeOK, Own, Answered
    <3>5. Descended'
      BY <3>1 DEF MergeInv, Descended
    <3> QED
      BY <3>4, <3>5 DEF MergeInv
  <2>6. CASE UNCHANGED mergeVars
    <3>1. Arguments' = Arguments
      BY <2>6 DEF mergeVars, Arguments
    <3> QED
      BY <2>6, <3>1 DEF mergeVars, MergeInv, MergeTypeOK, Own, Descended, Answered
  <2> QED
    BY <2>1, <2>2, <2>3, <2>4, <2>5, <2>6 DEF MergeNext
<1> QED
  BY <1>1, <1>2, PTL DEF MergeSpec

\* Whatever the reports and whatever order a shell expands them to, they make one answer.
THEOREM MergeIsOrderFree == MergeSpec => []OrderFree
<1>1. MergeInv => OrderFree
  <2> SUFFICES ASSUME MergeInv, answer # NoAnswer
               PROVE  answer.out = Union(SetToSeq(answer.inputs))
    BY DEF OrderFree, Merged, Out
  <2>1. PICK order \in Arguments : answer = [inputs |-> Range(order), out |-> Union(order)]
    BY DEF MergeInv, Answered
  <2>2. Given(order, Range(order)) /\ Range(order) \subseteq reports
    BY ArgumentsGiven DEF MergeInv
  <2> DEFINE rs == Range(order)
             sorted == SetToSeq(rs)
  <2>3. sorted \in Seq(rs) /\ Range(sorted) = rs
    BY <2>2, FS_Subset, SetToSeqGiven DEF MergeInv, MergeTypeOK
  <2> HIDE DEF rs, sorted
  <2>4. Given(sorted, rs)
    BY <2>2, <2>3 DEF Given, rs
  <2>5. Union(order) = Union(sorted)
    BY <2>2, <2>4, OneAnswer DEF rs
  <2> QED
    BY <2>1, <2>5 DEF rs, sorted
<1> QED
  BY <1>1, MergeInvariance, PTL

\* A listing that no other argument is newer than decides what there is, and over which
\* text.
LEMMA ListingDecides ==
  ASSUME NEW rs, NEW order, Given(order, rs),
         NEW r \in rs, Complete(r), \A s \in rs : ~Higher(s.source, r.source)
  PROVE  /\ \A q \in rs, id \in Lists(r) : ~Withdraws(order, q, id)
         /\ \A q \in rs : \A id \in Lists(q) \ Lists(r) : Withdraws(order, q, id)
         /\ \E s \in rs : Selected(order) = <<s>> /\ s.text = r.text
<1> DEFINE wholes  == {q \in rs : Complete(q)}
           listing  == {q \in rs : Lists(q) # {}}
<1>1. /\ Population(order) = Newest(order, wholes) /\ wholes \in SUBSET rs /\ r \in wholes
      /\ Selected(order) = Newest(order, listing) /\ listing \in SUBSET rs /\ r \in listing
  BY DEF Population, Selected, Given, Complete
<1>2. \A q \in rs : q.source \in Ranks /\ q.source[3] = q.text /\ (~q.merged => q.source[2] = q.name)
  BY DEF Given, ReportOK
<1>3. \A q \in wholes : ~q.merged
  BY DEF Complete
<1> HIDE DEF wholes, listing
<1>4. Population(order) = <<r>>
  <2>1. PICK p \in wholes : Newest(order, wholes) = <<p>> /\ \A q \in wholes : ~Higher(q.source, p.source)
    BY <1>1, NewestOf
  <2>2. p.source = r.source
    BY <1>1, <1>2, <2>1, RanksInLine
  <2>3. p = r
    BY <1>1, <1>2, <1>3, <2>2 DEF Given
  <2> QED
    BY <1>1, <2>1, <2>3
<1>5. \E s \in rs : Selected(order) = <<s>> /\ s.text = r.text
  <2>1. PICK s \in listing : Newest(order, listing) = <<s>> /\ \A q \in listing : ~Higher(q.source, s.source)
    BY <1>1, NewestOf
  <2>2. s.source = r.source
    BY <1>1, <1>2, <2>1, RanksInLine
  <2> QED
    BY <1>1, <1>2, <2>1, <2>2
<1>6. \A q, id : Withdraws(order, q, id) <=> id \in Lists(q) /\ id \notin Lists(r) /\ ~Higher(q.source, r.source)
  <2>1. Range(Population(order)) = {r}
    BY <1>4, RangeOfOne
  <2> QED
    BY <2>1 DEF Withdraws
<1> QED
  BY <1>5, <1>6

\* The remedy that README.md prescribes works.
THEOREM MergeRemedyWorks == MergeSpec => []ListingMakesItTrue
<1>1. MergeInv => ListingMakesItTrue
  <2> SUFFICES ASSUME MergeInv, answer # NoAnswer,
                      NEW r \in answer.inputs, Complete(r),
                      \A s \in answer.inputs : ~Higher(s.source, r.source)
               PROVE  /\ DOMAIN Out.status = Lists(r)
                      /\ Out.withdrawn \intersect Lists(r) = {}
                      /\ \A id \in DOMAIN Out.status :
                           /\ (Out.status[id] = Pending) <=> (Verdicts(id) = {})
                           /\ \E run \in reports :
                                /\ ~run.merged /\ id \in Lists(run) /\ run.at = Out.tested[id][1]
                                /\ run.status[id] = Out.status[id]
                           /\ \A v \in Verdicts(id) : v.tested[id][1] <= Out.tested[id][1]
    BY DEF ListingMakesItTrue, Merged
  <2>1. PICK order \in Arguments : answer = [inputs |-> Range(order), out |-> Union(order)]
    BY DEF MergeInv, Answered
  <2> DEFINE rs == answer.inputs
  <2>2. rs = Range(order) /\ Out = Union(order)
    BY <2>1 DEF Out
  <2>3. Given(order, rs) /\ rs \subseteq reports
    BY <2>2, ArgumentsGiven DEF MergeInv
  <2>4. /\ \A q \in rs, id \in Lists(r) : ~Withdraws(order, q, id)
        /\ \A q \in rs : \A id \in Lists(q) \ Lists(r) : Withdraws(order, q, id)
    BY <2>3, ListingDecides
  <2>5. PICK s \in rs : Selected(order) = <<s>> /\ s.text = r.text
    BY <2>3, ListingDecides
  <2>6. \A q : ReportOK(q) => Lists(q) \subseteq Ids
    BY DEF ReportOK, Lists
  <2>7. \A q \in rs : ReportOK(q) /\ Lists(q) \subseteq Ids
    BY <2>3, <2>6 DEF Given
  <2>8. \A q \in rs : \A id : Admits(order, q, id) <=> id \in Lists(q) /\ id \in Lists(r)
    BY <2>4 DEF Admits
  <2>9. Shown(order) = Lists(r)
    <3>1. ASSUME NEW id \in Shown(order)
          PROVE  id \in Lists(r)
      <4>1. PICK q \in rs : Admits(order, q, id)
        BY <2>3, UnionSound
      <4> QED
        BY <2>8, <4>1
    <3>2. ASSUME NEW id \in Lists(r)
          PROVE  id \in Shown(order)
      <4>1. Admits(order, r, id)
        BY <2>8, <3>2
      <4>2. Range(Selected(order)) = {s}
        BY <2>5, RangeOfOne
      <4>3. Fits(order, r) # {}
        BY <2>5, <4>2 DEF Fits
      <4>4. Latest(order, id) # << >> /\ Latest(order, id)[1].fits # {}
        BY <2>3, <4>1, <4>3, LatestOf
      <4> QED
        BY <2>7, <3>2, <4>4 DEF Shown, Held
    <3> QED
      BY <3>1, <3>2
  <2>10. DOMAIN Out.status = Shown(order)
    BY <2>2, <2>3, UnionSound
  <2>11. Out.withdrawn \intersect Lists(r) = {}
    <3>1. Out.withdrawn = {id \in Ids : \E q \in rs : Withdraws(order, q, id)}
      BY <2>2, UnionSays
    <3>2. ASSUME NEW id \in Out.withdrawn, id \in Lists(r)
          PROVE  FALSE
      <4>1. PICK q \in rs : Withdraws(order, q, id)
        BY <3>1, <3>2
      <4>2. ~Withdraws(order, q, id)
        BY <2>4, <3>2, <4>1
      <4> QED
        BY <4>1, <4>2
    <3> QED
      BY <3>2
  <2>12. ASSUME NEW id \in Lists(r)
         PROVE  /\ (Out.status[id] = Pending) <=> (Verdicts(id) = {})
                /\ \E run \in reports :
                     /\ ~run.merged /\ id \in Lists(run) /\ run.at = Out.tested[id][1]
                     /\ run.status[id] = Out.status[id]
                /\ \A v \in Verdicts(id) : v.tested[id][1] <= Out.tested[id][1]
    <3>1. PICK k \in rs : /\ Admits(order, k, id)
                          /\ Out.status[id] = k.status[id] /\ Out.tested[id] = k.tested[id]
                          /\ \A q \in rs : Admits(order, q, id) => ~Beats(q, k, id)
      BY <2>2, <2>3, <2>9, <2>12, UnionSound
    <3>2. id \in Lists(k) /\ k.tested[id] \in Ranks
      BY <2>7, <2>8, <3>1 DEF ReportOK, Lists
    <3>3. ASSUME NEW v \in Verdicts(id)
          PROVE  Out.status[id] # Pending /\ v.tested[id][1] <= Out.tested[id][1]
      <4>1. v \in rs /\ id \in Lists(v) /\ v.status[id] # Pending /\ v.tested[id] \in Ranks
        BY <2>7 DEF Verdicts, ReportOK, Lists
      <4>2. ~Beats(v, k, id)
        BY <2>8, <2>12, <3>1, <4>1
      <4>3. k.status[id] # Pending /\ ~Higher(v.tested[id], k.tested[id])
        BY <4>1, <4>2 DEF Beats
      <4> QED
        BY <3>1, <3>2, <4>1, <4>3, HigherMeans
    <3>4. Out.status[id] # Pending => Verdicts(id) # {}
      BY <3>1, <3>2 DEF Verdicts
    <3>5. PICK run \in reports : /\ ~run.merged /\ id \in Lists(run)
                                 /\ run.at = k.tested[id][1] /\ run.status[id] = k.status[id]
      BY <2>3, <3>2 DEF MergeInv, Descended
    <3> QED
      BY <3>1, <3>3, <3>4, <3>5
  <2> QED
    BY <2>9, <2>10, <2>11, <2>12
<1> QED
  BY <1>1, MergeInvariance, PTL

=============================================================================
