-------------------------- MODULE LeftBehindProofs --------------------------
(* What cargo-gamma leaves behind when it ends, or is killed: the leaves of  *)
(* its cgroup, for every set of incarnations and of leaves (the types, and   *)
(* that no leaf in use is removed), and its scratch tree, for every set of   *)
(* paths, contents and edits (that a run starts from the source, writes      *)
(* nothing outside the tree and builds what is in it).                       *)
EXTENDS Leaves, Scratch, TLAPS

-----------------------------------------------------------------------------
(***************************************************************************)
(* The leaves.                                                             *)
(***************************************************************************)

\* Every incarnation can read the others' /proc entries: one pid namespace.
Visible == \A p \in Procs : Sees[p] = Procs

InUse == {"made", "ready", "joined"}

\* A leaf is in use only by the living, and only a leaf once made is listed.
OfTheLiving ==
  /\ \A l \in Leaf : ~Alive(Owner(l)) => stage[l] \in {"none", "done"}
  /\ \A l \in dirs : stage[l] # "none"
  /\ \A p \in Procs : scan[p] # None => \A l \in scan[p].listed : stage[l] # "none"

\* A leaf in use exists, and the mutex or the active list protects it.
Protected ==
  \A l \in Leaf :
    /\ stage[l] \in InUse => l \in dirs
    /\ stage[l] = "made" => creating[Owner(l)] = l
    /\ stage[l] \in {"ready", "joined"} => l \in active[Owner(l)]

\* What a scan is about to remove was made, and is no longer in use.
Condemned ==
  \A p \in Procs : (scan[p] # None /\ scan[p].at # None) =>
    stage[scan[p].at] \notin InUse \union {"none"}

IInv == TypeOK /\ OfTheLiving /\ Protected /\ Condemned

-----------------------------------------------------------------------------
\* The invariant of the leaves holds at the start.
LEMMA InitIInv == Init => IInv
BY LeavesAssumption DEF Init, IInv, TypeOK, OfTheLiving, Protected, Condemned, Alive,
   Owner, InUse, Stages

\* The types, action by action.
LEMMA TypeStep == TypeOK /\ [Next]_vars => TypeOK'
<1> SUFFICES ASSUME TypeOK, [Next]_vars PROVE TypeOK'
  OBVIOUS
<1> USE LeavesAssumption DEF TypeOK
<1>1. ASSUME NEW p \in Procs, Start(p) PROVE TypeOK'
  <2>1. Listing(p, "discover") \in Scans
    BY DEF Listing, Scans
  <2>2. stale' \in [Procs -> SUBSET Leaf]
    BY <1>1 DEF Start
  <2> QED
    BY <1>1, <2>1, <2>2 DEF Start, reaperVars
<1>2. ASSUME NEW p \in Procs, Wake(p) PROVE TypeOK'
  <2>1. Listing(p, "reaper") \in Scans
    BY DEF Listing, Scans
  <2> QED
    BY <1>2, <2>1 DEF Wake, reaperVars
<1>3. ASSUME NEW p \in Procs, NEW l \in Leaf, Look(p, l) PROVE TypeOK'
  <2>1. scan'[p] \in Scans
    BY SMTT(30), <1>3 DEF Look, Scans
  <2>2. \A q \in Procs : q # p => scan'[q] = scan[q]
    BY <1>3 DEF Look
  <2> QED
    BY <1>3, <2>1, <2>2 DEF Look, reaperVars
<1>4. ASSUME NEW p \in Procs, Remove(p) PROVE TypeOK'
  <2>1. scan'[p] \in Scans
    <3> DEFINE pend == IF scan[p].at \in dirs \ held THEN scan[p].pending ELSE TRUE
    <3>1. scan[p] \in Scans
      BY <1>4 DEF Remove
    <3>2. pend \in BOOLEAN
      BY <3>1 DEF Scans
    <3>3. scan'[p] = [[scan[p] EXCEPT !.at = None] EXCEPT !.pending = pend]
      BY <1>4, <3>1 DEF Remove
    <3> QED
      BY <3>1, <3>2, <3>3 DEF Scans
  <2>2. \A q \in Procs : q # p => scan'[q] = scan[q]
    BY <1>4 DEF Remove
  <2> QED
    BY <1>4, <2>1, <2>2 DEF Remove, reaperVars
<1>5. ASSUME NEW p \in Procs, Discover(p) PROVE TypeOK'
  <2>1. scan[p].pending \in BOOLEAN
    BY <1>5 DEF Discover, AtEnd, Scans
  <2> QED
    BY <1>5, <2>1 DEF Discover, EnsureReaper
<1>6. ASSUME NEW p \in Procs, Reaped(p) PROVE TypeOK'
  <2>1. scan[p].pending \in BOOLEAN
    BY <1>6 DEF Reaped, AtEnd, Scans
  <2> QED
    BY <1>6, <2>1 DEF Reaped, Believe
<1>7. ASSUME NEW p \in Procs, Die(p) PROVE TypeOK'
  BY <1>7 DEF Die, Stages
<1>8. ASSUME NEW l \in Leaf, MakeLeaf(l) PROVE TypeOK'
  BY <1>8 DEF MakeLeaf, Hold, Step, Stages, Owner
<1>9. ASSUME NEW l \in Leaf, Register(l) PROVE TypeOK'
  BY <1>9 DEF Register, EnsureReaper, Step, Stages, Owner
<1>10. ASSUME NEW l \in Leaf, ConfigureFails(l) PROVE TypeOK'
  BY <1>10 DEF ConfigureFails, Step, Stages, Owner
<1>11. ASSUME NEW l \in Leaf, Join(l) \/ Drop(l) \/ RemoveOwn(l) \/ GiveUp(l) PROVE TypeOK'
  BY <1>11 DEF Join, Drop, RemoveOwn, GiveUp, Step, Stages, Owner, reaperVars
<1>12. ASSUME NEW l \in Leaf, Unregister(l) PROVE TypeOK'
  BY <1>12 DEF Unregister, Step, Stages, Owner
<1>13. ASSUME NEW l \in Leaf, Abandon(l) PROVE TypeOK'
  BY <1>13 DEF Abandon, EnsureReaper, Step, Stages, Owner
<1>14. ASSUME NEW l \in Leaf, Empty(l) PROVE TypeOK'
  BY <1>14 DEF Empty, reaperVars
<1>15. CASE UNCHANGED vars
  BY <1>15 DEF vars, reaperVars
<1> QED
  BY <1>1, <1>2, <1>3, <1>4, <1>5, <1>6, <1>7, <1>8, <1>9, <1>10, <1>11, <1>12,
     <1>13, <1>14, <1>15 DEF Next, Scanning, Creating

\* What protects a leaf, action by action.
LEMMA ProtectedStep ==
  Visible /\ IInv /\ [Next]_vars => OfTheLiving' /\ Protected' /\ Condemned'
<1> SUFFICES ASSUME Visible, IInv, [Next]_vars
             PROVE  OfTheLiving' /\ Protected' /\ Condemned'
  OBVIOUS
<1> USE LeavesAssumption DEF IInv, TypeOK, Alive, Owner, InUse, OfTheLiving, Protected, Condemned
<1>1. ASSUME NEW p \in Procs, Start(p) PROVE OfTheLiving' /\ Protected' /\ Condemned'
  BY <1>1 DEF Start, Listing, reaperVars
<1>2. ASSUME NEW p \in Procs, Wake(p) PROVE OfTheLiving' /\ Protected' /\ Condemned'
  BY <1>2 DEF Wake, Listing, reaperVars
<1>3. ASSUME NEW p \in Procs, NEW l \in Leaf, Look(p, l)
      PROVE  OfTheLiving' /\ Protected' /\ Condemned'
  <2>1. scan[p].at = None /\ scan[p] # None /\ stage[l] # "none" /\ scan[p] \in Scans
    BY <1>3 DEF Look
  <2>2. scan'[p].listed = scan[p].listed /\ scan'[p].at \in {None, l}
    BY <1>3, <2>1 DEF Look, Scans
  <2>3. scan'[p].at = l => stage[l] \notin InUse
    BY <1>3, <2>1 DEF Look, Scans, OwnerIsLive, Visible
  <2>4. \A q \in Procs : q # p => scan'[q] = scan[q]
    BY <1>3 DEF Look
  <2> QED
    BY <1>3, <2>1, <2>2, <2>3, <2>4 DEF Look, reaperVars
<1>4. ASSUME NEW p \in Procs, Remove(p) PROVE OfTheLiving' /\ Protected' /\ Condemned'
  <2>1. scan[p] \in Scans /\ scan[p] # None /\ stage[scan[p].at] \notin InUse
    BY <1>4 DEF Remove
  <2>2. scan'[p].listed = scan[p].listed /\ scan'[p].at = None
    <3> DEFINE pend == IF scan[p].at \in dirs \ held THEN scan[p].pending ELSE TRUE
    <3>1. scan'[p] = [[scan[p] EXCEPT !.at = None] EXCEPT !.pending = pend]
      BY <1>4, <2>1 DEF Remove
    <3>2. pend \in BOOLEAN
      BY <2>1 DEF Scans
    <3> HIDE DEF pend
    <3> DEFINE Such == [by : {"discover", "reaper"}, listed : {scan[p].listed}, seen : SUBSET Leaf,
                        at : Leaf \union {None}, pending : BOOLEAN, generation : Nat]
    <3>3. scan[p] \in Such
      BY <2>1 DEF Scans
    <3> DEFINE idle == [scan[p] EXCEPT !.at = None]
    <3>4. idle \in [by : {"discover", "reaper"}, listed : {scan[p].listed}, seen : SUBSET Leaf,
                    at : {None}, pending : BOOLEAN, generation : Nat]
      BY <3>3
    <3>5. scan'[p] = [idle EXCEPT !.pending = pend]
      BY <3>1
    <3> HIDE DEF idle
    <3>6. scan'[p] \in [by : {"discover", "reaper"}, listed : {scan[p].listed},
                        seen : SUBSET Leaf, at : {None}, pending : BOOLEAN, generation : Nat]
      BY <3>2, <3>4, <3>5
    <3> QED
      BY <3>6
  <2>3. \A q \in Procs : q # p => scan'[q] = scan[q]
    BY <1>4 DEF Remove
  <2>4. /\ UNCHANGED <<life, stage, creating, active>> /\ scan' \in [Procs -> Scans \union {None}]
        /\ dirs' \subseteq dirs /\ \A l \in Leaf : stage[l] \in InUse /\ l \in dirs => l \in dirs'
    BY <1>4, <2>1, TypeStep DEF Remove, reaperVars
  <2>5. OfTheLiving'
    BY <2>1, <2>2, <2>3, <2>4
  <2>6. Protected'
    BY <2>4
  <2> QED
    BY <2>1, <2>2, <2>3, <2>4, <2>5, <2>6
<1>5. ASSUME NEW p \in Procs, Discover(p) PROVE OfTheLiving' /\ Protected' /\ Condemned'
  BY <1>5 DEF Discover
<1>6. ASSUME NEW p \in Procs, Reaped(p) PROVE OfTheLiving' /\ Protected' /\ Condemned'
  BY <1>6 DEF Reaped
<1>7. ASSUME NEW p \in Procs, Die(p) PROVE OfTheLiving' /\ Protected' /\ Condemned'
  BY <1>7 DEF Die, Scans
<1>8. ASSUME NEW l \in Leaf, MakeLeaf(l) PROVE OfTheLiving' /\ Protected' /\ Condemned'
  BY <1>8 DEF MakeLeaf, Hold, Step, Scans
<1>9. ASSUME NEW l \in Leaf, Register(l) PROVE OfTheLiving' /\ Protected' /\ Condemned'
  BY <1>9 DEF Register, Step, Scans
<1>10. ASSUME NEW l \in Leaf, ConfigureFails(l) PROVE OfTheLiving' /\ Protected' /\ Condemned'
  BY <1>10 DEF ConfigureFails, Step, Scans
<1>11. ASSUME NEW l \in Leaf, Join(l) \/ Drop(l) \/ RemoveOwn(l) \/ GiveUp(l)
       PROVE  OfTheLiving' /\ Protected' /\ Condemned'
  BY <1>11 DEF Join, Drop, RemoveOwn, GiveUp, Step, Scans, reaperVars
<1>12. ASSUME NEW l \in Leaf, Unregister(l) PROVE OfTheLiving' /\ Protected' /\ Condemned'
  BY <1>12 DEF Unregister, Step, Scans
<1>13. ASSUME NEW l \in Leaf, Abandon(l) PROVE OfTheLiving' /\ Protected' /\ Condemned'
  BY <1>13 DEF Abandon, Step, Scans
<1>14. ASSUME NEW l \in Leaf, Empty(l) PROVE OfTheLiving' /\ Protected' /\ Condemned'
  BY <1>14 DEF Empty, reaperVars
<1>15. CASE UNCHANGED vars
  BY <1>15 DEF vars, reaperVars
<1> QED
  BY <1>1, <1>2, <1>3, <1>4, <1>5, <1>6, <1>7, <1>8, <1>9, <1>10, <1>11, <1>12,
     <1>13, <1>14, <1>15 DEF Next, Scanning, Creating

\* The invariant holds, for incarnations that can see each other.
THEOREM Invariance == Visible /\ Spec => []IInv
<1>1. Visible /\ IInv /\ [Next]_vars => IInv'
  BY TypeStep, ProtectedStep DEF IInv
<1>2. Visible => []Visible
  <2>1. Visible => Visible'
    BY DEF Visible
  <2> QED
    BY <2>1, PTL
<1> QED
  BY InitIInv, <1>1, <1>2, PTL DEF Spec

\* The state has its types, whoever sees whom.
THEOREM TypeCorrect == Spec => []TypeOK
<1>1. Init => TypeOK
  BY InitIInv DEF IInv
<1> QED
  BY <1>1, TypeStep, PTL DEF Spec

\* No leaf is removed while its invocation is under way, by any number of
\* processes that start, reap and die around it, if they see each other.
THEOREM LiveLeavesStand == Visible /\ Spec => []LiveLeafStands
<1>1. IInv => LiveLeafStands
  BY DEF IInv, Protected, LiveLeafStands, InUse
<1> QED
  BY Invariance, <1>1, PTL

-----------------------------------------------------------------------------
(***************************************************************************)
(* The scratch tree.                                                       *)
(***************************************************************************)

\* What is at a path is one of four things, told apart by its kind.
LEMMA Kinds ==
  ASSUME NEW C, NEW e \in Entry(C)
  PROVE  /\ e.kind \in {"none", "dir", "link", "file"}
         /\ e.kind = "none" <=> e = Absent
         /\ e.kind = "dir"  <=> e = Dir
         /\ e.kind = "link" <=> e = Link
         /\ e.kind = "file" => \E c \in C : e = File(c)
BY DEF Entry, Files, File, Absent, Dir, Link

\* The four kinds differ, and a larger set of contents only adds entries.
LEMMA KindsApart ==
  /\ Absent.kind = "none" /\ Dir.kind = "dir" /\ Link.kind = "link"
  /\ Absent # Dir /\ Absent # Link /\ Dir # Link
  /\ \A c : File(c).kind = "file"
  /\ \A C : Absent \in Entry(C) /\ Dir \in Entry(C) /\ Link \in Entry(C)
  /\ \A C : \A c \in C : File(c) \in Entry(C)
  /\ \A C, D : C \subseteq D => Entry(C) \subseteq Entry(D)
<1>1. /\ Absent.kind = "none" /\ Dir.kind = "dir" /\ Link.kind = "link"
      /\ \A c : File(c).kind = "file"
  BY DEF Absent, Dir, Link, File
<1>2. Absent # Dir /\ Absent # Link /\ Dir # Link
  BY <1>1
<1>3. \A C : Absent \in Entry(C) /\ Dir \in Entry(C) /\ Link \in Entry(C)
  BY DEF Entry
<1>4. \A C : \A c \in C : File(c) \in Entry(C)
  BY DEF Entry, Files
<1>5. \A C, D : C \subseteq D => Entry(C) \subseteq Entry(D)
  BY DEF Entry, Files
<1> QED
  BY <1>1, <1>2, <1>3, <1>4, <1>5

\* Put, path by path: a path is not its own parent's parent, so no two cases meet.
LEMMA PutAt ==
  ASSUME NEW t, NEW p \in Paths, NEW entry, NEW q \in Paths
  PROVE  /\ q = p => Put(t, p, entry)[q] = entry
         /\ q # p /\ Parent[q] = p => Put(t, p, entry)[q] = Absent
         /\ q # p /\ Parent[q] # p =>
              Put(t, p, entry)[q] = IF q = Parent[p] /\ t[q] = Absent THEN Dir ELSE t[q]
<1>1. Parent[p] = Top \/ Parent[Parent[p]] = Top
  BY ScratchAssumption
<1>2. p # Top
  BY ScratchAssumption
<1>3. Put(t, p, entry)[q] = CASE q = p -> entry
                              [] Parent[q] = p -> Absent
                              [] q = Parent[p] /\ t[q] = Absent -> Dir
                              [] OTHER -> t[q]
  BY DEF Put
<1>4. CASE q = p
  <2>1. Parent[p] # p
    BY <1>1, <1>2
  <2> QED
    BY <1>3, <1>4, <2>1
<1>5. CASE q # p /\ Parent[q] = p
  <2>1. q # Parent[p]
    BY <1>1, <1>2, <1>5, ScratchAssumption
  <2> QED
    BY <1>3, <1>5, <2>1
<1>6. CASE q # p /\ Parent[q] # p
  BY <1>3, <1>6
<1> QED
  BY <1>4, <1>5, <1>6

\* At the path itself is what was put there.
LEMMA PutHere ==
  ASSUME NEW t, NEW p \in Paths, NEW entry
  PROVE  Put(t, p, entry)[p] = entry
BY ScratchAssumption, PutAt DEF Put

\* Putting an entry keeps a tree a tree of entries.
LEMMA PutType ==
  ASSUME NEW C, NEW t \in [Paths -> Entry(C)], NEW p \in Paths, NEW entry \in Entry(C)
  PROVE  Put(t, p, entry) \in [Paths -> Entry(C)]
<1>1. \A q \in Paths : Put(t, p, entry)[q] \in Entry(C)
  BY PutAt, KindsApart
<1> QED
  BY <1>1 DEF Put

\* Putting an entry where its parent is a directory or missing leaves a workspace
\* with every entry under a directory.
LEMMA PutFound ==
  ASSUME NEW t, Found(t), NEW p \in Paths, NEW entry,
         Parent[p] # Top => t[Parent[p]] \in {Absent, Dir}
  PROVE  Found(Put(t, p, entry))
<1> DEFINE n == Put(t, p, entry)
<1> SUFFICES ASSUME NEW q \in Paths, n[q] # Absent, Parent[q] # Top
             PROVE  n[Parent[q]] = Dir
  BY DEF Found
<1> DEFINE r == Parent[q]
<1>0. \A x \in Paths :
        /\ x = p => n[x] = entry
        /\ x # p /\ Parent[x] = p => n[x] = Absent
        /\ x # p /\ Parent[x] # p => n[x] = IF x = Parent[p] /\ t[x] = Absent THEN Dir ELSE t[x]
  BY PutAt
<1> HIDE DEF n
<1>1. r \in Paths /\ Parent[r] = Top /\ p # Top
  BY ScratchAssumption
<1>2. r # p
  <2>1. CASE q = p
    BY <1>1, <2>1
  <2>2. CASE q # p
    BY <1>0, <2>2
  <2> QED
    BY <2>1, <2>2
<1>3. n[r] = IF r = Parent[p] /\ t[r] = Absent THEN Dir ELSE t[r]
  BY <1>0, <1>1, <1>2
<1>4. CASE q = p
  BY <1>3, <1>4
<1>5. CASE q # p
  <2>1. q # Parent[p]
    <3>1. Parent[p] = Top \/ Parent[Parent[p]] = Top
      BY ScratchAssumption
    <3> QED
      BY <3>1, ScratchAssumption
  <2>2. t[q] # Absent
    BY <1>0, <1>2, <1>5, <2>1
  <2>3. t[r] = Dir
    BY <2>2 DEF Found
  <2> QED
    BY <1>3, <2>3
<1> QED
  BY <1>4, <1>5

\* Putting an entry makes no other file and no other link.
LEMMA PutKeeps ==
  ASSUME NEW t, NEW p \in Paths, NEW entry, NEW q \in Paths, q # p
  PROVE  Put(t, p, entry)[q] \in {Absent, Dir, t[q]}
BY PutAt

\* What a removal that is cut short leaves of a tree is a tree of entries.
LEMMA RemainsType ==
  ASSUME NEW C, NEW t \in [Paths -> Entry(C)], NEW r \in Remains(t)
  PROVE  r \in [Paths -> Entry(C)]
<1>1. PICK kept : r = [p \in Paths |-> IF p \in kept THEN t[p] ELSE Absent]
  BY DEF Remains
<1>2. Absent \in Entry(C)
  BY KindsApart
<1> QED
  BY <1>1, <1>2

\* It keeps every entry under a directory, and makes no entry that was not there.
LEMMA RemainsKeep ==
  ASSUME NEW t, NEW r \in Remains(t), Found(t)
  PROVE  /\ Found(r)
         /\ \A q \in Paths : r[q] \in {Absent, t[q]}
<1>1. PICK kept \in {S \in SUBSET Present(t) : \A p \in S : Parent[p] \in S \union {Top}} :
        r = [p \in Paths |-> IF p \in kept THEN t[p] ELSE Absent]
  BY DEF Remains
<1>2. \A q \in Paths : r[q] = IF q \in kept THEN t[q] ELSE Absent
  BY <1>1
<1>4. Found(r)
  <2> SUFFICES ASSUME NEW q \in Paths, r[q] # Absent, Parent[q] # Top
               PROVE  r[Parent[q]] = Dir
    BY DEF Found
  <2>1. q \in kept /\ Parent[q] \in kept
    BY <1>1, <1>2
  <2>2. Parent[q] \in Paths /\ t[q] # Absent
    BY <1>2, <2>1, ScratchAssumption
  <2> QED
    BY <1>2, <2>1, <2>2 DEF Found
<1> QED
  BY <1>2, <1>4

\* Placing an entry keeps the types of what it is placed in, in the tree or outside.
LEMMA PlaceTypes ==
  ASSUME ScratchTypeOK, NEW p \in Paths, Place(p)
  PROVE  /\ outside' \in [Paths -> Entry(Versions)]
         /\ tree' \in [Paths -> Entry(Versions \union Splices)]
<1>1. source[p] \in Entry(Versions) /\ source[p] \in Entry(Versions \union Splices)
  <2>1. Entry(Versions) \subseteq Entry(Versions \union Splices)
    BY KindsApart
  <2> QED
    BY <2>1 DEF ScratchTypeOK
<1>2. CASE Behind(p)
  BY <1>1, <1>2 DEF Place, ScratchTypeOK
<1>3. CASE ~Behind(p)
  <2>1. Put(tree, p, source[p]) \in [Paths -> Entry(Versions \union Splices)]
    BY <1>1, PutType DEF ScratchTypeOK
  <2> QED
    BY <1>3, <2>1 DEF Place, ScratchTypeOK
<1> QED
  BY <1>2, <1>3

\* A step of a copy or of a synchronisation places its entry, dated one way or the
\* other, or does nothing to it.
LEMMA EntryStep ==
  ASSUME NEW p \in Paths, CopyEntry(p) \/ SyncEntry(p)
  PROVE  \/ Place(p) /\ (Written(p) \/ Undated(p))
         \/ UNCHANGED <<tree, fresh, aged, outside>>
BY DEF CopyEntry, CopyFile, SyncEntry, SyncDir, SyncSymlink, SyncFile, Write

\* The empty tree is a tree, and one that can be found.
LEMMA NothingType == \A C : Nothing \in [Paths -> Entry(C)] /\ Found(Nothing)
<1> SUFFICES ASSUME NEW C
             PROVE  Nothing \in [Paths -> Entry(C)] /\ Found(Nothing)
  OBVIOUS
<1>1. Absent \in Entry(C)
  BY KindsApart
<1> QED
  BY <1>1 DEF Nothing, Found

\* Every variable keeps its type.
LEMMA ScratchTypes == ScratchTypeOK /\ [ScratchNext]_scratchVars => ScratchTypeOK'
<1> SUFFICES ASSUME ScratchTypeOK, [ScratchNext]_scratchVars
             PROVE  ScratchTypeOK'
  OBVIOUS
<1> USE ScratchAssumption DEF ScratchTypeOK, users, cargo, run, past, Preparing, Working
<1>1. ASSUME NEW p \in Paths, NEW entry \in Entry(Versions), Edit(p, entry)
      PROVE  ScratchTypeOK'
  <2>1. source' \in [Paths -> Entry(Versions)]
    BY <1>1, KindsApart DEF Edit
  <2>2. edited' \in 0 .. Edits
    BY <1>1 DEF Edit
  <2>3. still' \in BOOLEAN /\ UNCHANGED <<outside, exists, tree, sentinel, cargo, run, leftover>>
    BY <1>1, Zenon DEF Edit
  <2> QED
    BY <2>1, <2>2, <2>3
<1>2. CASE SyncOrCopy
  <2>1. Present(source) \subseteq Paths
    BY DEF Present
  <2>2. started' \in 0 .. Runs
    BY <1>2 DEF SyncOrCopy
  <2>3. still' \in BOOLEAN /\ settled' \in BOOLEAN
    BY <1>2, Zenon DEF SyncOrCopy
  <2>4. exists' \in BOOLEAN /\ sentinel' \in BOOLEAN
    BY <1>2, Zenon DEF SyncOrCopy, Copying
  <2>5. /\ todo' \subseteq Paths /\ expected' \subseteq Paths
        /\ pc' \in {"idle", "removing"} \union Preparing \union Working
    BY <1>2, <2>1 DEF SyncOrCopy, Copying
  <2>6. UNCHANGED <<users, tree, cargo, leftover>>
    BY <1>2 DEF SyncOrCopy
  <2> QED
    BY <2>2, <2>3, <2>4, <2>5, <2>6
<1>3. CASE Clear \/ SyncFails
  <2>1. Present(source) \subseteq Paths
    BY DEF Present
  <2> QED
    <3>1. tree' \in [Paths -> Entry(Versions \union Splices)]
      BY <1>3, NothingType, RemainsType DEF Clear, SyncFails
    <3>2. exists' \in BOOLEAN
      BY <1>3, Zenon DEF Clear, SyncFails, Copying
    <3>3. todo' \subseteq Paths /\ pc' = "copying"
      BY <1>3, <2>1 DEF Clear, SyncFails, Copying
    <3>4. leftover' \subseteq Paths
      BY <1>3 DEF Clear, SyncFails, Present
    <3> QED
      BY <1>3, <3>1, <3>2, <3>3, <3>4 DEF Clear, SyncFails
<1>4. CASE RemoveStale
  <2>1. tree' \in [Paths -> Entry(Versions \union Splices)]
    BY <1>4, KindsApart DEF RemoveStale
  <2> QED
    BY <1>4, <2>1 DEF RemoveStale
<1>5. CASE MarkConsistent \/ CopyFails
  BY <1>5 DEF MarkConsistent, CopyFails
<1>6. ASSUME NEW p \in Paths, CopyEntry(p) \/ SyncEntry(p)
      PROVE  ScratchTypeOK'
  <2>1. \/ Place(p) /\ (Written(p) \/ Undated(p))
        \/ UNCHANGED <<tree, fresh, aged, outside>>
    BY <1>6, EntryStep
  <2>2. /\ outside' \in [Paths -> Entry(Versions)]
        /\ tree' \in [Paths -> Entry(Versions \union Splices)]
        /\ fresh' \subseteq Paths /\ aged' \subseteq Paths
    BY <2>1, PlaceTypes DEF Written, Undated
  <2> QED
    BY <1>6, <2>2 DEF CopyEntry, SyncEntry
<1>7. ASSUME NEW p \in Paths, NEW c \in Versions \union Splices, Overwrite(p, c)
      PROVE  ScratchTypeOK'
  <2>1. tree' \in [Paths -> Entry(Versions \union Splices)]
    BY <1>7, KindsApart DEF Overwrite
  <2> QED
    BY <1>7, <2>1 DEF Overwrite, Written
<1>8. CASE Build
  <2>1. built' \in [Paths -> Entry(Versions \union Splices)]
    BY <1>8 DEF Build
  <2> QED
    BY <1>8, <2>1 DEF Build
<1>9. CASE Settle \/ Finish
  BY <1>9 DEF Settle, Finish
<1>10. CASE RemoveTree \/ RemoveTarget
  <2>1. Nothing \in [Paths -> Entry(Versions \union Splices)]
    BY NothingType
  <2>2. CASE RemoveTree
    BY <2>1, <2>2 DEF RemoveTree
  <2>3. CASE RemoveTarget
    BY <2>1, <2>3 DEF RemoveTarget
  <2> QED
    BY <1>10, <2>2, <2>3
<1>11. CASE Kill
  <2>1. tree' \in [Paths -> Entry(Versions \union Splices)]
    <3>1. \A r \in Remains(tree) : r \in [Paths -> Entry(Versions \union Splices)]
      BY RemainsType
    <3> QED
      BY <1>11, <3>1 DEF Kill
  <2> QED
    BY <1>11, <2>1 DEF Kill
<1>12. CASE UNCHANGED scratchVars
  BY <1>12 DEF scratchVars
<1> QED
  BY <1>1, <1>2, <1>3, <1>4, <1>5, <1>6, <1>7, <1>8, <1>9, <1>10, <1>11, <1>12
     DEF ScratchNext, Prepare

\* The user may only make trees a disk can hold, and only of the shapes allowed.
LEMMA UserTreeStep ==
  ScratchTypeOK /\ UserTree /\ [ScratchNext]_scratchVars => UserTree'
<1> SUFFICES ASSUME ScratchTypeOK, UserTree, [ScratchNext]_scratchVars
             PROVE  UserTree'
  OBVIOUS
<1>1. ASSUME NEW p \in Paths, NEW entry \in Entry(Versions), Edit(p, entry)
      PROVE  UserTree'
  <2>1. /\ source' = [q \in Paths |-> IF q = p THEN entry
                                     ELSE IF Parent[q] = p THEN Absent ELSE source[q]]
        /\ entry.kind \in Shapes[p]
        /\ Parent[p] # Top => source[Parent[p]] = Dir
    BY <1>1 DEF Edit
  <2>2. \A q \in Paths : source'[q] \in {Dir, Link} => MayBe(q, source'[q].kind)
    <3> SUFFICES ASSUME NEW q \in Paths, source'[q] \in {Dir, Link}
                 PROVE  MayBe(q, source'[q].kind)
      OBVIOUS
    <3>1. CASE q = p
      BY <2>1, <3>1 DEF MayBe
    <3>2. CASE q # p
      BY <2>1, <3>2, KindsApart DEF UserTree
    <3> QED
      BY <3>1, <3>2
  <2>3. Found(source')
    <3> SUFFICES ASSUME NEW q \in Paths, source'[q] # Absent, Parent[q] # Top
                 PROVE  source'[Parent[q]] = Dir
      BY DEF Found
    <3> DEFINE r == Parent[q]
    <3>1. r \in Paths /\ Parent[r] = Top /\ Top \notin Paths
      BY ScratchAssumption
    <3>2. CASE q = p
      <4>1. source[r] = Dir /\ r # p
        BY <2>1, <3>1, <3>2
      <4> QED
        BY <2>1, <3>1, <4>1
    <3>3. CASE q # p
      <4>1. r # p /\ source[q] # Absent
        BY <2>1, <3>3
      <4>2. source[r] = Dir
        BY <4>1 DEF UserTree, Found
      <4> QED
        BY <2>1, <3>1, <4>1, <4>2
    <3> QED
      BY <3>2, <3>3
  <2> QED
    BY <2>2, <2>3 DEF UserTree, Found
<1>2. CASE UNCHANGED source
  BY <1>2 DEF UserTree, Found
<1> QED
  BY <1>1, <1>2
     DEF ScratchNext, Prepare, SyncOrCopy, Clear, SyncFails, RemoveStale, MarkConsistent,
         CopyFails, CopyEntry, SyncEntry, Overwrite, Build, Settle, Finish, RemoveTree,
         RemoveTarget, Kill, users, scratchVars

\* An entry is written in the tree only below a directory, and only as it is in
\* the source.
LEMMA PlaceKeepsTree ==
  ASSUME ScratchTypeOK, UserTree, OwnTree, NEW p \in Paths, ~UnderFile(p), Place(p), exists
  PROVE  /\ Found(tree')
         /\ \A q \in Paths : tree'[q] = Link => MayBe(q, "link")
<1>1. CASE Behind(p)
  BY <1>1 DEF Place, OwnTree
<1>2. CASE ~Behind(p)
  <2>1. tree' = Put(tree, p, source[p])
    BY <1>2 DEF Place
  <2>2. Parent[p] # Top => tree[Parent[p]] \in {Absent, Dir}
    <3> SUFFICES ASSUME Parent[p] # Top
                 PROVE  tree[Parent[p]] \in {Absent, Dir}
      OBVIOUS
    <3>1. Parent[p] \in Paths
      BY ScratchAssumption
    <3>2. tree[Parent[p]] \in Entry(Versions \union Splices)
      BY <3>1 DEF ScratchTypeOK
    <3>3. tree[Parent[p]].kind # "file" /\ tree[Parent[p]] # Link
      BY <1>2 DEF UnderFile, Behind
    <3> QED
      BY <3>2, <3>3, Kinds
  <2>3. Found(tree')
    BY <2>1, <2>2, PutFound DEF OwnTree
  <2>4. ASSUME NEW q \in Paths, tree'[q] = Link
        PROVE  MayBe(q, "link")
    <3>1. CASE q = p
      <4>1. Put(tree, p, source[p])[p] = source[p]
        BY PutHere
      <4>2. source[p] = Link
        BY <2>1, <2>4, <3>1, <4>1
      <4>3. MayBe(p, source[p].kind) /\ source[p].kind = "link"
        BY <4>2, KindsApart DEF UserTree
      <4> QED
        BY <3>1, <4>3
    <3>2. CASE q # p
      <4>1. tree[q] = Link
        BY <2>1, <2>4, <3>2, PutKeeps, KindsApart
      <4> QED
        BY <4>1 DEF OwnTree
    <3> QED
      BY <3>1, <3>2
  <2> QED
    BY <2>3, <2>4
<1> QED
  BY <1>1, <1>2

\* While a run prepares its tree, the tree has a root.
Rooted == pc \in {"copying", "syncing"} => exists

\* Nothing takes the root away from a run that copies or synchronises.
LEMMA RootedStep ==
  ScratchTypeOK /\ Rooted /\ [ScratchNext]_scratchVars => Rooted'
BY DEF Rooted, ScratchNext, Prepare, SyncOrCopy, Copying, Clear, SyncFails, RemoveStale,
       MarkConsistent, CopyFails, CopyEntry, SyncEntry, Overwrite, Build, Settle, Finish,
       RemoveTree, RemoveTarget, Kill, Edit, users, run, past, scratchVars, Working

\* No step leaves an entry in the scratch tree without the directory above it.
LEMMA OwnTreeStep ==
  ScratchTypeOK /\ UserTree /\ OwnTree /\ Rooted /\ [ScratchNext]_scratchVars => OwnTree'
<1> SUFFICES ASSUME ScratchTypeOK, UserTree, OwnTree, Rooted, [ScratchNext]_scratchVars
             PROVE  OwnTree'
  OBVIOUS
<1>1. CASE UNCHANGED tree /\ (exists' = exists \/ exists')
  BY <1>1 DEF OwnTree, Found
<1>2. CASE Clear \/ RemoveTree
  <2>1. tree' = Nothing
    BY <1>2 DEF Clear, RemoveTree
  <2>2. \A q \in Paths : tree'[q] = Absent
    BY <2>1 DEF Nothing
  <2> QED
    BY <2>1, <2>2, KindsApart DEF OwnTree, Found
<1>3. ASSUME NEW p \in Paths, CopyEntry(p) \/ SyncEntry(p)
      PROVE  OwnTree'
  <2>1. /\ Place(p) \/ UNCHANGED tree
        /\ exists /\ UNCHANGED exists /\ ~UnderFile(p)
    BY <1>3, EntryStep DEF CopyEntry, SyncEntry, Rooted
  <2>2. CASE Place(p)
    BY <2>1, <2>2, PlaceKeepsTree DEF OwnTree, Found
  <2>3. CASE UNCHANGED tree
    BY <2>1, <2>3 DEF OwnTree, Found
  <2> QED
    BY <2>1, <2>2, <2>3
<1>4. CASE RemoveStale
  <2> DEFINE kept(p) == \/ p \in expected
                        \/ tree[p] = Dir /\ Children(p) \intersect expected \intersect Present(tree) # {}
  <2>1. \A q \in Paths : tree'[q] = IF kept(q) THEN tree[q] ELSE Absent
    BY <1>4 DEF RemoveStale
  <2>2. exists /\ UNCHANGED exists
    BY <1>4 DEF RemoveStale, Rooted
  <2>3. ASSUME NEW q \in Paths, tree'[q] # Absent, Parent[q] # Top
        PROVE  tree'[Parent[q]] = Dir
    <3>1. tree[q] # Absent /\ kept(q) /\ Parent[q] \in Paths
      BY <2>1, <2>3, ScratchAssumption
    <3>2. Children(q) = {}
      BY <2>3, ScratchAssumption DEF Children
    <3>3. tree[Parent[q]] = Dir
      BY <2>3, <3>1 DEF OwnTree, Found
    <3>4. q \in Children(Parent[q]) \intersect expected \intersect Present(tree)
      BY <3>1, <3>2 DEF Children, Present
    <3> QED
      BY <2>1, <3>1, <3>3, <3>4
  <2>4. \A q \in Paths : tree'[q] = Link => tree[q] = Link
    BY <2>1, KindsApart
  <2> QED
    BY <2>2, <2>3, <2>4 DEF OwnTree, Found
<1>5. ASSUME NEW p \in Paths, NEW c \in Versions \union Splices, Overwrite(p, c)
      PROVE  OwnTree'
  <2>1. /\ tree' = [tree EXCEPT ![p] = File(c)]
        /\ tree[p].kind = "file" /\ UNCHANGED exists
    BY <1>5 DEF Overwrite
  <2>2. \A q \in Paths : /\ tree'[q] # Absent => tree[q] # Absent
                         /\ tree[q] = Dir => tree'[q] = Dir
                         /\ tree'[q] = Link => tree[q] = Link
    BY <2>1, KindsApart DEF ScratchTypeOK
  <2>3. ASSUME ~exists
        PROVE  FALSE
    <3>1. tree[p] = Absent
      BY <2>3 DEF OwnTree, Nothing
    <3> QED
      BY <2>1, <3>1, KindsApart
  <2>4. Found(tree')
    BY <2>2, ScratchAssumption DEF OwnTree, Found
  <2> QED
    BY <2>1, <2>2, <2>3, <2>4 DEF OwnTree, Found
<1>6. CASE Kill
  <2>1. UNCHANGED exists
    BY <1>6 DEF Kill
  <2>2. CASE UNCHANGED tree
    BY <2>1, <2>2 DEF OwnTree, Found
  <2>3. CASE tree' \in Remains(tree)
    <3>1. Found(tree') /\ \A q \in Paths : tree'[q] \in {Absent, tree[q]}
      BY <2>3, RemainsKeep DEF OwnTree
    <3>2. ~exists => tree' = Nothing
      <4> SUFFICES ASSUME ~exists PROVE tree' = Nothing
        OBVIOUS
      <4>1. \A q \in Paths : tree'[q] = Absent
        BY <3>1 DEF OwnTree, Nothing
      <4>2. tree' = [q \in Paths |-> tree'[q]]
        BY <2>3 DEF Remains
      <4> QED
        BY <4>1, <4>2 DEF Nothing
    <3> QED
      BY <2>1, <3>1, <3>2, KindsApart DEF OwnTree, Found
  <2> QED
    BY <1>6, <2>2, <2>3 DEF Kill
<1>7. CASE SyncFails
  <2>1. tree' \in Remains(tree) /\ exists'
    BY <1>7 DEF SyncFails, Copying
  <2>2. Found(tree') /\ \A q \in Paths : tree'[q] \in {Absent, tree[q]}
    BY <2>1, RemainsKeep DEF OwnTree
  <2> QED
    BY <2>1, <2>2, KindsApart DEF OwnTree, Found
<1> QED
  BY <1>1, <1>2, <1>3, <1>4, <1>5, <1>6, <1>7
     DEF ScratchNext, Prepare, SyncOrCopy, Copying, MarkConsistent, CopyFails, Build, Settle,
         Finish, RemoveTarget, Edit, users, run, scratchVars

\* Where links keep apart from directories, what the source holds is never reached
\* through a link in the tree.
LEMMA NotBehind ==
  ASSUME LinksAside, UserTree, OwnTree, NEW p \in Paths, source[p] # Absent
  PROVE  ~Behind(p)
<1> SUFFICES ASSUME Parent[p] # Top, tree[Parent[p]] = Link
             PROVE  FALSE
  BY DEF Behind
<1>1. Parent[p] \in Paths
  BY ScratchAssumption
<1>2. MayBe(Parent[p], "link")
  BY <1>1 DEF OwnTree
<1>3. source[Parent[p]] = Dir
  BY DEF UserTree, Found
<1>4. MayBe(Parent[p], source[Parent[p]].kind) /\ source[Parent[p]].kind = "dir"
  BY <1>1, <1>3, KindsApart DEF UserTree
<1> QED
  BY <1>1, <1>2, <1>4 DEF LinksAside

\* Nor does the tree hold a link where the source has a directory.
LEMMA NoLinkForDir ==
  ASSUME LinksAside, UserTree, OwnTree, NEW p \in Paths, source[p] = Dir
  PROVE  tree[p] # Link
<1>1. MayBe(p, source[p].kind) /\ source[p].kind = "dir"
  BY KindsApart DEF UserTree
<1> QED
  BY <1>1 DEF LinksAside, OwnTree

\* Putting what the source has where the tree has no directory for it undoes nothing
\* that is already there as in the source.
LEMMA PutMirrors ==
  ASSUME UserTree, OwnTree, NEW p \in Paths, source[p] # Absent,
         source[p] = Dir => tree[p] # Dir,
         NEW q \in Paths, tree[q] = source[q] \/ q = p
  PROVE  Put(tree, p, source[p])[q] = source[q]
<1>1. CASE q = p
  BY <1>1, PutAt
<1>2. CASE q # p /\ Parent[q] = p
  <2>1. Put(tree, p, source[p])[q] = Absent
    BY <1>2, PutAt
  <2>2. ASSUME source[q] # Absent
        PROVE  FALSE
    <3>1. source[p] = Dir /\ tree[p] = Dir
      BY <1>2, <2>2, ScratchAssumption DEF UserTree, OwnTree, Found
    <3> QED
      BY <3>1
  <2> QED
    BY <2>1, <2>2
<1>3. CASE q # p /\ Parent[q] # p
  <2>1. Put(tree, p, source[p])[q] = IF q = Parent[p] /\ tree[q] = Absent THEN Dir ELSE tree[q]
    BY <1>3, PutAt
  <2>2. ASSUME q = Parent[p]
        PROVE  source[q] = Dir
    BY <2>2, ScratchAssumption DEF UserTree, Found
  <2> QED
    BY <1>3, <2>1, <2>2
<1> QED
  BY <1>1, <1>2, <1>3

\* And while the tree is being copied from nothing, what it lacks is still to come.
LEMMA PutGrows ==
  ASSUME UserTree, OwnTree, NEW p \in Paths, source[p] # Absent,
         source[p] = Dir => tree[p] # Dir,
         NEW q \in Paths, q # p, tree[q] = Absent
  PROVE  Put(tree, p, source[p])[q] \in {Absent, source[q]}
<1>1. CASE Parent[q] = p
  BY <1>1, PutAt
<1>2. CASE Parent[q] # p
  <2>1. Put(tree, p, source[p])[q] = IF q = Parent[p] /\ tree[q] = Absent THEN Dir ELSE tree[q]
    BY <1>2, PutAt
  <2>2. ASSUME q = Parent[p]
        PROVE  source[q] = Dir
    BY <2>2, ScratchAssumption DEF UserTree, Found
  <2> QED
    BY <2>1, <2>2
<1> QED
  BY <1>1, <1>2

\* An entry that is synchronised or copied is the source's from then on, or was, or is
\* one that a copy passes over.
LEMMA EntryMirrors ==
  ASSUME LinksAside, ScratchTypeOK, UserTree, OwnTree, NEW p \in Paths, CopyEntry(p) \/ SyncEntry(p)
  PROVE  /\ UNCHANGED outside
         /\ \/ source[p] # Absent /\ UNCHANGED tree /\ tree[p] = source[p]
            \/ /\ source[p] # Absent /\ (source[p] = Dir => tree[p] # Dir)
               /\ tree' = Put(tree, p, source[p])
            \/ CopyEntry(p) /\ Passed(p) /\ UNCHANGED tree
<1>1. source[p] \in Entry(Versions) /\ tree[p] \in Entry(Versions \union Splices)
  BY DEF ScratchTypeOK
<1>2. CASE CopyEntry(p) /\ Passed(p)
  <2>1. CASE UNCHANGED <<tree, fresh, aged, outside>>
    BY <1>2, <2>1
  <2>2. CASE source[p] \in {Link, Dir} /\ At(p) = Absent
    <3>1. source[p] = Absent
      BY <1>2, <2>2 DEF Passed
    <3> QED
      BY <2>2, <3>1, KindsApart
  <2> QED
    BY <1>2, <2>1, <2>2 DEF CopyEntry
<1>3. CASE SyncEntry(p) \/ ~Passed(p)
  <2>1. source[p].kind = "file" \/ source[p] \in {Link, Dir}
    BY <1>3 DEF CopyEntry, CopyFile, SyncEntry, SyncDir, SyncSymlink, SyncFile
  <2>2. source[p] # Absent
    BY <2>1, KindsApart
  <2>3. ~Behind(p) /\ At(p) = tree[p]
    BY <2>2, NotBehind DEF At
  <2>4. Place(p) => tree' = Put(tree, p, source[p]) /\ UNCHANGED outside
    BY <2>3 DEF Place
  <2>5. source[p] = Dir => tree[p] # Link
    BY NoLinkForDir
  <2>6. CASE CopyEntry(p) /\ ~Passed(p)
    <3>1. CASE CopyFile(p)
      <4>1. source[p].kind = "file" /\ Place(p)
        BY <3>1 DEF CopyFile
      <4> QED
        BY <2>2, <2>4, <4>1, KindsApart
    <3>2. CASE source[p] \in {Link, Dir} /\ At(p) = Absent /\ Write(p)
      BY <2>2, <2>3, <2>4, <3>2, KindsApart DEF Write
    <3>3. CASE source[p] = Dir /\ At(p) \in {Dir, Link} /\ UNCHANGED <<tree, fresh, aged, outside>>
      BY <2>2, <2>3, <2>5, <3>3
    <3> QED
      BY <2>6, <3>1, <3>2, <3>3 DEF CopyEntry
  <2>7. CASE SyncEntry(p)
    <3>1. CASE SyncDir(p)
      BY <2>2, <2>3, <2>4, <2>5, <3>1 DEF SyncDir, Write
    <3>2. CASE SyncSymlink(p)
      BY <2>2, <2>3, <2>4, <3>2, KindsApart DEF SyncSymlink, Write
    <3>3. CASE SyncFile(p)
      BY <2>2, <2>3, <2>4, <3>3, KindsApart DEF SyncFile, Write
    <3> QED
      BY <2>7, <3>1, <3>2, <3>3 DEF SyncEntry
  <2> QED
    BY <1>3, <2>6, <2>7
<1> QED
  BY <1>2, <1>3

\* Where links keep apart from directories, a copy and a synchronisation both bring
\* the tree to the source, whatever it was before.
LEMMA MirroringStep ==
  LinksAside /\ MirrorInv /\ [ScratchNext]_scratchVars => Mirroring'
<1> SUFFICES ASSUME LinksAside, ScratchTypeOK, UserTree, OwnTree, Mirroring,
                    [ScratchNext]_scratchVars
             PROVE  Mirroring'
  BY DEF MirrorInv
<1> USE DEF users, cargo, run, past, MirrorsSource, Uncopied
<1>1. ASSUME NEW p \in Paths, NEW entry \in Entry(Versions), Edit(p, entry)
      PROVE  Mirroring'
  BY <1>1 DEF Edit, Mirroring
<1>2. CASE SyncOrCopy
  <2>1. CASE ~exists /\ Copying(Present(source))
    <3>1. \A q \in Paths : tree[q] = Absent
      BY <2>1 DEF OwnTree, Nothing
    <3>2. \A q \in Paths : tree'[q] = source'[q] \/ (tree'[q] = Absent /\ q \in todo')
      BY <1>2, <2>1, <3>1 DEF SyncOrCopy, Copying, Present
    <3> QED
      BY <2>1, <3>2 DEF Mirroring, Copying
  <2>2. CASE pc' = "clearing"
    BY <2>2 DEF Mirroring
  <2>3. CASE pc' = "syncing" /\ expected' = Present(source) /\ todo' = expected'
    BY <1>2, <2>3 DEF SyncOrCopy, Mirroring, Present
  <2> QED
    BY <1>2, <2>1, <2>2, <2>3 DEF SyncOrCopy
<1>3. CASE Clear \/ SyncFails
  <2>1. pc' = "copying" /\ todo' = Present(source) /\ UNCHANGED source
    BY <1>3 DEF Clear, SyncFails, Copying
  <2>2. ASSUME NEW q \in Paths
        PROVE  tree'[q] = Absent \/ q \in leftover'
    BY <1>3 DEF Clear, Nothing, SyncFails, Present
  <2> QED
    BY <2>1, <2>2 DEF Mirroring, Present
<1>4. CASE RemoveStale
  <2> SUFFICES ASSUME still
               PROVE  tree' = source /\ UNCHANGED source /\ pc' = "copied"
    BY <1>4 DEF RemoveStale, Mirroring
  <2> DEFINE kept(p) == \/ p \in expected
                        \/ tree[p] = Dir /\ Children(p) \intersect expected \intersect Present(tree) # {}
  <2>1. /\ tree' = [p \in Paths |-> IF kept(p) THEN tree[p] ELSE Absent]
        /\ todo = {} /\ UNCHANGED source /\ pc' = "copied"
    BY <1>4 DEF RemoveStale
  <2>2. expected = Present(source) /\ \A p \in expected : tree[p] = source[p]
    BY <1>4, <2>1 DEF RemoveStale, Mirroring
  <2>3. ASSUME NEW p \in Paths
        PROVE  tree'[p] = source[p]
    <3>1. CASE p \in expected
      BY <2>1, <2>2, <3>1
    <3>2. CASE p \notin expected
      <4>1. source[p] = Absent
        BY <2>2, <3>2 DEF Present
      <4>2. ASSUME NEW c \in Children(p) \intersect expected
            PROVE  FALSE
        <5>1. source[p] = Dir
          BY <2>2, ScratchAssumption DEF Children, Present, UserTree, Found
        <5> QED
          BY <4>1, <5>1, KindsApart
      <4>3. ~kept(p)
        BY <3>2, <4>2
      <4> QED
        BY <2>1, <4>1, <4>3
    <3> QED
      BY <3>1, <3>2
  <2>4. source = [p \in Paths |-> source[p]]
    BY DEF ScratchTypeOK
  <2> QED
    BY <2>1, <2>3, <2>4
<1>5. CASE MarkConsistent
  <2>1. UNCHANGED <<source, tree, still, leftover>> /\ pc' = "mirrored"
    BY <1>5 DEF MarkConsistent
  <2> SUFFICES ASSUME still, NEW q \in Paths
               PROVE  tree[q] = source[q] \/ (q \in leftover /\ Uncopied(q))
    BY <2>1 DEF Mirroring
  <2> QED
    BY <1>5 DEF MarkConsistent, Mirroring
<1>6. ASSUME NEW p \in Paths, CopyEntry(p)
      PROVE  Mirroring'
  <2>1. /\ UNCHANGED <<source, pc, still, leftover>>
        /\ pc = "copying" /\ todo' = todo \ {p}
    BY <1>6 DEF CopyEntry
  <2> SUFFICES ASSUME still, NEW q \in Paths
               PROVE  \/ tree'[q] = source[q]
                      \/ q \in todo' /\ (tree'[q] = Absent \/ q \in leftover)
                      \/ q \in leftover /\ Uncopied(q)
    BY <2>1 DEF Mirroring
  <2>2. \/ tree[q] = source[q]
        \/ q \in todo /\ (tree[q] = Absent \/ q \in leftover)
        \/ q \in leftover /\ Uncopied(q)
    BY <2>1 DEF Mirroring
  <2>3. CASE UNCHANGED tree /\ tree[p] = source[p]
    BY <2>1, <2>2, <2>3
  <2>4. CASE source[p] # Absent /\ (source[p] = Dir => tree[p] # Dir) /\ tree' = Put(tree, p, source[p])
    <3>1. CASE tree[q] = source[q] \/ q = p
      BY <2>4, <3>1, PutMirrors
    <3>2. CASE q # p /\ tree[q] # source[q] /\ tree[q] = Absent
      BY <2>1, <2>2, <2>4, <3>2, PutGrows
    <3>3. CASE q # p /\ q \in leftover
      BY <2>1, <2>2, <2>4, <3>1, <3>3
    <3> QED
      BY <2>2, <3>1, <3>2, <3>3
  <2>5. CASE Passed(p) /\ UNCHANGED tree
    <3>1. CASE q # p
      BY <2>1, <2>2, <2>5, <3>1
    <3>2. CASE q = p /\ source[p] = Absent
      BY <2>1, <2>2, <2>5, <3>2
    <3>3. CASE q = p /\ At(p) # Absent /\ p \in Hidden /\ source[p] # Absent
      <4>1. tree[p] # Absent
        BY <3>3, NotBehind DEF At
      <4> QED
        BY <2>1, <2>2, <2>5, <3>3, <4>1
    <3> QED
      BY <2>5, <3>1, <3>2, <3>3 DEF Passed
  <2> QED
    BY <1>6, <2>3, <2>4, <2>5, EntryMirrors
<1>7. ASSUME NEW p \in Paths, SyncEntry(p)
      PROVE  Mirroring'
  <2>1. UNCHANGED <<source, pc, still, expected>> /\ pc = "syncing" /\ todo' = todo \ {p}
    BY <1>7 DEF SyncEntry
  <2> SUFFICES ASSUME still
               PROVE  /\ expected = Present(source)
                      /\ \A q \in expected \ todo' : tree'[q] = source[q]
    BY <2>1 DEF Mirroring, Present
  <2>2. expected = Present(source) /\ \A q \in expected \ todo : tree[q] = source[q]
    BY <2>1 DEF Mirroring
  <2>3. ASSUME NEW q \in expected \ todo'
        PROVE  tree'[q] = source[q]
    <3>1. q \in Paths /\ (tree[q] = source[q] \/ q = p)
      BY <2>1, <2>2 DEF Present
    <3>2. ~CopyEntry(p)
      BY <2>1 DEF CopyEntry
    <3> QED
      BY <1>7, <3>1, <3>2, EntryMirrors, PutMirrors
  <2> QED
    BY <2>2, <2>3
<1>8. CASE CopyFails \/ Settle \/ Finish \/ RemoveTree \/ RemoveTarget \/ Kill \/ Build
  BY <1>8 DEF CopyFails, Settle, Finish, RemoveTree, RemoveTarget, Kill, Build, Working, Mirroring
<1>9. ASSUME NEW p \in Paths, NEW c \in Versions \union Splices, Overwrite(p, c)
      PROVE  Mirroring'
  BY <1>9 DEF Overwrite, Mirroring
<1>10. CASE UNCHANGED scratchVars
  BY <1>10 DEF scratchVars, Mirroring, Present
<1> QED
  BY <1>1, <1>2, <1>3, <1>4, <1>5, <1>6, <1>7, <1>8, <1>9, <1>10 DEF ScratchNext, Prepare

\* The first run finds no tree, and everything holds of it.
LEMMA ScratchStart == ScratchInit => MirrorInv /\ Rooted /\ Dated
<1> SUFFICES ASSUME ScratchInit PROVE MirrorInv /\ Rooted /\ Dated
  OBVIOUS
<1> USE DEF ScratchInit
<1>1. ScratchTypeOK
  <2>1. Nothing \in [Paths -> Entry(Versions)] /\ Nothing \in [Paths -> Entry(Versions \union Splices)]
    BY NothingType
  <2>2. outside = Nothing
    BY DEF Nothing
  <2>3. started \in 0 .. Runs /\ edited \in 0 .. Edits
    BY ScratchAssumption
  <2>4. exists \in BOOLEAN /\ sentinel \in BOOLEAN /\ settled \in BOOLEAN /\ still \in BOOLEAN
    BY Zenon
  <2>5. source \in [Paths -> Entry(Versions)]
    BY SourcesAssumption
  <2> QED
    BY <2>1, <2>2, <2>3, <2>4, <2>5 DEF ScratchTypeOK
<1>2. UserTree
  BY SourcesAssumption DEF UserTree, MayBe
<1>3. OwnTree
  <2>1. Found(Nothing)
    BY NothingType
  <2>2. \A p \in Paths : tree[p] = Absent
    BY DEF Nothing
  <2> QED
    BY <2>1, <2>2, KindsApart DEF OwnTree
<1>4. Mirroring /\ Rooted /\ Dated
  BY DEF Mirroring, MirrorsSource, Rooted, Dated
<1> QED
  BY <1>1, <1>2, <1>3, <1>4 DEF MirrorInv

\* MirrorInv is inductive together with Rooted.
LEMMA MirrorInvariance ==
  ASSUME LinksAside
  PROVE  ScratchSpec => [](MirrorInv /\ Rooted)
<1>1. MirrorInv /\ Rooted /\ [ScratchNext]_scratchVars => (MirrorInv /\ Rooted)'
  BY ScratchTypes, UserTreeStep, OwnTreeStep, RootedStep, MirroringStep DEF MirrorInv
<1> QED
  BY <1>1, ScratchStart, PTL DEF ScratchSpec

\* Where no path is a link at one time and a directory at another, every run starts
\* from a tree that is the source, whatever an earlier run left and wherever it was
\* killed, but for what the run itself has failed to remove and had nothing to copy
\* over (sync.rs: sync_or_copy).
THEOREM StartsFromSource ==
  ASSUME LinksAside
  PROVE  ScratchSpec => []MirrorsSource
<1>1. MirrorInv => MirrorsSource
  BY DEF MirrorInv, Mirroring, MirrorsSource
<1> QED
  BY <1>1, MirrorInvariance, PTL

\* There, too, no run writes through a link: what is outside the tree stays as it
\* was (sync.rs and copy.rs: every write goes where the path leads).
THEOREM WritesStayInside ==
  ASSUME LinksAside
  PROVE  ScratchSpec => SourceUntouched
<1>1. MirrorInv /\ [ScratchNext]_scratchVars => [outside' = outside]_scratchVars
  <2> SUFFICES ASSUME MirrorInv, ScratchNext PROVE outside' = outside
    OBVIOUS
  <2>1. ASSUME NEW p \in Paths, CopyEntry(p) \/ SyncEntry(p) PROVE outside' = outside
    BY <2>1, EntryMirrors DEF MirrorInv
  <2> QED
    BY <2>1 DEF ScratchNext, Prepare, SyncOrCopy, Clear, SyncFails, RemoveStale, MarkConsistent,
         CopyFails, Overwrite, Build, Settle, Finish, RemoveTree, RemoveTarget, Kill, Edit, users
<1> QED
  BY <1>1, MirrorInvariance, PTL DEF ScratchSpec, SourceUntouched

\* A path Cargo takes to be fresh lost that standing with every write to it.
LEMMA DatedStep ==
  ScratchTypeOK /\ Dated /\ [ScratchNext]_scratchVars => Dated'
<1> SUFFICES ASSUME ScratchTypeOK, Dated, [ScratchNext]_scratchVars
             PROVE  Dated'
  OBVIOUS
<1> USE DEF users, cargo, run, past
<1>1. CASE /\ pc' # "built" \/ pc = "built"
           /\ UNCHANGED <<built, fresh, aged>>
           /\ \A q \in Paths : tree'[q].kind = "file" => tree'[q] = tree[q]
  BY <1>1 DEF Dated, ScratchTypeOK
<1>2. ASSUME NEW p \in Paths, CopyEntry(p) \/ SyncEntry(p)
      PROVE  Dated'
  <2>1. UNCHANGED <<built, pc>> /\ pc # "built"
    BY <1>2 DEF CopyEntry, SyncEntry
  <2>2. CASE UNCHANGED <<tree, fresh, aged>>
    BY <2>1, <2>2 DEF Dated
  <2>3. CASE Place(p) /\ (Written(p) \/ Undated(p))
    <3>1. ASSUME NEW q \in fresh' \ aged', tree'[q].kind = "file"
          PROVE  built[q] = tree'[q]
      <4>1. q \in fresh \ aged /\ q \in Paths /\ q # p
        BY <2>3 DEF Written, Undated, ScratchTypeOK
      <4>2. tree'[q] = tree[q]
        BY <2>3, <3>1, <4>1, PutKeeps, KindsApart DEF Place
      <4> QED
        BY <3>1, <4>1, <4>2 DEF Dated
    <3> QED
      BY <2>1, <3>1 DEF Dated
  <2> QED
    BY <1>2, <2>2, <2>3, EntryStep
<1>3. ASSUME NEW p \in Paths, NEW c \in Versions \union Splices, Overwrite(p, c)
      PROVE  Dated'
  BY <1>3 DEF Overwrite, Written, Dated, ScratchTypeOK
<1>4. CASE Build
  BY <1>4 DEF Build, Dated, ScratchTypeOK
<1>5. CASE Clear \/ RemoveTree
  <2>1. tree' = Nothing /\ UNCHANGED <<built, fresh, aged>> /\ pc' # "built"
    BY <1>5 DEF Clear, RemoveTree, Copying
  <2>2. \A q \in Paths : tree'[q].kind # "file"
    BY <2>1, KindsApart DEF Nothing
  <2> QED
    BY <1>1, <2>1, <2>2
<1>6. CASE RemoveStale
  <2>1. \A q \in Paths : tree'[q].kind = "file" => tree'[q] = tree[q]
    BY <1>6, KindsApart DEF RemoveStale
  <2> QED
    BY <1>1, <1>6, <2>1 DEF RemoveStale
<1>7. CASE RemoveTarget
  BY <1>7 DEF RemoveTarget, Dated
<1>8. CASE Kill \/ SyncFails
  <2>1. \A q \in Paths : tree'[q].kind = "file" => tree'[q] = tree[q]
    <3>1. ASSUME tree' \in Remains(tree), NEW q \in Paths
          PROVE  tree'[q] \in {Absent, tree[q]}
      BY <3>1 DEF Remains
    <3> QED
      BY <1>8, <3>1, KindsApart DEF Kill, SyncFails
  <2> QED
    BY <1>1, <1>8, <2>1 DEF Kill, SyncFails, Copying
<1>9. CASE UNCHANGED <<tree, built, fresh, aged>> /\ (pc' # "built" \/ pc = "built")
  BY <1>1, <1>9
<1> QED
  BY <1>2, <1>3, <1>4, <1>5, <1>6, <1>7, <1>8, <1>9
     DEF ScratchNext, Prepare, SyncOrCopy, Copying, MarkConsistent, CopyFails, Settle, Finish,
         Edit, scratchVars

\* Cargo never takes what an earlier run spliced for what the tree holds now, wherever
\* no full copy has left a file older than its artifact: every other write dates the
\* file after it (sync.rs: stamp_mtime; overwrite; copy.rs: copy_file).
THEOREM BuildsWhatIsThere == ScratchSpec => []NeverStaleBuild
<1>1. ScratchTypeOK /\ Dated /\ [ScratchNext]_scratchVars => (ScratchTypeOK /\ Dated)'
  BY ScratchTypes, DatedStep
<1>2. ScratchTypeOK /\ Dated => NeverStaleBuild
  BY DEF Dated, NeverStaleBuild
<1> QED
  BY <1>1, <1>2, ScratchStart, PTL DEF ScratchSpec, MirrorInv
====
