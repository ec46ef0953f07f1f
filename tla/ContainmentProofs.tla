-------------------------- MODULE ContainmentProofs --------------------------
(***************************************************************************)
(* Proofs about Containment, for any set of threads, handlers and pids and *)
(* any number of slots.                                                    *)
(***************************************************************************)
EXTENDS Containment, FiniteSetTheorems, TLAPS

PCTypeOK ==
  /\ pc \in [Actors -> ThreadPC \union HandlerPC]
  /\ \A t \in Threads : pc[t] \in ThreadPC
  /\ \A d \in Deliveries : pc[d] \in HandlerPC

\* Sending an actor to one of its own labels keeps every actor at a label of its own.
LEMMA GotoType ==
  ASSUME PCTypeOK, NEW a \in Actors, NEW label,
         a \in Threads => label \in ThreadPC,
         a \in Deliveries => label \in HandlerPC,
         Goto(a, label)
  PROVE  PCTypeOK'
BY DEF PCTypeOK, Actors, Goto

\* A sweep's cursor stays inside the registry.
LEMMA NextSlotType ==
  ASSUME cursor \in [Actors -> Slots], NEW a \in Actors, NextSlot(a)
  PROVE  cursor' \in [Actors -> Slots]
<1>1. cursor[a] \in Slots
  OBVIOUS
<1>2. CASE cursor[a] < Capacity
  <2>1. cursor[a] + 1 \in Slots
    BY <1>1, <1>2, ContainmentAssumption DEF Slots
  <2> QED
    BY <1>2, <2>1 DEF NextSlot
<1>3. CASE ~(cursor[a] < Capacity)
  BY <1>3 DEF NextSlot
<1> QED
  BY <1>2, <1>3

\* Every variable keeps its type.
THEOREM TypeCorrect == Spec => []TypeOK
<1> USE ContainmentAssumption DEF TypeOK, Actors, registry, locals, Goto
<1>1. Init => TypeOK
  <2> SUFFICES ASSUME Init PROVE TypeOK
    OBVIOUS
  <2>1. 1 \in Slots /\ 0 \in 0..Capacity
    BY DEF Slots
  <2>2. PCTypeOK
    BY DEF Init, PCTypeOK, ThreadPC, HandlerPC
  <2>3. proc \in [Pids -> Pinned \union {"leaked", "foreign", "free"}]
    BY DEF Init
  <2>4. /\ slot \in [Threads -> 0..Capacity]
        /\ cursor \in [Actors -> Slots]
    BY <2>1 DEF Init
  <2> QED
    <3>1. /\ watched \in [Slots -> Pids \union {EMPTY}]
          /\ group \in [Threads -> Pids \union {EMPTY}]
          /\ hand \in [Actors -> Pids \union {EMPTY}]
          /\ then \in [Threads -> {"idle", "running", "stopped"}]
      BY DEF Init
    <3>2. interrupted \in BOOLEAN /\ dead \in BOOLEAN
      BY Zenon DEF Init
    <3>3. spawning \in Int
      <4>1. spawning = 0
        BY Zenon DEF Init
      <4> QED
        BY <4>1
    <3> QED
      BY <2>2, <2>3, <2>4, <3>1, <3>2, <3>3, Zenon DEF PCTypeOK
<1>2. TypeOK /\ [Next]_vars => TypeOK'
  <2> SUFFICES ASSUME TypeOK, [Next]_vars
               PROVE  TypeOK'
    OBVIOUS
  <2>1. ASSUME NEW t \in Threads, Open(t)
        PROVE  TypeOK'
    BY <2>1 DEF Open, ThreadPC, InWindow
  <2>2. ASSUME NEW t \in Threads, CheckInterrupted(t)
        PROVE  TypeOK'
    BY <2>2 DEF CheckInterrupted, Leave, ThreadPC, InWindow
  <2>3. ASSUME NEW t \in Threads, Spawn(t)
        PROVE  TypeOK'
    BY <2>3 DEF Spawn, ThreadPC, InWindow, Slots, Pinned
  <2>4. ASSUME NEW t \in Threads, SpawnFails(t)
        PROVE  TypeOK'
    BY <2>4 DEF SpawnFails, Leave, ThreadPC, InWindow
  <2>5. ASSUME NEW t \in Threads, TryClaim(t)
        PROVE  TypeOK'
    <3>1. CASE watched[cursor[t]] = EMPTY
      <4>1. watched' \in [Slots -> Pids \union {EMPTY}]
        BY <2>5, <3>1 DEF TryClaim
      <4>2. slot' \in [Threads -> 0..Capacity]
        <5>1. cursor[t] \in 0..Capacity
          BY DEF Slots
        <5> QED
          BY <2>5, <3>1, <5>1 DEF TryClaim
      <4>3. PCTypeOK'
        BY <2>5, <3>1, GotoType DEF TryClaim, PCTypeOK, ThreadPC, InWindow
      <4> QED
        BY <2>5, <3>1, <4>1, <4>2, <4>3 DEF TryClaim, PCTypeOK
    <3>2. CASE watched[cursor[t]] # EMPTY /\ cursor[t] < Capacity
      BY <2>5, <3>2 DEF TryClaim, Slots
    <3>3. CASE watched[cursor[t]] # EMPTY /\ ~(cursor[t] < Capacity)
      BY <2>5, <3>3 DEF TryClaim, ThreadPC, InWindow
    <3> QED
      BY <3>1, <3>2, <3>3
  <2>6. ASSUME NEW t \in Threads, CheckClaim(t)
        PROVE  TypeOK'
    BY <2>6 DEF CheckClaim, Adopted, Leave, ThreadPC, InWindow
  <2>7. ASSUME NEW t \in Threads, KillClaim(t)
        PROVE  TypeOK'
    BY ZenonT(40), <2>7 DEF KillClaim, KillGroup, Slain, Adopted, Leave, ThreadPC, InWindow, Pinned
  <2>8. ASSUME NEW t \in Threads, Abandon(t)
        PROVE  TypeOK'
    BY <2>8 DEF Abandon, KillGroup, Slain, ThreadPC, InWindow, Pinned
  <2>9. ASSUME NEW t \in Threads, ReapAbandoned(t)
        PROVE  TypeOK'
    BY <2>9 DEF ReapAbandoned, WaitFor, Leave, ThreadPC, InWindow, Pinned
  <2>10. ASSUME NEW t \in Threads, CloseWindow(t)
         PROVE  TypeOK'
    <3>1. PCTypeOK'
      BY <2>10, GotoType DEF CloseWindow, PCTypeOK, ThreadPC
    <3> QED
      BY <2>10, <3>1 DEF CloseWindow, PCTypeOK
  <2>11. ASSUME NEW t \in Threads, LastOut(t)
         PROVE  TypeOK'
    <3>1. PCTypeOK'
      BY <2>11, GotoType DEF LastOut, PCTypeOK, ThreadPC
    <3>2. cursor' \in [Actors -> Slots]
      <4>1. 1 \in Slots
        BY DEF Slots
      <4> QED
        BY <2>11, <4>1 DEF LastOut
    <3> QED
      BY <2>11, <3>1, <3>2 DEF LastOut, PCTypeOK
  <2>12. ASSUME NEW t \in Threads, pc[t] = "running", EndTree(t)
         PROVE  TypeOK'
    BY <2>12 DEF EndTree, KillGroup, Slain, ThreadPC, Pinned
  <2>13. ASSUME NEW t \in Threads, Release(t)
         PROVE  TypeOK'
    <3>1. watched' \in [Slots -> Pids \union {EMPTY}]
      BY <2>13 DEF Release
    <3>2. slot' \in [Threads -> 0..Capacity]
      BY <2>13 DEF Release
    <3>3. PCTypeOK'
      BY <2>13, GotoType DEF Release, PCTypeOK, ThreadPC
    <3> QED
      BY <2>13, <3>1, <3>2, <3>3 DEF Release, PCTypeOK
  <2>14. ASSUME NEW t \in Threads, Reap(t)
         PROVE  TypeOK'
    BY <2>14 DEF Reap, WaitFor, ThreadPC, Pinned
  <2>15. ASSUME NEW a \in Actors, SweepTake(a)
         PROVE  TypeOK'
    <3>1. cursor' \in [Actors -> Slots] /\ hand' \in [Actors -> Pids \union {EMPTY}]
      BY <2>15, NextSlotType DEF SweepTake
    <3>2. watched' \in [Slots -> Pids \union {EMPTY}]
      BY <2>15 DEF SweepTake
    <3>3. PCTypeOK'
      BY <2>15, GotoType DEF SweepTake, NextSlot, Swept, PCTypeOK, ThreadPC, HandlerPC
    <3> QED
      BY <2>15, <3>1, <3>2, <3>3 DEF SweepTake, PCTypeOK
  <2>16. ASSUME NEW a \in Actors, SweepKill(a)
         PROVE  TypeOK'
    <3>1. cursor' \in [Actors -> Slots] /\ hand' \in [Actors -> Pids \union {EMPTY}]
      BY <2>16, NextSlotType DEF SweepKill
    <3>2. proc' \in [Pids -> Pinned \union {"leaked", "foreign", "free"}]
      BY <2>16 DEF SweepKill, KillGroup, Slain, Pinned
    <3>3. PCTypeOK'
      BY <2>16, GotoType DEF SweepKill, NextSlot, Swept, PCTypeOK, ThreadPC, HandlerPC
    <3> QED
      BY <2>16, <3>1, <3>2, <3>3 DEF SweepKill, PCTypeOK
  <2>17. ASSUME NEW d \in Deliveries, Deliver(d)
         PROVE  TypeOK'
    BY <2>17 DEF Deliver, HandlerPC, Slots
  <2>18. ASSUME NEW d \in Deliveries, CheckSpawning(d)
         PROVE  TypeOK'
    BY <2>18 DEF CheckSpawning, HandlerPC
  <2>19. ASSUME NEW a \in Actors, Die(a)
         PROVE  TypeOK'
    BY <2>19 DEF Die
  <2>20. ASSUME NEW p \in Pids, Kernel(p)
         PROVE  TypeOK'
    BY <2>20 DEF Kernel, Fork, LeaderExits, DescendantsExit, ForeignStarts, ForeignExits, Pinned
  <2>21. CASE UNCHANGED vars
    BY <2>21 DEF vars
  <2> QED
    BY <2>1, <2>2, <2>3, <2>4, <2>5, <2>6, <2>7, <2>8, <2>9, <2>10, <2>11, <2>12,
       <2>13, <2>14, <2>15, <2>16, <2>17, <2>18, <2>19, <2>20, <2>21
       DEF Next, Thread, Proceed, Observe, Terminate, Handler, Handle
<1> QED
  BY <1>1, <1>2, PTL DEF Spec

-----------------------------------------------------------------------------
\* The kernel starts and ends processes without unpinning a group of this run.
LEMMA KernelKeepsOwnership ==
  ASSUME TypeOK, Ownership, NothingLeaks, NEW p \in Pids, Kernel(p)
  PROVE  Ownership' /\ NothingLeaks'
<1> USE ContainmentAssumption DEF TypeOK, Actors, registry, locals, Goto
<1> USE DEF Ownership, NothingLeaks
<1>1. UNCHANGED <<group, pc, then>>
  BY DEF Kernel
<1>2. \A q \in Pids : /\ proc[q] \in Pinned <=> proc'[q] \in Pinned
                      /\ proc[q] = "zombie" => proc'[q] = "zombie"
                      /\ proc'[q] # "leaked"
  BY DEF Kernel, Fork, LeaderExits, DescendantsExit, ForeignStarts, ForeignExits, Pinned
<1>3. \A t \in Threads : group[t] # EMPTY => group[t] \in Pids
  OBVIOUS
<1>4. \A t \in Threads : Holds(t)' = Holds(t)
  BY <1>1 DEF Holds
<1>5. \A t \in Threads : (group[t] # EMPTY)' <=> Holds(t)'
  BY <1>1, <1>4
<1>6. \A t \in Threads : (pc[t] \in {"ended", "reaping", "reapabandoned"} => proc[group[t]] = "zombie")'
  BY <1>1, <1>2, <1>3 DEF Holds, Owning
<1> QED
  BY <1>1, <1>2, <1>3, <1>5, <1>6

\* Every step keeps threads and pinned groups matched, and leaks nothing.
LEMMA OwnershipStep ==
  TypeOK /\ Ownership /\ NothingLeaks /\ [Next]_vars => (Ownership /\ NothingLeaks)'
<1> USE ContainmentAssumption DEF TypeOK, Actors, registry, locals, Goto
<1> SUFFICES ASSUME TypeOK, Ownership, NothingLeaks, [Next]_vars
             PROVE  (Ownership /\ NothingLeaks)'
  OBVIOUS
<1>1. ASSUME NEW t \in Threads, Open(t)
      PROVE  (Ownership /\ NothingLeaks)'
  BY <1>1 DEF Open, Ownership, NothingLeaks, Holds, Owning, Leaving, Pinned
<1>2. ASSUME NEW t \in Threads, CheckInterrupted(t)
      PROVE  (Ownership /\ NothingLeaks)'
  BY <1>2 DEF CheckInterrupted, Leave, Ownership, NothingLeaks, Holds, Owning, Leaving, Pinned
<1>3. ASSUME NEW t \in Threads, Spawn(t)
      PROVE  (Ownership /\ NothingLeaks)'
  BY <1>3 DEF Spawn, Ownership, NothingLeaks, Holds, Owning, Leaving, Pinned
<1>4. ASSUME NEW t \in Threads, SpawnFails(t)
      PROVE  (Ownership /\ NothingLeaks)'
  BY <1>4 DEF SpawnFails, Leave, Ownership, NothingLeaks, Holds, Owning, Leaving, Pinned
<1>5. ASSUME NEW t \in Threads, TryClaim(t)
      PROVE  (Ownership /\ NothingLeaks)'
  BY <1>5 DEF TryClaim, Ownership, NothingLeaks, Holds, Owning, Leaving, Pinned
<1>6. ASSUME NEW t \in Threads, CheckClaim(t)
      PROVE  (Ownership /\ NothingLeaks)'
  BY <1>6 DEF CheckClaim, Adopted, Leave, Ownership, NothingLeaks, Holds, Owning, Leaving, Pinned
<1>7. ASSUME NEW t \in Threads, KillClaim(t)
      PROVE  (Ownership /\ NothingLeaks)'
  BY <1>7 DEF KillClaim, KillGroup, Slain, Adopted, Leave, Ownership, NothingLeaks, Holds, Owning, Leaving, Pinned
<1>8. ASSUME NEW t \in Threads, Abandon(t)
      PROVE  (Ownership /\ NothingLeaks)'
  BY <1>8 DEF Abandon, KillGroup, Slain, Ownership, NothingLeaks, Holds, Owning, Leaving, Pinned
<1>9. ASSUME NEW t \in Threads, ReapAbandoned(t)
      PROVE  (Ownership /\ NothingLeaks)'
  BY <1>9 DEF ReapAbandoned, WaitFor, Leave, Ownership, NothingLeaks, Holds, Owning, Leaving, Pinned
<1>10. ASSUME NEW t \in Threads, CloseWindow(t)
      PROVE  (Ownership /\ NothingLeaks)'
  BY <1>10 DEF CloseWindow, Ownership, NothingLeaks, Holds, Owning, Leaving, Pinned
<1>11. ASSUME NEW t \in Threads, LastOut(t)
      PROVE  (Ownership /\ NothingLeaks)'
  BY <1>11 DEF LastOut, Ownership, NothingLeaks, Holds, Owning, Leaving, Pinned
<1>12. ASSUME NEW t \in Threads, pc[t] = "running", EndTree(t)
      PROVE  (Ownership /\ NothingLeaks)'
  BY <1>12 DEF EndTree, KillGroup, Slain, Ownership, NothingLeaks, Holds, Owning, Leaving, Pinned
<1>13. ASSUME NEW t \in Threads, Release(t)
      PROVE  (Ownership /\ NothingLeaks)'
  BY <1>13 DEF Release, Ownership, NothingLeaks, Holds, Owning, Leaving, Pinned
<1>14. ASSUME NEW t \in Threads, Reap(t)
      PROVE  (Ownership /\ NothingLeaks)'
  BY <1>14 DEF Reap, WaitFor, Ownership, NothingLeaks, Holds, Owning, Leaving, Pinned
<1>15. ASSUME NEW a \in Actors, SweepTake(a)
      PROVE  (Ownership /\ NothingLeaks)'
  BY <1>15 DEF SweepTake, NextSlot, Swept, Ownership, NothingLeaks, Holds, Owning, Leaving, Pinned
<1>16. ASSUME NEW a \in Actors, SweepKill(a)
      PROVE  (Ownership /\ NothingLeaks)'
  BY <1>16 DEF SweepKill, NextSlot, Swept, KillGroup, Slain, Ownership, NothingLeaks, Holds, Owning, Leaving, Pinned
<1>17. ASSUME NEW d \in Deliveries, Deliver(d)
      PROVE  (Ownership /\ NothingLeaks)'
  BY <1>17 DEF Deliver, Ownership, NothingLeaks, Holds, Owning, Leaving, Pinned
<1>18. ASSUME NEW d \in Deliveries, CheckSpawning(d)
      PROVE  (Ownership /\ NothingLeaks)'
  BY <1>18 DEF CheckSpawning, Ownership, NothingLeaks, Holds, Owning, Leaving, Pinned
<1>19. ASSUME NEW a \in Actors, Die(a)
      PROVE  (Ownership /\ NothingLeaks)'
  BY <1>19 DEF Die, Ownership, NothingLeaks, Holds, Owning, Leaving, Pinned
<1>20. ASSUME NEW p \in Pids, Kernel(p)
      PROVE  (Ownership /\ NothingLeaks)'
  BY <1>20, KernelKeepsOwnership
<1>21. CASE UNCHANGED vars
  BY <1>21 DEF vars, Ownership, NothingLeaks, Holds, Owning, Leaving, Pinned
<1> QED
  BY <1>1, <1>2, <1>3, <1>4, <1>5, <1>6, <1>7, <1>8, <1>9, <1>10, <1>11,
     <1>12, <1>13, <1>14, <1>15, <1>16, <1>17, <1>18, <1>19, <1>20, <1>21
     DEF Next, Thread, Proceed, Observe, Terminate, Handler, Handle

\* A claim takes an empty slot, so no group loses the slot it has.
LEMMA ClaimKeepsSlots ==
  ASSUME TypeOK, Ownership, SlotDiscipline, NEW t \in Threads, TryClaim(t)
  PROVE  SlotDiscipline'
<1> USE ContainmentAssumption DEF TypeOK, Actors, registry, locals, Goto
<1> USE DEF SlotDiscipline, Ownership
<1>1. CASE watched[cursor[t]] = EMPTY
  <2>1. cursor[t] # 0 /\ cursor[t] \in Slots
    BY DEF Slots
  <2>2. \A s \in Slots : watched'[s] # EMPTY => \E u \in Threads : group'[u] = watched'[s] /\ slot'[u] = s
    <3> SUFFICES ASSUME NEW s \in Slots, watched'[s] # EMPTY
                 PROVE  \E u \in Threads : group'[u] = watched'[s] /\ slot'[u] = s
      OBVIOUS
    <3>1. CASE s = cursor[t]
      BY <1>1, <3>1 DEF TryClaim
    <3>2. CASE s # cursor[t]
      <4>1. watched'[s] = watched[s]
        BY <1>1, <3>2 DEF TryClaim
      <4>2. PICK u \in Threads : group[u] = watched[s] /\ slot[u] = s
        BY <4>1
      <4>3. slot[t] = 0 /\ s # 0
        BY DEF TryClaim, Slots
      <4> QED
        BY <1>1, <4>1, <4>2, <4>3 DEF TryClaim
    <3> QED
      BY <3>1, <3>2
  <2> QED
    BY <1>1, <2>1, <2>2 DEF TryClaim, Holds, Owning, Leaving
<1>2. CASE watched[cursor[t]] # EMPTY
  BY <1>2 DEF TryClaim, Holds, Owning, Leaving
<1> QED
  BY <1>1, <1>2

\* A child is reaped only once it has no slot.
LEMMA ReapKeepsSlots ==
  ASSUME TypeOK, Ownership, SlotDiscipline, NEW t \in Threads, ReapAbandoned(t) \/ Reap(t)
  PROVE  SlotDiscipline'
<1> USE ContainmentAssumption DEF TypeOK, Actors, registry, locals, Goto
<1> USE DEF SlotDiscipline, Ownership
<1>1. slot[t] = 0 /\ 0 \notin Slots
  BY DEF ReapAbandoned, Reap, Slots
<1>2. /\ UNCHANGED <<watched, slot>>
      /\ group' = [group EXCEPT ![t] = EMPTY]
      /\ \/ pc' = [pc EXCEPT ![t] = "close"] /\ then' = [then EXCEPT ![t] = "idle"]
         \/ pc' = [pc EXCEPT ![t] = "idle"] /\ UNCHANGED then
  BY DEF ReapAbandoned, Reap, WaitFor, Leave
<1>3. \A s \in Slots : watched'[s] # EMPTY => \E u \in Threads : group'[u] = watched'[s] /\ slot'[u] = s
  <2> SUFFICES ASSUME NEW s \in Slots, watched[s] # EMPTY
               PROVE  \E u \in Threads : group'[u] = watched[s] /\ slot[u] = s
    BY <1>2
  <2>1. PICK u \in Threads : group[u] = watched[s] /\ slot[u] = s
    OBVIOUS
  <2> QED
    BY <1>1, <1>2, <2>1
<1> QED
  BY <1>1, <1>2, <1>3 DEF Holds, Owning, Leaving

\* Every step keeps each group in its owner's slot and nowhere else.
LEMMA SlotDisciplineStep ==
  TypeOK /\ Ownership /\ SlotDiscipline /\ [Next]_vars => SlotDiscipline'
<1> USE ContainmentAssumption DEF TypeOK, Actors, registry, locals, Goto
<1> SUFFICES ASSUME TypeOK, Ownership, SlotDiscipline, [Next]_vars
             PROVE  SlotDiscipline'
  OBVIOUS
<1>1. ASSUME NEW t \in Threads, Open(t)
      PROVE  SlotDiscipline'
  BY <1>1 DEF Open, Ownership, SlotDiscipline, Holds, Owning, Leaving
<1>2. ASSUME NEW t \in Threads, CheckInterrupted(t)
      PROVE  SlotDiscipline'
  BY <1>2 DEF CheckInterrupted, Leave, Ownership, SlotDiscipline, Holds, Owning, Leaving
<1>3. ASSUME NEW t \in Threads, Spawn(t)
      PROVE  SlotDiscipline'
  BY <1>3 DEF Spawn, Ownership, SlotDiscipline, Holds, Owning, Leaving
<1>4. ASSUME NEW t \in Threads, SpawnFails(t)
      PROVE  SlotDiscipline'
  BY <1>4 DEF SpawnFails, Leave, Ownership, SlotDiscipline, Holds, Owning, Leaving
<1>5. ASSUME NEW t \in Threads, TryClaim(t)
      PROVE  SlotDiscipline'
  BY <1>5, ClaimKeepsSlots
<1>6. ASSUME NEW t \in Threads, CheckClaim(t)
      PROVE  SlotDiscipline'
  BY <1>6 DEF CheckClaim, Adopted, Leave, Ownership, SlotDiscipline, Holds, Owning, Leaving
<1>7. ASSUME NEW t \in Threads, KillClaim(t)
      PROVE  SlotDiscipline'
  BY <1>7 DEF KillClaim, KillGroup, Slain, Adopted, Leave, Ownership, SlotDiscipline, Holds, Owning, Leaving
<1>8. ASSUME NEW t \in Threads, Abandon(t)
      PROVE  SlotDiscipline'
  BY <1>8 DEF Abandon, KillGroup, Slain, Ownership, SlotDiscipline, Holds, Owning, Leaving
<1>9. ASSUME NEW t \in Threads, ReapAbandoned(t)
      PROVE  SlotDiscipline'
  BY <1>9, ReapKeepsSlots
<1>10. ASSUME NEW t \in Threads, CloseWindow(t)
      PROVE  SlotDiscipline'
  BY <1>10 DEF CloseWindow, Ownership, SlotDiscipline, Holds, Owning, Leaving
<1>11. ASSUME NEW t \in Threads, LastOut(t)
      PROVE  SlotDiscipline'
  BY <1>11 DEF LastOut, Ownership, SlotDiscipline, Holds, Owning, Leaving
<1>12. ASSUME NEW t \in Threads, pc[t] = "running", EndTree(t)
      PROVE  SlotDiscipline'
  BY <1>12 DEF EndTree, KillGroup, Slain, Ownership, SlotDiscipline, Holds, Owning, Leaving
<1>13. ASSUME NEW t \in Threads, Release(t)
      PROVE  SlotDiscipline'
  BY <1>13 DEF Release, Ownership, SlotDiscipline, Holds, Owning, Leaving
<1>14. ASSUME NEW t \in Threads, Reap(t)
      PROVE  SlotDiscipline'
  BY <1>14, ReapKeepsSlots
<1>15. ASSUME NEW a \in Actors, SweepTake(a)
      PROVE  SlotDiscipline'
  BY <1>15 DEF SweepTake, NextSlot, Swept, Ownership, SlotDiscipline, Holds, Owning, Leaving
<1>16. ASSUME NEW a \in Actors, SweepKill(a)
      PROVE  SlotDiscipline'
  BY <1>16 DEF SweepKill, NextSlot, Swept, KillGroup, Slain, Ownership, SlotDiscipline, Holds, Owning, Leaving
<1>17. ASSUME NEW d \in Deliveries, Deliver(d)
      PROVE  SlotDiscipline'
  BY <1>17 DEF Deliver, Ownership, SlotDiscipline, Holds, Owning, Leaving
<1>18. ASSUME NEW d \in Deliveries, CheckSpawning(d)
      PROVE  SlotDiscipline'
  BY <1>18 DEF CheckSpawning, Ownership, SlotDiscipline, Holds, Owning, Leaving
<1>19. ASSUME NEW a \in Actors, Die(a)
      PROVE  SlotDiscipline'
  BY <1>19 DEF Die, Ownership, SlotDiscipline, Holds, Owning, Leaving
<1>20. ASSUME NEW p \in Pids, Kernel(p)
      PROVE  SlotDiscipline'
  BY <1>20 DEF Kernel, Fork, LeaderExits, DescendantsExit, ForeignStarts, ForeignExits, Ownership, SlotDiscipline, Holds, Owning, Leaving
<1>21. CASE UNCHANGED vars
  BY <1>21 DEF vars, Ownership, SlotDiscipline, Holds, Owning, Leaving
<1> QED
  BY <1>1, <1>2, <1>3, <1>4, <1>5, <1>6, <1>7, <1>8, <1>9, <1>10, <1>11,
     <1>12, <1>13, <1>14, <1>15, <1>16, <1>17, <1>18, <1>19, <1>20, <1>21
     DEF Next, Thread, Proceed, Observe, Terminate, Handler, Handle

\* Every step keeps sweeps to an interrupted run.
LEMMA SweepingStep ==
  TypeOK /\ Sweeping /\ [Next]_vars => Sweeping'
<1> USE ContainmentAssumption DEF TypeOK, Actors, registry, locals, Goto
<1> SUFFICES ASSUME TypeOK, Sweeping, [Next]_vars
             PROVE  Sweeping'
  OBVIOUS
<1>1. ASSUME NEW t \in Threads, Open(t)
      PROVE  Sweeping'
  BY <1>1 DEF Open, Sweeping, Slots
<1>2. ASSUME NEW t \in Threads, CheckInterrupted(t)
      PROVE  Sweeping'
  BY <1>2 DEF CheckInterrupted, Leave, Sweeping, Slots
<1>3. ASSUME NEW t \in Threads, Spawn(t)
      PROVE  Sweeping'
  BY <1>3 DEF Spawn, Sweeping, Slots
<1>4. ASSUME NEW t \in Threads, SpawnFails(t)
      PROVE  Sweeping'
  BY <1>4 DEF SpawnFails, Leave, Sweeping, Slots
<1>5. ASSUME NEW t \in Threads, TryClaim(t)
      PROVE  Sweeping'
  BY <1>5 DEF TryClaim, Sweeping, Slots
<1>6. ASSUME NEW t \in Threads, CheckClaim(t)
      PROVE  Sweeping'
  BY <1>6 DEF CheckClaim, Adopted, Leave, Sweeping, Slots
<1>7. ASSUME NEW t \in Threads, KillClaim(t)
      PROVE  Sweeping'
  BY <1>7 DEF KillClaim, KillGroup, Slain, Adopted, Leave, Sweeping, Slots
<1>8. ASSUME NEW t \in Threads, Abandon(t)
      PROVE  Sweeping'
  BY <1>8 DEF Abandon, KillGroup, Slain, Sweeping, Slots
<1>9. ASSUME NEW t \in Threads, ReapAbandoned(t)
      PROVE  Sweeping'
  BY <1>9 DEF ReapAbandoned, WaitFor, Leave, Sweeping, Slots
<1>10. ASSUME NEW t \in Threads, CloseWindow(t)
      PROVE  Sweeping'
  BY <1>10 DEF CloseWindow, Sweeping, Slots
<1>11. ASSUME NEW t \in Threads, LastOut(t)
      PROVE  Sweeping'
  BY <1>11 DEF LastOut, Sweeping, Slots
<1>12. ASSUME NEW t \in Threads, pc[t] = "running", EndTree(t)
      PROVE  Sweeping'
  BY <1>12 DEF EndTree, KillGroup, Slain, Sweeping, Slots
<1>13. ASSUME NEW t \in Threads, Release(t)
      PROVE  Sweeping'
  BY <1>13 DEF Release, Sweeping, Slots
<1>14. ASSUME NEW t \in Threads, Reap(t)
      PROVE  Sweeping'
  BY <1>14 DEF Reap, WaitFor, Sweeping, Slots
<1>15. ASSUME NEW a \in Actors, SweepTake(a)
      PROVE  Sweeping'
  BY <1>15 DEF SweepTake, NextSlot, Swept, Sweeping, Slots
<1>16. ASSUME NEW a \in Actors, SweepKill(a)
      PROVE  Sweeping'
  BY <1>16 DEF SweepKill, NextSlot, Swept, KillGroup, Slain, Sweeping, Slots
<1>17. ASSUME NEW d \in Deliveries, Deliver(d)
      PROVE  Sweeping'
  BY <1>17 DEF Deliver, Sweeping, Slots
<1>18. ASSUME NEW d \in Deliveries, CheckSpawning(d)
      PROVE  Sweeping'
  BY <1>18 DEF CheckSpawning, Sweeping, Slots
<1>19. ASSUME NEW a \in Actors, Die(a)
      PROVE  Sweeping'
  BY <1>19 DEF Die, Sweeping, Slots
<1>20. ASSUME NEW p \in Pids, Kernel(p)
      PROVE  Sweeping'
  BY <1>20 DEF Kernel, Fork, LeaderExits, DescendantsExit, ForeignStarts, ForeignExits, Sweeping, Slots
<1>21. CASE UNCHANGED vars
  BY <1>21 DEF vars, Sweeping, Slots
<1> QED
  BY <1>1, <1>2, <1>3, <1>4, <1>5, <1>6, <1>7, <1>8, <1>9, <1>10, <1>11,
     <1>12, <1>13, <1>14, <1>15, <1>16, <1>17, <1>18, <1>19, <1>20, <1>21
     DEF Next, Thread, Proceed, Observe, Terminate, Handler, Handle

\* A claim overwrites no living child's registration.
LEMMA ClaimKeepsReach ==
  ASSUME TypeOK, Ownership, SlotDiscipline, Sweeping, Reach, NEW t \in Threads, TryClaim(t)
  PROVE  Reach'
<1> USE ContainmentAssumption DEF TypeOK, Actors, registry, locals, Goto
<1> USE DEF Reach
<1>1. CASE watched[cursor[t]] = EMPTY
  <2> SUFFICES ASSUME NEW u \in Threads, slot'[u] # 0, pc'[u] # "ended", Alive(group[u])'
               PROVE  watched'[slot'[u]] = group'[u] \/ InHand(group[u])'
    OBVIOUS
  <2>1. CASE u = t
    BY <1>1, <2>1 DEF TryClaim
  <2>2. CASE u # t
    <3>1. slot[u] # 0 /\ pc[u] # "ended" /\ Alive(group[u]) /\ slot'[u] = slot[u] /\ group'[u] = group[u]
      BY <1>1, <2>2 DEF TryClaim, Alive
    <3>2. CASE InHand(group[u])
      BY <1>1, <3>1, <3>2 DEF TryClaim, InHand
    <3>3. CASE watched[slot[u]] = group[u]
      <4>1. group[u] # EMPTY
        BY <3>1 DEF SlotDiscipline, Ownership
      <4>2. slot[u] # cursor[t]
        BY <1>1, <3>3, <4>1
      <4>3. slot[u] \in Slots
        BY <3>1 DEF Slots
      <4>4. watched'[slot[u]] = watched[slot[u]]
        BY <1>1, <4>2, <4>3 DEF TryClaim
      <4> QED
        BY <3>1, <3>3, <4>4
    <3> QED
      BY <3>1, <3>2, <3>3
  <2> QED
    BY <2>1, <2>2
<1>2. CASE watched[cursor[t]] # EMPTY
  BY <1>2 DEF TryClaim, Alive, InHand
<1> QED
  BY <1>1, <1>2

\* Every step keeps a living adopted child in its slot or in the hand of a sweep.
LEMMA ReachStep ==
  TypeOK /\ Ownership /\ NothingLeaks /\ SlotDiscipline /\ Sweeping /\ Reach /\ [Next]_vars => Reach'
<1> USE ContainmentAssumption DEF TypeOK, Actors, registry, locals, Goto
<1> SUFFICES ASSUME TypeOK, Ownership, NothingLeaks, SlotDiscipline, Sweeping, Reach, [Next]_vars
             PROVE  Reach'
  OBVIOUS
<1>1. ASSUME NEW t \in Threads, Open(t)
      PROVE  Reach'
  BY <1>1 DEF Open, Ownership, NothingLeaks, SlotDiscipline, Holds, Owning, Leaving,
     Sweeping, Reach, Alive, Living, Pinned, InHand
<1>2. ASSUME NEW t \in Threads, CheckInterrupted(t)
      PROVE  Reach'
  BY <1>2 DEF CheckInterrupted, Leave, Ownership, NothingLeaks, SlotDiscipline, Holds, Owning, Leaving,
     Sweeping, Reach, Alive, Living, Pinned, InHand
<1>3. ASSUME NEW t \in Threads, Spawn(t)
      PROVE  Reach'
  BY <1>3 DEF Spawn, Ownership, NothingLeaks, SlotDiscipline, Holds, Owning, Leaving,
     Sweeping, Reach, Alive, Living, Pinned, InHand
<1>4. ASSUME NEW t \in Threads, SpawnFails(t)
      PROVE  Reach'
  BY <1>4 DEF SpawnFails, Leave, Ownership, NothingLeaks, SlotDiscipline, Holds, Owning, Leaving,
     Sweeping, Reach, Alive, Living, Pinned, InHand
<1>5. ASSUME NEW t \in Threads, TryClaim(t)
      PROVE  Reach'
  BY <1>5, ClaimKeepsReach
<1>6. ASSUME NEW t \in Threads, CheckClaim(t)
      PROVE  Reach'
  BY <1>6 DEF CheckClaim, Adopted, Leave, Ownership, NothingLeaks, SlotDiscipline, Holds, Owning, Leaving,
     Sweeping, Reach, Alive, Living, Pinned, InHand
<1>7. ASSUME NEW t \in Threads, KillClaim(t)
      PROVE  Reach'
  BY <1>7 DEF KillClaim, KillGroup, Slain, Adopted, Leave, Ownership, NothingLeaks, SlotDiscipline, Holds, Owning, Leaving,
     Sweeping, Reach, Alive, Living, Pinned, InHand
<1>8. ASSUME NEW t \in Threads, Abandon(t)
      PROVE  Reach'
  BY <1>8 DEF Abandon, KillGroup, Slain, Ownership, NothingLeaks, SlotDiscipline, Holds, Owning, Leaving,
     Sweeping, Reach, Alive, Living, Pinned, InHand
<1>9. ASSUME NEW t \in Threads, ReapAbandoned(t)
      PROVE  Reach'
  BY <1>9 DEF ReapAbandoned, WaitFor, Leave, Ownership, NothingLeaks, SlotDiscipline, Holds, Owning, Leaving,
     Sweeping, Reach, Alive, Living, Pinned, InHand
<1>10. ASSUME NEW t \in Threads, CloseWindow(t)
      PROVE  Reach'
  BY <1>10 DEF CloseWindow, Ownership, NothingLeaks, SlotDiscipline, Holds, Owning, Leaving,
     Sweeping, Reach, Alive, Living, Pinned, InHand
<1>11. ASSUME NEW t \in Threads, LastOut(t)
      PROVE  Reach'
  BY <1>11 DEF LastOut, Ownership, NothingLeaks, SlotDiscipline, Holds, Owning, Leaving,
     Sweeping, Reach, Alive, Living, Pinned, InHand
<1>12. ASSUME NEW t \in Threads, pc[t] = "running", EndTree(t)
      PROVE  Reach'
  BY <1>12 DEF EndTree, KillGroup, Slain, Ownership, NothingLeaks, SlotDiscipline, Holds, Owning, Leaving,
     Sweeping, Reach, Alive, Living, Pinned, InHand
<1>13. ASSUME NEW t \in Threads, Release(t)
      PROVE  Reach'
  BY <1>13 DEF Release, Ownership, NothingLeaks, SlotDiscipline, Holds, Owning, Leaving,
     Sweeping, Reach, Alive, Living, Pinned, InHand
<1>14. ASSUME NEW t \in Threads, Reap(t)
      PROVE  Reach'
  BY <1>14 DEF Reap, WaitFor, Ownership, NothingLeaks, SlotDiscipline, Holds, Owning, Leaving,
     Sweeping, Reach, Alive, Living, Pinned, InHand
<1>15. ASSUME NEW a \in Actors, SweepTake(a)
      PROVE  Reach'
  BY <1>15 DEF SweepTake, NextSlot, Swept, Ownership, NothingLeaks, SlotDiscipline, Holds, Owning, Leaving,
     Sweeping, Reach, Alive, Living, Pinned, InHand
<1>16. ASSUME NEW a \in Actors, SweepKill(a)
      PROVE  Reach'
  BY <1>16 DEF SweepKill, NextSlot, Swept, KillGroup, Slain, Ownership, NothingLeaks, SlotDiscipline, Holds, Owning, Leaving,
     Sweeping, Reach, Alive, Living, Pinned, InHand
<1>17. ASSUME NEW d \in Deliveries, Deliver(d)
      PROVE  Reach'
  BY <1>17 DEF Deliver, Ownership, NothingLeaks, SlotDiscipline, Holds, Owning, Leaving,
     Sweeping, Reach, Alive, Living, Pinned, InHand
<1>18. ASSUME NEW d \in Deliveries, CheckSpawning(d)
      PROVE  Reach'
  BY <1>18 DEF CheckSpawning, Ownership, NothingLeaks, SlotDiscipline, Holds, Owning, Leaving,
     Sweeping, Reach, Alive, Living, Pinned, InHand
<1>19. ASSUME NEW a \in Actors, Die(a)
      PROVE  Reach'
  BY <1>19 DEF Die, Ownership, NothingLeaks, SlotDiscipline, Holds, Owning, Leaving,
     Sweeping, Reach, Alive, Living, Pinned, InHand
<1>20. ASSUME NEW p \in Pids, Kernel(p)
      PROVE  Reach'
  BY <1>20 DEF Kernel, Fork, LeaderExits, DescendantsExit, ForeignStarts, ForeignExits, Ownership, NothingLeaks, SlotDiscipline, Holds, Owning, Leaving,
     Sweeping, Reach, Alive, Living, Pinned, InHand
<1>21. CASE UNCHANGED vars
  BY <1>21 DEF vars, Ownership, NothingLeaks, SlotDiscipline, Holds, Owning, Leaving,
     Sweeping, Reach, Alive, Living, Pinned, InHand
<1> QED
  BY <1>1, <1>2, <1>3, <1>4, <1>5, <1>6, <1>7, <1>8, <1>9, <1>10, <1>11,
     <1>12, <1>13, <1>14, <1>15, <1>16, <1>17, <1>18, <1>19, <1>20, <1>21
     DEF Next, Thread, Proceed, Observe, Terminate, Handler, Handle

\* A claimed slot whose owner has yet to look for an interrupt.
Checking == {"claimed", "killclaim"}

\* SweepDone is kept by a step after which no sweep has passed more slots, no slot
\* holds a newly living group, and no check is left without killing its group.
LEMMA SweepDoneKept ==
  ASSUME TypeOK, Sweeping, SweepDone,
         \A a \in Actors, s \in Slots : Passed(a, s)' => Passed(a, s),
         \A s \in Slots : watched'[s] # EMPTY /\ Alive(watched[s])' =>
           watched[s] = watched'[s] /\ Alive(watched[s]),
         \A t \in Threads : pc[t] \in Checking /\ interrupted /\ proc'[group[t]] \in Living =>
           pc'[t] \in Checking /\ group'[t] = group[t]
  PROVE  SweepDone'
<1> SUFFICES ASSUME NEW a \in Actors, NEW s \in Slots,
                    Passed(a, s)', watched'[s] # EMPTY, Alive(watched[s])'
             PROVE  \E t \in Threads : group'[t] = watched'[s] /\ pc'[t] \in Checking
  BY DEF SweepDone, Checking
<1>0. Passed(a, s) /\ watched[s] = watched'[s] /\ Alive(watched[s])
  OBVIOUS
<1>1. PICK t \in Threads : group[t] = watched[s] /\ pc[t] \in Checking
  BY <1>0 DEF SweepDone, Checking
<1>2. interrupted
  BY <1>0 DEF Sweeping, Passed
<1>3. proc'[group[t]] \in Living
  BY <1>0, <1>1 DEF Alive
<1> QED
  BY <1>0, <1>1, <1>2, <1>3

\* Every step keeps the slots behind a sweep's cursor free of unchecked groups.
LEMMA SweepDoneStep ==
  TypeOK /\ Ownership /\ NothingLeaks /\ SlotDiscipline /\ Sweeping /\ SweepDone
    /\ [Next]_vars => SweepDone'
<1> USE ContainmentAssumption DEF TypeOK, Actors, registry, locals, Goto
<1> SUFFICES ASSUME TypeOK, Ownership, NothingLeaks, SlotDiscipline, Sweeping, SweepDone, [Next]_vars
             PROVE  SweepDone'
  OBVIOUS
<1>1. ASSUME NEW t \in Threads, Open(t)
      PROVE  SweepDone'
  <2>1. \A x \in Actors, s \in Slots : Passed(x, s)' => Passed(x, s)
    BY <1>1 DEF Open, Passed
  <2>2. \A s \in Slots : watched'[s] # EMPTY /\ Alive(watched[s])' =>
           watched[s] = watched'[s] /\ Alive(watched[s])
    BY <1>1 DEF Open, Alive, Living, Pinned, Ownership, NothingLeaks, SlotDiscipline, Holds, Owning, Leaving
  <2>3. \A u \in Threads : pc[u] \in Checking /\ interrupted /\ proc'[group[u]] \in Living =>
           pc'[u] \in Checking /\ group'[u] = group[u]
    BY <1>1 DEF Open, Checking, Alive, Living
  <2> QED
    BY <2>1, <2>2, <2>3, SweepDoneKept
<1>2. ASSUME NEW t \in Threads, CheckInterrupted(t)
      PROVE  SweepDone'
  <2>1. \A x \in Actors, s \in Slots : Passed(x, s)' => Passed(x, s)
    BY <1>2 DEF CheckInterrupted, Leave, Passed
  <2>2. \A s \in Slots : watched'[s] # EMPTY /\ Alive(watched[s])' =>
           watched[s] = watched'[s] /\ Alive(watched[s])
    BY <1>2 DEF CheckInterrupted, Leave, Alive, Living, Pinned, Ownership, NothingLeaks, SlotDiscipline, Holds, Owning, Leaving
  <2>3. \A u \in Threads : pc[u] \in Checking /\ interrupted /\ proc'[group[u]] \in Living =>
           pc'[u] \in Checking /\ group'[u] = group[u]
    BY <1>2 DEF CheckInterrupted, Leave, Checking, Alive, Living
  <2> QED
    BY <2>1, <2>2, <2>3, SweepDoneKept
<1>3. ASSUME NEW t \in Threads, Spawn(t)
      PROVE  SweepDone'
  <2>1. \A x \in Actors, s \in Slots : Passed(x, s)' => Passed(x, s)
    BY <1>3 DEF Spawn, Passed
  <2>2. \A s \in Slots : watched'[s] # EMPTY /\ Alive(watched[s])' =>
           watched[s] = watched'[s] /\ Alive(watched[s])
    BY <1>3 DEF Spawn, Alive, Living, Pinned, Ownership, NothingLeaks, SlotDiscipline, Holds, Owning, Leaving
  <2>3. \A u \in Threads : pc[u] \in Checking /\ interrupted /\ proc'[group[u]] \in Living =>
           pc'[u] \in Checking /\ group'[u] = group[u]
    BY <1>3 DEF Spawn, Checking, Alive, Living
  <2> QED
    BY <2>1, <2>2, <2>3, SweepDoneKept
<1>4. ASSUME NEW t \in Threads, SpawnFails(t)
      PROVE  SweepDone'
  <2>1. \A x \in Actors, s \in Slots : Passed(x, s)' => Passed(x, s)
    BY <1>4 DEF SpawnFails, Leave, Passed
  <2>2. \A s \in Slots : watched'[s] # EMPTY /\ Alive(watched[s])' =>
           watched[s] = watched'[s] /\ Alive(watched[s])
    BY <1>4 DEF SpawnFails, Leave, Alive, Living, Pinned, Ownership, NothingLeaks, SlotDiscipline, Holds, Owning, Leaving
  <2>3. \A u \in Threads : pc[u] \in Checking /\ interrupted /\ proc'[group[u]] \in Living =>
           pc'[u] \in Checking /\ group'[u] = group[u]
    BY <1>4 DEF SpawnFails, Leave, Checking, Alive, Living
  <2> QED
    BY <2>1, <2>2, <2>3, SweepDoneKept
<1>5. ASSUME NEW t \in Threads, TryClaim(t)
      PROVE  SweepDone'
  <2>1. CASE watched[cursor[t]] = EMPTY
    <3> SUFFICES ASSUME NEW a \in Actors, NEW s \in Slots,
                        Passed(a, s)', watched'[s] # EMPTY, Alive(watched[s])'
                 PROVE  \E u \in Threads : group'[u] = watched'[s] /\ pc'[u] \in Checking
      BY DEF SweepDone, Checking
    <3>1. CASE s = cursor[t]
      <4>1. group'[t] = watched'[s] /\ pc'[t] = "claimed"
        BY <1>5, <2>1, <3>1 DEF TryClaim
      <4> QED
        BY <4>1 DEF Checking
    <3>2. CASE s # cursor[t]
      <4>1. Passed(a, s) /\ watched[s] = watched'[s] /\ Alive(watched[s])
        BY <1>5, <2>1, <3>2 DEF TryClaim, Passed, Alive
      <4>2. PICK u \in Threads : group[u] = watched[s] /\ pc[u] \in Checking
        BY <4>1 DEF SweepDone, Checking
      <4>3. u # t
        BY <1>5, <4>2 DEF TryClaim, Checking
      <4>4. group'[u] = watched'[s] /\ pc'[u] \in Checking
        BY <1>5, <2>1, <4>1, <4>2, <4>3 DEF TryClaim
      <4> QED
        BY <4>4
    <3> QED
      BY <3>1, <3>2
  <2>2. CASE watched[cursor[t]] # EMPTY
    <3>1. \A x \in Actors, s \in Slots : Passed(x, s)' => Passed(x, s)
      BY <1>5, <2>2 DEF TryClaim, Passed
    <3>2. \A s \in Slots : watched'[s] # EMPTY /\ Alive(watched[s])' =>
             watched[s] = watched'[s] /\ Alive(watched[s])
      BY <1>5, <2>2 DEF TryClaim, Alive
    <3>3. \A u \in Threads : pc[u] \in Checking /\ interrupted /\ proc'[group[u]] \in Living =>
             pc'[u] \in Checking /\ group'[u] = group[u]
      BY <1>5, <2>2 DEF TryClaim, Checking
    <3> QED
      BY <3>1, <3>2, <3>3, SweepDoneKept
  <2> QED
    BY <2>1, <2>2
<1>6. ASSUME NEW t \in Threads, CheckClaim(t)
      PROVE  SweepDone'
  <2>1. \A x \in Actors, s \in Slots : Passed(x, s)' => Passed(x, s)
    BY <1>6 DEF CheckClaim, Adopted, Leave, Passed
  <2>2. \A s \in Slots : watched'[s] # EMPTY /\ Alive(watched[s])' =>
           watched[s] = watched'[s] /\ Alive(watched[s])
    BY <1>6 DEF CheckClaim, Adopted, Leave, Alive, Living, Pinned, Ownership, NothingLeaks, SlotDiscipline, Holds, Owning, Leaving
  <2>3. \A u \in Threads : pc[u] \in Checking /\ interrupted /\ proc'[group[u]] \in Living =>
           pc'[u] \in Checking /\ group'[u] = group[u]
    BY <1>6 DEF CheckClaim, Adopted, Leave, Checking, Alive, Living
  <2> QED
    BY <2>1, <2>2, <2>3, SweepDoneKept
<1>7. ASSUME NEW t \in Threads, KillClaim(t)
      PROVE  SweepDone'
  <2>1. \A x \in Actors, s \in Slots : Passed(x, s)' => Passed(x, s)
    BY <1>7 DEF KillClaim, KillGroup, Slain, Adopted, Leave, Passed
  <2>2. \A s \in Slots : watched'[s] # EMPTY /\ Alive(watched[s])' =>
           watched[s] = watched'[s] /\ Alive(watched[s])
    BY <1>7 DEF KillClaim, KillGroup, Slain, Adopted, Leave, Alive, Living, Pinned, Ownership, NothingLeaks, SlotDiscipline, Holds, Owning, Leaving
  <2>3. \A u \in Threads : pc[u] \in Checking /\ interrupted /\ proc'[group[u]] \in Living =>
           pc'[u] \in Checking /\ group'[u] = group[u]
    <3>1. group[t] \in Pids
      BY <1>7 DEF KillClaim, Ownership, Holds, Owning
    <3>2. proc'[group[t]] \notin Living
      BY <1>7, <3>1 DEF KillClaim, KillGroup, Slain, Living
    <3> QED
      BY <1>7, <3>2 DEF KillClaim, Adopted, Leave, Checking, Ownership, Holds, Owning
  <2> QED
    BY <2>1, <2>2, <2>3, SweepDoneKept
<1>8. ASSUME NEW t \in Threads, Abandon(t)
      PROVE  SweepDone'
  <2>1. \A x \in Actors, s \in Slots : Passed(x, s)' => Passed(x, s)
    BY <1>8 DEF Abandon, KillGroup, Slain, Passed
  <2>2. \A s \in Slots : watched'[s] # EMPTY /\ Alive(watched[s])' =>
           watched[s] = watched'[s] /\ Alive(watched[s])
    BY <1>8 DEF Abandon, KillGroup, Slain, Alive, Living, Pinned, Ownership, NothingLeaks, SlotDiscipline, Holds, Owning, Leaving
  <2>3. \A u \in Threads : pc[u] \in Checking /\ interrupted /\ proc'[group[u]] \in Living =>
           pc'[u] \in Checking /\ group'[u] = group[u]
    BY <1>8 DEF Abandon, KillGroup, Slain, Checking, Alive, Living
  <2> QED
    BY <2>1, <2>2, <2>3, SweepDoneKept
<1>9. ASSUME NEW t \in Threads, ReapAbandoned(t)
      PROVE  SweepDone'
  <2>1. \A x \in Actors, s \in Slots : Passed(x, s)' => Passed(x, s)
    BY <1>9 DEF ReapAbandoned, WaitFor, Leave, Passed
  <2>2. \A s \in Slots : watched'[s] # EMPTY /\ Alive(watched[s])' =>
           watched[s] = watched'[s] /\ Alive(watched[s])
    BY <1>9 DEF ReapAbandoned, WaitFor, Leave, Alive, Living, Pinned, Ownership, NothingLeaks, SlotDiscipline, Holds, Owning, Leaving
  <2>3. \A u \in Threads : pc[u] \in Checking /\ interrupted /\ proc'[group[u]] \in Living =>
           pc'[u] \in Checking /\ group'[u] = group[u]
    BY <1>9 DEF ReapAbandoned, WaitFor, Leave, Checking, Alive, Living
  <2> QED
    BY <2>1, <2>2, <2>3, SweepDoneKept
<1>10. ASSUME NEW t \in Threads, CloseWindow(t)
      PROVE  SweepDone'
  <2>1. \A x \in Actors, s \in Slots : Passed(x, s)' => Passed(x, s)
    BY <1>10 DEF CloseWindow, Passed
  <2>2. \A s \in Slots : watched'[s] # EMPTY /\ Alive(watched[s])' =>
           watched[s] = watched'[s] /\ Alive(watched[s])
    BY <1>10 DEF CloseWindow, Alive, Living, Pinned, Ownership, NothingLeaks, SlotDiscipline, Holds, Owning, Leaving
  <2>3. \A u \in Threads : pc[u] \in Checking /\ interrupted /\ proc'[group[u]] \in Living =>
           pc'[u] \in Checking /\ group'[u] = group[u]
    BY <1>10 DEF CloseWindow, Checking, Alive, Living
  <2> QED
    BY <2>1, <2>2, <2>3, SweepDoneKept
<1>11. ASSUME NEW t \in Threads, LastOut(t)
      PROVE  SweepDone'
  <2>1. \A x \in Actors, s \in Slots : Passed(x, s)' => Passed(x, s)
    <3> SUFFICES ASSUME NEW x \in Actors, NEW s \in Slots, Passed(x, s)'
                 PROVE  Passed(x, s)
      OBVIOUS
    <3>1. CASE x = t
      <4>1. then[t] \in {"idle", "running", "stopped"}
        OBVIOUS
      <4>2. interrupted
        BY <1>11, <3>1, <4>1 DEF LastOut, Passed
      <4>3. pc'[x] = "sweep" /\ cursor'[x] = 1
        BY <1>11, <3>1, <4>2 DEF LastOut
      <4> QED
        BY <4>3 DEF Passed, Slots
    <3>2. CASE x # t
      BY <1>11, <3>2 DEF LastOut, Passed
    <3> QED
      BY <3>1, <3>2
  <2>2. \A s \in Slots : watched'[s] # EMPTY /\ Alive(watched[s])' =>
           watched[s] = watched'[s] /\ Alive(watched[s])
    BY <1>11 DEF LastOut, Alive, Living, Pinned, Ownership, NothingLeaks, SlotDiscipline, Holds, Owning, Leaving
  <2>3. \A u \in Threads : pc[u] \in Checking /\ interrupted /\ proc'[group[u]] \in Living =>
           pc'[u] \in Checking /\ group'[u] = group[u]
    BY <1>11 DEF LastOut, Checking, Alive, Living
  <2> QED
    BY <2>1, <2>2, <2>3, SweepDoneKept
<1>12. ASSUME NEW t \in Threads, pc[t] = "running", EndTree(t)
      PROVE  SweepDone'
  <2>1. \A x \in Actors, s \in Slots : Passed(x, s)' => Passed(x, s)
    BY <1>12 DEF EndTree, KillGroup, Slain, Passed
  <2>2. \A s \in Slots : watched'[s] # EMPTY /\ Alive(watched[s])' =>
           watched[s] = watched'[s] /\ Alive(watched[s])
    BY <1>12 DEF EndTree, KillGroup, Slain, Alive, Living, Pinned, Ownership, NothingLeaks, SlotDiscipline, Holds, Owning, Leaving
  <2>3. \A u \in Threads : pc[u] \in Checking /\ interrupted /\ proc'[group[u]] \in Living =>
           pc'[u] \in Checking /\ group'[u] = group[u]
    BY <1>12 DEF EndTree, KillGroup, Slain, Checking, Alive, Living
  <2> QED
    BY <2>1, <2>2, <2>3, SweepDoneKept
<1>13. ASSUME NEW t \in Threads, Release(t)
      PROVE  SweepDone'
  <2>1. \A x \in Actors, s \in Slots : Passed(x, s)' => Passed(x, s)
    BY <1>13 DEF Release, Passed
  <2>2. \A s \in Slots : watched'[s] # EMPTY /\ Alive(watched[s])' =>
           watched[s] = watched'[s] /\ Alive(watched[s])
    BY <1>13 DEF Release, Alive, Living, Pinned, Ownership, NothingLeaks, SlotDiscipline, Holds, Owning, Leaving
  <2>3. \A u \in Threads : pc[u] \in Checking /\ interrupted /\ proc'[group[u]] \in Living =>
           pc'[u] \in Checking /\ group'[u] = group[u]
    BY <1>13 DEF Release, Checking, Alive, Living
  <2> QED
    BY <2>1, <2>2, <2>3, SweepDoneKept
<1>14. ASSUME NEW t \in Threads, Reap(t)
      PROVE  SweepDone'
  <2>1. \A x \in Actors, s \in Slots : Passed(x, s)' => Passed(x, s)
    BY <1>14 DEF Reap, WaitFor, Passed
  <2>2. \A s \in Slots : watched'[s] # EMPTY /\ Alive(watched[s])' =>
           watched[s] = watched'[s] /\ Alive(watched[s])
    BY <1>14 DEF Reap, WaitFor, Alive, Living, Pinned, Ownership, NothingLeaks, SlotDiscipline, Holds, Owning, Leaving
  <2>3. \A u \in Threads : pc[u] \in Checking /\ interrupted /\ proc'[group[u]] \in Living =>
           pc'[u] \in Checking /\ group'[u] = group[u]
    BY <1>14 DEF Reap, WaitFor, Checking, Alive, Living
  <2> QED
    BY <2>1, <2>2, <2>3, SweepDoneKept
<1>15. ASSUME NEW a \in Actors, SweepTake(a)
      PROVE  SweepDone'
  <2> SUFFICES ASSUME NEW b \in Actors, NEW s \in Slots,
                      Passed(b, s)', watched'[s] # EMPTY, Alive(watched[s])'
               PROVE  \E u \in Threads : group'[u] = watched'[s] /\ pc'[u] \in Checking
    BY DEF SweepDone, Checking
  <2>1. s # cursor[a] /\ watched'[s] = watched[s] /\ Alive(watched[s])
    BY <1>15 DEF SweepTake, Alive
  <2>2. Passed(b, s)
    <3>1. CASE b = a
      BY <1>15, <2>1, <3>1 DEF SweepTake, NextSlot, Swept, Passed, Slots
    <3>2. CASE b # a
      BY <1>15, <3>2 DEF SweepTake, NextSlot, Swept, Passed
    <3> QED
      BY <3>1, <3>2
  <2>3. PICK u \in Threads : group[u] = watched[s] /\ pc[u] \in Checking
    BY <2>1, <2>2 DEF SweepDone, Checking
  <2>4. u # a
    BY <1>15, <2>3 DEF SweepTake, Checking
  <2>5. group'[u] = watched'[s] /\ pc'[u] \in Checking
    BY <1>15, <2>1, <2>3, <2>4 DEF SweepTake, NextSlot
  <2> QED
    BY <2>5
<1>16. ASSUME NEW a \in Actors, SweepKill(a)
      PROVE  SweepDone'
  <2>1. \A x \in Actors, s \in Slots : Passed(x, s)' => Passed(x, s)
    <3> SUFFICES ASSUME NEW x \in Actors, NEW s \in Slots, Passed(x, s)'
                 PROVE  Passed(x, s)
      OBVIOUS
    <3>1. CASE x = a
      BY <1>16, <3>1 DEF SweepKill, NextSlot, Swept, Passed, Slots
    <3>2. CASE x # a
      BY <1>16, <3>2 DEF SweepKill, NextSlot, Swept, Passed
    <3> QED
      BY <3>1, <3>2
  <2>2. \A s \in Slots : watched'[s] # EMPTY /\ Alive(watched[s])' =>
           watched[s] = watched'[s] /\ Alive(watched[s])
    BY <1>16 DEF SweepKill, KillGroup, Slain, Alive, Living
  <2>3. \A u \in Threads : pc[u] \in Checking /\ interrupted /\ proc'[group[u]] \in Living =>
           pc'[u] \in Checking /\ group'[u] = group[u]
    BY <1>16 DEF SweepKill, NextSlot, Swept, Checking
  <2> QED
    BY <2>1, <2>2, <2>3, SweepDoneKept
<1>17. ASSUME NEW d \in Deliveries, Deliver(d)
      PROVE  SweepDone'
  <2>1. \A x \in Actors, s \in Slots : Passed(x, s)' => Passed(x, s)
    BY <1>17 DEF Deliver, Passed, Slots
  <2>2. \A s \in Slots : watched'[s] # EMPTY /\ Alive(watched[s])' =>
           watched[s] = watched'[s] /\ Alive(watched[s])
    BY <1>17 DEF Deliver, Alive, Living, Pinned, Ownership, NothingLeaks, SlotDiscipline, Holds, Owning, Leaving
  <2>3. \A u \in Threads : pc[u] \in Checking /\ interrupted /\ proc'[group[u]] \in Living =>
           pc'[u] \in Checking /\ group'[u] = group[u]
    BY <1>17 DEF Deliver, Checking, Alive, Living
  <2> QED
    BY <2>1, <2>2, <2>3, SweepDoneKept
<1>18. ASSUME NEW d \in Deliveries, CheckSpawning(d)
      PROVE  SweepDone'
  <2>1. \A x \in Actors, s \in Slots : Passed(x, s)' => Passed(x, s)
    BY <1>18 DEF CheckSpawning, Passed
  <2>2. \A s \in Slots : watched'[s] # EMPTY /\ Alive(watched[s])' =>
           watched[s] = watched'[s] /\ Alive(watched[s])
    BY <1>18 DEF CheckSpawning, Alive, Living, Pinned, Ownership, NothingLeaks, SlotDiscipline, Holds, Owning, Leaving
  <2>3. \A u \in Threads : pc[u] \in Checking /\ interrupted /\ proc'[group[u]] \in Living =>
           pc'[u] \in Checking /\ group'[u] = group[u]
    BY <1>18 DEF CheckSpawning, Checking, Alive, Living
  <2> QED
    BY <2>1, <2>2, <2>3, SweepDoneKept
<1>19. ASSUME NEW a \in Actors, Die(a)
      PROVE  SweepDone'
  <2>1. \A x \in Actors, s \in Slots : Passed(x, s)' => Passed(x, s)
    BY <1>19 DEF Die, Passed
  <2>2. \A s \in Slots : watched'[s] # EMPTY /\ Alive(watched[s])' =>
           watched[s] = watched'[s] /\ Alive(watched[s])
    BY <1>19 DEF Die, Alive, Living, Pinned, Ownership, NothingLeaks, SlotDiscipline, Holds, Owning, Leaving
  <2>3. \A u \in Threads : pc[u] \in Checking /\ interrupted /\ proc'[group[u]] \in Living =>
           pc'[u] \in Checking /\ group'[u] = group[u]
    BY <1>19 DEF Die, Checking, Alive, Living
  <2> QED
    BY <2>1, <2>2, <2>3, SweepDoneKept
<1>20. ASSUME NEW p \in Pids, Kernel(p)
      PROVE  SweepDone'
  <2>1. \A x \in Actors, s \in Slots : Passed(x, s)' => Passed(x, s)
    BY <1>20 DEF Kernel, Fork, LeaderExits, DescendantsExit, ForeignStarts, ForeignExits, Passed
  <2>2. \A s \in Slots : watched'[s] # EMPTY /\ Alive(watched[s])' =>
           watched[s] = watched'[s] /\ Alive(watched[s])
    BY <1>20 DEF Kernel, Fork, LeaderExits, DescendantsExit, ForeignStarts, ForeignExits, Alive, Living, Pinned, Ownership, NothingLeaks, SlotDiscipline, Holds, Owning, Leaving
  <2>3. \A u \in Threads : pc[u] \in Checking /\ interrupted /\ proc'[group[u]] \in Living =>
           pc'[u] \in Checking /\ group'[u] = group[u]
    BY <1>20 DEF Kernel, Fork, LeaderExits, DescendantsExit, ForeignStarts, ForeignExits, Checking, Alive, Living
  <2> QED
    BY <2>1, <2>2, <2>3, SweepDoneKept
<1>21. CASE UNCHANGED vars
  BY <1>21 DEF vars, SweepDone, Passed, Alive
<1> QED
  BY <1>1, <1>2, <1>3, <1>4, <1>5, <1>6, <1>7, <1>8, <1>9, <1>10, <1>11,
     <1>12, <1>13, <1>14, <1>15, <1>16, <1>17, <1>18, <1>19, <1>20, <1>21
     DEF Next, Thread, Proceed, Observe, Terminate, Handler, Handle

\* The threads with a spawn window open.
Windows == {t \in Threads : pc[t] \in InWindow}

\* Finitely many threads have a window open.
LEMMA WindowsFinite == IsFiniteSet(Windows)
BY ContainmentAssumption, FS_Subset DEF Windows

\* Every step keeps Registry.spawning equal to the number of open windows.
LEMMA WindowCountStep ==
  TypeOK /\ WindowCount /\ [Next]_vars => WindowCount'
<1> USE ContainmentAssumption DEF TypeOK, Actors, registry, locals, Goto
<1> SUFFICES ASSUME TypeOK, WindowCount, [Next]_vars
             PROVE  WindowCount'
  OBVIOUS
<1>1. ASSUME NEW t \in Threads, Open(t)
      PROVE  WindowCount'
  <2>1. Windows' = Windows \union {t} /\ t \notin Windows
    BY <1>1 DEF Open, Windows, InWindow
  <2>2. Cardinality(Windows') = Cardinality(Windows) + 1
    BY <2>1, WindowsFinite, FS_AddElement
  <2> QED
    BY <1>1, <2>2 DEF Open, WindowCount, Windows
<1>2. ASSUME NEW t \in Threads, CheckInterrupted(t)
      PROVE  WindowCount'
  <2>1. spawning' = spawning /\ Windows' = Windows
    BY <1>2 DEF CheckInterrupted, Leave, Windows, InWindow
  <2> QED
    BY <2>1 DEF WindowCount, Windows
<1>3. ASSUME NEW t \in Threads, Spawn(t)
      PROVE  WindowCount'
  <2>1. spawning' = spawning /\ Windows' = Windows
    BY <1>3 DEF Spawn, Windows, InWindow
  <2> QED
    BY <2>1 DEF WindowCount, Windows
<1>4. ASSUME NEW t \in Threads, SpawnFails(t)
      PROVE  WindowCount'
  <2>1. spawning' = spawning /\ Windows' = Windows
    BY <1>4 DEF SpawnFails, Leave, Windows, InWindow
  <2> QED
    BY <2>1 DEF WindowCount, Windows
<1>5. ASSUME NEW t \in Threads, TryClaim(t)
      PROVE  WindowCount'
  <2>1. spawning' = spawning /\ Windows' = Windows
    BY <1>5 DEF TryClaim, Windows, InWindow
  <2> QED
    BY <2>1 DEF WindowCount, Windows
<1>6. ASSUME NEW t \in Threads, CheckClaim(t)
      PROVE  WindowCount'
  <2>1. spawning' = spawning /\ Windows' = Windows
    BY <1>6 DEF CheckClaim, Adopted, Leave, Windows, InWindow
  <2> QED
    BY <2>1 DEF WindowCount, Windows
<1>7. ASSUME NEW t \in Threads, KillClaim(t)
      PROVE  WindowCount'
  <2>1. spawning' = spawning /\ Windows' = Windows
    BY <1>7 DEF KillClaim, KillGroup, Slain, Adopted, Leave, Windows, InWindow
  <2> QED
    BY <2>1 DEF WindowCount, Windows
<1>8. ASSUME NEW t \in Threads, Abandon(t)
      PROVE  WindowCount'
  <2>1. spawning' = spawning /\ Windows' = Windows
    BY <1>8 DEF Abandon, KillGroup, Slain, Windows, InWindow
  <2> QED
    BY <2>1 DEF WindowCount, Windows
<1>9. ASSUME NEW t \in Threads, ReapAbandoned(t)
      PROVE  WindowCount'
  <2>1. spawning' = spawning /\ Windows' = Windows
    BY <1>9 DEF ReapAbandoned, WaitFor, Leave, Windows, InWindow
  <2> QED
    BY <2>1 DEF WindowCount, Windows
<1>10. ASSUME NEW t \in Threads, CloseWindow(t)
      PROVE  WindowCount'
  <2>1. Windows' = Windows \ {t} /\ t \in Windows
    <3>1. (IF spawning = 1 THEN "closing" ELSE then[t]) \notin InWindow
      BY DEF InWindow
    <3>2. pc' = [pc EXCEPT ![t] = IF spawning = 1 THEN "closing" ELSE then[t]]
      BY <1>10 DEF CloseWindow
    <3> QED
      BY <1>10, <3>1, <3>2 DEF CloseWindow, Windows, InWindow
  <2>2. Cardinality(Windows') = Cardinality(Windows) - 1
    BY <2>1, WindowsFinite, FS_RemoveElement
  <2> QED
    BY <1>10, <2>2 DEF CloseWindow, WindowCount, Windows
<1>11. ASSUME NEW t \in Threads, LastOut(t)
      PROVE  WindowCount'
  <2>1. spawning' = spawning /\ Windows' = Windows
    BY <1>11 DEF LastOut, Windows, InWindow
  <2> QED
    BY <2>1 DEF WindowCount, Windows
<1>12. ASSUME NEW t \in Threads, pc[t] = "running", EndTree(t)
      PROVE  WindowCount'
  <2>1. spawning' = spawning /\ Windows' = Windows
    BY <1>12 DEF EndTree, KillGroup, Slain, Windows, InWindow
  <2> QED
    BY <2>1 DEF WindowCount, Windows
<1>13. ASSUME NEW t \in Threads, Release(t)
      PROVE  WindowCount'
  <2>1. spawning' = spawning /\ Windows' = Windows
    BY <1>13 DEF Release, Windows, InWindow
  <2> QED
    BY <2>1 DEF WindowCount, Windows
<1>14. ASSUME NEW t \in Threads, Reap(t)
      PROVE  WindowCount'
  <2>1. spawning' = spawning /\ Windows' = Windows
    BY <1>14 DEF Reap, WaitFor, Windows, InWindow
  <2> QED
    BY <2>1 DEF WindowCount, Windows
<1>15. ASSUME NEW a \in Actors, SweepTake(a)
      PROVE  WindowCount'
  <2>1. spawning' = spawning /\ Windows' = Windows
    BY <1>15 DEF SweepTake, NextSlot, Swept, Windows, InWindow
  <2> QED
    BY <2>1 DEF WindowCount, Windows
<1>16. ASSUME NEW a \in Actors, SweepKill(a)
      PROVE  WindowCount'
  <2>1. spawning' = spawning /\ Windows' = Windows
    BY <1>16 DEF SweepKill, NextSlot, Swept, KillGroup, Slain, Windows, InWindow
  <2> QED
    BY <2>1 DEF WindowCount, Windows
<1>17. ASSUME NEW d \in Deliveries, Deliver(d)
      PROVE  WindowCount'
  <2>1. spawning' = spawning /\ Windows' = Windows
    BY <1>17 DEF Deliver, Windows, InWindow
  <2> QED
    BY <2>1 DEF WindowCount, Windows
<1>18. ASSUME NEW d \in Deliveries, CheckSpawning(d)
      PROVE  WindowCount'
  <2>1. spawning' = spawning /\ Windows' = Windows
    BY <1>18 DEF CheckSpawning, Windows, InWindow
  <2> QED
    BY <2>1 DEF WindowCount, Windows
<1>19. ASSUME NEW a \in Actors, Die(a)
      PROVE  WindowCount'
  <2>1. spawning' = spawning /\ Windows' = Windows
    BY <1>19 DEF Die, Windows, InWindow
  <2> QED
    BY <2>1 DEF WindowCount, Windows
<1>20. ASSUME NEW p \in Pids, Kernel(p)
      PROVE  WindowCount'
  <2>1. spawning' = spawning /\ Windows' = Windows
    BY <1>20 DEF Kernel, Fork, LeaderExits, DescendantsExit, ForeignStarts, ForeignExits, Windows, InWindow
  <2> QED
    BY <2>1 DEF WindowCount, Windows
<1>21. CASE UNCHANGED vars
  <2>1. spawning' = spawning /\ Windows' = Windows
    BY <1>21 DEF vars, Windows
  <2> QED
    BY <2>1 DEF WindowCount, Windows
<1> QED
  BY <1>1, <1>2, <1>3, <1>4, <1>5, <1>6, <1>7, <1>8, <1>9, <1>10, <1>11,
     <1>12, <1>13, <1>14, <1>15, <1>16, <1>17, <1>18, <1>19, <1>20, <1>21
     DEF Next, Thread, Proceed, Observe, Terminate, Handler, Handle

\* A count of zero means that no thread has a window open.
LEMMA NoWindowOpen ==
  ASSUME TypeOK, WindowCount, spawning = 0
  PROVE  \A t \in Threads : pc[t] \notin InWindow
<1> USE ContainmentAssumption DEF TypeOK, Actors, registry, locals, Goto
<1> DEFINE W == {t \in Threads : pc[t] \in InWindow}
<1>1. IsFiniteSet(W)
  BY FS_Subset
<1>2. W = {}
  BY <1>1, FS_EmptySet DEF WindowCount
<1> QED
  BY <1>2

\* Every step keeps a handler that has decided to die alone.
LEMMA HandlerAloneStep ==
  TypeOK /\ Sweeping /\ WindowCount /\ HandlerAlone /\ [Next]_vars => HandlerAlone'
<1> USE ContainmentAssumption DEF TypeOK, Actors, registry, locals, Goto
<1> SUFFICES ASSUME TypeOK, Sweeping, WindowCount, HandlerAlone, [Next]_vars
             PROVE  HandlerAlone'
  OBVIOUS
<1>1. ASSUME NEW t \in Threads, Open(t)
      PROVE  HandlerAlone'
  BY <1>1 DEF Open, HandlerAlone, Sweeping, InWindow
<1>2. ASSUME NEW t \in Threads, CheckInterrupted(t)
      PROVE  HandlerAlone'
  BY <1>2 DEF CheckInterrupted, Leave, HandlerAlone, Sweeping, InWindow
<1>3. ASSUME NEW t \in Threads, Spawn(t)
      PROVE  HandlerAlone'
  BY <1>3 DEF Spawn, HandlerAlone, Sweeping, InWindow
<1>4. ASSUME NEW t \in Threads, SpawnFails(t)
      PROVE  HandlerAlone'
  BY <1>4 DEF SpawnFails, Leave, HandlerAlone, Sweeping, InWindow
<1>5. ASSUME NEW t \in Threads, TryClaim(t)
      PROVE  HandlerAlone'
  BY <1>5 DEF TryClaim, HandlerAlone, Sweeping, InWindow
<1>6. ASSUME NEW t \in Threads, CheckClaim(t)
      PROVE  HandlerAlone'
  BY <1>6 DEF CheckClaim, Adopted, Leave, HandlerAlone, Sweeping, InWindow
<1>7. ASSUME NEW t \in Threads, KillClaim(t)
      PROVE  HandlerAlone'
  BY <1>7 DEF KillClaim, KillGroup, Slain, Adopted, Leave, HandlerAlone, Sweeping, InWindow
<1>8. ASSUME NEW t \in Threads, Abandon(t)
      PROVE  HandlerAlone'
  BY <1>8 DEF Abandon, KillGroup, Slain, HandlerAlone, Sweeping, InWindow
<1>9. ASSUME NEW t \in Threads, ReapAbandoned(t)
      PROVE  HandlerAlone'
  BY <1>9 DEF ReapAbandoned, WaitFor, Leave, HandlerAlone, Sweeping, InWindow
<1>10. ASSUME NEW t \in Threads, CloseWindow(t)
      PROVE  HandlerAlone'
  BY <1>10 DEF CloseWindow, HandlerAlone, Sweeping, InWindow
<1>11. ASSUME NEW t \in Threads, LastOut(t)
      PROVE  HandlerAlone'
  BY <1>11 DEF LastOut, HandlerAlone, Sweeping, InWindow
<1>12. ASSUME NEW t \in Threads, pc[t] = "running", EndTree(t)
      PROVE  HandlerAlone'
  BY <1>12 DEF EndTree, KillGroup, Slain, HandlerAlone, Sweeping, InWindow
<1>13. ASSUME NEW t \in Threads, Release(t)
      PROVE  HandlerAlone'
  BY <1>13 DEF Release, HandlerAlone, Sweeping, InWindow
<1>14. ASSUME NEW t \in Threads, Reap(t)
      PROVE  HandlerAlone'
  BY <1>14 DEF Reap, WaitFor, HandlerAlone, Sweeping, InWindow
<1>15. ASSUME NEW a \in Actors, SweepTake(a)
      PROVE  HandlerAlone'
  BY <1>15 DEF SweepTake, NextSlot, Swept, HandlerAlone, Sweeping, InWindow
<1>16. ASSUME NEW a \in Actors, SweepKill(a)
      PROVE  HandlerAlone'
  BY <1>16 DEF SweepKill, NextSlot, Swept, KillGroup, Slain, HandlerAlone, Sweeping, InWindow
<1>17. ASSUME NEW d \in Deliveries, Deliver(d)
      PROVE  HandlerAlone'
  BY <1>17 DEF Deliver, HandlerAlone, Sweeping, InWindow
<1>18. ASSUME NEW d \in Deliveries, CheckSpawning(d)
      PROVE  HandlerAlone'
  BY <1>18, NoWindowOpen DEF CheckSpawning, HandlerAlone, InWindow
<1>19. ASSUME NEW a \in Actors, Die(a)
      PROVE  HandlerAlone'
  BY <1>19 DEF Die, HandlerAlone, Sweeping, InWindow
<1>20. ASSUME NEW p \in Pids, Kernel(p)
      PROVE  HandlerAlone'
  BY <1>20 DEF Kernel, Fork, LeaderExits, DescendantsExit, ForeignStarts, ForeignExits, HandlerAlone, Sweeping, InWindow
<1>21. CASE UNCHANGED vars
  BY <1>21 DEF vars, HandlerAlone, Sweeping, InWindow
<1> QED
  BY <1>1, <1>2, <1>3, <1>4, <1>5, <1>6, <1>7, <1>8, <1>9, <1>10, <1>11,
     <1>12, <1>13, <1>14, <1>15, <1>16, <1>17, <1>18, <1>19, <1>20, <1>21
     DEF Next, Thread, Proceed, Observe, Terminate, Handler, Handle

-----------------------------------------------------------------------------
(***************************************************************************)
(* The invariant, and what follows from it.                                *)
(***************************************************************************)

\* The initial states satisfy every part of the invariant.
LEMMA InitIInv ==
  Init => /\ Ownership /\ NothingLeaks /\ SlotDiscipline /\ Reach
          /\ Sweeping /\ SweepDone /\ WindowCount /\ HandlerAlone
<1> USE ContainmentAssumption DEF Actors
<1> SUFFICES ASSUME Init
             PROVE  /\ Ownership /\ NothingLeaks /\ SlotDiscipline /\ Reach
                    /\ Sweeping /\ SweepDone /\ WindowCount /\ HandlerAlone
  OBVIOUS
<1>1. /\ \A t \in Threads : group[t] = EMPTY /\ slot[t] = 0 /\ pc[t] = "idle" /\ then[t] = "idle"
      /\ \A d \in Deliveries : pc[d] = "pending"
      /\ \A a \in Actors : pc[a] \in {"idle", "pending"} /\ hand[a] = EMPTY
      /\ \A p \in Pids : proc[p] = "free"
      /\ \A s \in Slots : watched[s] = EMPTY
  BY DEF Init
<1>2. ~dead
  BY Zenon DEF Init
<1>3. Ownership /\ NothingLeaks
  BY <1>1 DEF Ownership, NothingLeaks, Holds, Owning, Leaving, Pinned
<1>4. SlotDiscipline
  BY <1>1 DEF SlotDiscipline, Leaving
<1>5. Reach
  BY <1>1 DEF Reach
<1>6. Sweeping
  BY <1>1, <1>2 DEF Sweeping
<1>7. SweepDone
  BY <1>1 DEF SweepDone
<1>8. WindowCount
  <2>1. Windows = {}
    BY <1>1 DEF Windows, InWindow
  <2>2. spawning = 0
    BY Zenon DEF Init
  <2> QED
    BY <2>1, <2>2, FS_EmptySet DEF WindowCount, Windows
<1>9. HandlerAlone
  BY <1>1 DEF HandlerAlone
<1> QED
  BY <1>3, <1>4, <1>5, <1>6, <1>7, <1>8, <1>9

\* The inductive invariant: ownership of groups, the discipline of slots, what a
\* sweep has done so far, and the count of open windows.
THEOREM Invariance == Spec => []IInv
<1> DEFINE Rest == /\ Ownership /\ NothingLeaks /\ SlotDiscipline /\ Reach
                   /\ Sweeping /\ SweepDone /\ WindowCount /\ HandlerAlone
<1>1. Init => Rest
  BY InitIInv
<1>2. TypeOK /\ Rest /\ [Next]_vars => Rest'
  BY OwnershipStep, SlotDisciplineStep, SweepingStep, ReachStep, SweepDoneStep,
     WindowCountStep, HandlerAloneStep
<1>3. IInv <=> TypeOK /\ Rest
  BY DEF IInv
<1> QED
  BY <1>1, <1>2, <1>3, TypeCorrect, PTL DEF Spec

\* An id in the registry is pinned by an unreaped leader of this run
\* (process_tree.rs: release before reap).
THEOREM PinnedIds == Spec => []WatchedIsPinned
<1>1. IInv => WatchedIsPinned
  BY DEF IInv, TypeOK, WatchedIsPinned, SlotDiscipline, Ownership
<1> QED
  BY <1>1, Invariance, PTL

\* No descendant outlives the reap of its leader (process_tree.rs: kill, then
\* release, then reap, on every way out).
THEOREM LeaksNothing == Spec => []NothingLeaks
<1>1. IInv => NothingLeaks
  BY DEF IInv
<1> QED
  BY <1>1, Invariance, PTL

\* A living child out of its window has a slot.
LEMMA OutOfWindowHasSlot ==
  ASSUME IInv, NEW t \in Threads, group[t] # EMPTY, pc[t] \notin InWindow, Alive(group[t])
  PROVE  slot[t] # 0 /\ pc[t] # "ended"
<1>1. Holds(t)
  BY DEF IInv, Ownership
<1>2. pc[t] \notin {"ended", "reaping"}
  BY DEF IInv, Ownership, Alive, Living
<1>3. pc[t] \in {"running", "closing", "sweep", "sweepkill", "dying"}
  BY <1>1, <1>2 DEF Holds, Owning, Leaving, InWindow
<1> QED
  BY <1>1, <1>2, <1>3 DEF IInv, SlotDiscipline, Holds, Owning, Leaving

\* A living child whose window has closed is in the registry or in the hand of a
\* sweep (interrupt.rs: the window outlives the claim).
THEOREM AlwaysReachable == Spec => []RunningIsReachable
<1>1. IInv => RunningIsReachable
  <2> SUFFICES ASSUME IInv, NEW t \in Threads,
                      group[t] # EMPTY, pc[t] \notin InWindow, Alive(group[t])
               PROVE  Registered(group[t]) \/ InHand(group[t])
    BY DEF RunningIsReachable
  <2>1. slot[t] # 0 /\ pc[t] # "ended"
    BY OutOfWindowHasSlot
  <2>2. slot[t] \in Slots
    BY <2>1, ContainmentAssumption DEF IInv, TypeOK, Slots
  <2>3. watched[slot[t]] = group[t] \/ InHand(group[t])
    BY <2>1 DEF IInv, Reach
  <2> QED
    BY <2>2, <2>3 DEF Registered
<1> QED
  BY <1>1, Invariance, PTL

\* Once an actor is about to die, its sweep has left only unchecked claims behind.
LEMMA DyingSwept ==
  ASSUME IInv, NEW a \in Actors, pc[a] = "dying", NEW p \in Pids, Alive(p)
  PROVE  InHand(p) \/ OwnerInWindow(p)
<1>1. proc[p] \in Pinned
  BY DEF IInv, NothingLeaks, Alive, Living, Pinned
<1>2. PICK t \in Threads : group[t] = p
  BY <1>1 DEF IInv, Ownership
<1>3. CASE pc[t] \in InWindow
  BY <1>2, <1>3 DEF OwnerInWindow
<1>4. CASE pc[t] \notin InWindow
  <2>1. group[t] # EMPTY
    BY <1>2, ContainmentAssumption
  <2>2. slot[t] # 0 /\ pc[t] # "ended"
    BY <1>2, <1>4, <2>1, OutOfWindowHasSlot
  <2>3. slot[t] \in Slots
    BY <2>2, ContainmentAssumption DEF IInv, TypeOK, Slots
  <2>4. CASE watched[slot[t]] = p
    <3>1. PICK u \in Threads : group[u] = p /\ pc[u] \in {"claimed", "killclaim"}
      BY <2>1, <1>2, <2>3, <2>4 DEF IInv, SweepDone, Passed
    <3> QED
      BY <3>1 DEF OwnerInWindow, InWindow
  <2>5. CASE InHand(p)
    BY <2>5
  <2> QED
    BY <1>2, <2>2, <2>4, <2>5 DEF IInv, Reach
<1> QED
  BY <1>3, <1>4

\* However the process dies, no child that was handed over to the registry
\* outlives it, unless a sweep has it in hand (interrupt.rs: close, interrupt).
THEOREM OrphansNoSettledChild == Spec => []SettledNeverOrphaned
<1>1. IInv => SettledNeverOrphaned
  BY DyingSwept DEF IInv, Sweeping, SettledNeverOrphaned
<1> QED
  BY <1>1, Invariance, PTL

\* A handler that ends the process leaves no group alive but those a sweep is about
\* to kill, and no thread about to spawn (interrupt.rs: the check of spawning).
THEOREM HandlerLeavesNothing == Spec => []HandlerDiesLast
<1>1. IInv => HandlerDiesLast
  <2> SUFFICES ASSUME IInv, NEW d \in Deliveries, pc[d] = "dying"
               PROVE  /\ \A p \in Pids : Alive(p) => InHand(p)
                      /\ \A t \in Threads : pc[t] # "ready"
    BY DEF HandlerDiesLast
  <2>1. \A t \in Threads : pc[t] \in InWindow =>
          pc[t] = "opened" \/ (pc[t] = "close" /\ then[t] = "stopped")
    BY DEF IInv, HandlerAlone
  <2>2. ASSUME NEW p \in Pids, Alive(p)
        PROVE  InHand(p)
    <3> SUFFICES ASSUME OwnerInWindow(p)
                 PROVE  FALSE
      BY <2>2, DyingSwept DEF Actors
    <3>1. PICK t \in Threads : group[t] = p /\ pc[t] \in InWindow
      BY DEF OwnerInWindow
    <3>2. Holds(t)
      BY <3>1, ContainmentAssumption DEF IInv, Ownership
    <3> QED
      BY <2>1, <3>1, <3>2 DEF Holds, Owning, Leaving
  <2>3. \A t \in Threads : pc[t] # "ready"
    BY <2>1 DEF InWindow
  <2> QED
    BY <2>2, <2>3
<1> QED
  BY <1>1, Invariance, PTL

\* A registration disappears only by its owner's release, or into the hand of a
\* sweep (interrupt.rs: unwatch compares before it clears).
THEOREM KeepsRegistrations == Spec => RegistrationKept
<1> DEFINE Kept == \A t \in Threads :
       (slot[t] # 0 /\ pc[t] # "ended" /\ Registered(group[t]))
         => Registered(group[t])' \/ InHand(group[t])'
<1>1. IInv /\ [Next]_vars => [Kept]_vars
  <2> SUFFICES ASSUME IInv, Next, NEW t \in Threads,
                      slot[t] # 0, pc[t] # "ended", Registered(group[t])
               PROVE  Registered(group[t])' \/ InHand(group[t])'
    OBVIOUS
  <2> USE ContainmentAssumption DEF TypeOK, Actors, registry, locals, Goto
  <2>0. PICK s \in Slots : watched[s] = group[t]
    BY DEF Registered
  <2>a. /\ Holds(t)
        /\ pc[t] \notin {"claiming", "abandon", "reapabandoned", "reaping", "ended"}
        /\ group[t] # EMPTY
    BY DEF IInv, SlotDiscipline, Ownership
  <2> DEFINE Goal == Registered(group[t])' \/ InHand(group[t])'
  <2>1. ASSUME NEW u \in Threads, Open(u)
        PROVE  Goal
    <3>1. group'[t] = group[t] /\ watched'[s] = watched[s]
      BY <2>1, <2>a DEF Open, Holds, Owning, Leaving
    <3> QED
      BY <3>1, <2>0 DEF Registered
  <2>2. ASSUME NEW u \in Threads, CheckInterrupted(u)
        PROVE  Goal
    <3>1. group'[t] = group[t] /\ watched'[s] = watched[s]
      BY <2>2, <2>a DEF CheckInterrupted, Leave, Holds, Owning, Leaving
    <3> QED
      BY <3>1, <2>0 DEF Registered
  <2>3. ASSUME NEW u \in Threads, Spawn(u)
        PROVE  Goal
    <3>1. group'[t] = group[t] /\ watched'[s] = watched[s]
      BY <2>3, <2>a DEF Spawn, Holds, Owning, Leaving
    <3> QED
      BY <3>1, <2>0 DEF Registered
  <2>4. ASSUME NEW u \in Threads, SpawnFails(u)
        PROVE  Goal
    <3>1. group'[t] = group[t] /\ watched'[s] = watched[s]
      BY <2>4, <2>a DEF SpawnFails, Leave, Holds, Owning, Leaving
    <3> QED
      BY <3>1, <2>0 DEF Registered
  <2>5. ASSUME NEW u \in Threads, TryClaim(u)
        PROVE  Goal
    <3>1. group'[t] = group[t] /\ watched'[s] = watched[s]
      BY <2>5, <2>0, <2>a DEF TryClaim, IInv
    <3> QED
      BY <3>1, <2>0 DEF Registered
  <2>6. ASSUME NEW u \in Threads, CheckClaim(u)
        PROVE  Goal
    <3>1. group'[t] = group[t] /\ watched'[s] = watched[s]
      BY <2>6, <2>a DEF CheckClaim, Adopted, Leave, Holds, Owning, Leaving
    <3> QED
      BY <3>1, <2>0 DEF Registered
  <2>7. ASSUME NEW u \in Threads, KillClaim(u)
        PROVE  Goal
    <3>1. group'[t] = group[t] /\ watched'[s] = watched[s]
      BY <2>7, <2>a DEF KillClaim, KillGroup, Slain, Adopted, Leave, Holds, Owning, Leaving
    <3> QED
      BY <3>1, <2>0 DEF Registered
  <2>8. ASSUME NEW u \in Threads, Abandon(u)
        PROVE  Goal
    <3>1. group'[t] = group[t] /\ watched'[s] = watched[s]
      BY <2>8, <2>a DEF Abandon, KillGroup, Slain, Holds, Owning, Leaving
    <3> QED
      BY <3>1, <2>0 DEF Registered
  <2>9. ASSUME NEW u \in Threads, ReapAbandoned(u)
        PROVE  Goal
    <3>1. group'[t] = group[t] /\ watched'[s] = watched[s]
      BY <2>9, <2>a DEF ReapAbandoned, WaitFor, Leave, Holds, Owning, Leaving
    <3> QED
      BY <3>1, <2>0 DEF Registered
  <2>10. ASSUME NEW u \in Threads, CloseWindow(u)
        PROVE  Goal
    <3>1. group'[t] = group[t] /\ watched'[s] = watched[s]
      BY <2>10, <2>a DEF CloseWindow, Holds, Owning, Leaving
    <3> QED
      BY <3>1, <2>0 DEF Registered
  <2>11. ASSUME NEW u \in Threads, LastOut(u)
        PROVE  Goal
    <3>1. group'[t] = group[t] /\ watched'[s] = watched[s]
      BY <2>11, <2>a DEF LastOut, Holds, Owning, Leaving
    <3> QED
      BY <3>1, <2>0 DEF Registered
  <2>12. ASSUME NEW u \in Threads, pc[u] = "running", EndTree(u)
        PROVE  Goal
    <3>1. group'[t] = group[t] /\ watched'[s] = watched[s]
      BY <2>12, <2>a DEF EndTree, KillGroup, Slain, Holds, Owning, Leaving
    <3> QED
      BY <3>1, <2>0 DEF Registered
  <2>13. ASSUME NEW u \in Threads, Release(u)
        PROVE  Goal
    <3>1. group[u] # group[t]
      BY <2>13, <2>a DEF Release, IInv, Ownership
    <3>2. group'[t] = group[t] /\ watched'[s] = watched[s]
      BY <2>13, <2>0, <3>1 DEF Release, IInv
    <3> QED
      BY <3>2, <2>0 DEF Registered
  <2>14. ASSUME NEW u \in Threads, Reap(u)
        PROVE  Goal
    <3>1. group'[t] = group[t] /\ watched'[s] = watched[s]
      BY <2>14, <2>a DEF Reap, WaitFor, Holds, Owning, Leaving
    <3> QED
      BY <3>1, <2>0 DEF Registered
  <2>15. ASSUME NEW a \in Actors, SweepTake(a)
        PROVE  Goal
    <3>1. CASE s = cursor[a]
      <4>1. hand'[a] = group[t] /\ group'[t] = group[t]
        BY <2>15, <2>0, <3>1 DEF SweepTake, IInv
      <4> QED
        BY <4>1 DEF InHand
    <3>2. CASE s # cursor[a]
      <4>1. group'[t] = group[t] /\ watched'[s] = watched[s]
        BY <2>15, <3>2 DEF SweepTake, IInv
      <4> QED
        BY <4>1, <2>0 DEF Registered
    <3> QED
      BY <3>1, <3>2
  <2>16. ASSUME NEW a \in Actors, SweepKill(a)
        PROVE  Goal
    <3>1. group'[t] = group[t] /\ watched'[s] = watched[s]
      BY <2>16, <2>a DEF SweepKill, NextSlot, Swept, KillGroup, Slain, Holds, Owning, Leaving
    <3> QED
      BY <3>1, <2>0 DEF Registered
  <2>17. ASSUME NEW d \in Deliveries, Deliver(d)
        PROVE  Goal
    <3>1. group'[t] = group[t] /\ watched'[s] = watched[s]
      BY <2>17, <2>a DEF Deliver, Holds, Owning, Leaving
    <3> QED
      BY <3>1, <2>0 DEF Registered
  <2>18. ASSUME NEW d \in Deliveries, CheckSpawning(d)
        PROVE  Goal
    <3>1. group'[t] = group[t] /\ watched'[s] = watched[s]
      BY <2>18, <2>a DEF CheckSpawning, Holds, Owning, Leaving
    <3> QED
      BY <3>1, <2>0 DEF Registered
  <2>19. ASSUME NEW a \in Actors, Die(a)
        PROVE  Goal
    <3>1. group'[t] = group[t] /\ watched'[s] = watched[s]
      BY <2>19, <2>a DEF Die, Holds, Owning, Leaving
    <3> QED
      BY <3>1, <2>0 DEF Registered
  <2>20. ASSUME NEW p \in Pids, Kernel(p)
        PROVE  Goal
    <3>1. group'[t] = group[t] /\ watched'[s] = watched[s]
      BY <2>20, <2>a DEF Kernel, Fork, LeaderExits, DescendantsExit, ForeignStarts, ForeignExits, Holds, Owning, Leaving
    <3> QED
      BY <3>1, <2>0 DEF Registered
  <2> QED
    BY <2>1, <2>2, <2>3, <2>4, <2>5, <2>6, <2>7, <2>8, <2>9, <2>10, <2>11,
       <2>12, <2>13, <2>14, <2>15, <2>16, <2>17, <2>18, <2>19, <2>20
       DEF Next, Thread, Proceed, Observe, Terminate, Handler, Handle
<1> QED
  BY <1>1, Invariance, PTL DEF Spec, RegistrationKept

-----------------------------------------------------------------------------
(***************************************************************************)
(* Containment implements Cancellation.                                    *)
(***************************************************************************)
Stages   == [p \in Pids |-> Stage(p)]
Licensed == {t \in Threads : pc[t] = "ready"}
Phase    == IF dead THEN "dead" ELSE IF interrupted THEN "interrupted" ELSE "calm"

\* The stage of a group depends only on whether it lives, on its owner's window
\* and on the sweeps' hands.
LEMMA StageSame ==
  ASSUME NEW p,
         Alive(p)' <=> Alive(p),
         OwnerInWindow(p)' <=> OwnerInWindow(p),
         InHand(p)' <=> InHand(p)
  PROVE  Stage(p)' = Stage(p)
BY DEF Stage

\* A step that changes one group's stage is one EXCEPT of the abstract stages.
LEMMA OneStage ==
  ASSUME NEW g \in Pids, \A p \in Pids : p # g => Stage(p)' = Stage(p)
  PROVE  Stages' = [Stages EXCEPT ![g] = Stage(g)']
BY DEF Stages

\* A step that changes nothing an abstract variable depends on is a stutter.
LEMMA AbstractStutter ==
  ASSUME \A p \in Pids : Stage(p)' = Stage(p), Licensed' = Licensed, Phase' = Phase
  PROVE  [Abstract!CNext]_(Abstract!abstractVars)
BY DEF Abstract!abstractVars, Licensed, Phase

\* A step after which at most one group is gone is an end of it or a stutter.
LEMMA AbstractEnd ==
  ASSUME NEW g \in Pids,
         \A p \in Pids : p # g => Stage(p)' = Stage(p),
         Stage(g)' = Stage(g) \/ Stage(g)' = "none",
         Licensed' = Licensed, Phase' = Phase
  PROVE  [Abstract!CNext]_(Abstract!abstractVars)
<1>1. CASE Stage(g)' = Stage(g)
  BY <1>1, AbstractStutter
<1>2. CASE Stage(g) # "none" /\ Stage(g)' = "none"
  <2>1. Stages' = [Stages EXCEPT ![g] = "none"]
    BY <1>2, OneStage
  <2>2. Abstract!End(g)
    BY <1>2, <2>1 DEF Abstract!End, Stages, Licensed, Phase
  <2> QED
    BY <2>2 DEF Abstract!CNext
<1> QED
  BY <1>1, <1>2

\* Killing a group that no step has leaked ends it or finds it gone already.
LEMMA KillEnds ==
  ASSUME TypeOK, NEW g \in Pids, KillGroup(g),
         \A p \in Pids : p # g => (OwnerInWindow(p)' <=> OwnerInWindow(p)) /\ (InHand(p)' <=> InHand(p)),
         Licensed' = Licensed, Phase' = Phase
  PROVE  [Abstract!CNext]_(Abstract!abstractVars)
<1>1. \A p \in Pids : p # g => (Alive(p)' <=> Alive(p))
  BY DEF KillGroup, Alive, TypeOK
<1>2. \A p \in Pids : p # g => Stage(p)' = Stage(p)
  BY <1>1, StageSame
<1>3. ~Alive(g)'
  BY DEF KillGroup, Alive, Slain, Living, TypeOK, Pinned
<1>4. Stage(g)' = "none"
  BY <1>3 DEF Stage
<1> QED
  BY <1>2, <1>4, AbstractEnd

\* A step of a thread that neither enters nor leaves the windows and licences
\* while it has a group, and touches no process and no hand, changes no stage.
LEMMA MoveStutters ==
  ASSUME TypeOK, NEW t \in Threads, UNCHANGED <<proc, group, hand, interrupted, dead>>,
         \A u \in Threads : u # t => pc'[u] = pc[u],
         pc[t] # "ready", pc'[t] # "ready",
         group[t] = EMPTY \/ (pc[t] \in InWindow <=> pc'[t] \in InWindow)
  PROVE  [Abstract!CNext]_(Abstract!abstractVars)
<1>1. \A p \in Pids : OwnerInWindow(p)' <=> OwnerInWindow(p)
  BY ContainmentAssumption DEF OwnerInWindow
<1>2. \A p \in Pids : (Alive(p)' <=> Alive(p)) /\ (InHand(p)' <=> InHand(p))
  BY DEF Alive, InHand
<1>3. Licensed' = Licensed
  BY DEF Licensed
<1>4. Phase' = Phase
  BY DEF Phase
<1> QED
  BY <1>1, <1>2, <1>3, <1>4, StageSame, AbstractStutter

\* The abstract initial state: nothing started, nothing licensed, calm.
LEMMA InitImplements == Init => Abstract!CInit
<1> SUFFICES ASSUME Init PROVE Abstract!CInit
  OBVIOUS
<1>1. \A p \in Pids : Stage(p) = "none"
  BY DEF Init, Stage, Alive, Living
<1>2. Licensed = {}
  BY DEF Init, Licensed, Actors
<1>3. Phase = "calm"
  BY Zenon DEF Init, Phase
<1> QED
  BY <1>1, <1>2, <1>3 DEF Abstract!CInit, Licensed, Phase

\* A thread that finds no interrupt is granted a licence.
LEMMA CheckImplements ==
  ASSUME IInv, ~dead, NEW t \in Threads, CheckInterrupted(t)
  PROVE  [Abstract!CNext]_(Abstract!abstractVars)
<1> USE ContainmentAssumption DEF IInv, TypeOK, Actors, registry, Goto
<1>1. group[t] = EMPTY
  BY DEF CheckInterrupted, Ownership, Holds, Owning, Leaving
<1>2. CASE interrupted
  BY <1>1, <1>2, MoveStutters DEF CheckInterrupted, Leave
<1>3. CASE ~interrupted
  <2>1. \A p \in Pids : Stage(p)' = Stage(p)
    <3>1. \A p \in Pids : OwnerInWindow(p)' <=> OwnerInWindow(p)
      BY <1>1 DEF CheckInterrupted, Leave, OwnerInWindow
    <3> QED
      BY <3>1, StageSame DEF CheckInterrupted, Alive, InHand
  <2>2. Licensed' = Licensed \union {t}
    BY <1>3 DEF CheckInterrupted, Licensed
  <2>3. Phase = "calm" /\ Phase' = Phase
    BY <1>3 DEF CheckInterrupted, Phase
  <2>4. Abstract!Grant(t)
    BY <2>1, <2>2, <2>3 DEF Abstract!Grant, Licensed, Phase
  <2> QED
    BY <2>4 DEF Abstract!CNext
<1> QED
  BY <1>2, <1>3

\* A spawn uses up its thread's licence to start a fresh group.
LEMMA SpawnImplements ==
  ASSUME IInv, ~dead, NEW t \in Threads, Spawn(t)
  PROVE  [Abstract!CNext]_(Abstract!abstractVars)
<1> USE ContainmentAssumption DEF IInv, TypeOK, Actors, registry, Goto
<1>1. PICK g \in Pids : /\ proc[g] = "free"
                        /\ proc' = [proc EXCEPT ![g] = "leader"]
                        /\ group' = [group EXCEPT ![t] = g]
  BY DEF Spawn
<1>2. group[t] = EMPTY
  BY DEF Spawn, Ownership, Holds, Owning, Leaving
<1>3. \A p \in Pids : p # g => Stage(p)' = Stage(p)
  <2>1. \A p \in Pids : p # g => (Alive(p)' <=> Alive(p)) /\ (InHand(p)' <=> InHand(p))
    BY <1>1 DEF Spawn, Alive, InHand
  <2>2. \A p \in Pids : p # g => (OwnerInWindow(p)' <=> OwnerInWindow(p))
    BY <1>1, <1>2 DEF Spawn, OwnerInWindow
  <2> QED
    BY <2>1, <2>2, StageSame
<1>4. Stage(g) = "none"
  BY <1>1 DEF Stage, Alive, Living
<1>5. Stage(g)' = "fresh"
  <2>1. Alive(g)'
    BY <1>1 DEF Alive, Living
  <2>2. OwnerInWindow(g)'
    BY <1>1 DEF Spawn, OwnerInWindow, InWindow
  <2> QED
    BY <2>1, <2>2 DEF Stage
<1>6. Stages' = [Stages EXCEPT ![g] = "fresh"]
  BY <1>3, <1>5, OneStage
<1>7. t \in Licensed /\ Licensed' = Licensed \ {t}
  BY DEF Spawn, Licensed
<1>8. Phase # "dead" /\ Phase' = Phase
  BY DEF Spawn, Phase
<1>9. Abstract!Start(t, g)
  BY <1>4, <1>6, <1>7, <1>8 DEF Abstract!Start, Stages, Licensed, Phase
<1> QED
  BY <1>9 DEF Abstract!CNext

\* A spawn that fails gives its thread's licence back.
LEMMA FailureImplements ==
  ASSUME IInv, ~dead, NEW t \in Threads, SpawnFails(t)
  PROVE  [Abstract!CNext]_(Abstract!abstractVars)
<1> USE ContainmentAssumption DEF IInv, TypeOK, Actors, registry, Goto
<1>1. group[t] = EMPTY
  BY DEF SpawnFails, Ownership, Holds, Owning, Leaving
<1>2. \A p \in Pids : Stage(p)' = Stage(p)
  <2>1. \A p \in Pids : OwnerInWindow(p)' <=> OwnerInWindow(p)
    BY <1>1 DEF SpawnFails, Leave, OwnerInWindow
  <2> QED
    BY <2>1, StageSame DEF SpawnFails, Alive, InHand
<1>3. Licensed' = Licensed \ {t}
  BY DEF SpawnFails, Leave, Licensed
<1>4. Phase # "dead" /\ Phase' = Phase
  BY DEF SpawnFails, Phase
<1>5. Abstract!Renounce(t)
  BY <1>2, <1>3, <1>4 DEF Abstract!Renounce, Licensed, Phase
<1> QED
  BY <1>5 DEF Abstract!CNext

\* Closing a window is where a spawner lets go of its group, if it has one.
LEMMA CloseImplements ==
  ASSUME IInv, ~dead, NEW t \in Threads, CloseWindow(t)
  PROVE  [Abstract!CNext]_(Abstract!abstractVars)
<1> USE ContainmentAssumption DEF IInv, TypeOK, Actors, registry, Goto
<1>0. pc[t] \in InWindow /\ pc'[t] \notin InWindow \union {"ready"}
  BY DEF CloseWindow, InWindow
<1>1. \A u \in Threads : u # t => pc'[u] = pc[u]
  BY DEF CloseWindow
<1>2. UNCHANGED <<proc, group, hand, interrupted, dead>>
  BY DEF CloseWindow, locals
<1>3. CASE group[t] = EMPTY
  BY <1>0, <1>1, <1>2, <1>3, MoveStutters DEF CloseWindow
<1>4. CASE group[t] # EMPTY
  <2>1. PICK g \in Pids : g = group[t]
    BY <1>4
  <2>2. OwnerInWindow(g)
    BY <1>0, <2>1 DEF OwnerInWindow
  <2>3. ~OwnerInWindow(g)'
    BY <1>0, <1>1, <1>2, <1>4, <2>1 DEF OwnerInWindow, Ownership
  <2>4. \A p \in Pids : p # g => (OwnerInWindow(p)' <=> OwnerInWindow(p))
    BY <1>1, <1>2, <2>1 DEF OwnerInWindow
  <2>5. \A p \in Pids : (Alive(p)' <=> Alive(p)) /\ (InHand(p)' <=> InHand(p))
    BY <1>2 DEF Alive, InHand
  <2>6. \A p \in Pids : p # g => Stage(p)' = Stage(p)
    BY <2>4, <2>5, StageSame
  <2>7. Licensed' = Licensed
    BY <1>0, <1>1 DEF CloseWindow, Licensed
  <2>8. Phase # "dead" /\ Phase' = Phase
    BY <1>2 DEF Phase
  <2>9. CASE ~Alive(g)
    <3>1. Stage(g) = "none" /\ Stage(g)' = "none"
      BY <2>1, <2>5, <2>9 DEF Stage
    <3> QED
      BY <2>1, <2>6, <2>7, <2>8, <3>1, AbstractEnd
  <2>10. CASE Alive(g)
    <3>1. Stage(g) = "fresh"
      BY <2>2, <2>10 DEF Stage
    <3>2. Stage(g)' = IF InHand(g) THEN "doomed" ELSE "settled"
      BY <2>1, <2>3, <2>5, <2>10 DEF Stage
    <3>3. InHand(g) => Phase = "interrupted"
      BY <2>1 DEF InHand, Sweeping, Phase
    <3>4. \/ Stages' = [Stages EXCEPT ![g] = "settled"]
          \/ Phase = "interrupted" /\ Stages' = [Stages EXCEPT ![g] = "doomed"]
      BY <2>1, <2>6, <3>2, <3>3, OneStage
    <3>5. Abstract!Settle(g)
      BY <2>1, <2>7, <2>8, <3>1, <3>4 DEF Abstract!Settle, Stages, Licensed, Phase
    <3> QED
      BY <2>1, <3>5 DEF Abstract!CNext
  <2> QED
    BY <2>9, <2>10
<1> QED
  BY <1>3, <1>4

\* A sweep that swaps a living group out of its slot dooms it.
LEMMA TakeImplements ==
  ASSUME IInv, ~dead, NEW a \in Actors, SweepTake(a)
  PROVE  [Abstract!CNext]_(Abstract!abstractVars)
<1> USE ContainmentAssumption DEF IInv, TypeOK, Actors, registry, Goto
<1>0. PICK g : g = watched[cursor[a]]
  OBVIOUS
<1>1. hand[a] = EMPTY /\ interrupted
  BY DEF SweepTake, Sweeping
<1>2. UNCHANGED <<proc, group, interrupted, dead>> /\ hand' = [hand EXCEPT ![a] = g]
  BY <1>0 DEF SweepTake
<1>3. \A u \in Threads : (pc'[u] \in InWindow <=> pc[u] \in InWindow) /\ (pc'[u] = "ready" <=> pc[u] = "ready")
  BY DEF SweepTake, NextSlot, Swept, InWindow
<1>4. \A p : (Alive(p)' <=> Alive(p)) /\ (OwnerInWindow(p)' <=> OwnerInWindow(p))
  BY <1>2, <1>3 DEF Alive, OwnerInWindow
<1>5. Licensed' = Licensed
  BY <1>3 DEF Licensed
<1>6. Phase = "interrupted" /\ Phase' = Phase
  BY <1>1, <1>2 DEF Phase
<1>7. \A p \in Pids : p # g => (InHand(p)' <=> InHand(p))
  BY <1>1, <1>2 DEF InHand
<1>8. \A p \in Pids : p # g => Stage(p)' = Stage(p)
  BY <1>4, <1>7, StageSame
<1>9. CASE g \notin Pids
  BY <1>5, <1>6, <1>8, <1>9, AbstractStutter
<1>10. CASE g \in Pids
  <2>1. InHand(g)'
    BY <1>2 DEF InHand
  <2>2. CASE Stage(g) = "settled"
    <3>1. Stage(g)' = "doomed"
      BY <1>4, <1>10, <2>1, <2>2 DEF Stage
    <3>2. Stages' = [Stages EXCEPT ![g] = "doomed"]
      BY <1>8, <1>10, <3>1, OneStage
    <3>3. Abstract!Doom(g)
      BY <1>5, <1>6, <1>10, <2>2, <3>2 DEF Abstract!Doom, Stages, Licensed, Phase
    <3> QED
      BY <1>10, <3>3 DEF Abstract!CNext
  <2>3. CASE Stage(g) # "settled"
    <3>1. Stage(g)' = Stage(g)
      BY <1>4, <1>10, <2>1, <2>3 DEF Stage
    <3> QED
      BY <1>5, <1>6, <1>8, <1>10, <3>1, AbstractStutter
  <2> QED
    BY <2>2, <2>3
<1> QED
  BY <1>9, <1>10

\* The kill that ends a sweep's hold on a group ends the group.
LEMMA SweepKillImplements ==
  ASSUME IInv, NEW a \in Actors, SweepKill(a)
  PROVE  [Abstract!CNext]_(Abstract!abstractVars)
<1> USE ContainmentAssumption DEF IInv, TypeOK, Actors, registry, Goto
<1> DEFINE g == hand[a]
<1>1. g \in Pids
  BY DEF SweepKill, Sweeping
<1>2. /\ UNCHANGED <<group, interrupted, dead>>
      /\ KillGroup(g)
      /\ hand' = [hand EXCEPT ![a] = EMPTY]
  BY DEF SweepKill
<1>3. \A u \in Threads : (pc'[u] \in InWindow <=> pc[u] \in InWindow) /\ (pc'[u] = "ready" <=> pc[u] = "ready")
  BY DEF SweepKill, NextSlot, Swept, InWindow
<1>4. \A p \in Pids : p # g => (OwnerInWindow(p)' <=> OwnerInWindow(p)) /\ (InHand(p)' <=> InHand(p))
  BY <1>2, <1>3 DEF OwnerInWindow, InHand
<1>5. Licensed' = Licensed /\ Phase' = Phase
  BY <1>2, <1>3 DEF Licensed, Phase
<1> QED
  BY <1>1, <1>2, <1>4, <1>5, KillEnds

\* A thread that kills its own group, in its window or out of it, ends the group.
LEMMA OwnKillImplements ==
  ASSUME IInv, NEW t \in Threads, group[t] # EMPTY, KillGroup(group[t]),
         UNCHANGED <<group, hand, interrupted, dead>>,
         \A u \in Threads : u # t => pc'[u] = pc[u],
         pc[t] # "ready", pc'[t] # "ready"
  PROVE  [Abstract!CNext]_(Abstract!abstractVars)
<1>1. group[t] \in Pids
  BY DEF IInv, TypeOK
<1>2. \A p \in Pids : p # group[t] => (OwnerInWindow(p)' <=> OwnerInWindow(p)) /\ (InHand(p)' <=> InHand(p))
  BY DEF OwnerInWindow, InHand
<1>3. Licensed' = Licensed /\ Phase' = Phase
  BY DEF Licensed, Phase
<1> QED
  BY <1>1, <1>2, <1>3, KillEnds DEF IInv

\* A thread reaps only what has been killed, so nothing ends with the reap.
LEMMA ReapImplements ==
  ASSUME IInv, NEW t \in Threads, proc[group[t]] = "zombie", WaitFor(t), group[t] # EMPTY,
         UNCHANGED <<hand, interrupted, dead>>,
         \A u \in Threads : u # t => pc'[u] = pc[u],
         pc[t] # "ready", pc'[t] # "ready"
  PROVE  [Abstract!CNext]_(Abstract!abstractVars)
<1> USE ContainmentAssumption DEF IInv, TypeOK
<1>1. PICK g \in Pids : g = group[t]
  OBVIOUS
<1>a. proc' = [proc EXCEPT ![g] = "free"] /\ group' = [group EXCEPT ![t] = EMPTY]
  BY <1>1 DEF WaitFor
<1>2. \A p \in Pids : p # g => (OwnerInWindow(p)' <=> OwnerInWindow(p))
  BY <1>1, <1>a DEF OwnerInWindow
<1>3. \A p \in Pids : p # g => (Alive(p)' <=> Alive(p)) /\ (InHand(p)' <=> InHand(p))
  BY <1>1, <1>a DEF Alive, InHand
<1>4. Stage(g)' = "none"
  BY <1>1, <1>a DEF Stage, Alive, Living
<1>5. Licensed' = Licensed /\ Phase' = Phase
  BY DEF Licensed, Phase
<1>6. \A p \in Pids : p # g => Stage(p)' = Stage(p)
  BY <1>2, <1>3, StageSame
<1> QED
  BY <1>1, <1>4, <1>5, <1>6, AbstractEnd

\* The first signal interrupts the run; a later one changes nothing.
LEMMA DeliverImplements ==
  ASSUME IInv, ~dead, NEW d \in Deliveries, Deliver(d)
  PROVE  [Abstract!CNext]_(Abstract!abstractVars)
<1> USE ContainmentAssumption DEF IInv, TypeOK, Actors, registry, Goto
<1>1. \A p \in Pids : Stage(p)' = Stage(p)
  BY StageSame DEF Deliver, Alive, OwnerInWindow, InHand
<1>2. Licensed' = Licensed
  BY DEF Deliver, Licensed
<1>3. Phase' = "interrupted"
  BY DEF Deliver, Phase
<1>4. CASE interrupted
  BY <1>1, <1>2, <1>3, <1>4, AbstractStutter DEF Phase
<1>5. CASE ~interrupted
  <2>1. Phase = "calm"
    BY <1>5 DEF Phase
  <2>2. Abstract!Interrupt
    BY <1>1, <1>2, <1>3, <2>1 DEF Abstract!Interrupt, Licensed, Phase
  <2> QED
    BY <2>2 DEF Abstract!CNext
<1> QED
  BY <1>4, <1>5

\* The run dies of an interrupt it has announced, with no group settled.
LEMMA DieImplements ==
  ASSUME IInv, ~dead, NEW a \in Actors, Die(a)
  PROVE  [Abstract!CNext]_(Abstract!abstractVars)
<1> USE ContainmentAssumption DEF IInv, TypeOK, registry, locals
<1>1. \A p \in Pids : Stage(p)' = Stage(p)
  BY StageSame DEF Die, Alive, OwnerInWindow, InHand
<1>2. Licensed' = Licensed
  BY DEF Die, Licensed
<1>3. Phase = "interrupted" /\ Phase' = "dead"
  BY DEF Die, Phase, Sweeping
<1>4. \A p \in Pids : Stage(p) # "settled"
  <2> SUFFICES ASSUME NEW p \in Pids, Alive(p), ~OwnerInWindow(p), ~InHand(p)
               PROVE  FALSE
    BY DEF Stage
  <2> QED
    BY DyingSwept DEF Die
<1>5. Abstract!DieOfSignal
  BY <1>1, <1>2, <1>3, <1>4 DEF Abstract!DieOfSignal, Licensed, Phase
<1> QED
  BY <1>5 DEF Abstract!CNext

\* What the kernel does by itself to one pid ends its group or changes no stage.
LEMMA KernelImplements ==
  ASSUME IInv, NEW g \in Pids, Kernel(g)
  PROVE  [Abstract!CNext]_(Abstract!abstractVars)
<1> USE ContainmentAssumption DEF IInv, TypeOK, registry, locals
<1>1. \A p : (OwnerInWindow(p)' <=> OwnerInWindow(p)) /\ (InHand(p)' <=> InHand(p))
  BY DEF Kernel, OwnerInWindow, InHand
<1>2. \A p \in Pids : p # g => (Alive(p)' <=> Alive(p))
  BY DEF Kernel, Fork, LeaderExits, DescendantsExit, ForeignStarts, ForeignExits, Alive
<1>3. Alive(g)' => Alive(g)
  BY DEF Kernel, Fork, LeaderExits, DescendantsExit, ForeignStarts, ForeignExits, Alive, Living
<1>4. \A p \in Pids : p # g => Stage(p)' = Stage(p)
  BY <1>1, <1>2, StageSame
<1>5. Stage(g)' = Stage(g) \/ Stage(g)' = "none"
  BY <1>1, <1>3 DEF Stage
<1>6. Licensed' = Licensed /\ Phase' = Phase
  BY DEF Kernel, Licensed, Phase
<1> QED
  BY <1>4, <1>5, <1>6, AbstractEnd

\* The registry, the windows and the process trees implement the contract of
\* interrupt.rs: no licence once interrupted, and no death with a group settled.
THEOREM KeepsContract == Spec => ImplementsCancellation
<1>1. IInv /\ [Next]_vars => [Abstract!CNext]_(Abstract!abstractVars)
  <2> DEFINE Mapped == [Abstract!CNext]_(Abstract!abstractVars)
  <2> SUFFICES ASSUME IInv, [Next]_vars PROVE Mapped
    OBVIOUS
  <2> USE DEF registry, locals, Goto
  <2>0. \A t \in Threads : pc \in [Actors -> ThreadPC \union HandlerPC] /\ t \in Actors
    BY DEF IInv, TypeOK, Actors
  <2>1. ASSUME ~dead, NEW t \in Threads, Open(t) \/ CheckInterrupted(t) \/ Spawn(t) \/ SpawnFails(t)
        PROVE  Mapped
    <3>1. CASE Open(t)
      <4>1. group[t] = EMPTY
        BY <3>1 DEF Open, IInv, Ownership, Holds, Owning, Leaving
      <4> QED
        BY <2>0, <3>1, <4>1, MoveStutters DEF Open, IInv
    <3> QED
      BY <2>1, <3>1, CheckImplements, SpawnImplements, FailureImplements
  <2>2. ASSUME NEW t \in Threads, TryClaim(t) \/ CheckClaim(t)
        PROVE  Mapped
    <3>1. CASE TryClaim(t)
      BY <2>0, <3>1, MoveStutters DEF TryClaim, InWindow, IInv
    <3>2. CASE CheckClaim(t)
      BY <2>0, <3>2, MoveStutters DEF CheckClaim, Adopted, Leave, InWindow, IInv
    <3> QED
      BY <2>2, <3>1, <3>2
  <2>3. ASSUME NEW t \in Threads, KillClaim(t) \/ Abandon(t) \/ Observe(t) \/ Terminate(t)
        PROVE  Mapped
    <3>1. group[t] # EMPTY
      BY <2>3 DEF KillClaim, Abandon, Observe, Terminate, IInv, Ownership, Holds, Owning
    <3>2. CASE KillClaim(t)
      BY <2>0, <3>1, <3>2, OwnKillImplements DEF KillClaim, Adopted, Leave
    <3>3. CASE Abandon(t)
      BY <2>0, <3>1, <3>3, OwnKillImplements DEF Abandon
    <3>4. CASE Observe(t) \/ Terminate(t)
      BY <2>0, <3>1, <3>4, OwnKillImplements DEF Observe, Terminate, EndTree
    <3> QED
      BY <2>3, <3>2, <3>3, <3>4
  <2>4. ASSUME NEW t \in Threads, ReapAbandoned(t) \/ Reap(t)
        PROVE  Mapped
    <3>1. group[t] # EMPTY /\ proc[group[t]] = "zombie"
      BY <2>4 DEF ReapAbandoned, Reap, IInv, Ownership, Holds, Owning
    <3> QED
      BY <2>0, <2>4, <3>1, ReapImplements DEF ReapAbandoned, Reap, Leave
  <2>5. ASSUME ~dead, NEW t \in Threads, CloseWindow(t)
        PROVE  Mapped
    BY <2>5, CloseImplements
  <2>6. ASSUME NEW t \in Threads, LastOut(t) \/ Release(t)
        PROVE  Mapped
    <3>1. pc[t] \notin InWindow /\ pc'[t] \notin InWindow
      BY <2>0, <2>6 DEF LastOut, Release, InWindow, IInv, TypeOK
    <3> QED
      BY <2>0, <2>6, <3>1, MoveStutters DEF LastOut, Release, InWindow, IInv
  <2>7. ASSUME ~dead, NEW a \in Actors, SweepTake(a) \/ SweepKill(a) \/ Die(a)
        PROVE  Mapped
    BY <2>7, TakeImplements, SweepKillImplements, DieImplements
  <2>8. ASSUME ~dead, NEW d \in Deliveries, Deliver(d)
        PROVE  Mapped
    BY <2>8, DeliverImplements
  <2>9. ASSUME NEW d \in Deliveries, CheckSpawning(d)
        PROVE  Mapped
    <3>1. \A t \in Threads : pc'[t] = pc[t]
      BY <2>9, ContainmentAssumption DEF CheckSpawning, IInv, TypeOK, Actors
    <3>2. Licensed' = Licensed /\ Phase' = Phase
      BY <2>9, <3>1 DEF CheckSpawning, Licensed, Phase
    <3>3. \A p \in Pids : Stage(p)' = Stage(p)
      BY <2>9, <3>1, StageSame DEF CheckSpawning, Alive, OwnerInWindow, InHand
    <3> QED
      BY <3>2, <3>3, AbstractStutter
  <2>10. ASSUME NEW p \in Pids, Kernel(p)
         PROVE  Mapped
    BY <2>10, KernelImplements
  <2>11. CASE UNCHANGED vars
    <3>1. Licensed' = Licensed /\ Phase' = Phase
      BY <2>11 DEF vars, Licensed, Phase
    <3>2. \A p \in Pids : Stage(p)' = Stage(p)
      BY <2>11, StageSame DEF vars, Alive, OwnerInWindow, InHand
    <3> QED
      BY <3>1, <3>2, AbstractStutter
  <2> QED
    BY <2>1, <2>2, <2>3, <2>4, <2>5, <2>6, <2>7, <2>8, <2>9, <2>10, <2>11
       DEF Next, Thread, Proceed, Handler, Handle, Actors
<1> QED
  BY <1>1, InitImplements, Invariance, PTL DEF Spec, ImplementsCancellation, Abstract!CSpec

=============================================================================
