----------------------------- MODULE Containment -----------------------------
(***************************************************************************)
(* How a run keeps hold of the children it spawns, and how an interrupt    *)
(* takes them with it (crates/cargo-gamma-unsafe/src/interrupt.rs and      *)
(* crates/cargo-gamma-process/src/process_tree.rs, on Unix).               *)
(*                                                                         *)
(* Worker threads spawn children, each the leader of a process group of    *)
(* its own, inside a spawn window that starts before the child exists and  *)
(* ends once its group is in the registry.  Signal handlers sweep the      *)
(* registry and end the process, or leave that to the last window out.     *)
(* Every atomic operation of the code on the shared registry, and every    *)
(* system call on a process group, is one step here: SeqCst and AcqRel     *)
(* operations on single atomics are interleaved.                           *)
(*                                                                         *)
(* A handler is an actor of its own.  When it really runs on a worker's    *)
(* thread it suspends that worker, which is one of the interleavings.      *)
(***************************************************************************)
EXTENDS Integers, FiniteSets

CONSTANTS
  Threads,     \* the threads that spawn children
  Deliveries,  \* the terminal signals that will ever reach a handler (bound)
  Pids,        \* the pids the kernel hands out (bound); small enough to reuse
  Capacity,    \* SLOTS: how many groups can be watched at once
  EMPTY        \* the empty slot marker, zero in the code

ASSUME ContainmentAssumption ==
  /\ IsFiniteSet(Threads)
  /\ Threads \intersect Deliveries = {}
  /\ EMPTY \notin Pids
  /\ Capacity \in Nat \ {0}

Actors == Threads \union Deliveries
Slots  == 1..Capacity

VARIABLES
  watched,      \* Registry.watched: the group in each slot, or EMPTY
  spawning,     \* Registry.spawning: how many spawn windows are open
  interrupted,  \* Registry.interrupted # CALM
  proc,         \* the kernel's view of each pid and of the group it leads
  group,        \* the group of the child a thread holds a handle on, or EMPTY
  slot,         \* ProcessTree.slot, 0 for None
  pc,           \* where each thread and each handler is
  then,         \* where a thread goes once its window is closed
  cursor,       \* the slot a scan has reached
  hand,         \* the group a sweep has swapped out and not signalled yet
  dead          \* the process has died of a terminal signal

registry == <<watched, spawning, interrupted>>
locals   == <<group, slot, then, cursor, hand>>
vars     == <<watched, spawning, interrupted, proc, group, slot, pc, then,
              cursor, hand, dead>>

(***************************************************************************)
(* The kernel.  A pid is "free", "foreign" (it leads a group this run did  *)
(* not start), or stands for a group of ours: its leader alone ("leader"), *)
(* leader and descendants ("family"), descendants of a leader that exited  *)
(* unreaped ("remnant"), an unreaped leader alone ("zombie"), descendants  *)
(* of a leader that has been reaped ("leaked").                            *)
(***************************************************************************)
Pinned == {"leader", "family", "remnant", "zombie"}
Living == {"leader", "family", "remnant", "leaked"}

Alive(p) == proc[p] \in Living

Slain(status) ==
  IF status \in {"leaked", "foreign"} THEN "free"
  ELSE IF status \in {"leader", "family", "remnant"} THEN "zombie"
  ELSE status

KillGroup(g) == proc' = [proc EXCEPT ![g] = Slain(@)]

\* A descendant is forked; the leader exits; the descendants exit.
Fork(p) ==
  /\ proc[p] = "leader"
  /\ proc' = [proc EXCEPT ![p] = "family"]

LeaderExits(p) ==
  /\ proc[p] \in {"leader", "family"}
  /\ proc' = [proc EXCEPT ![p] = IF @ = "leader" THEN "zombie" ELSE "remnant"]

DescendantsExit(p) ==
  /\ proc[p] \in {"family", "remnant", "leaked"}
  /\ proc' = [proc EXCEPT ![p] = IF @ = "family" THEN "leader"
                                 ELSE IF @ = "remnant" THEN "zombie"
                                 ELSE "free"]

\* The kernel gives a free pid to a process this run has nothing to do with.
ForeignStarts(p) ==
  /\ proc[p] = "free"
  /\ proc' = [proc EXCEPT ![p] = "foreign"]

ForeignExits(p) ==
  /\ proc[p] = "foreign"
  /\ proc' = [proc EXCEPT ![p] = "free"]

Kernel(p) ==
  /\ \/ Fork(p) \/ LeaderExits(p) \/ DescendantsExit(p)
     \/ ForeignStarts(p) \/ ForeignExits(p)
  /\ UNCHANGED <<registry, locals, pc, dead>>

-----------------------------------------------------------------------------
Goto(a, label) == pc' = [pc EXCEPT ![a] = label]

InWindow == {"opened", "ready", "claiming", "claimed", "killclaim",
             "abandon", "reapabandoned", "close"}

\* Leaving a spawn: the window is closed next, and then the thread goes on.
Leave(t, next) ==
  /\ Goto(t, "close")
  /\ then' = [then EXCEPT ![t] = next]

(***************************************************************************)
(* prepare and window: open the window, then look for an interrupt.  A     *)
(* thread that is refused reports the run as unmeterable, which abandons   *)
(* it, so it opens no further window.                                      *)
(***************************************************************************)
Open(t) ==
  /\ pc[t] = "idle"
  /\ spawning' = spawning + 1
  /\ Goto(t, "opened")
  /\ UNCHANGED <<watched, interrupted, proc, locals, dead>>

\* Mutant of CheckInterrupted: the spawner's half of the handshake is dropped.
HeedlessCheck(t) ==
  /\ pc[t] = "opened"
  /\ Goto(t, "ready")
  /\ UNCHANGED <<registry, proc, locals, dead>>

CheckInterrupted(t) ==
  /\ pc[t] = "opened"
  /\ IF interrupted THEN Leave(t, "stopped")
                    ELSE Goto(t, "ready") /\ UNCHANGED then
  /\ UNCHANGED <<registry, proc, group, slot, cursor, hand, dead>>

\* Command::spawn with process_group(0): the child leads a group of its own.
Spawn(t) ==
  /\ pc[t] = "ready"
  /\ \E p \in Pids :
       /\ proc[p] = "free"
       /\ proc' = [proc EXCEPT ![p] = "leader"]
       /\ group' = [group EXCEPT ![t] = p]
  /\ cursor' = [cursor EXCEPT ![t] = 1]
  /\ Goto(t, "claiming")
  /\ UNCHANGED <<registry, slot, then, hand, dead>>

\* The spawn fails: for good, or for a back-off that reopens the window.
SpawnFails(t) ==
  /\ pc[t] = "ready"
  /\ Leave(t, "idle")
  /\ UNCHANGED <<registry, proc, group, slot, cursor, hand, dead>>

(***************************************************************************)
(* adopt: claim the first empty slot, kill the group if an interrupt has   *)
(* begun, refuse and end a child that got no slot.                         *)
(***************************************************************************)
TryClaim(t) ==
  /\ pc[t] = "claiming"
  /\ \/ /\ watched[cursor[t]] = EMPTY
        /\ watched' = [watched EXCEPT ![cursor[t]] = group[t]]
        /\ slot' = [slot EXCEPT ![t] = cursor[t]]
        /\ Goto(t, "claimed")
        /\ UNCHANGED cursor
     \/ /\ watched[cursor[t]] # EMPTY
        /\ IF cursor[t] < Capacity
           THEN cursor' = [cursor EXCEPT ![t] = @ + 1] /\ UNCHANGED pc
           ELSE Goto(t, "claimed") /\ UNCHANGED cursor
        /\ UNCHANGED <<watched, slot>>
  /\ UNCHANGED <<spawning, interrupted, proc, group, then, hand, dead>>

\* Mutant of Adopted: the None of a full registry is stored, not acted on.
AdoptedAnyway(t) == Leave(t, "running")

Adopted(t) == IF slot[t] = 0 THEN Goto(t, "abandon") /\ UNCHANGED then
                             ELSE Leave(t, "running")

CheckClaim(t) ==
  /\ pc[t] = "claimed"
  /\ IF interrupted THEN Goto(t, "killclaim") /\ UNCHANGED then
                    ELSE Adopted(t)
  /\ UNCHANGED <<registry, proc, group, slot, cursor, hand, dead>>

KillClaim(t) ==
  /\ pc[t] = "killclaim"
  /\ KillGroup(group[t])
  /\ Adopted(t)
  /\ UNCHANGED <<registry, group, slot, cursor, hand, dead>>

Abandon(t) ==
  /\ pc[t] = "abandon"
  /\ KillGroup(group[t])
  /\ Goto(t, "reapabandoned")
  /\ UNCHANGED <<registry, locals, dead>>

\* Child::wait: the pid is free again once its leader has been reaped.
WaitFor(t) ==
  /\ proc[group[t]] \in {"zombie", "remnant"}
  /\ proc' = [proc EXCEPT ![group[t]] = IF @ = "zombie" THEN "free" ELSE "leaked"]
  /\ group' = [group EXCEPT ![t] = EMPTY]

ReapAbandoned(t) ==
  /\ pc[t] = "reapabandoned"
  /\ WaitFor(t)
  /\ Leave(t, "idle")
  /\ UNCHANGED <<registry, slot, cursor, hand, dead>>

(***************************************************************************)
(* Registry::close: one window fewer; whether this was the last is settled *)
(* by the decrement, whether the run was interrupted by a load after it.   *)
(***************************************************************************)
CloseWindow(t) ==
  /\ pc[t] = "close"
  /\ spawning' = spawning - 1
  /\ Goto(t, IF spawning = 1 THEN "closing" ELSE then[t])
  /\ UNCHANGED <<watched, interrupted, proc, locals, dead>>

\* Mutant of LastOut: the last window out leaves the death to the handler.
LastOutForgets(t) ==
  /\ pc[t] = "closing"
  /\ Goto(t, then[t])
  /\ UNCHANGED <<registry, proc, locals, dead>>

\* Mutant of LastOut: it dies without sweeping first.
LastOutDies(t) ==
  /\ pc[t] = "closing"
  /\ Goto(t, IF interrupted THEN "dying" ELSE then[t])
  /\ UNCHANGED <<registry, proc, locals, dead>>

LastOut(t) ==
  /\ pc[t] = "closing"
  /\ IF interrupted
     THEN Goto(t, "sweep") /\ cursor' = [cursor EXCEPT ![t] = 1]
     ELSE Goto(t, then[t]) /\ UNCHANGED cursor
  /\ UNCHANGED <<registry, proc, group, slot, then, hand, dead>>

(***************************************************************************)
(* observe, terminate and Drop: signal the group, release its slot if the  *)
(* group is still in it, and only then reap the leader.                    *)
(***************************************************************************)
EndTree(t) ==
  /\ KillGroup(group[t])
  /\ Goto(t, "ended")
  /\ UNCHANGED <<registry, locals, dead>>

\* Mutant of Observe: an exited leader's group is not swept.
ObserveLeaderOnly(t) ==
  /\ pc[t] = "running"
  /\ proc[group[t]] \in {"zombie", "remnant"}
  /\ Goto(t, "ended")
  /\ UNCHANGED <<registry, proc, locals, dead>>

Observe(t) ==
  /\ pc[t] = "running"
  /\ proc[group[t]] \in {"zombie", "remnant"}
  /\ EndTree(t)

Terminate(t) ==
  /\ pc[t] = "running"
  /\ EndTree(t)

\* Mutant of Release: the slot is kept until after the reap.
ReleaseLate(t) ==
  /\ pc[t] = "ended"
  /\ slot' = [slot EXCEPT ![t] = 0]
  /\ Goto(t, "reaping")
  /\ UNCHANGED <<registry, proc, group, then, cursor, hand, dead>>

\* Mutant of Release: whatever the slot holds is cleared.
ReleaseBlindly(t) ==
  /\ pc[t] = "ended"
  /\ watched' = [watched EXCEPT ![slot[t]] = EMPTY]
  /\ slot' = [slot EXCEPT ![t] = 0]
  /\ Goto(t, "reaping")
  /\ UNCHANGED <<spawning, interrupted, proc, group, then, cursor, hand, dead>>

Release(t) ==
  /\ pc[t] = "ended"
  /\ watched' = [watched EXCEPT ![slot[t]] = IF @ = group[t] THEN EMPTY ELSE @]
  /\ slot' = [slot EXCEPT ![t] = 0]
  /\ Goto(t, "reaping")
  /\ UNCHANGED <<spawning, interrupted, proc, group, then, cursor, hand, dead>>

Reap(t) ==
  /\ pc[t] = "reaping"
  /\ WaitFor(t)
  /\ Goto(t, "idle")
  /\ UNCHANGED <<registry, slot, then, cursor, hand, dead>>

(***************************************************************************)
(* Registry::sweep, run by a handler and by the last window out: swap each *)
(* slot for EMPTY and kill what was in it.                                 *)
(***************************************************************************)
Swept(a) == IF a \in Threads THEN "dying" ELSE "swept"

NextSlot(a) ==
  IF cursor[a] < Capacity
  THEN cursor' = [cursor EXCEPT ![a] = @ + 1] /\ Goto(a, "sweep")
  ELSE UNCHANGED cursor /\ Goto(a, Swept(a))

SweepTake(a) ==
  /\ pc[a] = "sweep"
  /\ watched' = [watched EXCEPT ![cursor[a]] = EMPTY]
  /\ hand' = [hand EXCEPT ![a] = watched[cursor[a]]]
  /\ IF watched[cursor[a]] = EMPTY
     THEN NextSlot(a)
     ELSE Goto(a, "sweepkill") /\ UNCHANGED cursor
  /\ UNCHANGED <<spawning, interrupted, proc, group, slot, then, dead>>

SweepKill(a) ==
  /\ pc[a] = "sweepkill"
  /\ KillGroup(hand[a])
  /\ hand' = [hand EXCEPT ![a] = EMPTY]
  /\ NextSlot(a)
  /\ UNCHANGED <<registry, group, slot, then, dead>>

(***************************************************************************)
(* Registry::interrupt: announce, sweep, then die unless a window is open. *)
(***************************************************************************)
Deliver(d) ==
  /\ pc[d] = "pending"
  /\ interrupted' = TRUE
  /\ cursor' = [cursor EXCEPT ![d] = 1]
  /\ Goto(d, "sweep")
  /\ UNCHANGED <<watched, spawning, proc, group, slot, then, hand, dead>>

CheckSpawning(d) ==
  /\ pc[d] = "swept"
  /\ Goto(d, IF spawning = 0 THEN "dying" ELSE "done")
  /\ UNCHANGED <<registry, proc, locals, dead>>

\* die: the default disposition takes the process.
Die(a) ==
  /\ pc[a] = "dying"
  /\ dead' = TRUE
  /\ UNCHANGED <<registry, proc, locals, pc>>

-----------------------------------------------------------------------------
Init ==
  /\ watched = [s \in Slots |-> EMPTY]
  /\ spawning = 0
  /\ interrupted = FALSE
  /\ proc = [p \in Pids |-> "free"]
  /\ group = [t \in Threads |-> EMPTY]
  /\ slot = [t \in Threads |-> 0]
  /\ pc = [a \in Actors |-> IF a \in Threads THEN "idle" ELSE "pending"]
  /\ then = [t \in Threads |-> "idle"]
  /\ cursor = [a \in Actors |-> 1]
  /\ hand = [a \in Actors |-> EMPTY]
  /\ dead = FALSE

\* What a thread does without being asked: everything but starting a child
\* and deciding to end one.
Proceed(t) ==
  \/ CheckInterrupted(t) \/ Spawn(t) \/ SpawnFails(t)
  \/ TryClaim(t) \/ CheckClaim(t) \/ KillClaim(t)
  \/ Abandon(t) \/ ReapAbandoned(t)
  \/ CloseWindow(t) \/ LastOut(t)
  \/ Release(t) \/ Reap(t)
  \/ SweepTake(t) \/ SweepKill(t) \/ Die(t)

Thread(t)  == Open(t) \/ Observe(t) \/ Terminate(t) \/ Proceed(t)

Handle(d)  == SweepTake(d) \/ SweepKill(d) \/ CheckSpawning(d) \/ Die(d)
Handler(d) == Deliver(d) \/ Handle(d)

\* A process that has died takes no further step; only the kernel goes on.
Next ==
  \/ /\ ~dead
     /\ \/ \E t \in Threads : Thread(t)
        \/ \E d \in Deliveries : Handler(d)
  \/ \E p \in Pids : Kernel(p)

Spec == Init /\ [][Next]_vars

\* A thread inside the protocol, and a handler once entered, are scheduled:
\* nothing in either blocks, but Child::wait on a child that was killed.
Fairness ==
  /\ \A t \in Threads : WF_vars(~dead /\ Proceed(t))
  /\ \A d \in Deliveries : WF_vars(~dead /\ Handle(d))

FairSpec == Spec /\ Fairness

-----------------------------------------------------------------------------
ThreadPC == InWindow \union {"idle", "closing", "sweep", "sweepkill", "dying",
                             "running", "ended", "reaping", "stopped"}
HandlerPC == {"pending", "sweep", "sweepkill", "swept", "dying", "done"}

\* Every variable stays within its type.
TypeOK ==
  /\ watched \in [Slots -> Pids \union {EMPTY}]
  /\ spawning \in Int
  /\ interrupted \in BOOLEAN
  /\ proc \in [Pids -> Pinned \union {"leaked", "foreign", "free"}]
  /\ group \in [Threads -> Pids \union {EMPTY}]
  /\ slot \in [Threads -> 0..Capacity]
  /\ pc \in [Actors -> ThreadPC \union HandlerPC]
  /\ \A t \in Threads : pc[t] \in ThreadPC
  /\ \A d \in Deliveries : pc[d] \in HandlerPC
  /\ then \in [Threads -> {"idle", "running", "stopped"}]
  /\ cursor \in [Actors -> Slots]
  /\ hand \in [Actors -> Pids \union {EMPTY}]
  /\ dead \in BOOLEAN

InHand(p)     == \E a \in Actors : hand[a] = p
Registered(p) == \E s \in Slots : watched[s] = p
OwnerInWindow(p) == \E t \in Threads : group[t] = p /\ pc[t] \in InWindow

\* A numeric id in the registry is pinned: an unreaped leader of this run still
\* holds it, so a sweep that reads the slot now cannot name a group that reused
\* the id (process_tree.rs, release before reap).
WatchedIsPinned ==
  \A s \in Slots : watched[s] # EMPTY =>
    /\ proc[watched[s]] \in Pinned
    /\ \E t \in Threads : group[t] = watched[s]

\* No descendant outlives the reap of its leader, on any way out of a child:
\* observed, terminated, or abandoned because the registry was full.
NothingLeaks == \A p \in Pids : proc[p] # "leaked"

\* A living child whose window has closed, so that an interrupt may end the
\* process without its owner, is in the registry or in the hand of a sweep.
RunningIsReachable ==
  \A t \in Threads :
    (group[t] # EMPTY /\ pc[t] \notin InWindow /\ Alive(group[t]))
      => Registered(group[t]) \/ InHand(group[t])

\* A handler that decides to end the process found no window open: every group
\* of the run still alive is one a sweep is about to kill, and no thread will
\* create another.
HandlerDiesLast ==
  \A d \in Deliveries : pc[d] = "dying" =>
    /\ \A p \in Pids : Alive(p) => InHand(p)
    /\ \A t \in Threads : pc[t] # "ready"

\* However the process dies, a child that outlives it is in the hand of a sweep
\* or still inside its spawn window: one that was handed over is never missed.
SettledNeverOrphaned ==
  dead => \A p \in Pids : Alive(p) => InHand(p) \/ OwnerInWindow(p)

\* A child keeps its registration until its own thread releases it, or a sweep
\* takes it in hand to kill it; nobody else's release or claim can remove it.
RegistrationKept ==
  [][\A t \in Threads :
       (slot[t] # 0 /\ pc[t] # "ended" /\ Registered(group[t]))
         => Registered(group[t])' \/ InHand(group[t])']_vars

\* An interrupt is never lost: when a handler has begun, the process dies of the
\* signal, in the handler or in the last window out.
InterruptEndsRun == interrupted ~> dead

-----------------------------------------------------------------------------
(***************************************************************************)
(* The refinement mapping to Cancellation.                                 *)
(***************************************************************************)
Stage(p) == IF ~Alive(p) THEN "none"
            ELSE IF OwnerInWindow(p) THEN "fresh"
            ELSE IF InHand(p) THEN "doomed"
            ELSE "settled"

Abstract == INSTANCE Cancellation WITH
  Groups   <- Pids,
  Spawners <- Threads,
  stage    <- [p \in Pids |-> Stage(p)],
  licensed <- {t \in Threads : pc[t] = "ready"},
  phase    <- IF dead THEN "dead" ELSE IF interrupted THEN "interrupted" ELSE "calm"

\* The registry, the windows and the process trees implement Cancellation: an
\* interrupted run grants no spawner a licence, and dies with no group settled.
ImplementsCancellation == Abstract!CSpec

-----------------------------------------------------------------------------
(***************************************************************************)
(* The inductive invariant behind the safety properties, part by part.     *)
(***************************************************************************)

\* The labels at which a thread holds a child, and those at which the child it
\* holds is the one it is about to run.
Owning  == {"claiming", "claimed", "killclaim", "abandon", "reapabandoned",
            "running", "ended", "reaping"}
Leaving == {"close", "closing", "sweep", "sweepkill", "dying"}

Holds(t) == pc[t] \in Owning \/ (pc[t] \in Leaving /\ then[t] = "running")

\* Threads hold distinct groups, every pinned group is held, and what is about
\* to be reaped has been killed.
Ownership ==
  /\ \A t \in Threads : (group[t] # EMPTY) <=> Holds(t)
  /\ \A t, u \in Threads : group[t] = group[u] /\ group[t] # EMPTY => t = u
  /\ \A t \in Threads : group[t] # EMPTY => proc[group[t]] \in Pinned
  /\ \A p \in Pids : proc[p] \in Pinned => \E t \in Threads : group[t] = p
  /\ \A t \in Threads : pc[t] \in {"ended", "reaping", "reapabandoned"}
                          => proc[group[t]] = "zombie"

\* A thread has a slot exactly while it runs an adopted child, and a group is in
\* no slot but its owner's.
SlotDiscipline ==
  /\ \A t \in Threads : slot[t] # 0 =>
       Holds(t) /\ pc[t] \notin {"claiming", "abandon", "reapabandoned", "reaping"}
  /\ \A t \in Threads :
       (pc[t] \in {"running", "ended"} \/ (pc[t] \in Leaving /\ then[t] = "running"))
         => slot[t] # 0
  /\ \A s \in Slots : watched[s] # EMPTY =>
       \E t \in Threads : group[t] = watched[s] /\ slot[t] = s

\* An adopted child that lives is in its slot or in the hand of a sweep.
Reach ==
  \A t \in Threads : (slot[t] # 0 /\ pc[t] # "ended" /\ Alive(group[t]))
    => watched[slot[t]] = group[t] \/ InHand(group[t])

\* Only an interrupted run sweeps, with a group in hand between swap and kill.
Sweeping ==
  /\ \A a \in Actors : (hand[a] # EMPTY) <=> (pc[a] = "sweepkill")
  /\ \A a \in Actors : pc[a] \in {"sweep", "sweepkill", "swept", "dying"} => interrupted
  /\ dead => \E a \in Actors : pc[a] = "dying"

Passed(a, s) ==
  \/ pc[a] = "sweep" /\ s < cursor[a]
  \/ pc[a] = "sweepkill" /\ s <= cursor[a]
  \/ pc[a] \in {"swept", "dying"}

\* Behind a sweep's cursor the only living groups are those whose claim has yet
\* to look for the interrupt, and will then kill them.
SweepDone ==
  \A a \in Actors, s \in Slots :
    (Passed(a, s) /\ watched[s] # EMPTY /\ Alive(watched[s])) =>
      \E t \in Threads : group[t] = watched[s] /\ pc[t] \in {"claimed", "killclaim"}

WindowCount == spawning = Cardinality({t \in Threads : pc[t] \in InWindow})

\* Once a handler has decided to die, a window is only ever opened to be refused.
HandlerAlone ==
  \A d \in Deliveries : pc[d] = "dying" =>
    \A t \in Threads : pc[t] \in InWindow =>
      pc[t] = "opened" \/ (pc[t] = "close" /\ then[t] = "stopped")

\* The safety properties follow from this state predicate, which every step keeps.
IInv == TypeOK /\ Ownership /\ NothingLeaks /\ SlotDiscipline /\ Reach
          /\ Sweeping /\ SweepDone /\ WindowCount /\ HandlerAlone
=============================================================================
