------------------------------- MODULE Leaves -------------------------------
(***************************************************************************)
(* The cgroup leaves one invocation of a test runs in, and the reaper that *)
(* removes those a stray process kept alive (cargo-gamma-unsafe/cgroup.rs).*)
(*                                                                         *)
(* Several cargo-gamma processes share one delegated cgroup directory.     *)
(* Each makes leaves in it, moves a child into each, and removes the leaf  *)
(* when the child was waited for; a leaf that still holds a process cannot *)
(* be removed, and is left to the process's one background reaper.  A      *)
(* process that starts also removes what dead processes left behind.  A    *)
(* name says who made the leaf by pid and start time, because the kernel   *)
(* reuses pids: a member of Procs is one incarnation.                      *)
(*                                                                         *)
(* The kernel (which leaf holds a process, that rmdir refuses one that     *)
(* does) is modelled from how the code relies on it.                       *)
(***************************************************************************)
EXTENDS Naturals

CONSTANTS Procs,      \* the incarnations of cargo-gamma
          Leaf,       \* the leaves they may make, a name being used once
          OwnerOf,    \* the incarnation in a leaf's name
          PidOf,      \* the pid an incarnation runs under
          Sees,       \* the incarnations whose /proc entry one can read
          None

ASSUME LeavesAssumption ==
  /\ OwnerOf \in [Leaf -> Procs]
  /\ PidOf \in [Procs -> Nat]
  /\ Sees \in [Procs -> SUBSET Procs]
  /\ None \notin Leaf

VARIABLES life,       \* each incarnation: "unborn", "alive" or "dead"
          dirs,       \* the leaves that exist
          held,       \* those of them that hold a process
          stage,      \* how far the invocation of each leaf is
          creating,   \* the leaf made by whoever holds the reaper's mutex
          active,     \* Reaper.active
          pending,    \* Reaper.pending
          generation, \* Reaper.generation
          running,    \* REAPER_RUNNING
          scan,       \* the scan under way, in discover or in the reaper
          stale       \* the dead processes' leaves that discover found

reaperVars == <<creating, active, pending, generation, running>>
vars == <<life, dirs, held, stage, reaperVars, scan, stale>>

Owner(l) == OwnerOf[l]

Stages == {"none", "made", "ready", "joined", "dropping", "removed", "stuck",
           "done", "abandoned"}
Scans == [by : {"discover", "reaper"}, listed : SUBSET Leaf, seen : SUBSET Leaf,
          at : Leaf \union {None}, pending : BOOLEAN, generation : Nat]

TypeOK ==
  /\ life \in [Procs -> {"unborn", "alive", "dead"}]
  /\ dirs \in SUBSET Leaf /\ held \in SUBSET Leaf
  /\ stage \in [Leaf -> Stages]
  /\ creating \in [Procs -> Leaf \union {None}]
  /\ active \in [Procs -> SUBSET Leaf]
  /\ pending \in [Procs -> BOOLEAN] /\ running \in [Procs -> BOOLEAN]
  /\ generation \in [Procs -> Nat]
  /\ scan \in [Procs -> Scans \union {None}]
  /\ stale \in [Procs -> SUBSET Leaf]

Alive(p) == life[p] = "alive"
Discovered(p) == Alive(p) /\ ~(scan[p] # None /\ scan[p].by = "discover")

\* ensure_reaper: the thread starts unless it runs already; it may fail to.
EnsureReaper(p) == \E started \in BOOLEAN : running' = [running EXCEPT ![p] = @ \/ started]

-----------------------------------------------------------------------------
(* A scan: reap_owned_leaves, called by discover and by the reaper.         *)

Listing(p, who) ==
  [by |-> who, listed |-> dirs, seen |-> {}, at |-> None, pending |-> FALSE,
   generation |-> generation[p]]

\* The process starts: root() discovers the directory before any leaf is made.
Start(p) ==
  /\ life[p] = "unborn" /\ \A q \in Procs : Alive(q) => PidOf[q] # PidOf[p]
  /\ life' = [life EXCEPT ![p] = "alive"]
  /\ scan' = [scan EXCEPT ![p] = Listing(p, "discover")]
  /\ stale' = [stale EXCEPT ![p] = {l \in dirs : life[Owner(l)] = "dead"}]
  /\ UNCHANGED <<dirs, held, stage, reaperVars>>

\* reaper_loop finds work.
Wake(p) ==
  /\ Alive(p) /\ running[p] /\ scan[p] = None
  /\ pending[p] /\ creating[p] = None
  /\ scan' = [scan EXCEPT ![p] = Listing(p, "reaper")]
  /\ UNCHANGED <<life, dirs, held, stage, reaperVars, stale>>

\* Mutated: a process with the pid is taken for the creator.
OwnerIsLiveByPid(p, q) == \E r \in Sees[p] : Alive(r) /\ PidOf[r] = PidOf[q]

\* /proc/<pid>/stat of the creator is there, with the creator's start time.
OwnerIsLive(p, q) == Alive(q) /\ q \in Sees[p]

\* One entry of the directory: another live process's, in use, or to be removed.
Look(p, l) ==
  /\ Alive(p) /\ scan[p] # None /\ scan[p].at = None
  /\ l \in (scan[p].listed \union dirs) \ scan[p].seen
  /\ \/ /\ Owner(l) # p /\ OwnerIsLive(p, Owner(l))
        /\ scan' = [scan EXCEPT ![p].seen = @ \union {l}]
     \/ /\ ~(Owner(l) # p /\ OwnerIsLive(p, Owner(l)))
        /\ creating[p] = None
        /\ scan' = [scan EXCEPT ![p].seen = @ \union {l},
                                ![p].at = IF l \in active[p] THEN None ELSE l]
  /\ UNCHANGED <<life, dirs, held, stage, reaperVars, stale>>

\* rmdir, which refuses a leaf that holds a process or is gone.
Remove(p) ==
  /\ Alive(p) /\ scan[p] # None /\ scan[p].at # None
  /\ dirs' = dirs \ ({scan[p].at} \ held)
  /\ scan' = [scan EXCEPT ![p].at = None,
                          ![p].pending = IF scan[p].at \in dirs \ held THEN @ ELSE TRUE]
  /\ UNCHANGED <<life, held, stage, reaperVars, stale>>

AtEnd(p) ==
  /\ Alive(p) /\ scan[p] # None /\ scan[p].at = None
  /\ scan[p].listed \subseteq scan[p].seen

\* discover ends: what is left is handed to the reaper.
Discover(p) ==
  /\ AtEnd(p) /\ scan[p].by = "discover"
  /\ pending' = [pending EXCEPT ![p] = scan[p].pending]
  /\ IF scan[p].pending
       THEN generation' = [generation EXCEPT ![p] = @ + 1] /\ EnsureReaper(p)
       ELSE UNCHANGED <<generation, running>>
  /\ scan' = [scan EXCEPT ![p] = None]
  /\ UNCHANGED <<life, dirs, held, stage, creating, active, stale>>

\* Mutated: a clean scan clears a request made while it ran.
BelieveBlindly(p) == pending' = [pending EXCEPT ![p] = scan[p].pending]

\* The reaper believes its scan only if nothing was requested meanwhile.
Believe(p) ==
  pending' = IF generation[p] = scan[p].generation
               THEN [pending EXCEPT ![p] = scan[p].pending]
               ELSE pending

Reaped(p) ==
  /\ AtEnd(p) /\ scan[p].by = "reaper" /\ creating[p] = None
  /\ Believe(p)
  /\ scan' = [scan EXCEPT ![p] = None]
  /\ UNCHANGED <<life, dirs, held, stage, creating, active, generation, running, stale>>

-----------------------------------------------------------------------------
(* An invocation: Cgroup::create, arm, and the drop of the leaf.            *)

Step(l, from, to) ==
  /\ Alive(Owner(l)) /\ stage[l] \in from
  /\ stage' = [stage EXCEPT ![l] = to]

\* Mutated: the mutex is let go before the leaf is registered.
HoldNot(l) == UNCHANGED creating

\* The mutex is held from before the leaf exists until it is registered.
Hold(l) == creating' = [creating EXCEPT ![Owner(l)] = l]

MakeLeaf(l) ==
  /\ Step(l, {"none"}, "made")
  /\ Discovered(Owner(l)) /\ creating[Owner(l)] = None
  /\ dirs' = dirs \union {l}
  /\ Hold(l)
  /\ UNCHANGED <<life, held, active, pending, generation, running, scan, stale>>

Register(l) ==
  /\ Step(l, {"made"}, "ready")
  /\ creating' = [creating EXCEPT ![Owner(l)] = None]
  /\ active' = [active EXCEPT ![Owner(l)] = @ \union {l}]
  /\ IF pending[Owner(l)] THEN EnsureReaper(Owner(l)) ELSE UNCHANGED running
  /\ UNCHANGED <<life, dirs, held, pending, generation, scan, stale>>

\* The ceiling could not be installed: the untracked leaf is dropped at once.
ConfigureFails(l) ==
  /\ Step(l, {"made"}, "done")
  /\ creating' = [creating EXCEPT ![Owner(l)] = None]
  /\ dirs' = dirs \ {l}
  /\ UNCHANGED <<life, held, active, pending, generation, running, scan, stale>>

\* The child moves itself into its leaf, between fork and exec.
Join(l) ==
  /\ Step(l, {"ready"}, "joined")
  /\ l \in dirs
  /\ held' = held \union {l}
  /\ UNCHANGED <<life, dirs, reaperVars, scan, stale>>

\* The invocation ends, or never got a child; the leaf may hold a stray.
Drop(l) ==
  /\ Step(l, {"ready", "joined"}, "dropping")
  /\ UNCHANGED <<life, dirs, held, reaperVars, scan, stale>>

\* remove_with_retry: it removes an empty leaf, and gives up on a held one.
RemoveOwn(l) ==
  /\ Step(l, {"dropping"}, "removed")
  /\ l \in dirs \ held
  /\ dirs' = dirs \ {l}
  /\ UNCHANGED <<life, held, reaperVars, scan, stale>>

GiveUp(l) ==
  /\ Step(l, {"dropping"}, "stuck")
  /\ l \notin dirs \ held
  /\ UNCHANGED <<life, dirs, held, reaperVars, scan, stale>>

Unregister(l) ==
  /\ Step(l, {"removed"}, "done")
  /\ creating[Owner(l)] = None
  /\ active' = [active EXCEPT ![Owner(l)] = @ \ {l}]
  /\ UNCHANGED <<life, dirs, held, creating, pending, generation, running, scan, stale>>

Abandon(l) ==
  /\ Step(l, {"stuck"}, "abandoned")
  /\ creating[Owner(l)] = None
  /\ active' = [active EXCEPT ![Owner(l)] = @ \ {l}]
  /\ pending' = [pending EXCEPT ![Owner(l)] = TRUE]
  /\ generation' = [generation EXCEPT ![Owner(l)] = @ + 1]
  /\ EnsureReaper(Owner(l))
  /\ UNCHANGED <<life, dirs, held, creating, scan, stale>>

-----------------------------------------------------------------------------
(* The environment.                                                         *)

\* The last process in a leaf exits.
Empty(l) ==
  /\ l \in held /\ held' = held \ {l}
  /\ UNCHANGED <<life, dirs, stage, reaperVars, scan, stale>>

\* A cargo-gamma ends or is killed; what it left in its leaves lives on.
Die(p) ==
  /\ Alive(p)
  /\ life' = [life EXCEPT ![p] = "dead"]
  /\ scan' = [scan EXCEPT ![p] = None]
  /\ creating' = [creating EXCEPT ![p] = None]
  /\ active' = [active EXCEPT ![p] = {}]
  /\ pending' = [pending EXCEPT ![p] = FALSE]
  /\ generation' = [generation EXCEPT ![p] = 0]
  /\ running' = [running EXCEPT ![p] = FALSE]
  /\ stage' = [l \in Leaf |-> IF Owner(l) = p THEN "done" ELSE stage[l]]
  /\ stale' = [stale EXCEPT ![p] = {}]
  /\ UNCHANGED <<dirs, held>>

Init ==
  /\ life = [p \in Procs |-> "unborn"] /\ dirs = {} /\ held = {}
  /\ stage = [l \in Leaf |-> "none"]
  /\ creating = [p \in Procs |-> None] /\ active = [p \in Procs |-> {}]
  /\ pending = [p \in Procs |-> FALSE] /\ running = [p \in Procs |-> FALSE]
  /\ generation = [p \in Procs |-> 0]
  /\ scan = [p \in Procs |-> None] /\ stale = [p \in Procs |-> {}]

Scanning(p) ==
  Wake(p) \/ Remove(p) \/ Discover(p) \/ Reaped(p) \/ \E l \in Leaf : Look(p, l)

Creating(p) == \E l \in Leaf : Owner(l) = p /\ (Register(l) \/ ConfigureFails(l))

Next ==
  \/ \E p \in Procs : Start(p) \/ Scanning(p) \/ Creating(p) \/ Die(p)
  \/ \E l \in Leaf : \/ MakeLeaf(l) \/ Join(l) \/ Drop(l) \/ RemoveOwn(l)
                     \/ GiveUp(l) \/ Unregister(l) \/ Abandon(l) \/ Empty(l)

\* The reaper's thread runs on, and the mutex is not held forever; neither the
\* processes in the leaves nor cargo-gamma itself need ever end.
Spec ==
  /\ Init /\ [][Next]_vars
  /\ \A p \in Procs : WF_vars(Scanning(p)) /\ WF_vars(Creating(p))

-----------------------------------------------------------------------------
\* A leaf whose invocation is under way stands: neither this process's reaper,
\* nor another process that starts, removes it in the moment between its
\* creation and its child's arrival (cgroup.rs create, reap_owned_leaves).
LiveLeafStands ==
  \A l \in Leaf : stage[l] \in {"made", "ready", "joined"} => l \in dirs

\* A leaf given up on is removed once its last process is gone, even when it
\* was given up during a scan that had passed it, as long as its process and
\* the reaper's thread live (cgroup.rs drop, reaper_loop).
AbandonedIsReaped ==
  \A l \in Leaf :
    (stage[l] = "abandoned" /\ l \notin held /\ running[Owner(l)])
      ~> (l \notin dirs \/ ~Alive(Owner(l)))

\* A leaf of a dead process that a running one found when it started.
Owed(l) ==
  /\ l \in dirs \ held
  /\ \E p \in Procs : Alive(p) /\ l \in stale[p] /\ (pending[p] => running[p])

\* What a dead process left is removed by the next one to start, whoever now
\* has its pid, once it is empty and if the reaper's thread starts
\* (cgroup.rs discover, owner_is_live).
StaleIsReaped == \A l \in Leaf : Owed(l) ~> ~Owed(l)
=============================================================================
