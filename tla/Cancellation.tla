---------------------------- MODULE Cancellation ----------------------------
(***************************************************************************)
(* What an interrupted run promises about the process groups it starts,    *)
(* with no registry, no windows and no threads: the contract of            *)
(* crates/cargo-gamma-unsafe/src/interrupt.rs and of the process trees     *)
(* built on it, as far as the code keeps it.                               *)
(*                                                                         *)
(* A group is fresh from its creation until its spawner lets go of it, is  *)
(* settled from then on, and is doomed once an interrupt is about to kill  *)
(* it.  A licence is a spawner's permission to create one group, and none  *)
(* is granted once an interrupt has begun.  The run may die of the         *)
(* interrupt only with no group settled.                                   *)
(***************************************************************************)
CONSTANTS Groups, Spawners

VARIABLES
  stage,     \* the stage each group is in
  licensed,  \* the spawners allowed to create a group
  phase      \* "calm", "interrupted" or "dead"

abstractVars == <<stage, licensed, phase>>

Stages == {"none", "fresh", "settled", "doomed"}

CancellationTypeOK ==
  /\ stage \in [Groups -> Stages]
  /\ licensed \in SUBSET Spawners
  /\ phase \in {"calm", "interrupted", "dead"}

CInit ==
  /\ stage = [g \in Groups |-> "none"]
  /\ licensed = {}
  /\ phase = "calm"

Grant(t) ==
  /\ phase = "calm"
  /\ licensed' = licensed \union {t}
  /\ UNCHANGED <<stage, phase>>

Renounce(t) ==
  /\ phase # "dead"
  /\ licensed' = licensed \ {t}
  /\ UNCHANGED <<stage, phase>>

Start(t, g) ==
  /\ phase # "dead"
  /\ t \in licensed
  /\ stage[g] = "none"
  /\ stage' = [stage EXCEPT ![g] = "fresh"]
  /\ licensed' = licensed \ {t}
  /\ UNCHANGED phase

\* The spawner lets go of a group: an interrupt may already be about to kill it.
Settle(g) ==
  /\ phase # "dead"
  /\ stage[g] = "fresh"
  /\ \/ stage' = [stage EXCEPT ![g] = "settled"]
     \/ phase = "interrupted" /\ stage' = [stage EXCEPT ![g] = "doomed"]
  /\ UNCHANGED <<licensed, phase>>

Doom(g) ==
  /\ phase = "interrupted"
  /\ stage[g] = "settled"
  /\ stage' = [stage EXCEPT ![g] = "doomed"]
  /\ UNCHANGED <<licensed, phase>>

\* A group ends, by itself or killed, even after the run has died.
End(g) ==
  /\ stage[g] # "none"
  /\ stage' = [stage EXCEPT ![g] = "none"]
  /\ UNCHANGED <<licensed, phase>>

Interrupt ==
  /\ phase = "calm"
  /\ phase' = "interrupted"
  /\ UNCHANGED <<stage, licensed>>

DieOfSignal ==
  /\ phase = "interrupted"
  /\ \A g \in Groups : stage[g] # "settled"
  /\ phase' = "dead"
  /\ UNCHANGED <<stage, licensed>>

CNext ==
  \/ \E t \in Spawners : Grant(t) \/ Renounce(t) \/ \E g \in Groups : Start(t, g)
  \/ \E g \in Groups : Settle(g) \/ Doom(g) \/ End(g)
  \/ Interrupt \/ DieOfSignal

CSpec == CInit /\ [][CNext]_abstractVars

=============================================================================
