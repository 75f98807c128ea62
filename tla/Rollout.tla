------------------------------- MODULE Rollout -------------------------------
(***************************************************************************)
(* What a deployment promises: the once-only steps that apply are recorded *)
(* in their fixed order, one at a time; an attempt at a step may be        *)
(* abandoned and made again; a recorded step is never forgotten; and the   *)
(* result is published only when every step is recorded.                   *)
(***************************************************************************)
EXTENDS Naturals

VARIABLES order,           \* place -> the once-only step there: never changes
          recorded, attempt, published

RolloutInit ==
  /\ DOMAIN order \subseteq Nat
  /\ recorded = {} /\ attempt = {} /\ published = FALSE

Begin(i) ==
  /\ attempt = {} /\ order[i] \notin recorded
  /\ \A j \in DOMAIN order : j < i => order[j] \in recorded
  /\ attempt' = {order[i]}
  /\ UNCHANGED <<order, recorded, published>>

Record ==
  /\ attempt # {}
  /\ recorded' = recorded \cup attempt /\ attempt' = {}
  /\ UNCHANGED <<order, published>>

Abandon == attempt # {} /\ attempt' = {} /\ UNCHANGED <<order, recorded, published>>

Publish ==
  /\ attempt = {} /\ \A i \in DOMAIN order : order[i] \in recorded
  /\ published' = TRUE
  /\ UNCHANGED <<order, recorded, attempt>>

rolloutVars == <<order, recorded, attempt, published>>

RolloutNext == (\E i \in DOMAIN order : Begin(i)) \/ Record \/ Abandon \/ Publish

RolloutSpec == RolloutInit /\ [][RolloutNext]_rolloutVars
=============================================================================
