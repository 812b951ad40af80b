-------------------------- MODULE ReleaseContract --------------------------
(***************************************************************************)
(* What production sees of Phase 2, per flag, with no word about requests, *)
(* windows, slots or ledgers: a flag moves only forward along its lineage, *)
(* by one staged release at a time or at once while none is running, and   *)
(* only LaunchDarkly's own end of a release moves it back.                 *)
(***************************************************************************)
EXTENDS Integers

CONSTANTS Flag, MaxVersion

VARIABLES
  served,     \* the variation each flag serves
  moving      \* the release in progress: where to (0: none), and from where

contractVars == <<served, moving>>

Idle == [to |-> 0, from |-> 0]

Init ==
  /\ served = [f \in Flag |-> 0]
  /\ moving = [f \in Flag |-> Idle]

Start(f, t) ==
  /\ moving[f] = Idle /\ t > served[f]
  /\ moving' = [moving EXCEPT ![f] = [to |-> t, from |-> served[f]]]
  /\ UNCHANGED served

MoveNow(f, t) ==
  /\ moving[f] = Idle /\ t > served[f]
  /\ served' = [served EXCEPT ![f] = t]
  /\ UNCHANGED moving

Ramp(f) ==
  /\ moving[f] # Idle
  /\ served' = [served EXCEPT ![f] = moving[f].to]
  /\ UNCHANGED moving

End(f, v) ==
  /\ moving[f] # Idle
  /\ v \in {moving[f].to, moving[f].from, served[f]}
  /\ served' = [served EXCEPT ![f] = v]
  /\ moving' = [moving EXCEPT ![f] = Idle]

Next ==
  \E f \in Flag :
     \/ \E t \in 1 .. MaxVersion : Start(f, t) \/ MoveNow(f, t)
     \/ Ramp(f)
     \/ \E v \in 0 .. MaxVersion : End(f, v)

Spec == Init /\ [][Next]_contractVars
=============================================================================
