--------------------------- MODULE OrderedEffects ---------------------------
(***************************************************************************)
(* What the domain event pipeline promises to one consumer of one          *)
(* aggregate: the effects of its events are applied one after the other in *)
(* the order of their sequence numbers, none skipped and none twice, and   *)
(* only an applied effect is ever compensated.                             *)
(***************************************************************************)
EXTENDS Integers, Sequences

VARIABLES emitted,  \* events of the aggregate, numbered 1..emitted
          effects,  \* sequence numbers of the applied effects, oldest first
          undone    \* sequence numbers of the compensated effects

vars == <<emitted, effects, undone>>

Init == emitted = 0 /\ effects = <<>> /\ undone = {}

Emit ==
  /\ emitted' = emitted + 1
  /\ UNCHANGED <<effects, undone>>

Apply ==
  /\ Len(effects) < emitted
  /\ effects' = Append(effects, Len(effects) + 1)
  /\ UNCHANGED <<emitted, undone>>

Compensate ==
  /\ \E i \in DOMAIN effects : undone' = undone \cup {effects[i]}
  /\ UNCHANGED <<emitted, effects>>

Next == Emit \/ Apply \/ Compensate

Spec == Init /\ [][Next]_vars
=============================================================================
