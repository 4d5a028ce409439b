------------------------------- MODULE Bounds -------------------------------
(***************************************************************************)
(* What bounds the model of the application and its daemon: how often each *)
(* kind of event happens, and how many events there are in all.            *)
(***************************************************************************)
EXTENDS Naturals

CONSTANTS
  Bound,     \* for each kind of event
  MaxEvents  \* in all

Kind == {"records", "clears", "stops", "changes", "presses", "launches", "failures"}

ASSUME BoundAssumption == Bound \in [Kind -> Nat] /\ MaxEvents \in Nat

VARIABLE left  \* what is left of the bounds

Unspent == [bound |-> Bound, events |-> MaxEvents]
Spends(kind) ==
  /\ left.bound[kind] > 0 /\ left.events > 0
  /\ left' = [bound |-> [left.bound EXCEPT ![kind] = @ - 1], events |-> left.events - 1]
=============================================================================
