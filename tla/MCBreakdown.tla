---------------------------- MODULE MCBreakdown -----------------------------
(* Instances of Breakdown for TLC.                                          *)
EXTENDS Breakdown

Department(units, pieces, mergeFirst, slots, staffed, flaky) ==
  [units |-> units, pieces |-> pieces, mergeFirst |-> mergeFirst, slots |-> slots,
   staffed |-> staffed, flaky |-> flaky]
Folded(units, slots, staffed, flaky) == Department(units, 1, TRUE, slots, staffed, flaky)
Split(units, pieces, slots)          == Department(units, pieces, FALSE, slots, Stages, {"stage"})

Anything == {"create", "edge", "move", "describe", "crash", "priority", "stage"}

(* Merged: one slot and every failure; the default of four slots, for two   *)
(* tasks, and for three on a host that serves no model of a later stage.    *)
(* Not merged: two tasks of two sections, three tasks of one.               *)
Departments ==
  {Folded(2, 1, Stages, Anything),
   Folded(2, 4, Stages, {"describe", "edge", "move"}),
   Folded(3, 4, {}, {"move"}),
   Split(2, 2, 4),
   Split(3, 1, 4)}

=============================================================================
