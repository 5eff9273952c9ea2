------------------------------ MODULE HandOff ------------------------------
(***************************************************************************)
(* What claiming promises, with neither a store nor comments: a ticket is  *)
(* in a column and at most one dispatcher has it.  Taking it moves it out  *)
(* of the queue in the same step; only the one that has it sends it on;    *)
(* and a ticket found in a working column with nobody on it may go back.   *)
(***************************************************************************)
EXTENDS Workflow

CONSTANTS Dispatchers, Role, Stages, PlacedIn, Nobody

VARIABLES column, holder
vars == <<column, holder>>

S(d) == Stages[Role[d]]

Destinations(d) ==
  {S(d).ready, S(d).success, S(d).exhausted, S(d).returns, Conflicted, PlacedIn} \ {NoColumn}

Init == column \in {S(d).ready : d \in Dispatchers} /\ holder = Nobody

Take(d) ==
  /\ holder = Nobody /\ column = S(d).ready
  /\ holder' = d /\ column' = S(d).working

(* The winner never learns that it won, and leaves the ticket on the bench. *)
TakeUnaware(d) ==
  /\ holder = Nobody /\ column = S(d).ready
  /\ column' = S(d).working /\ UNCHANGED holder

PutDown(d) ==
  /\ holder = d
  /\ holder' = Nobody
  /\ column' \in Destinations(d) \cup {column}

(* The holder dies, or cannot move the ticket: it stays where it is.        *)
Reclaim(d) ==
  /\ holder = Nobody /\ column = S(d).working
  /\ column' = S(d).ready /\ UNCHANGED holder

Next == \E d \in Dispatchers : Take(d) \/ TakeUnaware(d) \/ PutDown(d) \/ Reclaim(d)

Spec == Init /\ [][Next]_vars
=============================================================================
