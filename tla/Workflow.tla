------------------------------ MODULE Workflow ------------------------------
(***************************************************************************)
(* The routing table (internal/workflow): the columns, the stages that     *)
(* take work from one and park it in another, and where an outcome sends a *)
(* ticket.  No state: the modules that move tickets take it by EXTENDS.    *)
(***************************************************************************)
EXTENDS Naturals, FiniteSets

NoColumn == ""

Done       == "done"
Blocked    == "blocked"
Conflicted == "conflicted"
Tracking   == "tracking"
Inbox      == "inbox"

Columns ==
  {Inbox, "designing", "ready_for_scoping", "scoping",
   "ready_for_ticket_merge", "merging_tickets", Tracking,
   "ready_for_tests", "writing_tests", "ready_for_spec", "writing_spec",
   "ready_for_spec_merge", "merging_specs", "ready_for_dev", "in_dev",
   "ready_for_maintenance", "maintaining", "ready_for_coverage", "covering",
   "ready_for_review", "in_review", "ready_for_integration", "integrating",
   Conflicted, Blocked, Done}

Terminal(place) == place \in {Done, Blocked}

(* A stage: its queue, where it parks held work, and where work goes next.  *)
Stage(ready, working, success) ==
  [ready |-> ready, working |-> working, success |-> success,
   exhausted |-> Blocked, returns |-> NoColumn, deps |-> FALSE]

Waits(stage) == [stage EXCEPT !.deps = TRUE]
HandsBack(stage, back) == [stage EXCEPT !.returns = back]
PassesOn(stage) == [stage EXCEPT !.exhausted = stage.success]

AlwaysOn ==
  [pm           |-> Stage(Inbox, "scoping", Tracking),
   ticketmerge  |-> Stage("ready_for_ticket_merge", "merging_tickets", "ready_for_spec_merge"),
   test         |-> Waits(Stage("ready_for_tests", "writing_tests", "ready_for_dev")),
   spec         |-> Waits(Stage("ready_for_spec", "writing_spec", Done)),
   specmerge    |-> Waits(Stage("ready_for_spec_merge", "merging_specs", "ready_for_dev")),
   dev          |-> HandsBack(Waits(Stage("ready_for_dev", "in_dev", "ready_for_review")),
                              "ready_for_spec_merge"),
   maintain     |-> Stage("ready_for_maintenance", "maintaining", "ready_for_integration"),
   review       |-> HandsBack(Stage("ready_for_review", "in_review", "ready_for_integration"),
                              "ready_for_dev"),
   integrate    |-> Stage("ready_for_integration", "integrating", Done),
   resolve      |-> HandsBack(Stage(Conflicted, "integrating", Done),
                              "ready_for_integration")]

CoverageLastMutant == PassesOn(Stage("ready_for_coverage", "covering", "ready_for_integration"))

Architect == PassesOn(Stage(Inbox, "designing", "ready_for_scoping"))
Coverage  == HandsBack(PassesOn(Stage("ready_for_coverage", "covering", "ready_for_review")),
                       "ready_for_dev")

Roles(architect, coverage) ==
  DOMAIN AlwaysOn \cup {r \in {"architect"} : architect} \cup {r \in {"coverage"} : coverage}

(* New: an optional stage that is off is absent, and one that is on rewires *)
(* the neighbour that feeds it or that it feeds.                            *)
Table(architect, coverage) ==
  [r \in Roles(architect, coverage) |->
    CASE r = "architect" -> Architect
      [] r = "coverage"  -> Coverage
      [] r = "pm" /\ architect -> [AlwaysOn.pm EXCEPT !.ready = Architect.success]
      [] r = "dev" /\ coverage -> [AlwaysOn.dev EXCEPT !.success = Coverage.ready]
      [] OTHER -> AlwaysOn[r]]

Outcomes == {"success", "failed", "abandoned", "conflicted", "blocked",
             "returned", "handled"}

(* Destination: the only place that decides where an outcome sends work.   *)
Destination(s, outcome, retriesLeft) ==
  CASE outcome = "success"    -> s.success
    [] outcome = "handled"    -> NoColumn
    [] outcome = "conflicted" -> Conflicted
    [] outcome = "blocked"    -> s.exhausted
    [] outcome = "returned"   -> IF s.returns = NoColumn THEN s.exhausted ELSE s.returns
    [] outcome = "abandoned"  -> s.ready
    [] outcome = "failed"     -> IF retriesLeft THEN s.ready ELSE s.exhausted

(* A ticket's prerequisites, given the column of each.                      *)
Blockers(columnOf, prerequisites) == {p \in prerequisites : columnOf[p] # Done}
Ready(columnOf, prerequisites) == Blockers(columnOf, prerequisites) = {}
Deadlocked(columnOf, prerequisites) == \E p \in prerequisites : columnOf[p] = Blocked
=============================================================================
