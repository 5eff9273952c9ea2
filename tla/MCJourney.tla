----------------------------- MODULE MCJourney ------------------------------
(* Instances of Journey for TLC.                                            *)
EXTENDS Journey

Departments == {<<FALSE, FALSE>>, <<TRUE, TRUE>>}

Everything ==
  {Inbox, "ready_for_ticket_merge", "ready_for_spec_merge", "ready_for_spec",
   "ready_for_maintenance"}

=============================================================================
