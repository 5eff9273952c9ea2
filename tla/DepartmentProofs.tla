--------------------------- MODULE DepartmentProofs -------------------------
(***************************************************************************)
(* Proofs about the department.  First a ticket's way through the stages,  *)
(* for any bounds and any department: with the architect or without, with  *)
(* coverage or without.  Then how a request becomes tickets, for any number*)
(* of units and sections: which task asks for what, and in which order.    *)
(***************************************************************************)
EXTENDS Journey, Breakdown, SequenceTheorems, FiniteSetTheorems,
        WellFoundedInduction, TLAPS

-----------------------------------------------------------------------------
(* The routing table, row by row.                                          *)

StageNames == {"architect", "pm", "ticketmerge", "test", "spec", "specmerge", "dev", "maintain",
           "coverage", "review", "integrate", "resolve"}

LEMMA AllIs == All = StageNames
BY DEF All, Roles, AlwaysOn, StageNames

\* What a stage's row says: its queue and bench, and where its outcomes lead.
Row(s, ready, working, success, exhausted, back) ==
  /\ s.ready = ready /\ s.working = working
  /\ s.success = success /\ s.exhausted = exhausted /\ s.returns = back

LEMMA StageIs ==
  ASSUME NEW ready, NEW working, NEW success, NEW back
  PROVE  /\ Row(Stage(ready, working, success), ready, working, success, Blocked, NoColumn)
         /\ Row(Waits(Stage(ready, working, success)), ready, working, success, Blocked, NoColumn)
         /\ Row(HandsBack(Stage(ready, working, success), back),
                ready, working, success, Blocked, back)
         /\ Row(HandsBack(Waits(Stage(ready, working, success)), back),
                ready, working, success, Blocked, back)
         /\ Row(PassesOn(Stage(ready, working, success)),
                ready, working, success, success, NoColumn)
         /\ Row(HandsBack(PassesOn(Stage(ready, working, success)), back),
                ready, working, success, success, back)
BY DEF Row, Stage, Waits, HandsBack, PassesOn

LEMMA FixedRows ==
  /\ Row(AlwaysOn.pm, Inbox, "scoping", Tracking, Blocked, NoColumn)
  /\ Row(AlwaysOn.ticketmerge, "ready_for_ticket_merge", "merging_tickets",
         "ready_for_spec_merge", Blocked, NoColumn)
  /\ Row(AlwaysOn.test, "ready_for_tests", "writing_tests", "ready_for_dev", Blocked, NoColumn)
  /\ Row(AlwaysOn.spec, "ready_for_spec", "writing_spec", Done, Blocked, NoColumn)
  /\ Row(AlwaysOn.specmerge, "ready_for_spec_merge", "merging_specs", "ready_for_dev",
         Blocked, NoColumn)
  /\ Row(AlwaysOn.dev, "ready_for_dev", "in_dev", "ready_for_review", Blocked,
         "ready_for_spec_merge")
  /\ Row(AlwaysOn.maintain, "ready_for_maintenance", "maintaining", "ready_for_integration",
         Blocked, NoColumn)
  /\ Row(AlwaysOn.review, "ready_for_review", "in_review", "ready_for_integration", Blocked,
         "ready_for_dev")
  /\ Row(AlwaysOn.integrate, "ready_for_integration", "integrating", Done, Blocked, NoColumn)
  /\ Row(AlwaysOn.resolve, Conflicted, "integrating", Done, Blocked, "ready_for_integration")
BY StageIs DEF AlwaysOn

IsTable == table \in {Table(o[1], o[2]) : o \in Options}

\* The rows of the department's table, whichever options are set.
LEMMA Rows ==
  ASSUME IsTable
  PROVE  /\ InUse \subseteq StageNames
         /\ "architect" \in InUse =>
              /\ Row(S("architect"), Inbox, "designing", "ready_for_scoping",
                     "ready_for_scoping", NoColumn)
              /\ S("pm").ready = "ready_for_scoping"
         /\ \E ready \in {Inbox, "ready_for_scoping"} :
              Row(S("pm"), ready, "scoping", Tracking, Blocked, NoColumn)
         /\ \E success \in {"ready_for_review", "ready_for_coverage"} :
              Row(S("dev"), "ready_for_dev", "in_dev", success, Blocked, "ready_for_spec_merge")
         /\ "coverage" \in InUse =>
              Row(S("coverage"), "ready_for_coverage", "covering", "ready_for_review",
                  "ready_for_review", "ready_for_dev")
         /\ \A r \in {"ticketmerge", "test", "spec", "specmerge", "maintain", "review",
                      "integrate", "resolve"} : r \in InUse /\ S(r) = AlwaysOn[r]
<1>1. PICK architect \in BOOLEAN, coverage \in BOOLEAN : table = Table(architect, coverage)
  BY JourneyAssumption DEF IsTable
<1>2. InUse = Roles(architect, coverage)
  BY <1>1 DEF InUse, Table
<1>3. /\ InUse \subseteq StageNames
      /\ "architect" \in InUse <=> architect
      /\ "coverage" \in InUse <=> coverage
      /\ {"pm", "ticketmerge", "test", "spec", "specmerge", "dev", "maintain", "review",
          "integrate", "resolve"} \subseteq InUse
  BY <1>2 DEF Roles, AlwaysOn, StageNames
<1>4. ASSUME NEW r \in InUse
      PROVE  S(r) = CASE r = "architect" -> Architect
                      [] r = "coverage"  -> Coverage
                      [] r = "pm" /\ architect -> [AlwaysOn.pm EXCEPT !.ready = Architect.success]
                      [] r = "dev" /\ coverage -> [AlwaysOn.dev EXCEPT !.success = Coverage.ready]
                      [] OTHER -> AlwaysOn[r]
  BY <1>1, <1>2, <1>4 DEF Table, S
<1>5. /\ Row(Architect, Inbox, "designing", "ready_for_scoping", "ready_for_scoping", NoColumn)
      /\ Row(Coverage, "ready_for_coverage", "covering", "ready_for_review", "ready_for_review",
             "ready_for_dev")
  BY StageIs DEF Architect, Coverage
<1>6. "architect" \in InUse => S("architect") = Architect
  BY <1>4
<1>7. "coverage" \in InUse => S("coverage") = Coverage
  BY <1>4
<1>8. S("pm") = IF architect THEN [AlwaysOn.pm EXCEPT !.ready = "ready_for_scoping"]
                ELSE AlwaysOn.pm
  BY <1>3, <1>4, <1>5 DEF Row
<1>9. S("dev") = IF coverage THEN [AlwaysOn.dev EXCEPT !.success = "ready_for_coverage"]
                 ELSE AlwaysOn.dev
  BY <1>3, <1>4, <1>5 DEF Row
<1>10. \A r \in {"ticketmerge", "test", "spec", "specmerge", "maintain", "review",
                 "integrate", "resolve"} : r \in InUse /\ S(r) = AlwaysOn[r]
  BY <1>3, <1>4
<1>11. \E ready \in {Inbox, "ready_for_scoping"} :
         /\ Row(S("pm"), ready, "scoping", Tracking, Blocked, NoColumn)
         /\ architect => ready = "ready_for_scoping"
  BY <1>8, FixedRows DEF AlwaysOn, Row, Stage
<1>12. \E success \in {"ready_for_review", "ready_for_coverage"} :
         Row(S("dev"), "ready_for_dev", "in_dev", success, Blocked, "ready_for_spec_merge")
  <2>1. Row(AlwaysOn.dev, "ready_for_dev", "in_dev", "ready_for_review", Blocked,
            "ready_for_spec_merge")
    BY FixedRows
  <2>2. Row([AlwaysOn.dev EXCEPT !.success = "ready_for_coverage"], "ready_for_dev", "in_dev",
            "ready_for_coverage", Blocked, "ready_for_spec_merge")
    BY DEF AlwaysOn, Row, Stage, Waits, HandsBack
  <2> QED BY <1>9, <2>1, <2>2
<1>13. S("pm").ready = "ready_for_scoping" \/ ~architect
  BY <1>11 DEF Row
<1> QED BY <1>3, <1>5, <1>6, <1>7, <1>10, <1>11, <1>12, <1>13

\* Row r of any department's table.
Places(r, ready, working, success, exhausted, back) ==
  S(r).ready \in ready /\ S(r).working = working /\ S(r).success \in success
    /\ S(r).exhausted = exhausted /\ S(r).returns = back

LEMMA StagePlaces ==
  ASSUME IsTable, NEW r \in InUse
  PROVE  \/ r = "architect" /\ Places(r, {Inbox}, "designing", {"ready_for_scoping"},
                                      "ready_for_scoping", NoColumn)
         \/ r = "pm" /\ Places(r, {Inbox, "ready_for_scoping"}, "scoping", {Tracking}, Blocked,
                               NoColumn)
         \/ r = "ticketmerge" /\ Places(r, {"ready_for_ticket_merge"}, "merging_tickets",
                                        {"ready_for_spec_merge"}, Blocked, NoColumn)
         \/ r = "test" /\ Places(r, {"ready_for_tests"}, "writing_tests", {"ready_for_dev"},
                                 Blocked, NoColumn)
         \/ r = "spec" /\ Places(r, {"ready_for_spec"}, "writing_spec", {Done}, Blocked, NoColumn)
         \/ r = "specmerge" /\ Places(r, {"ready_for_spec_merge"}, "merging_specs",
                                      {"ready_for_dev"}, Blocked, NoColumn)
         \/ r = "dev" /\ Places(r, {"ready_for_dev"}, "in_dev",
                                {"ready_for_review", "ready_for_coverage"}, Blocked,
                                "ready_for_spec_merge")
         \/ r = "maintain" /\ Places(r, {"ready_for_maintenance"}, "maintaining",
                                     {"ready_for_integration"}, Blocked, NoColumn)
         \/ r = "coverage" /\ Places(r, {"ready_for_coverage"}, "covering", {"ready_for_review"},
                                     "ready_for_review", "ready_for_dev")
         \/ r = "review" /\ Places(r, {"ready_for_review"}, "in_review",
                                   {"ready_for_integration"}, Blocked, "ready_for_dev")
         \/ r = "integrate" /\ Places(r, {"ready_for_integration"}, "integrating", {Done},
                                      Blocked, NoColumn)
         \/ r = "resolve" /\ Places(r, {Conflicted}, "integrating", {Done}, Blocked,
                                    "ready_for_integration")
<1>1. r \in StageNames
  BY Rows
<1>2. /\ r = "architect" => Row(S(r), Inbox, "designing", "ready_for_scoping",
                                "ready_for_scoping", NoColumn)
      /\ r = "pm" => \E ready \in {Inbox, "ready_for_scoping"} :
                       Row(S(r), ready, "scoping", Tracking, Blocked, NoColumn)
      /\ r = "dev" => \E success \in {"ready_for_review", "ready_for_coverage"} :
                        Row(S(r), "ready_for_dev", "in_dev", success, Blocked,
                            "ready_for_spec_merge")
      /\ r = "coverage" => Row(S(r), "ready_for_coverage", "covering", "ready_for_review",
                               "ready_for_review", "ready_for_dev")
  BY Rows
<1>3. r \in {"ticketmerge", "test", "spec", "specmerge", "maintain", "review", "integrate",
             "resolve"} => S(r) = AlwaysOn[r]
  BY Rows
<1>4. CASE r \in {"architect", "pm", "dev", "coverage"}
  BY <1>2, <1>4 DEF Row, Places
<1>5. CASE r \in {"ticketmerge", "test", "spec", "specmerge"}
  BY <1>3, <1>5, FixedRows DEF Row, Places
<1>6. CASE r \in {"maintain", "review", "integrate", "resolve"}
  BY <1>3, <1>6, FixedRows DEF Row, Places
<1> QED BY <1>1, <1>4, <1>5, <1>6 DEF StageNames

LEMMA DevWaits ==
  ASSUME IsTable
  PROVE  S("dev").deps
<1>1. PICK architect \in BOOLEAN, coverage \in BOOLEAN : table = Table(architect, coverage)
  BY JourneyAssumption DEF IsTable
<1>2. "dev" \in Roles(architect, coverage)
  BY DEF Roles, AlwaysOn
<1>3. S("dev") = IF coverage THEN [AlwaysOn.dev EXCEPT !.success = Coverage.ready]
                 ELSE AlwaysOn.dev
  BY <1>1, <1>2 DEF Table, S
<1>4. /\ AlwaysOn.dev.deps
      /\ [AlwaysOn.dev EXCEPT !.success = Coverage.ready].deps
  BY DEF AlwaysOn, Stage, Waits, HandsBack
<1> QED BY <1>3, <1>4

-----------------------------------------------------------------------------
(* The invariant.                                                          *)

\* What the handler of a stage can report.
Reportable(r) ==
  CASE r = "architect" -> {"success", "blocked", "failed"}
    [] r = "pm"        -> {"success", "handled", "failed"}
    [] r = "integrate" -> {"success", "conflicted", "blocked", "failed"}
    [] r \in {"dev", "maintain", "review", "resolve"} ->
                          {"success", "returned", "blocked", "failed"}
    [] OTHER           -> {"success", "failed"}

Integrating == {"ready_for_integration", "integrating", Conflicted}
Reviewing   == {"ready_for_coverage", "covering", "ready_for_review", "in_review"}
Developing  == {"ready_for_dev", "in_dev"}

TicketInv ==
  /\ IsTable /\ column \in Columns /\ entry \in Entries
  /\ prereq \in {"open", "done", "blocked"}
  /\ spent \in [All -> 0..MaxAttempts]
  /\ marks \subseteq {"designed", "branch", "tried"}
  /\ repairs \in 0..MaxSpecRepairs
  /\ returns \in Nat /\ budget \in 0..Budget /\ returns + budget <= Budget
  /\ passed \subseteq All /\ sentBack \subseteq All /\ merged \in BOOLEAN

\* Who has the ticket has it on its bench, but for one that has placed it.
ClaimInv ==
  /\ worker \in InUse \cup {Nobody}
  /\ worker = Nobody => report = Unreported
  /\ worker # Nobody =>
       /\ report \in Reportable(worker) \cup {Unreported}
       /\ IF report = "handled" THEN column = "ready_for_tests"
                                ELSE column = S(worker).working

\* What has been passed by the time the ticket is in a column.
GateInv ==
  /\ column \in {"ready_for_spec", "writing_spec"} => entry = "ready_for_spec"
  /\ column \in {"ready_for_maintenance", "maintaining"} => entry = "ready_for_maintenance"
  /\ column \in Integrating => entry = "ready_for_maintenance" \/ "review" \in passed
  /\ column \in Developing \cup Reviewing => passed \cap {"test", "specmerge"} # {}
  /\ column = Done => entry = "ready_for_spec" \/ merged
  /\ worker \in {"integrate", "resolve"} /\ report = "success" => merged
  /\ worker = "dev" => prereq = "done"

\* How far along its way a stage has the ticket.
Rank == [architect |-> 1, pm |-> 2, ticketmerge |-> 3, test |-> 4, specmerge |-> 4, dev |-> 5,
         coverage |-> 6, review |-> 7, maintain |-> 7, spec |-> 8, integrate |-> 8,
         resolve |-> 9]

Fresh(k) == \A r \in All : Rank[r] > k /\ r # "resolve" => spent[r] = 0

Undisturbed == budget = Budget /\ sentBack \cap {"review", "resolve"} = {}

\* The comments that the stages ahead look for.
MarksInv ==
  /\ column \in Integrating \cup Reviewing => "branch" \in marks
  /\ worker \in {"dev", "maintain"} /\ report = "success" => "branch" \in marks
  /\ /\ "architect" \in InUse
     /\ column = Inbox \/ (worker = "architect" /\ report \in {Unreported, "failed"})
     => "designed" \notin marks

\* Nothing has been spent on the stages ahead, and not everything on the one
\* the ticket waits for.
SpentInv ==
  /\ worker = "dev" /\ report = "returned" => spent = NoneSpent
  /\ \A r \in InUse \ {"resolve"} :
       /\ column \in {S(r).ready, S(r).working} => Fresh(Rank[r])
       /\ column = S(r).ready => spent[r] < MaxAttempts

JourneyInv ==
  TicketInv /\ ClaimInv /\ GateInv /\ (Undisturbed => MarksInv /\ SpentInv)

-----------------------------------------------------------------------------
(* What the steps do.                                                      *)

LEMMA ReportableIs ==
  ASSUME NEW r \in StageNames
  PROVE  /\ Reportable(r) \subseteq {"success", "handled", "conflicted", "blocked", "returned",
                                     "failed"}
         /\ {"success", "failed"} \subseteq Reportable(r)
         /\ "handled" \in Reportable(r) => r = "pm"
         /\ "conflicted" \in Reportable(r) => r = "integrate"
         /\ "returned" \in Reportable(r) <=> r \in {"dev", "maintain", "review", "resolve"}
         /\ "blocked" \in Reportable(r) <=>
              r \in {"architect", "dev", "maintain", "review", "resolve", "integrate"}
<1>1. CASE r = "architect"
  BY <1>1 DEF Reportable
<1>2. CASE r = "pm"
  BY <1>2 DEF Reportable
<1>3. CASE r = "integrate"
  BY <1>3 DEF Reportable
<1>4. CASE r \in {"dev", "maintain", "review", "resolve"}
  BY <1>4 DEF Reportable
<1>5. CASE r \in {"ticketmerge", "test", "spec", "specmerge", "coverage"}
  <2>1. Reportable(r) = {"success", "failed"}
    BY <1>5 DEF Reportable
  <2> QED BY <1>5, <2>1
<1> QED BY <1>1, <1>2, <1>3, <1>4, <1>5 DEF StageNames

\* A handler reports, and with that leaves a comment that may be lost.
Handled(r) ==
  /\ worker = r /\ worker' = r /\ report = Unreported /\ report' \in Reportable(r)
  /\ IF report' = "handled" THEN column' = "ready_for_tests" ELSE column' = column
  /\ UNCHANGED <<table, entry, prereq, returns, passed, sentBack>>
  /\ merged' \in BOOLEAN /\ (merged => merged')
  /\ r \in {"integrate", "resolve"} /\ report' = "success" => merged'
  /\ marks \subseteq marks' /\ marks' \subseteq marks \cup {"designed", "branch", "tried"}
  /\ "designed" \in marks' => "designed" \in marks \/ (r = "architect" /\ report' = "success")
  /\ budget' = budget \/ Lost
  /\ budget' = budget /\ r \in {"dev", "maintain"} /\ report' = "success" => "branch" \in marks'
  /\ spent' = spent \/ spent' = NoneSpent
  /\ budget' = budget /\ r = "dev" /\ report' = "returned" => spent' = NoneSpent
  /\ repairs' \in {repairs, OneMore(repairs)}

LEMMA HandlersReport ==
  ASSUME TicketInv, NEW r \in InUse, Handle(r)
  PROVE  Handled(r)
<1>1. r \in StageNames
  BY Rows DEF TicketInv
<1>2. ASSUME NEW outcome, NEW mark, NEW isMerged \in BOOLEAN, Handles(r),
             Ends(outcome, mark, isMerged), outcome \in Reportable(r), outcome # "handled",
             mark \subseteq {"designed", "branch", "tried"}, merged => isMerged,
             r \in {"integrate", "resolve"} /\ outcome = "success" => isMerged,
             "designed" \in mark => r = "architect" /\ outcome = "success",
             r \in {"dev", "maintain"} /\ outcome = "success" => "branch" \in mark,
             ~(r = "dev" /\ outcome = "returned")
      PROVE  Handled(r)
  <2>1. /\ worker = r /\ worker' = r /\ report = Unreported /\ report' = outcome
        /\ column' = column /\ merged' = isMerged
        /\ UNCHANGED <<table, entry, prereq, spent, repairs, returns, passed, sentBack>>
    BY <1>2 DEF Ends, Handles, route
  <2>2. \/ marks' = marks \cup mark /\ budget' = budget
        \/ marks' = marks /\ Lost
    BY <1>2 DEF Ends
  <2>3. budget' # budget \/ ~Lost
    BY DEF Lost, TicketInv
  <2> QED BY <1>2, <2>1, <2>2, <2>3 DEF Handled
<1>3. merged \in BOOLEAN
  BY DEF TicketInv
<1>4. ASSUME NEW outcome \in Reportable(r), NEW mark, Handles(r), Reports(outcome, mark),
             outcome # "handled", mark \subseteq {"designed", "branch", "tried"},
             r \in {"integrate", "resolve"} => outcome # "success",
             "designed" \in mark => r = "architect" /\ outcome = "success",
             r \in {"dev", "maintain"} /\ outcome = "success" => "branch" \in mark,
             ~(r = "dev" /\ outcome = "returned")
      PROVE  Handled(r)
  BY <1>2, <1>3, <1>4, Zenon DEF Reports
<1>5. CASE FailStage(r)
  BY <1>1, <1>4, <1>5, ReportableIs DEF FailStage
<1>6. CASE r = "architect" /\ DesignRequest
  BY <1>1, <1>4, <1>6, ReportableIs DEF DesignRequest
<1>7. CASE r = "pm" /\ ScopeRequest
  <2>1. "handled" \in Reportable(r) /\ "success" \in Reportable(r)
    BY <1>7 DEF Reportable
  <2>2. CASE Reports("success", {}) /\ Handles(r)
    BY <1>4, <1>7, <2>1, <2>2
  <2>3. CASE /\ Handles(r)
             /\ report' = "handled" /\ column' = S("test").ready
             /\ UNCHANGED <<route, prereq, worker, notes, budget, history>>
    <3>1. S("test").ready = "ready_for_tests"
      BY Rows, FixedRows DEF Row, TicketInv
    <3> QED BY <1>3, <1>7, <2>1, <2>3, <3>1 DEF Handled, Handles, route, notes, history, TicketInv
  <2> QED BY <1>7, <2>2, <2>3 DEF ScopeRequest
<1>8. CASE r = "ticketmerge" /\ MergeTickets
  BY <1>1, <1>4, <1>8, ReportableIs DEF MergeTickets
<1>9. CASE Author(r)
  BY <1>1, <1>4, <1>9, ReportableIs DEF Author
<1>10. CASE Develop(r)
  <2>1. r \in {"dev", "maintain"} /\ Handles(r)
        /\ {"success", "blocked", "returned"} \subseteq Reportable(r)
    BY <1>1, <1>10, ReportableIs DEF Develop
  <2>2. CASE Reports("success", {"branch"})
    BY <1>4, <2>1, <2>2
  <2>3. CASE ReturnBrokenSpec
    <3>1. \/ repairs' = OneMore(repairs) /\ spent' = NoneSpent /\ budget' = budget
          \/ Lost /\ repairs' = repairs /\ spent' = spent
      BY <2>3 DEF ReturnBrokenSpec, RepairResets
    <3>2. budget' # budget \/ ~Lost
      BY DEF Lost, TicketInv
    <3>3. /\ report' = "returned"
          /\ UNCHANGED <<route, column, prereq, worker, marks, returns, history>>
      BY <2>3 DEF ReturnBrokenSpec
    <3> QED BY <1>3, <2>1, <3>1, <3>2, <3>3 DEF Handled, Handles, route, history, TicketInv
  <2>4. CASE Reports("blocked", {})
    BY <1>4, <2>1, <2>4
  <2> QED BY <1>10, <2>2, <2>3, <2>4 DEF Develop
<1>11. CASE r = "coverage" /\ Cover
  BY <1>1, <1>4, <1>11, ReportableIs DEF Cover
<1>12. CASE r = "review" /\ Review
  <2>1. {"success", "blocked", "returned"} \subseteq Reportable(r)
    BY <1>1, <1>12, ReportableIs
  <2>2. \E outcome \in {"success", "blocked", "returned"} : Reports(outcome, {}) /\ Handles(r)
    BY <1>12 DEF Review
  <2> QED BY <1>4, <1>12, <2>1, <2>2
<1>13. CASE r = "integrate" /\ Integrate
  <2>1. {"success", "blocked", "conflicted"} \subseteq Reportable(r) /\ Handles(r)
    BY <1>13 DEF Reportable, Integrate
  <2>2. CASE Ends("success", {}, TRUE)
    BY <1>2, <1>13, <2>1, <2>2
  <2>3. CASE \E outcome \in {"blocked", "conflicted"} : Reports(outcome, {})
    BY <1>4, <1>13, <2>1, <2>3
  <2> QED BY <1>13, <2>2, <2>3 DEF Integrate
<1>14. CASE r = "resolve" /\ Resolve
  <2>1. {"success", "failed", "blocked", "returned"} \subseteq Reportable(r) /\ Handles(r)
    BY <1>14 DEF Reportable, Resolve
  <2>2. CASE Ends("success", {"tried"}, TRUE)
    BY <1>2, <1>14, <2>1, <2>2
  <2>3. CASE \E outcome \in {"failed", "blocked", "returned"}, mark \in {{}, {"tried"}} :
               Reports(outcome, mark)
    BY <1>4, <1>14, <2>1, <2>3
  <2> QED BY <1>14, <2>2, <2>3 DEF Resolve
<1> QED BY <1>5, <1>6, <1>7, <1>8, <1>9, <1>10, <1>11, <1>12, <1>13, <1>14 DEF Handle

\* Where the dispatcher routes what was reported.
Routed(r) ==
  \/ report = "success" /\ column' = S(r).success
  \/ report = "handled" /\ column' = column
  \/ report = "conflicted" /\ column' = Conflicted
  \/ report = "blocked" /\ column' = S(r).exhausted
  \/ report = "returned" /\ column' = IF S(r).returns = NoColumn THEN S(r).exhausted
                                      ELSE S(r).returns
  \/ report = "failed" /\ column' = S(r).ready /\ spent[r] < MaxAttempts
  \/ report = "failed" /\ column' = S(r).exhausted

LEMMA OutcomesAreRouted ==
  ASSUME TicketInv, ClaimInv, NEW r \in InUse, Settle(r)
  PROVE  Routed(r)
<1>1. report \in Reportable(r) /\ r \in StageNames
  BY Rows DEF ClaimInv, Settle, TicketInv, Nobody, StageNames
<1>2. report \in {"success", "handled", "conflicted", "blocked", "returned", "failed"}
  BY <1>1, ReportableIs
<1>3. /\ S(r).success # NoColumn /\ S(r).exhausted # NoColumn /\ S(r).ready # NoColumn
  BY StagePlaces DEF Places, TicketInv, Inbox, Tracking, Blocked, Done, Conflicted, NoColumn
<1>4. column' = IF Onward(r) = NoColumn THEN column ELSE Onward(r)
  BY DEF Settle
<1>5. CASE report = "success"
  <2>1. Onward(r) = S(r).success
    BY <1>5 DEF Onward, Destination
  <2> QED BY <1>3, <1>4, <1>5, <2>1 DEF Routed
<1>6. CASE report = "handled"
  <2>1. Onward(r) = NoColumn
    BY <1>6 DEF Onward, Destination
  <2> QED BY <1>4, <1>6, <2>1 DEF Routed
<1>7. CASE report = "conflicted"
  <2>1. Onward(r) = Conflicted
    BY <1>7 DEF Onward, Destination
  <2> QED BY <1>4, <1>7, <2>1 DEF Routed, Conflicted, NoColumn
<1>8. CASE report = "blocked"
  <2>1. Onward(r) = S(r).exhausted
    BY <1>8 DEF Onward, Destination
  <2> QED BY <1>3, <1>4, <1>8, <2>1 DEF Routed
<1>9. CASE report = "returned"
  <2>1. Onward(r) = IF S(r).returns = NoColumn THEN S(r).exhausted ELSE S(r).returns
    BY <1>9 DEF Onward, Destination
  <2> QED BY <1>3, <1>4, <1>9, <2>1 DEF Routed
<1>10. CASE report = "failed"
  <2>1. Onward(r) = IF spent[r] < MaxAttempts THEN S(r).ready ELSE S(r).exhausted
    BY <1>10 DEF Onward, Destination
  <2> QED BY <1>3, <1>4, <1>10, <2>1 DEF Routed
<1> QED BY <1>2, <1>5, <1>6, <1>7, <1>8, <1>9, <1>10

LEMMA PlacesAreColumns ==
  ASSUME IsTable, NEW r \in InUse
  PROVE  /\ {S(r).ready, S(r).working, S(r).success, S(r).exhausted} \subseteq Columns
         /\ S(r).returns \in Columns \cup {NoColumn}
         /\ r \in All /\ r \in StageNames /\ r # Nobody
BY StagePlaces, Rows, AllIs
   DEF Places, Columns, Inbox, Tracking, Blocked, Done, Conflicted, NoColumn, StageNames, Nobody

-----------------------------------------------------------------------------
(* Every step keeps the invariant.                                         *)

LEMMA TicketKept ==
  ASSUME TicketInv, ClaimInv, Next
  PROVE  TicketInv'
<1>1. IsTable /\ MaxAttempts \in Nat /\ Budget \in Nat /\ MaxSpecRepairs \in Nat
  BY JourneyAssumption DEF TicketInv
<1>2. NoneSpent \in [All -> 0..MaxAttempts]
  BY <1>1 DEF NoneSpent
<1>3. ASSUME NEW r \in InUse, Take(r)
      PROVE  TicketInv'
  <2>1. spent' \in [All -> 0..MaxAttempts]
    <3>1. spent[r] + 1 \in 0..MaxAttempts
      BY <1>1, <1>3, PlacesAreColumns DEF Take, Takeable, TicketInv
    <3>2. spent' = [spent EXCEPT ![r] = spent[r] + 1]
      BY <1>3 DEF Take
    <3> QED BY <3>1, <3>2 DEF TicketInv
  <2>2. column' \in Columns
    BY <1>1, <1>3, PlacesAreColumns DEF Take
  <2> QED BY <1>3, <2>1, <2>2 DEF Take, TicketInv, IsTable, route, history
<1>4. ASSUME NEW r \in InUse, Handle(r)
      PROVE  TicketInv'
  <2>1. Handled(r)
    BY <1>4, HandlersReport
  <2>2. column' \in Columns
    BY <2>1 DEF Handled, TicketInv, Columns
  <2>3. budget' \in 0..Budget /\ returns' \in Nat /\ returns' + budget' <= Budget
    BY <1>1, <2>1 DEF Handled, TicketInv, Lost
  <2>4. repairs' \in 0..MaxSpecRepairs
    BY <1>1, <2>1 DEF Handled, TicketInv, OneMore
  <2>5. spent' \in [All -> 0..MaxAttempts]
    BY <1>2, <2>1 DEF Handled, TicketInv
  <2> QED BY <2>1, <2>2, <2>3, <2>4, <2>5 DEF Handled, TicketInv, IsTable
<1>5. ASSUME NEW r \in InUse, Settle(r)
      PROVE  TicketInv'
  <2>1. Routed(r)
    BY <1>5, OutcomesAreRouted
  <2>2. column' \in Columns
    BY <1>1, <2>1, PlacesAreColumns DEF Routed, TicketInv, Columns, Conflicted, NoColumn
  <2>3. passed' \subseteq All
    <3>1. r \in All
      BY <1>1, PlacesAreColumns
    <3>2. passed' = Passed(r)
      BY <1>5 DEF Settle
    <3>3. CASE report = "success"
      BY <3>1, <3>2, <3>3 DEF Passed, TicketInv
    <3>4. CASE report = "returned" /\ r = "dev"
      BY <3>2, <3>4 DEF Passed, TicketInv
    <3>5. CASE report # "success" /\ ~(report = "returned" /\ r = "dev")
      <4>1. Passed(r) = passed
        BY <3>5, Zenon DEF Passed
      <4> QED BY <3>2, <4>1 DEF TicketInv
    <3> QED BY <3>3, <3>4, <3>5
  <2>4. sentBack' \subseteq All
    <3>1. r \in All
      BY <1>1, PlacesAreColumns
    <3> QED BY <1>5, <3>1 DEF Settle, TicketInv
  <2> QED BY <1>5, <2>2, <2>3, <2>4 DEF Settle, TicketInv, IsTable, route, notes
<1>6. ASSUME NEW r \in InUse, Interrupt(r)
      PROVE  TicketInv'
  <2>1. budget \in 1..Budget /\ budget' = budget - 1
    BY <1>1, <1>6 DEF Interrupt, Lost, TicketInv
  <2>2. CASE column = S(r).working
    <3>1. PICK q \in InUse : column' = S(q).ready
      BY <1>6, <2>2 DEF Interrupt
    <3>2. column' \in Columns
      BY <1>1, <3>1, PlacesAreColumns
    <3>3. spent' = NoneSpent /\ returns' = returns + 1
      BY <1>6, <2>2 DEF Interrupt
    <3>4. budget' \in 0..Budget /\ returns' \in Nat /\ returns' + budget' <= Budget
      BY <1>1, <2>1, <3>3 DEF TicketInv
    <3> QED BY <1>2, <1>6, <3>2, <3>3, <3>4 DEF Interrupt, TicketInv, IsTable, route, history
  <2>3. CASE column # S(r).working
    <3>1. UNCHANGED <<column, spent, returns>>
      BY <1>6, <2>3 DEF Interrupt
    <3>2. budget' \in 0..Budget /\ returns' + budget' <= Budget
      BY <1>1, <2>1, <3>1 DEF TicketInv
    <3> QED BY <1>6, <3>1, <3>2 DEF Interrupt, TicketInv, IsTable, route, history
  <2> QED BY <2>2, <2>3
<1>7. ASSUME NEW r \in InUse, Sweep(r)
      PROVE  TicketInv'
  <2>1. column' \in Columns
    BY <1>1, <1>7, PlacesAreColumns DEF Sweep
  <2> QED BY <1>7, <2>1 DEF Sweep, TicketInv, IsTable, route, notes, history
<1>8. CASE Prerequisite
  BY <1>8 DEF Prerequisite, TicketInv, IsTable, route, notes, history
<1> QED BY <1>3, <1>4, <1>5, <1>6, <1>7, <1>8 DEF Next

LEMMA ClaimKept ==
  ASSUME TicketInv, ClaimInv, Next
  PROVE  ClaimInv'
<1>1. IsTable
  BY DEF TicketInv
<1>2. ASSUME NEW r \in InUse, Take(r)
      PROVE  ClaimInv'
  <2>1. /\ worker' = r /\ report' = Unreported /\ column' = S(r).working /\ table' = table
    BY <1>2 DEF Take, Queued, ClaimInv, route
  <2> QED BY <2>1 DEF ClaimInv, InUse, S, Unreported
<1>3. ASSUME NEW r \in InUse, Handle(r)
      PROVE  ClaimInv'
  <2>1. Handled(r)
    BY <1>3, HandlersReport
  <2>2. r # Nobody /\ column = S(r).working
    BY <1>1, <2>1, PlacesAreColumns DEF Handled, ClaimInv, Unreported
  <2> QED BY <2>1, <2>2 DEF Handled, ClaimInv, InUse, S
<1>4. ASSUME NEW r \in InUse, Settle(r)
      PROVE  ClaimInv'
  BY <1>4 DEF Settle, ClaimInv, InUse, route, Nobody, Unreported
<1>5. ASSUME NEW r \in InUse, Interrupt(r)
      PROVE  ClaimInv'
  BY <1>5 DEF Interrupt, ClaimInv, InUse, route, Nobody, Unreported
<1>6. ASSUME NEW r \in InUse, Sweep(r)
      PROVE  ClaimInv'
  BY <1>6 DEF Sweep, Queued, ClaimInv, InUse, route, Nobody, Unreported
<1>7. CASE Prerequisite
  BY <1>7 DEF Prerequisite, ClaimInv, InUse, S, route
<1> QED BY <1>2, <1>3, <1>4, <1>5, <1>6, <1>7 DEF Next

\* What is passed when a stage has reported.
LEMMA PassedIs ==
  ASSUME NEW r, passed' = Passed(r)
  PROVE  /\ report = "success" => r \in passed'
         /\ "review" \in passed => "review" \in passed' \/ r \in {"dev", "coverage"}
         /\ passed \cap {"test", "specmerge"} \subseteq passed'
              \/ (report = "returned" /\ r = "dev")
<1>1. CASE report = "success"
  BY <1>1 DEF Passed
<1>2. CASE report = "returned" /\ r = "dev"
  BY <1>2 DEF Passed
<1>3. CASE report # "success" /\ ~(report = "returned" /\ r = "dev")
  <2>1. Passed(r) = passed
    BY <1>3, Zenon DEF Passed
  <2> QED BY <1>3, <2>1
<1> QED BY <1>1, <1>2, <1>3

LEMMA GateKept ==
  ASSUME TicketInv, ClaimInv, GateInv, Next
  PROVE  GateInv'
<1>1. IsTable
  BY DEF TicketInv
<1>2. ASSUME NEW r \in InUse, Take(r)
      PROVE  GateInv'
  <2>1. /\ worker' = r /\ report' = Unreported /\ column = S(r).ready /\ column' = S(r).working
        /\ UNCHANGED <<entry, passed, merged, prereq>> /\ (S(r).deps => prereq = "done")
    BY <1>2 DEF Take, Takeable, Queued, ClaimInv, route, history
  <2>2. r = "dev" => S(r).deps
    <3>1. S("dev").deps
      BY DevWaits DEF TicketInv
    <3> QED BY <3>1
  <2> QED BY <1>1, <2>1, <2>2, StagePlaces
          DEF GateInv, Places, Integrating, Reviewing, Developing, Inbox, Tracking, Blocked, Done,
              Conflicted, NoColumn, Unreported
<1>3. ASSUME NEW r \in InUse, Handle(r)
      PROVE  GateInv'
  <2>1. Handled(r)
    BY <1>3, HandlersReport
  <2>2. worker' = r /\ worker = r /\ UNCHANGED <<entry, passed, prereq>> /\ (merged => merged')
        /\ (r \in {"integrate", "resolve"} /\ report' = "success" => merged')
        /\ (column' = column \/ column' = "ready_for_tests")
    BY <2>1 DEF Handled
  <2> QED BY <2>2 DEF GateInv, Integrating, Reviewing, Developing, Done, Conflicted
<1>4. ASSUME NEW r \in InUse, Settle(r)
      PROVE  GateInv'
  <2>1. Routed(r)
    BY <1>4, OutcomesAreRouted
  <2>2. /\ worker = r /\ worker' = Nobody /\ report' = Unreported /\ passed' = Passed(r)
        /\ UNCHANGED <<entry, prereq, merged>> /\ r # Nobody /\ report # Unreported
    BY <1>1, <1>4, PlacesAreColumns DEF Settle, route
  <2>3. /\ report \in Reportable(r)
        /\ IF report = "handled" THEN column = "ready_for_tests" ELSE column = S(r).working
    BY <2>2 DEF ClaimInv
  <2>4. r \in StageNames
    BY <1>1, PlacesAreColumns
  <2>5. CASE report = "success"
    BY <1>1, <2>1, <2>2, <2>3, <2>5, StagePlaces, PassedIs, ZenonT(30)
       DEF Routed, GateInv, Places, Integrating, Reviewing, Developing, Inbox, Tracking, Blocked,
           Done, Conflicted, NoColumn, Nobody
  <2>6. CASE report = "returned"
    <3>1. r \in {"dev", "maintain", "review", "resolve"}
      BY <2>3, <2>4, <2>6, ReportableIs
    <3> QED BY <1>1, <2>1, <2>2, <2>3, <2>6, <3>1, StagePlaces, PassedIs, ZenonT(30)
            DEF Routed, GateInv, Places, Integrating, Reviewing, Developing, Inbox, Tracking,
                Blocked, Done, Conflicted, NoColumn, Nobody
  <2>7. CASE report \in {"failed", "blocked"}
    BY <1>1, <2>1, <2>2, <2>3, <2>7, StagePlaces, PassedIs, ZenonT(30)
       DEF Routed, GateInv, Places, Integrating, Reviewing, Developing, Inbox, Tracking, Blocked,
           Done, Conflicted, NoColumn, Nobody
  <2>8. CASE report = "conflicted"
    <3>1. r = "integrate"
      BY <2>3, <2>4, <2>8, ReportableIs
    <3> QED BY <1>1, <2>1, <2>2, <2>3, <2>8, <3>1, StagePlaces, PassedIs
            DEF Routed, GateInv, Places, Integrating, Reviewing, Developing, Inbox, Tracking,
                Blocked, Done, Conflicted, NoColumn, Nobody
  <2>9. CASE report = "handled"
    BY <2>1, <2>2, <2>3, <2>9
       DEF Routed, GateInv, Integrating, Reviewing, Developing, Done, Conflicted, Nobody
  <2> QED BY <2>3, <2>4, <2>5, <2>6, <2>7, <2>8, <2>9, ReportableIs
<1>5. ASSUME NEW r \in InUse, Interrupt(r)
      PROVE  GateInv'
  <2>1. worker' = Nobody /\ report' = Unreported /\ UNCHANGED <<entry, prereq, passed, merged>>
    BY <1>5 DEF Interrupt, route, history
  <2>2. CASE column = S(r).working
    <3>1. PICK q \in InUse : S(q).working = column /\ column' = S(q).ready
      BY <1>5, <2>2 DEF Interrupt
    <3> QED BY <1>1, <2>1, <3>1, StagePlaces
            DEF GateInv, Places, Integrating, Reviewing, Developing, Inbox, Tracking, Blocked,
                Done, Conflicted, NoColumn, Nobody
  <2>3. CASE column # S(r).working
    BY <1>5, <2>1, <2>3 DEF Interrupt, GateInv, Nobody
  <2> QED BY <2>2, <2>3
<1>6. ASSUME NEW r \in InUse, Sweep(r)
      PROVE  GateInv'
  <2>1. /\ column = S(r).ready /\ column' = S(r).exhausted /\ S(r).deps
        /\ UNCHANGED <<entry, prereq, worker, report, passed, merged>>
    BY <1>6 DEF Sweep, Queued, route, history
  <2> QED BY <1>1, <2>1, StagePlaces
          DEF GateInv, Places, Integrating, Reviewing, Developing, Inbox, Tracking, Blocked,
              Done, Conflicted, NoColumn
<1>7. CASE Prerequisite
  BY <1>7 DEF Prerequisite, GateInv, route, history
<1> QED BY <1>2, <1>3, <1>4, <1>5, <1>6, <1>7 DEF Next

-----------------------------------------------------------------------------
(* Going round: the marks and the counts while nothing is lost.            *)

\* No two stages share a queue, and no queue is a bench.
LEMMA QueuesApart ==
  ASSUME IsTable, NEW r \in InUse, NEW q \in InUse
  PROVE  /\ S(r).ready = S(q).ready => r = q
         /\ S(r).working # S(q).ready
         /\ S(r).working = S(q).working => r = q \/ "resolve" \in {r, q}
         /\ Conflicted \in {S(q).ready, S(q).working} => q = "resolve"
<1>1. "architect" \in InUse => S("pm").ready = "ready_for_scoping"
  BY Rows
<1>2. S(r).ready = S(q).ready => r = q
  BY <1>1, StagePlaces, ZenonT(30)
     DEF Places, Inbox, Tracking, Blocked, Done, Conflicted, NoColumn
<1>3. S(r).working # S(q).ready
  BY StagePlaces, ZenonT(30) DEF Places, Inbox, Tracking, Blocked, Done, Conflicted, NoColumn
<1>4. S(r).working = S(q).working => r = q \/ "resolve" \in {r, q}
  BY StagePlaces, ZenonT(30) DEF Places, Inbox, Tracking, Blocked, Done, Conflicted, NoColumn
<1>5. Conflicted \in {S(q).ready, S(q).working} => q = "resolve"
  BY StagePlaces, ZenonT(30) DEF Places, Inbox, Tracking, Blocked, Done, Conflicted, NoColumn
<1> QED BY <1>2, <1>3, <1>4, <1>5

LEMMA RanksAre ==
  ASSUME NEW r \in StageNames
  PROVE  Rank[r] \in 1..9 /\ (Rank[r] = 9 => r = "resolve")
BY DEF Rank, StageNames

\* Success leads on, and so does giving up where it leads anywhere.
LEMMA OnwardIsAhead ==
  ASSUME IsTable, NEW r \in InUse, NEW q \in InUse, q # "resolve",
         NEW place \in {S(r).success, S(r).exhausted}
  PROVE  /\ place # S(q).working
         /\ place = S(q).ready => Rank[q] > Rank[r] /\ r # "resolve"
<1>1. place # S(q).working
  BY StagePlaces, ZenonT(30) DEF Places, Inbox, Tracking, Blocked, Done, Conflicted, NoColumn
<1>2. CASE r \in {"architect", "pm", "ticketmerge"}
  <2>1. place = S(q).ready =>
          (r = "architect" /\ q = "pm") \/ (r = "ticketmerge" /\ q = "specmerge")
    BY <1>2, StagePlaces DEF Places, Inbox, Tracking, Blocked, Done, Conflicted, NoColumn
  <2> QED BY <1>1, <2>1 DEF Rank
<1>3. CASE r \in {"test", "specmerge", "dev"}
  <2>1. place = S(q).ready =>
          (r # "dev" /\ q = "dev") \/ (r = "dev" /\ q \in {"review", "coverage"})
    BY <1>3, StagePlaces DEF Places, Inbox, Tracking, Blocked, Done, Conflicted, NoColumn
  <2> QED BY <1>1, <1>3, <2>1 DEF Rank
<1>4. CASE r \in {"maintain", "coverage", "review"}
  <2>1. place = S(q).ready =>
          (r # "coverage" /\ q = "integrate") \/ (r = "coverage" /\ q = "review")
    BY <1>4, StagePlaces DEF Places, Inbox, Tracking, Blocked, Done, Conflicted, NoColumn
  <2> QED BY <1>1, <1>4, <2>1 DEF Rank
<1>5. CASE r \in {"spec", "integrate", "resolve"}
  <2>1. place # S(q).ready
    BY <1>5, StagePlaces, ZenonT(30) DEF Places, Inbox, Tracking, Blocked, Done, Conflicted, NoColumn
  <2> QED BY <1>1, <2>1
<1> QED BY <1>2, <1>3, <1>4, <1>5, PlacesAreColumns DEF StageNames

\* The part of SpentInv that is about where the ticket is.
Unspent ==
  \A r \in InUse \ {"resolve"} :
    /\ column \in {S(r).ready, S(r).working} => Fresh(Rank[r])
    /\ column = S(r).ready => spent[r] < MaxAttempts

LEMMA UnspentOnward ==
  ASSUME TicketInv, NEW r \in InUse, r # "resolve" => Fresh(Rank[r]), UNCHANGED <<table, spent>>,
         column' \in {S(r).success, S(r).exhausted}
  PROVE  Unspent'
<1>1. IsTable /\ MaxAttempts \in Nat \ {0}
  BY JourneyAssumption DEF TicketInv
<1> SUFFICES ASSUME NEW q \in InUse \ {"resolve"}, column' \in {S(q).ready, S(q).working}
             PROVE  Fresh(Rank[q]) /\ spent[q] < MaxAttempts
  BY DEF Unspent, Fresh, InUse, S
<1>2. Rank[q] > Rank[r] /\ r # "resolve"
  BY <1>1, OnwardIsAhead
<1>3. Rank[q] \in Nat /\ Rank[r] \in Nat /\ q \in All /\ \A s \in All : Rank[s] \in Nat
  BY <1>1, PlacesAreColumns, RanksAre, AllIs
<1>4. Fresh(Rank[q])
  BY <1>2, <1>3 DEF Fresh
<1>5. spent[q] = 0
  BY <1>2, <1>3 DEF Fresh
<1> QED BY <1>1, <1>4, <1>5

LEMMA NothingSpent ==
  ASSUME IsTable, table' = table, spent' = NoneSpent
  PROVE  Unspent'
<1>1. \A r \in InUse : r \in All
  BY PlacesAreColumns
<1>2. \A r \in All : NoneSpent[r] = 0 /\ 0 < MaxAttempts
  BY JourneyAssumption DEF NoneSpent
<1>3. \A r \in All : spent'[r] = 0
  BY <1>2
<1> QED BY <1>1, <1>2, <1>3 DEF Unspent, Fresh, InUse, S


LEMMA SpentKept ==
  ASSUME TicketInv, ClaimInv, Undisturbed => SpentInv, Undisturbed', Next
  PROVE  SpentInv'
<1>1. IsTable /\ MaxAttempts \in Nat \ {0} /\ Budget \in Nat
  BY JourneyAssumption DEF TicketInv
<1>2. Unspent' /\ (worker' = "dev" /\ report' = "returned" => spent' = NoneSpent) => SpentInv'
  BY DEF SpentInv, Unspent, NoneSpent, InUse, All, S, Fresh, Rank
<1>3. ASSUME NEW r \in InUse, Take(r)
      PROVE  SpentInv'
  <2>1. /\ worker' = r /\ report' = Unreported /\ column = S(r).ready /\ column' = S(r).working
        /\ spent' = [spent EXCEPT ![r] = @ + 1] /\ UNCHANGED <<table, budget, sentBack>>
    BY <1>3 DEF Take, Queued, ClaimInv, route, history
  <2>2. SpentInv
    BY <2>1 DEF Undisturbed
  <2>3. ASSUME NEW q \in InUse \ {"resolve"}, column' \in {S(q).ready, S(q).working}
        PROVE  Fresh(Rank[q])' /\ column' # S(q).ready
    <3>1. column' = S(q).working /\ column' # S(q).ready
      BY <1>1, <2>1, <2>3, QueuesApart
    <3>2. r = q \/ r = "resolve"
      BY <1>1, <2>1, <3>1, QueuesApart
    <3>3. CASE r = q
      <4>1. Fresh(Rank[q])
        BY <2>1, <2>2, <2>3, <3>3 DEF SpentInv
      <4>2. \A s \in All : Rank[s] \in Nat
        BY RanksAre, AllIs
      <4>3. \A s \in All : Rank[s] > Rank[q] => s # r
        BY <3>3, <4>2
      <4>4. \A s \in All : s # r => spent'[s] = spent[s]
        BY <2>1 DEF TicketInv
      <4> QED BY <3>1, <4>1, <4>3, <4>4 DEF Fresh
    <3>4. CASE r = "resolve"
      <4>1. q = "integrate"
        BY <1>1, <2>1, <3>1, <3>4, StagePlaces, ZenonT(30) DEF Places
      <4>2. Rank[q] = 8
        BY <4>1 DEF Rank
      <4>3. \A s \in All : Rank[s] > 8 => s = "resolve"
        <5>1. \A s \in All : Rank[s] \in 1..9 /\ (Rank[s] = 9 => s = "resolve")
          BY RanksAre, AllIs
        <5> QED BY <5>1
      <4> QED BY <3>1, <4>2, <4>3 DEF Fresh
    <3> QED BY <3>2, <3>3, <3>4
  <2>4. Unspent'
    BY <2>1, <2>3 DEF Unspent, InUse, S
  <2> QED BY <1>2, <2>1, <2>4 DEF Unreported
<1>4. ASSUME NEW r \in InUse, Handle(r)
      PROVE  SpentInv'
  <2>1. Handled(r)
    BY <1>4, HandlersReport
  <2>2. budget' = budget /\ budget = Budget /\ sentBack' = sentBack /\ table' = table
    <3>1. budget \in 0..Budget /\ budget' = Budget
      BY DEF TicketInv, Undisturbed
    <3>2. budget' = budget \/ budget' = budget - 1
      BY <2>1 DEF Handled, Lost
    <3>3. budget' = budget
      BY <1>1, <3>1, <3>2
    <3> QED BY <2>1, <3>1, <3>3 DEF Handled
  <2>3. SpentInv /\ Unspent
    BY <2>2 DEF Undisturbed, SpentInv, Unspent
  <2>4. worker' = "dev" /\ report' = "returned" => spent' = NoneSpent
    BY <2>1, <2>2 DEF Handled
  <2>5. CASE spent' = NoneSpent
    BY <1>1, <1>2, <2>2, <2>4, <2>5, NothingSpent
  <2>6. CASE spent' = spent /\ column' = column
    BY <1>2, <2>2, <2>3, <2>4, <2>6 DEF Unspent, Fresh, InUse, S
  <2>7. CASE spent' = spent /\ report' = "handled"
    <3>1. r = "pm" /\ column = S(r).working /\ column' = "ready_for_tests"
      <4>1. r \in StageNames /\ r # Nobody
        BY <1>1, PlacesAreColumns
      <4> QED BY <2>1, <2>7, <4>1, ReportableIs DEF Handled, ClaimInv, Unreported
    <3>2. Fresh(Rank["pm"])
      BY <2>3, <3>1 DEF Unspent
    <3>3. ASSUME NEW q \in InUse \ {"resolve"}, column' \in {S(q).ready, S(q).working}
          PROVE  q = "test"
      BY <1>1, <3>1, <3>3, StagePlaces
         DEF Places, Inbox, Tracking, Blocked, Done, Conflicted, NoColumn
    <3>4. \A s \in All : Rank[s] > Rank["test"] => Rank[s] > Rank["pm"]
      <4>1. \A s \in All : Rank[s] \in Nat
        BY RanksAre, AllIs
      <4>2. Rank["test"] = 4 /\ Rank["pm"] = 2
        BY DEF Rank
      <4> QED BY <4>1, <4>2
    <3>5. Fresh(Rank["test"]) /\ spent["test"] < MaxAttempts
      <4>1. spent["test"] = 0
        <5>1. "test" \in All /\ Rank["test"] > Rank["pm"]
          BY AllIs DEF StageNames, Rank
        <5> QED BY <3>2, <5>1 DEF Fresh
      <4> QED BY <1>1, <3>2, <3>4, <4>1 DEF Fresh
    <3> QED BY <1>2, <2>2, <2>4, <2>7, <3>3, <3>5 DEF Unspent, Fresh, InUse, S
  <2> QED BY <2>1, <2>5, <2>6, <2>7 DEF Handled
<1>5. ASSUME NEW r \in InUse, Settle(r)
      PROVE  SpentInv'
  <2>1. /\ Routed(r) /\ worker = r /\ worker' = Nobody /\ r # Nobody /\ report # Unreported
        /\ UNCHANGED <<table, spent, budget>> /\ r \in StageNames
        /\ sentBack' = sentBack \cup {s \in {r} : report = "returned"}
    BY <1>1, <1>5, OutcomesAreRouted, PlacesAreColumns DEF Settle, route, notes
  <2>2. SpentInv /\ Unspent /\ ~(r \in {"review", "resolve"} /\ report = "returned")
    <3>1. sentBack \subseteq sentBack' /\ (report = "returned" => r \in sentBack')
      BY <2>1
    <3>2. Undisturbed /\ ~(r \in {"review", "resolve"} /\ report = "returned")
      BY <2>1, <3>1 DEF Undisturbed
    <3> QED BY <3>2 DEF SpentInv, Unspent
  <2>3. report \in Reportable(r) /\ (report # "handled" => column = S(r).working)
    BY <2>1 DEF ClaimInv
  <2>4. report # "handled" /\ r # "resolve" => Fresh(Rank[r])
    BY <2>2, <2>3 DEF Unspent
  <2>5. CASE column' \in {S(r).success, S(r).exhausted} /\ report # "handled"
    BY <1>2, <2>1, <2>4, <2>5, UnspentOnward DEF Nobody
  <2>6. CASE report = "handled" /\ column' = column
    BY <1>2, <2>1, <2>2, <2>6 DEF Unspent, Fresh, InUse, S, Nobody
  <2>7. CASE report = "conflicted" /\ column' = Conflicted
    <3>1. \A q \in InUse \ {"resolve"} : column' \notin {S(q).ready, S(q).working}
      BY <1>1, <2>7, QueuesApart
    <3> QED BY <1>2, <2>1, <3>1 DEF Unspent, InUse, S, Nobody
  <2>8. CASE /\ report = "returned"
             /\ column' = IF S(r).returns = NoColumn THEN S(r).exhausted ELSE S(r).returns
    <3>1. r \in {"dev", "maintain"}
      BY <2>1, <2>2, <2>3, <2>8, ReportableIs
    <3>2. CASE r = "maintain"
      <4>1. column' = S(r).exhausted
        BY <1>1, <2>8, <3>2, StagePlaces DEF Places
      <4> QED BY <2>5, <2>8, <4>1
    <3>3. CASE r = "dev"
      <4>1. spent' = NoneSpent
        BY <2>1, <2>2, <2>8, <3>3 DEF SpentInv
      <4> QED BY <1>1, <1>2, <2>1, <4>1, NothingSpent DEF Nobody
    <3> QED BY <3>1, <3>2, <3>3
  <2>9. CASE report = "failed" /\ column' = S(r).ready /\ spent[r] < MaxAttempts
    <3>1. ASSUME NEW q \in InUse \ {"resolve"}, column' \in {S(q).ready, S(q).working}
          PROVE  q = r /\ r # "resolve"
      BY <1>1, <2>9, <3>1, QueuesApart
    <3> QED BY <1>2, <2>1, <2>4, <2>9, <3>1 DEF Unspent, Fresh, InUse, S, Nobody
  <2> QED BY <2>1, <2>5, <2>6, <2>7, <2>8, <2>9 DEF Routed
<1>6. ASSUME NEW r \in InUse, Interrupt(r)
      PROVE  SpentInv'
  <2>1. budget' = budget - 1 /\ budget \in 0..Budget /\ budget' = Budget
    BY <1>6 DEF Interrupt, Lost, TicketInv, Undisturbed
  <2> QED BY <1>1, <2>1
<1>7. ASSUME NEW r \in InUse, Sweep(r)
      PROVE  SpentInv'
  <2>1. /\ worker' = worker /\ report' = report /\ worker = Nobody /\ column = S(r).ready
        /\ column' = S(r).exhausted /\ UNCHANGED <<table, spent, budget, sentBack>>
    BY <1>7 DEF Sweep, Queued, route, notes, history
  <2>2. Unspent
    BY <2>1 DEF Undisturbed, SpentInv, Unspent
  <2>3. r # "resolve" => Fresh(Rank[r])
    BY <2>1, <2>2 DEF Unspent
  <2> QED BY <1>2, <2>1, <2>3, UnspentOnward DEF Nobody
<1>8. CASE Prerequisite
  <2>1. UNCHANGED <<table, column, spent, worker, report, budget, sentBack>>
    BY <1>8 DEF Prerequisite, route, notes, history
  <2>2. SpentInv
    BY <2>1 DEF Undisturbed
  <2> QED BY <2>1, <2>2 DEF SpentInv, Fresh, InUse, S
<1> QED BY <1>3, <1>4, <1>5, <1>6, <1>7, <1>8 DEF Next


LEMMA MarksKept ==
  ASSUME TicketInv, ClaimInv, Undisturbed => MarksInv, Undisturbed', Next
  PROVE  MarksInv'
<1>1. IsTable /\ Budget \in Nat /\ budget \in 0..Budget /\ budget' = Budget
  BY JourneyAssumption DEF TicketInv, Undisturbed
<1>2. ASSUME NEW r \in InUse, Take(r)
      PROVE  MarksInv'
  <2>1. /\ worker' = r /\ report' = Unreported /\ column = S(r).ready /\ column' = S(r).working
        /\ UNCHANGED <<table, budget, sentBack, marks>>
    BY <1>2 DEF Take, Queued, ClaimInv, route, history
  <2>2. MarksInv
    BY <2>1 DEF Undisturbed
  <2>3. r = "architect" => column = Inbox
    BY <1>1, <2>1, StagePlaces DEF Places
  <2>4. column' # Inbox
    BY <1>1, <2>1, StagePlaces DEF Places, Inbox
  <2>5. column' \in Integrating \cup Reviewing => column \in Integrating \cup Reviewing
    BY <1>1, <2>1, StagePlaces
       DEF Places, Integrating, Reviewing, Inbox, Tracking, Blocked, Done, Conflicted
  <2> QED BY <2>1, <2>2, <2>3, <2>4, <2>5 DEF MarksInv, InUse, Unreported
<1>3. ASSUME NEW r \in InUse, Handle(r)
      PROVE  MarksInv'
  <2>1. Handled(r)
    BY <1>3, HandlersReport
  <2>2. budget' = budget /\ budget = Budget /\ sentBack' = sentBack /\ table' = table
    <3>1. budget' = budget \/ budget' = budget - 1
      BY <2>1 DEF Handled, Lost
    <3>2. budget' = budget
      BY <1>1, <3>1
    <3> QED BY <1>1, <2>1, <3>2 DEF Handled
  <2>3. MarksInv
    BY <2>2 DEF Undisturbed
  <2>4. column = S(r).working /\ column # Inbox
    <3>1. column = S(r).working
      BY <1>1, <2>1, PlacesAreColumns DEF Handled, ClaimInv, Unreported
    <3> QED BY <1>1, <3>1, StagePlaces DEF Places, Inbox
  <2> QED BY <2>1, <2>2, <2>3, <2>4
          DEF Handled, MarksInv, Integrating, Reviewing, Inbox, Conflicted, Unreported, InUse
<1>4. ASSUME NEW r \in InUse, Settle(r)
      PROVE  MarksInv'
  <2>1. /\ Routed(r) /\ worker = r /\ worker' = Nobody /\ r # Nobody /\ report # Unreported
        /\ UNCHANGED <<table, marks, budget>> /\ report' = Unreported /\ r \in StageNames
        /\ sentBack' = sentBack \cup {s \in {r} : report = "returned"}
    BY <1>1, <1>4, OutcomesAreRouted, PlacesAreColumns DEF Settle, route, notes
  <2>2. MarksInv /\ ~(r \in {"review", "resolve"} /\ report = "returned")
    <3>1. sentBack \subseteq sentBack' /\ (report = "returned" => r \in sentBack')
      BY <2>1
    <3>2. Undisturbed /\ ~(r \in {"review", "resolve"} /\ report = "returned")
      BY <2>1, <3>1 DEF Undisturbed
    <3> QED BY <3>2
  <2>3. /\ report \in Reportable(r)
        /\ IF report = "handled" THEN column = "ready_for_tests" ELSE column = S(r).working
    BY <2>1 DEF ClaimInv
  <2>4. ASSUME column' \in Integrating \cup Reviewing
        PROVE  "branch" \in marks
    <3>1. CASE r \in {"dev", "maintain"}
      <4>1. report = "success" \/ column' \in {S(r).ready, S(r).exhausted, S(r).returns}
        <5>1. report # "handled" /\ report # "conflicted"
          BY <2>1, <2>3, <3>1, ReportableIs
        <5> QED BY <2>1, <5>1 DEF Routed
      <4>2. column' \notin {S(r).ready, S(r).exhausted, S(r).returns}
        BY <1>1, <2>4, <3>1, StagePlaces
           DEF Places, Integrating, Reviewing, Blocked, Conflicted, NoColumn
      <4> QED BY <2>1, <2>2, <3>1, <4>1, <4>2 DEF MarksInv
    <3>2. CASE r \in {"coverage", "review", "integrate", "resolve"}
      <4>1. column = S(r).working
        BY <2>1, <2>3, <3>2, ReportableIs
      <4>2. column \in Integrating \cup Reviewing
        BY <1>1, <3>2, <4>1, StagePlaces DEF Places, Integrating, Reviewing
      <4> QED BY <2>2, <4>2 DEF MarksInv
    <3>3. CASE r \in {"architect", "pm", "ticketmerge", "test", "spec", "specmerge"}
      <4>1. report # "conflicted" /\ report # "returned"
        BY <2>1, <2>3, <3>3, ReportableIs
      <4>2. column' \in {S(r).success, S(r).ready, S(r).exhausted, "ready_for_tests"}
        BY <2>1, <2>3, <4>1 DEF Routed
      <4> QED BY <1>1, <2>4, <3>3, <4>2, StagePlaces
              DEF Places, Integrating, Reviewing, Inbox, Tracking, Blocked, Done, Conflicted
    <3> QED BY <2>1, <3>1, <3>2, <3>3 DEF StageNames
  <2>5. ASSUME "architect" \in InUse, column' = Inbox
        PROVE  "designed" \notin marks
    <3>1. S("pm").ready = "ready_for_scoping"
      BY <1>1, <2>5, Rows
    <3>2. column' = S(r).ready /\ report = "failed" /\ r = "architect"
      <4>1. column' # S(r).success /\ column' # S(r).exhausted /\ column' # S(r).returns
            /\ column' # S(r).working /\ (column' = S(r).ready => r = "architect")
        BY <1>1, <2>5, <3>1, StagePlaces
           DEF Places, Inbox, Tracking, Blocked, Done, Conflicted, NoColumn
      <4> QED BY <2>1, <2>3, <2>5, <4>1 DEF Routed, Inbox, Conflicted
    <3> QED BY <2>1, <2>2, <2>5, <3>2 DEF MarksInv
  <2> QED BY <2>1, <2>4, <2>5 DEF MarksInv, InUse, Nobody
<1>5. ASSUME NEW r \in InUse, Interrupt(r)
      PROVE  MarksInv'
  <2>1. budget' = budget - 1
    BY <1>5 DEF Interrupt, Lost
  <2> QED BY <1>1, <2>1
<1>6. ASSUME NEW r \in InUse, Sweep(r)
      PROVE  MarksInv'
  <2>1. /\ worker' = worker /\ report' = report /\ worker = Nobody /\ column = S(r).ready
        /\ column' = S(r).exhausted /\ UNCHANGED <<table, marks, budget, sentBack>>
    BY <1>6 DEF Sweep, Queued, route, notes, history
  <2>2. MarksInv
    BY <2>1 DEF Undisturbed
  <2>3. column' # Inbox
    BY <1>1, <2>1, StagePlaces DEF Places, Inbox, Blocked
  <2>4. column' \in Integrating \cup Reviewing => column \in Integrating \cup Reviewing
    BY <1>1, <2>1, StagePlaces
       DEF Places, Integrating, Reviewing, Inbox, Tracking, Blocked, Done, Conflicted
  <2> QED BY <2>1, <2>2, <2>3, <2>4 DEF MarksInv, InUse, Nobody
<1>7. CASE Prerequisite
  <2>1. UNCHANGED <<table, column, marks, worker, report, budget, sentBack>>
    BY <1>7 DEF Prerequisite, route, notes, history
  <2>2. MarksInv
    BY <2>1 DEF Undisturbed
  <2> QED BY <2>1, <2>2 DEF MarksInv, InUse
<1> QED BY <1>2, <1>3, <1>4, <1>5, <1>6, <1>7 DEF Next

-----------------------------------------------------------------------------
(* The theorems.                                                           *)

LEMMA JourneyStarts ==
  ASSUME Init
  PROVE  JourneyInv
<1>1. IsTable /\ MaxAttempts \in Nat \ {0} /\ Budget \in Nat /\ MaxSpecRepairs \in Nat
  BY JourneyAssumption DEF Init, IsTable
<1>2. /\ entry \in Entries /\ column = entry
      /\ entry \in {Inbox, "ready_for_ticket_merge", "ready_for_spec_merge", "ready_for_spec",
                    "ready_for_maintenance"}
  BY JourneyAssumption DEF Init
<1>3. spent = NoneSpent /\ spent \in [All -> 0..MaxAttempts] /\ \A r \in All : spent[r] = 0
  BY <1>1 DEF Init, NoneSpent
<1>4. TicketInv
  <2>1. budget = Budget /\ returns = 0 /\ repairs = 0
    BY DEF Init
  <2>2. budget \in 0..Budget /\ returns \in Nat /\ returns + budget <= Budget
        /\ repairs \in 0..MaxSpecRepairs
    BY <1>1, <2>1
  <2> QED BY <1>1, <1>2, <1>3, <2>2 DEF Init, TicketInv, Columns, Inbox
<1>5. ClaimInv
  BY DEF Init, ClaimInv
<1>6. GateInv
  BY <1>2 DEF Init, GateInv, Integrating, Reviewing, Developing, Inbox, Done, Conflicted, Nobody
<1>7. MarksInv
  BY <1>2 DEF Init, MarksInv, Integrating, Reviewing, Inbox, Conflicted, Nobody
<1>8. SpentInv
  <2>1. worker # "dev"
    BY DEF Init, Nobody
  <2>2. \A k : Fresh(k)
    BY <1>3 DEF Fresh
  <2>3. \A r \in InUse : spent[r] < MaxAttempts
    BY <1>1, <1>3, PlacesAreColumns
  <2> QED BY <2>1, <2>2, <2>3 DEF SpentInv
<1> QED BY <1>4, <1>5, <1>6, <1>7, <1>8 DEF JourneyInv

LEMMA JourneyGoesOn ==
  ASSUME JourneyInv, [Next]_vars
  PROVE  JourneyInv'
<1>1. CASE Next
  BY <1>1, TicketKept, ClaimKept, GateKept, MarksKept, SpentKept DEF JourneyInv
<1>2. CASE UNCHANGED vars
  <2>1. /\ UNCHANGED <<table, entry, column, prereq, worker, report, spent, marks, repairs>>
        /\ UNCHANGED <<returns, budget, passed, sentBack, merged>>
    BY <1>2 DEF vars, route, notes, history
  <2>2. TicketInv' /\ ClaimInv' /\ GateInv'
    BY <2>1 DEF JourneyInv, TicketInv, IsTable, ClaimInv, GateInv, InUse, S
  <2>3. Undisturbed' => MarksInv' /\ SpentInv'
    BY <2>1 DEF JourneyInv, Undisturbed, MarksInv, SpentInv, Fresh, InUse, S
  <2> QED BY <2>2, <2>3 DEF JourneyInv
<1> QED BY <1>1, <1>2

LEMMA JourneyHolds == Spec => []JourneyInv
BY JourneyStarts, JourneyGoesOn, PTL DEF Spec

(* The gates hold on every way through the stages (internal/agent, routed  *)
(* by internal/workflow and internal/dispatch), for every department, any   *)
(* bounds and any number of losses: done means merged, nothing is           *)
(* integrated that was not reviewed since it was written, and nothing is    *)
(* developed before it is specified.                                        *)
THEOREM GatesAreKept == Spec => []GatesHold
<1>1. ASSUME JourneyInv
      PROVE  GatesHold
  <2>1. IsTable /\ TicketInv /\ ClaimInv /\ GateInv /\ Budget \in Nat
    BY <1>1, JourneyAssumption DEF JourneyInv, TicketInv
  <2>2. TypeOK
    <3>1. report \in Outcomes \cup {Unreported}
      <4>1. worker # Nobody => worker \in StageNames
        BY <2>1, PlacesAreColumns DEF ClaimInv
      <4> QED BY <2>1, <4>1, ReportableIs DEF ClaimInv, Outcomes
    <3>2. returns \in 0..Budget
      BY <2>1 DEF TicketInv
    <3> QED BY <2>1, <3>1, <3>2 DEF TypeOK, TicketInv, ClaimInv
  <2>3. worker \in {"integrate", "resolve", "dev"} =>
          /\ worker \in InUse /\ worker # Nobody /\ report # "handled"
          /\ column = S(worker).working
    BY <2>1, ReportableIs DEF ClaimInv, StageNames, Nobody, Unreported
  <2>4. DoneIsMerged
    BY <2>1 DEF GateInv, DoneIsMerged
  <2>5. ReviewedBeforeIntegration
    BY <2>1, <2>3, StagePlaces DEF GateInv, ReviewedBeforeIntegration, Places, Integrating
  <2>6. TestsComeFirst
    BY <2>1, <2>3, StagePlaces DEF GateInv, TestsComeFirst, Places, Developing
  <2> QED BY <2>2, <2>4, <2>5, <2>6 DEF GatesHold
<1> QED BY <1>1, JourneyHolds, PTL

(* Going round never uses up a ticket of which nothing was lost: the stage  *)
(* it waits for can take it (dispatch.go with record.Attempts and the       *)
(* stages' Wants), whatever bounds are set, unless review or resolver       *)
(* handed it back.                                                          *)
THEOREM RoundsLeaveRoom == Spec => []QueuedIsTakeable
<1>1. ASSUME JourneyInv
      PROVE  QueuedIsTakeable
  <2> SUFFICES ASSUME NEW r \in InUse, Queued(r), prereq = "done", budget = Budget,
                      ~HandedBack(r)
               PROVE  Takeable(r)
    BY DEF QueuedIsTakeable
  <2>1. IsTable /\ MarksInv /\ SpentInv /\ r # "resolve" /\ column = S(r).ready
        /\ worker = Nobody
    BY <1>1 DEF JourneyInv, TicketInv, Undisturbed, HandedBack, Queued
  <2>2. spent[r] < MaxAttempts
    BY <2>1 DEF SpentInv
  <2>3. Wants(r)
    <3>1. CASE r = "architect"
      <4>1. column = Inbox
        BY <2>1, <3>1, StagePlaces DEF Places
      <4> QED BY <2>1, <3>1, <4>1 DEF MarksInv, Wants
    <3>2. CASE r \in {"review", "integrate"}
      <4>1. column \in Integrating \cup Reviewing
        BY <2>1, <3>2, StagePlaces DEF Places, Integrating, Reviewing
      <4> QED BY <2>1, <3>2, <4>1 DEF MarksInv, Wants
    <3>3. CASE r \notin {"architect", "review", "integrate"}
      <4>1. Wants(r) = TRUE
        BY <2>1, <3>3, Zenon DEF Wants
      <4> QED BY <4>1
    <3> QED BY <3>1, <3>2, <3>3
  <2> QED BY <2>2, <2>3 DEF Takeable
<1> QED BY <1>1, JourneyHolds, PTL

-----------------------------------------------------------------------------
(*------------------- how a request becomes tickets -----------------------*)

-----------------------------------------------------------------------------
(* Induction over the natural numbers, and lists that are built step by     *)
(* step.                                                                    *)

LEMMA LeastOf ==
  ASSUME NEW ids, ids \subseteq Nat, ids # {}
  PROVE  \E i \in ids : \A j \in ids : i <= j
<1> DEFINE R == OpToRel(<, Nat)
<1>1. IsWellFoundedOn(R, Nat)
  BY NatLessThanWellFounded
<1>2. \A x, y \in Nat : y < x => <<y, x>> \in R
  BY DEF R, OpToRel
<1> HIDE DEF R
<1>3. PICK x \in ids : \A y \in ids : ~(<<y, x>> \in R)
  BY <1>1, WFMin
<1>4. \A y \in ids : ~(y < x)
  BY <1>2, <1>3, Zenon
<1> QED BY <1>4

(* A set of numbers that has 0 and with every number the next has them all. *)
LEMMA Induction ==
  ASSUME NEW Z, 0 \in Z, \A n \in Nat : n \in Z => n + 1 \in Z
  PROVE  Nat \subseteq Z
<1> SUFFICES ASSUME Nat \ Z # {} PROVE FALSE
  OBVIOUS
<1>1. PICK m \in Nat \ Z : \A k \in Nat \ Z : m <= k
  BY LeastOf
<1>2. m - 1 \in Nat /\ m - 1 \notin Nat \ Z
  BY <1>1
<1> QED BY <1>1, <1>2

Adds(f, n, calls) == f = [k \in 0..n |-> IF k = 0 THEN <<>> ELSE f[k - 1] \o calls[k]]

LEMMA AddsExist ==
  ASSUME NEW calls
  PROVE  \A n \in Nat : \E f : Adds(f, n, calls)
<1> DEFINE Z == {n \in Nat : \E f : Adds(f, n, calls)}
<1>1. 0 \in Z
  <2>1. Adds([k \in 0..0 |-> <<>>], 0, calls)
    BY DEF Adds
  <2> QED BY <2>1
<1>2. ASSUME NEW n \in Nat, n \in Z PROVE n + 1 \in Z
  <2>1. PICK f : Adds(f, n, calls)
    BY <1>2
  <2> DEFINE g == [k \in 0..n + 1 |-> IF k = n + 1 THEN f[n] \o calls[k] ELSE f[k]]
  <2>2. ASSUME NEW k \in 0..n + 1
        PROVE  g[k] = IF k = 0 THEN <<>> ELSE g[k - 1] \o calls[k]
    BY <2>1 DEF Adds
  <2>3. Adds(g, n + 1, calls)
    BY <2>2 DEF Adds
  <2> QED BY <2>3
<1> HIDE DEF Z
<1>3. Nat \subseteq Z
  BY <1>1, <1>2, Induction
<1> QED BY <1>3 DEF Z

LEMMA AddsAgree ==
  ASSUME NEW calls, NEW n \in Nat, NEW m \in Nat, NEW f, NEW g,
         Adds(f, n, calls), Adds(g, m, calls)
  PROVE  \A k \in Nat : k <= n /\ k <= m => f[k] = g[k]
<1> DEFINE Z == {k \in Nat : k <= n /\ k <= m => f[k] = g[k]}
<1>1. 0 \in Z
  BY DEF Adds
<1>2. ASSUME NEW k \in Nat, k \in Z PROVE k + 1 \in Z
  BY <1>2 DEF Adds
<1> HIDE DEF Z
<1>3. Nat \subseteq Z
  BY <1>1, <1>2, Induction
<1> QED BY <1>3 DEF Z

LEMMA EachAdds ==
  ASSUME NEW calls, NEW n \in Nat
  PROVE  \E f : Adds(f, n, calls) /\ f[n] = Each(n, calls)
<1>1. PICK f : Adds(f, n, calls)
  BY AddsExist
<1> QED BY <1>1 DEF Adds, Each

(* Each is what it says: nothing for 0, and one more list for one more.     *)
LEMMA EachSteps ==
  ASSUME NEW calls
  PROVE  /\ Each(0, calls) = <<>>
         /\ \A n \in Nat \ {0} : Each(n, calls) = Each(n - 1, calls) \o calls[n]
<1>1. Each(0, calls) = <<>>
  <2>1. PICK f : Adds(f, 0, calls) /\ f[0] = Each(0, calls)
    BY EachAdds
  <2>2. f[0] = <<>>
    BY <2>1 DEF Adds
  <2> QED BY <2>1, <2>2
<1>2. ASSUME NEW n \in Nat \ {0} PROVE Each(n, calls) = Each(n - 1, calls) \o calls[n]
  <2>1. PICK f : Adds(f, n - 1, calls) /\ f[n - 1] = Each(n - 1, calls)
    BY EachAdds
  <2>2. PICK g : Adds(g, n, calls) /\ g[n] = Each(n, calls)
    BY EachAdds
  <2>3. f[n - 1] = g[n - 1]
    BY <2>1, <2>2, AddsAgree
  <2>4. n \in 0..n /\ n # 0
    OBVIOUS
  <2>5. g[n] = g[n - 1] \o calls[n]
    BY <2>2, <2>4, Zenon DEF Adds
  <2> QED BY <2>1, <2>2, <2>3, <2>5
<1> QED BY <1>1, <1>2

LEMMA EachNone ==
  ASSUME NEW calls
  PROVE  Each(0, calls) = <<>>
BY EachSteps, Zenon

LEMMA EachNext ==
  ASSUME NEW calls, NEW n \in Nat
  PROVE  Each(n + 1, calls) = Each(n, calls) \o calls[n + 1]
<1>1. n + 1 \in Nat \ {0} /\ n + 1 - 1 = n
  OBVIOUS
<1> DEFINE m == n + 1
<1>2. m \in Nat \ {0} /\ m - 1 = n
  BY <1>1
<1> HIDE DEF m
<1>3. Each(m, calls) = Each(m - 1, calls) \o calls[m]
  BY <1>2, EachSteps, Zenon
<1>4. Each(m, calls) = Each(n, calls) \o calls[m]
  BY <1>2, <1>3, Zenon
<1> QED BY <1>4 DEF m

LEMMA EachIsSeq ==
  ASSUME NEW Z, NEW calls, NEW n \in Nat, \A k \in 1..n : calls[k] \in Seq(Z)
  PROVE  Each(n, calls) \in Seq(Z)
<1> DEFINE Good == {m \in Nat : m <= n => Each(m, calls) \in Seq(Z)}
<1>1. 0 \in Good
  <2>1. Each(0, calls) = <<>>
    BY EachNone, Zenon
  <2>2. <<>> \in Seq(Z)
    OBVIOUS
  <2>3. 0 \in Nat
    OBVIOUS
  <2> QED BY <2>1, <2>2, <2>3, Zenon
<1>2. ASSUME NEW m \in Nat, m \in Good PROVE m + 1 \in Good
  <2>1. Each(m + 1, calls) = Each(m, calls) \o calls[m + 1]
    BY EachNext, Zenon
  <2>2. ASSUME m + 1 <= n PROVE Each(m + 1, calls) \in Seq(Z)
    <3>1. m <= n /\ m + 1 \in 1..n
      BY <2>2
    <3>2. Each(m, calls) \in Seq(Z) /\ calls[m + 1] \in Seq(Z)
      BY <1>2, <3>1, Zenon
    <3>3. Each(m, calls) \o calls[m + 1] \in Seq(Z)
      BY <3>2, ConcatProperties, Zenon
    <3> QED BY <2>1, <3>3, Zenon
  <2> QED BY <2>2
<1> HIDE DEF Good
<1>3. Nat \subseteq Good
  BY <1>1, <1>2, Induction
<1> QED BY <1>3 DEF Good

Has(list, call) == \E q \in 1..Len(list) : list[q] = call

LEMMA HasConcat ==
  ASSUME NEW Z, NEW s \in Seq(Z), NEW t \in Seq(Z), NEW call
  PROVE  Has(s \o t, call) <=> Has(s, call) \/ Has(t, call)
<1>1. Len(s \o t) = Len(s) + Len(t)
  OBVIOUS
<1>2. \A q \in 1..Len(s) : (s \o t)[q] = s[q]
  OBVIOUS
<1>3. \A q \in 1..Len(t) : (s \o t)[q + Len(s)] = t[q]
  OBVIOUS
<1>4. ASSUME Has(s \o t, call) PROVE Has(s, call) \/ Has(t, call)
  <2>1. PICK q \in 1..Len(s) + Len(t) : (s \o t)[q] = call
    BY <1>1, <1>4 DEF Has
  <2>2. CASE q <= Len(s)
    BY <1>2, <2>1, <2>2 DEF Has
  <2>3. CASE q > Len(s)
    <3>1. q - Len(s) \in 1..Len(t) /\ q - Len(s) + Len(s) = q
      BY <2>3
    <3>2. t[q - Len(s)] = call
      BY <1>3, <2>1, <3>1
    <3> QED BY <3>1, <3>2 DEF Has
  <2> QED BY <2>2, <2>3
<1>5. ASSUME Has(s, call) PROVE Has(s \o t, call)
  BY <1>1, <1>2, <1>5 DEF Has
<1>6. ASSUME Has(t, call) PROVE Has(s \o t, call)
  <2>1. PICK q \in 1..Len(t) : t[q] = call
    BY <1>6 DEF Has
  <2>2. q + Len(s) \in 1..Len(s \o t) /\ (s \o t)[q + Len(s)] = call
    BY <1>1, <1>3, <2>1
  <2> QED BY <2>2 DEF Has
<1> QED BY <1>4, <1>5, <1>6

LEMMA EachHas ==
  ASSUME NEW Z, NEW calls, NEW n \in Nat, \A k \in 1..n : calls[k] \in Seq(Z),
         NEW call
  PROVE  Has(Each(n, calls), call) <=> \E k \in 1..n : Has(calls[k], call)
<1> DEFINE Good == {m \in Nat : m <= n => (Has(Each(m, calls), call)
                                           <=> \E k \in 1..m : Has(calls[k], call))}
<1>1. 0 \in Good
  <2>1. ~Has(<<>>, call)
    BY DEF Has
  <2>2. Each(0, calls) = <<>>
    BY EachNone, Zenon
  <2>3. 1..0 = {}
    OBVIOUS
  <2> QED BY <2>1, <2>2, <2>3, Zenon
<1>2. ASSUME NEW m \in Nat, m \in Good PROVE m + 1 \in Good
  <2> SUFFICES ASSUME m + 1 <= n
               PROVE  Has(Each(m + 1, calls), call) <=> \E k \in 1..m + 1 : Has(calls[k], call)
    OBVIOUS
  <2>1. Each(m + 1, calls) = Each(m, calls) \o calls[m + 1]
    BY EachNext, Zenon
  <2>2. Each(m, calls) \in Seq(Z)
    BY EachIsSeq
  <2>3. Has(Each(m + 1, calls), call) <=> Has(Each(m, calls), call) \/ Has(calls[m + 1], call)
    <3>1. calls[m + 1] \in Seq(Z)
      OBVIOUS
    <3>2. Has(Each(m, calls) \o calls[m + 1], call)
            <=> Has(Each(m, calls), call) \/ Has(calls[m + 1], call)
      BY <2>2, <3>1, HasConcat
    <3> QED BY <2>1, <3>2, Zenon
  <2>4. \A k : k \in 1..m + 1 <=> k \in 1..m \/ k = m + 1
    OBVIOUS
  <2> QED BY <1>2, <2>3, <2>4
<1> HIDE DEF Good
<1>3. Nat \subseteq Good
  BY <1>1, <1>2, Induction
<1> QED BY <1>3 DEF Good

-----------------------------------------------------------------------------
(* References, calls, and lists of calls in which every name is given       *)
(* before it is used.                                                       *)

Refs  == Seq(Nat)
Calls == [op : {"create", "edge", "move", "describe"}, on : Refs, to : Refs,
          column : Columns \cup {NoColumn}, units : SUBSET Nat]

LEMMA RefsAre ==
  ASSUME NEW u \in Nat, NEW p \in Nat
  PROVE  /\ This(u) \in Refs /\ Len(This(u)) = 1 /\ This(u)[1] = u
         /\ Name(u, p) \in Refs /\ Len(Name(u, p)) = 2
         /\ Name(u, p)[1] = u /\ Name(u, p)[2] = p
BY DEF Refs, This, Name

LEMMA CallIs ==
  ASSUME NEW op, NEW on, NEW to, NEW place, NEW units
  PROVE  /\ Call(op, on, to, place, units).op = op
         /\ Call(op, on, to, place, units).on = on
         /\ Call(op, on, to, place, units).to = to
         /\ Call(op, on, to, place, units).column = place
         /\ Call(op, on, to, place, units).units = units
BY DEF Call

LEMMA CallsAre ==
  ASSUME NEW on \in Refs, NEW to \in Refs, NEW place \in Columns, NEW units \in SUBSET Nat
  PROVE  /\ Create(to, on, place, units) \in Calls
         /\ Edge(on, to) \in Calls
         /\ MoveTo(on, place) \in Calls
         /\ Describe(on, units) \in Calls
<1>1. NoColumn \in Columns \cup {NoColumn} /\ Columns \subseteq Columns \cup {NoColumn}
  OBVIOUS
<1>2. {} \in SUBSET Nat
  OBVIOUS
<1>3. 0 \in Nat
  OBVIOUS
<1>4. This(0) \in Refs
  BY <1>3, RefsAre, Zenon
<1> QED BY <1>1, <1>2, <1>4 DEF Calls, Create, Edge, MoveTo, Describe, Call

In(list) == {list[q] : q \in 1..Len(list)}
Creates(list) == {list[j].to : j \in {j \in 1..Len(list) : list[j].op = "create"}}

LEMMA InIs ==
  ASSUME NEW list, NEW call
  PROVE  call \in In(list) <=> Has(list, call)
BY DEF In, Has

Uses(call) ==
  {r \in {call.on} \cup (IF call.op = "edge" THEN {call.to} ELSE {}) : Len(r) # 1}

Prior(name) == Section(name[1], name[2] - 1)

(* A call fits in where some names are known and some calls are still to    *)
(* come: it uses known names and gives a new one; the edges of a section    *)
(* follow it, and what a description says is asked of the sections that     *)
(* follow it.                                                               *)
Fits(c, known, later) ==
  /\ Uses(c) \subseteq known
  /\ c.op = "create" => c.to \notin known
  /\ c.op = "create" /\ c.to[2] > 0 => Edge(c.on, c.to) \in later
  /\ c.op = "create" /\ c.to[2] > 1 => Prior(c.to) \in known /\ Edge(c.to, Prior(c.to)) \in later
  /\ c.op = "create" /\ c.column = T.specmerge.ready =>
       \E d \in later : d.op = "create" /\ d.on = c.to /\ d.units = c.units
  /\ c.op = "describe" =>
       \A u \in c.units : \E d \in later : d.op = "create" /\ d.on = c.on /\ u \in d.units

Given(list, q) == {list[j].to : j \in {j \in 1..q - 1 : list[j].op = "create"}}
Later(list, q) == {list[j] : j \in q + 1..Len(list)}

Orderly(list, known, after) ==
  \A q \in 1..Len(list) : Fits(list[q], known \cup Given(list, q), Later(list, q) \cup after)

LEMMA FitsMore ==
  ASSUME NEW c, NEW known, NEW later, NEW more, later \subseteq more, Fits(c, known, later)
  PROVE  Fits(c, known, more)
BY Zenon DEF Fits

LEMMA OrderlyMore ==
  ASSUME NEW list, NEW known, NEW after, NEW more, after \subseteq more,
         Orderly(list, known, after)
  PROVE  Orderly(list, known, more)
<1>1. ASSUME NEW q \in 1..Len(list)
      PROVE  Fits(list[q], known \cup Given(list, q), Later(list, q) \cup more)
  <2>1. Fits(list[q], known \cup Given(list, q), Later(list, q) \cup after)
    BY Zenon DEF Orderly
  <2>2. Later(list, q) \cup after \subseteq Later(list, q) \cup more
    OBVIOUS
  <2> QED BY <2>1, <2>2, FitsMore, Zenon
<1> QED BY <1>1, Zenon DEF Orderly

LEMMA OrderlyNone ==
  ASSUME NEW known, NEW after
  PROVE  Orderly(<<>>, known, after) /\ Creates(<<>>) = {} /\ In(<<>>) = {}
BY DEF Orderly, Creates, In

LEMMA OrderlyOne ==
  ASSUME NEW c, NEW known, NEW after, Fits(c, known, after)
  PROVE  /\ Orderly(<<c>>, known, after)
         /\ Creates(<<c>>) = IF c.op = "create" THEN {c.to} ELSE {}
         /\ In(<<c>>) = {c}
<1>1. Len(<<c>>) = 1 /\ <<c>>[1] = c /\ 1..1 = {1} /\ 1..1 - 1 = {}
  OBVIOUS
<1>2. Given(<<c>>, 1) = {} /\ Later(<<c>>, 1) = {}
  BY DEF Given, Later
<1>3. known \cup {} = known /\ {} \cup after = after
  OBVIOUS
<1>4. Orderly(<<c>>, known, after)
  BY <1>1, <1>2, <1>3, Zenon DEF Orderly
<1> QED BY <1>1, <1>4 DEF Creates, In

LEMMA InConcat ==
  ASSUME NEW s \in Seq(Calls), NEW t \in Seq(Calls)
  PROVE  /\ Creates(s \o t) = Creates(s) \cup Creates(t)
         /\ In(s \o t) = In(s) \cup In(t)
         /\ \A q \in 1..Len(s) : /\ (s \o t)[q] = s[q]
                                 /\ Given(s \o t, q) = Given(s, q)
                                 /\ Later(s \o t, q) = Later(s, q) \cup In(t)
         /\ \A q \in 1..Len(t) : /\ (s \o t)[q + Len(s)] = t[q]
                                 /\ Given(s \o t, q + Len(s)) = Creates(s) \cup Given(t, q)
                                 /\ Later(s \o t, q + Len(s)) = Later(t, q)
<1>1. Len(s \o t) = Len(s) + Len(t) /\ Len(s) \in Nat /\ Len(t) \in Nat
  OBVIOUS
<1>2. \A q \in 1..Len(s) : (s \o t)[q] = s[q]
  OBVIOUS
<1>3. \A q \in 1..Len(t) : (s \o t)[q + Len(s)] = t[q]
  OBVIOUS
<1>4. \A q \in Len(s) + 1..Len(s) + Len(t) : (s \o t)[q] = t[q - Len(s)]
  OBVIOUS
<1>5. Creates(s \o t) = Creates(s) \cup Creates(t)
  <2> DEFINE J == {j \in 1..Len(s \o t) : (s \o t)[j].op = "create"}
  <2>1. ASSUME NEW j \in J PROVE (s \o t)[j].to \in Creates(s) \cup Creates(t)
    <3>1. CASE j <= Len(s)
      BY <1>1, <1>2, <2>1, <3>1 DEF Creates
    <3>2. CASE j > Len(s)
      <4>1. j - Len(s) \in 1..Len(t) /\ (s \o t)[j] = t[j - Len(s)]
        BY <1>1, <1>4, <2>1, <3>2
      <4> QED BY <2>1, <4>1 DEF Creates
    <3> QED BY <1>1, <2>1, <3>1, <3>2
  <2>2. ASSUME NEW j \in 1..Len(s), s[j].op = "create" PROVE s[j].to \in Creates(s \o t)
    BY <1>1, <1>2, <2>2 DEF Creates
  <2>3. ASSUME NEW j \in 1..Len(t), t[j].op = "create" PROVE t[j].to \in Creates(s \o t)
    <3>1. j + Len(s) \in 1..Len(s \o t) /\ (s \o t)[j + Len(s)] = t[j]
      BY <1>1, <1>3
    <3> QED BY <2>3, <3>1 DEF Creates
  <2> QED BY <2>1, <2>2, <2>3 DEF Creates
<1>6. In(s \o t) = In(s) \cup In(t)
  BY <1>1, <1>2, <1>3, <1>4 DEF In
<1>7. \A q \in 1..Len(s) : Given(s \o t, q) = Given(s, q)
  BY <1>1, <1>2 DEF Given
<1>8. ASSUME NEW q \in 1..Len(s)
      PROVE  Later(s \o t, q) = Later(s, q) \cup In(t)
  <2>1. ASSUME NEW j \in q + 1..Len(s \o t)
        PROVE  (s \o t)[j] \in Later(s, q) \cup In(t)
    <3>1. CASE j <= Len(s)
      <4>1. j \in q + 1..Len(s) /\ (s \o t)[j] = s[j]
        BY <1>1, <1>2, <3>1
      <4> QED BY <4>1 DEF Later
    <3>2. CASE j > Len(s)
      <4>1. j - Len(s) \in 1..Len(t) /\ (s \o t)[j] = t[j - Len(s)]
        BY <1>1, <1>4, <3>2
      <4> QED BY <4>1 DEF In
    <3> QED BY <1>1, <3>1, <3>2
  <2>2. ASSUME NEW j \in q + 1..Len(s)
        PROVE  s[j] \in Later(s \o t, q)
    <3>1. j \in q + 1..Len(s \o t) /\ (s \o t)[j] = s[j]
      BY <1>1, <1>2
    <3> QED BY <3>1 DEF Later
  <2>3. ASSUME NEW j \in 1..Len(t)
        PROVE  t[j] \in Later(s \o t, q)
    <3>1. j + Len(s) \in q + 1..Len(s \o t) /\ (s \o t)[j + Len(s)] = t[j]
      BY <1>1, <1>3
    <3> QED BY <3>1 DEF Later
  <2>4. Later(s \o t, q) \subseteq Later(s, q) \cup In(t)
    <3> HIDE DEF In
    <3> QED BY <2>1 DEF Later
  <2>5. Later(s, q) \subseteq Later(s \o t, q)
    BY <2>2 DEF Later
  <2>6. In(t) \subseteq Later(s \o t, q)
    BY <2>3 DEF In
  <2> QED BY <2>4, <2>5, <2>6
<1>9. ASSUME NEW q \in 1..Len(t)
      PROVE  Given(s \o t, q + Len(s)) = Creates(s) \cup Given(t, q)
  <2>1. ASSUME NEW j \in 1..q + Len(s) - 1, (s \o t)[j].op = "create"
        PROVE  (s \o t)[j].to \in Creates(s) \cup Given(t, q)
    <3>1. CASE j <= Len(s)
      BY <1>1, <1>2, <2>1, <3>1 DEF Creates
    <3>2. CASE j > Len(s)
      <4>1. j - Len(s) \in 1..q - 1 /\ (s \o t)[j] = t[j - Len(s)]
        BY <1>1, <1>4, <2>1, <3>2
      <4> QED BY <2>1, <4>1 DEF Given
    <3> QED BY <1>1, <2>1, <3>1, <3>2
  <2>2. ASSUME NEW j \in 1..Len(s), s[j].op = "create"
        PROVE  s[j].to \in Given(s \o t, q + Len(s))
    <3>1. j \in 1..q + Len(s) - 1 /\ (s \o t)[j] = s[j]
      BY <1>1, <1>2
    <3> QED BY <2>2, <3>1 DEF Given
  <2>3. ASSUME NEW j \in 1..q - 1, t[j].op = "create"
        PROVE  t[j].to \in Given(s \o t, q + Len(s))
    <3>1. j + Len(s) \in 1..q + Len(s) - 1 /\ (s \o t)[j + Len(s)] = t[j]
      BY <1>1, <1>3
    <3> QED BY <2>3, <3>1 DEF Given
  <2>4. Given(s \o t, q + Len(s)) \subseteq Creates(s) \cup Given(t, q)
    <3> HIDE DEF Given
    <3>1. \A x \in Given(s \o t, q + Len(s)) :
            \E j \in 1..q + Len(s) - 1 : (s \o t)[j].op = "create" /\ x = (s \o t)[j].to
      BY DEF Given
    <3> QED BY <2>1, <3>1
  <2>5. Creates(s) \subseteq Given(s \o t, q + Len(s))
    BY <2>2 DEF Creates
  <2>6. Given(t, q) \subseteq Given(s \o t, q + Len(s))
    <3> HIDE DEF Given
    <3>1. \A x \in Given(t, q) : \E j \in 1..q - 1 : t[j].op = "create" /\ x = t[j].to
      BY DEF Given
    <3> QED BY <2>3, <3>1
  <2> QED BY <2>4, <2>5, <2>6
<1>10. ASSUME NEW q \in 1..Len(t)
       PROVE  Later(s \o t, q + Len(s)) = Later(t, q)
  <2>1. ASSUME NEW j \in q + Len(s) + 1..Len(s \o t)
        PROVE  (s \o t)[j] \in Later(t, q)
    <3>1. j - Len(s) \in q + 1..Len(t) /\ (s \o t)[j] = t[j - Len(s)]
      BY <1>1, <1>4
    <3> QED BY <3>1 DEF Later
  <2>2. ASSUME NEW j \in q + 1..Len(t)
        PROVE  t[j] \in Later(s \o t, q + Len(s))
    <3>1. j + Len(s) \in q + Len(s) + 1..Len(s \o t) /\ (s \o t)[j + Len(s)] = t[j]
      BY <1>1, <1>3
    <3> QED BY <3>1 DEF Later
  <2> QED BY <2>1, <2>2 DEF Later
<1> QED BY <1>2, <1>3, <1>5, <1>6, <1>7, <1>8, <1>9, <1>10, Zenon

LEMMA OrderlyConcat ==
  ASSUME NEW s \in Seq(Calls), NEW t \in Seq(Calls), NEW known, NEW after,
         Orderly(s, known, In(t) \cup after), Orderly(t, known \cup Creates(s), after)
  PROVE  Orderly(s \o t, known, after)
<1>1. Len(s \o t) = Len(s) + Len(t) /\ Len(s) \in Nat /\ Len(t) \in Nat
  OBVIOUS
<1>2. ASSUME NEW q \in 1..Len(s)
      PROVE  Fits((s \o t)[q], known \cup Given(s \o t, q), Later(s \o t, q) \cup after)
  <2>1. /\ (s \o t)[q] = s[q] /\ Given(s \o t, q) = Given(s, q)
        /\ Later(s \o t, q) = Later(s, q) \cup In(t)
    <3>1. \A p \in 1..Len(s) : /\ (s \o t)[p] = s[p] /\ Given(s \o t, p) = Given(s, p)
                             /\ Later(s \o t, p) = Later(s, p) \cup In(t)
      BY InConcat
    <3> QED BY <3>1, Zenon
  <2>2. Fits(s[q], known \cup Given(s, q), Later(s, q) \cup (In(t) \cup after))
    BY Zenon DEF Orderly
  <2>3. Later(s, q) \cup (In(t) \cup after) = (Later(s, q) \cup In(t)) \cup after
    OBVIOUS
  <2> QED BY <2>1, <2>2, <2>3, Zenon
<1>3. ASSUME NEW q \in 1..Len(t)
      PROVE  Fits((s \o t)[q + Len(s)], known \cup Given(s \o t, q + Len(s)),
                  Later(s \o t, q + Len(s)) \cup after)
  <2>1. /\ (s \o t)[q + Len(s)] = t[q]
        /\ Given(s \o t, q + Len(s)) = Creates(s) \cup Given(t, q)
        /\ Later(s \o t, q + Len(s)) = Later(t, q)
    <3>1. \A p \in 1..Len(t) : /\ (s \o t)[p + Len(s)] = t[p]
                             /\ Given(s \o t, p + Len(s)) = Creates(s) \cup Given(t, p)
                             /\ Later(s \o t, p + Len(s)) = Later(t, p)
      BY InConcat
    <3> QED BY <3>1, Zenon
  <2>2. Fits(t[q], (known \cup Creates(s)) \cup Given(t, q), Later(t, q) \cup after)
    BY Zenon DEF Orderly
  <2>3. (known \cup Creates(s)) \cup Given(t, q) = known \cup (Creates(s) \cup Given(t, q))
    OBVIOUS
  <2> QED BY <2>1, <2>2, <2>3, Zenon
<1>4. ASSUME NEW q \in 1..Len(s \o t)
      PROVE  Fits((s \o t)[q], known \cup Given(s \o t, q), Later(s \o t, q) \cup after)
  <2>1. CASE q <= Len(s)
    <3>1. q \in 1..Len(s)
      BY <1>1, <2>1
    <3> QED BY <1>2, <3>1, Zenon
  <2>2. CASE q > Len(s)
    <3>1. q - Len(s) \in 1..Len(t) /\ q - Len(s) + Len(s) = q
      BY <1>1, <2>2
    <3>2. PICK m \in 1..Len(t) : m + Len(s) = q
      BY <3>1
    <3> QED BY <1>3, <3>2, Zenon
  <2> QED BY <1>1, <2>1, <2>2
<1> QED BY <1>4, Zenon DEF Orderly

LEMMA EachOrderly ==
  ASSUME NEW calls, NEW n \in Nat, NEW names, NEW after,
         \A k \in 1..n : calls[k] \in Seq(Calls),
         \A k \in 0..n - 1 : Orderly(calls[k + 1], names[k], after)
                             /\ names[k + 1] = names[k] \cup Creates(calls[k + 1])
  PROVE  /\ Orderly(Each(n, calls), names[0], after)
         /\ names[n] = names[0] \cup Creates(Each(n, calls))
<1> DEFINE Fine(m) == /\ Orderly(Each(m, calls), names[0], after)
                      /\ names[m] = names[0] \cup Creates(Each(m, calls))
           Good == {m \in Nat : m <= n => Fine(m)}
<1>1. 0 \in Good
  <2>1. Each(0, calls) = <<>>
    BY EachNone, Zenon
  <2>2. Orderly(<<>>, names[0], after) /\ Creates(<<>>) = {}
    BY OrderlyNone, Zenon
  <2>3. names[0] = names[0] \cup {} /\ 0 \in Nat
    OBVIOUS
  <2>4. Fine(0)
    BY <2>1, <2>2, <2>3, Zenon
  <2> QED BY <2>3, <2>4, Zenon
<1>2. ASSUME NEW m \in Nat, m \in Good PROVE m + 1 \in Good
  <2> SUFFICES ASSUME m + 1 <= n PROVE Fine(m + 1)
    OBVIOUS
  <2>1. m <= n /\ m \in 0..n - 1 /\ m + 1 \in 1..n
    OBVIOUS
  <2>2. Fine(m)
    BY <1>2, <2>1
  <2>3. Each(m + 1, calls) = Each(m, calls) \o calls[m + 1]
    BY EachNext, Zenon
  <2>4. Each(m, calls) \in Seq(Calls)
    <3>1. \A k \in 1..m : calls[k] \in Seq(Calls)
      BY <2>1
    <3> QED BY <3>1, EachIsSeq
  <2>5. calls[m + 1] \in Seq(Calls)
    BY <2>1, Zenon
  <2>6. /\ Orderly(calls[m + 1], names[m], after)
        /\ names[m + 1] = names[m] \cup Creates(calls[m + 1])
    BY <2>1, Zenon
  <2>7. Orderly(Each(m, calls), names[0], In(calls[m + 1]) \cup after)
    <3>1. after \subseteq In(calls[m + 1]) \cup after
      OBVIOUS
    <3> QED BY <2>2, <3>1, OrderlyMore, Zenon
  <2>8. Orderly(Each(m, calls) \o calls[m + 1], names[0], after)
    BY <2>2, <2>4, <2>5, <2>6, <2>7, OrderlyConcat, Zenon
  <2>9. Creates(Each(m, calls) \o calls[m + 1])
          = Creates(Each(m, calls)) \cup Creates(calls[m + 1])
    BY <2>4, <2>5, InConcat, ZenonT(60)
  <2>10. names[m + 1] = names[0] \cup Creates(Each(m + 1, calls))
    BY <2>2, <2>3, <2>6, <2>9
  <2> QED BY <2>3, <2>8, <2>10, Zenon
<1> HIDE DEF Good
<1>3. Nat \subseteq Good
  BY <1>1, <1>2, Induction
<1> QED BY <1>3 DEF Good

LEMMA EachIn ==
  ASSUME NEW calls, NEW n \in Nat, \A k \in 1..n : calls[k] \in Seq(Calls),
         NEW c
  PROVE  c \in In(Each(n, calls)) <=> \E k \in 1..n : c \in In(calls[k])
<1>1. Has(Each(n, calls), c) <=> \E k \in 1..n : Has(calls[k], c)
  BY EachHas
<1> QED BY <1>1, InIs, Zenon

LEMMA CreatesIn ==
  ASSUME NEW list
  PROVE  Creates(list) = {c.to : c \in {c \in In(list) : c.op = "create"}}
BY DEF Creates, In

LEMMA InCalls ==
  ASSUME NEW list \in Seq(Calls)
  PROVE  In(list) \subseteq Calls
BY DEF In

(* Edges and moves fit in wherever the names they use are known.            *)
LEMMA EdgesFit ==
  ASSUME NEW list, NEW known, NEW after,
         \A c \in In(list) : c.op \in {"edge", "move"} /\ Uses(c) \subseteq known
  PROVE  Orderly(list, known, after) /\ Creates(list) = {}
<1>1. ASSUME NEW q \in 1..Len(list)
      PROVE  Fits(list[q], known \cup Given(list, q), Later(list, q) \cup after)
  <2>1. list[q].op \in {"edge", "move"} /\ Uses(list[q]) \subseteq known
    BY DEF In
  <2>2. list[q].op # "create" /\ list[q].op # "describe"
    BY <2>1
  <2>3. Uses(list[q]) \subseteq known \cup Given(list, q)
    BY <2>1
  <2> QED BY <2>2, <2>3, Zenon DEF Fits
<1>2. \A c \in In(list) : c.op # "create"
  OBVIOUS
<1>3. Creates(list) = {}
  BY <1>2, CreatesIn
<1> QED BY <1>1, <1>3, Zenon DEF Orderly

LEMMA EdgeIs ==
  ASSUME NEW on, NEW to
  PROVE  Edge(on, to).op = "edge" /\ Edge(on, to).on = on /\ Edge(on, to).to = to
BY DEF Edge, Call

LEMMA CreateIs ==
  ASSUME NEW on, NEW to, NEW place, NEW units
  PROVE  /\ Create(to, on, place, units).op = "create"
         /\ Create(to, on, place, units).on = on
         /\ Create(to, on, place, units).to = to
         /\ Create(to, on, place, units).column = place
         /\ Create(to, on, place, units).units = units
BY DEF Create, Call

LEMMA MoveIs ==
  ASSUME NEW on, NEW place
  PROVE  /\ MoveTo(on, place).op = "move" /\ MoveTo(on, place).on = on
         /\ MoveTo(on, place).column = place
BY DEF MoveTo, Call

LEMMA DescribeIs ==
  ASSUME NEW on, NEW units
  PROVE  /\ Describe(on, units).op = "describe" /\ Describe(on, units).on = on
         /\ Describe(on, units).units = units
BY DEF Describe, Call

LEMMA ChainIs ==
  ASSUME NEW ref \in Refs, NEW u \in Nat \ {0}
  PROVE  /\ ChainTo(ref, u) \in Seq(Calls)
         /\ In(ChainTo(ref, u)) = {Edge(ref, Task(v)) : v \in 1..u - 1}
<1> DEFINE calls == [v \in 1..u - 1 |-> <<Edge(ref, Task(v))>>]
<1>1. u - 1 \in Nat /\ 0 \in Nat /\ 1..u - 1 \subseteq Nat
  OBVIOUS
<1>2. ASSUME NEW v \in 1..u - 1
      PROVE  /\ calls[v] = <<Edge(ref, Task(v))>> /\ calls[v] \in Seq(Calls)
             /\ In(calls[v]) = {Edge(ref, Task(v))}
  <2>1. calls[v] = <<Edge(ref, Task(v))>>
    OBVIOUS
  <2>2. v \in Nat /\ Task(v) \in Refs
    <3>1. v \in Nat
      OBVIOUS
    <3>2. Name(v, 0) \in Refs
      BY <1>1, <3>1, RefsAre, Zenon
    <3> QED BY <3>1, <3>2, Zenon DEF Task
  <2>3. Edge(ref, Task(v)) \in Calls
    <3>1. Blocked \in Columns /\ {} \in SUBSET Nat
      BY DEF Columns
    <3> QED BY <2>2, <3>1, CallsAre
  <2>4. <<Edge(ref, Task(v))>> \in Seq(Calls)
    BY <2>3
  <2>5. In(<<Edge(ref, Task(v))>>) = {Edge(ref, Task(v))}
    BY DEF In
  <2> QED BY <2>1, <2>4, <2>5, Zenon
<1> HIDE DEF calls
<1>3. Each(u - 1, calls) \in Seq(Calls)
  BY <1>1, <1>2, EachIsSeq
<1>4. \A c : c \in In(Each(u - 1, calls)) <=> \E v \in 1..u - 1 : c \in In(calls[v])
  BY <1>1, <1>2, EachIn, Zenon
<1>5. In(Each(u - 1, calls)) = {Edge(ref, Task(v)) : v \in 1..u - 1}
  <2>1. \A c : c \in In(Each(u - 1, calls)) <=> \E v \in 1..u - 1 : c = Edge(ref, Task(v))
    <3>1. \A v \in 1..u - 1 : \A c : c \in In(calls[v]) <=> c = Edge(ref, Task(v))
      <4>1. ASSUME NEW v \in 1..u - 1, NEW c
            PROVE  c \in In(calls[v]) <=> c = Edge(ref, Task(v))
        <5>1. In(calls[v]) = {Edge(ref, Task(v))}
          BY <1>2, Zenon
        <5> QED BY <5>1
      <4> QED BY <4>1
    <3> QED BY <1>4, <3>1, Zenon
  <2> QED BY <2>1
<1>6. ChainTo(ref, u) = Each(u - 1, calls)
  BY Zenon DEF ChainTo, calls
<1> QED BY <1>3, <1>5, <1>6, Zenon

LEMMA RowsAre ==
  /\ T.ticketmerge.ready = "ready_for_ticket_merge" /\ T.ticketmerge.working = "merging_tickets"
  /\ T.ticketmerge.success = "ready_for_spec_merge"
  /\ T.spec.ready = "ready_for_spec" /\ T.spec.working = "writing_spec"
  /\ T.spec.success = "done" /\ T.spec.exhausted = "blocked" /\ T.spec.deps
  /\ T.specmerge.ready = "ready_for_spec_merge" /\ T.specmerge.working = "merging_specs"
  /\ T.specmerge.success = "ready_for_dev" /\ T.specmerge.exhausted = "blocked" /\ T.specmerge.deps
  /\ T.dev.ready = "ready_for_dev" /\ T.dev.working = "in_dev"
  /\ T.dev.exhausted = "blocked" /\ T.dev.deps
  /\ ~T.ticketmerge.deps
BY DEF T, Table, AlwaysOn, Stage, Waits, HandsBack, Roles, Done, Blocked

LEMMA ReadyColumns ==
  T.spec.ready \in Columns /\ T.ticketmerge.ready \in Columns /\ T.specmerge.ready \in Columns
  /\ Done \in Columns
<1>1. /\ "ready_for_spec" \in Columns /\ "ready_for_ticket_merge" \in Columns
      /\ "ready_for_spec_merge" \in Columns
  BY DEF Columns
<1>2. Done \in Columns
  BY DEF Columns
<1> QED BY <1>1, <1>2, RowsAre, Zenon

LEMMA PairIs ==
  ASSUME NEW c \in Calls, NEW e \in Calls, NEW known, NEW after, c.op = "create", e.op = "edge",
         Fits(c, known, {e} \cup after), Uses(e) \subseteq known \cup {c.to}
  PROVE  /\ <<c, e>> \in Seq(Calls) /\ In(<<c, e>>) = {c, e}
         /\ Creates(<<c, e>>) = {c.to} /\ Orderly(<<c, e>>, known, after)
<1>1. <<c, e>> = <<c>> \o <<e>> /\ <<c>> \in Seq(Calls) /\ <<e>> \in Seq(Calls) /\ <<c, e>> \in Seq(Calls)
  <2>1. <<c>> \in Seq(Calls) /\ <<e>> \in Seq(Calls)
    OBVIOUS
  <2>2. <<c, e>> \in Seq(Calls)
    OBVIOUS
  <2>3. <<c, e>> = <<c>> \o <<e>>
    <3>1. <<c>> \o <<e>> \in Seq(Calls)
      BY <2>1
    <3>2. Len(<<c, e>>) = 2 /\ Len(<<c>> \o <<e>>) = 2
      BY <2>1
    <3>3. \A j \in 1..Len(<<c, e>>) : <<c, e>>[j] = (<<c>> \o <<e>>)[j]
      <4>1. (<<c>> \o <<e>>)[1] = c /\ (<<c>> \o <<e>>)[2] = e
        BY <2>1
      <4> QED BY <4>1
    <3> QED BY <2>2, <3>1, <3>2, <3>3, SeqEqual
  <2> QED BY <2>1, <2>2, <2>3, Zenon
<1>2. Fits(e, known \cup {c.to}, after)
  <2>1. e.op # "create" /\ e.op # "describe"
    OBVIOUS
  <2> QED BY <2>1, Zenon DEF Fits
<1>3. /\ Orderly(<<c>>, known, {e} \cup after)
      /\ Creates(<<c>>) = IF c.op = "create" THEN {c.to} ELSE {}
      /\ In(<<c>>) = {c}
  BY OrderlyOne, Zenon
<1>4. /\ Orderly(<<e>>, known \cup {c.to}, after)
      /\ Creates(<<e>>) = IF e.op = "create" THEN {e.to} ELSE {}
      /\ In(<<e>>) = {e}
  BY <1>2, OrderlyOne, Zenon
<1>5. Creates(<<c>>) = {c.to} /\ Creates(<<e>>) = {}
  BY <1>3, <1>4
<1>6. Orderly(<<c>> \o <<e>>, known, after)
  BY <1>1, <1>3, <1>4, <1>5, OrderlyConcat, Zenon
<1>7. /\ Creates(<<c>> \o <<e>>) = Creates(<<c>>) \cup Creates(<<e>>)
      /\ In(<<c>> \o <<e>>) = In(<<c>>) \cup In(<<e>>)
  BY <1>1, InConcat, ZenonT(60)
<1>8. Creates(<<c, e>>) = {c.to} /\ In(<<c, e>>) = {c, e}
  BY <1>1, <1>3, <1>4, <1>5, <1>7
<1> QED BY <1>1, <1>6, <1>8

SectionList(on, u, p, units, rest) ==
  <<Create(Section(u, p), on, T.spec.ready, units), Edge(on, Section(u, p))>> \o rest

OpensIn(list, known, after, names, calls) ==
  /\ list \in Seq(Calls) /\ Creates(list) = names /\ Orderly(list, known, after)
  /\ In(list) = calls

(* The calls that open one section.                                         *)
LEMMA SectionCalls ==
  ASSUME NEW on \in Refs, NEW u \in Nat, NEW p \in Nat \ {0}, NEW units \in SUBSET Nat,
         NEW rest \in Seq(Calls), NEW known, NEW after,
         Len(on) # 1 => on \in known,
         Section(u, p) \notin known,
         p > 1 => /\ Section(u, p - 1) \in known
                  /\ Edge(Section(u, p), Section(u, p - 1)) \in In(rest),
         \A c \in In(rest) : c.op = "edge" /\ Uses(c) \subseteq known \cup {Section(u, p)}
  PROVE  OpensIn(SectionList(on, u, p, units, rest), known, after, {Section(u, p)},
                 {Create(Section(u, p), on, T.spec.ready, units), Edge(on, Section(u, p))} \cup In(rest))
<1> DEFINE to == Section(u, p)
           c == Create(to, on, T.spec.ready, units)
           list == SectionList(on, u, p, units, rest)
           e == Edge(on, to)
<1>1. to \in Refs /\ Len(to) = 2 /\ to[1] = u /\ to[2] = p
  BY RefsAre DEF Section
<1>2. c.op = "create" /\ c.on = on /\ c.to = to /\ c.column = T.spec.ready
  BY CreateIs
<1>3. e.op = "edge" /\ e.on = on /\ e.to = to
  BY EdgeIs, Zenon
<1>4. c \in Calls /\ e \in Calls
  BY <1>1, ReadyColumns, CallsAre
<1>5. T.spec.ready # T.specmerge.ready
  BY RowsAre
<1>6. Prior(to) = Section(u, p - 1)
  BY <1>1, Zenon DEF Prior
<1> HIDE DEF to, c, e
<1>7. Uses(c) \subseteq known
  BY <1>2 DEF Uses
<1>8. Uses(e) \subseteq known \cup {c.to}
  BY <1>2, <1>3 DEF Uses
<1>9. Fits(c, known, {e} \cup (In(rest) \cup after))
  <2>1. c.to \notin known
    BY <1>2 DEF to
  <2>2. Edge(c.on, c.to) \in {e} \cup (In(rest) \cup after)
    BY <1>2 DEF e, to
  <2>3. c.to[2] > 1 => Prior(c.to) \in known /\ Edge(c.to, Prior(c.to)) \in {e} \cup (In(rest) \cup after)
    <3>1. c.to[2] = p
      BY <1>1, <1>2
    <3>2. Prior(c.to) = Section(u, p - 1) /\ Edge(c.to, Prior(c.to)) = Edge(Section(u, p), Section(u, p - 1))
      BY <1>2, <1>6 DEF to
    <3> QED BY <3>1, <3>2
  <2>4. c.op # "describe" /\ c.column # T.specmerge.ready
    BY <1>2, <1>5
  <2> QED BY <1>2, <1>7, <2>1, <2>2, <2>3, <2>4, Zenon DEF Fits
<1>10. /\ <<c, e>> \in Seq(Calls) /\ In(<<c, e>>) = {c, e}
       /\ Creates(<<c, e>>) = {c.to} /\ Orderly(<<c, e>>, known, In(rest) \cup after)
  BY <1>2, <1>3, <1>4, <1>8, <1>9, PairIs, Zenon
<1>11. Orderly(rest, known \cup Creates(<<c, e>>), after) /\ Creates(rest) = {}
  <2>1. \A d \in In(rest) : d.op \in {"edge", "move"} /\ Uses(d) \subseteq known \cup {to}
    BY DEF to
  <2>2. Creates(<<c, e>>) = {to}
    BY <1>2, <1>10
  <2> QED BY <2>1, <2>2, EdgesFit, Zenon
<1>12. list = <<c, e>> \o rest
  BY DEF c, e, to, SectionList
<1> HIDE DEF list
<1>13. Orderly(list, known, after)
  <2>1. Orderly(<<c, e>> \o rest, known, after)
    BY <1>10, <1>11, OrderlyConcat, Zenon
  <2> QED BY <1>12, <2>1, Zenon
<1>14. Creates(list) = Creates(<<c, e>>) \cup Creates(rest) /\ In(list) = In(<<c, e>>) \cup In(rest)
  <2>1. /\ Creates(<<c, e>> \o rest) = Creates(<<c, e>>) \cup Creates(rest)
        /\ In(<<c, e>> \o rest) = In(<<c, e>>) \cup In(rest)
    BY <1>10, InConcat, Zenon
  <2> QED BY <1>12, <2>1, Zenon
<1>15. list \in Seq(Calls)
  <2>1. <<c, e>> \o rest \in Seq(Calls)
    BY <1>10, ConcatProperties, Zenon
  <2> QED BY <1>12, <2>1, Zenon
<1>16. Creates(list) = {to}
  BY <1>2, <1>10, <1>11, <1>14
<1>17. In(list) = {c, e} \cup In(rest)
  BY <1>10, <1>14, Zenon
<1> QED BY <1>13, <1>15, <1>16, <1>17, Zenon DEF c, e, to, list, OpensIn

LEMMA BeforeIs ==
  ASSUME NEW u \in Nat, NEW p \in Nat \ {0}
  PROVE  /\ Before(u, p) \in Seq(Calls)
         /\ In(Before(u, p)) = IF p > 1 THEN {Edge(Section(u, p), Section(u, p - 1))} ELSE {}
<1>1. CASE p > 1
  <2>1. Section(u, p) \in Refs /\ Section(u, p - 1) \in Refs
    BY <1>1, RefsAre DEF Section
  <2>2. Edge(Section(u, p), Section(u, p - 1)) \in Calls
    BY <2>1, ReadyColumns, CallsAre
  <2>3. Before(u, p) = <<Edge(Section(u, p), Section(u, p - 1))>>
    BY <1>1 DEF Before
  <2>4. In(<<Edge(Section(u, p), Section(u, p - 1))>>) = {Edge(Section(u, p), Section(u, p - 1))}
    BY DEF In
  <2> QED BY <1>1, <2>2, <2>3, <2>4
<1>2. CASE ~(p > 1)
  <2>1. Before(u, p) = <<>>
    BY <1>2 DEF Before
  <2>2. In(<<>>) = {}
    BY DEF In
  <2> QED BY <1>2, <2>1, <2>2
<1> QED BY <1>1, <1>2

LEMMA EdgeUses ==
  ASSUME NEW on, NEW to
  PROVE  Uses(Edge(on, to)) \subseteq {on, to}
BY EdgeIs DEF Uses

SectionSet(u, p) ==
  {Create(Section(u, p), Task(u), T.spec.ready, {u}), Edge(Task(u), Section(u, p))}
  \cup {Edge(Section(u, p), Task(v)) : v \in 1..u - 1}
  \cup (IF p > 1 THEN {Edge(Section(u, p), Section(u, p - 1))} ELSE {})

LEMMA OpenSectionIs ==
  ASSUME NEW u \in Nat \ {0}, NEW p \in Nat \ {0}, NEW known, NEW after,
         \A v \in 1..u : Task(v) \in known,
         \A j \in 1..p - 1 : Section(u, j) \in known, Section(u, p) \notin known
  PROVE  OpensIn(OpenSection(u, p), known, after, {Section(u, p)}, SectionSet(u, p))
<1> DEFINE chain == ChainTo(Section(u, p), u)
           prev == Before(u, p)
           two == <<Create(Section(u, p), Task(u), T.spec.ready, {u}), Edge(Task(u), Section(u, p))>>
<1>1. u \in Nat /\ 0 \in Nat /\ p \in Nat /\ u \in 1..u /\ {u} \in SUBSET Nat
  OBVIOUS
<1>2. Section(u, p) \in Refs /\ Task(u) \in Refs
  BY <1>1, RefsAre DEF Section, Task
<1>3. /\ chain \in Seq(Calls)
      /\ In(chain) = {Edge(Section(u, p), Task(v)) : v \in 1..u - 1}
  BY <1>2, ChainIs
<1>4. /\ prev \in Seq(Calls)
      /\ In(prev) = IF p > 1 THEN {Edge(Section(u, p), Section(u, p - 1))} ELSE {}
  BY <1>1, BeforeIs
<1>5. two \in Seq(Calls)
  <2>1. Create(Section(u, p), Task(u), T.spec.ready, {u}) \in Calls /\ Edge(Task(u), Section(u, p)) \in Calls
    BY <1>1, <1>2, ReadyColumns, CallsAre
  <2> QED BY <2>1
<1>6. OpenSection(u, p) = (two \o chain) \o prev
  BY DEF OpenSection
<1> HIDE DEF chain, prev
<1>7. OpenSection(u, p) = two \o (chain \o prev)
  <2> HIDE DEF two
  <2>1. (two \o chain) \o prev = two \o (chain \o prev)
    BY <1>3, <1>4, <1>5, ConcatAssociative, SMTT(60)
  <2> QED BY <1>6, <2>1, Zenon
<1>8. chain \o prev \in Seq(Calls) /\ In(chain \o prev) = In(chain) \cup In(prev)
  <2>1. chain \o prev \in Seq(Calls)
    BY <1>3, <1>4, ConcatProperties, Zenon
  <2>2. In(chain \o prev) = In(chain) \cup In(prev)
    BY <1>3, <1>4, InConcat, Zenon
  <2> QED BY <2>1, <2>2
<1>9. ASSUME NEW c \in In(chain \o prev)
      PROVE  c.op = "edge" /\ Uses(c) \subseteq known \cup {Section(u, p)}
  <2>1. CASE c \in In(chain)
    <3>1. PICK v \in 1..u - 1 : c = Edge(Section(u, p), Task(v))
      BY <1>3, <2>1
    <3>2. Task(v) \in known
      <4>1. v \in 1..u
        BY <3>1
      <4> QED BY <4>1
    <3>3. Uses(c) \subseteq {Section(u, p), Task(v)} /\ c.op = "edge"
      BY <3>1, EdgeUses, EdgeIs, ZenonT(60)
    <3> QED BY <3>2, <3>3
  <2>2. CASE c \in In(prev)
    <3>1. p > 1 /\ c = Edge(Section(u, p), Section(u, p - 1))
      BY <1>4, <2>2
    <3>2. p - 1 \in 1..p - 1
      BY <3>1
    <3>3. Section(u, p - 1) \in known
      BY <3>2
    <3>4. Uses(c) \subseteq {Section(u, p), Section(u, p - 1)} /\ c.op = "edge"
      <4>1. /\ Uses(Edge(Section(u, p), Section(u, p - 1))) \subseteq {Section(u, p), Section(u, p - 1)}
            /\ Edge(Section(u, p), Section(u, p - 1)).op = "edge"
        BY EdgeUses, EdgeIs
      <4> QED BY <3>1, <4>1, Zenon
    <3> QED BY <3>3, <3>4
  <2> QED BY <1>8, <2>1, <2>2
<1>10. p > 1 => /\ Section(u, p - 1) \in known
                /\ Edge(Section(u, p), Section(u, p - 1)) \in In(chain \o prev)
  <2> SUFFICES ASSUME p > 1
               PROVE  /\ Section(u, p - 1) \in known
                      /\ Edge(Section(u, p), Section(u, p - 1)) \in In(chain \o prev)
    OBVIOUS
  <2>1. p - 1 \in 1..p - 1
    OBVIOUS
  <2>2. Section(u, p - 1) \in known
    BY <2>1
  <2> QED BY <1>4, <1>8, <2>2
<1>11. Task(u) \in known
  BY <1>1
<1> DEFINE rest == chain \o prev
<1>12. /\ rest \in Seq(Calls) /\ OpenSection(u, p) = two \o rest
       /\ \A c \in In(rest) : c.op = "edge" /\ Uses(c) \subseteq known \cup {Section(u, p)}
       /\ p > 1 => /\ Section(u, p - 1) \in known
                   /\ Edge(Section(u, p), Section(u, p - 1)) \in In(rest)
  BY <1>7, <1>8, <1>9, <1>10, Zenon
<1>13. In(rest) = In(chain) \cup In(prev)
  BY <1>8
<1> HIDE DEF rest
<1>14. /\ OpenSection(u, p) \in Seq(Calls) /\ Creates(OpenSection(u, p)) = {Section(u, p)}
       /\ Orderly(OpenSection(u, p), known, after)
       /\ In(OpenSection(u, p)) = {Create(Section(u, p), Task(u), T.spec.ready, {u}),
                                   Edge(Task(u), Section(u, p))} \cup In(rest)
  <2>1. Len(Task(u)) # 1 => Task(u) \in known
    BY <1>11
  <2>2. OpenSection(u, p) = SectionList(Task(u), u, p, {u}, rest)
    BY <1>12, Zenon DEF SectionList
  <2> HIDE DEF two
  <2>3. OpensIn(SectionList(Task(u), u, p, {u}, rest), known, after, {Section(u, p)},
                {Create(Section(u, p), Task(u), T.spec.ready, {u}), Edge(Task(u), Section(u, p))} \cup In(rest))
    <3>1. Section(u, p) \notin known /\ p \in Nat \ {0}
      OBVIOUS
    <3>2. /\ \A c \in In(rest) : c.op = "edge" /\ Uses(c) \subseteq known \cup {Section(u, p)}
          /\ p > 1 => /\ Section(u, p - 1) \in known
                      /\ Edge(Section(u, p), Section(u, p - 1)) \in In(rest)
          /\ rest \in Seq(Calls)
      BY <1>12, Zenon
    <3>3. Task(u) \in Refs /\ u \in Nat /\ {u} \in SUBSET Nat
      BY <1>1, <1>2
    <3> QED BY ONLY <2>1, <3>1, <3>2, <3>3, SectionCalls, Zenon
  <2> QED BY <2>2, <2>3, Zenon DEF OpensIn
<1>15. In(OpenSection(u, p)) = SectionSet(u, p)
  BY <1>3, <1>4, <1>13, <1>14 DEF SectionSet
<1> QED BY <1>14, <1>15, Zenon DEF OpensIn

SettingIs == SettingsAreSound /\ setting \in Settings

LEMMA SettingHas ==
  ASSUME SettingIs
  PROVE  /\ Units \in Nat \ {0, 1} /\ Pieces \in Nat \ {0} /\ MergeFirst \in BOOLEAN
         /\ MaxFailures \in Nat
BY DEF SettingIs, SettingsAreSound, Units, Pieces, MergeFirst

Parts == IF MergeFirst THEN {0} ELSE 0..Pieces

Total(f, n) == UNION {f[k] : k \in 1..n}

(* Lists that fit in one after the other fit in as one.                     *)
LEMMA EachOpens ==
  ASSUME NEW calls, NEW n \in Nat, NEW names, NEW given, NEW sets, NEW after,
         \A k \in 0..n - 1 :
           /\ OpensIn(calls[k + 1], names[k], after, given[k + 1], sets[k + 1])
           /\ names[k + 1] = names[k] \cup given[k + 1]
  PROVE  OpensIn(Each(n, calls), names[0], after, Total(given, n), Total(sets, n))
<1>1. ASSUME NEW p \in 1..n
      PROVE  calls[p] \in Seq(Calls) /\ In(calls[p]) = sets[p] /\ Creates(calls[p]) = given[p]
  <2>1. PICK k \in 0..n - 1 : p = k + 1
    <3>1. p - 1 \in 0..n - 1 /\ p = p - 1 + 1
      OBVIOUS
    <3> QED BY <3>1
  <2>2. OpensIn(calls[k + 1], names[k], after, given[k + 1], sets[k + 1])
    BY Zenon
  <2> QED BY <2>1, <2>2, Zenon DEF OpensIn
<1>2. \A k \in 0..n - 1 : Orderly(calls[k + 1], names[k], after)
                          /\ names[k + 1] = names[k] \cup Creates(calls[k + 1])
  BY Zenon DEF OpensIn
<1>3. Orderly(Each(n, calls), names[0], after)
  BY <1>1, <1>2, EachOrderly, Zenon
<1>4. Each(n, calls) \in Seq(Calls)
  BY <1>1, EachIsSeq
<1>5. \A c : c \in In(Each(n, calls)) <=> \E p \in 1..n : c \in In(calls[p])
  BY <1>1, EachIn, Zenon
<1>6. In(Each(n, calls)) = UNION {sets[p] : p \in 1..n}
  <2>1. \A c : c \in In(Each(n, calls)) <=> \E p \in 1..n : c \in sets[p]
    <3>1. \A p \in 1..n : \A c : c \in In(calls[p]) <=> c \in sets[p]
      BY <1>1
    <3> QED BY <1>5, <3>1, Zenon
  <2> QED BY <2>1
<1>7. Creates(Each(n, calls)) = UNION {given[p] : p \in 1..n}
  <2>1. \A x : x \in Creates(Each(n, calls)) <=>
               \E c \in In(Each(n, calls)) : c.op = "create" /\ x = c.to
    BY CreatesIn
  <2>2. \A p \in 1..n : \A x : x \in given[p] <=> \E c \in In(calls[p]) : c.op = "create" /\ x = c.to
    <3>1. ASSUME NEW p \in 1..n, NEW x
          PROVE  x \in given[p] <=> \E c \in In(calls[p]) : c.op = "create" /\ x = c.to
      <4>1. Creates(calls[p]) = given[p]
        BY <1>1, Zenon
      <4>2. x \in Creates(calls[p]) <=> \E c \in In(calls[p]) : c.op = "create" /\ x = c.to
        BY CreatesIn
      <4> QED BY <4>1, <4>2, Zenon
    <3> QED BY <3>1
  <2>3. \A x : x \in Creates(Each(n, calls)) <=> \E p \in 1..n : x \in given[p]
    BY <1>5, <2>1, <2>2
  <2> QED BY <2>3
<1> QED BY <1>3, <1>4, <1>6, <1>7, Zenon DEF OpensIn, Total

(* All the sections of one task.                                            *)
LEMMA SectionsOpen ==
  ASSUME NEW u \in Nat \ {0}, NEW n \in Nat, NEW known, NEW after,
         \A v \in 1..u : Task(v) \in known,
         \A p \in 1..n : Section(u, p) \notin known
  PROVE  OpensIn(Each(n, [p \in 1..n |-> OpenSection(u, p)]), known, after,
                 {Section(u, p) : p \in 1..n}, UNION {SectionSet(u, p) : p \in 1..n})
<1> DEFINE calls == [p \in 1..n |-> OpenSection(u, p)]
           upTo(k) == known \cup {Section(u, j) : j \in 1..k}
           names == [k \in 0..n |-> upTo(k)]
<1>1. ASSUME NEW k \in 0..n - 1
      PROVE  /\ k + 1 \in 1..n
             /\ OpensIn(calls[k + 1], names[k], after, {Section(u, k + 1)}, SectionSet(u, k + 1))
             /\ names[k + 1] = names[k] \cup {Section(u, k + 1)}
  <2>1. k + 1 \in 1..n /\ k + 1 \in Nat \ {0} /\ k \in 0..n /\ k + 1 \in 0..n /\ k + 1 - 1 = k
    OBVIOUS
  <2>2. calls[k + 1] = OpenSection(u, k + 1) /\ names[k] = upTo(k) /\ names[k + 1] = upTo(k + 1)
    BY <2>1, Zenon
  <2>3. \A v \in 1..u : Task(v) \in upTo(k)
    OBVIOUS
  <2>4. \A j \in 1..k + 1 - 1 : Section(u, j) \in upTo(k)
    BY <2>1
  <2>5. Section(u, k + 1) \notin upTo(k)
    <3>1. Section(u, k + 1) \notin known
      BY <2>1
    <3>2. ASSUME NEW j \in 1..k PROVE Section(u, j) # Section(u, k + 1)
      <4>1. u \in Nat /\ j \in Nat /\ k + 1 \in Nat /\ j # k + 1
        OBVIOUS
      <4>2. Section(u, j)[2] = j /\ Section(u, k + 1)[2] = k + 1
        BY <4>1, RefsAre, ZenonT(60) DEF Section
      <4> QED BY <4>1, <4>2
    <3> QED BY <3>1, <3>2
  <2> HIDE DEF upTo
  <2>6. OpensIn(OpenSection(u, k + 1), upTo(k), after, {Section(u, k + 1)}, SectionSet(u, k + 1))
    <3>1. PICK p \in Nat \ {0} : p = k + 1
      BY <2>1
    <3>2. /\ \A j \in 1..p - 1 : Section(u, j) \in upTo(k)
          /\ Section(u, p) \notin upTo(k)
      BY <2>4, <2>5, <3>1
    <3>3. OpensIn(OpenSection(u, p), upTo(k), after, {Section(u, p)}, SectionSet(u, p))
      BY <2>3, <3>2, OpenSectionIs, Zenon
    <3> QED BY <3>1, <3>3, Zenon
  <2>7. upTo(k + 1) = upTo(k) \cup {Section(u, k + 1)}
    <3>1. 1..k + 1 = 1..k \cup {k + 1}
      OBVIOUS
    <3> QED BY <3>1 DEF upTo
  <2> QED BY <2>1, <2>2, <2>6, <2>7, Zenon
<1> DEFINE given == [k \in 1..n |-> {Section(u, k)}]
           sets == [k \in 1..n |-> SectionSet(u, k)]
<1>2. /\ names[0] = known /\ UNION {given[k] : k \in 1..n} = {Section(u, p) : p \in 1..n}
      /\ UNION {sets[k] : k \in 1..n} = UNION {SectionSet(u, p) : p \in 1..n}
  OBVIOUS
<1>3. \A k \in 1..n : given[k] = {Section(u, k)} /\ sets[k] = SectionSet(u, k)
  OBVIOUS
<1> HIDE DEF names, calls, given, sets
<1>4. \A k \in 0..n - 1 :
        /\ OpensIn(calls[k + 1], names[k], after, given[k + 1], sets[k + 1])
        /\ names[k + 1] = names[k] \cup given[k + 1]
  BY <1>1, <1>3, Zenon
<1>5. OpensIn(Each(n, calls), names[0], after, Total(given, n), Total(sets, n))
  BY <1>4, EachOpens, Zenon
<1> QED BY <1>2, <1>5, Zenon DEF calls, Total

TaskCalls(u) ==
  {Create(Task(u), This(0), EntryColumn, {u})} \cup {Edge(Task(u), Task(v)) : v \in 1..u - 1}
  \cup (IF MergeFirst THEN {} ELSE UNION {SectionSet(u, p) : p \in 1..Pieces})

LEMMA OpenTaskIs ==
  ASSUME SettingIs, NEW u \in Nat \ {0}, NEW known, NEW after,
         \A v \in 1..u - 1 : Task(v) \in known,
         \A p \in Nat : Name(u, p) \notin known
  PROVE  OpensIn(OpenTask(u), known, after, {Name(u, p) : p \in Parts}, TaskCalls(u))
<1> DEFINE c == Create(Task(u), This(0), EntryColumn, {u})
           chain == ChainTo(Task(u), u)
           sections == Each(Pieces, [p \in 1..Pieces |-> OpenSection(u, p)])
           rest == IF MergeFirst THEN <<>> ELSE sections
           now == known \cup {Task(u)}
           given == IF MergeFirst THEN {} ELSE {Section(u, p) : p \in 1..Pieces}
           opened == IF MergeFirst THEN {} ELSE UNION {SectionSet(u, p) : p \in 1..Pieces}
<1>1. OpenTask(u) = (<<c>> \o chain) \o rest
  BY DEF OpenTask
<1>2. u \in Nat /\ 0 \in Nat /\ {u} \in SUBSET Nat
  OBVIOUS
<1>3. /\ Task(u) \in Refs /\ Len(Task(u)) = 2 /\ Task(u)[1] = u /\ Task(u)[2] = 0
      /\ This(0) \in Refs /\ Len(This(0)) = 1
  BY <1>2, RefsAre DEF Task
<1>4. c \in Calls /\ c.op = "create" /\ c.on = This(0) /\ c.to = Task(u) /\ c.column = EntryColumn
      /\ c.units = {u}
  <2>1. c.op = "create" /\ c.on = This(0) /\ c.to = Task(u) /\ c.column = EntryColumn
        /\ c.units = {u}
    BY CreateIs
  <2>2. EntryColumn \in Columns
    BY ReadyColumns DEF EntryColumn
  <2> QED BY <1>2, <1>3, <2>1, <2>2, CallsAre
<1>5. chain \in Seq(Calls) /\ In(chain) = {Edge(Task(u), Task(v)) : v \in 1..u - 1}
  BY <1>3, ChainIs
<1>6. OpensIn(rest, now, after, given, opened)
  <2>1. CASE MergeFirst
    <3>1. <<>> \in Seq(Calls)
      OBVIOUS
    <3> QED BY <2>1, <3>1, OrderlyNone DEF OpensIn
  <2>2. CASE ~MergeFirst
    <3>1. \A v \in 1..u : Task(v) \in now
      <4>1. \A v \in 1..u : v = u \/ v \in 1..u - 1
        OBVIOUS
      <4> QED BY <4>1
    <3>2. \A p \in 1..Pieces : Section(u, p) \notin now
      <4>1. ASSUME NEW p \in 1..Pieces PROVE Section(u, p) \notin known /\ Section(u, p) # Task(u)
        <5>1. p \in Nat /\ p # 0
          BY SettingHas
        <5>2. Section(u, p) \notin known
          BY <5>1 DEF Section
        <5>3. Section(u, p)[2] = p
          BY <1>2, <5>1, RefsAre, Zenon DEF Section
        <5> QED BY <1>3, <5>1, <5>2, <5>3
      <4> QED BY <4>1
    <3>3. Pieces \in Nat
      BY SettingHas
    <3> HIDE DEF now
    <3>4. OpensIn(sections, now, after, {Section(u, p) : p \in 1..Pieces},
                  UNION {SectionSet(u, p) : p \in 1..Pieces})
      BY <3>1, <3>2, <3>3, SectionsOpen
    <3> QED BY <2>2, <3>4
  <2> QED BY <2>1, <2>2
<1> HIDE DEF chain, sections, rest, given, opened, now, c
<1>7. Fits(c, known, In(chain) \cup (In(rest) \cup after))
  <2>1. Uses(c) \subseteq known
    BY <1>3, <1>4 DEF Uses
  <2>2. c.to \notin known
    BY <1>2, <1>4 DEF Task
  <2>3. ~(c.to[2] > 0) /\ ~(c.to[2] > 1) /\ c.op # "describe"
    BY <1>3, <1>4
  <2>4. c.column = T.specmerge.ready =>
          \E d \in In(chain) \cup (In(rest) \cup after) : d.op = "create" /\ d.on = c.to /\ d.units = c.units
    <3> SUFFICES ASSUME c.column = T.specmerge.ready
                 PROVE  \E d \in In(rest) : d.op = "create" /\ d.on = c.to /\ d.units = c.units
      OBVIOUS
    <3>1. ~MergeFirst
      BY <1>4, RowsAre DEF EntryColumn
    <3>2. In(rest) = UNION {SectionSet(u, p) : p \in 1..Pieces}
      BY <1>6, <3>1 DEF OpensIn, opened
    <3>3. 1 \in 1..Pieces
      BY SettingHas
    <3> DEFINE d == Create(Section(u, 1), Task(u), T.spec.ready, {u})
    <3>4. d.op = "create" /\ d.on = Task(u) /\ d.units = {u}
      BY CreateIs
    <3>5. d \in SectionSet(u, 1)
      BY DEF SectionSet
    <3> HIDE DEF d
    <3>6. d \in In(rest)
      BY <3>2, <3>3, <3>5
    <3> QED BY <1>4, <3>4, <3>6
  <2> QED BY <2>1, <2>2, <2>3, <2>4, Zenon DEF Fits
<1>8. /\ Orderly(<<c>>, known, In(chain) \cup (In(rest) \cup after))
      /\ Creates(<<c>>) = {Task(u)} /\ In(<<c>>) = {c} /\ <<c>> \in Seq(Calls)
  <2>1. /\ Orderly(<<c>>, known, In(chain) \cup (In(rest) \cup after))
        /\ Creates(<<c>>) = IF c.op = "create" THEN {c.to} ELSE {}
        /\ In(<<c>>) = {c}
    BY <1>7, OrderlyOne, Zenon
  <2>2. <<c>> \in Seq(Calls)
    BY <1>4
  <2> QED BY <1>4, <2>1, <2>2
<1>9. /\ Orderly(chain, now, In(rest) \cup after) /\ Creates(chain) = {}
  <2>1. ASSUME NEW e \in In(chain) PROVE e.op \in {"edge", "move"} /\ Uses(e) \subseteq now
    <3>1. PICK v \in 1..u - 1 : e = Edge(Task(u), Task(v))
      BY <1>5, <2>1
    <3>2. Uses(Edge(Task(u), Task(v))) \subseteq {Task(u), Task(v)} /\ Edge(Task(u), Task(v)).op = "edge"
      BY EdgeUses, EdgeIs
    <3>3. Task(v) \in known
      BY <3>1
    <3> QED BY <3>1, <3>2, <3>3 DEF now
  <2> QED BY <2>1, EdgesFit, Zenon
<1>10. Orderly(<<c>> \o chain, known, In(rest) \cup after)
  BY <1>5, <1>8, <1>9, OrderlyConcat, Zenon DEF now
<1>11. <<c>> \o chain \in Seq(Calls)
  BY <1>5, <1>8, ConcatProperties, Zenon
<1>12. Creates(<<c>> \o chain) = {Task(u)} /\ In(<<c>> \o chain) = {c} \cup In(chain)
  <2>1. /\ Creates(<<c>> \o chain) = Creates(<<c>>) \cup Creates(chain)
        /\ In(<<c>> \o chain) = In(<<c>>) \cup In(chain)
    BY <1>5, <1>8, InConcat, Zenon
  <2> QED BY <1>8, <1>9, <2>1
<1> DEFINE front == <<c>> \o chain
<1>13. /\ front \in Seq(Calls) /\ Orderly(front, known, In(rest) \cup after) /\ Creates(front) = {Task(u)}
       /\ In(front) = {c} \cup In(chain) /\ OpenTask(u) = front \o rest
  BY <1>1, <1>10, <1>11, <1>12, Zenon
<1> HIDE DEF front
<1>14. rest \in Seq(Calls) /\ Orderly(rest, now, after) /\ Creates(rest) = given /\ In(rest) = opened
  BY <1>6, Zenon DEF OpensIn
<1>15. Orderly(front \o rest, known, after)
  BY <1>13, <1>14, OrderlyConcat, Zenon DEF now
<1>16. front \o rest \in Seq(Calls)
  BY <1>13, <1>14, ConcatProperties, Zenon
<1>17. Creates(front \o rest) = {Task(u)} \cup given /\ In(front \o rest) = ({c} \cup In(chain)) \cup opened
  <2>1. /\ Creates(front \o rest) = Creates(front) \cup Creates(rest)
        /\ In(front \o rest) = In(front) \cup In(rest)
    BY <1>13, <1>14, InConcat, Zenon
  <2> QED BY <1>13, <1>14, <2>1
<1>18. {Task(u)} \cup given = {Name(u, p) : p \in Parts}
  <2>1. CASE MergeFirst
    BY <2>1 DEF given, Parts, Task
  <2>2. CASE ~MergeFirst
    <3>1. 0..Pieces = {0} \cup 1..Pieces
      BY SettingHas
    <3> QED BY <2>2, <3>1 DEF given, Parts, Task, Section
  <2> QED BY <2>1, <2>2
<1>19. ({c} \cup In(chain)) \cup opened = TaskCalls(u)
  BY <1>5 DEF TaskCalls, opened, c
<1> QED BY <1>13, <1>15, <1>16, <1>17, <1>18, <1>19, Zenon DEF OpensIn

PlanNames(n) == {Name(u, p) : u \in 1..n, p \in Parts}
PlanCalls == UNION {TaskCalls(u) : u \in Plan}

LEMMA OpenIs ==
  ASSUME SettingIs
  PROVE  OpensIn(Open, {}, {}, PlanNames(Units), PlanCalls)
<1> DEFINE calls == [u \in Plan |-> OpenTask(u)]
           names == [k \in 0..Units |-> PlanNames(k)]
           given == [u \in 1..Units |-> {Name(u, p) : p \in Parts}]
           sets == [u \in 1..Units |-> TaskCalls(u)]
<1>1. Units \in Nat /\ Parts \subseteq Nat /\ 0 \in Parts
  BY SettingHas DEF Parts
<1>2. ASSUME NEW k \in 0..Units - 1
      PROVE  /\ OpensIn(calls[k + 1], names[k], {}, given[k + 1], sets[k + 1])
             /\ names[k + 1] = names[k] \cup given[k + 1]
  <2>1. k + 1 \in 1..Units /\ k + 1 \in Nat \ {0} /\ k \in 0..Units /\ k + 1 \in 0..Units /\ k \in Nat
    BY <1>1
  <2>2. PICK u \in Nat \ {0} : u = k + 1
    BY <2>1
  <2>3. /\ calls[u] = OpenTask(u) /\ names[k] = PlanNames(k) /\ names[u] = PlanNames(u)
        /\ given[u] = {Name(u, p) : p \in Parts} /\ sets[u] = TaskCalls(u)
    BY <2>1, <2>2 DEF Plan
  <2>4. \A v \in 1..u - 1 : Task(v) \in PlanNames(k)
    <3>1. ASSUME NEW v \in 1..u - 1 PROVE v \in 1..k
      BY <2>1, <2>2
    <3> QED BY <1>1, <3>1 DEF PlanNames, Task
  <2>5. \A p \in Nat : Name(u, p) \notin PlanNames(k)
    <3>1. ASSUME NEW p \in Nat, NEW v \in 1..k, NEW q \in Parts PROVE Name(u, p) # Name(v, q)
      <4>1. v \in Nat /\ q \in Nat /\ u # v /\ u \in Nat
        BY <1>1, <2>1, <2>2
      <4>2. Name(u, p)[1] = u /\ Name(v, q)[1] = v
        BY <4>1, RefsAre, Zenon
      <4> QED BY <4>1, <4>2
    <3> QED BY <3>1 DEF PlanNames
  <2>6. OpensIn(OpenTask(u), PlanNames(k), {}, {Name(u, p) : p \in Parts}, TaskCalls(u))
    BY <2>4, <2>5, OpenTaskIs, Zenon
  <2>7. PlanNames(u) = PlanNames(k) \cup {Name(u, p) : p \in Parts}
    <3>1. 1..k \subseteq 1..u /\ u \in 1..u /\ (\A v \in 1..u : v \in 1..k \/ v = u)
      BY <2>1, <2>2
    <3>2. ASSUME NEW v \in 1..u, NEW p \in Parts
          PROVE  Name(v, p) \in PlanNames(k) \cup {Name(u, q) : q \in Parts}
      BY <3>1 DEF PlanNames
    <3>3. PlanNames(u) \subseteq PlanNames(k) \cup {Name(u, p) : p \in Parts}
      BY <3>2 DEF PlanNames
    <3>4. ASSUME NEW v \in 1..k, NEW p \in Parts PROVE Name(v, p) \in PlanNames(u)
      BY <3>1 DEF PlanNames
    <3>5. PlanNames(k) \subseteq PlanNames(u)
      BY <3>4 DEF PlanNames
    <3>6. ASSUME NEW p \in Parts PROVE Name(u, p) \in PlanNames(u)
      BY <3>1 DEF PlanNames
    <3>7. {Name(u, p) : p \in Parts} \subseteq PlanNames(u)
      BY <3>6
    <3> QED BY <3>3, <3>5, <3>7, Zenon
  <2> HIDE DEF calls, names, given, sets
  <2> QED BY <2>2, <2>3, <2>6, <2>7, Zenon
<1>3. /\ names[0] = {} /\ UNION {given[k] : k \in 1..Units} = PlanNames(Units)
      /\ UNION {sets[k] : k \in 1..Units} = PlanCalls
  <2>1. names[0] = PlanNames(0) /\ 1..0 = {}
    BY <1>1
  <2>2. PlanNames(0) = {}
    BY <2>1 DEF PlanNames
  <2>3. UNION {given[k] : k \in 1..Units} = PlanNames(Units)
    BY DEF PlanNames
  <2>4. UNION {sets[k] : k \in 1..Units} = PlanCalls
    BY DEF PlanCalls, Plan
  <2> QED BY <2>1, <2>2, <2>3, <2>4
<1>4. Open = Each(Units, calls)
  BY Zenon DEF Open
<1> HIDE DEF calls, names, given, sets
<1>5. OpensIn(Each(Units, calls), names[0], {}, Total(given, Units), Total(sets, Units))
  BY <1>1, <1>2, EachOpens, Zenon
<1> QED BY <1>3, <1>4, <1>5, Zenon DEF Total

Tickets ==
  [parent : Nat, column : Columns, units : SUBSET Nat, deps : SUBSET Nat,
   by : {NoStage, "ticketmerge", "spec", "specmerge", "dev"}, built : BOOLEAN]

LEMMA BoardHas ==
  ASSUME board \in Seq(Tickets)
  PROVE  /\ Len(board) \in Nat /\ Ids = 1..Len(board)
         /\ \A i \in Ids : /\ i \in Nat /\ board[i].units \in SUBSET Nat
                           /\ board[i].parent \in Nat
<1>1. Len(board) \in Nat /\ Ids = 1..Len(board)
  BY DEF Ids
<1>2. ASSUME NEW i \in Ids PROVE i \in Nat /\ board[i].units \in SUBSET Nat /\ board[i].parent \in Nat
  <2>1. board[i] \in Tickets
    BY <1>1, ElementOfSeq DEF Ids
  <2>2. board[i].units \in SUBSET Nat /\ board[i].parent \in Nat
    BY <2>1 DEF Tickets
  <2> QED BY <1>1, <2>2
<1> QED BY <1>1, <1>2

LEMMA EachAll ==
  ASSUME NEW Z, NEW calls, NEW n \in Nat, \A k \in 1..n : calls[k] \in Seq(Z),
         NEW c
  PROVE  c \in In(Each(n, calls)) <=> \E k \in 1..n : c \in In(calls[k])
<1>1. Has(Each(n, calls), c) <=> \E k \in 1..n : Has(calls[k], c)
  BY EachHas
<1> QED BY <1>1, InIs, Zenon

LEMMA InOrderIs ==
  ASSUME board \in Seq(Tickets), NEW ids, ids \subseteq Ids
  PROVE  InOrder(ids) \in Seq(Ids) /\ In(InOrder(ids)) = ids
<1> DEFINE calls == [j \in Ids |-> IF j \in ids THEN <<j>> ELSE <<>>]
<1>1. Len(board) \in Nat /\ Ids = 1..Len(board)
  BY BoardHas
<1>2. ASSUME NEW k \in Ids
      PROVE  calls[k] \in Seq(Ids) /\ \A d : d \in In(calls[k]) <=> k \in ids /\ d = k
  <2>1. calls[k] = IF k \in ids THEN <<k>> ELSE <<>>
    OBVIOUS
  <2> HIDE DEF calls
  <2>3. CASE k \in ids
    BY <2>1, <2>3 DEF In
  <2>4. CASE k \notin ids
    BY <2>1, <2>4 DEF In
  <2> QED BY <2>3, <2>4
<1> HIDE DEF calls
<1>3. Each(Len(board), calls) \in Seq(Ids)
  BY <1>1, <1>2, EachIsSeq
<1>4. \A c : c \in In(Each(Len(board), calls)) <=> \E k \in Ids : c \in In(calls[k])
  <2>1. \A k \in 1..Len(board) : calls[k] \in Seq(Ids)
    BY <1>1, <1>2
  <2>2. \A c : c \in In(Each(Len(board), calls)) <=> \E k \in 1..Len(board) : c \in In(calls[k])
    BY <1>1, <2>1, EachAll, Zenon
  <2> QED BY <1>1, <2>2
<1>5. \A c : c \in In(Each(Len(board), calls)) <=> c \in ids
  <2>1. \A k \in Ids : \A d : d \in In(calls[k]) <=> k \in ids /\ d = k
    BY <1>2, Zenon
  <2>2. \A c : c \in In(Each(Len(board), calls)) <=> \E k \in Ids : k \in ids /\ c = k
    <3> SUFFICES ASSUME NEW c
                 PROVE  c \in In(Each(Len(board), calls)) <=> \E k \in Ids : k \in ids /\ c = k
      OBVIOUS
    <3>1. c \in In(Each(Len(board), calls)) <=> \E k \in Ids : c \in In(calls[k])
      BY <1>4
    <3>2. \A k \in Ids : c \in In(calls[k]) <=> k \in ids /\ c = k
      BY <2>1
    <3> QED BY <3>1, <3>2
  <2> QED BY <2>2
<1>6. InOrder(ids) = Each(Len(board), calls)
  BY Zenon DEF InOrder, calls
<1> QED BY <1>3, <1>5, <1>6

Moves(ids) == {MoveTo(This(s), Done) : s \in ids}

LEMMA CloseIs ==
  ASSUME board \in Seq(Tickets), NEW ids, ids \subseteq Ids
  PROVE  Close(ids) \in Seq(Calls) /\ In(Close(ids)) = Moves(ids)
<1> DEFINE calls == [j \in Ids |-> IF j \in ids THEN <<MoveTo(This(j), Done)>> ELSE <<>>]
<1>1. Len(board) \in Nat /\ Ids = 1..Len(board) /\ Ids \subseteq Nat
  BY BoardHas
<1>2. ASSUME NEW k \in Ids
      PROVE  /\ calls[k] \in Seq(Calls)
             /\ \A d : d \in In(calls[k]) <=> k \in ids /\ d = MoveTo(This(k), Done)
  <2>1. calls[k] = IF k \in ids THEN <<MoveTo(This(k), Done)>> ELSE <<>>
    OBVIOUS
  <2>3. MoveTo(This(k), Done) \in Calls
    <3>1. k \in Nat /\ {} \in SUBSET Nat
      BY <1>1
    <3>2. This(k) \in Refs
      BY <3>1, RefsAre, Zenon
    <3> QED BY <3>1, <3>2, ReadyColumns, CallsAre
  <2> HIDE DEF calls
  <2>4. CASE k \in ids
    BY <2>1, <2>3, <2>4 DEF In
  <2>5. CASE k \notin ids
    BY <2>1, <2>5 DEF In
  <2> QED BY <2>4, <2>5
<1> HIDE DEF calls
<1>3. Each(Len(board), calls) \in Seq(Calls)
  BY <1>1, <1>2, EachIsSeq
<1>4. \A c : c \in In(Each(Len(board), calls)) <=> \E k \in Ids : c \in In(calls[k])
  <2>1. \A k \in 1..Len(board) : calls[k] \in Seq(Calls)
    BY <1>1, <1>2
  <2>2. \A c : c \in In(Each(Len(board), calls)) <=> \E k \in 1..Len(board) : c \in In(calls[k])
    BY <1>1, <2>1, EachAll, Zenon
  <2> QED BY <1>1, <2>2
<1>5. \A c : c \in In(Each(Len(board), calls)) <=> \E k \in ids : c = MoveTo(This(k), Done)
  BY <1>2, <1>4, Zenon
<1>6. Close(ids) = Each(Len(board), calls)
  BY Zenon DEF Close, calls
<1> QED BY <1>3, <1>5, <1>6 DEF Moves

(* What absorbing some tasks closes: each of them and what is open under it. *)
Absorbed(ids) == ids \cup {c \in Ids : board[c].parent \in ids /\ Col(c) # Done}

LEMMA AbsorbIs ==
  ASSUME board \in Seq(Tickets), NEW siblings \in Seq(Ids)
  PROVE  Absorb(siblings) \in Seq(Calls) /\ In(Absorb(siblings)) = Moves(Absorbed(In(siblings)))
<1> DEFINE under(s) == {c \in Sections(s) : Col(c) # Done}
           calls == [k \in DOMAIN siblings |-> Close(under(siblings[k])) \o Close({siblings[k]})]
<1>1. Len(siblings) \in Nat /\ DOMAIN siblings = 1..Len(siblings)
  OBVIOUS
<1>2. ASSUME NEW k \in 1..Len(siblings)
      PROVE  /\ calls[k] \in Seq(Calls)
             /\ In(calls[k]) = Moves(under(siblings[k]) \cup {siblings[k]})
  <2>1. calls[k] = Close(under(siblings[k])) \o Close({siblings[k]})
    BY <1>1
  <2>2. under(siblings[k]) \subseteq Ids /\ {siblings[k]} \subseteq Ids
    <3>1. siblings[k] \in Ids
      BY <1>1, ElementOfSeq
    <3> QED BY <3>1 DEF Sections
  <2> HIDE DEF calls, under
  <2>3. /\ Close(under(siblings[k])) \in Seq(Calls)
        /\ In(Close(under(siblings[k]))) = Moves(under(siblings[k]))
    BY <2>2, CloseIs, Zenon
  <2>4. Close({siblings[k]}) \in Seq(Calls) /\ In(Close({siblings[k]})) = Moves({siblings[k]})
    BY <2>2, CloseIs, Zenon
  <2>5. In(Close(under(siblings[k])) \o Close({siblings[k]}))
          = Moves(under(siblings[k])) \cup Moves({siblings[k]})
    BY <2>3, <2>4, InConcat
  <2>6. Close(under(siblings[k])) \o Close({siblings[k]}) \in Seq(Calls)
    BY <2>3, <2>4, ConcatProperties, Zenon
  <2>7. Moves(under(siblings[k])) \cup Moves({siblings[k]}) = Moves(under(siblings[k]) \cup {siblings[k]})
    BY DEF Moves
  <2> QED BY <2>1, <2>5, <2>6, <2>7
<1>3. Absorb(siblings) = Each(Len(siblings), calls)
  BY Zenon DEF Absorb
<1> HIDE DEF calls
<1>4. Each(Len(siblings), calls) \in Seq(Calls)
  BY <1>1, <1>2, EachIsSeq
<1>5. \A c : c \in In(Each(Len(siblings), calls)) <=> \E k \in 1..Len(siblings) : c \in In(calls[k])
  BY <1>1, <1>2, EachAll, Zenon
<1>6. \A c : c \in In(Each(Len(siblings), calls))
             <=> \E k \in 1..Len(siblings) : \E s \in under(siblings[k]) \cup {siblings[k]} :
                   c = MoveTo(This(s), Done)
  <2>1. \A k \in 1..Len(siblings) : \A c : c \in In(calls[k])
           <=> \E s \in under(siblings[k]) \cup {siblings[k]} : c = MoveTo(This(s), Done)
    <3>1. ASSUME NEW k \in 1..Len(siblings), NEW c
          PROVE  c \in In(calls[k])
                 <=> \E s \in under(siblings[k]) \cup {siblings[k]} : c = MoveTo(This(s), Done)
      <4>1. In(calls[k]) = Moves(under(siblings[k]) \cup {siblings[k]})
        BY <1>2, Zenon
      <4> HIDE DEF under
      <4> QED BY <4>1 DEF Moves
    <3> QED BY <3>1
  <2> HIDE DEF under
  <2> SUFFICES ASSUME NEW c
               PROVE  c \in In(Each(Len(siblings), calls))
                      <=> \E k \in 1..Len(siblings) : \E s \in under(siblings[k]) \cup {siblings[k]} :
                            c = MoveTo(This(s), Done)
    OBVIOUS
  <2>2. c \in In(Each(Len(siblings), calls)) <=> \E k \in 1..Len(siblings) : c \in In(calls[k])
    BY <1>5
  <2>3. \A k \in 1..Len(siblings) : c \in In(calls[k])
           <=> \E s \in under(siblings[k]) \cup {siblings[k]} : c = MoveTo(This(s), Done)
    BY <2>1
  <2> QED BY <2>2, <2>3
<1>7. \A s : s \in Absorbed(In(siblings))
             <=> \E k \in 1..Len(siblings) : s \in under(siblings[k]) \cup {siblings[k]}
  BY DEF Absorbed, In, Sections
<1> HIDE DEF under
<1>8. \A c : c \in In(Each(Len(siblings), calls))
             <=> \E s \in Absorbed(In(siblings)) : c = MoveTo(This(s), Done)
  BY <1>6, <1>7, Zenon
<1> QED BY <1>3, <1>4, <1>8 DEF Moves

(* The calls for the k-th section of a folded task.                         *)
PartCalls(i, k, units) ==
  {Create(Section(i, k), This(i), T.spec.ready, units), Edge(This(i), Section(i, k))}
  \cup (IF k > 1 THEN {Edge(Section(i, k), Section(i, k - 1))} ELSE {})

LEMMA OpenSectionsIs ==
  ASSUME board \in Seq(Tickets), NEW i \in Nat, NEW sought \in Seq(Ids), NEW after
  PROVE  OpensIn(OpenSections(i, sought), {}, after, {Section(i, k) : k \in 1..Len(sought)},
                 UNION {PartCalls(i, k, board[sought[k]].units) : k \in 1..Len(sought)})
<1> DEFINE n == Len(sought)
           list(k) == SectionList(This(i), i, k, board[sought[k]].units, Before(i, k))
           calls == [k \in DOMAIN sought |->
                       <<Create(Section(i, k), This(i), T.spec.ready, board[sought[k]].units),
                         Edge(This(i), Section(i, k))>> \o Before(i, k)]
           upTo(k) == {Section(i, j) : j \in 1..k}
           names == [k \in 0..n |-> upTo(k)]
           given == [k \in 1..n |-> {Section(i, k)}]
           sets == [k \in 1..n |-> PartCalls(i, k, board[sought[k]].units)]
<1>1. n \in Nat /\ DOMAIN sought = 1..n
  OBVIOUS
<1>2. ASSUME NEW k \in 0..n - 1
      PROVE  /\ OpensIn(calls[k + 1], names[k], after, given[k + 1], sets[k + 1])
             /\ names[k + 1] = names[k] \cup given[k + 1]
  <2>1. PICK p \in Nat \ {0} : p = k + 1
    OBVIOUS
  <2>2. p \in 1..n /\ p \in 0..n /\ k \in 0..n /\ p - 1 = k /\ p \in Nat
    BY <1>1, <2>1
  <2>3. /\ calls[p] = list(p) /\ names[k] = upTo(k) /\ names[p] = upTo(p)
        /\ given[p] = {Section(i, p)} /\ sets[p] = PartCalls(i, p, board[sought[p]].units)
    BY <1>1, <2>2 DEF SectionList
  <2>4. Section(i, p) \notin upTo(k)
    <3>1. ASSUME NEW j \in 1..k PROVE Section(i, j) # Section(i, p)
      <4>1. j \in Nat /\ j # p
        BY <2>1
      <4>2. Section(i, j)[2] = j /\ Section(i, p)[2] = p
        BY <2>2, <4>1, RefsAre, Zenon DEF Section
      <4> QED BY <4>1, <4>2
    <3> QED BY <3>1
  <2>5. board[sought[p]].units \in SUBSET Nat
    <3>1. sought[p] \in Ids
      BY <2>2, ElementOfSeq
    <3> QED BY <3>1, BoardHas
  <2>6. /\ Before(i, p) \in Seq(Calls)
        /\ In(Before(i, p)) = IF p > 1 THEN {Edge(Section(i, p), Section(i, p - 1))} ELSE {}
    BY BeforeIs, Zenon
  <2>7. p > 1 => /\ Section(i, p - 1) \in upTo(k)
                 /\ Edge(Section(i, p), Section(i, p - 1)) \in In(Before(i, p))
    BY <2>1, <2>6
  <2>8. \A c \in In(Before(i, p)) : c.op = "edge" /\ Uses(c) \subseteq upTo(k) \cup {Section(i, p)}
    <3> SUFFICES ASSUME NEW c \in In(Before(i, p))
                 PROVE  c.op = "edge" /\ Uses(c) \subseteq upTo(k) \cup {Section(i, p)}
      OBVIOUS
    <3>1. p > 1 /\ c = Edge(Section(i, p), Section(i, p - 1))
      BY <2>6
    <3>2. /\ Uses(Edge(Section(i, p), Section(i, p - 1))) \subseteq {Section(i, p), Section(i, p - 1)}
          /\ Edge(Section(i, p), Section(i, p - 1)).op = "edge"
      BY EdgeUses, EdgeIs
    <3> QED BY <2>7, <3>1, <3>2
  <2>9. This(i) \in Refs /\ Len(This(i)) = 1
    <3>1. 0 \in Nat
      OBVIOUS
    <3> QED BY <3>1, RefsAre, Zenon
  <2>10. upTo(p) = upTo(k) \cup {Section(i, p)}
    <3>1. 1..p = 1..k \cup {p}
      BY <2>1
    <3> QED BY <3>1
  <2> HIDE DEF upTo
  <2>11. OpensIn(list(p), upTo(k), after, {Section(i, p)},
                 {Create(Section(i, p), This(i), T.spec.ready, board[sought[p]].units),
                  Edge(This(i), Section(i, p))} \cup In(Before(i, p)))
    BY <2>4, <2>5, <2>6, <2>7, <2>8, <2>9, SectionCalls, Zenon
  <2>12. OpensIn(list(p), upTo(k), after, {Section(i, p)}, PartCalls(i, p, board[sought[p]].units))
    BY <2>6, <2>11, Zenon DEF PartCalls
  <2> HIDE DEF calls, names, given, sets, list
  <2> QED BY <2>1, <2>3, <2>10, <2>12, Zenon
<1>3. /\ names[0] = {} /\ Total(given, n) = {Section(i, k) : k \in 1..n}
      /\ Total(sets, n) = UNION {PartCalls(i, k, board[sought[k]].units) : k \in 1..n}
  <2>1. names[0] = {}
    <3>1. 0 \in 0..n /\ 1..0 = {}
      BY <1>1
    <3> QED BY <3>1
  <2>2. Total(given, n) = {Section(i, k) : k \in 1..n}
    BY DEF Total
  <2>3. Total(sets, n) = UNION {PartCalls(i, k, board[sought[k]].units) : k \in 1..n}
    BY DEF Total
  <2> QED BY <2>1, <2>2, <2>3
<1>4. OpenSections(i, sought) = Each(n, calls)
  BY Zenon DEF OpenSections
<1> HIDE DEF calls, names, given, sets
<1>5. OpensIn(Each(n, calls), names[0], after, Total(given, n), Total(sets, n))
  BY <1>1, <1>2, EachOpens, Zenon
<1> QED BY <1>3, <1>4, <1>5, Zenon

Merged(i) == UNION {board[j].units : j \in {i} \cup Siblings(i)}

FoldCall(i, c) ==
  \/ c = Describe(This(i), Merged(i))
  \/ c \in Moves(Absorbed(Siblings(i)))
  \/ \E k \in Nat \ {0}, j \in {i} \cup Siblings(i) : c \in PartCalls(i, k, board[j].units)

(* The calls of a folding, if there is anything to fold.                    *)
LEMMA FoldIs ==
  ASSUME board \in Seq(Tickets), NEW i \in Tasks
  PROVE  /\ Siblings(i) = {} => Fold(i) = <<>>
         /\ Siblings(i) # {} =>
              /\ Fold(i) # <<>> /\ Head(Fold(i)) = Describe(This(i), Merged(i))
              /\ Moves(Siblings(i)) \subseteq In(Fold(i))
         /\ Fold(i) \in Seq(Calls) /\ Orderly(Fold(i), {}, {})
         /\ \A q \in 1..Len(Fold(i)) : q # 1 => Fold(i)[q].op # "describe"
         /\ \A c \in In(Fold(i)) : FoldCall(i, c)
<1> DEFINE siblings == InOrder(Siblings(i))
           sought == <<i>> \o siblings
           units == UNION {board[sought[k]].units : k \in DOMAIN sought}
           d == Describe(This(i), units)
           absorb == Absorb(siblings)
           sections == OpenSections(i, sought)
<1>1. i \in Ids /\ Siblings(i) \subseteq Ids /\ i \in Nat /\ Ids \subseteq Nat
  BY BoardHas DEF Tasks, Siblings
<1>2. siblings \in Seq(Ids) /\ In(siblings) = Siblings(i)
  BY <1>1, InOrderIs
<1>3. Siblings(i) = {} <=> siblings = <<>>
  <2> HIDE DEF siblings
  <2>1. CASE siblings = <<>>
    BY <1>2, <2>1 DEF In
  <2>2. CASE siblings # <<>>
    <3>1. 1 \in 1..Len(siblings)
      BY <1>2, <2>2
    <3>2. siblings[1] \in In(siblings)
      BY <3>1 DEF In
    <3> QED BY <1>2, <2>2, <3>2
  <2> QED BY <2>1, <2>2
<1>4. Fold(i) = IF siblings = <<>> THEN <<>> ELSE (<<d>> \o absorb) \o sections
  BY Zenon DEF Fold
<1>5. CASE Siblings(i) = {}
  <2>1. Fold(i) = <<>>
    BY <1>3, <1>4, <1>5
  <2>2. <<>> \in Seq(Calls) /\ Len(<<>>) = 0
    OBVIOUS
  <2>3. Orderly(<<>>, {}, {}) /\ In(<<>>) = {}
    BY OrderlyNone
  <2> QED BY <1>5, <2>1, <2>2, <2>3
<1>6. CASE Siblings(i) # {}
  <2> HIDE DEF siblings
  <2>1. sought \in Seq(Ids) /\ DOMAIN sought = 1..Len(sought)
    <3>1. <<i>> \in Seq(Ids)
      BY <1>1
    <3> QED BY <1>2, <3>1
  <2>2. \A j : j \in In(sought) <=> j \in {i} \cup Siblings(i)
    <3> SUFFICES ASSUME NEW j PROVE j \in In(sought) <=> j \in {i} \cup Siblings(i)
      OBVIOUS
    <3>1. <<i>> \in Seq(Ids)
      BY <1>1
    <3>2. Has(<<i>> \o siblings, j) <=> Has(<<i>>, j) \/ Has(siblings, j)
      BY <1>2, <3>1, HasConcat
    <3>3. Has(<<i>>, j) <=> j = i
      BY DEF Has
    <3> QED BY <1>2, <3>2, <3>3, InIs
  <2> HIDE DEF sought
  <2>3. \A k \in 1..Len(sought) : sought[k] \in {i} \cup Siblings(i) /\ k \in Nat \ {0}
    BY <2>2 DEF In
  <2>4. \A j \in {i} \cup Siblings(i) : \E k \in 1..Len(sought) : sought[k] = j
    BY <2>2 DEF In
  <2>5. units = Merged(i)
    BY <2>1, <2>3, <2>4, ZenonT(60) DEF Merged
  <2>6. units \in SUBSET Nat
    <3>1. \A j \in Ids : board[j].units \subseteq Nat
      BY BoardHas
    <3>2. Merged(i) \subseteq Nat
      BY <1>1, <3>1 DEF Merged
    <3> QED BY <2>5, <3>2
  <2> HIDE DEF units
  <2>7. This(i) \in Refs /\ Len(This(i)) = 1 /\ d.op = "describe" /\ d.on = This(i) /\ d.units = units
        /\ d \in Calls
    <3>1. This(i) \in Refs /\ Len(This(i)) = 1
      BY <1>1, RefsAre, Zenon
    <3>2. d.op = "describe" /\ d.on = This(i) /\ d.units = units
      BY DescribeIs
    <3>3. d \in Calls
      BY <2>6, <3>1, ReadyColumns, CallsAre
    <3> QED BY <3>1, <3>2, <3>3
  <2> HIDE DEF d
  <2>8. absorb \in Seq(Calls) /\ In(absorb) = Moves(Absorbed(Siblings(i)))
    BY <1>2, AbsorbIs
  <2>9. ASSUME NEW c \in In(absorb) PROVE c.op = "move" /\ Uses(c) = {}
    <3>1. PICK s \in Absorbed(Siblings(i)) : c = MoveTo(This(s), Done)
      BY <2>8 DEF Moves
    <3>2. s \in Nat
      BY <1>1, <3>1 DEF Absorbed
    <3>3. c.op = "move" /\ c.on = This(s)
      BY <3>1, MoveIs
    <3>4. Len(This(s)) = 1
      BY <3>2, RefsAre, Zenon
    <3> QED BY <3>3, <3>4 DEF Uses
  <2>10. OpensIn(sections, {}, {}, {Section(i, k) : k \in 1..Len(sought)},
                 UNION {PartCalls(i, k, board[sought[k]].units) : k \in 1..Len(sought)})
    BY <1>1, <2>1, OpenSectionsIs
  <2> HIDE DEF absorb, sections
  <2>11. /\ sections \in Seq(Calls) /\ Orderly(sections, {}, {})
         /\ In(sections) = UNION {PartCalls(i, k, board[sought[k]].units) : k \in 1..Len(sought)}
    BY <2>10 DEF OpensIn
  <2>12. Orderly(absorb, {}, In(sections)) /\ Creates(absorb) = {}
    <3>1. \A c \in In(absorb) : c.op \in {"edge", "move"} /\ Uses(c) \subseteq {}
      BY <2>9
    <3> QED BY <3>1, EdgesFit, Zenon
  <2>13. Fits(d, {}, In(absorb) \cup In(sections))
    <3>1. Uses(d) \subseteq {}
      BY <2>7 DEF Uses
    <3>2. ASSUME NEW u \in d.units
          PROVE  \E e \in In(absorb) \cup In(sections) : e.op = "create" /\ e.on = d.on /\ u \in e.units
      <4>1. PICK k \in 1..Len(sought) : u \in board[sought[k]].units
        BY <2>1, <2>7, <3>2 DEF units
      <4> DEFINE e == Create(Section(i, k), This(i), T.spec.ready, board[sought[k]].units)
      <4>2. e \in PartCalls(i, k, board[sought[k]].units)
        BY DEF PartCalls
      <4>3. e.op = "create" /\ e.on = This(i) /\ e.units = board[sought[k]].units
        BY CreateIs
      <4> HIDE DEF e
      <4>4. e \in In(sections)
        BY <2>11, <4>1, <4>2
      <4> QED BY <2>7, <4>1, <4>3, <4>4
    <3>3. d.op # "create"
      BY <2>7
    <3> QED BY <3>1, <3>2, <3>3, Zenon DEF Fits
  <2>14. /\ Orderly(<<d>>, {}, In(absorb) \cup In(sections)) /\ In(<<d>>) = {d} /\ Creates(<<d>>) = {}
         /\ <<d>> \in Seq(Calls)
    <3>1. /\ Orderly(<<d>>, {}, In(absorb) \cup In(sections)) /\ In(<<d>>) = {d}
          /\ Creates(<<d>>) = IF d.op = "create" THEN {d.to} ELSE {}
      BY <2>13, OrderlyOne, Zenon
    <3>2. <<d>> \in Seq(Calls)
      BY <2>7
    <3> QED BY <2>7, <3>1, <3>2
  <2> DEFINE front == <<d>> \o absorb
             list == front \o sections
  <2>15. /\ front \in Seq(Calls) /\ In(front) = {d} \cup In(absorb) /\ Creates(front) = {}
         /\ Orderly(front, {}, In(sections))
    <3>1. front \in Seq(Calls)
      BY <2>8, <2>14, ConcatProperties, Zenon
    <3>2. In(front) = In(<<d>>) \cup In(absorb) /\ Creates(front) = Creates(<<d>>) \cup Creates(absorb)
      BY <2>8, <2>14, InConcat, Zenon
    <3>3. {} \cup {} = {} /\ {} \cup Creates(<<d>>) = {}
      BY <2>14
    <3>4. Orderly(absorb, {} \cup Creates(<<d>>), In(sections))
      BY <2>12, <3>3, Zenon
    <3>5. Orderly(front, {}, In(sections))
      BY <2>8, <2>14, <3>4, OrderlyConcat, Zenon
    <3>6. In(front) = {d} \cup In(absorb) /\ Creates(front) = {}
      BY <2>12, <2>14, <3>2
    <3> QED BY <3>1, <3>5, <3>6, Zenon
  <2>16. Len(front) >= 1 /\ front[1] = d /\ Len(front) \in Nat
    BY <2>8, <2>14
  <2> HIDE DEF front
  <2>17. list \in Seq(Calls) /\ Orderly(list, {}, {}) /\ In(list) = ({d} \cup In(absorb)) \cup In(sections)
    <3>1. list \in Seq(Calls)
      BY <2>11, <2>15, ConcatProperties, Zenon
    <3>2. In(list) = In(front) \cup In(sections)
      BY <2>11, <2>15, InConcat, Zenon
    <3>3. In(sections) \cup {} = In(sections) /\ {} \cup Creates(front) = {}
      BY <2>15
    <3>4. Orderly(sections, {} \cup Creates(front), {}) /\ Orderly(front, {}, In(sections) \cup {})
      BY <2>11, <2>15, <3>3, Zenon
    <3>5. Orderly(list, {}, {})
      BY <2>11, <2>15, <3>4, OrderlyConcat, Zenon
    <3> QED BY <2>15, <3>1, <3>2, <3>5, Zenon
  <2>18. list # <<>> /\ Head(list) = d /\ list[1] = d /\ Len(list) \in Nat
    BY <2>11, <2>15, <2>16
  <2>19. Fold(i) = list
    BY <1>3, <1>4, <1>6 DEF front
  <2> HIDE DEF list
  <2>20. \A c \in In(sections) : c.op # "describe" /\ FoldCall(i, c)
    <3> SUFFICES ASSUME NEW c \in In(sections) PROVE c.op # "describe" /\ FoldCall(i, c)
      OBVIOUS
    <3>1. PICK k \in 1..Len(sought) : c \in PartCalls(i, k, board[sought[k]].units)
      BY <2>11
    <3>2. c.op = "create" \/ c.op = "edge"
      BY <3>1, CreateIs, EdgeIs DEF PartCalls
    <3>3. sought[k] \in {i} \cup Siblings(i) /\ k \in Nat \ {0}
      BY <2>3
    <3>4. \E m \in Nat \ {0}, j \in {i} \cup Siblings(i) : c \in PartCalls(i, m, board[j].units)
      BY <3>1, <3>3, Zenon
    <3>5. FoldCall(i, c)
      BY <3>4, Zenon DEF FoldCall
    <3> QED BY <3>2, <3>5
  <2>21. \A c \in In(absorb) : FoldCall(i, c)
    BY <2>8, Zenon DEF FoldCall
  <2>22. FoldCall(i, d)
    BY <2>5 DEF FoldCall, d
  <2>23. \A c \in In(list) : FoldCall(i, c)
    BY <2>17, <2>20, <2>21, <2>22
  <2>24. ASSUME NEW q \in 1..Len(list), q # 1 PROVE list[q].op # "describe"
    <3>1. list[q] \in In(absorb) \cup In(sections)
      <4>1. CASE q <= Len(front)
        <5>1. list[q] = front[q]
          BY <2>11, <2>15, <2>16, <4>1 DEF list
        <5>2. front[q] = absorb[q - 1] /\ q - 1 \in 1..Len(absorb)
          BY <2>8, <2>14, <2>24, <4>1 DEF front
        <5> QED BY <5>1, <5>2 DEF In
      <4>2. CASE q > Len(front)
        <5>1. list[q] = sections[q - Len(front)] /\ q - Len(front) \in 1..Len(sections)
          BY <2>11, <2>15, <2>16, <4>2 DEF list
        <5> QED BY <5>1 DEF In
      <4> QED BY <2>16, <4>1, <4>2
    <3> QED BY <2>9, <2>20, <3>1
  <2>25. Moves(Siblings(i)) \subseteq In(list)
    <3>1. Siblings(i) \subseteq Absorbed(Siblings(i))
      BY DEF Absorbed
    <3>2. Moves(Siblings(i)) \subseteq In(absorb)
      BY <2>8, <3>1 DEF Moves
    <3> QED BY <2>17, <3>2
  <2>26. Head(list) = Describe(This(i), Merged(i))
    BY <2>5, <2>18 DEF d
  <2> QED BY <1>6, <2>17, <2>18, <2>19, <2>23, <2>24, <2>25, <2>26
<1> QED BY <1>5, <1>6

(* A list after its first call.                                             *)
LEMMA OrderlyTail ==
  ASSUME NEW list \in Seq(Calls), list # <<>>, NEW known, Orderly(list, known, {})
  PROVE  /\ Head(list) \in Calls /\ Tail(list) \in Seq(Calls)
         /\ In(list) = {Head(list)} \cup In(Tail(list))
         /\ Fits(Head(list), known, In(Tail(list)))
         /\ Orderly(Tail(list), known \cup Creates(<<Head(list)>>), {})
         /\ (\A q \in 1..Len(list) : q # 1 => list[q].op # "describe") =>
              /\ \A c \in In(Tail(list)) : c.op # "describe"
              /\ \A q \in 1..Len(Tail(list)) : q # 1 => Tail(list)[q].op # "describe"
<1> DEFINE rest == Tail(list)
           c == Head(list)
<1>1. /\ rest \in Seq(Calls) /\ c \in Calls /\ Len(list) \in Nat /\ Len(list) > 0
      /\ Len(rest) = Len(list) - 1 /\ c = list[1]
      /\ \A q \in 1..Len(rest) : rest[q] = list[q + 1]
  OBVIOUS
<1> HIDE DEF rest, c
<1>2. \A q \in 2..Len(list) : q - 1 \in 1..Len(rest) /\ list[q] = rest[q - 1]
  BY <1>1
<1>3. In(list) = {c} \cup In(rest)
  <2>1. \A q \in 1..Len(list) : q = 1 \/ q \in 2..Len(list)
    BY <1>1
  <2>2. \A q \in 1..Len(rest) : q + 1 \in 1..Len(list)
    BY <1>1
  <2>3. 1 \in 1..Len(list)
    BY <1>1
  <2>4. ASSUME NEW q \in 1..Len(list) PROVE list[q] \in {c} \cup In(rest)
    BY <1>1, <1>2, <2>1 DEF In
  <2>5. ASSUME NEW q \in 1..Len(rest) PROVE rest[q] \in In(list)
    <3>1. q + 1 \in 1..Len(list) /\ rest[q] = list[q + 1]
      BY <1>1, <2>2
    <3> QED BY <3>1 DEF In
  <2>6. c \in In(list)
    BY <1>1, <2>3 DEF In
  <2>7. In(list) \subseteq {c} \cup In(rest)
    <3>1. \A x \in In(list) : \E q \in 1..Len(list) : x = list[q]
      BY DEF In
    <3> QED BY <2>4, <3>1
  <2>8. In(rest) \subseteq In(list)
    <3>1. \A x \in In(rest) : \E q \in 1..Len(rest) : x = rest[q]
      BY DEF In
    <3> QED BY <2>5, <3>1
  <2> QED BY <2>6, <2>7, <2>8
<1>4. Given(list, 1) = {} /\ Later(list, 1) = In(rest)
  <2>1. Given(list, 1) = {}
    BY DEF Given
  <2>2. \A q \in 1..Len(rest) : q + 1 \in 2..Len(list)
    BY <1>1
  <2>3. Later(list, 1) = In(rest)
    BY <1>1, <1>2, <2>2 DEF Later, In
  <2> QED BY <2>1, <2>3
<1>5. Fits(c, known, In(rest))
  <2>1. 1 \in 1..Len(list)
    BY <1>1
  <2>2. Fits(list[1], known \cup Given(list, 1), Later(list, 1) \cup {})
    BY <2>1, Zenon DEF Orderly
  <2>3. known \cup {} = known /\ In(rest) \cup {} = In(rest)
    OBVIOUS
  <2> QED BY <1>1, <1>4, <2>2, <2>3, Zenon
<1>6. ASSUME NEW q \in 1..Len(rest)
      PROVE  Fits(rest[q], (known \cup Creates(<<c>>)) \cup Given(rest, q), Later(rest, q) \cup {})
  <2>1. PICK p \in 1..Len(list) : p = q + 1
    BY <1>1
  <2>2. Fits(list[p], known \cup Given(list, p), Later(list, p) \cup {})
    BY Zenon DEF Orderly
  <2>3. list[p] = rest[q]
    BY <1>1, <2>1
  <2>4. Later(list, p) = Later(rest, q)
    <3>1. ASSUME NEW j \in p + 1..Len(list) PROVE list[j] \in Later(rest, q)
      <4>1. j - 1 \in q + 1..Len(rest) /\ list[j] = rest[j - 1]
        BY <1>1, <1>2, <2>1
      <4> QED BY <4>1 DEF Later
    <3>2. ASSUME NEW j \in q + 1..Len(rest) PROVE rest[j] \in Later(list, p)
      <4>1. j + 1 \in p + 1..Len(list) /\ rest[j] = list[j + 1]
        BY <1>1, <2>1
      <4> QED BY <4>1 DEF Later
    <3> QED BY <3>1, <3>2 DEF Later
  <2>5. Given(list, p) = Creates(<<c>>) \cup Given(rest, q)
    <3>1. \A x : x \in Creates(<<c>>) <=> c.op = "create" /\ x = c.to
      BY DEF Creates
    <3>2. ASSUME NEW j \in 1..p - 1, list[j].op = "create"
          PROVE  list[j].to \in Creates(<<c>>) \cup Given(rest, q)
      <4>1. CASE j = 1
        BY <1>1, <3>1, <3>2, <4>1
      <4>2. CASE j # 1
        <5>1. j - 1 \in 1..q - 1 /\ list[j] = rest[j - 1]
          BY <1>1, <1>2, <2>1, <4>2
        <5> QED BY <3>2, <5>1 DEF Given
      <4> QED BY <4>1, <4>2
    <3>3. ASSUME c.op = "create" PROVE c.to \in Given(list, p)
      <4>1. 1 \in 1..p - 1
        BY <2>1
      <4> QED BY <1>1, <3>3, <4>1 DEF Given
    <3>4. ASSUME NEW j \in 1..q - 1, rest[j].op = "create" PROVE rest[j].to \in Given(list, p)
      <4>1. j + 1 \in 1..p - 1 /\ rest[j] = list[j + 1]
        BY <1>1, <2>1
      <4> QED BY <3>4, <4>1 DEF Given
    <3>5. \A x \in Given(list, p) : \E j \in 1..p - 1 : list[j].op = "create" /\ x = list[j].to
      BY DEF Given
    <3>6. \A x \in Given(rest, q) : \E j \in 1..q - 1 : rest[j].op = "create" /\ x = rest[j].to
      BY DEF Given
    <3>7. Given(list, p) \subseteq Creates(<<c>>) \cup Given(rest, q)
      BY <3>2, <3>5
    <3>8. Creates(<<c>>) \cup Given(rest, q) \subseteq Given(list, p)
      BY <3>1, <3>3, <3>4, <3>6
    <3> QED BY <3>7, <3>8
  <2>6. (known \cup Creates(<<c>>)) \cup Given(rest, q) = known \cup (Creates(<<c>>) \cup Given(rest, q))
    OBVIOUS
  <2> QED BY <2>2, <2>3, <2>4, <2>5, <2>6, Zenon
<1>7. Orderly(rest, known \cup Creates(<<c>>), {})
  BY <1>6, Zenon DEF Orderly
<1>8. ASSUME \A q \in 1..Len(list) : q # 1 => list[q].op # "describe", NEW q \in 1..Len(rest)
      PROVE  rest[q].op # "describe"
  <2>1. q + 1 \in 1..Len(list) /\ q + 1 # 1 /\ rest[q] = list[q + 1]
    BY <1>1
  <2> QED BY <1>8, <2>1
<1>9. (\A q \in 1..Len(list) : q # 1 => list[q].op # "describe") =>
        /\ \A e \in In(rest) : e.op # "describe"
        /\ \A q \in 1..Len(rest) : q # 1 => rest[q].op # "describe"
  BY <1>8 DEF In
<1> QED BY <1>1, <1>3, <1>5, <1>7, <1>9, Zenon DEF rest, c

-----------------------------------------------------------------------------
(* What a step does to the board.                                           *)

(* The ticket i is moved; it asks for what it asked for.                    *)
Moved(i, place, by, built) ==
  /\ board' \in Seq(Tickets) /\ Ids' = Ids
  /\ \A j \in Ids : j # i => board'[j] = board[j]
  /\ board'[i].column = place /\ board'[i].by = by /\ board'[i].built = built
  /\ board'[i].parent = board[i].parent /\ board'[i].units = board[i].units
  /\ board'[i].deps = board[i].deps

(* The ticket i is written; it stays where it is.                           *)
Written(i, units, deps) ==
  /\ board' \in Seq(Tickets) /\ Ids' = Ids
  /\ \A j \in Ids : j # i => board'[j] = board[j]
  /\ board'[i].column = board[i].column /\ board'[i].by = board[i].by
  /\ board'[i].built = board[i].built /\ board'[i].parent = board[i].parent
  /\ board'[i].units = units /\ board'[i].deps = deps

Added(n, parent, place, units) ==
  /\ board' \in Seq(Tickets) /\ Ids' = Ids \cup {n} /\ n \notin Ids /\ n \in Nat \ {0}
  /\ \A j \in Ids : board'[j] = board[j] /\ j < n
  /\ board'[n].column = place /\ board'[n].by = NoStage /\ board'[n].built = FALSE
  /\ board'[n].parent = parent /\ board'[n].units = units /\ board'[n].deps = {}

By == {NoStage, "ticketmerge", "spec", "specmerge", "dev"}

LEMMA TicketHas ==
  ASSUME NEW t \in Tickets
  PROVE  /\ t.parent \in Nat /\ t.column \in Columns /\ t.units \in SUBSET Nat
         /\ t.deps \in SUBSET Nat /\ t.by \in By /\ t.built \in BOOLEAN
BY DEF Tickets, By

LEMMA ReplaceTicket ==
  ASSUME board \in Seq(Tickets), NEW i \in Ids, NEW t \in Tickets,
         board' = [board EXCEPT ![i] = t]
  PROVE  /\ board' \in Seq(Tickets) /\ Ids' = Ids /\ board'[i] = t
         /\ \A j \in Ids : j # i => board'[j] = board[j]
<1>1. i \in 1..Len(board) /\ Ids = 1..Len(board)
  BY BoardHas
<1>2. /\ board' \in Seq(Tickets) /\ Len(board') = Len(board)
      /\ \A j \in 1..Len(board) : board'[j] = IF j = i THEN t ELSE board[j]
  BY <1>1, ExceptSeq
<1> QED BY <1>1, <1>2 DEF Ids

LEMMA MoveTicket ==
  ASSUME board \in Seq(Tickets), NEW i \in Ids, NEW t \in Tickets,
         board' = [board EXCEPT ![i] = t],
         t.parent = board[i].parent, t.units = board[i].units, t.deps = board[i].deps
  PROVE  Moved(i, t.column, t.by, t.built)
<1>1. /\ board' \in Seq(Tickets) /\ Ids' = Ids /\ board'[i] = t
      /\ \A j \in Ids : j # i => board'[j] = board[j]
  BY ReplaceTicket
<1> QED BY <1>1 DEF Moved

LEMMA WriteTicket ==
  ASSUME board \in Seq(Tickets), NEW i \in Ids, NEW t \in Tickets,
         board' = [board EXCEPT ![i] = t],
         t.parent = board[i].parent, t.column = board[i].column, t.by = board[i].by,
         t.built = board[i].built
  PROVE  Written(i, t.units, t.deps)
<1>1. /\ board' \in Seq(Tickets) /\ Ids' = Ids /\ board'[i] = t
      /\ \A j \in Ids : j # i => board'[j] = board[j]
  BY ReplaceTicket
<1> QED BY <1>1 DEF Written

LEMMA PutIs ==
  ASSUME board \in Seq(Tickets), NEW i \in Ids, NEW place \in Columns, board' = Put(i, place)
  PROVE  Moved(i, place, board[i].by, board[i].built)
<1>1. board[i] \in Tickets
  BY BoardHas, ElementOfSeq
<1> DEFINE t == [board[i] EXCEPT !.column = place]
<1>2. /\ t \in Tickets /\ t.column = place /\ t.by = board[i].by /\ t.built = board[i].built
      /\ t.parent = board[i].parent /\ t.units = board[i].units /\ t.deps = board[i].deps
  BY <1>1 DEF Tickets
<1>3. board' = [board EXCEPT ![i] = t]
  BY DEF Put
<1> HIDE DEF t
<1>4. Moved(i, t.column, t.by, t.built)
  BY <1>2, <1>3, MoveTicket
<1> QED BY <1>2, <1>4, Zenon

LEMMA LeaveIs ==
  ASSUME board \in Seq(Tickets), NEW i \in Ids, NEW place \in Columns, board' = Leave(i, place)
  PROVE  Moved(i, place, NoStage, board[i].built)
<1>1. board[i] \in Tickets
  BY BoardHas, ElementOfSeq
<1> DEFINE t == [board[i] EXCEPT !.column = place, !.by = NoStage]
<1>2. /\ t \in Tickets /\ t.column = place /\ t.by = NoStage /\ t.built = board[i].built
      /\ t.parent = board[i].parent /\ t.units = board[i].units /\ t.deps = board[i].deps
  BY <1>1 DEF Tickets
<1>3. board' = [board EXCEPT ![i] = t]
  BY DEF Leave
<1> HIDE DEF t
<1>4. Moved(i, t.column, t.by, t.built)
  BY <1>2, <1>3, MoveTicket
<1> QED BY <1>2, <1>4, Zenon

LEMMA OccupyIs ==
  ASSUME board \in Seq(Tickets), NEW i \in Ids, NEW r \in By, T[r].working \in Columns,
         Occupy(i, r)
  PROVE  Moved(i, T[r].working, r, board[i].built)
<1>1. board[i] \in Tickets
  BY BoardHas, ElementOfSeq
<1> DEFINE t == [board[i] EXCEPT !.column = T[r].working, !.by = r]
<1>2. /\ t \in Tickets /\ t.column = T[r].working /\ t.by = r /\ t.built = board[i].built
      /\ t.parent = board[i].parent /\ t.units = board[i].units /\ t.deps = board[i].deps
  BY <1>1 DEF Tickets, By
<1>3. board' = [board EXCEPT ![i] = t]
  BY DEF Occupy
<1> HIDE DEF t
<1>4. Moved(i, t.column, t.by, t.built)
  BY <1>2, <1>3, MoveTicket
<1> QED BY <1>2, <1>4, Zenon

LEMMA FinishIs ==
  ASSUME board \in Seq(Tickets), NEW i \in Ids, NEW r,
         NEW place \in Columns, place = IF r = "dev" THEN Done ELSE T[r].success,
         Finish(i, r)
  PROVE  Moved(i, place, NoStage, board[i].built \/ r = "dev")
<1>1. board[i] \in Tickets
  BY BoardHas, ElementOfSeq
<1> DEFINE t == [board[i] EXCEPT !.column = place, !.by = NoStage, !.built = @ \/ r = "dev"]
<1>2. /\ t \in Tickets /\ t.column = place /\ t.by = NoStage
      /\ t.built = (board[i].built \/ r = "dev")
      /\ t.parent = board[i].parent /\ t.units = board[i].units /\ t.deps = board[i].deps
  BY <1>1 DEF Tickets
<1>3. board' = [board EXCEPT ![i] = t]
  BY ZenonT(60) DEF Finish, Leave
<1> HIDE DEF t
<1>4. Moved(i, t.column, t.by, t.built)
  BY <1>2, <1>3, MoveTicket
<1> QED BY <1>2, <1>4, Zenon

LEMMA LinkIs ==
  ASSUME board \in Seq(Tickets), NEW i \in Ids, NEW p \in Nat,
         board' = [board EXCEPT ![i].deps = @ \cup {p}]
  PROVE  Written(i, board[i].units, board[i].deps \cup {p})
<1>1. board[i] \in Tickets
  BY BoardHas, ElementOfSeq
<1> DEFINE t == [board[i] EXCEPT !.deps = @ \cup {p}]
<1>2. board[i].deps \cup {p} \in SUBSET Nat
  BY <1>1, TicketHas
<1>3. /\ t \in Tickets /\ t.column = board[i].column /\ t.by = board[i].by
      /\ t.built = board[i].built /\ t.parent = board[i].parent
      /\ t.units = board[i].units /\ t.deps = board[i].deps \cup {p}
  BY <1>1, <1>2 DEF Tickets
<1>4. board' = [board EXCEPT ![i] = t]
  OBVIOUS
<1> HIDE DEF t
<1>5. Written(i, t.units, t.deps)
  BY <1>3, <1>4, WriteTicket
<1> QED BY <1>3, <1>5, Zenon

LEMMA DescribedIs ==
  ASSUME board \in Seq(Tickets), NEW i \in Ids, NEW units \in SUBSET Nat,
         board' = [board EXCEPT ![i].units = units]
  PROVE  Written(i, units, board[i].deps)
<1>1. board[i] \in Tickets
  BY BoardHas, ElementOfSeq
<1> DEFINE t == [board[i] EXCEPT !.units = units]
<1>2. /\ t \in Tickets /\ t.column = board[i].column /\ t.by = board[i].by
      /\ t.built = board[i].built /\ t.parent = board[i].parent
      /\ t.units = units /\ t.deps = board[i].deps
  BY <1>1 DEF Tickets
<1>3. board' = [board EXCEPT ![i] = t]
  OBVIOUS
<1> HIDE DEF t
<1>4. Written(i, t.units, t.deps)
  BY <1>2, <1>3, WriteTicket
<1> QED BY <1>2, <1>4, Zenon

LEMMA AddTicket ==
  ASSUME board \in Seq(Tickets), NEW parent \in Nat, NEW place \in Columns, NEW units \in SUBSET Nat,
         board' = Append(board, [parent |-> parent, column |-> place, units |-> units, deps |-> {},
                                 by |-> NoStage, built |-> FALSE])
  PROVE  Added(Len(board) + 1, parent, place, units)
<1> DEFINE t == [parent |-> parent, column |-> place, units |-> units, deps |-> {},
                 by |-> NoStage, built |-> FALSE]
<1>1. t \in Tickets
  BY DEF Tickets
<1>2. /\ t.column = place /\ t.by = NoStage /\ t.built = FALSE /\ t.parent = parent
      /\ t.units = units /\ t.deps = {}
  OBVIOUS
<1> HIDE DEF t
<1>3. board' = Append(board, t)
  BY DEF t
<1>4. Len(board) \in Nat /\ Ids = 1..Len(board)
  BY BoardHas
<1>5. /\ board' \in Seq(Tickets) /\ Len(board') = Len(board) + 1
      /\ \A j \in 1..Len(board) : board'[j] = board[j]
      /\ board'[Len(board) + 1] = t
  BY <1>1, <1>3
<1>6. Ids' = 1..Len(board) + 1
  BY <1>5 DEF Ids
<1>7. Ids' = Ids \cup {Len(board) + 1} /\ Len(board) + 1 \notin Ids /\ Len(board) + 1 \in Nat \ {0}
      /\ \A j \in Ids : j < Len(board) + 1
  BY <1>4, <1>6
<1> QED BY <1>2, <1>4, <1>5, <1>7 DEF Added

-----------------------------------------------------------------------------
(* The invariant that says where everything is.                             *)

ListIs(list, names, ids) ==
  /\ list \in Seq(Calls) /\ Orderly(list, DOMAIN names, {})
  /\ \A n \in DOMAIN names : names[n] \in ids

ListInv ==
  /\ DOMAIN made = DOMAIN todo
  /\ \A h \in DOMAIN todo : ListIs(todo[h], made[h], Ids)

ShapeInv ==
  /\ SettingIs
  /\ left \in 0..MaxFailures
  /\ board \in Seq(Tickets)
  /\ ListInv

(* Where a task can be, and a section.                                      *)
TaskIs(place, by) ==
  \/ by = NoStage /\ place \in {EntryColumn, T.specmerge.ready, T.dev.ready, Done, Blocked}
  \/ by = "ticketmerge" /\ place = T.ticketmerge.working /\ MergeFirst
  \/ by = "specmerge" /\ place = T.specmerge.working
  \/ by = "dev" /\ place = T.dev.working
SectionIs(place, by) ==
  \/ by = NoStage /\ place \in {T.spec.ready, Done, Blocked}
  \/ by = "spec" /\ place \in {T.spec.working, Done}
(* A task that was merged beside another one may be closed in the hands of  *)
(* any stage.                                                               *)
LateIs(place, by) == MergeFirst /\ place = Done /\ by \in {"ticketmerge", "specmerge", "dev"}
PlaceIs(i, ticket) ==
  /\ ticket.built => ticket.column = Done /\ ticket.by = NoStage
  /\ ticket.parent = 0 =>
       TaskIs(ticket.column, ticket.by) \/ (i \in together /\ LateIs(ticket.column, ticket.by))
  /\ ticket.parent # 0 => SectionIs(ticket.column, ticket.by) /\ ~ticket.built
PlaceInv == \A i \in Ids : PlaceIs(i, board[i])

(* Of two tickets that are being merged, one was taken beside the other.    *)
HandInv ==
  /\ together \subseteq Ids
  /\ \A i, j \in Ids \ together :
       board[i].by = "ticketmerge" /\ board[j].by = "ticketmerge" => i = j
  /\ \A h \in DOMAIN todo : h # 0 => h \in Ids /\ board[h].by = "ticketmerge"

PlanInv == 0 \in DOMAIN todo => In(todo[0]) \subseteq PlanCalls

HandlerCall(h, c) ==
  \/ c.op = "describe" /\ c.on = This(h)
  \/ \E s \in Ids \ {h} : c = MoveTo(This(s), Done)
  \/ \E k \in Nat \ {0} : c = Create(Section(h, k), This(h), T.spec.ready, c.units)
  \/ \E k \in Nat \ {0} : c = Edge(This(h), Section(h, k))
  \/ \E k \in Nat \ {0, 1} : c = Edge(Section(h, k), Section(h, k - 1))

Asking(h, u) ==
  u \in board[h].units \/ \E c \in In(todo[h]) : c.op = "describe" /\ u \in c.units

(* A task that is going to be closed as absorbed.                           *)
Taken(h, s) ==
  /\ s # h /\ Col(s) \in {T.ticketmerge.ready, Done} /\ board[s].by = NoStage
  /\ ~board[s].built /\ \A u \in board[s].units : Asking(h, u)

HeadOnly(list) == \A q \in 1..Len(list) : q # 1 => list[q].op # "describe"

FoldInv ==
  \A h \in DOMAIN todo \ {0} :
    /\ HeadOnly(todo[h])
    /\ \A c \in In(todo[h]) :
         HandlerCall(h, c) /\ (c.op = "describe" => board[h].units \subseteq c.units)
    /\ \A s \in Ids \ together :
         board[s].parent = 0 /\ MoveTo(This(s), Done) \in In(todo[h]) => Taken(h, s)

BaseInv == ShapeInv /\ PlaceInv /\ HandInv /\ PlanInv /\ FoldInv

-----------------------------------------------------------------------------

LEMMA ListsStay ==
  ASSUME ListInv, Ids \subseteq Ids', UNCHANGED <<todo, made>>
  PROVE  ListInv'
BY DEF ListInv, ListIs

LEMMA ListsEnd ==
  ASSUME ListInv, Ids \subseteq Ids', NEW h \in DOMAIN todo, Stops(h)
  PROVE  /\ ListInv' /\ DOMAIN todo' = DOMAIN todo \ {h}
         /\ \A g \in DOMAIN todo' : todo'[g] = todo[g] /\ made'[g] = made[g]
<1>1. /\ DOMAIN todo' = DOMAIN todo \ {h} /\ DOMAIN made' = DOMAIN todo \ {h}
      /\ \A g \in DOMAIN todo \ {h} : todo'[g] = todo[g] /\ made'[g] = made[g]
  BY DEF Stops
<1>2. ListInv'
  BY <1>1 DEF ListInv, ListIs
<1> QED BY <1>1, <1>2

LEMMA ListsStart ==
  ASSUME ListInv, Ids \subseteq Ids', NEW h, NEW list \in Seq(Calls), Orderly(list, {}, {}),
         Starts(h, list)
  PROVE  /\ ListInv' /\ DOMAIN todo' = DOMAIN todo \cup {h}
         /\ todo'[h] = list /\ made'[h] = <<>>
         /\ \A g \in DOMAIN todo : g # h => todo'[g] = todo[g] /\ made'[g] = made[g]
<1>1. /\ DOMAIN todo' = DOMAIN todo \cup {h} /\ DOMAIN made' = DOMAIN todo \cup {h}
      /\ todo'[h] = list /\ made'[h] = <<>>
      /\ \A g \in DOMAIN todo : g # h => todo'[g] = todo[g] /\ made'[g] = made[g]
  BY DEF Starts
<1>2. DOMAIN <<>> = {}
  OBVIOUS
<1>3. ListIs(todo'[h], made'[h], Ids')
  BY <1>1, <1>2 DEF ListIs
<1>4. \A g \in DOMAIN todo : g # h => ListIs(todo'[g], made'[g], Ids')
  BY <1>1 DEF ListInv, ListIs
<1>5. ListInv'
  BY <1>1, <1>3, <1>4 DEF ListInv
<1> QED BY <1>1, <1>5

LEMMA HeadIs ==
  ASSUME ListInv, NEW h \in DOMAIN todo, todo[h] # <<>>
  PROVE  /\ Head(todo[h]) \in Calls /\ Tail(todo[h]) \in Seq(Calls)
         /\ In(todo[h]) = {Head(todo[h])} \cup In(Tail(todo[h]))
         /\ Fits(Head(todo[h]), DOMAIN made[h], In(Tail(todo[h])))
         /\ Orderly(Tail(todo[h]), DOMAIN made[h] \cup Creates(<<Head(todo[h])>>), {})
         /\ HeadOnly(todo[h]) => /\ \A c \in In(Tail(todo[h])) : c.op # "describe"
                                 /\ HeadOnly(Tail(todo[h]))
<1>1. todo[h] \in Seq(Calls) /\ Orderly(todo[h], DOMAIN made[h], {})
  BY DEF ListInv, ListIs
<1> DEFINE list == todo[h]
           known == DOMAIN made[h]
<1>2. list \in Seq(Calls) /\ Orderly(list, known, {}) /\ list # <<>>
  BY <1>1
<1> HIDE DEF list, known
<1>3. /\ Head(list) \in Calls /\ Tail(list) \in Seq(Calls)
      /\ In(list) = {Head(list)} \cup In(Tail(list))
      /\ Fits(Head(list), known, In(Tail(list)))
      /\ Orderly(Tail(list), known \cup Creates(<<Head(list)>>), {})
      /\ (\A q \in 1..Len(list) : q # 1 => list[q].op # "describe") =>
              /\ \A c \in In(Tail(list)) : c.op # "describe"
              /\ \A q \in 1..Len(Tail(list)) : q # 1 => Tail(list)[q].op # "describe"
  BY <1>2, OrderlyTail
<1> QED BY <1>3, Zenon DEF HeadOnly, list, known

LEMMA ListsProceed ==
  ASSUME ListInv, Ids \subseteq Ids', NEW h \in DOMAIN todo, todo[h] # <<>>, Proceeds(h),
         \/ Head(todo[h]).op # "create" /\ made' = made
         \/ /\ Head(todo[h]).op = "create"
            /\ \E n \in Ids' : made' = [made EXCEPT ![h] = Named(@, Head(todo[h]).to, n)]
  PROVE  /\ ListInv' /\ DOMAIN todo' = DOMAIN todo /\ todo'[h] = Tail(todo[h])
         /\ \A g \in DOMAIN todo : g # h => todo'[g] = todo[g] /\ made'[g] = made[g]
<1>1. /\ DOMAIN todo' = DOMAIN todo /\ todo'[h] = Tail(todo[h])
      /\ \A g \in DOMAIN todo : g # h => todo'[g] = todo[g]
  BY DEF Proceeds
<1>2. DOMAIN made' = DOMAIN made /\ \A g \in DOMAIN todo : g # h => made'[g] = made[g]
  BY DEF ListInv
<1>3. /\ Tail(todo[h]) \in Seq(Calls)
      /\ Orderly(Tail(todo[h]), DOMAIN made[h] \cup Creates(<<Head(todo[h])>>), {})
  BY HeadIs
<1>4. \A x : x \in Creates(<<Head(todo[h])>>) <=> Head(todo[h]).op = "create" /\ x = Head(todo[h]).to
  BY DEF Creates
<1>5. ListIs(todo[h], made[h], Ids)
  BY DEF ListInv
<1>6. ListIs(Tail(todo[h]), made'[h], Ids')
  <2>1. CASE Head(todo[h]).op # "create" /\ made' = made
    <3>1. DOMAIN made[h] \cup Creates(<<Head(todo[h])>>) = DOMAIN made[h]
      BY <1>4, <2>1
    <3> QED BY <1>3, <1>5, <2>1, <3>1 DEF ListIs
  <2>2. CASE Head(todo[h]).op = "create"
    <3>1. PICK n \in Ids' : made' = [made EXCEPT ![h] = Named(@, Head(todo[h]).to, n)]
      BY <2>2
    <3>2. made'[h] = Named(made[h], Head(todo[h]).to, n)
      BY <3>1 DEF ListInv
    <3>3. /\ DOMAIN made'[h] = DOMAIN made[h] \cup {Head(todo[h]).to}
          /\ \A m \in DOMAIN made'[h] : made'[h][m] = IF m = Head(todo[h]).to THEN n ELSE made[h][m]
      BY <3>2 DEF Named
    <3>4. DOMAIN made[h] \cup Creates(<<Head(todo[h])>>) = DOMAIN made'[h]
      BY <1>4, <2>2, <3>3
    <3>5. Orderly(Tail(todo[h]), DOMAIN made'[h], {})
      BY <1>3, <3>4, Zenon
    <3>6. \A m \in DOMAIN made'[h] : made'[h][m] \in Ids'
      BY <1>5, <3>3 DEF ListIs
    <3> QED BY <1>3, <3>5, <3>6 DEF ListIs
  <2> QED BY <2>1, <2>2
<1>7. \A g \in DOMAIN todo : g # h => ListIs(todo'[g], made'[g], Ids')
  BY <1>1, <1>2 DEF ListInv, ListIs
<1>8. ListInv'
  BY <1>1, <1>2, <1>6, <1>7 DEF ListInv
<1> QED BY <1>1, <1>2, <1>8

-----------------------------------------------------------------------------
(* What the next call of a handler is.                                      *)

LEMMA PlanCallIs ==
  ASSUME SettingIs, NEW c \in PlanCalls
  PROVE  \/ \E u \in Plan : c = Create(Task(u), This(0), EntryColumn, {u})
         \/ ~MergeFirst /\ \E u \in Plan, p \in 1..Pieces :
              c = Create(Section(u, p), Task(u), T.spec.ready, {u})
         \/ \E a, b \in Refs : c = Edge(a, b) /\ Len(a) = 2 /\ Len(b) = 2
<1>1. PICK u \in Plan : c \in TaskCalls(u)
  BY DEF PlanCalls
<1>2. u \in Nat /\ 1..u - 1 \subseteq Nat /\ 1..Pieces \subseteq Nat
  BY SettingHas DEF Plan
<1>3. \A v \in 1..u : Task(v) \in Refs /\ Len(Task(v)) = 2
  <2>1. ASSUME NEW v \in 1..u PROVE Name(v, 0) \in Refs /\ Len(Name(v, 0)) = 2
    <3>1. v \in Nat /\ 0 \in Nat
      OBVIOUS
    <3> QED BY <3>1, RefsAre, Zenon
  <2> QED BY <2>1 DEF Task
<1>4. \A p \in Nat : Section(u, p) \in Refs /\ Len(Section(u, p)) = 2
  BY <1>2, RefsAre, Zenon DEF Section
<1>5. u \in 1..u /\ \A v \in 1..u - 1 : v \in 1..u
  BY <1>2, SettingHas DEF Plan
<1>6. CASE c = Create(Task(u), This(0), EntryColumn, {u})
  BY <1>6
<1>7. CASE \E v \in 1..u - 1 : c = Edge(Task(u), Task(v))
  BY <1>3, <1>5, <1>7
<1>8. CASE ~MergeFirst /\ c \in UNION {SectionSet(u, p) : p \in 1..Pieces}
  <2>1. PICK p \in 1..Pieces : c \in SectionSet(u, p)
    BY <1>8
  <2>2. p \in Nat
    BY <1>2, <2>1
  <2>3. CASE c = Create(Section(u, p), Task(u), T.spec.ready, {u})
    BY <1>8, <2>3
  <2>4. CASE c = Edge(Task(u), Section(u, p))
    BY <1>3, <1>4, <1>5, <2>2, <2>4
  <2>5. CASE \E v \in 1..u - 1 : c = Edge(Section(u, p), Task(v))
    BY <1>3, <1>4, <1>5, <2>2, <2>5
  <2>6. CASE p > 1 /\ c = Edge(Section(u, p), Section(u, p - 1))
    <3>1. p - 1 \in Nat
      BY <2>2, <2>6
    <3> QED BY <1>4, <2>2, <2>6, <3>1
  <2> QED BY <2>1, <2>3, <2>4, <2>5, <2>6 DEF SectionSet
<1> QED BY <1>1, <1>6, <1>7, <1>8 DEF TaskCalls

Next1 == Len(board) + 1

LEMMA IdOfThis ==
  ASSUME NEW h, NEW i \in Nat
  PROVE  Id(h, This(i)) = i
<1>1. 0 \in Nat
  OBVIOUS
<1>2. Len(This(i)) = 1 /\ This(i)[1] = i
  BY <1>1, RefsAre, Zenon
<1> QED BY <1>2 DEF Id

LEMMA IdOfName ==
  ASSUME ListInv, NEW h \in DOMAIN todo, NEW ref \in DOMAIN made[h], Len(ref) = 2
  PROVE  Id(h, ref) = made[h][ref] /\ made[h][ref] \in Ids
BY DEF Id, ListInv, ListIs

LEMMA NameIsRef ==
  ASSUME NEW u \in Nat, NEW p \in Nat
  PROVE  Section(u, p) \in Refs /\ Len(Section(u, p)) = 2 /\ Task(u) \in Refs /\ Len(Task(u)) = 2
         /\ Section(u, p)[1] = u /\ Section(u, p)[2] = p /\ Task(u)[1] = u /\ Task(u)[2] = 0
<1>1. 0 \in Nat
  OBVIOUS
<1> QED BY <1>1, RefsAre, ZenonT(60) DEF Section, Task

LEMMA UsesAre ==
  ASSUME NEW c, NEW known, Uses(c) \subseteq known
  PROVE  /\ Len(c.on) = 2 => c.on \in known
         /\ c.op = "edge" /\ Len(c.to) = 2 => c.to \in known
<1>1. ASSUME Len(c.on) = 2 PROVE c.on \in known
  <2>1. Len(c.on) # 1
    BY <1>1
  <2>2. c.on \in Uses(c)
    BY <2>1, Zenon DEF Uses
  <2> QED BY <2>2
<1>2. ASSUME c.op = "edge", Len(c.to) = 2 PROVE c.to \in known
  <2>1. Len(c.to) # 1
    BY <1>2
  <2>2. {c.on} \cup (IF c.op = "edge" THEN {c.to} ELSE {}) = {c.on, c.to}
    BY <1>2
  <2>3. c.to \in Uses(c)
    BY <2>1, <2>2 DEF Uses
  <2> QED BY <2>3
<1> QED BY <1>1, <1>2

(* A new ticket goes on the board.                                          *)
NewTicket(h, c, parent) ==
  /\ c.op = "create" /\ c.to \notin DOMAIN made[h]
  /\ Added(Next1, parent, c.column, c.units)
  /\ made' = [made EXCEPT ![h] = Named(@, c.to, Next1)]

PlannerDoes(c) ==
  \/ \E u \in Plan : /\ c = Create(Task(u), This(0), EntryColumn, {u})
                     /\ NewTicket(0, c, 0)
  \/ /\ ~MergeFirst
     /\ \E u \in Plan, p \in 1..Pieces :
          /\ c = Create(Section(u, p), Task(u), T.spec.ready, {u})
          /\ Task(u) \in DOMAIN made[0] /\ made[0][Task(u)] \in Ids
          /\ NewTicket(0, c, made[0][Task(u)])
  \/ /\ \E a, b \in DOMAIN made[0] :
          /\ c = Edge(a, b) /\ Len(a) = 2 /\ Len(b) = 2 /\ made[0][a] \in Ids /\ made[0][b] \in Ids
          /\ Written(made[0][a], board[made[0][a]].units,
                     board[made[0][a]].deps \cup {made[0][b]})
     /\ made' = made

LEMMA PlannerStep ==
  ASSUME SettingIs, board \in Seq(Tickets), ListInv, PlanInv, 0 \in DOMAIN todo, MakeCall(0)
  PROVE  PlannerDoes(Head(todo[0])) /\ Proceeds(0) /\ todo[0] # <<>> /\ UNCHANGED <<request, left, together>>
<1> DEFINE c == Head(todo[0])
<1>1. /\ todo[0] # <<>> /\ Proceeds(0) /\ UNCHANGED <<request, left, together>>
      /\ CreateTicket(0, c) \/ ChangeTicket(0, c)
  BY DEF MakeCall
<1>2. c \in In(todo[0]) /\ c \in Calls /\ Fits(c, DOMAIN made[0], In(Tail(todo[0])))
  BY <1>1, HeadIs
<1>3. c \in PlanCalls
  BY <1>2 DEF PlanInv
<1>4. 0 \in Nat /\ Plan \subseteq Nat /\ 1..Pieces \subseteq Nat /\ Ids \subseteq Nat
  BY SettingHas, BoardHas DEF Plan
<1>5. c.op = "create" => c.to \notin DOMAIN made[0] /\ c.column \in Columns /\ c.units \in SUBSET Nat
  <2> SUFFICES ASSUME c.op = "create"
               PROVE  c.to \notin DOMAIN made[0] /\ c.column \in Columns /\ c.units \in SUBSET Nat
    OBVIOUS
  <2>0. c.op = "create"
    OBVIOUS
  <2>1. c.to \notin DOMAIN made[0]
    BY <1>2 DEF Fits
  <2>2. c.units \in SUBSET Nat
    BY <1>2 DEF Calls
  <2> HIDE DEF c
  <2>3. c.column \in {EntryColumn, T.spec.ready}
    <3>1. CASE \E u \in Plan : c = Create(Task(u), This(0), EntryColumn, {u})
      BY <3>1, CreateIs
    <3>2. CASE \E u \in Plan, p \in 1..Pieces : c = Create(Section(u, p), Task(u), T.spec.ready, {u})
      BY <3>2, CreateIs
    <3>3. CASE \E a, b \in Refs : c = Edge(a, b)
      BY <2>0, <3>3, EdgeIs
    <3> QED BY <1>3, <3>1, <3>2, <3>3, PlanCallIs
  <2> QED BY <2>1, <2>2, <2>3, ReadyColumns DEF EntryColumn
<1>6. ASSUME c.op = "create", Id(0, c.on) \in Nat PROVE NewTicket(0, c, Id(0, c.on))
  <2>1. CreateTicket(0, c)
    BY <1>1, <1>6 DEF ChangeTicket
  <2>2. board' = Append(board, [parent |-> Id(0, c.on), column |-> c.column,
                                units |-> c.units, deps |-> {}, by |-> NoStage, built |-> FALSE])
    BY <2>1 DEF CreateTicket
  <2>3. made' = [made EXCEPT ![0] = Named(@, c.to, Next1)]
    BY <2>1, Zenon DEF CreateTicket, Next1
  <2> HIDE DEF c
  <2>4. Added(Next1, Id(0, c.on), c.column, c.units)
    BY <1>5, <1>6, <2>2, AddTicket, Zenon DEF Next1
  <2> QED BY <1>5, <1>6, <2>3, <2>4, Zenon DEF NewTicket
<1> HIDE DEF c
<1>7. ASSUME NEW u \in Plan, c = Create(Task(u), This(0), EntryColumn, {u})
      PROVE  NewTicket(0, c, 0)
  <2>1. c.op = "create" /\ c.on = This(0)
    BY <1>7, CreateIs
  <2>2. Id(0, c.on) = 0
    BY <1>4, <2>1, IdOfThis
  <2> QED BY <1>4, <1>6, <2>1, <2>2
<1>8. ASSUME NEW u \in Plan, NEW p \in 1..Pieces, c = Create(Section(u, p), Task(u), T.spec.ready, {u})
      PROVE  /\ Task(u) \in DOMAIN made[0] /\ made[0][Task(u)] \in Ids
             /\ NewTicket(0, c, made[0][Task(u)])
  <2>1. c.op = "create" /\ c.on = Task(u)
    BY <1>8, CreateIs
  <2>2. Len(Task(u)) = 2
    BY <1>4, NameIsRef
  <2>3. Task(u) \in DOMAIN made[0]
    <3>1. Uses(c) \subseteq DOMAIN made[0]
      BY <1>2, Zenon DEF Fits
    <3> QED BY <2>1, <2>2, <3>1, UsesAre
  <2>4. Id(0, c.on) = made[0][Task(u)] /\ made[0][Task(u)] \in Ids
    BY <2>1, <2>2, <2>3, IdOfName
  <2> QED BY <1>4, <1>6, <2>1, <2>3, <2>4
<1>9. ASSUME NEW a, NEW b, c = Edge(a, b), Len(a) = 2, Len(b) = 2
      PROVE  /\ a \in DOMAIN made[0] /\ b \in DOMAIN made[0] /\ made[0][a] \in Ids /\ made[0][b] \in Ids
             /\ Written(made[0][a], board[made[0][a]].units,
                     board[made[0][a]].deps \cup {made[0][b]})
             /\ made' = made
  <2>1. c.op = "edge" /\ c.on = a /\ c.to = b
    BY <1>9, EdgeIs
  <2>2. a \in DOMAIN made[0] /\ b \in DOMAIN made[0]
    <3>1. Uses(c) \subseteq DOMAIN made[0]
      BY <1>2, Zenon DEF Fits
    <3> QED BY <1>9, <2>1, <3>1, UsesAre
  <2>3. /\ Id(0, a) = made[0][a] /\ made[0][a] \in Ids
        /\ Id(0, b) = made[0][b] /\ made[0][b] \in Ids
    BY <1>9, <2>2, IdOfName
  <2>4. ChangeTicket(0, c)
    BY <1>1, <2>1 DEF CreateTicket
  <2>5. made' = made /\ board' = [board EXCEPT ![made[0][a]].deps = @ \cup {made[0][b]}]
    BY <2>1, <2>3, <2>4 DEF ChangeTicket
  <2>6. Written(made[0][a], board[made[0][a]].units, board[made[0][a]].deps \cup {made[0][b]})
    BY <1>4, <2>3, <2>5, LinkIs
  <2> QED BY <2>2, <2>3, <2>5, <2>6
<1>10. PlannerDoes(c)
  BY <1>3, <1>7, <1>8, <1>9, PlanCallIs DEF PlannerDoes
<1> QED BY <1>1, <1>10 DEF c

HandlerDoes(h, c) ==
  \/ \E k \in Nat \ {0} : /\ c = Create(Section(h, k), This(h), T.spec.ready, c.units)
                          /\ NewTicket(h, c, h)
  \/ /\ \/ \E k \in Nat \ {0} :
             /\ c = Edge(This(h), Section(h, k))
             /\ Section(h, k) \in DOMAIN made[h] /\ made[h][Section(h, k)] \in Ids
             /\ Written(h, board[h].units, board[h].deps \cup {made[h][Section(h, k)]})
        \/ \E k \in Nat \ {0, 1} :
             /\ c = Edge(Section(h, k), Section(h, k - 1))
             /\ Section(h, k) \in DOMAIN made[h] /\ made[h][Section(h, k)] \in Ids
             /\ Section(h, k - 1) \in DOMAIN made[h] /\ made[h][Section(h, k - 1)] \in Ids
             /\ Written(made[h][Section(h, k)], board[made[h][Section(h, k)]].units,
                        board[made[h][Section(h, k)]].deps \cup {made[h][Section(h, k - 1)]})
        \/ c.op = "describe" /\ c.on = This(h) /\ Written(h, c.units, board[h].deps)
        \/ \E s \in Ids \ {h} : c = MoveTo(This(s), Done) /\ Moved(s, Done, board[s].by, board[s].built)
     /\ made' = made

LEMMA HandlerStep ==
  ASSUME board \in Seq(Tickets), ListInv, HandInv, FoldInv, NEW h \in DOMAIN todo, h # 0, MakeCall(h)
  PROVE  HandlerDoes(h, Head(todo[h])) /\ Proceeds(h) /\ todo[h] # <<>> /\ UNCHANGED <<request, left, together>>
<1> DEFINE c == Head(todo[h])
<1>1. /\ todo[h] # <<>> /\ Proceeds(h) /\ UNCHANGED <<request, left, together>>
      /\ CreateTicket(h, c) \/ ChangeTicket(h, c)
  BY DEF MakeCall
<1>2. c \in In(todo[h]) /\ c \in Calls /\ Fits(c, DOMAIN made[h], In(Tail(todo[h])))
  BY <1>1, HeadIs
<1>3. HandlerCall(h, c)
  BY <1>2 DEF FoldInv
<1>4. h \in Ids /\ h \in Nat /\ Ids \subseteq Nat
  BY BoardHas DEF HandInv
<1>5. Id(h, This(h)) = h /\ \A s \in Ids : Id(h, This(s)) = s
  BY <1>4, IdOfThis
<1>6. c.units \in SUBSET Nat
  BY <1>2 DEF Calls
<1>7. ASSUME c.op # "create" PROVE ChangeTicket(h, c) /\ made' = made
  BY <1>1, <1>7 DEF CreateTicket, ChangeTicket
<1> HIDE DEF c
<1>8. ASSUME NEW k \in Nat \ {0}, c = Create(Section(h, k), This(h), T.spec.ready, c.units)
      PROVE  NewTicket(h, c, h)
  <2>1. c.op = "create" /\ c.on = This(h) /\ c.column = T.spec.ready
    BY <1>8, CreateIs
  <2>2. CreateTicket(h, c)
    BY <1>1, <2>1 DEF ChangeTicket
  <2>3. board' = Append(board, [parent |-> h, column |-> c.column,
                                units |-> c.units, deps |-> {}, by |-> NoStage, built |-> FALSE])
    BY <1>5, <2>1, <2>2 DEF CreateTicket
  <2>4. made' = [made EXCEPT ![h] = Named(@, c.to, Next1)]
    BY <2>2, Zenon DEF CreateTicket, Next1
  <2>5. c.column \in Columns /\ c.to \notin DOMAIN made[h]
    BY <1>2, <2>1, ReadyColumns DEF Fits
  <2>6. Added(Next1, h, c.column, c.units)
    BY <1>4, <1>6, <2>3, <2>5, AddTicket, Zenon DEF Next1
  <2> QED BY <2>1, <2>4, <2>5, <2>6, Zenon DEF NewTicket
<1>9. ASSUME NEW k \in Nat \ {0}, c = Edge(This(h), Section(h, k))
      PROVE  /\ Section(h, k) \in DOMAIN made[h] /\ made[h][Section(h, k)] \in Ids
             /\ Written(h, board[h].units, board[h].deps \cup {made[h][Section(h, k)]}) /\ made' = made
  <2>1. c.op = "edge" /\ c.on = This(h) /\ c.to = Section(h, k)
    BY <1>9, EdgeIs
  <2>2. Len(Section(h, k)) = 2
    BY <1>4, NameIsRef
  <2>3. Section(h, k) \in DOMAIN made[h]
    <3>1. Uses(c) \subseteq DOMAIN made[h]
      BY <1>2, Zenon DEF Fits
    <3> QED BY <2>1, <2>2, <3>1, UsesAre
  <2>4. Id(h, Section(h, k)) = made[h][Section(h, k)] /\ made[h][Section(h, k)] \in Ids
    BY <2>2, <2>3, IdOfName
  <2>5. board' = [board EXCEPT ![h].deps = @ \cup {made[h][Section(h, k)]}] /\ made' = made
    BY <1>5, <1>7, <2>1, <2>4 DEF ChangeTicket
  <2>6. Written(h, board[h].units, board[h].deps \cup {made[h][Section(h, k)]})
    BY <1>4, <2>4, <2>5, LinkIs
  <2> QED BY <2>3, <2>4, <2>5, <2>6
<1>10. ASSUME NEW k \in Nat \ {0, 1}, c = Edge(Section(h, k), Section(h, k - 1))
       PROVE  /\ Section(h, k) \in DOMAIN made[h] /\ made[h][Section(h, k)] \in Ids
              /\ Section(h, k - 1) \in DOMAIN made[h] /\ made[h][Section(h, k - 1)] \in Ids
              /\ Written(made[h][Section(h, k)], board[made[h][Section(h, k)]].units,
                         board[made[h][Section(h, k)]].deps \cup {made[h][Section(h, k - 1)]})
              /\ made' = made
  <2>1. c.op = "edge" /\ c.on = Section(h, k) /\ c.to = Section(h, k - 1)
    BY <1>10, EdgeIs
  <2>2. k - 1 \in Nat /\ k \in Nat
    OBVIOUS
  <2>3. Len(Section(h, k)) = 2 /\ Len(Section(h, k - 1)) = 2
    BY <1>4, <2>2, NameIsRef, Zenon
  <2>4. Section(h, k) \in DOMAIN made[h] /\ Section(h, k - 1) \in DOMAIN made[h]
    <3>1. Uses(c) \subseteq DOMAIN made[h]
      BY <1>2, Zenon DEF Fits
    <3> QED BY <2>1, <2>3, <3>1, UsesAre
  <2>5. /\ Id(h, Section(h, k)) = made[h][Section(h, k)] /\ made[h][Section(h, k)] \in Ids
        /\ Id(h, Section(h, k - 1)) = made[h][Section(h, k - 1)] /\ made[h][Section(h, k - 1)] \in Ids
    BY <2>3, <2>4, IdOfName, Zenon
  <2>6. board' = [board EXCEPT ![made[h][Section(h, k)]].deps = @ \cup {made[h][Section(h, k - 1)]}]
        /\ made' = made
    BY <1>7, <2>1, <2>5 DEF ChangeTicket
  <2>7. Written(made[h][Section(h, k)], board[made[h][Section(h, k)]].units,
                         board[made[h][Section(h, k)]].deps \cup {made[h][Section(h, k - 1)]})
    BY <1>4, <2>5, <2>6, LinkIs
  <2> QED BY <2>4, <2>5, <2>6, <2>7
<1>11. ASSUME c.op = "describe", c.on = This(h)
       PROVE  Written(h, c.units, board[h].deps) /\ made' = made
  <2>1. board' = [board EXCEPT ![h].units = c.units] /\ made' = made
    BY <1>5, <1>7, <1>11 DEF ChangeTicket
  <2> QED BY <1>4, <1>6, <2>1, DescribedIs
<1>12. ASSUME NEW s \in Ids \ {h}, c = MoveTo(This(s), Done)
       PROVE  Moved(s, Done, board[s].by, board[s].built) /\ made' = made
  <2>1. c.op = "move" /\ c.on = This(s) /\ c.column = Done
    BY <1>12, MoveIs
  <2>2. board' = Put(s, Done) /\ made' = made
    BY <1>5, <1>7, <2>1 DEF ChangeTicket
  <2> QED BY <2>2, ReadyColumns, PutIs
<1>13. HandlerDoes(h, c)
  <2>1. CASE \E k \in Nat \ {0} : c = Create(Section(h, k), This(h), T.spec.ready, c.units)
    BY <1>8, <2>1, Zenon DEF HandlerDoes
  <2>2. CASE \E k \in Nat \ {0} : c = Edge(This(h), Section(h, k))
    BY <1>9, <2>2, Zenon DEF HandlerDoes
  <2>3. CASE \E k \in Nat \ {0, 1} : c = Edge(Section(h, k), Section(h, k - 1))
    BY <1>10, <2>3, Zenon DEF HandlerDoes
  <2>4. CASE c.op = "describe" /\ c.on = This(h)
    BY <1>11, <2>4, Zenon DEF HandlerDoes
  <2>5. CASE \E s \in Ids \ {h} : c = MoveTo(This(s), Done)
    BY <1>12, <2>5, Zenon DEF HandlerDoes
  <2> QED BY <1>3, <2>1, <2>2, <2>3, <2>4, <2>5, Zenon DEF HandlerCall
<1> QED BY <1>1, <1>13 DEF c

LEMMA SettingStays ==
  ASSUME UNCHANGED setting
  PROVE  /\ Plan' = Plan /\ Pieces' = Pieces /\ MergeFirst' = MergeFirst /\ Slots' = Slots
         /\ Flaky' = Flaky /\ EntryColumn' = EntryColumn
         /\ PlanCalls' = PlanCalls
<1>1. /\ Plan' = Plan /\ Pieces' = Pieces /\ MergeFirst' = MergeFirst /\ Slots' = Slots
      /\ Flaky' = Flaky
  BY DEF Plan, Units, Pieces, MergeFirst, Slots, Flaky
<1>2. EntryColumn' = EntryColumn
  BY <1>1 DEF EntryColumn
<1>3. \A u : TaskCalls(u)' = TaskCalls(u)
  BY <1>1, <1>2 DEF TaskCalls
<1>4. PlanCalls' = PlanCalls
  BY <1>1, <1>3 DEF PlanCalls
<1> QED BY <1>1, <1>2, <1>4

(* Where the stages take a ticket from and where they put it.               *)
Rest(r) == IF r = "dev" THEN Done ELSE T[r].success

LEMMA StageColumns ==
  ASSUME NEW r \in Stages \cup {"ticketmerge"}
  PROVE  /\ r \in By /\ r # NoStage /\ T[r].ready \in Columns /\ T[r].working \in Columns
         /\ T[r].success \in Columns /\ Rest(r) \in Columns
         /\ r \in Stages => T[r].exhausted = Blocked /\ Blocked \in Columns
<1>1. r = "ticketmerge" \/ r = "spec" \/ r = "specmerge" \/ r = "dev"
  BY DEF Stages
<1>2. /\ T.ticketmerge.ready \in Columns /\ T.ticketmerge.working \in Columns
      /\ T.ticketmerge.success \in Columns
  BY RowsAre DEF Columns
<1>3. /\ T.spec.ready \in Columns /\ T.spec.working \in Columns
      /\ T.spec.success \in Columns
  BY RowsAre DEF Columns, Done
<1>4. /\ T.specmerge.ready \in Columns /\ T.specmerge.working \in Columns
      /\ T.specmerge.success \in Columns
  BY RowsAre DEF Columns
<1>5. T.dev.ready \in Columns /\ T.dev.working \in Columns
  BY RowsAre DEF Columns
<1>6. T.dev.success \in Columns
  BY DEF Columns, T, Table, AlwaysOn, Stage, Waits, HandsBack, Roles
<1>7. Done \in Columns /\ Blocked \in Columns
  BY DEF Columns
<1>8. /\ T.spec.exhausted = Blocked /\ T.specmerge.exhausted = Blocked /\ T.dev.exhausted = Blocked
  BY RowsAre DEF Blocked
<1>9. r \in By /\ r # NoStage
  BY <1>1 DEF By, NoStage
<1> QED BY <1>1, <1>2, <1>3, <1>4, <1>5, <1>6, <1>7, <1>8, <1>9 DEF Rest, Stages

(* What a stage does to a ticket.                                           *)
Worked(i, place, by, built) ==
  \/ /\ by = "ticketmerge" /\ place = T.ticketmerge.working /\ Col(i) = T.ticketmerge.ready
     /\ i \in together' \/ \A j \in Ids : board[j].by # "ticketmerge"
     /\ built = board[i].built
  \/ \E r \in Stages : by = r /\ place = T[r].working /\ Col(i) = T[r].ready /\ built = board[i].built
  \/ \E r \in Stages : /\ board[i].by = r /\ by = NoStage
                       /\ \/ place = Rest(r) /\ built = (board[i].built \/ r = "dev")
                          \/ place = Blocked /\ built = board[i].built
  \/ \E r \in Stages : by = board[i].by /\ Col(i) = T[r].ready /\ place = Blocked /\ built = board[i].built

Works(i) ==
  TakeToMerge(i) \/ \E r \in Stages : TakeUp(i, r) \/ Finish(i, r) \/ GiveUp(i, r) \/ SetAside(i, r)

LEMMA QueuedToMerge ==
  ASSUME PlaceInv, NEW i \in Ids, Col(i) = T.ticketmerge.ready
  PROVE  MergeFirst /\ board[i].parent = 0 /\ board[i].by = NoStage
<1>1. PlaceIs(i, board[i]) /\ board[i].column = "ready_for_ticket_merge"
  BY RowsAre DEF PlaceInv, Col
<1> QED BY <1>1, RowsAre DEF PlaceIs, TaskIs, SectionIs, LateIs, EntryColumn, Done, Blocked

LEMMA WorkerStep ==
  ASSUME SettingIs, left \in 0..MaxFailures, board \in Seq(Tickets), PlaceInv,
         NEW i \in Ids, Works(i)
  PROVE  /\ \E place \in Columns, by \in By, built \in BOOLEAN :
              Moved(i, place, by, built) /\ Worked(i, place, by, built)
         /\ UNCHANGED <<todo, made, request>> /\ left' \in 0..MaxFailures
         /\ together \subseteq together' /\ together' \subseteq together \cup {i}
<1>1. board[i] \in Tickets
  BY BoardHas, ElementOfSeq
<1>2. board[i].by \in By /\ board[i].built \in BOOLEAN
  BY <1>1, TicketHas
<1>3. NoStage \in By
  BY DEF By
<1>4. MaxFailures \in Nat
  BY SettingHas
<1>5. CASE TakeToMerge(i)
  <2>1. /\ Col(i) = T.ticketmerge.ready
        /\ Occupy(i, "ticketmerge") /\ UNCHANGED <<todo, made, request, left>>
    BY <1>5 DEF TakeToMerge, Takes
  <2>2. together' = IF InHand("ticketmerge") # {} THEN together \cup {i} ELSE together
    BY <1>5 DEF TakeToMerge
  <2>3. i \in together' \/ \A j \in Ids : board[j].by # "ticketmerge"
    BY <2>2 DEF InHand
  <2>4. "ticketmerge" \in By /\ T.ticketmerge.working \in Columns
    BY StageColumns
  <2>5. Moved(i, T.ticketmerge.working, "ticketmerge", board[i].built)
    BY <2>1, <2>4, OccupyIs
  <2>6. Worked(i, T.ticketmerge.working, "ticketmerge", board[i].built)
    BY <2>1, <2>3 DEF Worked
  <2> QED BY <1>2, <2>1, <2>2, <2>4, <2>5, <2>6
<1>6. ASSUME NEW r \in Stages, TakeUp(i, r)
      PROVE  /\ \E place \in Columns, by \in By, built \in BOOLEAN :
                   Moved(i, place, by, built) /\ Worked(i, place, by, built)
             /\ UNCHANGED <<todo, made, request, left, together>>
  <2>1. Col(i) = T[r].ready /\ Occupy(i, r) /\ UNCHANGED <<todo, made, request, left, together>>
    BY <1>6 DEF TakeUp, Takes
  <2>2. r \in By /\ T[r].working \in Columns
    BY StageColumns
  <2>3. Moved(i, T[r].working, r, board[i].built)
    BY <2>1, <2>2, OccupyIs
  <2>4. Worked(i, T[r].working, r, board[i].built)
    BY <2>1 DEF Worked
  <2> QED BY <1>2, <2>1, <2>2, <2>3, <2>4
<1>7. ASSUME NEW r \in Stages, Finish(i, r)
      PROVE  /\ \E place \in Columns, by \in By, built \in BOOLEAN :
                   Moved(i, place, by, built) /\ Worked(i, place, by, built)
             /\ UNCHANGED <<todo, made, request, left, together>>
  <2>1. board[i].by = r /\ UNCHANGED <<todo, made, request, left, together>>
    BY <1>7 DEF Finish
  <2>2. Rest(r) \in Columns
    BY StageColumns
  <2>3. Moved(i, Rest(r), NoStage, board[i].built \/ r = "dev")
    BY <1>7, <2>2, FinishIs DEF Rest
  <2>4. Worked(i, Rest(r), NoStage, board[i].built \/ r = "dev")
    BY <2>1 DEF Worked
  <2>5. (board[i].built \/ r = "dev") \in BOOLEAN
    OBVIOUS
  <2> QED BY <1>3, <2>1, <2>2, <2>3, <2>4, <2>5
<1>8. ASSUME NEW r \in Stages, GiveUp(i, r)
      PROVE  /\ \E place \in Columns, by \in By, built \in BOOLEAN :
                   Moved(i, place, by, built) /\ Worked(i, place, by, built)
             /\ UNCHANGED <<todo, made, request, together>> /\ left' \in 0..MaxFailures
  <2>1. board[i].by = r /\ UNCHANGED <<todo, made, request, together>> /\ left' \in 0..MaxFailures
    BY <1>4, <1>8 DEF GiveUp, Fails
  <2>2. T[r].exhausted = Blocked /\ Blocked \in Columns
    BY StageColumns
  <2>3. board' = Leave(i, Blocked)
    BY <1>8, <2>2 DEF GiveUp
  <2>4. Moved(i, Blocked, NoStage, board[i].built)
    BY <2>2, <2>3, LeaveIs
  <2>5. Worked(i, Blocked, NoStage, board[i].built)
    BY <2>1 DEF Worked
  <2> QED BY <1>2, <1>3, <2>1, <2>2, <2>4, <2>5
<1>9. ASSUME NEW r \in Stages, SetAside(i, r)
      PROVE  /\ \E place \in Columns, by \in By, built \in BOOLEAN :
                   Moved(i, place, by, built) /\ Worked(i, place, by, built)
             /\ UNCHANGED <<todo, made, request, left, together>>
  <2>1. Col(i) = T[r].ready /\ UNCHANGED <<todo, made, request, left, together>>
    BY <1>9 DEF SetAside
  <2>2. T[r].exhausted = Blocked /\ Blocked \in Columns
    BY StageColumns
  <2>3. board' = Put(i, Blocked)
    BY <1>9, <2>2 DEF SetAside
  <2>4. Moved(i, Blocked, board[i].by, board[i].built)
    BY <2>2, <2>3, PutIs
  <2>5. Worked(i, Blocked, board[i].by, board[i].built)
    BY <2>1 DEF Worked
  <2> QED BY <1>2, <2>1, <2>2, <2>4, <2>5
<1> QED BY <1>4, <1>5, <1>6, <1>7, <1>8, <1>9 DEF Works

LEMMA WorkedPlace ==
  ASSUME PlaceInv, board \in Seq(Tickets), NEW i \in Ids, NEW place, NEW by, NEW built \in BOOLEAN, Worked(i, place, by, built)
  PROVE  /\ built => place = Done /\ by = NoStage
         /\ board[i].parent = 0 => TaskIs(place, by)
         /\ board[i].parent # 0 => SectionIs(place, by) /\ ~built
         /\ board[i].by # "ticketmerge"
         /\ board[i].parent = 0 /\ place = Done => built
         /\ board[i].built => built
         /\ Col(i) = Done => board[i].by # NoStage
<1> DEFINE t == board[i]
<1>1. PlaceIs(i, t) /\ Col(i) = t.column /\ t.built \in BOOLEAN
  <2>1. board[i] \in Tickets
    BY BoardHas, ElementOfSeq
  <2> QED BY <2>1, TicketHas DEF PlaceInv, Col
<1> HIDE DEF t
<1>2. CASE by = "ticketmerge" /\ place = T.ticketmerge.working /\ t.column = T.ticketmerge.ready
           /\ built = t.built
  BY <1>1, <1>2, RowsAre DEF PlaceIs, TaskIs, LateIs, SectionIs, EntryColumn, Done, Blocked, NoStage, t
<1>3. ASSUME NEW r \in Stages, by = r, place = T[r].working, t.column = T[r].ready, built = t.built
      PROVE  /\ built => place = Done /\ by = NoStage
             /\ t.parent = 0 => TaskIs(place, by)
             /\ t.parent # 0 => SectionIs(place, by) /\ ~built
             /\ t.by # "ticketmerge" /\ place # Done /\ ~built /\ ~t.built /\ t.column # Done
  <2>1. CASE r = "spec"
    BY <1>1, <1>3, <2>1, RowsAre DEF PlaceIs, TaskIs, LateIs, SectionIs, EntryColumn, Done, Blocked, NoStage
  <2>2. CASE r = "specmerge"
    BY <1>1, <1>3, <2>2, RowsAre DEF PlaceIs, TaskIs, LateIs, SectionIs, EntryColumn, Done, Blocked, NoStage
  <2>3. CASE r = "dev"
    BY <1>1, <1>3, <2>3, RowsAre DEF PlaceIs, TaskIs, LateIs, SectionIs, EntryColumn, Done, Blocked, NoStage
  <2> QED BY <2>1, <2>2, <2>3 DEF Stages
<1>4. ASSUME NEW r \in Stages, t.by = r, by = NoStage,
             \/ place = Rest(r) /\ built = (t.built \/ r = "dev")
             \/ place = Blocked /\ built = t.built
      PROVE  /\ built => place = Done /\ by = NoStage
             /\ t.parent = 0 => TaskIs(place, by)
             /\ t.parent # 0 => SectionIs(place, by) /\ ~built
             /\ t.by # "ticketmerge" /\ (t.parent = 0 /\ place = Done => built)
             /\ (t.built => built) /\ t.by # NoStage
  <2>1. CASE r = "spec"
    BY <1>1, <1>4, <2>1, RowsAre DEF PlaceIs, TaskIs, LateIs, SectionIs, EntryColumn, Done, Blocked, NoStage, Rest
  <2>2. CASE r = "specmerge"
    BY <1>1, <1>4, <2>2, RowsAre DEF PlaceIs, TaskIs, LateIs, SectionIs, EntryColumn, Done, Blocked, NoStage, Rest
  <2>3. CASE r = "dev"
    BY <1>1, <1>4, <2>3, RowsAre DEF PlaceIs, TaskIs, LateIs, SectionIs, EntryColumn, Done, Blocked, NoStage, Rest
  <2> QED BY <2>1, <2>2, <2>3 DEF Stages
<1>5. ASSUME NEW r \in Stages, by = t.by, t.column = T[r].ready, place = Blocked, built = t.built
      PROVE  /\ built => place = Done /\ by = NoStage
             /\ t.parent = 0 => TaskIs(place, by)
             /\ t.parent # 0 => SectionIs(place, by) /\ ~built
             /\ t.by # "ticketmerge" /\ place # Done /\ ~t.built /\ t.column # Done
  <2>1. CASE r = "spec"
    BY <1>1, <1>5, <2>1, RowsAre DEF PlaceIs, TaskIs, LateIs, SectionIs, EntryColumn, Done, Blocked, NoStage
  <2>2. CASE r = "specmerge"
    BY <1>1, <1>5, <2>2, RowsAre DEF PlaceIs, TaskIs, LateIs, SectionIs, EntryColumn, Done, Blocked, NoStage
  <2>3. CASE r = "dev"
    BY <1>1, <1>5, <2>3, RowsAre DEF PlaceIs, TaskIs, LateIs, SectionIs, EntryColumn, Done, Blocked, NoStage
  <2> QED BY <2>1, <2>2, <2>3 DEF Stages
<1> QED BY <1>1, <1>2, <1>3, <1>4, <1>5, RowsAre DEF Worked, t, PlaceIs, TaskIs, LateIs, SectionIs, Done, Blocked, EntryColumn

LEMMA PlaceStays ==
  ASSUME PlaceInv, UNCHANGED setting, UNCHANGED board, together \subseteq together'
  PROVE  PlaceInv'
<1>1. EntryColumn' = EntryColumn /\ MergeFirst' = MergeFirst /\ Ids' = Ids
  BY SettingStays DEF Ids
<1> QED BY <1>1 DEF PlaceInv, PlaceIs, TaskIs, LateIs, SectionIs

LEMMA PlaceMoves ==
  ASSUME PlaceInv, UNCHANGED setting, together \subseteq together',
         NEW i \in Ids, NEW place, NEW by, NEW built,
         Moved(i, place, by, built),
         built => place = Done /\ by = NoStage,
         board[i].parent = 0 => TaskIs(place, by) \/ (i \in together /\ LateIs(place, by)),
         board[i].parent # 0 => SectionIs(place, by) /\ ~built
  PROVE  PlaceInv'
<1>1. EntryColumn' = EntryColumn /\ MergeFirst' = MergeFirst
  BY SettingStays
<1>2. ASSUME NEW j \in Ids' PROVE PlaceIs(j, board[j])'
  <2>1. CASE j = i
    BY <1>1, <2>1 DEF Moved, PlaceIs, TaskIs, LateIs, SectionIs
  <2>2. CASE j # i
    BY <1>1, <1>2, <2>2 DEF Moved, PlaceInv, PlaceIs, TaskIs, LateIs, SectionIs
  <2> QED BY <2>1, <2>2
<1> QED BY <1>2 DEF PlaceInv

LEMMA PlaceWritten ==
  ASSUME PlaceInv, UNCHANGED setting, together \subseteq together', NEW i \in Ids, NEW units, NEW deps, Written(i, units, deps)
  PROVE  PlaceInv'
<1>1. EntryColumn' = EntryColumn /\ MergeFirst' = MergeFirst
  BY SettingStays
<1>2. ASSUME NEW j \in Ids' PROVE PlaceIs(j, board[j])'
  <2>1. CASE j = i
    BY <1>1, <2>1 DEF Written, PlaceInv, PlaceIs, TaskIs, LateIs, SectionIs
  <2>2. CASE j # i
    BY <1>1, <1>2, <2>2 DEF Written, PlaceInv, PlaceIs, TaskIs, LateIs, SectionIs
  <2> QED BY <2>1, <2>2
<1> QED BY <1>2 DEF PlaceInv

LEMMA PlaceAdded ==
  ASSUME PlaceInv, UNCHANGED setting, together \subseteq together', NEW n, NEW parent, NEW place, NEW units,
         Added(n, parent, place, units),
         IF parent = 0 THEN place = EntryColumn ELSE place = T.spec.ready
  PROVE  PlaceInv'
<1>1. EntryColumn' = EntryColumn /\ MergeFirst' = MergeFirst
  BY SettingStays
<1>2. ASSUME NEW j \in Ids' PROVE PlaceIs(j, board[j])'
  <2>1. CASE j = n
    BY <1>1, <2>1 DEF Added, PlaceIs, TaskIs, LateIs, SectionIs
  <2>2. CASE j # n
    BY <1>1, <1>2, <2>2 DEF Added, PlaceInv, PlaceIs, TaskIs, LateIs, SectionIs
  <2> QED BY <2>1, <2>2
<1> QED BY <1>2 DEF PlaceInv

-----------------------------------------------------------------------------

FoldOk(h) ==
  /\ HeadOnly(todo[h])
  /\ \A c \in In(todo[h]) :
       HandlerCall(h, c) /\ (c.op = "describe" => board[h].units \subseteq c.units)
  /\ \A s \in Ids \ together :
       board[s].parent = 0 /\ MoveTo(This(s), Done) \in In(todo[h]) => Taken(h, s)

LEMMA FoldInvIs == FoldInv <=> \A h \in DOMAIN todo \ {0} : FoldOk(h)
BY DEF FoldInv, FoldOk

(* What is waiting, or closed as absorbed, stays so unless it is taken to   *)
(* be merged too.                                                           *)
Waiting(place, by, built) == place \in {T.ticketmerge.ready, Done} /\ by = NoStage /\ ~built
Unscathed(s) ==
  /\ board'[s].parent = board[s].parent
  /\ s \notin together' /\ Waiting(board[s].column, board[s].by, board[s].built)
       => board'[s].units = board[s].units /\ Waiting(board'[s].column, board'[s].by, board'[s].built)

LEMMA MoveTarget ==
  ASSUME NEW h, NEW s \in Nat, Ids \subseteq Nat, HandlerCall(h, MoveTo(This(s), Done))
  PROVE  s \in Ids \ {h}
<1> DEFINE c == MoveTo(This(s), Done)
<1>1. c.op = "move" /\ c.on = This(s)
  BY MoveIs
<1>2. This(s)[1] = s
  BY DEF This
<1> HIDE DEF c
<1>3. PICK t \in Ids \ {h} : c = MoveTo(This(t), Done)
  BY <1>1, CreateIs, EdgeIs DEF HandlerCall, c
<1>4. c.on = This(t) /\ This(t)[1] = t
  BY <1>3, MoveIs DEF This
<1> QED BY <1>1, <1>2, <1>3, <1>4

LEMMA FoldStays ==
  ASSUME NEW h, FoldOk(h), Ids \subseteq Ids', Ids' \subseteq Nat, together \subseteq together',
         In(todo'[h]) \subseteq In(todo[h]), HeadOnly(todo'[h]),
         \A j \in Ids \ {h} : Unscathed(j),
         \A u : Asking(h, u) => Asking(h, u)',
         \A c \in In(todo'[h]) : c.op = "describe" => board'[h].units \subseteq c.units
  PROVE  FoldOk(h)'
<1>1. HeadOnly(todo[h])'
  BY DEF HeadOnly
<1>2. ASSUME NEW c \in In(todo'[h]) PROVE HandlerCall(h, c)'
  <2>1. HandlerCall(h, c)
    BY DEF FoldOk
  <2> QED BY <2>1 DEF HandlerCall
<1>3. ASSUME NEW s \in Ids' \ together', board'[s].parent = 0, MoveTo(This(s), Done) \in In(todo'[h])
      PROVE  Taken(h, s)'
  <2>1. HandlerCall(h, MoveTo(This(s), Done)) /\ MoveTo(This(s), Done) \in In(todo[h])
    BY <1>3 DEF FoldOk
  <2>2. s \in Ids \ {h}
    BY <2>1, MoveTarget
  <2>3. Unscathed(s)
    BY <2>2
  <2>4. Taken(h, s)
    BY <1>3, <2>1, <2>2, <2>3 DEF FoldOk, Unscathed
  <2>5. s \notin together' /\ Waiting(board[s].column, board[s].by, board[s].built)
    BY <1>3, <2>4 DEF Taken, Waiting, Col
  <2>6. /\ Waiting(board'[s].column, board'[s].by, board'[s].built)
        /\ \A u \in board'[s].units : Asking(h, u)'
    BY <2>3, <2>4, <2>5 DEF Taken, Unscathed
  <2> QED BY <2>2, <2>6 DEF Taken, Waiting, Col
<1>4. (\A c \in In(todo[h]) :
       HandlerCall(h, c) /\ (c.op = "describe" => board[h].units \subseteq c.units))'
  <2>1. In(todo[h])' = In(todo'[h])
    BY DEF In
  <2> QED BY <1>2, <2>1
<1>5. (\A s \in Ids \ together :
        board[s].parent = 0 /\ MoveTo(This(s), Done) \in In(todo[h]) => Taken(h, s))'
  <2>1. In(todo[h])' = In(todo'[h])
    BY DEF In
  <2>2. \A s : MoveTo(This(s), Done)' = MoveTo(This(s), Done)
    OBVIOUS
  <2> QED BY <1>3, <2>1, <2>2
<1> QED BY <1>1, <1>4, <1>5 DEF FoldOk

(* ... when the handler itself does nothing.                                *)
LEMMA FoldWaits ==
  ASSUME NEW h \in Ids, FoldOk(h), Ids \subseteq Ids', Ids' \subseteq Nat, together \subseteq together',
         todo'[h] = todo[h], board'[h].units = board[h].units,
         \A j \in Ids \ {h} : Unscathed(j)
  PROVE  FoldOk(h)'
<1>1. In(todo'[h]) = In(todo[h])
  BY DEF In
<1>2. HeadOnly(todo'[h])
  BY DEF FoldOk, HeadOnly
<1>3. ASSUME NEW u, Asking(h, u) PROVE Asking(h, u)'
  <2>1. In(todo[h])' = In(todo[h])
    BY DEF In
  <2> QED BY <1>3, <2>1 DEF Asking
<1>4. \A c \in In(todo'[h]) : c.op = "describe" => board'[h].units \subseteq c.units
  BY <1>1 DEF FoldOk
<1> QED BY <1>1, <1>2, <1>3, <1>4, FoldStays

(* ... when it makes its next call, or loses it.                            *)
LEMMA FoldProceeds ==
  ASSUME ListInv, NEW h \in DOMAIN todo, h \in Ids, FoldOk(h), todo[h] # <<>>,
         todo'[h] = Tail(todo[h]), together \subseteq together',
         Ids \subseteq Ids', Ids' \subseteq Nat, \A j \in Ids \ {h} : Unscathed(j),
         IF Head(todo[h]).op = "describe" THEN board'[h].units = Head(todo[h]).units
         ELSE board'[h].units = board[h].units
  PROVE  FoldOk(h)'
<1>1. HeadOnly(todo[h])
  BY DEF FoldOk
<1>2. /\ In(todo[h]) = {Head(todo[h])} \cup In(Tail(todo[h]))
      /\ \A c \in In(Tail(todo[h])) : c.op # "describe"
      /\ HeadOnly(Tail(todo[h]))
  BY <1>1, HeadIs
<1>3. In(todo'[h]) \subseteq In(todo[h]) /\ HeadOnly(todo'[h])
      /\ \A c \in In(todo'[h]) : c.op # "describe"
  BY <1>2
<1>4. ASSUME NEW u, Asking(h, u) PROVE u \in board'[h].units
  <2>1. CASE u \in board[h].units
    <3>1. Head(todo[h]).op = "describe" => board[h].units \subseteq Head(todo[h]).units
      BY <1>2 DEF FoldOk
    <3> QED BY <2>1, <3>1
  <2>2. CASE \E c \in In(todo[h]) : c.op = "describe" /\ u \in c.units
    <3>1. Head(todo[h]).op = "describe" /\ u \in Head(todo[h]).units
      BY <1>2, <2>2
    <3> QED BY <3>1
  <2> QED BY <1>4, <2>1, <2>2 DEF Asking
<1>5. \A u : Asking(h, u) => Asking(h, u)'
  <2>1. ASSUME NEW u, u \in board'[h].units PROVE Asking(h, u)'
    BY <2>1 DEF Asking
  <2> QED BY <1>4, <2>1
<1>6. \A c \in In(todo'[h]) : c.op = "describe" => board'[h].units \subseteq c.units
  BY <1>3
<1> QED BY <1>3, <1>5, <1>6, FoldStays

LEMMA FoldStarts ==
  ASSUME board \in Seq(Tickets), PlaceInv, NEW i \in Tasks, UNCHANGED <<board, together>>,
         todo'[i] = Fold(i)
  PROVE  FoldOk(i)'
<1>1. /\ Siblings(i) = {} => Fold(i) = <<>>
      /\ Siblings(i) # {} =>
              /\ Fold(i) # <<>> /\ Head(Fold(i)) = Describe(This(i), Merged(i))
              /\ Moves(Siblings(i)) \subseteq In(Fold(i))
      /\ Fold(i) \in Seq(Calls) /\ Orderly(Fold(i), {}, {})
      /\ \A q \in 1..Len(Fold(i)) : q # 1 => Fold(i)[q].op # "describe"
      /\ \A c \in In(Fold(i)) : FoldCall(i, c)
  BY FoldIs
<1>2. i \in Ids /\ board[i].parent = 0 /\ 0 \notin Ids /\ Siblings(i) \subseteq Ids
      /\ i \notin Siblings(i) /\ Ids' = Ids /\ Ids \subseteq Nat
  <2>1. Ids = 1..Len(board) /\ Len(board) \in Nat /\ Ids' = Ids
    BY BoardHas DEF Ids
  <2>2. i \in Ids /\ board[i].parent = 0 /\ Siblings(i) \subseteq Ids /\ i \notin Siblings(i)
    BY DEF Tasks, Siblings
  <2> QED BY <2>1, <2>2
<1>3. Absorbed(Siblings(i)) \subseteq Ids \ {i}
      /\ \A s \in Absorbed(Siblings(i)) : board[s].parent = 0 => s \in Siblings(i)
  BY <1>2 DEF Absorbed
<1>4. ASSUME NEW c \in In(Fold(i))
      PROVE  HandlerCall(i, c) /\ (c.op = "describe" => board[i].units \subseteq c.units)
  <2>1. CASE c = Describe(This(i), Merged(i))
    <3>1. c.op = "describe" /\ c.on = This(i) /\ c.units = Merged(i)
      BY <2>1, DescribeIs
    <3>2. board[i].units \subseteq Merged(i)
      BY DEF Merged
    <3> QED BY <3>1, <3>2 DEF HandlerCall
  <2>2. CASE c \in Moves(Absorbed(Siblings(i)))
    <3>1. PICK s \in Absorbed(Siblings(i)) : c = MoveTo(This(s), Done)
      BY <2>2 DEF Moves
    <3>2. c.op = "move" /\ s \in Ids \ {i}
      BY <1>3, <3>1, MoveIs
    <3> QED BY <3>1, <3>2 DEF HandlerCall
  <2>3. ASSUME NEW k \in Nat \ {0}, NEW j \in {i} \cup Siblings(i), c \in PartCalls(i, k, board[j].units)
        PROVE  HandlerCall(i, c) /\ c.op # "describe"
    <3>1. CASE c = Create(Section(i, k), This(i), T.spec.ready, board[j].units)
      <4>1. c.units = board[j].units /\ c.op = "create"
        BY <3>1, CreateIs
      <4> QED BY <3>1, <4>1 DEF HandlerCall
    <3>2. CASE c = Edge(This(i), Section(i, k))
      <4>1. c.op = "edge"
        BY <3>2, EdgeIs
      <4> QED BY <3>2, <4>1 DEF HandlerCall
    <3>3. CASE k > 1 /\ c = Edge(Section(i, k), Section(i, k - 1))
      <4>1. c.op = "edge" /\ k \in Nat \ {0, 1}
        BY <3>3, EdgeIs
      <4> QED BY <3>3, <4>1 DEF HandlerCall
    <3> QED BY <2>3, <3>1, <3>2, <3>3 DEF PartCalls
  <2> QED BY <1>1, <2>1, <2>2, <2>3, Zenon DEF FoldCall
<1>5. ASSUME NEW s \in Ids, board[s].parent = 0, MoveTo(This(s), Done) \in In(Fold(i))
      PROVE  Taken(i, s)'
  <2>1. s \in Siblings(i)
    <3> DEFINE c == MoveTo(This(s), Done)
    <3>1. c.op = "move" /\ c.on = This(s) /\ This(s)[1] = s
      BY MoveIs DEF This
    <3>2. FoldCall(i, c)
      BY <1>1, <1>5
    <3> HIDE DEF c
    <3>3. c \in Moves(Absorbed(Siblings(i)))
      <4>1. c # Describe(This(i), Merged(i))
        BY <3>1, DescribeIs
      <4>2. \A k \in Nat \ {0}, j \in {i} \cup Siblings(i) : c \notin PartCalls(i, k, board[j].units)
        <5> SUFFICES ASSUME NEW k \in Nat \ {0}, NEW j \in {i} \cup Siblings(i), c \in PartCalls(i, k, board[j].units)
                     PROVE  FALSE
          OBVIOUS
        <5>1. c.op = "create" \/ c.op = "edge"
          BY CreateIs, EdgeIs DEF PartCalls
        <5> QED BY <3>1, <5>1
      <4> QED BY <3>2, <4>1, <4>2, Zenon DEF FoldCall
    <3>4. PICK t \in Absorbed(Siblings(i)) : c = MoveTo(This(t), Done)
      BY <3>3 DEF Moves
    <3>5. c.on = This(t) /\ This(t)[1] = t
      BY <3>4, MoveIs DEF This
    <3> QED BY <1>3, <1>5, <3>1, <3>4, <3>5
  <2>2. s # i /\ Col(s) = T.ticketmerge.ready
    BY <2>1 DEF Siblings
  <2>3. board[s].by = NoStage
    BY <2>2, QueuedToMerge
  <2>4. ~board[s].built
    BY <2>2, RowsAre DEF PlaceInv, PlaceIs, Col, Done
  <2>5. Describe(This(i), Merged(i)) \in In(Fold(i))
    <3>1. Fold(i) # <<>> /\ Fold(i) \in Seq(Calls) /\ Head(Fold(i)) = Describe(This(i), Merged(i))
      BY <1>1, <2>1
    <3>2. 1 \in 1..Len(Fold(i)) /\ Fold(i)[1] = Describe(This(i), Merged(i))
      BY <3>1
    <3> QED BY <3>2 DEF In
  <2>6. \A u \in board[s].units : u \in Merged(i)
    BY <2>1 DEF Merged
  <2>7. \A u \in board[s].units : Asking(i, u)'
    <3>1. In(todo[i])' = In(Fold(i))
      BY DEF In
    <3>2. Describe(This(i), Merged(i)).op = "describe" /\ Describe(This(i), Merged(i)).units = Merged(i)
      BY DescribeIs
    <3>3. ASSUME NEW u \in board[s].units PROVE Asking(i, u)'
      <4>1. \E c \in In(Fold(i)) : c.op = "describe" /\ u \in c.units
        BY <2>5, <2>6, <3>2
      <4> QED BY <3>1, <4>1 DEF Asking
    <3> QED BY <3>3
  <2> QED BY <2>2, <2>3, <2>4, <2>7 DEF Taken, Col
<1>6. HeadOnly(todo[i])'
  BY <1>1 DEF HeadOnly
<1>7. In(todo[i])' = In(Fold(i))
  BY DEF In
<1>8. (\A c \in In(todo[i]) :
       HandlerCall(i, c) /\ (c.op = "describe" => board[i].units \subseteq c.units))'
  BY <1>2, <1>4, <1>7 DEF HandlerCall
<1>9. (\A s \in Ids \ together :
        board[s].parent = 0 /\ MoveTo(This(s), Done) \in In(todo[i]) => Taken(i, s))'
  BY <1>2, <1>5, <1>7
<1> QED BY <1>6, <1>8, <1>9 DEF FoldOk

LEMMA BoardStays ==
  ASSUME UNCHANGED board
  PROVE  Ids' = Ids /\ \A j \in Ids : Unscathed(j)
BY DEF Ids, Unscathed

LEMMA WrittenDisturbs ==
  ASSUME NEW i \in Ids, NEW units, NEW deps, Written(i, units, deps)
  PROVE  Ids' = Ids /\ \A j \in Ids : j # i \/ units = board[i].units \/ board[i].by # NoStage => Unscathed(j)
BY DEF Written, Unscathed, Waiting

LEMMA AddedDisturbs ==
  ASSUME NEW n, NEW parent, NEW place, NEW units, Added(n, parent, place, units)
  PROVE  Ids \subseteq Ids' /\ Ids' \subseteq Nat /\ \A j \in Ids : Unscathed(j)
<1>1. Ids' \subseteq Nat
  <2>1. board' \in Seq(Tickets)
    BY DEF Added
  <2> QED BY <2>1 DEF Ids
<1>2. Ids \subseteq Ids' /\ \A j \in Ids : Unscathed(j)
  BY DEF Added, Unscathed, Waiting
<1> QED BY <1>1, <1>2

LEMMA MovedDisturbs ==
  ASSUME NEW i \in Ids, NEW place, NEW by, NEW built, Moved(i, place, by, built)
  PROVE  /\ Ids' = Ids
         /\ \A j \in Ids : j # i => Unscathed(j)
         /\ (i \notin together' /\ Waiting(board[i].column, board[i].by, board[i].built)
                => Waiting(place, by, built))
              => Unscathed(i)
BY DEF Moved, Unscathed, Waiting

LEMMA HandsStay ==
  ASSUME HandInv, Ids \subseteq Ids', UNCHANGED together,
         \A j \in Ids' : board'[j].by = "ticketmerge" => j \in Ids /\ board[j].by = "ticketmerge",
         \A h \in DOMAIN todo' \ {0} : h \in DOMAIN todo /\ board'[h].by = board[h].by
  PROVE  HandInv'
BY DEF HandInv

LEMMA PlanStays ==
  ASSUME PlanInv, UNCHANGED setting,
         0 \in DOMAIN todo' => 0 \in DOMAIN todo /\ In(todo'[0]) \subseteq In(todo[0])
  PROVE  PlanInv'
<1>1. PlanCalls' = PlanCalls
  BY SettingStays
<1>2. In(todo[0])' = In(todo'[0])
  BY DEF In
<1> QED BY <1>1, <1>2 DEF PlanInv

LEMMA HandlersAre ==
  ASSUME BaseInv, NEW h \in DOMAIN todo, h # 0
  PROVE  /\ h \in Ids /\ board[h].by = "ticketmerge" /\ FoldOk(h) /\ board[h].parent = 0 /\ MergeFirst
         /\ h \in together \/ board[h].column = T.ticketmerge.working
         /\ ~board[h].built
         /\ \A g \in DOMAIN todo : g # 0 /\ h \notin together /\ g \notin together => g = h
<1>1. /\ h \in Ids /\ board[h].by = "ticketmerge"
      /\ \A g \in DOMAIN todo : g # 0 /\ h \notin together /\ g \notin together => g = h
  BY DEF BaseInv, HandInv
<1>2. FoldOk(h)
  BY FoldInvIs DEF BaseInv
<1>3. PlaceIs(h, board[h])
  BY <1>1 DEF BaseInv, PlaceInv
<1>4. /\ board[h].parent = 0 /\ MergeFirst /\ ~board[h].built
      /\ h \in together \/ board[h].column = T.ticketmerge.working
  BY <1>1, <1>3 DEF PlaceIs, TaskIs, LateIs, SectionIs, NoStage
<1> QED BY <1>1, <1>2, <1>4

LEMMA FoldsWait ==
  ASSUME BaseInv, Ids \subseteq Ids', Ids' \subseteq Nat, together \subseteq together',
         \A j \in Ids : Unscathed(j),
         NEW h \in DOMAIN todo, h # 0, todo'[h] = todo[h], board'[h].units = board[h].units
  PROVE  FoldOk(h)'
<1>1. h \in Ids /\ FoldOk(h)
  BY HandlersAre
<1> QED BY <1>1, FoldWaits

LEMMA ShapeHas ==
  ASSUME BaseInv
  PROVE  /\ SettingIs /\ left \in 0..MaxFailures /\ board \in Seq(Tickets) /\ ListInv /\ PlaceInv
         /\ HandInv /\ PlanInv /\ FoldInv /\ Ids \subseteq Nat /\ 0 \notin Ids /\ together \subseteq Ids
<1>1. board \in Seq(Tickets)
  BY DEF BaseInv, ShapeInv
<1>2. Ids \subseteq Nat /\ 0 \notin Ids
  BY <1>1 DEF Ids
<1> QED BY <1>1, <1>2 DEF BaseInv, ShapeInv, HandInv

LEMMA BaseAfter ==
  ASSUME BaseInv, UNCHANGED setting, left' \in 0..MaxFailures, board' \in Seq(Tickets),
         ListInv', PlaceInv', HandInv', PlanInv',
         \A h \in DOMAIN todo' \ {0} : FoldOk(h)'
  PROVE  BaseInv'
<1>1. ShapeInv'
  BY DEF BaseInv, ShapeInv, SettingIs
<1>2. FoldInv'
  BY FoldInvIs DEF FoldInv, FoldOk
<1> QED BY <1>1, <1>2 DEF BaseInv

-----------------------------------------------------------------------------

LEMMA ScopeKeeps ==
  ASSUME BaseInv, UNCHANGED setting, Scope
  PROVE  BaseInv'
<1>1. Starts(0, Open) /\ UNCHANGED <<board, left, together>>
  BY DEF Scope
<1>2. Ids' = Ids /\ \A j \in Ids : Unscathed(j)
  BY <1>1, BoardStays
<1>3. Open \in Seq(Calls) /\ Orderly(Open, {}, {}) /\ In(Open) = PlanCalls
  BY ShapeHas, OpenIs DEF OpensIn
<1>4. /\ ListInv' /\ DOMAIN todo' = DOMAIN todo \cup {0} /\ todo'[0] = Open
      /\ \A g \in DOMAIN todo : g # 0 => todo'[g] = todo[g]
  BY <1>1, <1>2, <1>3, ShapeHas, ListsStart
<1>5. PlaceInv'
  BY <1>1, ShapeHas, PlaceStays
<1>6. HandInv'
  BY <1>1, <1>2, <1>4, ShapeHas, HandsStay
<1>7. PlanInv'
  <2>1. PlanCalls' = PlanCalls
    BY SettingStays
  <2>2. In(todo[0])' = In(Open)
    BY <1>4 DEF In
  <2> QED BY <1>3, <2>1, <2>2 DEF PlanInv
<1>8. \A h \in DOMAIN todo' \ {0} : FoldOk(h)'
  BY <1>2, <1>4, ShapeHas, FoldsWait
<1> QED BY <1>1, <1>4, <1>5, <1>6, <1>7, <1>8, ShapeHas, BaseAfter

LEMMA PlannerEnds ==
  ASSUME BaseInv, UNCHANGED setting, 0 \in DOMAIN todo, Stops(0), UNCHANGED <<board, together>>,
         left' \in 0..MaxFailures
  PROVE  BaseInv'
<1>1. Ids' = Ids /\ \A j \in Ids : Unscathed(j)
  BY BoardStays
<1>2. /\ ListInv' /\ DOMAIN todo' = DOMAIN todo \ {0}
      /\ \A g \in DOMAIN todo' : todo'[g] = todo[g]
  BY <1>1, ShapeHas, ListsEnd
<1>3. PlaceInv'
  BY ShapeHas, PlaceStays
<1>4. HandInv'
  BY <1>1, <1>2, ShapeHas, HandsStay
<1>5. PlanInv'
  BY <1>2, ShapeHas, PlanStays
<1>6. \A h \in DOMAIN todo' \ {0} : FoldOk(h)'
  BY <1>1, <1>2, ShapeHas, FoldsWait
<1> QED BY <1>2, <1>3, <1>4, <1>5, <1>6, ShapeHas, BaseAfter

LEMMA LossKeeps ==
  ASSUME BaseInv, UNCHANGED setting, NEW h \in DOMAIN todo, LoseCall(h)
  PROVE  BaseInv'
<1>1. /\ todo[h] # <<>> /\ Head(todo[h]).op \in {"edge", "move"} /\ Proceeds(h)
      /\ UNCHANGED <<board, made, together>> /\ left' \in 0..MaxFailures
  <2>1. MaxFailures \in Nat
    BY ShapeHas, SettingHas
  <2> QED BY <2>1, ShapeHas DEF LoseCall, Fails
<1>2. Ids' = Ids /\ \A j \in Ids : Unscathed(j)
  BY <1>1, BoardStays
<1>3. /\ ListInv' /\ DOMAIN todo' = DOMAIN todo /\ todo'[h] = Tail(todo[h])
      /\ \A g \in DOMAIN todo : g # h => todo'[g] = todo[g]
  BY <1>1, <1>2, ShapeHas, ListsProceed
<1>4. PlaceInv'
  BY <1>1, ShapeHas, PlaceStays
<1>5. HandInv'
  BY <1>1, <1>2, <1>3, ShapeHas, HandsStay
<1>6. PlanInv'
  <2>1. In(Tail(todo[h])) \subseteq In(todo[h])
    BY <1>1, ShapeHas, HeadIs
  <2> QED BY <1>3, <2>1, ShapeHas, PlanStays
<1>7. ASSUME NEW g \in DOMAIN todo' \ {0} PROVE FoldOk(g)'
  <2>1. CASE g = h
    <3>1. g \in Ids /\ FoldOk(g)
      BY <1>3, <1>7, HandlersAre
    <3>2. board'[g].units = board[g].units
      BY <1>1
    <3> QED BY <1>1, <1>2, <1>3, <2>1, <3>1, <3>2, ShapeHas, FoldProceeds
  <2>2. CASE g # h
    <3>1. g \in DOMAIN todo /\ todo'[g] = todo[g] /\ board'[g].units = board[g].units
          /\ together \subseteq together'
      BY <1>1, <1>3, <1>7, <2>2
    <3> QED BY <1>2, <1>7, <3>1, ShapeHas, FoldsWait
  <2> QED BY <2>1, <2>2
<1> QED BY <1>1, <1>3, <1>4, <1>5, <1>6, <1>7, ShapeHas, BaseAfter

LEMMA HandlerEnds ==
  ASSUME BaseInv, UNCHANGED <<setting, together>>, NEW h \in DOMAIN todo, h # 0, Stops(h),
         NEW place, place \in {T.ticketmerge.ready, T.specmerge.ready},
         Moved(h, place, NoStage, board[h].built), left' \in 0..MaxFailures
  PROVE  BaseInv'
<1>1. h \in Ids /\ board[h].by = "ticketmerge" /\ board[h].parent = 0 /\ MergeFirst /\ ~board[h].built
  BY HandlersAre
<1>2. Ids' = Ids /\ board' \in Seq(Tickets)
  BY DEF Moved
<1>3. /\ ListInv' /\ DOMAIN todo' = DOMAIN todo \ {h}
      /\ \A g \in DOMAIN todo' : todo'[g] = todo[g]
  BY <1>2, ShapeHas, ListsEnd
<1>4. TaskIs(place, NoStage)
  BY <1>1 DEF TaskIs, EntryColumn
<1>5. PlaceInv'
  BY <1>1, <1>4, ShapeHas, PlaceMoves
<1>6. HandInv'
  <2>1. \A j \in Ids' : board'[j].by = "ticketmerge" => j \in Ids /\ board[j].by = "ticketmerge"
    <3>1. NoStage # "ticketmerge"
      BY DEF NoStage
    <3> QED BY <3>1 DEF Moved
  <2>2. \A g \in DOMAIN todo' \ {0} : g \in DOMAIN todo /\ board'[g].by = board[g].by
    BY <1>3, HandlersAre DEF Moved
  <2> QED BY <1>2, <2>1, <2>2, ShapeHas, HandsStay
<1>7. PlanInv'
  BY <1>3, ShapeHas, PlanStays
<1>8. \A j \in Ids : Unscathed(j) /\ board'[j].units = board[j].units
  <2>1. Unscathed(h)
    <3>1. NoStage # "ticketmerge"
      BY DEF NoStage
    <3> QED BY <1>1, <3>1 DEF Moved, Unscathed, Waiting
  <2>2. \A j \in Ids : j # h => Unscathed(j)
    BY <1>1, MovedDisturbs
  <2> QED BY <2>1, <2>2 DEF Moved
<1>9. ASSUME NEW g \in DOMAIN todo' \ {0} PROVE FoldOk(g)'
  <2>1. g \in DOMAIN todo /\ g \in Ids /\ todo'[g] = todo[g]
    BY <1>3, <1>9, HandlersAre
  <2> QED BY <1>2, <1>8, <1>9, <2>1, ShapeHas, FoldsWait
<1> QED BY <1>2, <1>3, <1>5, <1>6, <1>7, <1>9, ShapeHas, BaseAfter

LEMMA WorkKeeps ==
  ASSUME BaseInv, UNCHANGED setting, NEW i \in Ids, Works(i)
  PROVE  BaseInv'
<1>1. /\ \E place \in Columns, by \in By, built \in BOOLEAN :
              Moved(i, place, by, built) /\ Worked(i, place, by, built)
      /\ UNCHANGED <<todo, made, request>> /\ left' \in 0..MaxFailures
      /\ together \subseteq together' /\ together' \subseteq together \cup {i}
  BY ShapeHas, WorkerStep
<1>2. PICK place \in Columns, by \in By, built \in BOOLEAN :
              Moved(i, place, by, built) /\ Worked(i, place, by, built)
  BY <1>1
<1>3. Ids' = Ids /\ board' \in Seq(Tickets)
  BY <1>2 DEF Moved
<1>4. /\ built => place = Done /\ by = NoStage
      /\ board[i].parent = 0 => TaskIs(place, by)
      /\ board[i].parent # 0 => SectionIs(place, by) /\ ~built
      /\ board[i].by # "ticketmerge"
      /\ Col(i) = Done => board[i].by # NoStage
  BY <1>2, ShapeHas, WorkedPlace
<1>5. PlaceInv'
  BY <1>1, <1>2, <1>4, ShapeHas, PlaceMoves
<1>6. ListInv'
  BY <1>1, <1>3, ShapeHas, ListsStay
<1>7. by = "ticketmerge" => i \in together' \/ \A j \in Ids : board[j].by # "ticketmerge"
  <2>1. "ticketmerge" \notin Stages /\ NoStage # "ticketmerge"
    BY DEF Stages, NoStage
  <2> QED BY <1>2, <1>4, <2>1 DEF Worked
<1>8. HandInv'
  <2>1. together' \subseteq Ids'
    BY <1>1, <1>3, ShapeHas
  <2>2. \A j \in Ids : j # i => board'[j].by = board[j].by
    BY <1>2 DEF Moved
  <2>3. board'[i].by = by
    BY <1>2 DEF Moved
  <2>4. ASSUME NEW j \in Ids' \ together', NEW k \in Ids' \ together',
               board'[j].by = "ticketmerge", board'[k].by = "ticketmerge"
        PROVE  j = k
    <3>1. j \in Ids \ together /\ k \in Ids \ together
      BY <1>1, <1>3
    <3>2. CASE j # i /\ k # i
      BY <2>2, <2>4, <3>1, <3>2, ShapeHas DEF HandInv
    <3>3. CASE j = i /\ k # i
      BY <1>7, <2>2, <2>3, <2>4, <3>1, <3>3
    <3>4. CASE j # i /\ k = i
      BY <1>7, <2>2, <2>3, <2>4, <3>1, <3>4
    <3> QED BY <3>2, <3>3, <3>4
  <2>5. ASSUME NEW h \in DOMAIN todo', h # 0 PROVE h \in Ids' /\ board'[h].by = "ticketmerge"
    BY <1>1, <1>3, <1>4, <2>2, <2>5, HandlersAre
  <2> QED BY <2>1, <2>4, <2>5 DEF HandInv
<1>9. PlanInv'
  BY <1>1, ShapeHas, PlanStays
<1>10. ASSUME NEW h \in DOMAIN todo' \ {0} PROVE FoldOk(h)'
  <2>1. h \in DOMAIN todo /\ todo'[h] = todo[h] /\ h \in Ids /\ board[h].by = "ticketmerge"
    BY <1>1, <1>10, HandlersAre
  <2>2. Unscathed(i)
    <3> SUFFICES ASSUME i \notin together', Waiting(board[i].column, board[i].by, board[i].built) PROVE FALSE
      BY <1>2, MovedDisturbs
    <3>1. by # "ticketmerge"
      BY <1>7, <2>1
    <3>2. Col(i) = T.ticketmerge.ready /\ board[i].by = NoStage
      BY <1>4 DEF Waiting, Col
    <3>3. \A r \in Stages : T[r].ready # T.ticketmerge.ready /\ r # NoStage
      BY RowsAre DEF Stages, NoStage
    <3> QED BY <1>2, <3>1, <3>2, <3>3 DEF Worked
  <2>3. \A j \in Ids : Unscathed(j) /\ board'[j].units = board[j].units
    BY <1>2, <2>2, MovedDisturbs DEF Moved
  <2> QED BY <1>1, <1>3, <1>10, <2>1, <2>3, ShapeHas, FoldsWait
<1> QED BY <1>1, <1>3, <1>5, <1>6, <1>8, <1>9, <1>10, ShapeHas, BaseAfter

LEMMA ListingKeeps ==
  ASSUME BaseInv, UNCHANGED setting, NEW i \in Ids, ListSiblings(i)
  PROVE  BaseInv'
<1>1. /\ board[i].by = "ticketmerge" /\ ~Writing(i) /\ Starts(i, Fold(i))
      /\ UNCHANGED <<board, request, left, together>>
  BY DEF ListSiblings
<1>2. Ids' = Ids /\ \A j \in Ids : Unscathed(j)
  BY <1>1, BoardStays
<1>3. i \in Tasks /\ i # 0
  <2>1. PlaceIs(i, board[i])
    BY ShapeHas DEF PlaceInv
  <2>2. board[i].parent = 0
    BY <1>1, <2>1 DEF PlaceIs, SectionIs, NoStage
  <2> QED BY <2>2, ShapeHas DEF Tasks
<1>4. Fold(i) \in Seq(Calls) /\ Orderly(Fold(i), {}, {})
  BY <1>3, ShapeHas, FoldIs
<1>5. /\ ListInv' /\ DOMAIN todo' = DOMAIN todo \cup {i} /\ todo'[i] = Fold(i)
      /\ \A g \in DOMAIN todo : g # i => todo'[g] = todo[g]
  BY <1>1, <1>2, <1>4, ShapeHas, ListsStart
<1>6. PlaceInv'
  BY <1>1, ShapeHas, PlaceStays
<1>7. HandInv'
  <2>1. \A j, k \in Ids' \ together' :
          board'[j].by = "ticketmerge" /\ board'[k].by = "ticketmerge" => j = k
    BY <1>1, <1>2, ShapeHas DEF HandInv
  <2>2. \A h \in DOMAIN todo' : h # 0 => h \in Ids' /\ board'[h].by = "ticketmerge"
    BY <1>1, <1>2, <1>5, ShapeHas DEF HandInv
  <2>3. together' \subseteq Ids'
    BY <1>1, <1>2, ShapeHas
  <2> QED BY <2>1, <2>2, <2>3 DEF HandInv
<1>8. PlanInv'
  BY <1>3, <1>5, ShapeHas, PlanStays
<1>9. ASSUME NEW h \in DOMAIN todo' \ {0} PROVE FoldOk(h)'
  <2>1. UNCHANGED <<board, together>>
    BY <1>1
  <2>2. CASE h = i
    <3>1. FoldOk(i)'
      BY <1>3, <1>5, <2>1, ShapeHas, FoldStarts
    <3> QED BY <2>2, <3>1
  <2>3. CASE h # i
    BY <1>2, <1>5, <1>9, <2>1, <2>3, ShapeHas, FoldsWait
  <2> QED BY <2>2, <2>3
<1> QED BY <1>1, <1>5, <1>6, <1>7, <1>8, <1>9, ShapeHas, BaseAfter

(* A call does not take a ticket from anyone, and describes only the ticket *)
(* of its handler.                                                          *)
LEMMA CallKeeps ==
  ASSUME BaseInv, UNCHANGED <<setting, left, together>>,
         NEW h \in DOMAIN todo, todo[h] # <<>>, Proceeds(h),
         board' \in Seq(Tickets), Ids \subseteq Ids', PlaceInv',
         \/ Head(todo[h]).op # "create" /\ made' = made
         \/ /\ Head(todo[h]).op = "create"
            /\ \E n \in Ids' : made' = [made EXCEPT ![h] = Named(@, Head(todo[h]).to, n)],
         \A j \in Ids : board'[j].by = board[j].by,
         \A j \in Ids' \ Ids : board'[j].by = NoStage,
         \A j \in Ids : Unscathed(j),
         \A j \in Ids \ {h} : board'[j].units = board[j].units,
         h # 0 => IF Head(todo[h]).op = "describe" THEN board'[h].units = Head(todo[h]).units
                  ELSE board'[h].units = board[h].units
  PROVE  BaseInv'
<1>1. /\ ListInv' /\ DOMAIN todo' = DOMAIN todo /\ todo'[h] = Tail(todo[h])
      /\ \A g \in DOMAIN todo : g # h => todo'[g] = todo[g]
  BY ShapeHas, ListsProceed
<1>2. Ids' \subseteq Nat
  BY DEF Ids
<1>3. HandInv'
  <2>1. NoStage # "ticketmerge"
    BY DEF NoStage
  <2>2. \A j \in Ids' : board'[j].by = "ticketmerge" => j \in Ids /\ board[j].by = "ticketmerge"
    BY <2>1
  <2>3. \A g \in DOMAIN todo' \ {0} : g \in DOMAIN todo /\ board'[g].by = board[g].by
    BY <1>1, HandlersAre
  <2> QED BY <2>2, <2>3, ShapeHas, HandsStay
<1>4. PlanInv'
  <2>1. In(Tail(todo[h])) \subseteq In(todo[h])
    BY ShapeHas, HeadIs
  <2> QED BY <1>1, <2>1, ShapeHas, PlanStays
<1>5. ASSUME NEW g \in DOMAIN todo' \ {0} PROVE FoldOk(g)'
  <2>1. g \in Ids /\ FoldOk(g) /\ g \in DOMAIN todo
    BY <1>1, <1>5, HandlersAre
  <2>2. CASE g = h
    BY <1>1, <1>2, <1>5, <2>1, <2>2, ShapeHas, FoldProceeds
  <2>3. CASE g # h
    BY <1>1, <1>2, <1>5, <2>1, <2>3, ShapeHas, FoldsWait
  <2> QED BY <2>2, <2>3
<1>6. left' \in 0..MaxFailures
  BY ShapeHas
<1> QED BY <1>1, <1>3, <1>4, <1>5, <1>6, BaseAfter

LEMMA NewTicketKeeps ==
  ASSUME BaseInv, UNCHANGED <<setting, left, together>>,
         NEW h \in DOMAIN todo, todo[h] # <<>>, Proceeds(h),
         NEW parent, NewTicket(h, Head(todo[h]), parent),
         IF parent = 0 THEN Head(todo[h]).column = EntryColumn
         ELSE Head(todo[h]).column = T.spec.ready
  PROVE  BaseInv'
<1> DEFINE c == Head(todo[h])
<1>1. /\ c.op = "create" /\ Added(Next1, parent, c.column, c.units)
      /\ made' = [made EXCEPT ![h] = Named(@, c.to, Next1)]
  BY DEF NewTicket
<1>2. Ids \subseteq Ids' /\ Ids' \subseteq Nat /\ \A j \in Ids : Unscathed(j)
  BY <1>1, AddedDisturbs
<1>3. PlaceInv'
  BY <1>1, ShapeHas, PlaceAdded
<1>4. /\ board' \in Seq(Tickets) /\ Next1 \in Ids' /\ \A j \in Ids : board'[j] = board[j]
      /\ \A j \in Ids' \ Ids : board'[j].by = NoStage
  BY <1>1 DEF Added
<1>5. \A j \in Ids : board'[j].by = board[j].by /\ board'[j].units = board[j].units
  BY <1>4
<1>6. h # 0 => IF Head(todo[h]).op = "describe" THEN board'[h].units = Head(todo[h]).units
                  ELSE board'[h].units = board[h].units
  <2>1. h # 0 => h \in Ids
    BY HandlersAre
  <2> QED BY <1>1, <1>4, <2>1
<1>7. \/ Head(todo[h]).op # "create" /\ made' = made
      \/ /\ Head(todo[h]).op = "create"
         /\ \E n \in Ids' : made' = [made EXCEPT ![h] = Named(@, Head(todo[h]).to, n)]
  BY <1>1, <1>4
<1> HIDE DEF c
<1> QED BY <1>2, <1>3, <1>4, <1>5, <1>6, <1>7, CallKeeps

LEMMA WrittenKeeps ==
  ASSUME BaseInv, UNCHANGED <<setting, left, made, together>>,
         NEW h \in DOMAIN todo, todo[h] # <<>>, Proceeds(h),
         Head(todo[h]).op # "create",
         NEW i \in Ids, NEW units, NEW deps, Written(i, units, deps),
         IF Head(todo[h]).op = "describe" THEN h # 0 /\ i = h /\ units = Head(todo[h]).units
         ELSE units = board[i].units
  PROVE  BaseInv'
<1>1. Ids' = Ids /\ \A j \in Ids : j # i \/ units = board[i].units \/ board[i].by # NoStage => Unscathed(j)
  BY WrittenDisturbs
<1>2. PlaceInv'
  BY ShapeHas, PlaceWritten
<1>3. /\ board' \in Seq(Tickets) /\ \A j \in Ids : board'[j].by = board[j].by
      /\ \A j \in Ids : board'[j].units = IF j = i THEN units ELSE board[j].units
  BY DEF Written
<1>4. \A j \in Ids : Unscathed(j)
  <2>1. h # 0 => board[h].by # NoStage
    BY HandlersAre DEF NoStage
  <2> QED BY <1>1, <2>1
<1>5. h # 0 => IF Head(todo[h]).op = "describe" THEN board'[h].units = Head(todo[h]).units
                  ELSE board'[h].units = board[h].units
  <2>1. h # 0 => h \in Ids
    BY HandlersAre
  <2> QED BY <1>3, <2>1
<1>6. Head(todo[h]).op # "create" /\ made' = made
  OBVIOUS
<1>7. \A j \in Ids \ {h} : board'[j].units = board[j].units
  BY <1>3
<1> QED BY <1>1, <1>2, <1>3, <1>4, <1>5, <1>6, <1>7, CallKeeps

LEMMA ClosingKeeps ==
  ASSUME BaseInv, UNCHANGED <<setting, left, made, together>>,
         NEW h \in DOMAIN todo, h # 0, todo[h] # <<>>, Proceeds(h),
         NEW s \in Ids \ {h}, Head(todo[h]) = MoveTo(This(s), Done),
         Moved(s, Done, board[s].by, board[s].built)
  PROVE  BaseInv'
<1>1. Head(todo[h]).op = "move"
  BY MoveIs
<1>2. h \in Ids /\ FoldOk(h) /\ MergeFirst
  BY HandlersAre
<1>3. PlaceIs(s, board[s])
  BY ShapeHas DEF PlaceInv
<1>4. board[s].parent = 0 => s \in together \/ Taken(h, s)
  <2>1. MoveTo(This(s), Done) \in In(todo[h])
    BY ShapeHas, HeadIs
  <2> QED BY <1>2, <2>1 DEF FoldOk
<1>5. /\ board[s].parent = 0 => TaskIs(Done, board[s].by) \/ (s \in together /\ LateIs(Done, board[s].by))
      /\ board[s].parent # 0 => SectionIs(Done, board[s].by) /\ ~board[s].built
      /\ board[s].built => board[s].by = NoStage
  BY <1>2, <1>3, <1>4 DEF Taken, PlaceIs, TaskIs, LateIs, SectionIs
<1>6. PlaceInv'
  BY <1>5, ShapeHas, PlaceMoves
<1>7. Ids' = Ids /\ \A j \in Ids : Unscathed(j)
  BY MovedDisturbs DEF Waiting
<1>8. /\ board' \in Seq(Tickets) /\ \A j \in Ids : board'[j].by = board[j].by
      /\ \A j \in Ids : board'[j].units = board[j].units
  BY DEF Moved
<1> QED BY <1>1, <1>2, <1>6, <1>7, <1>8, CallKeeps

LEMMA CallOfPlannerKeeps ==
  ASSUME BaseInv, UNCHANGED setting, 0 \in DOMAIN todo, MakeCall(0)
  PROVE  BaseInv'
<1>1. PlannerDoes(Head(todo[0])) /\ Proceeds(0) /\ todo[0] # <<>> /\ UNCHANGED <<request, left, together>>
  BY ShapeHas, PlannerStep
<1> DEFINE c == Head(todo[0])
<1>2. ASSUME NEW u \in Plan, c = Create(Task(u), This(0), EntryColumn, {u}), NewTicket(0, c, 0)
      PROVE  BaseInv'
  <2>1. c.column = EntryColumn
    BY <1>2, CreateIs
  <2> QED BY <1>1, <1>2, <2>1, NewTicketKeeps
<1>3. ASSUME NEW u \in Plan, NEW p \in 1..Pieces, c = Create(Section(u, p), Task(u), T.spec.ready, {u}),
             made[0][Task(u)] \in Ids, NewTicket(0, c, made[0][Task(u)])
      PROVE  BaseInv'
  <2>1. c.column = T.spec.ready
    BY <1>3, CreateIs
  <2>2. made[0][Task(u)] # 0
    BY <1>3, ShapeHas
  <2> QED BY <1>1, <1>3, <2>1, <2>2, NewTicketKeeps
<1>4. ASSUME NEW a \in DOMAIN made[0], NEW b \in DOMAIN made[0], c = Edge(a, b), made[0][a] \in Ids, made' = made,
             Written(made[0][a], board[made[0][a]].units, board[made[0][a]].deps \cup {made[0][b]})
      PROVE  BaseInv'
  <2>1. c.op = "edge"
    BY <1>4, EdgeIs
  <2> QED BY <1>1, <1>4, <2>1, WrittenKeeps
<1> HIDE DEF c
<1>5. PlannerDoes(c)
  BY <1>1 DEF c
<1> QED BY <1>2, <1>3, <1>4, <1>5 DEF PlannerDoes

LEMMA CallOfHandlerKeeps ==
  ASSUME BaseInv, UNCHANGED setting, NEW h \in DOMAIN todo, h # 0, MakeCall(h)
  PROVE  BaseInv'
<1>1. HandlerDoes(h, Head(todo[h])) /\ Proceeds(h) /\ todo[h] # <<>> /\ UNCHANGED <<request, left, together>>
  BY ShapeHas, HandlerStep
<1>2. h \in Ids
  BY HandlersAre
<1> DEFINE c == Head(todo[h])
<1>3. ASSUME NEW k \in Nat \ {0}, c = Create(Section(h, k), This(h), T.spec.ready, c.units),
             NewTicket(h, c, h)
      PROVE  BaseInv'
  <2>1. c.column = T.spec.ready
    BY <1>3, CreateIs
  <2> QED BY <1>1, <1>3, <2>1, NewTicketKeeps
<1>4. ASSUME NEW i \in Ids, NEW on, NEW to, NEW deps, c = Edge(on, to), Written(i, board[i].units, deps), made' = made
      PROVE  BaseInv'
  <2>1. c.op = "edge"
    BY <1>4, EdgeIs
  <2> QED BY <1>1, <1>4, <2>1, WrittenKeeps
<1>5. ASSUME c.op = "describe", Written(h, c.units, board[h].deps), made' = made
      PROVE  BaseInv'
  BY <1>1, <1>2, <1>5, WrittenKeeps
<1>6. ASSUME NEW s \in Ids \ {h}, c = MoveTo(This(s), Done), Moved(s, Done, board[s].by, board[s].built), made' = made
      PROVE  BaseInv'
  BY <1>1, <1>6, ClosingKeeps
<1> HIDE DEF c
<1>7. HandlerDoes(h, c)
  BY <1>1 DEF c
<1> QED BY <1>2, <1>3, <1>4, <1>5, <1>6, <1>7, Zenon DEF HandlerDoes

LEMMA FailureKeeps ==
  ASSUME BaseInv, UNCHANGED setting, NEW h \in DOMAIN todo, FailHandler(h) \/ FinishHandler(h)
  PROVE  BaseInv'
<1>1. Stops(h) /\ left' \in 0..MaxFailures /\ UNCHANGED together
  <2>1. MaxFailures \in Nat
    BY ShapeHas, SettingHas
  <2> QED BY <2>1, ShapeHas DEF FailHandler, FinishHandler, Fails
<1>2. CASE h = 0
  <2>1. UNCHANGED <<board, together>>
    BY <1>2 DEF FailHandler, FinishHandler
  <2> QED BY <1>1, <1>2, <2>1, PlannerEnds
<1>3. CASE h # 0
  <2>1. h \in Ids
    BY <1>3, HandlersAre
  <2>2. \/ board' = Leave(h, T.ticketmerge.ready)
        \/ board' = Leave(h, T.ticketmerge.success)
    BY <1>3 DEF FailHandler, FinishHandler
  <2>3. T.ticketmerge.success = T.specmerge.ready
    BY RowsAre
  <2>4. \E place \in {T.ticketmerge.ready, T.specmerge.ready} : Moved(h, place, NoStage, board[h].built)
    BY <2>1, <2>2, <2>3, ShapeHas, ReadyColumns, LeaveIs
  <2> QED BY <1>1, <1>3, <2>4, HandlerEnds
<1> QED BY <1>2, <1>3

LEMMA PriorityKeeps ==
  ASSUME BaseInv, UNCHANGED setting, PriorityFails
  PROVE  BaseInv'
<1>1. MaxFailures \in Nat
  BY ShapeHas, SettingHas
<1>2. 0 \in DOMAIN todo /\ Stops(0) /\ UNCHANGED <<board, together>> /\ left' \in 0..MaxFailures
  BY <1>1, ShapeHas DEF PriorityFails, Fails, Writing
<1> QED BY <1>2, PlannerEnds

LEMMA BaseStarts ==
  ASSUME SettingsAreSound, PlanInit
  PROVE  BaseInv
<1>1. SettingIs
  BY DEF PlanInit, SettingIs
<1>2. board = <<>> /\ Ids = {} /\ board \in Seq(Tickets)
  BY DEF PlanInit, Ids
<1>3. DOMAIN todo = {0} /\ DOMAIN made = {0} /\ todo[0] = Open /\ made[0] = <<>>
  BY DEF PlanInit
<1>4. Open \in Seq(Calls) /\ Orderly(Open, {}, {}) /\ In(Open) = PlanCalls
  BY <1>1, OpenIs DEF OpensIn
<1>5. DOMAIN <<>> = {}
  OBVIOUS
<1>6. ListIs(todo[0], made[0], Ids)
  BY <1>3, <1>4, <1>5 DEF ListIs
<1>7. ListInv
  BY <1>3, <1>6 DEF ListInv
<1>8. left \in 0..MaxFailures
  <2>1. left = MaxFailures /\ MaxFailures \in Nat
    BY <1>1, SettingHas DEF PlanInit
  <2> QED BY <2>1
<1>9. PlaceInv /\ HandInv /\ FoldInv
  <2>1. together = {}
    BY DEF PlanInit
  <2> QED BY <1>2, <1>3, <2>1 DEF PlaceInv, HandInv, FoldInv
<1>10. PlanInv
  BY <1>3, <1>4 DEF PlanInv
<1> QED BY <1>1, <1>2, <1>7, <1>8, <1>9, <1>10 DEF BaseInv, ShapeInv

(* The steps of Next.                                                       *)
Moves1 ==
  \/ Scope \/ PriorityFails
  \/ \E h \in DOMAIN todo : MakeCall(h) \/ LoseCall(h) \/ FailHandler(h) \/ FinishHandler(h)
  \/ \E i \in Ids : ListSiblings(i) \/ Works(i)

LEMMA NextIs ==
  ASSUME PlanNext
  PROVE  Moves1 /\ UNCHANGED setting
BY DEF PlanNext, Moves1, Works, Step

LEMMA BaseStep ==
  ASSUME BaseInv, [PlanNext]_planVars
  PROVE  BaseInv'
<1>1. CASE PlanNext
  <2>1. Moves1 /\ UNCHANGED setting
    BY <1>1, NextIs
  <2>2. CASE Scope
    BY <2>1, <2>2, ScopeKeeps
  <2>3. CASE PriorityFails
    BY <2>1, <2>3, PriorityKeeps
  <2>4. ASSUME NEW h \in DOMAIN todo, MakeCall(h) PROVE BaseInv'
    <3>1. CASE h = 0
      BY <2>1, <2>4, <3>1, CallOfPlannerKeeps
    <3>2. CASE h # 0
      BY <2>1, <2>4, <3>2, CallOfHandlerKeeps
    <3> QED BY <3>1, <3>2
  <2>5. ASSUME NEW h \in DOMAIN todo, LoseCall(h) PROVE BaseInv'
    BY <2>1, <2>5, LossKeeps
  <2>6. ASSUME NEW h \in DOMAIN todo, FailHandler(h) \/ FinishHandler(h) PROVE BaseInv'
    BY <2>1, <2>6, FailureKeeps
  <2>7. ASSUME NEW i \in Ids, ListSiblings(i) PROVE BaseInv'
    BY <2>1, <2>7, ListingKeeps
  <2>8. ASSUME NEW i \in Ids, Works(i) PROVE BaseInv'
    BY <2>1, <2>8, WorkKeeps
  <2> QED BY <2>1, <2>2, <2>3, <2>4, <2>5, <2>6, <2>7, <2>8, Zenon DEF Moves1
<1>2. CASE UNCHANGED planVars
  <2>1. UNCHANGED <<setting, board, request, todo, made, left, together>>
    BY <1>2 DEF planVars, moving
  <2>2. PlaceInv' /\ left' \in 0..MaxFailures
    BY <2>1, ShapeHas, PlaceStays
  <2>3. Ids' = Ids /\ \A j \in Ids : Unscathed(j)
    BY <2>1, BoardStays
  <2>4. ListInv' /\ HandInv' /\ PlanInv'
    BY <2>1, <2>3, ShapeHas, ListsStay, HandsStay, PlanStays, HandlersAre
  <2>5. \A h \in DOMAIN todo' \ {0} : FoldOk(h)'
    BY <2>1, <2>3, ShapeHas, FoldsWait
  <2> QED BY <2>1, <2>2, <2>4, <2>5, ShapeHas, BaseAfter
<1> QED BY <1>1, <1>2

-----------------------------------------------------------------------------
(* What a step does to what is asked.  Nothing is said of what a task asks  *)
(* for that was merged beside another one.                                  *)

AsksStay(ids) ==
  /\ together \subseteq together'
  /\ \A i \in ids : board'[i].units = board[i].units
  /\ \A i \in ids : i \notin together' => \A u : (Asks(i, u)' <=> Asks(i, u))
SameAsks == Tasks' = Tasks /\ AsksStay(Tasks)

LEMMA SameWhenStill ==
  ASSUME UNCHANGED <<board, together>>
  PROVE  SameAsks
<1>1. \A i, u : Asks(i, u)' <=> Asks(i, u)
  BY DEF Asks, Col
<1> QED BY <1>1 DEF SameAsks, AsksStay, Tasks, Ids

LEMMA SameWhenWritten ==
  ASSUME UNCHANGED together, NEW i \in Ids, NEW units, NEW deps, Written(i, units, deps)
  PROVE  Tasks' = Tasks /\ AsksStay(Tasks \ {i}) /\ (units = board[i].units => SameAsks)
<1>1. Tasks' = Tasks /\ Ids' = Ids
  BY DEF Written, Tasks
<1>2. \A j \in Ids : j # i => board'[j].units = board[j].units /\ \A u : Asks(j, u)' <=> Asks(j, u)
  BY DEF Written, Asks, Col
<1>3. units = board[i].units => board'[i].units = board[i].units /\ \A u : Asks(i, u)' <=> Asks(i, u)
  BY DEF Written, Asks, Col
<1>4. AsksStay(Tasks \ {i})
  BY <1>2 DEF AsksStay, Tasks
<1>5. units = board[i].units => AsksStay(Tasks)
  BY <1>2, <1>3 DEF AsksStay, Tasks
<1> QED BY <1>1, <1>4, <1>5 DEF SameAsks

LEMMA SameWhenAdded ==
  ASSUME UNCHANGED together, NEW n, NEW parent, NEW place, NEW units, Added(n, parent, place, units)
  PROVE  /\ Tasks' = Tasks \cup (IF parent = 0 THEN {n} ELSE {})
         /\ n \notin Tasks /\ AsksStay(Tasks)
         /\ \A u : Asks(n, u)' => u \in units
         /\ board'[n].units = units
         /\ place # Done => \A u \in units : Asks(n, u)'
<1>1. Tasks' = Tasks \cup (IF parent = 0 THEN {n} ELSE {}) /\ n \notin Tasks
  BY DEF Added, Tasks
<1>2. \A j \in Ids : board'[j].units = board[j].units /\ \A u : Asks(j, u)' <=> Asks(j, u)
  BY DEF Added, Asks, Col
<1>3. \A u : Asks(n, u)' => u \in units
  BY DEF Added, Asks
<1>4. place # Done => \A u \in units : Asks(n, u)'
  BY DEF Added, Asks, Col
<1>5. board'[n].units = units
  BY DEF Added
<1> QED BY <1>1, <1>2, <1>3, <1>4, <1>5 DEF AsksStay, Tasks

LEMMA MovedTasks ==
  ASSUME together \subseteq together', NEW i \in Ids, NEW place, NEW by, NEW built, Moved(i, place, by, built)
  PROVE  /\ Tasks' = Tasks /\ AsksStay(Tasks \ {i}) /\ board'[i].units = board[i].units
         /\ \A u : Asks(i, u)' <=> u \in board[i].units /\ (place = Done => built)
<1>1. Tasks' = Tasks
  BY DEF Moved, Tasks
<1>2. \A j \in Ids : j # i => board'[j].units = board[j].units /\ \A u : Asks(j, u)' <=> Asks(j, u)
  BY DEF Moved, Asks, Col
<1>3. \A u : Asks(i, u)' <=> u \in board[i].units /\ (place = Done => built)
  BY DEF Moved, Asks, Col
<1>4. board'[i].units = board[i].units
  BY DEF Moved
<1> QED BY <1>1, <1>2, <1>3, <1>4 DEF AsksStay, Tasks

LEMMA SameWhenMoved ==
  ASSUME together \subseteq together',
         NEW i \in Ids, NEW place, NEW by, NEW built, Moved(i, place, by, built),
         board[i].parent = 0 /\ i \notin together' =>
           (Col(i) = Done => board[i].built) /\ (place = Done => built)
  PROVE  SameAsks
<1>1. /\ Tasks' = Tasks /\ AsksStay(Tasks \ {i}) /\ board'[i].units = board[i].units
      /\ \A u : Asks(i, u)' <=> u \in board[i].units /\ (place = Done => built)
  BY MovedTasks
<1>2. i \in Tasks /\ i \notin together' => \A u : Asks(i, u)' <=> Asks(i, u)
  BY <1>1 DEF Asks, Tasks
<1> QED BY <1>1, <1>2 DEF SameAsks, AsksStay

LEMMA SameWhenWorked ==
  ASSUME BaseInv, NEW i \in Ids, Works(i)
  PROVE  SameAsks
<1>0. together \subseteq together'
  BY ShapeHas, WorkerStep
<1>1. PICK place \in Columns, by \in By, built \in BOOLEAN :
              Moved(i, place, by, built) /\ Worked(i, place, by, built)
  BY ShapeHas, WorkerStep
<1>2. /\ board[i].parent = 0 /\ place = Done => built
      /\ Col(i) = Done => board[i].by # NoStage
  BY <1>1, ShapeHas, WorkedPlace
<1>3. board[i].parent = 0 /\ i \notin together' => Col(i) # Done
  <2> SUFFICES ASSUME board[i].parent = 0, i \notin together', Col(i) = Done PROVE FALSE
    OBVIOUS
  <2>1. PlaceIs(i, board[i]) /\ i \notin together
    BY <1>0, ShapeHas DEF PlaceInv
  <2>2. TaskIs(Done, board[i].by)
    BY <2>1 DEF PlaceIs, Col
  <2> QED BY <1>2, <2>2, RowsAre DEF TaskIs, Done
<1> QED BY <1>0, <1>1, <1>2, <1>3, SameWhenMoved

LEMMA SameWhenHandlerEnds ==
  ASSUME BaseInv, NEW h \in DOMAIN todo, FailHandler(h) \/ FinishHandler(h)
  PROVE  SameAsks
<1>0. UNCHANGED together
  BY DEF FailHandler, FinishHandler
<1>1. CASE h = 0
  <2>1. UNCHANGED <<board, together>>
    BY <1>0, <1>1 DEF FailHandler, FinishHandler
  <2> QED BY <2>1, SameWhenStill
<1>2. CASE h # 0
  <2>1. h \in Ids /\ board[h].parent = 0 /\ (h \in together \/ board[h].column = T.ticketmerge.working)
    BY <1>2, HandlersAre
  <2>2. \/ board' = Leave(h, T.ticketmerge.ready)
        \/ board' = Leave(h, T.ticketmerge.success)
    BY <1>2 DEF FailHandler, FinishHandler
  <2>3. T.ticketmerge.success = T.specmerge.ready
    BY RowsAre
  <2>4. PICK place \in {T.ticketmerge.ready, T.specmerge.ready} : Moved(h, place, NoStage, board[h].built)
    BY <2>1, <2>2, <2>3, ShapeHas, ReadyColumns, LeaveIs
  <2>5. h \notin together' => Col(h) # Done /\ place # Done
    BY <1>0, <2>1, RowsAre DEF Done, Col
  <2> QED BY <1>0, <2>1, <2>4, <2>5, SameWhenMoved
<1> QED BY <1>1, <1>2

LEMMA OpenedSame ==
  ASSUME SameAsks
  PROVE  /\ \A u : Opened(u)' <=> Opened(u)
         /\ \A i \in Tasks \ together' : \A u : Asks(i, u)' <=> Asks(i, u)
<1>1. \A u : Opened(u)' <=> Opened(u)
  BY DEF SameAsks, AsksStay, Opened
<1> QED BY <1>1 DEF SameAsks, AsksStay

(* The kinds of step.                                                       *)
TaskAdded(u) ==
  \E n : /\ Tasks' = Tasks \cup {n} /\ n \notin Tasks /\ AsksStay(Tasks)
         /\ board'[n].units = {u} /\ \A v : Asks(n, v)' <=> v = u
Gathers(h, units) ==
  /\ Tasks' = Tasks /\ AsksStay(Tasks \ {h}) /\ board'[h].units = units
  /\ h \in Tasks /\ board[h].units \subseteq units
  /\ h \notin together => /\ \A u : Asks(h, u)' <=> u \in units
                          /\ \A u : Asks(h, u) <=> u \in board[h].units
Closes(h, s) ==
  /\ Tasks' = Tasks /\ AsksStay(Tasks \ {s}) /\ board'[s].units = board[s].units
  /\ h \in Tasks /\ h # s
  /\ (\A u : ~Asks(s, u)')
  /\ \A u \in board[s].units : u \in board[h].units /\ (h \in together \/ Asks(h, u))

PlannerAsks ==
  LET c == Head(todo[0]) IN
  \/ \E u : c.op = "create" /\ c.to = Task(u) /\ TaskAdded(u)
  \/ c.op \in {"create", "edge"} /\ SameAsks
HandlerAsks(h) ==
  LET c == Head(todo[h]) IN
  \/ c.op \in {"create", "edge"} /\ SameAsks
  \/ c.op = "describe" /\ Gathers(h, c.units)
  \/ \E s \in Ids \ {h} : /\ c = MoveTo(This(s), Done)
                          /\ IF s \in Tasks \ together THEN Closes(h, s) ELSE SameAsks

LEMMA PlannerAsksStep ==
  ASSUME BaseInv, 0 \in DOMAIN todo, MakeCall(0)
  PROVE  PlannerAsks
<1>1. PlannerDoes(Head(todo[0])) /\ UNCHANGED together
  BY ShapeHas, PlannerStep DEF MakeCall
<1> DEFINE c == Head(todo[0])
<1>2. ASSUME NEW u \in Plan, c = Create(Task(u), This(0), EntryColumn, {u}), NewTicket(0, c, 0)
      PROVE  PlannerAsks
  <2>1. c.op = "create" /\ c.to = Task(u) /\ c.column = EntryColumn /\ c.units = {u}
    BY <1>2, CreateIs
  <2>0. PICK n : n = Next1
    OBVIOUS
  <2>2. Added(n, 0, c.column, c.units)
    BY <1>2, <2>0, Zenon DEF NewTicket
  <2>3. c.column # Done
    BY <2>1, RowsAre DEF EntryColumn, Done
  <2> HIDE DEF c
  <2>4. /\ Tasks' = Tasks \cup {n} /\ n \notin Tasks /\ AsksStay(Tasks)
        /\ board'[n].units = {u} /\ \A v : Asks(n, v)' <=> v = u
    <3>1. /\ Tasks' = Tasks \cup (IF 0 = 0 THEN {n} ELSE {})
          /\ n \notin Tasks /\ AsksStay(Tasks)
          /\ \A v : Asks(n, v)' => v \in c.units
          /\ board'[n].units = c.units
          /\ c.column # Done => \A v \in c.units : Asks(n, v)'
      BY <1>1, <2>2, SameWhenAdded
    <3> QED BY <2>1, <2>3, <3>1
  <2>5. TaskAdded(u)
    BY <2>4, Zenon DEF TaskAdded
  <2> QED BY <2>1, <2>5 DEF PlannerAsks, c
<1>3. ASSUME NEW p, c.op = "create", NewTicket(0, c, p), p # 0
      PROVE  PlannerAsks
  <2>1. Added(Next1, p, c.column, c.units)
    BY <1>3, Zenon DEF NewTicket
  <2>2. /\ Tasks' = Tasks \cup (IF p = 0 THEN {Next1} ELSE {}) /\ AsksStay(Tasks)
    BY <1>1, <2>1, SameWhenAdded, ZenonT(60)
  <2> QED BY <1>3, <2>2 DEF SameAsks, PlannerAsks
<1>4. ASSUME NEW u \in Plan, NEW p \in 1..Pieces, c = Create(Section(u, p), Task(u), T.spec.ready, {u}),
             made[0][Task(u)] \in Ids, NewTicket(0, c, made[0][Task(u)])
      PROVE  PlannerAsks
  <2>1. c.op = "create"
    BY <1>4, CreateIs
  <2>2. made[0][Task(u)] # 0
    BY <1>4, ShapeHas
  <2> QED BY <1>3, <1>4, <2>1, <2>2
<1>5. ASSUME NEW a, NEW b, c = Edge(a, b), NEW i \in Ids, NEW deps, Written(i, board[i].units, deps)
      PROVE  PlannerAsks
  <2>1. c.op = "edge"
    BY <1>5, EdgeIs
  <2>2. SameAsks
    BY <1>1, <1>5, SameWhenWritten
  <2> QED BY <2>1, <2>2 DEF PlannerAsks
<1> HIDE DEF c
<1>6. PlannerDoes(c)
  BY <1>1 DEF c
<1> QED BY <1>2, <1>4, <1>5, <1>6, Zenon DEF PlannerDoes

LEMMA HandlerAsksStep ==
  ASSUME BaseInv, NEW h \in DOMAIN todo, h # 0, MakeCall(h)
  PROVE  HandlerAsks(h)
<1>1. HandlerDoes(h, Head(todo[h])) /\ todo[h] # <<>> /\ UNCHANGED together
  BY ShapeHas, HandlerStep
<1>2. /\ h \in Ids /\ FoldOk(h) /\ board[h].parent = 0
      /\ h \in together \/ board[h].column = T.ticketmerge.working
  BY HandlersAre
<1>3. h \in Tasks /\ (h \notin together => Col(h) # Done)
  BY <1>2, RowsAre DEF Tasks, Done, Col
<1>4. /\ Head(todo[h]) \in In(todo[h]) /\ In(todo[h]) = {Head(todo[h])} \cup In(Tail(todo[h]))
      /\ \A d \in In(Tail(todo[h])) : d.op # "describe"
  BY <1>1, <1>2, ShapeHas, HeadIs DEF FoldOk
<1> DEFINE c == Head(todo[h])
<1>5. ASSUME NEW k \in Nat \ {0}, c = Create(Section(h, k), This(h), T.spec.ready, c.units),
             NewTicket(h, c, h)
      PROVE  HandlerAsks(h)
  <2>1. c.op = "create"
    BY <1>5, CreateIs
  <2>2. Added(Next1, h, c.column, c.units)
    BY <1>5, Zenon DEF NewTicket
  <2>3. Tasks' = Tasks \cup (IF h = 0 THEN {Next1} ELSE {}) /\ AsksStay(Tasks)
    BY <1>1, <2>2, SameWhenAdded, Zenon
  <2> QED BY <2>1, <2>3 DEF HandlerAsks, SameAsks
<1>6. ASSUME NEW a, NEW b, c = Edge(a, b), NEW i \in Ids, NEW deps, Written(i, board[i].units, deps)
      PROVE  HandlerAsks(h)
  <2>1. c.op = "edge"
    BY <1>6, EdgeIs
  <2>2. SameAsks
    BY <1>1, <1>6, SameWhenWritten
  <2> QED BY <2>1, <2>2 DEF HandlerAsks
<1>7. ASSUME c.op = "describe", Written(h, c.units, board[h].deps)
      PROVE  HandlerAsks(h)
  <2>1. Tasks' = Tasks /\ AsksStay(Tasks \ {h})
    BY <1>1, <1>2, <1>7, SameWhenWritten
  <2>2. board'[h].units = c.units /\ Col(h)' = Col(h)
    BY <1>7 DEF Written, Col
  <2>3. board[h].units \subseteq c.units
    BY <1>2, <1>4, <1>7 DEF FoldOk
  <2>4. h \notin together => /\ \A u : Asks(h, u)' <=> u \in c.units
                             /\ \A u : Asks(h, u) <=> u \in board[h].units
    BY <1>3, <2>2 DEF Asks
  <2>5. Gathers(h, c.units)
    BY <1>3, <2>1, <2>2, <2>3, <2>4 DEF Gathers
  <2> QED BY <1>7, <2>5 DEF HandlerAsks
<1>8. ASSUME NEW s \in Ids \ {h}, c = MoveTo(This(s), Done), Moved(s, Done, board[s].by, board[s].built)
      PROVE  HandlerAsks(h)
  <2>1. /\ Tasks' = Tasks /\ AsksStay(Tasks \ {s}) /\ board'[s].units = board[s].units
        /\ \A u : Asks(s, u)' <=> u \in board[s].units /\ (Done = Done => board[s].built)
    BY <1>1, <1>8, MovedTasks
  <2>2. CASE s \in Tasks \ together
    <3>1. Taken(h, s)
      <4>1. board[s].parent = 0 /\ MoveTo(This(s), Done) \in In(todo[h])
        BY <1>4, <1>8, <2>2 DEF Tasks
      <4> QED BY <1>2, <2>2, <4>1 DEF FoldOk
    <3>2. c.op = "move"
      BY <1>8, MoveIs
    <3>3. \A d \in In(todo[h]) : d.op # "describe"
      BY <1>4, <3>2
    <3>4. \A u \in board[s].units : u \in board[h].units
      BY <3>1, <3>3 DEF Taken, Asking
    <3>5. \A u \in board[s].units : u \in board[h].units /\ (h \in together \/ Asks(h, u))
      BY <1>3, <3>4 DEF Asks
    <3>6. \A u : ~Asks(s, u)'
      BY <2>1, <3>1 DEF Taken
    <3>7. Closes(h, s)
      BY <1>3, <1>8, <2>1, <3>5, <3>6 DEF Closes
    <3> QED BY <1>8, <2>2, <3>7 DEF HandlerAsks
  <2>3. CASE s \notin Tasks \ together
    <3>1. SameAsks
      BY <1>1, <2>1, <2>3 DEF SameAsks, AsksStay
    <3> QED BY <1>8, <2>3, <3>1 DEF HandlerAsks
  <2> QED BY <2>2, <2>3
<1> HIDE DEF c
<1>9. HandlerDoes(h, c)
  BY <1>1 DEF c
<1> QED BY <1>2, <1>5, <1>6, <1>7, <1>8, <1>9, Zenon DEF HandlerDoes

(* Whatever a task was opened for is asked of some task, or one has built   *)
(* it, or one that was merged beside another names it.                      *)
Keeps(i, u) == u \in board[i].units /\ (i \in together \/ Asks(i, u))
AskedOfSome == \A u : Opened(u) => \E i \in Tasks : Keeps(i, u)

LEMMA KeptOn ==
  ASSUME NEW ids, AsksStay(ids)
  PROVE  \A i \in ids : \A u : Keeps(i, u) => Keeps(i, u)'
BY DEF AsksStay, Keeps

LEMMA AskedWhenSame ==
  ASSUME AskedOfSome, SameAsks
  PROVE  AskedOfSome'
<1>1. Tasks' = Tasks /\ \A i \in Tasks : \A u : Keeps(i, u) => Keeps(i, u)'
  BY KeptOn DEF SameAsks
<1>2. \A u : Opened(u)' <=> Opened(u)
  BY OpenedSame
<1> QED BY <1>1, <1>2 DEF AskedOfSome

LEMMA AskedWhenAdded ==
  ASSUME AskedOfSome, NEW v, TaskAdded(v)
  PROVE  AskedOfSome'
<1>1. PICK n : /\ Tasks' = Tasks \cup {n} /\ n \notin Tasks /\ AsksStay(Tasks)
               /\ board'[n].units = {v} /\ \A u : Asks(n, u)' <=> u = v
  BY DEF TaskAdded
<1>2. ASSUME NEW u, Opened(u)' PROVE \E i \in Tasks' : Keeps(i, u)'
  <2>1. PICK i \in Tasks' : u \in board'[i].units
    BY <1>2 DEF Opened
  <2>2. CASE i = n
    BY <1>1, <2>1, <2>2 DEF Keeps
  <2>3. CASE i # n
    <3>1. Opened(u)
      BY <1>1, <2>1, <2>3 DEF AsksStay, Opened
    <3>2. PICK j \in Tasks : Keeps(j, u)
      BY <3>1 DEF AskedOfSome
    <3>3. Keeps(j, u)'
      BY <1>1, <3>2, KeptOn
    <3> QED BY <1>1, <3>3
  <2> QED BY <2>2, <2>3
<1> QED BY <1>2 DEF AskedOfSome

LEMMA AskedWhenGathered ==
  ASSUME AskedOfSome, NEW h, NEW units, Gathers(h, units)
  PROVE  AskedOfSome'
<1>0. /\ Tasks' = Tasks /\ AsksStay(Tasks \ {h}) /\ board'[h].units = units
      /\ h \in Tasks /\ board[h].units \subseteq units /\ together \subseteq together'
      /\ h \notin together => \A u : Asks(h, u)' <=> u \in units
  BY DEF Gathers, AsksStay
<1>1. \A u \in units : Keeps(h, u)'
  BY <1>0 DEF Keeps
<1>2. ASSUME NEW u, Opened(u)' PROVE \E i \in Tasks' : Keeps(i, u)'
  <2>1. PICK i \in Tasks' : u \in board'[i].units
    BY <1>2 DEF Opened
  <2>2. CASE i = h
    BY <1>0, <1>1, <2>1, <2>2
  <2>3. CASE i # h
    <3>1. Opened(u)
      BY <1>0, <2>1, <2>3 DEF AsksStay, Opened
    <3>2. PICK j \in Tasks : Keeps(j, u)
      BY <3>1 DEF AskedOfSome
    <3>3. CASE j = h
      <4>1. u \in units
        BY <1>0, <3>2, <3>3 DEF Keeps
      <4> QED BY <1>0, <1>1, <4>1
    <3>4. CASE j # h
      <4>1. Keeps(j, u)'
        BY <1>0, <3>2, <3>4, KeptOn
      <4> QED BY <1>0, <4>1
    <3> QED BY <3>3, <3>4
  <2> QED BY <2>2, <2>3
<1> QED BY <1>2 DEF AskedOfSome

LEMMA AskedWhenClosed ==
  ASSUME AskedOfSome, NEW h, NEW s, Closes(h, s)
  PROVE  AskedOfSome'
<1>0. /\ Tasks' = Tasks /\ AsksStay(Tasks \ {s}) /\ board'[s].units = board[s].units
      /\ h \in Tasks /\ h # s
      /\ \A u \in board[s].units : Keeps(h, u)
  BY DEF Closes, Keeps
<1>1. ASSUME NEW u, Opened(u)' PROVE \E i \in Tasks' : Keeps(i, u)'
  <2>1. PICK i \in Tasks' : u \in board'[i].units
    BY <1>1 DEF Opened
  <2>2. Opened(u)
    BY <1>0, <2>1 DEF AsksStay, Opened
  <2>3. PICK j \in Tasks : Keeps(j, u)
    BY <2>2 DEF AskedOfSome
  <2>4. \E k \in Tasks \ {s} : Keeps(k, u)
    <3>1. CASE j = s
      <4>1. u \in board[s].units
        BY <2>3, <3>1 DEF Keeps
      <4> QED BY <1>0, <4>1
    <3> QED BY <2>3, <3>1
  <2>5. PICK k \in Tasks \ {s} : Keeps(k, u)
    BY <2>4
  <2>6. Keeps(k, u)'
    BY <1>0, <2>5, KeptOn
  <2> QED BY <1>0, <2>5, <2>6
<1> QED BY <1>1 DEF AskedOfSome

LEMMA AskedStep ==
  ASSUME BaseInv, AskedOfSome, [PlanNext]_planVars
  PROVE  AskedOfSome'
<1>1. CASE PlanNext
  <2>1. Moves1 /\ UNCHANGED setting
    BY <1>1, NextIs
  <2>2. CASE UNCHANGED <<board, together>>
    BY <2>2, SameWhenStill, AskedWhenSame
  <2>3. Scope \/ PriorityFails => UNCHANGED <<board, together>>
    BY DEF Scope, PriorityFails
  <2>4. ASSUME NEW h \in DOMAIN todo, MakeCall(h) PROVE AskedOfSome'
    <3>1. CASE h = 0
      BY <2>4, <3>1, PlannerAsksStep, AskedWhenSame, AskedWhenAdded DEF PlannerAsks
    <3>2. CASE h # 0
      <4>1. HandlerAsks(h)
        BY <2>4, <3>2, HandlerAsksStep
      <4> QED BY <4>1, AskedWhenSame, AskedWhenGathered, AskedWhenClosed DEF HandlerAsks
    <3> QED BY <3>1, <3>2
  <2>5. \A h \in DOMAIN todo : LoseCall(h) => UNCHANGED <<board, together>>
    BY DEF LoseCall
  <2>6. ASSUME NEW h \in DOMAIN todo, FailHandler(h) \/ FinishHandler(h) PROVE AskedOfSome'
    BY <2>6, SameWhenHandlerEnds, AskedWhenSame
  <2>7. \A i \in Ids : ListSiblings(i) => UNCHANGED <<board, together>>
    BY DEF ListSiblings
  <2>8. ASSUME NEW i \in Ids, Works(i) PROVE AskedOfSome'
    BY <2>8, SameWhenWorked, AskedWhenSame
  <2> QED BY <2>1, <2>2, <2>3, <2>4, <2>5, <2>6, <2>7, <2>8, Zenon DEF Moves1
<1>2. CASE UNCHANGED planVars
  <2>1. UNCHANGED <<board, together>>
    BY <1>2 DEF planVars, moving
  <2> QED BY <2>1, SameWhenStill, AskedWhenSame
<1> QED BY <1>1, <1>2

LEMMA AskedStarts ==
  ASSUME PlanInit
  PROVE  AskedOfSome
BY DEF PlanInit, AskedOfSome, Opened, Tasks, Ids

(* The ticket s is going to be closed by the handler h.                     *)
Closing(h, s) == h # 0 /\ h # s /\ MoveTo(This(s), Done) \in In(todo[h])
Describing(h) == \E c \in In(todo[h]) : c.op = "describe"

PlannedOnce == 0 \in DOMAIN todo => \A u : Opened(u) => Task(u) \in DOMAIN made[0]
(* The tasks that were not merged beside another one.                       *)
Sole == Tasks \ together
GatheredOnce ==
  \A h \in DOMAIN todo \ {0} : \A c \in In(todo[h]) : c.op = "describe" =>
    \A u \in c.units :
      /\ Opened(u)
      /\ h \notin together => \A j \in Sole : j # h /\ Asks(j, u) => Closing(h, j)
HandsOver(h, i, j) == ~Describing(h) /\ ((h = i /\ Closing(h, j)) \/ (h = j /\ Closing(h, i)))
HandedOver ==
  \A i, j \in Sole : \A u : i # j /\ Asks(i, u) /\ Asks(j, u) =>
    \E h \in DOMAIN todo \ {0} : HandsOver(h, i, j)
QueuedAlone == \A i \in together : Col(i) # T.ticketmerge.ready
OnceOnly == request # Inbox /\ PlannedOnce /\ GatheredOnce /\ HandedOver /\ QueuedAlone
OnceInv  == Unharmed => OnceOnly

LEMMA HandsKeep ==
  ASSUME NEW h, In(todo'[h]) = In(todo[h])
  PROVE  /\ \A s : Closing(h, s)' <=> Closing(h, s)
         /\ Describing(h)' <=> Describing(h)
         /\ \A i, j : HandsOver(h, i, j)' <=> HandsOver(h, i, j)
<1>1. In(todo[h])' = In(todo[h])
  BY DEF In
<1>2. \A s : Closing(h, s)' <=> Closing(h, s)
  BY <1>1 DEF Closing
<1>3. Describing(h)' <=> Describing(h)
  BY <1>1 DEF Describing
<1>4. \A i, j : HandsOver(h, i, j)' <=> HandsOver(h, i, j)
  BY <1>2, <1>3 DEF HandsOver
<1> QED BY <1>2, <1>3, <1>4

(* What the other handlers hold stays.                                      *)
LEMMA GatheredStays ==
  ASSUME GatheredOnce, together \subseteq together', \A u : Opened(u) => Opened(u)',
         \A h \in DOMAIN todo' \ {0} : Describing(h)' =>
           /\ h \in DOMAIN todo /\ In(todo'[h]) = In(todo[h])
           /\ h \notin together' => \A j \in Sole' : \A u :
                j # h /\ Asks(j, u)' /\ Opened(u) => j \in Sole /\ Asks(j, u)
  PROVE  GatheredOnce'
<1>1. ASSUME NEW h \in DOMAIN todo' \ {0}, NEW c \in In(todo[h])', c.op = "describe",
             NEW u \in c.units
      PROVE  /\ Opened(u)'
             /\ h \notin together' => \A j \in Sole' : j # h /\ Asks(j, u)' => Closing(h, j)'
  <2>1. Describing(h)'
    BY <1>1 DEF Describing
  <2>2. h \in DOMAIN todo \ {0} /\ In(todo'[h]) = In(todo[h])
    BY <1>1, <2>1
  <2>3. In(todo[h])' = In(todo[h])
    BY <2>2 DEF In
  <2>4. Opened(u) /\ (h \notin together => \A j \in Sole : j # h /\ Asks(j, u) => Closing(h, j))
    BY <1>1, <2>2, <2>3 DEF GatheredOnce
  <2>5. ASSUME h \notin together', NEW j \in Sole', j # h, Asks(j, u)' PROVE Closing(h, j)'
    <3>1. j \in Sole /\ Asks(j, u) /\ h \notin together
      BY <1>1, <2>1, <2>4, <2>5
    <3>2. Closing(h, j)
      BY <2>4, <2>5, <3>1
    <3> QED BY <2>2, <3>2, HandsKeep
  <2> QED BY <2>4, <2>5
<1> QED BY <1>1 DEF GatheredOnce

LEMMA SoleSame ==
  ASSUME SameAsks
  PROVE  Sole' \subseteq Sole /\ \A j \in Sole' : \A u : Asks(j, u)' <=> Asks(j, u)
BY DEF SameAsks, AsksStay, Sole

LEMMA GatheredSame ==
  ASSUME GatheredOnce, SameAsks, DOMAIN todo' \ {0} \subseteq DOMAIN todo,
         \A h \in DOMAIN todo' \ {0} : Describing(h)' => In(todo'[h]) = In(todo[h])
  PROVE  GatheredOnce'
<1>1. together \subseteq together' /\ \A u : Opened(u) => Opened(u)'
  BY OpenedSame DEF SameAsks, AsksStay
<1> QED BY <1>1, SoleSame, GatheredStays

LEMMA HandedSame ==
  ASSUME HandedOver, SameAsks,
         \A i, j \in Sole : \A h \in DOMAIN todo \ {0} :
           HandsOver(h, i, j) => h \in DOMAIN todo' \ {0} /\ HandsOver(h, i, j)'
  PROVE  HandedOver'
<1>1. ASSUME NEW i \in Sole', NEW j \in Sole', NEW u, i # j, Asks(i, u)', Asks(j, u)'
      PROVE  \E h \in DOMAIN todo' \ {0} : HandsOver(h, i, j)'
  <2>1. i \in Sole /\ j \in Sole /\ Asks(i, u) /\ Asks(j, u)
    BY <1>1, SoleSame
  <2>2. PICK h \in DOMAIN todo \ {0} : HandsOver(h, i, j)
    BY <1>1, <2>1 DEF HandedOver
  <2> QED BY <2>1, <2>2
<1> QED BY <1>1 DEF HandedOver

LEMMA PlannedSame ==
  ASSUME PlannedOnce, SameAsks,
         0 \in DOMAIN todo' => 0 \in DOMAIN todo /\ DOMAIN made[0] \subseteq DOMAIN made'[0]
  PROVE  PlannedOnce'
<1>1. ASSUME 0 \in DOMAIN todo', NEW u, Opened(u)' PROVE Task(u) \in DOMAIN made'[0]
  BY <1>1, OpenedSame DEF PlannedOnce
<1>2. \A u : Task(u)' = Task(u)
  BY DEF Task, Name
<1> QED BY <1>1, <1>2 DEF PlannedOnce

LEMMA OnceSame ==
  ASSUME OnceOnly, SameAsks, UNCHANGED <<todo, made, request>>, QueuedAlone'
  PROVE  OnceOnly'
<1>1. \A h : In(todo'[h]) = In(todo[h])
  OBVIOUS
<1>2. GatheredOnce'
  BY <1>1, GatheredSame DEF OnceOnly
<1>3. HandedOver'
  BY <1>1, HandedSame, HandsKeep DEF OnceOnly
<1>4. PlannedOnce'
  BY PlannedSame DEF OnceOnly
<1> QED BY <1>2, <1>3, <1>4 DEF OnceOnly

-----------------------------------------------------------------------------

LEMMA FailsOnce ==
  ASSUME BaseInv, UNCHANGED setting, NEW what, Fails(what), Unharmed'
  PROVE  what = "stage" /\ Unharmed
<1>1. left' = left - 1 /\ what \in Flaky /\ left \in 0..MaxFailures /\ MaxFailures \in Nat
  BY ShapeHas, SettingHas DEF Fails
<1>2. left' # MaxFailures
  BY <1>1
<1>3. Flaky' = Flaky
  BY SettingStays
<1>4. Flaky \subseteq {"stage"}
  BY <1>2, <1>3 DEF Unharmed
<1> QED BY <1>1, <1>4 DEF Unharmed

LEMMA UnharmedWhenFree ==
  ASSUME UNCHANGED <<setting, left>>
  PROVE  Unharmed' <=> Unharmed
BY SettingStays DEF Unharmed

(* A ticket that was taken beside another one is queued to be merged again  *)
(* only after a failure.                                                    *)
LEMMA AloneWhenMoved ==
  ASSUME BaseInv, QueuedAlone, NEW i \in Ids, NEW place, NEW by, NEW built,
         Moved(i, place, by, built), place # T.ticketmerge.ready, together' \subseteq together \cup {i}
  PROVE  QueuedAlone'
<1>1. ASSUME NEW j \in together' PROVE Col(j)' # T.ticketmerge.ready
  <2>1. CASE j = i
    BY <2>1 DEF Moved, Col
  <2>2. CASE j # i
    <3>1. j \in together /\ j \in Ids
      BY <1>1, <2>2, ShapeHas
    <3> QED BY <2>2, <3>1 DEF Moved, Col, QueuedAlone
  <2> QED BY <2>1, <2>2
<1> QED BY <1>1 DEF QueuedAlone

LEMMA AloneWhenWritten ==
  ASSUME BaseInv, QueuedAlone, NEW i \in Ids, NEW units, NEW deps, Written(i, units, deps),
         UNCHANGED together
  PROVE  QueuedAlone'
<1>1. \A j \in Ids : Col(j)' = Col(j)
  BY DEF Written, Col
<1> QED BY <1>1, ShapeHas DEF QueuedAlone

LEMMA AloneWhenAdded ==
  ASSUME BaseInv, QueuedAlone, NEW n, NEW parent, NEW place, NEW units,
         Added(n, parent, place, units), UNCHANGED together
  PROVE  QueuedAlone'
<1>1. \A j \in Ids : Col(j)' = Col(j)
  BY DEF Added, Col
<1> QED BY <1>1, ShapeHas DEF QueuedAlone

LEMMA AloneWhenStill ==
  ASSUME QueuedAlone, UNCHANGED <<board, together>>
  PROVE  QueuedAlone'
BY DEF QueuedAlone, Col

LEMMA AloneWhenWorked ==
  ASSUME BaseInv, QueuedAlone, NEW i \in Ids, Works(i)
  PROVE  QueuedAlone'
<1>1. /\ \E place \in Columns, by \in By, built \in BOOLEAN :
              Moved(i, place, by, built) /\ Worked(i, place, by, built)
      /\ together' \subseteq together \cup {i}
  BY ShapeHas, WorkerStep
<1>2. PICK place \in Columns, by \in By, built \in BOOLEAN :
              Moved(i, place, by, built) /\ Worked(i, place, by, built)
  BY <1>1
<1>3. place # T.ticketmerge.ready
  <2>1. \A r \in Stages : T[r].working # T.ticketmerge.ready /\ Rest(r) # T.ticketmerge.ready
    BY RowsAre DEF Stages, Rest, Done
  <2>2. T.ticketmerge.working # T.ticketmerge.ready /\ Blocked # T.ticketmerge.ready
    BY RowsAre DEF Blocked
  <2> QED BY <1>2, <2>1, <2>2 DEF Worked
<1> QED BY <1>1, <1>2, <1>3, AloneWhenMoved

LEMMA AloneWhenCalled ==
  ASSUME BaseInv, QueuedAlone, NEW h \in DOMAIN todo, MakeCall(h)
  PROVE  QueuedAlone'
<1>0. UNCHANGED together
  BY DEF MakeCall
<1>1. CASE h = 0
  <2>1. PlannerDoes(Head(todo[0]))
    BY <1>1, ShapeHas, PlannerStep
  <2>2. \/ \E n, parent, place, units : Added(n, parent, place, units)
        \/ \E i \in Ids : \E units, deps : Written(i, units, deps)
    BY <2>1, Zenon DEF PlannerDoes, NewTicket
  <2> QED BY <1>0, <2>2, AloneWhenAdded, AloneWhenWritten
<1>2. CASE h # 0
  <2>1. HandlerDoes(h, Head(todo[h])) /\ h \in Ids
    BY <1>2, ShapeHas, HandlerStep, HandlersAre
  <2>2. \/ \E n, parent, place, units : Added(n, parent, place, units)
        \/ \E i \in Ids : \E units, deps : Written(i, units, deps)
        \/ \E i \in Ids : \E by, built : Moved(i, Done, by, built)
    BY <2>1, Zenon DEF HandlerDoes, NewTicket
  <2>3. Done # T.ticketmerge.ready
    BY RowsAre DEF Done
  <2> QED BY <1>0, <2>2, <2>3, AloneWhenAdded, AloneWhenWritten, AloneWhenMoved
<1> QED BY <1>1, <1>2

LEMMA AloneWhenFinished ==
  ASSUME BaseInv, QueuedAlone, NEW h \in DOMAIN todo, FinishHandler(h)
  PROVE  QueuedAlone'
<1>1. UNCHANGED together
  BY DEF FinishHandler
<1>2. CASE h = 0
  BY <1>1, <1>2, AloneWhenStill DEF FinishHandler
<1>3. CASE h # 0
  <2>1. h \in Ids /\ T.ticketmerge.success = T.specmerge.ready
    BY <1>3, HandlersAre, RowsAre
  <2>2. board' = Leave(h, T.specmerge.ready)
    BY <1>3, <2>1 DEF FinishHandler
  <2>3. Moved(h, T.specmerge.ready, NoStage, board[h].built)
    BY <2>1, <2>2, ShapeHas, ReadyColumns, LeaveIs
  <2>4. T.specmerge.ready # T.ticketmerge.ready
    BY RowsAre
  <2> QED BY <1>1, <2>1, <2>3, <2>4, AloneWhenMoved
<1> QED BY <1>2, <1>3

LEMMA ListsAfter ==
  ASSUME BaseInv, NEW h \in DOMAIN todo, MakeCall(h)
  PROVE  /\ todo[h] # <<>> /\ DOMAIN todo' = DOMAIN todo /\ todo'[h] = Tail(todo[h])
         /\ \A g \in DOMAIN todo : g # h => todo'[g] = todo[g] /\ made'[g] = made[g]
         /\ DOMAIN made'[h] = DOMAIN made[h] \cup
               (IF Head(todo[h]).op = "create" THEN {Head(todo[h]).to} ELSE {})
         /\ In(todo[h]) = {Head(todo[h])} \cup In(todo'[h])
         /\ Head(todo[h]).op = "create" => Head(todo[h]).to \notin DOMAIN made[h]
         /\ UNCHANGED <<request, left>>
<1>1. /\ todo[h] # <<>> /\ Proceeds(h) /\ UNCHANGED <<request, left, together>>
      /\ CreateTicket(h, Head(todo[h])) \/ ChangeTicket(h, Head(todo[h]))
  BY DEF MakeCall
<1>2. DOMAIN made = DOMAIN todo
  BY ShapeHas DEF ListInv
<1>3. /\ DOMAIN todo' = DOMAIN todo /\ todo'[h] = Tail(todo[h])
      /\ \A g \in DOMAIN todo : g # h => todo'[g] = todo[g]
  BY <1>1 DEF Proceeds
<1>4. /\ \A g \in DOMAIN todo : g # h => made'[g] = made[g]
      /\ DOMAIN made'[h] = DOMAIN made[h] \cup
               (IF Head(todo[h]).op = "create" THEN {Head(todo[h]).to} ELSE {})
  <2>1. CASE CreateTicket(h, Head(todo[h]))
    <3>1. Head(todo[h]).op = "create" /\ made' = [made EXCEPT ![h] = Named(@, Head(todo[h]).to, Len(board) + 1)]
      BY <2>1 DEF CreateTicket
    <3>2. made'[h] = Named(made[h], Head(todo[h]).to, Len(board) + 1)
      BY <1>2, <3>1
    <3>3. DOMAIN made'[h] = DOMAIN made[h] \cup {Head(todo[h]).to}
      BY <3>2 DEF Named
    <3> QED BY <1>2, <3>1, <3>3
  <2>2. CASE ChangeTicket(h, Head(todo[h]))
    <3>1. Head(todo[h]).op # "create" /\ made' = made
      BY <2>2 DEF ChangeTicket
    <3> QED BY <3>1
  <2> QED BY <1>1, <2>1, <2>2
<1>5. /\ In(todo[h]) = {Head(todo[h])} \cup In(Tail(todo[h]))
      /\ Fits(Head(todo[h]), DOMAIN made[h], In(Tail(todo[h])))
  BY <1>1, ShapeHas, HeadIs
<1>6. Head(todo[h]).op = "create" => Head(todo[h]).to \notin DOMAIN made[h]
  BY <1>5, Zenon DEF Fits
<1> QED BY <1>1, <1>3, <1>4, <1>5, <1>6

LEMMA OncePlannerCalls ==
  ASSUME BaseInv, OnceOnly, 0 \in DOMAIN todo, MakeCall(0)
  PROVE  OnceOnly'
<1> DEFINE c == Head(todo[0])
<1>0. QueuedAlone'
  BY AloneWhenCalled DEF OnceOnly
<1>1. /\ DOMAIN todo' = DOMAIN todo /\ UNCHANGED request
      /\ \A g \in DOMAIN todo : g # 0 => todo'[g] = todo[g]
      /\ DOMAIN made'[0] = DOMAIN made[0] \cup (IF c.op = "create" THEN {c.to} ELSE {})
      /\ c.op = "create" => c.to \notin DOMAIN made[0]
  BY ListsAfter
<1>2. \A h \in DOMAIN todo' \ {0} : In(todo'[h]) = In(todo[h])
  BY <1>1
<1>3. PlannerAsks
  BY PlannerAsksStep
<1> HIDE DEF c
<1>4. CASE SameAsks
  <2>1. GatheredOnce'
    BY <1>1, <1>2, <1>4, GatheredSame DEF OnceOnly
  <2>2. HandedOver'
    BY <1>1, <1>2, <1>4, HandedSame, HandsKeep DEF OnceOnly
  <2>3. PlannedOnce'
    BY <1>1, <1>4, PlannedSame DEF OnceOnly
  <2> QED BY <1>0, <1>1, <2>1, <2>2, <2>3 DEF OnceOnly
<1>5. ASSUME NEW v, c.op = "create", c.to = Task(v), TaskAdded(v)
      PROVE  OnceOnly'
  <2>1. PICK n : /\ Tasks' = Tasks \cup {n} /\ n \notin Tasks /\ AsksStay(Tasks)
                 /\ board'[n].units = {v} /\ \A u : Asks(n, u)' <=> u = v
    BY <1>5 DEF TaskAdded
  <2>2. ~Opened(v)
    BY <1>1, <1>5 DEF OnceOnly, PlannedOnce
  <2>3. \A i \in Sole' : i # n => i \in Sole /\ \A u : (Asks(i, u)' <=> Asks(i, u)) /\ (Asks(i, u) => Opened(u))
    <3>1. \A i \in Tasks : \A u : Asks(i, u) => Opened(u)
      BY DEF Asks, Opened
    <3> QED BY <2>1, <3>1 DEF AsksStay, Sole
  <2>4. \A u : Opened(u)' <=> Opened(u) \/ u = v
    BY <2>1 DEF AsksStay, Opened
  <2>5. PlannedOnce'
    <3>1. \A u : Task(u)' = Task(u)
      BY DEF Task, Name
    <3>2. ASSUME NEW u, Opened(u)' PROVE Task(u) \in DOMAIN made'[0]
      BY <1>1, <1>5, <2>4, <3>2 DEF OnceOnly, PlannedOnce
    <3> QED BY <3>1, <3>2 DEF PlannedOnce
  <2>6. GatheredOnce'
    <3>1. together \subseteq together' /\ \A u : Opened(u) => Opened(u)'
      BY <2>1, <2>4 DEF AsksStay
    <3>2. ASSUME NEW j \in Sole', NEW u, Asks(j, u)', Opened(u) PROVE j \in Sole /\ Asks(j, u)
      <4>1. j # n
        BY <2>1, <2>2, <3>2
      <4> QED BY <2>3, <3>2, <4>1
    <3>3. \A h \in DOMAIN todo' \ {0} : h \in DOMAIN todo /\ In(todo'[h]) = In(todo[h])
      BY <1>1, <1>2
    <3> QED BY <3>1, <3>2, <3>3, GatheredStays DEF OnceOnly
  <2>7. HandedOver'
    <3>1. ASSUME NEW i \in Sole', NEW j \in Sole', NEW u, i # j, Asks(i, u)', Asks(j, u)'
          PROVE  \E h \in DOMAIN todo' \ {0} : HandsOver(h, i, j)'
      <4>1. i # n /\ j # n
        BY <2>1, <2>2, <2>3, <3>1
      <4>2. i \in Sole /\ j \in Sole /\ Asks(i, u) /\ Asks(j, u)
        BY <2>3, <3>1, <4>1
      <4>3. PICK h \in DOMAIN todo \ {0} : HandsOver(h, i, j)
        BY <3>1, <4>2 DEF OnceOnly, HandedOver
      <4> QED BY <1>1, <1>2, <4>3, HandsKeep
    <3> QED BY <3>1 DEF HandedOver
  <2> QED BY <1>0, <1>1, <2>5, <2>6, <2>7 DEF OnceOnly
<1> QED BY <1>3, <1>4, <1>5 DEF PlannerAsks, c

LEMMA OnceHandlerCalls ==
  ASSUME BaseInv, OnceOnly, NEW h \in DOMAIN todo, h # 0, MakeCall(h)
  PROVE  OnceOnly'
<1> DEFINE c == Head(todo[h])
<1>0. QueuedAlone'
  BY AloneWhenCalled DEF OnceOnly
<1>1. /\ DOMAIN todo' = DOMAIN todo /\ UNCHANGED request /\ todo[h] # <<>> /\ todo'[h] = Tail(todo[h])
      /\ \A g \in DOMAIN todo : g # h => todo'[g] = todo[g] /\ made'[g] = made[g]
      /\ In(todo[h]) = {c} \cup In(todo'[h])
  BY ListsAfter
<1>2. /\ FoldOk(h) /\ UNCHANGED together
      /\ \A g \in DOMAIN todo : g # 0 /\ g \notin together /\ h \notin together => g = h
  BY HandlersAre DEF MakeCall
<1>3. \A d \in In(todo'[h]) : d.op # "describe"
  BY <1>1, <1>2, ShapeHas, HeadIs DEF FoldOk
<1>4. HandlerAsks(h)
  BY HandlerAsksStep
<1>5. In(todo[h])' = In(todo'[h])
  BY DEF In
<1> HIDE DEF c
<1>6. \A g \in DOMAIN todo' \ {0} : Describing(g)' =>
        g # h /\ g \in DOMAIN todo /\ todo'[g] = todo[g] /\ In(todo'[g]) = In(todo[g])
  <2>1. ~Describing(h)'
    BY <1>3, <1>5 DEF Describing
  <2> QED BY <1>1, <2>1
<1>7. \A s : Closing(h, s) /\ c # MoveTo(This(s), Done) => Closing(h, s)'
  BY <1>1, <1>5 DEF Closing
<1>8. ~Describing(h)'
  BY <1>3, <1>5 DEF Describing
<1>9. \A g \in DOMAIN todo \ {0} : \A i, j :
        HandsOver(g, i, j) /\ c # MoveTo(This(i), Done) /\ c # MoveTo(This(j), Done)
          => g \in DOMAIN todo' \ {0} /\ HandsOver(g, i, j)'
  <2>1. \A i, j : HandsOver(h, i, j) /\ c # MoveTo(This(i), Done) /\ c # MoveTo(This(j), Done)
                    => HandsOver(h, i, j)'
    BY <1>7, <1>8 DEF HandsOver
  <2>2. ASSUME NEW g \in DOMAIN todo \ {0}, g # h
        PROVE  \A i, j : HandsOver(g, i, j)' <=> HandsOver(g, i, j)
    <3>1. In(todo'[g]) = In(todo[g])
      BY <1>1, <2>2
    <3> QED BY <3>1, HandsKeep
  <2> QED BY <1>1, <2>1, <2>2
<1>10. request' # Inbox
  BY <1>1 DEF OnceOnly
<1>11. ASSUME SameAsks, \A j \in Sole : c # MoveTo(This(j), Done)
       PROVE  OnceOnly'
  <2>1. PlannedOnce'
    BY <1>1, <1>11, PlannedSame DEF OnceOnly
  <2>2. HandedOver'
    BY <1>9, <1>11, HandedSame DEF OnceOnly
  <2>3. GatheredOnce'
    BY <1>1, <1>6, <1>11, GatheredSame DEF OnceOnly
  <2> QED BY <1>0, <1>10, <2>1, <2>2, <2>3 DEF OnceOnly
<1>12. CASE c.op \in {"create", "edge"} /\ SameAsks
  <2>1. \A j : c # MoveTo(This(j), Done)
    BY <1>12, MoveIs
  <2> QED BY <1>11, <1>12, <2>1
<1>13. CASE c.op = "describe" /\ Gathers(h, c.units)
  <2>1. /\ Tasks' = Tasks /\ AsksStay(Tasks \ {h}) /\ board'[h].units = c.units /\ h \in Tasks
        /\ board[h].units \subseteq c.units
        /\ h \notin together => /\ \A u : Asks(h, u)' <=> u \in c.units
                                /\ \A u : Asks(h, u) <=> u \in board[h].units
    BY <1>13 DEF Gathers
  <2>2. \A u \in c.units :
          /\ Opened(u)
          /\ h \notin together => \A j \in Sole : j # h /\ Asks(j, u) => Closing(h, j)
    BY <1>1, <1>13 DEF OnceOnly, GatheredOnce
  <2>3. Describing(h)
    BY <1>1, <1>13 DEF Describing
  <2>4. \A j : c # MoveTo(This(j), Done)
    BY <1>13, MoveIs
  <2>5. h \notin together =>
          \A u \in c.units : \A j \in Sole : j # h /\ Asks(j, u) => Closing(h, j)'
    BY <1>7, <2>2, <2>4
  <2>6. Sole' = Sole /\ \A j \in Sole \ {h} : \A u : Asks(j, u)' <=> Asks(j, u)
    BY <1>2, <2>1 DEF AsksStay, Sole
  <2>7. HandedOver'
    <3>1. ASSUME NEW i \in Sole', NEW j \in Sole', NEW u, i # j, Asks(i, u)', Asks(j, u)'
          PROVE  \E g \in DOMAIN todo' \ {0} : HandsOver(g, i, j)'
      <4>0. i \in Sole /\ j \in Sole /\ i \notin together /\ j \notin together
        BY <2>6, <3>1 DEF Sole
      <4>1. CASE i # h /\ j # h
        <5>1. Asks(i, u) /\ Asks(j, u)
          BY <2>6, <3>1, <4>0, <4>1
        <5>2. PICK g \in DOMAIN todo \ {0} : HandsOver(g, i, j)
          BY <3>1, <4>0, <5>1 DEF OnceOnly, HandedOver
        <5> QED BY <1>9, <2>4, <5>2
      <4>2. CASE i = h
        <5>1. j # h /\ Asks(j, u) /\ u \in c.units /\ h \notin together
          BY <2>1, <2>6, <3>1, <4>0, <4>2
        <5>2. Closing(h, j)'
          BY <2>5, <4>0, <5>1
        <5>3. HandsOver(h, i, j)'
          <6>1. h = i
            BY <4>2
          <6> QED BY <1>8, <5>2, <6>1, Zenon DEF HandsOver
        <5> QED BY <1>1, <5>3
      <4>3. CASE j = h
        <5>1. i # h /\ Asks(i, u) /\ u \in c.units /\ h \notin together
          BY <2>1, <2>6, <3>1, <4>0, <4>3
        <5>2. Closing(h, i)'
          BY <2>5, <4>0, <5>1
        <5>3. HandsOver(h, i, j)'
          BY <1>8, <4>3, <5>2 DEF HandsOver
        <5> QED BY <1>1, <5>3
      <4> QED BY <4>1, <4>2, <4>3
    <3> QED BY <3>1 DEF HandedOver
  <2>8. \A u : Opened(u)' <=> Opened(u)
    <3>1. ASSUME NEW u, Opened(u)' PROVE Opened(u)
      <4>1. PICK i \in Tasks' : u \in board'[i].units
        BY <3>1 DEF Opened
      <4>2. CASE i = h
        BY <2>1, <2>2, <4>1, <4>2
      <4>3. CASE i # h
        BY <2>1, <4>1, <4>3 DEF Opened, AsksStay
      <4> QED BY <4>2, <4>3
    <3>2. \A u : Opened(u) => Opened(u)'
      BY <2>1 DEF Opened, AsksStay
    <3> QED BY <3>1, <3>2
  <2>9. PlannedOnce'
    <3>1. \A u : Task(u)' = Task(u)
      BY DEF Task, Name
    <3> QED BY <1>1, <2>8, <3>1 DEF OnceOnly, PlannedOnce
  <2>10. GatheredOnce'
    <3>1. ASSUME NEW g \in DOMAIN todo' \ {0}, Describing(g)', g \notin together',
                 NEW j \in Sole', NEW u, Asks(j, u)'
          PROVE  j \in Sole /\ Asks(j, u)
      <4>1. g # h /\ g \in DOMAIN todo
        BY <1>6, <3>1
      <4>2. h \in together /\ j \notin together /\ j \in Sole
        BY <1>2, <2>6, <3>1, <4>1 DEF Sole
      <4> QED BY <2>6, <3>1, <4>2
    <3> QED BY <1>2, <1>6, <2>8, <3>1, GatheredStays DEF OnceOnly
  <2> QED BY <1>0, <1>10, <2>7, <2>9, <2>10 DEF OnceOnly
<1>14. ASSUME NEW s \in Ids \ {h}, c = MoveTo(This(s), Done),
              IF s \in Tasks \ together THEN Closes(h, s) ELSE SameAsks
       PROVE  OnceOnly'
  <2>1. \A j : j # s => c # MoveTo(This(j), Done)
    <3>1. c.on = This(s) /\ This(s)[1] = s
      BY <1>14, MoveIs DEF This
    <3>2. \A j : MoveTo(This(j), Done).on = This(j) /\ This(j)[1] = j
      BY MoveIs DEF This
    <3> QED BY <3>1, <3>2
  <2>2. CASE s \notin Sole
    <3>1. SameAsks /\ \A j \in Sole : j # s
      BY <1>14, <2>2 DEF Sole
    <3> QED BY <1>11, <2>1, <3>1
  <2>3. CASE s \in Sole
    <3>1. /\ Tasks' = Tasks /\ AsksStay(Tasks \ {s}) /\ board'[s].units = board[s].units
          /\ \A u : ~Asks(s, u)'
      BY <1>14, <2>3 DEF Closes, Sole
    <3>2. Sole' = Sole /\ \A j \in Sole' : \A u : Asks(j, u)' => j # s /\ Asks(j, u)
      BY <1>2, <3>1 DEF AsksStay, Sole
    <3>3. HandedOver'
      <4>1. ASSUME NEW i \in Sole', NEW j \in Sole', NEW u, i # j, Asks(i, u)', Asks(j, u)'
            PROVE  \E g \in DOMAIN todo' \ {0} : HandsOver(g, i, j)'
        <5>1. i \in Sole /\ j \in Sole /\ i # s /\ j # s /\ Asks(i, u) /\ Asks(j, u)
          BY <3>2, <4>1
        <5>2. PICK g \in DOMAIN todo \ {0} : HandsOver(g, i, j)
          BY <4>1, <5>1 DEF OnceOnly, HandedOver
        <5> QED BY <1>9, <2>1, <5>1, <5>2
      <4> QED BY <4>1 DEF HandedOver
    <3>4. \A u : Opened(u)' <=> Opened(u)
      BY <3>1 DEF Opened, AsksStay
    <3>5. PlannedOnce'
      <4>1. \A u : Task(u)' = Task(u)
        BY DEF Task, Name
      <4> QED BY <1>1, <3>4, <4>1 DEF OnceOnly, PlannedOnce
    <3>6. GatheredOnce'
      BY <1>2, <1>6, <3>2, <3>4, GatheredStays DEF OnceOnly
    <3> QED BY <1>0, <1>10, <3>3, <3>5, <3>6 DEF OnceOnly
  <2> QED BY <2>2, <2>3
<1> QED BY <1>4, <1>12, <1>13, <1>14, Zenon DEF HandlerAsks, c

LEMMA OnceEnds ==
  ASSUME BaseInv, OnceOnly, SameAsks, QueuedAlone', request' # Inbox, NEW h \in DOMAIN todo, Stops(h),
         In(todo[h]) = {}
  PROVE  OnceOnly'
<1>1. /\ DOMAIN todo' = DOMAIN todo \ {h}
      /\ \A g \in DOMAIN todo \ {h} : todo'[g] = todo[g] /\ made'[g] = made[g]
  BY DEF Stops
<1>2. \A g \in DOMAIN todo' : In(todo'[g]) = In(todo[g])
  BY <1>1
<1>3. GatheredOnce'
  BY <1>1, <1>2, GatheredSame DEF OnceOnly
<1>4. PlannedOnce'
  BY <1>1, PlannedSame DEF OnceOnly
<1>5. \A i, j : ~HandsOver(h, i, j)
  BY DEF HandsOver, Closing
<1>6. \A i, j \in Sole : \A g \in DOMAIN todo \ {0} :
           HandsOver(g, i, j) => g \in DOMAIN todo' \ {0} /\ HandsOver(g, i, j)'
  BY <1>1, <1>2, <1>5, HandsKeep
<1>7. HandedOver'
  BY <1>6, HandedSame DEF OnceOnly
<1> QED BY <1>3, <1>4, <1>7 DEF OnceOnly

LEMMA OnceListing ==
  ASSUME BaseInv, OnceOnly, NEW i \in Ids, ListSiblings(i)
  PROVE  OnceOnly'
<1>1. /\ board[i].by = "ticketmerge" /\ ~Writing(i) /\ Starts(i, Fold(i))
      /\ UNCHANGED <<board, request, together>>
  BY DEF ListSiblings
<1>2. i \in Tasks /\ i # 0 /\ (i \notin together => board[i].column = T.ticketmerge.working)
  <2>1. PlaceIs(i, board[i])
    BY ShapeHas DEF PlaceInv
  <2>2. board[i].parent = 0 /\ (i \notin together => board[i].column = T.ticketmerge.working)
    BY <1>1, <2>1 DEF PlaceIs, TaskIs, LateIs, SectionIs, NoStage
  <2> QED BY <2>2, ShapeHas DEF Tasks
<1>3. /\ DOMAIN todo' = DOMAIN todo \cup {i} /\ todo'[i] = Fold(i) /\ i \notin DOMAIN todo
      /\ \A g \in DOMAIN todo : todo'[g] = todo[g] /\ made'[g] = made[g]
  BY <1>1 DEF Starts, Writing
<1>4. i \notin together => \A g \in DOMAIN todo \ {0} : g \in together
  <2>1. \A g \in DOMAIN todo \ {0} : g \in Ids /\ board[g].by = "ticketmerge" /\ g # i
    BY <1>3, HandlersAre
  <2> QED BY <1>1, <2>1, ShapeHas DEF HandInv
<1>5. SameAsks
  BY <1>1, SameWhenStill
<1>6. i \notin together => \A j, k \in Sole : \A u : Asks(j, u) /\ Asks(k, u) => j = k
  <2>1. \A h : \A j, k \in Sole : HandsOver(h, j, k) => h \notin together
    BY DEF HandsOver, Sole
  <2> QED BY <1>4, <2>1 DEF OnceOnly, HandedOver
<1>7. HandedOver'
  <2>1. \A j, k \in Sole : \A h \in DOMAIN todo \ {0} :
           HandsOver(h, j, k) => h \in DOMAIN todo' \ {0} /\ HandsOver(h, j, k)'
    <3>1. ASSUME NEW h \in DOMAIN todo \ {0}, NEW j, NEW k, HandsOver(h, j, k)
          PROVE  h \in DOMAIN todo' \ {0} /\ HandsOver(h, j, k)'
      <4>1. In(todo'[h]) = In(todo[h]) /\ h \in DOMAIN todo' \ {0}
        BY <1>3
      <4> QED BY <3>1, <4>1, HandsKeep
    <3> QED BY <3>1
  <2> QED BY <1>5, <2>1, HandedSame DEF OnceOnly
<1>8. PlannedOnce'
  BY <1>2, <1>3, <1>5, PlannedSame DEF OnceOnly
<1>9. GatheredOnce'
  <2>1. /\ Siblings(i) = {} => Fold(i) = <<>>
        /\ Siblings(i) # {} => Moves(Siblings(i)) \subseteq In(Fold(i))
        /\ \A c \in In(Fold(i)) : FoldCall(i, c)
    BY <1>2, ShapeHas, FoldIs
  <2>2. In(todo[i])' = In(Fold(i))
    BY <1>3 DEF In
  <2>3. ASSUME NEW c \in In(Fold(i)), c.op = "describe"
        PROVE  c.units = Merged(i) /\ Moves(Siblings(i)) \subseteq In(Fold(i))
    <3>1. FoldCall(i, c)
      BY <2>1
    <3>2. c \notin Moves(Absorbed(Siblings(i)))
      BY <2>3, MoveIs DEF Moves
    <3>3. \A k \in Nat \ {0}, j \in {i} \cup Siblings(i) : c \notin PartCalls(i, k, board[j].units)
      BY <2>3, CreateIs, EdgeIs DEF PartCalls
    <3>4. c = Describe(This(i), Merged(i))
      BY <3>1, <3>2, <3>3, Zenon DEF FoldCall
    <3>5. c.units = Merged(i)
      BY <3>4, DescribeIs
    <3>6. Siblings(i) # {}
      <4>1. In(<<>>) = {}
        BY DEF In
      <4> QED BY <2>1, <2>3, <4>1
    <3> QED BY <2>1, <3>5, <3>6
  <2>4. ASSUME NEW c \in In(Fold(i)), c.op = "describe", NEW u \in c.units
        PROVE  /\ Opened(u)
               /\ i \notin together => \A j \in Sole : j # i /\ Asks(j, u) => Closing(i, j)'
    <3>1. PICK k \in {i} \cup Siblings(i) : u \in board[k].units
      BY <2>3, <2>4 DEF Merged
    <3>2. k \in Tasks
      BY <1>2, <3>1 DEF Siblings
    <3>3. ASSUME i \notin together, NEW j \in Sole, j # i, Asks(j, u) PROVE Closing(i, j)'
      <4>0. k \in Sole /\ Asks(k, u)
        <5>1. CASE k = i
          BY <1>2, <3>1, <3>3, <5>1, RowsAre DEF Sole, Asks, Col, Done
        <5>2. CASE k # i
          <6>1. Col(k) = T.ticketmerge.ready
            BY <3>1, <5>2 DEF Siblings
          <6>2. k \notin together
            BY <6>1 DEF OnceOnly, QueuedAlone
          <6> QED BY <3>1, <3>2, <6>1, <6>2, RowsAre DEF Sole, Asks, Done
        <5> QED BY <5>1, <5>2
      <4>1. j = k
        BY <1>6, <3>3, <4>0
      <4>2. MoveTo(This(j), Done) \in In(Fold(i))
        BY <2>3, <2>4, <3>1, <3>3, <4>1 DEF Moves
      <4> QED BY <1>2, <2>2, <3>3, <4>2 DEF Closing
    <3>4. Opened(u)
      BY <3>1, <3>2 DEF Opened
    <3> QED BY <3>3, <3>4
  <2>5. ASSUME NEW h \in DOMAIN todo' \ {0}, NEW c \in In(todo[h])', c.op = "describe", NEW u \in c.units
        PROVE  /\ Opened(u)'
               /\ h \notin together' => \A j \in Sole' : j # h /\ Asks(j, u)' => Closing(h, j)'
    <3>1. Sole' = Sole /\ together' = together
      BY <1>1, <1>5 DEF Sole, SameAsks
    <3>2. \A j \in Sole : \A v : Asks(j, v)' <=> Asks(j, v)
      BY <1>5, <3>1, SoleSame
    <3>3. CASE h = i
      <4>1. /\ Opened(u)
            /\ i \notin together => \A j \in Sole : j # i /\ Asks(j, u) => Closing(i, j)'
        BY <2>2, <2>4, <2>5, <3>3
      <4> QED BY <1>5, <3>1, <3>2, <3>3, <4>1, OpenedSame
    <3>4. CASE h # i
      <4>1. h \in DOMAIN todo \ {0} /\ In(todo[h])' = In(todo[h]) /\ In(todo'[h]) = In(todo[h])
        BY <1>3, <2>5, <3>4 DEF In
      <4>2. /\ Opened(u)
            /\ h \notin together => \A j \in Sole : j # h /\ Asks(j, u) => Closing(h, j)
        BY <2>5, <4>1 DEF OnceOnly, GatheredOnce
      <4>3. \A j : Closing(h, j)' <=> Closing(h, j)
        BY <4>1, HandsKeep
      <4> QED BY <1>5, <3>1, <3>2, <4>2, <4>3, OpenedSame
    <3> QED BY <3>3, <3>4
  <2> QED BY <2>5 DEF GatheredOnce
<1>10. request' # Inbox /\ QueuedAlone'
  BY <1>1, AloneWhenStill DEF OnceOnly
<1> QED BY <1>7, <1>8, <1>9, <1>10 DEF OnceOnly

LEMMA OnceFinishes ==
  ASSUME BaseInv, OnceOnly, NEW h \in DOMAIN todo, FinishHandler(h)
  PROVE  OnceOnly'
<1>1. SameAsks
  BY SameWhenHandlerEnds
<1>2. Stops(h) /\ In(todo[h]) = {}
  BY DEF FinishHandler, In
<1>3. request' # Inbox
  BY DEF FinishHandler, OnceOnly, Tracking, Inbox
<1>4. QueuedAlone'
  BY AloneWhenFinished DEF OnceOnly
<1> QED BY <1>1, <1>2, <1>3, <1>4, OnceEnds

LEMMA OnceStep ==
  ASSUME BaseInv, OnceInv, [PlanNext]_planVars
  PROVE  OnceInv'
<1> SUFFICES ASSUME Unharmed' PROVE OnceOnly'
  BY DEF OnceInv
<1>1. CASE PlanNext
  <2>1. Moves1 /\ UNCHANGED setting
    BY <1>1, NextIs
  <2>2. ASSUME Scope PROVE OnceOnly'
    <3>1. UNCHANGED left /\ request = Inbox
      BY <2>2 DEF Scope
    <3> QED BY <2>1, <3>1, UnharmedWhenFree DEF OnceInv, OnceOnly
  <2>3. ~PriorityFails
    BY <2>1, FailsOnce DEF PriorityFails
  <2>4. ASSUME NEW h \in DOMAIN todo, MakeCall(h) PROVE OnceOnly'
    <3>1. UNCHANGED left
      BY <2>4 DEF MakeCall
    <3>2. OnceOnly
      BY <2>1, <3>1, UnharmedWhenFree DEF OnceInv
    <3> QED BY <2>4, <3>2, OncePlannerCalls, OnceHandlerCalls
  <2>5. ASSUME NEW h \in DOMAIN todo, LoseCall(h) PROVE OnceOnly'
    <3>1. Head(todo[h]).op \in {"edge", "move"} /\ Fails(Head(todo[h]).op)
      BY <2>5 DEF LoseCall
    <3>2. Head(todo[h]).op = "stage"
      BY <2>1, <3>1, FailsOnce
    <3> QED BY <3>1, <3>2
  <2>6. \A h \in DOMAIN todo : ~FailHandler(h)
    <3>1. \A what : Fails(what) => what = "stage"
      BY <2>1, FailsOnce
    <3> QED BY <3>1 DEF FailHandler
  <2>7. ASSUME NEW h \in DOMAIN todo, FinishHandler(h) PROVE OnceOnly'
    <3>1. UNCHANGED left
      BY <2>7 DEF FinishHandler
    <3>2. OnceOnly
      BY <2>1, <3>1, UnharmedWhenFree DEF OnceInv
    <3> QED BY <2>7, <3>2, OnceFinishes
  <2>8. ASSUME NEW i \in Ids, ListSiblings(i) PROVE OnceOnly'
    <3>1. UNCHANGED left
      BY <2>8 DEF ListSiblings
    <3>2. OnceOnly
      BY <2>1, <3>1, UnharmedWhenFree DEF OnceInv
    <3> QED BY <2>8, <3>2, OnceListing
  <2>9. ASSUME NEW i \in Ids, Works(i) PROVE OnceOnly'
    <3>1. UNCHANGED left \/ Fails("stage")
      BY <2>9 DEF Works, TakeToMerge, TakeUp, Finish, GiveUp, SetAside
    <3>2. OnceOnly
      BY <2>1, <3>1, UnharmedWhenFree, FailsOnce DEF OnceInv
    <3>3. UNCHANGED <<todo, made, request>>
      BY <2>9 DEF Works, TakeToMerge, TakeUp, Finish, GiveUp, SetAside
    <3>4. QueuedAlone'
      BY <2>9, <3>2, AloneWhenWorked DEF OnceOnly
    <3> QED BY <2>9, <3>2, <3>3, <3>4, SameWhenWorked, OnceSame
  <2> QED BY <2>1, <2>2, <2>3, <2>4, <2>5, <2>6, <2>7, <2>8, <2>9, Zenon DEF Moves1
<1>2. CASE UNCHANGED planVars
  <2>1. UNCHANGED <<setting, board, request, todo, made, left, together>>
    BY <1>2 DEF planVars, moving
  <2>2. SameAsks
    BY <2>1, SameWhenStill
  <2>3. OnceOnly => QueuedAlone'
    BY <2>1, AloneWhenStill DEF OnceOnly
  <2> QED BY <2>1, <2>2, <2>3, UnharmedWhenFree, OnceSame DEF OnceInv
<1> QED BY <1>1, <1>2

LEMMA OnceStarts ==
  ASSUME PlanInit
  PROVE  OnceInv
<1>1. DOMAIN todo = {0} /\ Ids = {} /\ request # Inbox /\ together = {}
  BY DEF PlanInit, Ids, Inbox
<1> QED BY <1>1 DEF OnceInv, OnceOnly, PlannedOnce, GatheredOnce, HandedOver, QueuedAlone, Opened,
                    Tasks, Sole

(* Nothing that is being folded, nothing left between two tickets.          *)
LEMMA OnceImplies ==
  ASSUME BaseInv, AskedOfSome, OnceInv
  PROVE  EachAskedOnce
<1>1. NothingDropped
  BY DEF NothingDropped, AskedOfSome, Keeps
<1>2. NothingTwice
  <2> SUFFICES ASSUME Still, Unharmed, NEW u \in Plan, NEW i \in Tasks \ together, NEW j \in Tasks \ together,
                      Asks(i, u), Asks(j, u)
               PROVE  i = j
    BY DEF NothingTwice
  <2>1. DOMAIN todo = {}
    BY DEF Still, Idle
  <2> QED BY <2>1 DEF OnceInv, OnceOnly, HandedOver, Sole
<1> QED BY <1>1, <1>2 DEF EachAskedOnce

(* Whatever the plan, however many slots a stage has, wherever the polls    *)
(* fall and whatever fails: what a task was opened for stays asked of some  *)
(* task, or named by one that was merged beside another; and, as long as    *)
(* nothing but a stage fails, it is asked of one only, apart from the tasks *)
(* that were merged beside another.                                         *)
THEOREM OneTaskAsks == PlanSpec => []EachAskedOnce
<1> DEFINE Inv == BaseInv /\ AskedOfSome /\ OnceInv
<1>1. PlanInit => Inv
  BY BreakdownAssumption, BaseStarts, AskedStarts, OnceStarts
<1>2. Inv /\ [PlanNext]_planVars => Inv'
  BY BaseStep, AskedStep, OnceStep
<1>3. Inv => EachAskedOnce
  BY OnceImplies
<1> QED BY <1>1, <1>2, <1>3, PTL DEF PlanSpec

=============================================================================
