------------------------------ MODULE Journey -------------------------------
(***************************************************************************)
(* One ticket's way through the whole routing table: what each stage's     *)
(* handler can report, what its comment leaves behind, which column that   *)
(* leads to, and which stage will have the ticket there                    *)
(* (internal/agent, internal/workflow, internal/dispatch).                 *)
(*                                                                         *)
(* How hosts race for the ticket is the subject of ClaimProtocol; here one *)
(* worker at a time has it, and its comments are reduced to the counts and *)
(* marks the stages read from them.  What a model or a sandbox answers is  *)
(* a free choice among the outcomes the handler distinguishes.             *)
(***************************************************************************)
EXTENDS Workflow

CONSTANTS
  Options,        \* which departments: pairs, is the architect on, is coverage
  Entries,        \* the columns in which tickets are created
  MaxAttempts, MaxReturns, MaxSpecRepairs,
  Budget          \* how many comments are lost and workers interrupted

ASSUME JourneyAssumption ==
  /\ Options \subseteq BOOLEAN \X BOOLEAN
  /\ Entries \subseteq {Inbox, "ready_for_ticket_merge", "ready_for_spec_merge",
                        "ready_for_spec", "ready_for_maintenance"}
  /\ MaxAttempts \in Nat \ {0} /\ MaxReturns \in Nat /\ MaxSpecRepairs \in Nat
  /\ Budget \in Nat

VARIABLES
  table,   \* the routing table of this department
  entry,   \* the column the ticket was created in, which says what it is
  column,
  prereq,  \* what it waits for is "open", "done" or "blocked"
  worker,  \* the stage that has claimed it
  report,  \* the outcome that stage's handler has returned
  spent,   \* claims of each role since the last reset: record.Attempts
  marks,   \* the comments that a Wants looks for
  repairs, \* how many comments carry SpecRepairMarker
  returns, \* how many comments carry ReturnedMarker
  budget,
  passed,  \* history: the stages that have reported success on the work as it is
  sentBack, \* history: the stages that have handed the ticket back
  merged   \* history: its branch has been pushed to the integration branch

route  == <<table, entry>>
notes  == <<spent, marks, repairs, returns>>
history == <<passed, sentBack, merged>>
vars   == <<route, column, prereq, worker, report, notes, budget, history>>

Nobody     == ""
Unreported == ""
All        == Roles(TRUE, TRUE)
S(r)       == table[r]
InUse      == DOMAIN table
NoneSpent  == [r \in All |-> 0]

Init ==
  /\ table \in {Table(o[1], o[2]) : o \in Options}
  /\ entry \in Entries /\ column = entry
  /\ prereq \in {"open", "done"}
  /\ entry \in {Inbox, "ready_for_maintenance"} => prereq = "done"
  /\ worker = Nobody /\ report = Unreported
  /\ spent = NoneSpent /\ marks = {} /\ repairs = 0 /\ returns = 0
  /\ budget = Budget
  /\ passed = {} /\ sentBack = {} /\ merged = FALSE

(* The handler's own say: nothing to review or merge without a branch, one  *)
(* design and one attempt at a conflict per ticket.                         *)
Wants(r) ==
  CASE r = "architect"               -> "designed" \notin marks
    [] r \in {"review", "integrate"} -> "branch" \in marks
    [] r = "resolve"                 -> "tried" \notin marks
    [] OTHER                         -> TRUE

Queued(r) == worker = Nobody /\ column = S(r).ready

UngatedMutant(r) == spent[r] < MaxAttempts /\ Wants(r)

Takeable(r) ==
  /\ spent[r] < MaxAttempts
  /\ Wants(r)
  /\ S(r).deps => prereq = "done"

Take(r) ==
  /\ Queued(r) /\ Takeable(r)
  /\ column' = S(r).working /\ worker' = r
  /\ spent' = [spent EXCEPT ![r] = @ + 1]
  /\ UNCHANGED <<route, prereq, report, marks, repairs, returns, budget, history>>

Handles(r) == worker = r /\ report = Unreported

(* The handler ends with a comment, which may be lost, and an outcome.      *)
Lost == budget > 0 /\ budget' = budget - 1
Ends(outcome, mark, isMerged) ==
  /\ report' = outcome /\ merged' = isMerged
  /\ \/ marks' = marks \cup mark /\ UNCHANGED budget
     \/ mark # {} /\ UNCHANGED marks /\ Lost
  /\ UNCHANGED <<route, column, prereq, worker, spent, repairs, returns, passed, sentBack>>
Reports(outcome, mark) == Ends(outcome, mark, merged)

(* A model, a sandbox or a check of its work fails the stage.               *)
FailStage(r) ==
  /\ Handles(r) /\ r # "resolve"
  /\ Reports("failed", {})

(* The architect is no gate: without a usable design it is "blocked", which *)
(* passes the request on.                                                   *)
DesignRequest ==
  /\ Handles("architect")
  /\ \/ Reports("success", {"designed"})
     \/ Reports("blocked", {})

PlacedIsSuccessMutant ==
  /\ Handles("pm")
  /\ \/ Reports("success", {})
     \/ /\ report' = "success" /\ column' = S("test").ready
        /\ UNCHANGED <<route, prereq, worker, notes, budget, history>>

(* A request of one unit is placed with the test author by the handler.     *)
ScopeRequest ==
  /\ Handles("pm")
  /\ \/ Reports("success", {})
     \/ /\ report' = "handled" /\ column' = S("test").ready
        /\ UNCHANGED <<route, prereq, worker, notes, budget, history>>

MergeTickets == Handles("ticketmerge") /\ Reports("success", {})

Author(r) ==
  /\ r \in {"test", "spec", "specmerge"} /\ Handles(r)
  /\ Reports("success", {"branch"})

NeverCountedMutant == 0
SpecRepairsSoFar == repairs

NoRepairResetMutant == spent
RepairResets == NoneSpent

(* Repairs are counted no further than the bound they are compared with.    *)
OneMore(n) == IF n < MaxSpecRepairs THEN n + 1 ELSE n

(* endOnBrokenSpec: back to the author, with a comment that is counted and  *)
(* that resets every role's attempts; in front of a person once there have  *)
(* been enough.                                                             *)
ReturnBrokenSpec ==
  /\ SpecRepairsSoFar < MaxSpecRepairs
  /\ report' = "returned"
  /\ \/ repairs' = OneMore(repairs) /\ spent' = RepairResets /\ UNCHANGED budget
     \/ Lost /\ UNCHANGED <<repairs, spent>>
  /\ UNCHANGED <<route, column, prereq, worker, marks, returns, history>>

Develop(r) ==
  /\ r \in {"dev", "maintain"} /\ Handles(r)
  /\ \/ Reports("success", {"branch"})
     \/ ReturnBrokenSpec
     \/ SpecRepairsSoFar >= MaxSpecRepairs /\ Reports("blocked", {})

Cover == Handles("coverage") /\ Reports("success", {"branch"})

(* A blocking verdict sends the work back while ReturnsSoFar allows it.     *)
Review ==
  /\ Handles("review")
  /\ \/ Reports("success", {})
     \/ Reports(IF returns < MaxReturns THEN "returned" ELSE "blocked", {})

Integrate ==
  /\ Handles("integrate")
  /\ \/ Ends("success", {}, TRUE)
     \/ Reports("conflicted", {})
     \/ Reports("blocked", {})

GaveUpIsSuccessMutant ==
  /\ Handles("resolve")
  /\ \/ Ends("success", {"tried"}, TRUE)
     \/ Reports("failed", {"tried"})
     \/ Reports("success", {"tried"})
     \/ Reports("returned", {})

(* One attempt per conflict: every ending but "no longer conflicting"       *)
(* leaves the mark of an attempt.                                           *)
Resolve ==
  /\ Handles("resolve")
  /\ \/ Ends("success", {"tried"}, TRUE)
     \/ Reports("failed", {"tried"})
     \/ Reports("blocked", {"tried"})
     \/ Reports("returned", {})

(* What has been passed holds for the work as it is: new code has not been  *)
(* reviewed, and a specification handed back is to be written again.        *)
Passed(r) ==
  CASE report = "success"  -> (IF r \in {"dev", "coverage"} THEN passed \ {"review"} ELSE passed)
                              \cup {r}
    [] report = "returned" /\ r = "dev" -> passed \ {"test", "specmerge"}
    [] OTHER -> passed

(* The dispatcher routes the outcome.                                       *)
Onward(r) == Destination(S(r), report, spent[r] < MaxAttempts)
Settle(r) ==
  /\ worker = r /\ report # Unreported
  /\ column' = IF Onward(r) = NoColumn THEN column ELSE Onward(r)
  /\ worker' = Nobody /\ report' = Unreported
  /\ passed' = Passed(r)
  /\ sentBack' = sentBack \cup {s \in {r} : report = "returned"}
  /\ UNCHANGED <<route, prereq, notes, budget, merged>>

(* The process dies or stops before the outcome is routed: every role's     *)
(* attempts are forgiven, in a comment that counts as a return, and the     *)
(* ticket goes back to the queue of a stage with this bench: Reconcile does *)
(* not ask whose claim it is.  One the handler had placed stays there.      *)
Interrupt(r) ==
  /\ worker = r /\ Lost
  /\ worker' = Nobody /\ report' = Unreported
  /\ IF column = S(r).working
       THEN /\ \E q \in InUse : S(q).working = column /\ column' = S(q).ready
            /\ spent' = NoneSpent /\ returns' = returns + 1
       ELSE UNCHANGED <<column, spent, returns>>
  /\ UNCHANGED <<route, prereq, marks, repairs, history>>

(* The other ticket's journey ends.                                         *)
Prerequisite ==
  /\ prereq = "open" /\ prereq' \in {"done", "blocked"}
  /\ UNCHANGED <<route, column, worker, report, notes, budget, history>>

Sweep(r) ==
  /\ Queued(r) /\ S(r).deps /\ prereq = "blocked"
  /\ column' = S(r).exhausted
  /\ UNCHANGED <<route, prereq, worker, report, notes, budget, history>>

Handle(r) ==
  \/ FailStage(r) \/ Author(r) \/ Develop(r)
  \/ r = "architect" /\ DesignRequest
  \/ r = "pm" /\ ScopeRequest
  \/ r = "ticketmerge" /\ MergeTickets
  \/ r = "coverage" /\ Cover
  \/ r = "review" /\ Review
  \/ r = "integrate" /\ Integrate
  \/ r = "resolve" /\ Resolve

Next ==
  \/ \E r \in InUse : Take(r) \/ Handle(r) \/ Settle(r) \/ Interrupt(r) \/ Sweep(r)
  \/ Prerequisite

Spec == Init /\ [][Next]_vars

-----------------------------------------------------------------------------
(*----------------------------- properties --------------------------------*)

(* Every variable has its type, and a claimed ticket is on its bench or     *)
(* where its handler placed it.                                             *)
TypeOK ==
  /\ column \in Columns /\ entry \in Entries
  /\ prereq \in {"open", "done", "blocked"}
  /\ worker \in InUse \cup {Nobody}
  /\ report \in Outcomes \cup {Unreported}
  /\ spent \in [All -> 0..MaxAttempts]
  /\ marks \subseteq {"designed", "branch", "tried"}
  /\ repairs \in 0..MaxSpecRepairs /\ returns \in 0..Budget /\ budget \in 0..Budget
  /\ passed \subseteq All /\ sentBack \subseteq All /\ merged \in BOOLEAN
  /\ worker # Nobody => column = S(worker).working \/ report = "handled"

(* Done means merged: nothing but a section reaches done unless its branch  *)
(* has been pushed to the integration branch; giving up is not success.     *)
DoneIsMerged == column = Done /\ entry # "ready_for_spec" => merged

(* Nothing that was written since the last review is integrated, however    *)
(* often the ticket goes back; upkeep is not reviewed at all.               *)
ReviewedBeforeIntegration ==
  worker \in {"integrate", "resolve"} /\ entry # "ready_for_maintenance"
    => "review" \in passed

(* Tests come before development, and again after a specification has been  *)
(* handed back; and so does everything the ticket waits for.                *)
TestsComeFirst ==
  worker = "dev" => passed \cap {"test", "specmerge"} # {} /\ prereq = "done"

(* The gates hold on every way through the stages, whichever options are    *)
(* set: specified, then developed, reviewed, and merged before it is done.  *)
GatesHold == TypeOK /\ DoneIsMerged /\ ReviewedBeforeIntegration /\ TestsComeFirst

(* Going round does not use up a ticket: one that waits for nothing and of  *)
(* which nothing was lost can be taken by the stage it waits for, so that a *)
(* hand-back of the specification or a failure never strands it.  Except    *)
(* where the code strands it: review and resolver hand back without a mark  *)
(* that restarts the count, and a resolver that failed leaves the ticket.   *)
HandedBack(r) == r = "resolve" \/ sentBack \cap {"review", "resolve"} # {}
QueuedIsTakeable ==
  \A r \in InUse :
    Queued(r) /\ prereq = "done" /\ budget = Budget => Takeable(r) \/ HandedBack(r)

(* Every bounce is bounded: whatever reviewer, developer, integrator and    *)
(* resolver say, the ticket comes to rest.                                  *)
ComesToRest == <>[][column' = column]_vars
=============================================================================
