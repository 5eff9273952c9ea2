------------------------------ MODULE DevLoop -------------------------------
(***************************************************************************)
(* One attempt of the stage that writes code (internal/agent/dev), as a    *)
(* developer or as an author of tests: the turns of the model, what each   *)
(* does to the staged tree, the pushes and the checks that follow, the     *)
(* verdict on the specification, and every bound that ends an attempt.     *)
(*                                                                         *)
(* What the model answers and what the checks print is free.  A file's     *)
(* text is a number, 0 where the attempt wrote none; the output of a check *)
(* is its class, as the patterns of specfault.go tell it:                  *)
(*   undefined   only symbols the developer has still to write             *)
(*   mistyped    another compile error, in test files alone                *)
(*   intrinsic   one that no implementation can affect                     *)
(*   implBroken  a compile error outside the test files                    *)
(*   panicInTests, clash  the suite panics in its own fixture; two test    *)
(*               files name different packages                             *)
(*   assertion   the suite builds and fails                                *)
(*   green       everything passes                                         *)
(*   rejected    the push failed, with no compile error in what it printed *)
(***************************************************************************)
EXTENDS Sandbox, Sequences, SequencesExt

CONSTANTS
  Attempts, \* the attempts to explore, see AttemptAssumption
  Files, Texts,
  MaxTurns, MaxTotalIterations, MaxConsecutiveReads, MaxDeadRefusals, MaxParseFailures,
  AgentResetTurns, MaxAgentResets, MaxUndoDepth,
  MinSpecBrokenTries, MaxTestEditRefusals, MaxRefereeAsks, MaxSpecRepairs

Outputs == {"undefined", "mistyped", "intrinsic", "implBroken", "panicInTests", "clash",
            "assertion", "green", "rejected"}
Replies == {"read", "undo", "write", "refused", "unchanged", "poke", "finish",
            "unparsable"}

ASSUME AttemptAssumption ==
  \A a \in Attempts :
    /\ a.mode \in {"develop", "test"} /\ a.referee \in BOOLEAN
    /\ a.repairs \in Nat /\ a.faults \in Nat
    /\ a.outputs \subseteq Outputs /\ a.replies \subseteq Replies /\ a.files \subseteq Files

ASSUME BoundsAssumption ==
  /\ \A b \in {MaxTurns, MaxTotalIterations, MaxConsecutiveReads, MaxDeadRefusals,
               MaxParseFailures, AgentResetTurns, MinSpecBrokenTries, MaxTestEditRefusals,
               MaxRefereeAsks, MaxSpecRepairs, MaxUndoDepth} : b \in Nat \ {0}
  /\ MaxAgentResets \in Nat
  /\ Texts \subseteq Nat \ {0}
  /\ MaxTestEditRefusals < MaxDeadRefusals

VARIABLES
  attempt, \* the mode, the referee, the earlier repairs; and what may happen
  pc,
  ended,   \* how the attempt ended, as [outcome, why]
  n,       \* Iteration
  budget,  \* the counters the bounds are checked against
  staged, undo,
  branch,  \* what the branch holds
  dirty,   \* what a push that failed left in the container
  last,    \* the output of the last verification
  sighted, \* the red outputs seen since the referee was last asked about them
  verdict, \* on the specification: [broken, tries, expected]
  asks,    \* RefereeAsks
  seen     \* what happened, for the properties

work == <<staged, undo, branch, dirty>>
judged == <<last, sighted, verdict>>
moving == <<leases, pc, ended, n, budget, work, judged, asks, seen>>
vars == <<attempt, moving>>

Developing == attempt.mode = "develop"

Nothing == [f \in Files |-> 0]
Over(new, old) == [f \in Files |-> IF new[f] # 0 THEN new[f] ELSE old[f]]

(*------------------ what the patterns of specfault.go tell ---------------*)

InTestsOnly(out) == out \in {"undefined", "mistyped", "intrinsic"}
HasCompileErrors(out) == InTestsOnly(out) \/ out = "implBroken"
RedIsExpected(out) == out \notin {"mistyped", "intrinsic", "implBroken", "clash"}

UpTo(max, k) == IF k > max THEN max ELSE k

(* Compile errors in test files alone convict the specification on sight    *)
(* when nothing outside the file can matter, and otherwise when they have   *)
(* come back often enough and are not the red that is expected.             *)
Conviction(out, tries) ==
  IF out = "intrinsic" THEN "matcher"
  ELSE IF RedIsExpected(out) THEN ""
  ELSE IF tries = MinSpecBrokenTries THEN "streak"
  ELSE IF budget.pokes = MaxTestEditRefusals THEN "refusals" ELSE ""

NoVerdict == [broken |-> "", tries |-> 0, expected |-> FALSE]

StaleStreakMutant == [verdict EXCEPT !.broken = "", !.expected = FALSE]

(* The verdict goes together with everything that supports it. *)
ClearSpecVerdict == NoVerdict

(* JudgeSpec: what a red verification makes of the verdict.  Every one      *)
(* follows a real edit, so each one counts.                                 *)
JudgeSpec(out) ==
  LET tries == UpTo(MinSpecBrokenTries, verdict.tries + 1)
  IN CASE ~Developing -> verdict
       [] Developing /\ InTestsOnly(out) ->
            [broken |-> Conviction(out, tries), tries |-> tries, expected |-> RedIsExpected(out)]
       [] Developing /\ out \in {"panicInTests", "clash"} ->
            [verdict EXCEPT !.broken = "matcher", !.expected = FALSE]
       [] OTHER -> ClearSpecVerdict

(* RecordVerification: an author whose own tests do not build has not       *)
(* passed, whatever its gate says.                                          *)
Passes(out, ok) == ok /\ (Developing \/ RedIsExpected(out))

RecordVerification(out, ok) ==
  /\ last' = out
  /\ IF Passes(out, ok)
     THEN verdict' = ClearSpecVerdict /\ UNCHANGED <<sighted, seen>>
     ELSE /\ verdict' = JudgeSpec(out)
          /\ sighted' = sighted \cup {out}
          /\ seen' = [seen EXCEPT !.soft = @ + (IF HasCompileErrors(out) THEN 0 ELSE 1),
                                  !.streak = IF InTestsOnly(out) THEN UpTo(MinSpecBrokenTries, @ + 1) ELSE 0]

-----------------------------------------------------------------------------

Init ==
  /\ attempt \in Attempts
  /\ NoSandbox(attempt.faults)
  /\ pc = "boot" /\ ended = [outcome |-> "", why |-> ""]
  /\ n = 1
  /\ budget = [refunded |-> 0, reads |-> 0, refusals |-> 0, parseFails |-> 0,
               resets |-> 0, lastReset |-> 0, pokes |-> 0]
  /\ staged = Nothing /\ undo = <<>> /\ branch = Nothing /\ dirty = Nothing
  /\ last = "" /\ sighted = {} /\ verdict = NoVerdict /\ asks = 0
  /\ seen = [kept |-> <<>>, poked |-> 0, idle |-> 0, charged |-> 0, soft |-> 0, streak |-> 0]

End(outcome, why) == pc' = "closing" /\ ended' = [outcome |-> outcome, why |-> why]
GoesTo(step) == pc' = step /\ UNCHANGED ended

(* A command of the loop: it ran, or Handle returns its error.              *)
Fails == Errs /\ End("failed", "error")
          /\ UNCHANGED <<attempt, n, budget, work, judged, asks, seen>>
InTheBox == IF Replaced THEN Nothing ELSE dirty

Acquire ==
  /\ pc = "boot"
  /\ \/ Boots /\ UNCHANGED faults /\ GoesTo("survey")
     \/ Fault /\ BootFails /\ End("failed", "error")
  /\ UNCHANGED <<attempt, n, budget, work, judged, asks, seen>>

Survey ==
  /\ pc = "survey"
  /\ \/ Runs /\ GoesTo("preflight")
        /\ UNCHANGED <<attempt, n, budget, work, judged, asks, seen>>
     \/ Fails

(* preflight: with a referee and tests in the tree they are read and judged *)
(* before the first turn; without an answer the loop starts as it would.    *)
Preflight ==
  /\ pc = "preflight" /\ GoesTo("top")
  /\ \/ UNCHANGED <<leases, verdict>>
     \/ Developing /\ attempt.referee
        /\ \/ Errs /\ UNCHANGED verdict
           \/ Runs /\ verdict' \in {verdict, [verdict EXCEPT !.broken = "referee"]}
  /\ UNCHANGED <<attempt, n, budget, work, last, sighted, asks, seen>>

(*--------------------------- the top of a turn ---------------------------*)

(* consultReferee: about a failure no compiler attributes that has come     *)
(* back since it was last asked about.                                      *)
WorthAsking ==
  /\ Developing /\ attempt.referee
  /\ verdict.broken = "" /\ asks < MaxRefereeAsks
  /\ ~HasCompileErrors(last) /\ last \in sighted

AskAgainMutant == sighted
Asked == sighted \ {last}

ConsultReferee ==
  /\ pc = "top" /\ WorthAsking
  /\ asks' = asks + 1
  /\ sighted' = Asked
  /\ verdict' \in {verdict, [verdict EXCEPT !.broken = "referee"]}
  /\ UNCHANGED <<attempt, leases, pc, ended, n, budget, work, last, seen>>

(* endOnBrokenSpec: to the author while it may repair, then to a person. *)
EndOnBrokenSpec ==
  /\ pc = "top" /\ verdict.broken # ""
  /\ End(IF attempt.repairs < MaxSpecRepairs THEN "returned" ELSE "blocked", verdict.broken)
  /\ UNCHANGED <<attempt, leases, n, budget, work, judged, asks, seen>>

OneTurnShortMutant == n >= MaxTurns + budget.refunded
BudgetSpent == n > MaxTurns + budget.refunded

Exhausted ==
  CASE n > MaxTotalIterations -> "ceiling"
    [] n <= MaxTotalIterations /\ BudgetSpent -> "budget"
    [] n <= MaxTotalIterations /\ ~BudgetSpent /\ budget.reads >= MaxConsecutiveReads -> "reads"
    [] OTHER -> IF budget.refusals >= MaxDeadRefusals THEN "refusals" ELSE ""

Settled == pc = "top" /\ ~WorthAsking /\ verdict.broken = ""

GiveUp ==
  /\ Settled /\ Exhausted # ""
  /\ End("failed", Exhausted)
  /\ UNCHANGED <<attempt, leases, n, budget, work, judged, asks, seen>>

DueForReset == budget.resets < MaxAgentResets /\ n - budget.lastReset >= AgentResetTurns

ForgetWorkMutant == staged' = Nothing /\ undo' = <<>>
KeepWork == undo' = <<>> /\ UNCHANGED staged

(* ResetAgent: the memory is cleared, and with it the run of refusals and   *)
(* what could be undone; the work is kept, and the run of reads.            *)
ResetAgent ==
  /\ Settled /\ Exhausted = "" /\ DueForReset
  /\ budget' = [budget EXCEPT !.resets = @ + 1, !.lastReset = n, !.refusals = 0]
  /\ KeepWork
  /\ UNCHANGED <<attempt, leases, pc, ended, n, branch, dirty, judged, asks, seen>>

(*----------------------------- what is answered --------------------------*)

Answers(reply) ==
  Settled /\ Exhausted = "" /\ ~DueForReset /\ reply \in attempt.replies

ChatFails ==
  /\ Settled /\ Exhausted = "" /\ ~DueForReset
  /\ Fault /\ End("failed", "error")
  /\ UNCHANGED <<attempt, leaseID, live, adrift, born, n, budget, work, judged, asks, seen>>

RetryInPlaceMutant == UNCHANGED <<pc, ended, n, budget, seen>>

(* An unusable reply costs its turn; a run of them ends the attempt. *)
ParseFailure ==
  /\ budget' = [budget EXCEPT !.parseFails = @ + 1]
  /\ IF budget.parseFails + 1 < MaxParseFailures
     THEN n' = n + 1 /\ GoesTo("top")
     ELSE End("failed", "unparseable") /\ UNCHANGED n
  /\ seen' = [seen EXCEPT !.charged = @ + 1]

Unparsable ==
  /\ Answers("unparsable")
  /\ ParseFailure
  /\ UNCHANGED <<attempt, leases, work, judged, asks>>

(* Advance: what one reply does to the counters. NoProgress and Progress    *)
(* are the only ways the run of refusals grows and ends.                    *)
Counts(progress, reads, refund) ==
  budget' = [budget EXCEPT
    !.parseFails = 0, !.reads = reads, !.refunded = @ + refund,
    !.refusals = CASE progress = "none" -> @ + 1 [] progress = "some" -> 0 [] OTHER -> @]

(* The same for the history the properties read. *)
Notes(progress, kept, poked, charge) ==
  seen' = [seen EXCEPT
    !.kept = kept, !.charged = @ + charge,
    !.idle = CASE progress = "none" -> @ + 1 [] progress = "some" -> 0 [] OTHER -> @,
    !.poked = IF progress = "some" THEN 0 ELSE @ + poked]

NextTurn == n' = n + 1 /\ GoesTo("top")

(* A read is refunded; one that finds nothing new runs no command, and one  *)
(* whose command fails changed nothing.                                     *)
Read(progress) == Counts(progress, budget.reads + 1, 1) /\ Notes(progress, seen.kept, 0, 0)

ReadFiles ==
  /\ Answers("read") /\ NextTurn
  /\ \/ Read("same") /\ UNCHANGED <<leases, dirty>>
     \/ Read("same") /\ Runs /\ dirty' = InTheBox
     \/ Read("none") /\ Errs /\ dirty' = InTheBox
  /\ UNCHANGED <<attempt, staged, undo, branch, judged, asks>>

(* Undo: the tree is what it was before the last write that was accepted. *)
UndoEdit ==
  /\ Answers("undo") /\ NextTurn
  /\ IF undo = <<>>
     THEN Counts("none", 0, 0) /\ Notes("none", seen.kept, 0, 1) /\ UNCHANGED <<staged, undo>>
     ELSE /\ Counts("some", 0, 0) /\ Notes("some", Front(seen.kept), 0, 1)
          /\ staged' = Last(undo) /\ undo' = Front(undo)
  /\ UNCHANGED <<attempt, leases, branch, dirty, judged, asks>>

UnboundedMutant(stack) == stack
Trimmed(stack) == IF Len(stack) > MaxUndoDepth THEN Tail(stack) ELSE stack

(* Apply accepts the edit: the state before it is kept for an undo.  A      *)
(* write that changed nothing is not a write; one that did is pushed and    *)
(* checked.                                                                 *)
Write(f, text) ==
  /\ Answers("write")
  /\ staged' = [staged EXCEPT ![f] = text]
  /\ undo' = Trimmed(Append(undo, staged))
  /\ LET kept == Append(seen.kept, [file |-> f, text |-> text]) IN
     IF staged[f] = text
     THEN Counts("none", 0, 0) /\ Notes("none", kept, 0, 1) /\ NextTurn
     ELSE Counts("some", 0, 0) /\ Notes("some", kept, 0, 1) /\ GoesTo("push") /\ UNCHANGED n
  /\ UNCHANGED <<attempt, leases, branch, dirty, judged, asks>>

QuotingOnlyMutant(pokes) ==
  IF pokes = MaxTestEditRefusals /\ ~verdict.expected /\ InTestsOnly(last)
  THEN [verdict EXCEPT !.broken = "refusals"] ELSE verdict

(* NoteTestEditRefusal: once there are enough of them they are evidence,    *)
(* unless the red of the last verification is the expected one.             *)
NoteTestEditRefusal(pokes) ==
  IF pokes = MaxTestEditRefusals /\ ~verdict.expected
  THEN [verdict EXCEPT !.broken = "refusals"] ELSE verdict

(* An action the stage knows and does not take changes nothing. *)
Finish ==
  /\ Answers("finish") /\ NextTurn
  /\ Counts("none", budget.reads, 0) /\ Notes("none", seen.kept, 0, 1)
  /\ UNCHANGED <<attempt, leases, work, judged, asks>>

(* Why Apply refuses an edit: it asked for no change, the stage may not     *)
(* write that test file, or its address or its result is not acceptable.    *)
RefusedReply(free, onTest) ==
  IF free THEN "unchanged" ELSE IF onTest THEN "poke" ELSE "refused"

(* Apply refuses the edit, and refunds one that asked for no change.  An    *)
(* edit of a test file that is refused counts against the specification.    *)
Refuse(free, onTest) ==
  /\ Answers(RefusedReply(free, onTest))
  /\ onTest => "poke" \in attempt.replies
  /\ NextTurn
  /\ LET refund == IF free THEN 1 ELSE 0
         poke   == IF onTest /\ Developing THEN 1 ELSE 0
         pokes  == UpTo(MaxTestEditRefusals, budget.pokes + poke)
     IN /\ budget' = [budget EXCEPT !.parseFails = 0, !.reads = 0, !.refunded = @ + refund,
                                    !.refusals = @ + 1, !.pokes = pokes]
        /\ Notes("none", seen.kept, poke, 1 - refund)
        /\ verdict' = IF poke = 1 THEN NoteTestEditRefusal(pokes) ELSE verdict
  /\ UNCHANGED <<attempt, leases, work, last, sighted, asks>>

(*------------------------------ verify -----------------------------------*)

(* The staged tree is written over what the container holds on top of the   *)
(* branch, committed and pushed.                                            *)
Push ==
  /\ pc = "push" /\ Runs
  /\ branch' = Over(staged, Over(InTheBox, branch)) /\ dirty' = Nothing
  /\ GoesTo("check")
  /\ UNCHANGED <<attempt, n, budget, staged, undo, judged, asks, seen>>

(* A push that fails is a verification that fails.  The files whose commit  *)
(* was refused stay behind; what was committed is dropped when the next     *)
(* command takes up the branch again.                                       *)
PushRejected(out) ==
  /\ pc = "push" /\ Runs /\ "rejected" \in attempt.outputs
  /\ \E left \in SUBSET Files :
       dirty' = [f \in Files |-> IF f \in left THEN Over(staged, InTheBox)[f] ELSE 0]
  /\ RecordVerification(out, FALSE)
  /\ NextTurn
  /\ UNCHANGED <<attempt, budget, staged, undo, branch, asks>>

(* The check runs on a clean checkout of the branch.  The developer's exits *)
(* with what the suite says; an author's exits zero on red and may on green. *)
(* A pass ends the attempt: the tree was just verified, and is not empty.   *)
Check(out, ok) ==
  /\ pc = "check" /\ Runs /\ out # "rejected"
  /\ Developing => (ok <=> out = "green")
  /\ dirty' = Nothing
  /\ RecordVerification(out, ok)
  /\ IF Passes(out, ok) THEN End("success", "checked") /\ UNCHANGED n ELSE NextTurn
  /\ UNCHANGED <<attempt, budget, staged, undo, branch, asks>>

Verify ==
  \/ Push
  \/ \E out \in attempt.outputs \ {"green"} : PushRejected(out)
  \/ \E out \in attempt.outputs, ok \in BOOLEAN : Check(out, ok)
  \/ pc \in {"push", "check"} /\ Fails

(* The deferred release, on every way out. *)
ReleaseBox ==
  /\ pc = "closing" /\ Release /\ GoesTo("over")
  /\ UNCHANGED <<attempt, n, budget, work, judged, asks, seen>>

ReapBox ==
  /\ pc \notin {"boot", "over"} /\ Reap
  /\ UNCHANGED <<attempt, pc, ended, n, budget, work, judged, asks, seen>>

Turn ==
  \/ ReadFiles \/ UndoEdit \/ Finish \/ Unparsable
  \/ \E f \in attempt.files, text \in Texts : Write(f, text)
  \/ \E free, onTest \in BOOLEAN : Refuse(free, onTest)

Step ==
  \/ Acquire \/ Survey \/ Preflight
  \/ ConsultReferee \/ EndOnBrokenSpec \/ GiveUp \/ ResetAgent \/ ChatFails
  \/ Turn \/ Verify \/ ReleaseBox

Next == Step \/ ReapBox

Spec == Init /\ [][Next]_vars

(* The attempt is one sequential program: it goes on while it can.          *)
FairSpec == Spec /\ WF_moving(Step)

-----------------------------------------------------------------------------
(*----------------------------- properties --------------------------------*)

Tree == [Files -> {0} \cup Texts]

(* Every variable has its type; there are never more undos than the stack   *)
(* may hold.                                                                *)
TypeOK ==
  /\ LeasesTypeOK
  /\ attempt \in Attempts
  /\ pc \in {"boot", "survey", "preflight", "top", "push", "check", "closing", "over"}
  /\ ended.outcome \in {"", "success", "failed", "returned", "blocked"}
  /\ n \in 1..(MaxTotalIterations + 1)
  /\ budget \in [refunded : Nat, reads : Nat, refusals : Nat, parseFails : Nat,
                 resets : 0..MaxAgentResets, lastReset : Nat, pokes : 0..MaxTestEditRefusals]
  /\ staged \in Tree /\ branch \in Tree /\ dirty \in Tree
  /\ undo \in Seq(Tree) /\ Len(undo) <= MaxUndoDepth
  /\ last \in Outputs \cup {""} /\ sighted \subseteq Outputs
  /\ verdict \in [broken : {"", "matcher", "streak", "refusals", "referee"},
                  tries : 0..MinSpecBrokenTries, expected : BOOLEAN]
  /\ asks \in 0..MaxRefereeAsks

(* What the writes that were accepted and not undone make of a file. *)
Written(f) ==
  LET mine == {i \in DOMAIN seen.kept : seen.kept[i].file = f}
  IN IF mine = {} THEN 0 ELSE seen.kept[Max(mine)].text

(* An attempt that succeeds has on its branch every file it wrote, as it    *)
(* wrote it last: through failed pushes, undos, memory resets and replaced  *)
(* containers.                                                              *)
NothingWrittenIsLost ==
  ended.outcome = "success" => \A f \in Files : Written(f) # 0 => branch[f] = Written(f)

(* A verdict has grounds: no mechanical route blames the specification for  *)
(* the symbols that the developer has yet to write, and a verdict by        *)
(* repetition rests on verifications in a row that failed in the test files *)
(* alone, since one that failed elsewhere starts it over.                   *)
VerdictHasGrounds ==
  /\ verdict.broken \in {"matcher", "streak", "refusals"} => last # "undefined"
  /\ verdict.broken = "streak" => seen.streak >= MinSpecBrokenTries

(* The refusal ceiling never takes an attempt that has earned a hand-back:  *)
(* with enough refused edits of test files since anything changed, it is    *)
(* reached only on the expected red.                                        *)
HandBackReachable ==
  ended.why = "refusals" /\ ended.outcome = "failed" /\ seen.poked >= MaxTestEditRefusals
    => verdict.expected

(* The budget counts work: an attempt that spent it took exactly that many  *)
(* turns which were neither reads nor edits that asked for no change, and   *)
(* none takes more.                                                         *)
BudgetCountsWork ==
  /\ seen.charged <= MaxTurns
  /\ ended.why = "budget" => seen.charged = MaxTurns

(* The referee is asked once for each time a failure comes back that no     *)
(* compiler attributes, however many turns go by in between.                *)
OneAskPerFailure == asks <= seen.soft

(* When the attempt is over every sandbox it booted was given back, except  *)
(* where the call that would have done so failed.                           *)
NoLeaseLeaks == pc = "over" => NothingHeld

(* The books of an attempt are right: what it is charged, what it asked,    *)
(* what it may still be handed back for, and the leases it holds.           *)
BooksBalance ==
  TypeOK /\ VerdictHasGrounds /\ HandBackReachable /\ BudgetCountsWork
  /\ OneAskPerFailure /\ NoLeaseLeaks

(* An attempt ends, whatever the model answers. *)
AttemptEnds == <>(pc = "over")

=============================================================================
