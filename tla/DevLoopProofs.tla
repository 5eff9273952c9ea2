--------------------------- MODULE DevLoopProofs ---------------------------
(***************************************************************************)
(* Proofs about an attempt of the stage that writes code, for any bounds,  *)
(* any number of files and texts, and any attempts.                        *)
(*                                                                         *)
(* The invariant has a part for each thing that is kept: the leases, how   *)
(* the attempt ended, the turns, the work, the verdict and the asks.       *)
(***************************************************************************)
EXTENDS DevLoop, FiniteSetTheorems, SequenceTheorems, TLAPS

-----------------------------------------------------------------------------
(* The invariant.                                                          *)

Steps == {"boot", "survey", "preflight", "top", "push", "check", "closing", "over"}
Reasons == {"", "error", "checked", "ceiling", "budget", "reads", "refusals", "unparseable",
            "matcher", "streak", "referee"}

\* A container runs because the client holds its lease or because nobody can.
LeaseInv ==
  /\ LeasesTypeOK
  /\ leaseID \notin adrift /\ live \subseteq adrift \cup {leaseID}
  /\ pc = "boot" => leaseID = NoLease /\ live = {}
  /\ pc = "over" => NothingHeld

EndInv ==
  /\ attempt \in Attempts /\ pc \in Steps
  /\ ended \in [outcome : {"", "success", "failed", "returned", "blocked"}, why : Reasons]
  /\ pc \notin {"closing", "over"} => ended.outcome = "" /\ ended.why = ""

Budgets == [refunded : Nat, reads : Nat, refusals : Nat, parseFails : Nat,
            resets : 0..MaxAgentResets, lastReset : Nat, pokes : 0..MaxTestEditRefusals]
Edits == [file : Files, text : Texts]
Histories == [kept : Seq(Edits), poked : Nat, idle : Nat, charged : Nat, soft : Nat,
              streak : Nat]

\* The turn is one more than what was paid or refunded; while an edit is
\* verified its turn is paid and not over.
TurnInv ==
  /\ n \in 1..(MaxTotalIterations + 1)
  /\ budget \in Budgets /\ seen \in Histories
  /\ seen.charged <= MaxTurns
  /\ pc \in {"boot", "survey", "preflight", "top"} => n = 1 + seen.charged + budget.refunded
  /\ pc \in {"push", "check"} =>
       n = seen.charged + budget.refunded /\ n <= MaxTotalIterations
  /\ ended.why = "budget" => seen.charged = MaxTurns

\* The tree t is what the first m of the edits make of nothing.
MadeBy(kept, m, t) ==
  \A f \in Files :
    \/ t[f] = 0 /\ \A i \in 1..m : kept[i].file # f
    \/ \E i \in 1..m : /\ kept[i].file = f /\ t[f] = kept[i].text
                       /\ \A j \in i + 1..m : kept[j].file # f

\* What is staged is what the edits made, and an undo goes back by one of them.
WorkInv ==
  /\ staged \in Tree /\ branch \in Tree /\ dirty \in Tree
  /\ undo \in Seq(Tree) /\ Len(undo) <= MaxUndoDepth /\ Len(undo) <= Len(seen.kept)
  /\ MadeBy(seen.kept, Len(seen.kept), staged)
  /\ \A i \in 1..Len(undo) : MadeBy(seen.kept, Len(seen.kept) - Len(undo) + i - 1, undo[i])
  /\ pc = "check" \/ ended.outcome = "success" =>
       \A f \in Files : staged[f] # 0 => branch[f] = staged[f]

Verdicts == [broken : {"", "matcher", "streak", "refusals", "referee"},
             tries : 0..MinSpecBrokenTries, expected : BOOLEAN]

\* What a verdict v rests on: the last output, and a streak of them.
Grounded(output, v, streak) ==
  /\ output \in Outputs \cup {""} /\ v \in Verdicts
  /\ ~Developing => v = NoVerdict
  /\ v.broken \in {"matcher", "streak", "refusals"} => output # "undefined"
  /\ v.broken = "streak" => streak >= MinSpecBrokenTries
  /\ Developing /\ output = "undefined" => v.expected
  /\ v.broken = "" => v.tries <= streak

PokesFit(poked, pokes, v) ==
  /\ poked <= pokes \/ pokes = MaxTestEditRefusals
  /\ v.broken = "" /\ poked >= MaxTestEditRefusals => v.expected

\* An edit that is verified follows no refusal and no verdict; refusals that
\* are enough to convict have convicted, or met the red that is expected.
VerdictInv ==
  /\ Grounded(last, verdict, seen.streak)
  /\ pc \in {"push", "check"} => verdict.broken = "" /\ seen.poked = 0
  /\ PokesFit(seen.poked, budget.pokes, verdict)
  /\ HandBackReachable

\* Every failure that was seen and not asked about is another ask to come.
AskInv ==
  /\ asks \in 0..MaxRefereeAsks /\ sighted \subseteq Outputs
  /\ asks + Cardinality({o \in sighted : ~HasCompileErrors(o)}) <= seen.soft

AttemptInv ==
  LeaseInv /\ EndInv /\ TurnInv /\ WorkInv /\ VerdictInv /\ AskInv

-----------------------------------------------------------------------------
(* The leases.                                                             *)

\* What the client holds, apart from where the attempt is.
Held ==
  LeasesTypeOK /\ leaseID \notin adrift /\ live \subseteq adrift \cup {leaseID}

LEMMA BootsHeld ==
  ASSUME Held, Boots, faults' = faults, leaseID \notin live
  PROVE  Held'
BY DEF Held, LeasesTypeOK, Boots

LEMMA BootFailsHeld ==
  ASSUME Held, BootFails, faults' \in Nat, leaseID \notin live
  PROVE  Held'
<1>1. leaseID' = NoLease /\ live \subseteq adrift /\ 0 \notin live
  BY DEF Held, LeasesTypeOK, BootFails
<1>2. CASE UNCHANGED <<live, adrift, born>>
  BY <1>1, <1>2 DEF Held, LeasesTypeOK, NoLease
<1>3. CASE born' = born + 1 /\ live' = live \cup {born'} /\ adrift' = adrift \cup {born'}
  BY <1>1, <1>3 DEF Held, LeasesTypeOK, NoLease
<1> QED BY <1>2, <1>3 DEF BootFails

LEMMA RunsHeld ==
  ASSUME Held, Runs
  PROVE  Held'
<1>1. CASE Replaced
  BY <1>1, BootsHeld DEF Runs, Replaced
<1>2. CASE ~Replaced
  BY <1>2 DEF Runs, Held, LeasesTypeOK
<1> QED BY <1>1, <1>2

LEMMA FaultCounts ==
  ASSUME Held, Fault
  PROVE  faults' \in Nat
BY DEF Held, LeasesTypeOK, Fault

LEMMA ErrsHeld ==
  ASSUME Held, Errs
  PROVE  Held'
<1>1. CASE leaseID = NoLease /\ UNCHANGED leases
  BY <1>1 DEF Held, LeasesTypeOK, leases
<1>2. CASE Fault /\ UNCHANGED <<leaseID, live, adrift, born>>
  BY <1>2, FaultCounts DEF Held, LeasesTypeOK
<1>3. CASE Replaced /\ Fault /\ BootFails
  BY <1>3, FaultCounts, BootFailsHeld DEF Replaced
<1>4. CASE /\ Replaced /\ Fault
           /\ born' = born + 1 /\ leaseID' = born' /\ UNCHANGED <<live, adrift>>
  BY <1>4, FaultCounts DEF Held, LeasesTypeOK, Replaced
<1> QED BY <1>1, <1>2, <1>3, <1>4 DEF Errs

LEMMA ReapHeld ==
  ASSUME Held, Reap
  PROVE  Held'
BY FaultCounts DEF Held, LeasesTypeOK, Reap

LEMMA ReleaseHeld ==
  ASSUME Held, Release
  PROVE  Held' /\ NothingHeld'
<1>1. leaseID' = NoLease /\ 0 \notin live /\ adrift \subseteq live
  BY DEF Release, Held, LeasesTypeOK
<1>2. CASE live' = live \ {leaseID} /\ UNCHANGED <<adrift, faults>>
  BY <1>1, <1>2 DEF Release, Held, LeasesTypeOK, NoLease, NothingHeld
<1>3. CASE leaseID \in live /\ Fault /\ adrift' = adrift \cup {leaseID} /\ UNCHANGED live
  BY <1>1, <1>3, FaultCounts DEF Release, Held, LeasesTypeOK, NoLease, NothingHeld
<1> QED BY <1>2, <1>3 DEF Release

-----------------------------------------------------------------------------
(* What the steps of an attempt may do, for the parts of the invariant.    *)

\* Whatever the step, either it leaves the leases alone or it is a call.
LEMMA LeasesMove ==
  ASSUME Next
  PROVE  \/ UNCHANGED leases /\ (pc' = pc \/ pc' \notin {"boot", "over"})
         \/ Runs /\ pc' \notin {"boot", "over"}
         \/ Errs /\ pc' \notin {"boot", "over"}
         \/ pc = "boot" /\ Boots /\ UNCHANGED faults /\ pc' = "survey"
         \/ pc = "boot" /\ Fault /\ BootFails /\ pc' = "closing"
         \/ Fault /\ UNCHANGED <<leaseID, live, adrift, born>> /\ pc' = "closing"
         \/ Release /\ pc' = "over"
         \/ Reap /\ pc' = pc /\ pc \notin {"boot", "over"}
<1>1. CASE Acquire
  BY <1>1 DEF Acquire, End, GoesTo
<1>2. CASE Survey \/ Preflight
  BY <1>2 DEF Survey, Preflight, Fails, End, GoesTo
<1>3. CASE ConsultReferee \/ EndOnBrokenSpec \/ GiveUp \/ ResetAgent
  BY <1>3 DEF ConsultReferee, EndOnBrokenSpec, GiveUp, ResetAgent, End
<1>4. CASE ChatFails
  BY <1>4 DEF ChatFails, End
<1>5. CASE ReadFiles
  BY <1>5 DEF ReadFiles, NextTurn, GoesTo
<1>6. CASE UndoEdit \/ Finish
  BY <1>6 DEF UndoEdit, Finish, NextTurn, GoesTo
<1>7. CASE Unparsable
  BY <1>7 DEF Unparsable, ParseFailure, GoesTo, End
<1>8. CASE \E f \in attempt.files, text \in Texts : Write(f, text)
  BY <1>8 DEF Write, NextTurn, GoesTo
<1>9. CASE \E free, onTest \in BOOLEAN : Refuse(free, onTest)
  BY <1>9 DEF Refuse, NextTurn, GoesTo
<1>10. CASE Verify
  BY <1>10 DEF Verify, Push, PushRejected, Check, Fails, NextTurn, GoesTo, End
<1>11. CASE ReleaseBox \/ ReapBox
  BY <1>11 DEF ReleaseBox, ReapBox, GoesTo
<1> QED BY <1>1, <1>2, <1>3, <1>4, <1>5, <1>6, <1>7, <1>8, <1>9, <1>10, <1>11
        DEF Next, Step, Turn

LEMMA LeasesKept ==
  ASSUME LeaseInv, Next
  PROVE  LeaseInv'
<1>1. Held /\ (pc = "boot" => leaseID = NoLease /\ live = {}) /\ (pc = "over" => NothingHeld)
  BY DEF LeaseInv, Held
<1>2. Held' /\ pc' # "boot" /\ pc' # "over" => LeaseInv'
  BY DEF LeaseInv, Held
<1>3. CASE UNCHANGED leases /\ (pc' = pc \/ pc' \notin {"boot", "over"})
  BY <1>3 DEF LeaseInv, LeasesTypeOK, NothingHeld, leases
<1>4. CASE (Runs \/ Errs) /\ pc' \notin {"boot", "over"}
  BY <1>1, <1>2, <1>4, RunsHeld, ErrsHeld
<1>5. CASE pc = "boot" /\ Boots /\ UNCHANGED faults /\ pc' = "survey"
  BY <1>1, <1>2, <1>5, BootsHeld
<1>6. CASE pc = "boot" /\ Fault /\ BootFails /\ pc' = "closing"
  BY <1>1, <1>2, <1>6, BootFailsHeld, FaultCounts
<1>7. CASE Fault /\ UNCHANGED <<leaseID, live, adrift, born>> /\ pc' = "closing"
  <2>1. Held'
    BY <1>1, <1>7, FaultCounts DEF Held, LeasesTypeOK
  <2> QED BY <1>2, <1>7, <2>1
<1>8. CASE Release /\ pc' = "over"
  BY <1>1, <1>8, ReleaseHeld DEF LeaseInv, Held
<1>9. CASE Reap /\ pc' = pc /\ pc \notin {"boot", "over"}
  BY <1>1, <1>2, <1>9, ReapHeld
<1> QED BY LeasesMove, <1>3, <1>4, <1>5, <1>6, <1>7, <1>8, <1>9

-----------------------------------------------------------------------------
(* How the attempt goes on, and how it ends.                               *)

LEMMA NotExhausted ==
  ASSUME TurnInv
  PROVE  /\ Exhausted \in Reasons
         /\ Exhausted = "" => n <= MaxTotalIterations /\ n <= MaxTurns + budget.refunded
         /\ Exhausted = "budget" => n > MaxTurns + budget.refunded
<1>1. n \in Nat /\ MaxTotalIterations \in Nat /\ MaxTurns \in Nat /\ budget.refunded \in Nat
  BY BoundsAssumption DEF TurnInv, Budgets
<1>2. CASE n > MaxTotalIterations
  BY <1>1, <1>2 DEF Exhausted, Reasons
<1>3. CASE n <= MaxTotalIterations /\ BudgetSpent
  BY <1>1, <1>3 DEF Exhausted, Reasons, BudgetSpent
<1>4. CASE n <= MaxTotalIterations /\ ~BudgetSpent
  <2>1. n <= MaxTurns + budget.refunded
    BY <1>1, <1>4 DEF BudgetSpent
  <2>2. CASE budget.reads >= MaxConsecutiveReads
    BY <1>1, <1>4, <2>1, <2>2 DEF Exhausted, Reasons
  <2>3. CASE ~(budget.reads >= MaxConsecutiveReads)
    <3>1. ~(n > MaxTotalIterations)
      BY <1>1, <1>4
    <3>2. Exhausted = IF budget.refusals >= MaxDeadRefusals THEN "refusals" ELSE ""
      BY <1>4, <2>3, <3>1, Zenon DEF Exhausted
    <3> QED BY <1>4, <2>1, <3>2 DEF Reasons
  <2> QED BY <2>2, <2>3
<1>5. n > MaxTotalIterations \/ n <= MaxTotalIterations
  BY <1>1
<1> QED BY <1>2, <1>3, <1>4, <1>5, Zenon

LEMMA CountsAre ==
  ASSUME budget \in Budgets, NEW progress \in {"none", "same", "some"}, NEW reads \in Nat,
         NEW refund \in Nat, Counts(progress, reads, refund)
  PROVE  /\ budget' \in Budgets
         /\ budget'.refunded = budget.refunded + refund /\ budget'.pokes = budget.pokes
<1> DEFINE refusals == CASE progress = "none" -> budget.refusals + 1
                         [] progress = "some" -> 0 [] OTHER -> budget.refusals
<1>1. refusals \in Nat
  <2>1. CASE progress = "none"
    BY <2>1 DEF Budgets
  <2>2. CASE progress = "some"
    BY <2>2
  <2>3. CASE progress = "same"
    BY <2>3 DEF Budgets
  <2> QED BY <2>1, <2>2, <2>3
<1>2. budget' = [budget EXCEPT !.parseFails = 0, !.reads = reads, !.refunded = @ + refund,
                               !.refusals = refusals]
  BY DEF Counts
<1> HIDE DEF refusals
<1>3. budget' \in Budgets
  <2>1. budget.refunded + refund \in Nat /\ 0 \in Nat
    BY DEF Budgets
  <2> QED BY <1>1, <1>2, <2>1, Zenon DEF Budgets
<1> QED BY <1>2, <1>3 DEF Budgets

LEMMA NotesAre ==
  ASSUME seen \in Histories, NEW progress \in {"none", "same", "some"}, NEW kept \in Seq(Edits),
         NEW poked \in Nat, NEW charge \in Nat, Notes(progress, kept, poked, charge)
  PROVE  /\ seen' \in Histories /\ seen'.kept = kept /\ seen'.charged = seen.charged + charge
         /\ seen'.poked = IF progress = "some" THEN 0 ELSE seen.poked + poked
         /\ seen'.soft = seen.soft /\ seen'.streak = seen.streak
<1> DEFINE idle == CASE progress = "none" -> seen.idle + 1 [] progress = "some" -> 0
                     [] OTHER -> seen.idle
           pokes == IF progress = "some" THEN 0 ELSE seen.poked + poked
<1>1. idle \in Nat
  <2>1. CASE progress = "none"
    BY <2>1 DEF Histories
  <2>2. CASE progress = "some"
    BY <2>2
  <2>3. CASE progress = "same"
    BY <2>3 DEF Histories
  <2> QED BY <2>1, <2>2, <2>3
<1>2. pokes \in Nat
  BY DEF Histories
<1>3. seen' = [seen EXCEPT !.kept = kept, !.charged = @ + charge, !.idle = idle, !.poked = pokes]
  BY DEF Notes
<1> HIDE DEF idle
<1>4. seen' \in Histories
  <2>1. seen.charged + charge \in Nat
    BY DEF Histories
  <2> QED BY <1>1, <1>2, <1>3, <2>1, Zenon DEF Histories
<1> QED BY <1>3, <1>4 DEF Histories

LEMMA EndsKept ==
  ASSUME EndInv, TurnInv, verdict \in Verdicts, Next
  PROVE  EndInv'
<1>1. ASSUME NEW outcome \in {"success", "failed", "returned", "blocked"}, NEW why \in Reasons,
             attempt' = attempt, End(outcome, why)
      PROVE  EndInv'
  BY <1>1 DEF EndInv, End, Steps
<1>2. ASSUME UNCHANGED <<attempt, pc, ended>>
      PROVE  EndInv'
  BY <1>2 DEF EndInv
<1>3. ASSUME NEW s \in Steps \ {"over"}, pc \notin {"closing", "over"}, attempt' = attempt, GoesTo(s)
      PROVE  EndInv'
  BY <1>3 DEF EndInv, GoesTo
<1>4. CASE Acquire \/ Survey \/ Preflight
  BY <1>1, <1>3, <1>4 DEF Acquire, Survey, Preflight, Fails, Steps, Reasons
<1>5. CASE ConsultReferee \/ ResetAgent \/ ReapBox
  BY <1>2, <1>5 DEF ConsultReferee, ResetAgent, ReapBox
<1>6. CASE EndOnBrokenSpec
  <2>1. verdict.broken \in Reasons
    BY DEF Verdicts, Reasons
  <2> QED BY <1>1, <1>6, <2>1 DEF EndOnBrokenSpec
<1>7. CASE GiveUp
  BY <1>1, <1>7, NotExhausted DEF GiveUp
<1>8. CASE ChatFails
  BY <1>1, <1>8 DEF ChatFails, Reasons
<1>9. CASE ReadFiles \/ UndoEdit \/ Finish
  BY <1>3, <1>9 DEF ReadFiles, UndoEdit, Finish, NextTurn, Answers, Settled, Steps
<1>10. CASE Unparsable
  BY <1>1, <1>3, <1>10 DEF Unparsable, ParseFailure, Answers, Settled, Steps, Reasons
<1>11. CASE \E f \in attempt.files, text \in Texts : Write(f, text)
  BY <1>3, <1>11 DEF Write, NextTurn, Answers, Settled, Steps
<1>12. CASE \E free, onTest \in BOOLEAN : Refuse(free, onTest)
  BY <1>3, <1>12 DEF Refuse, NextTurn, Answers, Settled, Steps
<1>13. CASE Verify
  BY <1>1, <1>3, <1>13 DEF Verify, Push, PushRejected, Check, Fails, NextTurn, Steps, Reasons
<1>14. CASE ReleaseBox
  BY <1>14 DEF ReleaseBox, GoesTo, EndInv, Steps
<1> QED BY <1>4, <1>5, <1>6, <1>7, <1>8, <1>9, <1>10, <1>11, <1>12, <1>13, <1>14
        DEF Next, Step, Turn

\* A turn is paid or refunded.
Settles == \/ seen'.charged = seen.charged /\ budget'.refunded = budget.refunded + 1
           \/ seen'.charged = seen.charged + 1 /\ budget'.refunded = budget.refunded

LEMMA AtTop ==
  ASSUME TurnInv, EndInv, Settled
  PROVE  /\ n \in Nat /\ n = 1 + seen.charged + budget.refunded
         /\ seen.charged \in Nat /\ budget.refunded \in Nat /\ seen.charged <= MaxTurns
         /\ MaxTotalIterations \in Nat /\ MaxTurns \in Nat /\ ended.why # "budget"
<1>1. MaxTotalIterations \in Nat /\ MaxTurns \in Nat
  BY BoundsAssumption
<1>2. n \in 1..(MaxTotalIterations + 1) /\ pc = "top" /\ seen.charged <= MaxTurns
  BY DEF TurnInv, Settled
<1>3. n = 1 + seen.charged + budget.refunded
  BY <1>2 DEF TurnInv
<1>4. budget.refunded \in Nat /\ seen.charged \in Nat
  BY DEF TurnInv, Budgets, Histories
<1>5. ended.why # "budget"
  BY <1>2 DEF EndInv
<1> QED BY <1>1, <1>2, <1>3, <1>4, <1>5

GoesOn == Exhausted = ""
Advances == NextTurn \/ (GoesTo("push") /\ UNCHANGED n)

\* One that is was there to be taken.
LEMMA TurnTaken ==
  ASSUME TurnInv, EndInv, Settled, GoesOn, budget' \in Budgets, seen' \in Histories, Settles,
         Advances
  PROVE  TurnInv'
<1>1. /\ n \in Nat /\ n = 1 + seen.charged + budget.refunded
      /\ seen.charged \in Nat /\ budget.refunded \in Nat /\ seen.charged <= MaxTurns
      /\ MaxTotalIterations \in Nat /\ MaxTurns \in Nat /\ ended.why # "budget"
      /\ n <= MaxTotalIterations /\ n <= MaxTurns + budget.refunded
  BY AtTop, NotExhausted DEF GoesOn
<1> DEFINE c == seen.charged
           r == budget.refunded
           cc == seen'.charged
           rr == budget'.refunded
<1>2. /\ cc <= MaxTurns
      /\ cc + rr = n
  <2>1. (cc = c /\ rr = r + 1) \/ (cc = c + 1 /\ rr = r)
    BY DEF Settles
  <2>2. /\ n \in Nat /\ n = 1 + c + r /\ c \in Nat /\ r \in Nat /\ c <= MaxTurns
        /\ MaxTurns \in Nat /\ n <= MaxTurns + r
    BY <1>1
  <2> HIDE DEF c, r, cc, rr
  <2> QED BY <2>1, <2>2
<1>3. cc \in Nat /\ rr \in Nat
  BY DEF Budgets, Histories
<1>4. CASE NextTurn
  <2>1. n' = n + 1 /\ pc' = "top" /\ ended' = ended
    BY <1>4 DEF NextTurn, GoesTo
  <2>2. n' \in 1..(MaxTotalIterations + 1) /\ n' = 1 + seen'.charged + budget'.refunded
    BY <1>1, <1>2, <1>3, <2>1
  <2> QED BY <1>1, <1>2, <2>1, <2>2 DEF TurnInv
<1>5. CASE GoesTo("push") /\ UNCHANGED n
  <2>1. n' = n /\ pc' = "push" /\ ended' = ended
    BY <1>5 DEF GoesTo
  <2>2. n' \in 1..(MaxTotalIterations + 1) /\ n' = seen'.charged + budget'.refunded
    BY <1>1, <1>2, <1>3, <2>1
  <2> QED BY <1>1, <1>2, <2>1, <2>2 DEF TurnInv
<1> QED BY <1>4, <1>5 DEF Advances

\* What a verification notes is not about the turns.
LEMMA RecordedHistory ==
  ASSUME seen \in Histories, NEW out, NEW ok, RecordVerification(out, ok)
  PROVE  /\ seen' \in Histories
         /\ seen'.kept = seen.kept /\ seen'.poked = seen.poked /\ seen'.charged = seen.charged
<1> DEFINE soft == seen.soft + (IF HasCompileErrors(out) THEN 0 ELSE 1)
           streak == IF InTestsOnly(out) THEN UpTo(MinSpecBrokenTries, seen.streak + 1) ELSE 0
<1>1. soft \in Nat /\ streak \in Nat
  <2>1. seen.soft \in Nat /\ seen.streak \in Nat /\ MinSpecBrokenTries \in Nat
    BY BoundsAssumption DEF Histories
  <2>2. UpTo(MinSpecBrokenTries, seen.streak + 1) \in Nat
    BY <2>1 DEF UpTo
  <2> QED BY <2>1, <2>2
<1>2. UNCHANGED seen \/ seen' = [seen EXCEPT !.soft = soft, !.streak = streak]
  BY DEF RecordVerification
<1> HIDE DEF soft, streak
<1>3. seen' \in Histories
  BY <1>1, <1>2, Zenon DEF Histories
<1> QED BY <1>2, <1>3 DEF Histories

\* No verification changes what was charged.
LEMMA Verified ==
  ASSUME TurnInv, EndInv, pc \in {"push", "check"}, budget' = budget, seen' \in Histories,
         seen'.charged = seen.charged, NextTurn
  PROVE  TurnInv'
<1>1. /\ n \in 1..(MaxTotalIterations + 1) /\ n = seen.charged + budget.refunded
      /\ n <= MaxTotalIterations /\ seen.charged <= MaxTurns /\ budget \in Budgets
      /\ budget.refunded \in Nat /\ seen.charged \in Nat
  BY DEF TurnInv, Budgets, Histories
<1>2. ended.why # "budget"
  BY DEF EndInv
<1>3. n' = n + 1 /\ pc' = "top" /\ ended' = ended
  BY DEF NextTurn, GoesTo
<1>4. MaxTotalIterations \in Nat
  BY BoundsAssumption
<1>5. n' \in 1..(MaxTotalIterations + 1) /\ n' = 1 + seen.charged + budget.refunded
  BY <1>1, <1>3, <1>4
<1> QED BY <1>1, <1>2, <1>3, <1>5 DEF TurnInv

LEMMA Closed ==
  ASSUME TurnInv, UNCHANGED <<n, budget, seen>>, NEW outcome, NEW why, End(outcome, why),
         why = "budget" => seen.charged = MaxTurns
  PROVE  TurnInv'
BY DEF TurnInv, End

LEMMA TurnsKept ==
  ASSUME TurnInv, EndInv, WorkInv, verdict \in Verdicts, Next
  PROVE  TurnInv'
<1>1. /\ budget \in Budgets /\ seen \in Histories /\ seen.kept \in Seq(Edits)
      /\ budget.reads \in Nat /\ budget.reads + 1 \in Nat
  BY DEF TurnInv, Budgets, Histories
<1>2. ASSUME NEW reply, Answers(reply)
      PROVE  Settled /\ GoesOn
  BY <1>2 DEF Answers, GoesOn
<1>3. CASE Acquire \/ Survey \/ Preflight
  <2>1. ASSUME NEW s \in {"boot", "survey", "preflight"}, pc = s,
               NEW t \in {"survey", "preflight", "top"}, pc' = t, UNCHANGED <<ended, n, budget, seen>>
        PROVE  TurnInv'
    BY <2>1 DEF TurnInv
  <2>2. CASE Acquire
    BY <2>1, <2>2, Closed DEF Acquire, GoesTo
  <2>3. CASE Survey
    BY <2>1, <2>3, Closed DEF Survey, Fails, GoesTo
  <2>4. CASE Preflight
    BY <2>1, <2>4 DEF Preflight, GoesTo
  <2> QED BY <1>3, <2>2, <2>3, <2>4
<1>4. CASE ConsultReferee \/ ReapBox \/ ReleaseBox
  BY <1>4 DEF ConsultReferee, ReapBox, ReleaseBox, GoesTo, TurnInv
<1>5. CASE EndOnBrokenSpec
  <2>1. verdict.broken # "budget"
    BY DEF Verdicts
  <2> QED BY <1>5, <2>1, Closed DEF EndOnBrokenSpec
<1>6. CASE GiveUp
  <2>1. Exhausted = "budget" => seen.charged = MaxTurns
    <3>1. /\ n \in Nat /\ n = 1 + seen.charged + budget.refunded
          /\ seen.charged \in Nat /\ budget.refunded \in Nat /\ seen.charged <= MaxTurns
          /\ MaxTurns \in Nat
      BY <1>6, AtTop DEF GiveUp
    <3>2. Exhausted = "budget" => n > MaxTurns + budget.refunded
      BY NotExhausted
    <3> DEFINE c == seen.charged
               r == budget.refunded
    <3>3. ASSUME n > MaxTurns + r
          PROVE  c = MaxTurns
      <4>1. n \in Nat /\ n = 1 + c + r /\ c \in Nat /\ r \in Nat /\ c <= MaxTurns /\ MaxTurns \in Nat
        BY <3>1
      <4> HIDE DEF c, r
      <4> QED BY <3>3, <4>1
    <3> QED BY <3>2, <3>3
  <2> QED BY <1>6, <2>1, Closed DEF GiveUp
<1>7. CASE ResetAgent
  <2>1. n \in Nat /\ budget.resets + 1 \in 0..MaxAgentResets
    <3>1. n \in Nat
      BY <1>7, AtTop DEF ResetAgent
    <3>2. budget.resets < MaxAgentResets /\ budget.resets \in 0..MaxAgentResets
      BY <1>1, <1>7 DEF ResetAgent, DueForReset, Budgets
    <3> QED BY <3>1, <3>2, BoundsAssumption
  <2>2. budget' = [budget EXCEPT !.resets = @ + 1, !.lastReset = n, !.refusals = 0]
    BY <1>7 DEF ResetAgent
  <2>3. budget' \in Budgets
    <3>1. 0 \in Nat
      OBVIOUS
    <3> QED BY <1>1, <2>1, <2>2, <3>1, Zenon DEF Budgets
  <2>4. budget'.refunded = budget.refunded
    BY <1>1, <2>2 DEF Budgets
  <2> QED BY <1>7, <2>3, <2>4 DEF ResetAgent, TurnInv
<1>8. CASE ChatFails
  BY <1>8, Closed DEF ChatFails
<1>9. CASE ReadFiles
  <2>1. PICK progress \in {"none", "same"} : Read(progress)
    BY <1>9 DEF ReadFiles
  <2>2. budget' \in Budgets /\ budget'.refunded = budget.refunded + 1
    BY <1>1, <2>1, CountsAre DEF Read
  <2>3. seen' \in Histories /\ seen'.charged = seen.charged + 0
    BY <1>1, <2>1, NotesAre DEF Read
  <2>4. seen'.charged = seen.charged
    BY <1>1, <2>3 DEF Histories
  <2> QED BY <1>2, <1>9, <2>2, <2>3, <2>4, TurnTaken DEF ReadFiles, Settles, Advances
<1>10. CASE UndoEdit
  <2>1. PICK progress \in {"none", "some"}, kept \in {seen.kept, Front(seen.kept)} :
          /\ Counts(progress, 0, 0) /\ Notes(progress, kept, 0, 1)
          /\ kept = seen.kept \/ undo # <<>>
    BY <1>10 DEF UndoEdit
  <2>2. kept \in Seq(Edits)
    <3>1. undo # <<>> => seen.kept # <<>>
      BY DEF WorkInv
    <3> QED BY <1>1, <2>1, <3>1, SMTT(30) DEF Front
  <2>3. budget' \in Budgets /\ budget'.refunded = budget.refunded + 0
    BY <1>1, <2>1, CountsAre
  <2>4. seen' \in Histories /\ seen'.charged = seen.charged + 1
    BY <1>1, <2>1, <2>2, NotesAre
  <2>5. budget'.refunded = budget.refunded
    BY <1>1, <2>3 DEF Budgets
  <2> QED BY <1>2, <1>10, <2>3, <2>4, <2>5, TurnTaken DEF UndoEdit, Settles, Advances
<1>11. CASE Finish
  <2>1. budget' \in Budgets /\ budget'.refunded = budget.refunded + 0
    BY <1>1, <1>11, CountsAre DEF Finish
  <2>2. seen' \in Histories /\ seen'.charged = seen.charged + 1
    BY <1>1, <1>11, NotesAre DEF Finish
  <2>3. budget'.refunded = budget.refunded
    BY <1>1, <2>1 DEF Budgets
  <2> QED BY <1>2, <1>11, <2>1, <2>2, <2>3, TurnTaken DEF Finish, Settles, Advances
<1>12. CASE Unparsable
  <2>1. budget' \in Budgets /\ budget'.refunded = budget.refunded
    <3>1. budget' = [budget EXCEPT !.parseFails = @ + 1] /\ budget.parseFails + 1 \in Nat
      BY <1>1, <1>12 DEF Unparsable, ParseFailure, Budgets
    <3>2. budget' \in Budgets
      BY <1>1, <3>1, Zenon DEF Budgets
    <3> QED BY <1>1, <3>1, <3>2 DEF Budgets
  <2>2. seen' \in Histories /\ seen'.charged = seen.charged + 1
    <3>1. seen' = [seen EXCEPT !.charged = @ + 1] /\ seen.charged + 1 \in Nat
      BY <1>1, <1>12 DEF Unparsable, ParseFailure, Histories
    <3>2. seen' \in Histories
      BY <1>1, <3>1, Zenon DEF Histories
    <3> QED BY <1>1, <3>1, <3>2 DEF Histories
  <2>3. Settled /\ GoesOn
    BY <1>2, <1>12 DEF Unparsable
  <2>4. CASE NextTurn
    BY <2>1, <2>2, <2>3, <2>4, TurnTaken DEF Settles, Advances
  <2>5. CASE End("failed", "unparseable") /\ UNCHANGED n
    <3>1. TurnInv /\ n <= MaxTurns + budget.refunded /\ n \in Nat /\ n = 1 + seen.charged + budget.refunded
          /\ seen.charged \in Nat /\ budget.refunded \in Nat /\ MaxTurns \in Nat
      BY <2>3, AtTop, NotExhausted DEF GoesOn
    <3> DEFINE c == seen.charged
               r == budget.refunded
    <3>2. c + 1 <= MaxTurns
      <4>1. n <= MaxTurns + r /\ n \in Nat /\ n = 1 + c + r /\ c \in Nat /\ r \in Nat
            /\ MaxTurns \in Nat
        BY <3>1
      <4> HIDE DEF c, r
      <4> QED BY <4>1
    <3> QED BY <2>1, <2>2, <2>5, <3>2 DEF TurnInv, End
  <2> QED BY <1>12, <2>4, <2>5 DEF Unparsable, ParseFailure, NextTurn
<1>13. ASSUME NEW f \in attempt.files, NEW text \in Texts, Write(f, text)
       PROVE  TurnInv'
  <2> DEFINE kept == Append(seen.kept, [file |-> f, text |-> text])
  <2>1. kept \in Seq(Edits)
    <3>1. f \in Files
      BY AttemptAssumption DEF EndInv
    <3> QED BY <1>1, <3>1 DEF Edits
  <2>2. PICK progress \in {"none", "some"} :
          Counts(progress, 0, 0) /\ Notes(progress, kept, 0, 1)
    BY <1>13 DEF Write
  <2> HIDE DEF kept
  <2>3. budget' \in Budgets /\ budget'.refunded = budget.refunded + 0
    BY <1>1, <2>2, CountsAre
  <2>4. seen' \in Histories /\ seen'.charged = seen.charged + 1
    BY <1>1, <2>1, <2>2, NotesAre
  <2>5. budget'.refunded = budget.refunded
    BY <1>1, <2>3 DEF Budgets
  <2>6. Advances /\ Settled /\ GoesOn
    BY <1>2, <1>13 DEF Write, Advances
  <2> QED BY <2>3, <2>4, <2>5, <2>6, TurnTaken DEF Settles
<1>14. ASSUME NEW free \in BOOLEAN, NEW onTest \in BOOLEAN, Refuse(free, onTest)
       PROVE  TurnInv'
  <2> DEFINE refund == IF free THEN 1 ELSE 0
             poke   == IF onTest /\ Developing THEN 1 ELSE 0
             pokes  == UpTo(MaxTestEditRefusals, budget.pokes + poke)
  <2>1. pokes \in 0..MaxTestEditRefusals
    <3>1. budget.pokes \in 0..MaxTestEditRefusals
      BY <1>1 DEF Budgets
    <3>2. MaxTestEditRefusals \in Nat
      BY BoundsAssumption
    <3>3. poke \in {0, 1}
      OBVIOUS
    <3> HIDE DEF poke
    <3> QED BY <3>1, <3>2, <3>3 DEF UpTo
  <2>2. refund \in {0, 1} /\ poke \in {0, 1}
    OBVIOUS
  <2>3. /\ budget' = [budget EXCEPT !.parseFails = 0, !.reads = 0, !.refunded = @ + refund,
                                    !.refusals = @ + 1, !.pokes = pokes]
        /\ Notes("none", seen.kept, poke, 1 - refund)
        /\ NextTurn
    BY <1>14 DEF Refuse
  <2> HIDE DEF refund, poke, pokes
  <2>4. budget' \in Budgets
    <3>1. budget.refunded + refund \in Nat /\ budget.refusals + 1 \in Nat /\ 0 \in Nat
      BY <1>1, <2>2 DEF Budgets
    <3> QED BY <1>1, <2>1, <2>3, <3>1, Zenon DEF Budgets
  <2>5. budget'.refunded = budget.refunded + refund
    BY <1>1, <2>3 DEF Budgets
  <2>6. seen' \in Histories /\ seen'.charged = seen.charged + (1 - refund)
    <3>1. 1 - refund \in Nat /\ poke \in Nat
      BY <2>2
    <3> QED BY <1>1, <2>3, <3>1, NotesAre
  <2>7. Settles
    <3>1. budget.refunded \in Nat /\ seen.charged \in Nat
      BY <1>1 DEF Budgets, Histories
    <3>2. CASE refund = 0
      BY <2>5, <2>6, <3>1, <3>2 DEF Settles
    <3>3. CASE refund = 1
      BY <2>5, <2>6, <3>1, <3>3 DEF Settles
    <3> QED BY <2>2, <3>2, <3>3
  <2>8. Settled /\ GoesOn
    BY <1>2, <1>14 DEF Refuse
  <2> QED BY <2>3, <2>4, <2>6, <2>7, <2>8, TurnTaken DEF Advances
<1>15. CASE Verify
  <2>1. CASE Push
    BY <2>1 DEF Push, GoesTo, TurnInv
  <2>2. CASE \E out \in attempt.outputs \ {"green"} : PushRejected(out)
    BY <1>1, <2>2, RecordedHistory, Verified DEF PushRejected
  <2>3. ASSUME NEW out \in attempt.outputs, NEW ok \in BOOLEAN, Check(out, ok)
        PROVE  TurnInv'
    <3>1. seen' \in Histories /\ seen'.charged = seen.charged /\ budget' = budget
      BY <1>1, <2>3, RecordedHistory DEF Check
    <3>2. CASE NextTurn
      BY <2>3, <3>1, <3>2, Verified DEF Check
    <3>3. CASE End("success", "checked") /\ UNCHANGED n
      BY <3>1, <3>3 DEF TurnInv, End
    <3> QED BY <2>3, <3>2, <3>3 DEF Check
  <2>4. CASE Fails
    BY <2>4, Closed DEF Fails
  <2> QED BY <1>15, <2>1, <2>2, <2>3, <2>4 DEF Verify
<1> QED BY <1>3, <1>4, <1>5, <1>6, <1>7, <1>8, <1>9, <1>10, <1>11, <1>12, <1>13, <1>14, <1>15
        DEF Next, Step, Turn

-----------------------------------------------------------------------------
(* The work.                                                               *)

LEMMA MadeFromNothing ==
  ASSUME NEW kept
  PROVE  MadeBy(kept, 0, Nothing)
BY DEF MadeBy, Nothing

LEMMA MadeTheSame ==
  ASSUME NEW kept, NEW more, NEW m, NEW t, \A i \in 1..m : more[i] = kept[i], MadeBy(kept, m, t)
  PROVE  MadeBy(more, m, t)
<1> SUFFICES ASSUME NEW f \in Files
             PROVE  \/ t[f] = 0 /\ \A i \in 1..m : more[i].file # f
                    \/ \E i \in 1..m : /\ more[i].file = f /\ t[f] = more[i].text
                                       /\ \A j \in i + 1..m : more[j].file # f
  BY DEF MadeBy
<1>1. CASE t[f] = 0 /\ \A i \in 1..m : kept[i].file # f
  BY <1>1
<1>2. CASE \E i \in 1..m : /\ kept[i].file = f /\ t[f] = kept[i].text
                           /\ \A j \in i + 1..m : kept[j].file # f
  <2>1. PICK i \in 1..m : /\ kept[i].file = f /\ t[f] = kept[i].text
                          /\ \A j \in i + 1..m : kept[j].file # f
    BY <1>2
  <2>2. \A j \in i + 1..m : j \in 1..m
    OBVIOUS
  <2> QED BY <2>1, <2>2
<1> QED BY <1>1, <1>2 DEF MadeBy

\* One more edit makes of a tree what it says of its file, and leaves the rest.
LEMMA MadeByOneMore ==
  ASSUME NEW kept \in Seq(Edits), NEW f \in Files, NEW text \in Texts, NEW t \in Tree,
         MadeBy(kept, Len(kept), t)
  PROVE  MadeBy(Append(kept, [file |-> f, text |-> text]), Len(kept) + 1, [t EXCEPT ![f] = text])
<1> DEFINE e == [file |-> f, text |-> text]
           more == Append(kept, e)
           k == Len(kept)
           u == [t EXCEPT ![f] = text]
<1>1. e \in Edits /\ e.file = f /\ e.text = text
  BY DEF Edits
<1>2. k \in Nat /\ more[k + 1] = e /\ \A i \in 1..k : more[i] = kept[i]
  BY <1>1, AppendProperties, LenProperties
<1>3. u[f] = text /\ \A g \in Files : g # f => u[g] = t[g]
  BY DEF Tree
<1> HIDE DEF e, more, k, u
<1>4. \A g \in Files : \/ u[g] = 0 /\ \A i \in 1..k + 1 : more[i].file # g
                       \/ \E i \in 1..k + 1 : /\ more[i].file = g /\ u[g] = more[i].text
                                              /\ \A j \in i + 1..k + 1 : more[j].file # g
  <2> TAKE g \in Files
  <2>1. CASE g = f
    <3>1. k + 1 \in 1..k + 1 /\ \A j \in (k + 1) + 1..k + 1 : FALSE
      BY <1>2
    <3> QED BY <1>1, <1>2, <1>3, <2>1, <3>1
  <2>2. CASE g # f
    <3>1. \A i \in 1..k + 1 : i \in 1..k \/ i = k + 1
      BY <1>2
    <3>2. CASE t[g] = 0 /\ \A i \in 1..k : kept[i].file # g
      BY <1>1, <1>2, <1>3, <2>2, <3>1, <3>2
    <3>3. ASSUME NEW i \in 1..k, kept[i].file = g, t[g] = kept[i].text,
                 \A j \in i + 1..k : kept[j].file # g
          PROVE  \E m \in 1..k + 1 : /\ more[m].file = g /\ u[g] = more[m].text
                                     /\ \A j \in m + 1..k + 1 : more[j].file # g
      <4>1. i \in 1..k + 1 /\ more[i].file = g /\ u[g] = more[i].text
        BY <1>2, <1>3, <2>2, <3>3
      <4>2. ASSUME NEW j \in i + 1..k + 1
            PROVE  more[j].file # g
        <5>1. CASE j = k + 1
          BY <1>1, <1>2, <2>2, <5>1
        <5>2. CASE j # k + 1
          <6>1. j \in i + 1..k /\ j \in 1..k
            BY <1>2, <5>2
          <6> QED BY <1>2, <3>3, <6>1
        <5> QED BY <5>1, <5>2
      <4> QED BY <4>1, <4>2
    <3> QED BY <3>2, <3>3 DEF MadeBy, k
  <2> QED BY <2>1, <2>2
<1> QED BY <1>4 DEF MadeBy, e, more, k, u

LEMMA TreesAre ==
  /\ Nothing \in Tree
  /\ \A t, u \in Tree : Over(t, u) \in Tree
  /\ dirty \in Tree => InTheBox \in Tree
BY DEF Nothing, Tree, Over, InTheBox

\* What no step of the work touches stays as it was made.
LEMMA WorkRests ==
  ASSUME WorkInv, UNCHANGED <<staged, branch, undo>>, seen'.kept = seen.kept, dirty' \in Tree,
         pc' = "check" \/ ended'.outcome = "success" => pc = "check" \/ ended.outcome = "success"
  PROVE  WorkInv'
BY DEF WorkInv, Tree

LEMMA TrimmedStack ==
  ASSUME NEW stack \in Seq(Tree), Len(stack) <= MaxUndoDepth + 1
  PROVE  /\ Trimmed(stack) \in Seq(Tree) /\ Len(Trimmed(stack)) <= MaxUndoDepth
         /\ Len(Trimmed(stack)) <= Len(stack)
         /\ \A i \in 1..Len(Trimmed(stack)) :
              Trimmed(stack)[i] = stack[i + Len(stack) - Len(Trimmed(stack))]
<1>1. Len(stack) \in Nat /\ MaxUndoDepth \in Nat \ {0}
  BY LenProperties, BoundsAssumption
<1>2. CASE Len(stack) > MaxUndoDepth
  <2>1. stack # <<>> /\ Trimmed(stack) = Tail(stack)
    BY <1>1, <1>2 DEF Trimmed
  <2>2. /\ Tail(stack) \in Seq(Tree) /\ Len(Tail(stack)) = Len(stack) - 1
        /\ \A i \in 1..Len(Tail(stack)) : Tail(stack)[i] = stack[i + 1]
    BY <2>1, HeadTailProperties
  <2> QED BY <1>1, <2>1, <2>2
<1>3. CASE ~(Len(stack) > MaxUndoDepth)
  <2>1. Trimmed(stack) = stack
    BY <1>3 DEF Trimmed
  <2> QED BY <1>1, <1>3, <2>1
<1> QED BY <1>2, <1>3

LEMMA FrontIs ==
  ASSUME NEW S, NEW s \in Seq(S), s # <<>>
  PROVE  /\ Front(s) \in Seq(S) /\ Len(Front(s)) = Len(s) - 1
         /\ \A i \in 1..Len(s) - 1 : Front(s)[i] = s[i]
<1>1. Len(s) \in Nat /\ Len(s) >= 1 /\ \A i \in 1..Len(s) - 1 : s[i] \in S
  BY LenProperties, ElementOfSeq
<1> DEFINE m == Len(s) - 1
<1>2. m \in Int /\ m >= 0 /\ m - 1 + 1 = m /\ \A i \in 1..m : s[i] \in S /\ 1 + i - 1 = i
  BY <1>1
<1> HIDE DEF m
<1>3. /\ SubSeq(s, 1, m) \in Seq(S) /\ Len(SubSeq(s, 1, m)) = IF 1 <= m THEN m - 1 + 1 ELSE 0
      /\ \A i \in 1..m - 1 + 1 : SubSeq(s, 1, m)[i] = s[1 + i - 1]
  BY <1>2, SubSeqProperties
<1>4. /\ SubSeq(s, 1, m) \in Seq(S) /\ Len(SubSeq(s, 1, m)) = m
      /\ \A i \in 1..m : SubSeq(s, 1, m)[i] = s[i]
  BY <1>2, <1>3
<1> QED BY <1>4 DEF Front, m

\* An edit that is accepted: the tree before it can be gone back to.
LEMMA WriteKept ==
  ASSUME WorkInv, TurnInv, EndInv, NEW f \in attempt.files, NEW text \in Texts, Write(f, text)
  PROVE  WorkInv'
<1> DEFINE kept == seen.kept
           e == [file |-> f, text |-> text]
           more == Append(kept, e)
           stack == Append(undo, staged)
           k == Len(kept)
           u == Len(undo)
<1>1. f \in Files
  BY AttemptAssumption DEF EndInv
<1>2. kept \in Seq(Edits) /\ e \in Edits /\ k \in Nat
  <2>1. kept \in Seq(Edits)
    BY DEF TurnInv, Histories
  <2> QED BY <1>1, <2>1, LenProperties DEF Edits
<1>3. more \in Seq(Edits) /\ Len(more) = k + 1 /\ \A i \in 1..k : more[i] = kept[i]
  BY <1>2, AppendProperties
<1>4. /\ undo \in Seq(Tree) /\ staged \in Tree /\ u \in Nat /\ u <= MaxUndoDepth /\ u <= k
      /\ MaxUndoDepth \in Nat
  BY LenProperties, BoundsAssumption DEF WorkInv
<1>5. /\ stack \in Seq(Tree) /\ Len(stack) = u + 1 /\ stack[u + 1] = staged
      /\ \A i \in 1..u : stack[i] = undo[i]
  BY <1>4, AppendProperties
<1>6. /\ staged' = [staged EXCEPT ![f] = text] /\ undo' = Trimmed(stack) /\ seen'.kept = more
      /\ UNCHANGED <<branch, dirty>> /\ pc = "top"
      /\ pc' # "check" /\ ended' = ended
  <2>1. seen'.kept = more
    <3>1. PICK progress \in {"none", "some"} : Notes(progress, more, 0, 1)
      BY DEF Write
    <3>2. seen \in Histories
      BY DEF TurnInv
    <3> HIDE DEF more
    <3> QED BY <1>3, <3>1, <3>2, NotesAre
  <2> QED BY <2>1 DEF Write, NextTurn, GoesTo, Answers, Settled
<1>7. staged' \in Tree
  BY <1>1, <1>4, <1>6 DEF Tree
<1>8. MadeBy(more, k + 1, staged')
  <2>1. MadeBy(kept, k, staged)
    BY DEF WorkInv
  <2> QED BY <1>1, <1>2, <1>4, <1>6, <2>1, MadeByOneMore
<1>9. \A i \in 1..u + 1 : MadeBy(more, k + 1 - (u + 1) + i - 1, stack[i])
  <2> TAKE i \in 1..u + 1
  <2>1. k + 1 - (u + 1) + i - 1 = k - u + i - 1 /\ k - u + i - 1 \in Nat /\ k - u + i - 1 <= k
    <3>1. k \in Nat /\ u \in Nat /\ u <= k
      BY <1>2, <1>4
    <3> HIDE DEF k, u
    <3> QED BY <3>1
  <2>2. MadeBy(kept, k - u + i - 1, stack[i])
    <3>1. CASE i \in 1..u
      <4>1. MadeBy(kept, k - u + i - 1, undo[i])
        BY <3>1 DEF WorkInv
      <4> QED BY <1>5, <3>1, <4>1
    <3>2. CASE i = u + 1
      <4>1. k - u + i - 1 = k
        BY <1>2, <1>4, <3>2
      <4> QED BY <1>5, <3>2, <4>1 DEF WorkInv
    <3> QED BY <1>4, <3>1, <3>2
  <2>3. \A j \in 1..(k - u + i - 1) : more[j] = kept[j]
    BY <1>2, <1>3, <2>1
  <2> HIDE DEF more, stack, kept, k, u
  <2> QED BY <2>1, <2>2, <2>3, MadeTheSame
<1> DEFINE w == Trimmed(stack)
<1>10. /\ w \in Seq(Tree) /\ Len(w) <= MaxUndoDepth /\ Len(w) <= u + 1 /\ Len(w) \in Nat
       /\ \A i \in 1..Len(w) : w[i] = stack[i + (u + 1) - Len(w)]
  <2>1. Len(stack) <= MaxUndoDepth + 1
    BY <1>4, <1>5
  <2> QED BY <1>5, <2>1, TrimmedStack, LenProperties
<1>11. \A i \in 1..Len(w) : MadeBy(more, k + 1 - Len(w) + i - 1, w[i])
  <2> TAKE i \in 1..Len(w)
  <2> DEFINE j == i + (u + 1) - Len(w)
  <2>1. j \in 1..u + 1 /\ k + 1 - (u + 1) + j - 1 = k + 1 - Len(w) + i - 1
    <3>1. k \in Nat /\ u \in Nat /\ Len(w) \in Nat /\ Len(w) <= u + 1
      BY <1>2, <1>4, <1>10
    <3> HIDE DEF k, u, w
    <3> QED BY <3>1
  <2>2. w[i] = stack[j]
    BY <1>10
  <2>3. MadeBy(more, k + 1 - (u + 1) + j - 1, stack[j])
    BY <1>9, <2>1
  <2> HIDE DEF j, w, stack, more, k, u
  <2> QED BY <2>1, <2>2, <2>3
<1>12. branch' \in Tree /\ dirty' \in Tree /\ ended'.outcome # "success"
  BY <1>6 DEF WorkInv, EndInv
<1>13. Len(w) <= k + 1
  BY <1>2, <1>4, <1>10
<1> HIDE DEF w, stack, more, k, u, kept
<1>14. undo' = w /\ Len(seen'.kept) = k + 1
  BY <1>3, <1>6 DEF w
<1>15. \A i \in 1..Len(undo') : MadeBy(seen'.kept, Len(seen'.kept) - Len(undo') + i - 1, undo'[i])
  <2>1. Len(undo') = Len(w) /\ seen'.kept = more
    BY <1>6, <1>14
  <2> TAKE i \in 1..Len(undo')
  <2>2. MadeBy(more, k + 1 - Len(w) + i - 1, w[i])
    BY <1>11, <2>1
  <2>3. Len(seen'.kept) - Len(undo') + i - 1 = k + 1 - Len(w) + i - 1 /\ undo'[i] = w[i]
    <3>1. undo'[i] = w[i]
      BY <1>14
    <3>2. Len(seen'.kept) = k + 1 /\ Len(undo') = Len(w)
      BY <1>14
    <3>3. k \in Nat /\ Len(w) \in Nat
      BY <1>2, <1>10
    <3> QED BY <3>1, <3>2, <3>3
  <2> QED BY <2>1, <2>2, <2>3, Zenon
<1> QED BY <1>6, <1>7, <1>8, <1>10, <1>12, <1>13, <1>14, <1>15 DEF WorkInv, Tree

\* An undo takes back the last edit, and the tree is what the others made.
LEMMA UndoKept ==
  ASSUME WorkInv, TurnInv, EndInv, UndoEdit
  PROVE  WorkInv'
<1>1. seen.kept \in Seq(Edits) /\ seen \in Histories
  BY DEF TurnInv, Histories
<1>2. UNCHANGED <<branch, dirty>> /\ pc = "top" /\ pc' = "top" /\ ended' = ended
  BY DEF UndoEdit, NextTurn, GoesTo, Answers, Settled
<1>3. CASE undo = <<>>
  <2>1. UNCHANGED <<staged, undo>> /\ Notes("none", seen.kept, 0, 1)
    BY <1>3 DEF UndoEdit
  <2>2. seen'.kept = seen.kept
    BY <1>1, <2>1, NotesAre
  <2>3. dirty' \in Tree
    BY <1>2 DEF WorkInv
  <2> QED BY <1>2, <2>1, <2>2, <2>3, WorkRests
<1>4. CASE undo # <<>>
  <2> DEFINE kept == seen.kept
             fewer == Front(kept)
             rest == Front(undo)
             k == Len(kept)
             u == Len(undo)
  <2>1. staged' = Last(undo) /\ undo' = rest /\ Notes("some", fewer, 0, 1)
    BY <1>4 DEF UndoEdit
  <2>2. undo \in Seq(Tree) /\ u \in Nat /\ k \in Nat /\ u <= k /\ u >= 1 /\ u <= MaxUndoDepth
        /\ MaxUndoDepth \in Nat
    BY <1>1, <1>4, LenProperties, BoundsAssumption DEF WorkInv
  <2>3. fewer \in Seq(Edits) /\ Len(fewer) = k - 1 /\ \A i \in 1..k - 1 : fewer[i] = kept[i]
    <3>1. kept # <<>>
      BY <1>1, <2>2
    <3> QED BY <1>1, <3>1, FrontIs
  <2>4. rest \in Seq(Tree) /\ Len(rest) = u - 1 /\ \A i \in 1..u - 1 : rest[i] = undo[i]
    BY <1>4, <2>2, FrontIs
  <2>5. seen'.kept = fewer
    <3> HIDE DEF fewer
    <3> QED BY <1>1, <2>1, <2>3, NotesAre
  <2>6. staged' = undo[u] /\ staged' \in Tree
    BY <2>1, <2>2, ElementOfSeq DEF Last
  <2>7. ASSUME NEW i \in 1..u
        PROVE  MadeBy(fewer, k - u + i - 1, undo[i])
    <3>1. MadeBy(kept, k - u + i - 1, undo[i])
      BY DEF WorkInv
    <3>2. \A j \in 1..(k - u + i - 1) : fewer[j] = kept[j]
      BY <2>2, <2>3
    <3> HIDE DEF fewer, kept, k, u
    <3> QED BY <3>1, <3>2, MadeTheSame
  <2>8. MadeBy(fewer, k - 1, staged')
    <3>1. u \in 1..u /\ k - u + u - 1 = k - 1
      BY <2>2
    <3> QED BY <2>6, <2>7, <3>1
  <2>9. \A i \in 1..u - 1 : MadeBy(fewer, (k - 1) - (u - 1) + i - 1, rest[i])
    <3> TAKE i \in 1..u - 1
    <3>1. i \in 1..u /\ (k - 1) - (u - 1) + i - 1 = k - u + i - 1
      BY <2>2
    <3>2. MadeBy(fewer, k - u + i - 1, undo[i]) /\ rest[i] = undo[i]
      BY <2>4, <2>7, <3>1
    <3> HIDE DEF fewer, rest, k, u
    <3> QED BY <3>1, <3>2
  <2>10. branch' \in Tree /\ dirty' \in Tree /\ ended'.outcome # "success"
    BY <1>2 DEF WorkInv, EndInv
  <2>11. u - 1 <= MaxUndoDepth /\ u - 1 <= k - 1
    BY <2>2
  <2> HIDE DEF fewer, rest, kept, k, u
  <2> QED BY <1>2, <2>1, <2>3, <2>4, <2>5, <2>6, <2>8, <2>9, <2>10, <2>11 DEF WorkInv, Tree
<1> QED BY <1>3, <1>4

LEMMA WorkKept ==
  ASSUME WorkInv, TurnInv, EndInv, Next
  PROVE  WorkInv'
<1>1. /\ dirty \in Tree /\ InTheBox \in Tree /\ Nothing \in Tree /\ staged \in Tree
      /\ branch \in Tree /\ seen \in Histories /\ seen.kept \in Seq(Edits)
  BY TreesAre DEF WorkInv, TurnInv, Histories
<1>2. ASSUME UNCHANGED work, seen' = seen,
             pc' = "check" \/ ended'.outcome = "success" =>
               pc = "check" \/ ended.outcome = "success"
      PROVE  WorkInv'
  BY <1>1, <1>2, WorkRests DEF work
<1>3. ASSUME UNCHANGED work, seen' = seen, NEW why, End("failed", why)
      PROVE  WorkInv'
  BY <1>2, <1>3 DEF End
<1>4. CASE Acquire \/ Survey \/ Preflight
  BY <1>2, <1>3, <1>4 DEF Acquire, Survey, Preflight, Fails, GoesTo, work
<1>5. CASE ConsultReferee \/ ReapBox \/ ReleaseBox
  BY <1>2, <1>5 DEF ConsultReferee, ReapBox, ReleaseBox, GoesTo
<1>6. CASE EndOnBrokenSpec \/ GiveUp \/ ChatFails
  <2>1. UNCHANGED <<work, seen>> /\ pc' = "closing" /\ ended'.outcome # "success"
    <3>1. CASE EndOnBrokenSpec
      BY <3>1 DEF EndOnBrokenSpec, End
    <3>2. CASE GiveUp
      BY <3>2 DEF GiveUp, End
    <3>3. CASE ChatFails
      BY <3>3 DEF ChatFails, End
    <3> QED BY <1>6, <3>1, <3>2, <3>3
  <2> QED BY <1>2, <2>1
<1>7. CASE ResetAgent
  <2>1. /\ staged' = staged /\ branch' = branch /\ dirty' = dirty /\ seen' = seen
        /\ undo' = <<>> /\ pc' = pc /\ ended' = ended
    BY <1>7 DEF ResetAgent, KeepWork
  <2>2. /\ <<>> \in Seq(Tree) /\ Len(<<>>) = 0 /\ Len(seen.kept) \in Nat
        /\ MaxUndoDepth \in Nat
    BY <1>1, LenProperties, BoundsAssumption
  <2>3. \A i \in 1..Len(<<>>) : FALSE
    BY <2>2
  <2> QED BY <2>1, <2>2, <2>3 DEF WorkInv, Tree
<1>8. CASE ReadFiles
  <2>1. PICK progress \in {"none", "same"} : Read(progress)
    BY <1>8 DEF ReadFiles
  <2>2. seen'.kept = seen.kept
    BY <1>1, <2>1, NotesAre DEF Read
  <2>3. dirty' \in Tree
    BY <1>1, <1>8 DEF ReadFiles
  <2> QED BY <1>8, <2>2, <2>3, WorkRests DEF ReadFiles, NextTurn, GoesTo
<1>9. CASE Finish
  <2>1. seen'.kept = seen.kept
    BY <1>1, <1>9, NotesAre DEF Finish
  <2> QED BY <1>1, <1>9, <2>1, WorkRests DEF Finish, NextTurn, GoesTo, work
<1>10. CASE Unparsable
  <2>1. seen'.kept = seen.kept
    BY <1>1, <1>10 DEF Unparsable, ParseFailure, Histories
  <2> QED BY <1>1, <1>10, <2>1, WorkRests DEF Unparsable, ParseFailure, GoesTo, End, work
<1>11. ASSUME NEW free \in BOOLEAN, NEW onTest \in BOOLEAN, Refuse(free, onTest)
       PROVE  WorkInv'
  <2>1. PICK poke \in {0, 1}, charge \in {0, 1} : Notes("none", seen.kept, poke, charge)
    BY <1>11 DEF Refuse
  <2>2. seen'.kept = seen.kept
    BY <1>1, <2>1, NotesAre
  <2> QED BY <1>1, <1>11, <2>2, WorkRests DEF Refuse, NextTurn, GoesTo, work
<1>12. CASE Verify
  <2>1. CASE Push
    <3>1. /\ branch' = Over(staged, Over(InTheBox, branch)) /\ dirty' = Nothing /\ pc' = "check"
          /\ UNCHANGED <<staged, undo, seen>>
      BY <2>1 DEF Push, GoesTo
    <3>2. branch' \in Tree
      BY <1>1, <3>1, TreesAre
    <3>3. \A f \in Files : staged[f] # 0 => branch'[f] = staged[f]
      BY <3>1 DEF Over
    <3> QED BY <1>1, <3>1, <3>2, <3>3 DEF WorkInv, Tree
  <2>2. CASE \E out \in attempt.outputs \ {"green"} : PushRejected(out)
    <3>1. PICK out : PushRejected(out)
      BY <2>2
    <3>2. seen'.kept = seen.kept
      BY <1>1, <3>1, RecordedHistory DEF PushRejected
    <3>3. dirty' \in Tree
      BY <1>1, <3>1, TreesAre DEF PushRejected, Tree
    <3> QED BY <3>1, <3>2, <3>3, WorkRests DEF PushRejected, NextTurn, GoesTo
  <2>3. ASSUME NEW out \in attempt.outputs, NEW ok \in BOOLEAN, Check(out, ok)
        PROVE  WorkInv'
    <3>1. seen'.kept = seen.kept
      BY <1>1, <2>3, RecordedHistory DEF Check
    <3> QED BY <1>1, <2>3, <3>1, WorkRests DEF Check
  <2>4. CASE Fails
    BY <1>3, <2>4 DEF Fails
  <2> QED BY <1>12, <2>1, <2>2, <2>3, <2>4 DEF Verify
<1> QED BY <1>4, <1>5, <1>6, <1>7, <1>8, <1>9, <1>10, <1>11, <1>12, WriteKept, UndoKept
        DEF Next, Step, Turn

-----------------------------------------------------------------------------
(* The verdict and the asks.                                               *)

LEMMA FailuresAreFinite ==
  ASSUME NEW S \in SUBSET Outputs
  PROVE  IsFiniteSet({o \in S : ~HasCompileErrors(o)})
<1>1. IsFiniteSet({"assertion", "green"} \cup {"rejected"})
  <2>1. IsFiniteSet({"assertion"})
    BY FS_Singleton
  <2>2. IsFiniteSet({"assertion"} \cup {"green"})
    BY <2>1, FS_AddElement
  <2>3. {"assertion"} \cup {"green"} = {"assertion", "green"}
    OBVIOUS
  <2> QED BY <2>2, <2>3, FS_AddElement
<1>2. IsFiniteSet(({"assertion", "green"} \cup {"rejected"}) \cup {"panicInTests"})
  BY <1>1, FS_AddElement
<1>3. IsFiniteSet((({"assertion", "green"} \cup {"rejected"}) \cup {"panicInTests"}) \cup {"clash"})
  BY <1>2, FS_AddElement
<1>4. {o \in S : ~HasCompileErrors(o)}
        \subseteq ((({"assertion", "green"} \cup {"rejected"}) \cup {"panicInTests"}) \cup {"clash"})
  BY DEF HasCompileErrors, InTestsOnly, Outputs
<1> QED BY <1>3, <1>4, FS_Subset

LEMMA VerdictsAre ==
  ASSUME NEW b \in {"", "matcher", "streak", "refusals", "referee"},
         NEW t \in 0..MinSpecBrokenTries, NEW x \in BOOLEAN
  PROVE  [broken |-> b, tries |-> t, expected |-> x] \in Verdicts
BY Zenon DEF Verdicts

LEMMA FieldsAre ==
  ASSUME NEW b, NEW t, NEW x, NEW v, v = [broken |-> b, tries |-> t, expected |-> x]
  PROVE  v.broken = b /\ v.tries = t /\ v.expected = x
OBVIOUS

LEMMA NoVerdictIs ==
  /\ NoVerdict \in Verdicts
  /\ NoVerdict.broken = "" /\ NoVerdict.tries = 0 /\ NoVerdict.expected = FALSE
<1>1. 0 \in 0..MinSpecBrokenTries
  BY BoundsAssumption
<1> QED BY <1>1, VerdictsAre DEF NoVerdict

\* The tries are counted to the number that convicts.
LEMMA TriesAreCounted ==
  ASSUME NEW t \in 0..MinSpecBrokenTries, NEW s \in Nat, t <= s
  PROVE  /\ UpTo(MinSpecBrokenTries, t + 1) \in 0..MinSpecBrokenTries
         /\ UpTo(MinSpecBrokenTries, t + 1) <= UpTo(MinSpecBrokenTries, s + 1)
         /\ UpTo(MinSpecBrokenTries, s + 1) \in Nat
BY BoundsAssumption DEF UpTo

LEMMA ConvictionHasGrounds ==
  ASSUME NEW out, NEW tries
  PROVE  /\ Conviction(out, tries) \in {"", "matcher", "streak", "refusals"}
         /\ Conviction(out, tries) # "" => out # "undefined"
         /\ Conviction(out, tries) = "streak" => tries = MinSpecBrokenTries
BY DEF Conviction, RedIsExpected

\* The streak that a red verification leaves.
StreakAfter(out) ==
  IF InTestsOnly(out) THEN UpTo(MinSpecBrokenTries, seen.streak + 1) ELSE 0

LEMMA StreaksCount ==
  ASSUME seen \in Histories, NEW out, NEW t \in 0..MinSpecBrokenTries, t <= seen.streak
  PROVE  /\ StreakAfter(out) \in Nat
         /\ UpTo(MinSpecBrokenTries, t + 1) \in 0..MinSpecBrokenTries
         /\ InTestsOnly(out) => UpTo(MinSpecBrokenTries, t + 1) <= StreakAfter(out)
<1>1. seen.streak \in Nat
  BY DEF Histories
<1> QED BY <1>1, TriesAreCounted DEF StreakAfter

LEMMA NothingIsGrounded ==
  ASSUME NEW out \in Outputs, NEW streak \in Nat, ~Developing \/ out # "undefined"
  PROVE  Grounded(out, NoVerdict, streak)
<1> DEFINE v == NoVerdict
<1>1. v \in Verdicts /\ v.broken = ""
  BY NoVerdictIs
<1>2. v = NoVerdict
  OBVIOUS
<1>3. v.tries <= streak
  <2>1. v.tries = 0
    BY NoVerdictIs
  <2> QED BY <2>1
<1> HIDE DEF v
<1> QED BY <1>1, <1>2, <1>3 DEF Grounded

\* A red verification leaves a verdict that has its grounds in what it printed.
LEMMA JudgedFairly ==
  ASSUME Grounded(last, verdict, seen.streak), verdict.broken = "", seen \in Histories,
         NEW out \in Outputs
  PROVE  Grounded(out, JudgeSpec(out), StreakAfter(out))
<1> DEFINE tries == UpTo(MinSpecBrokenTries, verdict.tries + 1)
           streak == StreakAfter(out)
<1>1. /\ tries \in 0..MinSpecBrokenTries /\ streak \in Nat
      /\ InTestsOnly(out) => tries <= streak
  <2>1. verdict.tries \in 0..MinSpecBrokenTries /\ verdict.tries <= seen.streak
    BY DEF Grounded, Verdicts
  <2> QED BY <2>1, StreaksCount
<1>2. CASE ~Developing
  <2>1. JudgeSpec(out) = verdict
    BY <1>2, Zenon DEF JudgeSpec
  <2>2. verdict = NoVerdict
    BY <1>2 DEF Grounded
  <2>3. Grounded(out, NoVerdict, streak)
    BY <1>1, <1>2, NothingIsGrounded
  <2> QED BY <2>1, <2>2, <2>3, Zenon
<1>3. CASE Developing /\ InTestsOnly(out)
  <2>1. JudgeSpec(out) = [broken |-> Conviction(out, tries), tries |-> tries,
                          expected |-> RedIsExpected(out)]
    <3>1. ~(out \in {"panicInTests", "clash"})
      BY <1>3 DEF InTestsOnly
    <3> QED BY <1>3, <3>1, Zenon DEF JudgeSpec
  <2> HIDE DEF tries
  <2>2. JudgeSpec(out) \in Verdicts
    <3>1. Conviction(out, tries) \in {"", "matcher", "streak", "refusals", "referee"}
      BY ConvictionHasGrounds
    <3>2. RedIsExpected(out) \in BOOLEAN
      BY DEF RedIsExpected
    <3> QED BY <1>1, <2>1, <3>1, <3>2, VerdictsAre
  <2> DEFINE v == JudgeSpec(out)
  <2>3. v.broken = Conviction(out, tries) /\ v.tries = tries /\ v.expected = RedIsExpected(out)
    <3> HIDE DEF v
    <3>1. v = [broken |-> Conviction(out, tries), tries |-> tries,
               expected |-> RedIsExpected(out)]
      BY <2>1 DEF v
    <3> QED BY <3>1, FieldsAre
  <2>4. out = "undefined" => v.expected
    BY <2>3 DEF RedIsExpected
  <2>5. /\ v.broken \in {"matcher", "streak", "refusals"} => out # "undefined"
        /\ v.broken = "streak" => tries = MinSpecBrokenTries
    BY <2>3, ConvictionHasGrounds
  <2>6. v.broken = "streak" => streak >= MinSpecBrokenTries
    <3>1. tries = MinSpecBrokenTries => streak >= MinSpecBrokenTries
      <4>1. streak \in Nat /\ MinSpecBrokenTries \in Nat /\ tries <= streak
        BY <1>1, <1>3, BoundsAssumption
      <4> QED BY <4>1
    <3> QED BY <2>5, <3>1
  <2>7. v.tries <= streak
    BY <1>1, <1>3, <2>3
  <2> HIDE DEF v
  <2> QED BY <1>3, <2>2, <2>4, <2>5, <2>6, <2>7 DEF Grounded, v
<1>4. CASE Developing /\ out \in {"panicInTests", "clash"}
  <2>1. JudgeSpec(out) = [verdict EXCEPT !.broken = "matcher", !.expected = FALSE]
    <3>1. ~InTestsOnly(out)
      BY <1>4 DEF InTestsOnly
    <3> QED BY <1>4, <3>1, Zenon DEF JudgeSpec
  <2>2. verdict \in Verdicts
    BY DEF Grounded
  <2>3. JudgeSpec(out) \in Verdicts
    BY <2>1, <2>2, Zenon DEF Verdicts
  <2>4. JudgeSpec(out).broken = "matcher"
    BY <2>1, <2>2 DEF Verdicts
  <2> QED BY <1>4, <2>3, <2>4 DEF Grounded
<1>5. CASE Developing /\ ~InTestsOnly(out) /\ out \notin {"panicInTests", "clash"}
  <2>1. JudgeSpec(out) = NoVerdict
    BY <1>5, Zenon DEF JudgeSpec, ClearSpecVerdict
  <2>2. out # "undefined"
    BY <1>5 DEF InTestsOnly
  <2>3. Grounded(out, NoVerdict, streak)
    BY <1>1, <2>2, NothingIsGrounded
  <2> QED BY <2>1, <2>3, Zenon
<1> QED BY <1>2, <1>3, <1>4, <1>5

\* What a step has to leave for the verdict to be right.
LEMMA VerdictMoves ==
  ASSUME attempt' = attempt, NEW output, NEW v, NEW streak, NEW poked, NEW pokes,
         last' = output, verdict' = v, seen'.streak = streak, seen'.poked = poked,
         budget'.pokes = pokes, Grounded(output, v, streak), PokesFit(poked, pokes, v),
         pc' \in {"push", "check"} => v.broken = "" /\ poked = 0,
         ended'.why = "refusals" /\ ended'.outcome = "failed" /\ poked >= MaxTestEditRefusals
           => v.expected
  PROVE  VerdictInv'
<1>1. Grounded(last, verdict, seen.streak)'
  BY DEF Grounded, Developing
<1>2. PokesFit(seen.poked, budget.pokes, verdict)'
  BY DEF PokesFit
<1>3. HandBackReachable'
  BY DEF HandBackReachable, PokesFit
<1> QED BY <1>1, <1>2, <1>3 DEF VerdictInv

LEMMA VerdictRests ==
  ASSUME VerdictInv, UNCHANGED <<attempt, last, verdict>>, seen'.streak = seen.streak,
         seen'.poked = seen.poked, budget'.pokes = budget.pokes,
         pc' \in {"push", "check"} => pc \in {"push", "check"},
         ended' = ended \/ verdict.broken = "" \/ ended'.why # "refusals"
           \/ ended'.outcome # "failed"
  PROVE  VerdictInv'
<1>1. Grounded(last, verdict, seen.streak) /\ PokesFit(seen.poked, budget.pokes, verdict)
  BY DEF VerdictInv
<1>2. pc' \in {"push", "check"} => verdict.broken = "" /\ seen.poked = 0
  BY DEF VerdictInv
<1>3. \/ ended' = ended
      \/ verdict.broken = "" \/ ended'.why # "refusals" \/ ended'.outcome # "failed"
  OBVIOUS
<1>4. /\ ended'.why = "refusals" /\ ended'.outcome = "failed"
      /\ seen.poked >= MaxTestEditRefusals
      => verdict.expected
  BY <1>3, Zenon DEF VerdictInv, HandBackReachable, PokesFit
<1> QED BY <1>1, <1>2, <1>4, VerdictMoves

\* A verdict of the referee takes the place of any other, and needs no grounds.
LEMMA RefereeIsHeard ==
  ASSUME VerdictInv, UNCHANGED <<attempt, last, ended, seen, budget>>, pc' = "top",
         pc \notin {"closing", "over"}, EndInv,
         verdict' = [verdict EXCEPT !.broken = "referee"], Developing
  PROVE  VerdictInv'
<1>1. verdict \in Verdicts
  BY DEF VerdictInv, Grounded
<1>2. verdict' \in Verdicts
  BY <1>1, Zenon DEF Verdicts
<1>3. verdict'.broken = "referee" /\ verdict'.expected = verdict.expected
  BY <1>1 DEF Verdicts
<1>4. Grounded(last, verdict', seen.streak)
  BY <1>2, <1>3 DEF VerdictInv, Grounded
<1>5. PokesFit(seen.poked, budget.pokes, verdict')
  BY <1>3 DEF VerdictInv, PokesFit
<1>6. ended'.why # "refusals"
  BY DEF EndInv
<1> QED BY <1>4, <1>5, <1>6, VerdictMoves

\* After an edit that is accepted no refusal counts.
LEMMA PokesForgotten ==
  ASSUME VerdictInv, EndInv, TurnInv, Settled, UNCHANGED <<attempt, last, verdict, ended>>,
         seen'.streak = seen.streak, seen'.poked = 0, budget'.pokes = budget.pokes
  PROVE  VerdictInv'
<1>1. Grounded(last, verdict, seen.streak)
  BY DEF VerdictInv
<1>2. PokesFit(0, budget.pokes, verdict)
  <2>1. budget.pokes \in 0..MaxTestEditRefusals /\ MaxTestEditRefusals \in Nat \ {0}
    BY BoundsAssumption DEF TurnInv, Budgets
  <2>2. 0 <= budget.pokes /\ ~(0 >= MaxTestEditRefusals)
    BY <2>1
  <2> QED BY <2>2 DEF PokesFit
<1>3. verdict.broken = "" /\ ended'.why # "refusals"
  BY DEF Settled, EndInv
<1> QED BY <1>1, <1>2, <1>3, VerdictMoves

LEMMA RefusalsKept ==
  ASSUME VerdictInv, EndInv, TurnInv, NEW free \in BOOLEAN, NEW onTest \in BOOLEAN,
         Refuse(free, onTest)
  PROVE  VerdictInv'
<1> DEFINE refund == IF free THEN 1 ELSE 0
           poke   == IF onTest /\ Developing THEN 1 ELSE 0
           pokes  == UpTo(MaxTestEditRefusals, budget.pokes + poke)
           v      == IF poke = 1 THEN NoteTestEditRefusal(pokes) ELSE verdict
<1>1. /\ budget' = [budget EXCEPT !.parseFails = 0, !.reads = 0, !.refunded = @ + refund,
                                  !.refusals = @ + 1, !.pokes = pokes]
      /\ Notes("none", seen.kept, poke, 1 - refund)
      /\ verdict' = v /\ NextTurn /\ UNCHANGED <<attempt, last>> /\ Settled
  BY DEF Refuse, Answers
<1>2. budget \in Budgets /\ seen \in Histories /\ seen.kept \in Seq(Edits) /\ budget'.pokes = pokes
  <2>1. budget \in Budgets /\ seen \in Histories
    BY DEF TurnInv
  <2>2. budget'.pokes = pokes
    <3> HIDE DEF pokes, refund
    <3> QED BY <1>1, <2>1 DEF Budgets
  <2> QED BY <2>1, <2>2 DEF Histories
<1>3. seen'.poked = seen.poked + poke /\ seen'.streak = seen.streak
  <2>1. poke \in Nat /\ 1 - refund \in Nat
    OBVIOUS
  <2> HIDE DEF poke, refund
  <2> QED BY <1>1, <1>2, <2>1, NotesAre
<1>4. /\ MaxTestEditRefusals \in Nat /\ seen.poked \in Nat
      /\ budget.pokes \in 0..MaxTestEditRefusals
  BY <1>2, BoundsAssumption DEF Budgets, Histories
<1>5. PokesFit(seen.poked, budget.pokes, verdict) /\ Grounded(last, verdict, seen.streak)
  BY DEF VerdictInv
<1>6. ended'.why # "refusals" /\ pc' = "top"
  <2>1. pc = "top" /\ ended' = ended
    BY <1>1 DEF Settled, NextTurn, GoesTo
  <2> QED BY <1>1, <2>1 DEF EndInv, NextTurn, GoesTo
<1>7. CASE poke = 0
  <2>1. pokes = budget.pokes /\ v = verdict /\ seen.poked + poke = seen.poked
    BY <1>4, <1>7 DEF UpTo
  <2> HIDE DEF poke, pokes, v
  <2> QED BY <1>1, <1>2, <1>3, <1>5, <1>6, <2>1, VerdictMoves
<1>8. CASE poke = 1
  <2>1. v = NoteTestEditRefusal(pokes) /\ Developing
    BY <1>8
  <2>2. /\ pokes \in 0..MaxTestEditRefusals
        /\ seen.poked + 1 <= pokes \/ pokes = MaxTestEditRefusals
        /\ seen.poked + 1 >= MaxTestEditRefusals => pokes = MaxTestEditRefusals
    <3>1. pokes = UpTo(MaxTestEditRefusals, budget.pokes + 1)
      BY <1>8
    <3>2. seen.poked <= budget.pokes \/ budget.pokes = MaxTestEditRefusals
      BY <1>5 DEF PokesFit
    <3> HIDE DEF poke, pokes
    <3> QED BY <1>4, <3>1, <3>2 DEF UpTo
  <2>3. seen'.poked = seen.poked + 1
    BY <1>3, <1>8
  <2> HIDE DEF pokes
  <2>4. CASE pokes = MaxTestEditRefusals /\ ~verdict.expected
    <3>1. v = [verdict EXCEPT !.broken = "refusals"] /\ verdict \in Verdicts
      BY <1>5, <2>1, <2>4 DEF NoteTestEditRefusal, Grounded
    <3> HIDE DEF v
    <3>2. v \in Verdicts
      BY <3>1, Zenon DEF Verdicts
    <3>3. v.broken = "refusals" /\ v.expected = verdict.expected
      BY <3>1 DEF Verdicts
    <3>4. last # "undefined"
      BY <1>5, <2>1, <2>4 DEF Grounded
    <3>5. Grounded(last, v, seen.streak)
      BY <1>5, <2>1, <3>2, <3>3, <3>4 DEF Grounded
    <3>6. PokesFit(seen.poked + 1, pokes, v)
      BY <2>4, <3>3 DEF PokesFit
    <3> QED BY <1>1, <1>2, <1>3, <1>6, <2>3, <3>5, <3>6, VerdictMoves
  <2>5. CASE ~(pokes = MaxTestEditRefusals /\ ~verdict.expected)
    <3>1. v = verdict
      BY <2>1, <2>5 DEF NoteTestEditRefusal
    <3>2. PokesFit(seen.poked + 1, pokes, verdict)
      BY <2>2, <2>5 DEF PokesFit
    <3> HIDE DEF v
    <3> QED BY <1>1, <1>2, <1>3, <1>5, <1>6, <2>3, <3>1, <3>2, VerdictMoves
  <2> QED BY <2>4, <2>5
<1> QED BY <1>7, <1>8

\* A verification, of a push or of a check: no refusal came before it.
LEMMA RecordsKept ==
  ASSUME VerdictInv, EndInv, TurnInv, pc \in {"push", "check"}, NEW out \in Outputs, NEW ok,
         Developing /\ ok => out = "green",
         RecordVerification(out, ok), UNCHANGED <<attempt, budget>>,
         pc' \notin {"push", "check"}, ended' = ended \/ ended'.outcome = "success"
  PROVE  VerdictInv'
<1>1. /\ Grounded(last, verdict, seen.streak) /\ verdict.broken = "" /\ seen.poked = 0
      /\ seen \in Histories
  BY DEF VerdictInv, TurnInv
<1>2. last' = out /\ seen' \in Histories /\ seen'.poked = 0
  BY <1>1, RecordedHistory DEF RecordVerification
<1>3. \A v : PokesFit(0, budget.pokes, v)
  <2>1. budget.pokes \in 0..MaxTestEditRefusals /\ MaxTestEditRefusals \in Nat \ {0}
    BY BoundsAssumption DEF TurnInv, Budgets
  <2>2. 0 <= budget.pokes /\ ~(0 >= MaxTestEditRefusals)
    BY <2>1
  <2> QED BY <2>2 DEF PokesFit
<1>4. ended'.why # "refusals" \/ ended'.outcome # "failed"
  BY DEF EndInv
<1>5. CASE Passes(out, ok)
  <2>1. verdict' = NoVerdict /\ seen' = seen
    BY <1>5 DEF RecordVerification, ClearSpecVerdict
  <2>2. ~Developing \/ out # "undefined"
    BY <1>5 DEF Passes
  <2>3. seen.streak \in Nat
    BY <1>1 DEF Histories
  <2>4. Grounded(out, NoVerdict, seen.streak)
    BY <2>2, <2>3, NothingIsGrounded
  <2> QED BY <1>2, <1>3, <1>4, <2>1, <2>4, VerdictMoves
<1>6. CASE ~Passes(out, ok)
  <2>1. verdict' = JudgeSpec(out)
    BY <1>6 DEF RecordVerification
  <2>2. seen'.streak = StreakAfter(out)
    <3> DEFINE soft == seen.soft + (IF HasCompileErrors(out) THEN 0 ELSE 1)
               streak == IF InTestsOnly(out) THEN UpTo(MinSpecBrokenTries, seen.streak + 1) ELSE 0
    <3>1. seen' = [seen EXCEPT !.soft = soft, !.streak = streak]
      BY <1>6 DEF RecordVerification
    <3> HIDE DEF soft, streak
    <3> QED BY <1>1, <3>1 DEF StreakAfter, streak, Histories
  <2>3. Grounded(out, JudgeSpec(out), StreakAfter(out))
    BY <1>1, JudgedFairly
  <2> QED BY <1>2, <1>3, <1>4, <2>1, <2>2, <2>3, VerdictMoves
<1> QED BY <1>5, <1>6

LEMMA VerdictKept ==
  ASSUME VerdictInv, EndInv, TurnInv, Next
  PROVE  VerdictInv'
<1>1. /\ seen \in Histories /\ budget \in Budgets /\ seen.kept \in Seq(Edits)
      /\ seen.poked \in Nat
  BY DEF TurnInv, Histories
<1>2. ASSUME UNCHANGED <<attempt, judged, budget, seen>>,
             pc' \in {"push", "check"} => pc \in {"push", "check"},
             ended' = ended \/ verdict.broken = "" \/ ended'.why # "refusals"
               \/ ended'.outcome # "failed"
      PROVE  VerdictInv'
  BY <1>2, VerdictRests DEF judged
<1>3. CASE Acquire \/ Survey
  <2>1. /\ UNCHANGED <<attempt, judged, budget, seen>> /\ pc' \notin {"push", "check"}
        /\ ended' = ended \/ ended'.why # "refusals"
    BY <1>3 DEF Acquire, Survey, Fails, GoesTo, End
  <2> QED BY <1>2, <2>1
<1>4. CASE Preflight
  <2>1. /\ UNCHANGED <<attempt, last, sighted, budget, seen, ended>> /\ pc' = "top"
        /\ pc \notin {"closing", "over"}
        /\ \/ verdict' = verdict
           \/ Developing /\ verdict' = [verdict EXCEPT !.broken = "referee"]
    BY <1>4 DEF Preflight, GoesTo
  <2> QED BY <1>2, <2>1, RefereeIsHeard DEF judged
<1>5. CASE ConsultReferee
  <2>1. /\ UNCHANGED <<attempt, last, budget, seen, ended, pc>> /\ pc = "top" /\ Developing
        /\ \/ verdict' = verdict
           \/ verdict' = [verdict EXCEPT !.broken = "referee"]
    BY <1>5 DEF ConsultReferee, WorthAsking
  <2> QED BY <2>1, RefereeIsHeard, VerdictRests
<1>6. CASE EndOnBrokenSpec
  <2>1. UNCHANGED <<attempt, judged, budget, seen>> /\ pc' = "closing"
    BY <1>6 DEF EndOnBrokenSpec, End
  <2>2. ended'.outcome # "failed"
    BY <1>6 DEF EndOnBrokenSpec, End
  <2> QED BY <1>2, <2>1, <2>2
<1>7. CASE GiveUp \/ ChatFails
  <2>1. UNCHANGED <<attempt, judged, budget, seen>> /\ pc' = "closing" /\ verdict.broken = ""
    BY <1>7 DEF GiveUp, ChatFails, End, Settled
  <2> QED BY <1>2, <2>1
<1>8. CASE ResetAgent
  <2>1. UNCHANGED <<attempt, judged, seen, pc, ended>>
    BY <1>8 DEF ResetAgent
  <2>2. budget'.pokes = budget.pokes
    BY <1>1, <1>8 DEF ResetAgent, Budgets
  <2> QED BY <2>1, <2>2, VerdictRests DEF judged
<1>9. CASE ReadFiles
  <2>1. PICK progress \in {"none", "same"} : Read(progress)
    BY <1>9 DEF ReadFiles
  <2>2. budget.reads + 1 \in Nat
    BY <1>1 DEF Budgets
  <2>3. budget'.pokes = budget.pokes
    BY <1>1, <2>1, <2>2, CountsAre DEF Read
  <2>4. seen'.poked = seen.poked + 0 /\ seen'.streak = seen.streak
    BY <1>1, <2>1, NotesAre DEF Read
  <2>5. seen'.poked = seen.poked
    BY <1>1, <2>4
  <2>6. UNCHANGED <<attempt, judged, ended>> /\ pc' = "top"
    BY <1>9 DEF ReadFiles, NextTurn, GoesTo
  <2> QED BY <2>3, <2>4, <2>5, <2>6, VerdictRests DEF judged
<1>10. CASE Finish
  <2>1. budget.reads \in Nat
    BY <1>1 DEF Budgets
  <2>2. budget'.pokes = budget.pokes
    BY <1>1, <1>10, <2>1, CountsAre DEF Finish
  <2>3. seen'.poked = seen.poked + 0 /\ seen'.streak = seen.streak
    BY <1>1, <1>10, NotesAre DEF Finish
  <2>4. seen'.poked = seen.poked
    BY <1>1, <2>3
  <2>5. UNCHANGED <<attempt, judged, ended>> /\ pc' = "top"
    BY <1>10 DEF Finish, NextTurn, GoesTo
  <2> QED BY <2>2, <2>3, <2>4, <2>5, VerdictRests DEF judged
<1>11. CASE UndoEdit
  <2>1. UNCHANGED <<attempt, judged, ended>> /\ pc' = "top" /\ Settled
    BY <1>11 DEF UndoEdit, NextTurn, GoesTo, Answers
  <2>2. CASE undo = <<>>
    <3>1. budget'.pokes = budget.pokes
      BY <1>1, <1>11, <2>2, CountsAre DEF UndoEdit
    <3>2. seen'.poked = seen.poked + 0 /\ seen'.streak = seen.streak
      BY <1>1, <1>11, <2>2, NotesAre DEF UndoEdit
    <3>3. seen'.poked = seen.poked
      BY <1>1, <3>2
    <3> QED BY <2>1, <3>1, <3>2, <3>3, VerdictRests DEF judged
  <2>3. CASE undo # <<>>
    <3>1. Counts("some", 0, 0) /\ Notes("some", Front(seen.kept), 0, 1)
      BY <1>11, <2>3 DEF UndoEdit
    <3>2. budget'.pokes = budget.pokes
      BY <1>1, <3>1, CountsAre
    <3>3. seen'.poked = 0 /\ seen'.streak = seen.streak
      BY <1>1, <3>1 DEF Notes, Histories
    <3> QED BY <2>1, <3>2, <3>3, PokesForgotten DEF judged
  <2> QED BY <2>2, <2>3
<1>12. CASE Unparsable
  <2>1. seen'.poked = seen.poked /\ seen'.streak = seen.streak
    BY <1>1, <1>12 DEF Unparsable, ParseFailure, Histories
  <2>2. budget'.pokes = budget.pokes
    BY <1>1, <1>12 DEF Unparsable, ParseFailure, Budgets
  <2>3. /\ UNCHANGED <<attempt, judged>> /\ pc' \notin {"push", "check"}
        /\ ended' = ended \/ ended'.why # "refusals"
    BY <1>12 DEF Unparsable, ParseFailure, GoesTo, End
  <2> QED BY <2>1, <2>2, <2>3, VerdictRests DEF judged
<1>13. ASSUME NEW f \in attempt.files, NEW text \in Texts, Write(f, text)
       PROVE  VerdictInv'
  <2> DEFINE kept == Append(seen.kept, [file |-> f, text |-> text])
  <2>1. UNCHANGED <<attempt, judged, ended>> /\ Settled
    BY <1>13 DEF Write, NextTurn, GoesTo, Answers
  <2>2. CASE staged[f] = text
    <3>1. Counts("none", 0, 0) /\ Notes("none", kept, 0, 1) /\ pc' = "top"
      BY <1>13, <2>2 DEF Write, NextTurn, GoesTo
    <3> HIDE DEF kept
    <3>2. budget'.pokes = budget.pokes
      BY <1>1, <3>1, CountsAre
    <3>3. seen'.poked = seen.poked + 0 /\ seen'.streak = seen.streak
      BY <1>1, <3>1 DEF Notes, Histories
    <3>4. seen'.poked = seen.poked
      BY <1>1, <3>3
    <3> QED BY <2>1, <3>1, <3>2, <3>3, <3>4, VerdictRests DEF judged
  <2>3. CASE staged[f] # text
    <3>1. Counts("some", 0, 0) /\ Notes("some", kept, 0, 1)
      BY <1>13, <2>3 DEF Write
    <3> HIDE DEF kept
    <3>2. budget'.pokes = budget.pokes
      BY <1>1, <3>1, CountsAre
    <3>3. seen'.poked = 0 /\ seen'.streak = seen.streak
      BY <1>1, <3>1 DEF Notes, Histories
    <3> QED BY <2>1, <3>2, <3>3, PokesForgotten DEF judged
  <2> QED BY <2>2, <2>3
<1>14. CASE Push
  <2>1. UNCHANGED <<attempt, judged, budget, seen, ended>> /\ pc \in {"push", "check"}
    BY <1>14 DEF Push, GoesTo
  <2> QED BY <1>2, <2>1
<1>15. attempt.outputs \subseteq Outputs
  BY AttemptAssumption DEF EndInv
<1>16. ASSUME NEW out \in attempt.outputs, PushRejected(out)
       PROVE  VerdictInv'
  <2>1. /\ pc \in {"push", "check"} /\ RecordVerification(out, FALSE) /\ pc' = "top"
        /\ UNCHANGED <<attempt, budget, ended>>
    BY <1>16 DEF PushRejected, NextTurn, GoesTo
  <2>2. out \in Outputs
    BY <1>15
  <2> QED BY <2>1, <2>2, RecordsKept
<1>17. ASSUME NEW out \in attempt.outputs, NEW ok \in BOOLEAN, Check(out, ok)
       PROVE  VerdictInv'
  <2>1. /\ pc \in {"push", "check"} /\ RecordVerification(out, ok) /\ UNCHANGED <<attempt, budget>>
        /\ Developing /\ ok => out = "green"
    BY <1>17 DEF Check
  <2>2. pc' \notin {"push", "check"} /\ (ended' = ended \/ ended'.outcome = "success")
    BY <1>17 DEF Check, End, NextTurn, GoesTo
  <2>3. out \in Outputs
    BY <1>15
  <2> QED BY <2>1, <2>2, <2>3, RecordsKept
<1>18. CASE Fails
  <2>1. UNCHANGED <<attempt, judged, budget, seen>> /\ pc' = "closing" /\ ended'.why # "refusals"
    BY <1>18 DEF Fails, End
  <2> QED BY <1>2, <2>1
<1>19. CASE ReleaseBox \/ ReapBox
  <2>1. /\ UNCHANGED <<attempt, judged, budget, seen, ended>>
        /\ pc' \in {"push", "check"} => pc \in {"push", "check"}
    BY <1>19 DEF ReleaseBox, ReapBox, GoesTo
  <2> QED BY <1>2, <2>1
<1>20. ASSUME NEW free \in BOOLEAN, NEW onTest \in BOOLEAN, Refuse(free, onTest)
       PROVE  VerdictInv'
  BY <1>20, RefusalsKept
<1> QED BY <1>3, <1>4, <1>5, <1>6, <1>7, <1>8, <1>9, <1>10, <1>11, <1>12, <1>13, <1>14, <1>16,
        <1>17, <1>18, <1>19, <1>20
        DEF Next, Step, Turn, Verify

\* The failures that no compiler attributes, which are worth asking about.
Unattributed(S) == {o \in S : ~HasCompileErrors(o)}

LEMMA AsksKept ==
  ASSUME AskInv, TurnInv, EndInv, Next
  PROVE  AskInv'
<1>1. /\ asks \in 0..MaxRefereeAsks /\ sighted \subseteq Outputs /\ seen \in Histories
      /\ asks + Cardinality(Unattributed(sighted)) <= seen.soft
      /\ seen.soft \in Nat /\ MaxRefereeAsks \in Nat /\ seen.kept \in Seq(Edits)
  BY BoundsAssumption DEF AskInv, TurnInv, Histories, Unattributed
<1>2. IsFiniteSet(Unattributed(sighted)) /\ Cardinality(Unattributed(sighted)) \in Nat
  BY <1>1, FailuresAreFinite, FS_CardinalityType DEF Unattributed
<1>3. ASSUME UNCHANGED <<asks, sighted>>, seen'.soft = seen.soft
      PROVE  AskInv'
  BY <1>3 DEF AskInv
<1>4. CASE ConsultReferee
  <2>1. /\ asks' = asks + 1 /\ sighted' = sighted \ {last} /\ seen' = seen
        /\ asks < MaxRefereeAsks /\ last \in Unattributed(sighted)
    BY <1>4 DEF ConsultReferee, WorthAsking, Asked, Unattributed
  <2>2. Unattributed(sighted') = Unattributed(sighted) \ {last}
    BY <2>1 DEF Unattributed
  <2>3. Cardinality(Unattributed(sighted')) = Cardinality(Unattributed(sighted)) - 1
    BY <1>2, <2>1, <2>2, FS_RemoveElement
  <2>4. asks' \in 0..MaxRefereeAsks /\ asks' + Cardinality(Unattributed(sighted')) <= seen.soft
    BY <1>1, <1>2, <2>1, <2>3
  <2> QED BY <1>1, <2>1, <2>4 DEF AskInv, Unattributed
<1>5. ASSUME NEW out \in Outputs, NEW ok, RecordVerification(out, ok), asks' = asks
      PROVE  AskInv'
  <2>1. CASE Passes(out, ok)
    BY <1>3, <1>5, <2>1 DEF RecordVerification
  <2>2. CASE ~Passes(out, ok)
    <3> DEFINE more == IF HasCompileErrors(out) THEN 0 ELSE 1
               soft == seen.soft + more
               streak == IF InTestsOnly(out) THEN UpTo(MinSpecBrokenTries, seen.streak + 1) ELSE 0
    <3>1. seen' = [seen EXCEPT !.soft = soft, !.streak = streak] /\ sighted' = sighted \cup {out}
      BY <1>5, <2>2 DEF RecordVerification
    <3>2. seen'.soft = soft
      <4> HIDE DEF soft, streak
      <4> QED BY <1>1, <3>1 DEF Histories
    <3>3. CASE HasCompileErrors(out)
      <4>1. Unattributed(sighted') = Unattributed(sighted) /\ soft = seen.soft
        BY <1>1, <3>1, <3>3 DEF Unattributed
      <4> HIDE DEF soft
      <4> QED BY <1>1, <1>5, <3>1, <3>2, <4>1 DEF AskInv, Unattributed
    <3>4. CASE ~HasCompileErrors(out)
      <4>1. Unattributed(sighted') = Unattributed(sighted) \cup {out} /\ soft = seen.soft + 1
        BY <3>1, <3>4 DEF Unattributed
      <4>2. \/ Cardinality(Unattributed(sighted')) = Cardinality(Unattributed(sighted))
            \/ Cardinality(Unattributed(sighted')) = Cardinality(Unattributed(sighted)) + 1
        BY <1>2, <4>1, FS_AddElement
      <4>3. Cardinality(Unattributed(sighted')) \in Nat
        BY <1>2, <4>1, FS_AddElement, FS_CardinalityType
      <4> HIDE DEF soft
      <4>4. asks + Cardinality(Unattributed(sighted')) <= soft
        BY <1>1, <1>2, <4>1, <4>2, <4>3
      <4> QED BY <1>1, <1>5, <3>1, <3>2, <4>4 DEF AskInv, Unattributed
    <3> QED BY <3>3, <3>4
  <2> QED BY <2>1, <2>2
<1>6. attempt.outputs \subseteq Outputs
  BY AttemptAssumption DEF EndInv
<1>7. CASE Acquire \/ Survey \/ Preflight
  BY <1>3, <1>7 DEF Acquire, Survey, Preflight, Fails, judged
<1>8. CASE EndOnBrokenSpec \/ GiveUp \/ ChatFails \/ ResetAgent \/ ReleaseBox \/ ReapBox
  BY <1>3, <1>8 DEF EndOnBrokenSpec, GiveUp, ChatFails, ResetAgent, ReleaseBox, ReapBox, judged
<1>9. ASSUME UNCHANGED <<asks, sighted>>, NEW progress, NEW kept, NEW poked, NEW charge,
             Notes(progress, kept, poked, charge)
      PROVE  AskInv'
  <2>1. seen'.soft = seen.soft
    BY <1>1, <1>9 DEF Notes, Histories
  <2> QED BY <1>3, <1>9, <2>1
<1>10. CASE ReadFiles \/ UndoEdit \/ Finish
  BY <1>9, <1>10 DEF ReadFiles, UndoEdit, Finish, Read, judged
<1>11. CASE Unparsable
  <2>1. seen'.soft = seen.soft
    BY <1>1, <1>11 DEF Unparsable, ParseFailure, Histories
  <2> QED BY <1>3, <1>11, <2>1 DEF Unparsable, judged
<1>12. CASE \E f \in attempt.files, text \in Texts : Write(f, text)
  BY <1>9, <1>12 DEF Write, judged
<1>13. CASE \E free, onTest \in BOOLEAN : Refuse(free, onTest)
  BY <1>9, <1>13 DEF Refuse, judged
<1>14. CASE Verify
  BY <1>3, <1>5, <1>6, <1>14 DEF Verify, Push, PushRejected, Check, Fails, judged
<1> QED BY <1>4, <1>7, <1>8, <1>10, <1>11, <1>12, <1>13, <1>14 DEF Next, Step, Turn

-----------------------------------------------------------------------------
(* The theorems.                                                           *)

LEMMA AttemptStarts ==
  ASSUME Init
  PROVE  AttemptInv
<1>1. LeaseInv
  <2>1. /\ leaseID = 0 /\ live = {} /\ adrift = {} /\ born = 0 /\ faults = attempt.faults
        /\ pc # "over" /\ attempt \in Attempts
    BY DEF Init, NoSandbox, NoLease
  <2>2. attempt.faults \in Nat
    BY <2>1, AttemptAssumption
  <2>3. LeasesTypeOK
    BY <2>1, <2>2 DEF LeasesTypeOK
  <2> QED BY <2>1, <2>3 DEF LeaseInv, NoLease
<1>2. EndInv
  BY DEF Init, EndInv, Steps, Reasons
<1>3. TurnInv
  <2>1. MaxTotalIterations \in Nat /\ MaxTurns \in Nat /\ MaxAgentResets \in Nat
        /\ MaxTestEditRefusals \in Nat
    BY BoundsAssumption
  <2>2. budget \in Budgets /\ budget.refunded = 0
    <3>1. 0 \in 0..MaxAgentResets /\ 0 \in 0..MaxTestEditRefusals /\ 0 \in Nat
      BY <2>1
    <3>2. budget = [refunded |-> 0, reads |-> 0, refusals |-> 0, parseFails |-> 0,
                    resets |-> 0, lastReset |-> 0, pokes |-> 0]
      BY DEF Init
    <3>3. budget \in Budgets
      BY <3>1, <3>2, Zenon DEF Budgets
    <3> QED BY <3>2, <3>3
  <2>3. seen \in Histories /\ seen.charged = 0
    <3>1. 0 \in Nat /\ <<>> \in Seq(Edits)
      OBVIOUS
    <3>2. seen = [kept |-> <<>>, poked |-> 0, idle |-> 0, charged |-> 0, soft |-> 0,
                  streak |-> 0]
      BY DEF Init
    <3>3. seen \in Histories
      BY <3>1, <3>2, Zenon DEF Histories
    <3> QED BY <3>2, <3>3
  <2>4. n = 1 /\ 1 \in 1..(MaxTotalIterations + 1)
    <3>1. 1 \in 1..(MaxTotalIterations + 1)
      BY <2>1
    <3> QED BY <3>1 DEF Init
  <2>5. pc = "boot" /\ ended.why # "budget"
    BY DEF Init
  <2>6. n = 1 + seen.charged + budget.refunded /\ seen.charged <= MaxTurns
    BY <2>1, <2>2, <2>3, <2>4
  <2> QED BY <2>2, <2>3, <2>4, <2>5, <2>6 DEF TurnInv
<1>4. WorkInv
  <2>1. Nothing \in Tree
    BY TreesAre
  <2>2. Len(<<>>) = 0 /\ <<>> \in Seq(Tree) /\ MaxUndoDepth \in Nat
    BY BoundsAssumption
  <2>3. staged = Nothing /\ branch = Nothing /\ dirty = Nothing /\ undo = <<>>
        /\ seen.kept = <<>> /\ pc = "boot" /\ ended.outcome = ""
    BY DEF Init
  <2>4. MadeBy(<<>>, 0, Nothing)
    BY MadeFromNothing
  <2>5. MadeBy(seen.kept, Len(seen.kept), staged)
    BY <2>2, <2>3, <2>4
  <2>6. /\ undo \in Seq(Tree) /\ Len(undo) = 0 /\ Len(undo) <= MaxUndoDepth
        /\ Len(undo) <= Len(seen.kept) /\ \A i \in 1..Len(undo) : FALSE
    <3>1. 0 <= MaxUndoDepth /\ 0 <= 0 /\ \A i \in 1..0 : FALSE
      BY <2>2
    <3> QED BY <2>2, <2>3, <3>1, Zenon
  <2> QED BY <2>1, <2>3, <2>5, <2>6 DEF WorkInv
<1>5. VerdictInv
  <2>1. last = "" /\ verdict = NoVerdict /\ seen.streak = 0 /\ seen.poked = 0 /\ budget.pokes = 0
        /\ pc = "boot" /\ ended.why = ""
    BY DEF Init
  <2>2. Grounded(last, verdict, seen.streak)
    <3>1. Grounded("", NoVerdict, 0)
      <4> DEFINE v == NoVerdict
      <4>1. v \in Verdicts /\ v.broken = "" /\ v = NoVerdict
        BY NoVerdictIs
      <4>2. v.tries <= 0
        <5>1. v.tries = 0
          BY NoVerdictIs
        <5> QED BY <5>1
      <4> HIDE DEF v
      <4> QED BY <4>1, <4>2 DEF Grounded
    <3> QED BY <2>1, <3>1
  <2>3. PokesFit(seen.poked, budget.pokes, verdict)
    <3>1. 0 <= 0 /\ ~(0 >= MaxTestEditRefusals)
      BY BoundsAssumption
    <3>2. PokesFit(0, 0, verdict)
      BY <3>1 DEF PokesFit
    <3> QED BY <2>1, <3>2
  <2> QED BY <2>1, <2>2, <2>3 DEF VerdictInv, HandBackReachable
<1>6. AskInv
  <2>1. asks = 0 /\ sighted = {} /\ seen.soft = 0
    BY DEF Init
  <2>2. {o \in {} : ~HasCompileErrors(o)} = {}
    OBVIOUS
  <2> QED BY <2>1, <2>2, FS_EmptySet, BoundsAssumption DEF AskInv
<1> QED BY <1>1, <1>2, <1>3, <1>4, <1>5, <1>6 DEF AttemptInv

LEMMA AttemptGoesOn ==
  ASSUME AttemptInv, [Next]_vars
  PROVE  AttemptInv'
<1>1. CASE Next
  <2>1. verdict \in Verdicts
    BY DEF AttemptInv, VerdictInv, Grounded
  <2> QED BY <1>1, <2>1, LeasesKept, EndsKept, TurnsKept, WorkKept, VerdictKept, AsksKept
          DEF AttemptInv
<1>2. CASE UNCHANGED vars
  <2>1. /\ UNCHANGED <<attempt, pc, ended, n, budget, staged, undo, branch, dirty>>
        /\ UNCHANGED <<last, sighted, verdict, asks, seen, leaseID, live, adrift, born, faults>>
    BY <1>2 DEF vars, moving, leases, work, judged
  <2>2. LeaseInv' /\ EndInv' /\ TurnInv'
    BY <2>1 DEF AttemptInv, LeaseInv, LeasesTypeOK, NothingHeld, EndInv, TurnInv
  <2>3. WorkInv'
    BY <2>1, WorkRests DEF AttemptInv, WorkInv
  <2>4. VerdictInv'
    BY <2>1, VerdictRests DEF AttemptInv
  <2>5. AskInv'
    BY <2>1 DEF AttemptInv, AskInv
  <2> QED BY <2>2, <2>3, <2>4, <2>5 DEF AttemptInv
<1> QED BY <1>1, <1>2

LEMMA AttemptHolds == Spec => []AttemptInv
BY AttemptStarts, AttemptGoesOn, PTL DEF Spec

LEMMA LastOfMany ==
  ASSUME NEW S \in SUBSET Nat, NEW i \in S, \A j \in S : j <= i
  PROVE  Max(S) = i
<1>1. i \in S /\ \A j \in S : i >= j
  BY SMT
<1>2. \A y : y \in S /\ (\A j \in S : y >= j) => y = i
  BY <1>1
<1> QED BY <1>1, <1>2 DEF Max

\* What is staged is what the accepted edits that were not undone wrote last.
LEMMA StagedAsWritten ==
  ASSUME AttemptInv, NEW f \in Files
  PROVE  Written(f) = staged[f]
<1> DEFINE kept == seen.kept
           mine == {i \in DOMAIN kept : kept[i].file = f}
<1>1. kept \in Seq(Edits) /\ MadeBy(kept, Len(kept), staged) /\ DOMAIN kept = 1..Len(kept)
      /\ Len(kept) \in Nat
  BY LenProperties DEF AttemptInv, TurnInv, Histories, WorkInv
<1>2. Written(f) = IF mine = {} THEN 0 ELSE kept[Max(mine)].text
  BY DEF Written
<1> HIDE DEF kept
<1>3. CASE staged[f] = 0 /\ \A i \in 1..Len(kept) : kept[i].file # f
  BY <1>1, <1>2, <1>3
<1>4. ASSUME NEW i \in 1..Len(kept), kept[i].file = f, staged[f] = kept[i].text,
             \A j \in i + 1..Len(kept) : kept[j].file # f
      PROVE  Written(f) = staged[f]
  <2>1. i \in mine /\ mine \in SUBSET Nat
    BY <1>1, <1>4
  <2>2. \A j \in mine : j <= i
    BY <1>1, <1>4
  <2> HIDE DEF mine
  <2>3. Max(mine) = i
    BY <2>1, <2>2, LastOfMany
  <2> QED BY <1>2, <1>4, <2>1, <2>3
<1> QED BY <1>1, <1>3, <1>4 DEF MadeBy

(* An attempt that succeeds has on its branch every file it wrote, as it    *)
(* wrote it last (internal/agent/dev: stage.go, edits.go, verify.go): for   *)
(* any number of files and turns, whatever was undone, whichever pushes     *)
(* failed and however often the container was replaced.                     *)
THEOREM WorkIsKept == Spec => []NothingWrittenIsLost
<1>1. ASSUME AttemptInv
      PROVE  NothingWrittenIsLost
  <2>1. ended.outcome = "success" => \A f \in Files : staged[f] # 0 => branch[f] = staged[f]
    BY <1>1 DEF AttemptInv, WorkInv
  <2> QED BY <1>1, <2>1, StagedAsWritten DEF NothingWrittenIsLost
<1> QED BY <1>1, AttemptHolds, PTL

(* The books of an attempt balance for any bounds: its types, the grounds   *)
(* of a verdict, the refusals that earn a hand-back, the turns it is        *)
(* charged, the asks of the referee and the leases it holds.                *)
THEOREM BooksAreRight == Spec => []BooksBalance
<1>1. ASSUME AttemptInv
      PROVE  BooksBalance
  <2>1. LeaseInv /\ EndInv /\ TurnInv /\ WorkInv /\ VerdictInv /\ AskInv
    BY <1>1 DEF AttemptInv
  <2>2. TypeOK
    BY <2>1 DEF TypeOK, LeaseInv, EndInv, Steps, TurnInv, Budgets, WorkInv, VerdictInv,
                Grounded, Verdicts, AskInv
  <2>3. VerdictHasGrounds /\ HandBackReachable
    BY <2>1 DEF VerdictInv, Grounded, VerdictHasGrounds
  <2>4. BudgetCountsWork /\ NoLeaseLeaks
    BY <2>1 DEF TurnInv, BudgetCountsWork, LeaseInv, NoLeaseLeaks
  <2>5. OneAskPerFailure
    <3> DEFINE c == Cardinality({o \in sighted : ~HasCompileErrors(o)})
    <3>1. c \in Nat
      BY <2>1, FailuresAreFinite, FS_CardinalityType DEF AskInv
    <3>2. asks \in Nat /\ asks + c <= seen.soft /\ seen.soft \in Nat
      BY <2>1, BoundsAssumption DEF AskInv, TurnInv, Histories
    <3> HIDE DEF c
    <3> QED BY <3>1, <3>2 DEF OneAskPerFailure
  <2> QED BY <2>2, <2>3, <2>4, <2>5 DEF BooksBalance
<1> QED BY <1>1, AttemptHolds, PTL
=============================================================================
