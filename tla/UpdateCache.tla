----------------------------- MODULE UpdateCache -----------------------------
(***************************************************************************)
(* scripts/check-update.mjs: runs of the update checker and of its --ack   *)
(* form share one cache directory and no lock.  A run reserves a           *)
(* generation, opens a pending directory for it, promotes a claim, and     *)
(* commits its record by renaming the directory; runs that stall past      *)
(* their lease are retired and fenced by later generations.  Every action  *)
(* is one read or one rename of the directory; a run may be killed between *)
(* any two.                                                                *)
(***************************************************************************)
EXTENDS UpdateNotice

CONSTANTS
  Checkers,     \* runs without arguments
  Ackers,       \* runs with --ack
  MaxGen,       \* bound: generations
  MaxTime,      \* bound: readings of the clock
  Scenes,       \* which runs there are, what is served, whether runs overlap
  MaxTurns,     \* attempts of promoteOperationClaim, 8 in the code
  MaxRounds     \* rounds an --ack run waits before its deadline

Run == Checkers \cup Ackers
Gen == 1..MaxGen

ASSUME CacheAssumption ==
  /\ Checkers \cap Ackers = {}
  /\ MaxGen \in Nat /\ MaxTime \in Nat
  /\ Scenes \subseteq [cast : SUBSET (Checkers \cup Ackers), served : SUBSET Release,
                      overlap : BOOLEAN, span : 0..MaxTime,
                      mortal : SUBSET (Checkers \cup Ackers), stalls : Nat]
  /\ MaxTurns \in Nat \ {0, 1} /\ MaxRounds \in Nat

VARIABLES
  reserved,   \* generations with a reserved- directory
  op,         \* what the generation's directory is called now
  file,       \* the state.json inside it
  lapsed,     \* pending generations whose lease has run out
  claim,      \* the generation that owns active-claim, if any
  retired,    \* generations whose claim lies in its retirement directory
  clock,
  scene,      \* the scene being played
  run,        \* where each run stands, and what it knows
  alone       \* history: the run that has the directory to itself

dirs == <<reserved, op, file, lapsed, claim, retired>>
vars == <<dirs, clock, scene, run, alone>>

Kinds == {"none", "pending", "committed", "fenced", "cancelled"}
Steps == {"idle", "survey", "reserve", "open", "own", "rank", "look",
          "inspect", "retire", "moveaway", "settle", "promote", "confirm",
          "reread", "owned", "fetch", "commit", "list", "fence", "hold",
          "decide", "write", "publish", "cancel", "declined", "done", "dead"}

RunState ==
  [pc : Steps, gen : 0..MaxGen, now : 0..MaxTime, wants : SUBSET Release,
   target : SUBSET Gen, todo : SUBSET Gen, plan : Notices, answer : Answers,
   next : {"done", "declined"}, turns : 0..MaxTurns, rounds : 0..MaxRounds]

Unborn == [pc |-> "idle", gen |-> 0, now |-> 0, wants |-> {}, target |-> {},
           todo |-> {}, plan |-> EmptyState, answer |-> Silent(""),
           next |-> "done", turns |-> 0, rounds |-> 0]

At(p, step) == run[p].pc = step
Live(p) == run[p].pc \notin {"idle", "done", "dead"}

TypeOK ==
  /\ reserved \subseteq Gen /\ op \in [Gen -> Kinds] /\ file \in [Gen -> Notices]
  /\ lapsed \subseteq Gen /\ claim \subseteq Gen /\ retired \subseteq Gen
  /\ clock \in 0..MaxTime /\ scene \in Scenes
  /\ run \in [Run -> RunState]
  /\ alone \subseteq Run

Init ==
  /\ reserved = {} /\ lapsed = {} /\ claim = {} /\ retired = {}
  /\ op = [g \in Gen |-> "none"]
  /\ file = [g \in Gen |-> EmptyState]
  /\ clock = 0 /\ scene \in Scenes
  /\ run = [p \in Run |-> Unborn]
  /\ alone = {}

-----------------------------------------------------------------------------
(* What a run reads.                                                       *)

\* readState: the newest committed generation that can be read.
Committed == {g \in Gen : op[g] = "committed" /\ Readable(file[g])}
Newest == {g \in Committed : \A h \in Committed : h <= g}
Current == IF Newest = {} THEN EmptyState ELSE file[CHOOSE g \in Newest : TRUE]

\* operationIsActive: its directory is still pending and within the lease.
Active(g) == op[g] = "pending" /\ g \notin lapsed

Pending(p) == op[run[p].gen] = "pending"

\* operationOwnsActiveClaim
Owns(p) == claim = {run[p].gen} /\ Active(run[p].gen)

\* operationIsSuperseded: a reservation is enough, and it is never removed.
Superseded(p) == \E g \in reserved : g > run[p].gen

-----------------------------------------------------------------------------
(* How a run goes on.                                                      *)

Set(p, r) == run' = [run EXCEPT ![p] = r]
Go(p, step) == Set(p, [run[p] EXCEPT !.pc = step])

\* Its answer is printed; nothing else of a run outlives it.
Finish(p, a) == Set(p, [Unborn EXCEPT !.pc = "done", !.answer = a])

\* cancelOperation comes first, then the step that is named.
Leave(p, a, step) ==
  Set(p, [run[p] EXCEPT !.pc = "cancel", !.answer = a, !.next = step])

InProgress == Silent("check-in-progress")

\* The directory token lost its trust: nothing is cleaned up on the way out.
Abandon(p) == Finish(p, Silent("cache-unavailable"))

\* commitOperation found itself fenced: a check answers, an --ack tries again.
Outrun(p) == IF p \in Checkers THEN Finish(p, InProgress) ELSE Go(p, "declined")

\* The claim was lost before anything was written.
LoseCommit(p) == Leave(p, InProgress, IF p \in Checkers THEN "done" ELSE "declined")

-----------------------------------------------------------------------------
(* acquireOperation                                                        *)

Quiet(p) == /\ \A q \in Run \ {p} : ~Live(q)
            /\ \A g \in Gen : ~Active(g)

Start(p) ==
  /\ At(p, "idle") /\ p \in scene.cast
  /\ scene.overlap \/ \A q \in Run : ~Live(q)
  /\ \/ /\ p \in Checkers
        /\ IF Fresh(Current, clock) THEN Finish(p, ResultFor(Current))
           ELSE Set(p, [run[p] EXCEPT !.pc = "survey", !.now = clock])
     \/ /\ p \in Ackers
        /\ \E d \in scene.served : Set(p, [run[p] EXCEPT !.pc = "survey", !.wants = {d}])
  /\ alone' = IF Quiet(p) THEN {p} ELSE {}
  /\ UNCHANGED <<dirs, clock, scene>>

\* inspectActiveClaim and hasActivePendingOperation: an active claim is that of
\* an active pending directory, so the second read decides.
Survey(p) ==
  /\ At(p, "survey")
  /\ Go(p, IF \E g \in Gen : Active(g) THEN "declined" ELSE "reserve")
  /\ UNCHANGED <<dirs, clock, scene, alone>>

\* reserveOperation: mkdir decides who gets the first generation not yet taken.
Reserve(p) ==
  /\ At(p, "reserve")
  /\ \E g \in Gen \ reserved :
       /\ \A h \in Gen \ reserved : g <= h
       /\ reserved' = reserved \cup {g}
       /\ Set(p, [run[p] EXCEPT !.pc = "open", !.gen = g])
  /\ UNCHANGED <<op, file, lapsed, claim, retired, clock, scene, alone>>

Open(p) ==
  /\ At(p, "open")
  /\ op' = [op EXCEPT ![run[p].gen] = "pending"]
  /\ Go(p, "own")
  /\ UNCHANGED <<reserved, file, lapsed, claim, retired, clock, scene, alone>>

\* Writing owner.json renews the lease; a directory fenced meanwhile is gone.
Own(p) ==
  /\ At(p, "own")
  /\ \/ /\ Pending(p)
        /\ lapsed' = lapsed \ {run[p].gen}
        /\ Go(p, "rank")
     \/ /\ ~Pending(p)
        /\ Abandon(p) \/ Go(p, "declined")
        /\ UNCHANGED lapsed
  /\ UNCHANGED <<reserved, op, file, claim, retired, clock, scene, alone>>

Rank(p) ==
  /\ At(p, "rank")
  /\ IF Superseded(p) THEN Leave(p, InProgress, "declined")
     ELSE Set(p, [run[p] EXCEPT !.pc = "look", !.turns = 0])
  /\ UNCHANGED <<dirs, clock, scene, alone>>

-----------------------------------------------------------------------------
(* promoteOperationClaim                                                   *)

Look(p) ==
  /\ At(p, "look")
  /\ IF run[p].turns = MaxTurns \/ Superseded(p)
     THEN Leave(p, InProgress, "declined") ELSE Go(p, "inspect")
  /\ UNCHANGED <<dirs, clock, scene, alone>>

\* A claim is busy, or to be retired, or there is none.
\* A slip: whose claim it is does not matter.
AnyClaimMutant(p) ==
  /\ At(p, "inspect")
  /\ IF claim # {} THEN Leave(p, InProgress, "declined") ELSE Go(p, "promote")
  /\ UNCHANGED <<dirs, clock, scene, alone>>
Inspect(p) ==
  /\ At(p, "inspect")
  /\ IF \E g \in claim : Active(g) \/ g > run[p].gen
     THEN Leave(p, InProgress, "declined")
     ELSE Set(p, [run[p] EXCEPT !.target = claim,
                                !.pc = IF claim = {} THEN "promote" ELSE "retire"])
  /\ UNCHANGED <<dirs, clock, scene, alone>>

Again(p) == Set(p, [run[p] EXCEPT !.pc = "look", !.turns = @ + 1, !.target = {}])

\* retireActiveClaim compares the identity of the claim before it moves it ...
Retire(p) ==
  /\ At(p, "retire")
  /\ \/ claim = run[p].target /\ Go(p, "moveaway")
     \/ claim = {} /\ Again(p)
     \/ claim \notin {{}, run[p].target} /\ Abandon(p)
  /\ UNCHANGED <<dirs, clock, scene, alone>>

\* ... and the rename moves what is there by then, unless the retirement
\* directory of the inspected generation is taken.
\* A slip: the retirement directory may be there already.
OverwriteMutant(p) ==
  /\ At(p, "moveaway")
  /\ IF claim = {} THEN Again(p) /\ UNCHANGED <<claim, retired>>
     ELSE /\ claim' = {} /\ retired' = retired \cup run[p].target
          /\ IF claim = run[p].target THEN Go(p, "settle") ELSE Abandon(p)
  /\ UNCHANGED <<reserved, op, file, lapsed, clock, scene, alone>>
MoveAway(p) ==
  /\ At(p, "moveaway")
  /\ IF claim = {} \/ run[p].target \cap retired # {}
     THEN Again(p) /\ UNCHANGED <<claim, retired>>
     ELSE /\ claim' = {} /\ retired' = retired \cup run[p].target
          /\ IF claim = run[p].target THEN Go(p, "settle") ELSE Abandon(p)
  /\ UNCHANGED <<reserved, op, file, lapsed, clock, scene, alone>>

\* The rename is verified: another claim in the old place is a broken cache.
Settle(p) ==
  /\ At(p, "settle")
  /\ IF claim = {} THEN Again(p) ELSE Abandon(p)
  /\ UNCHANGED <<dirs, clock, scene, alone>>

Promote(p) ==
  /\ At(p, "promote")
  /\ \/ claim = {} /\ claim' = {run[p].gen} /\ Go(p, "confirm")
     \/ claim # {} /\ Again(p) /\ UNCHANGED claim
  /\ UNCHANGED <<reserved, op, file, lapsed, retired, clock, scene, alone>>

\* The promotion is verified, then the run's own lease is looked at.
Confirm(p) ==
  /\ At(p, "confirm")
  /\ \/ claim # {run[p].gen} /\ Abandon(p)
     \/ Owns(p) /\ Go(p, IF p \in Checkers THEN "reread" ELSE "commit")
     \/ /\ claim = {run[p].gen} /\ ~Active(run[p].gen)
        /\ Leave(p, InProgress, "declined")
  /\ UNCHANGED <<dirs, clock, scene, alone>>

-----------------------------------------------------------------------------
(* checkForUpdate with the operation in hand                               *)

\* A slip: the record is not read again under the claim.
TrustingMutant(p) == At(p, "reread") /\ Go(p, "owned") /\ UNCHANGED <<dirs, clock, scene, alone>>
Reread(p) ==
  /\ At(p, "reread")
  /\ IF Fresh(Current, run[p].now) THEN Leave(p, ResultFor(Current), "done")
     ELSE Go(p, "owned")
  /\ UNCHANGED <<dirs, clock, scene, alone>>

Owned(p) ==
  /\ At(p, "owned")
  /\ IF Owns(p) THEN Go(p, "fetch") ELSE Leave(p, InProgress, "declined")
  /\ UNCHANGED <<dirs, clock, scene, alone>>

\* fetchCandidate: a release, or no usable answer within the time limit.
Fetch(p) ==
  /\ At(p, "fetch")
  /\ \E R \in {{}} \cup {{r} : r \in scene.served} :
       Set(p, [run[p] EXCEPT !.pc = "commit", !.wants = R])
  /\ UNCHANGED <<dirs, clock, scene, alone>>

-----------------------------------------------------------------------------
(* commitOperation                                                         *)

Commit(p) ==
  /\ At(p, "commit")
  /\ IF Owns(p) THEN Go(p, "list") ELSE LoseCommit(p)
  /\ UNCHANGED <<dirs, clock, scene, alone>>

\* fenceLowerOperations: the list is read once, the directories renamed in turn.
List(p) ==
  /\ At(p, "list")
  /\ Set(p, [run[p] EXCEPT !.pc = "fence",
                !.todo = {g \in Gen : op[g] = "pending" /\ g < run[p].gen}])
  /\ UNCHANGED <<dirs, clock, scene, alone>>

\* A slip: the stalled runs are counted and left as they are.
UnfencedMutant(p) ==
  At(p, "fence") /\ Go(p, "hold") /\ UNCHANGED <<dirs, clock, scene, alone>>
Fence(p) ==
  /\ At(p, "fence")
  /\ \/ run[p].todo = {} /\ Go(p, "hold") /\ UNCHANGED op
     \/ \E g \in run[p].todo :
          /\ \A h \in run[p].todo : g <= h
          /\ op' = [op EXCEPT ![g] = IF @ = "pending" THEN "fenced" ELSE @]
          /\ Set(p, [run[p] EXCEPT !.todo = @ \ {g}])
  /\ UNCHANGED <<reserved, file, lapsed, claim, retired, clock, scene, alone>>

Hold(p) ==
  /\ At(p, "hold")
  /\ IF Owns(p) THEN Go(p, "decide") ELSE LoseCommit(p)
  /\ UNCHANGED <<dirs, clock, scene, alone>>

Decisions(p) ==
  IF p \in Ackers THEN {AcknowledgeDecision(Current, d) : d \in run[p].wants}
  ELSE IF run[p].wants = {} THEN {FailureDecision(Current, run[p].now)}
  ELSE {FetchDecision(Current, run[p].now, delay, r) :
          delay \in SuccessDelays, r \in run[p].wants}

Decide(p) ==
  /\ At(p, "decide")
  /\ \E d \in Decisions(p) :
       \/ d.state = {} /\ Leave(p, d.answer, "done")
       \/ \E s \in d.state :
            Set(p, [run[p] EXCEPT !.pc = "write", !.plan = s, !.answer = d.answer])
  /\ UNCHANGED <<dirs, clock, scene, alone>>

\* The record goes to a temporary file and is renamed to state.json.
Write(p) ==
  /\ At(p, "write")
  /\ \/ /\ Pending(p)
        /\ file' = [file EXCEPT ![run[p].gen] = run[p].plan]
        /\ Go(p, "publish")
     \/ ~Pending(p) /\ (Outrun(p) \/ Abandon(p)) /\ UNCHANGED file
  /\ UNCHANGED <<reserved, op, lapsed, claim, retired, clock, scene, alone>>

Publish(p) ==
  /\ At(p, "publish")
  /\ \/ /\ Pending(p)
        /\ op' = [op EXCEPT ![run[p].gen] = "committed"]
        /\ Finish(p, run[p].answer)
     \/ ~Pending(p) /\ Outrun(p) /\ UNCHANGED op
  /\ UNCHANGED <<reserved, file, lapsed, claim, retired, clock, scene, alone>>

-----------------------------------------------------------------------------
(* cancelOperation, and the way out                                        *)

Cancel(p) ==
  /\ At(p, "cancel")
  /\ op' = [op EXCEPT ![run[p].gen] = IF @ = "pending" THEN "cancelled" ELSE @]
  /\ IF run[p].next = "done" THEN Finish(p, run[p].answer) ELSE Go(p, "declined")
  /\ UNCHANGED <<reserved, file, lapsed, claim, retired, clock, scene, alone>>

\* A check may still show what the record says; an --ack waits its turn.
Declined(p) ==
  /\ At(p, "declined")
  /\ \/ p \in Checkers /\ Finish(p, LoserResult(Current))
     \/ p \in Ackers /\ Finish(p, InProgress)
     \/ /\ p \in Ackers /\ run[p].rounds < MaxRounds
        /\ Set(p, [Unborn EXCEPT !.pc = "survey", !.wants = run[p].wants,
                                 !.rounds = run[p].rounds + 1])
  /\ UNCHANGED <<dirs, clock, scene, alone>>

-----------------------------------------------------------------------------
(* What happens around the runs.                                           *)

\* A stalled or killed run outlives its lease; the clock may also jump.
Lapse ==
  /\ Cardinality(lapsed) < scene.stalls
  /\ \E g \in Gen \ lapsed :
       /\ op[g] = "pending"
       /\ lapsed' = lapsed \cup {g}
       /\ alone' = {p \in alone : run[p].gen # g}
  /\ UNCHANGED <<reserved, op, file, claim, retired, clock, scene, run>>

Tick == /\ clock < scene.span /\ clock' = clock + 1
        /\ UNCHANGED <<dirs, scene, run, alone>>

Kill(p) == /\ p \in scene.mortal /\ Live(p)
           /\ Set(p, [Unborn EXCEPT !.pc = "dead"])
           /\ UNCHANGED <<dirs, clock, scene, alone>>

Step(p) ==
  \/ Survey(p) \/ Reserve(p) \/ Open(p) \/ Own(p) \/ Rank(p)
  \/ Look(p) \/ Inspect(p) \/ Retire(p) \/ MoveAway(p) \/ Settle(p)
  \/ Promote(p) \/ Confirm(p) \/ Reread(p) \/ Owned(p) \/ Fetch(p)
  \/ Commit(p) \/ List(p) \/ Fence(p) \/ Hold(p) \/ Decide(p) \/ Write(p)
  \/ Publish(p) \/ Cancel(p) \/ Declined(p)

Next ==
  \/ \E p \in Run : Start(p) \/ Step(p) \/ Kill(p)
  \/ Lapse \/ Tick

Spec == Init /\ [][Next]_vars

-----------------------------------------------------------------------------
(* The record changes as if one run at a time took its decision on it.     *)
Board == INSTANCE UpdateBoard WITH board <- Current, Times <- 0..MaxTime
ImplementsBoard == Board!BoardSpec

(* A notice that was shown stays on record, so its acknowledgement cannot  *)
(* be refused as unknown.                                                  *)
Shown == UNION {run[p].answer.notice : p \in {q \in Run : At(q, "done")}}
ShownIsOnRecord == Shown \subseteq Current.offered \cup Current.acknowledged

(* While the lease of a fetching run holds no other run with a valid lease *)
(* is past the same point, and the record it read is still due.            *)
Fetching(p) == At(p, "fetch") /\ Active(run[p].gen)
OneFetchWhenDue ==
  \A p \in Run : Fetching(p) =>
    /\ Fresh(Current, run[p].now) => Committed \cap lapsed # {}
    /\ \A q \in Run : Fetching(q) => p = q

(* A claim whose run is within its lease is moved by nobody.               *)
LiveClaimStays ==
  [][\A g \in claim : Active(g) => claim' = claim]_vars

(* Whatever runs killed at any step left behind, once their leases are     *)
(* over a run that has the directory to itself is not turned away: it      *)
(* fails only for want of room, and then withdraws the candidate.          *)
LoneRunGetsThrough ==
  \A p \in alone : At(p, "done") =>
    /\ run[p].answer.why # "check-in-progress"
    /\ run[p].answer.why = "cache-unavailable" =>
         Current.candidate = {} /\ Current.due > 0

(* A notice that was offered can always be acknowledged within the bound.  *)
OfferedFits ==
  \A d \in Current.offered : AcknowledgeDecision(Current, d).state # {}

(* The reader can answer every notice printed: it is on record, and its    *)
(* acknowledgement has room there (check-update.mjs:129, 1521).            *)
NoticesCanBeAnswered == ShownIsOnRecord /\ OfferedFits
=============================================================================
