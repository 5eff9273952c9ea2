--------------------------- MODULE ClaimProtocol ---------------------------
(***************************************************************************)
(* One ticket and the dispatchers that race for it: how it is claimed,     *)
(* worked, routed and released, and what a restart does about the claims   *)
(* it finds (internal/dispatch, internal/platform/claim.go).               *)
(*                                                                         *)
(* A dispatcher is one stage of one host.  Every call it makes to the      *)
(* ticket store is a step of its own, so the calls of different            *)
(* dispatchers interleave as they do over the network.  The budget bounds  *)
(* the calls that fail (Lossy), the calls whose reply is lost so that the  *)
(* transport sends them again although they were applied (Resent), and the *)
(* processes that are killed or stopped.                                   *)
(***************************************************************************)
EXTENDS TicketRecord, Workflow

CONSTANTS
  Dispatchers,  \* one per stage and host
  Host, Role,   \* functions: the host and the role of each dispatcher
  Stages,       \* the routing table, a function of roles
  Endings,      \* per role, the outcomes its handler can report
  Marks,        \* the roles whose handler leaves a reset mark when it returns work
  Picky,        \* the roles whose Wants can say no after having said yes
  PlacedIn,     \* the column in which a handler that reports "handled" puts the ticket
  Conditional,  \* whether the store serves versions and honours If-Match
  MaxAttempts,
  Lossy, Resent, Killable, Stoppable, \* the faults of this run
  Budget, MaxTime, LogBound           \* bounds: faults, clock, comments at a claim

Hosts == {Host[d] : d \in Dispatchers}
InUse == {Role[d] : d \in Dispatchers}
Calls == {"get", "cas", "take", "claim", "close", "reset", "note", "move"}

Nobody == "nobody"
S(d) == Stages[Role[d]]

Destinations(d) ==
  {S(d).ready, S(d).success, S(d).exhausted, S(d).returns, Conflicted, PlacedIn} \ {NoColumn}

ASSUME ProtocolAssumption ==
  /\ IsFiniteSet(Dispatchers) /\ Nobody \notin Dispatchers
  /\ \A d \in Dispatchers : /\ Role[d] \notin {AnyRole, Unreadable}
                            /\ Host[d] # ""
                            /\ Role[d] \in DOMAIN Stages
                            /\ Endings[Role[d]] \subseteq Outcomes
                            /\ S(d).ready # NoColumn
                            /\ S(d).exhausted # NoColumn
                            /\ S(d).success # NoColumn
  /\ \A d, e \in Dispatchers : Host[d] = Host[e] /\ Role[d] = Role[e] => d = e
  /\ \A d, e \in Dispatchers : S(d).working \notin Destinations(e)
  /\ PlacedIn # NoColumn
  /\ Conditional \in BOOLEAN
  /\ Killable \in BOOLEAN
  /\ Stoppable \in BOOLEAN
  /\ MaxAttempts \in Nat \ {0}
  /\ Lossy \subseteq Calls
  /\ Resent \subseteq Calls
  /\ Budget \in Nat
  /\ MaxTime \in Nat \ {0}
  /\ LogBound \in Nat

VARIABLES
  column, log, \* the ticket in the store: its status and its comments
  fresh,       \* the dispatchers whose ETag is still the ticket's version
  now,
  host,        \* per host: "up", "stopping" (its context has ended) or "down"
  pc,          \* where each dispatcher is with this ticket
  mine,        \* on the append path, the id of the dispatcher's own claim
  seen,        \* how many comments the ticket had at the read after the claim
  out, dest,   \* what the handler reported and the column it sends the ticket to
  budget,
  failed,      \* history: the failed attempts of each role since the last reset
  unworked     \* history: the claims of each role since the last reset that were
               \* written twice, or released before the handler saw the ticket

ticket == <<column, log, fresh>>
local  == <<mine, seen, out, dest>>
vars   == <<ticket, now, host, pc, local, budget, failed, unworked>>

ControlPoints ==
  {"down", "listing", "reconcile", "forget", "requeue",          \* Reconcile
   "idle", "claim", "cas", "append", "arbitrate", "take",        \* fill, Claim
   "attribute", "verify", "relClose", "relMove",                 \* start, release
   "work", "forgive", "close", "note", "move"}                   \* work

(* The dispatcher has taken the ticket and not yet put it down.             *)
Holds(d) == pc[d] \in {"attribute", "verify", "relClose", "relMove",
                       "work", "forgive", "close", "note", "move"}

Spent(comments, role) == Attempts(PruneStale(comments, now), role)

Init ==
  /\ column \in {S(d).ready : d \in Dispatchers}
  /\ log = <<>>
  /\ fresh = {}
  /\ now = 1
  /\ host = [h \in Hosts |-> "up"]
  /\ pc = [d \in Dispatchers |-> "listing"]
  /\ mine = [d \in Dispatchers |-> 0]
  /\ seen = [d \in Dispatchers |-> 0]
  /\ out = [d \in Dispatchers |-> "success"]
  /\ dest = [d \in Dispatchers |-> NoColumn]
  /\ budget = Budget
  /\ failed = [r \in InUse |-> 0]
  /\ unworked = [r \in InUse |-> 0]

At(d, place)   == pc[d] = place
Goto(d, place) == pc' = [pc EXCEPT ![d] = place]
Stopping(d)    == host[Host[d]] = "stopping"

Fault == budget > 0 /\ budget' = budget - 1

(* A call that was applied: answered, or sent once more by withRetries.     *)
Answered(d, call, place) ==
  \/ Goto(d, place) /\ UNCHANGED budget
  \/ call \in Resent /\ Fault /\ UNCHANGED pc

(* The calls of fill and Reconcile run under the dispatcher's context, so   *)
(* once it has ended every one of them fails; those of release and of the   *)
(* end of an attempt run detached from it.                                  *)
InTime(d, call, place) == ~Stopping(d) /\ Answered(d, call, place)

(* A call that was not applied: every attempt failed, or the context ended. *)
Fails(d, call, place)   == call \in Lossy /\ Fault /\ Goto(d, place)
Stopped(d, place)       == Stopping(d) /\ Goto(d, place) /\ UNCHANGED budget
FailsOrStopped(d, call, place) == Fails(d, call, place) \/ Stopped(d, place)

Post(c)    == log' = Append(log, c) /\ fresh' = {}

PutIn(col) == column' = col /\ fresh' = {}

Claim(d) == Comment("claim", Host[d], Role[d], now)
Close(d) == Comment("close", "", Role[d], now)
Reset(kind) == Comment(kind, "", AnyRole, now)
Note     == Comment("note", "", AnyRole, now)

ClearCounts ==
  /\ failed' = [r \in InUse |-> 0]
  /\ unworked' = [r \in InUse |-> 0]
Unworked(d) == unworked' = [unworked EXCEPT ![Role[d]] = @ + 1]

(*------------------------------- fill ------------------------------------*)

(* Eligible, on the ticket as fill reads it in full.                        *)
Eligible(d) == column = S(d).ready /\ Spent(log, Role[d]) < MaxAttempts

Pick(d) ==
  /\ At(d, "idle") /\ host[Host[d]] = "up"
  /\ Eligible(d)
  /\ Len(log) < LogBound
  /\ Goto(d, "claim")
  /\ UNCHANGED <<ticket, now, host, local, budget, failed, unworked>>

(* Claim reads the ticket with its version and gives way unless it is still *)
(* in the Ready column; an absent version selects the append path.          *)
ReadForClaim(d) ==
  /\ At(d, "claim")
  /\ \/ /\ column = S(d).ready
        /\ fresh' = fresh \cup {d}
        /\ InTime(d, "get", IF Conditional THEN "cas" ELSE "append")
     \/ column # S(d).ready /\ UNCHANGED fresh /\ InTime(d, "get", "idle")
     \/ FailsOrStopped(d, "get", "idle") /\ UNCHANGED fresh
  /\ UNCHANGED <<column, log, now, host, local, failed, unworked>>

BlindWriteMutant(d) == TRUE
Current(d) == d \in fresh

(* UpdateIfVersion: a stale version is answered 412 and loses the race.     *)
CompareAndSet(d) ==
  /\ At(d, "cas")
  /\ \/ Current(d) /\ PutIn(S(d).working) /\ InTime(d, "cas", "attribute")
     \/ ~Current(d) /\ UNCHANGED <<column, fresh>> /\ InTime(d, "get", "idle")
     \/ FailsOrStopped(d, "cas", "idle") /\ UNCHANGED <<column, fresh>>
  /\ UNCHANGED <<log, now, host, local, failed, unworked>>

(* The winner's claim comment.  Claim reports its loss as an error, and     *)
(* fill then leaves the ticket alone.                                       *)
Attribute(d) ==
  /\ At(d, "attribute")
  /\ \/ Post(Claim(d)) /\ InTime(d, "claim", "verify")
     \/ FailsOrStopped(d, "claim", "idle") /\ UNCHANGED <<log, fresh>>
  /\ IF pc' = pc THEN Unworked(d) ELSE UNCHANGED unworked
  /\ UNCHANGED <<column, now, host, local, failed>>

(* claimByAppend: write a claim, read back, give way unless it is the       *)
(* oldest of its role, and only then move the ticket, unconditionally.      *)
AppendClaim(d) ==
  /\ At(d, "append")
  /\ \/ /\ Post(Claim(d)) /\ InTime(d, "claim", "arbitrate")
        /\ mine' = [mine EXCEPT ![d] = Len(log) + 1]
     \/ FailsOrStopped(d, "claim", "idle") /\ UNCHANGED <<log, fresh, mine>>
  /\ IF pc' = pc THEN Unworked(d) ELSE UNCHANGED unworked
  /\ UNCHANGED <<column, now, host, seen, out, dest, failed>>

NewestWinsMutant(d) == Newest(PruneStale(log, now), Role[d])
Winner(d) == OldestForRole(PruneStale(log, now), Role[d])

Arbitrate(d) ==
  /\ At(d, "arbitrate")
  /\ \/ InTime(d, "get", IF Winner(d) = mine[d] THEN "take" ELSE "idle")
     \/ FailsOrStopped(d, "get", "idle")
  /\ UNCHANGED <<ticket, now, host, local, failed, unworked>>

Take(d) ==
  /\ At(d, "take")
  /\ \/ PutIn(S(d).working) /\ InTime(d, "take", "verify")
     \/ FailsOrStopped(d, "take", "idle") /\ UNCHANGED <<column, fresh>>
  /\ UNCHANGED <<log, now, host, local, failed, unworked>>

(*------------------------------- start -----------------------------------*)

OverCeiling(d) == Spent(log, Role[d]) > MaxAttempts

(* The re-read after the claim: work the ticket, or put it back if it       *)
(* cannot be read, is not wanted any more, or is over the ceiling.          *)
Verify(d) ==
  /\ At(d, "verify")
  /\ \/ ~OverCeiling(d) /\ InTime(d, "get", "work")
     \/ (OverCeiling(d) \/ Role[d] \in Picky) /\ InTime(d, "get", "relClose")
     \/ FailsOrStopped(d, "get", "relClose")
  /\ seen' = [seen EXCEPT ![d] = Len(log)]
  /\ IF At(d, "relClose")' THEN Unworked(d) ELSE UNCHANGED unworked
  /\ UNCHANGED <<ticket, now, host, mine, out, dest, failed>>

ReleaseClose(d) ==
  /\ At(d, "relClose")
  /\ \/ Post(Close(d)) /\ Answered(d, "close", "relMove")
     \/ Fails(d, "close", "relMove") /\ UNCHANGED <<log, fresh>>
  /\ UNCHANGED <<column, now, host, local, failed, unworked>>

ReleaseMove(d) ==
  /\ At(d, "relMove")
  /\ \/ PutIn(S(d).ready) /\ Answered(d, "move", "idle")
     \/ Fails(d, "move", "idle") /\ UNCHANGED <<column, fresh>>
  /\ UNCHANGED <<log, now, host, local, failed, unworked>>

(*------------------------------- work ------------------------------------*)

(* The handler returns.  One that hands work back may leave a mark first,   *)
(* one that places the ticket has moved it, and once the host's context has *)
(* ended an error means the attempt was interrupted, whatever the error.    *)
Handle(d, outcome) ==
  /\ At(d, "work")
  /\ outcome \in Endings[Role[d]] \cup (IF Stopping(d) THEN {"abandoned"} ELSE {})
  /\ ~(outcome = "failed" /\ Stopping(d))
  /\ out' = [out EXCEPT ![d] = outcome]
  /\ Goto(d, IF outcome = "abandoned" THEN "forgive" ELSE "close")
  /\ IF outcome = "returned" /\ Role[d] \in Marks
       THEN Post(Reset("repair")) /\ ClearCounts
       ELSE /\ UNCHANGED <<log, unworked>>
            /\ fresh' = IF outcome = "handled" THEN {} ELSE fresh
            /\ failed' = IF outcome = "failed" THEN [failed EXCEPT ![Role[d]] = @ + 1]
                         ELSE failed
  /\ column' = IF outcome = "handled" THEN PlacedIn ELSE column
  /\ UNCHANGED <<now, host, mine, seen, dest, budget>>

ForgiveAttempt(d) ==
  /\ At(d, "forgive")
  /\ \/ Post(Reset("interrupted")) /\ ClearCounts /\ Answered(d, "reset", "close")
     \/ Fails(d, "reset", "close") /\ UNCHANGED <<log, fresh, failed, unworked>>
  /\ UNCHANGED <<column, now, host, local>>

OneMoreRetryMutant(d) == Spent(SubSeq(log, 1, seen[d]), Role[d]) <= MaxAttempts
NoOwnClaimMutant(d) == Spent(SubSeq(log, 1, seen[d]), Role[d]) + 1 < MaxAttempts
RetriesLeft(d) == Spent(SubSeq(log, 1, seen[d]), Role[d]) < MaxAttempts

Next_(d) == Destination(S(d), out[d], RetriesLeft(d))

(* The round ends before the ticket moves; a ticket the handler placed is   *)
(* not moved again, and one that goes to a person is told why first.        *)
AfterClose(d) ==
  IF Next_(d) = NoColumn THEN "idle"
  ELSE IF Next_(d) = S(d).exhausted THEN "note" ELSE "move"

NeverClosesMutant(d) ==
  /\ At(d, "close")
  /\ dest' = [dest EXCEPT ![d] = Next_(d)]
  /\ Goto(d, AfterClose(d))
  /\ UNCHANGED <<ticket, now, host, mine, seen, out, failed, unworked, budget>>

CloseClaim(d) ==
  /\ At(d, "close")
  /\ \/ Post(Close(d)) /\ Answered(d, "close", AfterClose(d))
     \/ Fails(d, "close", AfterClose(d)) /\ UNCHANGED <<log, fresh>>
  /\ dest' = [dest EXCEPT ![d] = Next_(d)]
  /\ UNCHANGED <<column, now, host, mine, seen, out, failed, unworked>>

Escalate(d) ==
  /\ At(d, "note")
  /\ \/ Post(Note) /\ Answered(d, "note", "move")
     \/ Fails(d, "note", "move") /\ UNCHANGED <<log, fresh>>
  /\ UNCHANGED <<column, now, host, local, failed, unworked>>

Advance(d) ==
  /\ At(d, "move")
  /\ \/ PutIn(dest[d]) /\ Answered(d, "move", "idle")
     \/ Fails(d, "move", "idle") /\ UNCHANGED <<column, fresh>>
  /\ UNCHANGED <<log, now, host, local, failed, unworked>>

(*----------------------------- Reconcile ---------------------------------*)

Listed(d) == column = S(d).working

ListHeld(d) ==
  /\ At(d, "listing")
  /\ \/ InTime(d, "get", IF Listed(d) THEN "reconcile" ELSE "idle")
     \/ FailsOrStopped(d, "get", "idle")
  /\ UNCHANGED <<ticket, now, host, local, failed, unworked>>

OwnClaimStands(d) == HeldByHost(log) = Host[d]

(* The re-read looks at whose claim stands, not at the column again.        *)
ReadHeld(d) ==
  /\ At(d, "reconcile")
  /\ \/ InTime(d, "get", IF OwnClaimStands(d) THEN "forget" ELSE "idle")
     \/ FailsOrStopped(d, "get", "idle")
  /\ UNCHANGED <<ticket, now, host, local, failed, unworked>>

NoResetMutant(d) ==
  /\ At(d, "forget") /\ Goto(d, "requeue")
  /\ UNCHANGED <<ticket, now, host, local, budget, failed, unworked>>

ForgetAttempt(d) ==
  /\ At(d, "forget")
  /\ \/ Post(Reset("interrupted")) /\ ClearCounts /\ InTime(d, "reset", "requeue")
     \/ FailsOrStopped(d, "reset", "requeue") /\ UNCHANGED <<log, fresh, failed, unworked>>
  /\ UNCHANGED <<column, now, host, local>>

Requeue(d) ==
  /\ At(d, "requeue")
  /\ \/ PutIn(S(d).ready) /\ InTime(d, "move", "idle")
     \/ FailsOrStopped(d, "move", "idle") /\ UNCHANGED <<column, fresh>>
  /\ UNCHANGED <<log, now, host, local, failed, unworked>>

(*------------------------- processes and time ----------------------------*)

Down(h) ==
  /\ host' = [host EXCEPT ![h] = "down"]
  /\ pc' = [d \in Dispatchers |-> IF Host[d] = h THEN "down" ELSE pc[d]]

Kill(h) ==
  /\ Killable /\ host[h] # "down" /\ Fault
  /\ Down(h)
  /\ UNCHANGED <<ticket, now, local, failed, unworked>>

Stop(h) ==
  /\ Stoppable /\ host[h] = "up" /\ Fault
  /\ host' = [host EXCEPT ![h] = "stopping"]
  /\ UNCHANGED <<ticket, now, pc, local, failed, unworked>>

(* Each Run returns from its select: drain waits a little for the work in   *)
(* flight and then gives it up.                                             *)
Exit(h) ==
  /\ host[h] = "stopping"
  /\ \A d \in Dispatchers : Host[d] = h =>
       pc[d] \in {"idle", "work", "forgive", "close", "note", "move"}
  /\ Down(h)
  /\ UNCHANGED <<ticket, now, local, budget, failed, unworked>>

Restart(h) ==
  /\ host[h] = "down"
  /\ host' = [host EXCEPT ![h] = "up"]
  /\ pc' = [d \in Dispatchers |-> IF Host[d] = h THEN "listing" ELSE pc[d]]
  /\ UNCHANGED <<ticket, now, local, budget, failed, unworked>>

Tick ==
  /\ now < MaxTime
  /\ now' = now + 1
  /\ UNCHANGED <<ticket, host, pc, local, budget, failed, unworked>>

Step(d) ==
  \/ Pick(d) \/ ReadForClaim(d) \/ CompareAndSet(d) \/ Attribute(d)
  \/ AppendClaim(d) \/ Arbitrate(d) \/ Take(d)
  \/ Verify(d) \/ ReleaseClose(d) \/ ReleaseMove(d)
  \/ \E outcome \in Outcomes : Handle(d, outcome)
  \/ ForgiveAttempt(d) \/ CloseClaim(d) \/ Escalate(d) \/ Advance(d)
  \/ ListHeld(d) \/ ReadHeld(d) \/ ForgetAttempt(d) \/ Requeue(d)

Next ==
  \/ \E d \in Dispatchers : Step(d)
  \/ \E h \in Hosts : Kill(h) \/ Stop(h) \/ Exit(h) \/ Restart(h)
  \/ Tick

Spec == Init /\ [][Next]_vars

(* The loop of a dispatcher runs, its calls are answered and its handler    *)
(* returns: each is bounded by a timeout.  The service manager starts a     *)
(* process that was killed again (deploy/systemd, Restart=on-failure).      *)
FairSpec ==
  /\ Spec
  /\ \A d \in Dispatchers : WF_vars(Step(d))
  /\ \A h \in Hosts : WF_vars(Exit(h)) /\ WF_vars(Restart(h))

-----------------------------------------------------------------------------
(*----------------------------- properties --------------------------------*)

Places == {S(d).ready : d \in Dispatchers} \cup {S(d).working : d \in Dispatchers}
          \cup UNION {Destinations(d) : d \in Dispatchers}

(* Every variable has its type: the state the code could be in.             *)
TypeOK ==
  /\ column \in Places
  /\ log \in Seq([kind : Kinds, host : Hosts \cup {""}, role : InUse \cup {AnyRole}, at : Nat])
  /\ fresh \subseteq Dispatchers
  /\ now \in 1..MaxTime
  /\ host \in [Hosts -> {"up", "stopping", "down"}]
  /\ pc \in [Dispatchers -> ControlPoints]
  /\ mine \in [Dispatchers -> Nat]
  /\ seen \in [Dispatchers -> Nat]
  /\ out \in [Dispatchers -> Outcomes]
  /\ dest \in [Dispatchers -> Places \cup {NoColumn}]
  /\ budget \in 0..Budget
  /\ failed \in [InUse -> Nat]
  /\ unworked \in [InUse -> Nat]

(* Claim takes EXCLUSIVE ownership: of all dispatchers of all hosts at most *)
(* one is between winning the ticket and putting it down.                   *)
OneHolder == \A d, e \in Dispatchers : Holds(d) /\ Holds(e) => d = e

(* The weaker promise of the append path, where a loser may still move the  *)
(* ticket: no two handlers of one role work it at the same time, as long as *)
(* nothing fails, no process is stopped and no handler leaves a reset mark: *)
(* a release or a reset of one host ends the claims of the others with its  *)
(* own.                                                                     *)
OneWorkerPerRole ==
  budget = Budget => \A d, e \in Dispatchers :
    At(d, "work") /\ At(e, "work") /\ Role[d] = Role[e] => d = e

(* The column is the claim: whoever works the ticket has it in the working  *)
(* column of its own stage, so nobody else's poll can select it.            *)
HeldInItsColumn ==
  \A d \in Dispatchers : At(d, "work") => column = S(d).working

(* HeldBy answers with the holder: from the claim comment to the close, the *)
(* oldest claim standing is the one of the dispatcher at work, which is     *)
(* what the board shows and what the next Reconcile goes by.                *)
BoardNamesTheHolder ==
  \A d \in Dispatchers :
    pc[d] \in {"verify", "work"} =>
      LET winner == OldestForRole(log, AnyRole)
      IN winner # 0 /\ log[winner].host = Host[d] /\ log[winner].role = Role[d]

Selectable(r) == Spent(log, r) < MaxAttempts

(* A claim that was released after the re-read (dispatch.go:517-530) or     *)
(* written twice stays in the count like an attempt, though no handler      *)
(* worked under it: it can put the count at the ceiling.                    *)
UsedUpUnworked(d) == ~Selectable(Role[d]) /\ unworked[Role[d]] > 0

(* A ticket that waits in a queue with nobody on it is one its stage can    *)
(* still select.  Otherwise it stalls with nothing on the board to say so,  *)
(* and only claims that no handler worked under can bring that about.       *)
QueuedIsSelectable ==
  \A d \in Dispatchers :
    column = S(d).ready /\ (\A e \in Dispatchers : ~Holds(e))
      => Selectable(Role[d]) \/ UsedUpUnworked(d)

(* A ticket that failed MaxAttempts times since it was last handed back is  *)
(* not worked again, as long as no claim has aged out of the count.         *)
FailsAtMost ==
  PruneStale(log, now) = log =>
    \A d \in Dispatchers : At(d, "work") => failed[Role[d]] < MaxAttempts

(* The ceilings agree: the one that selects, the one that verifies and the  *)
(* one that ends an attempt give a ticket its attempts, no more, and never  *)
(* leave it between them (dispatch.go:524, 771).                            *)
CeilingsAgree == QueuedIsSelectable /\ FailsAtMost

(* A ticket goes to a person for failing only after MaxAttempts attempts    *)
(* really failed: the claims of hosts that died do not send it, and a claim *)
(* that no handler worked under stands for one attempt, no more.            *)
EscalatedOnMerits ==
  [][\A d \in Dispatchers :
       At(d, "move") /\ out[d] = "failed" /\ dest[d] = S(d).exhausted /\ column' # column
         => failed[Role[d]] + unworked[Role[d]] >= MaxAttempts]_vars

(* On a working bench with no claim to say who left it there: what is left  *)
(* of a process that died between its claim and the claim comment, or       *)
(* between the close and the move.                                          *)
Orphaned ==
  /\ \E d \in Dispatchers : column = S(d).working
  /\ \A d \in Dispatchers : ~Holds(d)
  /\ HeldByHost(log) = ""

(* A host that comes back gives the ticket it was killed with back to its   *)
(* queue as it found it: the interrupted attempt is not one of those spent. *)
InterruptedCostsNothing ==
  [][\A d \in Dispatchers :
       At(d, "requeue") /\ column' # column => Spent(log, Role[d]) = 0]_vars

(* A stage's ticket leaves it: attempts that fail, races that are lost and  *)
(* hosts that are killed or stopped never stall it, except as an orphan or  *)
(* with the count used up by claims that no handler worked under.           *)
LeavesTheStage ==
  \A d \in Dispatchers :
    column = S(d).ready ~>
      \/ column \notin {S(d).ready, S(d).working} \/ Orphaned
      \/ column = S(d).ready /\ UsedUpUnworked(d)

(* What the counting of attempts is for: a person is asked only for a       *)
(* ticket that failed, an interruption costs nothing, and a ticket moves on.*)
AttemptsAreCounted == EscalatedOnMerits /\ InterruptedCostsNothing /\ LeavesTheStage

(* The implementation maps to the abstract hand-over of HandOff.            *)
Holder == IF \E d \in Dispatchers : Holds(d)
          THEN CHOOSE d \in Dispatchers : Holds(d) ELSE Nobody

Abstract == INSTANCE HandOff WITH holder <- Holder
ImplementsHandOff == Abstract!Spec
=============================================================================
