--------------------------- MODULE AdmissionQueue ---------------------------
(***************************************************************************)
(* The admission queue in front of one model class's serving slots         *)
(* (internal/queue/queue.go).  Callers are the goroutines that call        *)
(* Acquire; each has at most one request at a time, as every agent does.   *)
(*                                                                         *)
(* Everything under q.mu is atomic except the loop of dispatchLocked,      *)
(* which is modelled one admission at a time: the caller that runs it is   *)
(* in a control point of InLock, and nobody else takes the lock meanwhile. *)
(* The gaps where the code does NOT hold the lock are where the steps of   *)
(* callers interleave: between the end of Acquire's first critical section *)
(* and the select, between the select choosing ctx.Done and removeLocked,  *)
(* and between that unlock and the release of a slot nobody will use.      *)
(***************************************************************************)
EXTENDS Integers, FiniteSets, SequencesExt

CONSTANTS
  Callers,    \* the goroutines that make model calls
  SlotsAsked, \* New's `slots` argument, before clamping
  BoundAsked, \* New's `bound` argument, before clamping
  Arriving    \* the priorities that requests arrive with

Low      == 0
Normal   == 1
High     == 2
Critical == 3
Priority == Low..Critical

ASSUME QueueAssumption ==
  /\ IsFiniteSet(Callers)
  /\ SlotsAsked \in Int
  /\ BoundAsked \in Int
  /\ Arriving \subseteq Priority

AtLeastOne(n) == IF n < 1 THEN 1 ELSE n
Slots == AtLeastOne(SlotsAsked)
Bound == AtLeastOne(BoundAsked)

VARIABLES
  running,         \* q.running
  runningCritical, \* q.runningCritical
  waiters,         \* q.waiters, oldest first: seq is assigned as it is appended
  prio,            \* the priority of a caller's current request
  closed,          \* the callers whose channel dispatchLocked closed and whose
                   \* slot has not been given back
  pc               \* where each caller is

vars == <<running, runningCritical, waiters, prio, closed, pc>>

(* A caller is outside; in Acquire's first critical section; in the select; *)
(* past it by ctx.Done; past a removeLocked that found nothing; returned    *)
(* with a release function; in the releaser; or returned from it.           *)
ControlPoints == {"out", "acquiring", "select", "cancelled", "raced",
                  "admitted", "releasing", "dropping", "released"}
InLock == {"acquiring", "releasing", "dropping"}

Unlocked == \A c \in Callers : pc[c] \notin InLock

Waiting == {waiters[i] : i \in DOMAIN waiters}

CriticalWaiting == \E c \in Waiting : prio[c] = Critical

NoDrainMutant(p) ==
  ~runningCritical /\ (p = Critical \/ ~CriticalWaiting) /\ running < Slots

OpenDoorMutant(p) ==
  /\ ~runningCritical
  /\ IF p = Critical THEN running = 0 ELSE running < Slots

OneSlotTooManyMutant(p) ==
  /\ ~runningCritical
  /\ \/ p = Critical /\ running = 0
     \/ p # Critical /\ ~CriticalWaiting /\ running <= Slots

CanAdmit(p) ==
  /\ ~runningCritical
  /\ \/ p = Critical /\ running = 0
     \/ p # Critical /\ ~CriticalWaiting /\ running < Slots

(* Higher priority first, and the older request first within a priority.   *)
Better(i, j) ==
  \/ prio[waiters[i]] > prio[waiters[j]]
  \/ prio[waiters[i]] = prio[waiters[j]] /\ i < j

Admissible == {i \in DOMAIN waiters : CanAdmit(prio[waiters[i]])}
Best(i) == i \in Admissible /\ \A j \in Admissible \ {i} : Better(i, j)

Init ==
  /\ running = 0
  /\ runningCritical = FALSE
  /\ waiters = <<>>
  /\ prio = [c \in Callers |-> Low]
  /\ closed = {}
  /\ pc = [c \in Callers |-> "out"]

At(c, place) == pc[c] = place
Goto(c, place) == pc' = [pc EXCEPT ![c] = place]

(* Acquire, first part: take the lock and join the end of the list.        *)
Acquire(c, p) ==
  /\ At(c, "out") /\ Unlocked
  /\ waiters' = Append(waiters, c)
  /\ prio' = [prio EXCEPT ![c] = p]
  /\ Goto(c, "acquiring")
  /\ UNCHANGED <<running, runningCritical, closed>>

(* One turn of dispatchLocked's loop, run by the caller that has the lock. *)
AdmitBest(c) ==
  /\ pc[c] \in InLock
  /\ \E i \in DOMAIN waiters :
       /\ Best(i)
       /\ waiters' = RemoveAt(waiters, i)
       /\ closed' = closed \cup {waiters[i]}
       /\ runningCritical' = (runningCritical \/ prio[waiters[i]] = Critical)
  /\ running' = running + 1
  /\ UNCHANGED <<prio, pc>>

IndexOf(c) == CHOOSE i \in DOMAIN waiters : waiters[i] = c

RemoveWaiter(c) ==
  waiters' = IF c \in Waiting THEN RemoveAt(waiters, IndexOf(c)) ELSE waiters

OneTooManyWaitMutant(c) == c \in Waiting /\ Len(waiters) > Bound + 1
OverBound(c) == c \in Waiting /\ Len(waiters) > Bound

(* dispatchLocked has returned to Acquire: an arrival that is still on a   *)
(* list longer than the bound takes itself off it and fails with ErrFull.  *)
Shed(c) ==
  /\ At(c, "acquiring") /\ Admissible = {}
  /\ OverBound(c)
  /\ RemoveWaiter(c)
  /\ Goto(c, "out")
  /\ UNCHANGED <<running, runningCritical, prio, closed>>

EnterSelect(c) ==
  /\ At(c, "acquiring") /\ Admissible = {}
  /\ ~OverBound(c)
  /\ Goto(c, "select")
  /\ UNCHANGED <<running, runningCritical, waiters, prio, closed>>

TakeSlot(c) ==
  /\ At(c, "select") /\ c \in closed
  /\ Goto(c, "admitted")
  /\ UNCHANGED <<running, runningCritical, waiters, prio, closed>>

(* The caller's context ends.  When its channel is closed too, select      *)
(* chooses either branch.                                                  *)
CtxDone(c) ==
  /\ At(c, "select")
  /\ Goto(c, "cancelled")
  /\ UNCHANGED <<running, runningCritical, waiters, prio, closed>>

LostSlotMutant(c) ==
  /\ At(c, "cancelled") /\ Unlocked
  /\ RemoveWaiter(c)
  /\ Goto(c, "out")
  /\ UNCHANGED <<running, runningCritical, prio, closed>>

(* removeLocked on the cancelled path: still waiting, or already admitted. *)
Withdraw(c) ==
  /\ At(c, "cancelled") /\ Unlocked
  /\ RemoveWaiter(c)
  /\ Goto(c, IF c \in Waiting THEN "out" ELSE "raced")
  /\ UNCHANGED <<running, runningCritical, prio, closed>>

(* The body of the releaser, up to its call of dispatchLocked.             *)
GiveBack(c) ==
  /\ Unlocked
  /\ running' = running - 1
  /\ runningCritical' = (runningCritical /\ prio[c] # Critical)
  /\ closed' = closed \ {c}
  /\ UNCHANGED <<waiters, prio>>

Release(c) == At(c, "admitted") /\ GiveBack(c) /\ Goto(c, "releasing")
DropSlot(c) == At(c, "raced") /\ GiveBack(c) /\ Goto(c, "dropping")

NoDispatchMutant(c) ==
  /\ pc[c] \in {"releasing", "dropping"}
  /\ Goto(c, IF At(c, "releasing") THEN "released" ELSE "out")
  /\ UNCHANGED <<running, runningCritical, waiters, prio, closed>>

(* dispatchLocked has returned to the releaser.                            *)
Released(c) ==
  /\ pc[c] \in {"releasing", "dropping"} /\ Admissible = {}
  /\ Goto(c, IF At(c, "releasing") THEN "released" ELSE "out")
  /\ UNCHANGED <<running, runningCritical, waiters, prio, closed>>

ReleaseTwiceMutant(c) == At(c, "released") /\ GiveBack(c) /\ UNCHANGED pc

(* A second call of the same release function: once.Do runs nothing.       *)
ReleaseAgain(c) ==
  /\ At(c, "released")
  /\ UNCHANGED vars

Leave(c) ==
  /\ At(c, "released")
  /\ Goto(c, "out")
  /\ UNCHANGED <<running, runningCritical, waiters, prio, closed>>

Next == \E c \in Callers :
  \/ \E p \in Arriving : Acquire(c, p)
  \/ AdmitBest(c)
  \/ Shed(c)
  \/ EnterSelect(c)
  \/ TakeSlot(c)
  \/ CtxDone(c)
  \/ Withdraw(c)
  \/ Release(c)
  \/ DropSlot(c)
  \/ Released(c)
  \/ ReleaseAgain(c)
  \/ Leave(c)

Spec == Init /\ [][Next]_vars

(* A goroutine that can run does, and sync.Mutex does not starve a locker, *)
(* so the steps that wait for q.mu are strongly fair.  A model call ends   *)
(* (its HTTP client has a timeout), so a slot that is held is released.    *)
(* Nothing obliges a caller to arrive or its context to end.               *)
Fairness == \A c \in Callers :
  /\ WF_vars(AdmitBest(c) \/ Shed(c) \/ EnterSelect(c) \/ Released(c))
  /\ WF_vars(TakeSlot(c))
  /\ SF_vars(Withdraw(c))
  /\ SF_vars(Release(c))
  /\ SF_vars(DropSlot(c))
  /\ WF_vars(Leave(c))

FairSpec == Spec /\ Fairness
-----------------------------------------------------------------------------
(* Types of the queue's state.                                             *)
TypeOK ==
  /\ running \in Nat
  /\ runningCritical \in BOOLEAN
  /\ waiters \in Seq(Callers)
  /\ prio \in [Callers -> Priority]
  /\ closed \subseteq Callers
  /\ pc \in [Callers -> ControlPoints]

Distinct == \A i, j \in DOMAIN waiters : waiters[i] = waiters[j] => i = j

(* A caller is on the list only between joining it and leaving the select  *)
(* by its own removal, is on it once, and never with a slot already.       *)
WaitersWaitOnce ==
  /\ Distinct
  /\ \A c \in Waiting :
       c \notin closed /\ pc[c] \in {"acquiring", "select", "cancelled"}

(* No slot leaks and none is given back twice: q.running is the number of  *)
(* callers that own a slot, through every race of a cancellation with a    *)
(* hand-over and every second release; and it stays within the slots.      *)
SlotsBalance ==
  /\ running = Cardinality(closed)
  /\ running \in 0..Slots

(* A slot is owned only by a caller that will see it, and a request that   *)
(* has not returned is either on the list or owns a slot: a cancellation   *)
(* racing a hand-over loses neither.                                       *)
SlotsHaveOwners ==
  /\ \A c \in closed : pc[c] \in {"acquiring", "select", "cancelled",
                                  "raced", "admitted"}
  /\ \A c \in Callers : pc[c] \in {"raced", "admitted"} => c \in closed
  /\ \A c \in Callers :
       pc[c] \in {"acquiring", "select", "cancelled"} => c \in Waiting \cup closed

(* Both together: a request that has not returned is in one place, the list *)
(* or the slots, however its cancellation falls between the two.            *)
NobodyIsLost == WaitersWaitOnce /\ SlotsHaveOwners

(* Rule 1 and rule 2 of queue.go:81-85: a critical request that runs has   *)
(* the box to itself, and q.runningCritical says exactly when one does.    *)
CriticalAlone ==
  /\ runningCritical <=> \E c \in closed : prio[c] = Critical
  /\ \A c, d \in closed : prio[c] = Critical => d = c

(* q.mu: one caller at a time runs a critical section.                     *)
OneInLock == \A c, d \in Callers :
  pc[c] \in InLock /\ pc[d] \in InLock => c = d

(* Acquire sheds the arrival, so the list is never over its bound once the *)
(* lock is free.                                                           *)
ListBounded ==
  \/ Len(waiters) <= Bound
  \/ /\ Len(waiters) = Bound + 1
     /\ \E c \in Callers : At(c, "acquiring") /\ c \in Waiting
BoundRespected == Unlocked => Len(waiters) <= Bound

(* No lost wakeup: whenever somebody waits, somebody runs, whose release   *)
(* will run dispatchLocked again.                                          *)
SomebodyWillDispatch == Unlocked /\ waiters # <<>> => running > 0

(* The queue is sound at every step: no slot leaks, no request is lost, a   *)
(* critical one owns the box, the list keeps its bound and nobody waits     *)
(* without a release to come.                                               *)
QueueIsSound ==
  /\ TypeOK
  /\ SlotsBalance
  /\ NobodyIsLost
  /\ CriticalAlone
  /\ BoundRespected
  /\ SomebodyWillDispatch

(* An admission never passes over a waiter that is more urgent, or as      *)
(* urgent and older - not even one that cannot be admitted yet, because    *)
(* its own rule holds the others back (queue.go:81-87).                    *)
NoOvertaking == [][
  \A i, j \in DOMAIN waiters :
     waiters[i] \in closed' \ closed => ~Better(j, i) ]_vars

(* A critical request that waits is admitted or gives up: the door held by *)
(* rule 2 lets the box drain, and criticals are admitted oldest first.     *)
CriticalServed == \A c \in Callers :
  c \in Waiting /\ prio[c] = Critical ~> c \notin Waiting

-----------------------------------------------------------------------------
(* The queue implements its rules: who waits and who owns a slot move only *)
(* as rules 1 to 3 allow, whatever the counters, the lock's gaps and the   *)
(* cancellations do (queue.go:77-90).                                      *)
Rules == INSTANCE AdmissionRules
           WITH list <- waiters, urgency <- prio, serving <- closed

ImplementsRules == Rules!Spec
=============================================================================
