------------------------ MODULE AdmissionQueueProofs ------------------------
(***************************************************************************)
(* Proofs, for any set of callers, any slots and any bound, of what the    *)
(* runs of AdmissionQueue check on small ones.                             *)
(***************************************************************************)
EXTENDS AdmissionQueue, FiniteSetTheorems, SequenceTheorems, TLAPS

(* Go's append(s[:i], s[i+1:]...) drops one element and keeps the others   *)
(* in order.                                                               *)
LEMMA RemoveAtProperties ==
  ASSUME NEW S, NEW s \in Seq(S), NEW i \in 1..Len(s)
  PROVE  /\ RemoveAt(s, i) \in Seq(S)
         /\ Len(RemoveAt(s, i)) = Len(s) - 1
         /\ \A j \in 1..(Len(s) - 1) :
              RemoveAt(s, i)[j] = IF j < i THEN s[j] ELSE s[j + 1]
<1> DEFINE a == SubSeq(s, 1, i - 1)
           b == SubSeq(s, i + 1, Len(s))
<1>0. Len(s) \in Nat /\ \A j \in 1..Len(s) : s[j] \in S
  BY LenProperties, ElementOfSeq
<1>1. /\ a \in Seq(S) /\ Len(a) = i - 1
      /\ \A j \in 1..(i - 1) : a[j] = s[j]
  <2>1. i - 1 \in Int /\ \A j \in 1..(i - 1) : s[j] \in S
    BY <1>0
  <2>2. /\ a \in Seq(S) /\ Len(a) = IF 1 <= i - 1 THEN (i - 1) - 1 + 1 ELSE 0
        /\ \A j \in 1..((i - 1) - 1 + 1) : a[j] = s[1 + j - 1]
    BY <2>1, SubSeqProperties
  <2> QED BY <2>2, <1>0
<1>2. /\ b \in Seq(S) /\ Len(b) = Len(s) - i
      /\ \A j \in 1..(Len(s) - i) : b[j] = s[i + j]
  <2>1. /\ i + 1 \in Int /\ Len(s) \in Int
        /\ \A j \in (i + 1)..Len(s) : s[j] \in S
    BY <1>0
  <2>2. /\ b \in Seq(S)
        /\ Len(b) = IF i + 1 <= Len(s) THEN Len(s) - (i + 1) + 1 ELSE 0
        /\ \A j \in 1..(Len(s) - (i + 1) + 1) : b[j] = s[(i + 1) + j - 1]
    BY <2>1, SubSeqProperties
  <2> QED BY <2>2, <1>0
<1>3. /\ a \o b \in Seq(S)
      /\ Len(a \o b) = Len(a) + Len(b)
      /\ \A j \in 1..(Len(a) + Len(b)) :
           (a \o b)[j] = IF j <= Len(a) THEN a[j] ELSE b[j - Len(a)]
  BY <1>1, <1>2, ConcatProperties
<1>4. RemoveAt(s, i) = a \o b
  BY DEF RemoveAt
<1> HIDE DEF a, b
<1>5. Len(a) + Len(b) = Len(s) - 1
  BY <1>1, <1>2, <1>0
<1>6. ASSUME NEW j \in 1..(Len(s) - 1)
      PROVE  (a \o b)[j] = IF j < i THEN s[j] ELSE s[j + 1]
  <2>1. CASE j < i
    BY <2>1, <1>0, <1>1, <1>3, <1>5
  <2>2. CASE ~(j < i)
    <3>1. j - (i - 1) \in 1..(Len(s) - i)
      BY <2>2, <1>0
    <3>2. b[j - (i - 1)] = s[i + (j - (i - 1))]
      BY <3>1, <1>2
    <3>3. (a \o b)[j] = b[j - (i - 1)]
      BY <2>2, <1>0, <1>1, <1>3, <1>5
    <3> QED BY <3>2, <3>3, <2>2, <1>0
  <2> QED BY <2>1, <2>2
<1> QED BY <1>3, <1>4, <1>5, <1>6

(* Taking the waiter at i off the list takes exactly that caller off it.   *)
LEMMA RemoveFromWaiters ==
  ASSUME waiters \in Seq(Callers), Distinct, NEW i \in DOMAIN waiters,
         waiters' = RemoveAt(waiters, i)
  PROVE  /\ waiters' \in Seq(Callers)
         /\ Len(waiters') = Len(waiters) - 1
         /\ Waiting' = Waiting \ {waiters[i]}
         /\ Distinct'
<1>0. /\ Len(waiters) \in Nat /\ DOMAIN waiters = 1..Len(waiters)
      /\ i \in 1..Len(waiters)
  BY LenProperties
<1>1. /\ waiters' \in Seq(Callers)
      /\ Len(waiters') = Len(waiters) - 1
      /\ \A j \in 1..(Len(waiters) - 1) :
           waiters'[j] = IF j < i THEN waiters[j] ELSE waiters[j + 1]
  BY <1>0, RemoveAtProperties
<1>2. DOMAIN waiters' = 1..(Len(waiters) - 1)
  BY <1>1, LenProperties
<1>3. Waiting' = Waiting \ {waiters[i]}
  <2>1. ASSUME NEW c \in Waiting' PROVE c \in Waiting \ {waiters[i]}
    <3>1. PICK j \in 1..(Len(waiters) - 1) : c = waiters'[j]
      BY <1>2 DEF Waiting
    <3>2. CASE j < i
      <4>1. j \in 1..Len(waiters) /\ j # i /\ c = waiters[j]
        BY <3>1, <3>2, <1>0, <1>1
      <4> QED BY <4>1, <1>0 DEF Waiting, Distinct
    <3>3. CASE ~(j < i)
      <4>1. j + 1 \in 1..Len(waiters) /\ j + 1 # i /\ c = waiters[j + 1]
        BY <3>1, <3>3, <1>0, <1>1
      <4> QED BY <4>1, <1>0 DEF Waiting, Distinct
    <3> QED BY <3>2, <3>3
  <2>2. ASSUME NEW c \in Waiting \ {waiters[i]} PROVE c \in Waiting'
    <3>1. PICK k \in 1..Len(waiters) : c = waiters[k]
      BY <1>0 DEF Waiting
    <3>2. CASE k < i
      <4>1. k \in 1..(Len(waiters) - 1) /\ c = waiters'[k]
        BY <3>1, <3>2, <1>0, <1>1
      <4> QED BY <4>1, <1>2 DEF Waiting
    <3>3. CASE k > i
      <4>1. k - 1 \in 1..(Len(waiters) - 1)
        BY <3>3, <1>0
      <4>2. c = waiters'[k - 1]
        BY <4>1, <3>1, <3>3, <1>0, <1>1
      <4> QED BY <4>1, <4>2, <1>2 DEF Waiting
    <3> QED BY <3>1, <3>2, <3>3, <1>0
  <2> QED BY <2>1, <2>2
<1>4. Distinct'
  <2> SUFFICES ASSUME NEW j \in 1..(Len(waiters) - 1),
                      NEW k \in 1..(Len(waiters) - 1),
                      waiters'[j] = waiters'[k]
               PROVE  j = k
    BY <1>2 DEF Distinct
  <2> DEFINE old(n) == IF n < i THEN n ELSE n + 1
  <2>1. /\ old(j) \in 1..Len(waiters) /\ old(k) \in 1..Len(waiters)
        /\ waiters[old(j)] = waiters[old(k)]
    BY <1>0, <1>1
  <2>2. old(j) = old(k)
    BY <2>1, <1>0 DEF Distinct
  <2> QED BY <2>2, <1>0
<1> QED BY <1>1, <1>3, <1>4

(* Joining puts exactly the arrival on the list, at the end of it.         *)
LEMMA AppendToWaiters ==
  ASSUME waiters \in Seq(Callers), Distinct, NEW c \in Callers,
         c \notin Waiting, waiters' = Append(waiters, c)
  PROVE  /\ waiters' \in Seq(Callers)
         /\ Len(waiters') = Len(waiters) + 1
         /\ Waiting' = Waiting \cup {c}
         /\ Distinct'
<1>0. Len(waiters) \in Nat /\ DOMAIN waiters = 1..Len(waiters)
  BY LenProperties
<1>1. /\ waiters' \in Seq(Callers)
      /\ Len(waiters') = Len(waiters) + 1
      /\ DOMAIN waiters' = 1..(Len(waiters) + 1)
      /\ \A j \in 1..Len(waiters) : waiters'[j] = waiters[j]
      /\ waiters'[Len(waiters) + 1] = c
  BY <1>0, AppendProperties, LenProperties
<1>2. Waiting' = Waiting \cup {c}
  <2>1. ASSUME NEW d \in Waiting' PROVE d \in Waiting \cup {c}
    <3>1. PICK j \in 1..(Len(waiters) + 1) : d = waiters'[j]
      BY <1>1 DEF Waiting
    <3>2. CASE j = Len(waiters) + 1
      BY <3>1, <3>2, <1>1
    <3>3. CASE j \in 1..Len(waiters)
      BY <3>1, <3>3, <1>0, <1>1 DEF Waiting
    <3> QED BY <3>2, <3>3, <1>0
  <2>2. Waiting \subseteq Waiting'
    <3> SUFFICES ASSUME NEW j \in 1..Len(waiters)
                 PROVE  waiters[j] \in Waiting'
      BY <1>0 DEF Waiting
    <3>1. j \in 1..(Len(waiters) + 1) /\ waiters'[j] = waiters[j]
      BY <1>0, <1>1
    <3> QED BY <3>1, <1>1 DEF Waiting
  <2>3. c \in Waiting'
    <3>1. Len(waiters) + 1 \in DOMAIN waiters'
      BY <1>0, <1>1
    <3> QED BY <3>1, <1>1 DEF Waiting
  <2> QED BY <2>1, <2>2, <2>3
<1>3. Distinct'
  <2> SUFFICES ASSUME NEW j \in 1..(Len(waiters) + 1),
                      NEW k \in 1..(Len(waiters) + 1),
                      waiters'[j] = waiters'[k]
               PROVE  j = k
    BY <1>1 DEF Distinct
  <2>1. CASE j \in 1..Len(waiters) /\ k \in 1..Len(waiters)
    BY <2>1, <1>0, <1>1 DEF Distinct
  <2>2. CASE j = Len(waiters) + 1 \/ k = Len(waiters) + 1
    <3>1. \A n \in 1..Len(waiters) : waiters'[n] # c
      BY <1>0, <1>1 DEF Waiting
    <3> QED BY <2>2, <3>1, <1>0, <1>1
  <2> QED BY <2>1, <2>2, <1>0
<1> QED BY <1>1, <1>2, <1>3
-----------------------------------------------------------------------------
(* The invariant that carries the induction: who is on the list, who owns  *)
(* a slot, and what the two counters say of them.                          *)
QueueInv ==
  /\ TypeOK
  /\ OneInLock
  /\ WaitersWaitOnce
  /\ SlotsHaveOwners
  /\ SlotsBalance
  /\ CriticalAlone

LEMMA SlotsArePositive == Slots \in Nat \ {0} /\ Bound \in Nat \ {0}
  BY QueueAssumption DEF Slots, Bound, AtLeastOne

(* The finite set of slot owners, and what the counters count.             *)
LEMMA OwnersAreFinite ==
  ASSUME NEW S, S \subseteq Callers
  PROVE  IsFiniteSet(S) /\ Cardinality(S) \in Nat
  BY QueueAssumption, FS_Subset, FS_CardinalityType

LEMMA InitQueueInv == Init => QueueInv
<1> SUFFICES ASSUME Init PROVE QueueInv
  OBVIOUS
<1>1. waiters \in Seq(Callers) /\ DOMAIN waiters = {} /\ Waiting = {}
  <2>1. waiters = <<>> /\ waiters \in Seq(Callers) /\ Len(waiters) = 0
    BY EmptySeq DEF Init
  <2>2. DOMAIN waiters = 1..0
    BY <2>1, LenProperties
  <2> QED BY <2>1, <2>2 DEF Waiting
<1>2. TypeOK
  <2>1. waiters \in Seq(Callers)
    BY <1>1
  <2>2. prio \in [Callers -> Priority]
    BY DEF Init, Priority, Low, Critical
  <2>3. pc \in [Callers -> ControlPoints]
    BY DEF Init, ControlPoints
  <2>4. running \in Nat
    BY DEF Init
  <2>5. runningCritical \in BOOLEAN
    BY DEF Init
  <2>6. closed \subseteq Callers
    BY DEF Init
  <2> QED BY <2>1, <2>2, <2>3, <2>4, <2>5, <2>6 DEF TypeOK
<1>3. SlotsBalance
  BY FS_EmptySet, SlotsArePositive DEF Init, SlotsBalance
<1> QED
  BY <1>1, <1>2, <1>3
     DEF Init, QueueInv, OneInLock, WaitersWaitOnce, Distinct,
         SlotsHaveOwners, CriticalAlone, InLock

LEMMA AcquirePreserves ==
  ASSUME QueueInv, NEW c \in Callers, NEW p \in Priority, Acquire(c, p)
  PROVE  QueueInv'
<1> USE DEF QueueInv
<1>1. c \notin Waiting /\ c \notin closed
  BY DEF Acquire, At, WaitersWaitOnce, SlotsHaveOwners
<1>2. /\ waiters' \in Seq(Callers)
      /\ Waiting' = Waiting \cup {c}
      /\ Distinct'
  BY <1>1, AppendToWaiters DEF Acquire, TypeOK, WaitersWaitOnce
<1>3. TypeOK'
  BY <1>2 DEF Acquire, TypeOK, Goto, ControlPoints
<1>4. pc' = [pc EXCEPT ![c] = "acquiring"] /\ pc \in [Callers -> ControlPoints]
  BY DEF Acquire, Goto, TypeOK
<1>5. OneInLock'
  BY <1>4 DEF Acquire, OneInLock, Unlocked
<1>6. WaitersWaitOnce'
  BY <1>1, <1>2, <1>4 DEF Acquire, WaitersWaitOnce
<1>7. SlotsHaveOwners'
  BY <1>1, <1>2, <1>4 DEF Acquire, SlotsHaveOwners, TypeOK
<1>8. SlotsBalance'
  BY DEF Acquire, SlotsBalance
<1>9. CriticalAlone'
  BY <1>1 DEF Acquire, CriticalAlone, TypeOK
<1> QED BY <1>3, <1>5, <1>6, <1>7, <1>8, <1>9

LEMMA AdmitBestPreserves ==
  ASSUME QueueInv, NEW c \in Callers, AdmitBest(c)
  PROVE  QueueInv'
<1> USE DEF QueueInv
<1>1. PICK i \in DOMAIN waiters :
        /\ Best(i)
        /\ waiters' = RemoveAt(waiters, i)
        /\ closed' = closed \cup {waiters[i]}
        /\ runningCritical' = (runningCritical \/ prio[waiters[i]] = Critical)
  BY DEF AdmitBest
<1> DEFINE w == waiters[i]
<1>2. w \in Callers /\ w \in Waiting /\ w \notin closed
  BY LenProperties, ElementOfSeq DEF TypeOK, Waiting, WaitersWaitOnce
<1>3. CanAdmit(prio[w])
  BY <1>1 DEF Best, Admissible
<1>4. /\ waiters' \in Seq(Callers)
      /\ Waiting' = Waiting \ {w}
      /\ Distinct'
  BY <1>1, RemoveFromWaiters DEF TypeOK, WaitersWaitOnce
<1>5. running' = running + 1 /\ UNCHANGED <<prio, pc>>
  BY DEF AdmitBest
<1> HIDE DEF w
<1>6. closed' = closed \cup {w}
  BY <1>1 DEF w
<1>7. TypeOK'
  <2>1. runningCritical' \in BOOLEAN
    BY <1>1 DEF TypeOK
  <2> QED BY <1>2, <1>4, <1>5, <1>6, <2>1 DEF TypeOK
<1>8. OneInLock'
  BY <1>5 DEF OneInLock
<1>9. WaitersWaitOnce'
  BY <1>4, <1>5, <1>6 DEF WaitersWaitOnce
<1>10. SlotsHaveOwners'
  BY <1>2, <1>4, <1>5, <1>6 DEF SlotsHaveOwners, WaitersWaitOnce
<1>11. running < Slots
  BY <1>3, SlotsArePositive DEF CanAdmit
<1>12. SlotsBalance'
  <2>1. Cardinality(closed') = Cardinality(closed) + 1
    BY <1>2, <1>6, OwnersAreFinite, FS_AddElement DEF TypeOK
  <2> QED BY <2>1, <1>5, <1>11, SlotsArePositive DEF SlotsBalance, TypeOK
<1>13. CriticalAlone'
  <2>1. \A d \in closed : prio[d] # Critical
    BY <1>3 DEF CanAdmit, CriticalAlone
  <2>2. prio[w] = Critical => closed = {}
    <3> SUFFICES ASSUME prio[w] = Critical PROVE closed = {}
      OBVIOUS
    <3>1. running = 0
      BY <1>3 DEF CanAdmit
    <3> QED BY <3>1, OwnersAreFinite, FS_EmptySet DEF SlotsBalance, TypeOK
  <2>3. runningCritical' <=> prio[w] = Critical
    BY <1>1, <1>3 DEF CanAdmit, w
  <2> QED BY <2>1, <2>2, <2>3, <1>5, <1>6 DEF CriticalAlone
<1> QED BY <1>7, <1>8, <1>9, <1>10, <1>12, <1>13

(* A caller taken off the list with its slot never handed over: Shed, and  *)
(* Withdraw while it still waits.                                          *)
LEMMA LeavingListPreserves ==
  ASSUME QueueInv, NEW c \in Callers, c \in Waiting, RemoveWaiter(c),
         Goto(c, "out"),
         UNCHANGED <<running, runningCritical, prio, closed>>
  PROVE  QueueInv'
<1> USE DEF QueueInv
<1>1. IndexOf(c) \in DOMAIN waiters /\ waiters[IndexOf(c)] = c
  BY DEF IndexOf, Waiting
<1>2. /\ waiters' \in Seq(Callers)
      /\ Waiting' = Waiting \ {c}
      /\ Distinct'
  BY <1>1, RemoveFromWaiters DEF RemoveWaiter, TypeOK, WaitersWaitOnce
<1>3. c \notin closed
  BY DEF WaitersWaitOnce
<1>4. pc' = [pc EXCEPT ![c] = "out"] /\ pc \in [Callers -> ControlPoints]
  BY DEF Goto, TypeOK
<1>5. TypeOK'
  BY <1>2, <1>4 DEF TypeOK, ControlPoints
<1>6. OneInLock'
  BY <1>4 DEF OneInLock, InLock
<1>7. WaitersWaitOnce'
  BY <1>2, <1>4 DEF WaitersWaitOnce
<1>8. SlotsHaveOwners'
  BY <1>2, <1>3, <1>4 DEF SlotsHaveOwners
<1>9. SlotsBalance'
  BY DEF SlotsBalance
<1>10. CriticalAlone'
  BY DEF CriticalAlone
<1> QED BY <1>5, <1>6, <1>7, <1>8, <1>9, <1>10

(* A caller that only moves: the list, the slots and the counters stay.    *)
LEMMA MovingPreserves ==
  ASSUME QueueInv, NEW c \in Callers, NEW place \in ControlPoints,
         Goto(c, place),
         UNCHANGED <<running, runningCritical, waiters, prio, closed>>,
         place \notin InLock,
         c \in Waiting => place \in {"select", "cancelled"},
         c \in closed => place \in {"select", "cancelled", "raced", "admitted"},
         place \in {"raced", "admitted"} => c \in closed,
         place \in {"select", "cancelled"} => c \in Waiting \cup closed
  PROVE  QueueInv'
<1> USE DEF QueueInv
<1>1. pc' = [pc EXCEPT ![c] = place] /\ pc \in [Callers -> ControlPoints]
  BY DEF Goto, TypeOK
<1>2. Waiting' = Waiting
  BY DEF Waiting
<1>3. TypeOK'
  BY <1>1 DEF TypeOK
<1>4. OneInLock'
  BY <1>1 DEF OneInLock
<1>5. WaitersWaitOnce'
  BY <1>1, <1>2 DEF WaitersWaitOnce, Distinct
<1>6. SlotsHaveOwners'
  <2>1. \A d \in closed' : pc'[d] \in {"acquiring", "select", "cancelled",
                                       "raced", "admitted"}
    BY <1>1 DEF SlotsHaveOwners, TypeOK
  <2>2. \A d \in Callers : pc'[d] \in {"raced", "admitted"} => d \in closed'
    BY <1>1 DEF SlotsHaveOwners, TypeOK
  <2>3. \A d \in Callers : pc'[d] \in {"acquiring", "select", "cancelled"}
                            => d \in Waiting' \cup closed'
    BY <1>1, <1>2 DEF SlotsHaveOwners, TypeOK, InLock
  <2> QED BY <2>1, <2>2, <2>3 DEF SlotsHaveOwners
<1>7. SlotsBalance' /\ CriticalAlone'
  BY DEF SlotsBalance, CriticalAlone
<1> QED BY <1>3, <1>4, <1>5, <1>6, <1>7

(* The releaser gives back a slot its caller owns, and nobody else's.      *)
LEMMA GiveBackPreserves ==
  ASSUME QueueInv, NEW c \in Callers, pc[c] \in {"admitted", "raced"},
         NEW place \in {"releasing", "dropping"}, GiveBack(c), Goto(c, place)
  PROVE  QueueInv'
<1> USE DEF QueueInv
<1>1. c \in closed
  BY DEF SlotsHaveOwners
<1>2. c \notin Waiting /\ Waiting' = Waiting
  BY <1>1 DEF WaitersWaitOnce, GiveBack, Waiting
<1>3. pc' = [pc EXCEPT ![c] = place] /\ pc \in [Callers -> ControlPoints]
  BY DEF Goto, TypeOK
<1>4. /\ closed' = closed \ {c}
      /\ running' = running - 1
      /\ waiters' = waiters /\ prio' = prio
  BY DEF GiveBack
<1>5. runningCritical' = (runningCritical /\ prio[c] # Critical)
  BY DEF GiveBack
<1>6. TypeOK'
  <2>1. runningCritical' \in BOOLEAN
    BY <1>5
  <2>2. pc' \in [Callers -> ControlPoints]
    BY <1>3 DEF ControlPoints
  <2>3. running > 0
    BY <1>1, OwnersAreFinite, FS_EmptySet DEF SlotsBalance, TypeOK
  <2>4. running' \in Nat
    BY <1>4, <2>3 DEF TypeOK
  <2> QED BY <1>4, <2>1, <2>2, <2>4 DEF TypeOK
<1>7. OneInLock'
  BY <1>3 DEF OneInLock, GiveBack, Unlocked
<1>8. WaitersWaitOnce'
  BY <1>2, <1>3, <1>4 DEF WaitersWaitOnce, Distinct
<1>9. SlotsHaveOwners'
  BY <1>2, <1>3, <1>4 DEF SlotsHaveOwners
<1>10. SlotsBalance'
  <2>1. Cardinality(closed') = Cardinality(closed) - 1
    BY <1>1, <1>4, OwnersAreFinite, FS_RemoveElement DEF TypeOK
  <2>2. Cardinality(closed') \in Nat
    BY <1>4, OwnersAreFinite DEF TypeOK
  <2> QED BY <2>1, <2>2, <1>4, SlotsArePositive DEF SlotsBalance, TypeOK
<1>11. CriticalAlone'
  <2>1. CASE prio[c] = Critical
    <3>1. closed' = {}
      BY <2>1, <1>1, <1>4 DEF CriticalAlone
    <3>2. ~runningCritical'
      BY <2>1, <1>5
    <3> QED BY <3>1, <3>2 DEF CriticalAlone
  <2>2. CASE prio[c] # Critical
    <3>1. runningCritical' <=> runningCritical
      BY <2>2, <1>5
    <3>2. \A d \in closed : prio[d] = Critical => d \in closed'
      BY <2>2, <1>4
    <3> QED BY <3>1, <3>2, <1>4 DEF CriticalAlone
  <2> QED BY <2>1, <2>2
<1> QED BY <1>6, <1>7, <1>8, <1>9, <1>10, <1>11

LEMMA NextPreservesQueueInv == QueueInv /\ [Next]_vars => QueueInv'
<1> SUFFICES ASSUME QueueInv, [Next]_vars PROVE QueueInv'
  OBVIOUS
<1> USE DEF ControlPoints, InLock
<1>1. ASSUME NEW c \in Callers, NEW p \in Arriving, Acquire(c, p)
      PROVE  QueueInv'
  BY <1>1, QueueAssumption, AcquirePreserves
<1>2. ASSUME NEW c \in Callers, AdmitBest(c) PROVE QueueInv'
  BY <1>2, AdmitBestPreserves
<1>3. ASSUME NEW c \in Callers, Shed(c) PROVE QueueInv'
  BY <1>3, LeavingListPreserves DEF Shed, OverBound
<1>4. ASSUME NEW c \in Callers, EnterSelect(c) PROVE QueueInv'
  BY <1>4, MovingPreserves DEF EnterSelect, At, QueueInv, SlotsHaveOwners
<1>5. ASSUME NEW c \in Callers, TakeSlot(c) PROVE QueueInv'
  BY <1>5, MovingPreserves DEF TakeSlot, QueueInv, WaitersWaitOnce
<1>6. ASSUME NEW c \in Callers, CtxDone(c) PROVE QueueInv'
  BY <1>6, MovingPreserves DEF CtxDone, At, QueueInv, SlotsHaveOwners
<1>7. ASSUME NEW c \in Callers, Withdraw(c) PROVE QueueInv'
  <2>1. CASE c \in Waiting
    BY <1>7, <2>1, LeavingListPreserves DEF Withdraw
  <2>2. CASE c \notin Waiting
    BY <1>7, <2>2, MovingPreserves
       DEF Withdraw, RemoveWaiter, At, QueueInv, SlotsHaveOwners
  <2> QED BY <2>1, <2>2
<1>8. ASSUME NEW c \in Callers, Release(c) PROVE QueueInv'
  BY <1>8, GiveBackPreserves DEF Release, At
<1>9. ASSUME NEW c \in Callers, DropSlot(c) PROVE QueueInv'
  BY <1>9, GiveBackPreserves DEF DropSlot, At
<1>10. ASSUME NEW c \in Callers, Released(c) PROVE QueueInv'
  <2>1. c \notin Waiting /\ c \notin closed
    BY <1>10 DEF Released, QueueInv, WaitersWaitOnce, SlotsHaveOwners
  <2> QED BY <1>10, <2>1, MovingPreserves DEF Released
<1>11. ASSUME NEW c \in Callers, Leave(c) PROVE QueueInv'
  <2>1. c \notin Waiting /\ c \notin closed
    BY <1>11 DEF Leave, At, QueueInv, WaitersWaitOnce, SlotsHaveOwners
  <2> QED BY <1>11, <2>1, MovingPreserves DEF Leave
<1>12. CASE UNCHANGED vars
  BY <1>12 DEF vars, QueueInv, TypeOK, OneInLock, WaitersWaitOnce, Distinct,
               SlotsHaveOwners, SlotsBalance, CriticalAlone, Waiting
<1> QED
  BY <1>1, <1>2, <1>3, <1>4, <1>5, <1>6, <1>7, <1>8, <1>9, <1>10, <1>11, <1>12
     DEF Next, ReleaseAgain

(* The queue's types and every invariant above, for any number of callers  *)
(* and any slots and bound New is given (queue.go:126-134).                *)
THEOREM QueueInvariant == Spec => []QueueInv
  BY InitQueueInv, NextPreservesQueueInv, PTL DEF Spec

(* The fields of Queue keep their types whoever arrives (queue.go:103-118). *)
THEOREM TypeCorrect == Spec => []TypeOK
<1>1. QueueInv => TypeOK
  BY DEF QueueInv
<1> QED BY <1>1, QueueInvariant, PTL

(* queue.go:177-180: no interleaving of cancellations, hand-overs and      *)
(* releases leaks a slot or gives one back twice.                          *)
THEOREM NoSlotLeaks == Spec => []SlotsBalance
<1>1. QueueInv => SlotsBalance
  BY DEF QueueInv
<1> QED BY <1>1, QueueInvariant, PTL

(* queue.go:168-182: a request that has not returned waits or has a slot,  *)
(* never both and never neither, also when its cancellation races the      *)
(* hand-over.                                                              *)
THEOREM NoRequestIsLost == Spec => []NobodyIsLost
<1>1. QueueInv => NobodyIsLost
  BY DEF QueueInv, NobodyIsLost
<1> QED BY <1>1, QueueInvariant, PTL

(* queue.go:81-85: a critical request that runs has the box to itself.     *)
THEOREM CriticalOwnsTheBox == Spec => []CriticalAlone
<1>1. QueueInv => CriticalAlone
  BY DEF QueueInv
<1> QED BY <1>1, QueueInvariant, PTL
-----------------------------------------------------------------------------
(* The list is over its bound only by an arrival that is still deciding.   *)
LEMMA InitListBounded == Init => ListBounded
<1> SUFFICES ASSUME Init PROVE Len(waiters) <= Bound
  BY DEF ListBounded
<1>1. Len(waiters) = 0
  BY EmptySeq DEF Init
<1> QED BY <1>1, SlotsArePositive

LEMMA NextPreservesListBounded ==
  QueueInv /\ ListBounded /\ [Next]_vars => ListBounded'
<1> SUFFICES ASSUME QueueInv, ListBounded, [Next]_vars PROVE ListBounded'
  OBVIOUS
<1>0. /\ Len(waiters) \in Nat /\ Bound \in Nat /\ waiters \in Seq(Callers)
      /\ pc \in [Callers -> ControlPoints]
  BY LenProperties, SlotsArePositive DEF QueueInv, TypeOK
<1>1. ASSUME NEW c \in Callers, NEW p \in Arriving, Acquire(c, p)
      PROVE  ListBounded'
  <2>1. Len(waiters) <= Bound
    BY <1>1 DEF ListBounded, Acquire, Unlocked, InLock, At
  <2>2. c \notin Waiting
    BY <1>1 DEF Acquire, At, QueueInv, WaitersWaitOnce
  <2>3. Len(waiters') = Len(waiters) + 1 /\ c \in Waiting'
    BY <1>0, <1>1, <2>2, AppendToWaiters DEF Acquire, QueueInv, WaitersWaitOnce
  <2>4. pc'[c] = "acquiring"
    BY <1>0, <1>1 DEF Acquire, Goto
  <2> QED BY <1>0, <2>1, <2>3, <2>4 DEF ListBounded, At
<1>2. ASSUME NEW c \in Callers, AdmitBest(c) PROVE ListBounded'
  <2>1. Len(waiters') = Len(waiters) - 1
    BY <1>0, <1>2, RemoveFromWaiters DEF AdmitBest, QueueInv, WaitersWaitOnce
  <2> QED BY <1>0, <2>1 DEF ListBounded
<1>3. ASSUME NEW c \in Callers, c \in Waiting, RemoveWaiter(c)
      PROVE  ListBounded'
  <2>1. IndexOf(c) \in DOMAIN waiters
    BY <1>3 DEF IndexOf, Waiting
  <2>2. Len(waiters') = Len(waiters) - 1
    BY <1>0, <1>3, <2>1, RemoveFromWaiters
       DEF RemoveWaiter, QueueInv, WaitersWaitOnce
  <2> QED BY <1>0, <2>2 DEF ListBounded
<1>4. ASSUME NEW c \in Callers, waiters' = waiters,
             \A d \in Callers : At(d, "acquiring") => At(d, "acquiring")'
      PROVE  ListBounded'
  BY <1>4 DEF ListBounded, Waiting
<1>5. ASSUME NEW c \in Callers, EnterSelect(c) PROVE ListBounded'
  <2>1. Len(waiters) <= Bound
    BY <1>0, <1>5
       DEF EnterSelect, OverBound, ListBounded, QueueInv, OneInLock, InLock, At
  <2> QED BY <2>1, <1>5 DEF EnterSelect, ListBounded
<1>6. ASSUME NEW c \in Callers, Withdraw(c) PROVE ListBounded'
  <2>1. CASE c \in Waiting
    BY <1>3, <1>6, <2>1 DEF Withdraw
  <2>2. CASE c \notin Waiting
    BY <1>0, <1>4, <1>6, <2>2 DEF Withdraw, RemoveWaiter, At, Goto
  <2> QED BY <2>1, <2>2
<1>7. ASSUME NEW c \in Callers, Shed(c) PROVE ListBounded'
  BY <1>3, <1>7 DEF Shed, OverBound
<1>8. ASSUME NEW c \in Callers,
             TakeSlot(c) \/ CtxDone(c) \/ Release(c) \/ DropSlot(c)
             \/ Released(c) \/ Leave(c)
      PROVE  ListBounded'
  <2>1. waiters' = waiters /\ pc[c] # "acquiring"
    BY <1>8 DEF TakeSlot, CtxDone, Release, DropSlot, GiveBack, Released,
                Leave, At
  <2>2. \E place : pc' = [pc EXCEPT ![c] = place]
    BY <1>8 DEF TakeSlot, CtxDone, Release, DropSlot, Released, Leave, Goto
  <2>3. \A d \in Callers : At(d, "acquiring") => At(d, "acquiring")'
    BY <1>0, <2>1, <2>2 DEF At
  <2> QED BY <1>4, <2>1, <2>3
<1>9. CASE UNCHANGED vars
  BY <1>9 DEF vars, ListBounded, At, Waiting
<1> QED
  BY <1>1, <1>2, <1>5, <1>6, <1>7, <1>8, <1>9 DEF Next, ReleaseAgain

(* queue.go:153-160: whatever arrives, no more than the bound is waiting   *)
(* once the lock is free.                                                  *)
THEOREM ListStaysInBound == Spec => []BoundRespected
<1>1. ListBounded => BoundRespected
  <2> SUFFICES ASSUME ListBounded, Unlocked PROVE Len(waiters) <= Bound
    BY DEF BoundRespected
  <2> QED BY DEF ListBounded, Unlocked, At, InLock
<1> QED
  BY <1>1, InitListBounded, NextPreservesListBounded, QueueInvariant, PTL
     DEF Spec
-----------------------------------------------------------------------------
(* dispatchLocked ends with nobody running only if nobody waits.           *)
LEMMA NothingAdmissible ==
  ASSUME QueueInv, Admissible = {}, waiters # <<>>
  PROVE  running > 0
<1> SUFFICES ASSUME running = 0 PROVE FALSE
  BY SlotsArePositive DEF QueueInv, SlotsBalance
<1>1. closed = {}
  BY OwnersAreFinite, FS_EmptySet DEF QueueInv, SlotsBalance, TypeOK
<1>2. ~runningCritical
  BY <1>1 DEF QueueInv, CriticalAlone
<1>3. 1 \in DOMAIN waiters
  BY EmptySeq, LenProperties DEF QueueInv, TypeOK
<1>4. CASE CriticalWaiting
  <2>1. PICK i \in DOMAIN waiters : prio[waiters[i]] = Critical
    BY <1>4 DEF CriticalWaiting, Waiting
  <2>2. CanAdmit(prio[waiters[i]])
    BY <1>2, <2>1 DEF CanAdmit
  <2> QED BY <2>2 DEF Admissible
<1>5. CASE ~CriticalWaiting
  <2>1. waiters[1] \in Waiting
    BY <1>3 DEF Waiting
  <2>2. prio[waiters[1]] # Critical
    BY <1>5, <2>1 DEF CriticalWaiting
  <2>3. running < Slots
    BY SlotsArePositive
  <2>4. CanAdmit(prio[waiters[1]])
    BY <1>2, <1>5, <2>2, <2>3 DEF CanAdmit
  <2> QED BY <2>4, <1>3 DEF Admissible
<1> QED BY <1>4, <1>5

LEMMA NextPreservesDispatch ==
  QueueInv /\ SomebodyWillDispatch /\ [Next]_vars => SomebodyWillDispatch'
<1> SUFFICES ASSUME QueueInv, SomebodyWillDispatch, [Next]_vars,
                    Unlocked', waiters' # <<>>
             PROVE  running' > 0
  BY DEF SomebodyWillDispatch
<1>0. pc \in [Callers -> ControlPoints] /\ waiters \in Seq(Callers)
  BY DEF QueueInv, TypeOK
<1>1. ASSUME NEW c \in Callers, pc'[c] \in InLock PROVE FALSE
  BY <1>1 DEF Unlocked
<1>2. ASSUME NEW c \in Callers, NEW p \in Arriving, Acquire(c, p) PROVE FALSE
  BY <1>0, <1>1, <1>2 DEF Acquire, Goto, InLock
<1>3. ASSUME NEW c \in Callers, AdmitBest(c) PROVE FALSE
  BY <1>1, <1>3 DEF AdmitBest
<1>4. ASSUME NEW c \in Callers, Release(c) \/ DropSlot(c) PROVE FALSE
  BY <1>0, <1>1, <1>4 DEF Release, DropSlot, Goto, InLock
<1>5. ASSUME NEW c \in Callers, c \in Waiting, RemoveWaiter(c)
      PROVE  waiters # <<>>
  BY <1>5, EmptySeq, LenProperties, <1>0 DEF Waiting
<1>6. ASSUME NEW c \in Callers, Shed(c) \/ EnterSelect(c) \/ Released(c)
      PROVE  running' > 0
  <2>1. Admissible = {} /\ running' = running
    BY <1>6 DEF Shed, OverBound, EnterSelect, Released
  <2>2. waiters # <<>>
    BY <1>5, <1>6 DEF Shed, OverBound, EnterSelect, Released
  <2> QED BY <2>1, <2>2, NothingAdmissible
<1>7. ASSUME NEW c \in Callers,
             Withdraw(c) \/ TakeSlot(c) \/ CtxDone(c) \/ Leave(c)
      PROVE  running' > 0
  <2>1. Unlocked
    BY <1>0, <1>7
       DEF Unlocked, Withdraw, TakeSlot, CtxDone, Leave, At, Goto, InLock
  <2>2. waiters # <<>>
    <3>1. CASE Withdraw(c) /\ c \in Waiting
      BY <1>5, <3>1 DEF Withdraw
    <3>2. CASE waiters' = waiters
      BY <3>2
    <3> QED
      BY <1>7, <3>1, <3>2 DEF Withdraw, RemoveWaiter, TakeSlot, CtxDone, Leave
  <2>3. running' = running
    BY <1>7 DEF Withdraw, TakeSlot, CtxDone, Leave
  <2> QED BY <2>1, <2>2, <2>3 DEF SomebodyWillDispatch
<1>8. CASE UNCHANGED vars
  BY <1>8 DEF vars, SomebodyWillDispatch, Unlocked
<1> QED
  BY <1>2, <1>3, <1>4, <1>6, <1>7, <1>8 DEF Next, ReleaseAgain

(* No lost wakeup: while anybody waits with the lock free, a slot is in    *)
(* use, and its release dispatches again (queue.go:199-212).               *)
THEOREM NoLostWakeup == Spec => []SomebodyWillDispatch
<1>1. Init => SomebodyWillDispatch
  BY DEF Init, SomebodyWillDispatch
<1> QED
  BY <1>1, NextPreservesDispatch, QueueInvariant, PTL DEF Spec
-----------------------------------------------------------------------------
(* What the loop's choice means for the whole list, not only for those it  *)
(* may admit: nobody on it is better.                                      *)
LEMMA BestOfAll ==
  ASSUME QueueInv, NEW i \in DOMAIN waiters, Best(i), NEW j \in DOMAIN waiters
  PROVE  ~Better(j, i)
<1>0. /\ i \in Nat /\ j \in Nat
      /\ waiters[i] \in Callers /\ waiters[j] \in Callers
      /\ prio[waiters[i]] \in Priority /\ prio[waiters[j]] \in Priority
  BY LenProperties, ElementOfSeq DEF QueueInv, TypeOK
<1>1. CanAdmit(prio[waiters[i]])
  BY DEF Best, Admissible
<1> SUFFICES ASSUME Better(j, i) PROVE FALSE
  OBVIOUS
<1>2. i # j
  BY <1>0 DEF Better, Priority, Low, Critical
<1>3. CASE j \in Admissible
  <2>1. Better(i, j)
    BY <1>2, <1>3 DEF Best
  <2> QED BY <2>1, <1>0 DEF Better, Priority, Low, Critical
<1>4. CASE prio[waiters[j]] = Critical /\ prio[waiters[i]] # Critical
  BY <1>1, <1>4 DEF CanAdmit, CriticalWaiting, Waiting
<1>5. CASE prio[waiters[j]] = Critical /\ prio[waiters[i]] = Critical
  BY <1>1, <1>3, <1>5 DEF Admissible
<1>6. CASE prio[waiters[j]] # Critical
  <2>1. prio[waiters[i]] # Critical
    BY <1>0, <1>6 DEF Better, Priority, Low, Critical
  <2>2. CanAdmit(prio[waiters[j]])
    BY <1>1, <1>6, <2>1 DEF CanAdmit
  <2> QED BY <2>2, <1>3 DEF Admissible
<1> QED BY <1>4, <1>5, <1>6

LEMMA NextDoesNotOvertake ==
  ASSUME QueueInv, Next, NEW i \in DOMAIN waiters, NEW j \in DOMAIN waiters,
         waiters[i] \in closed' \ closed
  PROVE  ~Better(j, i)
<1>1. PICK c \in Callers : AdmitBest(c)
  BY DEF Next, Acquire, Shed, EnterSelect, TakeSlot, CtxDone, Withdraw,
         Release, DropSlot, GiveBack, Released, ReleaseAgain, Leave, vars
<1>2. PICK k \in DOMAIN waiters : Best(k) /\ closed' = closed \cup {waiters[k]}
  BY <1>1 DEF AdmitBest
<1>3. k = i
  BY <1>2 DEF QueueInv, WaitersWaitOnce, Distinct
<1> QED BY <1>2, <1>3, BestOfAll

(* queue.go:87 and 280-287: admissions follow priority and age, through    *)
(* every interleaving of arrivals, cancellations and releases.             *)
THEOREM AdmissionsInOrder == Spec => NoOvertaking
<1>1. QueueInv /\ [Next]_vars =>
        [\A i, j \in DOMAIN waiters :
           waiters[i] \in closed' \ closed => ~Better(j, i)]_vars
  BY NextDoesNotOvertake
<1> QED BY <1>1, QueueInvariant, PTL DEF Spec, NoOvertaking
-----------------------------------------------------------------------------
(* Every step of the queue is a step of its rules, or changes nothing they *)
(* speak of.                                                               *)
LEMMA InitRules == Init => Rules!Init
  BY DEF Init, Rules!Init, Priority, Low, Critical

LEMMA NextImplementsRules ==
  QueueInv /\ QueueInv' /\ [Next]_vars => [Rules!Next]_(Rules!ruleVars)
<1> SUFFICES ASSUME QueueInv, QueueInv', [Next]_vars
             PROVE  Rules!Next \/ UNCHANGED <<waiters, prio, closed>>
  BY DEF Rules!ruleVars
<1>0. Waiting = Rules!Listed
  BY DEF Waiting, Rules!Listed
<1>1. ASSUME NEW c \in Callers, NEW p \in Arriving, Acquire(c, p)
      PROVE  Rules!Next
  <2>1. c \notin Waiting \cup closed
    BY <1>1 DEF Acquire, At, QueueInv, WaitersWaitOnce, SlotsHaveOwners
  <2> QED
    BY <1>0, <1>1, <2>1, QueueAssumption DEF Acquire, Rules!Next, Rules!Arrive
<1>2. ASSUME NEW c \in Callers, AdmitBest(c) PROVE Rules!Next
  <2>1. PICK i \in DOMAIN waiters :
          /\ Best(i)
          /\ waiters' = RemoveAt(waiters, i)
          /\ closed' = closed \cup {waiters[i]}
    BY <1>2 DEF AdmitBest
  <2>2. CanAdmit(prio[waiters[i]])
    BY <2>1 DEF Best, Admissible
  <2>3. Rules!Rule1
    BY <2>2 DEF CanAdmit, Rules!Rule1, QueueInv, CriticalAlone
  <2>4. Rules!Rule2(waiters[i])
    <3>1. CASE prio[waiters[i]] = Critical
      <4>1. running = 0
        BY <2>2, <3>1 DEF CanAdmit
      <4>2. closed = {}
        BY <4>1, OwnersAreFinite, FS_EmptySet DEF QueueInv, SlotsBalance, TypeOK
      <4> QED BY <3>1, <4>2 DEF Rules!Rule2
    <3>2. CASE prio[waiters[i]] # Critical
      BY <1>0, <2>2, <3>2 DEF CanAdmit, CriticalWaiting, Rules!Rule2
    <3> QED BY <3>1, <3>2
  <2>5. Rules!Rule3(i)
    <3>1. Cardinality(closed) < Slots
      BY <2>2, SlotsArePositive DEF CanAdmit, QueueInv, SlotsBalance
    <3>2. ASSUME NEW j \in DOMAIN waiters
          PROVE  \/ prio[waiters[j]] < prio[waiters[i]]
                 \/ prio[waiters[j]] = prio[waiters[i]] /\ i <= j
      <4>1. ~Better(j, i)
        BY <2>1, BestOfAll
      <4>2. /\ i \in Nat /\ j \in Nat
            /\ prio[waiters[i]] \in Priority /\ prio[waiters[j]] \in Priority
        BY LenProperties, ElementOfSeq DEF QueueInv, TypeOK
      <4> QED BY <4>1, <4>2 DEF Better, Priority, Low, Critical
    <3> QED BY <3>1, <3>2 DEF Rules!Rule3, Cardinality, Rules!Cardinality
  <2>6. prio' = prio
    BY <1>2 DEF AdmitBest
  <2>7. Rules!Admit(i)
    BY <2>1, <2>3, <2>4, <2>5, <2>6 DEF Rules!Admit, RemoveAt, Rules!RemoveAt
  <2> QED BY <2>7 DEF Rules!Next
<1>3. ASSUME NEW c \in Callers, c \in Waiting, RemoveWaiter(c),
             UNCHANGED <<prio, closed>>
      PROVE  Rules!Next
  <2>1. IndexOf(c) \in DOMAIN waiters
    BY <1>3 DEF IndexOf, Waiting
  <2> QED BY <1>3, <2>1 
       DEF RemoveWaiter, Rules!Next, Rules!GiveUp, RemoveAt, Rules!RemoveAt
<1>4. ASSUME NEW c \in Callers, Shed(c) PROVE Rules!Next
  BY <1>3, <1>4 DEF Shed, OverBound
<1>5. ASSUME NEW c \in Callers, Withdraw(c)
      PROVE  Rules!Next \/ UNCHANGED <<waiters, prio, closed>>
  BY <1>3, <1>5 DEF Withdraw, RemoveWaiter
<1>6. ASSUME NEW c \in Callers, Release(c) \/ DropSlot(c) PROVE Rules!Next
  <2>1. c \in closed
    BY <1>6 DEF Release, DropSlot, At, QueueInv, SlotsHaveOwners
  <2> QED
    BY <1>6, <2>1 DEF Release, DropSlot, GiveBack, Rules!Next, Rules!Finish
<1>7. ASSUME NEW c \in Callers,
             EnterSelect(c) \/ TakeSlot(c) \/ CtxDone(c) \/ Released(c) \/ Leave(c)
      PROVE  UNCHANGED <<waiters, prio, closed>>
  BY <1>7 DEF EnterSelect, TakeSlot, CtxDone, Released, Leave
<1>8. CASE UNCHANGED vars
  BY <1>8 DEF vars
<1> QED
  BY <1>1, <1>2, <1>4, <1>5, <1>6, <1>7, <1>8 DEF Next, ReleaseAgain

(* The counters, the lock and its gaps implement rules 1 to 3 exactly.     *)
THEOREM QueueImplementsRules == Spec => ImplementsRules
  BY InitRules, NextImplementsRules, QueueInvariant, PTL
     DEF Spec, ImplementsRules, Rules!Spec

(* At every step of every behaviour the queue is sound: types, slots,      *)
(* waiters, the critical rule, the bound and the wake-up.                  *)
THEOREM QueueStaysSound == Spec => []QueueIsSound
  BY TypeCorrect, NoSlotLeaks, NoRequestIsLost, CriticalOwnsTheBox,
     ListStaysInBound, NoLostWakeup, PTL DEF QueueIsSound
=============================================================================
