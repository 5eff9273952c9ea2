------------------------ MODULE UpdateCacheProofs -------------------------
(***************************************************************************)
(* Proofs about the update checker: the decisions taken on its record, and *)
(* the runs that share its directory, for any number of runs, generations, *)
(* releases and delays: what a run knows while it is within its lease      *)
(* stays so, whatever the others do, and a run by itself gets its answer.  *)
(***************************************************************************)
EXTENDS UpdateCache, FiniteSetTheorems, TLAPS

-----------------------------------------------------------------------------
(* The decisions on a record.                                              *)

(* The notices a record knows of.                                          *)
Known(s) == s.offered \cup s.acknowledged

(* A record as the checker leaves it: no notice is on both lists, one to   *)
(* be shown is on one of them, and the offered ones can be acknowledged.   *)
Sound(s) ==
  /\ s \in Notices
  /\ s.offered \cap s.acknowledged = {}
  /\ s.candidate \cap Newer \subseteq Known(s)
  /\ s.offered # {} => Recoverable(s)

(* What a decision on the sound record s may leave: t, printing a.         *)
Successor(s, t, a) ==
  /\ Sound(t) /\ Readable(t)
  /\ Known(s) \subseteq Known(t)
  /\ a \in Answers /\ a.notice \subseteq Known(t)

LEMMA EmptyIsSound == Sound(EmptyState)
BY DEF Sound, EmptyState, Notices, Known

LEMMA SilentIsAnswer ==
  ASSUME NEW why \in Reasons
  PROVE  Silent(why) \in Answers /\ \A K : Silent(why).notice \subseteq K
BY DEF Silent, Answers

(* What is printed of a record is known to it.                             *)
LEMMA ResultIsKnown ==
  ASSUME NEW s, Sound(s)
  PROVE  /\ ResultFor(s) \in Answers /\ ResultFor(s).notice \subseteq Known(s)
         /\ LoserResult(s) \in Answers /\ LoserResult(s).notice \subseteq Known(s)
<1>1. s.candidate = {} \/ \E r \in Release : s.candidate = {r}
  BY DEF Sound, Notices
<1>2. ResultFor(s) \in Answers /\ ResultFor(s).notice \subseteq Known(s)
  <2>1. CASE s.candidate = {}
    <3>1. ResultFor(s) = Silent("cache-valid")
      BY <2>1 DEF ResultFor
    <3> QED BY <3>1, SilentIsAnswer DEF Reasons
  <2>2. CASE s.candidate # {} /\ s.candidate \cap Newer = {}
    <3>1. ResultFor(s) = Silent("current")
      BY <2>2 DEF ResultFor
    <3> QED BY <3>1, SilentIsAnswer DEF Reasons
  <2>3. CASE /\ s.candidate # {} /\ s.candidate \cap Newer # {}
             /\ s.candidate \subseteq s.acknowledged
    <3>1. ResultFor(s) = Silent("already-notified")
      BY <2>3 DEF ResultFor
    <3> QED BY <3>1, SilentIsAnswer DEF Reasons
  <2>4. CASE /\ s.candidate # {} /\ s.candidate \cap Newer # {}
             /\ ~(s.candidate \subseteq s.acknowledged)
    <3>1. ResultFor(s) = [notice |-> s.candidate, why |-> "update_available"]
      BY <2>4 DEF ResultFor
    <3>2. PICK r \in Release : s.candidate = {r}
      BY <1>1, <2>4
    <3>3. r \in Newer
      BY <2>4, <3>2
    <3>4. s.candidate \subseteq Known(s)
      BY <3>2, <3>3 DEF Sound
    <3>5. s.candidate \in {{}} \cup {{x} : x \in Release}
      BY <3>2
    <3>6. [notice |-> s.candidate, why |-> "update_available"] \in Answers
      BY <3>5 DEF Answers, Reasons
    <3> QED BY <3>1, <3>4, <3>6
  <2> QED BY <2>1, <2>2, <2>3, <2>4
<1>3. LoserResult(s) = ResultFor(s) \/ LoserResult(s) = Silent("check-in-progress")
  BY DEF LoserResult
<1> QED BY <1>2, <1>3, SilentIsAnswer DEF Reasons

(* A record with room for its acknowledgements has room for each of them:  *)
(* moving one makes the record that moving one more made before.           *)
LEMMA RoomStays ==
  ASSUME NEW s, Sound(s), NEW d \in s.offered
  PROVE  Recoverable(AfterAcknowledging(s, d))
<1> DEFINE t == AfterAcknowledging(s, d)
           n == Cardinality(s.offered)
           m == Cardinality(s.acknowledged)
<1>1. /\ t.offered = s.offered \ {d} /\ t.acknowledged = s.acknowledged \cup {d}
      /\ t.candidate = s.candidate /\ t.due = s.due
  BY DEF AfterAcknowledging, Sound, Notices
<1>2. IsFiniteSet(s.offered) /\ IsFiniteSet(s.acknowledged) /\ n \in Nat /\ m \in Nat
  BY NoticeAssumption, FS_Subset, FS_CardinalityType DEF Sound, Notices
<1>3. Cardinality(t.offered) = n - 1
  BY <1>1, <1>2, FS_RemoveElement
<1>4. d \notin s.acknowledged
  BY DEF Sound
<1>5. Cardinality(t.acknowledged) = m + 1
  BY <1>1, <1>2, <1>4, FS_AddElement
<1>6. Recoverable(s)
  BY DEF Sound
<1> HIDE DEF t, n, m
<1>7. \A k \in 0..(n - 1) : k + 1 \in 0..n /\ (n - 1) - k = n - (k + 1) /\ (m + 1) + k = m + (k + 1)
  BY <1>2
<1>8. Stamped(t) = Stamped(s)
  BY <1>1 DEF Stamped
<1>9. \A k \in 0..(n - 1) : \A stamp : Size(t, k, stamp) = Size(s, k + 1, stamp)
  BY <1>1, <1>3, <1>5, <1>7 DEF Size, n, m
<1>10. Recoverable(t)
  BY <1>3, <1>6, <1>7, <1>8, <1>9 DEF Recoverable, n
<1> QED BY <1>10 DEF t

LEMMA AcknowledgementFits ==
  ASSUME NEW s, Sound(s), NEW d \in s.offered
  PROVE  AcknowledgeDecision(s, d).state # {}
BY RoomStays DEF AcknowledgeDecision, Decision

-----------------------------------------------------------------------------
(* Every decision leaves a sound record, forgets no notice, and prints     *)
(* only what it has put on record.                                         *)
LEMMA SuccessorOf ==
  ASSUME NEW s, NEW t \in Notices, NEW a, a \in Answers, Recoverable(t),
         t.offered \cap t.acknowledged = {}, Known(s) \subseteq Known(t),
         t.candidate \cap Newer \subseteq Known(t), a.notice \subseteq Known(t)
  PROVE  Successor(s, t, a)
BY DEF Successor, Sound, Readable, Known

(* A failed check changes dates, and perhaps withdraws the candidate.      *)
LEMMA FailedCheck ==
  ASSUME NEW s, Sound(s), NEW now \in Nat, NEW withdraw \in BOOLEAN, NEW why \in Reasons,
         Recoverable(AfterFailedCheck(s, now, withdraw))
  PROVE  Successor(s, AfterFailedCheck(s, now, withdraw), Silent(why))
<1> DEFINE t == AfterFailedCheck(s, now, withdraw)
<1>1. FirstDelay \in Nat /\ LaterDelay \in Nat
  BY NoticeAssumption
<1>2. /\ t \in Notices /\ t.offered = s.offered /\ t.acknowledged = s.acknowledged
      /\ t.candidate \subseteq s.candidate
  <2> DEFINE n == IF s.failures + 1 > 2 THEN 2 ELSE s.failures + 1
             due == now + (IF n <= 1 THEN FirstDelay ELSE LaterDelay)
             kept == IF withdraw THEN {} ELSE s.candidate
  <2>1. t = [s EXCEPT !.failures = n, !.due = due, !.candidate = kept]
    BY DEF AfterFailedCheck
  <2>2. s \in Notices
    BY DEF Sound
  <2>3. n \in 0..2 /\ due \in Nat
    BY <1>1, <2>2 DEF Notices
  <2>4. kept \in {{}} \cup {{x} : x \in Release} /\ kept \subseteq s.candidate
    BY <2>2 DEF Notices
  <2> HIDE DEF n, due, kept, t
  <2> QED BY <2>1, <2>2, <2>3, <2>4 DEF Notices
<1>3. Silent(why) \in Answers /\ Silent(why).notice \subseteq Known(t)
  BY SilentIsAnswer
<1> HIDE DEF t
<1>4. /\ t.offered \cap t.acknowledged = {} /\ Known(s) \subseteq Known(t)
      /\ t.candidate \cap Newer \subseteq Known(t)
  BY <1>2 DEF Sound, Known
<1>5. Recoverable(t)
  BY DEF t
<1> QED BY <1>2, <1>3, <1>4, <1>5, SuccessorOf DEF t

LEMMA FailureLeaves ==
  ASSUME NEW s, Sound(s), NEW now \in Nat, NEW t \in FailureDecision(s, now).state
  PROVE  Successor(s, t, FailureDecision(s, now).answer)
<1>1. /\ Recoverable(AfterFailedCheck(s, now, FALSE)) /\ t = AfterFailedCheck(s, now, FALSE)
      /\ FailureDecision(s, now).answer = Silent("check-failed")
  BY DEF FailureDecision, Decision
<1> QED BY <1>1, FailedCheck DEF Reasons

LEMMA AcknowledgeLeaves ==
  ASSUME NEW s, Sound(s), NEW d \in Release, NEW t \in AcknowledgeDecision(s, d).state
  PROVE  Successor(s, t, AcknowledgeDecision(s, d).answer)
<1>1. /\ t = AfterAcknowledging(s, d) /\ Recoverable(t) /\ d \in Known(s)
      /\ AcknowledgeDecision(s, d).answer = Silent("acknowledged")
  BY DEF AcknowledgeDecision, Decision, Known
<1>2. /\ t \in Notices /\ t.offered = s.offered \ {d}
      /\ t.acknowledged = s.acknowledged \cup {d} /\ t.candidate = s.candidate
  <2>1. s.offered \ {d} \in SUBSET Release /\ s.acknowledged \cup {d} \in SUBSET Release
    BY DEF Sound, Notices
  <2> QED BY <1>1, <2>1 DEF AfterAcknowledging, Sound, Notices
<1>3. /\ t.offered \cap t.acknowledged = {} /\ Known(s) \subseteq Known(t)
      /\ t.candidate \cap Newer \subseteq Known(t)
  BY <1>2 DEF Sound, Known
<1>4. Silent("acknowledged") \in Answers /\ Silent("acknowledged").notice \subseteq Known(t)
  BY SilentIsAnswer DEF Reasons
<1> QED BY <1>1, <1>2, <1>3, <1>4, SuccessorOf

LEMMA FetchLeaves ==
  ASSUME NEW s, Sound(s), NEW now \in Nat, NEW delay \in SuccessDelays, NEW r \in Release,
         NEW t \in FetchDecision(s, now, delay, r).state
  PROVE  Successor(s, t, FetchDecision(s, now, delay, r).answer)
<1> DEFINE next == [s EXCEPT !.candidate = {r}, !.due = now + delay, !.failures = 0]
           after == AfterFetch(s, now, delay, r)
           less == AfterFailedCheck(s, now, TRUE)
<1>1. CASE ~Recoverable(after)
  <2>1. /\ Recoverable(less) /\ t = less
        /\ FetchDecision(s, now, delay, r).answer = Silent("cache-unavailable")
    BY <1>1 DEF FetchDecision, Decision
  <2> QED BY <2>1, FailedCheck DEF Reasons
<1>2. CASE Recoverable(after)
  <2>1. t = after /\ FetchDecision(s, now, delay, r).answer = ResultFor(after)
    BY <1>2 DEF FetchDecision, Decision
  <2>2. delay \in Nat
    BY NoticeAssumption
  <2>3. /\ next.candidate = {r} /\ next.offered = s.offered
        /\ next.acknowledged = s.acknowledged /\ next \in Notices
    <3>1. s \in Notices
      BY DEF Sound
    <3>2. {r} \in {{}} \cup {{x} : x \in Release} /\ now + delay \in Nat
      BY <2>2
    <3>3. [s EXCEPT !.candidate = {r}, !.due = now + delay, !.failures = 0] \in Notices
      <4> DEFINE c == {r}
                 u == now + delay
                 z == 0
      <4>1. c \in {{}} \cup {{x} : x \in Release} /\ u \in Nat /\ z \in 0..2
        BY <3>2
      <4> HIDE DEF c, u, z
      <4>2. [s EXCEPT !.candidate = c, !.due = u, !.failures = z] \in Notices
        BY <3>1, <4>1 DEF Notices
      <4> QED BY <4>2 DEF c, u, z
    <3>4. /\ next.candidate = {r} /\ next.offered = s.offered
          /\ next.acknowledged = s.acknowledged
      BY <3>1 DEF Notices
    <3> QED BY <3>3, <3>4
  <2> DEFINE shown == IF r \in Newer \ s.acknowledged THEN {r} ELSE {}
  <2> HIDE DEF next
  <2>4. ResultFor(next).notice = shown
    <3>1. CASE r \in Newer \ s.acknowledged
      BY <2>3, <3>1 DEF ResultFor
    <3>2. CASE r \notin Newer
      BY <2>3, <3>2 DEF ResultFor, Silent
    <3>3. CASE r \in Newer /\ r \in s.acknowledged
      BY <2>3, <3>3 DEF ResultFor, Silent
    <3> QED BY <3>1, <3>2, <3>3
  <2>5. after = [next EXCEPT !.offered = @ \cup shown]
    BY <2>4 DEF AfterFetch, next
  <2>6. shown \subseteq Release
    OBVIOUS
  <2>7. /\ after \in Notices /\ after.candidate = {r}
        /\ after.offered = s.offered \cup shown /\ after.acknowledged = s.acknowledged
    <3>1. s.offered \cup shown \in SUBSET Release
      BY <2>6 DEF Sound, Notices
    <3> HIDE DEF shown
    <3> QED BY <2>3, <2>5, <3>1 DEF Notices
  <2> HIDE DEF after
  <2>8. after.offered \cap after.acknowledged = {}
    BY <2>7 DEF Sound
  <2>9. /\ Known(s) \subseteq Known(after)
        /\ after.candidate \cap Newer \subseteq Known(after)
    BY <2>7 DEF Known
  <2>10. Sound(after)
    BY <1>2, <2>7, <2>8, <2>9 DEF Sound
  <2>11. ResultFor(after) \in Answers /\ ResultFor(after).notice \subseteq Known(after)
    BY <2>10, ResultIsKnown
  <2> QED BY <1>2, <2>1, <2>7, <2>8, <2>9, <2>11, SuccessorOf
<1> QED BY <1>1, <1>2

-----------------------------------------------------------------------------
(* Where a run stands.                                                     *)
Early == {"open", "own"}
Turning == {"inspect", "retire", "moveaway", "settle", "promote"}
Fenced == {"hold", "decide", "write", "publish"}
Owning == {"reread", "owned", "fetch", "commit", "list", "fence"} \cup Fenced
Ripe == {"look", "confirm"} \cup Turning \cup Owning
Opened == {"own", "rank", "cancel"} \cup Ripe

\* A generation whose run is still writing its owner file renews the lease; one
\* that was ranked found no later one.
IsYoung(g) == \E p \in Run : run[p].gen = g /\ run[p].pc \in Early
IsRipe(g) == \E p \in Run : run[p].gen = g /\ run[p].pc \in Ripe
Past(g) == g \in reserved /\ op[g] # "none" /\ ~IsYoung(g)

\* No run of a pending generation below g can get past its rank any more.
Below(g) == \A h \in Gen : h < g /\ op[h] = "pending" => ~IsRipe(h)

\* A decision taken on the record s that leaves t.
Times == 0..MaxTime
Move(s, t) ==
  \/ \E r \in Release, delay \in SuccessDelays, now \in Times :
       t \in FetchDecision(s, now, delay, r).state
  \/ \E now \in Times : t \in FailureDecision(s, now).state
  \/ \E d \in Release : t \in AcknowledgeDecision(s, d).state

(* What a run, described by r, may rely on.                                *)
Place(r) ==
  /\ r.gen # 0 => r.gen \in reserved
  /\ r.pc \in Opened => r.gen # 0 /\ op[r.gen] # "none"
  /\ r.pc = "open" => r.gen # 0 /\ op[r.gen] = "none"
  /\ r.pc \in Turning => r.turns < MaxTurns

\* The claim to be retired is a dead one, and still there or retired by others.
Aim(r) ==
  r.pc \in {"retire", "moveaway"} =>
    \E t \in Gen : /\ r.target = {t} /\ Past(t) /\ ~Active(t)
                   /\ claim = {t} \/ t \in retired

\* Within its lease a run past its promotion has the claim.
Grip(r) == r.pc \in Owning /\ Active(r.gen) => claim = {r.gen}

\* What it read is still due.
Due(r) ==
  r.pc \in {"owned", "fetch"} /\ Active(r.gen) /\ Fresh(Current, r.now) =>
    Committed \cap lapsed # {}

\* A run that has fenced is the lowest that may commit.
Wall(r) ==
  /\ r.pc = "fence" => \A h \in Gen \ r.todo :
                         h < r.gen /\ op[h] = "pending" => ~IsRipe(h)
  /\ r.pc \in Fenced => Below(r.gen)

\* Its decision was taken on the record as it stands.
Plan(r) ==
  /\ r.pc \in {"write", "publish"} /\ op[r.gen] = "pending" =>
       Move(Current, r.plan) /\ Successor(Current, r.plan, r.answer)
  /\ r.pc = "publish" /\ op[r.gen] = "pending" => file[r.gen] = r.plan
  /\ r.pc \in {"cancel", "done"} => r.answer.notice \subseteq Known(Current)

Local(r) == Place(r) /\ Aim(r) /\ Grip(r) /\ Due(r) /\ Wall(r) /\ Plan(r)

(* What holds of the directory.                                            *)
OwnGen == \A p, q \in Run : p # q /\ run[p].gen = run[q].gen => run[p].gen = 0
Shape ==
  /\ \A g \in Gen \ reserved : op[g] = "none"
  /\ claim = {} \/ \E g \in Gen : claim = {g} /\ Past(g)
  /\ \A h \in Gen : op[h] = "committed" => Below(h)
  /\ \A g \in Committed : Sound(file[g])

Inv == TypeOK /\ OwnGen /\ Shape /\ \A p \in Run : Local(run[p])

-----------------------------------------------------------------------------
LEMMA Sizes == MaxGen \in Nat /\ MaxTime \in Nat /\ MaxTurns \in Nat \ {0} /\ MaxRounds \in Nat
BY CacheAssumption

(* The record that is read is sound.                                       *)
LEMMA CurrentIsSound == Shape => Sound(Current)
<1> SUFFICES ASSUME Shape PROVE Sound(Current)
  OBVIOUS
<1>1. CASE Newest = {}
  BY <1>1, EmptyIsSound DEF Current
<1>2. CASE Newest # {}
  <2>1. (CHOOSE g \in Newest : TRUE) \in Newest
    BY <1>2
  <2> QED BY <1>2, <2>1 DEF Current, Newest, Shape
<1> QED BY <1>1, <1>2

LEMMA CurrentSame == UNCHANGED <<op, file>> => Current' = Current /\ Committed' = Committed
BY DEF Current, Newest, Committed

(* What holds of the record a run has next holds of the run.               *)
LEMMA Named ==
  ASSUME NEW q \in Run, NEW x, x = run'[q], Local(x)'
  PROVE  Local(run[q])'
<1>1. Place(run[q])'
  BY DEF Local, Place
<1>2. Aim(run[q])'
  BY DEF Local, Aim
<1>3. Grip(run[q])'
  BY DEF Local, Grip
<1>4. Due(run[q])'
  BY DEF Local, Due
<1>5. Wall(run[q])'
  BY DEF Local, Wall
<1>6. Plan(run[q])'
  BY DEF Local, Plan
<1> QED BY <1>1, <1>2, <1>3, <1>4, <1>5, <1>6 DEF Local

(* Most steps read the directory and move their own run: they keep the     *)
(* invariant if the run may rely on what it found.  Only a run with no     *)
(* later reservation ripens.                                               *)
Moves(p, r) ==
  /\ run' = [run EXCEPT ![p] = r]
  /\ r \in RunState
  /\ r.gen \in {0, run[p].gen} /\ r.pc \notin Early
  /\ r.pc \in Ripe => run[p].pc \in Ripe \/ ~Superseded(p)
Around == clock' \in 0..MaxTime /\ scene' \in Scenes /\ alone' \subseteq Run

LEMMA QuietMove ==
  ASSUME Inv, NEW p \in Run, NEW r, Moves(p, r), UNCHANGED dirs, Around, Local(r)
  PROVE  Inv'
<1>1. run \in [Run -> RunState] /\ run' \in [Run -> RunState]
  BY DEF Inv, TypeOK, Moves
<1>2. /\ run'[p] = r /\ \A q \in Run \ {p} : run'[q] = run[q]
  BY <1>1 DEF Moves
<1>3. TypeOK'
  BY <1>1 DEF Inv, TypeOK, Around, dirs
<1>4. OwnGen'
  BY <1>2 DEF Inv, OwnGen, Moves
<1>5. \A g : IsYoung(g)' => IsYoung(g)
  BY <1>2 DEF IsYoung, Moves
<1>6. \A g : Past(g) => Past(g)'
  BY <1>5 DEF Past, dirs
<1>7. \A g : IsRipe(g)' => IsRipe(g) \/ (g = run[p].gen /\ ~Superseded(p))
  <2> SUFFICES ASSUME NEW g, NEW q \in Run, run'[q].gen = g, run'[q].pc \in Ripe
               PROVE  IsRipe(g) \/ (g = run[p].gen /\ ~Superseded(p))
    BY DEF IsRipe
  <2>1. CASE q # p
    BY <2>1, <1>2 DEF IsRipe
  <2>2. CASE q = p
    <3>1. r.gen = g /\ r.pc \in Ripe /\ g # 0
      BY <2>2, <1>2 DEF Local, Place, Opened
    <3> QED BY <3>1 DEF Moves, IsRipe
  <2> QED BY <2>1, <2>2
<1>8. Current' = Current /\ Committed' = Committed
  BY CurrentSame DEF dirs
<1>9. ASSUME NEW x \in RunState, Local(x) PROVE Local(x)'
  <2>1. Place(x)'
    BY <1>9 DEF Local, Place, dirs
  <2>2. Aim(x)'
    BY <1>9, <1>6 DEF Local, Aim, Active, dirs
  <2>3. Grip(x)'
    BY <1>9 DEF Local, Grip, Active, dirs
  <2>4. Due(x)'
    BY <1>9, <1>8 DEF Local, Due, Active, dirs
  <2>5. \A h \in Gen : h < x.gen /\ IsRipe(h)' => IsRipe(h)
    <3> SUFFICES ASSUME NEW h \in Gen, h < x.gen, h = run[p].gen, ~Superseded(p) PROVE FALSE
      BY <1>7
    <3>1. x.gen \in reserved
      BY <1>9, Sizes DEF Local, Place, RunState, Gen
    <3> QED BY <3>1 DEF Superseded
  <2>6. Wall(x)'
    BY <1>9, <2>5 DEF Local, Wall, Below, dirs
  <2>7. Plan(x)'
    BY <1>9, <1>8 DEF Local, Plan, dirs
  <2> QED BY <2>1, <2>2, <2>3, <2>4, <2>6, <2>7 DEF Local
<1>10. Shape'
  <2>1. \A h \in Gen : op[h] = "committed" => Below(h)'
    <3> SUFFICES ASSUME NEW h \in Gen, op[h] = "committed", NEW g \in Gen,
                        g < h, op[g] = "pending", g = run[p].gen, ~Superseded(p)
                 PROVE  FALSE
      BY <1>7 DEF Inv, Shape, Below, dirs
    <3>1. h \in reserved
      BY DEF Inv, Shape
    <3> QED BY <3>1 DEF Superseded
  <2> QED BY <2>1, <1>6, <1>8 DEF Inv, Shape, dirs
<1>11. \A q \in Run : Local(run[q])'
  <2> SUFFICES ASSUME NEW q \in Run PROVE Local(run[q])'
    OBVIOUS
  <2>1. PICK x \in RunState : x = run'[q]
    BY <1>1
  <2>2. Local(x)
    BY <1>2, <2>1 DEF Inv
  <2> QED BY <1>9, <2>1, <2>2, Named
<1> QED BY <1>3, <1>4, <1>10, <1>11 DEF Inv

-----------------------------------------------------------------------------
(* The ways a run goes on.                                                 *)
LEMMA Records ==
  ASSUME Inv, NEW p \in Run
  PROVE  /\ run[p] \in RunState /\ run \in [Run -> RunState] /\ Local(run[p])
         /\ run[p].gen \in 0..MaxGen /\ run[p].pc \in Steps
         /\ run[p].turns \in 0..MaxTurns /\ run[p].now \in 0..MaxTime
BY DEF Inv, TypeOK, RunState

LEMMA Written ==
  ASSUME NEW r \in RunState, NEW step \in Steps
  PROVE  /\ [r EXCEPT !.pc = step] \in RunState
         /\ [r EXCEPT !.pc = step].pc = step
         /\ [r EXCEPT !.pc = step].gen = r.gen /\ [r EXCEPT !.pc = step].now = r.now
         /\ [r EXCEPT !.pc = step].turns = r.turns /\ [r EXCEPT !.pc = step].todo = r.todo
         /\ [r EXCEPT !.pc = step].plan = r.plan /\ [r EXCEPT !.pc = step].answer = r.answer
         /\ [r EXCEPT !.pc = step].target = r.target
BY DEF RunState

LEMMA GoKeeps ==
  ASSUME Inv, NEW p \in Run, NEW step \in Steps \ Early, Go(p, step), UNCHANGED dirs, Around,
         step \in Ripe => run[p].pc \in Ripe \/ ~Superseded(p),
         step \in Opened => run[p].pc \in Opened,
         step \in Turning => run[p].turns < MaxTurns,
         NEW r, r = [run[p] EXCEPT !.pc = step],
         Aim(r), Grip(r), Due(r), Wall(r), Plan(r)
  PROVE  Inv'
<1>1. /\ r \in RunState /\ r.pc = step /\ r.gen = run[p].gen /\ r.turns = run[p].turns
  BY Records, Written
<1>2. Place(r)
  <2>1. Place(run[p])
    BY Records DEF Local
  <2> QED BY <1>1, <2>1 DEF Place, Early
<1>3. Moves(p, r)
  BY <1>1 DEF Moves, Go, Set
<1> QED BY <1>2, <1>3, QuietMove DEF Local

\* Where nothing is relied on but the run's own directory.
Plain == {"survey", "reserve", "declined", "look", "inspect", "settle", "promote",
          "confirm"}

LEMMA PlainKeeps ==
  ASSUME Inv, NEW p \in Run, NEW step \in Plain, Go(p, step), UNCHANGED dirs, Around,
         step \in Ripe => run[p].pc \in Ripe \/ ~Superseded(p),
         step \in Opened => run[p].pc \in Opened,
         step \in Turning => run[p].turns < MaxTurns
  PROVE  Inv'
<1>1. PICK r \in RunState : r = [run[p] EXCEPT !.pc = step] /\ r.pc = step
  <2>1. step \in Steps
    BY DEF Plain, Steps
  <2> QED BY <2>1, Records, Written, ZenonT(30)
<1>2. Aim(r) /\ Grip(r) /\ Due(r) /\ Wall(r) /\ Plan(r)
  BY <1>1 DEF Aim, Grip, Due, Wall, Plan, Plain, Owning, Fenced
<1>3. step \in Steps \ Early
  BY DEF Plain, Steps, Early
<1> QED BY <1>1, <1>2, <1>3, GoKeeps

LEMMA UnbornIsRun == Unborn \in RunState
<1>1. EmptyState \in Notices
  BY EmptyIsSound DEF Sound
<1>2. Silent("") \in Answers
  BY SilentIsAnswer DEF Reasons
<1>3. 0 \in 0..MaxGen /\ 0 \in 0..MaxTime /\ 0 \in 0..MaxTurns /\ 0 \in 0..MaxRounds
  BY Sizes
<1>4. "idle" \in Steps
  BY DEF Steps
<1> QED BY <1>1, <1>2, <1>3, <1>4 DEF Unborn, RunState

LEMMA FinishKeeps ==
  ASSUME Inv, NEW p \in Run, NEW a \in Answers, a.notice \subseteq Known(Current),
         Finish(p, a), UNCHANGED dirs, Around
  PROVE  Inv'
<1> DEFINE r == [Unborn EXCEPT !.pc = "done", !.answer = a]
<1>1. Unborn \in RunState
  BY UnbornIsRun
<1>2. r \in RunState /\ r.pc = "done" /\ r.gen = 0 /\ r.answer = a
  BY <1>1 DEF RunState, Steps, Unborn
<1> HIDE DEF r
<1>3. Local(r)
  BY <1>2 DEF Local, Place, Aim, Grip, Due, Wall, Plan, Opened, Ripe, Turning, Owning, Fenced
<1>4. Moves(p, r)
  BY <1>2 DEF Moves, Finish, Set, r, Early, Ripe, Turning, Owning, Fenced
<1> QED BY <1>3, <1>4, QuietMove

LEMMA LeaveKeeps ==
  ASSUME Inv, NEW p \in Run, NEW a \in Answers, a.notice \subseteq Known(Current),
         NEW step \in {"done", "declined"}, run[p].pc \in Opened,
         Leave(p, a, step), UNCHANGED dirs, Around
  PROVE  Inv'
<1> DEFINE r == [run[p] EXCEPT !.pc = "cancel", !.answer = a, !.next = step]
<1>1. r \in RunState /\ r.pc = "cancel" /\ r.gen = run[p].gen /\ r.answer = a
  <2> DEFINE c == "cancel"
  <2>1. c \in Steps /\ run[p] \in RunState /\ c = "cancel"
    BY Records DEF Steps
  <2> HIDE DEF c
  <2>2. [run[p] EXCEPT !.pc = c, !.answer = a, !.next = step] \in RunState
    BY <2>1 DEF RunState
  <2> QED BY <2>1, <2>2 DEF RunState
<1> HIDE DEF r
<1>2. Place(r)
  <2>1. Place(run[p])
    BY Records DEF Local
  <2> QED BY <1>1, <2>1 DEF Place, Turning
<1>3. Local(r)
  BY <1>1, <1>2 DEF Local, Aim, Grip, Due, Wall, Plan, Owning, Fenced
<1>4. Moves(p, r)
  BY <1>1 DEF Moves, Leave, Set, r, Early, Ripe, Turning, Owning, Fenced
<1> QED BY <1>3, <1>4, QuietMove

\* Turned away: nothing is shown.
LEMMA SilentLeave ==
  ASSUME Inv, NEW p \in Run, NEW step \in {"done", "declined"}, run[p].pc \in Opened,
         Leave(p, InProgress, step), UNCHANGED dirs, Around
  PROVE  Inv'
BY LeaveKeeps, SilentIsAnswer DEF InProgress, Reasons

LEMMA AbandonKeeps ==
  ASSUME Inv, NEW p \in Run, Abandon(p), UNCHANGED dirs, Around
  PROVE  Inv'
BY FinishKeeps, SilentIsAnswer DEF Abandon, Reasons

LEMMA AgainKeeps ==
  ASSUME Inv, NEW p \in Run, Again(p), run[p].pc \in Turning, UNCHANGED dirs, Around
  PROVE  Inv'
<1> DEFINE r == [run[p] EXCEPT !.pc = "look", !.turns = @ + 1, !.target = {}]
<1>1. run[p].turns < MaxTurns /\ Place(run[p])
  BY Records DEF Local, Place
<1>2. run[p].turns + 1 \in 0..MaxTurns
  BY <1>1, Records, Sizes
<1>3. r \in RunState /\ r.pc = "look" /\ r.gen = run[p].gen
  <2> DEFINE n == run[p].turns + 1
             e == {}
  <2>1. e \in SUBSET Gen /\ n \in 0..MaxTurns /\ run[p] \in RunState
    BY <1>2, Records
  <2> HIDE DEF n, e
  <2>2. [run[p] EXCEPT !.pc = "look", !.turns = n, !.target = e] \in RunState
    BY <2>1 DEF RunState, Steps
  <2> QED BY <2>1, <2>2 DEF n, e, RunState
<1> HIDE DEF r
<1>4. Local(r)
  BY <1>1, <1>3 DEF Local, Place, Aim, Grip, Due, Wall, Plan, Opened, Ripe, Turning, Owning, Fenced
<1>5. Moves(p, r)
  BY <1>3 DEF Moves, Again, Set, r, Early, Ripe
<1> QED BY <1>4, <1>5, QuietMove

LEMMA OutrunKeeps ==
  ASSUME Inv, NEW p \in Run, Outrun(p), UNCHANGED dirs, Around
  PROVE  Inv'
BY FinishKeeps, PlainKeeps, SilentIsAnswer
   DEF Outrun, InProgress, Reasons, Plain, Opened, Ripe, Turning, Owning, Fenced

LEMMA BareMove ==
  ASSUME Inv, NEW p \in Run, NEW r \in RunState, run' = [run EXCEPT ![p] = r],
         r.gen \in {0, run[p].gen}, r.pc \in {"idle", "survey", "reserve", "declined", "dead"},
         UNCHANGED dirs, Around
  PROVE  Inv'
<1>1. r.pc \notin Opened /\ r.pc \notin Early /\ r.pc \notin Ripe
  BY DEF Opened, Ripe, Turning, Owning, Fenced, Early
<1>2. Place(run[p])
  BY Records DEF Local
<1>3. Local(r)
  BY <1>1, <1>2 DEF Local, Place, Aim, Grip, Due, Wall, Plan, Opened, Ripe, Turning, Owning, Fenced, Early
<1>4. Moves(p, r)
  BY <1>1 DEF Moves
<1> QED BY <1>3, <1>4, QuietMove

LEMMA Calm == Inv /\ UNCHANGED <<clock, scene, alone>> => Around
BY DEF Inv, TypeOK, Around

-----------------------------------------------------------------------------
(* The steps that only read the directory.                                 *)
LEMMA StartKeeps == ASSUME Inv, NEW p \in Run, Start(p) PROVE Inv'
<1>1. UNCHANGED dirs /\ Around /\ run[p].pc = "idle"
  BY DEF Start, Around, Inv, TypeOK, At
<1>2. CASE Finish(p, ResultFor(Current))
  BY <1>1, <1>2, FinishKeeps, ResultIsKnown, CurrentIsSound DEF Inv
<1>3. CASE Set(p, [run[p] EXCEPT !.pc = "survey", !.now = clock])
  <2>1. PICK r : r = [run[p] EXCEPT !.pc = "survey", !.now = clock]
    OBVIOUS
  <2>2. clock \in 0..MaxTime
    BY DEF Inv, TypeOK
  <2>3. r \in RunState /\ r.gen = run[p].gen /\ r.pc = "survey"
    <3> DEFINE c == "survey"
    <3>1. c \in Steps /\ c = "survey"
      BY DEF Steps
    <3> HIDE DEF c
    <3>2. r = [run[p] EXCEPT !.pc = c, !.now = clock]
      BY <2>1, <3>1
    <3> QED BY <2>2, <3>1, <3>2, Records DEF RunState
  <2> QED BY <1>1, <1>3, <2>1, <2>3, BareMove DEF Set
<1>4. ASSUME NEW d \in scene.served, Set(p, [run[p] EXCEPT !.pc = "survey", !.wants = {d}])
      PROVE  Inv'
  <2> DEFINE w == {d}
  <2>1. PICK r : r = [run[p] EXCEPT !.pc = "survey", !.wants = w]
    OBVIOUS
  <2>2. w \in SUBSET Release
    BY CacheAssumption DEF Inv, TypeOK
  <2> HIDE DEF w
  <2>3. r \in RunState /\ r.gen = run[p].gen /\ r.pc = "survey"
    <3> DEFINE c == "survey"
    <3>1. c \in Steps /\ c = "survey"
      BY DEF Steps
    <3> HIDE DEF c
    <3>2. r = [run[p] EXCEPT !.pc = c, !.wants = w]
      BY <2>1, <3>1
    <3> QED BY <2>2, <3>1, <3>2, Records, ZenonT(30) DEF RunState
  <2> QED BY <1>1, <1>4, <2>1, <2>3, BareMove DEF Set, w
<1> QED BY <1>2, <1>3, <1>4 DEF Start

LEMMA SurveyKeeps == ASSUME Inv, NEW p \in Run, Survey(p) PROVE Inv'
<1>1. UNCHANGED dirs /\ Around
  BY Calm DEF Survey
<1>2. Go(p, "declined") \/ Go(p, "reserve")
  BY DEF Survey
<1> QED BY <1>1, <1>2, PlainKeeps DEF Plain, Opened, Ripe, Turning, Owning, Fenced

LEMMA RankKeeps == ASSUME Inv, NEW p \in Run, Rank(p) PROVE Inv'
<1>1. UNCHANGED dirs /\ Around /\ run[p].pc = "rank"
  BY Calm DEF Rank, At
<1>2. CASE Superseded(p)
  BY <1>1, <1>2, SilentLeave DEF Rank, Opened
<1>3. CASE ~Superseded(p)
  <2> DEFINE r == [run[p] EXCEPT !.pc = "look", !.turns = 0]
  <2>1. r \in RunState /\ r.pc = "look" /\ r.gen = run[p].gen /\ r.turns = 0
    <3>1. 0 \in 0..MaxTurns /\ "look" \in Steps
      BY Sizes DEF Steps
    <3> QED BY <3>1, Records DEF RunState
  <2>2. Place(run[p])
    BY Records DEF Local
  <2> HIDE DEF r
  <2>3. Local(r)
    BY <1>1, <2>1, <2>2 DEF Local, Place, Aim, Grip, Due, Wall, Plan, Opened, Ripe, Turning, Owning, Fenced
  <2>4. Moves(p, r)
    BY <1>1, <1>3, <2>1 DEF Moves, Rank, Set, r, Early, Ripe
  <2> QED BY <1>1, <2>3, <2>4, QuietMove
<1> QED BY <1>2, <1>3

LEMMA LookKeeps == ASSUME Inv, NEW p \in Run, Look(p) PROVE Inv'
<1>1. UNCHANGED dirs /\ Around /\ run[p].pc = "look"
  BY Calm DEF Look, At
<1>2. CASE run[p].turns = MaxTurns \/ Superseded(p)
  BY <1>1, <1>2, SilentLeave DEF Look, Opened, Ripe
<1>3. CASE run[p].turns # MaxTurns /\ ~Superseded(p)
  <2>1. run[p].turns < MaxTurns
    BY <1>3, Records, Sizes
  <2> QED BY <1>1, <1>3, <2>1, PlainKeeps DEF Look, Plain, Opened, Ripe, Turning, Owning, Fenced
<1> QED BY <1>2, <1>3

LEMMA InspectKeeps == ASSUME Inv, NEW p \in Run, Inspect(p) PROVE Inv'
<1>1. UNCHANGED dirs /\ Around /\ run[p].pc = "inspect"
  BY Calm DEF Inspect, At
<1>2. CASE \E g \in claim : Active(g) \/ g > run[p].gen
  BY <1>1, <1>2, SilentLeave DEF Inspect, Opened, Ripe, Turning, Owning, Fenced
<1>3. CASE ~\E g \in claim : Active(g) \/ g > run[p].gen
  <2> DEFINE x == IF claim = {} THEN "promote" ELSE "retire"
             r == [run[p] EXCEPT !.target = claim, !.pc = x]
  <2>1. claim \in SUBSET Gen /\ x \in Steps
    BY DEF Inv, TypeOK, Steps
  <2>2. /\ r \in RunState /\ r.pc = x /\ r.gen = run[p].gen /\ r.target = claim
        /\ r.turns = run[p].turns
    <3> HIDE DEF x
    <3> QED BY <2>1, Records DEF RunState
  <2>3. Place(run[p])
    BY Records DEF Local
  <2>4. Set(p, r)
    BY <1>1, <1>3 DEF Inspect
  <2>5. x \in {"promote", "retire"}
    OBVIOUS
  <2> HIDE DEF r
  <2>6. Aim(r)
    <3>1. CASE claim = {}
      BY <3>1, <2>2 DEF Aim
    <3>2. CASE claim # {}
      <4>1. PICK t \in Gen : claim = {t} /\ Past(t)
        BY <3>2 DEF Inv, Shape
      <4>2. ~Active(t)
        BY <1>3, <4>1
      <4> QED BY <2>2, <4>1, <4>2 DEF Aim
    <3> QED BY <3>1, <3>2
  <2> HIDE DEF x
  <2>7. Local(r)
    BY <1>1, <2>2, <2>3, <2>5, <2>6 DEF Local, Place, Grip, Due, Wall, Plan, Opened, Ripe, Turning, Owning, Fenced
  <2>8. Moves(p, r)
    BY <1>1, <2>2, <2>4, <2>5 DEF Moves, Set, Early, Ripe, Turning
  <2> QED BY <1>1, <2>7, <2>8, QuietMove
<1> QED BY <1>2, <1>3

LEMMA RetireKeeps == ASSUME Inv, NEW p \in Run, Retire(p) PROVE Inv'
<1>1. UNCHANGED dirs /\ Around /\ run[p].pc = "retire"
  BY Calm DEF Retire, At
<1>2. CASE Go(p, "moveaway")
  <2>0. PICK r : r = [run[p] EXCEPT !.pc = "moveaway"]
    OBVIOUS
  <2>1. r.pc = "moveaway" /\ r.target = run[p].target
    <3>1. "moveaway" \in Steps
      BY DEF Steps
    <3> QED BY <2>0, <3>1, Records, Written
  <2>2. Aim(run[p]) /\ Place(run[p])
    BY Records DEF Local
  <2>3. Aim(r)
    BY <1>1, <2>1, <2>2 DEF Aim
  <2>4. Grip(r) /\ Due(r) /\ Wall(r) /\ Plan(r)
    BY <2>1 DEF Grip, Due, Wall, Plan, Owning, Fenced
  <2>5. run[p].turns < MaxTurns
    BY <1>1, <2>2 DEF Place, Turning
  <2>6. "moveaway" \in Steps \ Early
    BY DEF Steps, Early
  <2> QED BY <1>1, <1>2, <2>0, <2>3, <2>4, <2>5, <2>6, GoKeeps DEF Opened, Ripe, Turning, Owning, Fenced
<1>3. CASE Again(p)
  BY <1>1, <1>3, AgainKeeps DEF Turning
<1>4. CASE Abandon(p)
  BY <1>1, <1>4, AbandonKeeps
<1> QED BY <1>2, <1>3, <1>4 DEF Retire

LEMMA SettleKeeps == ASSUME Inv, NEW p \in Run, Settle(p) PROVE Inv'
<1>1. UNCHANGED dirs /\ Around /\ run[p].pc = "settle"
  BY Calm DEF Settle, At
<1> QED BY <1>1, AgainKeeps, AbandonKeeps DEF Settle, Turning

LEMMA ConfirmKeeps == ASSUME Inv, NEW p \in Run, Confirm(p) PROVE Inv'
<1>1. UNCHANGED dirs /\ Around /\ run[p].pc = "confirm"
  BY Calm DEF Confirm, At
<1>2. CASE Abandon(p)
  BY <1>1, <1>2, AbandonKeeps
<1>3. CASE Leave(p, InProgress, "declined")
  BY <1>1, <1>3, SilentLeave DEF Opened, Ripe
<1>4. ASSUME Owns(p), NEW step \in {"reread", "commit"}, Go(p, step) PROVE Inv'
  <2>1. step \in Steps \ Early
    BY DEF Steps, Early
  <2>0. PICK r : r = [run[p] EXCEPT !.pc = step]
    OBVIOUS
  <2>2. r.pc = step /\ r.gen = run[p].gen
    BY <2>0, <2>1, Records, Written
  <2>3. Grip(r)
    BY <1>4, <2>2 DEF Grip, Owns
  <2>4. Aim(r) /\ Due(r) /\ Wall(r) /\ Plan(r)
    BY <2>2 DEF Aim, Due, Wall, Plan, Fenced
  <2> QED BY <1>1, <1>4, <2>0, <2>1, <2>3, <2>4, GoKeeps DEF Opened, Ripe, Turning, Owning, Fenced
<1> QED BY <1>2, <1>3, <1>4 DEF Confirm

(* A run past its promotion goes on past it: it keeps its grip.            *)
LEMMA GripStays ==
  ASSUME Inv, NEW p \in Run, run[p].pc \in Owning, NEW r, r.gen = run[p].gen
  PROVE  Grip(r)
BY Records DEF Local, Grip

LEMMA OwningGo ==
  ASSUME Inv, NEW p \in Run, run[p].pc \in Owning, NEW step \in Owning, Go(p, step),
         UNCHANGED dirs, Around,
         NEW r, r = [run[p] EXCEPT !.pc = step], Due(r), Wall(r), Plan(r)
  PROVE  Inv'
<1>1. step \in Steps \ Early /\ step \in Ripe /\ step \in Opened /\ step \notin Turning
  BY DEF Steps, Early, Opened, Ripe, Turning, Owning, Fenced
<1>2. run[p].pc \in Ripe /\ run[p].pc \in Opened
  BY DEF Opened, Ripe, Turning, Owning, Fenced
<1>3. r.pc = step /\ r.gen = run[p].gen
  BY <1>1, Records, Written
<1>4. Aim(r) /\ Grip(r)
  BY <1>1, <1>3, GripStays DEF Aim, Turning
<1> QED BY <1>1, <1>2, <1>4, GoKeeps

LEMMA RereadKeeps == ASSUME Inv, NEW p \in Run, Reread(p) PROVE Inv'
<1>1. UNCHANGED dirs /\ Around /\ run[p].pc = "reread"
  BY Calm DEF Reread, At
<1>2. CASE Fresh(Current, run[p].now)
  BY <1>1, <1>2, LeaveKeeps, ResultIsKnown, CurrentIsSound DEF Inv, Reread, Opened, Ripe, Turning, Owning, Fenced
<1>3. CASE ~Fresh(Current, run[p].now)
  <2>1. PICK r : r = [run[p] EXCEPT !.pc = "owned"]
    OBVIOUS
  <2>2. r.pc = "owned" /\ r.now = run[p].now
    BY <2>1, Records, Written DEF Steps
  <2>3. Due(r) /\ Wall(r) /\ Plan(r)
    BY <1>3, <2>2 DEF Due, Wall, Plan, Fenced
  <2> QED BY <1>1, <1>3, <2>1, <2>3, OwningGo DEF Reread, Owning
<1> QED BY <1>2, <1>3

LEMMA OwnedKeeps == ASSUME Inv, NEW p \in Run, Owned(p) PROVE Inv'
<1>1. UNCHANGED dirs /\ Around /\ run[p].pc = "owned"
  BY Calm DEF Owned, At
<1>2. CASE ~Owns(p)
  BY <1>1, <1>2, SilentLeave DEF Owned, Opened, Ripe, Turning, Owning, Fenced
<1>3. CASE Owns(p)
  <2>1. PICK r : r = [run[p] EXCEPT !.pc = "fetch"]
    OBVIOUS
  <2>2. r.pc = "fetch" /\ r.now = run[p].now /\ r.gen = run[p].gen
    BY <2>1, Records, Written DEF Steps
  <2>3. Due(run[p])
    BY Records DEF Local
  <2>4. Due(r) /\ Wall(r) /\ Plan(r)
    BY <1>1, <2>2, <2>3 DEF Due, Wall, Plan, Fenced
  <2> QED BY <1>1, <1>3, <2>1, <2>4, OwningGo DEF Owned, Owning
<1> QED BY <1>2, <1>3

LEMMA CommitKeeps == ASSUME Inv, NEW p \in Run, Commit(p) PROVE Inv'
<1>1. UNCHANGED dirs /\ Around /\ run[p].pc = "commit"
  BY Calm DEF Commit, At
<1>2. CASE ~Owns(p)
  BY <1>1, <1>2, SilentLeave DEF Commit, LoseCommit, Opened, Ripe, Turning, Owning, Fenced
<1>3. CASE Owns(p)
  <2>1. PICK r : r = [run[p] EXCEPT !.pc = "list"]
    OBVIOUS
  <2>2. r.pc = "list"
    BY <2>1, Records, Written DEF Steps
  <2>3. Due(r) /\ Wall(r) /\ Plan(r)
    BY <2>2 DEF Due, Wall, Plan, Fenced
  <2> QED BY <1>1, <1>3, <2>1, <2>3, OwningGo DEF Commit, Owning
<1> QED BY <1>2, <1>3

LEMMA HoldKeeps == ASSUME Inv, NEW p \in Run, Hold(p) PROVE Inv'
<1>1. UNCHANGED dirs /\ Around /\ run[p].pc = "hold"
  BY Calm DEF Hold, At
<1>2. CASE ~Owns(p)
  BY <1>1, <1>2, SilentLeave DEF Hold, LoseCommit, Opened, Ripe, Turning, Owning, Fenced
<1>3. CASE Owns(p)
  <2>1. PICK r : r = [run[p] EXCEPT !.pc = "decide"]
    OBVIOUS
  <2>2. r.pc = "decide" /\ r.gen = run[p].gen
    BY <2>1, Records, Written DEF Steps
  <2>3. Wall(run[p])
    BY Records DEF Local
  <2>4. Due(r) /\ Wall(r) /\ Plan(r)
    BY <1>1, <2>2, <2>3 DEF Due, Wall, Plan, Fenced
  <2> QED BY <1>1, <1>3, <2>1, <2>4, OwningGo DEF Hold, Owning, Fenced
<1> QED BY <1>2, <1>3

\* Steps past the promotion that write more than where they stand.
LEMMA OwningMove ==
  ASSUME Inv, NEW p \in Run, run[p].pc \in Owning,
         NEW r \in RunState, r.gen = run[p].gen, r.pc \in Owning,
         run' = [run EXCEPT ![p] = r],
         UNCHANGED dirs, Around, Due(r), Wall(r), Plan(r)
  PROVE  Inv'
<1>1. Place(run[p])
  BY Records DEF Local
<1>2. Local(r)
  BY <1>1, GripStays DEF Local, Place, Aim, Opened, Ripe, Turning, Owning, Fenced
<1>3. Moves(p, r)
  BY DEF Moves, Early, Opened, Ripe, Turning, Owning, Fenced
<1> QED BY <1>2, <1>3, QuietMove

LEMMA FetchKeeps == ASSUME Inv, NEW p \in Run, Fetch(p) PROVE Inv'
<1>1. UNCHANGED dirs /\ Around /\ run[p].pc = "fetch"
  BY Calm DEF Fetch, At
<1>2. PICK W \in {{}} \cup {{x} : x \in scene.served} :
        Set(p, [run[p] EXCEPT !.pc = "commit", !.wants = W])
  BY DEF Fetch
<1>3. W \in SUBSET Release
  BY CacheAssumption DEF Inv, TypeOK
<1>4. PICK r : r = [run[p] EXCEPT !.pc = "commit", !.wants = W]
  OBVIOUS
<1>5. r \in RunState /\ r.gen = run[p].gen /\ r.pc = "commit"
  <2> DEFINE c == "commit"
  <2>1. c \in Steps /\ c = "commit"
    BY DEF Steps
  <2> HIDE DEF c
  <2>2. r = [run[p] EXCEPT !.pc = c, !.wants = W]
    BY <1>4, <2>1
  <2> QED BY <1>3, <2>1, <2>2, Records, ZenonT(30) DEF RunState
<1>6. Due(r) /\ Wall(r) /\ Plan(r)
  BY <1>5 DEF Due, Wall, Plan, Fenced
<1> QED BY <1>1, <1>2, <1>4, <1>5, <1>6, OwningMove DEF Set, Owning

LEMMA ListKeeps == ASSUME Inv, NEW p \in Run, List(p) PROVE Inv'
<1>1. UNCHANGED dirs /\ Around /\ run[p].pc = "list"
  BY Calm DEF List, At
<1> DEFINE T == {g \in Gen : op[g] = "pending" /\ g < run[p].gen}
<1>2. T \in SUBSET Gen /\ (\A h \in Gen \ T : ~(h < run[p].gen /\ op[h] = "pending"))
  OBVIOUS
<1>3. Set(p, [run[p] EXCEPT !.pc = "fence", !.todo = T])
  BY DEF List
<1> HIDE DEF T
<1>4. PICK r : r = [run[p] EXCEPT !.pc = "fence", !.todo = T]
  OBVIOUS
<1>5. r \in RunState /\ r.gen = run[p].gen /\ r.pc = "fence" /\ r.todo = T
  <2> DEFINE c == "fence"
  <2>1. c \in Steps /\ c = "fence"
    BY DEF Steps
  <2> HIDE DEF c
  <2>2. r = [run[p] EXCEPT !.pc = c, !.todo = T]
    BY <1>4, <2>1
  <2> QED BY <1>2, <2>1, <2>2, Records DEF RunState
<1>6. Due(r) /\ Wall(r) /\ Plan(r)
  BY <1>2, <1>5 DEF Due, Wall, Plan, Fenced
<1> QED BY <1>1, <1>3, <1>4, <1>5, <1>6, OwningMove DEF Set, Owning

(* What a run may decide.                                                  *)
LEMMA DecisionsAre ==
  ASSUME Inv, NEW p \in Run, NEW d \in Decisions(p)
  PROVE  /\ d.state = {} => d.answer \in Answers /\ d.answer.notice \subseteq Known(Current)
         /\ \A t \in d.state : Move(Current, t) /\ Successor(Current, t, d.answer)
<1>1. Sound(Current)
  BY CurrentIsSound DEF Inv
<1>2. run[p].wants \in SUBSET Release /\ run[p].now \in Times /\ run[p].now \in Nat
  BY Records, Sizes DEF RunState, Times
<1>3. \/ \E r \in Release : d = AcknowledgeDecision(Current, r)
      \/ d = FailureDecision(Current, run[p].now)
      \/ \E delay \in SuccessDelays, r \in Release :
           d = FetchDecision(Current, run[p].now, delay, r)
  BY <1>2 DEF Decisions
<1>4. ASSUME NEW r \in Release, d = AcknowledgeDecision(Current, r)
      PROVE  /\ d.state = {} => \E why \in Reasons : d.answer = Silent(why)
             /\ \A t \in d.state : Move(Current, t) /\ Successor(Current, t, d.answer)
  <2>1. d.state = {} => \E why \in Reasons : d.answer = Silent(why)
    BY <1>4 DEF AcknowledgeDecision, Decision, Reasons
  <2> QED BY <1>1, <1>4, <2>1, AcknowledgeLeaves DEF Move
<1>5. ASSUME d = FailureDecision(Current, run[p].now)
      PROVE  /\ d.state = {} => \E why \in Reasons : d.answer = Silent(why)
             /\ \A t \in d.state : Move(Current, t) /\ Successor(Current, t, d.answer)
  <2>1. d.state = {} => \E why \in Reasons : d.answer = Silent(why)
    BY <1>5 DEF FailureDecision, Decision, Reasons
  <2> QED BY <1>1, <1>2, <1>5, <2>1, FailureLeaves DEF Move
<1>6. ASSUME NEW delay \in SuccessDelays, NEW r \in Release,
             d = FetchDecision(Current, run[p].now, delay, r)
      PROVE  /\ d.state = {} => \E why \in Reasons : d.answer = Silent(why)
             /\ \A t \in d.state : Move(Current, t) /\ Successor(Current, t, d.answer)
  <2>1. d.state = {} => \E why \in Reasons : d.answer = Silent(why)
    BY <1>6 DEF FetchDecision, Decision, Reasons
  <2> QED BY <1>1, <1>2, <1>6, <2>1, FetchLeaves DEF Move
<1> QED BY <1>3, <1>4, <1>5, <1>6, SilentIsAnswer

LEMMA DecideKeeps == ASSUME Inv, NEW p \in Run, Decide(p) PROVE Inv'
<1>1. UNCHANGED dirs /\ Around /\ run[p].pc = "decide"
  BY Calm DEF Decide, At
<1>2. ASSUME NEW d \in Decisions(p), d.state = {}, Leave(p, d.answer, "done") PROVE Inv'
  BY <1>1, <1>2, DecisionsAre, LeaveKeeps DEF Opened, Ripe, Turning, Owning, Fenced
<1>3. ASSUME NEW d \in Decisions(p), NEW t \in d.state,
             Set(p, [run[p] EXCEPT !.pc = "write", !.plan = t, !.answer = d.answer])
      PROVE  Inv'
  <2> DEFINE a == d.answer
  <2>1. Move(Current, t) /\ Successor(Current, t, a)
    BY DecisionsAre
  <2>2. t \in Notices /\ a \in Answers
    BY <2>1 DEF Successor, Sound
  <2> HIDE DEF a
  <2>3. PICK r : r = [run[p] EXCEPT !.pc = "write", !.plan = t, !.answer = a]
    OBVIOUS
  <2>4. /\ r \in RunState /\ r.gen = run[p].gen /\ r.pc = "write"
        /\ r.plan = t /\ r.answer = a
    <3> DEFINE c == "write"
    <3>1. c \in Steps /\ c = "write"
      BY DEF Steps
    <3> HIDE DEF c
    <3>2. r = [run[p] EXCEPT !.pc = c, !.plan = t, !.answer = a]
      BY <2>3, <3>1
    <3> QED BY <2>2, <3>1, <3>2, Records, ZenonT(30) DEF RunState
  <2>5. Wall(run[p])
    BY Records DEF Local
  <2>6. Due(r) /\ Wall(r) /\ Plan(r)
    BY <1>1, <2>1, <2>4, <2>5 DEF Due, Wall, Plan, Fenced
  <2>7. r.pc \in Owning /\ run[p].pc \in Owning
    BY <1>1, <2>4 DEF Owning, Fenced
  <2>8. run' = [run EXCEPT ![p] = r]
    BY <1>3, <2>3 DEF Set, a
  <2> QED BY <1>1, <2>4, <2>6, <2>7, <2>8, OwningMove
<1> QED BY <1>2, <1>3 DEF Decide

LEMMA DeclinedKeeps == ASSUME Inv, NEW p \in Run, Declined(p) PROVE Inv'
<1>1. UNCHANGED dirs /\ Around /\ run[p].pc = "declined"
  BY Calm DEF Declined, At
<1>2. CASE Finish(p, LoserResult(Current))
  BY <1>1, <1>2, FinishKeeps, ResultIsKnown, CurrentIsSound DEF Inv
<1>3. CASE Finish(p, InProgress)
  BY <1>1, <1>3, FinishKeeps, SilentIsAnswer DEF InProgress, Reasons
<1>4. CASE /\ run[p].rounds < MaxRounds
           /\ Set(p, [Unborn EXCEPT !.pc = "survey", !.wants = run[p].wants,
                                    !.rounds = run[p].rounds + 1])
  <2> DEFINE n == run[p].rounds + 1
             w == run[p].wants
             c == "survey"
             z == "done"
  <2>1. PICK r : r = [Unborn EXCEPT !.pc = c, !.wants = w, !.rounds = n]
    OBVIOUS
  <2>2. n \in 0..MaxRounds /\ w \in SUBSET Release /\ c \in Steps
    BY <1>4, Records, Sizes DEF RunState, Steps
  <2>3. Unborn \in RunState
    BY UnbornIsRun
  <2> HIDE DEF n, w, c
  <2>4. r \in RunState /\ r.pc = c /\ r.gen = Unborn.gen
    BY <2>1, <2>2, <2>3 DEF RunState
  <2>5. r.gen = 0
    BY <2>4 DEF Unborn
  <2> QED BY <1>1, <1>4, <2>1, <2>4, <2>5, BareMove DEF Set, n, w, c
<1> QED BY <1>2, <1>3, <1>4 DEF Declined

LEMMA KillKeeps == ASSUME Inv, NEW p \in Run, Kill(p) PROVE Inv'
<1>1. UNCHANGED dirs /\ Around
  BY Calm DEF Kill
<1> DEFINE c == "dead"
<1>2. PICK r : r = [Unborn EXCEPT !.pc = c]
  OBVIOUS
<1>3. c \in Steps
  BY DEF Steps
<1> HIDE DEF c
<1>4. r \in RunState /\ r.pc = c /\ r.gen = Unborn.gen
  BY <1>2, <1>3, UnbornIsRun DEF RunState
<1>5. r.gen = 0
  BY <1>4 DEF Unborn
<1> QED BY <1>1, <1>2, <1>4, <1>5, BareMove DEF Kill, Set, c

(* Stalled runs and the clock.                                             *)
LEMMA StillKeeps ==
  ASSUME Inv, UNCHANGED <<dirs, run>>, Around
  PROVE  Inv'
<1>1. Current' = Current /\ Committed' = Committed
  BY CurrentSame DEF dirs
<1>2. TypeOK' /\ OwnGen'
  BY DEF Inv, TypeOK, OwnGen, Around, dirs
<1>3. Shape'
  BY <1>1 DEF Inv, Shape, Past, IsYoung, Below, IsRipe, dirs
<1>4. ASSUME NEW p \in Run PROVE Local(run[p])'
  <2>1. Local(run[p])
    BY DEF Inv
  <2> QED BY <1>1, <2>1 DEF Local, Place, Aim, Grip, Due, Wall, Plan, Past, IsYoung, Below,
                          IsRipe, Active, dirs
<1> QED BY <1>2, <1>3, <1>4 DEF Inv

LEMMA TickKeeps == Inv /\ Tick => Inv'
<1> SUFFICES ASSUME Inv, Tick PROVE Inv'
  OBVIOUS
<1>1. clock + 1 \in 0..MaxTime
  BY Sizes, CacheAssumption DEF Inv, TypeOK, Tick
<1> QED BY <1>1, StillKeeps DEF Tick, Around, Inv, TypeOK

-----------------------------------------------------------------------------
(* The steps that write to the directory.  What a run x relies on stays    *)
(* when another run p writes what concerns its own generation g: no claim  *)
(* in use is moved, a dead one only into its retirement, nothing ripens    *)
(* and no lease but that of a young generation is renewed.                 *)
Gentle(g) ==
  /\ reserved \subseteq reserved'
  /\ \A h \in Gen : op'[h] = "pending" /\ IsRipe(h)' => op[h] = "pending" /\ IsRipe(h)
  /\ \A h : Past(h) => Past(h)'
  /\ \A h \in Gen : Active(h)' => Active(h) \/ (h = g /\ IsYoung(g))
  /\ \A h \in Gen \ {g} : op'[h] = "none" <=> op[h] = "none"
  /\ \A h \in Gen : ~Active(h) /\ (claim = {h} \/ h \in retired) =>
                    claim' = {h} \/ h \in retired'
  /\ \A h \in Gen : claim = {h} /\ Active(h) => claim' = {h}

Unread(g) ==
  /\ Current' = Current
  /\ Committed \cap lapsed \subseteq Committed' \cap lapsed'
  /\ \A h \in Gen \ {g} : op'[h] = "pending" => op[h] = "pending" /\ file'[h] = file[h]

LEMMA OthersStand ==
  ASSUME Inv, NEW g \in Gen, NEW q \in Run, run[q].gen # g, NEW x, x = run[q], Gentle(g)
  PROVE  Place(x)' /\ Aim(x)' /\ Grip(x)' /\ Wall(x)'
<1>1. Place(x) /\ Aim(x) /\ Grip(x) /\ Wall(x) /\ x \in RunState
  BY Records DEF Local
<1>2. x.gen # 0 => x.gen \in Gen
  BY <1>1, Sizes DEF RunState, Gen
<1>3. Place(x)'
  BY <1>1, <1>2 DEF Place, Gentle, Early
<1>4. Aim(x)'
  <2> SUFFICES ASSUME x.pc \in {"retire", "moveaway"}
               PROVE  \E t \in Gen : /\ x.target = {t} /\ Past(t)' /\ ~Active(t)'
                                     /\ (claim' = {t} \/ t \in retired')
    BY DEF Aim, Past, IsYoung
  <2>1. PICK t \in Gen : /\ x.target = {t} /\ Past(t) /\ ~Active(t)
                         /\ (claim = {t} \/ t \in retired)
    BY <1>1 DEF Aim
  <2>2. Past(t)' /\ (claim' = {t} \/ t \in retired')
    BY <2>1 DEF Gentle, Past, IsYoung
  <2>3. ~Active(t)'
    BY <2>1 DEF Gentle, Past, IsYoung, Active
  <2> QED BY <2>1, <2>2, <2>3
<1>5. Grip(x)'
  <2> SUFFICES ASSUME x.pc \in Owning, Active(x.gen)' PROVE claim' = {x.gen}
    BY DEF Grip
  <2>1. x.gen \in Gen
    BY <1>1, <1>2 DEF Place, Opened, Ripe, Turning, Owning, Fenced
  <2>2. Active(x.gen)
    BY <2>1 DEF Gentle
  <2>3. claim = {x.gen}
    BY <1>1, <2>2 DEF Grip
  <2> QED BY <2>1, <2>2, <2>3 DEF Gentle
<1>6. Wall(x)'
  BY <1>1 DEF Wall, Below, Gentle
<1> QED BY <1>3, <1>4, <1>5, <1>6

LEMMA OthersRead ==
  ASSUME Inv, NEW g \in Gen, NEW q \in Run, run[q].gen # g, NEW x, x = run[q],
         Gentle(g), Unread(g)
  PROVE  Due(x)' /\ Plan(x)'
<1>1. Place(x) /\ Due(x) /\ Plan(x) /\ x \in RunState
  BY Records DEF Local
<1>2. x.pc \in Owning => x.gen \in Gen
  BY <1>1, Sizes DEF RunState, Gen, Place, Opened, Ripe, Turning, Owning, Fenced
<1>3. Due(x)'
  <2> SUFFICES ASSUME x.pc \in {"owned", "fetch"}, Active(x.gen)', Fresh(Current', x.now)
               PROVE  Committed' \cap lapsed' # {}
    BY DEF Due, Fresh
  <2>1. x.gen \in Gen
    BY <1>2 DEF Owning
  <2>2. Active(x.gen)
    BY <2>1 DEF Gentle
  <2>3. Fresh(Current, x.now)
    BY DEF Unread
  <2> QED BY <1>1, <2>2, <2>3 DEF Due, Unread
<1>4. Plan(x)'
  <2>1. x.pc \in {"write", "publish"} => x.gen \in Gen
    BY <1>2 DEF Owning, Fenced
  <2>2. Current' = Current
    BY DEF Unread
  <2>3. x.pc \in {"write", "publish"} /\ op'[x.gen] = "pending" =>
          op[x.gen] = "pending" /\ file'[x.gen] = file[x.gen]
    BY <2>1 DEF Unread
  <2> QED BY <1>1, <2>1, <2>2, <2>3 DEF Plan
<1> QED BY <1>3, <1>4

(* The shape of the directory.                                             *)
LEMMA ShapeStays ==
  ASSUME Inv, NEW g \in Gen, Gentle(g),
         op'[g] # "none" => g \in reserved',
         claim' = claim \/ claim' = {} \/ (claim' = {g} /\ Past(g)'),
         \A h \in Gen : op'[h] = "committed" => op[h] = "committed" \/ (h = g /\ Below(g)'),
         \A h \in Committed' : Sound(file'[h])
  PROVE  Shape'
<1>1. \A h \in Gen \ reserved' : op'[h] = "none"
  BY DEF Inv, Shape, Gentle
<1>2. claim' = {} \/ \E h \in Gen : claim' = {h} /\ Past(h)'
  BY DEF Inv, Shape, Gentle
<1>3. \A h \in Gen : op'[h] = "committed" => Below(h)'
  BY DEF Inv, Shape, Gentle, Below
<1> QED BY <1>1, <1>2, <1>3 DEF Shape

(* All together: a step of p on its generation g.                          *)
LEMMA OwnStep ==
  ASSUME Inv, NEW p \in Run, NEW g \in Gen, NEW r \in RunState,
         run' = [run EXCEPT ![p] = r], r.gen \in {0, g},
         \A q \in Run \ {p} : run[q].gen # g,
         TypeOK', Shape', Gentle(g), Unread(g), Local(r)'
  PROVE  Inv'
<1>1. /\ run \in [Run -> RunState] /\ run'[p] = r
      /\ \A q \in Run \ {p} : run'[q] = run[q]
  BY Records
<1>2. OwnGen'
  BY <1>1 DEF Inv, OwnGen
<1>3. ASSUME NEW q \in Run PROVE Local(run[q])'
  <2>1. CASE q = p
    BY <1>1, <2>1, Named
  <2>2. CASE q # p
    <3>1. PICK x : x = run[q]
      OBVIOUS
    <3>2. Local(x)'
      BY <2>2, <3>1, OthersStand, OthersRead DEF Local
    <3> QED BY <1>1, <2>2, <3>1, <3>2, Named
  <2> QED BY <2>1, <2>2
<1> QED BY <1>2, <1>3 DEF Inv

\* A generation a run has is its own.
LEMMA Alone ==
  ASSUME Inv, NEW p \in Run, run[p].pc \in Opened \cup {"open"}
  PROVE  /\ run[p].gen \in Gen /\ run[p].gen \in reserved
         /\ \A q \in Run \ {p} : run[q].gen # run[p].gen
<1>1. Place(run[p]) /\ run[p].gen \in 0..MaxGen
  BY Records DEF Local
<1>2. run[p].gen # 0 /\ run[p].gen \in reserved
  BY <1>1 DEF Place
<1>3. run[p].gen \in Gen
  BY <1>1, <1>2, Sizes DEF Gen
<1>4. OwnGen
  BY DEF Inv
<1> QED BY <1>2, <1>3, <1>4 DEF OwnGen

LEMMA SameRead ==
  ASSUME Inv, NEW g \in Gen, op[g] # "committed", op'[g] # "committed",
         \A h \in Gen \ {g} : op'[h] = "committed" <=> op[h] = "committed",
         \A h \in Gen \ {g} : file'[h] = file[h]
  PROVE  Committed' = Committed /\ Current' = Current
         /\ \A h \in Committed : file'[h] = file[h]
<1>1. Committed' = Committed /\ g \notin Committed
  BY DEF Committed
<1>2. Newest' = Newest
  BY <1>1 DEF Newest
<1>3. \A h \in Committed : file'[h] = file[h]
  BY <1>1 DEF Committed
<1>4. ASSUME Newest = {} PROVE Current' = Current
  BY <1>2, <1>4 DEF Current
<1>5. ASSUME Newest # {} PROVE Current' = Current
  <2>1. (CHOOSE h \in Newest : TRUE) \in Committed
    BY <1>5 DEF Newest
  <2>2. PICK c : c = CHOOSE h \in Newest : TRUE
    OBVIOUS
  <2>3. Current = file[c] /\ Current' = file'[c]
    BY <1>2, <1>5, <2>2 DEF Current
  <2> QED BY <1>3, <2>1, <2>2, <2>3
<1>6. Current' = Current
  BY <1>4, <1>5
<1> QED BY <1>1, <1>3, <1>6

LEMMA ReserveKeeps == ASSUME Inv, NEW p \in Run, Reserve(p) PROVE Inv'
<1>1. PICK g \in Gen \ reserved :
        /\ reserved' = reserved \cup {g}
        /\ Set(p, [run[p] EXCEPT !.pc = "open", !.gen = g])
  BY DEF Reserve
<1>2. UNCHANGED <<op, file, lapsed, claim, retired, clock, scene, alone>>
  BY DEF Reserve
<1>3. PICK r : r = [run[p] EXCEPT !.pc = "open", !.gen = g]
  OBVIOUS
<1>4. r \in RunState /\ r.pc = "open" /\ r.gen = g
  <2> DEFINE c == "open"
  <2>1. c \in Steps /\ c = "open" /\ g \in 0..MaxGen
    BY Sizes DEF Steps, Gen
  <2> HIDE DEF c
  <2>2. r = [run[p] EXCEPT !.pc = c, !.gen = g]
    BY <1>3, <2>1
  <2> QED BY <2>1, <2>2, Records, ZenonT(30) DEF RunState
<1>5. run' = [run EXCEPT ![p] = r] /\ run \in [Run -> RunState]
  BY <1>1, <1>3, Records DEF Set
<1>6. \A q \in Run : run[q].gen # g
  <2> SUFFICES ASSUME NEW q \in Run, run[q].gen = g PROVE FALSE
    OBVIOUS
  <2>1. Place(run[q])
    BY Records DEF Local
  <2> QED BY <2>1, Sizes DEF Place, Gen
<1>7. op[g] = "none"
  BY DEF Inv, Shape
<1>8. \A h : (IsRipe(h)' => IsRipe(h)) /\ (IsYoung(h)' => IsYoung(h) \/ h = g)
  BY <1>4, <1>5 DEF IsRipe, IsYoung, Ripe, Turning, Owning, Fenced
<1>9. \A h : Past(h) => Past(h)'
  BY <1>1, <1>2, <1>8 DEF Past
<1>10. Gentle(g)
  BY <1>1, <1>2, <1>8, <1>9 DEF Gentle, Active
<1>11. Current' = Current /\ Committed' = Committed
  BY <1>2, CurrentSame
<1>12. Unread(g)
  BY <1>2, <1>11 DEF Unread
<1>13. TypeOK'
  BY <1>1, <1>2, <1>4, <1>5 DEF Inv, TypeOK
<1>14. Shape'
  <2>1. \A h \in Committed' : Sound(file'[h])
    BY <1>2, <1>11 DEF Inv, Shape
  <2> QED BY <1>1, <1>2, <1>10, <2>1, ShapeStays
<1>15. Local(r)'
  BY <1>1, <1>2, <1>4, <1>7, Sizes
     DEF Local, Place, Aim, Grip, Due, Wall, Plan, Opened, Ripe, Turning, Owning, Fenced, Gen
<1> QED BY <1>4, <1>5, <1>6, <1>10, <1>12, <1>13, <1>14, <1>15, OwnStep

LEMMA OpenKeeps == ASSUME Inv, NEW p \in Run, Open(p) PROVE Inv'
<1> PICK g : g = run[p].gen
  OBVIOUS
<1>0. g \in Gen /\ g \in reserved /\ (\A q \in Run \ {p} : run[q].gen # g)
  BY Alone DEF Open, At
<1>1. run[p].pc = "open" /\ op[g] = "none"
  <2>1. Place(run[p])
    BY Records DEF Local
  <2> QED BY <2>1 DEF Open, At, Place
<1>2. op' = [op EXCEPT ![g] = "pending"] /\ Go(p, "own")
      /\ UNCHANGED <<reserved, file, lapsed, claim, retired, clock, scene, alone>>
  BY DEF Open
<1>3. PICK r : r = [run[p] EXCEPT !.pc = "own"]
  OBVIOUS
<1>4. r \in RunState /\ r.pc = "own" /\ r.gen = g
  <2>1. "own" \in Steps
    BY DEF Steps
  <2> QED BY <1>3, <2>1, Records, Written
<1>5. run' = [run EXCEPT ![p] = r] /\ run \in [Run -> RunState]
  BY <1>2, <1>3, Records DEF Go, Set
<1>6. op \in [Gen -> Kinds] /\ op'[g] = "pending" /\ \A h \in Gen \ {g} : op'[h] = op[h]
  BY <1>0, <1>2 DEF Inv, TypeOK
<1>7. /\ \A h : IsRipe(h)' => IsRipe(h)
      /\ \A h : IsYoung(h)' => IsYoung(h)
      /\ ~IsRipe(g)' /\ IsYoung(g)
  BY <1>0, <1>1, <1>4, <1>5 DEF IsRipe, IsYoung, Ripe, Turning, Owning, Fenced, Early
<1>8. \A h : Past(h) => Past(h)'
  <2>1. reserved \subseteq Gen
    BY DEF Inv, TypeOK
  <2> QED BY <1>1, <1>2, <1>6, <1>7, <2>1 DEF Past
<1>9. Gentle(g)
  <2>1. \A h \in Gen : op'[h] = "pending" /\ IsRipe(h)' => op[h] = "pending" /\ IsRipe(h)
    <3> SUFFICES ASSUME NEW h \in Gen, op'[h] = "pending", IsRipe(h)'
                 PROVE  op[h] = "pending" /\ IsRipe(h)
      OBVIOUS
    <3>1. h # g /\ IsRipe(h)
      BY <1>7
    <3> QED BY <1>6, <3>1
  <2>2. \A h \in Gen : Active(h)' => Active(h) \/ (h = g /\ IsYoung(g))
    BY <1>2, <1>6, <1>7 DEF Active
  <2> QED BY <1>2, <1>6, <1>8, <2>1, <2>2 DEF Gentle
<1>10. Committed' = Committed /\ Current' = Current
  BY <1>0, <1>1, <1>2, <1>6, SameRead
<1>11. Unread(g)
  BY <1>2, <1>6, <1>10 DEF Unread
<1>12. TypeOK'
  BY <1>0, <1>2, <1>4, <1>5 DEF Inv, TypeOK, Kinds
<1>13. Shape'
  <2>1. \A h \in Committed' : Sound(file'[h])
    BY <1>2, <1>10 DEF Inv, Shape
  <2> QED BY <1>0, <1>2, <1>6, <1>9, <2>1, ShapeStays
<1>14. Local(r)'
  <2>1. g # 0
    BY <1>0, Sizes DEF Gen
  <2> QED BY <1>0, <1>2, <1>4, <1>6, <2>1
     DEF Local, Place, Aim, Grip, Due, Wall, Plan, Opened, Ripe, Turning, Owning, Fenced
<1> QED BY <1>0, <1>4, <1>5, <1>9, <1>11, <1>12, <1>13, <1>14, OwnStep

LEMMA OwnKeeps == ASSUME Inv, NEW p \in Run, Own(p) PROVE Inv'
<1> PICK g : g = run[p].gen
  OBVIOUS
<1>0. g \in Gen /\ g \in reserved /\ (\A q \in Run \ {p} : run[q].gen # g) /\ run[p].pc = "own"
  BY Alone DEF Own, At, Opened
<1>1. CASE ~Pending(p)
  <2>1. UNCHANGED dirs /\ Around
    BY <1>1, Calm DEF Own, dirs
  <2> QED BY <1>0, <1>1, <2>1, AbandonKeeps, PlainKeeps
      DEF Own, Plain, Opened, Ripe, Turning, Owning, Fenced
<1>2. CASE Pending(p)
  <2>1. lapsed' = lapsed \ {g} /\ Go(p, "rank") /\ op[g] = "pending"
        /\ UNCHANGED <<reserved, op, file, claim, retired, clock, scene, alone>>
    BY <1>2 DEF Own, Pending
  <2>2. PICK r : r = [run[p] EXCEPT !.pc = "rank"]
    OBVIOUS
  <2>3. r \in RunState /\ r.pc = "rank" /\ r.gen = g
    <3>1. "rank" \in Steps
      BY DEF Steps
    <3> QED BY <2>2, <3>1, Records, Written
  <2>4. run' = [run EXCEPT ![p] = r] /\ run \in [Run -> RunState]
    BY <2>1, <2>2, Records DEF Go, Set
  <2>5. /\ \A h : IsRipe(h)' => IsRipe(h)
        /\ \A h : IsYoung(h)' => IsYoung(h)
        /\ IsYoung(g)
    BY <1>0, <2>3, <2>4 DEF IsRipe, IsYoung, Ripe, Turning, Owning, Fenced, Early
  <2>6. \A h : Past(h) => Past(h)'
    BY <2>1, <2>5 DEF Past
  <2>7. Gentle(g)
    BY <2>1, <2>5, <2>6 DEF Gentle, Active
  <2>8. Committed' = Committed /\ Current' = Current
    BY <2>1, CurrentSame
  <2>9. Unread(g)
    BY <2>1, <2>8 DEF Unread, Committed
  <2>10. TypeOK'
    BY <1>0, <2>1, <2>3, <2>4 DEF Inv, TypeOK
  <2>11. Shape'
    <3>1. \A h \in Committed' : Sound(file'[h])
      BY <2>1, <2>8 DEF Inv, Shape
    <3> QED BY <1>0, <2>1, <2>7, <3>1, ShapeStays
  <2>12. Local(r)'
    <3>1. g # 0
      BY <1>0, Sizes DEF Gen
    <3> QED BY <1>0, <2>1, <2>3, <3>1
       DEF Local, Place, Aim, Grip, Due, Wall, Plan, Opened, Ripe, Turning, Owning, Fenced
  <2> QED BY <1>0, <2>3, <2>4, <2>7, <2>9, <2>10, <2>11, <2>12, OwnStep
<1> QED BY <1>1, <1>2

\* A run past its rank leaves nobody else younger or riper than before.
LEMMA SelfMove ==
  ASSUME Inv, NEW p \in Run, NEW r \in RunState, run' = [run EXCEPT ![p] = r],
         r.pc \notin Early, r.pc \in Ripe => run[p].pc \in Ripe /\ r.gen = run[p].gen
  PROVE  /\ \A h : IsRipe(h)' => IsRipe(h)
         /\ \A h : IsYoung(h)' => IsYoung(h)
BY Records DEF IsRipe, IsYoung

LEMMA MoveAwayKeeps == ASSUME Inv, NEW p \in Run, MoveAway(p) PROVE Inv'
<1> PICK g : g = run[p].gen
  OBVIOUS
<1>0. /\ g \in Gen /\ g \in reserved /\ (\A q \in Run \ {p} : run[q].gen # g)
      /\ run[p].pc = "moveaway"
  BY Alone DEF MoveAway, At, Opened, Ripe, Turning
<1>1. PICK t \in Gen : /\ run[p].target = {t} /\ Past(t) /\ ~Active(t)
                       /\ claim = {t} \/ t \in retired
  BY <1>0, Records DEF Local, Aim
<1>2. CASE claim = {} \/ run[p].target \cap retired # {}
  <2>1. UNCHANGED dirs /\ Around
    BY <1>2, Calm DEF MoveAway, dirs
  <2> QED BY <1>0, <1>2, <2>1, AgainKeeps DEF MoveAway, Turning
<1>3. CASE ~(claim = {} \/ run[p].target \cap retired # {})
  <2>1. claim = {t}
    BY <1>1, <1>3
  <2>2. /\ claim' = {} /\ retired' = retired \cup {t} /\ Go(p, "settle")
        /\ UNCHANGED <<reserved, op, file, lapsed, clock, scene, alone>>
    BY <1>1, <1>3, <2>1 DEF MoveAway
  <2>3. PICK r : r = [run[p] EXCEPT !.pc = "settle"]
    OBVIOUS
  <2>4. r \in RunState /\ r.pc = "settle" /\ r.gen = g /\ r.turns = run[p].turns
    <3>1. "settle" \in Steps
      BY DEF Steps
    <3> QED BY <2>3, <3>1, Records, Written
  <2>5. run' = [run EXCEPT ![p] = r] /\ run \in [Run -> RunState]
    BY <2>2, <2>3, Records DEF Go, Set
  <2>6. (\A h : IsRipe(h)' => IsRipe(h)) /\ (\A h : IsYoung(h)' => IsYoung(h))
    BY <1>0, <2>4, <2>5, SelfMove DEF Early, Ripe, Turning
  <2>7. \A h : Past(h) => Past(h)'
    BY <2>2, <2>6 DEF Past
  <2>8. Gentle(g)
    BY <1>1, <2>1, <2>2, <2>6, <2>7 DEF Gentle, Active
  <2>9. Committed' = Committed /\ Current' = Current
    BY <2>2, CurrentSame
  <2>10. Unread(g)
    BY <2>2, <2>9 DEF Unread
  <2>11. TypeOK'
    BY <2>2, <2>4, <2>5 DEF Inv, TypeOK
  <2>12. Shape'
    <3>1. \A h \in Committed' : Sound(file'[h])
      BY <2>2, <2>9 DEF Inv, Shape
    <3> QED BY <1>0, <2>2, <2>8, <3>1, ShapeStays
  <2>13. Local(r)'
    <3>1. Place(run[p])
      BY Records DEF Local
    <3> QED BY <1>0, <2>2, <2>4, <3>1
       DEF Local, Place, Aim, Grip, Due, Wall, Plan, Opened, Ripe, Turning, Owning, Fenced
  <2> QED BY <1>0, <2>4, <2>5, <2>8, <2>10, <2>11, <2>12, <2>13, OwnStep
<1> QED BY <1>2, <1>3

LEMMA PromoteKeeps == ASSUME Inv, NEW p \in Run, Promote(p) PROVE Inv'
<1> PICK g : g = run[p].gen
  OBVIOUS
<1>0. /\ g \in Gen /\ g \in reserved /\ (\A q \in Run \ {p} : run[q].gen # g)
      /\ run[p].pc = "promote"
  BY Alone DEF Promote, At, Opened, Ripe, Turning
<1>1. CASE claim # {}
  <2>1. UNCHANGED dirs /\ Around
    BY <1>1, Calm DEF Promote, dirs
  <2> QED BY <1>0, <1>1, <2>1, AgainKeeps DEF Promote, Turning
<1>2. CASE claim = {}
  <2>1. /\ claim' = {g} /\ Go(p, "confirm")
        /\ UNCHANGED <<reserved, op, file, lapsed, retired, clock, scene, alone>>
    BY <1>2 DEF Promote
  <2>2. PICK r : r = [run[p] EXCEPT !.pc = "confirm"]
    OBVIOUS
  <2>3. r \in RunState /\ r.pc = "confirm" /\ r.gen = g
    <3>1. "confirm" \in Steps
      BY DEF Steps
    <3> QED BY <2>2, <3>1, Records, Written
  <2>4. run' = [run EXCEPT ![p] = r] /\ run \in [Run -> RunState]
    BY <2>1, <2>2, Records DEF Go, Set
  <2>5. (\A h : IsRipe(h)' => IsRipe(h)) /\ (\A h : IsYoung(h)' => IsYoung(h))
    BY <1>0, <2>3, <2>4, SelfMove DEF Early, Ripe, Turning
  <2>6. \A h : Past(h) => Past(h)'
    BY <2>1, <2>5 DEF Past
  <2>7. Gentle(g)
    BY <1>2, <2>1, <2>5, <2>6 DEF Gentle, Active
  <2>8. Committed' = Committed /\ Current' = Current
    BY <2>1, CurrentSame
  <2>9. Unread(g)
    BY <2>1, <2>8 DEF Unread
  <2>10. TypeOK'
    BY <1>0, <2>1, <2>3, <2>4 DEF Inv, TypeOK
  <2>11. op[g] # "none" /\ ~IsYoung(g)
    <3>1. Place(run[p])
      BY Records DEF Local
    <3> QED BY <1>0, <3>1 DEF Place, IsYoung, Early, Opened, Ripe, Turning
  <2>12. Past(g)'
    BY <1>0, <2>1, <2>5, <2>11 DEF Past
  <2>13. Shape'
    <3>1. \A h \in Committed' : Sound(file'[h])
      BY <2>1, <2>8 DEF Inv, Shape
    <3> QED BY <1>0, <2>1, <2>7, <2>12, <3>1, ShapeStays
  <2>14. Local(r)'
    <3>1. g # 0
      BY <1>0, Sizes DEF Gen
    <3> QED BY <1>0, <2>1, <2>3, <2>11, <3>1
       DEF Local, Place, Aim, Grip, Due, Wall, Plan, Opened, Ripe, Turning, Owning, Fenced
  <2> QED BY <1>0, <2>3, <2>4, <2>7, <2>9, <2>10, <2>13, <2>14, OwnStep
<1> QED BY <1>1, <1>2

LEMMA WriteKeeps == ASSUME Inv, NEW p \in Run, Write(p) PROVE Inv'
<1> PICK g : g = run[p].gen
  OBVIOUS
<1>0. /\ g \in Gen /\ g \in reserved /\ (\A q \in Run \ {p} : run[q].gen # g)
      /\ run[p].pc = "write"
  BY Alone DEF Write, At, Opened, Ripe, Owning, Fenced
<1>1. CASE ~Pending(p)
  <2>1. UNCHANGED dirs /\ Around
    BY <1>1, Calm DEF Write, dirs
  <2> QED BY <1>1, <2>1, OutrunKeeps, AbandonKeeps DEF Write
<1>2. CASE Pending(p)
  <2>1. /\ file' = [file EXCEPT ![g] = run[p].plan] /\ Go(p, "publish") /\ op[g] = "pending"
        /\ UNCHANGED <<reserved, op, lapsed, claim, retired, clock, scene, alone>>
    BY <1>2 DEF Write, Pending
  <2>2. PICK r : r = [run[p] EXCEPT !.pc = "publish"]
    OBVIOUS
  <2>3. /\ r \in RunState /\ r.pc = "publish" /\ r.gen = g
        /\ r.plan = run[p].plan /\ r.answer = run[p].answer /\ r.plan \in Notices
    <3>1. "publish" \in Steps
      BY DEF Steps
    <3> QED BY <2>2, <3>1, Records, Written DEF RunState
  <2>4. run' = [run EXCEPT ![p] = r] /\ run \in [Run -> RunState]
    BY <2>1, <2>2, Records DEF Go, Set
  <2>5. (\A h : IsRipe(h)' => IsRipe(h)) /\ (\A h : IsYoung(h)' => IsYoung(h))
    BY <1>0, <2>3, <2>4, SelfMove DEF Early, Ripe, Owning, Fenced, Turning
  <2>6. \A h : Past(h) => Past(h)'
    BY <2>1, <2>5 DEF Past
  <2>7. Gentle(g)
    BY <2>1, <2>5, <2>6 DEF Gentle, Active
  <2>8. /\ file \in [Gen -> Notices] /\ file'[g] = r.plan
        /\ \A h \in Gen \ {g} : file'[h] = file[h]
    BY <1>0, <2>1, <2>3 DEF Inv, TypeOK
  <2>9. /\ Committed' = Committed /\ Current' = Current
        /\ \A h \in Committed : file'[h] = file[h]
    BY <1>0, <2>1, <2>8, SameRead
  <2>10. Unread(g)
    BY <2>1, <2>8, <2>9 DEF Unread
  <2>11. TypeOK'
    BY <1>0, <2>1, <2>3, <2>4, <2>8 DEF Inv, TypeOK
  <2>12. Shape'
    <3>1. \A h \in Committed' : Sound(file'[h])
      BY <2>9 DEF Inv, Shape
    <3> QED BY <1>0, <2>1, <2>7, <3>1, ShapeStays
  <2>13. Local(r)'
    <3>1. Place(run[p]) /\ Grip(run[p]) /\ Wall(run[p]) /\ Plan(run[p])
      BY Records DEF Local
    <3>2. Place(r)' /\ Aim(r)' /\ Due(r)'
      BY <1>0, <2>1, <2>3, <3>1 DEF Place, Aim, Due, Opened, Ripe, Turning, Owning, Fenced
    <3>3. Grip(r)'
      BY <1>0, <2>1, <2>3, <3>1 DEF Grip, Active, Owning, Fenced
    <3>4. Wall(r)'
      BY <1>0, <2>1, <2>3, <2>5, <3>1 DEF Wall, Below, Fenced
    <3>5. Plan(r)'
      BY <1>0, <2>1, <2>3, <2>8, <2>9, <3>1 DEF Plan
    <3> QED BY <3>2, <3>3, <3>4, <3>5 DEF Local
  <2> QED BY <1>0, <2>3, <2>4, <2>7, <2>10, <2>11, <2>12, <2>13, OwnStep
<1> QED BY <1>1, <1>2

\* A pending directory is renamed and is no candidate for the record.
LEMMA Renamed ==
  ASSUME Inv, NEW k \in Gen, NEW end \in {"fenced", "cancelled"},
         op' = [op EXCEPT ![k] = IF @ = "pending" THEN end ELSE @], UNCHANGED file
  PROVE  /\ op \in [Gen -> Kinds] /\ op' \in [Gen -> Kinds]
         /\ \A h \in Gen : op'[h] = op[h] \/ (op[h] = "pending" /\ op'[h] = end)
         /\ op'[k] # "pending"
         /\ Committed' = Committed /\ Current' = Current
<1>1. op \in [Gen -> Kinds] /\ end \in Kinds /\ end # "pending" /\ end # "committed"
  BY DEF Inv, TypeOK, Kinds
<1>2. CASE op[k] = "pending"
  <2>1. op'[k] = end /\ op' \in [Gen -> Kinds] /\ \A h \in Gen \ {k} : op'[h] = op[h]
    BY <1>1, <1>2
  <2>2. Committed' = Committed /\ Current' = Current
    BY <1>1, <1>2, <2>1, SameRead
  <2> QED BY <1>1, <1>2, <2>1, <2>2
<1>3. CASE op[k] # "pending"
  <2>1. op' = op
    BY <1>1, <1>3
  <2> QED BY <1>1, <1>3, <2>1, CurrentSame
<1> QED BY <1>2, <1>3

LEMMA FenceKeeps == ASSUME Inv, NEW p \in Run, Fence(p) PROVE Inv'
<1> PICK g : g = run[p].gen
  OBVIOUS
<1>0. /\ g \in Gen /\ g \in reserved /\ (\A q \in Run \ {p} : run[q].gen # g)
      /\ run[p].pc = "fence"
  BY Alone DEF Fence, At, Opened, Ripe, Owning
<1>1. Place(run[p]) /\ Grip(run[p]) /\ Wall(run[p]) /\ run[p] \in RunState
  BY Records DEF Local
<1>2. CASE run[p].todo = {} /\ Go(p, "hold") /\ UNCHANGED op
  <2>1. UNCHANGED dirs /\ Around
    BY <1>2, Calm DEF Fence, dirs
  <2>2. PICK r : r = [run[p] EXCEPT !.pc = "hold"]
    OBVIOUS
  <2>3. r.pc = "hold" /\ r.gen = g
    <3>1. "hold" \in Steps
      BY DEF Steps
    <3> QED BY <2>2, <3>1, Records, Written
  <2>4. Due(r) /\ Wall(r) /\ Plan(r)
    BY <1>0, <1>1, <1>2, <2>3 DEF Due, Wall, Below, Plan
  <2> QED BY <1>0, <1>2, <2>1, <2>2, <2>4, OwningGo DEF Owning, Fenced
<1>3. ASSUME NEW k \in run[p].todo,
             op' = [op EXCEPT ![k] = IF @ = "pending" THEN "fenced" ELSE @],
             Set(p, [run[p] EXCEPT !.todo = @ \ {k}])
      PROVE  Inv'
  <2>1. k \in Gen /\ UNCHANGED <<reserved, file, lapsed, claim, retired, clock, scene, alone>>
    BY <1>1 DEF Fence, RunState
  <2>2. PICK r : r = [run[p] EXCEPT !.todo = @ \ {k}]
    OBVIOUS
  <2>3. /\ r \in RunState /\ r.pc = "fence" /\ r.gen = g
        /\ r.todo = run[p].todo \ {k}
    BY <1>0, <1>1, <2>2 DEF RunState
  <2>4. run' = [run EXCEPT ![p] = r] /\ run \in [Run -> RunState]
    BY <1>3, <2>2, Records DEF Set
  <2>5. (\A h : IsRipe(h)' => IsRipe(h)) /\ (\A h : IsYoung(h)' => IsYoung(h))
    BY <1>0, <2>3, <2>4, SelfMove DEF Early, Ripe, Owning
  <2>6. /\ op \in [Gen -> Kinds] /\ op' \in [Gen -> Kinds]
        /\ \A h \in Gen : op'[h] = op[h] \/ (op[h] = "pending" /\ op'[h] = "fenced")
        /\ op'[k] # "pending"
        /\ Committed' = Committed /\ Current' = Current
    BY <1>3, <2>1, Renamed
  <2>7. \A h : Past(h) => Past(h)'
    <3>1. reserved \subseteq Gen
      BY DEF Inv, TypeOK
    <3> QED BY <2>1, <2>5, <2>6, <3>1 DEF Past
  <2>8. Gentle(g)
    BY <2>1, <2>5, <2>6, <2>7 DEF Gentle, Active
  <2>9. Unread(g)
    BY <2>1, <2>6 DEF Unread
  <2>10. TypeOK'
    BY <2>1, <2>3, <2>4, <2>6 DEF Inv, TypeOK
  <2>11. Shape'
    <3>1. \A h \in Committed' : Sound(file'[h])
      BY <2>1, <2>6 DEF Inv, Shape
    <3> QED BY <1>0, <2>1, <2>6, <2>8, <3>1, ShapeStays
  <2>12. Local(r)'
    <3>1. Place(r)'
      BY <1>0, <1>1, <2>1, <2>3, <2>6 DEF Place, Turning, Opened, Ripe, Owning
    <3>2. Grip(r)'
      BY <1>0, <1>1, <2>1, <2>3, <2>6 DEF Grip, Active, Owning
    <3>3. Wall(r)'
      BY <1>0, <1>1, <2>3, <2>5, <2>6 DEF Wall, Fenced
    <3>4. Aim(r)' /\ Due(r)' /\ Plan(r)'
      BY <2>3 DEF Aim, Due, Plan
    <3> QED BY <3>1, <3>2, <3>3, <3>4 DEF Local
  <2> QED BY <1>0, <2>3, <2>4, <2>8, <2>9, <2>10, <2>11, <2>12, OwnStep
<1> QED BY <1>2, <1>3 DEF Fence

LEMMA CancelKeeps == ASSUME Inv, NEW p \in Run, Cancel(p) PROVE Inv'
<1> PICK g : g = run[p].gen
  OBVIOUS
<1>0. /\ g \in Gen /\ g \in reserved /\ (\A q \in Run \ {p} : run[q].gen # g)
      /\ run[p].pc = "cancel"
  BY Alone DEF Cancel, At, Opened
<1>1. /\ op' = [op EXCEPT ![g] = IF @ = "pending" THEN "cancelled" ELSE @]
      /\ UNCHANGED <<reserved, file, lapsed, claim, retired, clock, scene, alone>>
  BY DEF Cancel
<1>2. Plan(run[p]) /\ run[p] \in RunState /\ run[p].answer \in Answers
  BY Records DEF Local, RunState
<1>3. /\ op \in [Gen -> Kinds] /\ op' \in [Gen -> Kinds]
      /\ \A h \in Gen : op'[h] = op[h] \/ (op[h] = "pending" /\ op'[h] = "cancelled")
      /\ op'[g] # "pending"
      /\ Committed' = Committed /\ Current' = Current
  BY <1>0, <1>1, Renamed
<1>4. PICK r \in RunState : /\ Set(p, r) /\ r.gen \in {0, g} /\ r.pc \in {"done", "declined"}
                            /\ r.pc = "done" => r.answer = run[p].answer
  <2>1. CASE Finish(p, run[p].answer)
    <3> DEFINE a == run[p].answer
    <3>1. a \in Answers /\ a = run[p].answer
      BY <1>2
    <3> HIDE DEF a
    <3>2. PICK r : r = [Unborn EXCEPT !.pc = "done", !.answer = a]
      OBVIOUS
    <3>3. r \in RunState /\ r.pc = "done" /\ r.gen = 0 /\ r.answer = a
      BY <3>1, <3>2, UnbornIsRun DEF RunState, Steps, Unborn
    <3>4. Set(p, r)
      BY <2>1, <3>1, <3>2 DEF Finish
    <3> QED BY <3>1, <3>3, <3>4
  <2>2. CASE Go(p, "declined")
    <3>1. PICK r : r = [run[p] EXCEPT !.pc = "declined"]
      OBVIOUS
    <3>2. r \in RunState /\ r.pc = "declined" /\ r.gen = g
      <4>1. "declined" \in Steps
        BY DEF Steps
      <4> QED BY <3>1, <4>1, Records, Written
    <3> QED BY <2>2, <3>1, <3>2 DEF Go
  <2> QED BY <2>1, <2>2 DEF Cancel
<1>5. run' = [run EXCEPT ![p] = r] /\ run \in [Run -> RunState]
  BY <1>4, Records DEF Set
<1>6. r.pc \notin Early /\ r.pc \notin Ripe /\ r.pc \notin Opened
  BY <1>4 DEF Early, Opened, Ripe, Turning, Owning, Fenced
<1>7. (\A h : IsRipe(h)' => IsRipe(h)) /\ (\A h : IsYoung(h)' => IsYoung(h))
  BY <1>5, <1>6, SelfMove
<1>8. \A h : Past(h) => Past(h)'
  <2>1. reserved \subseteq Gen
    BY DEF Inv, TypeOK
  <2> QED BY <1>1, <1>3, <1>7, <2>1 DEF Past
<1>9. Gentle(g)
  BY <1>1, <1>3, <1>7, <1>8 DEF Gentle, Active
<1>10. Unread(g)
  BY <1>1, <1>3 DEF Unread
<1>11. TypeOK'
  BY <1>1, <1>3, <1>5 DEF Inv, TypeOK
<1>12. Shape'
  <2>1. \A h \in Committed' : Sound(file'[h])
    BY <1>1, <1>3 DEF Inv, Shape
  <2> QED BY <1>0, <1>1, <1>3, <1>9, <2>1, ShapeStays
<1>13. Local(r)'
  <2>1. Place(r)' /\ Aim(r)' /\ Grip(r)' /\ Due(r)' /\ Wall(r)'
    BY <1>0, <1>1, <1>4, <1>6
       DEF Place, Aim, Grip, Due, Wall, Opened, Ripe, Turning, Owning, Fenced
  <2>2. Plan(r)'
    BY <1>0, <1>2, <1>3, <1>4 DEF Plan
  <2> QED BY <2>1, <2>2 DEF Local
<1> QED BY <1>0, <1>4, <1>5, <1>9, <1>10, <1>11, <1>12, <1>13, OwnStep

LEMMA LapseKeeps == Inv /\ Lapse => Inv'
<1> SUFFICES ASSUME Inv, Lapse PROVE Inv'
  OBVIOUS
<1>1. /\ UNCHANGED <<reserved, op, file, claim, retired, clock, scene, run>>
      /\ lapsed \subseteq lapsed' /\ lapsed' \subseteq Gen /\ alone' \subseteq alone
  BY DEF Lapse, Inv, TypeOK
<1>2. Current' = Current /\ Committed' = Committed
  BY <1>1, CurrentSame
<1>3. TypeOK' /\ OwnGen'
  BY <1>1 DEF Inv, TypeOK, OwnGen
<1>4. Shape'
  BY <1>1, <1>2 DEF Inv, Shape, Past, IsYoung, Below, IsRipe
<1>5. ASSUME NEW p \in Run PROVE Local(run[p])'
  <2>1. Local(run[p])
    BY DEF Inv
  <2>2. Active(run[p].gen)' => Active(run[p].gen)
    BY <1>1 DEF Active
  <2>3. Place(run[p])' /\ Wall(run[p])'
    BY <1>1, <2>1 DEF Local, Place, Wall, Below, IsRipe
  <2>4. Aim(run[p])'
    BY <1>1, <2>1 DEF Local, Aim, Active, Past, IsYoung
  <2>5. Grip(run[p])'
    BY <1>1, <2>1, <2>2 DEF Local, Grip
  <2>6. Due(run[p])'
    BY <1>1, <1>2, <2>1, <2>2 DEF Local, Due
  <2>7. Plan(run[p])'
    BY <1>1, <1>2, <2>1 DEF Local, Plan
  <2> QED BY <2>3, <2>4, <2>5, <2>6, <2>7 DEF Local
<1> QED BY <1>3, <1>4, <1>5 DEF Inv

-----------------------------------------------------------------------------
(* The one step that changes the record: a run that has fenced commits the *)
(* newest generation, and every other one that could is past its turn.     *)
LEMMA Published ==
  ASSUME Inv, NEW p \in Run, Publish(p), Pending(p), NEW g, g = run[p].gen
  PROVE  /\ g \in Gen /\ op[g] = "pending" /\ IsRipe(g) /\ Below(g)
         /\ op' = [op EXCEPT ![g] = "committed"] /\ file[g] = run[p].plan
         /\ Committed' = Committed \cup {g} /\ Current' = run[p].plan
         /\ Move(Current, run[p].plan) /\ Successor(Current, run[p].plan, run[p].answer)
<1>1. run[p].pc = "publish" /\ op' = [op EXCEPT ![g] = "committed"] /\ op[g] = "pending"
      /\ UNCHANGED file
  BY DEF Publish, At, Pending
<1>2. g \in Gen
  BY <1>1, Alone DEF Opened, Ripe, Owning, Fenced
<1>3. IsRipe(g)
  BY <1>1 DEF IsRipe, Ripe, Owning, Fenced
<1>4. Wall(run[p]) /\ Plan(run[p])
  BY Records DEF Local
<1>5. /\ Below(g) /\ file[g] = run[p].plan
      /\ Move(Current, run[p].plan) /\ Successor(Current, run[p].plan, run[p].answer)
  BY <1>1, <1>4 DEF Wall, Plan, Fenced
<1>6. op'[g] = "committed" /\ \A h \in Gen \ {g} : op'[h] = op[h]
  BY <1>1, <1>2 DEF Inv, TypeOK
<1>7. Committed' = Committed \cup {g}
  <2>1. Readable(file'[g])
    BY <1>1, <1>5 DEF Successor
  <2>2. ASSUME NEW h \in Gen PROVE h \in Committed' <=> h \in Committed \cup {g}
    <3>1. CASE h = g
      BY <1>6, <2>1, <3>1 DEF Committed
    <3>2. CASE h # g
      BY <1>1, <1>6, <3>2 DEF Committed
    <3> QED BY <3>1, <3>2
  <2>3. Committed \subseteq Gen /\ Committed' \subseteq Gen
    BY DEF Committed
  <2> QED BY <1>2, <2>2, <2>3
<1>8. \A h \in Committed : h < g
  <2> SUFFICES ASSUME NEW h \in Committed PROVE h < g
    OBVIOUS
  <2>1. h \in Gen /\ op[h] = "committed" /\ Below(h)
    BY DEF Committed, Inv, Shape
  <2>2. h # g /\ ~(g < h)
    BY <1>1, <1>2, <1>3, <2>1 DEF Below
  <2> QED BY <1>2, <2>1, <2>2, Sizes DEF Gen
<1>9. Newest' = {g}
  <2>1. g \in Int /\ \A h \in Committed : h \in Int
    BY <1>2, Sizes DEF Gen, Committed
  <2>2. \A h \in Committed' : h <= g
    BY <1>7, <1>8, <2>1
  <2>3. g \in Newest'
    BY <1>7, <2>2 DEF Newest
  <2>4. ASSUME NEW h \in Newest' PROVE h = g
    <3>1. h \in Committed' /\ g <= h
      BY <1>7 DEF Newest
    <3> QED BY <1>7, <1>8, <2>1, <3>1
  <2> QED BY <2>3, <2>4
<1>10. Current' = run[p].plan
  <2>1. (CHOOSE h \in Newest' : TRUE) = g
    BY <1>9
  <2> QED BY <1>1, <1>5, <1>9, <2>1 DEF Current
<1> QED BY <1>1, <1>2, <1>3, <1>5, <1>7, <1>10

LEMMA PublishKeeps == ASSUME Inv, NEW p \in Run, Publish(p) PROVE Inv'
<1> PICK g : g = run[p].gen
  OBVIOUS
<1>0. /\ g \in Gen /\ g \in reserved /\ (\A q \in Run \ {p} : run[q].gen # g)
      /\ run[p].pc = "publish"
  BY Alone DEF Publish, At, Opened, Ripe, Owning, Fenced
<1>1. CASE ~Pending(p)
  <2>1. UNCHANGED dirs /\ Around
    BY <1>1, Calm DEF Publish, dirs
  <2> QED BY <1>1, <2>1, OutrunKeeps DEF Publish
<1>2. CASE Pending(p)
  <2> PICK a, plan : a = run[p].answer /\ plan = run[p].plan
    OBVIOUS
  <2>1. /\ op[g] = "pending" /\ IsRipe(g) /\ Below(g)
        /\ op' = [op EXCEPT ![g] = "committed"] /\ file[g] = plan
        /\ Committed' = Committed \cup {g} /\ Current' = plan
        /\ Successor(Current, plan, a)
    BY <1>2, Published
  <2>2. /\ UNCHANGED <<reserved, file, lapsed, claim, retired, clock, scene, alone>>
        /\ Finish(p, a)
    BY <1>2 DEF Publish
  <2>3. PICK r \in RunState : r.pc = "done" /\ r.gen = 0 /\ r.answer = a /\ Set(p, r)
    <3>1. a \in Answers
      BY <2>1 DEF Successor
    <3>2. PICK r : r = [Unborn EXCEPT !.pc = "done", !.answer = a]
      OBVIOUS
    <3>3. r \in RunState /\ r.pc = "done" /\ r.gen = 0 /\ r.answer = a
      BY <3>1, <3>2, UnbornIsRun DEF RunState, Steps, Unborn
    <3> QED BY <2>2, <3>2, <3>3 DEF Finish
  <2>4. /\ run \in [Run -> RunState] /\ run' = [run EXCEPT ![p] = r] /\ run'[p] = r
        /\ \A q \in Run \ {p} : run'[q] = run[q]
    BY <2>3, Records DEF Set
  <2>5. (\A h : IsRipe(h)' => IsRipe(h)) /\ (\A h : IsYoung(h)' => IsYoung(h))
    BY <2>3, <2>4, SelfMove DEF Early, Ripe, Turning, Owning, Fenced
  <2>6. /\ op \in [Gen -> Kinds] /\ op' \in [Gen -> Kinds] /\ op'[g] = "committed"
        /\ \A h \in Gen \ {g} : op'[h] = op[h]
    BY <1>0, <2>1 DEF Inv, TypeOK, Kinds
  <2>7. \A h : Past(h) => Past(h)'
    <3>1. reserved \subseteq Gen
      BY DEF Inv, TypeOK
    <3> QED BY <2>2, <2>5, <2>6, <3>1 DEF Past
  <2>8. Gentle(g)
    <3>1. \A h \in Gen : op'[h] = "pending" => op[h] = "pending"
      BY <2>6
    <3> QED BY <2>2, <2>5, <2>6, <2>7, <3>1 DEF Gentle, Active
  <2>9. TypeOK'
    BY <2>2, <2>4, <2>6 DEF Inv, TypeOK
  <2>10. OwnGen'
    BY <2>3, <2>4 DEF Inv, OwnGen
  <2>11. Shape'
    <3>1. \A h \in Committed' : Sound(file'[h])
      BY <2>1, <2>2 DEF Inv, Shape, Successor
    <3>2. Below(g)'
      <4> SUFFICES ASSUME NEW h \in Gen, h < g, op'[h] = "pending", IsRipe(h)' PROVE FALSE
        BY DEF Below, IsRipe
      <4> QED BY <2>1, <2>5, <2>6 DEF Below
    <3> QED BY <1>0, <2>2, <2>6, <2>8, <3>1, <3>2, ShapeStays
  <2>12. Local(r)'
    BY <2>1, <2>3 DEF Local, Place, Aim, Grip, Due, Wall, Plan, Opened, Ripe, Turning, Owning,
                      Fenced, Successor
  <2>13. ASSUME NEW q \in Run \ {p}, NEW x, x = run[q] PROVE Local(x)'
    <3>1. Place(x)' /\ Aim(x)' /\ Grip(x)' /\ Wall(x)'
      BY <1>0, <2>8, <2>13, OthersStand
    <3>2. Place(x) /\ Grip(x) /\ Wall(x) /\ Plan(x) /\ x \in RunState
      BY <2>13, Records DEF Local
    <3>3. x.pc \in Ripe => x.gen \in Gen /\ x.gen # g /\ IsRipe(x.gen)
      BY <1>0, <2>13, Alone DEF IsRipe, Opened
    <3>4. Due(x)'
      <4> SUFFICES ASSUME x.pc \in {"owned", "fetch"}, Active(x.gen)'
                   PROVE  Committed' \cap lapsed' # {}
        BY DEF Due, Active
      <4>1. x.gen \in Gen /\ x.gen # g
        BY <3>3 DEF Ripe, Owning
      <4>2. claim = {x.gen}
        BY <2>2, <2>6, <3>2, <4>1 DEF Grip, Owning, Active
      <4>3. Grip(run[p])
        BY Records DEF Local
      <4>4. g \in lapsed
        BY <1>0, <2>1, <4>1, <4>2, <4>3 DEF Grip, Active, Owning, Fenced
      <4> QED BY <2>1, <2>2, <4>4
    <3>5. Plan(x)'
      <4>1. x.pc \in {"write", "publish"} => op'[x.gen] # "pending"
        <5> SUFFICES ASSUME x.pc \in {"write", "publish"}, op'[x.gen] = "pending" PROVE FALSE
          OBVIOUS
        <5>1. x.gen \in Gen /\ x.gen # g /\ IsRipe(x.gen)
          BY <3>3 DEF Ripe, Owning, Fenced
        <5>2. op[x.gen] = "pending"
          BY <2>6, <5>1
        <5>3. Below(x.gen)
          BY <3>2 DEF Wall, Fenced
        <5>4. ~(x.gen < g) /\ ~(g < x.gen)
          BY <1>0, <2>1, <5>1, <5>2, <5>3 DEF Below
        <5> QED BY <1>0, <5>1, <5>4, Sizes DEF Gen
      <4>2. Known(Current) \subseteq Known(plan)
        BY <2>1 DEF Successor
      <4> QED BY <2>1, <3>2, <4>1, <4>2 DEF Plan
    <3> QED BY <3>1, <3>4, <3>5 DEF Local
  <2>14. ASSUME NEW q \in Run PROVE Local(run[q])'
    <3>1. CASE q = p
      BY <2>4, <2>12, <3>1, Named
    <3>2. CASE q # p
      <4>1. PICK x : x = run[q]
        OBVIOUS
      <4> QED BY <2>4, <2>13, <3>2, <4>1, Named
    <3> QED BY <3>1, <3>2
  <2> QED BY <2>9, <2>10, <2>11, <2>14 DEF Inv
<1> QED BY <1>1, <1>2

-----------------------------------------------------------------------------
LEMMA InitHolds == Init => Inv
<1> SUFFICES ASSUME Init PROVE Inv
  OBVIOUS
<1>1. EmptyState \in Notices
  BY EmptyIsSound DEF Sound
<1>2. TypeOK
  BY <1>1, UnbornIsRun, Sizes DEF Init, TypeOK, Kinds
<1>3. \A p \in Run : run[p].pc = "idle" /\ run[p].gen = 0
  BY DEF Init, Unborn
<1>4. OwnGen /\ Shape
  BY <1>3 DEF Init, OwnGen, Shape, Committed
<1>5. \A p \in Run : Local(run[p])
  BY <1>3 DEF Local, Place, Aim, Grip, Due, Wall, Plan, Opened, Ripe, Turning, Owning, Fenced
<1> QED BY <1>2, <1>4, <1>5 DEF Inv

LEMMA StepKeeps == ASSUME Inv, NEW p \in Run, Step(p) PROVE Inv'
BY SurveyKeeps, ReserveKeeps, OpenKeeps, OwnKeeps, RankKeeps, LookKeeps, InspectKeeps,
   RetireKeeps, MoveAwayKeeps, SettleKeeps, PromoteKeeps, ConfirmKeeps, RereadKeeps,
   OwnedKeeps, FetchKeeps, CommitKeeps, ListKeeps, FenceKeeps, HoldKeeps, DecideKeeps,
   WriteKeeps, PublishKeeps, CancelKeeps, DeclinedKeeps DEF Step

LEMMA NextKeeps == Inv /\ [Next]_vars => Inv'
<1> SUFFICES ASSUME Inv, [Next]_vars PROVE Inv'
  OBVIOUS
<1>1. CASE UNCHANGED vars
  <2>1. UNCHANGED dirs /\ Around /\ UNCHANGED run
    BY <1>1, Calm DEF vars
  <2> QED BY <2>1, StillKeeps
<1>2. ASSUME NEW p \in Run, Start(p) \/ Step(p) \/ Kill(p) PROVE Inv'
  BY <1>2, StartKeeps, StepKeeps, KillKeeps
<1>3. CASE Lapse
  BY <1>3, LapseKeeps
<1>4. CASE Tick
  BY <1>4, TickKeeps
<1> QED BY <1>1, <1>2, <1>3, <1>4 DEF Next

-----------------------------------------------------------------------------
(* Whatever runs share the directory, in whatever order they read, rename, *)
(* stall and are killed, what each of them relies on stays so.             *)
THEOREM CacheStays == Spec => []Inv
<1>1. Init => Inv
  BY InitHolds
<1>2. Inv /\ [Next]_vars => Inv'
  BY NextKeeps
<1> QED BY <1>1, <1>2, PTL DEF Spec

(* check-update.mjs:1467: no two runs within their lease ask the network,  *)
(* and none asks while the record it read is still valid.                  *)
THEOREM AsksOnceWhenDue == Spec => []OneFetchWhenDue
<1>1. Inv => OneFetchWhenDue
  <2> SUFFICES ASSUME Inv, NEW p \in Run, Fetching(p)
               PROVE  /\ Fresh(Current, run[p].now) => Committed \cap lapsed # {}
                      /\ \A q \in Run : Fetching(q) => p = q
    BY DEF OneFetchWhenDue
  <2>1. ASSUME NEW q \in Run, Fetching(q)
        PROVE  run[q].gen # 0 /\ claim = {run[q].gen} /\ Due(run[q])
    <3>1. run[q].pc = "fetch" /\ Active(run[q].gen)
      BY <2>1 DEF Fetching, At
    <3>2. Local(run[q])
      BY DEF Inv
    <3> QED BY <3>1, <3>2 DEF Local, Place, Grip, Opened, Ripe, Owning
  <2>2. Fresh(Current, run[p].now) => Committed \cap lapsed # {}
    BY <2>1 DEF Due, Fetching, At
  <2>3. ASSUME NEW q \in Run, Fetching(q) PROVE p = q
    <3>1. run[p].gen = run[q].gen /\ run[p].gen # 0
      BY <2>1, <2>3
    <3> QED BY <3>1 DEF Inv, OwnGen
  <2> QED BY <2>2, <2>3
<1> QED BY <1>1, CacheStays, PTL

(* check-update.mjs:129, 1521: a notice that was printed is on record, and *)
(* the record has room for its acknowledgement.                            *)
THEOREM PrintedCanBeAnswered == Spec => []NoticesCanBeAnswered
<1>1. Inv => NoticesCanBeAnswered
  <2> SUFFICES ASSUME Inv PROVE NoticesCanBeAnswered
    OBVIOUS
  <2>1. ASSUME NEW p \in Run, At(p, "done")
        PROVE  run[p].answer.notice \subseteq Current.offered \cup Current.acknowledged
    <3>1. Plan(run[p])
      BY DEF Inv, Local
    <3> QED BY <2>1, <3>1 DEF Plan, At, Known
  <2>2. ShownIsOnRecord
    BY <2>1 DEF ShownIsOnRecord, Shown
  <2>3. OfferedFits
    BY CurrentIsSound, AcknowledgementFits DEF Inv, OfferedFits
  <2> QED BY <2>2, <2>3 DEF NoticesCanBeAnswered
<1> QED BY <1>1, CacheStays, PTL

(* check-update.mjs:739: only the claim of a run past its lease is moved.  *)
THEOREM ClaimInUseStays == Spec => LiveClaimStays
<1>1. Inv /\ [Next]_vars => [\A g \in claim : Active(g) => claim' = claim]_vars
  <2> SUFFICES ASSUME Inv, [Next]_vars, NEW g \in claim, Active(g) PROVE claim' = claim
    OBVIOUS
  <2>1. CASE UNCHANGED vars
    BY <2>1 DEF vars, dirs
  <2>2. ASSUME NEW p \in Run, MoveAway(p) PROVE claim' = claim
    <3>1. run[p].pc = "moveaway" /\ Aim(run[p])
      BY <2>2, Records DEF Local, MoveAway, At
    <3>2. PICK t \in Gen : /\ run[p].target = {t} /\ ~Active(t)
                           /\ claim = {t} \/ t \in retired
      BY <3>1 DEF Aim
    <3>3. g \in Gen /\ claim = {g}
      BY DEF Inv, Shape
    <3>4. run[p].target \cap retired # {}
      BY <3>2, <3>3
    <3> QED BY <2>2, <3>4 DEF MoveAway
  <2>3. ASSUME NEW p \in Run, Promote(p) PROVE claim' = claim
    BY <2>3 DEF Promote
  <2>4. ASSUME NEW p \in Run, Step(p), ~MoveAway(p), ~Promote(p) PROVE claim' = claim
    BY <2>4 DEF Step, Survey, Reserve, Open, Own, Rank, Look, Inspect, Retire, Settle, Confirm,
                Reread, Owned, Fetch, Commit, List, Fence, Hold, Decide, Write, Publish, Cancel,
                Declined, dirs
  <2>5. ASSUME NEW p \in Run, Start(p) \/ Kill(p) PROVE claim' = claim
    BY <2>5 DEF Start, Kill, dirs
  <2>6. CASE Lapse \/ Tick
    BY <2>6 DEF Lapse, Tick, dirs
  <2> QED BY <2>1, <2>2, <2>3, <2>4, <2>5, <2>6 DEF Next
<1> QED BY <1>1, CacheStays, PTL DEF Spec, LiveClaimStays

-----------------------------------------------------------------------------
(* The record changes by a decision on it as it stands, or not at all.     *)
LEMMA RecordMoves ==
  ASSUME Inv, [Next]_vars
  PROVE  Current' = Current \/ Move(Current, Current')
<1>1. CASE UNCHANGED <<op, file>>
  BY <1>1, CurrentSame
<1>2. ASSUME NEW p \in Run, Open(p) PROVE Current' = Current
  <2> PICK g : g = run[p].gen
    OBVIOUS
  <2>1. g \in Gen /\ run[p].pc = "open"
    BY <1>2, Alone DEF Open, At
  <2>2. op[g] = "none"
    BY <2>1, Records DEF Local, Place
  <2>3. op' = [op EXCEPT ![g] = "pending"] /\ UNCHANGED file
    BY <1>2 DEF Open
  <2>4. op'[g] = "pending" /\ \A h \in Gen \ {g} : op'[h] = op[h]
    BY <2>1, <2>3 DEF Inv, TypeOK
  <2> QED BY <2>1, <2>2, <2>3, <2>4, SameRead
<1>3. ASSUME NEW p \in Run, Write(p) PROVE Current' = Current
  <2> PICK g : g = run[p].gen
    OBVIOUS
  <2>1. g \in Gen
    BY <1>3, Alone DEF Write, At, Opened, Ripe, Owning, Fenced
  <2>2. CASE Pending(p)
    <3>1. op[g] = "pending" /\ UNCHANGED op /\ file' = [file EXCEPT ![g] = run[p].plan]
      BY <1>3, <2>2 DEF Write, Pending
    <3>2. \A h \in Gen \ {g} : file'[h] = file[h]
      BY <2>1, <3>1 DEF Inv, TypeOK
    <3> QED BY <2>1, <3>1, <3>2, SameRead
  <2>3. CASE ~Pending(p)
    BY <1>3, <2>3, CurrentSame DEF Write
  <2> QED BY <2>2, <2>3
<1>4. ASSUME NEW p \in Run, Fence(p) PROVE Current' = Current
  <2>1. UNCHANGED file /\ run[p] \in RunState
    BY <1>4, Records DEF Fence
  <2>2. ASSUME NEW k \in run[p].todo,
               op' = [op EXCEPT ![k] = IF @ = "pending" THEN "fenced" ELSE @]
        PROVE  Current' = Current
    BY <2>1, <2>2, Renamed DEF RunState
  <2> QED BY <1>4, <2>1, <2>2, CurrentSame DEF Fence
<1>5. ASSUME NEW p \in Run, Cancel(p) PROVE Current' = Current
  <2>1. run[p].gen \in Gen
    BY <1>5, Alone DEF Cancel, At, Opened
  <2> QED BY <1>5, <2>1, Renamed DEF Cancel
<1>6. ASSUME NEW p \in Run, Publish(p) PROVE Current' = Current \/ Move(Current, Current')
  <2>1. CASE Pending(p)
    BY <1>6, <2>1, Published
  <2>2. CASE ~Pending(p)
    BY <1>6, <2>2, CurrentSame DEF Publish
  <2> QED BY <2>1, <2>2
<1>7. ASSUME NEW p \in Run, Step(p), ~Open(p), ~Write(p), ~Fence(p), ~Cancel(p), ~Publish(p)
      PROVE  UNCHANGED <<op, file>>
  BY <1>7 DEF Step, Survey, Reserve, Own, Rank, Look, Inspect, Retire, MoveAway, Settle, Promote,
              Confirm, Reread, Owned, Fetch, Commit, List, Hold, Decide, Declined, dirs
<1>8. ASSUME NEW p \in Run, Start(p) \/ Kill(p) PROVE UNCHANGED <<op, file>>
  BY <1>8 DEF Start, Kill, dirs
<1>9. Lapse \/ Tick \/ UNCHANGED vars => UNCHANGED <<op, file>>
  BY DEF Lapse, Tick, vars, dirs
<1> QED BY <1>1, <1>2, <1>3, <1>4, <1>5, <1>6, <1>7, <1>8, <1>9 DEF Next

(* The board takes the decisions the runs take.                            *)
LEMMA SameCount == ASSUME NEW S PROVE Board!Cardinality(S) = Cardinality(S)
BY DEF Cardinality, Board!Cardinality

LEMMA SameRecoverable == ASSUME NEW s PROVE Board!Recoverable(s) = Recoverable(s)
<1>1. ASSUME NEW n PROVE Board!ListSize(n) = ListSize(n)
  BY DEF ListSize, Board!ListSize, DigestSize, Board!DigestSize
<1>2. ASSUME NEW moved, NEW stamp PROVE Board!Size(s, moved, stamp) = Size(s, moved, stamp)
  <2> DEFINE x == Cardinality(s.offered) - moved
             y == Cardinality(s.acknowledged) + moved
             z == CandidateSize * Cardinality(s.candidate)
  <2>1. Size(s, moved, stamp) = ListSize(x) + ListSize(y) + z + stamp
    BY DEF Size
  <2>2. Board!Size(s, moved, stamp) = Board!ListSize(x) + Board!ListSize(y) + z + stamp
    BY SameCount DEF Board!Size, Board!CandidateSize, CandidateSize
  <2> QED BY <1>1, <2>1, <2>2
<1>3. Board!Stamped(s) = Stamped(s)
  BY DEF Stamped, Board!Stamped, StampSize, Board!StampSize
<1>4. Board!LongestStampSize = LongestStampSize
  BY DEF LongestStampSize, Board!LongestStampSize
<1> QED BY <1>2, <1>3, <1>4, SameCount DEF Recoverable, Board!Recoverable

LEMMA SameDecisions ==
  ASSUME NEW s
  PROVE  /\ \A d : Board!AcknowledgeDecision(s, d) = AcknowledgeDecision(s, d)
         /\ \A now : Board!FailureDecision(s, now) = FailureDecision(s, now)
         /\ \A now, delay, r : Board!FetchDecision(s, now, delay, r) = FetchDecision(s, now, delay, r)
<1>1. \A t : Board!ResultFor(t) = ResultFor(t)
  BY DEF ResultFor, Board!ResultFor, Silent, Board!Silent
<1>2. \A why : Board!Silent(why) = Silent(why)
  BY DEF Silent, Board!Silent
<1>3. \A state, a : Board!Decision(state, a) = Decision(state, a)
  BY DEF Decision, Board!Decision
<1>4. ASSUME NEW d PROVE Board!AcknowledgeDecision(s, d) = AcknowledgeDecision(s, d)
  <2>1. Board!AfterAcknowledging(s, d) = AfterAcknowledging(s, d)
    BY DEF AfterAcknowledging, Board!AfterAcknowledging
  <2> QED BY <1>2, <1>3, <2>1, SameRecoverable DEF AcknowledgeDecision, Board!AcknowledgeDecision
<1>5. ASSUME NEW now, NEW withdraw
      PROVE  Board!AfterFailedCheck(s, now, withdraw) = AfterFailedCheck(s, now, withdraw)
  BY DEF AfterFailedCheck, Board!AfterFailedCheck
<1>6. ASSUME NEW now PROVE Board!FailureDecision(s, now) = FailureDecision(s, now)
  BY <1>2, <1>3, <1>5, SameRecoverable DEF FailureDecision, Board!FailureDecision
<1>7. ASSUME NEW now, NEW delay, NEW r
      PROVE  Board!FetchDecision(s, now, delay, r) = FetchDecision(s, now, delay, r)
  <2>1. Board!AfterFetch(s, now, delay, r) = AfterFetch(s, now, delay, r)
    BY <1>1 DEF AfterFetch, Board!AfterFetch
  <2> QED BY <1>1, <1>2, <1>3, <1>5, <2>1, SameRecoverable DEF FetchDecision, Board!FetchDecision
<1> QED BY <1>4, <1>6, <1>7

(* check-update.mjs:1290: the runs, with all their renames and their fault *)
(* handling, implement a board that one decision at a time is written to.  *)
THEOREM RunsImplementTheBoard == Spec => ImplementsBoard
<1>1. Init => Board!BoardInit
  BY DEF Init, Board!BoardInit, Board!EmptyState, EmptyState, Current, Newest, Committed
<1>2. ASSUME Inv, [Next]_vars PROVE [Board!BoardNext]_Current
  <2>1. CASE Current' = Current
    BY <2>1
  <2>2. CASE Current' # Current /\ Move(Current, Current')
    <3>1. \A d \in Release : Board!AcknowledgeDecision(Current, d) = AcknowledgeDecision(Current, d)
      BY SameDecisions
    <3>2. \A now \in Times : Board!FailureDecision(Current, now) = FailureDecision(Current, now)
      BY SameDecisions
    <3>3. \A now \in Times, delay \in SuccessDelays, r \in Release :
            Board!FetchDecision(Current, now, delay, r) = FetchDecision(Current, now, delay, r)
      BY SameDecisions
    <3>4. Board!Hear \/ Board!Fail \/ Board!Acknowledge
      BY <2>2, <3>1, <3>2, <3>3 DEF Move, Times, Board!Hear, Board!Fail, Board!Acknowledge
    <3> QED BY <2>2, <3>4 DEF Board!BoardNext
  <2> QED BY <1>2, <2>1, <2>2, RecordMoves
<1> QED BY <1>1, <1>2, CacheStays, PTL DEF Spec, ImplementsBoard, Board!BoardSpec

-----------------------------------------------------------------------------
(* A run that has the directory to itself.                                 *)

(* The answer of a run that was not turned away: for want of room only if  *)
(* the record s that stands then has no candidate, and a date.             *)
Polite(a, s) ==
  /\ a.why # "check-in-progress"
  /\ a.why = "cache-unavailable" => s.candidate = {} /\ s.due > 0

(* A failed check always finds room in a record that can be read.          *)
LEMMA FailureFits ==
  ASSUME NEW s, Sound(s), s = EmptyState \/ Readable(s), NEW now \in Nat,
         NEW withdraw \in BOOLEAN
  PROVE  /\ Recoverable(AfterFailedCheck(s, now, withdraw))
         /\ AfterFailedCheck(s, now, withdraw).due > 0
         /\ withdraw => AfterFailedCheck(s, now, withdraw).candidate = {}
<1> DEFINE t == AfterFailedCheck(s, now, withdraw)
           n == Cardinality(s.offered)
           m == Cardinality(s.acknowledged)
           c == Cardinality(s.candidate)
           e == Cardinality(t.candidate)
<1>1. FirstDelay \in Nat /\ FirstDelay > 0 /\ LaterDelay \in Nat /\ LaterDelay > 0
  BY NoticeAssumption
<1>2. /\ t.offered = s.offered /\ t.acknowledged = s.acknowledged /\ t.due \in Nat /\ t.due > 0
      /\ t.candidate = IF withdraw THEN {} ELSE s.candidate
  <2> DEFINE k == IF s.failures + 1 > 2 THEN 2 ELSE s.failures + 1
             due == now + (IF k <= 1 THEN FirstDelay ELSE LaterDelay)
             kept == IF withdraw THEN {} ELSE s.candidate
  <2>1. t = [s EXCEPT !.failures = k, !.due = due, !.candidate = kept]
    BY DEF AfterFailedCheck
  <2>2. s \in Notices
    BY DEF Sound
  <2>3. due \in Nat /\ due > 0
    BY <1>1
  <2> HIDE DEF k, due, kept, t
  <2>4. /\ t.offered = s.offered /\ t.acknowledged = s.acknowledged /\ t.due = due
        /\ t.candidate = kept
    BY <2>1, <2>2 DEF Notices
  <2> QED BY <2>3, <2>4 DEF kept
<1>3. /\ IsFiniteSet(s.offered) /\ IsFiniteSet(s.acknowledged) /\ IsFiniteSet(s.candidate)
      /\ n \in Nat /\ m \in Nat /\ c \in Nat
  <2>1. s.offered \subseteq Release /\ s.acknowledged \subseteq Release /\ s.candidate \subseteq Release
    BY DEF Sound, Notices
  <2> QED BY <2>1, NoticeAssumption, FS_Subset, FS_CardinalityType
<1>4. e \in Nat /\ e <= c
  <2>1. CASE withdraw
    BY <1>2, <1>3, <2>1, FS_EmptySet
  <2>2. CASE ~withdraw
    BY <1>2, <1>3, <2>2
  <2> QED BY <2>1, <2>2
<1>5. Stamped(t) = 1
  BY <1>2 DEF Stamped, StampSize
<1> HIDE DEF t
<1>6. Cardinality(t.offered) = n /\ Cardinality(t.acknowledged) = m
  BY <1>2
<1>7. \A moved \in 0..n : Size(s, moved, 2) <= Capacity
  <2>1. CASE Readable(s)
    BY <2>1 DEF Readable, Recoverable, LongestStampSize
  <2>2. CASE s = EmptyState
    <3>1. n = 0 /\ m = 0 /\ c = 0
      BY <2>2, FS_EmptySet DEF EmptyState
    <3>2. Size(s, 0, 2) = 2
      BY <3>1 DEF Size, ListSize, DigestSize, CandidateSize
    <3> QED BY <3>1, <3>2, NoticeAssumption DEF LongestStampSize
  <2> QED BY <2>1, <2>2
<1>8. \A moved \in 0..n : Size(t, moved, 1) <= Capacity /\ Size(t, moved, 2) <= Capacity
  <2> SUFFICES ASSUME NEW moved \in 0..n
               PROVE  Size(t, moved, 1) <= Capacity /\ Size(t, moved, 2) <= Capacity
    OBVIOUS
  <2> DEFINE l == ListSize(n - moved) + ListSize(m + moved)
  <2>1. l \in Nat
    <3>1. \A x \in Nat : ListSize(x) \in Nat
      BY DEF ListSize, DigestSize
    <3>2. n - moved \in Nat /\ m + moved \in Nat
      BY <1>3
    <3>3. ListSize(n - moved) \in Nat /\ ListSize(m + moved) \in Nat
      BY <3>1, <3>2
    <3> QED BY <3>3
  <2>2. /\ Size(s, moved, 2) = l + 6 * c + 2
        /\ Size(t, moved, 1) = l + 6 * e + 1
        /\ Size(t, moved, 2) = l + 6 * e + 2
    BY <1>6 DEF Size, CandidateSize
  <2> HIDE DEF l, c, e, n, m
  <2>3. Size(s, moved, 2) <= Capacity /\ Capacity \in Nat
    BY <1>7, NoticeAssumption
  <2> QED BY <1>3, <1>4, <2>1, <2>2, <2>3
<1>9. Recoverable(t)
  BY <1>5, <1>6, <1>8 DEF Recoverable, LongestStampSize
<1> QED BY <1>2, <1>9 DEF t

LEMMA ResultIsPolite == ASSUME NEW s, NEW r PROVE Polite(ResultFor(s), r)
BY DEF ResultFor, Polite, Silent

(* The record that is read is none, or one with room to go on.             *)
LEMMA CurrentIsRead == Shape => Current = EmptyState \/ Readable(Current)
<1>1. Newest # {} => (CHOOSE g \in Newest : TRUE) \in Committed
  BY DEF Newest
<1> QED BY <1>1 DEF Current, Committed

(* No decision turns the run away.                                         *)
LEMMA DecisionsArePolite ==
  ASSUME Inv, NEW p \in Run, NEW d \in Decisions(p)
  PROVE  /\ d.state = {} => Polite(d.answer, Current)
         /\ \A t \in d.state : Polite(d.answer, t)
<1>1. Sound(Current) /\ (Current = EmptyState \/ Readable(Current))
  BY CurrentIsSound, CurrentIsRead DEF Inv
<1>2. run[p].now \in Nat
  BY Records, Sizes
<1>3. \/ \E r : d = AcknowledgeDecision(Current, r)
      \/ d = FailureDecision(Current, run[p].now)
      \/ \E delay \in SuccessDelays, r \in Release :
           d = FetchDecision(Current, run[p].now, delay, r)
  <2>1. run[p].wants \in SUBSET Release
    BY Records DEF RunState
  <2> QED BY <2>1 DEF Decisions
<1>4. ASSUME NEW r, d = AcknowledgeDecision(Current, r)
      PROVE  d.answer = Silent("acknowledged") \/ d.answer = Silent("invalid-acknowledgement")
  <2>1. CASE r \notin Current.offered \cup Current.acknowledged
    BY <1>4, <2>1 DEF AcknowledgeDecision, Decision
  <2>2. CASE r \in Current.offered
    BY <1>1, <1>4, <2>2, RoomStays DEF AcknowledgeDecision, Decision
  <2>3. CASE r \notin Current.offered /\ r \in Current.acknowledged
    <3>1. Current.offered \ {r} = Current.offered /\ Current.acknowledged \cup {r} = Current.acknowledged
      BY <2>3
    <3>2. AfterAcknowledging(Current, r) = Current
      BY <1>1, <3>1 DEF AfterAcknowledging, Sound, Notices
    <3>3. Recoverable(Current)
      BY <1>1, <2>3 DEF Readable, EmptyState
    <3> QED BY <1>4, <2>3, <3>2, <3>3 DEF AcknowledgeDecision, Decision
  <2> QED BY <2>1, <2>2, <2>3
<1>5. ASSUME d = FailureDecision(Current, run[p].now)
      PROVE  d.answer = Silent("check-failed")
  <2>1. Recoverable(AfterFailedCheck(Current, run[p].now, FALSE))
    BY <1>1, <1>2, FailureFits
  <2> QED BY <1>5, <2>1 DEF FailureDecision, Decision
<1>6. ASSUME NEW delay \in SuccessDelays, NEW r \in Release,
             d = FetchDecision(Current, run[p].now, delay, r)
      PROVE  \/ \E s : d.state = {s} /\ d.answer = ResultFor(s)
             \/ \E s : d.state = {s} /\ d.answer = Silent("cache-unavailable")
                       /\ s.candidate = {} /\ s.due > 0
  <2>1. /\ Recoverable(AfterFailedCheck(Current, run[p].now, TRUE))
        /\ AfterFailedCheck(Current, run[p].now, TRUE).due > 0
        /\ AfterFailedCheck(Current, run[p].now, TRUE).candidate = {}
    BY <1>1, <1>2, FailureFits
  <2> QED BY <1>6, <2>1 DEF FetchDecision, Decision
<1>7. \A s : /\ Polite(Silent("acknowledged"), s) /\ Polite(Silent("invalid-acknowledgement"), s)
             /\ Polite(Silent("check-failed"), s)
             /\ s.candidate = {} /\ s.due > 0 => Polite(Silent("cache-unavailable"), s)
  BY DEF Polite, Silent
<1> QED BY <1>3, <1>4, <1>5, <1>6, <1>7, ResultIsPolite

-----------------------------------------------------------------------------
(* What becomes of claims and leases.                                      *)
Unclaimed == {"open", "own", "rank", "look"} \cup Turning

\* Generations are given out in order, a lease runs out only once it began, and
\* a claim is made once: neither in use nor retired before its run promotes it.
Given == \A g \in reserved, h \in Gen : h < g => h \in reserved
Begun == \A g \in lapsed : op[g] # "none"
Once ==
  /\ retired \subseteq reserved /\ claim \cap retired = {}
  /\ \A p \in Run : run[p].pc \in Unclaimed => run[p].gen \notin claim \cup retired
OneAlone == \A p, q \in alone : p = q
Fates == Given /\ Begun /\ Once /\ OneAlone

(* What a run that is alone, described by r, may rely on.                  *)
Lonely(r) ==
  /\ r.pc # "declined"
  /\ r.pc \in {"survey", "reserve"} => \A g \in Gen : ~Active(g)
  /\ r.pc \in {"open"} \cup Opened =>
       /\ r.gen \notin lapsed /\ \A h \in reserved : h <= r.gen
       /\ \A g \in Gen : Active(g) => g = r.gen
  /\ r.pc \in Opened => op[r.gen] = "pending"
  /\ r.pc \in {"look", "inspect", "promote"} => r.turns = 0 \/ (r.turns = 1 /\ claim = {})
  /\ r.pc \in {"retire", "moveaway"} => claim = r.target /\ claim # {}
  /\ r.pc \in {"retire", "moveaway", "settle"} => r.turns = 0
  /\ r.pc \in {"settle", "promote"} => claim = {}
  /\ r.pc = "confirm" => claim = {r.gen}
  /\ r.pc = "fence" => \A g \in r.todo : g < r.gen
  /\ r.pc \in {"write", "publish"} => Polite(r.answer, r.plan)
  /\ r.pc = "cancel" => r.next = "done"
  /\ r.pc \in {"cancel", "done"} => Polite(r.answer, Current)

ByItself == \A p \in alone : Lonely(run[p]) /\ \A q \in Run \ {p} : ~Live(q)

(* What a step leaves in the record of its run.                            *)
LEMMA WentOn ==
  ASSUME Inv, NEW p \in Run, NEW step \in Steps, Go(p, step)
  PROVE  /\ run'[p].pc = step /\ run'[p].gen = run[p].gen /\ run'[p].turns = run[p].turns
         /\ run'[p].todo = run[p].todo /\ run'[p].plan = run[p].plan
         /\ run'[p].answer = run[p].answer /\ run'[p].target = run[p].target
         /\ \A q \in Run \ {p} : run'[q] = run[q]
<1>1. run[p] \in RunState /\ run \in [Run -> RunState]
  BY Records
<1>2. PICK r : r = [run[p] EXCEPT !.pc = step]
  OBVIOUS
<1>3. run'[p] = r /\ \A q \in Run \ {p} : run'[q] = run[q]
  BY <1>1, <1>2 DEF Go, Set
<1> QED BY <1>1, <1>2, <1>3, Written

LEMMA WasLeft ==
  ASSUME Inv, NEW p \in Run, NEW a, NEW step, Leave(p, a, step)
  PROVE  /\ run'[p].pc = "cancel" /\ run'[p].gen = run[p].gen
         /\ run'[p].answer = a /\ run'[p].next = step
         /\ \A q \in Run \ {p} : run'[q] = run[q]
<1>1. run[p] \in RunState /\ run \in [Run -> RunState]
  BY Records
<1>2. PICK r : r = [run[p] EXCEPT !.pc = "cancel", !.answer = a, !.next = step]
  OBVIOUS
<1>3. run'[p] = r /\ \A q \in Run \ {p} : run'[q] = run[q]
  BY <1>1, <1>2 DEF Leave, Set
<1>4. r.pc = "cancel" /\ r.gen = run[p].gen /\ r.answer = a /\ r.next = step
  BY <1>1, <1>2 DEF RunState
<1> QED BY <1>3, <1>4

LEMMA WasFinished ==
  ASSUME Inv, NEW p \in Run, NEW a, Finish(p, a)
  PROVE  /\ run'[p].pc = "done" /\ run'[p].answer = a
         /\ \A q \in Run \ {p} : run'[q] = run[q]
<1>1. run \in [Run -> RunState]
  BY Records
<1>2. PICK r : r = [Unborn EXCEPT !.pc = "done", !.answer = a]
  OBVIOUS
<1>3. run'[p] = r /\ \A q \in Run \ {p} : run'[q] = run[q]
  BY <1>1, <1>2 DEF Finish, Set
<1>4. r.pc = "done" /\ r.answer = a
  BY <1>2 DEF Unborn
<1> QED BY <1>3, <1>4

LEMMA TurnedAgain ==
  ASSUME Inv, NEW p \in Run, Again(p)
  PROVE  /\ run'[p].pc = "look" /\ run'[p].gen = run[p].gen
         /\ run'[p].turns = run[p].turns + 1
         /\ \A q \in Run \ {p} : run'[q] = run[q]
<1>1. run[p] \in RunState /\ run \in [Run -> RunState]
  BY Records
<1>2. PICK r : r = [run[p] EXCEPT !.pc = "look", !.turns = @ + 1, !.target = {}]
  OBVIOUS
<1>3. run'[p] = r /\ \A q \in Run \ {p} : run'[q] = run[q]
  BY <1>1, <1>2 DEF Again, Set
<1>4. r.pc = "look" /\ r.gen = run[p].gen /\ r.turns = run[p].turns + 1
  BY <1>1, <1>2 DEF RunState
<1> QED BY <1>3, <1>4

LEMMA WasSet ==
  ASSUME Inv, NEW p \in Run, NEW r, Set(p, r)
  PROVE  run'[p] = r /\ \A q \in Run \ {p} : run'[q] = run[q]
<1>1. run \in [Run -> RunState]
  BY Records
<1> QED BY <1>1 DEF Set

LEMMA WasReserved ==
  ASSUME Inv, NEW p \in Run, Reserve(p)
  PROVE  \E g \in Gen \ reserved :
           /\ \A h \in Gen \ reserved : g <= h
           /\ reserved' = reserved \cup {g}
           /\ run'[p].pc = "open" /\ run'[p].gen = g
           /\ \A q \in Run \ {p} : run'[q] = run[q]
<1>1. PICK g \in Gen \ reserved :
        /\ \A h \in Gen \ reserved : g <= h
        /\ reserved' = reserved \cup {g}
        /\ Set(p, [run[p] EXCEPT !.pc = "open", !.gen = g])
  BY DEF Reserve
<1>2. PICK r : r = [run[p] EXCEPT !.pc = "open", !.gen = g]
  OBVIOUS
<1>3. r.pc = "open" /\ r.gen = g
  BY <1>2, Records DEF RunState
<1>4. run'[p] = r /\ \A q \in Run \ {p} : run'[q] = run[q]
  BY <1>1, <1>2, WasSet
<1> QED BY <1>1, <1>3, <1>4

\* The other steps that write more of the record than where the run stands.
LEMMA WasWritten ==
  ASSUME Inv, NEW p \in Run
  PROVE  /\ \A n : Set(p, [run[p] EXCEPT !.pc = "survey", !.now = n]) =>
              run'[p].pc = "survey"
         /\ \A w : Set(p, [run[p] EXCEPT !.pc = "survey", !.wants = w]) =>
              run'[p].pc = "survey"
         /\ Set(p, [run[p] EXCEPT !.pc = "look", !.turns = 0]) =>
              run'[p].pc = "look" /\ run'[p].gen = run[p].gen /\ run'[p].turns = 0
         /\ \A t, c : Set(p, [run[p] EXCEPT !.target = t, !.pc = c]) =>
              run'[p].pc = c /\ run'[p].gen = run[p].gen /\ run'[p].turns = run[p].turns /\ run'[p].target = t
         /\ \A w : Set(p, [run[p] EXCEPT !.pc = "commit", !.wants = w]) =>
              run'[p].pc = "commit" /\ run'[p].gen = run[p].gen
         /\ \A t : Set(p, [run[p] EXCEPT !.pc = "fence", !.todo = t]) =>
              run'[p].pc = "fence" /\ run'[p].gen = run[p].gen /\ run'[p].todo = t
         /\ \A t : Set(p, [run[p] EXCEPT !.todo = t]) =>
              run'[p].pc = run[p].pc /\ run'[p].gen = run[p].gen /\ run'[p].todo = t
         /\ \A t, a : Set(p, [run[p] EXCEPT !.pc = "write", !.plan = t, !.answer = a]) =>
              run'[p].pc = "write" /\ run'[p].gen = run[p].gen /\ run'[p].plan = t /\ run'[p].answer = a
<1>1. run[p] \in RunState /\ \A r : Set(p, r) => run'[p] = r
  BY Records, WasSet
<1>2. ASSUME NEW n, Set(p, [run[p] EXCEPT !.pc = "survey", !.now = n])
      PROVE  run'[p].pc = "survey"
  <2>1. PICK r : r = [run[p] EXCEPT !.pc = "survey", !.now = n]
    OBVIOUS
  <2>2. run'[p] = r
    BY <1>1, <1>2, <2>1
  <2> QED BY <1>1, <2>1, <2>2 DEF RunState
<1>3. ASSUME NEW w, Set(p, [run[p] EXCEPT !.pc = "survey", !.wants = w])
      PROVE  run'[p].pc = "survey"
  <2>1. PICK r : r = [run[p] EXCEPT !.pc = "survey", !.wants = w]
    OBVIOUS
  <2>2. run'[p] = r
    BY <1>1, <1>3, <2>1
  <2> QED BY <1>1, <2>1, <2>2 DEF RunState
<1>4. ASSUME Set(p, [run[p] EXCEPT !.pc = "look", !.turns = 0])
      PROVE  run'[p].pc = "look" /\ run'[p].gen = run[p].gen /\ run'[p].turns = 0
  <2>1. PICK r : r = [run[p] EXCEPT !.pc = "look", !.turns = 0]
    OBVIOUS
  <2>2. run'[p] = r
    BY <1>1, <1>4, <2>1
  <2> QED BY <1>1, <2>1, <2>2 DEF RunState
<1>5. ASSUME NEW t, NEW c, Set(p, [run[p] EXCEPT !.target = t, !.pc = c])
      PROVE  run'[p].pc = c /\ run'[p].gen = run[p].gen /\ run'[p].turns = run[p].turns /\ run'[p].target = t
  <2>1. PICK r : r = [run[p] EXCEPT !.target = t, !.pc = c]
    OBVIOUS
  <2>2. run'[p] = r
    BY <1>1, <1>5, <2>1
  <2> QED BY <1>1, <2>1, <2>2 DEF RunState
<1>6. ASSUME NEW w, Set(p, [run[p] EXCEPT !.pc = "commit", !.wants = w])
      PROVE  run'[p].pc = "commit" /\ run'[p].gen = run[p].gen
  <2>1. PICK r : r = [run[p] EXCEPT !.pc = "commit", !.wants = w]
    OBVIOUS
  <2>2. run'[p] = r
    BY <1>1, <1>6, <2>1
  <2> QED BY <1>1, <2>1, <2>2 DEF RunState
<1>7. ASSUME NEW t, Set(p, [run[p] EXCEPT !.pc = "fence", !.todo = t])
      PROVE  run'[p].pc = "fence" /\ run'[p].gen = run[p].gen /\ run'[p].todo = t
  <2>1. PICK r : r = [run[p] EXCEPT !.pc = "fence", !.todo = t]
    OBVIOUS
  <2>2. run'[p] = r
    BY <1>1, <1>7, <2>1
  <2> QED BY <1>1, <2>1, <2>2 DEF RunState
<1>8. ASSUME NEW t, Set(p, [run[p] EXCEPT !.todo = t])
      PROVE  run'[p].pc = run[p].pc /\ run'[p].gen = run[p].gen /\ run'[p].todo = t
  <2>1. PICK r : r = [run[p] EXCEPT !.todo = t]
    OBVIOUS
  <2>2. run'[p] = r
    BY <1>1, <1>8, <2>1
  <2> QED BY <1>1, <2>1, <2>2 DEF RunState
<1>9. ASSUME NEW t, NEW a, Set(p, [run[p] EXCEPT !.pc = "write", !.plan = t, !.answer = a])
      PROVE  run'[p].pc = "write" /\ run'[p].gen = run[p].gen /\ run'[p].plan = t /\ run'[p].answer = a
  <2>1. PICK r : r = [run[p] EXCEPT !.pc = "write", !.plan = t, !.answer = a]
    OBVIOUS
  <2>2. run'[p] = r
    BY <1>1, <1>9, <2>1
  <2> QED BY <1>1, <2>1, <2>2 DEF RunState
<1> QED BY <1>2, <1>3, <1>4, <1>5, <1>6, <1>7, <1>8, <1>9

\* Of the ways a run goes on, what matters to the others.
LEMMA Ways ==
  ASSUME Inv, NEW p \in Run
  PROVE  /\ \A step \in Steps : Go(p, step) => run'[p].pc = step /\ run'[p].gen = run[p].gen
         /\ \A a, step : Leave(p, a, step) => run'[p].pc = "cancel"
         /\ \A a : Finish(p, a) => run'[p].pc = "done"
         /\ Again(p) => run'[p].pc = "look" /\ run'[p].gen = run[p].gen
         /\ Abandon(p) => run'[p].pc = "done"
         /\ Outrun(p) => run'[p].pc \in {"done", "declined"}
         /\ LoseCommit(p) => run'[p].pc = "cancel"
<1>1. \A step \in Steps : Go(p, step) => run'[p].pc = step /\ run'[p].gen = run[p].gen
  BY WentOn
<1>2. \A a, step : Leave(p, a, step) => run'[p].pc = "cancel"
  BY WasLeft
<1>3. \A a : Finish(p, a) => run'[p].pc = "done"
  BY WasFinished
<1>4. Again(p) => run'[p].pc = "look" /\ run'[p].gen = run[p].gen
  BY TurnedAgain
<1>5. "declined" \in Steps
  BY DEF Steps
<1>6. Abandon(p) => run'[p].pc = "done"
  BY <1>3 DEF Abandon
<1>7. Outrun(p) => run'[p].pc \in {"done", "declined"}
  BY <1>1, <1>3, <1>5 DEF Outrun
<1>8. LoseCommit(p) => run'[p].pc = "cancel"
  BY <1>2 DEF LoseCommit
<1> QED BY <1>1, <1>2, <1>3, <1>4, <1>6, <1>7, <1>8

LEMMA OthersAreLeft ==
  ASSUME Inv, NEW p \in Run, Start(p) \/ Step(p) \/ Kill(p)
  PROVE  \A q \in Run \ {p} : run'[q] = run[q]
<1>1. \A r : Set(p, r) => \A q \in Run \ {p} : run'[q] = run[q]
  BY WasSet
<1>2. /\ \A step : Go(p, step) => \A q \in Run \ {p} : run'[q] = run[q]
      /\ \A a : Finish(p, a) => \A q \in Run \ {p} : run'[q] = run[q]
      /\ \A a, step : Leave(p, a, step) => \A q \in Run \ {p} : run'[q] = run[q]
      /\ Again(p) => \A q \in Run \ {p} : run'[q] = run[q]
  BY <1>1 DEF Go, Finish, Leave, Again
<1>3. /\ Abandon(p) => \A q \in Run \ {p} : run'[q] = run[q]
      /\ Outrun(p) => \A q \in Run \ {p} : run'[q] = run[q]
      /\ LoseCommit(p) => \A q \in Run \ {p} : run'[q] = run[q]
  BY <1>2 DEF Abandon, Outrun, LoseCommit
<1>4. CASE Start(p) \/ Kill(p)
  BY <1>1, <1>2, <1>4 DEF Start, Kill
<1>5. CASE Survey(p) \/ Reserve(p) \/ Open(p) \/ Own(p) \/ Rank(p) \/ Look(p) \/ Inspect(p)
           \/ Retire(p) \/ MoveAway(p) \/ Settle(p) \/ Promote(p) \/ Confirm(p)
  BY <1>1, <1>2, <1>3, <1>5
     DEF Survey, Reserve, Open, Own, Rank, Look, Inspect, Retire, MoveAway, Settle, Promote, Confirm
<1>6. CASE Reread(p) \/ Owned(p) \/ Fetch(p) \/ Commit(p) \/ List(p) \/ Fence(p) \/ Hold(p)
           \/ Decide(p) \/ Write(p) \/ Publish(p) \/ Cancel(p) \/ Declined(p)
  BY <1>1, <1>2, <1>3, <1>6
     DEF Reread, Owned, Fetch, Commit, List, Fence, Hold, Decide, Write, Publish, Cancel, Declined
<1> QED BY <1>4, <1>5, <1>6 DEF Step

\* Only a run that has not promoted its claim may promote it.
LEMMA StaysUnclaimed ==
  ASSUME Inv, NEW p \in Run, Start(p) \/ Step(p) \/ Kill(p), run'[p].pc \in Unclaimed
  PROVE  Reserve(p) \/ (run'[p].gen = run[p].gen /\ run[p].pc \in Unclaimed)
<1> USE DEF Unclaimed, Turning
<1>1. CASE Start(p)
  BY <1>1, Ways, WasWritten DEF Start
<1>2. CASE Kill(p)
  <2>1. PICK r : r = [Unborn EXCEPT !.pc = "dead"]
    OBVIOUS
  <2>2. run'[p] = r /\ r.pc = "dead"
    BY <1>2, <2>1, WasSet DEF Kill, Unborn
  <2> QED BY <2>2
<1>3. CASE Survey(p) \/ Reserve(p) \/ Open(p) \/ Own(p) \/ Rank(p) \/ Look(p)
  BY <1>3, Ways, WasWritten DEF Survey, Reserve, Open, Own, Rank, Look, At, Steps
<1>4. CASE Inspect(p) \/ Retire(p) \/ MoveAway(p) \/ Settle(p) \/ Promote(p) \/ Confirm(p)
  BY <1>4, Ways, WasWritten DEF Inspect, Retire, MoveAway, Settle, Promote, Confirm, At, Steps
<1>5. CASE Reread(p) \/ Owned(p) \/ Fetch(p) \/ Commit(p) \/ List(p) \/ Fence(p) \/ Hold(p)
  BY <1>5, Ways, WasWritten, ZenonT(30) DEF Reread, Owned, Fetch, Commit, List, Fence, Hold, At, Steps
<1>6. CASE Decide(p) \/ Write(p) \/ Publish(p) \/ Cancel(p)
  BY <1>6, Ways, WasWritten, ZenonT(30) DEF Decide, Write, Publish, Cancel, At, Steps
<1>7. CASE Declined(p)
  <2>1. ASSUME NEW w, NEW n, Set(p, [Unborn EXCEPT !.pc = "survey", !.wants = w, !.rounds = n])
        PROVE  run'[p].pc = "survey"
    <3>1. PICK r : r = [Unborn EXCEPT !.pc = "survey", !.wants = w, !.rounds = n]
      OBVIOUS
    <3>2. run'[p] = r /\ r.pc = "survey"
      BY <2>1, <3>1, WasSet DEF Unborn
    <3> QED BY <3>2
  <2> QED BY <1>7, <2>1, Ways DEF Declined
<1> QED BY <1>1, <1>2, <1>3, <1>4, <1>5, <1>6, <1>7 DEF Step

\* Which steps write what of the directory.
LEMMA Writers ==
  ASSUME [Next]_vars
  PROVE  /\ reserved' = reserved \/ \E p \in Run : Reserve(p)
         /\ \/ <<claim, retired>>' = <<claim, retired>>
            \/ \E p \in Run : MoveAway(p) \/ Promote(p)
         /\ lapsed' \subseteq lapsed \/ Lapse
         /\ \/ alone' \subseteq alone
            \/ \E p \in Run : Start(p) /\ alone' = {p} /\ Quiet(p)
<1>1. ASSUME NEW p \in Run, Start(p) \/ Kill(p) \/ Step(p)
      PROVE  /\ reserved' = reserved \/ Reserve(p)
             /\ <<claim, retired>>' = <<claim, retired>> \/ MoveAway(p) \/ Promote(p)
             /\ lapsed' \subseteq lapsed
             /\ alone' \subseteq alone \/ (Start(p) /\ alone' = {p} /\ Quiet(p))
  <2>1. CASE Start(p)
    BY <2>1 DEF Start, dirs
  <2>2. CASE Kill(p)
    BY <2>2 DEF Kill, dirs
  <2>3. CASE Step(p)
    BY <2>3 DEF Step, Survey, Reserve, Open, Own, Rank, Look, Inspect, Retire, MoveAway, Settle,
                Promote, Confirm, Reread, Owned, Fetch, Commit, List, Fence, Hold, Decide, Write,
                Publish, Cancel, Declined, dirs
  <2> QED BY <1>1, <2>1, <2>2, <2>3
<1>2. CASE Lapse
  BY <1>2 DEF Lapse
<1>3. CASE Tick
  BY <1>3 DEF Tick, dirs
<1>4. CASE UNCHANGED vars
  BY <1>4 DEF vars, dirs
<1> QED BY <1>1, <1>2, <1>3, <1>4 DEF Next

LEMMA OpenStaysOpen ==
  ASSUME Inv, [Next]_vars, NEW g \in Gen, op[g] # "none"
  PROVE  op'[g] # "none"
<1>1. op \in [Gen -> Kinds]
  BY DEF Inv, TypeOK
<1>2. ASSUME NEW p \in Run, Open(p) \/ Fence(p) \/ Publish(p) \/ Cancel(p) PROVE op'[g] # "none"
  BY <1>1, <1>2 DEF Open, Fence, Publish, Cancel
<1>3. op' = op \/ \E p \in Run : Open(p) \/ Fence(p) \/ Publish(p) \/ Cancel(p)
  <2>1. ASSUME NEW p \in Run, Start(p) \/ Kill(p) \/ Step(p)
        PROVE  op' = op \/ Open(p) \/ Fence(p) \/ Publish(p) \/ Cancel(p)
    BY <2>1 DEF Start, Kill, Step, Survey, Reserve, Own, Rank, Look, Inspect, Retire, MoveAway,
                Settle, Promote, Confirm, Reread, Owned, Fetch, Commit, List, Hold, Decide, Write,
                Declined, dirs
  <2>2. CASE Lapse \/ Tick \/ UNCHANGED vars
    BY <2>2 DEF Lapse, Tick, vars, dirs
  <2> QED BY <2>1, <2>2 DEF Next
<1> QED BY <1>2, <1>3

LEMMA FatesKeep == Inv /\ Fates /\ [Next]_vars => Fates'
<1> SUFFICES ASSUME Inv, Fates, [Next]_vars PROVE Fates'
  OBVIOUS
<1>0. /\ reserved \subseteq Gen /\ lapsed \subseteq Gen
      /\ Given /\ Begun /\ Once /\ OneAlone
  BY DEF Inv, TypeOK, Fates
<1>1. Given'
  <2>1. CASE reserved' = reserved
    BY <1>0, <2>1 DEF Given
  <2>2. ASSUME NEW p \in Run, Reserve(p) PROVE Given'
    <3>1. PICK n \in Gen \ reserved : /\ \A h \in Gen \ reserved : n <= h
                                     /\ reserved' = reserved \cup {n}
      BY <2>2 DEF Reserve
    <3>2. \A h \in Gen : h < n => ~(n <= h)
      BY Sizes DEF Gen
    <3> QED BY <1>0, <3>1, <3>2 DEF Given
  <2> QED BY <2>1, <2>2, Writers
<1>2. Begun'
  <2>1. \A g \in lapsed : op'[g] # "none"
    BY <1>0, OpenStaysOpen DEF Begun
  <2>2. Lapse => \A g \in lapsed' : op'[g] # "none"
    <3>1. ASSUME Lapse PROVE \E g \in Gen : op[g] = "pending" /\ lapsed' = lapsed \cup {g} /\ op' = op
      BY <3>1 DEF Lapse
    <3> QED BY <2>1, <3>1
  <2> QED BY <2>1, <2>2, Writers DEF Begun
<1>3. Once'
  <2>1. ASSUME NEW p \in Run, MoveAway(p)
        PROVE  \/ claim' = claim /\ retired' = retired
               \/ claim' = {} /\ retired' = retired \cup claim
    <3>1. Aim(run[p]) /\ run[p].pc = "moveaway"
      BY <2>1, Records DEF Local, MoveAway, At
    <3>2. PICK t \in Gen : run[p].target = {t} /\ (claim = {t} \/ t \in retired)
      BY <3>1 DEF Aim
    <3> QED BY <2>1, <3>2 DEF MoveAway
  <2>2. ASSUME NEW p \in Run, Promote(p)
        PROVE  /\ claim' = claim \/ claim' = {run[p].gen}
               /\ claim' = claim \/ run'[p].pc = "confirm"
               /\ retired' = retired /\ run[p].pc = "promote"
    BY <2>2, Ways DEF Promote, At, Steps
  <2>3. claim \subseteq reserved
    BY DEF Inv, Shape, Past
  <2>4. reserved \subseteq reserved'
    BY Writers DEF Reserve
  <2>5. retired' \subseteq reserved'
    BY <1>0, <2>1, <2>2, <2>3, <2>4, Writers DEF Once
  <2>6. claim' \cap retired' = {}
    <3>1. ASSUME NEW p \in Run, Promote(p) PROVE claim' \cap retired' = {}
      <4>1. run[p].gen \notin retired
        BY <1>0, <2>2, <3>1 DEF Once, Unclaimed, Turning
      <4> QED BY <1>0, <2>2, <3>1, <4>1 DEF Once
    <3> QED BY <1>0, <2>1, <3>1, Writers DEF Once
  <2>7. ASSUME NEW q \in Run, run'[q].pc \in Unclaimed
        PROVE  run'[q].gen \notin claim' \cup retired'
    <3>1. CASE /\ run'[q].gen = run[q].gen /\ run[q].pc \in Unclaimed
      <4>1. run[q].gen \notin claim \cup retired
        BY <1>0, <3>1 DEF Once
      <4>2. ASSUME NEW p \in Run, Promote(p), claim' = {run[p].gen}, claim' # claim
            PROVE  run[p].gen # run[q].gen
        <5>1. p # q
          BY <2>2, <2>7, <4>2 DEF Unclaimed, Turning
        <5>2. /\ run[q].pc \in Opened \cup {"open"}
          BY <3>1 DEF Unclaimed, Opened, Ripe
        <5> QED BY <5>1, <5>2, Alone
      <4>3. ASSUME NEW p \in Run, Promote(p) PROVE run[q].gen \notin claim' \cup retired'
        BY <2>2, <4>1, <4>2, <4>3
      <4> QED BY <2>1, <3>1, <4>1, <4>3, Writers
    <3>2. ASSUME NEW p \in Run, Reserve(p), p = q PROVE run'[q].gen \notin claim' \cup retired'
      <4>1. run'[q].gen \notin reserved
        BY <3>2, WasReserved
      <4>2. claim' = claim /\ retired' = retired
        BY <3>2 DEF Reserve
      <4> QED BY <1>0, <2>3, <4>1, <4>2 DEF Once
    <3>3. ASSUME NEW p \in Run, Start(p) \/ Step(p) \/ Kill(p)
          PROVE  \/ run'[q].gen = run[q].gen /\ run[q].pc \in Unclaimed
                 \/ Reserve(p) /\ p = q
      BY <2>7, <3>3, OthersAreLeft, StaysUnclaimed
    <3>4. CASE Lapse \/ Tick \/ UNCHANGED vars
      <4>1. run' = run
        BY <3>4 DEF Lapse, Tick, vars
      <4> QED BY <2>7, <3>1, <4>1
    <3> QED BY <3>1, <3>2, <3>3, <3>4 DEF Next
  <2> QED BY <2>5, <2>6, <2>7 DEF Once
<1>4. OneAlone'
  BY <1>0, Writers DEF OneAlone
<1> QED BY <1>1, <1>2, <1>3, <1>4 DEF Fates

\* What a run that is alone finds whenever it has its directory open.
LEMMA LoneFacts ==
  ASSUME Inv, NEW p \in Run, Lonely(run[p]), run[p].pc \in Opened
  PROVE  /\ run[p].gen \in Gen /\ Pending(p) /\ Active(run[p].gen) /\ ~Superseded(p)
         /\ run[p].pc \in Owning \cup {"confirm"} => Owns(p)
<1>1. /\ run[p].gen \in Gen /\ reserved \subseteq Gen /\ Grip(run[p])
  BY Alone, Records DEF Inv, TypeOK, Local
<1>2. Pending(p) /\ Active(run[p].gen)
  BY DEF Lonely, Pending, Active
<1>3. \A h \in reserved : h <= run[p].gen
  BY DEF Lonely, Opened, Ripe
<1>4. ~Superseded(p)
  <2>1. \A x, y \in Gen : x <= y => ~(x > y)
    BY Sizes DEF Gen
  <2> QED BY <1>1, <1>3, <2>1 DEF Superseded
<1>5. run[p].pc \in Owning \cup {"confirm"} => claim = {run[p].gen}
  BY <1>1, <1>2 DEF Lonely, Grip
<1> QED BY <1>1, <1>2, <1>4, <1>5 DEF Owns

LEMMA LoneSurvey ==
  ASSUME Inv, NEW p \in Run, Lonely(run[p]), Survey(p)
  PROVE  Lonely(run[p])'
<1>1. run[p].pc = "survey" /\ \A g \in Gen : ~Active(g)
  BY DEF Survey, At, Lonely
<1>2. run'[p].pc = "reserve"
  BY <1>1, Ways DEF Survey, Steps
<1>3. \A g \in Gen : ~Active(g)'
  BY <1>1 DEF Survey, Active, dirs
<1> QED BY <1>2, <1>3 DEF Lonely, Opened, Ripe, Turning, Owning, Fenced

LEMMA LoneReserve ==
  ASSUME Inv, Fates, NEW p \in Run, Lonely(run[p]), Reserve(p)
  PROVE  Lonely(run[p])'
<1>1. PICK n \in Gen \ reserved :
        /\ \A h \in Gen \ reserved : n <= h
        /\ reserved' = reserved \cup {n} /\ run'[p].pc = "open" /\ run'[p].gen = n
  BY WasReserved
<1>2. op[n] = "none" /\ reserved \subseteq Gen /\ Given /\ Begun
  BY DEF Inv, Shape, TypeOK, Fates
<1>3. n \notin lapsed
  BY <1>2 DEF Begun
<1>4. \A h \in reserved : ~(n < h)
  BY <1>1, <1>2 DEF Given
<1>5. \A h \in reserved' : h <= n
  BY <1>1, <1>2, <1>4, Sizes DEF Gen
<1>6. \A g \in Gen : ~Active(g)'
  BY DEF Reserve, At, Lonely, Active
<1>7. lapsed' = lapsed
  BY DEF Reserve
<1> QED BY <1>1, <1>3, <1>5, <1>6, <1>7 DEF Lonely, Opened, Ripe, Turning, Owning, Fenced

LEMMA LoneOpen ==
  ASSUME Inv, Fates, NEW p \in Run, Lonely(run[p]), Open(p)
  PROVE  Lonely(run[p])'
<1>1. /\ run[p].pc = "open" /\ run'[p].pc = "own" /\ run'[p].gen = run[p].gen
      /\ run[p].gen \in Gen /\ op \in [Gen -> Kinds]
  BY Ways, Alone DEF Open, At, Steps, Inv, TypeOK
<1>2. op'[run[p].gen] = "pending" /\ \A g \in Gen \ {run[p].gen} : op'[g] = op[g]
  BY <1>1 DEF Open
<1>3. /\ run[p].gen \notin lapsed' /\ (\A h \in reserved' : h <= run[p].gen)
      /\ \A g \in Gen : Active(g)' => g = run[p].gen
  BY <1>1, <1>2 DEF Open, Lonely, Active
<1> QED BY <1>1, <1>2, <1>3 DEF Lonely, Ripe, Turning, Owning, Fenced

LEMMA LoneOwn ==
  ASSUME Inv, NEW p \in Run, Lonely(run[p]), Own(p)
  PROVE  Lonely(run[p])'
<1>1. run[p].pc = "own" /\ run[p].gen \in Gen /\ Pending(p)
  BY LoneFacts DEF Own, At, Opened
<1>2. /\ run'[p].pc = "rank" /\ run'[p].gen = run[p].gen
      /\ lapsed' = lapsed \ {run[p].gen} /\ UNCHANGED <<reserved, op>>
  BY <1>1, Ways DEF Own, Steps
<1>3. /\ run[p].gen \notin lapsed' /\ (\A h \in reserved' : h <= run[p].gen)
      /\ op'[run[p].gen] = "pending"
      /\ \A g \in Gen : Active(g)' => g = run[p].gen
  BY <1>1, <1>2 DEF Lonely, Active, Pending, Opened
<1> QED BY <1>1, <1>2, <1>3 DEF Lonely, Ripe, Turning, Owning, Fenced

\* The facts about generations last while the run only reads the directory.
Reads(p) ==
  /\ run'[p].gen = run[p].gen
  /\ UNCHANGED <<reserved, op, lapsed>>

LEMMA LoneReads ==
  ASSUME Inv, NEW p \in Run, Lonely(run[p]), run[p].pc \in Opened, Reads(p)
  PROVE  /\ run'[p].gen \notin lapsed' /\ op'[run'[p].gen] = "pending"
         /\ \A h \in reserved' : h <= run'[p].gen
         /\ \A g \in Gen : Active(g)' => g = run'[p].gen
BY DEF Lonely, Reads, Active

LEMMA LoneTurns ==
  ASSUME Inv, Fates, NEW p \in Run, Lonely(run[p]),
         Rank(p) \/ Look(p) \/ Inspect(p) \/ Retire(p) \/ MoveAway(p) \/ Settle(p) \/ Promote(p)
           \/ Confirm(p)
  PROVE  Lonely(run[p])'
<1> USE DEF Opened, Ripe, Turning, Owning, Fenced
<1>1. run[p].pc \in Opened
  BY DEF Rank, Look, Inspect, Retire, MoveAway, Settle, Promote, Confirm, At
<1>2. /\ run[p].gen \in Gen /\ Active(run[p].gen) /\ ~Superseded(p)
      /\ run[p].pc = "confirm" => Owns(p)
  BY <1>1, LoneFacts
<1>3. UNCHANGED <<reserved, op, lapsed>>
  BY DEF Rank, Look, Inspect, Retire, MoveAway, Settle, Promote, Confirm, dirs
<1>4. CASE Rank(p)
  <2>1. run'[p].pc = "look" /\ run'[p].gen = run[p].gen /\ run'[p].turns = 0
    BY <1>2, <1>4, WasWritten DEF Rank
  <2> QED BY <1>1, <1>3, <2>1, LoneReads DEF Lonely, Reads
<1>5. CASE Look(p)
  <2>1. run[p].turns \in {0, 1} /\ run[p].turns # MaxTurns
    BY <1>5, CacheAssumption DEF Look, At, Lonely
  <2>2. Go(p, "inspect") /\ UNCHANGED claim
    BY <1>2, <1>5, <2>1 DEF Look, dirs
  <2>3. /\ run'[p].pc = "inspect" /\ run'[p].gen = run[p].gen
        /\ run'[p].turns = run[p].turns
    BY <2>2, WentOn DEF Steps
  <2>4. run[p].turns = 0 \/ (run[p].turns = 1 /\ claim = {})
    BY <1>5 DEF Look, At, Lonely
  <2> QED BY <1>1, <1>3, <2>2, <2>3, <2>4, LoneReads DEF Lonely, Reads
<1>6. CASE Inspect(p)
  <2>1. run[p].pc = "inspect" /\ (run[p].turns = 0 \/ (run[p].turns = 1 /\ claim = {}))
    BY <1>6 DEF Inspect, At, Lonely
  <2>2. run[p].gen \notin claim /\ claim \subseteq reserved /\ reserved \subseteq Gen
    BY <2>1 DEF Fates, Once, Unclaimed, Inv, Shape, Past, TypeOK
  <2>3. ~(\E g \in claim : Active(g) \/ g > run[p].gen)
    BY <1>1, <1>2, <2>2 DEF Lonely, Superseded
  <2>4. /\ Set(p, [run[p] EXCEPT !.target = claim,
                                !.pc = IF claim = {} THEN "promote" ELSE "retire"])
        /\ UNCHANGED claim
    BY <1>6, <2>3 DEF Inspect, dirs
  <2>5. /\ run'[p].pc = (IF claim = {} THEN "promote" ELSE "retire")
        /\ run'[p].gen = run[p].gen /\ run'[p].turns = run[p].turns /\ run'[p].target = claim
    <3>1. PICK c : c = IF claim = {} THEN "promote" ELSE "retire"
      OBVIOUS
    <3>2. PICK r : r = [run[p] EXCEPT !.target = claim, !.pc = c]
      OBVIOUS
    <3>3. run'[p] = r
      BY <2>4, <3>1, <3>2, WasSet
    <3> QED BY <3>1, <3>2, <3>3, Records DEF RunState
  <2> QED BY <1>1, <1>3, <2>1, <2>4, <2>5, LoneReads DEF Lonely, Reads
<1>7. CASE Retire(p)
  <2>1. run[p].pc = "retire" /\ claim = run[p].target /\ claim # {} /\ run[p].turns = 0
    BY <1>7 DEF Retire, At, Lonely
  <2>2. Go(p, "moveaway") /\ UNCHANGED claim
    BY <1>7, <2>1 DEF Retire, dirs
  <2>3. /\ run'[p].pc = "moveaway" /\ run'[p].gen = run[p].gen
        /\ run'[p].turns = run[p].turns /\ run'[p].target = run[p].target
    BY <2>2, WentOn DEF Steps
  <2> QED BY <1>1, <1>3, <2>1, <2>2, <2>3, LoneReads DEF Lonely, Reads
<1>8. CASE MoveAway(p)
  <2>1. run[p].pc = "moveaway" /\ claim = run[p].target /\ claim # {} /\ run[p].turns = 0
    BY <1>8 DEF MoveAway, At, Lonely
  <2>2. claim \cap retired = {}
    BY DEF Fates, Once
  <2>3. Go(p, "settle") /\ claim' = {}
    BY <1>8, <2>1, <2>2 DEF MoveAway
  <2>4. /\ run'[p].pc = "settle" /\ run'[p].gen = run[p].gen
        /\ run'[p].turns = run[p].turns
    BY <2>3, WentOn DEF Steps
  <2> QED BY <1>1, <1>3, <2>1, <2>3, <2>4, LoneReads DEF Lonely, Reads
<1>9. CASE Settle(p)
  <2>1. run[p].pc = "settle" /\ claim = {} /\ run[p].turns = 0
    BY <1>9 DEF Settle, At, Lonely
  <2>2. Again(p) /\ claim' = {}
    BY <1>9, <2>1 DEF Settle, dirs
  <2>3. /\ run'[p].pc = "look" /\ run'[p].gen = run[p].gen /\ run'[p].turns = 1
    BY <2>1, <2>2, TurnedAgain
  <2> QED BY <1>1, <1>3, <2>2, <2>3, LoneReads DEF Lonely, Reads
<1>10. CASE Promote(p)
  <2>1. Go(p, "confirm") /\ claim' = {run[p].gen}
    BY <1>10 DEF Promote, At, Lonely
  <2>2. /\ run'[p].pc = "confirm" /\ run'[p].gen = run[p].gen
    BY <2>1, Ways DEF Steps
  <2> QED BY <1>1, <1>3, <2>1, <2>2, LoneReads DEF Lonely, Reads
<1>11. CASE Confirm(p)
  <2>1. run[p].pc = "confirm" /\ Owns(p)
    BY <1>2, <1>11 DEF Confirm, At
  <2>2. Go(p, IF p \in Checkers THEN "reread" ELSE "commit")
    BY <1>11, <2>1 DEF Confirm, Owns
  <2>3. /\ run'[p].pc \in {"reread", "commit"} /\ run'[p].gen = run[p].gen
    BY <2>2, Ways DEF Steps
  <2> QED BY <1>1, <1>3, <2>3, LoneReads DEF Lonely, Reads
<1> QED BY <1>4, <1>5, <1>6, <1>7, <1>8, <1>9, <1>10, <1>11

LEMMA LoneDone ==
  ASSUME Inv, NEW p \in Run, NEW a, Finish(p, a), Polite(a, Current')
  PROVE  Lonely(run[p])'
<1>1. run'[p].pc = "done" /\ run'[p].answer = a
  BY WasFinished
<1>2. Polite(a, Current)'
  BY DEF Polite
<1>3. Polite(run[p].answer, Current)'
  BY <1>1, <1>2
<1> QED BY <1>1, <1>3 DEF Lonely, Opened, Ripe, Turning, Owning, Fenced

LEMMA LoneLeave ==
  ASSUME Inv, NEW p \in Run, Lonely(run[p]), run[p].pc \in Opened,
         NEW a, Leave(p, a, "done"), Polite(a, Current), UNCHANGED dirs
  PROVE  Lonely(run[p])'
<1>1. /\ run'[p].pc = "cancel" /\ run'[p].gen = run[p].gen
      /\ run'[p].answer = a /\ run'[p].next = "done"
  BY WasLeft
<1>2. Current' = Current
  BY CurrentSame DEF dirs
<1>3. Polite(run[p].answer, Current)'
  BY <1>1, <1>2 DEF Polite
<1> QED BY <1>1, <1>3, LoneReads DEF Lonely, Reads, dirs, Opened, Ripe, Turning, Owning, Fenced

LEMMA LoneOwns ==
  ASSUME Inv, NEW p \in Run, Lonely(run[p]),
         Reread(p) \/ Owned(p) \/ Fetch(p) \/ Commit(p) \/ List(p) \/ Hold(p) \/ Decide(p)
  PROVE  Lonely(run[p])'
<1>1. run[p].pc \in Opened /\ run[p].pc \in Owning /\ UNCHANGED dirs
  BY DEF Reread, Owned, Fetch, Commit, List, Hold, Decide, At, Opened, Ripe, Owning, Fenced
<1>2. Owns(p)
  BY <1>1, LoneFacts
<1>3. UNCHANGED <<reserved, op, lapsed>>
  BY <1>1 DEF dirs
<1>4. ASSUME /\ run'[p].gen = run[p].gen
             /\ run'[p].pc \in {"owned", "fetch", "commit", "list", "hold", "decide"}
      PROVE  Lonely(run[p])'
  BY <1>1, <1>3, <1>4, LoneReads DEF Lonely, Reads, Opened, Ripe, Turning, Owning, Fenced
<1>5. CASE Reread(p)
  <2>1. CASE Leave(p, ResultFor(Current), "done")
    BY <1>1, <2>1, LoneLeave, ResultIsPolite
  <2>2. CASE Go(p, "owned")
    BY <1>4, <2>2, Ways DEF Steps
  <2> QED BY <1>5, <2>1, <2>2 DEF Reread
<1>6. CASE Owned(p)
  BY <1>2, <1>4, <1>6, Ways DEF Owned, Steps
<1>7. CASE Fetch(p)
  BY <1>4, <1>7, WasWritten DEF Fetch
<1>8. CASE Commit(p)
  BY <1>2, <1>4, <1>8, Ways DEF Commit, Steps
<1>9. CASE Hold(p)
  BY <1>2, <1>4, <1>9, Ways DEF Hold, Steps
<1>10. CASE List(p)
  <2>1. /\ run'[p].pc = "fence" /\ run'[p].gen = run[p].gen
        /\ run'[p].todo = {g \in Gen : op[g] = "pending" /\ g < run[p].gen}
    BY <1>10, WasWritten DEF List
  <2> QED BY <1>1, <1>3, <2>1, LoneReads DEF Lonely, Reads, Opened, Ripe, Turning, Owning, Fenced
<1>11. CASE Decide(p)
  <2>1. ASSUME NEW d \in Decisions(p), d.state = {}, Leave(p, d.answer, "done")
        PROVE  Lonely(run[p])'
    BY <1>1, <2>1, DecisionsArePolite, LoneLeave
  <2>2. ASSUME NEW d \in Decisions(p), NEW t \in d.state,
               Set(p, [run[p] EXCEPT !.pc = "write", !.plan = t, !.answer = d.answer])
        PROVE  Lonely(run[p])'
    <3>1. /\ run'[p].pc = "write" /\ run'[p].gen = run[p].gen
          /\ run'[p].plan = t /\ run'[p].answer = d.answer
      <4>1. PICK r : r = [run[p] EXCEPT !.pc = "write", !.plan = t, !.answer = d.answer]
        OBVIOUS
      <4>2. run'[p] = r
        BY <2>2, <4>1, WasSet
      <4> QED BY <4>1, <4>2, Records DEF RunState
    <3>2. Polite(d.answer, t)
      BY DecisionsArePolite
    <3>3. Polite(run[p].answer, run[p].plan)'
      BY <3>1, <3>2 DEF Polite
    <3> QED BY <1>1, <1>3, <3>1, <3>3, LoneReads
            DEF Lonely, Reads, Opened, Ripe, Turning, Owning, Fenced
  <2> QED BY <1>11, <2>1, <2>2 DEF Decide
<1> QED BY <1>5, <1>6, <1>7, <1>8, <1>9, <1>10, <1>11

LEMMA LoneFence ==
  ASSUME Inv, NEW p \in Run, Lonely(run[p]), Fence(p)
  PROVE  Lonely(run[p])'
<1>1. /\ run[p].pc = "fence" /\ run[p].pc \in Opened /\ UNCHANGED <<reserved, lapsed>>
      /\ op \in [Gen -> Kinds]
  BY DEF Fence, At, Opened, Ripe, Owning, Inv, TypeOK
<1>2. /\ run[p].gen \in Gen /\ run[p].gen \notin lapsed /\ op[run[p].gen] = "pending"
      /\ \A h \in reserved : h <= run[p].gen
      /\ \A g \in Gen : Active(g) => g = run[p].gen
  BY <1>1, LoneFacts DEF Lonely
<1>3. CASE Go(p, "hold") /\ UNCHANGED op
  <2>1. run'[p].pc = "hold" /\ run'[p].gen = run[p].gen
    BY <1>3, Ways DEF Steps
  <2> QED BY <1>1, <1>3, <2>1, LoneReads DEF Lonely, Reads, Opened, Ripe, Turning, Owning, Fenced
<1>4. ASSUME NEW g \in run[p].todo,
             op' = [op EXCEPT ![g] = IF @ = "pending" THEN "fenced" ELSE @],
             Set(p, [run[p] EXCEPT !.todo = @ \ {g}])
      PROVE  Lonely(run[p])'
  <2>1. /\ run'[p].pc = "fence" /\ run'[p].gen = run[p].gen
        /\ run'[p].todo = run[p].todo \ {g}
    BY <1>1, <1>4, WasWritten
  <2>2. \A h \in run[p].todo : h < run[p].gen
    BY <1>1 DEF Lonely
  <2>3. g # run[p].gen
    BY <1>2, <2>2, Sizes DEF Gen
  <2>4. /\ op'[run[p].gen] = "pending"
        /\ \A h \in Gen : op'[h] = "pending" => op[h] = "pending"
    BY <1>1, <1>2, <1>4, <2>3
  <2>5. \A h \in Gen : Active(h)' => h = run[p].gen
    BY <1>1, <1>2, <2>4 DEF Active
  <2> QED BY <1>1, <1>2, <2>1, <2>2, <2>4, <2>5
          DEF Lonely, Opened, Ripe, Turning, Owning, Fenced
<1> QED BY <1>3, <1>4 DEF Fence

LEMMA LoneWrites ==
  ASSUME Inv, NEW p \in Run, Lonely(run[p]), Write(p) \/ Publish(p)
  PROVE  Lonely(run[p])'
<1>1. /\ run[p].pc \in {"write", "publish"} /\ run[p].pc \in Opened
      /\ Polite(run[p].answer, run[p].plan)
  BY DEF Write, Publish, At, Opened, Ripe, Owning, Fenced, Lonely
<1>2. Pending(p)
  BY <1>1, LoneFacts
<1>3. CASE Write(p)
  <2>1. Go(p, "publish") /\ UNCHANGED <<reserved, op, lapsed>>
    BY <1>2, <1>3 DEF Write
  <2>2. /\ run'[p].pc = "publish" /\ run'[p].gen = run[p].gen
        /\ run'[p].plan = run[p].plan /\ run'[p].answer = run[p].answer
    BY <2>1, WentOn DEF Steps
  <2>3. Polite(run[p].answer, run[p].plan)'
    BY <1>1, <2>2 DEF Polite
  <2> QED BY <1>1, <2>1, <2>2, <2>3, LoneReads
          DEF Lonely, Reads, Opened, Ripe, Turning, Owning, Fenced
<1>4. CASE Publish(p)
  <2>1. Finish(p, run[p].answer)
    BY <1>2, <1>4 DEF Publish
  <2>2. Current' = run[p].plan
    BY <1>2, <1>4, Published
  <2> QED BY <1>1, <2>1, <2>2, LoneDone
<1> QED BY <1>3, <1>4

LEMMA LoneCancel ==
  ASSUME Inv, NEW p \in Run, Lonely(run[p]), Cancel(p)
  PROVE  Lonely(run[p])'
<1>1. /\ run[p].pc = "cancel" /\ run[p].gen \in Gen /\ run[p].next = "done"
      /\ Polite(run[p].answer, Current)
  BY LoneFacts DEF Cancel, At, Lonely, Opened
<1>2. Finish(p, run[p].answer)
  BY <1>1 DEF Cancel
<1>3. Current' = Current
  <2>1. op' = [op EXCEPT ![run[p].gen] = IF @ = "pending" THEN "cancelled" ELSE @]
        /\ UNCHANGED file
    BY DEF Cancel
  <2> QED BY <1>1, <2>1, Renamed
<1> QED BY <1>1, <1>2, <1>3, LoneDone

LEMMA LoneStep ==
  ASSUME Inv, Fates, NEW p \in Run, Lonely(run[p]), Step(p)
  PROVE  Lonely(run[p])'
<1>1. ~Declined(p)
  BY DEF Declined, At, Lonely
<1> QED BY <1>1, LoneSurvey, LoneReserve, LoneOpen, LoneOwn, LoneTurns, LoneOwns, LoneFence,
           LoneWrites, LoneCancel DEF Step

LEMMA ByItselfStays == Inv /\ Fates /\ ByItself /\ [Next]_vars => ByItself'
<1> SUFFICES ASSUME Inv, Fates, ByItself, [Next]_vars, NEW p \in alone'
             PROVE  Lonely(run[p])' /\ \A q \in Run \ {p} : ~Live(q)'
  BY DEF ByItself
<1>1. ASSUME NEW x \in Run, Start(x), alone' = {x}, Quiet(x)
      PROVE  Lonely(run[p])' /\ \A q \in Run \ {p} : ~Live(q)'
  <2>1. p = x /\ UNCHANGED dirs /\ (\A q \in Run \ {p} : ~Live(q)) /\ \A g \in Gen : ~Active(g)
    BY <1>1 DEF Start, Quiet
  <2>2. \A q \in Run \ {p} : ~Live(q)'
    BY <1>1, <2>1, OthersAreLeft DEF Live
  <2>3. CASE Finish(p, ResultFor(Current))
    BY <1>1, <2>1, <2>2, <2>3, LoneDone, ResultIsPolite
  <2>4. CASE run'[p].pc = "survey"
    <3>1. \A g \in Gen : ~Active(g)'
      BY <2>1 DEF Active, dirs
    <3>2. Lonely(run[p])'
      BY <2>4, <3>1 DEF Lonely, Opened, Ripe, Turning, Owning, Fenced
    <3> QED BY <2>2, <3>2
  <2>5. Finish(p, ResultFor(Current)) \/ run'[p].pc = "survey"
    BY <1>1, <2>1, WasWritten DEF Start
  <2> QED BY <2>3, <2>4, <2>5
<1>2. CASE p \in alone
  <2>1. /\ p \in Run /\ Lonely(run[p]) /\ (\A q \in Run \ {p} : ~Live(q))
        /\ alone \subseteq Run /\ OneAlone
    BY <1>2 DEF ByItself, Inv, TypeOK, Fates
  <2>2. ASSUME run' = run, UNCHANGED <<reserved, op, file, claim, retired>>,
               lapsed \subseteq lapsed', run[p].gen \notin lapsed' \ lapsed
        PROVE  Lonely(run[p])' /\ \A q \in Run \ {p} : ~Live(q)'
    <3>1. Current' = Current
      BY <2>2, CurrentSame
    <3>2. \A g \in Gen : Active(g)' => Active(g)
      BY <2>2 DEF Active
    <3>3. Polite(run[p].answer, Current) => Polite(run[p].answer, Current)'
      BY <2>2, <3>1 DEF Polite
    <3>4. Polite(run[p].answer, run[p].plan) => Polite(run[p].answer, run[p].plan)'
      BY <2>2 DEF Polite
    <3>5. Lonely(run[p])'
      BY <2>1, <2>2, <3>2, <3>3, <3>4 DEF Lonely, Opened, Ripe, Turning, Owning, Fenced
    <3> QED BY <2>1, <2>2, <3>5 DEF Live
  <2>3. CASE Lapse
    <3>1. PICK g \in Gen \ lapsed : /\ lapsed' = lapsed \cup {g}
                                   /\ alone' = {q \in alone : run[q].gen # g}
      BY <2>3 DEF Lapse
    <3>2. run[p].gen # g
      BY <3>1
    <3> QED BY <2>2, <2>3, <3>1, <3>2 DEF Lapse
  <2>4. CASE Tick \/ UNCHANGED vars
    BY <2>2, <2>4 DEF Tick, vars, dirs
  <2>5. ASSUME NEW x \in Run, Kill(x) PROVE Lonely(run[p])' /\ \A q \in Run \ {p} : ~Live(q)'
    <3>1. x = p
      BY <2>1, <2>5 DEF Kill
    <3>2. run'[p].pc = "dead" /\ \A q \in Run \ {p} : run'[q] = run[q]
      <4>1. PICK r : r = [Unborn EXCEPT !.pc = "dead"]
        OBVIOUS
      <4>2. r.pc = "dead"
        BY <4>1 DEF Unborn
      <4> QED BY <2>5, <3>1, <4>1, <4>2, WasSet DEF Kill
    <3>3. Lonely(run[p])'
      BY <3>2 DEF Lonely, Opened, Ripe, Turning, Owning, Fenced
    <3> QED BY <2>1, <3>2, <3>3 DEF Live
  <2>6. ASSUME NEW x \in Run, Step(x) PROVE Lonely(run[p])' /\ \A q \in Run \ {p} : ~Live(q)'
    <3>1. Live(x)
      BY <2>6 DEF Step, Survey, Reserve, Open, Own, Rank, Look, Inspect, Retire, MoveAway, Settle,
                  Promote, Confirm, Reread, Owned, Fetch, Commit, List, Fence, Hold, Decide, Write,
                  Publish, Cancel, Declined, At, Live
    <3>2. x = p
      BY <2>1, <3>1
    <3>3. \A q \in Run \ {p} : ~Live(q)'
      BY <2>1, <2>6, <3>2, OthersAreLeft DEF Live
    <3> QED BY <2>1, <2>6, <3>2, <3>3, LoneStep
  <2>7. ASSUME NEW x \in Run, Start(x) PROVE alone' = {x} /\ Quiet(x)
    BY <2>7 DEF Start
  <2> QED BY <1>1, <2>3, <2>4, <2>5, <2>6, <2>7 DEF Next
<1> QED BY <1>1, <1>2, Writers

(* check-update.mjs:1467, 1521: whatever runs that were killed or stalled  *)
(* left behind, a run that has the directory to itself is not turned away. *)
THEOREM LoneRunIsServed == Spec => []LoneRunGetsThrough
<1>1. Init => Fates /\ ByItself
  BY DEF Init, Fates, Given, Begun, Once, OneAlone, ByItself, Unborn, Unclaimed, Turning
<1>2. Inv /\ (Fates /\ ByItself) /\ [Next]_vars => (Fates /\ ByItself)'
  BY FatesKeep, ByItselfStays
<1>3. ByItself => LoneRunGetsThrough
  BY DEF ByItself, Lonely, Polite, LoneRunGetsThrough, At
<1> QED BY <1>1, <1>2, <1>3, CacheStays, PTL DEF Spec
=============================================================================
