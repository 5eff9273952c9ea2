----------------------- MODULE ClaimProtocolProofs ------------------------
(***************************************************************************)
(* Proofs about ClaimProtocol for every set of hosts and stages, every     *)
(* routing table, every ceiling and every number of faults, in the         *)
(* settings of ExclusiveClaim: its types; that a claim is exclusive and    *)
(* the protocol implements the hand-over of HandOff; that without versions *)
(* one of a role goes on; and that attempts are counted as they should be. *)
(***************************************************************************)
EXTENDS ExclusiveClaim, FiniteSetTheorems, SequenceTheorems, WellFoundedInduction, TLAPS

-----------------------------------------------------------------------------
(* What a new comment does to the claims that stand on a ticket, and that  *)
(* the winner is one of them.                                              *)

(* Every set of ids that is not empty has a smallest one, so "oldest first" *)
(* always answers.                                                          *)
LEMMA LeastElement ==
  ASSUME NEW ids, ids \subseteq Nat, ids # {}
  PROVE  \E i \in ids : \A j \in ids : i <= j
<1> DEFINE R == OpToRel(<, Nat)
<1>1. IsWellFoundedOn(R, Nat)
  BY NatLessThanWellFounded
<1>2. \A x, y \in Nat : y < x => <<y, x>> \in R
  BY DEF R, OpToRel
<1> HIDE DEF R
<1>3. PICK x \in ids : \A y \in ids : ~(<<y, x>> \in R)
  BY <1>1, WFMin
<1>4. \A y \in ids : ~(y < x)
  BY <1>2, <1>3, Zenon
<1> QED BY <1>4

(* OldestForRole answers with a claim that stands, older than every other,  *)
(* whenever one stands.                                                     *)
LEMMA OldestStands ==
  ASSUME NEW T, NEW thread \in Seq(T), NEW role, Standing(thread, role) # {}
  PROVE  /\ OldestForRole(thread, role) \in Standing(thread, role)
         /\ \A j \in Standing(thread, role) : OldestForRole(thread, role) <= j
<1> DEFINE ids == Standing(thread, role)
<1>1. ids \subseteq Nat
  BY DEF Standing
<1>2. \E i \in ids : \A j \in ids : i <= j
  BY <1>1, LeastElement
<1>3. OldestForRole(thread, role) = CHOOSE i \in ids : \A j \in ids : i <= j
  BY DEF OldestForRole
<1> HIDE DEF ids
<1>4. /\ OldestForRole(thread, role) \in ids
      /\ \A j \in ids : OldestForRole(thread, role) <= j
  BY <1>2, <1>3
<1> QED BY <1>4 DEF ids

(* HeldBy names a host only when a claim of that host stands.               *)
LEMMA HeldByStands ==
  ASSUME NEW T, NEW thread \in Seq(T), HeldByHost(thread) # ""
  PROVE  \E i \in Standing(thread, AnyRole) : thread[i].host = HeldByHost(thread)
<1>1. OldestForRole(thread, AnyRole) # 0
  BY DEF HeldByHost
<1>2. Standing(thread, AnyRole) # {}
  BY <1>1 DEF OldestForRole
<1>3. OldestForRole(thread, AnyRole) \in Standing(thread, AnyRole)
  BY <1>2, OldestStands
<1> QED BY <1>1, <1>3 DEF HeldByHost

(* A comment that closes leaves no claim standing, whoever wrote it: the    *)
(* question "who holds the ticket" is about every role at once.             *)
LEMMA ClosingClears ==
  ASSUME NEW T, NEW thread \in Seq(T), NEW c \in T,
         c.kind \in Resets \cup {"close"}
  PROVE  Standing(Append(thread, c), AnyRole) = {}
<1> DEFINE new == Append(thread, c)
<1>1. /\ Len(new) = Len(thread) + 1 /\ DOMAIN new = 1..(Len(thread) + 1)
      /\ new[Len(thread) + 1] = c
  BY AppendProperties
<1>2. Closes(c, AnyRole) /\ ~NamesRole(c, AnyRole)
  BY DEF Closes, NamesRole, Resets
<1> HIDE DEF new
<1>3. ASSUME NEW i \in Standing(new, AnyRole) PROVE FALSE
  <2>1. /\ i \in 1..(Len(thread) + 1) /\ NamesRole(new[i], AnyRole)
        /\ \A j \in 1..(Len(thread) + 1) : j > i => ~Closes(new[j], AnyRole)
    BY <1>1, <1>3 DEF Standing
  <2>2. CASE i = Len(thread) + 1
    BY <2>1, <2>2, <1>1, <1>2
  <2>3. CASE i # Len(thread) + 1
    <3>1. i < Len(thread) + 1 /\ Len(thread) + 1 \in 1..(Len(thread) + 1)
      BY <2>1, <2>3
    <3> QED BY <2>1, <3>1, <1>1, <1>2
  <2> QED BY <2>2, <2>3
<1> QED BY <1>3 DEF new

(* A claim of a role joins those that stand and disturbs none of them.      *)
LEMMA ClaimStands ==
  ASSUME NEW T, NEW thread \in Seq(T), NEW c \in T,
         c.kind = "claim", c.role # Unreadable
  PROVE  Standing(Append(thread, c), AnyRole) = Standing(thread, AnyRole) \cup {Len(thread) + 1}
<1> DEFINE new == Append(thread, c)
<1>0. Len(thread) \in Nat /\ DOMAIN thread = 1..Len(thread)
  BY LenProperties
<1>1. /\ DOMAIN new = 1..(Len(thread) + 1)
      /\ \A i \in 1..Len(thread) : new[i] = thread[i]
      /\ new[Len(thread) + 1] = c
  BY AppendProperties
<1>2. ~Closes(c, AnyRole) /\ NamesRole(c, AnyRole)
  BY DEF Closes, NamesRole, Resets
<1> HIDE DEF new
<1>3. ASSUME NEW i \in 1..Len(thread)
      PROVE  i \in Standing(new, AnyRole) <=> i \in Standing(thread, AnyRole)
  <2>1. (\A j \in 1..(Len(thread) + 1) : j > i => ~Closes(new[j], AnyRole))
        <=> (\A j \in 1..Len(thread) : j > i => ~Closes(thread[j], AnyRole))
    <3>1. \A j \in 1..(Len(thread) + 1) : j \in 1..Len(thread) \/ j = Len(thread) + 1
      BY <1>0
    <3>2. \A j \in 1..Len(thread) : j \in 1..(Len(thread) + 1)
      BY <1>0
    <3> QED BY <3>1, <3>2, <1>1, <1>2
  <2>2. i \in 1..(Len(thread) + 1)
    BY <1>0
  <2> QED BY <2>1, <2>2, <1>0, <1>1 DEF Standing
<1>4. Len(thread) + 1 \in Standing(new, AnyRole)
  <2>1. \A j \in 1..(Len(thread) + 1) : ~(j > Len(thread) + 1)
    BY <1>0
  <2>2. Len(thread) + 1 \in 1..(Len(thread) + 1)
    BY <1>0
  <2> QED BY <2>1, <2>2, <1>1, <1>2 DEF Standing
<1>5. Standing(new, AnyRole) \subseteq 1..(Len(thread) + 1) /\ Standing(thread, AnyRole) \subseteq 1..Len(thread)
  BY <1>0, <1>1 DEF Standing
<1>6. \A i \in 1..(Len(thread) + 1) : i \in 1..Len(thread) \/ i = Len(thread) + 1
  BY <1>0
<1> QED BY <1>3, <1>4, <1>5, <1>6 DEF new

(* A comment with none of the markers changes nothing about who holds it.   *)
LEMMA NoteIsSilent ==
  ASSUME NEW T, NEW thread \in Seq(T), NEW c \in T, c.kind = "note"
  PROVE  Standing(Append(thread, c), AnyRole) = Standing(thread, AnyRole)
<1> DEFINE new == Append(thread, c)
<1>0. Len(thread) \in Nat /\ DOMAIN thread = 1..Len(thread)
  BY LenProperties
<1>1. /\ DOMAIN new = 1..(Len(thread) + 1)
      /\ \A i \in 1..Len(thread) : new[i] = thread[i]
      /\ new[Len(thread) + 1] = c
  BY AppendProperties
<1>2. ~Closes(c, AnyRole) /\ ~NamesRole(c, AnyRole)
  BY DEF Closes, NamesRole, Resets
<1> HIDE DEF new
<1>3. \A j \in 1..(Len(thread) + 1) : j \in 1..Len(thread) \/ j = Len(thread) + 1
  BY <1>0
<1>4. \A j \in 1..Len(thread) : j \in 1..(Len(thread) + 1)
  BY <1>0
<1>5. ASSUME NEW i \in 1..Len(thread)
      PROVE  i \in Standing(new, AnyRole) <=> i \in Standing(thread, AnyRole)
  BY <1>0, <1>1, <1>2, <1>3, <1>4 DEF Standing
<1>6. Len(thread) + 1 \notin Standing(new, AnyRole)
  BY <1>1, <1>2 DEF Standing
<1>7. Standing(new, AnyRole) \subseteq 1..(Len(thread) + 1) /\ Standing(thread, AnyRole) \subseteq 1..Len(thread)
  BY <1>0, <1>1 DEF Standing
<1> QED BY <1>3, <1>5, <1>6, <1>7 DEF new

-----------------------------------------------------------------------------
Comments == [kind : Kinds, host : Hosts \cup {""}, role : InUse \cup {AnyRole}, at : Nat]

(* Type correctness needs one fact more than the types: a dispatcher that   *)
(* is about to move the ticket knows where to.                              *)
Routed == \A d \in Dispatchers : pc[d] \in {"note", "move"} => dest[d] \in Destinations(d)

(* The assumption on the constants, in the parts the proofs use.            *)
LEMMA Bounds ==
  /\ MaxTime \in Nat /\ MaxTime # 0 /\ Budget \in Nat
  /\ PlacedIn # NoColumn /\ Nobody \notin Dispatchers
<1>1. MaxTime \in Nat \ {0} /\ Budget \in Nat /\ PlacedIn # NoColumn /\ Nobody \notin Dispatchers
  BY ProtocolAssumption, Zenon
<1> QED BY <1>1

LEMMA Routes ==
  ASSUME NEW d \in Dispatchers
  PROVE  /\ Role[d] \notin {AnyRole, Unreadable} /\ Host[d] # ""
         /\ S(d).ready # NoColumn /\ S(d).exhausted # NoColumn /\ S(d).success # NoColumn
         /\ \A e \in Dispatchers : S(d).working \notin Destinations(e)
         /\ \A e \in Dispatchers : Host[d] = Host[e] /\ Role[d] = Role[e] => d = e
  BY ProtocolAssumption, Zenon

LEMMA CommentTypes ==
  ASSUME NEW d \in Dispatchers, now \in 1..MaxTime
  PROVE  /\ Claim(d) \in Comments /\ Close(d) \in Comments /\ Note \in Comments
         /\ Reset("repair") \in Comments /\ Reset("interrupted") \in Comments
         /\ Claim(d).kind = "claim" /\ Claim(d).role = Role[d] /\ Claim(d).host = Host[d]
         /\ Close(d).kind = "close" /\ Note.kind = "note"
         /\ Reset("repair").kind \in Resets /\ Reset("interrupted").kind \in Resets
<1>1. Host[d] \in Hosts /\ Role[d] \in InUse /\ now \in Nat
  BY Bounds DEF Hosts, InUse
<1>2. {"claim", "close", "note", "repair", "interrupted"} \subseteq Kinds
      /\ {"repair", "interrupted"} \subseteq Resets
  BY DEF Kinds, Resets
<1>3. "" \in Hosts \cup {""} /\ AnyRole \in InUse \cup {AnyRole}
  OBVIOUS
<1> QED BY <1>1, <1>2, <1>3 DEF Comments, Claim, Close, Note, Reset, Comment

LEMMA PlacesOfStages ==
  ASSUME NEW d \in Dispatchers
  PROVE  /\ S(d).ready \in Places /\ S(d).working \in Places
         /\ PlacedIn \in Places
         /\ Destinations(d) \subseteq Places
<1>1. PlacedIn \in Destinations(d)
  BY Bounds DEF Destinations
<1> QED BY <1>1 DEF Places

LEMMA NextIsADestination ==
  ASSUME NEW d \in Dispatchers, out[d] \in Outcomes
  PROVE  Next_(d) \in Destinations(d) \cup {NoColumn}
<1>1. /\ S(d).ready # NoColumn /\ S(d).success # NoColumn /\ S(d).exhausted # NoColumn
      /\ Conflicted # NoColumn
  BY Routes DEF Conflicted, NoColumn
<1>2. out[d] \in {"success", "failed", "abandoned", "conflicted", "blocked", "returned", "handled"}
  BY DEF Outcomes
<1> QED BY <1>1, <1>2 DEF Next_, Destination, Destinations

LEMMA InitTyped == Init => TypeOK /\ Routed
<1> SUFFICES ASSUME Init PROVE TypeOK /\ Routed
  OBVIOUS
<1>1. column \in Places
  BY DEF Init, Places
<1>2. log \in Seq(Comments)
  BY EmptySeq DEF Init
<1>3. fresh \subseteq Dispatchers
  BY DEF Init
<1>4. now \in 1..MaxTime /\ budget \in 0..Budget
  BY Bounds DEF Init
<1>5. /\ host \in [Hosts -> {"up", "stopping", "down"}]
      /\ pc \in [Dispatchers -> ControlPoints]
      /\ mine \in [Dispatchers -> Nat] /\ seen \in [Dispatchers -> Nat]
      /\ out \in [Dispatchers -> Outcomes]
      /\ dest \in [Dispatchers -> Places \cup {NoColumn}]
      /\ failed \in [InUse -> Nat] /\ unworked \in [InUse -> Nat]
  BY DEF Init, ControlPoints, Outcomes
<1>6. Routed
  BY DEF Init, Routed
<1> QED BY <1>1, <1>2, <1>3, <1>4, <1>5, <1>6 DEF TypeOK, Comments

(* What one call may do to the budget and to the dispatcher's place.        *)
LEMMA CallTypes ==
  ASSUME TypeOK, NEW d \in Dispatchers, NEW call, NEW place \in ControlPoints,
         \/ Answered(d, call, place) \/ InTime(d, call, place)
         \/ Fails(d, call, place) \/ FailsOrStopped(d, call, place)
  PROVE  /\ pc' \in [Dispatchers -> ControlPoints] /\ budget' \in 0..Budget
         /\ \A e \in Dispatchers : e # d => pc'[e] = pc[e]
         /\ pc'[d] \in {pc[d], place}
<1>0. budget \in 0..Budget
  BY DEF TypeOK
<1>1. budget' = budget \/ (budget > 0 /\ budget' = budget - 1)
  BY DEF Answered, InTime, Fails, FailsOrStopped, Stopped, Fault
<1>2. budget' \in 0..Budget
  BY <1>0, <1>1, Bounds
<1>3. pc' = pc \/ pc' = [pc EXCEPT ![d] = place]
  BY DEF Answered, InTime, Fails, FailsOrStopped, Stopped, Goto
<1>4. pc \in [Dispatchers -> ControlPoints]
  BY DEF TypeOK
<1> QED BY <1>2, <1>3, <1>4

LEMMA PostTypes ==
  ASSUME TypeOK, NEW d \in Dispatchers,
         \/ Post(Claim(d)) \/ Post(Close(d)) \/ Post(Note)
         \/ Post(Reset("repair")) \/ Post(Reset("interrupted"))
         \/ UNCHANGED <<log, fresh>>
  PROVE  log' \in Seq(Comments) /\ fresh' \subseteq Dispatchers
<1>1. log \in Seq(Comments) /\ now \in 1..MaxTime /\ fresh \subseteq Dispatchers
  BY DEF TypeOK, Comments
<1>2. ASSUME NEW c \in Comments PROVE Append(log, c) \in Seq(Comments)
  BY <1>1, AppendProperties
<1>3. /\ Claim(d) \in Comments /\ Close(d) \in Comments /\ Note \in Comments
      /\ Reset("repair") \in Comments /\ Reset("interrupted") \in Comments
  BY <1>1, CommentTypes
<1> QED BY <1>1, <1>2, <1>3 DEF Post

(* What Handle does to the history of failures.                             *)
LEMMA FailureTypes ==
  ASSUME TypeOK, NEW d \in Dispatchers,
         \/ ClearCounts \/ failed' = failed
         \/ failed' = [failed EXCEPT ![Role[d]] = @ + 1]
  PROVE  failed' \in [InUse -> Nat]
<1>1. failed \in [InUse -> Nat] /\ Role[d] \in InUse
  BY DEF TypeOK, InUse
<1> QED BY <1>1 DEF ClearCounts

(* And a step to that of the claims that no handler worked under.           *)
LEMMA UnworkedTypes ==
  ASSUME TypeOK, NEW d \in Dispatchers, ClearCounts \/ Unworked(d) \/ unworked' = unworked
  PROVE  unworked' \in [InUse -> Nat]
<1>1. unworked \in [InUse -> Nat] /\ Role[d] \in InUse
  BY DEF TypeOK, InUse
<1> QED BY <1>1 DEF ClearCounts, Unworked

LEMMA Lengths == ASSUME TypeOK PROVE Len(log) \in Nat /\ Len(log) + 1 \in Nat
<1>1. log \in Seq(Comments)
  BY DEF TypeOK, Comments
<1> QED BY <1>1, LenProperties

(* Every step keeps the types and the route of whoever is about to move.    *)
LEMMA StepTyped ==
  ASSUME TypeOK, Routed, NEW d \in Dispatchers, Step(d)
  PROVE  TypeOK' /\ Routed'
<1> USE DEF TypeOK, ticket, local
<1>p. {"down", "listing", "reconcile", "forget", "requeue", "idle", "claim", "cas", "append",
       "arbitrate", "take", "attribute", "verify", "relClose", "relMove", "work", "forgive",
       "close", "note", "move"} = ControlPoints
  BY DEF ControlPoints
<1>t. now \in 1..MaxTime /\ log \in Seq(Comments)
  BY DEF Comments
<1>1. CASE Pick(d)
  BY <1>1, <1>p DEF Pick, At, Goto, Routed
<1>2. CASE ReadForClaim(d)
  BY <1>2, <1>p, CallTypes DEF ReadForClaim, At, Routed
<1>3. CASE CompareAndSet(d)
  BY <1>3, <1>p, CallTypes, PlacesOfStages DEF CompareAndSet, PutIn, At, Routed
<1>4. CASE Attribute(d)
  <2>1. log' \in Seq(Comments) /\ fresh' \subseteq Dispatchers
    BY <1>4, PostTypes DEF Attribute
  <2>2. unworked' \in [InUse -> Nat]
    BY <1>4, UnworkedTypes DEF Attribute
  <2> QED BY <1>4, <2>1, <2>2, <1>p, CallTypes DEF Attribute, At, Routed, Comments
<1>5. CASE AppendClaim(d)
  <2>1. log' \in Seq(Comments) /\ fresh' \subseteq Dispatchers
    BY <1>5, PostTypes DEF AppendClaim
  <2>2. mine' \in [Dispatchers -> Nat]
    BY <1>5, Lengths DEF AppendClaim
  <2>3. pc' \in [Dispatchers -> ControlPoints] /\ budget' \in 0..Budget
        /\ \A e \in Dispatchers : pc'[e] = pc[e] \/ pc'[e] \in {"arbitrate", "idle"}
    BY <1>5, <1>p, CallTypes DEF AppendClaim
  <2>4. unworked' \in [InUse -> Nat]
    BY <1>5, UnworkedTypes DEF AppendClaim
  <2> QED BY <1>5, <2>1, <2>2, <2>3, <2>4 DEF AppendClaim, Routed, Comments
<1>6. CASE Arbitrate(d)
  BY <1>6, <1>p, CallTypes DEF Arbitrate, At, Routed
<1>7. CASE Take(d)
  BY <1>7, <1>p, CallTypes, PlacesOfStages DEF Take, PutIn, At, Routed
<1>8. CASE Verify(d)
  <2>1. unworked' \in [InUse -> Nat]
    BY <1>8, UnworkedTypes DEF Verify
  <2> QED BY <1>8, <2>1, <1>p, <1>t, CallTypes, Lengths DEF Verify, At, Routed
<1>9. CASE ReleaseClose(d)
  <2>1. log' \in Seq(Comments) /\ fresh' \subseteq Dispatchers
    BY <1>9, PostTypes DEF ReleaseClose
  <2> QED BY <1>9, <2>1, <1>p, CallTypes DEF ReleaseClose, At, Routed, Comments
<1>10. CASE ReleaseMove(d)
  BY <1>10, <1>p, CallTypes, PlacesOfStages DEF ReleaseMove, PutIn, At, Routed
<1>11. ASSUME NEW outcome \in Outcomes, Handle(d, outcome) PROVE TypeOK' /\ Routed'
  <2>1. unworked' \in [InUse -> Nat]
    BY <1>11, UnworkedTypes DEF Handle
  <2> QED BY <1>11, <2>1, <1>p, <1>t, CommentTypes, PostTypes, FailureTypes, PlacesOfStages, ZenonT(30)
          DEF Handle, Goto, At, Routed, Comments
<1>12. CASE ForgiveAttempt(d)
  <2>1. log' \in Seq(Comments) /\ fresh' \subseteq Dispatchers
    BY <1>12, PostTypes DEF ForgiveAttempt
  <2>2. unworked' \in [InUse -> Nat]
    BY <1>12, UnworkedTypes DEF ForgiveAttempt
  <2> QED BY <1>12, <2>1, <2>2, <1>p, CallTypes, FailureTypes
     DEF ForgiveAttempt, At, Routed, Comments
<1>13. CASE CloseClaim(d)
  <2>1. log' \in Seq(Comments) /\ fresh' \subseteq Dispatchers
    BY <1>13, PostTypes DEF CloseClaim
  <2> QED BY <1>13, <2>1, <1>p, CallTypes, NextIsADestination, PlacesOfStages
     DEF CloseClaim, AfterClose, At, Routed, Comments
<1>14. CASE Escalate(d)
  <2>1. log' \in Seq(Comments) /\ fresh' \subseteq Dispatchers
    BY <1>14, PostTypes DEF Escalate
  <2> QED BY <1>14, <2>1, <1>p, CallTypes DEF Escalate, At, Routed, Comments
<1>15. CASE Advance(d)
  BY <1>15, <1>p, CallTypes, PlacesOfStages DEF Advance, PutIn, At, Routed
<1>16. CASE ListHeld(d)
  BY <1>16, <1>p, CallTypes DEF ListHeld, At, Routed
<1>17. CASE ReadHeld(d)
  BY <1>17, <1>p, CallTypes DEF ReadHeld, At, Routed
<1>18. CASE ForgetAttempt(d)
  <2>1. log' \in Seq(Comments) /\ fresh' \subseteq Dispatchers
    BY <1>18, PostTypes DEF ForgetAttempt
  <2>2. unworked' \in [InUse -> Nat]
    BY <1>18, UnworkedTypes DEF ForgetAttempt
  <2> QED BY <1>18, <2>1, <2>2, <1>p, CallTypes, FailureTypes
     DEF ForgetAttempt, At, Routed, Comments
<1>19. CASE Requeue(d)
  BY <1>19, <1>p, CallTypes, PlacesOfStages DEF Requeue, PutIn, At, Routed
<1> QED
  BY <1>1, <1>2, <1>3, <1>4, <1>5, <1>6, <1>7, <1>8, <1>9, <1>10, <1>11, <1>12, <1>13,
     <1>14, <1>15, <1>16, <1>17, <1>18, <1>19 DEF Step

LEMMA HostStepTyped ==
  ASSUME TypeOK, Routed, NEW h \in Hosts, Kill(h) \/ Stop(h) \/ Exit(h) \/ Restart(h)
  PROVE  TypeOK' /\ Routed'
<1>1. /\ host \in [Hosts -> {"up", "stopping", "down"}] /\ pc \in [Dispatchers -> ControlPoints]
      /\ budget \in 0..Budget
  BY DEF TypeOK
<1>2. UNCHANGED <<ticket, now, local, failed, unworked>>
  BY DEF Kill, Stop, Exit, Restart
<1>3. /\ pc' \in [Dispatchers -> ControlPoints]
      /\ \A d \in Dispatchers : pc'[d] = pc[d] \/ pc'[d] \in {"down", "listing"}
  BY <1>1 DEF Kill, Stop, Exit, Restart, Down, ControlPoints
<1>4. host' \in [Hosts -> {"up", "stopping", "down"}]
  BY <1>1 DEF Kill, Stop, Exit, Restart, Down
<1>5. budget' \in 0..Budget
  BY <1>1, Bounds DEF Kill, Stop, Exit, Restart, Fault
<1> QED BY <1>2, <1>3, <1>4, <1>5 DEF TypeOK, Routed, ticket, local

LEMMA NextTyped == TypeOK /\ Routed /\ [Next]_vars => TypeOK' /\ Routed'
<1> SUFFICES ASSUME TypeOK, Routed, [Next]_vars PROVE TypeOK' /\ Routed'
  OBVIOUS
<1>1. ASSUME NEW d \in Dispatchers, Step(d) PROVE TypeOK' /\ Routed'
  BY <1>1, StepTyped
<1>2. ASSUME NEW h \in Hosts, Kill(h) \/ Stop(h) \/ Exit(h) \/ Restart(h)
      PROVE  TypeOK' /\ Routed'
  BY <1>2, HostStepTyped
<1>3. CASE Tick
  <2>1. now' \in 1..MaxTime
    <3>1. now \in 1..MaxTime
      BY DEF TypeOK
    <3> QED BY <1>3, <3>1, Bounds DEF Tick
  <2> QED BY <1>3, <2>1 DEF Tick, TypeOK, Routed, ticket, local
<1>4. CASE UNCHANGED vars
  BY <1>4 DEF vars, ticket, local, TypeOK, Routed
<1> QED BY <1>1, <1>2, <1>3, <1>4 DEF Next

(* Every reachable state of the ticket and its dispatchers is of its type,  *)
(* for any table, any hosts and any faults: no call of any interleaving     *)
(* moves the ticket out of the columns of the table (dispatch.go, claim.go).*)
THEOREM TypeCorrect == Spec => []TypeOK
<1>1. Spec => [](TypeOK /\ Routed)
  BY InitTyped, NextTyped, PTL DEF Spec
<1> QED BY <1>1, PTL
-----------------------------------------------------------------------------
(* A claim is exclusive.                                                   *)

Busy(d) == Holds(d) \/ Reclaims(d)

(* A queue of one stage is never the bench of another.                      *)
LEMMA QueueIsNoBench ==
  ASSUME NEW d \in Dispatchers, NEW e \in Dispatchers
  PROVE  S(d).ready # S(e).working
<1>1. S(d).ready \in Destinations(d)
  BY Routes DEF Destinations
<1> QED BY <1>1, Routes

(* While the ticket waits in a queue nobody has it and no claim stands.     *)
LEMMA NobodyInTheQueue ==
  ASSUME Exclusive, NEW d \in Dispatchers, column = S(d).ready
  PROVE  Claims = {} /\ \A e \in Dispatchers : ~Busy(e)
  BY QueueIsNoBench DEF Exclusive, OnTheBench, ClaimsOfOne, Busy

(* The steps that leave the ticket where it is: they keep the invariant     *)
(* unless they take the ticket, add somebody else's claim, or go on to move *)
(* the ticket with a claim standing.                                        *)
LEMMA StaysPut ==
  ASSUME TypeOK, Exclusive, NEW d \in Dispatchers,
         column' = column, host' = host,
         \A e \in Dispatchers : e # d => pc'[e] = pc[e],
         Busy(d)' => Busy(d),
         fresh' \subseteq Dispatchers,
         \A e \in fresh' : e \in fresh \/ column = S(e).ready,
         \A i \in Claims' : (i \in Claims /\ log'[i] = log[i]) \/ (Busy(d) /\ ClaimOf(i, d)'),
         Busy(d) \/ Claims' = Claims,
         pc'[d] \in {"relMove", "note", "move"} => Claims' = {},
         pc'[d] = "requeue" => Claims' = {} \/ Stopping(d),
         pc'[d] \in {"verify", "work"} => Claims' # {},
         pc'[d] = "reconcile" /\ OwnBench(d) => column = S(d).working,
         pc'[d] \notin {"append", "arbitrate", "take"}
  PROVE  Exclusive'
<1>0. \A e \in Dispatchers : Busy(e)' => Busy(e)
  BY DEF Busy, Holds, Reclaims
<1>1. OnTheBench'
  BY <1>0 DEF Busy, Exclusive, OnTheBench, S
<1>2. AtMostOne'
  BY <1>0 DEF Busy, Exclusive, AtMostOne
<1>3. VersionsOfTheQueue'
  BY DEF Exclusive, VersionsOfTheQueue, S
<1>4. ClaimsOfOne'
  <2> SUFFICES ASSUME Claims' # {}
      PROVE  \E e \in Dispatchers :
               /\ column' = S(e).working
               /\ \A i \in Claims' : ClaimOf(i, e)'
               /\ \A f \in Dispatchers : Busy(f)' => f = e
    BY DEF ClaimsOfOne, Busy
  <2>1. CASE Busy(d)
    <3>1. column = S(d).working /\ \A f \in Dispatchers : Busy(f)' => f = d
      BY <2>1, <1>0 DEF Exclusive, OnTheBench, AtMostOne, Busy
    <3>2. \A i \in Claims : ClaimOf(i, d)
      BY <2>1 DEF Exclusive, ClaimsOfOne, Busy
    <3>3. \A i \in Claims' : ClaimOf(i, d)'
      BY <3>2 DEF ClaimOf
    <3> QED BY <3>1, <3>3
  <2>2. CASE ~Busy(d)
    <3>1. Claims # {} /\ \A i \in Claims' : i \in Claims /\ log'[i] = log[i]
      BY <2>2
    <3>2. PICK e \in Dispatchers : /\ column = S(e).working
                                   /\ \A i \in Claims : ClaimOf(i, e)
                                   /\ \A f \in Dispatchers : Busy(f) => f = e
      BY <3>1 DEF Exclusive, ClaimsOfOne, Busy
    <3> QED BY <3>1, <3>2, <1>0 DEF ClaimOf
  <2> QED BY <2>1, <2>2
<1>5. ClosedBeforeMoved'
  <2>1. ASSUME NEW e \in Dispatchers, pc'[e] \in {"relMove", "note", "move"}
        PROVE  Claims' = {}
    <3>1. CASE e = d
      BY <2>1, <3>1
    <3>2. CASE e # d
      BY <2>1, <3>2 DEF Exclusive, ClosedBeforeMoved, AtMostOne, Busy, Holds
    <3> QED BY <3>1, <3>2
  <2>2. ASSUME NEW e \in Dispatchers, pc'[e] = "requeue"
        PROVE  Claims' = {} \/ Stopping(e)'
    <3>1. CASE e = d
      BY <2>2, <3>1 DEF Stopping
    <3>2. CASE e # d
      BY <2>2, <3>2 DEF Exclusive, ClosedBeforeMoved, AtMostOne, Busy, Reclaims, Stopping, At
    <3> QED BY <3>1, <3>2
  <2> QED BY <2>1, <2>2 DEF ClosedBeforeMoved, At
<1>6. ClaimedWhileWorked'
  <2> SUFFICES ASSUME NEW e \in Dispatchers, pc'[e] \in {"verify", "work"} PROVE Claims' # {}
    BY DEF ClaimedWhileWorked
  <2>1. CASE e = d
    BY <2>1
  <2>2. CASE e # d
    BY <2>2 DEF Exclusive, ClaimedWhileWorked, AtMostOne, Busy, Holds
  <2> QED BY <2>1, <2>2
<1>7. StillListed'
  BY DEF Exclusive, StillListed, At, OwnBench, S
<1>8. NoAppends'
  BY DEF Exclusive, NoAppends
<1> QED BY <1>1, <1>2, <1>3, <1>4, <1>5, <1>6, <1>7, <1>8 DEF Exclusive

(* The steps that put the ticket somewhere else: whoever has it, or takes   *)
(* it back, lets go of it in the same step and leaves no claim behind.      *)
LEMMA LetsGo ==
  ASSUME TypeOK, Exclusive, NEW d \in Dispatchers,
         Busy(d), Claims = {}, UNCHANGED <<log, host>>, fresh' = {},
         \A e \in Dispatchers : e # d => pc'[e] = pc[e],
         pc'[d] = "idle"
  PROVE  Exclusive'
<1>1. \A e \in Dispatchers : ~Busy(e)'
  BY DEF Exclusive, AtMostOne, Busy, Holds, Reclaims
<1>2. Claims' = {}
  BY DEF Claims
<1>3. OnTheBench' /\ AtMostOne' /\ VersionsOfTheQueue'
  BY <1>1 DEF OnTheBench, AtMostOne, VersionsOfTheQueue, Busy
<1>4. ClaimsOfOne' /\ ClosedBeforeMoved'
  BY <1>2 DEF ClaimsOfOne, ClosedBeforeMoved
<1>5. ClaimedWhileWorked'
  BY <1>1 DEF ClaimedWhileWorked, Busy, Holds
<1>6. StillListed'
  <2> SUFFICES ASSUME NEW e \in Dispatchers, pc'[e] = "reconcile", OwnBench(e) PROVE FALSE
    BY DEF StillListed, At, OwnBench, S
  <2>1. e # d /\ pc[e] = "reconcile"
    OBVIOUS
  <2>2. column = S(e).working /\ column = S(d).working
    BY <2>1 DEF Exclusive, StillListed, OnTheBench, Busy, At
  <2> QED BY <2>1, <2>2 DEF OwnBench
<1>7. NoAppends'
  BY DEF Exclusive, NoAppends
<1> QED BY <1>3, <1>4, <1>5, <1>6, <1>7 DEF Exclusive

(* What each kind of comment does to the claims that stand.                 *)
LEMMA AfterPost ==
  ASSUME TypeOK, NEW d \in Dispatchers
  PROVE  /\ Post(Close(d)) \/ Post(Reset("repair")) \/ Post(Reset("interrupted")) => Claims' = {}
         /\ Post(Note) => Claims' = Claims /\ \A i \in Claims : log'[i] = log[i]
         /\ Post(Claim(d)) =>
              /\ Claims' # {}
              /\ \A i \in Claims' : (i \in Claims /\ log'[i] = log[i]) \/ ClaimOf(i, d)'
         /\ log' = log => Claims' = Claims
<1>1. log \in Seq(Comments) /\ now \in 1..MaxTime
  BY DEF TypeOK, Comments
<1>2. \A c \in Comments : \A i \in Claims : Append(log, c)[i] = log[i]
  <2>1. Claims \subseteq 1..Len(log)
    BY <1>1, LenProperties DEF Claims, Standing
  <2>2. \A c \in Comments : \A i \in 1..Len(log) : Append(log, c)[i] = log[i]
    BY <1>1, AppendProperties
  <2> QED BY <2>1, <2>2
<1>3. ASSUME NEW c \in Comments, c.kind \in Resets \cup {"close"}
      PROVE  Standing(Append(log, c), AnyRole) = {}
  BY <1>1, <1>3, ClosingClears
<1>4. Post(Close(d)) \/ Post(Reset("repair")) \/ Post(Reset("interrupted")) => Claims' = {}
  BY <1>1, <1>3, CommentTypes DEF Post, Claims
<1>5. Standing(Append(log, Note), AnyRole) = Standing(log, AnyRole)
  BY <1>1, CommentTypes, NoteIsSilent
<1>6. Post(Note) => Claims' = Claims /\ \A i \in Claims : log'[i] = log[i]
  BY <1>1, <1>2, <1>5, CommentTypes DEF Post, Claims
<1>7. Standing(Append(log, Claim(d)), AnyRole) = Standing(log, AnyRole) \cup {Len(log) + 1}
  BY <1>1, CommentTypes, Routes, ClaimStands, ZenonT(30)
<1>8. Append(log, Claim(d))[Len(log) + 1] = Claim(d)
  BY <1>1, CommentTypes, AppendProperties
<1>9. Post(Claim(d)) =>
        /\ Claims' = Claims \cup {Len(log) + 1}
        /\ \A i \in Claims : log'[i] = log[i]
        /\ log'[Len(log) + 1] = Claim(d)
  BY <1>1, <1>2, <1>7, <1>8, CommentTypes DEF Post, Claims
<1>10. Claim(d).host = Host[d] /\ Claim(d).role = Role[d]
  BY <1>1, CommentTypes
<1>11. log' = log => Claims' = Claims
  BY DEF Claims
<1> QED BY <1>4, <1>6, <1>9, <1>10, <1>11 DEF ClaimOf

(* The step of one dispatcher keeps the invariant.                          *)
LEMMA StepExclusive ==
  ASSUME ExclusiveSetting, TypeOK, TypeOK', Exclusive, NEW d \in Dispatchers, Step(d)
  PROVE  Exclusive'
<1>p. {"down", "listing", "reconcile", "forget", "requeue", "idle", "claim", "cas", "append",
       "arbitrate", "take", "attribute", "verify", "relClose", "relMove", "work", "forgive",
       "close", "note", "move"} = ControlPoints
  BY DEF ControlPoints
<1>t. fresh' \subseteq Dispatchers /\ pc \in [Dispatchers -> ControlPoints]
  BY DEF TypeOK
<1>n. pc[d] \notin {"append", "arbitrate", "take"}
  BY DEF Exclusive, NoAppends
<1>w. pc[d] \in {"verify", "work"} => Claims # {}
  BY DEF Exclusive, ClaimedWhileWorked
<1>c. pc[d] \in {"relMove", "note", "move"} => Claims = {}
  BY DEF Exclusive, ClosedBeforeMoved
<1>a. log' = log => Claims' = Claims /\ \A i \in Claims : log'[i] = log[i]
  BY AfterPost
<1> USE DEF ticket, local
<1>1. CASE Pick(d)
  <2>1. /\ pc[d] = "idle" /\ pc'[d] = "claim" /\ \A e \in Dispatchers : e # d => pc'[e] = pc[e]
        /\ UNCHANGED <<column, log, fresh, host>>
    BY <1>1, <1>t DEF Pick, At, Goto
  <2> QED BY <2>1, <1>t, <1>a, StaysPut DEF Busy, Holds, Reclaims
<1>2. CASE ReadForClaim(d)
  <2>1. /\ pc[d] = "claim" /\ pc'[d] \in {"claim", "cas", "idle"}
        /\ \A e \in Dispatchers : e # d => pc'[e] = pc[e]
    BY <1>2, <1>p, CallTypes DEF ReadForClaim, At, ExclusiveSetting
  <2>2. /\ UNCHANGED <<column, log, host>>
        /\ \A e \in fresh' : e \in fresh \/ column = S(e).ready
    BY <1>2 DEF ReadForClaim
  <2> QED BY <2>1, <2>2, <1>t, <1>a, StaysPut DEF Busy, Holds, Reclaims
<1>3. CASE CompareAndSet(d)
  <2>1. /\ pc[d] = "cas" /\ pc'[d] \in {"cas", "attribute", "idle"}
        /\ \A e \in Dispatchers : e # d => pc'[e] = pc[e]
        /\ UNCHANGED <<log, host>>
    BY <1>3, <1>p, CallTypes DEF CompareAndSet, At
  <2>2. CASE Current(d) /\ PutIn(S(d).working)
    <3>1. column = S(d).ready
      BY <2>2 DEF Current, Exclusive, VersionsOfTheQueue
    <3>2. Claims' = {} /\ \A e \in Dispatchers : ~Busy(e)
      BY <3>1, <1>a, <2>1, NobodyInTheQueue
    <3>3. \A e \in Dispatchers : Busy(e)' => e = d
      BY <2>1, <3>2 DEF Busy, Holds, Reclaims
    <3>4. OnTheBench' /\ AtMostOne' /\ VersionsOfTheQueue'
      BY <2>2, <3>3 DEF OnTheBench, AtMostOne, VersionsOfTheQueue, PutIn, Busy, S
    <3>5. ClaimsOfOne' /\ ClosedBeforeMoved'
      BY <3>2 DEF ClaimsOfOne, ClosedBeforeMoved
    <3>6. ClaimedWhileWorked'
      BY <2>1, <3>2 DEF ClaimedWhileWorked, Busy, Holds
    <3>7. StillListed'
      BY <2>1, <3>1, QueueIsNoBench DEF Exclusive, StillListed, At, OwnBench, S
    <3>8. NoAppends'
      BY <2>1 DEF Exclusive, NoAppends
    <3> QED BY <3>4, <3>5, <3>6, <3>7, <3>8 DEF Exclusive
  <2>3. CASE ~(Current(d) /\ PutIn(S(d).working))
    <3>1. pc'[d] \in {"cas", "idle"} /\ UNCHANGED <<column, fresh>>
      BY <1>3, <2>1, <2>3, <1>t
         DEF CompareAndSet, InTime, Answered, FailsOrStopped, Fails, Stopped, Goto
    <3> QED BY <2>1, <3>1, <1>t, <1>a, StaysPut DEF Busy, Holds, Reclaims
  <2> QED BY <2>2, <2>3
<1>4. CASE Attribute(d)
  <2>1. /\ pc[d] = "attribute" /\ pc'[d] \in {"attribute", "verify", "idle"}
        /\ \A e \in Dispatchers : e # d => pc'[e] = pc[e]
        /\ UNCHANGED <<column, host>>
    BY <1>4, <1>p, CallTypes DEF Attribute, At
  <2>2. CASE Post(Claim(d))
    <3>1. fresh' = {} /\ Claims' # {} /\ Busy(d)
          /\ \A i \in Claims' : (i \in Claims /\ log'[i] = log[i]) \/ ClaimOf(i, d)'
      BY <2>1, <2>2, AfterPost DEF Post, Busy, Holds
    <3> QED BY <2>1, <3>1, <1>t, StaysPut
  <2>3. CASE ~Post(Claim(d))
    <3>1. pc'[d] = "idle" /\ UNCHANGED <<log, fresh>>
      BY <1>4, <2>3, <1>t DEF Attribute, FailsOrStopped, Fails, Stopped, Goto
    <3> QED BY <2>1, <3>1, <1>t, <1>a, StaysPut DEF Busy, Holds, Reclaims
  <2> QED BY <2>2, <2>3
<1>5. CASE AppendClaim(d) \/ Arbitrate(d) \/ Take(d)
  BY <1>5, <1>n DEF AppendClaim, Arbitrate, Take, At
<1>6. CASE Verify(d)
  <2>1. /\ pc[d] = "verify" /\ pc'[d] \in {"verify", "work", "relClose"}
        /\ \A e \in Dispatchers : e # d => pc'[e] = pc[e]
        /\ UNCHANGED <<column, log, fresh, host>>
    BY <1>6, <1>p, CallTypes DEF Verify, At
  <2> QED BY <2>1, <1>t, <1>a, <1>w, StaysPut DEF Busy, Holds, Reclaims
<1>7. CASE ReleaseClose(d)
  <2>1. /\ pc[d] = "relClose" /\ pc'[d] \in {"relClose", "relMove"}
        /\ \A e \in Dispatchers : e # d => pc'[e] = pc[e]
        /\ UNCHANGED <<column, host>>
    BY <1>7, <1>p, CallTypes DEF ReleaseClose, At
  <2>2. Claims' = {} /\ fresh' = {}
    BY <1>7, AfterPost DEF ReleaseClose, Post, Fails, ExclusiveSetting
  <2> QED BY <2>1, <2>2, <1>t, StaysPut DEF Busy, Holds, Reclaims
<1>8. CASE ReleaseMove(d)
  <2>1. /\ pc[d] = "relMove" /\ pc'[d] = "idle"
        /\ \A e \in Dispatchers : e # d => pc'[e] = pc[e]
        /\ UNCHANGED <<log, host>>
    BY <1>8, <1>t DEF ReleaseMove, At, Answered, Fails, Goto, ExclusiveSetting
  <2>2. CASE fresh' = {}
    BY <2>1, <2>2, <1>c, LetsGo DEF Busy, Holds
  <2>3. CASE fresh' # {}
    <3>1. UNCHANGED <<column, fresh>>
      BY <1>8, <2>3 DEF ReleaseMove, PutIn
    <3> QED BY <2>1, <3>1, <1>t, <1>a, StaysPut DEF Busy, Holds, Reclaims
  <2> QED BY <2>2, <2>3
<1>9. ASSUME NEW outcome \in Outcomes, Handle(d, outcome) PROVE Exclusive'
  <2>0. outcome # "handled"
    BY <1>9 DEF Handle, ExclusiveSetting
  <2>1. /\ pc[d] = "work" /\ pc'[d] \in {"forgive", "close"}
        /\ \A e \in Dispatchers : e # d => pc'[e] = pc[e]
        /\ UNCHANGED <<column, host>>
    BY <1>9, <2>0, <1>t DEF Handle, At, Goto
  <2>2. (Claims' = {} /\ fresh' = {}) \/ UNCHANGED <<log, fresh>>
    BY <1>9, <2>0, AfterPost DEF Handle, Post
  <2> QED BY <2>1, <2>2, <1>t, <1>a, StaysPut DEF Busy, Holds, Reclaims
<1>10. CASE ForgiveAttempt(d)
  <2>1. /\ pc[d] = "forgive" /\ pc'[d] \in {"forgive", "close"}
        /\ \A e \in Dispatchers : e # d => pc'[e] = pc[e]
        /\ UNCHANGED <<column, host>>
    BY <1>10, <1>p, CallTypes DEF ForgiveAttempt, At
  <2>2. Claims' = {} /\ fresh' = {}
    BY <1>10, AfterPost DEF ForgiveAttempt, Post, Fails, ExclusiveSetting
  <2> QED BY <2>1, <2>2, <1>t, StaysPut DEF Busy, Holds, Reclaims
<1>11. CASE CloseClaim(d)
  <2>1. /\ pc[d] = "close" /\ pc'[d] \in {"close", "idle", "note", "move"}
        /\ \A e \in Dispatchers : e # d => pc'[e] = pc[e]
        /\ UNCHANGED <<column, host>>
    BY <1>11, <1>p, CallTypes DEF CloseClaim, At, AfterClose
  <2>2. Claims' = {} /\ fresh' = {}
    BY <1>11, AfterPost DEF CloseClaim, Post, Fails, ExclusiveSetting
  <2> QED BY <2>1, <2>2, <1>t, StaysPut DEF Busy, Holds, Reclaims
<1>12. CASE Escalate(d)
  <2>1. /\ pc[d] = "note" /\ pc'[d] \in {"note", "move"}
        /\ \A e \in Dispatchers : e # d => pc'[e] = pc[e]
        /\ UNCHANGED <<column, host>>
    BY <1>12, <1>p, CallTypes DEF Escalate, At
  <2>2. Claims' = {} /\ (fresh' = {} \/ fresh' = fresh)
    BY <1>12, <2>1, <1>a, <1>c, AfterPost DEF Escalate, Post
  <2> QED BY <2>1, <2>2, <1>t, StaysPut DEF Busy, Holds, Reclaims
<1>13. CASE Advance(d)
  <2>1. /\ pc[d] = "move" /\ pc'[d] = "idle"
        /\ \A e \in Dispatchers : e # d => pc'[e] = pc[e]
        /\ UNCHANGED <<log, host>>
    BY <1>13, <1>t DEF Advance, At, Answered, Fails, Goto, ExclusiveSetting
  <2>2. CASE fresh' = {}
    BY <2>1, <2>2, <1>c, LetsGo DEF Busy, Holds
  <2>3. CASE fresh' # {}
    <3>1. UNCHANGED <<column, fresh>>
      BY <1>13, <2>3 DEF Advance, PutIn
    <3> QED BY <2>1, <3>1, <1>t, <1>a, StaysPut DEF Busy, Holds, Reclaims
  <2> QED BY <2>2, <2>3
<1>14. CASE ListHeld(d)
  <2>1. /\ pc[d] = "listing" /\ pc'[d] \in {"listing", "reconcile", "idle"}
        /\ pc'[d] = "reconcile" => column = S(d).working
        /\ \A e \in Dispatchers : e # d => pc'[e] = pc[e]
        /\ UNCHANGED <<column, log, fresh, host>>
    BY <1>14, <1>t DEF ListHeld, Listed, At, InTime, Answered, FailsOrStopped, Fails, Stopped, Goto
  <2> QED BY <2>1, <1>t, <1>a, StaysPut DEF Busy, Holds, Reclaims
<1>15. CASE ReadHeld(d)
  <2>1. /\ pc[d] = "reconcile" /\ pc'[d] \in {"reconcile", "forget", "idle"}
        /\ pc'[d] = "forget" => OwnClaimStands(d)
        /\ \A e \in Dispatchers : e # d => pc'[e] = pc[e]
        /\ UNCHANGED <<column, log, fresh, host>>
    BY <1>15, <1>t DEF ReadHeld, At, InTime, Answered, FailsOrStopped, Fails, Stopped, Goto
  <2>2. CASE pc'[d] # "forget"
    BY <2>1, <2>2, <1>t, <1>a, StaysPut DEF Busy, Holds, Reclaims, Exclusive, StillListed, At
  <2>3. CASE pc'[d] = "forget"
    <3>1. PICK i \in Claims : log[i].host = Host[d]
      <4>1. HeldByHost(log) = Host[d] /\ HeldByHost(log) # "" /\ log \in Seq(Comments)
        BY <2>1, <2>3, Routes DEF OwnClaimStands, TypeOK, Comments
      <4> QED BY <4>1, HeldByStands DEF Claims
    <3>2. PICK e \in Dispatchers : /\ column = S(e).working
                                   /\ \A j \in Claims : ClaimOf(j, e)
                                   /\ \A f \in Dispatchers : Busy(f) => f = e
      BY <3>1 DEF Exclusive, ClaimsOfOne, Busy
    <3>3. e = d
      <4>1. CASE Alone(d)
        BY <3>1, <3>2, <4>1 DEF Alone, ClaimOf
      <4>2. CASE OwnBench(d)
        BY <2>1, <3>2, <4>2 DEF OwnBench, Exclusive, StillListed, At
      <4> QED BY <4>1, <4>2 DEF ExclusiveSetting
    <3>4. \A f \in Dispatchers : Busy(f)' => f = d
      BY <2>1, <3>2, <3>3 DEF Busy, Holds, Reclaims
    <3>5. Claims' = Claims /\ \A j \in Claims : ClaimOf(j, d)'
      BY <2>1, <1>a, <3>2, <3>3 DEF ClaimOf
    <3>6. OnTheBench' /\ AtMostOne' /\ ClaimsOfOne'
      BY <2>1, <3>2, <3>3, <3>4, <3>5 DEF OnTheBench, AtMostOne, ClaimsOfOne, Busy, S
    <3>7. VersionsOfTheQueue'
      BY <2>1 DEF Exclusive, VersionsOfTheQueue, S
    <3>8. ClosedBeforeMoved' /\ ClaimedWhileWorked'
      BY <2>1, <2>3, <3>4, <3>5
         DEF Exclusive, ClosedBeforeMoved, ClaimedWhileWorked, At, Busy, Holds, Reclaims
    <3>9. StillListed' /\ NoAppends'
      BY <2>1, <2>3 DEF Exclusive, StillListed, NoAppends, At, OwnBench, S
    <3> QED BY <3>6, <3>7, <3>8, <3>9 DEF Exclusive
  <2> QED BY <2>2, <2>3
<1>16. CASE ForgetAttempt(d)
  <2>1. /\ pc[d] = "forget" /\ pc'[d] \in {"forget", "requeue"}
        /\ \A e \in Dispatchers : e # d => pc'[e] = pc[e]
        /\ UNCHANGED <<column, host>>
    BY <1>16, <1>p, CallTypes DEF ForgetAttempt, At
  <2>2. \/ Claims' = {} /\ fresh' = {}
        \/ Stopping(d) /\ UNCHANGED <<log, fresh>>
    BY <1>16, AfterPost DEF ForgetAttempt, Post, FailsOrStopped, Fails, Stopped, ExclusiveSetting
  <2> QED BY <2>1, <2>2, <1>t, <1>a, StaysPut DEF Busy, Holds, Reclaims
<1>17. CASE Requeue(d)
  <2>1. /\ pc[d] = "requeue" /\ pc'[d] = "idle"
        /\ \A e \in Dispatchers : e # d => pc'[e] = pc[e]
        /\ UNCHANGED <<log, host>>
    BY <1>17, <1>t DEF Requeue, At, InTime, Answered, FailsOrStopped, Fails, Stopped, Goto,
       ExclusiveSetting
  <2>2. CASE PutIn(S(d).ready) /\ ~Stopping(d)
    <3>1. Claims = {}
      BY <2>1, <2>2 DEF Exclusive, ClosedBeforeMoved, At
    <3> QED BY <2>1, <2>2, <3>1, LetsGo DEF Busy, Reclaims, PutIn
  <2>3. CASE ~(PutIn(S(d).ready) /\ ~Stopping(d))
    <3>1. UNCHANGED <<column, fresh>>
      BY <1>17, <2>3 DEF Requeue, InTime
    <3> QED BY <2>1, <3>1, <1>t, <1>a, StaysPut DEF Busy, Holds, Reclaims
  <2> QED BY <2>2, <2>3
<1> QED
  BY <1>1, <1>2, <1>3, <1>4, <1>5, <1>6, <1>7, <1>8, <1>9, <1>10, <1>11, <1>12, <1>13,
     <1>14, <1>15, <1>16, <1>17 DEF Step

(* A process that ends drops what it had and touches neither the ticket nor *)
(* its comments; one that starts has nothing.                               *)
LEMMA HostStepExclusive ==
  ASSUME TypeOK, Exclusive, NEW h \in Hosts, Kill(h) \/ Stop(h) \/ Exit(h) \/ Restart(h)
  PROVE  Exclusive'
<1>1. UNCHANGED <<column, log, fresh>> /\ Claims' = Claims
  BY DEF Kill, Stop, Exit, Restart, ticket, Claims
<1>2. \A d \in Dispatchers : pc'[d] = pc[d] \/ pc'[d] \in {"down", "listing"}
  BY DEF Kill, Stop, Exit, Restart, Down, TypeOK
<1>3. \A d \in Dispatchers : Busy(d)' => Busy(d)
  BY <1>2 DEF Busy, Holds, Reclaims
<1>4. OnTheBench' /\ AtMostOne' /\ VersionsOfTheQueue'
  BY <1>1, <1>3 DEF Exclusive, OnTheBench, AtMostOne, VersionsOfTheQueue, Busy, S
<1>5. ClaimsOfOne'
  <2>1. \A i \in Claims, d \in Dispatchers : ClaimOf(i, d)' <=> ClaimOf(i, d)
    BY <1>1 DEF ClaimOf
  <2> QED BY <1>1, <1>3, <2>1 DEF Exclusive, ClaimsOfOne, Busy, S
<1>6. ASSUME NEW d \in Dispatchers, pc'[d] = "requeue", Stopping(d) PROVE Stopping(d)'
  <2>1. host \in [Hosts -> {"up", "stopping", "down"}] /\ Host[d] \in Hosts
    BY DEF TypeOK, Hosts
  <2>2. pc \in [Dispatchers -> ControlPoints]
    BY DEF TypeOK
  <2>3. CASE h = Host[d]
    BY <1>6, <2>1, <2>2, <2>3 DEF Kill, Stop, Exit, Restart, Down, Stopping
  <2>4. CASE h # Host[d]
    BY <1>6, <2>1, <2>4 DEF Kill, Stop, Exit, Restart, Down, Stopping
  <2> QED BY <2>3, <2>4
<1>7. ClosedBeforeMoved'
  BY <1>1, <1>2, <1>6 DEF Exclusive, ClosedBeforeMoved, At
<1>8. ClaimedWhileWorked' /\ StillListed' /\ NoAppends'
  BY <1>1, <1>2 DEF Exclusive, ClaimedWhileWorked, StillListed, NoAppends, At, OwnBench, S
<1> QED BY <1>4, <1>5, <1>7, <1>8 DEF Exclusive

LEMMA InitExclusive == Init => Exclusive
<1> SUFFICES ASSUME Init PROVE Exclusive
  OBVIOUS
<1>1. Claims = {}
  BY DEF Init, Claims, Standing
<1>2. \A d \in Dispatchers : pc[d] = "listing"
  BY DEF Init
<1>3. fresh = {}
  BY DEF Init
<1> QED
  BY <1>1, <1>2, <1>3
     DEF Exclusive, OnTheBench, AtMostOne, VersionsOfTheQueue, ClaimsOfOne, ClosedBeforeMoved,
         ClaimedWhileWorked, StillListed, NoAppends, Holds, Reclaims, At

LEMMA NextExclusive ==
  ExclusiveSetting /\ TypeOK /\ TypeOK' /\ Exclusive /\ [Next]_vars => Exclusive'
<1> SUFFICES ASSUME ExclusiveSetting, TypeOK, TypeOK', Exclusive, [Next]_vars PROVE Exclusive'
  OBVIOUS
<1>1. ASSUME NEW d \in Dispatchers, Step(d) PROVE Exclusive'
  BY <1>1, StepExclusive
<1>2. ASSUME NEW h \in Hosts, Kill(h) \/ Stop(h) \/ Exit(h) \/ Restart(h) PROVE Exclusive'
  BY <1>2, HostStepExclusive
<1>3. CASE Tick \/ UNCHANGED vars
  <2>1. UNCHANGED <<column, log, fresh, host, pc>>
    BY <1>3 DEF Tick, vars, ticket
  <2> QED
    BY <2>1
       DEF Exclusive, OnTheBench, AtMostOne, VersionsOfTheQueue, ClaimsOfOne, ClosedBeforeMoved,
           ClaimedWhileWorked, StillListed, NoAppends, Holds, Reclaims, At, Claims, ClaimOf,
           Stopping, OwnBench, S
<1> QED BY <1>1, <1>2, <1>3 DEF Next

(* The inductive invariant, in the setting of ExclusiveClaim: the column,   *)
(* the comments, the versions and the dispatchers stay in step (dispatch.go,*)
(* claim.go) whatever fails, dies, stops, comes back or is sent twice.      *)
THEOREM StaysInStep == ExclusiveSetting => (Spec => []Exclusive)
<1> SUFFICES ASSUME ExclusiveSetting PROVE Spec => []Exclusive
  OBVIOUS
<1>1. TypeOK /\ TypeOK' /\ Exclusive /\ [Next]_vars => Exclusive'
  BY NextExclusive
<1> QED BY <1>1, InitExclusive, TypeCorrect, PTL DEF Spec

(* Claim takes exclusive ownership (platform/claim.go): of all dispatchers  *)
(* of all hosts at most one is between winning the ticket and putting it    *)
(* down.                                                                    *)
THEOREM ExclusiveOwnership == ExclusiveSetting => (Spec => []OneHolder)
<1>1. Exclusive => OneHolder
  BY DEF Exclusive, AtMostOne, OneHolder
<1> QED BY <1>1, StaysInStep, PTL

(* The column is the claim (dispatch.go): a ticket that is worked is on the *)
(* bench of the stage that works it, out of reach of every other poll.      *)
THEOREM WorkedOnItsBench == ExclusiveSetting => (Spec => []HeldInItsColumn)
<1>1. Exclusive => HeldInItsColumn
  BY DEF Exclusive, OnTheBench, HeldInItsColumn, At, Holds
<1> QED BY <1>1, StaysInStep, PTL

(* HeldBy (record/claim.go) answers with the dispatcher at work, from its   *)
(* claim comment to its close.                                              *)
THEOREM HeldByTellsTheTruth == ExclusiveSetting => (Spec => []BoardNamesTheHolder)
<1>1. TypeOK /\ Exclusive => BoardNamesTheHolder
  <2> SUFFICES ASSUME TypeOK, Exclusive, NEW d \in Dispatchers, pc[d] \in {"verify", "work"}
               PROVE  LET winner == OldestForRole(log, AnyRole)
                      IN winner # 0 /\ log[winner].host = Host[d] /\ log[winner].role = Role[d]
    BY DEF BoardNamesTheHolder
  <2>1. Claims # {} /\ Busy(d)
    BY DEF Exclusive, ClaimedWhileWorked, Busy, Holds
  <2>2. \A i \in Claims : ClaimOf(i, d)
    BY <2>1 DEF Exclusive, ClaimsOfOne, Busy
  <2>3. log \in Seq(Comments)
    BY DEF TypeOK, Comments
  <2>4. OldestForRole(log, AnyRole) \in Claims
    BY <2>1, <2>3, OldestStands DEF Claims
  <2>5. 0 \notin Claims
    BY <2>3, LenProperties DEF Claims, Standing
  <2> QED BY <2>2, <2>4, <2>5 DEF ClaimOf
<1> QED BY <1>1, StaysInStep, TypeCorrect, PTL
-----------------------------------------------------------------------------
(* The claim implements the hand-over.                                     *)

(* The mapped holder is the one dispatcher that has the ticket.             *)
LEMMA HolderIs ==
  ASSUME AtMostOne
  PROVE  /\ \A d \in Dispatchers : Holds(d) <=> Holder = d
         /\ (\A d \in Dispatchers : ~Holds(d)) <=> Holder = Nobody
<1>1. CASE \E d \in Dispatchers : Holds(d)
  <2>1. Holder \in Dispatchers /\ Holds(Holder)
    BY <1>1 DEF Holder
  <2> QED BY <2>1, Bounds DEF AtMostOne
<1>2. CASE \A d \in Dispatchers : ~Holds(d)
  BY <1>2, Bounds DEF Holder
<1> QED BY <1>1, <1>2

LEMMA HolderIsAfter ==
  ASSUME AtMostOne'
  PROVE  /\ \A d \in Dispatchers : Holds(d)' <=> Holder' = d
         /\ (\A d \in Dispatchers : ~Holds(d)') <=> Holder' = Nobody
<1>1. CASE \E d \in Dispatchers : Holds(d)'
  <2>1. Holder' \in Dispatchers /\ pc'[Holder'] \in
          {"attribute", "verify", "relClose", "relMove", "work", "forgive", "close", "note", "move"}
    BY <1>1 DEF Holder, Holds
  <2> QED BY <2>1, Bounds DEF AtMostOne, Holds
<1>2. CASE \A d \in Dispatchers : ~Holds(d)'
  BY <1>2, Bounds DEF Holder
<1> QED BY <1>1, <1>2

(* The two ways a step shows on the abstract hand-over other than Take: the *)
(* holder is the same and the ticket stays, or its holder puts it down.     *)
LEMMA Shows ==
  ASSUME AtMostOne, AtMostOne', NEW d \in Dispatchers,
         \A e \in Dispatchers : e # d => (Holds(e)' <=> Holds(e)),
         \/ column' = column /\ (Holds(d)' <=> Holds(d))
         \/ Holds(d) /\ ~Holds(d)' /\ column' \in Destinations(d) \cup {column}
  PROVE  [Abstract!Next]_<<column, Holder>>
<1>1. CASE column' = column /\ (Holds(d)' <=> Holds(d))
  <2>1. \A e \in Dispatchers : Holds(e)' <=> Holds(e)
    BY <1>1
  <2>2. Holder' = Holder
    <3>1. CASE \E e \in Dispatchers : Holds(e)
      BY <2>1, <3>1, HolderIs, HolderIsAfter
    <3>2. CASE \A e \in Dispatchers : ~Holds(e)
      BY <2>1, <3>2, HolderIs, HolderIsAfter
    <3> QED BY <3>1, <3>2
  <2> QED BY <1>1, <2>2
<1>2. CASE Holds(d) /\ ~Holds(d)' /\ column' \in Destinations(d) \cup {column}
  <2>1. Holder = d /\ \A e \in Dispatchers : ~Holds(e)'
    BY <1>2, HolderIs DEF AtMostOne
  <2>2. Holder' = Nobody
    BY <2>1, HolderIsAfter
  <2>3. Abstract!PutDown(d)
    BY <1>2, <2>1, <2>2
       DEF Abstract!PutDown, Abstract!Destinations, Abstract!S, Destinations, S,
           Abstract!Conflicted, Conflicted, Abstract!NoColumn, NoColumn
  <2> QED BY <2>3 DEF Abstract!Next
<1> QED BY <1>1, <1>2

LEMMA StepShows ==
  ASSUME ExclusiveSetting, TypeOK, Routed, TypeOK', Exclusive, Exclusive',
         NEW d \in Dispatchers, Step(d)
  PROVE  [Abstract!Next]_<<column, Holder>>
<1>0. AtMostOne /\ AtMostOne'
  BY DEF Exclusive
<1>t. pc \in [Dispatchers -> ControlPoints]
  BY DEF TypeOK
<1>n. pc[d] \notin {"append", "arbitrate", "take"}
  BY DEF Exclusive, NoAppends
<1>p. {"down", "listing", "reconcile", "forget", "requeue", "idle", "claim", "cas", "append",
       "arbitrate", "take", "attribute", "verify", "relClose", "relMove", "work", "forgive",
       "close", "note", "move"} = ControlPoints
  BY DEF ControlPoints
<1>e. \A e \in Dispatchers : e # d => (Holds(e)' <=> Holds(e))
  <2>1. \A e \in Dispatchers : e # d => pc'[e] = pc[e]
    BY <1>t
       DEF Step, Pick, ReadForClaim, CompareAndSet, Attribute, AppendClaim, Arbitrate, Take,
           Verify, ReleaseClose, ReleaseMove, Handle, ForgiveAttempt, CloseClaim, Escalate,
           Advance, ListHeld, ReadHeld, ForgetAttempt, Requeue, InTime, Answered,
           FailsOrStopped, Fails, Stopped, Goto
  <2> QED BY <2>1 DEF Holds
<1>s. \/ column' = column /\ (Holds(d)' <=> Holds(d))
      \/ Holds(d) /\ ~Holds(d)' /\ column' \in Destinations(d) \cup {column}
      => [Abstract!Next]_<<column, Holder>>
  BY <1>0, <1>e, Shows

<1>1. CASE Pick(d)
  BY <1>1, <1>t, <1>s DEF Pick, At, Goto, Holds, ticket
<1>2. CASE ReadForClaim(d)
  BY <1>2, <1>p, <1>s, CallTypes DEF ReadForClaim, At, Holds, ticket
<1>3. CASE CompareAndSet(d)
  <2>1. CASE Current(d) /\ PutIn(S(d).working)
    <3>1. column = S(d).ready
      BY <2>1 DEF Current, Exclusive, VersionsOfTheQueue
    <3>2. \A e \in Dispatchers : ~Holds(e)
      BY <3>1, NobodyInTheQueue DEF Busy
    <3>3. Holder = Nobody /\ column' = S(d).working
      BY <2>1, <3>2, <1>0, HolderIs DEF PutIn
    <3>4. pc'[d] \in {"cas", "attribute"} \/ pc'[d] = "idle"
      BY <1>3, <1>p, CallTypes DEF CompareAndSet, At
    <3>5. CASE Holds(d)'
      <4>1. Holder' = d
        BY <3>5, <1>0, HolderIsAfter
      <4> QED BY <3>1, <3>3, <4>1 DEF Abstract!Next, Abstract!Take, Abstract!S, S
    <3>6. CASE ~Holds(d)'
      <4>1. Holder' = Nobody
        BY <3>2, <3>6, <1>0, <1>e, HolderIsAfter
      <4> QED BY <3>1, <3>3, <4>1 DEF Abstract!Next, Abstract!TakeUnaware, Abstract!S, S
    <3> QED BY <3>5, <3>6
  <2>2. CASE ~(Current(d) /\ PutIn(S(d).working))
    <3>1. column' = column /\ pc[d] = "cas" /\ pc'[d] \in {"cas", "idle"}
      BY <1>3, <2>2, <1>t
         DEF CompareAndSet, At, InTime, Answered, FailsOrStopped, Fails, Stopped, Goto
    <3> QED BY <3>1, <1>s DEF Holds
  <2> QED BY <2>1, <2>2
<1>4. CASE Attribute(d)
  BY <1>4, <1>p, <1>s, CallTypes DEF Attribute, At, Holds
<1>5. CASE AppendClaim(d) \/ Arbitrate(d) \/ Take(d)
  BY <1>5, <1>n DEF AppendClaim, Arbitrate, Take, At
<1>6. CASE Verify(d)
  BY <1>6, <1>p, <1>s, CallTypes DEF Verify, At, Holds, ticket
<1>7. CASE ReleaseClose(d)
  BY <1>7, <1>p, <1>s, CallTypes DEF ReleaseClose, At, Holds, ticket
<1>8. CASE ReleaseMove(d)
  <2>1. pc[d] = "relMove" /\ pc'[d] = "idle"
    BY <1>8, <1>t DEF ReleaseMove, At, Answered, Fails, Goto, ExclusiveSetting
  <2>2. column' \in Destinations(d) \cup {column}
    BY <1>8, Routes DEF ReleaseMove, PutIn, Destinations
  <2> QED BY <2>1, <2>2, <1>s DEF Holds
<1>9. ASSUME NEW outcome \in Outcomes, Handle(d, outcome)
      PROVE  [Abstract!Next]_<<column, Holder>>
  <2>1. column' = column
    BY <1>9 DEF Handle, ExclusiveSetting
  <2>2. pc[d] = "work" /\ pc'[d] \in {"forgive", "close"}
    BY <1>9, <1>t DEF Handle, At, Goto
  <2> QED BY <2>1, <2>2, <1>s DEF Holds
<1>10. CASE ForgiveAttempt(d)
  BY <1>10, <1>p, <1>s, CallTypes DEF ForgiveAttempt, At, Holds, ticket
<1>11. CASE CloseClaim(d)
  BY <1>11, <1>p, <1>s, CallTypes DEF CloseClaim, At, Holds, ticket, AfterClose
<1>12. CASE Escalate(d)
  BY <1>12, <1>p, <1>s, CallTypes DEF Escalate, At, Holds, ticket
<1>13. CASE Advance(d)
  <2>1. pc[d] = "move" /\ pc'[d] = "idle"
    BY <1>13, <1>t DEF Advance, At, Answered, Fails, Goto, ExclusiveSetting
  <2>2. column' \in Destinations(d) \cup {column}
    BY <1>13, <2>1 DEF Advance, PutIn, Routed
  <2> QED BY <2>1, <2>2, <1>s DEF Holds
<1>14. CASE ListHeld(d)
  BY <1>14, <1>p, <1>s, CallTypes DEF ListHeld, At, Holds, ticket
<1>15. CASE ReadHeld(d)
  BY <1>15, <1>p, <1>s, CallTypes DEF ReadHeld, At, Holds, ticket
<1>16. CASE ForgetAttempt(d)
  BY <1>16, <1>p, <1>s, CallTypes DEF ForgetAttempt, At, Holds, ticket
<1>17. CASE Requeue(d)
  <2>1. pc[d] = "requeue" /\ pc'[d] = "idle"
    BY <1>17, <1>t DEF Requeue, At, InTime, Answered, FailsOrStopped, Fails, Stopped, Goto,
       ExclusiveSetting
  <2>2. CASE column' = column
    BY <2>1, <2>2, <1>s DEF Holds
  <2>3. CASE column' # column
    <3>1. column = S(d).working /\ column' = S(d).ready
      BY <1>17, <2>1, <2>3
         DEF Requeue, PutIn, Exclusive, OnTheBench, Reclaims
    <3>2. \A e \in Dispatchers : ~Holds(e) /\ ~Holds(e)'
      BY <2>1, <1>0, <1>e DEF AtMostOne, Holds, Reclaims
    <3>3. Holder = Nobody /\ Holder' = Nobody
      BY <3>2, <1>0, HolderIs, HolderIsAfter
    <3> QED BY <3>1, <3>3 DEF Abstract!Next, Abstract!Reclaim, Abstract!S, S
  <2> QED BY <2>2, <2>3
<1> QED
  BY <1>1, <1>2, <1>3, <1>4, <1>5, <1>6, <1>7, <1>8, <1>9, <1>10, <1>11, <1>12, <1>13,
     <1>14, <1>15, <1>16, <1>17 DEF Step

LEMMA HostStepShows ==
  ASSUME TypeOK, Exclusive, Exclusive',
         NEW h \in Hosts, Kill(h) \/ Stop(h) \/ Exit(h) \/ Restart(h)
  PROVE  [Abstract!Next]_<<column, Holder>>
<1>0. AtMostOne /\ AtMostOne' /\ column' = column
  BY DEF Exclusive, Kill, Stop, Exit, Restart, ticket
<1>1. \A d \in Dispatchers : Holds(d)' => Holds(d)
  BY ZenonT(30) DEF Kill, Stop, Exit, Restart, Down, Holds, TypeOK
<1>2. CASE \E d \in Dispatchers : Holds(d)
  <2>1. PICK d \in Dispatchers : Holds(d)
    BY <1>2
  <2>2. \A e \in Dispatchers : e # d => (Holds(e)' <=> Holds(e))
    BY <2>1, <1>0, <1>1 DEF AtMostOne
  <2> QED BY <2>1, <2>2, <1>0, Shows
<1>3. CASE \A d \in Dispatchers : ~Holds(d)
  <2>1. Holder = Nobody /\ Holder' = Nobody
    BY <1>0, <1>1, <1>3, HolderIs, HolderIsAfter
  <2> QED BY <2>1, <1>0
<1> QED BY <1>2, <1>3

LEMMA InitShows == Init => Abstract!Init
<1> SUFFICES ASSUME Init PROVE Abstract!Init
  OBVIOUS
<1>1. \A d \in Dispatchers : ~Holds(d)
  BY DEF Init, Holds
<1>2. Holder = Nobody
  BY <1>1 DEF Holder
<1>3. column \in {Abstract!S(d).ready : d \in Dispatchers}
  BY DEF Init, Abstract!S, S
<1> QED BY <1>2, <1>3 DEF Abstract!Init

LEMMA NextShows ==
  /\ ExclusiveSetting /\ TypeOK /\ TypeOK' /\ Routed /\ Exclusive /\ Exclusive'
  /\ [Next]_vars
  => [Abstract!Next]_<<column, Holder>>
<1> SUFFICES ASSUME ExclusiveSetting, TypeOK, TypeOK', Routed, Exclusive, Exclusive', [Next]_vars
             PROVE  [Abstract!Next]_<<column, Holder>>
  OBVIOUS
<1>1. ASSUME NEW d \in Dispatchers, Step(d) PROVE [Abstract!Next]_<<column, Holder>>
  BY <1>1, StepShows
<1>2. ASSUME NEW h \in Hosts, Kill(h) \/ Stop(h) \/ Exit(h) \/ Restart(h)
      PROVE  [Abstract!Next]_<<column, Holder>>
  BY <1>2, HostStepShows
<1>3. CASE Tick \/ UNCHANGED vars
  <2>1. UNCHANGED <<column, pc>>
    BY <1>3 DEF Tick, vars, ticket
  <2> QED BY <2>1 DEF Holder, Holds
<1> QED BY <1>1, <1>2, <1>3 DEF Next

(* Claiming implements the hand-over of HandOff: taken in one step, put     *)
(* down by the one that has it, and taken back only when nobody has it.     *)
THEOREM ClaimImplementsHandOff == ExclusiveSetting => (Spec => ImplementsHandOff)
<1> SUFFICES ASSUME ExclusiveSetting PROVE Spec => ImplementsHandOff
  OBVIOUS
<1>1. Spec => [](TypeOK /\ Routed)
  BY InitTyped, NextTyped, PTL DEF Spec
<1>2. Spec => []Exclusive
  BY StaysInStep, PTL
<1>3. /\ TypeOK /\ TypeOK' /\ Routed /\ Exclusive /\ Exclusive' /\ [Next]_vars
      => [Abstract!Next]_<<column, Holder>>
  BY NextShows
<1> QED BY <1>1, <1>2, <1>3, InitShows, PTL DEF Spec, ImplementsHandOff, Abstract!Spec, Abstract!vars
-----------------------------------------------------------------------------
(* Without versions: the oldest claim of a role goes on.                   *)

(* A comment that closes nothing of a role leaves its claims standing.      *)
LEMMA ClaimsStayStanding ==
  ASSUME NEW T, NEW thread \in Seq(T), NEW c \in T, NEW role, ~Closes(c, role)
  PROVE  /\ Standing(thread, role) \subseteq Standing(Append(thread, c), role)
         /\ Standing(Append(thread, c), role)
              \subseteq Standing(thread, role) \cup {Len(thread) + 1}
<1> DEFINE new == Append(thread, c)
<1>0. Len(thread) \in Nat /\ DOMAIN thread = 1..Len(thread)
  BY LenProperties
<1>1. /\ DOMAIN new = 1..(Len(thread) + 1) /\ new[Len(thread) + 1] = c
      /\ \A i \in 1..Len(thread) : new[i] = thread[i]
  BY AppendProperties
<1> HIDE DEF new
<1>2. \A j \in 1..(Len(thread) + 1) : j \in 1..Len(thread) \/ j = Len(thread) + 1
  BY <1>0
<1>3. \A j \in 1..Len(thread) : j \in 1..(Len(thread) + 1)
  BY <1>0
<1>4. ASSUME NEW i \in 1..Len(thread)
      PROVE  i \in Standing(new, role) <=> i \in Standing(thread, role)
  BY <1>0, <1>1, <1>2, <1>3 DEF Standing
<1>5. Standing(new, role) \subseteq 1..(Len(thread) + 1) /\ Standing(thread, role) \subseteq 1..Len(thread)
  BY <1>0, <1>1 DEF Standing
<1> QED BY <1>2, <1>4, <1>5 DEF new

(* The winner of a role stays the winner until something closes its claim.  *)
LEMMA WinnerStays ==
  ASSUME NEW T, NEW thread \in Seq(T), NEW c \in T, NEW role, ~Closes(c, role),
         NEW i \in DOMAIN thread, OldestForRole(thread, role) = i
  PROVE  OldestForRole(Append(thread, c), role) = i
<1> DEFINE new == Append(thread, c)
<1>0. Len(thread) \in Nat /\ DOMAIN thread = 1..Len(thread) /\ new \in Seq(T)
  BY LenProperties, AppendProperties
<1>1. i \in 1..Len(thread) /\ i # 0
  BY <1>0
<1>2. Standing(thread, role) # {}
  BY <1>1 DEF OldestForRole
<1>3. i \in Standing(thread, role) /\ \A j \in Standing(thread, role) : i <= j
  BY <1>2, OldestStands
<1>4. i \in Standing(new, role) /\ \A j \in Standing(new, role) : i <= j
  BY <1>0, <1>1, <1>3, ClaimsStayStanding
<1> HIDE DEF new
<1>5. /\ OldestForRole(new, role) \in Standing(new, role)
      /\ \A j \in Standing(new, role) : OldestForRole(new, role) <= j
  BY <1>0, <1>4, OldestStands
<1>6. OldestForRole(new, role) \in Nat
  <2>1. OldestForRole(new, role) \in DOMAIN new
    BY <1>5 DEF Standing
  <2> QED BY <1>0, <2>1, LenProperties
<1>7. i <= OldestForRole(new, role) /\ OldestForRole(new, role) <= i
  BY <1>4, <1>5
<1> QED BY <1>1, <1>6, <1>7 DEF new

(* No claim goes stale before the clock stops.                              *)
LEMMA NothingIsStale ==
  ASSUME TypeOK, StaleAfter >= MaxTime
  PROVE  PruneStale(log, now) = log
<1>1. log \in Seq(Comments) /\ now \in 1..MaxTime /\ MaxTime \in Nat /\ StaleAfter \in Nat
  BY Bounds, StaleAssumption DEF TypeOK, Comments
<1>2. DOMAIN log = 1..Len(log) /\ \A i \in DOMAIN log : log[i] \in Comments
  BY <1>1, LenProperties, ElementOfSeq
<1>3. ASSUME NEW i \in DOMAIN log PROVE ~Stale(log[i], now)
  <2>1. log[i].at \in Nat
    BY <1>2 DEF Comments
  <2>2. log[i].at # 0 => ~(now - log[i].at > StaleAfter)
    BY <1>1, <2>1
  <2> QED BY <2>2 DEF Stale, NoTime
<1>4. PruneStale(log, now) = [i \in DOMAIN log |-> log[i]]
  BY <1>3 DEF PruneStale
<1>5. log = [i \in DOMAIN log |-> log[i]]
  BY <1>1
<1> QED BY <1>4, <1>5

(* As long as nothing fails every call is answered, once.                   *)
LEMMA NothingFails ==
  ASSUME TypeOK, OldestGoesOn, budget' = Budget, NEW d \in Dispatchers,
         budget' = budget \/ Fault
  PROVE  /\ budget = Budget /\ ~Fault /\ ~Stopping(d)
         /\ \A call, place : /\ ~FailsOrStopped(d, call, place) /\ ~Fails(d, call, place)
                             /\ Answered(d, call, place) => Goto(d, place)
                             /\ InTime(d, call, place) => Goto(d, place)
<1>1. budget \in 0..Budget /\ Budget \in Nat
  BY Bounds DEF TypeOK
<1>2. ~Fault
  BY <1>1 DEF Fault
<1>3. budget = Budget
  BY <1>2
<1>4. host[Host[d]] = "up"
  BY <1>3 DEF OldestGoesOn, Hosts
<1> QED BY <1>2, <1>3, <1>4
        DEF Stopping, FailsOrStopped, Fails, Stopped, Answered, InTime

(* What one dispatcher may write without harm to the others: a comment that *)
(* closes no claim of one that goes on, and speaks for no other host.       *)
Harmless(d, c) ==
  /\ log' = Append(log, c) /\ c.host \in {"", Host[d]}
  /\ \A e \in Dispatchers \ {d} : Won(e) => ~Closes(c, Role[e])

Waiting == {"down", "forget", "requeue", "cas", "attribute", "forgive"}

LEMMA LogGrows ==
  ASSUME TypeOK, NEW d \in Dispatchers, NEW c \in Comments, (log' = log) \/ Harmless(d, c)
  PROVE  /\ \A i \in DOMAIN log : i \in DOMAIN log' /\ log'[i] = log[i]
         /\ \A i \in DOMAIN log' : i \in DOMAIN log \/ log'[i].host \in {"", Host[d]}
<1>1. log \in Seq(Comments)
  BY DEF TypeOK, Comments
<1>2. CASE log' = log
  BY <1>2
<1>3. CASE Harmless(d, c)
  <2>2. /\ DOMAIN Append(log, c) = 1..(Len(log) + 1) /\ Append(log, c)[Len(log) + 1] = c
        /\ \A i \in 1..Len(log) : Append(log, c)[i] = log[i]
    BY <1>1, AppendProperties
  <2>3. DOMAIN log = 1..Len(log) /\ Len(log) \in Nat
    BY <1>1, LenProperties
  <2>4. \A i \in 1..(Len(log) + 1) : i \in 1..Len(log) \/ i = Len(log) + 1
    BY <2>3
  <2>5. \A i \in 1..Len(log) : i \in 1..(Len(log) + 1)
    BY <2>3
  <2>6. log' = Append(log, c) /\ c.host \in {"", Host[d]}
    BY <1>3 DEF Harmless
  <2> QED BY <2>2, <2>3, <2>4, <2>5, <2>6, Zenon
<1> QED BY <1>2, <1>3

(* ... and where its own claim lets it go.                                  *)
LEMMA GoesOn ==
  ASSUME TypeOK, OldestGoesOn, budget = Budget, NEW d \in Dispatchers, NEW place, Goto(d, place),
         host' = host, \A e \in Dispatchers \ {d} : mine'[e] = mine[e],
         Alone(d), place \notin Waiting,
         NEW c \in Comments, (log' = log) \/ Harmless(d, c),
         place \in {"listing", "reconcile"} => At(d, "listing") /\ log' = log,
         place \in {"arbitrate", "take", "verify", "work", "close", "relClose"} =>
           mine'[d] \in DOMAIN log' /\ log'[mine'[d]].host = Host[d]
           /\ log'[mine'[d]].role = Role[d],
         place \in {"take", "verify", "work", "close", "relClose"} =>
           OldestForRole(log', Role[d]) = mine'[d]
  PROVE  OldestGoesOn'
<1>1. pc \in [Dispatchers -> ControlPoints] /\ log \in Seq(Comments)
  BY DEF TypeOK, Comments
<1>2. pc'[d] = place /\ \A e \in Dispatchers \ {d} : pc'[e] = pc[e]
  BY <1>1 DEF Goto
<1>4. /\ \A i \in DOMAIN log : i \in DOMAIN log' /\ log'[i] = log[i]
      /\ \A i \in DOMAIN log' : i \in DOMAIN log \/ log'[i].host \in {"", Host[d]}
  BY LogGrows
<1>6. \A h \in Hosts : host'[h] = "up"
  BY DEF OldestGoesOn
<1>7. ASSUME NEW e \in Dispatchers \ {d}
      PROVE  /\ pc'[e] \notin Waiting
             /\ Won(e)' \/ At(e, "arbitrate")' => mine'[e] \in DOMAIN log' /\ ClaimOf(mine[e], e)'
             /\ Won(e)' => OldestForRole(log', Role[e]) = mine'[e]
             /\ pc'[e] \in {"listing", "reconcile"} =>
                  \A i \in DOMAIN log' : log'[i].host # Host[e]
  <2>1. /\ pc[e] \notin Waiting
        /\ Won(e) \/ At(e, "arbitrate") => mine[e] \in DOMAIN log /\ ClaimOf(mine[e], e)
        /\ Won(e) => OldestForRole(log, Role[e]) = mine[e]
        /\ pc[e] \in {"listing", "reconcile"} => \A i \in DOMAIN log : log[i].host # Host[e]
    BY DEF OldestGoesOn, Waiting
  <2>2. /\ pc'[e] = pc[e] /\ mine'[e] = mine[e] /\ (Won(e)' <=> Won(e))
        /\ (At(e, "arbitrate")' <=> At(e, "arbitrate"))
    BY <1>2 DEF Won, At
  <2>3. Won(e) => OldestForRole(log', Role[e]) = mine[e]
    <3>1. CASE Harmless(d, c)
      <4> SUFFICES ASSUME Won(e) PROVE OldestForRole(log', Role[e]) = mine[e]
        OBVIOUS
      <4>2. log' = Append(log, c) /\ ~Closes(c, Role[e])
        BY <3>1 DEF Harmless
      <4>3. mine[e] \in DOMAIN log /\ OldestForRole(log, Role[e]) = mine[e]
        BY <2>1
      <4>4. OldestForRole(Append(log, c), Role[e]) = mine[e]
        BY <1>1, <4>2, <4>3, WinnerStays
      <4> QED BY <4>2, <4>4
    <3> QED BY <2>1, <3>1
  <2>4. Host[e] # "" /\ Host[e] # Host[d]
    BY Routes DEF Alone
  <2>5. Won(e) \/ At(e, "arbitrate") => mine[e] \in DOMAIN log' /\ ClaimOf(mine[e], e)'
    BY <1>4, <2>1, <2>2 DEF ClaimOf
  <2>6. pc[e] \in {"listing", "reconcile"} => \A i \in DOMAIN log' : log'[i].host # Host[e]
    BY <1>4, <2>1, <2>4
  <2> QED BY <2>1, <2>2, <2>3, <2>5, <2>6
<1>8. /\ Won(d)' \/ At(d, "arbitrate")' => mine'[d] \in DOMAIN log' /\ ClaimOf(mine[d], d)'
      /\ Won(d)' => OldestForRole(log', Role[d]) = mine'[d]
      /\ pc'[d] \in {"listing", "reconcile"} => \A i \in DOMAIN log' : log'[i].host # Host[d]
  <2>1. pc'[d] \in {"listing", "reconcile"} => \A i \in DOMAIN log' : log'[i].host # Host[d]
    BY <1>2 DEF OldestGoesOn, At
  <2>2. place \in {"arbitrate", "take", "verify", "work", "close", "relClose"} => ClaimOf(mine[d], d)'
    BY DEF ClaimOf
  <2> QED BY <1>2, <2>1, <2>2 DEF Won, At
<1> QED BY <1>2, <1>6, <1>7, <1>8 DEF OldestGoesOn, Waiting

(* A call of a dispatcher costs nothing or a fault.                         *)
LEMMA CallsCost ==
  ASSUME NEW d \in Dispatchers, Step(d)
  PROVE  budget' = budget \/ Fault
<1> USE DEF InTime, Answered, FailsOrStopped, Fails, Stopped
<1>1. CASE Pick(d) \/ ReadForClaim(d) \/ CompareAndSet(d) \/ Attribute(d)
  BY <1>1 DEF Pick, ReadForClaim, CompareAndSet, Attribute
<1>2. CASE AppendClaim(d) \/ Arbitrate(d) \/ Take(d) \/ Verify(d)
  BY <1>2 DEF AppendClaim, Arbitrate, Take, Verify
<1>3. CASE ReleaseClose(d) \/ ReleaseMove(d) \/ ForgiveAttempt(d) \/ CloseClaim(d)
  BY <1>3 DEF ReleaseClose, ReleaseMove, ForgiveAttempt, CloseClaim
<1>4. CASE Escalate(d) \/ Advance(d) \/ ListHeld(d) \/ ReadHeld(d)
  BY <1>4 DEF Escalate, Advance, ListHeld, ReadHeld
<1>5. CASE ForgetAttempt(d) \/ Requeue(d)
  BY <1>5 DEF ForgetAttempt, Requeue
<1>6. CASE \E outcome \in Outcomes : Handle(d, outcome)
  BY <1>6 DEF Handle
<1> QED BY <1>1, <1>2, <1>3, <1>4, <1>5, <1>6 DEF Step

(* A dispatcher that only starts, and whose host has written nothing on the *)
(* ticket, finds no claim of its own there.                                 *)
LEMMA NothingOfItsOwn ==
  ASSUME TypeOK, NEW d \in Dispatchers, \A i \in DOMAIN log : log[i].host # Host[d]
  PROVE  ~OwnClaimStands(d)
<1> SUFFICES ASSUME HeldByHost(log) = Host[d] PROVE FALSE
  BY DEF OwnClaimStands
<1>1. HeldByHost(log) # "" /\ log \in Seq(Comments)
  BY Routes DEF TypeOK, Comments
<1>2. PICK i \in Standing(log, AnyRole) : log[i].host = HeldByHost(log)
  BY <1>1, HeldByStands
<1> QED BY <1>2 DEF Standing

(* The calls that write no comment.                                         *)
LEMMA QuietStepGoesOn ==
  ASSUME AppendSetting, TypeOK, OldestGoesOn, budget' = Budget, NEW d \in Dispatchers, Step(d),
         \/ Pick(d) \/ ReadForClaim(d) \/ Arbitrate(d) \/ Take(d) \/ Verify(d)
         \/ ReleaseMove(d) \/ Advance(d) \/ ListHeld(d) \/ ReadHeld(d)
  PROVE  OldestGoesOn'
<1>1. /\ budget = Budget /\ ~Stopping(d) /\ Alone(d) /\ ~Conditional /\ StaleAfter >= MaxTime
      /\ \A call, place : /\ ~FailsOrStopped(d, call, place) /\ ~Fails(d, call, place)
                          /\ Answered(d, call, place) => Goto(d, place)
                          /\ InTime(d, call, place) => Goto(d, place)
  BY CallsCost, NothingFails DEF AppendSetting
<1>2. /\ Won(d) \/ At(d, "arbitrate") => mine[d] \in DOMAIN log /\ ClaimOf(mine[d], d)
      /\ Won(d) => OldestForRole(log, Role[d]) = mine[d]
      /\ pc[d] \in {"listing", "reconcile"} => \A i \in DOMAIN log : log[i].host # Host[d]
  BY <1>1 DEF OldestGoesOn
<1>3. host' = host /\ mine' = mine /\ log' = log
  BY <1>1 DEF Pick, ReadForClaim, Arbitrate, Take, Verify, ReleaseMove, Advance, ListHeld, ReadHeld,
              ticket, local
<1>4. now \in 1..MaxTime
  BY DEF TypeOK
<1>5. Note \in Comments
  BY <1>4, CommentTypes
<1>6. ASSUME NEW place, Goto(d, place), place \notin Waiting,
             place \in {"listing", "reconcile"} => At(d, "listing"),
             place \in {"arbitrate", "take", "verify", "work", "close", "relClose"} =>
               Won(d) \/ At(d, "arbitrate"),
             place \in {"take", "verify", "work", "close", "relClose"} =>
               OldestForRole(log, Role[d]) = mine[d]
      PROVE  OldestGoesOn'
  BY <1>1, <1>2, <1>3, <1>5, <1>6, GoesOn DEF ClaimOf
<1>7. CASE Pick(d)
  BY <1>6, <1>7 DEF Pick, Waiting
<1>8. CASE ReadForClaim(d)
  <2>1. Goto(d, "append") \/ Goto(d, "idle")
    BY <1>1, <1>8 DEF ReadForClaim
  <2> QED BY <1>6, <2>1 DEF Waiting
<1>9. CASE Arbitrate(d)
  <2>1. Goto(d, IF Winner(d) = mine[d] THEN "take" ELSE "idle") /\ At(d, "arbitrate")
    BY <1>1, <1>9 DEF Arbitrate
  <2>2. Winner(d) = OldestForRole(log, Role[d])
    BY <1>1, NothingIsStale DEF Winner
  <2> QED BY <1>6, <2>1, <2>2 DEF Waiting
<1>10. CASE Take(d)
  <2>1. Goto(d, "verify") /\ At(d, "take")
    BY <1>1, <1>10 DEF Take
  <2> QED BY <1>2, <1>6, <2>1 DEF Waiting, Won, At
<1>11. CASE Verify(d)
  <2>1. (Goto(d, "work") \/ Goto(d, "relClose")) /\ At(d, "verify")
    BY <1>1, <1>11 DEF Verify
  <2> QED BY <1>2, <1>6, <2>1 DEF Waiting, Won, At
<1>12. CASE ReleaseMove(d) \/ Advance(d)
  <2>1. Goto(d, "idle")
    BY <1>1, <1>12 DEF ReleaseMove, Advance
  <2> QED BY <1>6, <2>1 DEF Waiting
<1>13. CASE ListHeld(d)
  <2>1. (Goto(d, "reconcile") \/ Goto(d, "idle")) /\ At(d, "listing")
    BY <1>1, <1>13 DEF ListHeld
  <2> QED BY <1>6, <2>1 DEF Waiting
<1>14. CASE ReadHeld(d)
  <2>1. Goto(d, IF OwnClaimStands(d) THEN "forget" ELSE "idle") /\ At(d, "reconcile")
    BY <1>1, <1>14 DEF ReadHeld
  <2>2. ~OwnClaimStands(d)
    BY <1>2, <2>1, NothingOfItsOwn DEF At
  <2> QED BY <1>6, <2>1, <2>2 DEF Waiting
<1> QED BY <1>7, <1>8, <1>9, <1>10, <1>11, <1>12, <1>13, <1>14

(* Whoever closes its claim closes no claim of another that goes on: two of *)
(* one role would have the same oldest claim.                               *)
LEMMA ClosesItsOwn ==
  ASSUME TypeOK, OldestGoesOn, budget = Budget, NEW d \in Dispatchers, Alone(d), Won(d),
         log' = Append(log, Close(d))
  PROVE  Close(d) \in Comments /\ Harmless(d, Close(d))
<1>1. now \in 1..MaxTime
  BY DEF TypeOK
<1>2. Close(d) \in Comments /\ Close(d).kind = "close" /\ Close(d).host = "" /\ Close(d).role = Role[d]
  BY <1>1, CommentTypes DEF Close, Comment
<1>3. ASSUME NEW e \in Dispatchers \ {d}, Won(e), Closes(Close(d), Role[e]) PROVE FALSE
  <2>1. Role[e] # AnyRole
    BY Routes
  <2>2. Role[e] = Role[d]
    BY <1>2, <1>3, <2>1 DEF Closes, Resets
  <2>3. ClaimOf(mine[d], d) /\ ClaimOf(mine[e], e)
        /\ OldestForRole(log, Role[d]) = mine[d] /\ OldestForRole(log, Role[e]) = mine[e]
    BY <1>3 DEF OldestGoesOn
  <2>4. Host[d] = Host[e]
    BY <2>2, <2>3 DEF ClaimOf
  <2> QED BY <2>4 DEF Alone
<1> QED BY <1>2, <1>3 DEF Harmless

(* The calls that write one, and the return of the handler.                 *)
LEMMA WritingStepGoesOn ==
  ASSUME AppendSetting, TypeOK, OldestGoesOn, budget' = Budget, NEW d \in Dispatchers, Step(d),
         \/ AppendClaim(d) \/ ReleaseClose(d) \/ CloseClaim(d) \/ Escalate(d)
         \/ \E outcome \in Outcomes : Handle(d, outcome)
  PROVE  OldestGoesOn'
<1>1. /\ budget = Budget /\ ~Stopping(d) /\ Alone(d)
      /\ "abandoned" \notin Endings[Role[d]] /\ Role[d] \notin Marks
      /\ \A call, place : /\ ~FailsOrStopped(d, call, place) /\ ~Fails(d, call, place)
                          /\ Answered(d, call, place) => Goto(d, place)
                          /\ InTime(d, call, place) => Goto(d, place)
  BY CallsCost, NothingFails DEF AppendSetting, InUse
<1>2. /\ Won(d) => mine[d] \in DOMAIN log /\ ClaimOf(mine[d], d)
      /\ Won(d) => OldestForRole(log, Role[d]) = mine[d]
  BY <1>1 DEF OldestGoesOn
<1>3. host' = host /\ \A e \in Dispatchers \ {d} : mine'[e] = mine[e]
  BY DEF AppendClaim, ReleaseClose, CloseClaim, Escalate, Handle, local, TypeOK
<1>4. now \in 1..MaxTime /\ log \in Seq(Comments)
  BY DEF TypeOK, Comments
<1>5. Note \in Comments /\ Note.kind = "note" /\ Note.host = ""
  BY <1>4, CommentTypes DEF Note, Comment
<1>6. CASE AppendClaim(d)
  <2>1. Goto(d, "arbitrate") /\ log' = Append(log, Claim(d)) /\ mine' = [mine EXCEPT ![d] = Len(log) + 1]
    BY <1>1, <1>6 DEF AppendClaim, Post
  <2>2. Claim(d) \in Comments /\ Claim(d).kind = "claim" /\ Claim(d).host = Host[d] /\ Claim(d).role = Role[d]
    BY <1>4, CommentTypes
  <2>3. Harmless(d, Claim(d))
    BY <2>1, <2>2 DEF Harmless, Closes, Resets
  <2>4. mine'[d] = Len(log) + 1
    BY <2>1 DEF TypeOK
  <2>5. mine'[d] \in DOMAIN log' /\ log'[mine'[d]] = Claim(d)
    <3>1. Len(log) + 1 \in DOMAIN Append(log, Claim(d)) /\ Append(log, Claim(d))[Len(log) + 1] = Claim(d)
      BY <1>4, <2>2, AppendProperties, LenProperties
    <3> QED BY <2>1, <2>4, <3>1
  <2> QED BY <1>1, <1>3, <2>1, <2>2, <2>3, <2>5, GoesOn DEF Waiting
<1>7. CASE ReleaseClose(d)
  <2>1. Goto(d, "relMove") /\ log' = Append(log, Close(d)) /\ Won(d)
    BY <1>1, <1>7 DEF ReleaseClose, Post, Won, At
  <2>2. Close(d) \in Comments /\ Harmless(d, Close(d))
    BY <1>1, <2>1, ClosesItsOwn
  <2> QED BY <1>1, <1>3, <2>1, <2>2, GoesOn DEF Waiting
<1>8. CASE CloseClaim(d)
  <2>1. Goto(d, AfterClose(d)) /\ log' = Append(log, Close(d)) /\ Won(d)
    BY <1>1, <1>8 DEF CloseClaim, Post, Won, At
  <2>2. Close(d) \in Comments /\ Harmless(d, Close(d))
    BY <1>1, <2>1, ClosesItsOwn
  <2>3. AfterClose(d) \in {"idle", "note", "move"}
    BY DEF AfterClose
  <2>4. PICK place \in {"idle", "note", "move"} : Goto(d, place)
    BY <2>1, <2>3
  <2> QED BY <1>1, <1>3, <2>2, <2>4, GoesOn DEF Waiting
<1>9. CASE Escalate(d)
  <2>1. Goto(d, "move") /\ log' = Append(log, Note)
    BY <1>1, <1>9 DEF Escalate, Post
  <2>2. Harmless(d, Note)
    BY <1>5, <2>1 DEF Harmless, Closes, Resets
  <2>3. PICK c \in Comments : c = Note
    BY <1>5
  <2> QED BY <1>1, <1>3, <2>1, <2>2, <2>3, GoesOn DEF Waiting
<1>10. CASE \E outcome \in Outcomes : Handle(d, outcome)
  <2>1. PICK outcome \in Outcomes : Handle(d, outcome)
    BY <1>10
  <2>2. outcome # "abandoned"
    BY <1>1, <2>1 DEF Handle
  <2>3. Goto(d, "close")
    BY <2>1, <2>2 DEF Handle
  <2>4. log' = log /\ mine' = mine /\ Won(d)
    BY <1>1, <2>1, Zenon DEF Handle, Won, At
  <2>5. mine'[d] \in DOMAIN log' /\ log'[mine'[d]].host = Host[d] /\ log'[mine'[d]].role = Role[d]
        /\ OldestForRole(log', Role[d]) = mine'[d]
    BY <1>2, <2>4 DEF ClaimOf
  <2>6. PICK c \in Comments : TRUE
    BY <1>5
  <2> QED BY <1>1, <1>3, <2>3, <2>4, <2>5, <2>6, GoesOn DEF Waiting
<1> QED BY <1>6, <1>7, <1>8, <1>9, <1>10

(* Nobody is where the conditional claim, an interruption or a reconcile    *)
(* that finds a claim would take it.                                        *)
LEMMA StepGoesOn ==
  ASSUME AppendSetting, TypeOK, OldestGoesOn, NEW d \in Dispatchers, Step(d)
  PROVE  OldestGoesOn'
<1> SUFFICES ASSUME budget' = Budget PROVE OldestGoesOn'
  BY DEF OldestGoesOn
<1>1. pc[d] \notin Waiting
  <2>1. budget = Budget
    BY CallsCost, NothingFails
  <2> QED BY <2>1 DEF OldestGoesOn, Waiting
<1>2. /\ ~CompareAndSet(d) /\ ~Attribute(d) /\ ~ForgiveAttempt(d)
      /\ ~ForgetAttempt(d) /\ ~Requeue(d)
  BY <1>1 DEF CompareAndSet, Attribute, ForgiveAttempt, ForgetAttempt, Requeue, At, Waiting
<1>3. CASE \/ Pick(d) \/ ReadForClaim(d) \/ Arbitrate(d) \/ Take(d) \/ Verify(d)
           \/ ReleaseMove(d) \/ Advance(d) \/ ListHeld(d) \/ ReadHeld(d)
  BY <1>3, QuietStepGoesOn
<1>4. CASE \/ AppendClaim(d) \/ ReleaseClose(d) \/ CloseClaim(d) \/ Escalate(d)
           \/ \E outcome \in Outcomes : Handle(d, outcome)
  BY <1>4, WritingStepGoesOn
<1> QED BY <1>2, <1>3, <1>4 DEF Step

(* A kill and a stop are faults, and only after one is a host not up.       *)
LEMMA HostStepGoesOn ==
  ASSUME TypeOK, OldestGoesOn, NEW h \in Hosts, Kill(h) \/ Stop(h) \/ Exit(h) \/ Restart(h)
  PROVE  OldestGoesOn'
<1> SUFFICES ASSUME budget' = Budget PROVE FALSE
  BY DEF OldestGoesOn
<1>1. ~Fault
  <2>1. budget \in 0..Budget /\ Budget \in Nat
    BY Bounds DEF TypeOK
  <2> QED BY <2>1 DEF Fault
<1>2. Exit(h) \/ Restart(h)
  BY <1>1 DEF Kill, Stop
<1>3. host[h] = "up"
  BY <1>2 DEF OldestGoesOn, Exit, Restart
<1> QED BY <1>2, <1>3 DEF Exit, Restart

LEMMA InitGoesOn == Init => OldestGoesOn
<1> SUFFICES ASSUME Init PROVE OldestGoesOn
  OBVIOUS
<1>1. \A h \in Hosts : host[h] = "up"
  BY DEF Init
<1>2. \A d \in Dispatchers : pc[d] = "listing"
  BY DEF Init
<1>3. DOMAIN log = {}
  BY EmptySeq DEF Init
<1> QED BY <1>1, <1>2, <1>3 DEF OldestGoesOn, Won, At

LEMMA NextGoesOn ==
  AppendSetting /\ TypeOK /\ OldestGoesOn /\ [Next]_vars => OldestGoesOn'
<1> SUFFICES ASSUME AppendSetting, TypeOK, OldestGoesOn, [Next]_vars PROVE OldestGoesOn'
  OBVIOUS
<1>1. ASSUME NEW d \in Dispatchers, Step(d) PROVE OldestGoesOn'
  BY <1>1, StepGoesOn
<1>2. ASSUME NEW h \in Hosts, Kill(h) \/ Stop(h) \/ Exit(h) \/ Restart(h) PROVE OldestGoesOn'
  BY <1>2, HostStepGoesOn
<1>3. CASE Tick \/ UNCHANGED vars
  <2>1. UNCHANGED <<log, host, pc, mine, budget>>
    BY <1>3 DEF Tick, vars, ticket, local
  <2> QED BY <2>1 DEF OldestGoesOn, Won, At, ClaimOf
<1> QED BY <1>1, <1>2, <1>3 DEF Next

(* Without versions, any number of hosts that append their claims at the    *)
(* same time: as long as nothing fails, no two handlers of one role work    *)
(* the ticket at once.                                                      *)
THEOREM OneGoesOn == AppendSetting => (Spec => []OneWorkerPerRole)
<1> SUFFICES ASSUME AppendSetting PROVE Spec => []OneWorkerPerRole
  OBVIOUS
<1>1. TypeOK /\ OldestGoesOn => OneWorkerPerRole
  <2> SUFFICES ASSUME TypeOK, OldestGoesOn, budget = Budget,
                      NEW d \in Dispatchers, NEW e \in Dispatchers,
                      At(d, "work"), At(e, "work"), Role[d] = Role[e]
               PROVE  d = e
    BY DEF OneWorkerPerRole
  <2>1. /\ ClaimOf(mine[d], d) /\ OldestForRole(log, Role[d]) = mine[d]
        /\ ClaimOf(mine[e], e) /\ OldestForRole(log, Role[e]) = mine[e]
    BY DEF OldestGoesOn, Won, At
  <2>2. Host[d] = Host[e]
    BY <2>1 DEF ClaimOf
  <2> QED BY <2>2 DEF AppendSetting, Alone
<1>2. TypeOK /\ OldestGoesOn /\ [Next]_vars => OldestGoesOn'
  BY NextGoesOn
<1> QED BY <1>1, <1>2, InitGoesOn, TypeCorrect, PTL DEF Spec
-----------------------------------------------------------------------------
(* The count of attempts.                                                  *)

(* The claims of a role since the last reset, and those of them that have   *)
(* not gone stale.                                                          *)
Round(thread, role) ==
  {i \in DOMAIN thread : /\ thread[i].kind = "claim" /\ thread[i].role = role
                         /\ \A j \in DOMAIN thread : j > i => thread[j].kind \notin Resets}

Living(thread, role, time) == {i \in Round(thread, role) : ~Stale(thread[i], time)}

SpentBy(thread, role, time) == Attempts(PruneStale(thread, time), role)

LEMMA CountsAre ==
  ASSUME NEW thread, NEW role, NEW time
  PROVE  /\ Attempts(thread, role) = Cardinality(Round(thread, role))
         /\ SpentBy(thread, role, time) = Cardinality(Living(thread, role, time))
<1>1. Attempts(thread, role) = Cardinality(Round(thread, role))
  BY DEF Attempts, Round
<1> DEFINE pruned == PruneStale(thread, time)
<1>2. /\ DOMAIN pruned = DOMAIN thread
      /\ \A i \in DOMAIN thread :
           pruned[i] = IF Stale(thread[i], time) THEN Comment("note", "", AnyRole, thread[i].at) ELSE thread[i]
  BY DEF PruneStale
<1> HIDE DEF pruned
<1>3. \A i \in DOMAIN thread : Stale(thread[i], time) => thread[i].kind = "claim" /\ pruned[i].kind = "note"
  <2>1. \A i \in DOMAIN thread : Stale(thread[i], time) => thread[i].kind = "claim"
    BY Zenon DEF Stale
  <2>2. \A at : Comment("note", "", AnyRole, at).kind = "note"
    BY DEF Comment
  <2> QED BY <1>2, <2>1, <2>2
<1>4. \A i \in DOMAIN thread : pruned[i].kind \in Resets <=> thread[i].kind \in Resets
  BY <1>2, <1>3 DEF Resets
<1>5. \A i \in DOMAIN thread : pruned[i].kind = "claim" /\ pruned[i].role = role
         <=> thread[i].kind = "claim" /\ thread[i].role = role /\ ~Stale(thread[i], time)
  BY <1>2, <1>3
<1>6. Round(pruned, role) = Living(thread, role, time)
  BY <1>2, <1>4, <1>5 DEF Round, Living
<1>7. Attempts(pruned, role) = Cardinality(Round(pruned, role))
  BY DEF Attempts, Round
<1> QED BY <1>1, <1>6, <1>7 DEF SpentBy, pruned

LEMMA RoundIsFinite ==
  ASSUME NEW T, NEW thread \in Seq(T), NEW role, NEW time
  PROVE  /\ Round(thread, role) \subseteq 1..Len(thread) /\ IsFiniteSet(Round(thread, role))
         /\ Living(thread, role, time) \subseteq Round(thread, role)
         /\ IsFiniteSet(Living(thread, role, time))
<1>1. Len(thread) \in Nat /\ DOMAIN thread = 1..Len(thread)
  BY LenProperties
<1>2. Round(thread, role) \subseteq 1..Len(thread)
  BY <1>1 DEF Round
<1>3. IsFiniteSet(1..Len(thread))
  BY <1>1, FS_Interval
<1>4. Living(thread, role, time) \subseteq Round(thread, role)
  BY DEF Living
<1>5. IsFiniteSet(Round(thread, role))
  BY <1>2, <1>3, FS_Subset
<1> QED BY <1>2, <1>4, <1>5, FS_Subset

LEMMA CountBounds ==
  ASSUME NEW thread \in Seq(Comments), NEW role, NEW time \in Nat
  PROVE  /\ Attempts(thread, role) \in Nat /\ SpentBy(thread, role, time) \in Nat
         /\ SpentBy(thread, role, time) <= Attempts(thread, role)
         /\ SpentBy(thread, role, time + 1) \in Nat
         /\ SpentBy(thread, role, time + 1) <= SpentBy(thread, role, time)
<1>1. \A i \in Round(thread, role) : thread[i].at \in Nat
  <2>1. \A i \in DOMAIN thread : thread[i] \in Comments
    BY ElementOfSeq, LenProperties
  <2> QED BY <2>1 DEF Round, Comments
<1>2. \A i \in Round(thread, role) : Stale(thread[i], time) => Stale(thread[i], time + 1)
  <2> SUFFICES ASSUME NEW i \in Round(thread, role), Stale(thread[i], time)
               PROVE  Stale(thread[i], time + 1)
    OBVIOUS
  <2>1. thread[i].at \in Nat /\ StaleAfter \in Nat
    BY <1>1, StaleAssumption
  <2> QED BY <2>1 DEF Stale
<1>3. Living(thread, role, time + 1) \subseteq Living(thread, role, time)
  BY <1>2 DEF Living
<1>4. /\ IsFiniteSet(Round(thread, role)) /\ IsFiniteSet(Living(thread, role, time))
      /\ IsFiniteSet(Living(thread, role, time + 1))
      /\ Living(thread, role, time) \subseteq Round(thread, role)
  BY RoundIsFinite
<1>5. /\ Cardinality(Round(thread, role)) \in Nat
      /\ Cardinality(Living(thread, role, time)) \in Nat
      /\ Cardinality(Living(thread, role, time + 1)) \in Nat
  BY <1>4, FS_CardinalityType
<1>6. /\ Cardinality(Living(thread, role, time)) <= Cardinality(Round(thread, role))
      /\ Cardinality(Living(thread, role, time + 1)) <= Cardinality(Living(thread, role, time))
  BY <1>3, <1>4, FS_Subset
<1> QED BY <1>5, <1>6, CountsAre

(* What a new comment does to the round.                                    *)
LEMMA RoundAfter ==
  ASSUME NEW thread \in Seq(Comments), NEW c \in Comments, NEW role
  PROVE  /\ c.kind \in Resets => Round(Append(thread, c), role) = {}
         /\ c.kind \notin Resets =>
              Round(Append(thread, c), role) = Round(thread, role) \cup
                (IF c.kind = "claim" /\ c.role = role THEN {Len(thread) + 1} ELSE {})
         /\ \A i \in Round(thread, role) : Append(thread, c)[i] = thread[i]
<1> DEFINE new == Append(thread, c)
<1>0. Len(thread) \in Nat /\ DOMAIN thread = 1..Len(thread)
  BY LenProperties
<1>1. /\ DOMAIN new = 1..(Len(thread) + 1) /\ new[Len(thread) + 1] = c
      /\ \A i \in 1..Len(thread) : new[i] = thread[i]
  BY AppendProperties
<1> HIDE DEF new
<1>2. /\ \A j \in 1..(Len(thread) + 1) : j \in 1..Len(thread) \/ j = Len(thread) + 1
      /\ \A j \in 1..Len(thread) : j \in 1..(Len(thread) + 1) /\ Len(thread) + 1 > j
      /\ Len(thread) + 1 \in 1..(Len(thread) + 1)
      /\ \A j \in 1..(Len(thread) + 1) : ~(j > Len(thread) + 1)
  BY <1>0
<1>3. ASSUME NEW i \in 1..Len(thread), c.kind \notin Resets
      PROVE  i \in Round(new, role) <=> i \in Round(thread, role)
  BY <1>0, <1>1, <1>2, <1>3 DEF Round
<1>4. Len(thread) + 1 \in Round(new, role) <=> c.kind = "claim" /\ c.role = role
  BY <1>1, <1>2 DEF Round
<1>5. Round(new, role) \subseteq 1..(Len(thread) + 1) /\ Round(thread, role) \subseteq 1..Len(thread)
  BY <1>0, <1>1 DEF Round
<1>6. ASSUME c.kind \in Resets PROVE Round(new, role) = {}
  <2>1. c.kind # "claim"
    BY <1>6 DEF Resets
  <2>2. \A i \in 1..Len(thread) : i \notin Round(new, role)
    BY <1>1, <1>2, <1>6 DEF Round
  <2> QED BY <1>2, <1>4, <1>5, <2>1, <2>2
<1>7. ASSUME c.kind \notin Resets
      PROVE  Round(new, role) = Round(thread, role) \cup
               (IF c.kind = "claim" /\ c.role = role THEN {Len(thread) + 1} ELSE {})
  BY <1>2, <1>3, <1>4, <1>5, <1>7
<1> QED BY <1>1, <1>5, <1>6, <1>7 DEF new

(* ... and to the counts.                                                   *)
LEMMA CountAfter ==
  ASSUME NEW thread \in Seq(Comments), NEW c \in Comments, NEW role, NEW time \in Nat
  PROVE  /\ c.kind \in Resets => /\ Attempts(Append(thread, c), role) = 0
                                /\ SpentBy(Append(thread, c), role, time) = 0
         /\ c.kind \in {"close", "note"} =>
              /\ Attempts(Append(thread, c), role) = Attempts(thread, role)
              /\ SpentBy(Append(thread, c), role, time) = SpentBy(thread, role, time)
         /\ c.kind = "claim" /\ c.role # role =>
              /\ Attempts(Append(thread, c), role) = Attempts(thread, role)
              /\ SpentBy(Append(thread, c), role, time) = SpentBy(thread, role, time)
         /\ c.kind = "claim" /\ c.role = role =>
              /\ Attempts(Append(thread, c), role) = Attempts(thread, role) + 1
              /\ SpentBy(Append(thread, c), role, time) <= SpentBy(thread, role, time) + 1
<1> DEFINE new == Append(thread, c)
<1>0. Len(thread) \in Nat /\ new \in Seq(Comments)
  BY LenProperties, AppendProperties
<1>1. /\ Attempts(thread, role) = Cardinality(Round(thread, role))
      /\ SpentBy(thread, role, time) = Cardinality(Living(thread, role, time))
      /\ Attempts(new, role) = Cardinality(Round(new, role))
      /\ SpentBy(new, role, time) = Cardinality(Living(new, role, time))
  BY CountsAre
<1>2. /\ c.kind \in Resets => Round(new, role) = {}
      /\ c.kind \notin Resets =>
           Round(new, role) = Round(thread, role) \cup
             (IF c.kind = "claim" /\ c.role = role THEN {Len(thread) + 1} ELSE {})
      /\ \A i \in Round(thread, role) : new[i] = thread[i]
  BY RoundAfter
<1>3. /\ IsFiniteSet(Round(thread, role)) /\ Round(thread, role) \subseteq 1..Len(thread)
      /\ IsFiniteSet(Living(thread, role, time)) /\ Living(thread, role, time) \subseteq Round(thread, role)
      /\ IsFiniteSet(Living(new, role, time))
  BY <1>0, RoundIsFinite
<1>4. Len(thread) + 1 \notin Round(thread, role) /\ Len(thread) + 1 \notin Living(thread, role, time)
  BY <1>0, <1>3
<1>5. /\ Cardinality(Round(thread, role) \cup {Len(thread) + 1}) = Cardinality(Round(thread, role)) + 1
      /\ Cardinality(Living(thread, role, time) \cup {Len(thread) + 1})
           = Cardinality(Living(thread, role, time)) + 1
      /\ IsFiniteSet(Living(thread, role, time) \cup {Len(thread) + 1})
  BY <1>3, <1>4, FS_AddElement
<1>6. Cardinality({}) = 0
  BY FS_EmptySet
<1> HIDE DEF new
<1>7. ASSUME c.kind \in Resets
      PROVE  Attempts(new, role) = 0 /\ SpentBy(new, role, time) = 0
  <2>1. Round(new, role) = {} /\ Living(new, role, time) = {}
    BY <1>2, <1>7 DEF Living
  <2> QED BY <1>1, <1>6, <2>1
<1>8. ASSUME c.kind \notin Resets, ~(c.kind = "claim" /\ c.role = role)
      PROVE  /\ Attempts(new, role) = Attempts(thread, role)
             /\ SpentBy(new, role, time) = SpentBy(thread, role, time)
  <2>1. Round(new, role) = Round(thread, role)
    BY <1>2, <1>8
  <2>2. Living(new, role, time) = Living(thread, role, time)
    BY <1>2, <2>1 DEF Living
  <2> QED BY <1>1, <2>1, <2>2
<1>9. ASSUME c.kind = "claim", c.role = role
      PROVE  /\ Attempts(new, role) = Attempts(thread, role) + 1
             /\ SpentBy(new, role, time) <= SpentBy(thread, role, time) + 1
  <2>1. Round(new, role) = Round(thread, role) \cup {Len(thread) + 1}
    BY <1>2, <1>9 DEF Resets
  <2>2. Living(new, role, time) \subseteq Living(thread, role, time) \cup {Len(thread) + 1}
    BY <1>2, <2>1 DEF Living
  <2>3. Cardinality(Living(new, role, time)) <= Cardinality(Living(thread, role, time) \cup {Len(thread) + 1})
    BY <1>5, <2>2, FS_Subset
  <2> QED BY <1>1, <1>5, <2>1, <2>3
<1> QED BY <1>7, <1>8, <1>9 DEF new, Resets

(* The count of the ticket as it was read is that of the ticket as it is,   *)
(* up to the claims and the resets that were written since.                 *)
LEMMA CountAsRead ==
  ASSUME NEW thread \in Seq(Comments), NEW role, NEW time \in Nat,
         NEW k \in Nat, k <= Len(thread),
         \A i \in DOMAIN thread : i > k => thread[i].kind # "claim"
  PROVE  /\ SpentBy(thread, role, time) <= SpentBy(SubSeq(thread, 1, k), role, time)
         /\ SpentBy(SubSeq(thread, 1, k), role, time) \in Nat
         /\ (\A i \in DOMAIN thread : i > k => thread[i].kind \notin Resets) =>
              SpentBy(SubSeq(thread, 1, k), role, time) <= Attempts(thread, role)
<1> DEFINE read == SubSeq(thread, 1, k)
<1>0. Len(thread) \in Nat /\ DOMAIN thread = 1..Len(thread)
  BY LenProperties
<1>1. \A i \in 1..k : i \in 1..Len(thread)
  BY <1>0
<1>2. /\ read \in Seq(Comments) /\ DOMAIN read = 1..k
      /\ \A i \in 1..k : read[i] = thread[i]
  <2>1. \A i \in 1..k : thread[i] \in Comments
    BY <1>0, <1>1, ElementOfSeq
  <2>2. k - 1 + 1 = k
    OBVIOUS
  <2> QED BY <1>0, <1>1, <2>1, SubSeqProperties
<1> HIDE DEF read
<1>3. Living(thread, role, time) \subseteq Living(read, role, time)
  <2> SUFFICES ASSUME NEW i \in Living(thread, role, time) PROVE i \in Living(read, role, time)
    OBVIOUS
  <2>1. /\ i \in 1..Len(thread) /\ thread[i].kind = "claim" /\ thread[i].role = role
        /\ \A j \in 1..Len(thread) : j > i => thread[j].kind \notin Resets
        /\ ~Stale(thread[i], time)
    BY <1>0 DEF Living, Round
  <2>2. i \in 1..k
    BY <1>0, <2>1
  <2> QED BY <1>1, <1>2, <2>1, <2>2 DEF Living, Round
<1>4. ASSUME \A i \in DOMAIN thread : i > k => thread[i].kind \notin Resets
      PROVE  Living(read, role, time) \subseteq Round(thread, role)
  <2> SUFFICES ASSUME NEW i \in Living(read, role, time) PROVE i \in Round(thread, role)
    OBVIOUS
  <2>1. /\ i \in 1..k /\ thread[i].kind = "claim" /\ thread[i].role = role
        /\ \A j \in 1..k : j > i => thread[j].kind \notin Resets
    BY <1>2 DEF Living, Round
  <2>2. \A j \in 1..Len(thread) : j \in 1..k \/ j > k
    BY <1>0
  <2> QED BY <1>0, <1>1, <1>4, <2>1, <2>2 DEF Round
<1>5. /\ IsFiniteSet(Living(thread, role, time)) /\ IsFiniteSet(Living(read, role, time))
      /\ IsFiniteSet(Round(thread, role))
  BY <1>2, RoundIsFinite
<1>6. /\ SpentBy(thread, role, time) = Cardinality(Living(thread, role, time))
      /\ SpentBy(read, role, time) = Cardinality(Living(read, role, time))
      /\ Attempts(thread, role) = Cardinality(Round(thread, role))
  BY CountsAre
<1>7. SpentBy(thread, role, time) <= SpentBy(read, role, time)
  BY <1>3, <1>5, <1>6, FS_Subset
<1>8. SpentBy(read, role, time) \in Nat
  BY <1>5, <1>6, FS_CardinalityType
<1>9. ASSUME \A i \in DOMAIN thread : i > k => thread[i].kind \notin Resets
      PROVE  SpentBy(read, role, time) <= Attempts(thread, role)
  BY <1>4, <1>5, <1>6, <1>9, FS_Subset
<1> QED BY <1>7, <1>8, <1>9 DEF read

LEMMA CountTypes ==
  ASSUME TypeOK
  PROVE  /\ log \in Seq(Comments) /\ now \in Nat /\ MaxAttempts \in Nat /\ MaxAttempts # 0
         /\ \A d \in Dispatchers : /\ Role[d] \in InUse
                                 /\ failed[Role[d]] \in Nat /\ unworked[Role[d]] \in Nat
                                 /\ Attempts(log, Role[d]) \in Nat
                                 /\ SpentBy(log, Role[d], now) \in Nat
                                 /\ SpentBy(log, Role[d], now) <= Attempts(log, Role[d])
         /\ \A r \in InUse : failed[r] \in Nat /\ Attempts(log, r) \in Nat
<1>1. log \in Seq(Comments)
  BY DEF TypeOK, Comments
<1>2. now \in 1..MaxTime /\ failed \in [InUse -> Nat] /\ unworked \in [InUse -> Nat]
  BY DEF TypeOK
<1>3. now \in Nat
  BY <1>2, Bounds
<1>4. MaxAttempts \in Nat /\ MaxAttempts # 0
  <2>1. MaxAttempts \in Nat \ {0}
    BY ProtocolAssumption, Zenon
  <2> QED BY <2>1
<1>5. \A d \in Dispatchers : Role[d] \in InUse
  BY DEF InUse
<1>6. \A r : /\ Attempts(log, r) \in Nat /\ SpentBy(log, r, now) \in Nat
            /\ SpentBy(log, r, now) <= Attempts(log, r)
  BY <1>1, <1>3, CountBounds
<1> QED BY <1>1, <1>2, <1>3, <1>4, <1>5, <1>6

(* The model's counts, in the terms of the lemmas.                          *)
LEMMA SpentIs ==
  /\ \A r : Spent(log, r) = SpentBy(log, r, now)
  /\ (\A r : Spent(log, r) = SpentBy(log, r, now))'
  BY DEF Spent, SpentBy

(* The counts after a comment of each kind.                                 *)
LEMMA CountPosted ==
  ASSUME TypeOK, now' = now, NEW d \in Dispatchers
  PROVE  /\ Post(Reset("repair")) \/ Post(Reset("interrupted")) =>
              \A r : Attempts(log', r) = 0 /\ SpentBy(log', r, now') = 0
         /\ Post(Close(d)) \/ Post(Note) =>
              \A r : /\ Attempts(log', r) = Attempts(log, r)
                    /\ SpentBy(log', r, now') = SpentBy(log, r, now)
         /\ Post(Claim(d)) =>
              /\ \A r : Attempts(log, r) <= Attempts(log', r)
              /\ Attempts(log', Role[d]) = Attempts(log, Role[d]) + 1
              /\ SpentBy(log', Role[d], now') <= SpentBy(log, Role[d], now) + 1
<1>1. log \in Seq(Comments) /\ now \in 1..MaxTime /\ now \in Nat
  BY CountTypes DEF TypeOK
<1>2. \A r : Attempts(log, r) \in Nat
  BY <1>1, CountBounds
<1>3. ASSUME NEW c \in Comments, c.kind \in Resets, Post(c)
      PROVE  \A r : Attempts(log', r) = 0 /\ SpentBy(log', r, now') = 0
  BY <1>1, <1>3, CountAfter DEF Post
<1>4. ASSUME NEW c \in Comments, c.kind \in {"close", "note"}, Post(c)
      PROVE  \A r : /\ Attempts(log', r) = Attempts(log, r)
                   /\ SpentBy(log', r, now') = SpentBy(log, r, now)
  BY <1>1, <1>4, CountAfter DEF Post
<1>5. ASSUME NEW c \in Comments, c.kind = "claim", c.role = Role[d], Post(c)
      PROVE  /\ \A r : Attempts(log, r) <= Attempts(log', r)
             /\ Attempts(log', Role[d]) = Attempts(log, Role[d]) + 1
             /\ SpentBy(log', Role[d], now') <= SpentBy(log, Role[d], now) + 1
  <2>1. /\ Attempts(log', Role[d]) = Attempts(log, Role[d]) + 1
        /\ SpentBy(log', Role[d], now') <= SpentBy(log, Role[d], now) + 1
    BY <1>1, <1>5, CountAfter DEF Post
  <2>2. ASSUME NEW r PROVE Attempts(log, r) <= Attempts(log', r)
    <3>1. Attempts(log', r) = Attempts(log, r) \/ Attempts(log', r) = Attempts(log, r) + 1
      BY <1>1, <1>5, CountAfter DEF Post
    <3> QED BY <1>2, <3>1
  <2> QED BY <2>1, <2>2
<1> QED BY <1>1, <1>3, <1>4, <1>5, CommentTypes

(* Only one that has the ticket, or takes it back, changes what is counted. *)
LEMMA CountsKept ==
  ASSUME Exclusive, NoFailureUncounted, NEW d \in Dispatchers,
         host' = host, now' = now, \A e \in Dispatchers : e # d => pc'[e] = pc[e],
         (log' = log /\ failed' = failed) \/ Holds(d) \/ Reclaims(d),
         \A r \in InUse : failed'[r] <= Attempts(log', r),
         CountsIts(d)'
  PROVE  NoFailureUncounted'
<1>1. ASSUME NEW e \in Dispatchers, e # d PROVE CountsIts(e)'
  <2>1. CASE log' = log /\ failed' = failed
    BY <1>1, <2>1 DEF NoFailureUncounted, CountsIts, At, Stopping, Spent
  <2>2. CASE Holds(d) \/ Reclaims(d)
    <3>1. pc'[e] \notin {"verify", "work", "requeue"}
      BY <1>1, <2>2 DEF Exclusive, AtMostOne, Holds, Reclaims
    <3> QED BY <3>1 DEF CountsIts, At
  <2> QED BY <2>1, <2>2
<1> QED BY <1>1 DEF NoFailureUncounted

(* The steps that count nothing.                                            *)
LEMMA SilentStepCounts ==
  ASSUME ExclusiveSetting, TypeOK, Exclusive, NoFailureUncounted, NEW d \in Dispatchers,
         \/ Pick(d) \/ ReadForClaim(d) \/ CompareAndSet(d) \/ Verify(d) \/ ReleaseMove(d)
         \/ Advance(d) \/ ListHeld(d) \/ ReadHeld(d) \/ Requeue(d)
  PROVE  NoFailureUncounted'
<1>p. {"listing", "reconcile", "forget", "requeue", "idle", "claim", "cas", "attribute", "append",
       "verify", "relClose", "relMove", "work", "move"} \subseteq ControlPoints
  BY DEF ControlPoints
<1>1. UNCHANGED <<log, failed, now, host>>
  BY DEF Pick, ReadForClaim, CompareAndSet, Verify, ReleaseMove, Advance, ListHeld, ReadHeld, Requeue,
         ticket
<1>2. ASSUME \A e \in Dispatchers : e # d => pc'[e] = pc[e],
             \/ pc'[d] = pc[d] \/ pc'[d] \notin {"verify", "work", "requeue"}
             \/ pc'[d] = "work" /\ At(d, "verify") /\ ~OverCeiling(d)
      PROVE  NoFailureUncounted'
  <2>0. CountsIts(d) /\ \A r \in InUse : failed[r] <= Attempts(log, r)
    BY DEF NoFailureUncounted
  <2> SUFFICES CountsIts(d)'
    BY <1>1, <1>2, <2>0, CountsKept
  <2>1. CASE pc'[d] = pc[d]
    BY <1>1, <2>0, <2>1 DEF CountsIts, At, Stopping, Spent
  <2>2. CASE pc'[d] \notin {"verify", "work", "requeue"}
    BY <2>2 DEF CountsIts, At
  <2>3. CASE pc'[d] = "work" /\ At(d, "verify") /\ ~OverCeiling(d)
    <3>1. Spent(log, Role[d]) <= MaxAttempts
      BY <2>3, CountTypes, SpentIs DEF OverCeiling
    <3>2. failed[Role[d]] < Attempts(log, Role[d])
      BY <2>0, <2>3 DEF CountsIts, At
    <3>3. Spent(log, Role[d])' <= MaxAttempts /\ (failed[Role[d]] < Attempts(log, Role[d]))'
      BY <1>1, <3>1, <3>2, SpentIs
    <3> QED BY <2>3, <3>3 DEF CountsIts, At
  <2> QED BY <1>2, <2>1, <2>2, <2>3
<1>3. CASE Pick(d)
  BY <1>2, <1>3 DEF Pick, At, Goto, TypeOK
<1>4. CASE ReadForClaim(d)
  BY <1>2, <1>4, <1>p, CallTypes DEF ReadForClaim, At, ExclusiveSetting
<1>5. CASE CompareAndSet(d)
  BY <1>2, <1>5, <1>p, CallTypes DEF CompareAndSet, At
<1>6. CASE Verify(d)
  <2>1. CASE ~OverCeiling(d) /\ InTime(d, "get", "work")
    BY <1>2, <1>6, <1>p, <2>1, CallTypes DEF Verify, At
  <2>2. CASE ~(~OverCeiling(d) /\ InTime(d, "get", "work"))
    BY <1>2, <1>6, <1>p, <2>2, CallTypes DEF Verify, At
  <2> QED BY <2>1, <2>2
<1>7. CASE ReleaseMove(d)
  BY <1>2, <1>7, <1>p, CallTypes DEF ReleaseMove, At
<1>8. CASE Advance(d)
  BY <1>2, <1>8, <1>p, CallTypes DEF Advance, At
<1>9. CASE ListHeld(d)
  BY <1>2, <1>9, <1>p, CallTypes DEF ListHeld, At
<1>10. CASE ReadHeld(d)
  BY <1>2, <1>10, <1>p, CallTypes DEF ReadHeld, At
<1>11. CASE Requeue(d)
  BY <1>2, <1>11, <1>p, CallTypes DEF Requeue, At
<1> QED BY <1>3, <1>4, <1>5, <1>6, <1>7, <1>8, <1>9, <1>10, <1>11

(* The steps that write a comment, and the return of the handler.           *)
LEMMA WritingStepCounts ==
  ASSUME ExclusiveSetting, TypeOK, Exclusive, NoFailureUncounted, NEW d \in Dispatchers,
         \/ Attribute(d) \/ ReleaseClose(d) \/ ForgiveAttempt(d) \/ CloseClaim(d)
         \/ Escalate(d) \/ ForgetAttempt(d) \/ \E outcome \in Outcomes : Handle(d, outcome)
  PROVE  NoFailureUncounted'
<1>p. {"forget", "requeue", "idle", "attribute", "verify", "relClose", "relMove", "work", "forgive",
       "close", "note", "move"} \subseteq ControlPoints
  BY DEF ControlPoints
<1>1. UNCHANGED <<now, host>>
  BY DEF Attribute, ReleaseClose, ForgiveAttempt, CloseClaim, Escalate, ForgetAttempt, Handle, local
<1>2. Holds(d) \/ Reclaims(d)
  BY DEF Attribute, ReleaseClose, ForgiveAttempt, CloseClaim, Escalate, ForgetAttempt, Handle, At,
         Holds, Reclaims
<1>3. /\ \A r \in InUse : failed[r] <= Attempts(log, r)
      /\ pc[d] \in {"verify", "work"} => failed[Role[d]] < Attempts(log, Role[d])
  BY DEF NoFailureUncounted, CountsIts
<1>4. /\ log' = log \/ Post(Close(d)) \/ Post(Note) =>
           \A r \in InUse : Attempts(log', r) = Attempts(log, r)
      /\ Post(Reset("repair")) \/ Post(Reset("interrupted")) =>
           \A r \in InUse : Attempts(log', r) = 0
  BY <1>1, CountPosted
<1>5. ClearCounts => \A r \in InUse : failed'[r] = 0
  BY DEF ClearCounts
<1>6. ASSUME \A e \in Dispatchers : e # d => pc'[e] = pc[e],
             \A r \in InUse : failed'[r] <= Attempts(log', r), CountsIts(d)'
      PROVE  NoFailureUncounted'
  BY <1>1, <1>2, <1>6, CountsKept
<1>7. CASE Attribute(d)
  <2>1. /\ pc'[d] \in {"attribute", "verify", "idle"}
        /\ \A e \in Dispatchers : e # d => pc'[e] = pc[e]
    BY <1>7, <1>p, CallTypes DEF Attribute, At
  <2>2. failed' = failed
    BY <1>7 DEF Attribute
  <2>3. CASE Post(Claim(d))
    <3>1. /\ \A r : Attempts(log, r) <= Attempts(log', r)
          /\ Attempts(log', Role[d]) = Attempts(log, Role[d]) + 1
      BY <1>1, <2>3, CountPosted
    <3>2. \A r \in InUse : Attempts(log', r) \in Nat
      <4>1. log' \in Seq(Comments)
        BY <2>3, PostTypes
      <4> QED BY <4>1, CountTypes, CountBounds
    <3>3. \A r \in InUse : failed'[r] <= Attempts(log', r)
      <4> SUFFICES ASSUME NEW r \in InUse PROVE failed'[r] <= Attempts(log', r)
        OBVIOUS
      <4>1. /\ failed[r] \in Nat /\ Attempts(log, r) \in Nat /\ Attempts(log', r) \in Nat
            /\ failed[r] <= Attempts(log, r) /\ Attempts(log, r) <= Attempts(log', r)
        BY <1>3, <3>1, <3>2, CountTypes
      <4> QED BY <2>2, <4>1
    <3>4. failed'[Role[d]] < Attempts(log', Role[d])
      <4>1. /\ failed[Role[d]] \in Nat /\ Attempts(log, Role[d]) \in Nat
            /\ failed[Role[d]] <= Attempts(log, Role[d])
        BY <1>3, CountTypes
      <4> QED BY <2>2, <3>1, <4>1
    <3>5. CountsIts(d)'
      BY <2>1, <3>4 DEF CountsIts, At
    <3> QED BY <1>6, <2>1, <3>3, <3>5
  <2>4. CASE ~Post(Claim(d))
    <3>1. log' = log /\ pc'[d] = "idle"
      BY <1>7, <2>4, <1>p, CallTypes DEF Attribute, FailsOrStopped, Fails, Stopped, Goto, TypeOK
    <3>2. CountsIts(d)'
      BY <3>1 DEF CountsIts, At
    <3> QED BY <1>3, <1>6, <2>1, <2>2, <3>1, <3>2
  <2> QED BY <2>3, <2>4
<1>8. CASE ReleaseClose(d) \/ CloseClaim(d) \/ Escalate(d)
  <2>1. /\ pc'[d] \in {"relClose", "relMove", "close", "idle", "note", "move"}
        /\ \A e \in Dispatchers : e # d => pc'[e] = pc[e]
    <3>1. AfterClose(d) \in {"idle", "note", "move"}
      BY DEF AfterClose
    <3> QED BY <1>8, <3>1, <1>p, CallTypes DEF ReleaseClose, CloseClaim, Escalate, At
  <2>2. failed' = failed /\ (log' = log \/ Post(Close(d)) \/ Post(Note))
    BY <1>8 DEF ReleaseClose, CloseClaim, Escalate
  <2>3. CountsIts(d)'
    BY <2>1 DEF CountsIts, At
  <2> QED BY <1>3, <1>4, <1>6, <2>1, <2>2, <2>3
<1>9. CASE ForgiveAttempt(d)
  <2>1. pc'[d] \in {"forgive", "close"} /\ \A e \in Dispatchers : e # d => pc'[e] = pc[e]
    BY <1>9, <1>p, CallTypes DEF ForgiveAttempt, At
  <2>2. (Post(Reset("interrupted")) /\ ClearCounts) \/ (log' = log /\ failed' = failed)
    BY <1>9 DEF ForgiveAttempt
  <2>3. \A r \in InUse : failed'[r] <= Attempts(log', r)
    BY <1>3, <1>4, <1>5, <2>2
  <2>4. CountsIts(d)'
    BY <2>1 DEF CountsIts, At
  <2> QED BY <1>6, <2>1, <2>3, <2>4
<1>10. CASE ForgetAttempt(d)
  <2>1. pc'[d] \in {"forget", "requeue"} /\ \A e \in Dispatchers : e # d => pc'[e] = pc[e]
    BY <1>10, <1>p, CallTypes DEF ForgetAttempt, At
  <2>2. \/ Post(Reset("interrupted")) /\ ClearCounts
        \/ log' = log /\ failed' = failed /\ Stopping(d)
    BY <1>10 DEF ForgetAttempt, FailsOrStopped, Fails, Stopped, ExclusiveSetting
  <2>3. \A r \in InUse : failed'[r] <= Attempts(log', r)
    BY <1>3, <1>4, <1>5, <2>2
  <2>4. CountsIts(d)'
    BY <1>1, <1>4, <2>1, <2>2 DEF CountsIts, At, Stopping
  <2> QED BY <1>6, <2>1, <2>3, <2>4
<1>11. CASE \E outcome \in Outcomes : Handle(d, outcome)
  <2>1. PICK outcome \in Outcomes : Handle(d, outcome)
    BY <1>11
  <2>2. At(d, "work") /\ Goto(d, IF outcome = "abandoned" THEN "forgive" ELSE "close")
    BY <2>1 DEF Handle
  <2>3. pc'[d] \in {"forgive", "close"} /\ \A e \in Dispatchers : e # d => pc'[e] = pc[e]
    BY <2>2 DEF Goto, TypeOK
  <2>4. \/ Post(Reset("repair")) /\ ClearCounts
        \/ log' = log /\ failed' = failed
        \/ log' = log /\ failed' = [failed EXCEPT ![Role[d]] = @ + 1]
    BY <2>1 DEF Handle
  <2>5. \A r \in InUse : failed'[r] <= Attempts(log', r)
    <3>1. CASE log' = log /\ failed' = [failed EXCEPT ![Role[d]] = @ + 1]
      <4> SUFFICES ASSUME NEW r \in InUse PROVE failed'[r] <= Attempts(log', r)
        OBVIOUS
      <4>1. failed'[r] = IF r = Role[d] THEN failed[r] + 1 ELSE failed[r]
        BY <3>1 DEF TypeOK
      <4>2. /\ failed[r] \in Nat /\ Attempts(log, r) \in Nat /\ failed[r] <= Attempts(log, r)
            /\ r = Role[d] => failed[r] < Attempts(log, r)
        BY <1>3, <2>2, CountTypes DEF At
      <4> QED BY <3>1, <4>1, <4>2
    <3> QED BY <1>3, <1>4, <1>5, <2>4, <3>1
  <2>6. CountsIts(d)'
    BY <2>3 DEF CountsIts, At
  <2> QED BY <1>6, <2>3, <2>5, <2>6
<1> QED BY <1>7, <1>8, <1>9, <1>10, <1>11

LEMMA StepCounts ==
  ASSUME ExclusiveSetting, TypeOK, Exclusive, NoFailureUncounted, NEW d \in Dispatchers, Step(d)
  PROVE  NoFailureUncounted'
<1>1. ~AppendClaim(d) /\ ~Arbitrate(d) /\ ~Take(d)
  BY DEF Exclusive, NoAppends, AppendClaim, Arbitrate, Take, At
<1>2. CASE \/ Pick(d) \/ ReadForClaim(d) \/ CompareAndSet(d) \/ Verify(d) \/ ReleaseMove(d)
           \/ Advance(d) \/ ListHeld(d) \/ ReadHeld(d) \/ Requeue(d)
  BY <1>2, SilentStepCounts
<1>3. CASE \/ Attribute(d) \/ ReleaseClose(d) \/ ForgiveAttempt(d) \/ CloseClaim(d)
           \/ Escalate(d) \/ ForgetAttempt(d) \/ \E outcome \in Outcomes : Handle(d, outcome)
  BY <1>3, WritingStepCounts
<1> QED BY <1>1, <1>2, <1>3 DEF Step

LEMMA HostStepCounts ==
  ASSUME TypeOK, NoFailureUncounted, NEW h \in Hosts, Kill(h) \/ Stop(h) \/ Exit(h) \/ Restart(h)
  PROVE  NoFailureUncounted'
<1>1. UNCHANGED <<log, failed, now>>
  BY DEF Kill, Stop, Exit, Restart, ticket
<1>2. ASSUME NEW d \in Dispatchers PROVE CountsIts(d)'
  <2>1. /\ pc'[d] = pc[d] \/ pc'[d] \in {"down", "listing"}
        /\ pc'[d] = "requeue" /\ Stopping(d) => Stopping(d)'
    BY ZenonT(60) DEF Kill, Stop, Exit, Restart, Down, Stopping, TypeOK, Hosts
  <2>2. CountsIts(d)
    BY DEF NoFailureUncounted
  <2> QED BY <1>1, <2>1, <2>2 DEF CountsIts, At, Spent
<1> QED BY <1>1, <1>2 DEF NoFailureUncounted

(* A claim that ages leaves the count, and none comes back.                 *)
LEMMA SpentFalls ==
  ASSUME TypeOK, Tick, NEW d \in Dispatchers
  PROVE  Spent(log, Role[d])' \in Nat /\ Spent(log, Role[d])' <= Spent(log, Role[d])
<1>1. log' = log /\ now' = now + 1
  BY DEF Tick, ticket
<1>2. log \in Seq(Comments) /\ now \in Nat
  BY CountTypes
<1>3. /\ SpentBy(log, Role[d], now + 1) \in Nat
      /\ SpentBy(log, Role[d], now + 1) <= SpentBy(log, Role[d], now)
  BY <1>2, CountBounds
<1> QED BY <1>1, <1>3, SpentIs

LEMMA TickCounts ==
  ASSUME TypeOK, NoFailureUncounted, Tick
  PROVE  NoFailureUncounted'
<1>1. UNCHANGED <<log, failed, pc, host>>
  BY DEF Tick, ticket
<1>2. ASSUME NEW d \in Dispatchers PROVE CountsIts(d)'
  <2>1. At(d, "work") => (Spent(log, Role[d]) <= MaxAttempts)'
    <3>1. At(d, "work") => Spent(log, Role[d]) <= MaxAttempts
      BY DEF NoFailureUncounted, CountsIts
    <3>2. Spent(log, Role[d]) \in Nat /\ MaxAttempts \in Nat
      BY CountTypes, SpentIs
    <3> QED BY <3>1, <3>2, SpentFalls
  <2> QED BY <1>1, <2>1 DEF NoFailureUncounted, CountsIts, At, Stopping
<1> QED BY <1>1, <1>2 DEF NoFailureUncounted

LEMMA InitCounts == Init => NoFailureUncounted
<1> SUFFICES ASSUME Init PROVE NoFailureUncounted
  OBVIOUS
<1>1. log = <<>> /\ <<>> \in Seq(Comments) /\ now \in Nat
  BY EmptySeq DEF Init
<1>2. \A r : Attempts(log, r) \in Nat
  BY <1>1, CountBounds
<1>3. \A r \in InUse : failed[r] = 0
  BY DEF Init
<1>4. \A d \in Dispatchers : pc[d] = "listing"
  BY DEF Init
<1>5. \A r \in InUse : failed[r] <= Attempts(log, r)
  BY <1>2, <1>3
<1> QED BY <1>4, <1>5 DEF NoFailureUncounted, CountsIts, At

(* The invariant: no failure is missing from the count while it matters.    *)
LEMMA CountingStays == ExclusiveSetting => (Spec => []NoFailureUncounted)
<1> SUFFICES ASSUME ExclusiveSetting PROVE Spec => []NoFailureUncounted
  OBVIOUS
<1>1. TypeOK /\ Exclusive /\ NoFailureUncounted /\ [Next]_vars => NoFailureUncounted'
  <2> SUFFICES ASSUME TypeOK, Exclusive, NoFailureUncounted, [Next]_vars PROVE NoFailureUncounted'
    OBVIOUS
  <2>1. ASSUME NEW d \in Dispatchers, Step(d) PROVE NoFailureUncounted'
    BY <2>1, StepCounts
  <2>2. ASSUME NEW h \in Hosts, Kill(h) \/ Stop(h) \/ Exit(h) \/ Restart(h) PROVE NoFailureUncounted'
    BY <2>2, HostStepCounts
  <2>3. CASE UNCHANGED vars
    <3>1. UNCHANGED <<log, now, host, pc, failed>>
      BY <2>3 DEF vars, ticket
    <3> QED BY <3>1 DEF NoFailureUncounted, CountsIts, At, Stopping, Spent
  <2> QED BY <2>1, <2>2, <2>3, TickCounts DEF Next
<1>2. Spec => []Exclusive
  BY StaysInStep
<1> QED BY <1>1, <1>2, InitCounts, TypeCorrect, PTL DEF Spec

(* Whatever else fails, dies, stops, is lost or is sent twice: a ticket     *)
(* that failed as often as it may is not worked again before it was handed  *)
(* back, as long as none of its claims aged out of the count.               *)
THEOREM NoAttemptTooMany == ExclusiveSetting => (Spec => []FailsAtMost)
<1> SUFFICES ASSUME ExclusiveSetting PROVE Spec => []FailsAtMost
  OBVIOUS
<1>1. TypeOK /\ NoFailureUncounted => FailsAtMost
  <2> SUFFICES ASSUME TypeOK, NoFailureUncounted, PruneStale(log, now) = log,
                      NEW d \in Dispatchers, At(d, "work")
               PROVE  failed[Role[d]] < MaxAttempts
    BY DEF FailsAtMost
  <2>1. failed[Role[d]] < Attempts(log, Role[d]) /\ Spent(log, Role[d]) <= MaxAttempts
    BY DEF NoFailureUncounted, CountsIts, At
  <2>2. Spent(log, Role[d]) = Attempts(log, Role[d])
    BY DEF Spent
  <2>3. failed[Role[d]] \in Nat /\ Attempts(log, Role[d]) \in Nat /\ MaxAttempts \in Nat
    BY CountTypes
  <2> QED BY <2>1, <2>2, <2>3
<1> QED BY <1>1, CountingStays, TypeCorrect, PTL

(* A host that comes back gives the ticket it was killed with back to its   *)
(* queue with nothing spent.                                                *)
THEOREM RestartsAreFree == ExclusiveSetting => (Spec => InterruptedCostsNothing)
<1> SUFFICES ASSUME ExclusiveSetting PROVE Spec => InterruptedCostsNothing
  OBVIOUS
<1>1. TypeOK /\ Exclusive /\ NoFailureUncounted /\ [Next]_vars
      => [\A d \in Dispatchers :
            At(d, "requeue") /\ column' # column => Spent(log, Role[d]) = 0]_vars
  <2> SUFFICES ASSUME TypeOK, Exclusive, NoFailureUncounted, Next, NEW d \in Dispatchers,
                      At(d, "requeue"), column' # column
               PROVE  Spent(log, Role[d]) = 0
    OBVIOUS
  <2>1. \A e \in Dispatchers : Holds(e) \/ Reclaims(e) => e = d
    BY DEF Exclusive, AtMostOne, Reclaims, At
  <2>2. \A e \in Dispatchers : ~Current(e)
    BY NobodyInTheQueue DEF Exclusive, VersionsOfTheQueue, Current, Busy, Reclaims, At
  <2>3. PICK e \in Dispatchers : Step(e)
    BY DEF Next, Kill, Stop, Exit, Restart, Tick, ticket
  <2>4. Requeue(e)
    <3>1. ~Holds(e)
      BY <2>1 DEF At, Holds
    <3>2. ~CompareAndSet(e) /\ ~Take(e)
      BY <2>2 DEF CompareAndSet, Exclusive, NoAppends, Take, At
    <3>3. /\ ~ReleaseMove(e) /\ ~Advance(e)
          /\ \A outcome : ~Handle(e, outcome)
      BY <3>1 DEF ReleaseMove, Advance, Handle, Holds, At
    <3> QED
      BY <2>3, <3>2, <3>3
         DEF Step, Pick, ReadForClaim, Attribute, AppendClaim, Arbitrate, Verify, ReleaseClose,
             ForgiveAttempt, CloseClaim, Escalate, ListHeld, ReadHeld, ForgetAttempt, ticket
  <2>5. e = d /\ ~Stopping(d)
    <3>1. e = d
      BY <2>1, <2>4 DEF Requeue, At, Reclaims
    <3> QED BY <2>4, <3>1 DEF Requeue, InTime, FailsOrStopped, Fails, Stopped, PutIn
  <2>6. Attempts(log, Role[d]) = 0
    BY <2>5, CountTypes DEF NoFailureUncounted, CountsIts
  <2>7. /\ SpentBy(log, Role[d], now) \in Nat
        /\ SpentBy(log, Role[d], now) <= Attempts(log, Role[d])
    BY CountTypes
  <2> QED BY <2>6, <2>7, SpentIs
<1>2. Spec => []Exclusive
  BY StaysInStep
<1> QED BY <1>1, <1>2, CountingStays, TypeCorrect, PTL DEF Spec, InterruptedCostsNothing
-----------------------------------------------------------------------------
(* One stage by itself: every attempt in the count is one that failed, or  *)
(* the one under way.                                                      *)

KindsAfter(thread, k) == {thread[i].kind : i \in {j \in DOMAIN thread : j > k}}

LEMMA KindsGrow ==
  ASSUME NEW thread \in Seq(Comments), NEW c \in Comments, NEW k \in Nat, k <= Len(thread)
  PROVE  KindsAfter(Append(thread, c), k) = KindsAfter(thread, k) \cup {c.kind}
<1> DEFINE new == Append(thread, c)
<1>0. Len(thread) \in Nat /\ DOMAIN thread = 1..Len(thread)
  BY LenProperties
<1>1. /\ DOMAIN new = 1..(Len(thread) + 1) /\ new[Len(thread) + 1] = c
      /\ \A i \in 1..Len(thread) : new[i] = thread[i]
  BY AppendProperties
<1> HIDE DEF new
<1>2. {j \in DOMAIN new : j > k} = {j \in DOMAIN thread : j > k} \cup {Len(thread) + 1}
  BY <1>0, <1>1
<1>3. \A j \in {j \in DOMAIN thread : j > k} : new[j] = thread[j]
  BY <1>0, <1>1
<1> QED BY <1>1, <1>2, <1>3 DEF KindsAfter, new

LEMMA OneStage ==
  ASSUME OneStageSetting, NEW d \in Dispatchers
  PROVE  /\ \A e \in Dispatchers : Role[e] = Role[d] /\ S(e) = S(d)
         /\ S(d).ready \notin {S(d).success, S(d).exhausted, S(d).returns, Conflicted}
         /\ ExclusiveSetting
  BY DEF OneStageSetting, S

(* Only one that has the ticket, or takes it back, writes; whoever acts     *)
(* answers for the column.                                                  *)
LEMMA RoomKept ==
  ASSUME OneStageSetting, Exclusive, NoneTooMany, NEW d \in Dispatchers,
         host' = host, now' = now,
         \A e \in Dispatchers : e # d =>
           pc'[e] = pc[e] /\ seen'[e] = seen[e] /\ out'[e] = out[e] /\ dest'[e] = dest[e],
         (log' = log /\ failed' = failed /\ unworked' = unworked) \/ Busy(d),
         column' = S(d).ready => HasRoom(d)',
         SpendsOne(d)'
  PROVE  NoneTooMany'
<1>1. ASSUME NEW e \in Dispatchers, e # d PROVE SpendsOne(e)'
  <2>1. CASE log' = log /\ failed' = failed /\ unworked' = unworked
    <3>1. SpendsOne(e)
      BY DEF NoneTooMany
    <3>2. /\ HasRoom(e)' <=> HasRoom(e)
          /\ After(e)' = After(e)
          /\ Spent(log, Role[e])' = Spent(log, Role[e])
      BY <1>1, <2>1 DEF HasRoom, Selectable, After, Spent
    <3> QED BY <1>1, <2>1, <3>1, <3>2 DEF SpendsOne, At, S
  <2>2. CASE Busy(d)
    <3>1. pc'[e] \notin {"relClose", "relMove", "attribute", "verify", "work", "forgive", "close",
                         "note", "move"}
      BY <1>1, <2>2 DEF Exclusive, AtMostOne, Holds, Reclaims, Busy
    <3> QED BY <3>1 DEF SpendsOne, At
  <2> QED BY <2>1, <2>2
<1>2. ASSUME NEW e \in Dispatchers, column' = S(e).ready PROVE HasRoom(e)'
  <2>1. Role[e] = Role[d] /\ S(e) = S(d)
    BY OneStage
  <2> QED BY <1>2, <2>1 DEF HasRoom, Selectable
<1>3. \A e \in Dispatchers : SpendsOne(e)'
  BY <1>1
<1> QED BY <1>2, <1>3 DEF NoneTooMany, S

(* No version, no claim and no count changes hands while somebody has it.   *)
LEMMA OnItsBench ==
  ASSUME Exclusive, NEW d \in Dispatchers, Busy(d)
  PROVE  column # S(d).ready
  BY QueueIsNoBench DEF Exclusive, OnTheBench, Busy

LEMMA SilentStepSpends ==
  ASSUME OneStageSetting, TypeOK, Exclusive, NoFailureUncounted, NoneTooMany, NEW d \in Dispatchers,
         \/ Pick(d) \/ ReadForClaim(d) \/ CompareAndSet(d) \/ ReleaseMove(d)
         \/ Advance(d) \/ ListHeld(d) \/ ReadHeld(d) \/ Requeue(d)
  PROVE  NoneTooMany'
<1>p. {"listing", "reconcile", "forget", "requeue", "idle", "claim", "cas", "attribute", "append",
       "verify", "relClose", "relMove", "work", "move"} \subseteq ControlPoints
  BY DEF ControlPoints
<1>0. SpendsOne(d) /\ (column = S(d).ready => HasRoom(d))
  BY DEF NoneTooMany
<1>1. UNCHANGED <<log, failed, unworked, now, host, seen, out, dest>>
  BY DEF Pick, ReadForClaim, CompareAndSet, ReleaseMove, Advance, ListHeld, ReadHeld, Requeue,
         ticket, local
<1>2. /\ HasRoom(d)' <=> HasRoom(d)
      /\ Spent(log, Role[d])' = Spent(log, Role[d])
  BY <1>1 DEF HasRoom, Selectable, Spent
<1>3. ASSUME \A e \in Dispatchers : e # d => pc'[e] = pc[e] /\ seen'[e] = seen[e],
             column' = S(d).ready => column = S(d).ready \/ HasRoom(d),
             SpendsOne(d)'
      PROVE  NoneTooMany'
  BY <1>0, <1>1, <1>2, <1>3, RoomKept
<1>4. ASSUME \A e \in Dispatchers : e # d => pc'[e] = pc[e], seen' = seen,
             column' = S(d).ready => column = S(d).ready \/ HasRoom(d),
             \/ pc'[d] = pc[d] \/ pc'[d] \in {"listing", "reconcile", "forget", "requeue", "idle", "claim", "cas"}
             \/ pc'[d] = "attribute" /\ HasRoom(d)
      PROVE  NoneTooMany'
  <2>1. CASE pc'[d] = pc[d]
    <3>1. After(d)' = After(d)
      BY <1>1, <1>4 DEF After
    <3>2. SpendsOne(d)'
      BY <1>0, <1>1, <1>2, <1>4, <2>1, <3>1 DEF SpendsOne, At, S
    <3> QED BY <1>3, <1>4, <3>2
  <2>2. CASE pc'[d] \in {"listing", "reconcile", "forget", "requeue", "idle", "claim", "cas"}
    <3>1. SpendsOne(d)'
      BY <2>2 DEF SpendsOne, At
    <3> QED BY <1>3, <1>4, <3>1
  <2>3. CASE pc'[d] = "attribute" /\ HasRoom(d)
    <3>1. SpendsOne(d)'
      BY <1>2, <2>3 DEF SpendsOne, At
    <3> QED BY <1>3, <1>4, <3>1
  <2> QED BY <1>4, <2>1, <2>2, <2>3
<1>5. CASE Pick(d)
  <2>1. /\ pc'[d] = "claim" /\ \A e \in Dispatchers : e # d => pc'[e] = pc[e]
        /\ seen' = seen /\ column' = column
    BY <1>5 DEF Pick, At, Goto, TypeOK, ticket, local
  <2> QED BY <1>4, <2>1
<1>6. CASE ReadForClaim(d)
  <2>1. /\ pc'[d] \in {"claim", "cas", "idle"} /\ \A e \in Dispatchers : e # d => pc'[e] = pc[e]
        /\ seen' = seen /\ column' = column
    BY <1>6, <1>p, CallTypes, OneStage DEF ReadForClaim, At, ExclusiveSetting, local
  <2> QED BY <1>4, <2>1
<1>7. CASE CompareAndSet(d)
  <2>1. /\ pc'[d] \in {"cas", "attribute", "idle"} /\ \A e \in Dispatchers : e # d => pc'[e] = pc[e]
        /\ seen' = seen
    BY <1>7, <1>p, CallTypes DEF CompareAndSet, At, local
  <2>2. CASE Current(d) /\ PutIn(S(d).working)
    <3>1. column = S(d).ready
      BY <2>2 DEF Current, Exclusive, VersionsOfTheQueue
    <3>2. column' # S(d).ready
      BY <2>2, QueueIsNoBench DEF PutIn
    <3>3. pc'[d] = pc[d] \/ pc'[d] \in {"attribute", "idle"}
      BY <1>7, <2>1 DEF CompareAndSet, At
    <3> QED BY <1>0, <1>4, <2>1, <3>1, <3>2, <3>3
  <2>3. CASE ~(Current(d) /\ PutIn(S(d).working))
    <3>1. column' = column
      BY <1>7, <2>3 DEF CompareAndSet
    <3>2. pc'[d] \in {"cas", "idle"}
      <4>1. PICK call \in {"get", "cas"} : InTime(d, call, "idle") \/ FailsOrStopped(d, call, "idle")
        BY <1>7, <2>3 DEF CompareAndSet
      <4> QED BY <1>7, <4>1, <1>p, CallTypes DEF CompareAndSet, At
    <3> QED BY <1>4, <2>1, <3>1, <3>2
  <2> QED BY <2>2, <2>3
<1>9. CASE ReleaseMove(d)
  <2>1. /\ pc[d] = "relMove" /\ pc'[d] \in {"relMove", "idle"}
        /\ \A e \in Dispatchers : e # d => pc'[e] = pc[e]
        /\ seen' = seen
    BY <1>9, <1>p, CallTypes DEF ReleaseMove, At, local
  <2>2. HasRoom(d)
    BY <1>0, <2>1 DEF SpendsOne
  <2> QED BY <1>4, <2>1, <2>2
<1>10. CASE Advance(d)
  <2>1. /\ pc[d] = "move" /\ pc'[d] \in {"move", "idle"}
        /\ \A e \in Dispatchers : e # d => pc'[e] = pc[e]
        /\ seen' = seen /\ column' \in {column, dest[d]}
    BY <1>10, <1>p, CallTypes DEF Advance, At, local, PutIn
  <2>2. dest[d] = S(d).ready => HasRoom(d)
    BY <1>0, <2>1 DEF SpendsOne
  <2> QED BY <1>4, <2>1, <2>2
<1>11. CASE ListHeld(d)
  <2>1. /\ pc'[d] \in {"listing", "reconcile", "idle"} /\ \A e \in Dispatchers : e # d => pc'[e] = pc[e]
        /\ seen' = seen /\ column' = column
    BY <1>11, <1>p, CallTypes DEF ListHeld, At, local, ticket
  <2> QED BY <1>4, <2>1
<1>12. CASE ReadHeld(d)
  <2>1. /\ pc'[d] \in {"reconcile", "forget", "idle"} /\ \A e \in Dispatchers : e # d => pc'[e] = pc[e]
        /\ seen' = seen /\ column' = column
    BY <1>12, <1>p, CallTypes DEF ReadHeld, At, local, ticket
  <2> QED BY <1>4, <2>1
<1>13. CASE Requeue(d)
  <2>1. /\ pc[d] = "requeue" /\ pc'[d] \in {"requeue", "idle"}
        /\ \A e \in Dispatchers : e # d => pc'[e] = pc[e]
        /\ seen' = seen
    BY <1>13, <1>p, CallTypes DEF Requeue, At, local
  <2>2. ~Stopping(d) => HasRoom(d)
    <3> SUFFICES ASSUME ~Stopping(d) PROVE HasRoom(d)
      OBVIOUS
    <3>1. Attempts(log, Role[d]) = 0
      BY <2>1, CountTypes DEF NoFailureUncounted, CountsIts, At
    <3>2. /\ SpentBy(log, Role[d], now) \in Nat /\ SpentBy(log, Role[d], now) <= Attempts(log, Role[d])
          /\ failed[Role[d]] \in Nat /\ unworked[Role[d]] \in Nat /\ MaxAttempts \in Nat /\ MaxAttempts # 0
      BY CountTypes
    <3>3. Spent(log, Role[d]) = SpentBy(log, Role[d], now)
      BY SpentIs
    <3> QED BY <3>1, <3>2, <3>3 DEF HasRoom, Selectable
  <2>3. Stopping(d) => column' = column
    BY <1>13 DEF Requeue, InTime
  <2> QED BY <1>0, <1>4, <2>1, <2>2, <2>3
<1> QED BY <1>5, <1>6, <1>7, <1>9, <1>10, <1>11, <1>12, <1>13

LEMMA VerifySpends ==
  ASSUME OneStageSetting, TypeOK, Exclusive, NoneTooMany, NEW d \in Dispatchers, Verify(d)
  PROVE  NoneTooMany'
<1>p. {"verify", "relClose", "work"} \subseteq ControlPoints
  BY DEF ControlPoints
<1>1. /\ At(d, "verify") /\ seen' = [seen EXCEPT ![d] = Len(log)]
      /\ UNCHANGED <<column, log, now, host, out, dest, failed>>
      /\ IF At(d, "relClose")' THEN Unworked(d) ELSE UNCHANGED unworked
  BY DEF Verify, ticket
<1>2. /\ pc'[d] \in {"verify", "relClose"} \/ (pc'[d] = "work" /\ ~OverCeiling(d))
      /\ \A e \in Dispatchers : e # d => pc'[e] = pc[e]
  <2>1. \/ ~OverCeiling(d) /\ InTime(d, "get", "work")
        \/ InTime(d, "get", "relClose") \/ FailsOrStopped(d, "get", "relClose")
    BY DEF Verify
  <2> QED BY <1>1, <2>1, <1>p, CallTypes DEF At
<1>3. seen'[d] = Len(log) /\ \A e \in Dispatchers : e # d => seen'[e] = seen[e]
  BY <1>1 DEF TypeOK
<1>4. Busy(d) /\ column' # S(d).ready
  BY <1>1, OnItsBench DEF Busy, Holds, At
<1> SUFFICES SpendsOne(d)'
  BY <1>1, <1>2, <1>3, <1>4, RoomKept
<1>5. /\ Attempts(log, Role[d]) <= failed[Role[d]] + unworked[Role[d]] + 1
      /\ Spent(log, Role[d]) <= MaxAttempts \/ unworked[Role[d]] > 0
  BY <1>1 DEF NoneTooMany, SpendsOne, At
<1>6. /\ failed[Role[d]] \in Nat /\ unworked[Role[d]] \in Nat /\ MaxAttempts \in Nat
      /\ Attempts(log, Role[d]) \in Nat /\ Spent(log, Role[d]) \in Nat
  BY CountTypes, SpentIs
<1>7. Spent(log, Role[d])' = Spent(log, Role[d]) /\ Attempts(log', Role[d]) = Attempts(log, Role[d])
  BY <1>1 DEF Spent
<1>8. CASE pc'[d] = "relClose"
  <2>1. unworked'[Role[d]] = unworked[Role[d]] + 1
    BY <1>1, <1>8, CountTypes DEF At, Unworked, TypeOK
  <2>2. HasRoom(d)'
    BY <1>1, <1>5, <1>6, <1>7, <2>1 DEF HasRoom
  <2> QED BY <1>8, <2>2 DEF SpendsOne, At
<1>9. CASE pc'[d] \in {"verify", "work"}
  <2>1. unworked' = unworked
    BY <1>1, <1>9 DEF At
  <2>2. After(d)' = {} /\ seen'[d] <= Len(log')
    <3>1. Len(log) \in Nat /\ DOMAIN log = 1..Len(log)
      BY CountTypes, LenProperties
    <3> QED BY <1>1, <1>3, <3>1 DEF After
  <2> QED BY <1>1, <1>5, <1>7, <1>9, <2>1, <2>2 DEF SpendsOne, At
<1> QED BY <1>2, <1>8, <1>9

LEMMA ReleaseCloseSpends ==
  ASSUME OneStageSetting, TypeOK, Exclusive, NoneTooMany, NEW d \in Dispatchers, ReleaseClose(d)
  PROVE  NoneTooMany'
<1>p. {"relClose", "relMove"} \subseteq ControlPoints
  BY DEF ControlPoints
<1>1. /\ At(d, "relClose") /\ UNCHANGED <<column, now, host, seen, out, dest, failed, unworked>>
      /\ Post(Close(d)) \/ log' = log
  BY DEF ReleaseClose, local
<1>2. pc'[d] \in {"relClose", "relMove"} /\ \A e \in Dispatchers : e # d => pc'[e] = pc[e]
  BY <1>p, CallTypes DEF ReleaseClose, At
<1>3. Busy(d) /\ column' # S(d).ready
  BY <1>1, OnItsBench DEF Busy, Holds, At
<1>4. HasRoom(d)
  BY <1>1 DEF NoneTooMany, SpendsOne, At
<1>5. /\ Attempts(log', Role[d]) = Attempts(log, Role[d])
      /\ SpentBy(log', Role[d], now') = SpentBy(log, Role[d], now)
  BY <1>1, CountPosted
<1>6. HasRoom(d)'
  BY <1>1, <1>4, <1>5, SpentIs DEF HasRoom, Selectable
<1>7. SpendsOne(d)'
  BY <1>2, <1>6 DEF SpendsOne, At
<1> QED BY <1>1, <1>2, <1>3, <1>7, RoomKept

(* Where a ticket goes, and what was read when that was decided: back to    *)
(* its queue only with room left, to a person only when none was.           *)
LEMMA DecidesWell ==
  ASSUME OneStageSetting, TypeOK, NoneTooMany, NEW d \in Dispatchers, At(d, "close")
  PROVE  /\ Next_(d) = S(d).ready => HasRoom(d)
         /\ out[d] = "failed" /\ Next_(d) = S(d).exhausted
              => failed[Role[d]] + unworked[Role[d]] >= MaxAttempts
<1>0. /\ seen[d] <= Len(log) /\ "claim" \notin After(d) /\ out[d] # "handled"
      /\ out[d] = "failed" =>
           After(d) \cap Resets = {} /\ Attempts(log, Role[d]) <= failed[Role[d]] + unworked[Role[d]]
      /\ out[d] = "abandoned" => Attempts(log, Role[d]) = 0
  BY DEF NoneTooMany, SpendsOne, At
<1>1. S(d).ready \notin {S(d).success, S(d).exhausted, S(d).returns, Conflicted, NoColumn}
  BY OneStage, Routes
<1>2. out[d] \in {"success", "failed", "abandoned", "conflicted", "blocked", "returned", "handled"}
  BY DEF TypeOK, Outcomes
<1>3. /\ Next_(d) = S(d).ready => out[d] = "abandoned" \/ (out[d] = "failed" /\ RetriesLeft(d))
      /\ out[d] = "failed" /\ Next_(d) = S(d).exhausted => ~RetriesLeft(d)
  BY <1>0, <1>1, <1>2 DEF Next_, Destination
<1>4. /\ log \in Seq(Comments) /\ now \in Nat /\ MaxAttempts \in Nat /\ MaxAttempts # 0
      /\ failed[Role[d]] \in Nat /\ unworked[Role[d]] \in Nat /\ Attempts(log, Role[d]) \in Nat
      /\ SpentBy(log, Role[d], now) \in Nat /\ SpentBy(log, Role[d], now) <= Attempts(log, Role[d])
  BY CountTypes
<1>5. seen[d] \in Nat
  BY DEF TypeOK
<1> DEFINE read == SpentBy(SubSeq(log, 1, seen[d]), Role[d], now)
<1>6. RetriesLeft(d) <=> read < MaxAttempts
  BY DEF RetriesLeft, Spent, SpentBy
<1>7. /\ \A i \in DOMAIN log : i > seen[d] => log[i].kind # "claim"
      /\ After(d) \cap Resets = {} => \A i \in DOMAIN log : i > seen[d] => log[i].kind \notin Resets
  BY <1>0 DEF After
<1>8. /\ SpentBy(log, Role[d], now) <= read /\ read \in Nat
      /\ After(d) \cap Resets = {} => read <= Attempts(log, Role[d])
  BY <1>0, <1>4, <1>5, <1>7, CountAsRead
<1>9. Spent(log, Role[d]) = SpentBy(log, Role[d], now)
  BY SpentIs
<1> HIDE DEF read
<1>10. CASE out[d] = "failed"
  BY <1>0, <1>3, <1>4, <1>6, <1>8, <1>9, <1>10 DEF HasRoom, Selectable
<1>11. CASE out[d] = "abandoned"
  BY <1>0, <1>4, <1>9, <1>11 DEF HasRoom, Selectable
<1> QED BY <1>3, <1>10, <1>11

(* A comment of one that has the ticket joins those it did not read.        *)
LEMMA AfterGrows ==
  ASSUME TypeOK, NEW d \in Dispatchers, NEW c \in Comments, Post(c), seen' = seen, seen[d] <= Len(log)
  PROVE  After(d)' = After(d) \cup {c.kind} /\ seen'[d] <= Len(log')
<1>1. log \in Seq(Comments) /\ log' = Append(log, c)
  BY CountTypes DEF Post
<1>2. seen[d] \in Nat /\ Len(log) \in Nat
  BY <1>1, LenProperties DEF TypeOK
<1>3. KindsAfter(Append(log, c), seen[d]) = KindsAfter(log, seen[d]) \cup {c.kind}
  BY <1>1, <1>2, KindsGrow
<1>4. Len(Append(log, c)) = Len(log) + 1
  BY <1>1, AppendProperties
<1>5. After(d) = KindsAfter(log, seen[d]) /\ After(d)' = KindsAfter(log', seen'[d])
  BY DEF After, KindsAfter
<1> QED BY <1>1, <1>2, <1>3, <1>4, <1>5

LEMMA AttributeSpends ==
  ASSUME OneStageSetting, TypeOK, Exclusive, NoneTooMany, NEW d \in Dispatchers, Attribute(d)
  PROVE  NoneTooMany'
<1>p. {"attribute", "verify", "idle"} \subseteq ControlPoints
  BY DEF ControlPoints
<1>1. /\ At(d, "attribute") /\ UNCHANGED <<column, now, host, seen, out, dest, failed>>
      /\ IF pc' = pc THEN Unworked(d) ELSE UNCHANGED unworked
  BY DEF Attribute, local
<1>2. /\ pc'[d] \in {"attribute", "verify", "idle"}
      /\ \A e \in Dispatchers : e # d => pc'[e] = pc[e]
  BY <1>p, CallTypes DEF Attribute, At
<1>3. Busy(d) /\ column' # S(d).ready
  BY <1>1, OnItsBench DEF Busy, Holds, At
<1>4. HasRoom(d)
  BY <1>1 DEF NoneTooMany, SpendsOne
<1> SUFFICES SpendsOne(d)'
  BY <1>1, <1>2, <1>3, RoomKept
<1>5. CASE Post(Claim(d)) /\ InTime(d, "claim", "verify")
  <2>2. /\ Attempts(log', Role[d]) = Attempts(log, Role[d]) + 1
        /\ SpentBy(log', Role[d], now') <= SpentBy(log, Role[d], now) + 1
    BY <1>1, <1>5, CountPosted
  <2>3. log' \in Seq(Comments) /\ now' \in Nat
    BY <1>1, <1>5, PostTypes, CountTypes
  <2>4. SpentBy(log', Role[d], now') \in Nat
    BY <2>3, CountBounds
  <2>5. /\ failed[Role[d]] \in Nat /\ unworked[Role[d]] \in Nat
        /\ Attempts(log, Role[d]) \in Nat /\ MaxAttempts \in Nat
        /\ SpentBy(log, Role[d], now) \in Nat
    BY CountTypes
  <2>6. /\ Attempts(log, Role[d]) <= failed[Role[d]] + unworked[Role[d]]
        /\ SpentBy(log, Role[d], now) < MaxAttempts \/ unworked[Role[d]] > 0
    BY <1>4, SpentIs DEF HasRoom, Selectable
  <2>8. Spent(log, Role[d])' = SpentBy(log', Role[d], now')
    BY SpentIs
  <2>9. CASE pc' = pc
    <3>1. unworked'[Role[d]] = unworked[Role[d]] + 1
      BY <1>1, <2>9, CountTypes DEF Unworked, TypeOK
    <3>2. HasRoom(d)'
      BY <1>1, <2>2, <2>4, <2>5, <2>6, <3>1 DEF HasRoom
    <3> QED BY <1>1, <2>9, <3>2 DEF SpendsOne, At
  <2>10. CASE pc' # pc
    <3>1. unworked' = unworked /\ pc'[d] = "verify"
      BY <1>1, <1>5, <2>10 DEF InTime, Answered, Goto, TypeOK
    <3>2. /\ Attempts(log', Role[d]) <= failed'[Role[d]] + unworked'[Role[d]] + 1
          /\ SpentBy(log', Role[d], now') <= MaxAttempts \/ unworked'[Role[d]] > 0
      BY <1>1, <2>2, <2>4, <2>5, <2>6, <3>1
    <3> QED BY <2>8, <3>1, <3>2 DEF SpendsOne, At
  <2> QED BY <2>9, <2>10
<1>6. CASE FailsOrStopped(d, "claim", "idle")
  <2>1. pc'[d] = "idle"
    BY <1>6 DEF FailsOrStopped, Fails, Stopped, Goto, TypeOK
  <2> QED BY <2>1 DEF SpendsOne, At
<1> QED BY <1>5, <1>6 DEF Attribute

LEMMA HandleSpends ==
  ASSUME OneStageSetting, TypeOK, Exclusive, NoneTooMany, NEW d \in Dispatchers,
         NEW outcome \in Outcomes, Handle(d, outcome)
  PROVE  NoneTooMany'
<1>1. /\ At(d, "work") /\ UNCHANGED <<now, host, seen, dest>>
      /\ out' = [out EXCEPT ![d] = outcome]
      /\ Goto(d, IF outcome = "abandoned" THEN "forgive" ELSE "close")
  BY DEF Handle
<1>2. outcome # "handled" /\ column' = column
  BY OneStage DEF Handle, ExclusiveSetting
<1>3. /\ \A e \in Dispatchers : e # d => pc'[e] = pc[e] /\ out'[e] = out[e]
      /\ out'[d] = outcome
      /\ pc'[d] = IF outcome = "abandoned" THEN "forgive" ELSE "close"
  BY <1>1 DEF Goto, TypeOK
<1>4. Busy(d) /\ column' # S(d).ready
  BY <1>1, <1>2, OnItsBench DEF Busy, Holds, At
<1>5. /\ Attempts(log, Role[d]) <= failed[Role[d]] + unworked[Role[d]] + 1
      /\ seen[d] <= Len(log) /\ "claim" \notin After(d) /\ After(d) \cap Resets = {}
  BY <1>1 DEF NoneTooMany, SpendsOne, At
<1> SUFFICES SpendsOne(d)'
  BY <1>1, <1>3, <1>4, RoomKept
<1>6. CASE outcome = "returned" /\ Role[d] \in Marks
  <2>1. Post(Reset("repair"))
    BY <1>6 DEF Handle
  <2>2. Reset("repair") \in Comments /\ Reset("repair").kind \in Resets
    BY CommentTypes DEF TypeOK
  <2>3. PICK c \in Comments : Post(c) /\ c.kind \in Resets
    BY <2>1, <2>2
  <2>4. After(d)' = After(d) \cup {c.kind} /\ seen'[d] <= Len(log')
    BY <1>1, <1>5, <2>3, AfterGrows
  <2>5. "claim" \notin After(d)'
    BY <1>5, <2>3, <2>4 DEF Resets
  <2> QED BY <1>3, <1>6, <2>4, <2>5 DEF SpendsOne, At
<1>7. CASE ~(outcome = "returned" /\ Role[d] \in Marks)
  <2>1. /\ log' = log /\ unworked' = unworked
        /\ outcome = "failed" => failed' = [failed EXCEPT ![Role[d]] = @ + 1]
    BY <1>7 DEF Handle
  <2>2. After(d)' = After(d) /\ seen'[d] <= Len(log')
    BY <1>1, <1>5, <2>1 DEF After
  <2>3. outcome = "failed" => Attempts(log', Role[d]) <= failed'[Role[d]] + unworked'[Role[d]]
    <3>1. outcome = "failed" => failed'[Role[d]] = failed[Role[d]] + 1
      BY <2>1, CountTypes DEF TypeOK
    <3>2. failed[Role[d]] \in Nat /\ unworked[Role[d]] \in Nat /\ Attempts(log, Role[d]) \in Nat
      BY CountTypes
    <3> QED BY <1>5, <2>1, <3>1, <3>2
  <2> QED BY <1>2, <1>3, <1>5, <2>2, <2>3 DEF SpendsOne, At
<1> QED BY <1>6, <1>7

LEMMA ResetSpends ==
  ASSUME OneStageSetting, TypeOK, Exclusive, NoneTooMany, NEW d \in Dispatchers,
         ForgiveAttempt(d) \/ ForgetAttempt(d)
  PROVE  NoneTooMany'
<1>p. {"forget", "requeue", "forgive", "close"} \subseteq ControlPoints
  BY DEF ControlPoints
<1>1. UNCHANGED <<column, now, host, seen, out, dest>>
  BY DEF ForgiveAttempt, ForgetAttempt, local
<1>2. Busy(d) /\ column' # S(d).ready
  BY <1>1, OnItsBench DEF ForgiveAttempt, ForgetAttempt, Busy, Holds, Reclaims, At
<1>3. ASSUME \A e \in Dispatchers : e # d => pc'[e] = pc[e], SpendsOne(d)' PROVE NoneTooMany'
  BY <1>1, <1>2, <1>3, RoomKept
<1>4. CASE ForgiveAttempt(d)
  <2>1. /\ pc[d] = "forgive" /\ pc'[d] \in {"forgive", "close"}
        /\ \A e \in Dispatchers : e # d => pc'[e] = pc[e]
    BY <1>4, <1>p, CallTypes DEF ForgiveAttempt, At
  <2>2. Post(Reset("interrupted"))
    BY <1>4, OneStage DEF ForgiveAttempt, Fails, ExclusiveSetting
  <2>3. /\ seen[d] <= Len(log) /\ "claim" \notin After(d) /\ out[d] = "abandoned"
    BY <2>1 DEF NoneTooMany, SpendsOne, At
  <2>4. Reset("interrupted") \in Comments /\ Reset("interrupted").kind \in Resets
    BY CommentTypes DEF TypeOK
  <2>5. PICK c \in Comments : Post(c) /\ c.kind \in Resets
    BY <2>2, <2>4
  <2>6. After(d)' = After(d) \cup {c.kind} /\ seen'[d] <= Len(log')
    BY <1>1, <2>3, <2>5, AfterGrows
  <2>7. "claim" \notin After(d)'
    BY <2>3, <2>5, <2>6 DEF Resets
  <2>8. Attempts(log', Role[d]) = 0
    BY <1>1, <2>2, CountPosted
  <2>9. SpendsOne(d)'
    BY <1>1, <2>1, <2>3, <2>6, <2>7, <2>8 DEF SpendsOne, At
  <2> QED BY <1>3, <2>1, <2>9
<1>5. CASE ForgetAttempt(d)
  <2>1. /\ pc'[d] \in {"forget", "requeue"} /\ \A e \in Dispatchers : e # d => pc'[e] = pc[e]
    BY <1>5, <1>p, CallTypes DEF ForgetAttempt, At
  <2>2. SpendsOne(d)'
    BY <2>1 DEF SpendsOne, At
  <2> QED BY <1>3, <2>1, <2>2
<1> QED BY <1>4, <1>5

LEMMA CloseSpends ==
  ASSUME OneStageSetting, TypeOK, Exclusive, NoneTooMany, NEW d \in Dispatchers, CloseClaim(d)
  PROVE  NoneTooMany'
<1>p. {"close", "idle", "note", "move"} \subseteq ControlPoints
  BY DEF ControlPoints
<1>1. /\ At(d, "close") /\ UNCHANGED <<column, now, host, seen, out, failed, unworked>>
      /\ dest' = [dest EXCEPT ![d] = Next_(d)]
  BY DEF CloseClaim
<1>2. Post(Close(d)) /\ Answered(d, "close", AfterClose(d))
  BY OneStage DEF CloseClaim, Fails, ExclusiveSetting
<1>3. AfterClose(d) \in {"idle", "note", "move"}
  BY DEF AfterClose
<1>4. /\ pc'[d] \in {"close", "idle", "note", "move"}
      /\ \A e \in Dispatchers : e # d => pc'[e] = pc[e]
  BY <1>1, <1>2, <1>3, <1>p, CallTypes DEF At
<1>5. dest'[d] = Next_(d) /\ \A e \in Dispatchers : e # d => dest'[e] = dest[e]
  BY <1>1 DEF TypeOK
<1>6. Busy(d) /\ column' # S(d).ready
  BY <1>1, OnItsBench DEF Busy, Holds, At
<1> SUFFICES SpendsOne(d)'
  BY <1>1, <1>4, <1>5, <1>6, RoomKept
<1>7. /\ seen[d] <= Len(log) /\ "claim" \notin After(d) /\ out[d] # "handled"
      /\ out[d] = "failed" =>
           After(d) \cap Resets = {} /\ Attempts(log, Role[d]) <= failed[Role[d]] + unworked[Role[d]]
      /\ out[d] = "abandoned" => Attempts(log, Role[d]) = 0
  BY <1>1 DEF NoneTooMany, SpendsOne, At
<1>8. /\ Attempts(log', Role[d]) = Attempts(log, Role[d])
      /\ SpentBy(log', Role[d], now') = SpentBy(log, Role[d], now)
  BY <1>1, <1>2, CountPosted
<1>9. HasRoom(d)' <=> HasRoom(d)
  BY <1>1, <1>8, SpentIs DEF HasRoom, Selectable
<1>10. PICK c \in Comments : Post(c) /\ c.kind = "close"
  BY <1>2, CommentTypes DEF TypeOK
<1>11. After(d)' = After(d) \cup {c.kind} /\ seen'[d] <= Len(log')
  BY <1>1, <1>7, <1>10, AfterGrows
<1>12. CASE pc'[d] = "close"
  <2>1. "claim" \notin After(d)' /\ (out[d] = "failed" => After(d)' \cap Resets = {})
    BY <1>7, <1>10, <1>11 DEF Resets
  <2> QED BY <1>1, <1>7, <1>8, <1>11, <1>12, <2>1 DEF SpendsOne, At
<1>13. CASE pc'[d] \in {"note", "move"}
  <2>1. /\ dest'[d] = S(d).ready => HasRoom(d)
        /\ out[d] = "failed" /\ dest'[d] = S(d).exhausted
             => failed[Role[d]] + unworked[Role[d]] >= MaxAttempts
    BY <1>1, <1>5, DecidesWell
  <2> QED BY <1>1, <1>9, <1>13, <2>1 DEF SpendsOne, At, S
<1>14. CASE pc'[d] = "idle"
  BY <1>14 DEF SpendsOne, At
<1> QED BY <1>4, <1>12, <1>13, <1>14

LEMMA EscalateSpends ==
  ASSUME OneStageSetting, TypeOK, Exclusive, NoneTooMany, NEW d \in Dispatchers, Escalate(d)
  PROVE  NoneTooMany'
<1>p. {"note", "move"} \subseteq ControlPoints
  BY DEF ControlPoints
<1>1. /\ At(d, "note") /\ UNCHANGED <<column, now, host, seen, out, dest, failed, unworked>>
      /\ Post(Note) \/ log' = log
  BY DEF Escalate, local
<1>2. pc'[d] \in {"note", "move"} /\ \A e \in Dispatchers : e # d => pc'[e] = pc[e]
  BY <1>p, CallTypes DEF Escalate, At
<1>3. Busy(d) /\ column' # S(d).ready
  BY <1>1, OnItsBench DEF Busy, Holds, At
<1>4. /\ dest[d] = S(d).ready => HasRoom(d)
      /\ out[d] = "failed" /\ dest[d] = S(d).exhausted
           => failed[Role[d]] + unworked[Role[d]] >= MaxAttempts
  BY <1>1 DEF NoneTooMany, SpendsOne, At
<1>5. /\ Attempts(log', Role[d]) = Attempts(log, Role[d])
      /\ SpentBy(log', Role[d], now') = SpentBy(log, Role[d], now)
  BY <1>1, CountPosted
<1>6. HasRoom(d)' <=> HasRoom(d)
  BY <1>1, <1>5, SpentIs DEF HasRoom, Selectable
<1>7. SpendsOne(d)'
  BY <1>1, <1>2, <1>4, <1>6 DEF SpendsOne, At, S
<1> QED BY <1>1, <1>2, <1>3, <1>7, RoomKept

LEMMA StepSpends ==
  ASSUME OneStageSetting, TypeOK, Exclusive, NoFailureUncounted, NoneTooMany,
         NEW d \in Dispatchers, Step(d)
  PROVE  NoneTooMany'
<1>1. ~AppendClaim(d) /\ ~Arbitrate(d) /\ ~Take(d)
  BY DEF Exclusive, NoAppends, AppendClaim, Arbitrate, Take, At
<1>3. CASE \/ Pick(d) \/ ReadForClaim(d) \/ CompareAndSet(d) \/ ReleaseMove(d)
           \/ Advance(d) \/ ListHeld(d) \/ ReadHeld(d) \/ Requeue(d)
  BY <1>3, SilentStepSpends
<1> QED BY <1>1, <1>3, AttributeSpends, VerifySpends, ReleaseCloseSpends, HandleSpends, ResetSpends,
           CloseSpends, EscalateSpends
        DEF Step

LEMMA HostStepSpends ==
  ASSUME OneStageSetting, TypeOK, NoneTooMany, NEW h \in Hosts,
         Kill(h) \/ Stop(h) \/ Exit(h) \/ Restart(h)
  PROVE  NoneTooMany'
<1>2. UNCHANGED <<column, log, failed, unworked, now, seen, out, dest>>
  BY DEF Kill, Stop, Exit, Restart, ticket, local
<1>3. \A d \in Dispatchers : pc'[d] \in {pc[d], "down", "listing"}
  BY Zenon DEF Kill, Stop, Exit, Restart, Down
<1>5. ASSUME NEW d \in Dispatchers
      PROVE  SpendsOne(d)' /\ (column' = S(d).ready => HasRoom(d)')
  <2>1. /\ HasRoom(d)' <=> HasRoom(d)
        /\ After(d)' = After(d)
        /\ Spent(log, Role[d])' = Spent(log, Role[d])
    BY <1>2 DEF HasRoom, Selectable, After, Spent
  <2>2. SpendsOne(d) /\ (column = S(d).ready => HasRoom(d))
    BY DEF NoneTooMany
  <2>3. SpendsOne(d)'
    BY <1>2, <1>3, <2>1, <2>2 DEF SpendsOne, At, S
  <2> QED BY <1>2, <2>1, <2>2, <2>3
<1> QED BY <1>5 DEF NoneTooMany, S

LEMMA TickSpends ==
  ASSUME TypeOK, NoneTooMany, Tick
  PROVE  NoneTooMany'
<1>1. UNCHANGED <<column, log, failed, unworked, host, pc, seen, out, dest>>
  BY DEF Tick, ticket, local
<1>2. ASSUME NEW d \in Dispatchers
      PROVE  SpendsOne(d)' /\ (column' = S(d).ready => HasRoom(d)')
  <2>1. /\ Spent(log, Role[d]) \in Nat /\ MaxAttempts \in Nat
        /\ Spent(log, Role[d])' \in Nat /\ Spent(log, Role[d])' <= Spent(log, Role[d])
    BY CountTypes, SpentIs, SpentFalls
  <2>2. HasRoom(d) => HasRoom(d)'
    BY <1>1, <2>1 DEF HasRoom, Selectable
  <2>3. After(d)' = After(d)
    BY <1>1 DEF After
  <2>4. SpendsOne(d) /\ (column = S(d).ready => HasRoom(d))
    BY DEF NoneTooMany
  <2>5. Spent(log, Role[d]) <= MaxAttempts => Spent(log, Role[d])' <= MaxAttempts
    BY <2>1
  <2>6. SpendsOne(d)'
    BY <1>1, <2>2, <2>3, <2>4, <2>5 DEF SpendsOne, At, S
  <2> QED BY <1>1, <2>2, <2>4, <2>6
<1> QED BY <1>1, <1>2 DEF NoneTooMany, S

LEMMA InitSpends == Init => NoneTooMany
<1> SUFFICES ASSUME Init PROVE NoneTooMany
  OBVIOUS
<1>1. log = <<>> /\ <<>> \in Seq(Comments) /\ now \in Nat
  BY EmptySeq DEF Init
<1>2. \A r : Round(log, r) = {}
  BY <1>1, EmptySeq DEF Round
<1>3. \A r : Attempts(log, r) = 0
  BY <1>2, CountsAre, FS_EmptySet
<1>4. \A r : SpentBy(log, r, now) = 0
  <2>1. \A r : SpentBy(log, r, now) \in Nat /\ SpentBy(log, r, now) <= Attempts(log, r)
    BY <1>1, CountBounds
  <2> QED BY <1>3, <2>1
<1>5. MaxAttempts \in Nat /\ MaxAttempts # 0
  BY InitTyped, CountTypes
<1>6. \A d \in Dispatchers : HasRoom(d)
  BY <1>3, <1>4, <1>5, SpentIs DEF HasRoom, Selectable, Init, InUse
<1>7. \A d \in Dispatchers : pc[d] = "listing"
  BY DEF Init
<1> QED BY <1>6, <1>7 DEF NoneTooMany, SpendsOne, At

(* The invariant of one stage: the three ceilings, the one that selects,    *)
(* the one that verifies and the one that ends an attempt, count the same.  *)
LEMMA SpendingStays == OneStageSetting => (Spec => [](TypeOK /\ Exclusive /\ NoFailureUncounted /\ NoneTooMany))
<1> SUFFICES ASSUME OneStageSetting
             PROVE  Spec => [](TypeOK /\ Exclusive /\ NoFailureUncounted /\ NoneTooMany)
  OBVIOUS
<1>1. ExclusiveSetting
  BY DEF OneStageSetting
<1>2. TypeOK /\ Exclusive /\ NoFailureUncounted /\ NoneTooMany /\ [Next]_vars => NoneTooMany'
  <2> SUFFICES ASSUME TypeOK, Exclusive, NoFailureUncounted, NoneTooMany, [Next]_vars
               PROVE  NoneTooMany'
    OBVIOUS
  <2>1. ASSUME NEW d \in Dispatchers, Step(d) PROVE NoneTooMany'
    BY <2>1, StepSpends
  <2>2. ASSUME NEW h \in Hosts, Kill(h) \/ Stop(h) \/ Exit(h) \/ Restart(h) PROVE NoneTooMany'
    BY <2>2, HostStepSpends
  <2>3. CASE UNCHANGED vars
    <3>1. UNCHANGED <<column, log, now, host, pc, seen, out, dest, failed, unworked>>
      BY <2>3 DEF vars, ticket, local
    <3> QED BY <3>1 DEF NoneTooMany, SpendsOne, HasRoom, Selectable, After, At, S, Spent
  <2> QED BY <2>1, <2>2, <2>3, TickSpends DEF Next
<1>3. Spec => []Exclusive /\ []NoFailureUncounted
  BY <1>1, StaysInStep, CountingStays
<1> QED BY <1>2, <1>3, InitSpends, TypeCorrect, PTL DEF Spec

(* One stage by itself, any number of hosts, whatever fails, is stopped, is *)
(* sent twice or is not wanted any more: a ticket in the queue can be       *)
(* selected unless claims that no handler worked under used up the count,   *)
(* and one that failed as often as it may is not worked again.              *)
THEOREM CeilingsCountTheSame == OneStageSetting => (Spec => []CeilingsAgree)
<1> SUFFICES ASSUME OneStageSetting PROVE Spec => []CeilingsAgree
  OBVIOUS
<1>1. NoneTooMany => QueuedIsSelectable
  BY DEF NoneTooMany, QueuedIsSelectable, HasRoom, UsedUpUnworked
<1>2. Spec => []FailsAtMost
  BY NoAttemptTooMany DEF OneStageSetting
<1> QED BY <1>1, <1>2, SpendingStays, PTL DEF CeilingsAgree

(* In the same setting a ticket goes to a person for failing only after     *)
(* MaxAttempts claims under which it failed or that nobody worked under.    *)
THEOREM PersonsAreAskedOnMerits == OneStageSetting => (Spec => EscalatedOnMerits)
<1> SUFFICES ASSUME OneStageSetting PROVE Spec => EscalatedOnMerits
  OBVIOUS
<1>1. NoneTooMany /\ [Next]_vars
      => [\A d \in Dispatchers :
            At(d, "move") /\ out[d] = "failed" /\ dest[d] = S(d).exhausted /\ column' # column
              => failed[Role[d]] + unworked[Role[d]] >= MaxAttempts]_vars
  BY DEF NoneTooMany, SpendsOne, At
<1> QED BY <1>1, SpendingStays, PTL DEF Spec, EscalatedOnMerits
=============================================================================
