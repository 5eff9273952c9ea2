--------------------------- MODULE ExclusiveClaim ---------------------------
(***************************************************************************)
(* The settings in which ClaimProtocol keeps its promises, and the         *)
(* invariants that show it: with versions, how the column, the comments,   *)
(* the versions and the places of the dispatchers stay in step, and what   *)
(* the count of attempts is worth; without versions, why the oldest claim  *)
(* is that of the one dispatcher that goes on.                             *)
(***************************************************************************)
EXTENDS ClaimProtocol

Alone(d)    == \A e \in Dispatchers : Host[e] = Host[d] => e = d
OwnBench(d) == \A e \in Dispatchers : S(e).working = S(d).working => e = d

(* The store serves versions, no handler hands the ticket on by itself, a   *)
(* close and a reset are not lost, a move is not sent twice, and no         *)
(* dispatcher shares both its host and its bench with others.  None of the  *)
(* five can be left out: README.md says what breaks without each.           *)
ExclusiveSetting ==
  /\ Conditional
  /\ \A d \in Dispatchers : "handled" \notin Endings[Role[d]]
  /\ "close" \notin Lossy /\ "reset" \notin Lossy
  /\ "move" \notin Resent
  /\ \A d \in Dispatchers : Alone(d) \/ OwnBench(d)

Claims        == Standing(log, AnyRole)
ClaimOf(i, d) == log[i].host = Host[d] /\ log[i].role = Role[d]
Reclaims(d)   == pc[d] \in {"forget", "requeue"}

(* A ticket that is held, or being taken back, is on that one's bench.      *)
OnTheBench == \A d \in Dispatchers : Holds(d) \/ Reclaims(d) => column = S(d).working

(* Holding it and taking it back exclude each other and themselves.         *)
AtMostOne ==
  \A d, e \in Dispatchers :
    (Holds(d) \/ Reclaims(d)) /\ (Holds(e) \/ Reclaims(e)) => d = e

(* A version read from the queue is good for as long as the ticket waits.   *)
VersionsOfTheQueue == \A d \in fresh : column = S(d).ready

(* All claims that stand are of one dispatcher, on its bench, and nobody    *)
(* else holds the ticket or is taking it back.                              *)
ClaimsOfOne ==
  Claims # {} =>
    \E d \in Dispatchers :
      /\ column = S(d).working
      /\ \A i \in Claims : ClaimOf(i, d)
      /\ \A e \in Dispatchers : Holds(e) \/ Reclaims(e) => e = d

(* The round is over before the ticket moves.                               *)
ClosedBeforeMoved ==
  /\ \A d \in Dispatchers : pc[d] \in {"relMove", "note", "move"} => Claims = {}
  /\ \A d \in Dispatchers : At(d, "requeue") => Claims = {} \/ Stopping(d)

(* A claim stands for as long as the ticket is worked.                      *)
ClaimedWhileWorked == \A d \in Dispatchers : pc[d] \in {"verify", "work"} => Claims # {}

(* A bench of one's own keeps what was found on it.                         *)
StillListed ==
  \A d \in Dispatchers : At(d, "reconcile") /\ OwnBench(d) => column = S(d).working

NoAppends == \A d \in Dispatchers : pc[d] \notin {"append", "arbitrate", "take"}

Exclusive ==
  /\ OnTheBench /\ AtMostOne /\ VersionsOfTheQueue /\ ClaimsOfOne
  /\ ClosedBeforeMoved /\ ClaimedWhileWorked /\ StillListed /\ NoAppends
-----------------------------------------------------------------------------
(* Without versions a host runs one stage, no handler leaves a mark or      *)
(* gives up by itself, which ends the claims of others, and no claim goes   *)
(* stale while it is worked.                                                *)
AppendSetting ==
  /\ ~Conditional
  /\ \A d \in Dispatchers : Alone(d) /\ "abandoned" \notin Endings[Role[d]]
  /\ Marks \cap InUse = {}
  /\ StaleAfter >= MaxTime

\* From the arbitration it won until it closes its claim.
Won(d) == pc[d] \in {"take", "verify", "work", "close", "relClose"}

(* As long as nothing failed: whoever goes on after the arbitration has the *)
(* oldest claim of its role, and one that only starts has none.             *)
OldestGoesOn ==
  budget = Budget =>
    /\ \A h \in Hosts : host[h] = "up"
    /\ \A d \in Dispatchers :
         /\ pc[d] \notin {"down", "forget", "requeue", "cas", "attribute", "forgive"}
         /\ Won(d) \/ At(d, "arbitrate") => mine[d] \in DOMAIN log /\ ClaimOf(mine[d], d)
         /\ Won(d) => OldestForRole(log, Role[d]) = mine[d]
         /\ pc[d] \in {"listing", "reconcile"} =>
              \A i \in DOMAIN log : log[i].host # Host[d]
-----------------------------------------------------------------------------
(* What the count of attempts is worth in the exclusive setting: no failure *)
(* is missing from it, and a ticket that is taken back starts at zero.      *)
CountsIts(d) ==
  /\ pc[d] \in {"verify", "work"} => failed[Role[d]] < Attempts(log, Role[d])
  /\ At(d, "work") => Spent(log, Role[d]) <= MaxAttempts
  /\ At(d, "requeue") => Stopping(d) \/ \A r \in InUse : Attempts(log, r) = 0

NoFailureUncounted ==
  /\ \A r \in InUse : failed[r] <= Attempts(log, r)
  /\ \A d \in Dispatchers : CountsIts(d)

(* One stage by itself, in the exclusive setting: whatever else fails, is   *)
(* stopped, is sent twice or is not wanted any more.                        *)
OneStageSetting ==
  /\ ExclusiveSetting
  /\ \A d, e \in Dispatchers : Role[d] = Role[e]
  /\ \A d \in Dispatchers : S(d).ready \notin {S(d).success, S(d).exhausted, S(d).returns, Conflicted}

\* Every claim in the count failed or was not worked under, and one more fits.
HasRoom(d) ==
  /\ Attempts(log, Role[d]) <= failed[Role[d]] + unworked[Role[d]]
  /\ Selectable(Role[d]) \/ unworked[Role[d]] > 0

After(d) == {log[i].kind : i \in {j \in DOMAIN log : j > seen[d]}}

(* From its claim to its move, what a dispatcher adds to the count and what *)
(* it decides from the count it read.                                       *)
SpendsOne(d) ==
  /\ At(d, "attribute") => HasRoom(d)
  /\ pc[d] \in {"relClose", "relMove"} => HasRoom(d)
  /\ pc[d] \in {"verify", "work"} =>
       /\ Attempts(log, Role[d]) <= failed[Role[d]] + unworked[Role[d]] + 1
       /\ Spent(log, Role[d]) <= MaxAttempts \/ unworked[Role[d]] > 0
  /\ pc[d] \in {"work", "forgive", "close"} => seen[d] <= Len(log) /\ "claim" \notin After(d)
  /\ At(d, "work") \/ (At(d, "close") /\ out[d] = "failed") => After(d) \cap Resets = {}
  /\ At(d, "forgive") => out[d] = "abandoned"
  /\ At(d, "close") =>
       /\ out[d] # "handled"
       /\ out[d] = "failed" => Attempts(log, Role[d]) <= failed[Role[d]] + unworked[Role[d]]
       /\ out[d] = "abandoned" => Attempts(log, Role[d]) = 0
  /\ pc[d] \in {"note", "move"} =>
       /\ dest[d] = S(d).ready => HasRoom(d)
       /\ out[d] = "failed" /\ dest[d] = S(d).exhausted
            => failed[Role[d]] + unworked[Role[d]] >= MaxAttempts

NoneTooMany ==
  \A d \in Dispatchers : SpendsOne(d) /\ (column = S(d).ready => HasRoom(d))
=============================================================================
