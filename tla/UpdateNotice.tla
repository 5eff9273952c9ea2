---------------------------- MODULE UpdateNotice ----------------------------
(***************************************************************************)
(* The record scripts/check-update.mjs keeps between runs: the newest      *)
(* release it has heard of, when to ask again, which notices were offered  *)
(* and which were acknowledged.  A release is its artifact digest.  Sizes  *)
(* stand for the bytes of the encoded record: only the order of magnitude  *)
(* of its parts matters to the limit of 64 KiB.                            *)
(***************************************************************************)
EXTENDS Integers, FiniteSets

CONSTANTS
  Release,        \* the digests a manifest may carry
  Newer,          \* those whose version is above the installed one
  Capacity,       \* MAX_CACHE_STATE_BYTES
  SuccessDelays,  \* CHECK_TTL_MS, spread by the random factor
  FirstDelay,     \* FIRST_FAILURE_DELAY_MS
  LaterDelay,     \* LATER_FAILURE_DELAY_MS
  Horizon         \* MAX_CACHE_HORIZON_MS

DigestSize == 4
CandidateSize == 6
StampSize == 1
LongestStampSize == 2

ASSUME NoticeAssumption ==
  /\ IsFiniteSet(Release) /\ Newer \subseteq Release
  /\ Capacity \in Nat /\ Capacity >= LongestStampSize /\ Horizon \in Nat
  /\ SuccessDelays \subseteq 1..Horizon
  /\ FirstDelay \in 1..Horizon /\ LaterDelay \in 1..Horizon

(***************************************************************************)
(* A candidate is a set of at most one release; due = 0 is no date.        *)
(***************************************************************************)
Notices == [candidate : {{}} \cup {{r} : r \in Release}, due : Nat,
            failures : 0..2,
            offered : SUBSET Release, acknowledged : SUBSET Release]

EmptyState == [candidate |-> {}, due |-> 0, failures |-> 0,
               offered |-> {}, acknowledged |-> {}]

Reasons == {"cache-valid", "current", "already-notified", "check-in-progress",
            "cache-unavailable", "check-failed", "invalid-acknowledgement",
            "acknowledged", "update_available", ""}
Answers == [notice : {{}} \cup {{r} : r \in Release}, why : Reasons]
Silent(why) == [notice |-> {}, why |-> why]

(***************************************************************************)
(* encodeBoundedState: a list of n digests has n - 1 commas, so moving the *)
(* only offered digest to a list that is not empty lengthens the record.   *)
(***************************************************************************)
ListSize(n) == DigestSize * n + (IF n = 0 THEN 0 ELSE n - 1)
Size(s, moved, stamp) ==
  ListSize(Cardinality(s.offered) - moved)
    + ListSize(Cardinality(s.acknowledged) + moved)
    + CandidateSize * Cardinality(s.candidate) + stamp

Stamped(s) == IF s.due = 0 THEN 0 ELSE StampSize

(***************************************************************************)
(* encodeRecoverableState: what is written must leave room for every later *)
(* acknowledgement, one after the other, and for the date of a failed      *)
(* check.  No release is in both lists, so the number moved decides.       *)
(***************************************************************************)
\* A slip: room for the record as it stands, not as it will be acknowledged.
AsItStandsMutant(s) == Size(s, 0, Stamped(s)) <= Capacity
Recoverable(s) ==
  \A moved \in 0..Cardinality(s.offered) :
    /\ Size(s, moved, Stamped(s)) <= Capacity
    /\ Size(s, moved, LongestStampSize) <= Capacity

AfterAcknowledging(s, d) ==
  [s EXCEPT !.offered = @ \ {d}, !.acknowledged = @ \cup {d}]

(***************************************************************************)
(* normalizeState accepts a record that is recoverable and whose newer     *)
(* candidate was put on record as offered.                                 *)
(***************************************************************************)
Readable(s) ==
  /\ s.candidate \cap Newer \subseteq s.offered \cup s.acknowledged
  /\ Recoverable(s)

Fresh(s, now) == s.due > now /\ s.due <= now + Horizon

ResultFor(s) ==
  IF s.candidate = {} THEN Silent("cache-valid")
  ELSE IF s.candidate \cap Newer = {} THEN Silent("current")
  ELSE IF s.candidate \subseteq s.acknowledged THEN Silent("already-notified")
  ELSE [notice |-> s.candidate, why |-> "update_available"]

(***************************************************************************)
(* What a run that lost its turn may still say of the record it reads.     *)
(***************************************************************************)
LoserResult(s) ==
  IF s.candidate # {} /\ s.candidate \subseteq s.offered
  THEN ResultFor(s) ELSE Silent("check-in-progress")

AfterFailedCheck(s, now, withdraw) ==
  LET n == IF s.failures + 1 > 2 THEN 2 ELSE s.failures + 1 IN
  [s EXCEPT !.failures = n,
            !.due = now + (IF n <= 1 THEN FirstDelay ELSE LaterDelay),
            !.candidate = IF withdraw THEN {} ELSE @]

(***************************************************************************)
(* The decision after a manifest was fetched: the candidate replaces the   *)
(* old one and, if it is to be shown, is put on record as offered.         *)
(***************************************************************************)
\* A slip: what is shown is not put on record.
UnofferedMutant(s, now, delay, r) ==
  [s EXCEPT !.candidate = {r}, !.due = now + delay, !.failures = 0]
AfterFetch(s, now, delay, r) ==
  LET next == [s EXCEPT !.candidate = {r}, !.due = now + delay, !.failures = 0]
  IN  [next EXCEPT !.offered = @ \cup ResultFor(next).notice]

(***************************************************************************)
(* A decision is what is to be written, if anything, and the answer.       *)
(***************************************************************************)
Decision(state, answer) == [state |-> state, answer |-> answer]

FetchDecision(s, now, delay, r) ==
  LET next == AfterFetch(s, now, delay, r)
      less == AfterFailedCheck(s, now, TRUE)
  IN  IF Recoverable(next) THEN Decision({next}, ResultFor(next))
      ELSE IF Recoverable(less) THEN Decision({less}, Silent("cache-unavailable"))
      ELSE Decision({}, Silent("cache-unavailable"))

FailureDecision(s, now) ==
  LET next == AfterFailedCheck(s, now, FALSE) IN
  IF Recoverable(next) THEN Decision({next}, Silent("check-failed"))
  ELSE Decision({}, Silent("cache-unavailable"))

AcknowledgeDecision(s, d) ==
  LET next == AfterAcknowledging(s, d) IN
  IF d \notin s.offered \cup s.acknowledged
  THEN Decision({}, Silent("invalid-acknowledgement"))
  ELSE IF Recoverable(next) THEN Decision({next}, Silent("acknowledged"))
  ELSE Decision({}, Silent("cache-unavailable"))
=============================================================================
