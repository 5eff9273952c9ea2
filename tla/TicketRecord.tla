---------------------------- MODULE TicketRecord ----------------------------
(***************************************************************************)
(* What a ticket's comments record (internal/record): who claimed it, when *)
(* a round of claims ended, and how many attempts a role has spent.        *)
(*                                                                         *)
(* A log is the sequence of a ticket's comments in the order the code      *)
(* sorts them into, which is the order the store assigned; a comment's     *)
(* place in it stands for its id.  A body is reduced to the marker that    *)
(* the code looks for in it.                                               *)
(***************************************************************************)
EXTENDS Integers, FiniteSets, Sequences

CONSTANT StaleAfter \* how long a claim may stand, in ticks of the clock

ASSUME StaleAssumption == StaleAfter \in Nat

AnyRole    == ""           \* the empty role: the question is about the ticket
Unreadable == "unreadable" \* the role of a body that does not decode
NoTime     == 0            \* a creation time the store never filled in

(* "interrupted" and "returned" carry ReturnedMarker, "repair" carries     *)
(* SpecRepairMarker, "note" none of the markers these functions read.      *)
Kinds  == {"claim", "close", "interrupted", "returned", "repair", "note"}
Resets == {"interrupted", "returned", "repair"}

Comment(kind, host, role, at) == [kind |-> kind, host |-> host, role |-> role, at |-> at]

Closes(c, role) ==
  \/ c.kind \in Resets
  \/ c.kind = "close" /\ (role = AnyRole \/ c.role = role)

NamesRole(c, role) ==
  /\ c.kind = "claim"
  /\ c.role # Unreadable
  /\ role = AnyRole \/ c.role = role

(* The claims of a role that no later comment has closed.                  *)
Standing(log, role) ==
  {i \in DOMAIN log : /\ NamesRole(log[i], role)
                      /\ \A j \in DOMAIN log : j > i => ~Closes(log[j], role)}

Newest(log, role) ==
  IF Standing(log, role) = {} THEN 0
  ELSE CHOOSE i \in Standing(log, role) : \A j \in Standing(log, role) : i >= j

(* The place of the winning claim, 0 when no claim stands.                  *)
OldestForRole(log, role) ==
  IF Standing(log, role) = {} THEN 0
  ELSE CHOOSE i \in Standing(log, role) : \A j \in Standing(log, role) : i <= j

HeldByHost(log) ==
  IF OldestForRole(log, AnyRole) = 0 THEN "" ELSE log[OldestForRole(log, AnyRole)].host

ClosesResetMutant(log, role) ==
  Cardinality({i \in DOMAIN log :
     /\ log[i].kind = "claim" /\ log[i].role = role
     /\ \A j \in DOMAIN log : j > i => log[j].kind \notin Resets \cup {"close"}})

(* A reset starts a role's count again; a close does not.                   *)
Attempts(log, role) ==
  Cardinality({i \in DOMAIN log :
     /\ log[i].kind = "claim" /\ log[i].role = role
     /\ \A j \in DOMAIN log : j > i => log[j].kind \notin Resets})

Stale(c, now) == c.kind = "claim" /\ c.at # NoTime /\ now - c.at > StaleAfter

(* Dropping a comment leaves the others their ids: it becomes a blank.      *)
PruneStale(log, now) ==
  [i \in DOMAIN log |-> IF Stale(log[i], now) THEN Comment("note", "", AnyRole, log[i].at)
                        ELSE log[i]]

=============================================================================
