--------------------------- MODULE AdmissionRules ---------------------------
(***************************************************************************)
(* What the admission queue promises, as the comment of type Queue states  *)
(* it (internal/queue/queue.go:77-90): no counters, no lock, no loop, only *)
(* who waits, in what order they came, and who has the box.                *)
(***************************************************************************)
EXTENDS Integers, FiniteSets, SequencesExt

CONSTANTS Callers, Slots, Critical, Priority

VARIABLES
  list,    \* who waits, in order of arrival
  urgency, \* the priority each request was made with
  serving  \* whose request has a slot

ruleVars == <<list, urgency, serving>>

Listed == {list[i] : i \in DOMAIN list}

Init ==
  /\ list = <<>>
  /\ urgency \in [Callers -> Priority]
  /\ serving = {}

Arrive(c) ==
  /\ c \notin Listed \cup serving
  /\ list' = Append(list, c)
  /\ \E p \in Priority : urgency' = [urgency EXCEPT ![c] = p]
  /\ UNCHANGED serving

(* Rule 1: nobody joins a critical request.  Rule 2: a critical request    *)
(* waits for an empty box, and while it waits nobody else is admitted.     *)
(* Rule 3: up to Slots, most urgent first, oldest first within a priority. *)
Rule1 == \A d \in serving : urgency[d] # Critical
Rule2(c) == IF urgency[c] = Critical
            THEN serving = {}
            ELSE \A d \in Listed : urgency[d] # Critical
Rule3(i) ==
  /\ Cardinality(serving) < Slots
  /\ \A j \in DOMAIN list :
       \/ urgency[list[j]] < urgency[list[i]]
       \/ urgency[list[j]] = urgency[list[i]] /\ i <= j

Admit(i) ==
  /\ Rule1 /\ Rule2(list[i]) /\ Rule3(i)
  /\ list' = RemoveAt(list, i)
  /\ serving' = serving \cup {list[i]}
  /\ UNCHANGED urgency

(* A request is shed, or its caller stops waiting for it.                  *)
GiveUp(i) ==
  /\ list' = RemoveAt(list, i)
  /\ UNCHANGED <<urgency, serving>>

Finish(c) ==
  /\ serving' = serving \ {c}
  /\ UNCHANGED <<list, urgency>>

Next ==
  \/ \E c \in Callers : Arrive(c)
  \/ \E i \in DOMAIN list : Admit(i) \/ GiveUp(i)
  \/ \E c \in serving : Finish(c)

Spec == Init /\ [][Next]_ruleVars
=============================================================================
