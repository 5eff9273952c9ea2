-------------------------- MODULE MCClaimProtocol --------------------------
(* Small instances of ClaimProtocol for TLC: who races for the ticket.     *)
EXTENDS ExclusiveClaim, TLC

Routes == Table(FALSE, FALSE)

(* Two hosts that run the developer.                                        *)
DevEnds     == [dev |-> {"success", "failed", "returned", "blocked"}]
DevPair     == {"d1", "d2"}
DevPairHost == [d1 |-> "h1", d2 |-> "h2"]
DevPairRole == [d \in DevPair |-> "dev"]

(* Any number of hosts that run the reviewer and nothing else.              *)
ReviewEnds == [review |-> {"success", "failed", "returned", "blocked"}]
OwnHost    == [d \in Dispatchers |-> d]
AllReview  == [d \in Dispatchers |-> "review"]
Alike      == Permutations(Dispatchers)

(* Without versions the instance is one of those OneGoesOn is about.        *)
ASSUME SettingAssumption == Conditional \/ AppendSetting
=============================================================================
