----------------------------- MODULE MCDevLoop ------------------------------
(* Instances of DevLoop for TLC.                                            *)
EXTENDS DevLoop

Developer(referee, repairs, breaks, outputs, replies, files) ==
  [mode |-> "develop", referee |-> referee, repairs |-> repairs, faults |-> breaks,
   outputs |-> outputs, replies |-> replies, files |-> files]

(* Two files and a sandbox that fails: what becomes of the work. *)
Working ==
  Developer(FALSE, 0, 1, {"assertion", "green", "rejected"}, {"write", "undo"}, Files)

(* Every output there is, and a referee: what becomes of the verdict. *)
Judging ==
  Developer(TRUE, 1, 0, Outputs, {"write", "poke", "refused"}, {"a"})

(* The bounds, and nothing to judge. *)
Idling ==
  Developer(FALSE, 2, 0, {"implBroken", "mistyped"}, Replies, {"a"})

(* An author of tests, whose gate passes red. *)
Author ==
  [Developer(FALSE, 0, 2, {"undefined", "mistyped"},
             {"write", "read"}, {"a"}) EXCEPT !.mode = "test"]

(* A model that never gives a usable answer. *)
Babbling == Developer(FALSE, 0, 0, {"green"}, {"unparsable"}, {"a"})

AllAttempts == {Working, Judging, Idling, Author, Babbling}
Deadlocked  == {Developer(FALSE, 0, 0, {"green"}, {"refused"}, {"a"})}
=============================================================================
