----------------------------- MODULE UpdateBoard -----------------------------
(***************************************************************************)
(* What scripts/check-update.mjs promises of its record, whoever runs it   *)
(* at the same time: the record changes by one decision at a time, each    *)
(* taken on the record as it stands.                                       *)
(***************************************************************************)
EXTENDS UpdateNotice

CONSTANT Times       \* the clock readings of the runs

VARIABLE board   \* the record the next run will read

BoardInit == board = EmptyState

\* A manifest was fetched, by a run that read the clock at some time now.
Hear == \E r \in Release, delay \in SuccessDelays, now \in Times :
          board' \in FetchDecision(board, now, delay, r).state
Fail == \E now \in Times : board' \in FailureDecision(board, now).state
Acknowledge == \E d \in Release : board' \in AcknowledgeDecision(board, d).state

BoardNext == board' # board /\ (Hear \/ Fail \/ Acknowledge)
BoardSpec == BoardInit /\ [][BoardNext]_board
=============================================================================
