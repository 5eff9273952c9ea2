SPECIFICATION Spec
CONSTANT Documents <- MCDocuments
CHECK_DEADLOCK FALSE
INVARIANTS NodesHaveRoom OwnRoutesPassReview PinsAreKept PictureFitsCanvas RoomIsGivenOnce
