SPECIFICATION Spec
CONSTANTS
  c1 = c1
  c2 = c2
  r1 = r1
  b1 = b1
  label = label
  NoId = NoId
  NoLabel = NoLabel
  Pairs <- Compared
  MaxToken = 6
CHECK_DEADLOCK FALSE
INVARIANTS ChangesAreDrawn PlayingIsShown
PROPERTIES PlaybackEnds
