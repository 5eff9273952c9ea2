CONSTANTS
  one = one
  two = two
  good = good
  fair = fair
  odd = odd
  raw = raw
  MaxLinks = 3
  Runs = {one, two}
  Folded <- MCFolded
  Docs <- MCDocs
  Parses = {good, fair, odd}
  Sound = {good, fair}
  Tidy = {good, fair, odd}
  Migrated <- MCMigrated
  Scenes <- MCScenes
SPECIFICATION Spec
CHECK_DEADLOCK FALSE
INVARIANTS ResultsAreWhole DrawnFromWhatWasRead PreviousNotLost
PROPERTIES InputsAreSafe
