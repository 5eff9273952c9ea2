SPECIFICATION FairSpec
CONSTANTS
  c1 = c1
  c2 = c2
  c3 = c3
  Callers <- ThreeCallers
  SlotsAsked = 2
  BoundAsked = 1
  Arriving <- NormalAndUp
INVARIANTS QueueIsSound
PROPERTIES CriticalServed ImplementsRules
