SPECIFICATION Spec
CONSTANTS
  Grid = 4
  MaxPoints = 4
  Frames <- SomeFrames
  Others <- SomeOthers
  Fans <- SomeFans
CHECK_DEADLOCK FALSE
INVARIANTS RoutesAreMeasured PortsStayApart
