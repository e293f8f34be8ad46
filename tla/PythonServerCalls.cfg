\* Three calls on two ports, with callers that give up and threads that panic.
CONSTANTS
  Calls = {c1, c2, c3}
  p1 = p1
  p2 = p2
  PortOrder <- TwoPorts
  None = None
SPECIFICATION FairSpec
INVARIANTS PortsConserved OnePlace
PROPERTIES QueuedStarted BacklogAccepted
CHECK_DEADLOCK FALSE
