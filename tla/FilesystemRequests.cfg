\* Requests of every kind, files added and removed by other programs, a restart.
CONSTANTS
  Names = {a, b}
  Data = {d1, d2}
  None = None
  MaxElements = 5
  MaxDepth = 2
  MaxRequests = 4
  MaxOutside = 1
  MaxRestarts = 1
SPECIFICATION Spec
SYMMETRY Interchangeable
INVARIANTS TreeSound ReplicaFollows
PROPERTIES MoveKeepsData
CHECK_DEADLOCK FALSE
