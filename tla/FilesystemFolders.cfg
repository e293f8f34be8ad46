\* A folder with a file is moved or deleted.
CONSTANTS
  Names = {a, b}
  Data = {d1}
  None = None
  MaxElements = 5
  MaxDepth = 2
  MaxRequests = 3
  MaxOutside = 0
  MaxRestarts = 0
SPECIFICATION Spec
INVARIANTS DatabaseStaysUp
CHECK_DEADLOCK FALSE
