\* Two access modes, two tasks of the Memory tool and a client, saves that may fail
\* and overlap, a crash or two.
CONSTANTS
  m1 = m1
  m2 = m2
  t1 = t1
  t2 = t2
  s1 = s1
  s2 = s2
  Modes = {m1, m2}
  Tasks = {t1, t2}
  Clients = {"c"}
  Savers = {s1, s2}
  Lengths = {1}
  Removals <- FirstLine
  NameSpan = 2
  h1 = h1
  Hashes = {h1}
  FirstBytes = 1
  HashLength = 2
  MaxPrefixes = 2
  MaxMemories = 2
  MaxCalls = 3
  MaxFaults = 2
  Blank = Blank
  None = None
SYMMETRY Symmetry
SPECIFICATION Spec
INVARIANTS EveryMemoryHasItsFile MediaHaveTheirData OwnMemory  SavedTogether NotesStayInMode
CHECK_DEADLOCK FALSE
