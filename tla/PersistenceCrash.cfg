\* The saving thread and a client that also asks for saves, with changes during
\* saves, errors and crashes.
CONSTANTS
  SaveOrder <- ThreeFiles
  saver = saver
  c1 = c1
  SavingThread = saver
  Clients = {c1}
  MaxVersion = 4
  MaxCrashes = 2
  MaxFailures = 1
  Missing = Missing
  Empty = Empty
  Torn = Torn
  None = None
SPECIFICATION FairSpec
INVARIANT SavedCut
PROPERTIES  EventuallySaved
CHECK_DEADLOCK FALSE
