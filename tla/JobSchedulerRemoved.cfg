\* A job removed by a client or a tool, and the list of the job thread.
CONSTANTS
  j1 = j1
  j2 = j2
  j3 = j3
  j4 = j4
  Jobs = {j1}
  Job <- Regular
  Edited = {j1}
  Slots = {1}
  Day = 20
  AsapDelay = 6
  MaxTime = 12
  MaxRestarts = 0
SPECIFICATION Spec
PROPERTY RemovedNotRun
