\* Jobs of all timings, two of them fatal to the thread, with late updates, removals,
\* saves and a restart.
CONSTANTS
  j1 = j1
  j2 = j2
  j3 = j3
  j4 = j4
  Jobs = {j1, j2, j3, j4}
  Job <- Mixed
  Edited = {j2}
  Slots = {1, 3}
  Day = 4
  AsapDelay = 3
  MaxTime = 5
  MaxRestarts = 1
SPECIFICATION Spec
INVARIANTS ScheduledExists DeadlineIsFirst StoredKnown
PROPERTIES NeverEarly SucceedsOnce
