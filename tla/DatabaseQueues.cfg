\* Both channels, tunnels given up by their worker, removals, an access mode whose
\* settings a tool changes silently, the saving thread: who is served, what is saved.
CONSTANTS
  Kinds = {"chat", "job", "mode"}
  Deletable = {"chat", "job"}
  JobKinds = {"job"}
  Annotatable = {"chat"}
  Configurable = {"mode"}
  Bodies = {"x", "y"}
  Notes = {"n"}
  FirstRecord <- OneRecord
  InitialItems <- OneFirst
  MaxId = 1
  MaxOrphans = 1
  s1 = s1
  s2 = s2
  w1 = w1
  w2 = w2
  a1 = a1
  t1 = t1
  Sessions = {s1}
  Workers = {w1}
  Agents = {a1}
  Savers = {t1}
  WebOps = {"newkey", "getall", "remove", "tunnel"}
  AgentOps = {"respond", "configure", "remove"}
  Local = Local
  NoItem = NoItem
  Absent = Absent
SPECIFICATION FairSpec
INVARIANTS EveryCallQueuedOnce FlagCoversWrites 
PROPERTIES PrioAnswered NormalAnswered
CHECK_DEADLOCK FALSE
