\* A worker that gives up waiting for its tunnel.
CONSTANTS
  Kinds = {"chat"}
  Deletable = {"chat"}
  JobKinds = {}
  Annotatable = {"chat"}
  Configurable = {}
  Bodies = {"x"}
  Notes = {"n"}
  FirstRecord <- OneRecord
  InitialItems <- OneFirst
  MaxId = 1
  MaxOrphans = 1
  s1 = s1
  s2 = s2
  w1 = w1
  w2 = w2
  a1 = a1
  t1 = t1
  Sessions = {s1}
  Workers = {w1}
  Agents = {a1}
  Savers = {}
  WebOps = {"newkey", "getall", "tunnel"}
  AgentOps = {"respond"}
  Local = Local
  NoItem = NoItem
  Absent = Absent
SPECIFICATION Spec
INVARIANT TunnelReceiverPresent
CHECK_DEADLOCK FALSE
