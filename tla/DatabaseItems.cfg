\* Chats, which two web workers and an agent add, change and remove, also while the
\* agent works on one and while an update is on its way to an item just removed.
CONSTANTS
  Kinds = {"chat"}
  Deletable = {"chat"}
  JobKinds = {}
  Annotatable = {"chat"}
  Configurable = {}
  Bodies = {"x", "y"}
  Notes = {"n"}
  FirstRecord <- OneRecord
  InitialItems <- ModesFirst
  MaxId = 1
  MaxOrphans = 0
  s1 = s1
  s2 = s2
  w1 = w1
  w2 = w2
  a1 = a1
  t1 = t1
  Sessions = {s1, s2}
  Workers = {w1, w2}
  Agents = {a1}
  Savers = {}
  WebOps = {"newkey", "getall", "get", "add", "update", "remove"}
  AgentOps = {"add", "respond", "annotate"}
  Local = Local
  NoItem = NoItem
  Absent = Absent
SYMMETRY Symmetry
SPECIFICATION Spec
INVARIANTS FreshIds DeletableMirrored BodiesAgree
PROPERTY ImplementsItemStore
