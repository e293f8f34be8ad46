\* One chat; the pairs of requests of MCChatRound.  The system stops when the rounds
\* are over.
CONSTANTS
  w1 = w1
  w2 = w2
  a1 = a1
  a2 = a2
  c1 = c1
  Web = {w1, w2}
  Sub = {a1, a2}
  Requests <- Asked
  Chats = {c1}
  Allocatable = {"other"}
  MaxTurns = 1
  MaxCalls = 2
  MaxTokens = 2
  MaxEdits = 1
  Continue = Continue
  NoChat = NoChat
  NoRound = NoRound
  NoJob = NoJob
SPECIFICATION Spec
INVARIANTS StreamAgrees AnsweredOnce AgentsKept TitlePlanned
PROPERTY RoundsEnd
CHECK_DEADLOCK FALSE
