SPECIFICATION FairSpec
CONSTANTS
  j1 = j1
  j2 = j2
  j3 = j3
  c1 = c1
  c2 = c2
  None = None
  Jobs = {j1, j2, j3}
  Chats = {c1, c2}
  ChatOf <- OneChat
  BufSize = 1
  Cancellable = {j1}
CHECK_DEADLOCK FALSE
INVARIANTS TypeOK SerialPerChat ShutdownDrains
PROPERTIES AbandonedNotRun ImplementsExecutor RunReturns QueuedRunReturns
