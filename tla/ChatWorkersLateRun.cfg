SPECIFICATION FairSpec
CONSTANTS
  j1 = j1
  j2 = j2
  j3 = j3
  c1 = c1
  c2 = c2
  None = None
  Jobs = {j1, j2, j3}
  Chats = {c1, c2}
  ChatOf <- TwoChats
  BufSize = 1
  Cancellable = {}
CHECK_DEADLOCK FALSE
PROPERTIES EveryRunReturns
