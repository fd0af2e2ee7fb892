SPECIFICATION FairSpec
CONSTANTS
  Msgs = {m1, m2}
  Kinds = {"prompt", "show", "clear", "enable", "disable"}
  Lines = {a}
  MaxLines = 1
  MaxTurns = 2
  MaxCalls = 2
  Faults = {"api", "io", "db", "net", "stop", "crash"}
  None = None
  Torn = Torn
CHECK_DEADLOCK FALSE
INVARIANTS TypeOK NeverTorn SavedIsMarked
PROPERTIES ImplementsRegister NoBlindWrite HandlersEnd
