SPECIFICATION Spec
CONSTANTS
  Msgs = {m1, m2}
  Kinds = {"prompt", "clear"}
  Lines = {a}
  MaxLines = 1
  MaxTurns = 2
  MaxCalls = 1
  Faults = {}
  None = None
  Torn = Torn
CHECK_DEADLOCK FALSE
PROPERTIES ClearClears
