SPECIFICATION Spec
CONSTANTS
  Msgs = {m1, m2, m3}
  Chats = {c1, c2}
  Groups = {c1}
  Allowed = {c1}
  MaxHistory = 3
  Faults = {"api", "db", "net", "crash"}
  None = None
SYMMETRY Symmetry
CHECK_DEADLOCK FALSE
INVARIANTS TypeOK HistoryIsThePath RootsAgree ParentFirst ResponseIsStored
