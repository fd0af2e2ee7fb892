SPECIFICATION Spec
CONSTANTS
  Handlers = {h1, h2}
  Chats = {c1, c2}
  Texts = {t1, t2}
  Media = {m1}
  Plain = {}
  MaxFilterId = 2
  MaxConns = 2
  Faults = {"save", "db", "delete", "crash"}
SYMMETRY Symmetry
INVARIANTS TypeOK Consistent
PROPERTIES NoLeak StopDoomsUnused
