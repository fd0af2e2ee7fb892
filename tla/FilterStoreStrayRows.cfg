SPECIFICATION Spec
CONSTANTS
  Handlers = {h1, h2}
  Chats = {c1, c2}
  Texts = {t1}
  Media = {}
  Plain = {"text"}
  MaxFilterId = 2
  MaxConns = 2
  Faults = {}
SYMMETRY HandlerSymmetry
INVARIANTS NoStrayRows
