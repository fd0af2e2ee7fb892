SPECIFICATION Spec
CONSTANTS
  Handlers = {h1, h2}
  Chats = {c1, c2}
  Texts = {t1, t2}
  Media = {}
  Plain = {"text", "reaction"}
  MaxFilterId = 2
  MaxConns = 2
  Faults = {"db","crash"}
SYMMETRY HandlerSymmetry
PROPERTIES ImplementsBook
