SPECIFICATION Spec
CONSTANTS
  Handlers = {h1}
  Chats = {c1}
  Texts = {t1, t2}
  Media = {m1}
  Plain = {}
  MaxFilterId = 2
  MaxConns = 1
  Faults = {}
SYMMETRY HandlerSymmetry
PROPERTIES FailedCreateKeepsSharedMedia
