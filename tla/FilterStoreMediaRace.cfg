SPECIFICATION Spec
CONSTANTS
  Handlers = {h1, h2}
  Chats = {c1, c2}
  Texts = {t1}
  Media = {m1}
  Plain = {}
  MaxFilterId = 2
  MaxConns = 1
  Faults = {}
SYMMETRY HandlerSymmetry
PROPERTIES StopKeepsSharedMedia
