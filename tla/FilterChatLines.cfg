SPECIFICATION Spec
CONSTANTS
  Typed <- FewTexts
  Commands = {}
  MaxFilters = 1
  MaxArgs = 0
  MaxText = 3
  None = None
INVARIANTS WordIsFound
