SPECIFICATION Spec
CONSTANTS
  Typed <- AllTexts
  Commands <- DocumentedCommands
  MaxFilters = 1
  MaxArgs = 4
  MaxText = 3
  None = None
INVARIANTS TypeOK OnlyWholeWords StandingIsFound WrittenIsRead EveryTriggerCanBeStopped
