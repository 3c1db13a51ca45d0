SPECIFICATION FairSpec
CONSTANTS
  None = None
  Keys = {old, new}
  Capacity = 1
  MaxCommands = 1
INVARIANTS
  Inv
  QueueDiscipline
  ScreenAgrees
PROPERTIES
  AgreedIsShown
  Answered
CHECK_DEADLOCK FALSE
