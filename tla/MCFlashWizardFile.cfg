SPECIFICATION Spec
CONSTANTS
  engine = engine
  gearbox = gearbox
  stock = stock
  tune = tune
  None = None
  Modules = {engine, gearbox}
  Files = {stock, tune}
  Unlockable = {engine}
  ImmoCovered = {engine}
  CalBlock <- MCCalBlock
  CbootBlock <- MCCbootBlock
  PatchBlock = 9
  Parsed <- MCParsed
  Stock <- MCStock
  PromptUser = TRUE
INVARIANT
  PreparedFromRightFile
CHECK_DEADLOCK FALSE
