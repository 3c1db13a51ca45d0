SPECIFICATION FairSpec
CONSTANTS
  Channels <- MCChannels
  Unlockable = {"engine"}
  Immobilized = {"engine"}
  None = None
INVARIANTS
  TypeOK
  NeverInOwnWay
  ScanFindsAll
  ClearsBracket
PROPERTY
  CallsReturn
CHECK_DEADLOCK FALSE
