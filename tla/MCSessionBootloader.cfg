SPECIFICATION Spec
CONSTANTS
  Channels <- MCChannels
  Unlockable = {"engine"}
  Immobilized = {"engine"}
  None = None
INVARIANT ReadsInApplication
CHECK_DEADLOCK FALSE
