SPECIFICATION FairSpec
CONSTANTS
  k1 = k1
  k2 = k2
  k3 = k3
  MasterKeys <- MCMasterKeys
  UnknownKey = UnknownKey
  None = None
  SlaveRandoms = {s1, s2}
  Faults <- Survivable
  MaxRetries = 1
  MaxFaults = 3
INVARIANTS
  TypeOK
  KeysSound
PROPERTIES
  NeverReplayed
  Releases
CHECK_DEADLOCK FALSE
