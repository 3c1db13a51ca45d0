SPECIFICATION Spec
CONSTANTS
  None = None
  Garbled = Garbled
  Low = 2
  d1 = d1
  d2 = d2
  Devices = {d1, d2}
  Images <- MCImages
  Identities <- MCIdentities
  Plaintexts <- MCPlaintexts
INVARIANTS
  TypeOK
  EditorAgrees
PROPERTY
  SavedImage
CHECK_DEADLOCK FALSE
