CONSTANTS
  None = None
  Pad = Pad
  Dot = Dot
  Revision = Revision
  Absent = Absent
  Short = Short
  Clipped = Clipped
  BadVin = BadVin
  Benches <- MCBenches
  Dumps <- MCDumps
  MaxFaults = 1
  MaxDownloads = 1
SPECIFICATION Spec
INVARIANTS Inv IdentifiedRight ReportIsTrue BricksAreSeen
PROPERTIES PreflightSound
CHECK_DEADLOCK FALSE
