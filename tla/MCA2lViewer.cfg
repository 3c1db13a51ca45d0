SPECIFICATION ViewerSpec
CONSTANTS
  Nothing = Nothing
  A2ls = {"A", "B"}
  Bins = {"sc8", "scg"}
  Length <- MCLength
  Functions <- MCFunctions
  Axes <- MCAxes
  Texts = {"", "t"}
  Matches <- MCMatches
  Read <- MCRead
  Uniform = {"ones"}
  Signatures <- MCSignatures
  MAX_DISPLAY = 2
  MaxLoads = 4
INVARIANTS
  ViewerTypeOK
  ScreenFollows
