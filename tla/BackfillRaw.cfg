CONSTANTS
  None = None
  x1 = x1
  k1 = k1
  done = done
  refused = refused
  stored = stored
  Refs = {x1}
  Keys = {k1}
  Lines <- AllLines
  RawStatus <- RawStored
  MaxLines = 5
  MaxImports = 2
SPECIFICATION Spec
CHECK_DEADLOCK FALSE
PROPERTY RawOutcomesWin
