CONSTANTS
  None = None
  x1 = x1
  k1 = k1
  done = done
  refused = refused
  stored = stored
  Refs = {x1}
  Keys = {k1}
  Lines <- ItemLines
  RawStatus <- RawStored
  MaxLines = 3
  MaxImports = 2
SPECIFICATION Spec
CHECK_DEADLOCK FALSE
INVARIANT ReimportIsIdempotent
