CONSTANTS
  None = None
  t1 = t1
  t2 = t2
  r1 = r1
  r2 = r2
  q1 = q1
  q2 = q2
  i1 = i1
  bash = bash
  unnamed = unnamed
  Names = {bash, unnamed}
  Ids = {i1}
  Unknown = unnamed
  Budget = 2
  Main = t1
  Tasks = {t1, t2}
  Runs = {r1, r2}
  Streams = {q1, q2}
  Messages <- Dialogue
  MaxMessages = 1
SYMMETRY Symmetry
SPECIFICATION Spec
CHECK_DEADLOCK FALSE
INVARIANTS TypeOK AmbientIsInnermost ContextsChain RaisedIsFailed EndedIsFinalized ErrorsAddUp PendingIsLatestCall
