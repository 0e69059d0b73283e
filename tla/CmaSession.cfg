CONSTANTS
  None = None
  e1 = e1
  g1 = g1
  i1 = i1
  i2 = i2
  CallIds = {i1, i2}
  Tees = {e1}
  Ingests = {g1}
  HasModel = {g1}
  Events <- SmallSession
  MaxEvents = 3
SPECIFICATION Spec
CHECK_DEADLOCK FALSE
INVARIANTS TypeOK SerialPersistsReplace PersistInv PendingAreUnanswered ResultsFindTheirCalls
