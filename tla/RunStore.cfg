CONSTANTS
  None = None
  r1 = r1
  a1 = a1
  a2 = a2
  j1 = j1
  n1 = n1
  LiveRuns = {r1}
  ApiRuns = {a1, a2}
  Repairs = {r1, a1}
  Jobs = {j1}
  Notes = {n1}
  JobOf <- SameJobOf
  NoteJob <- SameNoteJob
SPECIFICATION MCFairSpec
INVARIANTS IInv Acyclic FinishedTaskStoredRun RunningRowIsUnfinalized
PROPERTIES KeepsLedger OnlyFallbackErasesStamp FinalizeLands
