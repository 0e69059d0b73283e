CONSTANTS
  None = None
  p1 = p1
  p2 = p2
  x1 = x1
  x2 = x2
  x3 = x3
  x4 = x4
  w1 = w1
  w2 = w2
  s1 = s1
  s2 = s2
  j1 = j1
  j2 = j2
  bash = bash
  Facts <- AllFacts
  RowForms <- AllRowForms
  StepForms <- AllStepForms
  Created <- AllCreated
  Days <- TwoWindows
  Tools = {bash}
  Runs = {p1, p2}
  Sweeps = {s1}
  Judges = {j1}
  MaxAge = 2
  MinCount = 2
  Volume = 1
  JudgeDays = 1
  Rubrics = {"prefilter"}
  Limit = 2
  ScanFactor = 4
  MinIncorrect = 2
  Tenths = 10
  MaxFailures = 1
SPECIFICATION FairSpec
INVARIANTS IInv JudgedOnce QualityIsBacked
PROPERTIES VerdictsStay FailureIsJudged
