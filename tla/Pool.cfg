CONSTANTS
  None = None
  t1 = t1
  t2 = t2
  t3 = t3
  t4 = t4
  q1 = q1
  q2 = q2
  q3 = q3
  q4 = q4
  Tasks = {t1, t2, t3}
  Pools = {q1, q2, q3, q4}
  MaxSize = 2
  Work = 2
SPECIFICATION MCSpec
INVARIANTS PoolInv ConnectionsBounded CurrentIsTheLivePool
PROPERTY AskersAreAnswered
