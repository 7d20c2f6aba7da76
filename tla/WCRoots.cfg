SPECIFICATION Spec
CONSTANTS
  t1 = t1  t2 = t2  op = op  m1 = m1  m2 = m2  m3 = m3  s1 = s1  s2 = s2
  None = None
  Ticks = {t1, t2}
  Operators = {op}
  Message = {m1, m2}
  Source = {s1}
  Root <- TwoRoots
  Kind <- AllTasks
  Routed = {m1}
  Remembering = {m1}
  Rank <- RankOf
  AllowStop = TRUE
  MaxCompleted = 1
  MaxFaults = 1
  OutsideRoots = {}
  MayStop = TRUE
  MayDie = TRUE

INVARIANTS AtMostOnce CycleInv StatusTruthful
PROPERTIES LedgerKept NoRivalSave
