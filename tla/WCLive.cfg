SPECIFICATION FairSpec
CONSTANTS
  t1 = t1  t2 = t2  op = op  m1 = m1  m2 = m2  m3 = m3  s1 = s1  s2 = s2
  None = None
  Ticks = {t1, t2}
  Operators = {}
  Message = {m1, m2}
  Source = {s1, s2}
  Root <- OneRoot
  Kind <- MixedKinds
  Routed = {m1, m2}
  Remembering = {}
  Rank <- RankOf
  AllowStop = TRUE
  MaxCompleted = 2
  MaxFaults = 1
  OutsideRoots = {"root"}
  MayStop = FALSE
  MayDie = TRUE
INVARIANT OldestClaimed
PROPERTY EventuallyTaken
