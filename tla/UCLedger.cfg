SPECIFICATION FairSpec
CONSTANTS
  c1 = c1  c2 = c2  r1 = r1
  None = None
  Collecting = {c1, c2}
  Reporting = {c1}
  Run = {r1}
  Line <- CountLines
  Turns <- BothTurns
  Config <- CountConfig
  Profile <- OneProfile
  MaxKills = 1
  MaxReplaced = 1
  MaxReports = 3
INVARIANTS CollectionInv OncePerEvent RecordExact
PROPERTIES RecordsKept 
