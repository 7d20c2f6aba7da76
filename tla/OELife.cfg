SPECIFICATION FairSpec
CONSTANTS
  e1 = e1  e2 = e2  doc1 = doc1  doc2 = doc2  version = version  other = other
  None = None
  NoReason = None
  Execution = {e1, e2}
  Adapter <- AdapterOf
  Documents <- OneDocument
  VersionLine = version
  VersionPlans <- Versions
  AnswerPlans <- Answers
  Chunk = 2
  StdoutCap = 2
  StderrCap = 0
  MaxStdout = 2
  MaxStderr = 0
  MaxEvents = 3
  MaxFindings = 1
  MaxCitations = 1
  MaxRetries <- RetriesOf
  MaxKills <- KillsOf
INVARIANTS CallInv OneTask LockCoversChild WholeAnswer
PROPERTY EveryCallEnds
CHECK_DEADLOCK FALSE
