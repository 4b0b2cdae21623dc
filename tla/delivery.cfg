SPECIFICATION FairSpec
CONSTANTS
  w1 = w1
  w2 = w2
  Workers = {w1, w2}
  Served <- MCServed
  Miss = miss
  NoRep = noRep
  MaximumPolls = 10
  MaximumBackoff = 32
  WorkerTimeout = 30
  CallTimes <- MCCallTimes
  MaxTranslations = 1
  MaxVersions = 3
INVARIANTS
  TypeOK
  StaleHasACause
  LastPollIsOverdue
PROPERTIES
  WorkersComeFree
