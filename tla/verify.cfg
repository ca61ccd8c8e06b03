CONSTANTS
  t1 = t1  ghost = ghost  q1 = q1  q2 = q2  worker = worker  loop = loop  None = None
  Tables = {t1}
  Strangers = {ghost}
  Batches <- MCBatches
  Posters = {q1}
  Requests = {q1}
  Worker = worker
  Loop = loop
  Counts <- MCCounts
  TolRows = 0
  TolRatio = 1
  MaxKept = 1
  MaxOthers = 1
  MaxEvents = 1
SPECIFICATION FairSpec
INVARIANTS JobsAccounted
PROPERTIES OfficialVerdictIsTrue BatchesEnd
CHECK_DEADLOCK FALSE
