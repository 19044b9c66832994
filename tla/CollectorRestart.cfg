SPECIFICATION Spec
CONSTANTS
  a = a
  b = b
  ta = ta
  tb = tb
  tm = tm
  e1 = e1
  e2 = e2
  State <- MCState
  EventState <- MCEventState
  Source = {a}
  Session = {e1, e2}
  NotDropped = NotDropped
  PageLimit = 2
  MaxSequence = 2
  Task = {ta, tm}
  Scheduled = {ta}
  Target <- OneTarget
  FirstSession <- OneFirst
  PullLimit = 1
  MaxBatchPages = 1
  MaxBatchRecords = 2
  MaxBatchBytes = 2
  SourceRequests = {}
  RunRequests = {}
  MaxFaults = 1
  Free = Free
  Writer = Writer
  NoTx = NoTx
  NoPage = NoPage
  NoSession = NoSession
INVARIANTS
  GuardsFollowPages
  PulledPagesAreTaken
  StoredIsWhatWasCaptured
PROPERTIES
  SuccessMeansDurable
