SPECIFICATION Spec
CONSTANTS
  a = a
  b = b
  ta = ta
  tb = tb
  tm = tm
  e1 = e1
  e2 = e2
  State <- MCState
  EventState <- MCEventState
  Source = {a, b}
  Session = {e1, e2}
  NotDropped = NotDropped
  PageLimit = 2
  MaxSequence = 1
  Task = {ta, tb}
  Scheduled = {ta, tb}
  Target <- TwoTargets
  FirstSession <- TwoFirst
  PullLimit = 1
  MaxBatchPages = 2
  MaxBatchRecords = 1
  MaxBatchBytes = 3
  SourceRequests = {}
  RunRequests = {}
  MaxFaults = 1
  Free = Free
  Writer = Writer
  NoTx = NoTx
  NoPage = NoPage
  NoSession = NoSession
PROPERTIES
  ImplementsStore
