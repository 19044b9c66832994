SPECIFICATION Spec
CONSTANTS
  Thread = {u1, u2}
  Watchdog = watchdog_thread
  Nobody = nobody
  None = none
  NoBatch = no_batch
  Monotonic = TRUE
  MaxStep = 2
  MaxRecords = 3
  MaxAlerts = 1
  QueueCapacity = 2
  MaxQueueBytes = 2
INVARIANTS RecordsAreInOrder AlertsAreCounted FinishIsTruthful
SYMMETRY Symmetry
