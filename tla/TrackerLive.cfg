SPECIFICATION Spec
CONSTANTS
  Thread = {u1}
  Watchdog = watchdog_thread
  Nobody = nobody
  None = none
  NoBatch = no_batch
  Monotonic = TRUE
  MaxStep = 1
  MaxRecords = 2
  MaxAlerts = 2
  QueueCapacity = 1
  MaxQueueBytes = 2
PROPERTIES CallsReturn ThreadsEnd
