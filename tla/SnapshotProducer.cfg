SPECIFICATION Spec
CONSTANTS
  o1 = o1
  o3 = o3
  e1 = e1
  e3 = e3
  State <- MCState
  EventState <- MCEventState
  Size <- MCSize
  Session = {s1}
  NotDropped = NotDropped
  NoObservation = NoObservation
  PageLimit = 2
  MaxSequence = 5
  MaxSnapshots = 3
  MaxBytes = 4
  MaxBatch = 2
INVARIANTS
  NeverSpins
  RetentionIsSound
  PagesAreWellFormed
PROPERTIES
  ImplementsWindow
