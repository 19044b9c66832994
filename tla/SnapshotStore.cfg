SPECIFICATION Spec
CONSTANTS
  o1 = o1
  e1 = e1
  State <- MCState
  EventState <- MCEventState
  Source = {a}
  Session = {s1, s2}
  NotDropped = NotDropped
  PageLimit = 2
  MaxSequence = 3
  Pages <- MCPages
  NoTx = NoTx
  NoPage = NoPage
  MaxPages = 2
  MaxRows = 2
CONSTRAINT FewRows
INVARIANTS
  CursorAccounts
  AckIsExact
  HeadIsNewestObservation
  RetryIsIdempotent
PROPERTIES
  HistoryOnlyGrows
