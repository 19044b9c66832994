SPECIFICATION Spec
CONSTANTS
  Identifier <- MCIdentifier
  MutationId <- MCMutationId
  None = None
  Null = Null
  Invalid = Invalid
  MaxSets = 3
  MaxSections = 1
  MaxPanels = 1
  MaxPaths = 1
  MaxSourceIds = 1
  MaxColumns = 1
  MaxFilters = 1
  MaxGroups = 1
  MaxOptions = 1
  MaxValuePaths = 1
  MaxIdPaths = 1
  MaxColors = 1
  MaxRunColors = 1
  MaxRevision = 3
  Experiment = {e1}
  RegisteredRun = {r1}
  RegisteredSource = {s1}
  BrowserId = {b1, b2, b3}
  MaxBrowsers = 2
  Draining = Draining
  Booting = Booting
  Client = {c1, c2}
  SetId = {w1, w2}
  Name <- MCName
  Layout <- MCLayout
  MaxSends <- MCMaxSends
  c1 = c1
  c2 = c2
SYMMETRY Alike
INVARIANTS
  SelectionsExist
  ChosenThemeShown
PROPERTIES
  SavesChangeOneWorkspace
  AnswersAreTrue
CHECK_DEADLOCK FALSE
