SPECIFICATION Spec
CONSTANTS
  a = a
  b = b
  s = s
  r = r
  seed = seed
  c1 = c1
  c2 = c2
  t1 = t1
  t2 = t2
  none = none
  nosession = nosession
  nourl = nourl
  u = u
  v = v
  g = g
  Kinds = {a, b}
  Agents = {a, b}
  None = none
  Unpinned = none
  NoSession = nosession
  Sessions = {s}
  Turns = {t1, t2}
  Calls = {c1, c2}
  MaxMessages = 1
  Rows = {a, b, s, r, g, 1}
  Urls = {u, v}
  NoUrl = nourl
  Scopes = {g}
  MaxId = 2
  RowsOf <- MCRowsOf
  Tables = {"dedup", "tasks"}
  SeedRow = seed
  MaxLegacy = 1
  MaxSteps = 3
SYMMETRY MCSymmetry
INVARIANTS RegistryMirrorsConfig RestartChangesNothing NothingIsLost LoadIsCounted BindingMeansItsRepository
CHECK_DEADLOCK FALSE
