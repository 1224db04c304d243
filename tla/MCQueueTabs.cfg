\* Two tabs and the worker race for one row, and the account changes between
\* page loads.
SPECIFICATION Spec
CONSTANTS
  t1 = t1
  p1 = p1
  p2 = p2
  Tabs = {t1, t2}
  Passes = {t1, t2}
  TabOf <- OneEach
  Worker = Worker
  Tracked = {k1}
  Principals = {alice, bob}
  MaxRows = 1
  MaxAttempts = 2
  BatchSize = 1
  SyncSupported = TRUE
  NoRow = NoRow
  NoKey = NoKey
  Closed = Closed
  Unset = Unset
SYMMETRY Symmetry
CONSTRAINTS
  OneReconcile
  TwoDrains
  OneAccountOpen
INVARIANTS
  TypeOK
  ClearedStaysCleared
  LandedIsAcknowledged
  AttemptsLeft
PROPERTIES
  NoGhostRow
  ReportedRowIsThere
