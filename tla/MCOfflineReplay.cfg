\* One tab and the worker replay a row against the server.
SPECIFICATION OfflineSpec
CONSTANTS
  t1 = t1
  Tabs = {t1}
  Passes = {t1}
  TabOf <- OneEach
  Worker = Worker
  Tracked = {k1}
  Principals = {alice}
  MaxRows = 1
  MaxAttempts = 2
  BatchSize = 1
  SyncSupported = TRUE
  NoRow = NoRow
  NoKey = NoKey
  Closed = Closed
  Unset = Unset
  Nobody = Nobody
  NoAnswer = NoAnswer
VIEW View
CONSTRAINT Undecided
INVARIANTS
  OfflineTypeOK
  AcknowledgedHasLanded
  LandsOnce
  RefusedHasNotLanded
