\* One tab: a 429 from the rate limiter is cached and replayed.
SPECIFICATION OfflineSpec
CONSTANTS
  t1 = t1
  Tabs = {t1}
  Passes = {t1}
  TabOf <- OneEach
  Worker = Worker
  Tracked = {k1}
  Principals = {alice}
  MaxRows = 1
  MaxAttempts = 2
  BatchSize = 1
  SyncSupported = FALSE
  NoRow = NoRow
  NoKey = NoKey
  Closed = Closed
  Unset = Unset
  Nobody = Nobody
  NoAnswer = NoAnswer
VIEW View
INVARIANTS
  TransientIsNotKept
