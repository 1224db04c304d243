\* One page with two drain() calls to serialise, two rows and a batch of one.
SPECIFICATION FairSpec
CONSTANTS
  t1 = t1
  p1 = p1
  p2 = p2
  Tabs = {t1}
  Passes = {p1, p2}
  TabOf <- BothInOneTab
  Worker = Worker
  Tracked = {k1}
  Principals = {alice}
  MaxRows = 2
  MaxAttempts = 2
  BatchSize = 1
  SyncSupported = FALSE
  NoRow = NoRow
  NoKey = NoKey
  Closed = Closed
  Unset = Unset
INVARIANTS
  OnePassPerPage
PROPERTIES
  FailedIsFinal
  
  EveryRowSettles
