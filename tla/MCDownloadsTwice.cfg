\* The same browser, with no bound.
SPECIFICATION Spec
CONSTANTS
  t1 = t1
  t2 = t2
  alice = alice
  bob = bob
  Areas = {a1}
  Tabs = {t1, t2}
  Accounts = {alice, bob}
  Anon = Anon
  Unclaimed = Unclaimed
  NoArea = NoArea
  Closed = Closed
INVARIANT ClaimedOnce
