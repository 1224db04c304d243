\* Two tabs, two accounts and nobody, one area.
SPECIFICATION FairSpec
CONSTANTS
  t1 = t1
  t2 = t2
  alice = alice
  bob = bob
  Areas = {a1}
  Tabs = {t1, t2}
  Accounts = {alice, bob}
  Anon = Anon
  Unclaimed = Unclaimed
  NoArea = NoArea
  Closed = Closed
CONSTRAINTS
  FewPages
  OneRequest
INVARIANTS
  TypeOK
  ClaimsExclude
  PushedUnderItsStamp
PROPERTY HeldIsRecorded
