SPECIFICATION FairSpec
CONSTANTS
  Workers = {w1, w2}
  Keys = {k1}
  Fingerprints = {f1, f2}
  ReserveAttempts = 3
  NoRow = NoRow
  NoOwner = NoOwner
  NoAnswer = NoAnswer
INVARIANTS
  TypeOK
  OneHolder
  HolderOwnsRow
  CachedVerdictIsTrue
PROPERTIES
  EveryRequestAnswered
  OnlyItsHolderFreesAKey
  ImplementsAtMostOnce
