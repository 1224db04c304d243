\* Three keys, two lines, one reconcile at a time.
SPECIFICATION Spec
CONSTANTS
  k1 = k1
  k2 = k2
  k3 = k3
  b1 = b1
  b2 = b2
  p1 = p1
  Keys = {k1, k2, k3}
  Bodies = {b1, b2}
  Passes = {p1}
  NoKey = NoKey
  NoBody = NoBody
SYMMETRY Symmetry
VIEW View
CONSTRAINT Followed
INVARIANTS
  TypeOK
  
  KeyNamesItsBody
  RefusedDraftHasNotLanded
PROPERTY LineGoesWithItsSave
