-------------------------- MODULE MCMutationQueue --------------------------
(***************************************************************************)
(* Model-checking instances of MutationQueue.                              *)
(***************************************************************************)
EXTENDS MutationQueue, TLC

CONSTANTS t1, p1, p2

\* One drain() under way in each tab, named after its tab.
OneEach == [t \in Tabs |-> t]

\* Two drain() calls in one tab.
BothInOneTab == (p1 :> t1) @@ (p2 :> t1)

\* Bound: one tab at a time is in its load-time reconcile.
OneReconcile ==
  \A t, u \in Tabs : rec[t] # "idle" /\ rec[u] # "idle" => t = u

\* Bound: two drains at a time.
TwoDrains == Cardinality({d \in Drainers : pc[d] # "idle"}) <= 2

\* Tabs run the same code and are only compared.
Symmetry == Permutations(Tabs)
=============================================================================
