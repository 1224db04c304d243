---------------------------- MODULE MCDownloads -----------------------------
(***************************************************************************)
(* Model-checking instances of Downloads.                                  *)
(***************************************************************************)
EXTENDS Downloads, Naturals, FiniteSets

CONSTANTS t1, t2, alice, bob

\* Bound: the first tab is alice's or nobody's, the second alice's or bob's.
FewPages == page[t1] # bob /\ page[t2] # Anon

\* Bound: one request waits at a time.
OneRequest == Cardinality(queue) <= 1
=============================================================================
