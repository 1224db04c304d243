-------------------------- MODULE MCOfflineReplay --------------------------
(***************************************************************************)
(* Model-checking instances of OfflineReplay.                              *)
(***************************************************************************)
EXTENDS OfflineReplay, TLC

CONSTANT t1

OneEach == [t \in Tabs |-> t]

\* No action and no invariant reads the last answer, the discard notice or the
\* queue's own history: states that differ in nothing else are one.
View == <<store, nextId, acks, stored, online, session, sync, pageVars,
          drainVars, workerVars, requests, window, effects, total, excuse>>

\* Every invariant holds for good of a key that was stored and whose at-most-once
\* window is over (total and excuse only grow), and one row carries one key: such
\* states have nothing left to check behind them.
Undecided == \A k \in Keys : total[k] > 0 => excuse[k] = {}

Symmetry == Permutations(Tabs)
=============================================================================
