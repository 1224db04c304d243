---------------------------- MODULE MCRouteDraft ----------------------------
(***************************************************************************)
(* Model-checking instances of RouteDraft.                                 *)
(***************************************************************************)
EXTENDS RouteDraft, TLC

CONSTANTS k1, k2, k3, b1, b2, p1

\* The draft in memory is read again by a save under way or an open panel alone.
View ==
  <<IF active \/ saving # NotSaving THEN draft ELSE Blank, active, queued, pass,
    stored, saving, editing, queue, server, history>>

\* Once a key is excused the behaviour is followed until another is minted.
Followed == excuse = {} \/ \A k, l \in Keys : sentAs[k] # {} /\ sentAs[l] # {} => k = l

Symmetry == Permutations(Keys) \cup Permutations(Bodies)
=============================================================================
