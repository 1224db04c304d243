------------------------- MODULE MutationQueueProofs ------------------------
(***************************************************************************)
(* Proofs about MutationQueue, for any number of tabs, drain() calls,      *)
(* accounts, rows and attempts.                                            *)
(***************************************************************************)
EXTENDS MutationQueue, TLAPS

Busy == {"fetch", "ack", "delete", "check", "write"}

\* A drain that has turned to a row holds a copy of it, and one it has posted
\* was not failed when it was read.
HoldsItsRow ==
  \A d \in Drainers :
    /\ pc[d] \in Busy \cup {"notice"} => cur[d] \in RowIds /\ batch[d][cur[d]] # NoRow
    /\ pc[d] \in Busy => batch[d][cur[d]].status # "failed"

\* A page's batch holds eligible rows only.
BatchIsLive ==
  \A d \in Passes, i \in RowIds : batch[d][i] # NoRow => batch[d][i].status # "failed"

\* A drain about to delete a replayed row has acknowledged it.
DeletesAcknowledged ==
  \A d \in Drainers : pc[d] = "delete" => {batch[d][cur[d]].key} \cap Tracked \subseteq acks

\* A closed tab runs nothing.
ClosedIsQuiet ==
  \A t \in Tabs : page[t] = Closed => rec[t] = "idle" /\ enq[t] = NoKey

Shape == HoldsItsRow /\ BatchIsLive /\ ClosedIsQuiet

\* The inductive invariant.
IInv ==
  TypeOK /\ Shape /\ AttemptsLeft /\ DeletesAcknowledged /\ LandedIsAcknowledged
    /\ OnePassPerPage

-----------------------------------------------------------------------------
(* Lemmas about the helpers *)

\* The part of TypeOK a drain's position is in.
DrainTypes ==
  /\ pc \in [Drainers -> Steps]
  /\ batch \in [Drainers -> [RowIds -> StoredRow \cup {NoRow}]]
  /\ cur \in [Drainers -> 0..MaxRows]
  /\ verdict \in [Drainers -> {"none", "retry", "permanent"}]

LEMMA DrainTyped == ASSUME TypeOK PROVE DrainTypes
  BY DEF TypeOK, DrainTypes

LEMMA BoundsFacts ==
  /\ MaxRows \in Nat /\ MaxAttempts \in Nat /\ MaxAttempts > 0
  /\ 0 \in 0..MaxRows /\ RowIds \subseteq 0..MaxRows
  /\ RowIds \subseteq Nat /\ RowIds \subseteq Keys
  /\ Passes \subseteq Drainers /\ Worker \in Drainers /\ Worker \notin Passes
  BY BoundsAssumption, WorkerAssumption DEF RowIds, Keys, Drainers

\* Turning to the next row, and ending, leave a drain's position well typed.
LEMMA NextRowTyped ==
  ASSUME TypeOK, NEW d \in Drainers, NEW i \in RowIds, NextRow(d, i)
  PROVE  DrainTypes'
  BY BoundsFacts DEF TypeOK, DrainTypes, NextRow, Steps

LEMMA ForgetTyped ==
  ASSUME TypeOK, NEW ds \in SUBSET Drainers, Forget(ds)
  PROVE  DrainTypes'
  BY BoundsFacts DEF TypeOK, DrainTypes, Forget, Steps, NoBatch

LEMMA DeletedTyped ==
  ASSUME TypeOK, NEW ids
  PROVE  Deleted(ids) \in [RowIds -> StoredRow \cup {NoRow}]
  BY DEF TypeOK, Deleted

LEMMA NewRowTyped ==
  ASSUME NEW k \in Keys, NEW p \in Principals
  PROVE  /\ NewRow(k, p) \in StoredRow
         /\ NewRow(k, p).attempts = 0 /\ NewRow(k, p).status = "queued"
  BY BoundsFacts DEF NewRow, StoredRow

\* An attempt that did not succeed leaves a row that is failed or below the
\* ceiling.
LEMMA NextRowStateTyped ==
  ASSUME NEW r \in StoredRow, r.attempts < MaxAttempts, NEW o
  PROVE  /\ NextRowState(r, o) \in StoredRow
         /\ NextRowState(r, o) # NoRow
         /\ NextRowState(r, o).status # "failed"
              => NextRowState(r, o).attempts < MaxAttempts
<1>1. /\ r.attempts + 1 \in 0..MaxAttempts
      /\ r.key \in Keys /\ r.principal \in Principals
      /\ r.wait \in {"due", "backoff"}
  BY BoundsFacts DEF StoredRow
<1>2. CASE o = "permanent" \/ r.attempts + 1 >= MaxAttempts
  <2>1. NextRowState(r, o) = [r EXCEPT !.attempts = @ + 1, !.status = "failed"]
    BY <1>2 DEF NextRowState
  <2> QED  BY <1>1, <2>1, NoRowAssumption DEF StoredRow
<1>3. CASE ~(o = "permanent" \/ r.attempts + 1 >= MaxAttempts)
  <2>1. NextRowState(r, o) = [r EXCEPT !.attempts = @ + 1,
                                       !.status = "retry-scheduled",
                                       !.wait = "backoff"]
    BY <1>3 DEF NextRowState
  <2>2. r.attempts + 1 < MaxAttempts
    BY <1>1, <1>3, BoundsFacts
  <2> QED  BY <1>1, <2>1, <2>2, NoRowAssumption DEF StoredRow
<1> QED  BY <1>2, <1>3

LEMMA TypeStep ==
  ASSUME TypeOK, Shape, AttemptsLeft, [Next]_vars PROVE TypeOK'
<1> USE DrainTyped DEF TypeOK, DrainTypes, Shape, dbVars, pageVars, drainVars, workerVars, history
<1>1. ASSUME NEW t \in Tabs, EnqueueMinted(t) PROVE TypeOK'
  <2>1. nextId \in RowIds /\ nextId + 1 \in 1..(MaxRows + 1)
    BY <1>1, BoundsFacts DEF EnqueueMinted, RowIds
  <2>2. NewRow(nextId, page[t]) \in StoredRow
    BY <1>1, <2>1, NewRowTyped, BoundsFacts DEF EnqueueMinted
  <2> QED  BY <1>1, <2>1, <2>2 DEF EnqueueMinted, RegisterBackgroundSync
<1>2. ASSUME NEW t \in Tabs, NEW k \in Tracked, EnqueueLook(t, k) PROVE TypeOK'
  BY <1>2 DEF EnqueueLook
<1>3. ASSUME NEW t \in Tabs, EnqueuePut(t) PROVE TypeOK'
  <2>1. nextId \in RowIds /\ nextId + 1 \in 1..(MaxRows + 1)
    BY <1>3, BoundsFacts DEF EnqueuePut, RowIds
  <2>2. NewRow(enq[t], page[t]) \in StoredRow
    BY <1>3, NewRowTyped DEF EnqueuePut, ClosedIsQuiet, Keys
  <2> QED  BY <1>3, <2>1, <2>2 DEF EnqueuePut, RegisterBackgroundSync
<1>4. ASSUME NEW t \in Tabs, NEW k \in Tracked, Discard(t, k) PROVE TypeOK'
  BY <1>4, DeletedTyped DEF Discard
<1>5. ASSUME NEW t \in Tabs, ReadNoticesAndPrune(t) PROVE TypeOK'
  BY <1>5 DEF ReadNoticesAndPrune
<1>6. ASSUME NEW t \in Tabs, ReconcileCompare(t) PROVE TypeOK'
  BY <1>6 DEF ReconcileCompare
<1>7. ASSUME NEW t \in Tabs, ReconcileClear(t) PROVE TypeOK'
  BY <1>7, DeletedTyped DEF ReconcileClear
<1>8. ASSUME NEW t \in Tabs, ReconcilePersist(t) PROVE TypeOK'
  BY <1>8, PrincipalsAssumption DEF ReconcilePersist, ClosedIsQuiet
<1>9. ASSUME NEW d \in Passes, StartDrain(d) PROVE TypeOK'
  BY <1>9, BoundsFacts DEF StartDrain, SelectDrainBatch, DrainTypes, Steps
<1>10. ASSUME NEW d \in Passes, EndDrain(d) PROVE TypeOK'
  BY <1>10, ForgetTyped, BoundsFacts DEF EndDrain
<1>11. ASSUME NEW d \in Passes, NEW i \in RowIds, DiscardMismatch(d, i) PROVE TypeOK'
  BY <1>11, NextRowTyped, DeletedTyped, BoundsFacts DEF DiscardMismatch
<1>12. ASSUME NEW d \in Passes, NEW i \in RowIds, Send(d, i) PROVE TypeOK'
  BY <1>12, BoundsFacts DEF Send, SendTo, DrainTypes, Steps
<1>13. ASSUME SyncFires PROVE TypeOK'
  BY <1>13, BoundsFacts DEF SyncFires, DrainTypes, Steps
<1>14. ASSUME WorkerReadRows PROVE TypeOK'
  BY <1>14, BoundsFacts DEF WorkerReadRows, DrainTypes, Steps
<1>15. ASSUME WorkerReadPrincipal PROVE TypeOK'
  BY <1>15, BoundsFacts DEF WorkerReadPrincipal, DrainTypes, Steps
<1>16. ASSUME WorkerNotice PROVE TypeOK'
  BY <1>16, NextRowTyped, BoundsFacts DEF WorkerNotice, HoldsItsRow
<1>17. ASSUME WorkerEnd PROVE TypeOK'
  BY <1>17, ForgetTyped, BoundsFacts DEF WorkerEnd
<1>18. ASSUME NEW i \in RowIds, WorkerDiscard(i) PROVE TypeOK'
  BY <1>18, NextRowTyped, DeletedTyped, BoundsFacts DEF WorkerDiscard, DrainTypes, Steps
<1>19. ASSUME NEW i \in RowIds, WorkerSkip(i) PROVE TypeOK'
  BY <1>19, NextRowTyped, BoundsFacts DEF WorkerSkip
<1>20. ASSUME NEW i \in RowIds, WorkerSend(i) PROVE TypeOK'
  BY <1>20, BoundsFacts DEF WorkerSend, SendTo, DrainTypes, Steps
<1>21. ASSUME NEW d \in Drainers, PutAck(d) PROVE TypeOK'
  BY <1>21, BoundsFacts DEF PutAck, DrainTypes, Steps
<1>22. ASSUME NEW d \in Drainers, DeleteReplayed(d) PROVE TypeOK'
  BY <1>22, NextRowTyped, DeletedTyped, BoundsFacts DEF DeleteReplayed, HoldsItsRow, Busy
<1>23. ASSUME NEW d \in Drainers, CheckAck(d) PROVE TypeOK'
  BY <1>23, NextRowTyped, BoundsFacts DEF CheckAck, HoldsItsRow, Busy, DrainTypes, Steps
<1>24. ASSUME NEW d \in Drainers, WriteBack(d) PROVE TypeOK'
  <2>1. cur[d] \in RowIds /\ batch[d][cur[d]] \in StoredRow
    BY <1>24 DEF WriteBack, HoldsItsRow, Busy
  <2>2. batch[d][cur[d]].attempts < MaxAttempts
    BY <1>24, <2>1 DEF WriteBack, HoldsItsRow, Busy, AttemptsLeft
  <2>3. NextRowState(batch[d][cur[d]], verdict[d]) \in StoredRow
    BY <2>1, <2>2, NextRowStateTyped
  <2>4. DrainTypes'
    BY <1>24, <2>1, NextRowTyped DEF WriteBack
  <2> QED  BY <1>24, <2>1, <2>3, <2>4 DEF WriteBack
<1>25. ASSUME NEW d \in Drainers, NEW r \in Responses, Answer(d, r) PROVE TypeOK'
  <2>1. ClassifyStatus(r) = "success" \/ ClassifyStatus(r) \in {"permanent", "retry"}
    BY DEF ClassifyStatus
  <2>2. CASE ClassifyStatus(r) = "success"
    BY <1>25, <2>2, BoundsFacts DEF Answer, DrainTypes, Steps
  <2>3. CASE ClassifyStatus(r) \in {"permanent", "retry"} /\ ClassifyStatus(r) # "success"
    BY <1>25, <2>3, BoundsFacts DEF Answer, DrainTypes, Steps
  <2> QED  BY <2>1, <2>2, <2>3
<1>26. ASSUME NEW i \in RowIds, BackoffElapses(i) PROVE TypeOK'
  <2>1. store[i] \in StoredRow /\ store' = [store EXCEPT ![i] = [store[i] EXCEPT !.wait = "due"]]
    BY <1>26 DEF BackoffElapses
  <2>2. [store[i] EXCEPT !.wait = "due"] \in StoredRow
    BY <2>1 DEF StoredRow
  <2> QED  BY <1>26, <2>1, <2>2 DEF BackoffElapses
<1>27. ASSUME NEW t \in Tabs, LoadPage(t) PROVE TypeOK'
  BY <1>27 DEF LoadPage
<1>28. ASSUME NEW t \in Tabs, CloseTab(t) PROVE TypeOK'
  BY <1>28, ForgetTyped, BoundsFacts DEF CloseTab
<1>29. ASSUME KillWorker PROVE TypeOK'
  BY <1>29, ForgetTyped, BoundsFacts DEF KillWorker
<1>30. ASSUME ConnectivityChanges PROVE TypeOK'
  BY <1>30 DEF ConnectivityChanges
<1>31. ASSUME NEW p \in Principals, SignIn(p) PROVE TypeOK'
  BY <1>31 DEF SignIn
<1>32. CASE UNCHANGED vars
  BY <1>32 DEF vars
<1> QED
  BY <1>1, <1>2, <1>3, <1>4, <1>5, <1>6, <1>7, <1>8, <1>9, <1>10, <1>11, <1>12, <1>13, <1>14, <1>15, <1>16, <1>17, <1>18, <1>19, <1>20, <1>21, <1>22, <1>23, <1>24, <1>25, <1>26, <1>27, <1>28, <1>29, <1>30, <1>31, <1>32
  DEF Next, Local, Environment, Enqueue, Reconcile, PagePass, WorkerPass, Post,
      Settle, Receive, Drainers

\* Turning to the next row, and ending, keep what every drain holds.
LEMMA NextRowShape ==
  ASSUME TypeOK, HoldsItsRow, BatchIsLive, NEW d \in Drainers, NEW i \in RowIds,
         NextRow(d, i)
  PROVE  HoldsItsRow' /\ BatchIsLive'
  BY BoundsFacts DEF TypeOK, HoldsItsRow, BatchIsLive, Busy, NextRow

LEMMA ForgetShape ==
  ASSUME TypeOK, HoldsItsRow, BatchIsLive, NEW ds \in SUBSET Drainers, Forget(ds)
  PROVE  HoldsItsRow' /\ BatchIsLive'
  BY BoundsFacts DEF TypeOK, HoldsItsRow, BatchIsLive, Busy, Forget, NoBatch

LEMMA HoldsStep ==
  ASSUME TypeOK, HoldsItsRow, BatchIsLive, [Next]_vars PROVE (HoldsItsRow /\ BatchIsLive)'
<1> USE DEF dbVars, pageVars, drainVars, workerVars, history
<1>1. ASSUME NEW t \in Tabs, EnqueueMinted(t) PROVE (HoldsItsRow /\ BatchIsLive)'
  BY <1>1 DEF EnqueueMinted, HoldsItsRow, BatchIsLive
<1>2. ASSUME NEW t \in Tabs, NEW k \in Tracked, EnqueueLook(t, k) PROVE (HoldsItsRow /\ BatchIsLive)'
  BY <1>2 DEF EnqueueLook, HoldsItsRow, BatchIsLive
<1>3. ASSUME NEW t \in Tabs, EnqueuePut(t) PROVE (HoldsItsRow /\ BatchIsLive)'
  BY <1>3 DEF EnqueuePut, HoldsItsRow, BatchIsLive
<1>4. ASSUME NEW t \in Tabs, NEW k \in Tracked, Discard(t, k) PROVE (HoldsItsRow /\ BatchIsLive)'
  BY <1>4 DEF Discard, HoldsItsRow, BatchIsLive
<1>5. ASSUME NEW t \in Tabs, ReadNoticesAndPrune(t) PROVE (HoldsItsRow /\ BatchIsLive)'
  BY <1>5 DEF ReadNoticesAndPrune, HoldsItsRow, BatchIsLive
<1>6. ASSUME NEW t \in Tabs, ReconcileCompare(t) PROVE (HoldsItsRow /\ BatchIsLive)'
  BY <1>6 DEF ReconcileCompare, HoldsItsRow, BatchIsLive
<1>7. ASSUME NEW t \in Tabs, ReconcileClear(t) PROVE (HoldsItsRow /\ BatchIsLive)'
  BY <1>7 DEF ReconcileClear, HoldsItsRow, BatchIsLive
<1>8. ASSUME NEW t \in Tabs, ReconcilePersist(t) PROVE (HoldsItsRow /\ BatchIsLive)'
  BY <1>8 DEF ReconcilePersist, HoldsItsRow, BatchIsLive
<1>9. ASSUME NEW d \in Passes, StartDrain(d) PROVE (HoldsItsRow /\ BatchIsLive)'
  BY <1>9, BoundsFacts DEF StartDrain, TypeOK, HoldsItsRow, BatchIsLive, Busy, SelectDrainBatch, IsRowEligible, Eligible
<1>10. ASSUME NEW d \in Passes, EndDrain(d) PROVE (HoldsItsRow /\ BatchIsLive)'
  BY <1>10, ForgetShape, BoundsFacts DEF EndDrain
<1>11. ASSUME NEW d \in Passes, NEW i \in RowIds, DiscardMismatch(d, i) PROVE (HoldsItsRow /\ BatchIsLive)'
  BY <1>11, NextRowShape, BoundsFacts DEF DiscardMismatch
<1>12. ASSUME NEW d \in Passes, NEW i \in RowIds, Send(d, i) PROVE (HoldsItsRow /\ BatchIsLive)'
  BY <1>12, BoundsFacts DEF Send, SendTo, IsNext, TypeOK, HoldsItsRow, BatchIsLive, Busy
<1>13. ASSUME SyncFires PROVE (HoldsItsRow /\ BatchIsLive)'
  BY <1>13, BoundsFacts DEF SyncFires, TypeOK, HoldsItsRow, BatchIsLive, Busy
<1>14. ASSUME WorkerReadRows PROVE (HoldsItsRow /\ BatchIsLive)'
  BY <1>14, BoundsFacts DEF WorkerReadRows, TypeOK, HoldsItsRow, BatchIsLive, Busy
<1>15. ASSUME WorkerReadPrincipal PROVE (HoldsItsRow /\ BatchIsLive)'
  BY <1>15, BoundsFacts DEF WorkerReadPrincipal, TypeOK, HoldsItsRow, BatchIsLive, Busy
<1>16. ASSUME WorkerNotice PROVE (HoldsItsRow /\ BatchIsLive)'
  BY <1>16, NextRowShape, BoundsFacts DEF WorkerNotice, HoldsItsRow
<1>17. ASSUME WorkerEnd PROVE (HoldsItsRow /\ BatchIsLive)'
  BY <1>17, ForgetShape, BoundsFacts DEF WorkerEnd
<1>18. ASSUME NEW i \in RowIds, WorkerDiscard(i) PROVE (HoldsItsRow /\ BatchIsLive)'
  BY <1>18, NextRowShape, BoundsFacts DEF WorkerDiscard, IsNext, TypeOK, HoldsItsRow, BatchIsLive, Busy
<1>19. ASSUME NEW i \in RowIds, WorkerSkip(i) PROVE (HoldsItsRow /\ BatchIsLive)'
  BY <1>19, NextRowShape, BoundsFacts DEF WorkerSkip
<1>20. ASSUME NEW i \in RowIds, WorkerSend(i) PROVE (HoldsItsRow /\ BatchIsLive)'
  BY <1>20, BoundsFacts DEF WorkerSend, SendTo, IsNext, IsRowEligible, TypeOK, HoldsItsRow, BatchIsLive, Busy
<1>21. ASSUME NEW d \in Drainers, PutAck(d) PROVE (HoldsItsRow /\ BatchIsLive)'
  BY <1>21, BoundsFacts DEF PutAck, TypeOK, HoldsItsRow, BatchIsLive, Busy
<1>22. ASSUME NEW d \in Drainers, DeleteReplayed(d) PROVE (HoldsItsRow /\ BatchIsLive)'
  BY <1>22, NextRowShape DEF DeleteReplayed, HoldsItsRow, Busy
<1>23. ASSUME NEW d \in Drainers, CheckAck(d) PROVE (HoldsItsRow /\ BatchIsLive)'
  BY <1>23, NextRowShape DEF CheckAck, TypeOK, HoldsItsRow, BatchIsLive, Busy
<1>24. ASSUME NEW d \in Drainers, WriteBack(d) PROVE (HoldsItsRow /\ BatchIsLive)'
  BY <1>24, NextRowShape DEF WriteBack, HoldsItsRow, Busy
<1>25. ASSUME NEW d \in Drainers, NEW r \in Responses, Answer(d, r) PROVE (HoldsItsRow /\ BatchIsLive)'
  BY <1>25, BoundsFacts DEF Answer, TypeOK, HoldsItsRow, BatchIsLive, Busy
<1>26. ASSUME NEW i \in RowIds, BackoffElapses(i) PROVE (HoldsItsRow /\ BatchIsLive)'
  BY <1>26 DEF BackoffElapses, HoldsItsRow, BatchIsLive
<1>27. ASSUME NEW t \in Tabs, LoadPage(t) PROVE (HoldsItsRow /\ BatchIsLive)'
  BY <1>27 DEF LoadPage, HoldsItsRow, BatchIsLive
<1>28. ASSUME NEW t \in Tabs, CloseTab(t) PROVE (HoldsItsRow /\ BatchIsLive)'
  BY <1>28, ForgetShape, BoundsFacts DEF CloseTab
<1>29. ASSUME KillWorker PROVE (HoldsItsRow /\ BatchIsLive)'
  BY <1>29, ForgetShape, BoundsFacts DEF KillWorker
<1>30. ASSUME ConnectivityChanges PROVE (HoldsItsRow /\ BatchIsLive)'
  BY <1>30 DEF ConnectivityChanges, HoldsItsRow, BatchIsLive
<1>31. ASSUME NEW p \in Principals, SignIn(p) PROVE (HoldsItsRow /\ BatchIsLive)'
  BY <1>31 DEF SignIn, HoldsItsRow, BatchIsLive
<1>32. CASE UNCHANGED vars
  BY <1>32 DEF vars, HoldsItsRow, BatchIsLive
<1> QED
  BY <1>1, <1>2, <1>3, <1>4, <1>5, <1>6, <1>7, <1>8, <1>9, <1>10, <1>11, <1>12, <1>13, <1>14, <1>15, <1>16, <1>17, <1>18, <1>19, <1>20, <1>21, <1>22, <1>23, <1>24, <1>25, <1>26, <1>27, <1>28, <1>29, <1>30, <1>31, <1>32
  DEF Next, Local, Environment, Enqueue, Reconcile, PagePass, WorkerPass, Post,
      Settle, Receive, Drainers

LEMMA QuietStep ==
  ASSUME TypeOK, ClosedIsQuiet, [Next]_vars PROVE ClosedIsQuiet'
<1> USE PrincipalsAssumption DEF TypeOK, ClosedIsQuiet, SendTo, dbVars, pageVars, drainVars, workerVars, history
<1>1. ASSUME NEW t \in Tabs, EnqueueMinted(t) PROVE ClosedIsQuiet'
  BY <1>1 DEF EnqueueMinted
<1>2. ASSUME NEW t \in Tabs, NEW k \in Tracked, EnqueueLook(t, k) PROVE ClosedIsQuiet'
  BY <1>2 DEF EnqueueLook
<1>3. ASSUME NEW t \in Tabs, EnqueuePut(t) PROVE ClosedIsQuiet'
  BY <1>3 DEF EnqueuePut
<1>4. ASSUME NEW t \in Tabs, NEW k \in Tracked, Discard(t, k) PROVE ClosedIsQuiet'
  BY <1>4 DEF Discard
<1>5. ASSUME NEW t \in Tabs, ReadNoticesAndPrune(t) PROVE ClosedIsQuiet'
  BY <1>5 DEF ReadNoticesAndPrune
<1>6. ASSUME NEW t \in Tabs, ReconcileCompare(t) PROVE ClosedIsQuiet'
  BY <1>6 DEF ReconcileCompare
<1>7. ASSUME NEW t \in Tabs, ReconcileClear(t) PROVE ClosedIsQuiet'
  BY <1>7 DEF ReconcileClear
<1>8. ASSUME NEW t \in Tabs, ReconcilePersist(t) PROVE ClosedIsQuiet'
  BY <1>8 DEF ReconcilePersist
<1>9. ASSUME NEW d \in Passes, StartDrain(d) PROVE ClosedIsQuiet'
  BY <1>9 DEF StartDrain
<1>10. ASSUME NEW d \in Passes, EndDrain(d) PROVE ClosedIsQuiet'
  BY <1>10 DEF EndDrain
<1>11. ASSUME NEW d \in Passes, NEW i \in RowIds, DiscardMismatch(d, i) PROVE ClosedIsQuiet'
  BY <1>11 DEF DiscardMismatch
<1>12. ASSUME NEW d \in Passes, NEW i \in RowIds, Send(d, i) PROVE ClosedIsQuiet'
  BY <1>12 DEF Send
<1>13. ASSUME SyncFires PROVE ClosedIsQuiet'
  BY <1>13 DEF SyncFires
<1>14. ASSUME WorkerReadRows PROVE ClosedIsQuiet'
  BY <1>14 DEF WorkerReadRows
<1>15. ASSUME WorkerReadPrincipal PROVE ClosedIsQuiet'
  BY <1>15 DEF WorkerReadPrincipal
<1>16. ASSUME WorkerNotice PROVE ClosedIsQuiet'
  BY <1>16 DEF WorkerNotice
<1>17. ASSUME WorkerEnd PROVE ClosedIsQuiet'
  BY <1>17 DEF WorkerEnd
<1>18. ASSUME NEW i \in RowIds, WorkerDiscard(i) PROVE ClosedIsQuiet'
  BY <1>18 DEF WorkerDiscard
<1>19. ASSUME NEW i \in RowIds, WorkerSkip(i) PROVE ClosedIsQuiet'
  BY <1>19 DEF WorkerSkip
<1>20. ASSUME NEW i \in RowIds, WorkerSend(i) PROVE ClosedIsQuiet'
  BY <1>20 DEF WorkerSend
<1>21. ASSUME NEW d \in Drainers, PutAck(d) PROVE ClosedIsQuiet'
  BY <1>21 DEF PutAck
<1>22. ASSUME NEW d \in Drainers, DeleteReplayed(d) PROVE ClosedIsQuiet'
  BY <1>22 DEF DeleteReplayed
<1>23. ASSUME NEW d \in Drainers, CheckAck(d) PROVE ClosedIsQuiet'
  BY <1>23 DEF CheckAck
<1>24. ASSUME NEW d \in Drainers, WriteBack(d) PROVE ClosedIsQuiet'
  BY <1>24 DEF WriteBack
<1>25. ASSUME NEW d \in Drainers, NEW r \in Responses, Answer(d, r) PROVE ClosedIsQuiet'
  BY <1>25 DEF Answer
<1>26. ASSUME NEW i \in RowIds, BackoffElapses(i) PROVE ClosedIsQuiet'
  BY <1>26 DEF BackoffElapses
<1>27. ASSUME NEW t \in Tabs, LoadPage(t) PROVE ClosedIsQuiet'
  BY <1>27 DEF LoadPage
<1>28. ASSUME NEW t \in Tabs, CloseTab(t) PROVE ClosedIsQuiet'
  BY <1>28 DEF CloseTab
<1>29. ASSUME KillWorker PROVE ClosedIsQuiet'
  BY <1>29 DEF KillWorker
<1>30. ASSUME ConnectivityChanges PROVE ClosedIsQuiet'
  BY <1>30 DEF ConnectivityChanges
<1>31. ASSUME NEW p \in Principals, SignIn(p) PROVE ClosedIsQuiet'
  BY <1>31 DEF SignIn
<1>32. CASE UNCHANGED vars
  BY <1>32 DEF vars
<1> QED
  BY <1>1, <1>2, <1>3, <1>4, <1>5, <1>6, <1>7, <1>8, <1>9, <1>10, <1>11, <1>12, <1>13, <1>14, <1>15, <1>16, <1>17, <1>18, <1>19, <1>20, <1>21, <1>22, <1>23, <1>24, <1>25, <1>26, <1>27, <1>28, <1>29, <1>30, <1>31, <1>32
  DEF Next, Local, Environment, Enqueue, Reconcile, PagePass, WorkerPass, Post,
      Settle, Receive, Drainers

\* Turning to the next row, and ending, drop copies and make none.
LEMMA NextRowAttempts ==
  ASSUME TypeOK, AttemptsLeft, NEW d \in Drainers, NEW i \in RowIds, NextRow(d, i),
         \A j \in RowIds : store'[j] # NoRow /\ store'[j].status # "failed"
                             => store'[j].attempts < MaxAttempts
  PROVE  AttemptsLeft'
  BY BoundsFacts DEF TypeOK, AttemptsLeft, NextRow

LEMMA ForgetAttempts ==
  ASSUME TypeOK, AttemptsLeft, NEW ds \in SUBSET Drainers, Forget(ds),
         UNCHANGED store
  PROVE  AttemptsLeft'
  BY BoundsFacts DEF TypeOK, AttemptsLeft, Forget, NoBatch

LEMMA AttemptsStep ==
  ASSUME TypeOK, Shape, AttemptsLeft, [Next]_vars PROVE AttemptsLeft'
<1> USE DEF Shape, dbVars, pageVars, drainVars, workerVars, history
<1>1. ASSUME NEW t \in Tabs, EnqueueMinted(t) PROVE AttemptsLeft'
  BY <1>1, NewRowTyped, BoundsFacts DEF EnqueueMinted, AttemptsLeft, TypeOK
<1>2. ASSUME NEW t \in Tabs, NEW k \in Tracked, EnqueueLook(t, k) PROVE AttemptsLeft'
  BY <1>2 DEF EnqueueLook, AttemptsLeft
<1>3. ASSUME NEW t \in Tabs, EnqueuePut(t) PROVE AttemptsLeft'
  BY <1>3, NewRowTyped, BoundsFacts DEF EnqueuePut, AttemptsLeft, TypeOK, ClosedIsQuiet, Keys
<1>4. ASSUME NEW t \in Tabs, NEW k \in Tracked, Discard(t, k) PROVE AttemptsLeft'
  BY <1>4 DEF Discard, AttemptsLeft, Deleted
<1>5. ASSUME NEW t \in Tabs, ReadNoticesAndPrune(t) PROVE AttemptsLeft'
  BY <1>5 DEF ReadNoticesAndPrune, AttemptsLeft
<1>6. ASSUME NEW t \in Tabs, ReconcileCompare(t) PROVE AttemptsLeft'
  BY <1>6 DEF ReconcileCompare, AttemptsLeft
<1>7. ASSUME NEW t \in Tabs, ReconcileClear(t) PROVE AttemptsLeft'
  BY <1>7 DEF ReconcileClear, AttemptsLeft, Deleted
<1>8. ASSUME NEW t \in Tabs, ReconcilePersist(t) PROVE AttemptsLeft'
  BY <1>8 DEF ReconcilePersist, AttemptsLeft
<1>9. ASSUME NEW d \in Passes, StartDrain(d) PROVE AttemptsLeft'
  BY <1>9, BoundsFacts DEF StartDrain, TypeOK, AttemptsLeft, SelectDrainBatch, Eligible
<1>10. ASSUME NEW d \in Passes, EndDrain(d) PROVE AttemptsLeft'
  BY <1>10, ForgetAttempts, BoundsFacts DEF EndDrain
<1>11. ASSUME NEW d \in Passes, NEW i \in RowIds, DiscardMismatch(d, i) PROVE AttemptsLeft'
  BY <1>11, NextRowAttempts, BoundsFacts DEF DiscardMismatch, AttemptsLeft, Deleted
<1>12. ASSUME NEW d \in Passes, NEW i \in RowIds, Send(d, i) PROVE AttemptsLeft'
  BY <1>12 DEF Send, SendTo, AttemptsLeft
<1>13. ASSUME SyncFires PROVE AttemptsLeft'
  BY <1>13 DEF SyncFires, AttemptsLeft
<1>14. ASSUME WorkerReadRows PROVE AttemptsLeft'
  BY <1>14, BoundsFacts DEF WorkerReadRows, TypeOK, AttemptsLeft
<1>15. ASSUME WorkerReadPrincipal PROVE AttemptsLeft'
  BY <1>15 DEF WorkerReadPrincipal, AttemptsLeft
<1>16. ASSUME WorkerNotice PROVE AttemptsLeft'
  BY <1>16, NextRowAttempts, BoundsFacts DEF WorkerNotice, AttemptsLeft, Deleted, HoldsItsRow
<1>17. ASSUME WorkerEnd PROVE AttemptsLeft'
  BY <1>17, ForgetAttempts, BoundsFacts DEF WorkerEnd
<1>18. ASSUME NEW i \in RowIds, WorkerDiscard(i) PROVE AttemptsLeft'
  BY <1>18, NextRowAttempts, BoundsFacts DEF WorkerDiscard, AttemptsLeft, Deleted
<1>19. ASSUME NEW i \in RowIds, WorkerSkip(i) PROVE AttemptsLeft'
  BY <1>19, NextRowAttempts, BoundsFacts DEF WorkerSkip, AttemptsLeft, Deleted
<1>20. ASSUME NEW i \in RowIds, WorkerSend(i) PROVE AttemptsLeft'
  BY <1>20 DEF WorkerSend, SendTo, AttemptsLeft
<1>21. ASSUME NEW d \in Drainers, PutAck(d) PROVE AttemptsLeft'
  BY <1>21 DEF PutAck, AttemptsLeft
<1>22. ASSUME NEW d \in Drainers, DeleteReplayed(d) PROVE AttemptsLeft'
  BY <1>22, NextRowAttempts, BoundsFacts DEF DeleteReplayed, AttemptsLeft, Deleted, HoldsItsRow, Busy
<1>23. ASSUME NEW d \in Drainers, CheckAck(d) PROVE AttemptsLeft'
  BY <1>23, NextRowAttempts DEF CheckAck, HoldsItsRow, Busy, AttemptsLeft
<1>24. ASSUME NEW d \in Drainers, WriteBack(d) PROVE AttemptsLeft'
  <2> DEFINE new == NextRowState(batch[d][cur[d]], verdict[d])
  <2>1. /\ cur[d] \in RowIds /\ batch[d][cur[d]] \in StoredRow
        /\ batch[d][cur[d]].status # "failed"
    BY <1>24 DEF WriteBack, HoldsItsRow, Busy, TypeOK
  <2>2. batch[d][cur[d]].attempts < MaxAttempts
    BY <1>24, <2>1 DEF WriteBack, HoldsItsRow, Busy, AttemptsLeft
  <2>3. new.status # "failed" => new.attempts < MaxAttempts
    BY <2>1, <2>2, NextRowStateTyped
  <2>4. store' = store \/ store' = [store EXCEPT ![cur[d]] = new]
    BY <1>24 DEF WriteBack
  <2>5. \A j \in RowIds : store'[j] # NoRow /\ store'[j].status # "failed"
                           => store'[j].attempts < MaxAttempts
    BY <2>1, <2>3, <2>4 DEF AttemptsLeft, TypeOK
  <2>6. NextRow(d, cur[d])
    BY <1>24 DEF WriteBack
  <2> QED  BY <2>1, <2>5, <2>6, NextRowAttempts
<1>25. ASSUME NEW d \in Drainers, NEW r \in Responses, Answer(d, r) PROVE AttemptsLeft'
  BY <1>25 DEF Answer, AttemptsLeft
<1>26. ASSUME NEW i \in RowIds, BackoffElapses(i) PROVE AttemptsLeft'
  BY <1>26 DEF BackoffElapses, AttemptsLeft, TypeOK, StoredRow
<1>27. ASSUME NEW t \in Tabs, LoadPage(t) PROVE AttemptsLeft'
  BY <1>27 DEF LoadPage, AttemptsLeft
<1>28. ASSUME NEW t \in Tabs, CloseTab(t) PROVE AttemptsLeft'
  BY <1>28, ForgetAttempts, BoundsFacts DEF CloseTab
<1>29. ASSUME KillWorker PROVE AttemptsLeft'
  BY <1>29, ForgetAttempts, BoundsFacts DEF KillWorker
<1>30. ASSUME ConnectivityChanges PROVE AttemptsLeft'
  BY <1>30 DEF ConnectivityChanges, AttemptsLeft
<1>31. ASSUME NEW p \in Principals, SignIn(p) PROVE AttemptsLeft'
  BY <1>31 DEF SignIn, AttemptsLeft
<1>32. CASE UNCHANGED vars
  BY <1>32 DEF vars, AttemptsLeft
<1> QED
  BY <1>1, <1>2, <1>3, <1>4, <1>5, <1>6, <1>7, <1>8, <1>9, <1>10, <1>11, <1>12, <1>13, <1>14, <1>15, <1>16, <1>17, <1>18, <1>19, <1>20, <1>21, <1>22, <1>23, <1>24, <1>25, <1>26, <1>27, <1>28, <1>29, <1>30, <1>31, <1>32
  DEF Next, Local, Environment, Enqueue, Reconcile, PagePass, WorkerPass, Post,
      Settle, Receive, Drainers

Acknowledged == DeletesAcknowledged /\ LandedIsAcknowledged

LEMMA NextRowAcks ==
  ASSUME TypeOK, DeletesAcknowledged, NEW d \in Drainers, NEW i \in RowIds,
         NextRow(d, i), acks' = acks
  PROVE  DeletesAcknowledged'
  BY DEF TypeOK, DeletesAcknowledged, NextRow

LEMMA ForgetAcks ==
  ASSUME TypeOK, DeletesAcknowledged, NEW ds \in SUBSET Drainers, Forget(ds),
         acks' = acks
  PROVE  DeletesAcknowledged'
  BY DEF TypeOK, DeletesAcknowledged, Forget

LEMMA AcksStep ==
  ASSUME TypeOK, HoldsItsRow, Acknowledged, [Next]_vars PROVE Acknowledged'
<1> USE DEF Acknowledged, dbVars, pageVars, drainVars, workerVars, history
<1>1. ASSUME NEW t \in Tabs, EnqueueMinted(t) PROVE Acknowledged'
  BY <1>1 DEF EnqueueMinted, DeletesAcknowledged, LandedIsAcknowledged
<1>2. ASSUME NEW t \in Tabs, NEW k \in Tracked, EnqueueLook(t, k) PROVE Acknowledged'
  BY <1>2 DEF EnqueueLook, DeletesAcknowledged, LandedIsAcknowledged
<1>3. ASSUME NEW t \in Tabs, EnqueuePut(t) PROVE Acknowledged'
  BY <1>3 DEF EnqueuePut, DeletesAcknowledged, LandedIsAcknowledged
<1>4. ASSUME NEW t \in Tabs, NEW k \in Tracked, Discard(t, k) PROVE Acknowledged'
  BY <1>4 DEF Discard, DeletesAcknowledged, LandedIsAcknowledged
<1>5. ASSUME NEW t \in Tabs, ReadNoticesAndPrune(t) PROVE Acknowledged'
  BY <1>5 DEF ReadNoticesAndPrune, TypeOK, DeletesAcknowledged, LandedIsAcknowledged, Prunable, HoldsItsRow, Busy
<1>6. ASSUME NEW t \in Tabs, ReconcileCompare(t) PROVE Acknowledged'
  BY <1>6 DEF ReconcileCompare, DeletesAcknowledged, LandedIsAcknowledged
<1>7. ASSUME NEW t \in Tabs, ReconcileClear(t) PROVE Acknowledged'
  BY <1>7 DEF ReconcileClear, DeletesAcknowledged, LandedIsAcknowledged
<1>8. ASSUME NEW t \in Tabs, ReconcilePersist(t) PROVE Acknowledged'
  BY <1>8 DEF ReconcilePersist, DeletesAcknowledged, LandedIsAcknowledged
<1>9. ASSUME NEW d \in Passes, StartDrain(d) PROVE Acknowledged'
  BY <1>9, BoundsFacts DEF StartDrain, TypeOK, DeletesAcknowledged, LandedIsAcknowledged
<1>10. ASSUME NEW d \in Passes, EndDrain(d) PROVE Acknowledged'
  BY <1>10, ForgetAcks, BoundsFacts DEF EndDrain, LandedIsAcknowledged
<1>11. ASSUME NEW d \in Passes, NEW i \in RowIds, DiscardMismatch(d, i) PROVE Acknowledged'
  BY <1>11, NextRowAcks, BoundsFacts DEF DiscardMismatch, LandedIsAcknowledged
<1>12. ASSUME NEW d \in Passes, NEW i \in RowIds, Send(d, i) PROVE Acknowledged'
  BY <1>12, BoundsFacts DEF Send, SendTo, TypeOK, DeletesAcknowledged, LandedIsAcknowledged
<1>13. ASSUME SyncFires PROVE Acknowledged'
  BY <1>13, BoundsFacts DEF SyncFires, TypeOK, DeletesAcknowledged, LandedIsAcknowledged
<1>14. ASSUME WorkerReadRows PROVE Acknowledged'
  BY <1>14, BoundsFacts DEF WorkerReadRows, TypeOK, DeletesAcknowledged, LandedIsAcknowledged
<1>15. ASSUME WorkerReadPrincipal PROVE Acknowledged'
  BY <1>15, BoundsFacts DEF WorkerReadPrincipal, TypeOK, DeletesAcknowledged, LandedIsAcknowledged
<1>16. ASSUME WorkerNotice PROVE Acknowledged'
  BY <1>16, NextRowAcks, BoundsFacts DEF WorkerNotice, LandedIsAcknowledged, HoldsItsRow
<1>17. ASSUME WorkerEnd PROVE Acknowledged'
  BY <1>17, ForgetAcks, BoundsFacts DEF WorkerEnd, LandedIsAcknowledged
<1>18. ASSUME NEW i \in RowIds, WorkerDiscard(i) PROVE Acknowledged'
  BY <1>18, NextRowAcks, BoundsFacts DEF WorkerDiscard, TypeOK, DeletesAcknowledged, LandedIsAcknowledged
<1>19. ASSUME NEW i \in RowIds, WorkerSkip(i) PROVE Acknowledged'
  BY <1>19, NextRowAcks, BoundsFacts DEF WorkerSkip, LandedIsAcknowledged
<1>20. ASSUME NEW i \in RowIds, WorkerSend(i) PROVE Acknowledged'
  BY <1>20, BoundsFacts DEF WorkerSend, SendTo, TypeOK, DeletesAcknowledged, LandedIsAcknowledged
<1>21. ASSUME NEW d \in Drainers, PutAck(d) PROVE Acknowledged'
  BY <1>21, BoundsFacts DEF PutAck, TypeOK, DeletesAcknowledged, LandedIsAcknowledged
<1>22. ASSUME NEW d \in Drainers, DeleteReplayed(d) PROVE Acknowledged'
  BY <1>22, NextRowAcks DEF DeleteReplayed, TypeOK, DeletesAcknowledged, LandedIsAcknowledged, HoldsItsRow, Busy
<1>23. ASSUME NEW d \in Drainers, CheckAck(d) PROVE Acknowledged'
  BY <1>23, NextRowAcks DEF CheckAck, TypeOK, DeletesAcknowledged, LandedIsAcknowledged, HoldsItsRow, Busy
<1>24. ASSUME NEW d \in Drainers, WriteBack(d) PROVE Acknowledged'
  BY <1>24, NextRowAcks DEF WriteBack, HoldsItsRow, Busy, LandedIsAcknowledged
<1>25. ASSUME NEW d \in Drainers, NEW r \in Responses, Answer(d, r) PROVE Acknowledged'
  BY <1>25, BoundsFacts DEF Answer, TypeOK, DeletesAcknowledged, LandedIsAcknowledged
<1>26. ASSUME NEW i \in RowIds, BackoffElapses(i) PROVE Acknowledged'
  BY <1>26 DEF BackoffElapses, DeletesAcknowledged, LandedIsAcknowledged
<1>27. ASSUME NEW t \in Tabs, LoadPage(t) PROVE Acknowledged'
  BY <1>27 DEF LoadPage, DeletesAcknowledged, LandedIsAcknowledged
<1>28. ASSUME NEW t \in Tabs, CloseTab(t) PROVE Acknowledged'
  BY <1>28, ForgetAcks, BoundsFacts DEF CloseTab, LandedIsAcknowledged
<1>29. ASSUME KillWorker PROVE Acknowledged'
  BY <1>29, ForgetAcks, BoundsFacts DEF KillWorker, LandedIsAcknowledged
<1>30. ASSUME ConnectivityChanges PROVE Acknowledged'
  BY <1>30 DEF ConnectivityChanges, DeletesAcknowledged, LandedIsAcknowledged
<1>31. ASSUME NEW p \in Principals, SignIn(p) PROVE Acknowledged'
  BY <1>31 DEF SignIn, DeletesAcknowledged, LandedIsAcknowledged
<1>32. CASE UNCHANGED vars
  BY <1>32 DEF vars, DeletesAcknowledged, LandedIsAcknowledged
<1> QED
  BY <1>1, <1>2, <1>3, <1>4, <1>5, <1>6, <1>7, <1>8, <1>9, <1>10, <1>11, <1>12, <1>13, <1>14, <1>15, <1>16, <1>17, <1>18, <1>19, <1>20, <1>21, <1>22, <1>23, <1>24, <1>25, <1>26, <1>27, <1>28, <1>29, <1>30, <1>31, <1>32
  DEF Next, Local, Environment, Enqueue, Reconcile, PagePass, WorkerPass, Post,
      Settle, Receive, Drainers

\* Only StartDrain takes a page's drain out of "idle".
LEMMA OnePassStep ==
  ASSUME TypeOK, OnePassPerPage, [Next]_vars PROVE OnePassPerPage'
<1> USE DEF dbVars, pageVars, drainVars, workerVars, history
<1>1. ASSUME NEW t \in Tabs, EnqueueMinted(t) PROVE OnePassPerPage'
  BY <1>1 DEF EnqueueMinted, OnePassPerPage
<1>2. ASSUME NEW t \in Tabs, NEW k \in Tracked, EnqueueLook(t, k) PROVE OnePassPerPage'
  BY <1>2 DEF EnqueueLook, OnePassPerPage
<1>3. ASSUME NEW t \in Tabs, EnqueuePut(t) PROVE OnePassPerPage'
  BY <1>3 DEF EnqueuePut, OnePassPerPage
<1>4. ASSUME NEW t \in Tabs, NEW k \in Tracked, Discard(t, k) PROVE OnePassPerPage'
  BY <1>4 DEF Discard, OnePassPerPage
<1>5. ASSUME NEW t \in Tabs, ReadNoticesAndPrune(t) PROVE OnePassPerPage'
  BY <1>5 DEF ReadNoticesAndPrune, OnePassPerPage
<1>6. ASSUME NEW t \in Tabs, ReconcileCompare(t) PROVE OnePassPerPage'
  BY <1>6 DEF ReconcileCompare, OnePassPerPage
<1>7. ASSUME NEW t \in Tabs, ReconcileClear(t) PROVE OnePassPerPage'
  BY <1>7 DEF ReconcileClear, OnePassPerPage
<1>8. ASSUME NEW t \in Tabs, ReconcilePersist(t) PROVE OnePassPerPage'
  BY <1>8 DEF ReconcilePersist, OnePassPerPage
<1>9. ASSUME NEW d \in Passes, StartDrain(d) PROVE OnePassPerPage'
  BY <1>9, TabOfAssumption DEF StartDrain, TypeOK, OnePassPerPage
<1>10. ASSUME NEW d \in Passes, EndDrain(d) PROVE OnePassPerPage'
  BY <1>10, BoundsFacts DEF EndDrain, Forget, TypeOK, OnePassPerPage
<1>11. ASSUME NEW d \in Passes, NEW i \in RowIds, DiscardMismatch(d, i) PROVE OnePassPerPage'
  BY <1>11, BoundsFacts DEF DiscardMismatch, NextRow, TypeOK, OnePassPerPage
<1>12. ASSUME NEW d \in Passes, NEW i \in RowIds, Send(d, i) PROVE OnePassPerPage'
  BY <1>12, BoundsFacts DEF Send, SendTo, TypeOK, OnePassPerPage
<1>13. ASSUME SyncFires PROVE OnePassPerPage'
  BY <1>13, BoundsFacts DEF SyncFires, TypeOK, OnePassPerPage
<1>14. ASSUME WorkerReadRows PROVE OnePassPerPage'
  BY <1>14, BoundsFacts DEF WorkerReadRows, TypeOK, OnePassPerPage
<1>15. ASSUME WorkerReadPrincipal PROVE OnePassPerPage'
  BY <1>15, BoundsFacts DEF WorkerReadPrincipal, TypeOK, OnePassPerPage
<1>16. ASSUME WorkerNotice PROVE OnePassPerPage'
  BY <1>16, BoundsFacts DEF WorkerNotice, NextRow, TypeOK, OnePassPerPage
<1>17. ASSUME WorkerEnd PROVE OnePassPerPage'
  BY <1>17, BoundsFacts DEF WorkerEnd, Forget, TypeOK, OnePassPerPage
<1>18. ASSUME NEW i \in RowIds, WorkerDiscard(i) PROVE OnePassPerPage'
  BY <1>18, BoundsFacts DEF WorkerDiscard, NextRow, TypeOK, OnePassPerPage
<1>19. ASSUME NEW i \in RowIds, WorkerSkip(i) PROVE OnePassPerPage'
  BY <1>19, BoundsFacts DEF WorkerSkip, NextRow, TypeOK, OnePassPerPage
<1>20. ASSUME NEW i \in RowIds, WorkerSend(i) PROVE OnePassPerPage'
  BY <1>20, BoundsFacts DEF WorkerSend, SendTo, TypeOK, OnePassPerPage
<1>21. ASSUME NEW d \in Drainers, PutAck(d) PROVE OnePassPerPage'
  BY <1>21, BoundsFacts DEF PutAck, TypeOK, OnePassPerPage
<1>22. ASSUME NEW d \in Drainers, DeleteReplayed(d) PROVE OnePassPerPage'
  BY <1>22, BoundsFacts DEF DeleteReplayed, NextRow, TypeOK, OnePassPerPage
<1>23. ASSUME NEW d \in Drainers, CheckAck(d) PROVE OnePassPerPage'
  BY <1>23, BoundsFacts DEF CheckAck, NextRow, TypeOK, OnePassPerPage
<1>24. ASSUME NEW d \in Drainers, WriteBack(d) PROVE OnePassPerPage'
  BY <1>24, BoundsFacts DEF WriteBack, NextRow, TypeOK, OnePassPerPage
<1>25. ASSUME NEW d \in Drainers, NEW r \in Responses, Answer(d, r) PROVE OnePassPerPage'
  BY <1>25, BoundsFacts DEF Answer, TypeOK, OnePassPerPage
<1>26. ASSUME NEW i \in RowIds, BackoffElapses(i) PROVE OnePassPerPage'
  BY <1>26 DEF BackoffElapses, OnePassPerPage
<1>27. ASSUME NEW t \in Tabs, LoadPage(t) PROVE OnePassPerPage'
  BY <1>27 DEF LoadPage, OnePassPerPage
<1>28. ASSUME NEW t \in Tabs, CloseTab(t) PROVE OnePassPerPage'
  BY <1>28, BoundsFacts DEF CloseTab, Forget, TypeOK, OnePassPerPage
<1>29. ASSUME KillWorker PROVE OnePassPerPage'
  BY <1>29, BoundsFacts DEF KillWorker, Forget, TypeOK, OnePassPerPage
<1>30. ASSUME ConnectivityChanges PROVE OnePassPerPage'
  BY <1>30 DEF ConnectivityChanges, OnePassPerPage
<1>31. ASSUME NEW p \in Principals, SignIn(p) PROVE OnePassPerPage'
  BY <1>31 DEF SignIn, OnePassPerPage
<1>32. CASE UNCHANGED vars
  BY <1>32 DEF vars, OnePassPerPage
<1> QED
  BY <1>1, <1>2, <1>3, <1>4, <1>5, <1>6, <1>7, <1>8, <1>9, <1>10, <1>11, <1>12, <1>13, <1>14, <1>15, <1>16, <1>17, <1>18, <1>19, <1>20, <1>21, <1>22, <1>23, <1>24, <1>25, <1>26, <1>27, <1>28, <1>29, <1>30, <1>31, <1>32
  DEF Next, Local, Environment, Enqueue, Reconcile, PagePass, WorkerPass, Post,
      Settle, Receive, Drainers

-----------------------------------------------------------------------------
(* The invariant *)

LEMMA Initially == Init => IInv
<1> SUFFICES ASSUME Init PROVE IInv
  OBVIOUS
<1>1. TypeOK
  <2>1. nextId \in 1..(MaxRows + 1)
    BY BoundsFacts DEF Init
  <2>2. NoBatch \in [RowIds -> StoredRow \cup {NoRow}]
    BY DEF NoBatch
  <2>3. DrainTypes
    BY <2>2, BoundsFacts DEF Init, DrainTypes, Steps
  <2> QED  BY <2>1, <2>2, <2>3 DEF Init, TypeOK, DrainTypes
<1>2. Shape /\ AttemptsLeft
  BY BoundsFacts DEF Init, Shape, HoldsItsRow, BatchIsLive, ClosedIsQuiet, Busy,
     NoBatch, AttemptsLeft
<1>3. DeletesAcknowledged /\ LandedIsAcknowledged /\ OnePassPerPage
  BY BoundsFacts DEF Init, DeletesAcknowledged, LandedIsAcknowledged, OnePassPerPage
<1> QED  BY <1>1, <1>2, <1>3 DEF IInv

LEMMA InductiveStep == ASSUME IInv, [Next]_vars PROVE IInv'
<1>1. TypeOK'
  BY TypeStep DEF IInv
<1>2. Shape'
  BY HoldsStep, QuietStep DEF IInv, Shape
<1>3. AttemptsLeft'
  BY AttemptsStep DEF IInv
<1>4. DeletesAcknowledged' /\ LandedIsAcknowledged'
  BY AcksStep DEF IInv, Shape, Acknowledged
<1>5. OnePassPerPage'
  BY OnePassStep DEF IInv
<1> QED  BY <1>1, <1>2, <1>3, <1>4, <1>5 DEF IInv

LEMMA Inductive == Spec => []IInv
<1>1. IInv /\ [Next]_vars => IInv'
  BY InductiveStep
<1> QED  BY Initially, <1>1, PTL DEF Spec

-----------------------------------------------------------------------------
(* The steps no drain takes *)

GhostFree ==
  \A i \in RowIds : i < nextId /\ store[i] = NoRow => store'[i] = NoRow

LEMMA GhostStep ==
  ASSUME TypeOK, [Next]_vars PROVE GhostFree
<1> USE DEF dbVars, pageVars, drainVars, workerVars, history
<1>1. ASSUME NEW t \in Tabs, EnqueueMinted(t) PROVE GhostFree
  BY <1>1, BoundsFacts DEF EnqueueMinted, GhostFree, TypeOK, RowIds
<1>2. ASSUME NEW t \in Tabs, NEW k \in Tracked, EnqueueLook(t, k) PROVE GhostFree
  BY <1>2 DEF EnqueueLook, GhostFree
<1>3. ASSUME NEW t \in Tabs, EnqueuePut(t) PROVE GhostFree
  BY <1>3, BoundsFacts DEF EnqueuePut, GhostFree, TypeOK, RowIds
<1>4. ASSUME NEW t \in Tabs, NEW k \in Tracked, Discard(t, k) PROVE GhostFree
  BY <1>4 DEF Discard, GhostFree, Deleted, TypeOK
<1>5. ASSUME NEW t \in Tabs, ReadNoticesAndPrune(t) PROVE GhostFree
  BY <1>5 DEF ReadNoticesAndPrune, GhostFree
<1>6. ASSUME NEW t \in Tabs, ReconcileCompare(t) PROVE GhostFree
  BY <1>6 DEF ReconcileCompare, GhostFree
<1>7. ASSUME NEW t \in Tabs, ReconcileClear(t) PROVE GhostFree
  BY <1>7 DEF ReconcileClear, GhostFree, Deleted, TypeOK
<1>8. ASSUME NEW t \in Tabs, ReconcilePersist(t) PROVE GhostFree
  BY <1>8 DEF ReconcilePersist, GhostFree
<1>9. ASSUME NEW d \in Passes, StartDrain(d) PROVE GhostFree
  BY <1>9 DEF StartDrain, GhostFree
<1>10. ASSUME NEW d \in Passes, EndDrain(d) PROVE GhostFree
  BY <1>10 DEF EndDrain, GhostFree
<1>11. ASSUME NEW d \in Passes, NEW i \in RowIds, DiscardMismatch(d, i) PROVE GhostFree
  BY <1>11 DEF DiscardMismatch, GhostFree, Deleted, TypeOK
<1>12. ASSUME NEW d \in Passes, NEW i \in RowIds, Send(d, i) PROVE GhostFree
  BY <1>12 DEF Send, SendTo, GhostFree
<1>13. ASSUME SyncFires PROVE GhostFree
  BY <1>13 DEF SyncFires, GhostFree
<1>14. ASSUME WorkerReadRows PROVE GhostFree
  BY <1>14 DEF WorkerReadRows, GhostFree
<1>15. ASSUME WorkerReadPrincipal PROVE GhostFree
  BY <1>15 DEF WorkerReadPrincipal, GhostFree
<1>16. ASSUME WorkerNotice PROVE GhostFree
  BY <1>16 DEF WorkerNotice, GhostFree
<1>17. ASSUME WorkerEnd PROVE GhostFree
  BY <1>17 DEF WorkerEnd, GhostFree
<1>18. ASSUME NEW i \in RowIds, WorkerDiscard(i) PROVE GhostFree
  BY <1>18 DEF WorkerDiscard, GhostFree, Deleted, TypeOK
<1>19. ASSUME NEW i \in RowIds, WorkerSkip(i) PROVE GhostFree
  BY <1>19 DEF WorkerSkip, GhostFree
<1>20. ASSUME NEW i \in RowIds, WorkerSend(i) PROVE GhostFree
  BY <1>20 DEF WorkerSend, SendTo, GhostFree
<1>21. ASSUME NEW d \in Drainers, PutAck(d) PROVE GhostFree
  BY <1>21 DEF PutAck, GhostFree
<1>22. ASSUME NEW d \in Drainers, DeleteReplayed(d) PROVE GhostFree
  BY <1>22 DEF DeleteReplayed, GhostFree, Deleted, TypeOK
<1>23. ASSUME NEW d \in Drainers, CheckAck(d) PROVE GhostFree
  BY <1>23 DEF CheckAck, GhostFree
<1>24. ASSUME NEW d \in Drainers, WriteBack(d) PROVE GhostFree
  BY <1>24 DEF WriteBack, GhostFree, TypeOK
<1>25. ASSUME NEW d \in Drainers, NEW r \in Responses, Answer(d, r) PROVE GhostFree
  BY <1>25 DEF Answer, GhostFree
<1>26. ASSUME NEW i \in RowIds, BackoffElapses(i) PROVE GhostFree
  BY <1>26, BoundsFacts DEF BackoffElapses, GhostFree, TypeOK, RowIds
<1>27. ASSUME NEW t \in Tabs, LoadPage(t) PROVE GhostFree
  BY <1>27 DEF LoadPage, GhostFree
<1>28. ASSUME NEW t \in Tabs, CloseTab(t) PROVE GhostFree
  BY <1>28 DEF CloseTab, GhostFree
<1>29. ASSUME KillWorker PROVE GhostFree
  BY <1>29 DEF KillWorker, GhostFree
<1>30. ASSUME ConnectivityChanges PROVE GhostFree
  BY <1>30 DEF ConnectivityChanges, GhostFree
<1>31. ASSUME NEW p \in Principals, SignIn(p) PROVE GhostFree
  BY <1>31 DEF SignIn, GhostFree
<1>32. CASE UNCHANGED vars
  BY <1>32 DEF vars, GhostFree
<1> QED
  BY <1>1, <1>2, <1>3, <1>4, <1>5, <1>6, <1>7, <1>8, <1>9, <1>10, <1>11, <1>12, <1>13, <1>14, <1>15, <1>16, <1>17, <1>18, <1>19, <1>20, <1>21, <1>22, <1>23, <1>24, <1>25, <1>26, <1>27, <1>28, <1>29, <1>30, <1>31, <1>32
  DEF Next, Local, Environment, Enqueue, Reconcile, PagePass, WorkerPass, Post,
      Settle, Receive, Drainers

ReportsWhatItWrote ==
  \A i \in reported' \ reported : store[i] # NoRow /\ store'[i].status = "failed"

LEMMA ReportStep ==
  ASSUME TypeOK, HoldsItsRow, [Next]_vars PROVE ReportsWhatItWrote
<1> USE DEF dbVars, pageVars, drainVars, workerVars, history
<1>1. ASSUME NEW t \in Tabs, EnqueueMinted(t) PROVE ReportsWhatItWrote
  BY <1>1 DEF EnqueueMinted, ReportsWhatItWrote
<1>2. ASSUME NEW t \in Tabs, NEW k \in Tracked, EnqueueLook(t, k) PROVE ReportsWhatItWrote
  BY <1>2 DEF EnqueueLook, ReportsWhatItWrote
<1>3. ASSUME NEW t \in Tabs, EnqueuePut(t) PROVE ReportsWhatItWrote
  BY <1>3 DEF EnqueuePut, ReportsWhatItWrote
<1>4. ASSUME NEW t \in Tabs, NEW k \in Tracked, Discard(t, k) PROVE ReportsWhatItWrote
  BY <1>4 DEF Discard, ReportsWhatItWrote
<1>5. ASSUME NEW t \in Tabs, ReadNoticesAndPrune(t) PROVE ReportsWhatItWrote
  BY <1>5 DEF ReadNoticesAndPrune, ReportsWhatItWrote
<1>6. ASSUME NEW t \in Tabs, ReconcileCompare(t) PROVE ReportsWhatItWrote
  BY <1>6 DEF ReconcileCompare, ReportsWhatItWrote
<1>7. ASSUME NEW t \in Tabs, ReconcileClear(t) PROVE ReportsWhatItWrote
  BY <1>7 DEF ReconcileClear, ReportsWhatItWrote
<1>8. ASSUME NEW t \in Tabs, ReconcilePersist(t) PROVE ReportsWhatItWrote
  BY <1>8 DEF ReconcilePersist, ReportsWhatItWrote
<1>9. ASSUME NEW d \in Passes, StartDrain(d) PROVE ReportsWhatItWrote
  BY <1>9 DEF StartDrain, ReportsWhatItWrote
<1>10. ASSUME NEW d \in Passes, EndDrain(d) PROVE ReportsWhatItWrote
  BY <1>10 DEF EndDrain, ReportsWhatItWrote
<1>11. ASSUME NEW d \in Passes, NEW i \in RowIds, DiscardMismatch(d, i) PROVE ReportsWhatItWrote
  BY <1>11 DEF DiscardMismatch, ReportsWhatItWrote
<1>12. ASSUME NEW d \in Passes, NEW i \in RowIds, Send(d, i) PROVE ReportsWhatItWrote
  BY <1>12 DEF Send, SendTo, ReportsWhatItWrote
<1>13. ASSUME SyncFires PROVE ReportsWhatItWrote
  BY <1>13 DEF SyncFires, ReportsWhatItWrote
<1>14. ASSUME WorkerReadRows PROVE ReportsWhatItWrote
  BY <1>14 DEF WorkerReadRows, ReportsWhatItWrote
<1>15. ASSUME WorkerReadPrincipal PROVE ReportsWhatItWrote
  BY <1>15 DEF WorkerReadPrincipal, ReportsWhatItWrote
<1>16. ASSUME WorkerNotice PROVE ReportsWhatItWrote
  BY <1>16 DEF WorkerNotice, ReportsWhatItWrote
<1>17. ASSUME WorkerEnd PROVE ReportsWhatItWrote
  BY <1>17 DEF WorkerEnd, ReportsWhatItWrote
<1>18. ASSUME NEW i \in RowIds, WorkerDiscard(i) PROVE ReportsWhatItWrote
  BY <1>18 DEF WorkerDiscard, ReportsWhatItWrote
<1>19. ASSUME NEW i \in RowIds, WorkerSkip(i) PROVE ReportsWhatItWrote
  BY <1>19 DEF WorkerSkip, ReportsWhatItWrote
<1>20. ASSUME NEW i \in RowIds, WorkerSend(i) PROVE ReportsWhatItWrote
  BY <1>20 DEF WorkerSend, SendTo, ReportsWhatItWrote
<1>21. ASSUME NEW d \in Drainers, PutAck(d) PROVE ReportsWhatItWrote
  BY <1>21 DEF PutAck, ReportsWhatItWrote
<1>22. ASSUME NEW d \in Drainers, DeleteReplayed(d) PROVE ReportsWhatItWrote
  BY <1>22 DEF DeleteReplayed, ReportsWhatItWrote
<1>23. ASSUME NEW d \in Drainers, CheckAck(d) PROVE ReportsWhatItWrote
  BY <1>23 DEF CheckAck, ReportsWhatItWrote
<1>24. ASSUME NEW d \in Drainers, WriteBack(d) PROVE ReportsWhatItWrote
  BY <1>24 DEF WriteBack, ReportsWhatItWrote, TypeOK, HoldsItsRow, Busy
<1>25. ASSUME NEW d \in Drainers, NEW r \in Responses, Answer(d, r) PROVE ReportsWhatItWrote
  BY <1>25 DEF Answer, ReportsWhatItWrote
<1>26. ASSUME NEW i \in RowIds, BackoffElapses(i) PROVE ReportsWhatItWrote
  BY <1>26 DEF BackoffElapses, ReportsWhatItWrote
<1>27. ASSUME NEW t \in Tabs, LoadPage(t) PROVE ReportsWhatItWrote
  BY <1>27 DEF LoadPage, ReportsWhatItWrote
<1>28. ASSUME NEW t \in Tabs, CloseTab(t) PROVE ReportsWhatItWrote
  BY <1>28 DEF CloseTab, ReportsWhatItWrote
<1>29. ASSUME KillWorker PROVE ReportsWhatItWrote
  BY <1>29 DEF KillWorker, ReportsWhatItWrote
<1>30. ASSUME ConnectivityChanges PROVE ReportsWhatItWrote
  BY <1>30 DEF ConnectivityChanges, ReportsWhatItWrote
<1>31. ASSUME NEW p \in Principals, SignIn(p) PROVE ReportsWhatItWrote
  BY <1>31 DEF SignIn, ReportsWhatItWrote
<1>32. CASE UNCHANGED vars
  BY <1>32 DEF vars, ReportsWhatItWrote
<1> QED
  BY <1>1, <1>2, <1>3, <1>4, <1>5, <1>6, <1>7, <1>8, <1>9, <1>10, <1>11, <1>12, <1>13, <1>14, <1>15, <1>16, <1>17, <1>18, <1>19, <1>20, <1>21, <1>22, <1>23, <1>24, <1>25, <1>26, <1>27, <1>28, <1>29, <1>30, <1>31, <1>32
  DEF Next, Local, Environment, Enqueue, Reconcile, PagePass, WorkerPass, Post,
      Settle, Receive, Drainers

-----------------------------------------------------------------------------
(* What a step may do to the rows, to the copies and to a reconcile *)

\* The store is left alone, gains a row of an open page's account under a new
\* id, loses rows, or has one row written back or come out of backoff.
StoreMoves ==
  \/ UNCHANGED <<store, nextId>>
  \/ \E t \in Tabs, k \in Keys :
       /\ page[t] # Closed
       /\ nextId \in RowIds /\ nextId' = nextId + 1
       /\ store' = [store EXCEPT ![nextId] = NewRow(k, page[t])]
       /\ UNCHANGED page
  \/ \E ids \in SUBSET RowIds : store' = Deleted(ids) /\ nextId' = nextId
  \/ \E d \in Drainers : WriteBack(d)
  \/ \E i \in RowIds : BackoffElapses(i)

\* A drain takes its copies from the store, and one that is not at work has or
\* gets none.
DrainMoves ==
  \A d \in Drainers :
    /\ \A i \in RowIds : batch'[d][i] # NoRow =>
         \/ batch'[d][i] = batch[d][i]
         \/ batch'[d][i] = store[i] /\ UNCHANGED <<store, nextId>>
    /\ pc'[d] \in {"idle", "awake"} =>
         \/ batch'[d] = NoBatch
         \/ pc[d] \in {"idle", "awake"} /\ batch'[d] = batch[d]

\* A page about to store its account has just cleared the queue.
ClearMoves ==
  \A t \in Tabs : rec'[t] = "persist" =>
    /\ page'[t] = page[t]
    /\ rec[t] = "persist" \/ (rec[t] = "clear" /\ store' = Deleted(RowIds))

Moves == StoreMoves /\ DrainMoves /\ ClearMoves

LEMMA StillRows == ASSUME UNCHANGED <<store, nextId>> PROVE StoreMoves
  BY DEF StoreMoves

LEMMA StillTabs == ASSUME UNCHANGED <<page, rec>> PROVE ClearMoves
  BY DEF ClearMoves

LEMMA StillDrains == ASSUME UNCHANGED <<pc, batch>> PROVE DrainMoves
  BY DEF DrainMoves

LEMMA NewRowMoves ==
  ASSUME TypeOK, NEW t \in Tabs, NEW k, k = nextId \/ k \in Tracked,
         page[t] # Closed, nextId <= MaxRows, UNCHANGED page,
         store' = [store EXCEPT ![nextId] = NewRow(k, page[t])], nextId' = nextId + 1
  PROVE  StoreMoves
<1>1. nextId \in RowIds /\ k \in Keys
  BY BoundsFacts DEF TypeOK, RowIds, Keys
<1> QED  BY <1>1 DEF StoreMoves

LEMMA DeletedMoves ==
  ASSUME NEW ids \in SUBSET RowIds, store' = Deleted(ids), UNCHANGED nextId
  PROVE  StoreMoves
  BY DEF StoreMoves

LEMMA NextRowMoves ==
  ASSUME TypeOK, NEW d \in Drainers, NEW i \in RowIds, NextRow(d, i)
  PROVE  DrainMoves
  BY DEF NextRow, DrainMoves, TypeOK

LEMMA ForgetMoves ==
  ASSUME TypeOK, NEW ds \in SUBSET Drainers, Forget(ds)
  PROVE  DrainMoves
  BY DEF Forget, DrainMoves, TypeOK, NoBatch

LEMMA MovesStep ==
  ASSUME TypeOK, Shape, [Next]_vars PROVE Moves
<1> USE DEF Moves, Shape, dbVars, pageVars, drainVars, workerVars, history
<1>1. ASSUME NEW t \in Tabs, EnqueueMinted(t) PROVE Moves
  BY <1>1, StillTabs, StillDrains, NewRowMoves DEF EnqueueMinted
<1>2. ASSUME NEW t \in Tabs, NEW k \in Tracked, EnqueueLook(t, k) PROVE Moves
  BY <1>2, StillRows, StillTabs, StillDrains DEF EnqueueLook
<1>3. ASSUME NEW t \in Tabs, EnqueuePut(t) PROVE Moves
  BY <1>3, StillTabs, StillDrains, NewRowMoves DEF EnqueuePut, ClosedIsQuiet, Keys, TypeOK
<1>4. ASSUME NEW t \in Tabs, NEW k \in Tracked, Discard(t, k) PROVE Moves
  BY <1>4, StillTabs, StillDrains, DeletedMoves DEF Discard
<1>5. ASSUME NEW t \in Tabs, ReadNoticesAndPrune(t) PROVE Moves
  BY <1>5, StillRows, StillDrains DEF ReadNoticesAndPrune, ClearMoves, TypeOK
<1>6. ASSUME NEW t \in Tabs, ReconcileCompare(t) PROVE Moves
  BY <1>6, StillRows, StillDrains DEF ReconcileCompare, ClearMoves, TypeOK
<1>7. ASSUME NEW t \in Tabs, ReconcileClear(t) PROVE Moves
  BY <1>7, StillDrains, DeletedMoves DEF ReconcileClear, ClearMoves, TypeOK
<1>8. ASSUME NEW t \in Tabs, ReconcilePersist(t) PROVE Moves
  BY <1>8, StillRows, StillDrains DEF ReconcilePersist, ClearMoves, TypeOK
<1>9. ASSUME NEW d \in Passes, StartDrain(d) PROVE Moves
  BY <1>9, StillRows, StillTabs, BoundsFacts DEF StartDrain, SelectDrainBatch, DrainMoves, TypeOK
<1>10. ASSUME NEW d \in Passes, EndDrain(d) PROVE Moves
  BY <1>10, StillRows, StillTabs, ForgetMoves, BoundsFacts DEF EndDrain
<1>11. ASSUME NEW d \in Passes, NEW i \in RowIds, DiscardMismatch(d, i) PROVE Moves
  BY <1>11, StillTabs, DeletedMoves, NextRowMoves, BoundsFacts DEF DiscardMismatch
<1>12. ASSUME NEW d \in Passes, NEW i \in RowIds, Send(d, i) PROVE Moves
  BY <1>12, StillRows, StillTabs, BoundsFacts DEF Send, SendTo, DrainMoves, TypeOK
<1>13. ASSUME SyncFires PROVE Moves
  BY <1>13, StillRows, StillTabs, BoundsFacts DEF SyncFires, DrainMoves, TypeOK
<1>14. ASSUME WorkerReadRows PROVE Moves
  BY <1>14, StillRows, StillTabs, BoundsFacts DEF WorkerReadRows, DrainMoves, TypeOK
<1>15. ASSUME WorkerReadPrincipal PROVE Moves
  BY <1>15, StillRows, StillTabs, BoundsFacts DEF WorkerReadPrincipal, DrainMoves, TypeOK
<1>16. ASSUME WorkerNotice PROVE Moves
  BY <1>16, StillRows, StillTabs, NextRowMoves, BoundsFacts DEF WorkerNotice, HoldsItsRow
<1>17. ASSUME WorkerEnd PROVE Moves
  BY <1>17, StillRows, StillTabs, ForgetMoves, BoundsFacts DEF WorkerEnd
<1>18. ASSUME NEW i \in RowIds, WorkerDiscard(i) PROVE Moves
  <2>1. StoreMoves /\ ClearMoves
    BY <1>18, StillTabs, DeletedMoves DEF WorkerDiscard
  <2>2. CASE batch[Worker][i].key \in Tracked
    BY <1>18, <2>1, <2>2, BoundsFacts DEF WorkerDiscard, DrainMoves, TypeOK
  <2>3. CASE batch[Worker][i].key \notin Tracked
    BY <1>18, <2>1, <2>3, NextRowMoves, BoundsFacts DEF WorkerDiscard
  <2> QED  BY <2>2, <2>3
<1>19. ASSUME NEW i \in RowIds, WorkerSkip(i) PROVE Moves
  BY <1>19, StillRows, StillTabs, NextRowMoves, BoundsFacts DEF WorkerSkip
<1>20. ASSUME NEW i \in RowIds, WorkerSend(i) PROVE Moves
  BY <1>20, StillRows, StillTabs, BoundsFacts DEF WorkerSend, SendTo, DrainMoves, TypeOK
<1>21. ASSUME NEW d \in Drainers, PutAck(d) PROVE Moves
  BY <1>21, StillRows, StillTabs, BoundsFacts DEF PutAck, DrainMoves, TypeOK
<1>22. ASSUME NEW d \in Drainers, DeleteReplayed(d) PROVE Moves
  BY <1>22, StillTabs, DeletedMoves, NextRowMoves DEF DeleteReplayed, HoldsItsRow, Busy
<1>23. ASSUME NEW d \in Drainers, CheckAck(d) PROVE Moves
  <2>1. StoreMoves /\ ClearMoves
    BY <1>23, StillRows, StillTabs DEF CheckAck
  <2>2. CASE batch[d][cur[d]].key \in acks
    BY <1>23, <2>1, <2>2, NextRowMoves DEF CheckAck, HoldsItsRow, Busy
  <2>3. CASE batch[d][cur[d]].key \notin acks
    BY <1>23, <2>1, <2>3, BoundsFacts DEF CheckAck, DrainMoves, TypeOK
  <2> QED  BY <2>2, <2>3
<1>24. ASSUME NEW d \in Drainers, WriteBack(d) PROVE Moves
  BY <1>24, StillTabs, NextRowMoves DEF WriteBack, HoldsItsRow, Busy, StoreMoves
<1>25. ASSUME NEW d \in Drainers, NEW r \in Responses, Answer(d, r) PROVE Moves
  BY <1>25, StillRows, StillTabs, BoundsFacts DEF Answer, DrainMoves, TypeOK
<1>26. ASSUME NEW i \in RowIds, BackoffElapses(i) PROVE Moves
  BY <1>26, StillTabs, StillDrains DEF BackoffElapses, StoreMoves
<1>27. ASSUME NEW t \in Tabs, LoadPage(t) PROVE Moves
  BY <1>27, StillRows, StillDrains DEF LoadPage, ClearMoves, TypeOK
<1>28. ASSUME NEW t \in Tabs, CloseTab(t) PROVE Moves
  BY <1>28, StillRows, ForgetMoves, BoundsFacts DEF CloseTab, ClearMoves, TypeOK
<1>29. ASSUME KillWorker PROVE Moves
  BY <1>29, StillRows, StillTabs, ForgetMoves, BoundsFacts DEF KillWorker
<1>30. ASSUME ConnectivityChanges PROVE Moves
  BY <1>30, StillRows, StillTabs, StillDrains DEF ConnectivityChanges
<1>31. ASSUME NEW p \in Principals, SignIn(p) PROVE Moves
  BY <1>31, StillRows, StillTabs, StillDrains DEF SignIn
<1>32. CASE UNCHANGED vars
  BY <1>32, StillRows, StillTabs, StillDrains DEF vars
<1> QED
  BY <1>1, <1>2, <1>3, <1>4, <1>5, <1>6, <1>7, <1>8, <1>9, <1>10, <1>11,
     <1>12, <1>13, <1>14, <1>15, <1>16, <1>17, <1>18, <1>19, <1>20, <1>21,
     <1>22, <1>23, <1>24, <1>25, <1>26, <1>27, <1>28, <1>29, <1>30, <1>31,
     <1>32
  DEF Next, Local, Environment, Enqueue, Reconcile, PagePass, WorkerPass, Post,
      Settle, Receive, Drainers

-----------------------------------------------------------------------------
(* Copies *)

\* Two versions of one row.
SameRow(r, q) == r.key = q.key /\ r.principal = q.principal

\* An id names one row for ever: whatever a drain still holds under it is a
\* version of the row the store has there, and no id to come is in use.
CopiesAreOfTheirRow ==
  /\ \A i \in RowIds : store[i] # NoRow => i < nextId
  /\ \A d \in Drainers, i \in RowIds : batch[d][i] # NoRow =>
       i < nextId /\ (store[i] # NoRow => SameRow(batch[d][i], store[i]))

LEMMA NextRowStateSame ==
  ASSUME NEW r \in StoredRow, NEW o
  PROVE  /\ SameRow(NextRowState(r, o), r)
         /\ NextRowState(r, o).attempts = r.attempts + 1
  BY DEF NextRowState, SameRow, StoredRow

\* What a write-back leaves in the store.
LEMMA WriteBackLeaves ==
  ASSUME TypeOK, HoldsItsRow, NEW d \in Drainers, WriteBack(d)
  PROVE  /\ cur[d] \in RowIds
         /\ batch[d][cur[d]] \in StoredRow /\ batch[d][cur[d]].status # "failed"
         /\ \A i \in RowIds \ {cur[d]} : store'[i] = store[i]
         /\ store[cur[d]] = NoRow => store'[cur[d]] = NoRow
         /\ store[cur[d]] # NoRow =>
              store'[cur[d]] = NextRowState(batch[d][cur[d]], verdict[d])
         /\ nextId' = nextId
         /\ batch' = [batch EXCEPT ![d][cur[d]] = NoRow]
<1>1. cur[d] \in RowIds /\ batch[d][cur[d]] # NoRow /\ batch[d][cur[d]].status # "failed"
  BY DEF WriteBack, HoldsItsRow, Busy
<1>2. batch[d][cur[d]] \in StoredRow
  BY <1>1 DEF TypeOK
<1>3. store[cur[d]] = NoRow => store' = store
  BY DEF WriteBack
<1>4. store[cur[d]] # NoRow =>
        store' = [store EXCEPT ![cur[d]] = NextRowState(batch[d][cur[d]], verdict[d])]
  BY DEF WriteBack
<1>5. nextId' = nextId /\ batch' = [batch EXCEPT ![d][cur[d]] = NoRow]
  BY DEF WriteBack, NextRow
<1>6. store \in [RowIds -> StoredRow \cup {NoRow}]
  BY DEF TypeOK
<1> QED  BY <1>1, <1>2, <1>3, <1>4, <1>5, <1>6

\* Each row of the store was there, as a version of itself, or is the new one.
RowsStay ==
  /\ nextId' \in Nat /\ nextId' >= nextId
  /\ \A i \in RowIds : store'[i] # NoRow =>
       \/ store[i] # NoRow /\ SameRow(store'[i], store[i])
       \/ i = nextId /\ nextId' = nextId + 1

LEMMA StoreKeepsRows ==
  ASSUME TypeOK, Shape, CopiesAreOfTheirRow, StoreMoves
  PROVE  RowsStay
<1>1. nextId \in Nat /\ store \in [RowIds -> StoredRow \cup {NoRow}]
  BY BoundsFacts DEF TypeOK
<1>2. CASE UNCHANGED <<store, nextId>>
  BY <1>1, <1>2 DEF RowsStay, SameRow
<1>3. ASSUME NEW t \in Tabs, NEW k \in Keys, nextId \in RowIds, nextId' = nextId + 1,
             store' = [store EXCEPT ![nextId] = NewRow(k, page[t])]
      PROVE  RowsStay
  BY <1>1, <1>3 DEF RowsStay, SameRow
<1>4. ASSUME NEW ids \in SUBSET RowIds, store' = Deleted(ids), nextId' = nextId
      PROVE  RowsStay
  BY <1>1, <1>4 DEF RowsStay, SameRow, Deleted
<1>5. ASSUME NEW d \in Drainers, WriteBack(d) PROVE RowsStay
  <2>1. store[cur[d]] # NoRow => SameRow(batch[d][cur[d]], store[cur[d]])
    BY <1>5, WriteBackLeaves, NoRowAssumption DEF CopiesAreOfTheirRow, Shape
  <2>2. store[cur[d]] # NoRow => SameRow(store'[cur[d]], store[cur[d]])
    BY <1>5, <2>1, WriteBackLeaves, NextRowStateSame DEF Shape, SameRow
  <2> QED  BY <1>1, <1>5, <2>2, WriteBackLeaves DEF RowsStay, Shape, SameRow
<1>6. ASSUME NEW i \in RowIds, BackoffElapses(i) PROVE RowsStay
  <2>1. /\ nextId' = nextId /\ store[i] \in StoredRow
        /\ store' = [store EXCEPT ![i] = [store[i] EXCEPT !.wait = "due"]]
    BY <1>1, <1>6 DEF BackoffElapses
  <2>2. SameRow([store[i] EXCEPT !.wait = "due"], store[i])
    BY <2>1 DEF SameRow, StoredRow
  <2> QED  BY <1>1, <2>1, <2>2, NoRowAssumption DEF RowsStay, SameRow
<1> QED  BY <1>2, <1>3, <1>4, <1>5, <1>6 DEF StoreMoves

LEMMA CopiesStep ==
  ASSUME TypeOK, Shape, CopiesAreOfTheirRow, Moves
  PROVE  CopiesAreOfTheirRow'
<1>1. nextId \in Nat /\ RowIds \subseteq Nat
  BY BoundsFacts DEF TypeOK
<1>2. RowsStay
  BY StoreKeepsRows DEF Moves
<1>3. ASSUME NEW i \in RowIds, store'[i] # NoRow PROVE i < nextId'
  <2>1. i \in Nat /\ nextId' \in Nat /\ nextId' >= nextId
    BY <1>1, <1>2 DEF RowsStay
  <2>2. i < nextId \/ (i = nextId /\ nextId' = nextId + 1)
    BY <1>2, <1>3 DEF RowsStay, CopiesAreOfTheirRow
  <2> QED  BY <1>1, <2>1, <2>2
<1>4. ASSUME NEW d \in Drainers, NEW i \in RowIds, batch'[d][i] # NoRow
      PROVE  i < nextId' /\ (store'[i] # NoRow => SameRow(batch'[d][i], store'[i]))
  <2>1. CASE batch'[d][i] = batch[d][i]
    BY <1>1, <1>2, <1>4, <2>1 DEF RowsStay, CopiesAreOfTheirRow, SameRow
  <2>2. CASE batch'[d][i] = store[i] /\ UNCHANGED <<store, nextId>>
    BY <1>4, <2>2 DEF CopiesAreOfTheirRow, SameRow
  <2> QED  BY <1>4, <2>1, <2>2 DEF Moves, DrainMoves
<1> QED  BY <1>3, <1>4 DEF CopiesAreOfTheirRow

-----------------------------------------------------------------------------
(* What a reconcile cleared *)

\* A page about to store its account finds rows of that account only.
ClearedForPage ==
  \A t \in Tabs : rec[t] = "persist" =>
    \A i \in RowIds : store[i] # NoRow => store[i].principal = page[t]

ClearedInv == IInv /\ CopiesAreOfTheirRow /\ ClearedForPage

LEMMA ClearedStep ==
  ASSUME ClearedInv, OneAccountOpen, Moves
  PROVE  ClearedForPage'
<1> SUFFICES ASSUME NEW t \in Tabs, rec'[t] = "persist",
                    NEW i \in RowIds, store'[i] # NoRow
             PROVE  store'[i].principal = page'[t]
  BY DEF ClearedForPage
<1>1. /\ page'[t] = page[t] /\ page[t] # Closed
      /\ rec[t] = "persist" \/ (rec[t] = "clear" /\ store' = Deleted(RowIds))
  BY DEF Moves, ClearMoves, ClearedInv, IInv, Shape, ClosedIsQuiet
<1>2. rec[t] = "persist"
  BY <1>1 DEF Deleted
<1>3. CASE store[i] # NoRow /\ SameRow(store'[i], store[i])
  BY <1>1, <1>2, <1>3 DEF ClearedInv, ClearedForPage, SameRow
<1>4. CASE i = nextId /\ nextId' = nextId + 1
  <2>1. /\ nextId \in Nat /\ store \in [RowIds -> StoredRow \cup {NoRow}]
        /\ store[i] = NoRow
    BY <1>4, BoundsFacts DEF ClearedInv, IInv, TypeOK, CopiesAreOfTheirRow
  <2>2. nextId' # nextId
    BY <1>4, <2>1
  <2>3. PICK u \in Tabs, k \in Keys :
          page[u] # Closed /\ store' = [store EXCEPT ![nextId] = NewRow(k, page[u])]
    <3>1. ASSUME NEW d \in Drainers, WriteBack(d) PROVE FALSE
      BY <2>2, <3>1 DEF WriteBack
    <3>2. ASSUME NEW j \in RowIds, BackoffElapses(j) PROVE FALSE
      BY <2>2, <3>2 DEF BackoffElapses
    <3> QED  BY <2>2, <3>1, <3>2 DEF Moves, StoreMoves
  <2>4. store'[i].principal = page[u]
    BY <1>4, <2>1, <2>3 DEF NewRow
  <2> QED  BY <1>1, <2>3, <2>4 DEF OneAccountOpen
<1>5. RowsStay
  BY StoreKeepsRows DEF Moves, ClearedInv, IInv
<1> QED  BY <1>3, <1>4, <1>5 DEF RowsStay

LEMMA ClearedInit == Init => ClearedInv
  BY Initially DEF Init, ClearedInv, CopiesAreOfTheirRow, ClearedForPage, NoBatch

LEMMA ClearedNext == ClearedInv /\ OneAccountOpen /\ [Next]_vars => ClearedInv'
<1> SUFFICES ASSUME ClearedInv, OneAccountOpen, [Next]_vars PROVE ClearedInv'
  OBVIOUS
<1>1. Moves
  BY MovesStep DEF ClearedInv, IInv
<1>2. IInv' /\ CopiesAreOfTheirRow'
  BY <1>1, InductiveStep, CopiesStep DEF ClearedInv, IInv
<1> QED  BY <1>1, <1>2, ClearedStep DEF ClearedInv

-----------------------------------------------------------------------------
(* One drain at a time *)

\* A drain that is not at work holds nothing.
IdleHoldsNothing ==
  \A d \in Drainers : pc[d] \in {"idle", "awake"} => batch[d] = NoBatch

\* A copy is behind its row in nothing but the backoff.
CopiesAreCurrent ==
  \A d \in Drainers, i \in RowIds : batch[d][i] # NoRow /\ store[i] # NoRow =>
    batch[d][i].attempts = store[i].attempts /\ batch[d][i].status = store[i].status

DrainInv == IInv /\ CopiesAreOfTheirRow /\ IdleHoldsNothing /\ CopiesAreCurrent

LEMMA IdleStep ==
  ASSUME IdleHoldsNothing, Moves PROVE IdleHoldsNothing'
  BY DEF IdleHoldsNothing, Moves, DrainMoves

LEMMA CurrentStep ==
  ASSUME DrainInv, OneDrain, Moves PROVE CopiesAreCurrent'
<1> SUFFICES ASSUME NEW d \in Drainers, NEW i \in RowIds,
                    batch'[d][i] # NoRow, store'[i] # NoRow
             PROVE  /\ batch'[d][i].attempts = store'[i].attempts
                    /\ batch'[d][i].status = store'[i].status
  BY DEF CopiesAreCurrent
<1> DEFINE Kept == /\ store[i] # NoRow /\ store'[i].attempts = store[i].attempts
                   /\ store'[i].status = store[i].status
<1>1. /\ TypeOK /\ Shape /\ nextId \in Nat
      /\ store \in [RowIds -> StoredRow \cup {NoRow}]
  BY BoundsFacts DEF DrainInv, IInv, TypeOK
<1>2. CASE batch'[d][i] = store[i] /\ UNCHANGED <<store, nextId>>
  BY <1>2
<1>3. CASE batch'[d][i] = batch[d][i]
  <2>1. i < nextId /\ i \in Nat
    BY <1>3, BoundsFacts DEF DrainInv, CopiesAreOfTheirRow
  <2>2. Kept => batch'[d][i].attempts = store'[i].attempts
                /\ batch'[d][i].status = store'[i].status
    BY <1>3 DEF DrainInv, CopiesAreCurrent
  <2>3. CASE UNCHANGED <<store, nextId>>
    BY <2>2, <2>3
  <2>4. ASSUME NEW t \in Tabs, NEW k \in Keys,
               store' = [store EXCEPT ![nextId] = NewRow(k, page[t])]
        PROVE  Kept
    BY <1>1, <2>1, <2>4
  <2>5. ASSUME NEW ids \in SUBSET RowIds, store' = Deleted(ids) PROVE Kept
    BY <2>5 DEF Deleted
  <2>6. ASSUME NEW e \in Drainers, WriteBack(e) PROVE Kept
    <3>1. pc[e] = "write" /\ batch[e] # NoBatch
      <4>1. cur[e] \in RowIds /\ batch[e][cur[e]] # NoRow
        BY <1>1, <2>6, WriteBackLeaves, NoRowAssumption DEF Shape
      <4> QED  BY <2>6, <4>1 DEF WriteBack, NoBatch
    <3>2. pc[d] # "idle"
      BY <1>3 DEF DrainInv, IdleHoldsNothing, NoBatch
    <3>3. e = d
      BY <3>1, <3>2 DEF OneDrain
    <3>4. i # cur[e]
      BY <1>1, <2>6, <3>3, WriteBackLeaves DEF Shape, TypeOK
    <3> QED  BY <1>1, <2>6, <3>4, WriteBackLeaves DEF Shape
  <2>7. ASSUME NEW j \in RowIds, BackoffElapses(j) PROVE Kept
    BY <1>1, <2>7, NoRowAssumption DEF BackoffElapses, StoredRow
  <2> QED  BY <2>2, <2>3, <2>4, <2>5, <2>6, <2>7 DEF Moves, StoreMoves
<1> QED  BY <1>2, <1>3 DEF Moves, DrainMoves

LEMMA DrainInit == Init => DrainInv
  BY Initially DEF Init, DrainInv, CopiesAreOfTheirRow, IdleHoldsNothing, CopiesAreCurrent, NoBatch

LEMMA DrainNext == DrainInv /\ OneDrain /\ [Next]_vars => DrainInv'
<1> SUFFICES ASSUME DrainInv, OneDrain, [Next]_vars PROVE DrainInv'
  OBVIOUS
<1>1. Moves
  BY MovesStep DEF DrainInv, IInv
<1>2. IInv' /\ CopiesAreOfTheirRow'
  BY <1>1, InductiveStep, CopiesStep DEF DrainInv, IInv
<1> QED  BY <1>1, <1>2, IdleStep, CurrentStep DEF DrainInv

\* What a step does to a row that stays, when copies are current: a failed row
\* stays failed, and attempts do not go back.
KeepsFailed ==
  \A i \in RowIds :
    store[i] # NoRow /\ store'[i] # NoRow /\ store[i].status = "failed"
      => store'[i].status = "failed"

KeepsAttempts ==
  \A i \in RowIds :
    store[i] # NoRow /\ store'[i] # NoRow => store'[i].attempts >= store[i].attempts

LEMMA RowStep ==
  ASSUME DrainInv, Moves PROVE KeepsFailed /\ KeepsAttempts
<1> SUFFICES ASSUME NEW i \in RowIds, store[i] # NoRow, store'[i] # NoRow
             PROVE  /\ store[i].status = "failed" => store'[i].status = "failed"
                    /\ store'[i].attempts >= store[i].attempts
  BY DEF KeepsFailed, KeepsAttempts
<1> DEFINE Kept == /\ store'[i].attempts = store[i].attempts
                   /\ store'[i].status = store[i].status
<1>1. /\ TypeOK /\ Shape /\ nextId \in Nat /\ i \in Nat /\ i < nextId
      /\ store \in [RowIds -> StoredRow \cup {NoRow}] /\ store[i] \in StoredRow
  BY BoundsFacts DEF DrainInv, IInv, TypeOK, CopiesAreOfTheirRow
<1>2. store[i].attempts \in Nat
  BY <1>1, BoundsFacts DEF StoredRow
<1>3. CASE Kept
  BY <1>2, <1>3
<1>4. CASE UNCHANGED <<store, nextId>>
  BY <1>3, <1>4
<1>5. ASSUME NEW t \in Tabs, NEW k \in Keys,
             store' = [store EXCEPT ![nextId] = NewRow(k, page[t])]
      PROVE  Kept
  BY <1>1, <1>5
<1>6. ASSUME NEW ids \in SUBSET RowIds, store' = Deleted(ids) PROVE Kept
  BY <1>6 DEF Deleted
<1>7. ASSUME NEW d \in Drainers, WriteBack(d)
      PROVE  /\ store[i].status = "failed" => store'[i].status = "failed"
             /\ store'[i].attempts >= store[i].attempts
  <2>1. CASE i # cur[d]
    BY <1>1, <1>2, <1>7, <2>1, WriteBackLeaves DEF Shape
  <2>2. CASE i = cur[d]
    <3>1. /\ batch[d][i] \in StoredRow /\ batch[d][i].status # "failed"
          /\ store'[i] = NextRowState(batch[d][i], verdict[d])
      BY <1>1, <1>7, <2>2, WriteBackLeaves DEF Shape
    <3>2. batch[d][i].attempts = store[i].attempts /\ batch[d][i].status = store[i].status
      BY <3>1, NoRowAssumption DEF DrainInv, CopiesAreCurrent
    <3>3. store'[i].attempts = store[i].attempts + 1
      BY <3>1, <3>2, NextRowStateSame
    <3> QED  BY <1>2, <3>1, <3>2, <3>3
  <2> QED  BY <2>1, <2>2
<1>8. ASSUME NEW j \in RowIds, BackoffElapses(j) PROVE Kept
  BY <1>1, <1>8 DEF BackoffElapses, StoredRow
<1> QED  BY <1>3, <1>4, <1>5, <1>6, <1>7, <1>8 DEF Moves, StoreMoves

\* A browser without Background Sync never runs the worker's drain.
NoWorker == sync = FALSE /\ pc[Worker] = "idle"

LEMMA NoWorkerNext ==
  ASSUME SyncSupported = FALSE, TypeOK, NoWorker, [Next]_vars PROVE NoWorker'
<1> USE BoundsFacts DEF NoWorker, TypeOK, vars, dbVars, pageVars, drainVars, workerVars, history
<1>1. ASSUME NEW t \in Tabs, Enqueue(t) PROVE NoWorker'
  BY <1>1 DEF Enqueue, EnqueueMinted, EnqueuePut, EnqueueLook, RegisterBackgroundSync
<1>2. ASSUME NEW t \in Tabs, Reconcile(t) PROVE NoWorker'
  BY <1>2 DEF Reconcile, ReadNoticesAndPrune, ReconcileCompare, ReconcileClear, ReconcilePersist
<1>3. ASSUME NEW t \in Tabs, NEW k \in Tracked, Discard(t, k) PROVE NoWorker'
  BY <1>3 DEF Discard
<1>4. ASSUME NEW d \in Passes, PagePass(d) PROVE NoWorker'
  BY <1>4 DEF PagePass, StartDrain, EndDrain, DiscardMismatch, Forget, NextRow
<1>5. ASSUME SyncFires \/ WorkerPass \/ KillWorker PROVE FALSE
  BY <1>5 DEF SyncFires, WorkerPass, WorkerReadRows, WorkerReadPrincipal, WorkerNotice,
     WorkerEnd, WorkerDiscard, WorkerSkip, KillWorker
<1>6. ASSUME NEW d \in Drainers, Settle(d) PROVE NoWorker'
  BY <1>6 DEF Settle, PutAck, DeleteReplayed, CheckAck, WriteBack, NextRow
<1>7. ASSUME NEW i \in RowIds, BackoffElapses(i) PROVE NoWorker'
  BY <1>7 DEF BackoffElapses
<1>8. ASSUME NEW d \in Drainers, Post(d) PROVE NoWorker'
  BY <1>8 DEF Post, WorkerSend, Send, SendTo
<1>9. ASSUME NEW d \in Drainers, Receive(d) PROVE NoWorker'
  BY <1>9 DEF Receive, Answer
<1>10. ASSUME NEW t \in Tabs, CloseTab(t) PROVE NoWorker'
  BY <1>10 DEF CloseTab, Forget
<1>11. CASE Environment \/ UNCHANGED vars
  BY <1>11 DEF Environment, LoadPage, ConnectivityChanges, SignIn
<1> QED
  BY <1>1, <1>2, <1>3, <1>4, <1>5, <1>6, <1>7, <1>8, <1>9, <1>10, <1>11 DEF Next, Local

LEMMA LonePage ==
  ASSUME \A t, u \in Tabs : t = u, SyncSupported = FALSE
  PROVE  Spec => []OneDrain
<1>1. Init => NoWorker
  BY BoundsFacts DEF Init, NoWorker
<1>2. IInv /\ NoWorker /\ [Next]_vars => NoWorker'
  BY NoWorkerNext DEF IInv
<1>3. IInv /\ NoWorker => OneDrain
  BY TabOfAssumption DEF IInv, OnePassPerPage, NoWorker, OneDrain, Drainers
<1> QED  BY <1>1, <1>2, <1>3, Inductive, PTL DEF Spec

-----------------------------------------------------------------------------
(* The theorems *)

\* Every variable keeps its type; attempts never pass MAX_ATTEMPTS, though any
\* number of drains write rows back from stale copies.
THEOREM TypeCorrect == Spec => []TypeOK
<1>1. IInv => TypeOK
  BY DEF IInv
<1> QED  BY <1>1, Inductive, PTL

\* A replayed row with a kind is acknowledged, whichever drain replayed it and
\* whoever is pruning acknowledgements.
THEOREM LandingIsAcknowledged == Spec => []LandedIsAcknowledged
<1>1. IInv => LandedIsAcknowledged
  BY DEF IInv
<1> QED  BY <1>1, Inductive, PTL

\* No page runs two drain passes at a time.
THEOREM PagePassesAreSerial == Spec => []OnePassPerPage
<1>1. IInv => OnePassPerPage
  BY DEF IInv
<1> QED  BY <1>1, Inductive, PTL

\* What can still be retried has attempts left, in the store and in the copies.
THEOREM CeilingHolds == Spec => []AttemptsLeft
<1>1. IInv => AttemptsLeft
  BY DEF IInv
<1> QED  BY <1>1, Inductive, PTL

\* No drain re-creates a row that has gone, from however stale a copy.
THEOREM NothingIsResurrected == Spec => NoGhostRow
<1>1. IInv /\ [Next]_vars => GhostFree
  BY GhostStep DEF IInv
<1>2. IInv /\ [Next]_vars => [GhostFree]_vars
  BY <1>1
<1> QED  BY <1>2, Inductive, PTL DEF Spec, NoGhostRow, GhostFree

\* A permanent failure is reported only of a row that is there and was written.
THEOREM ReportsAreOfStoredRows == Spec => ReportedRowIsThere
<1>1. IInv /\ [Next]_vars => ReportsWhatItWrote
  BY ReportStep DEF IInv, Shape
<1>2. IInv /\ [Next]_vars => [ReportsWhatItWrote]_vars
  BY <1>1
<1> QED  BY <1>2, Inductive, PTL DEF Spec, ReportedRowIsThere, ReportsWhatItWrote

\* What a reconcile cleared stays cleared until it stores its account, however
\* many tabs and drains there are and however stale their copies, as long as
\* the open tabs serve one account.
THEOREM ClearedRowsStayAway == Spec /\ []OneAccountOpen => []ClearedStaysCleared
<1>1. ClearedInv => ClearedStaysCleared
  BY DEF ClearedInv, ClearedForPage, ClearedStaysCleared
<1> QED  BY <1>1, ClearedInit, ClearedNext, PTL DEF Spec

\* An id is never used again, and no drain's copy is ever of another row than
\* the one the store has under its id.
THEOREM CopiesKeepTheirRow == Spec => []CopiesAreOfTheirRow
<1>1. Init => CopiesAreOfTheirRow
  BY DEF Init, CopiesAreOfTheirRow, NoBatch
<1>2. IInv /\ CopiesAreOfTheirRow /\ [Next]_vars => CopiesAreOfTheirRow'
  BY MovesStep, CopiesStep DEF IInv
<1> QED  BY <1>1, <1>2, Inductive, PTL DEF Spec

LEMMA OneDrainSteps == Spec /\ []OneDrain => [][KeepsFailed /\ KeepsAttempts]_vars
<1>1. DrainInv /\ [Next]_vars => KeepsFailed /\ KeepsAttempts
  BY MovesStep, RowStep DEF DrainInv, IInv
<1>2. DrainInv /\ [Next]_vars => [KeepsFailed /\ KeepsAttempts]_vars
  BY <1>1
<1> QED  BY <1>2, DrainInit, DrainNext, PTL DEF Spec

\* While no two drains work at a time, a failed row stays failed.
THEOREM FailuresAreFinal == Spec /\ []OneDrain => FailedIsFinal
<1>1. [KeepsFailed /\ KeepsAttempts]_vars => [KeepsFailed]_vars
  OBVIOUS
<1> QED  BY <1>1, OneDrainSteps, PTL DEF FailedIsFinal, KeepsFailed

\* While no two drains work at a time, every attempt made stays counted.
THEOREM AttemptsAreCounted == Spec /\ []OneDrain => AttemptsNeverDrop
<1>1. [KeepsFailed /\ KeepsAttempts]_vars => [KeepsAttempts]_vars
  OBVIOUS
<1> QED  BY <1>1, OneDrainSteps, PTL DEF AttemptsNeverDrop, KeepsAttempts

\* One page and no Background Sync is enough for both: the in-flight guard
\* leaves no second drain, however often drain() is called.
THEOREM LonePageKeepsCount ==
  ASSUME \A t, u \in Tabs : t = u, SyncSupported = FALSE
  PROVE  Spec => FailedIsFinal /\ AttemptsNeverDrop
<1> QED  BY LonePage, FailuresAreFinal, AttemptsAreCounted, PTL
=============================================================================
