------------------------- MODULE OfflineReplayProofs ------------------------
(***************************************************************************)
(* Proofs about OfflineReplay: the queue's theorems carry over to it, its  *)
(* acknowledgements are true, and within its retention a key lands once.   *)
(***************************************************************************)
EXTENDS OfflineReplay, MutationQueueProofs

\* The key of the row a drain has turned to.
Key(d) == batch[d][cur[d]].key

\* A drain that waits has one request, for its row; a request somebody waits
\* for has a drain that does.
RequestsMatch ==
  /\ \A r \in requests : r.from # Nobody => pc[r.from] = "fetch" /\ r.key = Key(r.from)
  /\ \A q, r \in requests : q.from = r.from /\ q.from # Nobody => q = r

\* A window that shows a commit stands for one.
WindowIsTrue ==
  \A k \in Keys :
    /\ effects[k] \in {0, 1}
    /\ window[k].phase = "ok" => effects[k] = 1
    /\ window[k].phase # "free" /\ effects[k] = 1 => total[k] > 0

\* Without an excuse the window shows every commit there has been.
WindowIsAll ==
  \A k \in Keys : excuse[k] = {} =>
    /\ window[k].age = "live"
    /\ total[k] = IF window[k].phase = "free" THEN 0 ELSE effects[k]

\* A drain that was answered "success" is right.
SuccessIsTrue == \A d \in Drainers : pc[d] = "ack" => total[Key(d)] > 0

\* The server's types, with the owner a window has once it is not free.
ServerTypes ==
  /\ window \in [Keys -> Server!Window]
  /\ effects \in [Keys -> Nat]
  /\ answer \in Server!Answers \cup {NoAnswer}
  /\ \A k \in Keys : window[k].phase # "free" => window[k].owner \in Principals

\* OfflineTypeOK without the queue's TypeOK.
NetTypes ==
  /\ requests \subseteq Requests
  /\ ServerTypes
  /\ total \in [Keys -> 0..2]
  /\ excuse \in [Keys -> SUBSET {"expired", "failed"}]

\* The inductive invariant.
OInv ==
  IInv /\ NetTypes /\ RequestsMatch /\ WindowIsTrue /\ WindowIsAll /\ SuccessIsTrue
    /\ AcknowledgedHasLanded


-----------------------------------------------------------------------------
(* What the queue's steps do to the drains that wait *)

\* Apart from these drains, who waits goes on waiting for the answer to the same
\* row; nobody is told of a success; an acknowledgement is of a success.
Calm(ds) ==
  /\ \A d \in Drainers \ ds : pc[d] = "fetch" => pc'[d] = "fetch" /\ Key(d)' = Key(d)
  /\ \A d \in Drainers : pc'[d] = "ack" => pc[d] = "ack" /\ Key(d)' = Key(d)
  /\ \A k \in acks' : k \in acks \/ \E d \in Drainers : pc[d] = "ack" /\ k = Key(d)

LEMMA NextRowCalm ==
  ASSUME TypeOK, NEW d \in Drainers, NEW i \in RowIds, NextRow(d, i),
         pc[d] # "fetch", UNCHANGED acks
  PROVE  Calm({})
  BY DEF Calm, NextRow, Key, TypeOK

LEMMA ForgetCalm ==
  ASSUME TypeOK, NEW ds \in SUBSET Drainers, Forget(ds), UNCHANGED acks
  PROVE  Calm(ds)
  BY DEF Calm, Forget, Key, TypeOK

LEMMA LocalCalm == ASSUME TypeOK, Shape, Local PROVE Calm({})
<1> USE BoundsFacts DEF dbVars, pageVars, drainVars, workerVars, history
<1>1. ASSUME NEW t \in Tabs, EnqueueMinted(t) PROVE Calm({})
  BY <1>1 DEF EnqueueMinted, Calm, Key, TypeOK
<1>2. ASSUME NEW t \in Tabs, NEW k \in Tracked, EnqueueLook(t, k) PROVE Calm({})
  BY <1>2 DEF EnqueueLook, Calm, Key, TypeOK
<1>3. ASSUME NEW t \in Tabs, EnqueuePut(t) PROVE Calm({})
  BY <1>3 DEF EnqueuePut, Calm, Key, TypeOK
<1>4. ASSUME NEW t \in Tabs, NEW k \in Tracked, Discard(t, k) PROVE Calm({})
  BY <1>4 DEF Discard, Calm, Key, TypeOK
<1>5. ASSUME NEW t \in Tabs, ReadNoticesAndPrune(t) PROVE Calm({})
  BY <1>5 DEF ReadNoticesAndPrune, Calm, Key, TypeOK
<1>6. ASSUME NEW t \in Tabs, ReconcileCompare(t) PROVE Calm({})
  BY <1>6 DEF ReconcileCompare, Calm, Key, TypeOK
<1>7. ASSUME NEW t \in Tabs, ReconcileClear(t) PROVE Calm({})
  BY <1>7 DEF ReconcileClear, Calm, Key, TypeOK
<1>8. ASSUME NEW t \in Tabs, ReconcilePersist(t) PROVE Calm({})
  BY <1>8 DEF ReconcilePersist, Calm, Key, TypeOK
<1>9. ASSUME NEW d \in Passes, StartDrain(d) PROVE Calm({})
  BY <1>9 DEF StartDrain, Calm, Key, TypeOK
<1>10. ASSUME NEW d \in Passes, EndDrain(d) PROVE Calm({})
  BY <1>10 DEF EndDrain, Forget, Calm, Key, TypeOK
<1>11. ASSUME NEW d \in Passes, NEW i \in RowIds, DiscardMismatch(d, i) PROVE Calm({})
  BY <1>11, NextRowCalm DEF DiscardMismatch, Calm, Key, TypeOK, IsNext, Shape, HoldsItsRow, Busy
<1>12. ASSUME SyncFires PROVE Calm({})
  BY <1>12 DEF SyncFires, Calm, Key, TypeOK
<1>13. ASSUME WorkerReadRows PROVE Calm({})
  BY <1>13 DEF WorkerReadRows, Calm, Key, TypeOK
<1>14. ASSUME WorkerReadPrincipal PROVE Calm({})
  BY <1>14 DEF WorkerReadPrincipal, Calm, Key, TypeOK
<1>15. ASSUME WorkerNotice PROVE Calm({})
  BY <1>15, NextRowCalm DEF WorkerNotice, Calm, Key, TypeOK, IsNext, Shape, HoldsItsRow, Busy
<1>16. ASSUME WorkerEnd PROVE Calm({})
  BY <1>16 DEF WorkerEnd, Forget, Calm, Key, TypeOK
<1>17. ASSUME NEW i \in RowIds, WorkerDiscard(i) PROVE Calm({})
  BY <1>17, NextRowCalm DEF WorkerDiscard, Calm, Key, TypeOK, IsNext, Shape, HoldsItsRow, Busy
<1>18. ASSUME NEW i \in RowIds, WorkerSkip(i) PROVE Calm({})
  BY <1>18, NextRowCalm DEF WorkerSkip, Calm, Key, TypeOK, IsNext, Shape, HoldsItsRow, Busy
<1>19. ASSUME NEW d \in Drainers, PutAck(d) PROVE Calm({})
  BY <1>19 DEF PutAck, Calm, Key, TypeOK
<1>20. ASSUME NEW d \in Drainers, DeleteReplayed(d) PROVE Calm({})
  BY <1>20, NextRowCalm DEF DeleteReplayed, Calm, Key, TypeOK, IsNext, Shape, HoldsItsRow, Busy
<1>21. ASSUME NEW d \in Drainers, CheckAck(d) PROVE Calm({})
  BY <1>21, NextRowCalm DEF CheckAck, Calm, Key, TypeOK, IsNext, Shape, HoldsItsRow, Busy
<1>22. ASSUME NEW d \in Drainers, WriteBack(d) PROVE Calm({})
  BY <1>22, NextRowCalm DEF WriteBack, Calm, Key, TypeOK, IsNext, Shape, HoldsItsRow, Busy
<1>23. ASSUME NEW i \in RowIds, BackoffElapses(i) PROVE Calm({})
  BY <1>23 DEF BackoffElapses, Calm, Key, TypeOK
<1>24. ASSUME NEW t \in Tabs, LoadPage(t) PROVE Calm({})
  BY <1>24 DEF LoadPage, Calm, Key, TypeOK
<1>25. ASSUME ConnectivityChanges PROVE Calm({})
  BY <1>25 DEF ConnectivityChanges, Calm, Key, TypeOK
<1>26. ASSUME NEW p \in Principals, SignIn(p) PROVE Calm({})
  BY <1>26 DEF SignIn, Calm, Key, TypeOK
<1> QED
  BY <1>1, <1>2, <1>3, <1>4, <1>5, <1>6, <1>7, <1>8, <1>9, <1>10, <1>11, <1>12, <1>13, <1>14, <1>15, <1>16, <1>17, <1>18, <1>19, <1>20, <1>21, <1>22, <1>23, <1>24, <1>25, <1>26
  DEF Local, Environment, Enqueue, Reconcile, PagePass, WorkerPass, Settle, Drainers

LEMMA PostCalm ==
  ASSUME TypeOK, NEW d \in Drainers, NEW i \in RowIds, SendTo(d, i), pc[d] = "loop"
  PROVE  Calm({})
  BY DEF SendTo, Calm, Key, TypeOK, dbVars, pageVars, workerVars, history

\* What an answer does: the drain waits no longer, and is told of a success only
\* when there was one.
LEMMA AnswerFacts ==
  ASSUME TypeOK, NEW d \in Drainers, NEW response, Answer(d, response)
  PROVE  /\ pc[d] = "fetch" /\ pc'[d] # "fetch"
         /\ pc'[d] = "ack" => response = "success"
         /\ \A e \in Drainers \ {d} : pc'[e] = pc[e]
         /\ \A e \in Drainers : Key(e)' = Key(e)
         /\ acks' = acks
<1>1. ClassifyStatus(response) = "success" => response = "success"
  BY DEF ClassifyStatus
<1> QED  BY <1>1 DEF Answer, Key, TypeOK, dbVars, pageVars, workerVars, history

LEMMA ResponseFacts ==
  ASSUME NEW kind \in {"ok", "refused", "throttled", "in_flight", "key_reused", "error"}
  PROVE  /\ ResponseOf(kind) \in Responses
         /\ ResponseOf(kind) = "success" => kind = "ok"
<1>1. CASE kind = "ok"
  BY <1>1 DEF ResponseOf, Responses
<1>2. CASE kind = "key_reused"
  BY <1>2 DEF ResponseOf, Responses
<1>3. CASE kind = "error"
  BY <1>3 DEF ResponseOf, Responses
<1>4. CASE kind \in {"refused", "throttled", "in_flight"}
  BY <1>4 DEF ResponseOf, Responses
<1> QED  BY <1>1, <1>2, <1>3, <1>4

LEMMA VerdictFacts ==
  /\ Server!Verdicts = {"ok", "refused", "throttled"}
  /\ Server!TurnedAway = {"in_flight", "key_reused"}
  BY DEF Server!Verdicts, Server!TurnedAway, Refusals

-----------------------------------------------------------------------------
(* The queue's part of a step is a step of the queue *)

LEMMA DeliverIsQueueStep ==
  ASSUME NEW r \in Requests, NEW response \in Responses, Deliver(r, response)
  PROVE  [Next]_vars
<1>1. CASE r.from = Nobody
  BY <1>1 DEF Deliver
<1>2. CASE r.from # Nobody
  <2>1. r.from \in Drainers
    BY <1>2 DEF Requests
  <2> QED  BY <1>2, <2>1 DEF Deliver, Next, Receive
<1> QED  BY <1>1, <1>2

LEMMA QueueStep ==
  ASSUME NetTypes, [OfflineNext]_allVars
  PROVE  [Next]_vars
<1> USE DEF NetTypes
<1>1. ASSUME Local PROVE [Next]_vars
  BY <1>1 DEF Next
<1>2. ASSUME NEW d \in Drainers, PostReplay(d) PROVE [Next]_vars
  BY <1>2 DEF PostReplay, Next
<1>3. ASSUME NEW r \in requests, GetsNoAnswer(r) PROVE [Next]_vars
  <2>1. Deliver(r, "no_answer") /\ "no_answer" \in Responses
    BY <1>3 DEF GetsNoAnswer, Deliver, Responses
  <2> QED  BY <2>1, DeliverIsQueueStep
<1>4. ASSUME NEW t \in Tabs, CloseTabMidRequest(t) PROVE [Next]_vars
  BY <1>4 DEF CloseTabMidRequest, Next
<1>5. ASSUME KillWorkerMidRequest PROVE [Next]_vars
  BY <1>5 DEF KillWorkerMidRequest, Next
<1>6. ASSUME NEW r \in requests, LetIn(r) \/ ViewCommits(r) PROVE [Next]_vars
  BY <1>6 DEF LetIn, ViewCommits
<1>7. ASSUME NEW r \in requests, ReplayCached(r) PROVE [Next]_vars
  <2>1. window[r.key].phase \in Server!Verdicts
    BY <1>7 DEF ReplayCached, Server!Replay
  <2> QED  BY <1>7, <2>1, VerdictFacts, ResponseFacts, DeliverIsQueueStep DEF ReplayCached
<1>8. ASSUME NEW r \in requests, TurnAway(r) PROVE [Next]_vars
  BY <1>8, VerdictFacts, ResponseFacts, DeliverIsQueueStep DEF TurnAway
<1>9. ASSUME NEW r \in requests, ViewAnswers(r) PROVE [Next]_vars
  BY <1>9, VerdictFacts, ResponseFacts, DeliverIsQueueStep DEF ViewAnswers
<1>10. ASSUME NEW r \in requests, ViewFails(r) PROVE [Next]_vars
  BY <1>10, ResponseFacts, DeliverIsQueueStep DEF ViewFails
<1>11. ASSUME NEW r \in requests, ServerCrashes(r) PROVE [Next]_vars
  BY <1>11, DeliverIsQueueStep DEF ServerCrashes, Responses
<1>12. ASSUME NEW k \in Keys, RetentionEnds(k) PROVE [Next]_vars
  BY <1>12 DEF RetentionEnds
<1>13. CASE UNCHANGED allVars
  BY <1>13 DEF allVars
<1> QED
  BY <1>1, <1>2, <1>3, <1>4, <1>5, <1>6, <1>7, <1>8, <1>9, <1>10, <1>11, <1>12, <1>13
  DEF OfflineNext, ServerSteps

\* And the server's part is a step of AtMostOnce.
LEMMA ServerStep ==
  ASSUME NetTypes, [OfflineNext]_allVars
  PROVE  [Server!Next]_(Server!vars)
<1>0. ASSUME NEW r \in requests PROVE r.key \in Keys /\ r.fp \in Principals
  BY DEF NetTypes, Requests
<1>1. ASSUME UNCHANGED serverVars PROVE [Server!Next]_(Server!vars)
  BY <1>1 DEF serverVars, Server!vars
<1>2. ASSUME NEW r \in requests,
             \/ LetIn(r) \/ ReplayCached(r) \/ TurnAway(r)
             \/ ViewCommits(r) \/ ViewAnswers(r) \/ ViewFails(r)
      PROVE  Server!Next
  BY <1>0, <1>2
  DEF LetIn, ReplayCached, TurnAway, ViewCommits, ViewAnswers, ViewFails, Server!Next
<1>3. ASSUME NEW k \in Keys, RetentionEnds(k) PROVE Server!Next
  BY <1>3 DEF RetentionEnds, Server!Next
<1> QED
  BY <1>1, <1>2, <1>3
  DEF OfflineNext, ServerSteps, allVars, netVars, PostReplay, GetsNoAnswer,
      CloseTabMidRequest, KillWorkerMidRequest, ServerCrashes

-----------------------------------------------------------------------------
(* The types *)

LEMMA OrphansTyped ==
  ASSUME requests \subseteq Requests, NEW ds \in SUBSET Drainers, Orphaned(ds)
  PROVE  /\ requests' \subseteq Requests
         /\ \A q \in requests' : q.from # Nobody => q \in requests /\ q.from \notin ds
<1>1. ASSUME NEW q \in requests'
      PROVE  q \in Requests /\ (q.from # Nobody => q \in requests /\ q.from \notin ds)
  <2>1. PICK r \in requests : q = [r EXCEPT !.from = IF @ \in ds THEN Nobody ELSE @]
    BY DEF Orphaned
  <2>2. r \in Requests
    OBVIOUS
  <2>3. CASE r.from \in ds
    BY <2>1, <2>2, <2>3 DEF Requests
  <2>4. CASE r.from \notin ds
    <3>1. q = r
      BY <2>1, <2>2, <2>4 DEF Requests
    <3> QED  BY <3>1, <2>2, <2>4
  <2> QED  BY <2>3, <2>4
<1> QED  BY <1>1

LEMMA FinishedKeeps ==
  ASSUME requests \subseteq Requests, NEW r \in requests, Finished(r), RequestsMatch
  PROVE  /\ requests' \subseteq Requests
         /\ \A q \in requests' : q.from # Nobody => q \in requests /\ q.from # r.from
  BY DEF Finished, RequestsMatch

LEMMA ServerTypesStep ==
  ASSUME ServerTypes, NEW k \in Keys,
         \/ \E f \in Principals : Server!Open(k, f)
         \/ \E f \in Principals, kind \in Server!TurnedAway : Server!TurnAway(k, f, kind)
         \/ \E kind \in Server!Verdicts : Server!Close(k, kind)
         \/ Server!Commit(k) \/ Server!Abandon(k) \/ Server!Replay(k) \/ Server!Age(k)
  PROVE  ServerTypes'
<1> USE VerdictFacts DEF ServerTypes, Server!Window, Server!Answers
<1>1. ASSUME NEW f \in Principals, Server!Open(k, f) PROVE ServerTypes'
  BY <1>1 DEF Server!Open
<1>2. ASSUME NEW f \in Principals, NEW kind \in Server!TurnedAway, Server!TurnAway(k, f, kind)
      PROVE  ServerTypes'
  BY <1>2 DEF Server!TurnAway, Server!Reply
<1>3. ASSUME NEW kind \in Server!Verdicts, Server!Close(k, kind) PROVE ServerTypes'
  <2>1. window[k].owner \in Principals
    BY <1>3 DEF Server!Close
  <2> QED  BY <1>3, <2>1 DEF Server!Close, Server!Reply
<1>4. ASSUME Server!Commit(k) PROVE ServerTypes'
  BY <1>4 DEF Server!Commit
<1>5. ASSUME Server!Abandon(k) PROVE ServerTypes'
  <2>1. window[k].owner \in Principals
    BY <1>5 DEF Server!Abandon
  <2> QED  BY <1>5, <2>1 DEF Server!Abandon, Server!Reply, Server!FreeWindow
<1>6. ASSUME Server!Replay(k) PROVE ServerTypes'
  <2>1. window[k].owner \in Principals
    BY <1>6 DEF Server!Replay
  <2> QED  BY <1>6, <2>1 DEF Server!Replay, Server!Reply
<1>7. ASSUME Server!Age(k) PROVE ServerTypes'
  BY <1>7 DEF Server!Age
<1> QED  BY <1>1, <1>2, <1>3, <1>4, <1>5, <1>6, <1>7

LEMMA NetTypesStep ==
  ASSUME TypeOK, NetTypes, RequestsMatch, [OfflineNext]_allVars
  PROVE  NetTypes'
<1> USE DEF NetTypes, netVars, serverVars
<1>0. ServerTypes /\ UNCHANGED serverVars => ServerTypes'
  BY DEF ServerTypes
<1>1. ASSUME UNCHANGED netVars PROVE NetTypes'
  BY <1>0, <1>1
<1>2. ASSUME NEW d \in Drainers, PostReplay(d) PROVE NetTypes'
  <2>1. PICK i \in RowIds : SendTo(d, i) /\ batch[d][i] # NoRow
    BY <1>2 DEF PostReplay, Post, WorkerSend, Send, IsNext
  <2>2. cur'[d] = i
    BY <2>1 DEF SendTo, TypeOK
  <2>3. batch[d][cur'[d]].key \in Keys /\ session \in Principals
    BY <2>1, <2>2 DEF TypeOK, StoredRow
  <2>4. [key |-> batch[d][cur'[d]].key, fp |-> session, from |-> d, at |-> "network"]
          \in Requests
    BY <2>3 DEF Requests
  <2> QED  BY <1>0, <1>2, <2>4 DEF PostReplay
<1>3. ASSUME NEW r \in requests, GetsNoAnswer(r) PROVE NetTypes'
  <2>1. {r.from} \in SUBSET Drainers
    BY <1>3 DEF GetsNoAnswer, Requests
  <2>2. requests' \subseteq Requests
    BY <1>3, <2>1, OrphansTyped, FinishedKeeps DEF GetsNoAnswer
  <2> QED  BY <1>0, <1>3, <2>2 DEF GetsNoAnswer
<1>4. ASSUME NEW t \in Tabs, CloseTabMidRequest(t) PROVE NetTypes'
  <2>1. requests' \subseteq Requests
    BY <1>4, OrphansTyped, {d \in Passes : TabOf[d] = t} \in SUBSET Drainers
    DEF CloseTabMidRequest, Drainers
  <2> QED  BY <1>0, <1>4, <2>1 DEF CloseTabMidRequest
<1>5. ASSUME KillWorkerMidRequest PROVE NetTypes'
  <2>1. requests' \subseteq Requests
    BY <1>5, OrphansTyped, {Worker} \in SUBSET Drainers DEF KillWorkerMidRequest, Drainers
  <2> QED  BY <1>0, <1>5, <2>1 DEF KillWorkerMidRequest
<1>6. ASSUME NEW r \in requests PROVE r.key \in Keys /\ r.fp \in Principals
  BY DEF Requests
<1>7. ASSUME NEW r \in requests, LetIn(r) PROVE NetTypes'
  <2>1. [r EXCEPT !.at = "view"] \in Requests
    BY DEF Requests
  <2> QED  BY <1>6, <1>7, <2>1, ServerTypesStep DEF LetIn
<1>8. ASSUME NEW r \in requests, ReplayCached(r) PROVE NetTypes'
  BY <1>6, <1>8, ServerTypesStep, FinishedKeeps DEF ReplayCached
<1>9. ASSUME NEW r \in requests, TurnAway(r) PROVE NetTypes'
  BY <1>6, <1>9, ServerTypesStep, FinishedKeeps DEF TurnAway
<1>10. ASSUME NEW r \in requests, ViewCommits(r) PROVE NetTypes'
  BY <1>6, <1>10, ServerTypesStep DEF ViewCommits
<1>11. ASSUME NEW r \in requests, ViewAnswers(r) PROVE NetTypes'
  BY <1>6, <1>11, ServerTypesStep, FinishedKeeps DEF ViewAnswers
<1>12. ASSUME NEW r \in requests, ViewFails(r) PROVE NetTypes'
  <2>1. excuse' \in [Keys -> SUBSET {"expired", "failed"}]
    BY <1>6, <1>12 DEF ViewFails
  <2> QED  BY <1>6, <1>12, <2>1, ServerTypesStep, FinishedKeeps DEF ViewFails
<1>13. ASSUME NEW r \in requests, ServerCrashes(r) PROVE NetTypes'
  BY <1>0, <1>13, FinishedKeeps DEF ServerCrashes
<1>14. ASSUME NEW k \in Keys, RetentionEnds(k) PROVE NetTypes'
  <2>1. excuse' \in [Keys -> SUBSET {"expired", "failed"}]
    BY <1>14 DEF RetentionEnds
  <2> QED  BY <1>14, <2>1, ServerTypesStep DEF RetentionEnds
<1> QED
  BY <1>1, <1>2, <1>3, <1>4, <1>5, <1>7, <1>8, <1>9, <1>10, <1>11, <1>12, <1>13, <1>14
  DEF OfflineNext, ServerSteps, allVars

-----------------------------------------------------------------------------
(* Who waits for which answer *)

\* Requests stay matched when, apart from these drains, who waits goes on
\* waiting, and no request is new or anybody's of these.
LEMMA MatchKept ==
  ASSUME requests \subseteq Requests, RequestsMatch, NEW ds \in SUBSET Drainers,
         \A d \in Drainers \ ds : pc[d] = "fetch" => pc'[d] = "fetch" /\ Key(d)' = Key(d),
         \A q \in requests' : q.from # Nobody => q \in requests /\ q.from \notin ds
  PROVE  RequestsMatch'
<1>1. ASSUME NEW q \in requests', q.from # Nobody
      PROVE  q.from \in Drainers \ ds /\ q \in requests
  BY <1>1 DEF Requests
<1>2. ASSUME NEW q \in requests', q.from # Nobody
      PROVE  pc'[q.from] = "fetch" /\ q.key = Key(q.from)'
  BY <1>1, <1>2 DEF RequestsMatch
<1> QED  BY <1>1, <1>2 DEF RequestsMatch

LEMMA DeliverMatches ==
  ASSUME TypeOK, requests \subseteq Requests, RequestsMatch, NEW r \in requests,
         NEW response, Deliver(r, response), Finished(r)
  PROVE  RequestsMatch'
<1>1. CASE r.from = Nobody
  <2>1. \A d \in Drainers : pc[d] = "fetch" => pc'[d] = "fetch" /\ Key(d)' = Key(d)
    BY <1>1 DEF Deliver, vars, drainVars, Key
  <2>2. \A q \in requests' : q.from # Nobody => q \in requests
    BY DEF Finished
  <2> QED  BY <2>1, <2>2, MatchKept, {} \in SUBSET Drainers
<1>2. CASE r.from # Nobody
  <2>1. r.from \in Drainers
    BY <1>2 DEF Requests
  <2>2. \A d \in Drainers \ {r.from} : pc[d] = "fetch" => pc'[d] = "fetch" /\ Key(d)' = Key(d)
    BY <1>2, <2>1, AnswerFacts DEF Deliver
  <2>3. \A q \in requests' : q.from # Nobody => q \in requests /\ q.from \notin {r.from}
    BY FinishedKeeps
  <2> QED  BY <2>1, <2>2, <2>3, MatchKept
<1> QED  BY <1>1, <1>2

LEMMA MatchStep ==
  ASSUME TypeOK, Shape, NetTypes, RequestsMatch, [OfflineNext]_allVars
  PROVE  RequestsMatch'
<1>0. requests \subseteq Requests
  BY DEF NetTypes
<1>1. ASSUME Local, UNCHANGED netVars PROVE RequestsMatch'
  <2>1. \A d \in Drainers : pc[d] = "fetch" => pc'[d] = "fetch" /\ Key(d)' = Key(d)
    BY <1>1, LocalCalm DEF Calm
  <2> QED  BY <1>0, <1>1, <2>1, MatchKept, {} \in SUBSET Drainers DEF netVars
<1>2. ASSUME NEW d \in Drainers, PostReplay(d) PROVE RequestsMatch'
  <2>1. PICK i \in RowIds : SendTo(d, i) /\ pc[d] = "loop"
    BY <1>2 DEF PostReplay, Post, WorkerSend, Send
  <2> DEFINE new == [key |-> batch[d][cur'[d]].key, fp |-> session,
                     from |-> d, at |-> "network"]
  <2>2. requests' = requests \cup {new}
    BY <1>2 DEF PostReplay
  <2>3. new.from = d /\ new.key = Key(d)' /\ pc'[d] = "fetch"
    BY <2>1 DEF SendTo, Key, TypeOK
  <2>4. \A e \in Drainers : pc[e] = "fetch" => pc'[e] = "fetch" /\ Key(e)' = Key(e)
    BY <2>1, PostCalm DEF Calm
  <2>5. \A q \in requests : q.from # d
    BY <2>1, NobodyAssumption DEF RequestsMatch, Drainers
  <2>6. ASSUME NEW q \in requests, q.from # Nobody
        PROVE  pc'[q.from] = "fetch" /\ q.key = Key(q.from)'
    BY <1>0, <2>4, <2>6 DEF RequestsMatch, Requests
  <2> HIDE DEF new
  <2> QED  BY <2>2, <2>3, <2>5, <2>6 DEF RequestsMatch
<1>3. ASSUME NEW r \in requests, GetsNoAnswer(r) PROVE RequestsMatch'
  <2>1. r.from \in Drainers /\ r.from # Nobody
    BY <1>0, <1>3 DEF GetsNoAnswer, Requests
  <2>2. \A d \in Drainers \ {r.from} : pc[d] = "fetch" => pc'[d] = "fetch" /\ Key(d)' = Key(d)
    BY <1>3, <2>1, AnswerFacts DEF GetsNoAnswer
  <2>3. \A q \in requests' : q.from # Nobody => q \in requests /\ q.from \notin {r.from}
    BY <1>0, <1>3, <2>1, OrphansTyped, FinishedKeeps DEF GetsNoAnswer
  <2> QED  BY <1>0, <2>1, <2>2, <2>3, MatchKept
<1>4. ASSUME NEW ds \in SUBSET Drainers, Forget(ds), UNCHANGED acks, Orphaned(ds)
      PROVE  RequestsMatch'
  <2>1. \A d \in Drainers \ ds : pc[d] = "fetch" => pc'[d] = "fetch" /\ Key(d)' = Key(d)
    BY <1>4, ForgetCalm DEF Calm
  <2> QED  BY <1>0, <1>4, <2>1, OrphansTyped, MatchKept
<1>5. ASSUME NEW t \in Tabs, CloseTabMidRequest(t) PROVE RequestsMatch'
  BY <1>4, <1>5, {d \in Passes : TabOf[d] = t} \in SUBSET Drainers
  DEF CloseTabMidRequest, CloseTab, Drainers, dbVars
<1>6. ASSUME KillWorkerMidRequest PROVE RequestsMatch'
  BY <1>4, <1>6, {Worker} \in SUBSET Drainers
  DEF KillWorkerMidRequest, KillWorker, Drainers, dbVars
<1>7. ASSUME NEW r \in requests, LetIn(r) PROVE RequestsMatch'
  <2> DEFINE new == [r EXCEPT !.at = "view"]
  <2>1. requests' = (requests \ {r}) \cup {new} /\ UNCHANGED <<pc, batch, cur>>
    BY <1>7 DEF LetIn, vars, drainVars
  <2>2. new.from = r.from /\ new.key = r.key
    BY <1>0 DEF Requests
  <2>3. \A d : Key(d)' = Key(d)
    BY <2>1 DEF Key
  <2> HIDE DEF new
  <2> QED  BY <2>1, <2>2, <2>3 DEF RequestsMatch
<1>8. ASSUME NEW r \in requests, \/ ReplayCached(r) \/ TurnAway(r) \/ ViewAnswers(r)
                                 \/ ViewFails(r) \/ ServerCrashes(r)
      PROVE  RequestsMatch'
  <2>1. Finished(r) /\ \E response : Deliver(r, response)
    BY <1>8 DEF ReplayCached, TurnAway, ViewAnswers, ViewFails, ServerCrashes
  <2> QED  BY <1>0, <2>1, DeliverMatches
<1>9. ASSUME UNCHANGED <<vars, requests>> PROVE RequestsMatch'
  BY <1>9 DEF RequestsMatch, Key, vars, drainVars
<1>10. ASSUME NEW r \in requests, ViewCommits(r) PROVE RequestsMatch'
  BY <1>9, <1>10 DEF ViewCommits
<1>11. ASSUME NEW k \in Keys, RetentionEnds(k) PROVE RequestsMatch'
  BY <1>9, <1>11 DEF RetentionEnds
<1> QED
  BY <1>1, <1>2, <1>3, <1>5, <1>6, <1>7, <1>8, <1>9, <1>10, <1>11
  DEF OfflineNext, ServerSteps, allVars, netVars

-----------------------------------------------------------------------------
(* What the windows stand for *)

LEMMA WindowStep ==
  ASSUME NetTypes, WindowIsTrue, WindowIsAll, [OfflineNext]_allVars
  PROVE  /\ WindowIsTrue' /\ WindowIsAll'
         /\ \A k \in Keys : total[k] > 0 => total'[k] > 0
<1> DEFINE Goal == /\ WindowIsTrue' /\ WindowIsAll'
                   /\ \A k \in Keys : total[k] > 0 => total'[k] > 0
<1>0. ASSUME NEW r \in requests PROVE r.key \in Keys
  BY DEF NetTypes, Requests
<1> USE DEF WindowIsTrue, WindowIsAll, NetTypes, ServerTypes, serverVars
<1>1. ASSUME UNCHANGED <<window, effects, total, excuse>> PROVE Goal
  BY <1>1
<1>2. ASSUME NEW r \in requests, LetIn(r) PROVE Goal
  BY <1>0, <1>2 DEF LetIn, Server!Open
<1>3. ASSUME NEW r \in requests, ViewCommits(r) PROVE Goal
  BY <1>0, <1>3 DEF ViewCommits, Server!Commit
<1>4. ASSUME NEW r \in requests, ViewAnswers(r) PROVE Goal
  <2>1. PICK kind \in {"ok", "refused", "throttled"} : Server!Close(r.key, kind)
    BY <1>4, VerdictFacts DEF ViewAnswers
  <2>2. UNCHANGED <<total, excuse>>
    BY <1>4 DEF ViewAnswers
  <2> QED  BY <1>0, <2>1, <2>2 DEF Server!Close, Server!Window
<1>5. ASSUME NEW r \in requests, ViewFails(r) PROVE Goal
  BY <1>0, <1>5 DEF ViewFails, Server!Abandon, Server!FreeWindow
<1>6. ASSUME NEW k \in Keys, RetentionEnds(k) PROVE Goal
  BY <1>6 DEF RetentionEnds, Server!Age, Server!Window
<1>7. ASSUME NEW r \in requests, ReplayCached(r) PROVE Goal
  BY <1>1, <1>7 DEF ReplayCached, Server!Replay
<1>8. ASSUME NEW r \in requests, TurnAway(r) PROVE Goal
  BY <1>1, <1>8 DEF TurnAway, Server!TurnAway
<1> QED
  BY <1>1, <1>2, <1>3, <1>4, <1>5, <1>6, <1>7, <1>8
  DEF OfflineNext, ServerSteps, allVars, netVars, PostReplay, GetsNoAnswer,
      CloseTabMidRequest, KillWorkerMidRequest, ServerCrashes

-----------------------------------------------------------------------------
(* What the drains are told *)

\* A calm step tells nobody anything new.
LEMMA CalmIsTrue ==
  ASSUME TypeOK, NEW ds, Calm(ds), SuccessIsTrue, AcknowledgedHasLanded,
         \A d \in Drainers : pc[d] = "ack" => Key(d) \in Keys,
         \A k \in Keys : total[k] > 0 => total'[k] > 0
  PROVE  SuccessIsTrue' /\ AcknowledgedHasLanded'
<1>1. \A k \in acks : k \in Keys
  BY DEF TypeOK, Keys
<1>2. SuccessIsTrue'
  BY DEF Calm, SuccessIsTrue
<1>3. AcknowledgedHasLanded'
  BY <1>1 DEF Calm, SuccessIsTrue, AcknowledgedHasLanded
<1> QED  BY <1>2, <1>3

\* Nor does an answer, unless it says "success".
LEMMA DeliverIsTrue ==
  ASSUME TypeOK, NetTypes, RequestsMatch, SuccessIsTrue, AcknowledgedHasLanded,
         NEW r \in requests, NEW response, Deliver(r, response),
         response = "success" => total[r.key] > 0,
         \A d \in Drainers : pc[d] = "ack" => Key(d) \in Keys,
         \A k \in Keys : total[k] > 0 => total'[k] > 0
  PROVE  SuccessIsTrue' /\ AcknowledgedHasLanded'
<1>0. r.key \in Keys /\ r.from \in Drainers \cup {Nobody}
  BY DEF NetTypes, Requests
<1>1. CASE r.from = Nobody
  <2>1. Calm({})
    BY <1>1 DEF Deliver, Calm, vars, drainVars, dbVars, Key
  <2> QED  BY <2>1, CalmIsTrue
<1>2. CASE r.from # Nobody
  <2>1. Answer(r.from, response) /\ r.from \in Drainers
    BY <1>0, <1>2 DEF Deliver
  <2>2. Key(r.from) = r.key
    BY <1>2 DEF RequestsMatch
  <2>3. ASSUME NEW d \in Drainers, pc'[d] = "ack" PROVE total'[Key(d)'] > 0
    <3>1. CASE d = r.from
      BY <1>0, <2>1, <2>2, <2>3, <3>1, AnswerFacts
    <3>2. CASE d # r.from
      BY <2>1, <2>3, <3>2, AnswerFacts DEF SuccessIsTrue
    <3> QED  BY <3>1, <3>2
  <2>4. acks' = acks /\ \A k \in acks : k \in Keys
    BY <2>1, AnswerFacts DEF TypeOK, Keys
  <2> QED  BY <2>3, <2>4 DEF SuccessIsTrue, AcknowledgedHasLanded
<1> QED  BY <1>1, <1>2

LEMMA TruthStep ==
  ASSUME TypeOK, Shape, NetTypes, RequestsMatch, WindowIsTrue, WindowIsAll,
         SuccessIsTrue, AcknowledgedHasLanded, [OfflineNext]_allVars
  PROVE  SuccessIsTrue' /\ AcknowledgedHasLanded'
<1> DEFINE Goal == SuccessIsTrue' /\ AcknowledgedHasLanded'
<1>a. \A k \in Keys : total[k] > 0 => total'[k] > 0
  BY WindowStep
<1>b. \A d \in Drainers : pc[d] = "ack" => Key(d) \in Keys
  BY DEF TypeOK, Shape, HoldsItsRow, Busy, Key, StoredRow
<1>c. ASSUME NEW ds, Calm(ds) PROVE Goal
  BY <1>a, <1>b, <1>c, CalmIsTrue
<1>d. ASSUME NEW r \in requests, NEW response, Deliver(r, response),
             response = "success" => total[r.key] > 0
      PROVE  Goal
  BY <1>a, <1>b, <1>d, DeliverIsTrue
<1>e. ASSUME NEW r \in requests PROVE r.key \in Keys
  BY DEF NetTypes, Requests
<1>1. ASSUME Local PROVE Goal
  BY <1>1, <1>c, LocalCalm
<1>2. ASSUME NEW d \in Drainers, PostReplay(d) PROVE Goal
  <2>1. PICK i \in RowIds : SendTo(d, i) /\ pc[d] = "loop"
    BY <1>2 DEF PostReplay, Post, WorkerSend, Send
  <2> QED  BY <1>c, <2>1, PostCalm
<1>3. ASSUME NEW r \in requests, GetsNoAnswer(r) PROVE Goal
  BY <1>3, <1>d, SMTT(30) DEF GetsNoAnswer, Deliver
<1>4. ASSUME NEW t \in Tabs, CloseTabMidRequest(t) PROVE Goal
  BY <1>4, <1>c, ForgetCalm, {d \in Passes : TabOf[d] = t} \in SUBSET Drainers
  DEF CloseTabMidRequest, CloseTab, dbVars, Drainers
<1>5. ASSUME KillWorkerMidRequest PROVE Goal
  BY <1>5, <1>c, ForgetCalm, {Worker} \in SUBSET Drainers
  DEF KillWorkerMidRequest, KillWorker, dbVars, Drainers
<1>6. ASSUME UNCHANGED vars PROVE Goal
  <2>1. Calm({})
    BY <1>6 DEF Calm, vars, drainVars, dbVars, Key
  <2> QED  BY <1>c, <2>1
<1>7. ASSUME NEW r \in requests, ReplayCached(r) PROVE Goal
  <2>1. window[r.key].phase \in {"ok", "refused", "throttled"}
    BY <1>7, VerdictFacts DEF ReplayCached, Server!Replay
  <2>2. ResponseOf(window[r.key].phase) = "success" => total[r.key] > 0
    BY <1>e, <2>1, ResponseFacts DEF WindowIsTrue
  <2> QED  BY <1>7, <1>d, <2>2 DEF ReplayCached
<1>8. ASSUME NEW r \in requests, TurnAway(r) PROVE Goal
  <2>1. PICK kind \in {"in_flight", "key_reused"} : Deliver(r, ResponseOf(kind))
    BY <1>8, VerdictFacts DEF TurnAway
  <2>2. ResponseOf(kind) # "success"
    BY <2>1, ResponseFacts
  <2> QED  BY <1>d, <2>1, <2>2
<1>9. ASSUME NEW r \in requests, ViewAnswers(r) PROVE Goal
  <2>1. PICK kind \in {"ok", "refused", "throttled"} :
          Server!Close(r.key, kind) /\ Deliver(r, ResponseOf(kind))
    BY <1>9, VerdictFacts DEF ViewAnswers
  <2>2. ResponseOf(kind) = "success" => total[r.key] > 0
    BY <1>e, <2>1, ResponseFacts DEF WindowIsTrue, Server!Close
  <2> QED  BY <1>d, <2>1, <2>2
<1>10. ASSUME NEW r \in requests, ViewFails(r) PROVE Goal
  <2>1. ResponseOf("error") # "success"
    BY ResponseFacts
  <2> QED  BY <1>10, <1>d, <2>1 DEF ViewFails
<1>11. ASSUME NEW r \in requests, ServerCrashes(r) PROVE Goal
  BY <1>11, <1>d DEF ServerCrashes
<1> QED
  BY <1>1, <1>2, <1>3, <1>4, <1>5, <1>6, <1>7, <1>8, <1>9, <1>10, <1>11
  DEF OfflineNext, ServerSteps, allVars, LetIn, ViewCommits, RetentionEnds

-----------------------------------------------------------------------------
(* The invariant *)

LEMMA OfflineInitially == OfflineInit => OInv
<1> SUFFICES ASSUME OfflineInit PROVE OInv
  OBVIOUS
<1> USE DEF OfflineInit, Server!Init, Server!FreeWindow
<1>1. IInv
  BY Initially
<1>2. NetTypes
  BY DEF NetTypes, ServerTypes, Server!Window
<1>3. RequestsMatch /\ WindowIsTrue /\ WindowIsAll
  BY DEF RequestsMatch, WindowIsTrue, WindowIsAll
<1>4. SuccessIsTrue /\ AcknowledgedHasLanded
  BY DEF SuccessIsTrue, AcknowledgedHasLanded, Init
<1> QED  BY <1>1, <1>2, <1>3, <1>4 DEF OInv

LEMMA OfflineInductiveStep == ASSUME OInv, [OfflineNext]_allVars PROVE OInv'
<1>0. TypeOK /\ Shape /\ IInv
  BY DEF OInv, IInv
<1> USE DEF OInv
<1>1. IInv'
  BY <1>0, QueueStep, InductiveStep
<1>2. NetTypes'
  BY <1>0, NetTypesStep
<1>3. RequestsMatch'
  BY <1>0, MatchStep
<1>4. WindowIsTrue' /\ WindowIsAll'
  BY WindowStep
<1>5. SuccessIsTrue' /\ AcknowledgedHasLanded'
  BY <1>0, TruthStep
<1> QED  BY <1>1, <1>2, <1>3, <1>4, <1>5

LEMMA OfflineInductive == OfflineSpec => []OInv
<1>1. OInv /\ [OfflineNext]_allVars => OInv'
  BY OfflineInductiveStep
<1> QED  BY <1>1, OfflineInitially, PTL DEF OfflineSpec

-----------------------------------------------------------------------------
(* What a refusal stands for *)

\* A drain has a verdict only from the answer to the write-back.
VerdictInWriting ==
  \A d \in Drainers : verdict[d] # "none" => pc[d] \in {"check", "write"}

\* A window that is closed with a refusal shows no commit.
RefusedIsEmpty ==
  \A k \in Keys : window[k].phase \in {"refused", "throttled"} => effects[k] = 0

\* While the session stays, all requests and all windows are its account's: the
\* server has no other fingerprint to refuse a key for.
OneSession ==
  /\ \A r \in requests : r.fp = session
  /\ \A k \in Keys : window[k].phase # "free" => window[k].owner = session

\* Why a key will not be stored after its refusal.
Refused(k) == excuse[k] # {} \/ window[k].phase = "refused"

RefusalStands == \A d \in Drainers : verdict[d] = "permanent" => Refused(Key(d))

RInv == OInv /\ VerdictInWriting /\ RefusedIsEmpty /\ OneSession /\ RefusalStands

\* Apart from these drains, one that has a verdict had it before, of the same
\* row.
Told(ds) ==
  \A d \in Drainers \ ds : verdict'[d] # "none" =>
    /\ verdict'[d] = verdict[d] /\ Key(d)' = Key(d)
    /\ pc'[d] \in {"check", "write"}

LEMMA StillTold == ASSUME VerdictInWriting, UNCHANGED drainVars PROVE Told({})
  BY DEF VerdictInWriting, Told, Key, drainVars

LEMMA NextRowTold ==
  ASSUME TypeOK, VerdictInWriting, NEW d \in Drainers, NEW i \in RowIds, NextRow(d, i)
  PROVE  Told({})
  BY DEF Told, NextRow, Key, TypeOK, VerdictInWriting

LEMMA ForgetTold ==
  ASSUME TypeOK, VerdictInWriting, NEW ds, Forget(ds)
  PROVE  Told({})
  BY DEF Told, Forget, Key, TypeOK, VerdictInWriting

LEMMA LocalTold ==
  ASSUME TypeOK, Shape, VerdictInWriting, Local PROVE Told({})
<1> USE BoundsFacts DEF dbVars, pageVars, workerVars, history
<1>1. ASSUME NEW t \in Tabs, EnqueueMinted(t) PROVE Told({})
  BY <1>1, StillTold DEF EnqueueMinted
<1>2. ASSUME NEW t \in Tabs, NEW k \in Tracked, EnqueueLook(t, k) PROVE Told({})
  BY <1>2, StillTold DEF EnqueueLook
<1>3. ASSUME NEW t \in Tabs, EnqueuePut(t) PROVE Told({})
  BY <1>3, StillTold DEF EnqueuePut
<1>4. ASSUME NEW t \in Tabs, NEW k \in Tracked, Discard(t, k) PROVE Told({})
  BY <1>4, StillTold DEF Discard
<1>5. ASSUME NEW t \in Tabs, ReadNoticesAndPrune(t) PROVE Told({})
  BY <1>5, StillTold DEF ReadNoticesAndPrune
<1>6. ASSUME NEW t \in Tabs, ReconcileCompare(t) PROVE Told({})
  BY <1>6, StillTold DEF ReconcileCompare
<1>7. ASSUME NEW t \in Tabs, ReconcileClear(t) PROVE Told({})
  BY <1>7, StillTold DEF ReconcileClear
<1>8. ASSUME NEW t \in Tabs, ReconcilePersist(t) PROVE Told({})
  BY <1>8, StillTold DEF ReconcilePersist
<1>9. ASSUME NEW d \in Passes, StartDrain(d) PROVE Told({})
  BY <1>9 DEF StartDrain, Told, VerdictInWriting, Key, TypeOK
<1>10. ASSUME NEW d \in Passes, EndDrain(d) PROVE Told({})
  BY <1>10, ForgetTold DEF EndDrain
<1>11. ASSUME NEW d \in Passes, NEW i \in RowIds, DiscardMismatch(d, i) PROVE Told({})
  BY <1>11, NextRowTold DEF DiscardMismatch, Told, VerdictInWriting, Key, TypeOK, IsNext, Shape, HoldsItsRow, Busy
<1>12. ASSUME SyncFires PROVE Told({})
  BY <1>12 DEF SyncFires, Told, VerdictInWriting, Key, TypeOK
<1>13. ASSUME WorkerReadRows PROVE Told({})
  BY <1>13 DEF WorkerReadRows, Told, VerdictInWriting, Key, TypeOK
<1>14. ASSUME WorkerReadPrincipal PROVE Told({})
  BY <1>14 DEF WorkerReadPrincipal, Told, VerdictInWriting, Key, TypeOK
<1>15. ASSUME WorkerNotice PROVE Told({})
  BY <1>15, NextRowTold DEF WorkerNotice, Told, VerdictInWriting, Key, TypeOK, IsNext, Shape, HoldsItsRow, Busy
<1>16. ASSUME WorkerEnd PROVE Told({})
  BY <1>16, ForgetTold DEF WorkerEnd
<1>17. ASSUME NEW i \in RowIds, WorkerDiscard(i) PROVE Told({})
  BY <1>17, NextRowTold DEF WorkerDiscard, Told, VerdictInWriting, Key, TypeOK, IsNext, Shape, HoldsItsRow, Busy
<1>18. ASSUME NEW i \in RowIds, WorkerSkip(i) PROVE Told({})
  BY <1>18, NextRowTold DEF WorkerSkip, Told, VerdictInWriting, Key, TypeOK, IsNext, Shape, HoldsItsRow, Busy
<1>19. ASSUME NEW d \in Drainers, PutAck(d) PROVE Told({})
  BY <1>19 DEF PutAck, Told, VerdictInWriting, Key, TypeOK
<1>20. ASSUME NEW d \in Drainers, DeleteReplayed(d) PROVE Told({})
  BY <1>20, NextRowTold DEF DeleteReplayed, Told, VerdictInWriting, Key, TypeOK, IsNext, Shape, HoldsItsRow, Busy
<1>21. ASSUME NEW d \in Drainers, CheckAck(d) PROVE Told({})
  BY <1>21, NextRowTold DEF CheckAck, Told, VerdictInWriting, Key, TypeOK, IsNext, Shape, HoldsItsRow, Busy
<1>22. ASSUME NEW d \in Drainers, WriteBack(d) PROVE Told({})
  BY <1>22, NextRowTold DEF WriteBack, Told, VerdictInWriting, Key, TypeOK, IsNext, Shape, HoldsItsRow, Busy
<1>23. ASSUME NEW i \in RowIds, BackoffElapses(i) PROVE Told({})
  BY <1>23, StillTold DEF BackoffElapses
<1>24. ASSUME NEW t \in Tabs, LoadPage(t) PROVE Told({})
  BY <1>24, StillTold DEF LoadPage
<1>25. ASSUME ConnectivityChanges PROVE Told({})
  BY <1>25, StillTold DEF ConnectivityChanges
<1>26. ASSUME NEW p \in Principals, SignIn(p) PROVE Told({})
  BY <1>26, StillTold DEF SignIn
<1> QED
  BY <1>1, <1>2, <1>3, <1>4, <1>5, <1>6, <1>7, <1>8, <1>9, <1>10, <1>11,
     <1>12, <1>13, <1>14, <1>15, <1>16, <1>17, <1>18, <1>19, <1>20, <1>21,
     <1>22, <1>23, <1>24, <1>25, <1>26
  DEF Local, Environment, Enqueue, Reconcile, PagePass, WorkerPass, Settle, Drainers

\* A drain is told "permanent" when the answer is a refusal.
LEMMA AnswerTold ==
  ASSUME TypeOK, VerdictInWriting, NEW d \in Drainers, NEW response, Answer(d, response)
  PROVE  /\ Told({d})
         /\ verdict'[d] # "none" => pc'[d] = "check"
         /\ verdict'[d] = "permanent" => response = "refused"
<1>1. ClassifyStatus(response) = "permanent" => response = "refused"
  BY DEF ClassifyStatus
<1> QED  BY <1>1 DEF Answer, Told, Key, TypeOK, VerdictInWriting

\* The answers that read as a refusal.
LEMMA RefusingAnswers ==
  ASSUME NEW kind \in {"ok", "refused", "throttled", "in_flight", "key_reused", "error"},
         ResponseOf(kind) = "refused"
  PROVE  kind \in {"refused", "key_reused"}
  BY DEF ResponseOf

LEMMA ToldKeeps ==
  ASSUME TypeOK, Shape, NEW ds, Told(ds), VerdictInWriting, RefusalStands,
         \A k \in Keys : Refused(k) => Refused(k)',
         NEW d \in Drainers \ ds, verdict'[d] # "none"
  PROVE  /\ pc'[d] \in {"check", "write"}
         /\ verdict'[d] = "permanent" => Refused(Key(d))'
<1>1. verdict'[d] = verdict[d] /\ Key(d)' = Key(d) /\ pc'[d] \in {"check", "write"}
  BY DEF Told
<1>2. Key(d) \in Keys
  BY <1>1 DEF VerdictInWriting, Shape, HoldsItsRow, Busy, Key, TypeOK, StoredRow
<1>3. verdict[d] = "permanent" => Refused(Key(d))
  BY DEF RefusalStands
<1>4. ASSUME verdict[d] = "permanent"
      PROVE  excuse'[Key(d)] # {} \/ window'[Key(d)].phase = "refused"
  BY <1>2, <1>3, <1>4 DEF Refused
<1> QED  BY <1>1, <1>4 DEF Refused

LEMMA DeliverTold ==
  ASSUME TypeOK, Shape, NetTypes, RequestsMatch, VerdictInWriting, RefusalStands,
         NEW r \in requests, NEW response, Deliver(r, response),
         response = "refused" => Refused(r.key)',
         \A k \in Keys : Refused(k) => Refused(k)'
  PROVE  VerdictInWriting' /\ RefusalStands'
<1>1. CASE r.from = Nobody
  <2>1. Told({})
    BY <1>1, StillTold DEF Deliver, vars, drainVars
  <2> QED  BY <2>1, ToldKeeps DEF VerdictInWriting, RefusalStands
<1>2. CASE r.from # Nobody
  <2>1. Answer(r.from, response) /\ r.from \in Drainers
    BY <1>2 DEF Deliver, NetTypes, Requests
  <2>2. Key(r.from) = r.key /\ Key(r.from)' = Key(r.from)
    BY <1>2, <2>1, AnswerFacts DEF RequestsMatch
  <2>3. ASSUME NEW d \in Drainers, verdict'[d] # "none"
        PROVE  /\ pc'[d] \in {"check", "write"}
               /\ verdict'[d] = "permanent" => Refused(Key(d))'
    <3>1. CASE d = r.from
      BY <2>1, <2>2, <2>3, <3>1, AnswerTold DEF Refused
    <3>2. CASE d # r.from
      <4>1. Told({r.from}) /\ d \in Drainers \ {r.from}
        BY <2>1, <3>2, AnswerTold
      <4> QED  BY <2>3, <4>1, ToldKeeps
    <3> QED  BY <3>1, <3>2
  <2> QED  BY <2>3 DEF VerdictInWriting, RefusalStands
<1> QED  BY <1>1, <1>2

\* The server's side: a refusal is final within its retention, it shows no
\* commit, and while the session stays all windows are its account's.
LEMMA RefusalStep ==
  ASSUME NetTypes, WindowIsTrue, WindowIsAll, RefusedIsEmpty, OneSession, session' = session,
         [OfflineNext]_allVars
  PROVE  /\ RefusedIsEmpty' /\ OneSession'
         /\ \A k \in Keys : Refused(k) => Refused(k)'
<1> DEFINE Goal == /\ RefusedIsEmpty' /\ OneSession'
                   /\ \A k \in Keys : Refused(k) => Refused(k)'
<1>0. ASSUME NEW r \in requests PROVE r.key \in Keys /\ r.fp = session /\ r \in Requests
  BY DEF NetTypes, OneSession, Requests
<1>f. ASSUME NEW r \in requests, Finished(r) PROVE \A q \in requests' : q.fp = session
  BY <1>f DEF Finished, OneSession
<1>o. ASSUME NEW ds, Orphaned(ds) PROVE \A q \in requests' : q.fp = session
  <2> SUFFICES ASSUME NEW q \in requests' PROVE q.fp = session
    OBVIOUS
  <2>1. PICK r \in requests : q = [r EXCEPT !.from = IF @ \in ds THEN Nobody ELSE @]
    BY <1>o DEF Orphaned
  <2> QED  BY <1>0, <2>1 DEF Requests
<1>1. ASSUME UNCHANGED <<window, effects, excuse>>, \A q \in requests' : q.fp = session
      PROVE  Goal
  BY <1>1 DEF RefusedIsEmpty, OneSession, Refused
<1> USE DEF NetTypes, ServerTypes, serverVars
<1>2. ASSUME NEW d \in Drainers, PostReplay(d) PROVE Goal
  <2>1. \A q \in requests' : q.fp = session
    BY <1>2 DEF PostReplay, OneSession
  <2> QED  BY <1>1, <1>2, <2>1 DEF PostReplay
<1>3. ASSUME NEW r \in requests, GetsNoAnswer(r) PROVE Goal
  BY <1>1, <1>3, <1>f, <1>o DEF GetsNoAnswer
<1>4. ASSUME (\E t \in Tabs : CloseTabMidRequest(t)) \/ KillWorkerMidRequest PROVE Goal
  BY <1>1, <1>4, <1>o DEF CloseTabMidRequest, KillWorkerMidRequest
<1>5. ASSUME NEW r \in requests, LetIn(r) PROVE Goal
  <2>1. \A q \in requests' : q.fp = session
    BY <1>0, <1>5 DEF LetIn, Requests, OneSession
  <2>2. RefusedIsEmpty' /\ \A k \in Keys : window'[k].phase # "free" => window'[k].owner = session
    BY <1>0, <1>5 DEF LetIn, Server!Open, RefusedIsEmpty, OneSession
  <2>3. \A k \in Keys : Refused(k) => Refused(k)'
    BY <1>0, <1>5 DEF LetIn, Server!Open, Refused, WindowIsAll
  <2> QED  BY <2>1, <2>2, <2>3 DEF OneSession
<1>6. ASSUME NEW r \in requests, ReplayCached(r) \/ TurnAway(r) \/ ServerCrashes(r) PROVE Goal
  BY <1>1, <1>6, <1>f DEF ReplayCached, TurnAway, ServerCrashes, Server!Replay, Server!TurnAway
<1>7. ASSUME NEW r \in requests, ViewCommits(r) PROVE Goal
  BY <1>0, <1>7 DEF ViewCommits, Server!Commit, RefusedIsEmpty, OneSession, Refused
<1>8. ASSUME NEW r \in requests, ViewAnswers(r) PROVE Goal
  <2>1. PICK kind \in {"ok", "refused", "throttled"} : Server!Close(r.key, kind)
    BY <1>8, VerdictFacts DEF ViewAnswers
  <2>2. UNCHANGED excuse /\ \A q \in requests' : q.fp = session
    BY <1>8, <1>f DEF ViewAnswers
  <2>3. effects[r.key] = 0 \/ kind = "ok"
    BY <1>0, <2>1 DEF Server!Close, WindowIsTrue
  <2> QED
    BY <1>0, <2>1, <2>2, <2>3
    DEF Server!Close, Server!Window, RefusedIsEmpty, OneSession, Refused
<1>9. ASSUME NEW r \in requests, ViewFails(r) PROVE Goal
  <2>1. \A q \in requests' : q.fp = session
    BY <1>9, <1>f DEF ViewFails
  <2> QED
    BY <1>0, <1>9, <2>1
    DEF ViewFails, Server!Abandon, Server!FreeWindow, RefusedIsEmpty, OneSession, Refused
<1>10. ASSUME NEW k \in Keys, RetentionEnds(k) PROVE Goal
  BY <1>10 DEF RetentionEnds, Server!Age, Server!Window, RefusedIsEmpty, OneSession, Refused
<1> QED
  BY <1>1, <1>2, <1>3, <1>4, <1>5, <1>6, <1>7, <1>8, <1>9, <1>10
  DEF OfflineNext, ServerSteps, allVars, netVars, OneSession

LEMMA RefusalsAreToldStep ==
  ASSUME RInv, session' = session, [OfflineNext]_allVars
  PROVE  VerdictInWriting' /\ RefusalStands'
<1> DEFINE Goal == VerdictInWriting' /\ RefusalStands'
<1>0. /\ TypeOK /\ Shape /\ NetTypes /\ RequestsMatch /\ VerdictInWriting /\ RefusalStands
      /\ WindowIsAll /\ RefusedIsEmpty /\ OneSession
      /\ \A k \in Keys : Refused(k) => Refused(k)'
  BY RefusalStep DEF RInv, OInv, IInv
<1>a. ASSUME NEW r \in requests PROVE r.key \in Keys /\ r.fp = session
  BY <1>0 DEF NetTypes, Requests, OneSession
<1>b. ASSUME Told({}) PROVE Goal
  BY <1>0, <1>b, ToldKeeps DEF VerdictInWriting, RefusalStands
<1>c. ASSUME NEW r \in requests, NEW response, Deliver(r, response),
             response = "refused" => Refused(r.key)'
      PROVE  Goal
  BY <1>0, <1>c, DeliverTold
<1>1. ASSUME Local PROVE Goal
  BY <1>0, <1>1, <1>b, LocalTold
<1>2. ASSUME NEW d \in Drainers, PostReplay(d) PROVE Goal
  <2>1. PICK i \in RowIds : SendTo(d, i) /\ pc[d] = "loop"
    BY <1>2 DEF PostReplay, Post, WorkerSend, Send
  <2>2. Told({})
    BY <1>0, <2>1 DEF SendTo, Told, VerdictInWriting, Key, TypeOK
  <2> QED  BY <1>b, <2>2
<1>3. ASSUME NEW r \in requests, GetsNoAnswer(r) PROVE Goal
  <2>1. Deliver(r, "no_answer") /\ "no_answer" # "refused"
    BY <1>3 DEF GetsNoAnswer, Deliver
  <2> QED  BY <1>c, <2>1
<1>4. ASSUME (\E t \in Tabs : CloseTabMidRequest(t)) \/ KillWorkerMidRequest PROVE Goal
  BY <1>0, <1>4, <1>b, ForgetTold
  DEF CloseTabMidRequest, CloseTab, KillWorkerMidRequest, KillWorker
<1>5. ASSUME UNCHANGED vars PROVE Goal
  BY <1>0, <1>5, <1>b, StillTold DEF vars
<1>6. ASSUME NEW r \in requests, ReplayCached(r) PROVE Goal
  <2>1. /\ window[r.key].phase \in {"ok", "refused", "throttled"}
        /\ Deliver(r, ResponseOf(window[r.key].phase))
        /\ window' = window
    BY <1>6, VerdictFacts DEF ReplayCached, Server!Replay
  <2>2. ResponseOf(window[r.key].phase) = "refused" => Refused(r.key)'
    BY <2>1, RefusingAnswers DEF Refused
  <2> QED  BY <1>c, <2>1, <2>2
<1>7. ASSUME NEW r \in requests, TurnAway(r) PROVE Goal
  <2>1. PICK kind \in {"in_flight", "key_reused"} :
          Server!TurnAway(r.key, r.fp, kind) /\ Deliver(r, ResponseOf(kind))
    BY <1>7, VerdictFacts DEF TurnAway
  <2>2. kind # "key_reused"
    BY <1>0, <1>a, <2>1 DEF Server!TurnAway, OneSession
  <2>3. ResponseOf(kind) # "refused"
    BY <2>1, <2>2, RefusingAnswers
  <2> QED  BY <1>c, <2>1, <2>3
<1>8. ASSUME NEW r \in requests, ViewAnswers(r) PROVE Goal
  <2>1. PICK kind \in {"ok", "refused", "throttled"} :
          Server!Close(r.key, kind) /\ Deliver(r, ResponseOf(kind))
    BY <1>8, VerdictFacts DEF ViewAnswers
  <2>2. window'[r.key].phase = kind
    BY <1>0, <1>a, <2>1 DEF Server!Close, NetTypes, ServerTypes, Server!Window
  <2>3. ResponseOf(kind) = "refused" => kind = "refused"
    BY <2>1, RefusingAnswers
  <2>4. ResponseOf(kind) = "refused" => Refused(r.key)'
    BY <2>2, <2>3 DEF Refused
  <2> QED  BY <1>c, <2>1, <2>4
<1>9. ASSUME NEW r \in requests, ViewFails(r) PROVE Goal
  <2>1. Deliver(r, ResponseOf("error")) /\ ResponseOf("error") # "refused"
    BY <1>9, RefusingAnswers DEF ViewFails
  <2> QED  BY <1>c, <2>1
<1>10. ASSUME NEW r \in requests, ServerCrashes(r) PROVE Goal
  BY <1>10, <1>c DEF ServerCrashes
<1> QED
  BY <1>1, <1>2, <1>3, <1>4, <1>5, <1>6, <1>7, <1>8, <1>9, <1>10
  DEF OfflineNext, ServerSteps, allVars, LetIn, ViewCommits, RetentionEnds

LEMMA RefusedInit == OfflineInit => RInv
<1> SUFFICES ASSUME OfflineInit PROVE RInv
  OBVIOUS
<1>1. VerdictInWriting /\ RefusalStands
  BY DEF OfflineInit, Init, VerdictInWriting, RefusalStands
<1>2. RefusedIsEmpty /\ OneSession
  BY DEF OfflineInit, Server!Init, Server!FreeWindow, RefusedIsEmpty, OneSession
<1> QED  BY <1>1, <1>2, OfflineInitially DEF RInv

LEMMA RefusedNext ==
  RInv /\ [OfflineNext]_allVars /\ [session' = session]_allVars => RInv'
<1> SUFFICES ASSUME RInv, [OfflineNext]_allVars, [session' = session]_allVars PROVE RInv'
  OBVIOUS
<1>1. session' = session
  BY DEF allVars, vars
<1>2. OInv'
  BY OfflineInductiveStep DEF RInv
<1>3. RefusedIsEmpty' /\ OneSession'
  BY <1>1, RefusalStep DEF RInv, OInv
<1> QED  BY <1>1, <1>2, <1>3, RefusalsAreToldStep DEF RInv

-----------------------------------------------------------------------------
(* The theorems *)

\* With the server in place of arbitrary answers the queue is still the queue:
\* all that is proved of Spec holds of OfflineSpec.
THEOREM QueueCarriesOver == OfflineSpec => Spec
<1>1. OfflineInit => Init
  BY DEF OfflineInit
<1>2. OInv /\ [OfflineNext]_allVars => [Next]_vars
  BY QueueStep DEF OInv
<1> QED  BY <1>1, <1>2, OfflineInductive, PTL DEF OfflineSpec, Spec

\* And the server is AtMostOnce, whoever's requests reach it.
THEOREM ServerCarriesOver == OfflineSpec => Server!Spec
<1>1. OfflineInit => Server!Init
  BY DEF OfflineInit
<1>2. OInv /\ [OfflineNext]_allVars => [Server!Next]_(Server!vars)
  BY ServerStep DEF OInv
<1> QED  BY <1>1, <1>2, OfflineInductive, PTL DEF OfflineSpec, Server!Spec

\* Every variable of the queue, the network and the server keeps its type.
THEOREM OfflineTypeCorrect == OfflineSpec => []OfflineTypeOK
<1>1. OInv => OfflineTypeOK
  BY DEF OInv, IInv, NetTypes, ServerTypes, OfflineTypeOK, Server!TypeOK
<1> QED  BY <1>1, OfflineInductive, PTL

\* Whatever is lost, repeated or answered from the cache, a key the browser
\* holds an acknowledgement of was stored by the server.
THEOREM AcknowledgementsAreTrue == OfflineSpec => []AcknowledgedHasLanded
<1>1. OInv => AcknowledgedHasLanded
  BY DEF OInv
<1> QED  BY <1>1, OfflineInductive, PTL

\* Whatever number of drains carries a key however often, it is stored once,
\* unless its retention ended or the view failed after its commit.
THEOREM KeysLandOnce == OfflineSpec => []LandsOnce
<1>1. OInv => LandsOnce
  <2> SUFFICES ASSUME OInv, NEW k \in Keys, total[k] = 2, excuse[k] = {} PROVE FALSE
    BY DEF LandsOnce
  <2>1. total[k] = IF window[k].phase = "free" THEN 0 ELSE effects[k]
    BY DEF OInv, WindowIsAll
  <2>2. effects[k] \in {0, 1}
    BY DEF OInv, WindowIsTrue
  <2> QED  BY <2>1, <2>2
<1> QED  BY <1>1, OfflineInductive, PTL

\* While the session stays with one account, a drain that is told "refused" is
\* told the truth, whichever request of the key it waited for and whatever
\* became of the others: the server stored nothing under the key and will not,
\* unless the key's retention ended or the view failed after its commit.
THEOREM RefusalsAreTrue ==
  OfflineSpec /\ [][session' = session]_allVars => []RefusedHasNotLanded
<1>1. RInv => RefusedHasNotLanded
  <2> SUFFICES ASSUME RInv, NEW d \in Drainers, verdict[d] = "permanent"
               PROVE  total[Key(d)] = 0 \/ excuse[Key(d)] # {}
    BY DEF RefusedHasNotLanded, Key
  <2>1. Key(d) \in Keys
    BY DEF RInv, OInv, IInv, VerdictInWriting, Shape, HoldsItsRow, Busy, Key, TypeOK, StoredRow
  <2>2. Refused(Key(d))
    BY DEF RInv, RefusalStands
  <2> QED  BY <2>1, <2>2 DEF RInv, OInv, Refused, RefusedIsEmpty, WindowIsAll
<1> QED  BY <1>1, RefusedInit, RefusedNext, PTL DEF OfflineSpec

=============================================================================
