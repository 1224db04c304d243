--------------------------- MODULE MutationQueue ----------------------------
(***************************************************************************)
(* The client's mutation queue: rows in the IndexedDB store                *)
(* queue:mutations and acknowledgements in meta:app, drained by every open *)
(* page (static/js/mutation_queue.js) and, with no page open, by the       *)
(* service worker (static/js/sw.js), on the transitions of                 *)
(* static/js/mutation_queue_core.js.                                       *)
(*                                                                         *)
(* A step is what one actor does between two awaits, so two drains may     *)
(* hold the same row.  The server may answer anything: OfflineReplay.tla   *)
(* adds the server.  IndexedDB itself is taken to work (a rejected put or  *)
(* delete is not modelled), and so is a database the worker created alone. *)
(***************************************************************************)
EXTENDS Naturals, FiniteSets

CONSTANTS
  Tabs,
  Passes,       \* drain() calls that can be under way in the pages
  TabOf,        \* the tab each pass belongs to
  Worker,       \* the service worker's self-drain
  Tracked,      \* caller-minted keys, of rows that carry a "kind"
  Principals,   \* accounts, the anonymous one included
  MaxRows,      \* bound: ids the store hands out
  MaxAttempts,  \* MAX_ATTEMPTS
  BatchSize,    \* BATCH_SIZE
  SyncSupported,\* whether the browser has Background Sync
  NoRow, NoKey, Closed, Unset

RowIds == 1..MaxRows

\* A row without a "kind" gets a key minted for it, here its own id.
Keys == Tracked \cup RowIds

StoredRow == [key: Keys,
              principal: Principals,
              attempts: 0..MaxAttempts,
              status: {"queued", "retry-scheduled", "failed"},
              wait: {"due", "backoff"}]     \* next_attempt_at against now

ASSUME BoundsAssumption ==
  /\ MaxRows \in Nat
  /\ MaxAttempts \in Nat \ {0}
  /\ BatchSize \in Nat \ {0}
  /\ SyncSupported \in BOOLEAN
ASSUME TabOfAssumption == TabOf \in [Passes -> Tabs]
ASSUME WorkerAssumption == Worker \notin Passes
ASSUME NoRowAssumption == NoRow \notin StoredRow
ASSUME NoKeyAssumption == NoKey \notin Tracked
ASSUME TrackedAssumption == Tracked \cap RowIds = {}
ASSUME PrincipalsAssumption == Closed \notin Principals /\ Unset \notin Principals

VARIABLES
  \* IndexedDB
  store,      \* queue:mutations, by id
  nextId,     \* the store's autoIncrement generator
  acks,       \* keys with a mutations.ack record
  stored,     \* mutations.principal, or Unset
  notice,     \* whether mutations.discard-notice is present
  \* the browser
  online,     \* the app is using the network
  session,    \* the signed-in account
  sync,       \* whether the Background Sync tag is registered
  \* the pages
  page,       \* per tab: Closed, or the account its pwa-user-id names
  rec,        \* per tab: progress of the load-time reconcile
  enq,        \* per tab: a key looked up and about to be put
  \* the drains, the pages' and the worker's
  pc, batch, cur, verdict,
  guard,      \* the worker's copy of mutations.principal
  more,       \* the worker's retryableRemaining
  \* history
  landed,     \* tracked keys a drain has deleted the row of, as replayed
  reported    \* rows whose permanent failure has been reported

dbVars == <<store, nextId, acks, stored, notice>>
pageVars == <<page, rec, enq>>
drainVars == <<pc, batch, cur, verdict>>
workerVars == <<guard, more>>
history == <<landed, reported>>
vars == <<dbVars, online, session, sync, pageVars, drainVars, workerVars, history>>

Drainers == Passes \cup {Worker}

Steps == {"idle", "awake", "meta", "loop", "fetch", "ack", "delete", "check",
          "write", "notice"}

NoBatch == [i \in RowIds |-> NoRow]

TypeOK ==
  /\ store \in [RowIds -> StoredRow \cup {NoRow}]
  /\ nextId \in 1..(MaxRows + 1)
  /\ acks \subseteq Tracked
  /\ stored \in Principals \cup {Unset}
  /\ notice \in BOOLEAN
  /\ online \in BOOLEAN
  /\ session \in Principals
  /\ sync \in BOOLEAN
  /\ page \in [Tabs -> Principals \cup {Closed}]
  /\ rec \in [Tabs -> {"idle", "notices", "compare", "clear", "persist"}]
  /\ enq \in [Tabs -> Tracked \cup {NoKey}]
  /\ pc \in [Drainers -> Steps]
  /\ batch \in [Drainers -> [RowIds -> StoredRow \cup {NoRow}]]
  /\ cur \in [Drainers -> 0..MaxRows]
  /\ verdict \in [Drainers -> {"none", "retry", "permanent"}]
  /\ guard \in Principals \cup {Unset}
  /\ more \in BOOLEAN
  /\ landed \subseteq Tracked
  /\ reported \subseteq RowIds

Init ==
  /\ store = NoBatch
  /\ nextId = 1
  /\ acks = {}
  /\ stored = Unset
  /\ notice = FALSE
  /\ online = TRUE
  /\ session \in Principals
  /\ sync = FALSE
  /\ page = [t \in Tabs |-> Closed]
  /\ rec = [t \in Tabs |-> "idle"]
  /\ enq = [t \in Tabs |-> NoKey]
  /\ pc = [d \in Drainers |-> "idle"]
  /\ batch = [d \in Drainers |-> NoBatch]
  /\ cur = [d \in Drainers |-> 0]
  /\ verdict = [d \in Drainers |-> "none"]
  /\ guard = Unset
  /\ more = FALSE
  /\ landed = {}
  /\ reported = {}

-----------------------------------------------------------------------------
(* mutation_queue_core.js *)

\* What a replay can meet: a 2xx or a status the row declared as done; 408 or
\* 429; the middleware's in-flight 409; a 5xx; any other 4xx; a 1xx or 3xx; no
\* answer at all.
Responses == {"success", "throttled", "in_flight", "server_error", "refused",
              "unusual", "no_answer"}

\* Fault: the in-flight 409 is a 409 like any other.
ClassifyAnyConflict(response) ==
  CASE response = "success" -> "success"
    [] response \in {"refused", "in_flight"} -> "permanent"
    [] OTHER -> "retry"

\* Fault: a 409 of the idempotency middleware reads as "already done".
ClassifyConflictAsDone(response) ==
  CASE response \in {"success", "in_flight"} -> "success"
    [] response = "refused" -> "permanent"
    [] OTHER -> "retry"

ClassifyStatus(response) ==
  CASE response = "success" -> "success"
    [] response = "refused" -> "permanent"
    [] OTHER -> "retry"

IsRowEligible(r) == r # NoRow /\ r.status # "failed" /\ r.wait = "due"

Eligible == {i \in RowIds : IsRowEligible(store[i])}

\* Fault: the batch is the oldest rows, filtered afterwards.
SelectOldestThenFilter ==
  LET present == {i \in RowIds : store[i] # NoRow}
  IN  [i \in RowIds |->
        IF /\ IsRowEligible(store[i])
           /\ Cardinality({j \in present : j < i}) < BatchSize
          THEN store[i] ELSE NoRow]

\* Eligible rows first, then the cap, oldest first.
SelectDrainBatch ==
  [i \in RowIds |->
    IF /\ i \in Eligible
       /\ Cardinality({j \in Eligible : j < i}) < BatchSize
      THEN store[i] ELSE NoRow]

\* Fault: the attempt ceiling is off by one.
NextRowStateLate(r, outcome) ==
  IF outcome = "permanent" \/ r.attempts + 1 > MaxAttempts
    THEN [r EXCEPT !.attempts = @ + 1, !.status = "failed"]
    ELSE [r EXCEPT !.attempts = @ + 1, !.status = "retry-scheduled",
                   !.wait = "backoff"]

\* The row an attempt that did not succeed leaves.
NextRowState(r, outcome) ==
  IF outcome = "permanent" \/ r.attempts + 1 >= MaxAttempts
    THEN [r EXCEPT !.attempts = @ + 1, !.status = "failed"]
    ELSE [r EXCEPT !.attempts = @ + 1, !.status = "retry-scheduled",
                   !.wait = "backoff"]

-----------------------------------------------------------------------------
(* Helpers *)

NewRow(k, p) ==
  [key |-> k, principal |-> p, attempts |-> 0, status |-> "queued",
   wait |-> "due"]

Deleted(ids) == [i \in RowIds |-> IF i \in ids THEN NoRow ELSE store[i]]

RegisterBackgroundSync == sync' = (sync \/ SyncSupported)

\* The rows a drain has still to process, oldest first.
IsNext(d, i) ==
  /\ batch[d][i] # NoRow
  /\ \A j \in RowIds : batch[d][j] # NoRow => i <= j

Done(d) == \A i \in RowIds : batch[d][i] = NoRow

\* The drain turns to its next row.
NextRow(d, i) ==
  /\ pc' = [pc EXCEPT ![d] = "loop"]
  /\ batch' = [batch EXCEPT ![d][i] = NoRow]
  /\ cur' = [cur EXCEPT ![d] = 0]
  /\ verdict' = [verdict EXCEPT ![d] = "none"]

\* The drain's JavaScript ends, or is killed.
Forget(ds) ==
  /\ pc' = [d \in Drainers |-> IF d \in ds THEN "idle" ELSE pc[d]]
  /\ batch' = [d \in Drainers |-> IF d \in ds THEN NoBatch ELSE batch[d]]
  /\ cur' = [d \in Drainers |-> IF d \in ds THEN 0 ELSE cur[d]]
  /\ verdict' = [d \in Drainers |-> IF d \in ds THEN "none" ELSE verdict[d]]

-----------------------------------------------------------------------------
(* enqueue() and discard() *)

(* A row with a minted key.  The drain enqueue() starts is StartDrain.     *)
EnqueueMinted(t) ==
  /\ page[t] # Closed
  /\ nextId <= MaxRows
  /\ store' = [store EXCEPT ![nextId] = NewRow(nextId, page[t])]
  /\ nextId' = nextId + 1
  /\ RegisterBackgroundSync
  /\ UNCHANGED <<acks, stored, notice, online, session, pageVars, drainVars,
                 workerVars, history>>

(* A caller's own key: a row that has it already is not queued twice, an   *)
(* acknowledgement of it is not looked for.                                *)
EnqueueLook(t, k) ==
  /\ page[t] # Closed
  /\ enq[t] = NoKey
  /\ \A i \in RowIds : store[i] # NoRow => store[i].key # k
  /\ nextId <= MaxRows
  /\ enq' = [enq EXCEPT ![t] = k]
  /\ UNCHANGED <<dbVars, online, session, sync, page, rec, drainVars,
                 workerVars, history>>

(* The put is a transaction of its own, after the look.                    *)
EnqueuePut(t) ==
  /\ enq[t] # NoKey
  /\ nextId <= MaxRows
  /\ store' = [store EXCEPT ![nextId] = NewRow(enq[t], page[t])]
  /\ nextId' = nextId + 1
  /\ enq' = [enq EXCEPT ![t] = NoKey]
  /\ RegisterBackgroundSync
  /\ UNCHANGED <<acks, stored, notice, online, session, page, rec, drainVars,
                 workerVars, history>>

(* The user throws away a row of theirs.                                   *)
Discard(t, k) ==
  /\ page[t] # Closed
  /\ LET mine == {i \in RowIds : /\ store[i] # NoRow
                                 /\ store[i].key = k
                                 /\ store[i].principal = page[t]}
     IN  mine # {} /\ store' = Deleted(mine)
  /\ UNCHANGED <<nextId, acks, stored, notice, online, session, sync, pageVars,
                 drainVars, workerVars, history>>

-----------------------------------------------------------------------------
(* The page's drain() *)

\* Fault: drain() has no in-flight guard.
StartDrainUnguarded(d) ==
  /\ page[TabOf[d]] # Closed
  /\ online
  /\ pc[d] = "idle"
  /\ pc' = [pc EXCEPT ![d] = "loop"]
  /\ batch' = [batch EXCEPT ![d] = SelectDrainBatch]
  /\ UNCHANGED <<dbVars, online, session, sync, pageVars, cur, verdict,
                 workerVars, history>>

(* Any trigger, when the app uses the network and no pass of this page is  *)
(* in flight: read every row, once, and keep the batch.                    *)
StartDrain(d) ==
  /\ page[TabOf[d]] # Closed
  /\ online
  /\ \A e \in Passes : TabOf[e] = TabOf[d] => pc[e] = "idle"
  /\ pc' = [pc EXCEPT ![d] = "loop"]
  /\ batch' = [batch EXCEPT ![d] = SelectDrainBatch]
  /\ UNCHANGED <<dbVars, online, session, sync, pageVars, cur, verdict,
                 workerVars, history>>

EndDrain(d) ==
  /\ pc[d] = "loop"
  /\ Done(d)
  /\ Forget({d})
  /\ UNCHANGED <<dbVars, online, session, sync, pageVars, workerVars, history>>

(* The drain-guard: a row of another account is deleted, not sent.         *)
DiscardMismatch(d, i) ==
  /\ pc[d] = "loop"
  /\ IsNext(d, i)
  /\ batch[d][i].principal # page[TabOf[d]]
  /\ store' = Deleted({i})
  /\ NextRow(d, i)
  /\ UNCHANGED <<nextId, acks, stored, notice, online, session, sync, pageVars,
                 workerVars, history>>

SendTo(d, i) ==
  /\ pc' = [pc EXCEPT ![d] = "fetch"]
  /\ cur' = [cur EXCEPT ![d] = i]
  /\ UNCHANGED <<dbVars, online, session, sync, pageVars, batch, verdict,
                 workerVars, history>>

(* The replay is posted.                                                   *)
Send(d, i) ==
  /\ pc[d] = "loop"
  /\ IsNext(d, i)
  /\ batch[d][i].principal = page[TabOf[d]]
  /\ SendTo(d, i)

-----------------------------------------------------------------------------
(* What either drain does with an answer *)

(* classifyStatus on the answer.                                           *)
Answer(d, response) ==
  /\ pc[d] = "fetch"
  /\ LET outcome == ClassifyStatus(response)
     IN  IF outcome = "success"
           THEN /\ pc' = [pc EXCEPT ![d] = "ack"]
                /\ UNCHANGED verdict
           ELSE /\ pc' = [pc EXCEPT ![d] = "check"]
                /\ verdict' = [verdict EXCEPT ![d] = outcome]
  /\ UNCHANGED <<dbVars, online, session, sync, pageVars, batch, cur,
                 workerVars, history>>

\* Fault: the row is deleted with no acknowledgement before it.
PutAckNever(d) ==
  /\ pc[d] = "ack"
  /\ pc' = [pc EXCEPT ![d] = "delete"]
  /\ UNCHANGED <<dbVars, online, session, sync, pageVars, batch, cur, verdict,
                 workerVars, history>>

(* A row with a kind is acknowledged before it is deleted.                 *)
PutAck(d) ==
  /\ pc[d] = "ack"
  /\ acks' = acks \cup ({batch[d][cur[d]].key} \cap Tracked)
  /\ pc' = [pc EXCEPT ![d] = "delete"]
  /\ UNCHANGED <<store, nextId, stored, notice, online, session, sync,
                 pageVars, batch, cur, verdict, workerVars, history>>

DeleteReplayed(d) ==
  /\ pc[d] = "delete"
  /\ store' = Deleted({cur[d]})
  /\ landed' = landed \cup ({batch[d][cur[d]].key} \cap Tracked)
  /\ NextRow(d, cur[d])
  /\ UNCHANGED <<nextId, acks, stored, notice, online, session, sync, pageVars,
                 workerVars, reported>>

(* _writeBack: a row acknowledged meanwhile is left alone...               *)
CheckAck(d) ==
  /\ pc[d] = "check"
  /\ IF batch[d][cur[d]].key \in acks
       THEN NextRow(d, cur[d])
       ELSE /\ pc' = [pc EXCEPT ![d] = "write"]
            /\ UNCHANGED <<batch, cur, verdict>>
  /\ UNCHANGED <<dbVars, online, session, sync, pageVars, workerVars, history>>

\* Fault: the write-back is a plain put.
WriteBackUpsert(d) ==
  LET i == cur[d]
      r == NextRowState(batch[d][i], verdict[d])
  IN  /\ pc[d] = "write"
      /\ store' = [store EXCEPT ![i] = r]
      /\ reported' = IF r.status = "failed" THEN reported \cup {i} ELSE reported
      /\ more' = (more \/ (d = Worker /\ r.status # "failed"))
      /\ NextRow(d, i)
      /\ UNCHANGED <<nextId, acks, stored, notice, online, session, sync,
                     pageVars, guard, landed>>

\* Fault: a failure is reported whether or not the row was written.
WriteBackReports(d) ==
  LET i == cur[d]
      r == NextRowState(batch[d][i], verdict[d])
  IN  /\ pc[d] = "write"
      /\ store' = [store EXCEPT ![i] = IF @ = NoRow THEN NoRow ELSE r]
      /\ reported' = IF r.status = "failed" THEN reported \cup {i} ELSE reported
      /\ more' = (more \/ (d = Worker /\ r.status # "failed"))
      /\ NextRow(d, i)
      /\ UNCHANGED <<nextId, acks, stored, notice, online, session, sync,
                     pageVars, guard, landed>>

(* ... and a row that has gone is not written; both in one readwrite       *)
(* transaction, and nothing is reported of a row that was not written.     *)
WriteBack(d) ==
  LET i == cur[d]
      r == NextRowState(batch[d][i], verdict[d])
  IN  /\ pc[d] = "write"
      /\ IF store[i] = NoRow
           THEN UNCHANGED <<store, reported, more>>
           ELSE /\ store' = [store EXCEPT ![i] = r]
                /\ reported' = IF r.status = "failed" THEN reported \cup {i}
                                                      ELSE reported
                /\ more' = (more \/ (d = Worker /\ r.status # "failed"))
      /\ NextRow(d, i)
      /\ UNCHANGED <<nextId, acks, stored, notice, online, session, sync,
                     pageVars, guard, landed>>

-----------------------------------------------------------------------------
(* The service worker *)

(* A sync event: hand it to the open pages, or drain without them.         *)
SyncFires ==
  /\ sync
  /\ online
  /\ pc[Worker] = "idle"
  /\ sync' = FALSE
  /\ IF \E t \in Tabs : page[t] # Closed
       THEN UNCHANGED pc
       ELSE pc' = [pc EXCEPT ![Worker] = "awake"]
  /\ UNCHANGED <<dbVars, online, session, pageVars, batch, cur, verdict,
                 workerVars, history>>

(* _selfDrainMutations reads every row, unless an offline mode is in force. *)
WorkerReadRows ==
  /\ pc[Worker] = "awake"
  /\ IF online
       THEN /\ pc' = [pc EXCEPT ![Worker] = "meta"]
            /\ batch' = [batch EXCEPT ![Worker] = store]
       ELSE /\ pc' = [pc EXCEPT ![Worker] = "idle"]
            /\ UNCHANGED batch
  /\ more' = FALSE
  /\ UNCHANGED <<dbVars, online, session, sync, pageVars, cur, verdict, guard,
                 history>>

(* ... and then the principal the last page left.                          *)
WorkerReadPrincipal ==
  /\ pc[Worker] = "meta"
  /\ guard' = stored
  /\ pc' = [pc EXCEPT ![Worker] = "loop"]
  /\ UNCHANGED <<dbVars, online, session, sync, pageVars, batch, cur, verdict,
                 more, history>>

ForeignToWorker(r) == guard # Unset /\ r.principal # guard

(* The worker's guard deletes a row of another account...                   *)
WorkerDiscard(i) ==
  /\ pc[Worker] = "loop"
  /\ IsNext(Worker, i)
  /\ ForeignToWorker(batch[Worker][i])
  /\ store' = Deleted({i})
  /\ IF batch[Worker][i].key \in Tracked
       THEN /\ pc' = [pc EXCEPT ![Worker] = "notice"]
            /\ cur' = [cur EXCEPT ![Worker] = i]
            /\ UNCHANGED <<batch, verdict>>
       ELSE NextRow(Worker, i)
  /\ UNCHANGED <<nextId, acks, stored, notice, online, session, sync, pageVars,
                 workerVars, history>>

(* ... and, of a row with a kind, leaves a notice for the next page.        *)
WorkerNotice ==
  /\ pc[Worker] = "notice"
  /\ notice' = TRUE
  /\ NextRow(Worker, cur[Worker])
  /\ UNCHANGED <<store, nextId, acks, stored, online, session, sync, pageVars,
                 workerVars, history>>

WorkerSkip(i) ==
  /\ pc[Worker] = "loop"
  /\ IsNext(Worker, i)
  /\ ~ForeignToWorker(batch[Worker][i])
  /\ ~IsRowEligible(batch[Worker][i])
  /\ more' = (more \/ batch[Worker][i].status # "failed")
  /\ NextRow(Worker, i)
  /\ UNCHANGED <<dbVars, online, session, sync, pageVars, guard, history>>

WorkerSend(i) ==
  /\ pc[Worker] = "loop"
  /\ IsNext(Worker, i)
  /\ ~ForeignToWorker(batch[Worker][i])
  /\ IsRowEligible(batch[Worker][i])
  /\ SendTo(Worker, i)

(* The handler throws when a row still needs a retry, so that the browser  *)
(* schedules the sync again.                                               *)
WorkerEnd ==
  /\ pc[Worker] = "loop"
  /\ Done(Worker)
  /\ sync' = (sync \/ more)
  /\ Forget({Worker})
  /\ guard' = Unset
  /\ more' = FALSE
  /\ UNCHANGED <<dbVars, online, session, pageVars, history>>

-----------------------------------------------------------------------------
(* Page load, and the load-time reconcile *)

LoadPage(t) ==
  /\ page[t] = Closed
  /\ page' = [page EXCEPT ![t] = session]
  /\ rec' = [rec EXCEPT ![t] = "notices"]
  /\ UNCHANGED <<dbVars, online, session, sync, enq, drainVars, workerVars,
                 history>>

\* Acknowledgements that may be past their week: no drain under way started
\* that long ago.
Prunable == {k \in acks : \A d \in Drainers, i \in RowIds :
                            batch[d][i] # NoRow => batch[d][i].key # k}

(* _readNoticesAndPrune.                                                   *)
ReadNoticesAndPrune(t) ==
  /\ rec[t] = "notices"
  /\ notice' = FALSE
  /\ \E old \in SUBSET Prunable :
       /\ acks' = acks \ old
       /\ landed' = landed \ old
  /\ rec' = [rec EXCEPT ![t] = "compare"]
  /\ UNCHANGED <<store, nextId, stored, online, session, sync, page, enq,
                 drainVars, workerVars, reported>>

(* _reconcilePrincipal: compare the page's account with the stored one...  *)
ReconcileCompare(t) ==
  /\ rec[t] = "compare"
  /\ rec' = [rec EXCEPT ![t] = IF stored = page[t] THEN "idle" ELSE "clear"]
  /\ UNCHANGED <<dbVars, online, session, sync, page, enq, drainVars,
                 workerVars, history>>

(* ... on a mismatch clear the whole queue...                              *)
ReconcileClear(t) ==
  /\ rec[t] = "clear"
  /\ store' = Deleted(RowIds)
  /\ rec' = [rec EXCEPT ![t] = "persist"]
  /\ UNCHANGED <<nextId, acks, stored, notice, online, session, sync, page, enq,
                 drainVars, workerVars, history>>

(* ... and then store the new account.                                     *)
ReconcilePersist(t) ==
  /\ rec[t] = "persist"
  /\ stored' = page[t]
  /\ rec' = [rec EXCEPT ![t] = "idle"]
  /\ UNCHANGED <<store, nextId, acks, notice, online, session, sync, page, enq,
                 drainVars, workerVars, history>>

-----------------------------------------------------------------------------
(* The environment *)

(* A tab is closed or navigates away, with whatever it was doing.          *)
CloseTab(t) ==
  /\ page[t] # Closed
  /\ page' = [page EXCEPT ![t] = Closed]
  /\ rec' = [rec EXCEPT ![t] = "idle"]
  /\ enq' = [enq EXCEPT ![t] = NoKey]
  /\ Forget({d \in Passes : TabOf[d] = t})
  /\ UNCHANGED <<dbVars, online, session, sync, workerVars, history>>

(* The browser stops the worker in the middle of a pass, and fires the     *)
(* sync again later.                                                       *)
KillWorker ==
  /\ pc[Worker] # "idle"
  /\ sync' = TRUE
  /\ Forget({Worker})
  /\ guard' = Unset
  /\ more' = FALSE
  /\ UNCHANGED <<dbVars, online, session, pageVars, history>>

ConnectivityChanges ==
  /\ online' = ~online
  /\ UNCHANGED <<dbVars, session, sync, pageVars, drainVars, workerVars,
                 history>>

SignIn(p) ==
  /\ session # p
  /\ session' = p
  /\ UNCHANGED <<dbVars, online, sync, pageVars, drainVars, workerVars, history>>

BackoffElapses(i) ==
  /\ store[i] # NoRow
  /\ store[i].wait = "backoff"
  /\ store' = [store EXCEPT ![i].wait = "due"]
  /\ UNCHANGED <<nextId, acks, stored, notice, online, session, sync, pageVars,
                 drainVars, workerVars, history>>

-----------------------------------------------------------------------------

Enqueue(t) ==
  EnqueueMinted(t) \/ EnqueuePut(t) \/ \E k \in Tracked : EnqueueLook(t, k)

Reconcile(t) ==
  \/ ReadNoticesAndPrune(t) \/ ReconcileCompare(t)
  \/ ReconcileClear(t) \/ ReconcilePersist(t)

\* A drain's own steps, apart from posting and being answered.
PagePass(d) ==
  \/ StartDrain(d) \/ EndDrain(d)
  \/ \E i \in RowIds : DiscardMismatch(d, i)

WorkerPass ==
  \/ WorkerReadRows \/ WorkerReadPrincipal \/ WorkerNotice \/ WorkerEnd
  \/ \E i \in RowIds : WorkerDiscard(i) \/ WorkerSkip(i)

Post(d) ==
  \E i \in RowIds : IF d = Worker THEN WorkerSend(i) ELSE Send(d, i)

Settle(d) == PutAck(d) \/ DeleteReplayed(d) \/ CheckAck(d) \/ WriteBack(d)

Receive(d) == \E response \in Responses : Answer(d, response)

Environment ==
  \/ \E t \in Tabs : LoadPage(t)
  \/ ConnectivityChanges
  \/ \E p \in Principals : SignIn(p)

\* What happens in the browser without a request being posted or cut off.
Local ==
  \/ \E t \in Tabs : \/ Enqueue(t) \/ Reconcile(t)
                     \/ \E k \in Tracked : Discard(t, k)
  \/ \E d \in Passes : PagePass(d)
  \/ SyncFires \/ WorkerPass
  \/ \E d \in Drainers : Settle(d)
  \/ \E i \in RowIds : BackoffElapses(i)
  \/ Environment

Next ==
  \/ Local
  \/ \E d \in Drainers : Post(d) \/ Receive(d)
  \/ \E t \in Tabs : CloseTab(t)
  \/ KillWorker

Spec == Init /\ [][Next]_vars

\* The triggers recur (a 30 s timer in a visible page), a pass that is not
\* killed proceeds, every fetch is answered or fails, backoff elapses.
Fairness ==
  /\ \A d \in Passes : WF_vars(PagePass(d) \/ Post(d))
  /\ \A d \in Drainers : WF_vars(Settle(d)) /\ WF_vars(Receive(d))
  /\ \A t \in Tabs : WF_vars(Reconcile(t))
  /\ \A i \in RowIds : WF_vars(BackoffElapses(i))

FairSpec == Spec /\ Fairness

-----------------------------------------------------------------------------
(* Properties *)

\* A row that was deleted (replayed, discarded, cleared) is never re-created,
\* whatever stale copy of it another drain holds ("a drain never writes back a
\* row that has gone", docs/mutation-queue.md).
NoGhostRow ==
  [][\A i \in RowIds : i < nextId /\ store[i] = NoRow => store'[i] = NoRow]_vars

\* A replayed row with a kind is never gone without its acknowledgement: no
\* reader finds neither, which it would read as "never sent".
LandedIsAcknowledged == landed \subseteq acks

\* In one page no two drain passes hold the same row: the in-flight guard
\* serialises every trigger (_drainInFlight).
OnePassPerPage ==
  \A d, e \in Passes :
    TabOf[d] = TabOf[e] /\ pc[d] # "idle" /\ pc[e] # "idle" => d = e

\* A permanent failure is reported only of a row that is in the store and now
\* reads failed: never of one another drain has landed and deleted
\* (_markRowFailed).
ReportedRowIsThere ==
  [][\A i \in reported' \ reported :
       store[i] # NoRow /\ store'[i].status = "failed"]_vars

\* A row that can still be retried has attempts left, in the store and in
\* every copy a drain holds, however stale: no drain ever exceeds the ceiling.
AttemptsLeft ==
  /\ \A i \in RowIds : store[i] # NoRow /\ store[i].status # "failed"
                         => store[i].attempts < MaxAttempts
  /\ \A d \in Drainers, i \in RowIds :
       batch[d][i] # NoRow /\ batch[d][i].status # "failed"
         => batch[d][i].attempts < MaxAttempts

\* A failure is final: "no further retry" (docs/mutation-queue.md, "State
\* machine").  One page's drains keep to it; two tabs' do not.
FailedIsFinal ==
  [][\A i \in RowIds :
       store[i] # NoRow /\ store'[i] # NoRow /\ store[i].status = "failed"
         => store'[i].status = "failed"]_vars

\* An attempt made stays counted, whichever drain writes last: "attempts always
\* counts attempts actually made" (ibid.).
AttemptsNeverDrop ==
  [][\A i \in RowIds :
       store[i] # NoRow /\ store'[i] # NoRow
         => store'[i].attempts >= store[i].attempts]_vars

\* What a reconcile cleared stays cleared: when it stores the new account, any
\* row in the store is of an account some open page serves, though a drain begun
\* before may still hold copies of the cleared rows (_reconcilePrincipal).  Tabs
\* of one account only: one of another could enqueue for its own and close.
ClearedStaysCleared ==
  \A t \in Tabs : rec[t] = "persist" =>
    \A i \in RowIds : store[i] # NoRow => \E u \in Tabs : page[u] = store[i].principal

\* Premises of what the proofs say of tabs that serve one account, and of drains
\* that do not overlap.
OneAccountOpen == \A t, u \in Tabs : Closed \notin {page[t], page[u]} => page[t] = page[u]

OneDrain == \A d, e \in Drainers : pc[d] # "idle" /\ pc[e] # "idle" => d = e

PageStays == \E t \in Tabs : <>[](page[t] # Closed /\ online)

Present(i) == store[i] # NoRow

\* No row is starved: with a page open and the network in use from some point
\* on, every row ends deleted or failed, whatever failed rows stand before it
\* (selectDrainBatch).  The exception is a row acknowledged by a page that
\* closed before deleting it: its failed replays are not written back, and it is
\* retried for ever.
EveryRowSettles ==
  PageStays =>
    \/ \A i \in RowIds : <>[](Present(i) => store[i].status = "failed")
    \/ <>[](\E i \in RowIds : Present(i) /\ store[i].key \in acks)

=============================================================================
