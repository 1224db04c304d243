# Formal models of Snowdesk's writes, messages and runs

TLA+ specifications of the parts of Snowdesk in which several actors share
state: the idempotency layer of the Django backend, the mutation queue that
browser pages and the service worker drain into it, the draft of a drawn route
that is saved through both, the downloaded areas a shared browser records to
accounts, the bulletin alerts with their send log, and the management commands
that operators start remotely. TLC checks them on small
instances, TLAPS proves the central invariants for every instance.

Line numbers in this file and in `PROJECT.json` are of the repository's own
files; `PROJECT.json` maps each definition to the lines it stands for.

## 1. Inventory

### The system and its parts

| Part | State it keeps | Operations | Talks to |
|---|---|---|---|
| Idempotency middleware, `apps/core/idempotency.py`, `apps/core/models.py` | one `IdempotencyRecord` per key: RESERVED or COMPLETED, fingerprint, captured response, `expires_at` | `reserve`, `complete`, `release`, answering a lost claim | any view under it; the queue's replays |
| Mutation queue, page side, `static/js/mutation_queue.js`, `mutation_queue_core.js` | IndexedDB `queue:mutations` rows; in `meta:app` the acknowledgements, the last account, the discard notice; per page `_drainInFlight` | `enqueue`, `drain`, `_processRow`, `_writeBack`, `discard`, `_reconcilePrincipal`, `_readNoticesAndPrune` | the server (fetch), the worker (message `drain-mutations`, the same IndexedDB), `route_draw.js` |
| Mutation queue, worker side, `static/js/sw.js` 5500-5932 | none of its own; the Background Sync registration | `_handleMutationSync`, `_selfDrainMutations`, `_writeBackMutation` | the same IndexedDB, the server |
| Drawn route draft, `static/js/route_draw.js` | one draft in `localStorage`, with the key of its save and of a refused one | `save`, `queueSave`, `reconcileDraft`, `edit`, `discard` | the server, the queue's `enqueue`, `list`, `acknowledged`, `discard` |
| Bulletin alerts, `apps/bulletins/services/alerts.py` | `BulletinAlert` rows: PENDING, SENT, FAILED, SKIPPED, BASELINE per account, region, day and fingerprint | `evaluate_account`, `deliver`, `_worker_deliver_alert` | the task queue, push, email |
| Command tasks, `apps/core/command_tasks.py`, `remote_commands.py`, `command_register.py` | `CommandRun` rows, READY and RUNNING task rows, cache counters | `enqueue_each`, `enqueue_command`, `run_command_task`, `wait_for_slot`, `back_off` | `db_worker`, the scheduler, outside services |
| Ingest and apply, `apps/ingest/`, `apps/bulletins/services/apply.py` | bulletins and their region associations | fetch, normalise, upsert | providers; alerts read the result |
| Data feed pull, `apps/data_feed/services/` | local copies of production rows | per-item apply | the production feed |
| Weather, `apps/weather/services/` | forecast rows per location and day | fetch, upsert, backfill | the weather provider, command tasks |
| Downloaded areas, `static/js/downloads_sync.js`, `map_basemap_downloads.js`, `map_region_download.js`, `map_downloads_manager.js`, `basemap_area_removal.js`, `apps/downloads/` | in `meta:app` the arrays `basemap.regions` and `basemap.customAreas`, each record stamped with its account, and a marker of what was pushed; a `DownloadArea` row per account and area; tiles in Cache Storage | download, claim, adopt, repair, rename, heal, evict, forget | the mutation queue, other tabs through IndexedDB |
| Service worker caches, `static/js/sw.js`, `sw_register.js` | Cache Storage, the worker's version | install, activate, fetch, reset | every page |
| Accounts, OAuth, MCP | sessions, signed tokens, subscriptions | sign-in, verification, push | every request |
| Render models, ratings, map and panels | none shared | pure transformations, user interface | - |

### What is hard about it

- *Interleaving.* A pass of `drain()` is serial inside one page, and nothing
  serialises two tabs, or a tab and the worker. Every `await` is a point where
  another actor runs: rows are read once at the start of a pass and written
  back after a fetch that can take as long as the network likes.
- *Crashes.* A page closes and a worker is stopped between any two awaits; a
  web worker dies between any two statements. IndexedDB, the database and
  requests already sent stay.
- *Delivery.* A request can be lost, its answer can be lost, and a request
  left behind by a closed page can still run. The `Idempotency-Key` is all that
  ties the retries together.
- *Order.* An alert's rows are written before its message is delivered and
  settled after it, with other runs of the command in between; the latest row of
  a day is by `updated_at`, which settling moves.
- *Stale reads.* What `reconcileDraft` and Edit read of the queue while the save
  goes on. An array of records that is read, changed and put back whole while
  another tab changes it. The account a page belongs to, the acknowledgement a
  write-back looks for, the row a reservation collided with.

### What makes each part correct

- Idempotency: one holder per key; what is cached is true; only the holder
  frees its key; every request is answered; within a window the view's effect
  lands at most once.
- Queue: no deleted row comes back; a landed row is never gone without its
  acknowledgement; failures are reported only of rows that are there; attempts
  stay under the ceiling; a failed row stays failed; nobody is starved; a row
  is replayed for its own account.
- Queue and server together: an acknowledged save was stored, a refused one was
  not, and a key is stored once.
- Alerts: a row that counts as told is in a message that will settle it; the log
  says what the person heard; one that reached nobody is tried again; the evening
  before a trip its bulletin is sent.
- Remote commands: one remote run of a command at a time; the register shows what
  runs and how what ran ended; a dead run does not block for ever.
- Draft: a line becomes one route, however often its save is repeated; a key is
  sent with one body; a draft offered as refused was refused; what is stored of a
  line goes with a save of its own.
- Downloads: an area goes to one account, the first to claim it; nothing is
  recorded to an account whose area it never was; what stays held gets there.

`PROJECT.json` lists the hazards at their lines, with the properties that cover
each, and every component with what is and is not modelled.

## 2. Modules

| Module | What it is |
|---|---|
| `AtMostOnce` | the abstract server: per key a window that is free, running or closed with a verdict |
| `Idempotency` | the middleware and its table, one step per database statement |
| `IdempotencyProofs` | theorems about `Idempotency`, and that it implements `AtMostOnce` |
| `MutationQueue` | the queue in IndexedDB, the pages' drains, the worker's drain, the reconcile |
| `MutationQueueProofs` | theorems about `MutationQueue` |
| `OfflineReplay` | `MutationQueue` against `AtMostOnce`, over a lossy network |
| `OfflineReplayProofs` | theorems about `OfflineReplay` |
| `RouteDraft` | the draft of a drawn route, its save and its reconcile, against a queue and a server reduced to what they answer |
| `RouteDraftProofs` | theorems about `RouteDraft` |
| `Alerts` | the alerts of one account: the command, the delivery worker, the send log |
| `AlertsProofs` | theorems about `Alerts` |
| `RemoteCommands` | one command started remotely: the request's checks, the task, the register, the sweep |
| `RemoteCommandsProofs` | theorems about `RemoteCommands` |
| `Downloads` | whose the areas held on a shared browser are, and what of them the account is told |
| `DownloadsProofs` | theorems about `Downloads` |
| `MC...` | the instances for TLC, one module for each of the seven |

```
   MutationQueue ------EXTENDS------> OfflineReplay
                                          |  INSTANCE
   Idempotency ---implements--------> AtMostOnce
                                          :  (each key runs once: LandsOnce)
   RouteDraft . . . . . . . . . . . . . . .

   Alerts, RemoteCommands, Downloads: on their own
```

`OfflineReplay` talks to the abstract window rather than to the middleware, so
that a request is answered in one step. `Refinement` (the middleware implements
the window) and `ServerCarriesOver` (the composition keeps to it) are what make
the exchange sound.

### Idempotency

`row` is the table. A web worker's request is in one of the `Steps` named after
the statement it is about to make: `insert` (the INSERT inside its savepoint),
`takeover` (the conditional UPDATE of an expired row), `getClaimed` and `getLost`
(the `get`, after an UPDATE that did or did not match), `view`, `committed`,
`completeOk` and `completeRefused`, `release`. `age` stands for `expires_at`
against now. Fingerprints are opaque. `effects` and `answer` are history: the
view's commits since the key was claimed, and the last answer sent.

There is no `ATOMIC_REQUESTS`, so `ViewCommits` and `ViewAnswers` are separate
and `ViewFails` may follow a commit. A view refuses (3xx, 4xx) before it writes
and answers 2xx after it, as `route_create_drawn` does; a view that commits and
then answers 4xx is outside the model, and `CachedVerdictIsTrue` depends on it.
`Expire` is not allowed while the key has a holder: a request is answered or
killed by the server's timeout long before 24 hours.

### MutationQueue

`store` holds the rows by id, `acks`, `stored` and `notice` the records of
`meta:app`. A row is its key, account, attempts, status and whether its backoff
has elapsed. `page[t]` is the account the tab's `<meta name="pwa-user-id">`
names, `session` the account of the cookie. A drain (`Passes` are the pages'
`drain()` calls, `Worker` is the service worker's) carries the copies it read
(`batch`), its current row, its verdict and its `pc`:

| `pc` | in `_processRow` / `_selfDrainMutations` |
|---|---|
| `loop` | picking the next row of the batch |
| `fetch` | waiting for the replay |
| `ack`, `delete` | a success: acknowledgement put, row still to delete |
| `check`, `write` | no success: looking for an acknowledgement, then the readwrite transaction |
| `awake`, `meta`, `notice` | the worker only: started, rows read, foreign row deleted |

`Tracked` keys are those a caller passes to `enqueue()` with a `kind` (a drawn
route's save); the others are minted, here the row's id, and get no
acknowledgement. Responses are the classes `classifyStatus` tells apart. In this
module the server may answer anything.

Left out: rejected IndexedDB puts and deletes, a database the worker created
without `meta:app`, a page whose shared core script did not load, the toast, the
badge and telemetry. `landed` and `reported` are history. `Prunable` keeps the
week-old pruning of acknowledgements from a key some drain under way still
holds: no pass lasts a week.

### OfflineReplay

`requests` are those on the network or in the view, with the drain that waits
for the answer (`Nobody` once its page has closed, its worker has been killed or
its fetch has given up). `window`, `effects` and `answer` are `AtMostOnce`'s. A
view's refusal is `refused` or, from the rate limiter, `throttled`; both are
below 500 and so kept. `total` counts commits per key, 2 standing for more, and
`excuse` records why a second one is possible: the key's retention ended
(`expired`) or the view failed after its commit (`failed`).

The account does not move in these runs. A session that ends between two replays
gives a CSRF 403 or a fingerprint mismatch, and then a refusal no longer says
that nothing was stored; that is left to a later module.

### RouteDraft

`draft` is the panel's draft in memory, `stored` its copy in `localStorage`: the
line (with its name a `body`), the key of its save, the body sent under it, and
the key of a save that was refused. `active`, `queued` and `saving` are the
flags of `state`; `saving` also says which step of `save()` comes next, `editing`
and `pass` do so for `edit()` and for each run of `reconcileDraft`. Each `await`
ends a step.

The queue is what the draft reads of it: a row's status per key, the
acknowledgements, and the keys of which some drain, of whatever page or worker,
holds a copy (`copies`). The drains' own steps are in `MutationQueue`; here a
key in `copies` may at any time be acknowledged once it has landed, lose its row
once it is acknowledged, and have a row written back that is not. The server
runs a save once per key, as `LandsOnce` allows, and keeps its refusal. A
request that is lost, and a drain that is stopped, is one that takes no step.

`excuse` collects the keys that something let go of without the server's word:
the row ran out of attempts or met a lapsed session, there was no queue to keep
the save (`NoQueue`), or Edit took up a line that had been saved under another
key since. `SavedOnce` makes exceptions of these, each of which ends in two
routes. One tab and one account; `Reconcile` may begin at any moment, because
any change of the queue calls it; `Start` waits for Edit's two reads, which the
user sees; the 24 hours of a key do not end.

`LineGoesWithItsSave` is of the stored draft: it disappears by Start over, by
Discard of the save it names, by a post that succeeds, or because a save of its
own landed, and never by what a pass of `reconcileDraft` or Edit had read of
another save. A post that succeeds empties whatever line there is by then (see
*Seen on the way*).

### Downloads

`record` is one of the two arrays in `meta:app`: per area the account its record
is stamped with, `Unclaimed` (a record of an earlier release, or an anonymous
one, which `ownership()` treats alike) or `NoArea`. `page[t]` is the account of
the tab's `<meta name="pwa-user-id">`, `session` that of the cookie. `flow[t]` is
what the tab does next, each `await` ending a step:

| `step` | in the code |
|---|---|
| `adopt`, `reassert` | the list has been asked for: by `adopt()` on load, by `_reassertHeldAreas` when the sheet opens |
| `claim` | `recordHeld` found the area nobody's: `_claimLocal` is to stamp it, in one transaction |
| `push` | the area is the account's own: its request is to be queued |
| `put array` | the array has been read whole by `renameCustomArea`, `_healRegionRecord` or `evict`, and is to be put back changed |

`Download` is a finished download, which reads, stamps and writes in one
transaction (`_appendCustomArea`, `_recordRegionDownload`). `queue` and `Land` are
the mutation queue and the server: a request may land in any order, more than
once, or never, and lands only in the session it was made in, because the CSRF
token it carries changes with the sign-in. `OtherDevice` is the same account
elsewhere. The marker `basemap.syncedAreaIds` only ever makes `adopt()` skip an
area, and tabs overwrite it whole, so `Adopt` may skip any. `owners` and `ever`
are history, the accounts the present download, and any download, of an area was
stamped with; `putBack` marks the areas whose record was put back as it had been
read before.

Left out: the tiles and their budget, names, boxes and the account's rename, the
list of the account's areas and its restore notice. A tab has one call under way;
two overlapping calls of one page are those of two tabs of one account.

### Alerts

A bulletin is the fingerprint of its state; `Notice` is what a reader would
notice of it, so that `summarise_change(...).is_notable` is a comparison. `Entries`
are the (place, region, day) triples of `evaluate_account` whose state is not
what was last told; `Decide`, `Sends` and `DecidedRows` are `decide`,
`_one_day_per_place` and `_one_row_per_log_key`. `run` holds the decided rows
between `evaluate_account` and `deliver`, during which bulletins, trips, devices
and the worker's rows may change. `outcome` and `newer` are the log: the
outcome of each row and, per region and day, which row was updated after which
(`updated_at`, without the times). `Newest` is the row that `for_day(...).first()`
finds, and `Touched` makes the rows a transaction writes or settles the latest of
theirs.

`Deliver` writes rows and queues the message in one step, its transaction;
`DeliverFails` stands for whatever goes wrong before the commit. The worker's
task has a step for the pushes, for the email and for the update that settles
the rows, and may be killed before any of them; a task that was begun is not run
again. `heard` is history: what the person was last handed. `lost` marks the
rows a killed worker left PENDING until they are written again.

The wording, the mail's own task, an account that is deleted, and a change of
mode are left out. An email counts as handed over when it is queued, as the code
counts it. The night hold is a night in which nothing is evaluated, which is what
`NewDay` makes of it.

### RemoteCommands

One command. `asking` is where an operator's request stands: the register is
read, then the task queue, then the task is written, in three statements without
a lock. `status` and `began` are the register's rows; a run is numbered when it
begins, and has a row unless `_open_run` failed. `step` is where each process is:
the worker, and any other caller, which asks nobody. `now` counts hours, and
`StaleAfter` is both `STALE_AFTER` and the sweep's `STALE_HOURS`, which the code
keeps equal (6). A killed process leaves its row and its task as they are. What a
command does, its arguments' check and the deletion of old scheduled rows are
left out.

## 3. Runs

| Run | Instance | Shows |
|---|---|---|
| `idempotency` | 2 workers, 1 key, 2 fingerprints, 3 reserve attempts, fair | the reservation is exclusive, settled and freed by its holder, and truthful; every request is answered; `AtMostOnce` is implemented |
| `queue_tabs` | 2 tabs and the worker, 2 accounts, 1 row, 2 attempts | no ghost rows, what the reconcile cleared stays cleared, acknowledgement before disappearance, true reports, the ceiling |
| `queue_page` | 1 tab with 2 passes, 2 rows, batch of 1, fair | triggers are serialised, failures final, attempts monotone, no starvation |
| `offline_replay` | 1 tab and the worker, 1 row, 2 attempts, the server | acknowledgements and refusals are true, a key is stored once |
| `alerts` | 2 regions, one pinned, 2 days, 3 states of which 2 read alike, 3 bulletins, 1 trip, fair | PENDING rows are carried, the log is what was heard, trip evenings are due, every bulletin is answered |
| `remote_commands` | 1 operator, 1 shell, the worker; 2 tasks, 3 runs, 4 hours, stale after 1, fair | one remote run, live runs shown, outcomes kept, dead rows swept |
| `route_draft` | 3 keys, 2 lines, 1 reconcile at a time | a line is saved once, a key names one body, a refused draft was refused, a stored line goes with a save of its own |
| `downloads` | 2 tabs, 2 accounts and nobody, 1 area, fair | racing claims give an area to one account, pushes bear its stamp, what stays held is recorded |
| `offline_throttled` | 1 tab, the server | violation: a 429 is cached and replayed |
| `alerts_twice` | `alerts` with 2 messages on their way | violation: a late settle makes a state be queued twice |
| `command_blocked` | `remote_commands` | violation: a dead task blocks its command for ever |
| `downloads_twice` | `downloads` without its bounds | violation: an array put back whole erases a claim, and a second account claims the area |

The violation runs each check one property that a document or comment of the
repository states and the code does not keep; `PROJECT.json` quotes the lines.
Each of the others has, for every property, a mutant: a definition marked
`Fault:` that a plausible bug would put in the place of a mapped one, under
which TLC finds the property violated.

*Bounds.* One key is enough for the middleware: records of different keys never
meet. Two workers race for it, and three passes of `reserve()` (the code's own
number) let one of them lose, retry and give up. In the queue, rows interact
only through the batch and its cap, so the race runs have one row and
`queue_page` has two rows with a batch of one, the smallest case in which a
failed row could starve another. In `queue_tabs` one tab at a time is in its
load-time reconcile (`OneReconcile`), two of the three drains run at a time
(`TwoDrains`: each pair of them does), and the tabs that are open together serve
one account (`OneAccountOpen`; the session, a tab that loads next and the copies
in the worker may be of the other). `MaxAttempts` is 2, so that a row can be
retried, exhausted, and refused before that. `MaxRows` bounds the ids the store
hands out: with one, a discarded row is not replaced. Two tabs are symmetric;
symmetry is used only where no liveness is checked. In `offline_replay` a view
leaves the last answer out of the state, which no action or property reads; a
tab and the worker are its two racing drains. Its constraint (`Undecided`)
loses nothing: all three invariants hold for good of a key that was stored and
has an excuse, and there is one key.

In `alerts`, two regions and two days make a pinned region, a trip through one or
both, today and tomorrow; three states make a change that is noticed and one that
is not. `Focused` weighs the bounds against each other: with fewer bulletins
there is a trip, alerts turned on during the first day, or the simpler mode. One
message is on its way at a time (`Backlog`), which the violation run raises to
two. In `remote_commands` the hours let a row be opened, become stale and be
swept, with the check and the sweep at the boundary itself; three runs let the
worker and a shell overlap and one more follow. In `route_draft`, three keys are
a save, its edit and one after that; `Followed` stops at the third key of a
behaviour in which one was let go of, and `View` forgets the draft in memory
where nothing reads it again (the panel is closed, and opening it reads the
stored one).

In `downloads`, one area is enough for claims, and areas meet only in the array
that is put whole, of which `putBack` keeps account per area. The first tab serves
`alice` or nobody, the second `alice` or `bob` (`FewPages`), which has every pair
of pages but for the names. `OneRequest` keeps one request in the queue: what
waits longer meets only the account's row, which `OtherDevice` changes at any time
anyway. For `HeldIsRecorded` it leaves out the behaviours in which a second
request is queued before the first is gone.

*Fairness.* `FairSpec` of `Idempotency`: a worker that handles a request goes on
(a view returns, or the server's timeout kills it); requests need not arrive.
`FairSpec` of `MutationQueue`: the triggers recur (`_wireLifecycle` sets a 30 s
timer in a visible page), a pass that is not killed proceeds, every fetch is
answered or fails, the reconcile goes on, backoff elapses. Nothing is assumed of
the worker's start: Background Sync does not exist everywhere. The liveness
properties suppose a page that stays open with the network in use (`PageStays`).
`FairSpec` of `Alerts`: the command runs every hour of a day (`schedule.py`), so
that an evaluation or a delivery that is possible again and again is made in the
end, although any one of them may fail (strong fairness of `Evaluate` and
`Deliver`); the worker goes on (weak fairness). Nothing makes a message reach
anybody. `FairSpec` of `Downloads`: a tab goes on with what it has begun (weak
fairness), and of a sync that is queued again and again one lands in the end
(strong fairness of `Land`, the queue's own retries). That the sheet is opened now
and then is a premise of `HeldIsRecorded`, not an assumption: without it nothing
repairs a lost push, because `adopt()` trusts the marker. `FairSpec` of
`RemoteCommands`: time passes, and the daily sweep runs.

`EveryRowSettles` makes one exception: a row whose acknowledgement was put by a
page that closed before deleting it. `EveryIssueIsAnswered` is of pinned regions
while their day is today or tomorrow, and asks that the log comes to count the
bulletin as told, not that the person hears it: a killed worker leaves a PENDING
row that counts.

*Deadlock* is checked in every run but `remote_commands`, which stops when its
hours, tasks and runs are used up.

*Seen on the way.* Some behaviours that the comments rule out appear in the models
and have no run of their own:

- two tabs can undo each other's failure: the write-back of a stale retry
  (`mutation_queue.js:599`) overwrites `failed` (`FailedIsFinal` with two tabs);
- a tab left open under one account posts its rows with another's session
  (`mutation_queue.js:627` compares with the page's own meta tag);
- a row that a page acknowledged and did not live to delete is retried for ever,
  without backoff, while its replays fail (`mutation_queue.js:600`);
- a view that fails after its commit has its key released, and the retry stores
  the thing again (`idempotency.py:209`); `LandsOnce` makes an exception of it;
- two operators who ask at the same moment both pass the checks
  (`remote_commands.py:344`): `OneRemoteRun` is of one operator;
- after Start over the draft still names the refused save it came from, and
  Discard of that save then removes the new line (`route_draw.js:1243`);
- taps made while a post is under way are lost when it succeeds
  (`route_draw.js:1128` empties the line whatever it is by then, a line drawn
  after Start over included, though `route_draw.js:76-77` says that only Start
  over throws a draft away); `LineGoesWithItsSave` makes an exception of it;
- `adopt()` calls itself "the repair path for a push that never landed"
  (`downloads_sync.js:698-699`), but an area is marked as pushed when its request
  is queued, so that only the sheet's `_reassertHeldAreas` repairs one;
- a sync that waits out its backoff can be posted after a later forget of the
  area, and brings it back (`downloads_sync.js:530`);
- with two messages of an account on their way, the late settling of
  `alerts_twice` also makes the log's latest row another than what was heard last
  (`LogIsWhatTheyHeard` is checked, and proved, with one);
- a state that was heard, is sent again later (the bulletin went to another and
  came back) and then reaches nobody has its one row read FAILED: the log forgets
  that it was ever heard, and the next comparison is with the state before
  (`LogIsWhatTheyHeard` makes an exception of it).

## 4. Proofs

Checked by `tlapm`, for any constants under the assumptions of the modules (bounds
are naturals, sentinels are not values).

`IdempotencyProofs`. `TypeCorrect` needs that a worker inside the loop of
`reserve()` has a pass left (`TriesInLoop`). The core is the conjunction of
`OneHolder` and `HolderOwnsRow`: exclusiveness alone is not inductive, because
`reserve()` decides by the table and not by other workers' state, so the
invariant has to say that the table shows each holder's claim (a live RESERVED
row). From it follow `CachedVerdictIsTrue` (an effect is counted for the holder
alone), `FreedByHolder` (a step property) and `Refinement`, one lemma per action
giving the step of `AtMostOnce` or the stutter it maps to.

`MutationQueueProofs`. The invariant is `TypeOK`, `Shape` (a drain past `loop`
holds its current row in its batch, a batch exists only in a pass, a closed tab
has no pass), `AttemptsLeft` for the store and for every copy, `DeletesAcknowledged`
(a drain about to delete a tracked row finds its acknowledgement down),
`LandedIsAcknowledged` and `OnePassPerPage`. `AttemptsLeft` is needed for
`TypeOK` itself: `NextRowState` adds one to a stale copy, and only because every
retryable copy is below the ceiling does the result stay within it.
`NothingIsResurrected` and `ReportsAreOfStoredRows` are step properties that
follow from the readwrite transaction of `WriteBack`.

Two premises give more. `ClearedRowsStayAway` supposes that the open tabs serve
one account (`OneAccountOpen`, as the run does): a tab that has cleared the store
and not yet stored its account finds no row of another's there. What it could
find is a row that a drain puts back from a copy it read before, and the write-back
puts back only a row that is still stored; the invariant (`ClearedForPage`) is of the
steps between the clear and the persist alone. `FailuresAreFinal` and
`AttemptsAreCounted` suppose that no two drains work at a time (`OneDrain`). They
need that a copy a drain has not come to yet agrees with the stored row, and that
an id is never used again, which is a theorem of its own without a premise
(`CopiesKeepTheirRow`). Two tabs break both (see *Seen on the way*);
`LonePageKeepsCount` derives them from the code alone where there is one page and
no Background Sync: the in-flight guard is then the premise.

`OfflineReplayProofs`. `QueueCarriesOver` and `ServerCarriesOver` say that the
composition is still the queue and still the at-most-once server, so the
theorems above hold in it (its invariant contains `IInv`, and reuses
`MutationQueueProofs`' `InductiveStep`). `AcknowledgedHasLanded` alone is not
inductive: an acknowledgement is put two steps after the answer that justifies
it. The invariant follows the answer back: a drain told "success" is right
(`SuccessIsTrue`), because a waiting drain has one request, and that for its own
row (`RequestsMatch`), and because a window that shows a commit stands for one
(`WindowIsTrue`). `LandsOnce` needs the converse: while a key has no excuse its
window is live and shows every commit there has been (`WindowIsAll`). Unlike the
run, the theorems are for any number of tabs, passes, keys and accounts.

`RefusalsAreTrue` supposes that the session stays with one account, as it does in
the run. Its invariant (`RInv`) follows a refusal from the window that recorded it:
a window closed with a refusal shows no commit (`RefusedIsEmpty`), all requests and
windows are of the one account, so that no answer is a mismatch of another's
(`OneSession`), and the refusal stays true while the drain has it for its verdict
and writes it (`VerdictInWriting`, `RefusalStands`).

`RouteDraftProofs`. `SavedOnce` is about keys that landed, and the decision that
could break it, whether a Save mints a key, is made long before. The invariant
therefore follows every key that may yet land and has no excuse (`MayLand`): two
such keys never carry one body (`OneMayLand`), and such a key, once let go of by
nothing, is still named by whatever holds its line (`DraftsAreTagged`: by the
stored draft, `SavingIsTheDraft`: by the save under way, `PassIsCurrent`: by a
reconcile that may still write). A draft names a key as refused only if the
server refused it or it is excused (`FailedIsGiven`). `KeyNamesItsBody` is part
of it. The theorems are for any number of keys, lines and overlapping reconciles,
of which the run has one at a time. `LineGoesWithASave` rests on an invariant of
its own: an open panel shows the stored line or is about to store it
(`PanelHasTheLine`), and what a pass or Edit has read of a save as landed is true
(`ReadsAreTrue`), so that taking the draft away on that reading takes a line that
landed.

`DownloadsProofs`. `PushedUnderItsStamp` is about the moment a request is queued;
the stamp was on the record one or more steps before, and may have been erased
since. So the invariant follows it from there: whatever account is in the record,
or in an array a tab is about to put back, has stamped the area (`Remembered`), and
a tab about to push serves such an account (`FlowInv`). `ClaimsExclude` needs that
no account has had an area whose record is unclaimed and was not put back
(`OwnedByOne`): the claim's look inside its own transaction keeps it, and the
writers of `downloads_twice` break it. `Unclaimed` and nobody are not
accounts (`SentinelsAssumption`).

`AlertsProofs`. `PendingIsCarried` is inductive with the types of the variables
that carry a row (`CarriedInv`): rows turn PENDING only together with the message
that holds them, and leave a message only by being settled or lost. It holds for
any number of messages on their way, of which the run has one. `TypeCorrect`
includes that the log of each region and day has an order (`InOrder`: no two rows
are each newer than the other, and any set of them has a newest). That is not
inductive alone: two rows of one day touched by one transaction would have no order
between them. So the invariant says that the decided rows, a queued message and the
worker's have at most one row of a day (`OneRowPerCell`), which `DecidedRows` brings
about. `TripEveningDue` needs one fact of the past, that a BASELINE row is of a day
that has begun (`BaselineIsPast`), also while a decided run waits over a night; the
rest is reading `evaluate_account`: no row of the day counts for the trip, so its
entry is found, sends, and gives way to no later day. `LogMatchesThePerson`
supposes `Backlog = 1`; its invariant (`HeardInv`) follows the one message: its rows
are the newest of their days as long as it is on its way (`OnItsWayIsNewest`), what
it reached the person with is what they heard last (`ReachedWasHeard`), and no SENT
row is newer than the row of what was heard last (`HeardIsLatest`). With two
messages the first of these fails, and so does the property.

`RemoteCommandsProofs`. `OneOperatorOneRun` follows an operator's request: when it
is about to write its task no other is active (`QueueInv`), because another could
come only from another request. It assumes one operator and nothing of the
register, whose rows may be missing. `OutcomesAreKept` and `LiveRunsAreShown` need
that no two processes are in one run and that a run that ended is in none
(`RunsInv`). `TypeCorrect` is that invariant with the bounds on hours, runs and
tasks, and holds for any number of operators.

Only model-checked: the liveness properties (`EveryRequestAnswered`,
`EveryRowSettles`, `EveryIssueIsAnswered`, `KilledRunIsSwept`, `HeldIsRecorded`), which
rest on fairness and so on ENABLED, out of the prover's reach, and the four
violations. Every invariant and step property of the passing runs is a theorem;
five of them under a premise that the run's instance has too: `ClearedStaysCleared`
(`OneAccountOpen`), `FailedIsFinal` and `AttemptsNeverDrop` (`OneDrain`),
`RefusedHasNotLanded` (a session that stays), `LogIsWhatTheyHeard` (`Backlog = 1`).
None is a theorem without it. Each premise leaves out something the code does that
breaks the property: a tab of another account enqueues for its own and closes, two
drains write back one row, the session moves between two replays, a message settles
after the next one's rows were written.

## 5. What is left

- Sessions that move between replays: CSRF rotation and the fingerprint, as an
  extension of `OfflineReplay`.
- Several tabs in `RouteDraft`: two panels share one stored draft.
- `wait_for_slot`, `back_off` and `enqueue_each`. With the one `db_worker` of
  production they are sequential; of two workers, both can take the present
  moment after an idle spell although `incr` is atomic.
- Of the downloads: the tiles with their journal and budget, the account's rename
  and its restore notice.
- The worker's update and the feed pull.

## 6. Not modelled

User interface, telemetry, pure transformations (render models, ratings,
normalisation), library protocols (OAuth, WebAuthn) and single-transaction
upserts, whose interleavings the database settles. Reasons are given per
component in `PROJECT.json`.
