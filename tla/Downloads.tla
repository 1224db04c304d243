----------------------------- MODULE Downloads ------------------------------
(***************************************************************************)
(* Downloaded areas on a browser people share: the array of local records, *)
(* each stamped with the account it was downloaded under, the claim of an  *)
(* area nobody owns, and its recording to the signed-in account            *)
(* (static/js/downloads_sync.js and the writers of the array).             *)
(*                                                                         *)
(* A step is what one tab does between two awaits. A tab does one thing at *)
(* a time: calls that overlap in a page are those of two tabs of one       *)
(* account. The mutation queue is reduced to the requests that wait and    *)
(* may land in any order, or fail (MutationQueue). Tiles, names and boxes  *)
(* are left out; a record of an earlier release (no principal) and an      *)
(* anonymous one ('') are both Unclaimed, as ownership() has them.         *)
(* basemap.syncedAreaIds, the marker of what was pushed, is a hint that    *)
(* tabs overwrite whole and no write relies on: it may say anything.       *)
(***************************************************************************)
CONSTANTS
  Areas,      \* of one array: the regions, or the custom areas
  Tabs,
  Accounts,
  Anon,       \* nobody signed in
  Unclaimed,
  NoArea, Closed

ASSUME SentinelsAssumption ==
  /\ {Anon, Closed, Unclaimed, NoArea} \cap Accounts = {}
  /\ NoArea # Unclaimed /\ Anon \notin {Closed, Unclaimed, NoArea}

VARIABLES
  record,   \* per area: the stamp of its local record, or NoArea
  session,  \* the signed-in account
  page,     \* per tab: Closed, or whom it was rendered for
  flow,     \* per tab: what it does next, and for that what it has read
  queue,    \* requests in the mutation queue
  account,  \* per account: the areas the server has a row of
  \* history
  owners,   \* per area: the accounts its present download has been stamped with
  ever,     \* per area: the accounts any download of it was stamped with
  putBack   \* areas whose record was put back as a writer had read it earlier

browser == <<session, page>>
history == <<owners, ever, putBack>>
vars == <<record, browser, flow, queue, account, history>>

Records == [Areas -> Accounts \cup {Unclaimed, NoArea}]
Requests == [op : {"sync", "forget"}, area : Areas, by : Accounts]

Flows ==
  [step : {"adopt", "reassert", "claim", "push"}, area : Areas]
  \cup [step : {"put array"}, array : Records]
  \cup [step : {"no"}]

Idle == [step |-> "no"]

\* Only the page of an account has anything to record.
NobodyRecords ==
  \A t \in Tabs : page[t] \notin Accounts => flow[t].step \in {"no", "put array"}

TypeOK ==
  /\ record \in Records
  /\ session \in Accounts \cup {Anon}
  /\ page \in [Tabs -> Accounts \cup {Anon, Closed}]
  /\ flow \in [Tabs -> Flows]
  /\ NobodyRecords
  /\ queue \subseteq Requests
  /\ account \in [Accounts -> SUBSET Areas]
  /\ owners \in [Areas -> SUBSET Accounts] /\ ever \in [Areas -> SUBSET Accounts]
  /\ putBack \subseteq Areas

Init ==
  /\ record \in [Areas -> {NoArea, Unclaimed}]
  /\ session \in Accounts \cup {Anon}
  /\ page = [t \in Tabs |-> Closed]
  /\ flow = [t \in Tabs |-> Idle]
  /\ queue = {}
  /\ account = [p \in Accounts |-> {}]
  /\ owners = [a \in Areas |-> {}] /\ ever = [a \in Areas |-> {}]
  /\ putBack = {}

-----------------------------------------------------------------------------
(* recordHeld *)

Resting(t) == page[t] # Closed /\ flow[t] = Idle
At(t, step) == flow[t].step = step
Go(t, next) == flow' = [flow EXCEPT ![t] = next]
Stop(t) == Go(t, Idle)

\* The step ownership() sends a held area on to, by its stamp.
Ownership(stamp, owner) ==
  IF stamp = owner THEN "push" ELSE IF stamp = Unclaimed THEN "claim" ELSE "no"

\* Fault: the page of nobody goes on to record.
LoadAnyone(t, a) ==
  /\ Resting(t)
  /\ Go(t, [step |-> "adopt", area |-> a])
  /\ UNCHANGED <<record, browser, queue, account, history>>

\* A held area is checked: on load, and when the Manage downloads sheet opens.
Load(t, a) ==
  /\ Resting(t) /\ page[t] \in Accounts
  /\ Go(t, [step |-> "adopt", area |-> a])
  /\ UNCHANGED <<record, browser, queue, account, history>>

OpenSheet(t, a) ==
  /\ Resting(t) /\ page[t] \in Accounts
  /\ Go(t, [step |-> "reassert", area |-> a])
  /\ UNCHANGED <<record, browser, queue, account, history>>

\* The list is read: what is not held is passed over.
RecordHeld(t) ==
  LET a == flow[t].area
      next == IF record[a] = NoArea THEN "no" ELSE Ownership(record[a], page[t])
  IN  IF next = "no" THEN Stop(t) ELSE Go(t, [step |-> next, area |-> a])

\* adopt(): an area the marker names is skipped.
Adopt(t) ==
  /\ At(t, "adopt")
  /\ RecordHeld(t) \/ Stop(t)
  /\ UNCHANGED <<record, browser, queue, account, history>>

\* Fault: the sheet trusts the marker, as adopt does.
ReassertUnmarked(t) ==
  /\ At(t, "reassert")
  /\ RecordHeld(t) \/ Stop(t)
  /\ UNCHANGED <<record, browser, queue, account, history>>

\* _reassertHeldAreas: an area is skipped if the account has it now. That is the
\* session's account, and an answer that fails names none.
Reassert(t) ==
  /\ At(t, "reassert")
  /\ \/ RecordHeld(t)
     \/ session \in Accounts /\ flow[t].area \in account[session] /\ Stop(t)
  /\ UNCHANGED <<record, browser, queue, account, history>>

Stamp(a, p) ==
  /\ record' = [record EXCEPT ![a] = p]
  /\ owners' = [owners EXCEPT ![a] = @ \cup {p}]
  /\ ever' = [ever EXCEPT ![a] = @ \cup {p}]
  /\ UNCHANGED putBack

\* Fault: the claim does not look at the stamp again inside its write.
ClaimLocalUnconditional(t) ==
  LET a == flow[t].area
  IN  /\ At(t, "claim")
      /\ IF record[a] # NoArea
           THEN Stamp(a, page[t]) /\ Go(t, [step |-> "push", area |-> a])
           ELSE Stop(t) /\ UNCHANGED <<record, history>>
      /\ UNCHANGED <<browser, queue, account>>

\* Fault: the push does not wait for the stamp to have landed.
ClaimLocalOrNot(t) ==
  LET a == flow[t].area
  IN  /\ At(t, "claim")
      /\ IF record[a] = Unclaimed
           THEN Stamp(a, page[t])
           ELSE UNCHANGED <<record, history>>
      /\ Go(t, [step |-> "push", area |-> a])
      /\ UNCHANGED <<browser, queue, account>>

\* _claimLocal: stamp the record unless an account has, in one transaction, and
\* push only if it is stamped now. (A write that fails claims nothing, as a tab
\* closed before it.)
ClaimLocal(t) ==
  LET a == flow[t].area
      push == Go(t, [step |-> "push", area |-> a])
  IN  /\ At(t, "claim")
      /\ \/ record[a] = Unclaimed /\ Stamp(a, page[t]) /\ push
         \/ record[a] = page[t] /\ push /\ UNCHANGED <<record, history>>
         \/ record[a] \notin {Unclaimed, page[t]} /\ Stop(t) /\ UNCHANGED <<record, history>>
      /\ UNCHANGED <<browser, queue, account>>

Enqueue(op, a, p) == queue' = queue \cup {[op |-> op, area |-> a, by |-> p]}

Push(t) ==
  /\ At(t, "push")
  /\ Enqueue("sync", flow[t].area, page[t])
  /\ Stop(t)
  /\ UNCHANGED <<record, browser, account, history>>

\* forget(), of a row the list showed as the account's alone.
Forget(t, a) ==
  /\ Resting(t) /\ page[t] \in Accounts
  /\ Enqueue("forget", a, page[t])
  /\ UNCHANGED <<record, browser, flow, account, history>>

-----------------------------------------------------------------------------
(* The writers of the array *)

NewStamp(t) == IF page[t] = Anon THEN Unclaimed ELSE page[t]

\* A download is complete: a new record bears the page's account, a record that
\* is replaced keeps its stamp (stampPrincipal), in one transaction. It is pushed
\* if it is the account's own.
Download(t, a) ==
  /\ Resting(t)
  /\ IF record[a] = NoArea
       THEN LET own == {NewStamp(t)} \cap Accounts
            IN  /\ record' = [record EXCEPT ![a] = NewStamp(t)]
                /\ owners' = [owners EXCEPT ![a] = own]
                /\ ever' = [ever EXCEPT ![a] = @ \cup own]
                /\ putBack' = putBack \ {a}
       ELSE UNCHANGED <<record, history>>
  /\ IF record'[a] = page[t]
       THEN Go(t, [step |-> "push", area |-> a])
       ELSE UNCHANGED flow
  /\ UNCHANGED <<browser, queue, account>>

\* renameCustomArea, _healRegionRecord and evict read the array, and put it in a
\* transaction of its own.
ReadArray(t) ==
  /\ Resting(t)
  /\ \E a \in Areas : record[a] # NoArea
  /\ Go(t, [step |-> "put array", array |-> record])
  /\ UNCHANGED <<record, browser, queue, account, history>>

PutArray(t, array) ==
  /\ record' = array
  /\ putBack' = putBack \cup {a \in Areas : array[a] \notin {record[a], NoArea}}
  /\ Stop(t)
  /\ UNCHANGED <<browser, queue, account, owners, ever>>

\* A name, or a field, of one record changes.
Rewrite(t) == At(t, "put array") /\ PutArray(t, flow[t].array)

Evict(t, a) ==
  /\ At(t, "put array")
  /\ flow[t].array[a] # NoArea
  /\ PutArray(t, [flow[t].array EXCEPT ![a] = NoArea])

-----------------------------------------------------------------------------
(* The queue and the server *)

\* A request that waits is posted, in the session it was made in alone (its CSRF
\* token goes with the sign-in). An equal one may wait too, and an answer may be
\* lost, so it may land again.
Land(r) ==
  LET p == r.by
  IN  /\ r \in queue /\ session = p
      /\ account' = [account EXCEPT ![p] =
           IF r.op = "sync" THEN @ \cup {r.area} ELSE @ \ {r.area}]
      /\ queue' \in {queue, queue \ {r}}
      /\ UNCHANGED <<record, browser, flow, history>>

\* Refused (a new area of an account that is full, above all), out of attempts, or
\* thrown away with the rows of another account than the page's.
Fail(r) ==
  /\ r \in queue
  /\ queue' = queue \ {r}
  /\ UNCHANGED <<record, browser, flow, account, history>>

\* Another device of the account records the area, or forgets it.
OtherDevice(p, a) ==
  /\ account' = [account EXCEPT ![p] = IF a \in @ THEN @ \ {a} ELSE @ \cup {a}]
  /\ UNCHANGED <<record, browser, flow, queue, history>>

-----------------------------------------------------------------------------
(* Tabs and sessions *)

LoadPage(t) ==
  /\ page[t] = Closed
  /\ page' = [page EXCEPT ![t] = session]
  /\ UNCHANGED <<record, session, flow, queue, account, history>>

CloseTab(t) ==
  /\ page[t] # Closed
  /\ page' = [page EXCEPT ![t] = Closed]
  /\ Stop(t)
  /\ UNCHANGED <<record, session, queue, account, history>>

SignIn(p) ==
  /\ session # p
  /\ session' = p
  /\ UNCHANGED <<record, page, flow, queue, account, history>>

-----------------------------------------------------------------------------

Begin(t, a) == Load(t, a) \/ OpenSheet(t, a) \/ Download(t, a) \/ Forget(t, a)

\* What a tab goes on with by itself.
Proceed(t) ==
  \/ Adopt(t) \/ Reassert(t) \/ ClaimLocal(t) \/ Push(t) \/ Rewrite(t)
  \/ \E a \in Areas : Evict(t, a)

Next ==
  \/ \E t \in Tabs :
       \/ Proceed(t) \/ ReadArray(t) \/ LoadPage(t) \/ CloseTab(t)
       \/ \E a \in Areas : Begin(t, a)
  \/ \E r \in Requests : Land(r) \/ Fail(r)
  \/ \E p \in Accounts, a \in Areas : OtherDevice(p, a)
  \/ \E p \in Accounts \cup {Anon} : SignIn(p)

Spec == Init /\ [][Next]_vars

\* A tab goes on with what it has begun, and of a request that is queued again
\* and again not every one fails.
Fairness ==
  /\ \A t \in Tabs : WF_vars(Proceed(t))
  /\ \A p \in Accounts, a \in Areas : SF_vars(Land([op |-> "sync", area |-> a, by |-> p]))

FairSpec == Spec /\ Fairness

-----------------------------------------------------------------------------
(* Properties *)

\* An area nobody owned is "claimed ONCE by the first signed-in account to see
\* it - stamped with that id first, so no later account can claim it again"
\* (downloads_sync.js:68-70).
ClaimedOnce == \A a \in Areas : \A p, q \in owners[a] : p = q

\* Tabs of two accounts that race a claim do not hand one download to both, and
\* neither does a download or a list read before: only a writer that put back a
\* record as it had read it earlier does.
ClaimsExclude == \A a \in Areas \ putBack : \A p, q \in owners[a] : p = q

\* No area is recorded to an account its record never bore the stamp of: the
\* stamp lands before the push, and another's area is not pushed, whichever list
\* the tab had read.
PushedUnderItsStamp ==
  \A r \in queue : r.op = "sync" => r.by \in ever[r.area]

\* An area that stays held as the account's own, or as nobody's, keeps getting
\* to the account while the Manage downloads sheet is opened there now and then,
\* whatever was lost with the queue, forgotten elsewhere or marked as pushed
\* (_reassertHeldAreas).
HeldIsRecorded ==
  \A t \in Tabs, p \in Accounts, a \in Areas :
    /\ <>[](page[t] = p /\ session = p /\ record[a] \in {p, Unclaimed})
    /\ []<><<OpenSheet(t, a)>>_vars
    => []<>(a \in account[p])

=============================================================================
