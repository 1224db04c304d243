----------------------------- MODULE RouteDraft -----------------------------
(***************************************************************************)
(* The draft of a drawn route (static/js/route_draw.js): the line on the   *)
(* panel, its copy in localStorage, and the key its save is sent under,    *)
(* from the tap that draws it to the route it becomes. One tab, which may  *)
(* be reloaded at any time, and one account.                               *)
(*                                                                         *)
(* The queue is reduced to what the draft reads of it: per key a row that  *)
(* is queued or failed, the acknowledgements, and the keys of which some   *)
(* drain, of the page or of the worker, holds a copy (MutationQueue has    *)
(* the drains step by step). The server is reduced to the keys it ran a    *)
(* save under and those it refused one under, once per key, as             *)
(* AtMostOnce.LandsOnce allows. Left out: private mode, the account stamp, *)
(* the preview, the snapping, and the 24 hours after which a key expires.  *)
(***************************************************************************)
CONSTANTS
  Keys,    \* bound: the Idempotency-Keys the page may mint
  Bodies,  \* bound: the lines, with their names, the user may draw
  Passes,  \* the runs of reconcileDraft that overlap
  NoKey, NoBody

ASSUME SentinelAssumption == NoKey \notin Keys /\ NoBody \notin Bodies

VARIABLES
  draft,    \* the draft in memory
  active,   \* the panel is open
  queued,   \* the draft's save is known to be queued: it is shown, not edited
  stored,   \* the draft in localStorage, Blank for none
  saving,   \* what save() does next (state.saving is that it does something), and its key
  editing,  \* what edit() does next, its key and the line it read
  pass,     \* per run of reconcileDraft: what it does next and what it has read
  row,      \* per key: the status of its row
  acks,     \* keys acknowledged
  copies,   \* keys whose row some drain holds a copy of
  onWire,   \* keys with a request that may still reach the server
  landed,   \* keys the server made a route for
  refused,  \* keys the server refused
  sentAs,   \* history: per key, the bodies sent under it
  excuse    \* history: keys let go of without the server's word on them

page == <<draft, active, queued>>
panel == <<page, stored, saving, editing>>
queue == <<row, acks, copies>>
server == <<onWire, landed, refused>>
history == <<sentAs, excuse>>
vars == <<panel, pass, queue, server, history>>

SomeKey == Keys \cup {NoKey}
SomeBody == Bodies \cup {NoBody}
Drafts == [body : SomeBody, key : SomeKey, sent : SomeBody, failed : SomeKey]
Blank == [body |-> NoBody, key |-> NoKey, sent |-> NoBody, failed |-> NoKey]

Savings == [step : {"no", "post", "enqueue", "close"}, key : SomeKey]
Editings == [step : {"no", "ack", "row", "landed", "discard"}, key : SomeKey, body : SomeBody]
PassRecords == [step : {"no", "row", "ack", "settle"}, key : SomeKey, body : SomeBody,
                found : {"none", "queued", "failed", "acknowledged"}]

DraftOK == draft \in Drafts
FlagsOK == active \in BOOLEAN /\ queued \in BOOLEAN
StoredOK == stored \in Drafts /\ (stored.body = NoBody => stored = Blank)
SavingOK == saving \in Savings /\ (saving.step # "no" => saving.key \in Keys)
EditingOK == editing \in Editings /\ (editing.step # "no" => editing.key \in Keys)
PassOK ==
  /\ pass \in [Passes -> PassRecords]
  /\ \A q \in Passes : pass[q].step # "no" => pass[q].key \in Keys /\ pass[q].body \in Bodies
SentOK ==
  /\ row \in [Keys -> {"none", "queued", "failed"}]
  /\ sentAs \in [Keys -> SUBSET Bodies]
  /\ \A k \in Keys : row[k] # "none" \/ saving.key = k => sentAs[k] # {}
ServerOK ==
  /\ acks \subseteq landed /\ copies \subseteq Keys
  /\ landed \subseteq Keys /\ refused \subseteq Keys \ landed
  /\ onWire \subseteq Keys \ (landed \cup refused)
  /\ excuse \subseteq Keys

TypeOK ==
  /\ DraftOK /\ FlagsOK /\ StoredOK /\ SavingOK
  /\ EditingOK /\ PassOK /\ SentOK /\ ServerOK

NotSaving == [step |-> "no", key |-> NoKey]
NotEditing == [step |-> "no", key |-> NoKey, body |-> NoBody]
Resting == [step |-> "no", key |-> NoKey, body |-> NoBody, found |-> "none"]
JustLoaded == draft' = Blank /\ active' = FALSE /\ queued' = FALSE

Init ==
  /\ draft = Blank /\ active = FALSE /\ queued = FALSE
  /\ stored = Blank /\ saving = NotSaving /\ editing = NotEditing
  /\ pass = [q \in Passes |-> Resting]
  /\ row = [k \in Keys |-> "none"] /\ acks = {} /\ copies = {}
  /\ onWire = {} /\ landed = {} /\ refused = {}
  /\ sentAs = [k \in Keys |-> {}] /\ excuse = {}

-----------------------------------------------------------------------------
\* The draft.

\* state.sent is read only beside a key, and so goes with it.
Untagged(d) == [d EXCEPT !.key = NoKey, !.sent = NoBody]

\* Keys whose save may yet land, or has, are no longer named by anything here.
LetGo(ks) == excuse' = excuse \cup (ks \ refused)

\* Fault: an empty line is stored like any other.
StoreDraftAlways(d) == stored' = d

\* storeDraft: an empty line is removed rather than kept.
StoreDraft(d) == stored' = IF d.body = NoBody THEN Blank ELSE d

\* resetDraft.
ResetDraft ==
  /\ draft' = Blank /\ stored' = Blank
  /\ queued' = FALSE /\ UNCHANGED active

IsSaveOf(d, k) == d.failed = k \/ d.key = k

BodyOf(k) == CHOOSE b \in sentAs[k] : TRUE

Unseen(b) ==
  /\ b \notin {draft.body, stored.body, editing.body} \cup {pass[q].body : q \in Passes}
  /\ \A k \in Keys : b \notin sentAs[k]

\* The line changes under a tap, Undo or a new name; a queued one is locked.
\* A save under way is not.
Draw(b) ==
  /\ active /\ ~queued
  /\ b # draft.body
  /\ Unseen(b) \/ b = draft.sent
  /\ draft' = [draft EXCEPT !.body = b]
  /\ StoreDraft(draft')
  /\ UNCHANGED <<active, queued, saving, editing, pass, queue, server, history>>

StartOver ==
  /\ active /\ ~queued
  /\ draft.body # NoBody
  /\ draft' = [draft EXCEPT !.body = NoBody]
  /\ StoreDraft(draft')
  /\ UNCHANGED <<active, queued, saving, editing, pass, queue, server, history>>

\* start(), with restoreDraft. The user does not reach for it while Edit, which
\* opens the same panel, makes its two reads.
Start ==
  /\ ~active /\ editing = NotEditing
  /\ active' = TRUE
  /\ draft' = stored
  /\ UNCHANGED <<queued, stored, saving, editing, pass, queue, server, history>>

\* exitMode: the draft stays stored.
ExitMode ==
  /\ active
  /\ active' = FALSE
  /\ UNCHANGED <<draft, queued, stored, saving, editing, pass, queue, server, history>>

LoadPage ==
  /\ JustLoaded /\ saving' = NotSaving /\ editing' = NotEditing
  /\ pass' = [q \in Passes |-> Resting]
  /\ UNCHANGED <<stored, queue, server, history>>

-----------------------------------------------------------------------------
\* save().

\* Fault: a key is minted for every save.
KeyForEachSave(d) == {k \in Keys : sentAs[k] = {}}

\* Fault: an edited draft keeps its key.
KeyForLine(d) == IF d.key # NoKey THEN {d.key} ELSE {k \in Keys : sentAs[k] = {}}

\* The key the draft is saved under: its own while the body is the one sent
\* under it, and otherwise one minted now.
KeyFor(d) ==
  IF d.key # NoKey /\ d.sent = d.body
  THEN {d.key}
  ELSE {k \in Keys : sentAs[k] = {}}

\* Online, the save is posted; offline it goes to the queue at once.
Save(k, next) ==
  /\ active /\ saving = NotSaving /\ ~queued
  /\ draft.body # NoBody
  /\ k \in KeyFor(draft)
  /\ draft' = [body |-> draft.body, key |-> k, sent |-> draft.body, failed |-> NoKey]
  /\ StoreDraft(draft')
  /\ saving' = [step |-> next, key |-> k]
  /\ onWire' = IF next = "post" THEN onWire \cup ({k} \ (landed \cup refused)) ELSE onWire
  /\ sentAs' = [sentAs EXCEPT ![k] = @ \cup {draft.body}]
  /\ UNCHANGED <<active, queued, editing, pass, queue, landed, refused, excuse>>

\* The route is made: the line goes, whatever it is by now, and the panel closes.
PostSucceeds ==
  /\ saving.step = "post" /\ saving.key \in landed
  /\ active' = FALSE
  /\ draft' = [Untagged(draft) EXCEPT !.body = NoBody]
  /\ StoreDraft(draft')
  /\ saving' = NotSaving
  /\ UNCHANGED <<queued, editing, pass, queue, server, history>>

\* Answered 2xx with a body that cannot be read: the key stays.
PostIsUnreadable ==
  /\ saving.step = "post" /\ saving.key \in landed
  /\ saving' = NotSaving
  /\ UNCHANGED <<page, stored, editing, pass, queue, server, history>>

PostIsRefused ==
  /\ saving.step = "post" /\ saving.key \in refused
  /\ draft' = Untagged(draft)
  /\ StoreDraft(draft')
  /\ saving' = NotSaving
  /\ UNCHANGED <<active, queued, editing, pass, queue, server, history>>

\* No answer, or the 409 of a request still in the view: the same save, queued.
PostIsUnanswered ==
  /\ saving.step = "post"
  /\ saving' = [saving EXCEPT !.step = "enqueue"]
  /\ UNCHANGED <<page, stored, editing, pass, queue, server, history>>

\* queueSave: enqueue() keeps a row that already has the key. From here on any
\* drain may read the row and replay it.
Enqueue ==
  /\ saving.step = "enqueue"
  /\ LET k == saving.key
     IN /\ row' = [row EXCEPT ![k] = IF @ = "none" THEN "queued" ELSE @]
        /\ copies' = copies \cup {k}
        /\ onWire' = onWire \cup ({k} \ (landed \cup refused))
  /\ saving' = [saving EXCEPT !.step = "close"]
  /\ UNCHANGED <<page, stored, editing, pass, acks, landed, refused, history>>

QueueSaveCloses ==
  /\ saving.step = "close"
  /\ queued' = TRUE /\ active' = FALSE
  /\ saving' = NotSaving
  /\ UNCHANGED <<draft, stored, editing, pass, queue, server, history>>

\* No queue on this device: the key goes, though a post may have landed under it.
NoQueue ==
  /\ saving.step = "enqueue"
  /\ draft' = Untagged(draft)
  /\ StoreDraft(draft')
  /\ saving' = NotSaving
  /\ LetGo({saving.key})
  /\ UNCHANGED <<active, queued, editing, pass, queue, server, sentAs>>

-----------------------------------------------------------------------------
\* reconcileDraft().

\* Called on load, by start() and whenever the queue changes, be it for another
\* mutation's row. A draft without a key is settled in the call itself.
Reconcile(q) ==
  /\ pass[q].step = "no"
  /\ IF stored.key = NoKey
     THEN queued' = FALSE /\ UNCHANGED pass
     ELSE pass' = [pass EXCEPT ![q].step = "row", ![q].key = stored.key, ![q].body = stored.body] /\ UNCHANGED queued
  /\ UNCHANGED <<draft, active, stored, saving, editing, queue, server, history>>

ReadRow(q) ==
  /\ pass[q].step = "row"
  /\ pass' = [pass EXCEPT ![q].step = "ack", ![q].found = row[pass[q].key]]
  /\ UNCHANGED <<panel, queue, server, history>>

ReadAck(q) ==
  /\ pass[q].step = "ack"
  /\ pass' = [pass EXCEPT ![q].step = "settle",
                            ![q].found = IF pass[q].key \in acks THEN "acknowledged" ELSE @]
  /\ UNCHANGED <<panel, queue, server, history>>

\* Fault: a row that is gone is taken for one that failed.
DraftStateGoneFailed(found) ==
  CASE found = "acknowledged" -> "landed" [] found = "none" -> "failed" [] OTHER -> found

\* draftState, of an account's own draft that has a key.
DraftState(found) ==
  CASE found = "acknowledged" -> "landed" [] found = "none" -> "unsent" [] OTHER -> found

\* Fault: what the pass read is applied to whatever draft is stored by now.
SettleAny(q) ==
  /\ pass[q].step = "settle"
  /\ pass' = [pass EXCEPT ![q] = Resting]
  /\ LET verdict == DraftState(pass[q].found)
     IN \/ verdict = "landed" /\ ResetDraft
        \/ verdict # "landed" /\ UNCHANGED <<page, stored>>
  /\ UNCHANGED <<saving, editing, queue, server, history>>

\* The draft may have changed under the pass; with another key it is left
\* alone. A refused one is stored with the line the pass read.
Settle(q) ==
  /\ pass[q].step = "settle"
  /\ pass' = [pass EXCEPT ![q] = Resting]
  /\ LET k == pass[q].key
         verdict == IF stored.key = k THEN DraftState(pass[q].found) ELSE "another's"
     IN \/ verdict = "another's" /\ UNCHANGED <<page, stored>>
        \/ verdict = "landed" /\ ResetDraft
        \/ /\ verdict = "failed"
           /\ draft' = [Untagged(draft) EXCEPT !.failed = k]
           /\ queued' = FALSE /\ UNCHANGED active
           /\ stored' = [Blank EXCEPT !.body = pass[q].body, !.failed = k]
        \/ /\ verdict \in {"queued", "unsent"}
           /\ queued' = (verdict = "queued")
           /\ UNCHANGED <<draft, active, stored>>
  /\ UNCHANGED <<saving, editing, queue, server, history>>

-----------------------------------------------------------------------------
\* edit() and discard(), the routes panel's for a row that failed.

Edit(k) ==
  /\ ~active /\ editing.step = "no"
  /\ row[k] = "failed"
  /\ editing' = [step |-> "ack", key |-> k, body |-> NoBody]
  /\ UNCHANGED <<page, stored, saving, pass, queue, server, history>>

EditReadsAck ==
  /\ editing.step = "ack"
  /\ editing' = [editing EXCEPT !.step = IF editing.key \in acks THEN "landed" ELSE "row"]
  /\ UNCHANGED <<page, stored, saving, pass, queue, server, history>>

\* It landed after all: the row goes, and the draft if it is that save's.
EditLanded ==
  /\ editing.step = "landed"
  /\ editing' = NotEditing
  /\ row' = [row EXCEPT ![editing.key] = "none"]
  /\ IF IsSaveOf(stored, editing.key) THEN ResetDraft ELSE UNCHANGED <<page, stored>>
  /\ UNCHANGED <<saving, pass, acks, copies, server, history>>

\* The stored draft when it is that save's, and the queued body otherwise.
EditReadsRow ==
  /\ editing.step = "row"
  /\ editing' =
       IF row[editing.key] = "none" THEN NotEditing
       ELSE [editing EXCEPT !.step = "discard",
              !.body = IF IsSaveOf(stored, editing.key) THEN stored.body ELSE BodyOf(editing.key)]
  /\ UNCHANGED <<page, stored, saving, pass, queue, server, history>>

\* The line may have been saved again since this save of it was refused: the
\* refused row does not go with that, and Edit does not look for it.
EditDiscards ==
  /\ editing.step = "discard"
  /\ editing' = NotEditing
  /\ row' = [row EXCEPT ![editing.key] = "none"]
  /\ active' = TRUE /\ queued' = FALSE
  /\ draft' = [Blank EXCEPT !.body = editing.body]
  /\ StoreDraft(draft')
  /\ LetGo({k \in Keys \ {editing.key} : editing.body \in sentAs[k]})
  /\ UNCHANGED <<saving, pass, acks, copies, server, sentAs>>

Discard(k) ==
  /\ ~active /\ row[k] = "failed"
  /\ row' = [row EXCEPT ![k] = "none"]
  /\ IF IsSaveOf(stored, k) THEN ResetDraft ELSE UNCHANGED <<page, stored>>
  /\ UNCHANGED <<saving, editing, pass, acks, copies, server, history>>

-----------------------------------------------------------------------------
\* The drains and the server. A drain that is stopped, and a request that is
\* lost, is one that takes no further step.

PutAck(k) ==
  /\ k \in copies \cap landed
  /\ acks' = acks \cup {k}
  /\ UNCHANGED <<panel, pass, row, copies, server, history>>

DeleteRow(k) ==
  /\ k \in copies \cap acks /\ row[k] # "none"
  /\ row' = [row EXCEPT ![k] = "none"]
  /\ UNCHANGED <<panel, pass, acks, copies, server, history>>

\* The write-back of a replay that was refused, that came to the end of its
\* attempts or met a lapsed session ("gave up"), or that is to be tried again.
WriteBack(k, outcome) ==
  /\ k \in copies \ acks /\ row[k] # "none"
  /\ outcome = "refused" => k \in refused
  /\ row' = [row EXCEPT ![k] = IF outcome = "retry" THEN "queued" ELSE "failed"]
  /\ LetGo(IF outcome = "gave up" THEN {k} ELSE {})
  /\ UNCHANGED <<panel, pass, acks, copies, server, sentAs>>

ServerRuns(k) ==
  /\ k \in onWire
  /\ onWire' = onWire \ {k}
  /\ \/ landed' = landed \cup {k} /\ UNCHANGED refused
     \/ refused' = refused \cup {k} /\ UNCHANGED landed
  /\ UNCHANGED <<panel, pass, queue, history>>

-----------------------------------------------------------------------------
User ==
  \/ \E b \in Bodies : Draw(b)
  \/ StartOver \/ Start \/ ExitMode \/ LoadPage
  \/ \E k \in Keys, next \in {"post", "enqueue"} : Save(k, next)
  \/ \E k \in Keys : Edit(k) \/ Discard(k)

Page ==
  \/ PostSucceeds \/ PostIsUnreadable \/ PostIsRefused \/ PostIsUnanswered
  \/ Enqueue \/ QueueSaveCloses \/ NoQueue
  \/ \E q \in Passes : Reconcile(q) \/ ReadRow(q) \/ ReadAck(q) \/ Settle(q)
  \/ EditReadsAck \/ EditLanded \/ EditReadsRow \/ EditDiscards

Drain(k) ==
  \/ PutAck(k) \/ DeleteRow(k) \/ ServerRuns(k)
  \/ \E outcome \in {"refused", "gave up", "retry"} : WriteBack(k, outcome)

Next == User \/ Page \/ \E k \in Keys : Drain(k)

Spec == Init /\ [][Next]_vars

-----------------------------------------------------------------------------
\* A line is made a route once: the same body lands under two keys only where
\* one of them was let go of without the server's word: its row ran out of
\* attempts or met a lapsed session, there was no queue to keep it, or the user
\* took the line up again by Edit of another, refused, save of it. Reloads, lost
\* answers and stale reconciles are not among these.
SavedOnce ==
  \A k, l \in landed :
    k # l /\ sentAs[k] \cap sentAs[l] # {} => {k, l} \cap excuse # {}

\* A key is sent with one body, as the middleware's fingerprint requires.
KeyNamesItsBody == \A k \in Keys : \A b, c \in sentAs[k] : b = c

\* A draft offered as refused has not landed, with the same excuses.
RefusedDraftHasNotLanded ==
  stored.failed \in landed => stored.failed \in excuse

\* A stored line that was neither thrown away by Start over nor by Discard of a
\* refused save of it goes when a save it bears the key of has landed, whatever
\* has become of it since a reconcile, or Edit, read the rows. (A post that
\* succeeds is the exception: it takes what was drawn while it was under way.)
LineGoesWithItsSave ==
  [][stored.body # NoBody /\ stored'.body = NoBody =>
       \/ StartOver \/ PostSucceeds
       \/ \E k \in landed : IsSaveOf(stored, k)
       \/ \E k \in Keys : Discard(k) /\ IsSaveOf(stored, k)]_stored
=============================================================================
