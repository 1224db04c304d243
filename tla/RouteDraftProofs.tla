-------------------------- MODULE RouteDraftProofs --------------------------
(***************************************************************************)
(* Theorems about RouteDraft, for any number of keys, lines and overlapping *)
(* reconciles.                                                              *)
(***************************************************************************)
EXTENDS RouteDraft, TLAPS

\* The keys of which the page has the last word: the server refused them, or
\* they are excused. A save under any other has landed or still may.
Given == refused \cup excuse

MayLand(b, k) == b \in sentAs[k] /\ k \notin Given

\* A draft names the body sent under its key, and has the key of the one save
\* by which its line, now or as it was sent, may land.
Named(d) == d.key # NoKey => sentAs[d.key] = {d.sent}
Tagged(d) == \A k \in Keys, b \in {d.body, d.sent} : MayLand(b, k) => d.key = k

DraftsAreTagged ==
  /\ Named(draft) /\ Tagged(draft)
  /\ Named(stored) /\ Tagged(stored)
  /\ draft.key # NoKey /\ stored.key # NoKey => draft.key = stored.key

OneMayLand ==
  \A k, l \in Keys, b \in Bodies : MayLand(b, k) /\ MayLand(b, l) => k = l

FailedIsGiven ==
  /\ \A k \in Keys : row[k] = "failed" => k \in Given
  /\ {draft.failed, stored.failed} \subseteq Given \cup {NoKey}
  /\ editing.step # "no" => editing.key \in Given

SavingIsTheDraft ==
  saving.step # "no" => {draft.key, stored.key} \subseteq {NoKey, saving.key}

\* What a pass read of a draft that is still tagged as it was then.
Current(q) ==
  /\ sentAs[pass[q].key] # {}
  /\ pass[q].key \in {draft.key, stored.key} =>
       \A k \in Keys : MayLand(pass[q].body, k) => k = pass[q].key
  /\ pass[q].step \in {"ack", "settle"} /\ pass[q].found = "failed" => pass[q].key \in Given

PassIsCurrent == \A q \in Passes : pass[q].step # "no" => Current(q)

IInv ==
  /\ TypeOK /\ KeyNamesItsBody /\ DraftsAreTagged /\ OneMayLand
  /\ FailedIsGiven /\ SavingIsTheDraft /\ PassIsCurrent

-----------------------------------------------------------------------------
(* Types.                                                                  *)

LEMMA KeptTypes ==
  /\ DraftOK /\ draft' = draft => DraftOK'
  /\ FlagsOK /\ active' = active /\ queued' = queued => FlagsOK'
  /\ StoredOK /\ stored' = stored => StoredOK'
  /\ SavingOK /\ saving' = saving => SavingOK'
  /\ EditingOK /\ editing' = editing => EditingOK'
  /\ PassOK /\ pass' = pass => PassOK'
  /\ SentOK /\ row' = row /\ saving' = saving /\ sentAs' = sentAs => SentOK'
  /\ ServerOK /\ UNCHANGED <<acks, copies, onWire, landed, refused, excuse>> => ServerOK'
  BY DEF DraftOK, FlagsOK, StoredOK, SavingOK, EditingOK, PassOK, SentOK, ServerOK

\* The records the actions write.
LEMMA Forms ==
  /\ Blank \in Drafts /\ NotSaving \in Savings /\ NotEditing \in Editings /\ Resting \in PassRecords
  /\ Blank.body = NoBody /\ Blank.key = NoKey
  /\ NotSaving.step = "no" /\ NotSaving.key = NoKey /\ NotEditing.step = "no" /\ Resting.step = "no"
  /\ \A d \in Drafts : Untagged(d) \in Drafts
  /\ \A d \in Drafts, b \in SomeBody : [d EXCEPT !.body = b] \in Drafts
  /\ \A d \in Drafts, k \in SomeKey : [d EXCEPT !.failed = k] \in Drafts
  BY DEF Drafts, Blank, SomeKey, SomeBody, NotSaving, NotEditing, Resting, Savings, Editings,
     PassRecords, Untagged

\* What storeDraft leaves in localStorage is a draft with a line, or nothing.
LEMMA StoreDraftTyped ==
  \A d \in Drafts : StoreDraft(d) => StoredOK'
<1> TAKE d \in Drafts
<1> HAVE StoreDraft(d)
<1>1. CASE d.body = NoBody
  BY <1>1, Forms DEF StoreDraft, StoredOK
<1>2. CASE d.body # NoBody
  BY <1>2 DEF StoreDraft, StoredOK
<1> QED
  BY <1>1, <1>2

LEMMA PassTyped ==
  ASSUME PassOK, NEW q \in Passes, NEW p \in PassRecords,
         p.step # "no" => p.key \in Keys /\ p.body \in Bodies,
         pass' = [pass EXCEPT ![q] = p]
  PROVE  PassOK'
<1>1. pass' \in [Passes -> PassRecords]
  BY Zenon DEF PassOK
<1>2. \A r \in Passes : pass'[r] = IF r = q THEN p ELSE pass[r]
  BY Zenon DEF PassOK
<1>3. \A r \in Passes : pass'[r].step # "no" => pass'[r].key \in Keys /\ pass'[r].body \in Bodies
  <2> TAKE r \in Passes
  <2>1. CASE r = q
    BY <1>2, <2>1
  <2>2. CASE r # q
    BY <1>2, <2>2 DEF PassOK
  <2> QED
    BY <2>1, <2>2
<1> QED
  BY <1>1, <1>3 DEF PassOK

LEMMA TypesKept == TypeOK /\ [Next]_vars => TypeOK'
<1> SUFFICES ASSUME TypeOK, [Next]_vars PROVE TypeOK'
  OBVIOUS
<1> USE SentinelAssumption
<1>0. DraftOK /\ FlagsOK /\ StoredOK /\ SavingOK /\ EditingOK /\ PassOK /\ SentOK /\ ServerOK
  BY DEF TypeOK
<1>1. ASSUME NEW b \in Bodies, Draw(b) PROVE TypeOK'
  <2>0. UNCHANGED <<active, queued, saving, editing, pass, row, acks, copies, onWire, landed,
                    refused, sentAs, excuse>>
    BY <1>1 DEF Draw, queue, server, history
  <2>1. DraftOK'
    BY <1>0, <1>1, Forms DEF Draw, queue, server, history, DraftOK, SomeBody
  <2>2. StoredOK'
    BY <1>0, <1>1, <2>1, Forms, StoreDraftTyped DEF Draw, queue, server, history, DraftOK,
       StoredOK
  <2>3. FlagsOK' /\ SavingOK' /\ EditingOK' /\ PassOK' /\ SentOK' /\ ServerOK'
    BY <1>0, <2>0, KeptTypes
  <2> QED
    BY <2>1, <2>2, <2>3 DEF TypeOK
<1>2. ASSUME StartOver PROVE TypeOK'
  <2>0. UNCHANGED <<active, queued, saving, editing, pass, row, acks, copies, onWire, landed,
                    refused, sentAs, excuse>>
    BY <1>2 DEF StartOver, queue, server, history
  <2>1. DraftOK'
    BY <1>0, <1>2, Forms DEF StartOver, queue, server, history, DraftOK, SomeBody
  <2>2. StoredOK'
    BY <1>0, <1>2, <2>1, Forms, StoreDraftTyped DEF StartOver, queue, server, history,
       DraftOK, StoredOK
  <2>3. FlagsOK' /\ SavingOK' /\ EditingOK' /\ PassOK' /\ SentOK' /\ ServerOK'
    BY <1>0, <2>0, KeptTypes
  <2> QED
    BY <2>1, <2>2, <2>3 DEF TypeOK
<1>3. ASSUME Start PROVE TypeOK'
  <2>0. UNCHANGED <<stored, saving, editing, pass, row, acks, copies, onWire, landed,
                    refused, sentAs, excuse>>
    BY <1>3 DEF Start, queue, server, history
  <2>1. DraftOK'
    BY <1>0, <1>3, Forms DEF Start, queue, server, history, DraftOK, StoredOK
  <2>2. FlagsOK'
    BY <1>0, <1>3, Zenon DEF Start, queue, server, history, FlagsOK
  <2>3. StoredOK' /\ SavingOK' /\ EditingOK' /\ PassOK' /\ SentOK' /\ ServerOK'
    BY <1>0, <2>0, KeptTypes
  <2> QED
    BY <2>1, <2>2, <2>3 DEF TypeOK
<1>4. ASSUME ExitMode PROVE TypeOK'
  <2>0. UNCHANGED <<draft, stored, saving, editing, pass, row, acks, copies, onWire, landed,
                    refused, sentAs, excuse>>
    BY <1>4 DEF ExitMode, queue, server, history
  <2>1. FlagsOK'
    BY <1>0, <1>4, Zenon DEF ExitMode, queue, server, history, FlagsOK
  <2>2. DraftOK' /\ StoredOK' /\ SavingOK' /\ EditingOK' /\ PassOK' /\ SentOK' /\ ServerOK'
    BY <1>0, <2>0, KeptTypes
  <2> QED
    BY <2>1, <2>2 DEF TypeOK
<1>5. ASSUME LoadPage PROVE TypeOK'
  <2>0. UNCHANGED <<stored, acks, copies, onWire, landed, refused, excuse>>
    BY <1>5 DEF LoadPage, JustLoaded, queue, server, history
  <2>1. DraftOK'
    BY <1>0, <1>5, Forms DEF LoadPage, JustLoaded, queue, server, history, DraftOK, StoredOK
  <2>2. FlagsOK'
    BY <1>0, <1>5, Zenon DEF LoadPage, JustLoaded, queue, server, history, FlagsOK
  <2>3. SavingOK'
    BY <1>0, <1>5, Forms DEF LoadPage, JustLoaded, queue, server, history, SavingOK, Savings,
       SomeKey
  <2>4. EditingOK'
    BY <1>0, <1>5, Forms DEF LoadPage, JustLoaded, queue, server, history, EditingOK,
       Editings, SomeKey, SomeBody
  <2>5. PassOK'
    BY <1>0, <1>5, Forms, PassTyped DEF LoadPage, JustLoaded, queue, server, history, PassOK
  <2>6. SentOK'
    BY <1>0, <1>5, Forms DEF LoadPage, JustLoaded, queue, server, history, SentOK
  <2>7. StoredOK' /\ ServerOK'
    BY <1>0, <2>0, KeptTypes
  <2> QED
    BY <2>1, <2>2, <2>3, <2>4, <2>5, <2>6, <2>7 DEF TypeOK
<1>6. ASSUME NEW k \in Keys, NEW next \in {"post", "enqueue"}, Save(k, next) PROVE TypeOK'
  <2>0. UNCHANGED <<active, queued, editing, pass>>
    BY <1>6 DEF Save, queue
  <2>1. DraftOK'
    BY <1>0, <1>6 DEF Save, DraftOK, Drafts, SomeKey, SomeBody
  <2>2. StoredOK'
    BY <1>6, <2>1, StoreDraftTyped DEF Save, DraftOK
  <2>3. SavingOK'
    BY <1>0, <1>6, Forms DEF Save, queue, SavingOK, Savings, SomeKey
  <2>4. SentOK'
    <3>1. draft.body \in Bodies
      BY <1>0, <1>6 DEF Save, DraftOK, Drafts, SomeBody
    <3> QED
      BY <1>0, <1>6, <3>1, SMTT(20) DEF Save, SentOK, queue
  <2>5. ServerOK'
    BY <1>0, <1>6 DEF Save, queue, ServerOK
  <2>6. FlagsOK' /\ EditingOK' /\ PassOK'
    BY <1>0, <2>0, KeptTypes
  <2> QED
    BY <2>1, <2>2, <2>3, <2>4, <2>5, <2>6 DEF TypeOK
<1>7. ASSUME PostSucceeds PROVE TypeOK'
  <2>0. UNCHANGED <<editing, pass, acks, copies, onWire, landed, refused, excuse>>
    BY <1>7 DEF PostSucceeds, queue, server, history
  <2>1. DraftOK'
    BY <1>0, <1>7, Forms DEF PostSucceeds, queue, server, history, DraftOK, SomeBody
  <2>2. FlagsOK'
    BY <1>0, <1>7, Zenon DEF PostSucceeds, queue, server, history, FlagsOK
  <2>3. StoredOK'
    BY <1>0, <1>7, <2>1, <2>2, Forms, StoreDraftTyped DEF PostSucceeds, queue, server,
       history, DraftOK, StoredOK
  <2>4. SavingOK'
    BY <1>0, <1>7, Forms DEF PostSucceeds, queue, server, history, SavingOK, Savings, SomeKey
  <2>5. SentOK'
    BY <1>0, <1>7, Forms DEF PostSucceeds, queue, server, history, SentOK, SavingOK
  <2>6. EditingOK' /\ PassOK' /\ ServerOK'
    BY <1>0, <2>0, KeptTypes
  <2> QED
    BY <2>1, <2>2, <2>3, <2>4, <2>5, <2>6 DEF TypeOK
<1>8. ASSUME PostIsUnreadable PROVE TypeOK'
  <2>0. UNCHANGED <<draft, active, queued, stored, editing, pass, acks, copies, onWire,
                    landed, refused, excuse>>
    BY <1>8 DEF PostIsUnreadable, page, queue, server, history
  <2>1. SavingOK'
    BY <1>0, <1>8, Forms DEF PostIsUnreadable, page, queue, server, history, SavingOK,
       Savings, SomeKey
  <2>2. SentOK'
    BY <1>0, <1>8, Forms DEF PostIsUnreadable, page, queue, server, history, SentOK, SavingOK
  <2>3. DraftOK' /\ FlagsOK' /\ StoredOK' /\ EditingOK' /\ PassOK' /\ ServerOK'
    BY <1>0, <2>0, KeptTypes
  <2> QED
    BY <2>1, <2>2, <2>3 DEF TypeOK
<1>9. ASSUME PostIsRefused PROVE TypeOK'
  <2>0. UNCHANGED <<active, queued, editing, pass, acks, copies, onWire, landed, refused,
                    excuse>>
    BY <1>9 DEF PostIsRefused, queue, server, history
  <2>1. DraftOK'
    BY <1>0, <1>9, Forms DEF PostIsRefused, queue, server, history, DraftOK
  <2>2. StoredOK'
    BY <1>0, <1>9, <2>1, Forms, StoreDraftTyped DEF PostIsRefused, queue, server, history,
       DraftOK, StoredOK
  <2>3. SavingOK'
    BY <1>0, <1>9, Forms DEF PostIsRefused, queue, server, history, SavingOK, Savings, SomeKey
  <2>4. SentOK'
    BY <1>0, <1>9, Forms DEF PostIsRefused, queue, server, history, SentOK, SavingOK
  <2>5. FlagsOK' /\ EditingOK' /\ PassOK' /\ ServerOK'
    BY <1>0, <2>0, KeptTypes
  <2> QED
    BY <2>1, <2>2, <2>3, <2>4, <2>5 DEF TypeOK
<1>10. ASSUME PostIsUnanswered PROVE TypeOK'
  <2>0. UNCHANGED <<draft, active, queued, stored, editing, pass, acks, copies, onWire,
                    landed, refused, excuse>>
    BY <1>10 DEF PostIsUnanswered, page, queue, server, history
  <2>1. SavingOK'
    BY <1>0, <1>10, Forms DEF PostIsUnanswered, page, queue, server, history, SavingOK,
       Savings, SomeKey
  <2>2. SentOK'
    BY <1>0, <1>10, Forms DEF PostIsUnanswered, page, queue, server, history, SentOK
  <2>3. DraftOK' /\ FlagsOK' /\ StoredOK' /\ EditingOK' /\ PassOK' /\ ServerOK'
    BY <1>0, <2>0, KeptTypes
  <2> QED
    BY <2>1, <2>2, <2>3 DEF TypeOK
<1>11. ASSUME Enqueue PROVE TypeOK'
  <2>0. UNCHANGED <<draft, active, queued, stored, editing, pass>>
    BY <1>11 DEF Enqueue, page, history
  <2>1. SavingOK'
    BY <1>0, <1>11, Forms DEF Enqueue, page, history, SavingOK, Savings, SomeKey
  <2>2. SentOK'
    BY <1>0, <1>11, Forms DEF Enqueue, page, history, SentOK, SavingOK
  <2>3. ServerOK'
    BY <1>0, <1>11 DEF Enqueue, page, history, ServerOK, SavingOK
  <2>4. DraftOK' /\ FlagsOK' /\ StoredOK' /\ EditingOK' /\ PassOK'
    BY <1>0, <2>0, KeptTypes
  <2> QED
    BY <2>1, <2>2, <2>3, <2>4 DEF TypeOK
<1>12. ASSUME QueueSaveCloses PROVE TypeOK'
  <2>0. UNCHANGED <<draft, stored, editing, pass, acks, copies, onWire, landed, refused,
                    excuse>>
    BY <1>12 DEF QueueSaveCloses, queue, server, history
  <2>1. FlagsOK'
    BY <1>0, <1>12, Zenon DEF QueueSaveCloses, queue, server, history, FlagsOK
  <2>2. SavingOK'
    BY <1>0, <1>12, Forms DEF QueueSaveCloses, queue, server, history, SavingOK, Savings,
       SomeKey
  <2>3. SentOK'
    BY <1>0, <1>12, Forms DEF QueueSaveCloses, queue, server, history, SentOK
  <2>4. DraftOK' /\ StoredOK' /\ EditingOK' /\ PassOK' /\ ServerOK'
    BY <1>0, <2>0, KeptTypes
  <2> QED
    BY <2>1, <2>2, <2>3, <2>4 DEF TypeOK
<1>13. ASSUME NoQueue PROVE TypeOK'
  <2>0. UNCHANGED <<active, queued, editing, pass>>
    BY <1>13 DEF NoQueue, LetGo, queue, server
  <2>1. DraftOK'
    BY <1>0, <1>13, Forms DEF NoQueue, LetGo, queue, server, DraftOK
  <2>2. StoredOK'
    BY <1>0, <1>13, <2>1, Forms, StoreDraftTyped DEF NoQueue, LetGo, queue, server, DraftOK,
       StoredOK
  <2>3. SavingOK'
    BY <1>0, <1>13, Forms DEF NoQueue, LetGo, queue, server, SavingOK, Savings, SomeKey
  <2>4. SentOK'
    BY <1>0, <1>13, Forms DEF NoQueue, LetGo, queue, server, SentOK, SavingOK
  <2>5. ServerOK'
    BY <1>0, <1>13 DEF NoQueue, LetGo, queue, server, ServerOK, SavingOK
  <2>6. FlagsOK' /\ EditingOK' /\ PassOK'
    BY <1>0, <2>0, KeptTypes
  <2> QED
    BY <2>1, <2>2, <2>3, <2>4, <2>5, <2>6 DEF TypeOK
<1>14. ASSUME NEW q \in Passes, Reconcile(q) PROVE TypeOK'
  <2>0. UNCHANGED <<draft, stored, saving, editing, row, acks, copies, onWire, landed,
                    refused, sentAs, excuse>>
    BY <1>14 DEF Reconcile, queue, server, history
  <2>1. FlagsOK'
    BY <1>0, <1>14, Zenon DEF Reconcile, queue, server, history, FlagsOK
  <2>2. PassOK'
    <3>1. CASE stored.key = NoKey
      BY <1>0, <1>14, <3>1, KeptTypes DEF Reconcile
    <3>2. CASE stored.key # NoKey
      <4>1. stored.key \in Keys /\ stored.body \in Bodies
        BY <1>0, <3>2, Forms DEF StoredOK, Drafts, SomeKey, SomeBody
      <4>2. [pass[q] EXCEPT !.step = "row", !.key = stored.key,
      !.body = stored.body] \in PassRecords
        BY <1>0, <4>1 DEF PassOK, PassRecords, SomeKey, SomeBody
      <4>3. pass' = [pass EXCEPT ![q] = [pass[q] EXCEPT !.step = "row", !.key = stored.key,
      !.body = stored.body]]
        BY <1>0, <1>14, <3>2 DEF Reconcile, PassOK
      <4> QED
        BY <1>0, <4>1, <4>2, <4>3, PassTyped DEF PassOK, PassRecords
    <3> QED
      BY <3>1, <3>2
  <2>3. DraftOK' /\ StoredOK' /\ SavingOK' /\ EditingOK' /\ SentOK' /\ ServerOK'
    BY <1>0, <2>0, KeptTypes
  <2> QED
    BY <2>1, <2>2, <2>3 DEF TypeOK
<1>15. ASSUME NEW q \in Passes, ReadRow(q) PROVE TypeOK'
  <2>0. UNCHANGED <<draft, active, queued, stored, saving, editing, row, acks, copies,
                    onWire, landed, refused, sentAs, excuse>>
    BY <1>15 DEF ReadRow, page, panel, queue, server, history
  <2>1. PassOK'
    <3> DEFINE p == [pass[q] EXCEPT !.step = "ack", !.found = row[pass[q].key]]
    <3>1. pass[q] \in PassRecords /\ pass[q].key \in Keys /\ pass[q].body \in Bodies
      BY <1>0, <1>15 DEF ReadRow, PassOK
    <3>2. row[pass[q].key] \in {"none", "queued", "failed"}
      BY <1>0, <3>1 DEF SentOK
    <3>3. p \in PassRecords /\ p.key \in Keys /\ p.body \in Bodies
      BY <3>1, <3>2 DEF PassRecords
    <3>4. pass' = [pass EXCEPT ![q] = p]
      BY <1>0, <1>15 DEF ReadRow, PassOK
    <3> QED
      BY <1>0, <3>3, <3>4, PassTyped
  <2>2. DraftOK' /\ FlagsOK' /\ StoredOK' /\ SavingOK' /\ EditingOK' /\ SentOK' /\ ServerOK'
    BY <1>0, <2>0, KeptTypes
  <2> QED
    BY <2>1, <2>2 DEF TypeOK
<1>16. ASSUME NEW q \in Passes, ReadAck(q) PROVE TypeOK'
  <2>0. UNCHANGED <<draft, active, queued, stored, saving, editing, row, acks, copies,
                    onWire, landed, refused, sentAs, excuse>>
    BY <1>16 DEF ReadAck, page, panel, queue, server, history
  <2>1. PassOK'
    <3> DEFINE p == [pass[q] EXCEPT !.step = "settle",
                       !.found = IF pass[q].key \in acks THEN "acknowledged" ELSE @]
    <3>1. pass[q] \in PassRecords /\ pass[q].key \in Keys /\ pass[q].body \in Bodies
      BY <1>0, <1>16 DEF ReadAck, PassOK
    <3>2. p \in PassRecords /\ p.key \in Keys /\ p.body \in Bodies
      BY <3>1 DEF PassRecords
    <3>3. pass' = [pass EXCEPT ![q] = p]
      BY <1>0, <1>16 DEF ReadAck, PassOK
    <3> QED
      BY <1>0, <3>2, <3>3, PassTyped
  <2>2. DraftOK' /\ FlagsOK' /\ StoredOK' /\ SavingOK' /\ EditingOK' /\ SentOK' /\ ServerOK'
    BY <1>0, <2>0, KeptTypes
  <2> QED
    BY <2>1, <2>2 DEF TypeOK
<1>17. ASSUME NEW q \in Passes, Settle(q) PROVE TypeOK'
  <2>0. UNCHANGED <<saving, editing, row, acks, copies, onWire, landed, refused, sentAs,
                    excuse>>
    BY <1>17 DEF Settle, ResetDraft, page, queue, server, history
  <2>1. DraftOK'
    <3>1. pass[q].key \in SomeKey
      BY <1>0, <1>17 DEF Settle, PassOK, SomeKey
    <3> QED
      BY <1>0, <1>17, <3>1, Forms DEF Settle, ResetDraft, page, DraftOK
  <2>2. FlagsOK'
    BY <1>0, <1>17, Zenon DEF Settle, ResetDraft, page, queue, server, history, FlagsOK
  <2>3. StoredOK'
    <3>1. pass[q].body \in Bodies /\ pass[q].key \in Keys
      BY <1>0, <1>17 DEF Settle, PassOK
    <3>2. CASE stored' = stored
      BY <1>0, <3>2, KeptTypes
    <3>3. CASE stored' = Blank
      BY <3>3, Forms DEF StoredOK
    <3>4. CASE stored' = [Blank EXCEPT !.body = pass[q].body, !.failed = pass[q].key]
      BY <3>1, <3>4, SentinelAssumption DEF Blank, Drafts, SomeKey, SomeBody, StoredOK
    <3> QED
      BY <1>17, <3>2, <3>3, <3>4 DEF Settle, ResetDraft
  <2>4. PassOK'
    BY <1>0, <1>17, Forms, PassTyped DEF Settle, ResetDraft, page, queue, server, history,
       PassOK
  <2>5. SavingOK' /\ EditingOK' /\ SentOK' /\ ServerOK'
    BY <1>0, <2>0, KeptTypes
  <2> QED
    BY <2>1, <2>2, <2>3, <2>4, <2>5 DEF TypeOK
<1>18. ASSUME NEW k \in Keys, Edit(k) PROVE TypeOK'
  <2>0. UNCHANGED <<draft, active, queued, stored, saving, pass, row, acks, copies, onWire,
                    landed, refused, sentAs, excuse>>
    BY <1>18 DEF Edit, page, queue, server, history
  <2>1. EditingOK'
    BY <1>0, <1>18, Forms DEF Edit, page, queue, server, history, EditingOK, Editings,
       SomeKey, SomeBody
  <2>2. DraftOK' /\ FlagsOK' /\ StoredOK' /\ SavingOK' /\ PassOK' /\ SentOK' /\ ServerOK'
    BY <1>0, <2>0, KeptTypes
  <2> QED
    BY <2>1, <2>2 DEF TypeOK
<1>19. ASSUME EditReadsAck PROVE TypeOK'
  <2>0. UNCHANGED <<draft, active, queued, stored, saving, pass, row, acks, copies, onWire,
                    landed, refused, sentAs, excuse>>
    BY <1>19 DEF EditReadsAck, page, queue, server, history
  <2>1. EditingOK'
    BY <1>0, <1>19, Forms DEF EditReadsAck, page, queue, server, history, EditingOK,
       Editings, SomeKey, SomeBody
  <2>2. DraftOK' /\ FlagsOK' /\ StoredOK' /\ SavingOK' /\ PassOK' /\ SentOK' /\ ServerOK'
    BY <1>0, <2>0, KeptTypes
  <2> QED
    BY <2>1, <2>2 DEF TypeOK
<1>20. ASSUME EditLanded PROVE TypeOK'
  <2>0. UNCHANGED <<saving, pass, acks, copies, onWire, landed, refused, excuse>>
    BY <1>20 DEF EditLanded, ResetDraft, page, server, history
  <2>1. DraftOK'
    BY <1>0, <1>20, Forms DEF EditLanded, ResetDraft, page, server, history, DraftOK, StoredOK
  <2>2. FlagsOK'
    BY <1>0, <1>20, Zenon DEF EditLanded, ResetDraft, page, server, history, FlagsOK
  <2>3. StoredOK'
    BY <1>0, <1>20, <2>1, <2>2, Forms, StoreDraftTyped DEF EditLanded, ResetDraft, page,
       server, history, DraftOK, StoredOK
  <2>4. EditingOK'
    BY <1>0, <1>20, Forms DEF EditLanded, ResetDraft, page, server, history, EditingOK,
       Editings, SomeKey, SomeBody
  <2>5. SentOK'
    BY <1>0, <1>20, Forms DEF EditLanded, ResetDraft, page, server, history, SentOK
  <2>6. SavingOK' /\ PassOK' /\ ServerOK'
    BY <1>0, <2>0, KeptTypes
  <2> QED
    BY <2>1, <2>2, <2>3, <2>4, <2>5, <2>6 DEF TypeOK
<1>21. ASSUME EditReadsRow PROVE TypeOK'
  <2>0. UNCHANGED <<draft, active, queued, stored, saving, pass, row, acks, copies, onWire,
                    landed, refused, sentAs, excuse>>
    BY <1>21 DEF EditReadsRow, page, queue, server, history
  <2>1. EditingOK'
    <3>1. editing.key \in Keys
      BY <1>0, <1>21 DEF EditReadsRow, EditingOK
    <3>2. row[editing.key] # "none" => BodyOf(editing.key) \in SomeBody
      BY <1>0, <3>1 DEF SentOK, BodyOf, SomeBody
    <3>3. stored.body \in SomeBody
      BY <1>0 DEF StoredOK, Drafts
    <3>4. CASE row[editing.key] = "none"
      BY <1>21, <3>4, Forms DEF EditReadsRow, EditingOK
    <3>5. CASE row[editing.key] # "none"
      BY <1>0, <1>21, <3>1, <3>2, <3>3, <3>5 DEF EditReadsRow, EditingOK, Editings
    <3> QED
      BY <3>4, <3>5
  <2>2. DraftOK' /\ FlagsOK' /\ StoredOK' /\ SavingOK' /\ PassOK' /\ SentOK' /\ ServerOK'
    BY <1>0, <2>0, KeptTypes
  <2> QED
    BY <2>1, <2>2 DEF TypeOK
<1>22. ASSUME EditDiscards PROVE TypeOK'
  <2>0. UNCHANGED <<saving, pass>>
    BY <1>22 DEF EditDiscards, LetGo, server
  <2>1. DraftOK'
    <3>1. editing.body \in SomeBody
      BY <1>0 DEF EditingOK, Editings
    <3> QED
      BY <1>22, <3>1, Forms DEF EditDiscards, DraftOK
  <2>2. FlagsOK'
    BY <1>0, <1>22, Zenon DEF EditDiscards, LetGo, server, FlagsOK
  <2>3. StoredOK'
    BY <1>0, <1>22, <2>1, <2>2, Forms, StoreDraftTyped DEF EditDiscards, LetGo, server,
       DraftOK, StoredOK
  <2>4. EditingOK'
    BY <1>0, <1>22, Forms DEF EditDiscards, LetGo, server, EditingOK, Editings, SomeKey,
       SomeBody
  <2>5. SentOK'
    BY <1>0, <1>22, Forms DEF EditDiscards, LetGo, server, SentOK
  <2>6. ServerOK'
    BY <1>0, <1>22 DEF EditDiscards, LetGo, server, ServerOK
  <2>7. SavingOK' /\ PassOK'
    BY <1>0, <2>0, KeptTypes
  <2> QED
    BY <2>1, <2>2, <2>3, <2>4, <2>5, <2>6, <2>7 DEF TypeOK
<1>23. ASSUME NEW k \in Keys, Discard(k) PROVE TypeOK'
  <2>0. UNCHANGED <<saving, editing, pass, acks, copies, onWire, landed, refused, excuse>>
    BY <1>23 DEF Discard, ResetDraft, page, server, history
  <2>1. DraftOK'
    BY <1>0, <1>23, Forms DEF Discard, ResetDraft, page, server, history, DraftOK, StoredOK
  <2>2. FlagsOK'
    BY <1>0, <1>23, Zenon DEF Discard, ResetDraft, page, server, history, FlagsOK
  <2>3. StoredOK'
    BY <1>0, <1>23, <2>1, <2>2, Forms, StoreDraftTyped DEF Discard, ResetDraft, page, server,
       history, DraftOK, StoredOK
  <2>4. SentOK'
    BY <1>0, <1>23, Forms DEF Discard, ResetDraft, page, server, history, SentOK
  <2>5. SavingOK' /\ EditingOK' /\ PassOK' /\ ServerOK'
    BY <1>0, <2>0, KeptTypes
  <2> QED
    BY <2>1, <2>2, <2>3, <2>4, <2>5 DEF TypeOK
<1>24. ASSUME NEW k \in Keys, PutAck(k) PROVE TypeOK'
  <2>0. UNCHANGED <<draft, active, queued, stored, saving, editing, pass, row, sentAs>>
    BY <1>24 DEF PutAck, page, panel, server, history
  <2>1. ServerOK'
    BY <1>0, <1>24 DEF PutAck, page, panel, server, history, ServerOK
  <2>2. DraftOK' /\ FlagsOK' /\ StoredOK' /\ SavingOK' /\ EditingOK' /\ PassOK' /\ SentOK'
    BY <1>0, <2>0, KeptTypes
  <2> QED
    BY <2>1, <2>2 DEF TypeOK
<1>25. ASSUME NEW k \in Keys, DeleteRow(k) PROVE TypeOK'
  <2>0. UNCHANGED <<draft, active, queued, stored, saving, editing, pass, acks, copies,
                    onWire, landed, refused, excuse>>
    BY <1>25 DEF DeleteRow, page, panel, server, history
  <2>1. SentOK'
    BY <1>0, <1>25, Forms DEF DeleteRow, page, panel, server, history, SentOK
  <2>2. DraftOK' /\ FlagsOK' /\ StoredOK' /\ SavingOK' /\ EditingOK' /\ PassOK' /\ ServerOK'
    BY <1>0, <2>0, KeptTypes
  <2> QED
    BY <2>1, <2>2 DEF TypeOK
<1>26. ASSUME NEW k \in Keys, NEW outcome \in {"refused", "gave up", "retry"}, WriteBack(k,
outcome) PROVE TypeOK'
  <2>0. UNCHANGED <<draft, active, queued, stored, saving, editing, pass>>
    BY <1>26 DEF WriteBack, LetGo, page, panel, server
  <2>1. SentOK'
    <3>1. row' \in [Keys -> {"none", "queued", "failed"}]
      BY <1>0, <1>26 DEF WriteBack, SentOK
    <3>2. \A l \in Keys : row'[l] # "none" => row[l] # "none"
      BY <1>0, <1>26 DEF WriteBack, SentOK
    <3>3. UNCHANGED <<saving, sentAs>>
      BY <1>26 DEF WriteBack, panel
    <3> QED
      BY <1>0, <3>1, <3>2, <3>3 DEF SentOK
  <2>2. ServerOK'
    <3>1. excuse' \subseteq excuse \cup {k}
      BY <1>26 DEF WriteBack, LetGo
    <3>2. UNCHANGED <<acks, copies, server>>
      BY <1>26 DEF WriteBack
    <3> QED
      BY <1>0, <3>1, <3>2 DEF ServerOK, server
  <2>3. DraftOK' /\ FlagsOK' /\ StoredOK' /\ SavingOK' /\ EditingOK' /\ PassOK'
    BY <1>0, <2>0, KeptTypes
  <2> QED
    BY <2>1, <2>2, <2>3 DEF TypeOK
<1>27. ASSUME NEW k \in Keys, ServerRuns(k) PROVE TypeOK'
  <2>0. UNCHANGED <<draft, active, queued, stored, saving, editing, pass, row, sentAs>>
    BY <1>27 DEF ServerRuns, page, panel, queue, history
  <2>1. ServerOK'
    BY <1>0, <1>27 DEF ServerRuns, page, panel, queue, history, ServerOK
  <2>2. DraftOK' /\ FlagsOK' /\ StoredOK' /\ SavingOK' /\ EditingOK' /\ PassOK' /\ SentOK'
    BY <1>0, <2>0, KeptTypes
  <2> QED
    BY <2>1, <2>2 DEF TypeOK
<1>28. CASE UNCHANGED vars
  BY <1>0, <1>28, KeptTypes DEF TypeOK, vars, panel, page, queue, server, history
<1> QED
  BY <1>1, <1>2, <1>3, <1>4, <1>5, <1>6, <1>7, <1>8, <1>9, <1>10, <1>11, <1>12, <1>13, <1>14,
     <1>15, <1>16, <1>17, <1>18, <1>19, <1>20, <1>21, <1>22, <1>23, <1>24, <1>25, <1>26,
     <1>27, <1>28 DEF Next, User, Page, Drain

LEMMA TypesAtStart == Init => TypeOK
<1> USE SentinelAssumption
<1> SUFFICES ASSUME Init PROVE TypeOK
  OBVIOUS
<1>1. DraftOK /\ StoredOK /\ SavingOK /\ EditingOK
  BY Forms DEF Init, DraftOK, StoredOK, SavingOK, EditingOK
<1>2. FlagsOK
  BY Zenon DEF Init, FlagsOK
<1>3. PassOK
  BY Forms DEF Init, PassOK
<1>4. SentOK
  BY Forms DEF Init, SentOK
<1>5. ServerOK
  BY DEF Init, ServerOK
<1> QED
  BY <1>1, <1>2, <1>3, <1>4, <1>5 DEF TypeOK

\* Every variable holds what the code may put there: a save, a run of
\* reconcileDraft and an Edit under way have a key, an empty line is never
\* stored, and nothing is acknowledged that has not landed.
THEOREM TypeCorrect == Spec => []TypeOK
  BY TypesAtStart, TypesKept, PTL DEF Spec

-----------------------------------------------------------------------------
(* The inductive invariant.                                                *)

LEMMA GivenGrows == [Next]_vars => Given \subseteq Given'
<1> SUFFICES ASSUME [Next]_vars PROVE refused \subseteq refused' /\ excuse \subseteq excuse'
  BY DEF Given
<1>1. CASE UNCHANGED <<refused, excuse>>
  BY <1>1
<1>2. ASSUME NoQueue PROVE refused \subseteq refused' /\ excuse \subseteq excuse'
  BY <1>2 DEF NoQueue, LetGo, queue, server
<1>3. ASSUME EditDiscards PROVE refused \subseteq refused' /\ excuse \subseteq excuse'
  BY <1>3 DEF EditDiscards, LetGo, server
<1>4. ASSUME NEW k \in Keys, NEW outcome \in {"refused", "gave up", "retry"}, WriteBack(k,
outcome) PROVE refused \subseteq refused' /\ excuse \subseteq excuse'
  BY <1>4 DEF WriteBack, LetGo, page, panel, server
<1>5. ASSUME NEW k \in Keys,
ServerRuns(k) PROVE refused \subseteq refused' /\ excuse \subseteq excuse'
  BY <1>5 DEF ServerRuns, page, panel, queue, history
<1>6. Next => UNCHANGED <<refused, excuse>> \/ NoQueue \/ EditDiscards
         \/ \E k \in Keys : ServerRuns(k) \/ \E outcome \in {"refused", "gave up",
         "retry"} : WriteBack(k, outcome)
  BY Zenon DEF Next, User, Page, Drain, server, history, Draw, StartOver, Start, ExitMode,
     LoadPage, Save, PostSucceeds, PostIsUnreadable, PostIsRefused, PostIsUnanswered,
     Enqueue, QueueSaveCloses, Reconcile, ReadRow, ReadAck, Settle, Edit, EditReadsAck,
     EditLanded, EditReadsRow, Discard, PutAck, DeleteRow
<1>7. UNCHANGED vars => UNCHANGED <<refused, excuse>>
  BY DEF vars, server, history
<1> QED
  BY <1>1, <1>2, <1>3, <1>4, <1>5, <1>6, <1>7

\* A key is sent under by save() alone.
LEMMA OnlySaveSends ==
  [Next]_vars => sentAs' = sentAs \/ \E k \in Keys, next \in {"post", "enqueue"} : Save(k, next)
  BY Zenon DEF Next, User, Page, Drain, LetGo, vars, server, history,
     Draw, StartOver, Start, ExitMode, LoadPage, PostSucceeds,
     PostIsUnreadable, PostIsRefused, PostIsUnanswered, Enqueue,
     QueueSaveCloses, NoQueue, Reconcile, ReadRow, ReadAck, Settle, Edit,
     EditReadsAck, EditLanded, EditReadsRow, EditDiscards, Discard, PutAck,
     DeleteRow, WriteBack, ServerRuns

\* What no step but a save can disturb: what may land only shrinks.
LEMMA Kept ==
  ASSUME IInv, Given \subseteq Given', sentAs' = sentAs
  PROVE  /\ \A b, k : MayLand(b, k)' => MayLand(b, k)
         /\ \A k \in Keys : ~MayLand(NoBody, k)
         /\ KeyNamesItsBody' /\ OneMayLand'
         /\ draft' = draft /\ stored' = stored =>
              /\ DraftsAreTagged'
              /\ row' = row /\ editing' = editing => FailedIsGiven'
              /\ saving' = saving => SavingIsTheDraft'
              /\ pass' = pass => PassIsCurrent'
<1>1. \A b, k : MayLand(b, k)' => MayLand(b, k)
  BY DEF MayLand
<1>2. \A k \in Keys : ~MayLand(NoBody, k)
  BY SentinelAssumption DEF IInv, TypeOK, SentOK, MayLand
<1>3. KeyNamesItsBody' /\ OneMayLand'
  BY <1>1 DEF IInv, KeyNamesItsBody, OneMayLand
<1>4. ASSUME draft' = draft, stored' = stored PROVE DraftsAreTagged'
  BY <1>1, <1>4 DEF IInv, DraftsAreTagged, Named, Tagged
<1>5. ASSUME draft' = draft, stored' = stored, row' = row,
editing' = editing PROVE FailedIsGiven'
  BY <1>5 DEF IInv, FailedIsGiven
<1>6. ASSUME draft' = draft, stored' = stored, saving' = saving PROVE SavingIsTheDraft'
  BY <1>6 DEF IInv, SavingIsTheDraft
<1>7. ASSUME draft' = draft, stored' = stored, pass' = pass PROVE PassIsCurrent'
  BY <1>1, <1>7 DEF IInv, PassIsCurrent, Current
<1> QED
  BY <1>1, <1>2, <1>3, <1>4, <1>5, <1>6, <1>7

LEMMA IInvKept == IInv /\ [Next]_vars => IInv'
<1> SUFFICES ASSUME IInv, [Next]_vars PROVE IInv'
  OBVIOUS
<1> USE SentinelAssumption
<1> DEFINE Rest == KeyNamesItsBody /\ DraftsAreTagged /\ OneMayLand /\ FailedIsGiven
                     /\ SavingIsTheDraft /\ PassIsCurrent
<1>0. TypeOK' /\ Given \subseteq Given'
  BY TypesKept, GivenGrows DEF IInv
<1>t. DraftOK /\ StoredOK /\ SavingOK /\ EditingOK /\ PassOK /\ SentOK /\ ServerOK
  BY DEF IInv, TypeOK
<1>1. ASSUME NEW b \in Bodies, Draw(b) PROVE Rest'
  <2>1. UNCHANGED <<sentAs, saving, editing, pass, row>>
    BY <1>1 DEF Draw, queue, server, history
  <2>2. DraftsAreTagged'
    <3>1. \A k \in Keys : MayLand(b, k) => draft.key = k
      BY <1>t, <1>1 DEF IInv, DraftsAreTagged, Tagged, Draw, Unseen, MayLand
    <3> QED
      BY <1>0, <1>t, <1>1, <2>1, <3>1, Kept, SMTT(10) DEF IInv, DraftsAreTagged, Named,
         Tagged, Draw, StoreDraft,
         Blank, DraftOK, StoredOK, Drafts
  <2>3. FailedIsGiven'
    BY <1>0, <1>t, <1>1, <2>1, Kept, SMTT(10) DEF IInv, FailedIsGiven, Draw, queue,
       StoreDraft, Blank, DraftOK, StoredOK, Drafts, SentOK, EditingOK, Editings
  <2>4. SavingIsTheDraft'
    BY <1>0, <1>t, <1>1, <2>1, Kept, SMTT(10) DEF IInv, SavingIsTheDraft, Draw, queue,
       StoreDraft, Blank, DraftOK, StoredOK, SavingOK, Savings, Drafts
  <2>5. PassIsCurrent'
    BY <1>0, <1>t, <1>1, <2>1, Kept, SMTT(10) DEF IInv, PassIsCurrent, Current, Draw, queue,
       StoreDraft, Blank, DraftOK, StoredOK, Drafts, PassOK, PassRecords
  <2> QED
    BY <1>0, <2>1, <2>2, <2>3, <2>4, <2>5, Kept
<1>2. ASSUME StartOver PROVE Rest'
  <2>1. UNCHANGED <<sentAs, saving, editing, pass, row>>
    BY <1>2 DEF StartOver, queue, server, history
  <2>2. DraftsAreTagged'
    BY <1>0, <1>t, <1>2, <2>1, Kept, SMTT(10) DEF IInv, DraftsAreTagged, Named, Tagged,
       StartOver, queue, StoreDraft, Blank, DraftOK, StoredOK, Drafts
  <2>3. FailedIsGiven'
    BY <1>0, <1>t, <1>2, <2>1, Kept, SMTT(10) DEF IInv, FailedIsGiven, StartOver, queue,
       StoreDraft, Blank, DraftOK, StoredOK, Drafts, SentOK, EditingOK, Editings
  <2>4. SavingIsTheDraft'
    BY <1>0, <1>t, <1>2, <2>1, Kept, SMTT(10) DEF IInv, SavingIsTheDraft, StartOver, queue,
       StoreDraft, Blank, DraftOK, StoredOK, SavingOK, Savings, Drafts
  <2>5. PassIsCurrent'
    BY <1>0, <1>t, <1>2, <2>1, Kept, SMTT(10) DEF IInv, PassIsCurrent, Current, StartOver,
       queue, StoreDraft, Blank, DraftOK, StoredOK, Drafts, PassOK, PassRecords
  <2> QED
    BY <1>0, <2>1, <2>2, <2>3, <2>4, <2>5, Kept
<1>3. ASSUME Start PROVE Rest'
  <2>1. UNCHANGED <<sentAs, stored, saving, editing, pass, row>>
    BY <1>3 DEF Start, queue, server, history
  <2>2. DraftsAreTagged'
    BY <1>0, <1>t, <1>3, <2>1, Kept, SMTT(10) DEF IInv, DraftsAreTagged, Named, Tagged,
       Start, queue, NotEditing, DraftOK, StoredOK, Drafts
  <2>3. FailedIsGiven'
    BY <1>0, <1>t, <1>3, <2>1, Kept, SMTT(10) DEF IInv, FailedIsGiven, Start, queue,
       NotEditing, DraftOK, StoredOK, Drafts, SentOK, EditingOK, Editings
  <2>4. SavingIsTheDraft'
    BY <1>0, <1>t, <1>3, <2>1, Kept, SMTT(10) DEF IInv, SavingIsTheDraft, Start, queue,
       NotEditing, DraftOK, StoredOK, SavingOK, Savings, Drafts
  <2>5. PassIsCurrent'
    BY <1>0, <1>t, <1>3, <2>1, Kept, SMTT(10) DEF IInv, PassIsCurrent, Current, Start, queue,
       NotEditing, DraftOK, StoredOK, Drafts, PassOK, PassRecords
  <2> QED
    BY <1>0, <2>1, <2>2, <2>3, <2>4, <2>5, Kept
<1>4. ASSUME ExitMode PROVE Rest'
  <2>1. UNCHANGED <<sentAs, draft, stored, saving, editing, pass, row>>
    BY <1>4 DEF ExitMode, queue, server, history
  <2> QED
    BY <1>0, <2>1, Kept
<1>5. ASSUME LoadPage PROVE Rest'
  <2>1. UNCHANGED <<sentAs, stored, row>>
    BY <1>5 DEF LoadPage, JustLoaded, queue, server, history
  <2>2. DraftsAreTagged'
    BY <1>0, <1>t, <1>5, <2>1, Kept, SMTT(10) DEF IInv, DraftsAreTagged, Named, Tagged,
       LoadPage, JustLoaded, queue, Blank, NotSaving, NotEditing, Resting, DraftOK, StoredOK,
       Drafts
  <2>3. FailedIsGiven'
    BY <1>0, <1>t, <1>5, <2>1, Kept, SMTT(10) DEF IInv, FailedIsGiven, LoadPage, JustLoaded,
       queue, Blank, NotSaving, NotEditing, Resting, DraftOK, StoredOK, Drafts, SentOK,
       EditingOK, Editings
  <2>4. SavingIsTheDraft'
    BY <1>0, <1>t, <1>5, <2>1, Kept, SMTT(10) DEF IInv, SavingIsTheDraft, LoadPage,
       JustLoaded, queue, Blank, NotSaving, NotEditing, Resting, DraftOK, StoredOK, SavingOK,
       Savings, Drafts
  <2>5. PassIsCurrent'
    BY <1>0, <1>t, <1>5, <2>1, Kept, SMTT(10) DEF IInv, PassIsCurrent, Current, LoadPage,
       JustLoaded, queue, Blank, NotSaving, NotEditing, Resting, DraftOK, StoredOK, Drafts,
       PassOK, PassRecords
  <2> QED
    BY <1>0, <2>1, <2>2, <2>3, <2>4, <2>5, Kept
<1>6. ASSUME NEW k \in Keys, NEW next \in {"post", "enqueue"}, Save(k, next) PROVE Rest'
  <2>1. /\ draft'.body = draft.body /\ draft'.key = k /\ draft'.sent = draft.body /\ draft'.failed = NoKey
        /\ stored' = draft' /\ saving'.key = k /\ UNCHANGED <<editing, pass, row, refused,
                                                              excuse>>
    BY <1>6 DEF Save, StoreDraft, queue
  <2>2. draft.body \in Bodies
    BY <1>t, <1>6 DEF Save, DraftOK, Drafts, SomeBody
  <2>3. sentAs' = [sentAs EXCEPT ![k] = @ \cup {draft.body}]
    BY <1>6 DEF Save
  <2>4. sentAs'[k] = {draft.body} /\ \A l \in Keys \ {k} : sentAs'[l] = sentAs[l]
    BY <1>t, <1>6, <2>3 DEF Save, KeyFor, SentOK, IInv, DraftsAreTagged, Named
  <2>5. \A l \in Keys : MayLand(draft.body, l)' => l = k
    <3> SUFFICES ASSUME NEW l \in Keys \ {k}, MayLand(draft.body, l) PROVE FALSE
      BY <2>1, <2>4 DEF MayLand, Given
    <3>1. draft.key = l /\ sentAs[l] = {draft.sent}
      BY DEF IInv, DraftsAreTagged, Named, Tagged
    <3> QED
      BY <1>6, <3>1 DEF Save, KeyFor, MayLand
  <2>6. ASSUME NEW b, NEW l \in Keys, MayLand(b, l)'
        PROVE  IF l = k THEN b = draft.body ELSE MayLand(b, l)
    BY <2>1, <2>4, <2>6 DEF MayLand, Given
  <2>7. KeyNamesItsBody'
    BY <2>4 DEF IInv, KeyNamesItsBody
  <2>8. OneMayLand'
    <3> SUFFICES ASSUME NEW l \in Keys, NEW m \in Keys, NEW b \in Bodies,
                        MayLand(b, l)', MayLand(b, m)', l # m
                 PROVE  FALSE
      BY DEF OneMayLand
    <3>1. CASE k \in {l, m}
      <4>1. b = draft.body
        BY <2>6, <3>1
      <4> QED
        BY <2>1, <2>5, <4>1 DEF MayLand
    <3>2. CASE k \notin {l, m}
      BY <2>6, <3>2 DEF IInv, OneMayLand
    <3> QED
      BY <3>1, <3>2
  <2>9. DraftsAreTagged'
    BY <2>1, <2>4, <2>5 DEF DraftsAreTagged, Named, Tagged
  <2>10. FailedIsGiven'
    BY <1>0, <2>1 DEF IInv, FailedIsGiven
  <2>11. SavingIsTheDraft'
    BY <2>1 DEF SavingIsTheDraft
  <2>12. PassIsCurrent'
    <3> SUFFICES ASSUME NEW q \in Passes, (pass[q].step # "no")' PROVE Current(q)'
      BY DEF PassIsCurrent
    <3>1. pass[q].key \in Keys /\ Current(q)
      BY <1>t, <2>1 DEF IInv, PassIsCurrent, PassOK
    <3>2. sentAs'[pass[q].key] # {}
      BY <2>4, <3>1 DEF Current
    <3>3. CASE pass[q].key # k
      BY <2>1, <3>1, <3>2, <3>3, <1>0 DEF Current
    <3>4. CASE pass[q].key = k
      <4>1. draft.key = k /\ draft.sent = draft.body
        BY <1>6, <3>1, <3>4 DEF Save, KeyFor, Current
      <4>2. \A l \in Keys : MayLand(pass[q].body, l)' => l = k
        <5> SUFFICES ASSUME NEW l \in Keys \ {k}, MayLand(pass[q].body, l)' PROVE FALSE
          OBVIOUS
        <5>1. MayLand(pass[q].body, l)
          BY <2>1, <2>4 DEF MayLand, Given
        <5> QED
          BY <3>1, <3>4, <4>1, <5>1 DEF Current
      <4> QED
        BY <1>0, <2>1, <3>1, <3>2, <3>4, <4>2 DEF Current
    <3> QED
      BY <3>3, <3>4
  <2> QED
    BY <2>7, <2>8, <2>9, <2>10, <2>11, <2>12
<1>7. ASSUME PostSucceeds PROVE Rest'
  <2>1. UNCHANGED <<sentAs, editing, pass, row>>
    BY <1>7 DEF PostSucceeds, queue, server, history
  <2>2. DraftsAreTagged'
    BY <1>0, <1>t, <1>7, <2>1, Kept, SMTT(10) DEF IInv, DraftsAreTagged, Named, Tagged,
       PostSucceeds, queue, StoreDraft, Blank, Untagged, NotSaving, DraftOK, StoredOK, Drafts
  <2>3. FailedIsGiven'
    BY <1>0, <1>t, <1>7, <2>1, Kept, SMTT(10) DEF IInv, FailedIsGiven, PostSucceeds, queue,
       StoreDraft, Blank, Untagged, NotSaving, DraftOK, StoredOK, Drafts, SentOK, EditingOK,
       Editings
  <2>4. SavingIsTheDraft'
    BY <1>0, <1>t, <1>7, <2>1, Kept, SMTT(10) DEF IInv, SavingIsTheDraft, PostSucceeds,
       queue, StoreDraft, Blank, Untagged, NotSaving, DraftOK, StoredOK, SavingOK, Savings,
       Drafts
  <2>5. PassIsCurrent'
    BY <1>0, <1>t, <1>7, <2>1, Kept, SMTT(10) DEF IInv, PassIsCurrent, Current, PostSucceeds,
       queue, StoreDraft, Blank, Untagged, NotSaving, DraftOK, StoredOK, Drafts, PassOK,
       PassRecords
  <2> QED
    BY <1>0, <2>1, <2>2, <2>3, <2>4, <2>5, Kept
<1>8. ASSUME PostIsUnreadable PROVE Rest'
  <2>1. UNCHANGED <<sentAs, draft, stored, editing, pass, row>>
    BY <1>8 DEF PostIsUnreadable, page, queue, server, history
  <2>2. SavingIsTheDraft'
    BY <1>0, <1>t, <1>8, <2>1, Kept, SMTT(10) DEF IInv, SavingIsTheDraft, PostIsUnreadable,
       page, queue, NotSaving, SavingOK, Savings
  <2> QED
    BY <1>0, <2>1, <2>2, Kept
<1>9. ASSUME PostIsRefused PROVE Rest'
  <2>1. UNCHANGED <<sentAs, editing, pass, row>>
    BY <1>9 DEF PostIsRefused, queue, server, history
  <2>2. DraftsAreTagged'
    <3>1. \A b : ~MayLand(b, saving.key)
      BY <1>t, <1>9 DEF PostIsRefused, MayLand, Given
    <3> QED
      BY <1>0, <1>t, <1>9, <2>1, <3>1, Kept, SMTT(10) DEF IInv, DraftsAreTagged,
         SavingIsTheDraft, Named, Tagged,
         PostIsRefused, StoreDraft, Untagged, Blank, DraftOK, StoredOK, Drafts, SomeKey
  <2>3. FailedIsGiven'
    BY <1>0, <1>t, <1>9, <2>1, Kept, SMTT(10) DEF IInv, FailedIsGiven, PostIsRefused, queue,
       StoreDraft, Blank, Untagged, NotSaving, DraftOK, StoredOK, Drafts, SentOK, EditingOK,
       Editings
  <2>4. SavingIsTheDraft'
    BY <1>0, <1>t, <1>9, <2>1, Kept, SMTT(10) DEF IInv, SavingIsTheDraft, PostIsRefused,
       queue, StoreDraft, Blank, Untagged, NotSaving, DraftOK, StoredOK, SavingOK, Savings,
       Drafts
  <2>5. PassIsCurrent'
    BY <1>0, <1>t, <1>9, <2>1, Kept, SMTT(10) DEF IInv, PassIsCurrent, Current,
       PostIsRefused, queue, StoreDraft, Blank, Untagged, NotSaving, DraftOK, StoredOK,
       Drafts, PassOK, PassRecords
  <2> QED
    BY <1>0, <2>1, <2>2, <2>3, <2>4, <2>5, Kept
<1>10. ASSUME PostIsUnanswered PROVE Rest'
  <2>1. UNCHANGED <<sentAs, draft, stored, editing, pass, row>>
    BY <1>10 DEF PostIsUnanswered, page, queue, server, history
  <2>2. SavingIsTheDraft'
    BY <1>0, <1>t, <1>10, <2>1, Kept, SMTT(10) DEF IInv, SavingIsTheDraft, PostIsUnanswered,
       page, queue, SavingOK, Savings
  <2> QED
    BY <1>0, <2>1, <2>2, Kept
<1>11. ASSUME Enqueue PROVE Rest'
  <2>1. UNCHANGED <<sentAs, draft, stored, editing, pass>>
    BY <1>11 DEF Enqueue, page, history
  <2>2. FailedIsGiven'
    BY <1>0, <1>t, <1>11, <2>1, Kept, SMTT(10) DEF IInv, FailedIsGiven, Enqueue, page,
       SentOK, EditingOK, Editings
  <2>3. SavingIsTheDraft'
    BY <1>0, <1>t, <1>11, <2>1, Kept, SMTT(10) DEF IInv, SavingIsTheDraft, Enqueue, page,
       SavingOK, Savings
  <2> QED
    BY <1>0, <2>1, <2>2, <2>3, Kept
<1>12. ASSUME QueueSaveCloses PROVE Rest'
  <2>1. UNCHANGED <<sentAs, draft, stored, editing, pass, row>>
    BY <1>12 DEF QueueSaveCloses, queue, server, history
  <2>2. SavingIsTheDraft'
    BY <1>0, <1>t, <1>12, <2>1, Kept, SMTT(10) DEF IInv, SavingIsTheDraft, QueueSaveCloses,
       queue, NotSaving, SavingOK, Savings
  <2> QED
    BY <1>0, <2>1, <2>2, Kept
<1>13. ASSUME NoQueue PROVE Rest'
  <2>1. UNCHANGED <<sentAs, editing, pass, row>>
    BY <1>13 DEF NoQueue, queue, server, LetGo
  <2>2. DraftsAreTagged'
    <3>1. \A b, k : k = saving.key => ~MayLand(b, k)'
      BY <1>t, <1>13 DEF NoQueue, MayLand, Given, LetGo, server
    <3> QED
      BY <1>0, <1>t, <1>13, <2>1, <3>1, Kept, SMTT(10) DEF IInv, DraftsAreTagged,
         SavingIsTheDraft, Named, Tagged,
         NoQueue, StoreDraft, Untagged, Blank, DraftOK, StoredOK, Drafts, SomeKey
  <2>3. FailedIsGiven'
    BY <1>0, <1>t, <1>13, <2>1, Kept, SMTT(10) DEF IInv, FailedIsGiven, NoQueue, queue,
       StoreDraft, Blank, Untagged, NotSaving, DraftOK, StoredOK, Drafts, SentOK, EditingOK,
       Editings
  <2>4. SavingIsTheDraft'
    BY <1>0, <1>t, <1>13, <2>1, Kept, SMTT(10) DEF IInv, SavingIsTheDraft, NoQueue, queue,
       StoreDraft, Blank, Untagged, NotSaving, DraftOK, StoredOK, SavingOK, Savings, Drafts
  <2>5. PassIsCurrent'
    BY <1>0, <1>t, <1>13, <2>1, Kept, SMTT(10) DEF IInv, PassIsCurrent, Current, NoQueue,
       queue, StoreDraft, Blank, Untagged, NotSaving, DraftOK, StoredOK, Drafts, PassOK,
       PassRecords
  <2> QED
    BY <1>0, <2>1, <2>2, <2>3, <2>4, <2>5, Kept
<1>14. ASSUME NEW q \in Passes, Reconcile(q) PROVE Rest'
  <2>1. UNCHANGED <<sentAs, draft, stored, saving, editing, row>>
    BY <1>14 DEF Reconcile, queue, server, history
  <2>2. PassIsCurrent'
    <3>1. CASE stored.key = NoKey
      BY <1>0, <1>14, <2>1, <3>1, Kept DEF Reconcile
    <3>2. CASE stored.key # NoKey
      <4> SUFFICES ASSUME NEW r \in Passes, (pass[r].step # "no")' PROVE Current(r)'
        BY DEF PassIsCurrent
      <4>1. sentAs[stored.key] # {} /\ \A k \in Keys : MayLand(stored.body, k) => k = stored.key
        BY <3>2 DEF IInv, DraftsAreTagged, Named, Tagged
      <4>2. CASE r = q
        <5>1. pass'[r].step = "row" /\ pass'[r].key = stored.key /\ pass'[r].body = stored.body
          BY <1>t, <1>14, <3>2, <4>2 DEF Reconcile, PassOK, PassRecords
        <5> QED
          BY <1>0, <2>1, <4>1, <5>1, Kept DEF Current
      <4>3. CASE r # q
        <5>1. pass'[r] = pass[r]
          BY <1>t, <1>14, <3>2, <4>3 DEF Reconcile, PassOK
        <5> QED
          BY <1>0, <2>1, <5>1, Kept DEF IInv, PassIsCurrent, Current
      <4> QED
        BY <4>2, <4>3
    <3> QED
      BY <3>1, <3>2
  <2> QED
    BY <1>0, <2>1, <2>2, Kept
<1>15. ASSUME NEW q \in Passes, ReadRow(q) PROVE Rest'
  <2>1. UNCHANGED <<sentAs, draft, stored, saving, editing, row>>
    BY <1>15 DEF ReadRow, page, panel, queue, server, history
  <2>2. PassIsCurrent'
    <3> SUFFICES ASSUME NEW r \in Passes, (pass[r].step # "no")' PROVE Current(r)'
      BY DEF PassIsCurrent
    <3>1. CASE r = q
      <4>1. Current(r) /\ pass[r].key \in Keys
        BY <1>t, <1>15, <3>1 DEF ReadRow, IInv, PassIsCurrent, PassOK
      <4>2. pass'[r].step = "ack" /\ pass'[r].key = pass[r].key /\ pass'[r].body = pass[r].body
            /\ (pass'[r].found = "failed" => row[pass[r].key] = "failed")
        BY <1>t, <1>15, <3>1 DEF ReadRow, PassOK, PassRecords
      <4>3. pass[r].step = "ack" /\ pass[r].found = "failed" => pass[r].key \in Given
        BY <4>1 DEF Current
      <4> QED
        BY <1>0, <1>15, <2>1, <3>1, <4>1, <4>2, <4>3, Kept DEF ReadRow, Current, IInv,
           FailedIsGiven
    <3>2. CASE r # q
      <4>1. pass'[r] = pass[r]
        BY <1>t, <1>15, <3>2 DEF ReadRow, PassOK
      <4> QED
        BY <1>0, <2>1, <4>1, Kept DEF IInv, PassIsCurrent, Current
    <3> QED
      BY <3>1, <3>2
  <2> QED
    BY <1>0, <2>1, <2>2, Kept
<1>16. ASSUME NEW q \in Passes, ReadAck(q) PROVE Rest'
  <2>1. UNCHANGED <<sentAs, draft, stored, saving, editing, row>>
    BY <1>16 DEF ReadAck, page, panel, queue, server, history
  <2>2. PassIsCurrent'
    <3> SUFFICES ASSUME NEW r \in Passes, (pass[r].step # "no")' PROVE Current(r)'
      BY DEF PassIsCurrent
    <3>1. CASE r = q
      <4>1. Current(r) /\ pass[r].key \in Keys
        BY <1>t, <1>16, <3>1 DEF ReadAck, IInv, PassIsCurrent, PassOK
      <4>2. pass'[r].step = "settle" /\ pass'[r].key = pass[r].key /\ pass'[r].body = pass[r].body
            /\ (pass'[r].found = "failed" => pass[r].found = "failed")
        BY <1>t, <1>16, <3>1 DEF ReadAck, PassOK, PassRecords
      <4>3. pass[r].step = "ack" /\ pass[r].found = "failed" => pass[r].key \in Given
        BY <4>1 DEF Current
      <4> QED
        BY <1>0, <1>16, <2>1, <3>1, <4>1, <4>2, <4>3, Kept DEF ReadAck, Current, IInv,
           FailedIsGiven
    <3>2. CASE r # q
      <4>1. pass'[r] = pass[r]
        BY <1>t, <1>16, <3>2 DEF ReadAck, PassOK
      <4> QED
        BY <1>0, <2>1, <4>1, Kept DEF IInv, PassIsCurrent, Current
    <3> QED
      BY <3>1, <3>2
  <2> QED
    BY <1>0, <2>1, <2>2, Kept
<1>17. ASSUME NEW q \in Passes, Settle(q) PROVE Rest'
  <2>1. pass[q].key \in Keys /\ pass[q].body \in Bodies /\ pass[q].step = "settle"
    BY <1>t, <1>17 DEF Settle, PassOK
  <2>2. /\ pass' = [pass EXCEPT ![q] = Resting]
        /\ UNCHANGED <<saving, editing, row, refused, excuse, sentAs>>
    BY <1>17 DEF Settle, queue, server, history
  <2>3. \/ UNCHANGED <<draft, stored>>
        \/ draft' = Blank /\ stored' = Blank
        \/ /\ stored.key = pass[q].key /\ pass[q].found = "failed"
           /\ draft' = [Untagged(draft) EXCEPT !.failed = pass[q].key]
           /\ stored' = [Blank EXCEPT !.body = pass[q].body, !.failed = pass[q].key]
    BY <1>t, <1>17, <2>1 DEF Settle, page, ResetDraft, DraftState, PassOK, PassRecords
  <2>4. \A r \in Passes : (pass[r].step # "no")' => pass'[r] = pass[r]
    BY <1>t, <2>2, Forms DEF PassOK
  <2>5. CASE UNCHANGED <<draft, stored>>
    <3>1. PassIsCurrent'
      BY <1>0, <2>2, <2>4, <2>5, Kept DEF IInv, PassIsCurrent, Current
    <3> QED
      BY <1>0, <2>2, <2>5, <3>1, Kept
  <2>6. CASE draft' = Blank /\ stored' = Blank
    <3>1. DraftsAreTagged'
      BY <1>0, <2>2, <2>6, Kept DEF DraftsAreTagged, Named, Tagged, Blank
    <3>2. FailedIsGiven' /\ SavingIsTheDraft'
      BY <1>0, <2>2, <2>6 DEF IInv, FailedIsGiven, SavingIsTheDraft, Blank
    <3>3. PassIsCurrent'
      BY <1>0, <1>t, <2>2, <2>4, <2>6, Kept DEF IInv, PassIsCurrent, Current, PassOK, Blank
    <3> QED
      BY <1>0, <2>2, <3>1, <3>2, <3>3, Kept
  <2>7. CASE /\ stored.key = pass[q].key /\ pass[q].found = "failed"
             /\ draft' = [Untagged(draft) EXCEPT !.failed = pass[q].key]
             /\ stored' = [Blank EXCEPT !.body = pass[q].body, !.failed = pass[q].key]
    <3>1. /\ draft'.body = draft.body /\ draft'.key = NoKey /\ draft'.sent = NoBody
          /\ stored'.body = pass[q].body /\ stored'.key = NoKey /\ stored'.sent = NoBody
          /\ draft'.failed = pass[q].key /\ stored'.failed = pass[q].key
      BY <1>t, <2>7 DEF DraftOK, Drafts, Untagged, Blank
    <3>2. pass[q].key \in Given
      BY <2>1, <2>7 DEF IInv, PassIsCurrent, Current
    <3>3. \A k \in Keys : ~MayLand(pass[q].body, k)
      BY <2>1, <2>7, <3>2 DEF IInv, PassIsCurrent, Current, MayLand
    <3>4. \A k \in Keys : ~MayLand(draft.body, k)
      <4> SUFFICES ASSUME NEW k \in Keys, MayLand(draft.body, k) PROVE FALSE
        OBVIOUS
      <4>1. k = pass[q].key
        BY <2>1, <2>7 DEF IInv, DraftsAreTagged, Tagged
      <4> QED
        BY <3>2, <4>1 DEF MayLand
    <3>5. DraftsAreTagged'
      BY <1>0, <2>2, <3>1, <3>3, <3>4, Kept DEF DraftsAreTagged, Named, Tagged
    <3>6. FailedIsGiven' /\ SavingIsTheDraft'
      BY <1>0, <2>2, <3>1, <3>2 DEF IInv, FailedIsGiven, SavingIsTheDraft
    <3>7. PassIsCurrent'
      BY <1>0, <1>t, <2>2, <2>4, <3>1 DEF IInv, PassIsCurrent, Current, PassOK
    <3> QED
      BY <1>0, <2>2, <3>5, <3>6, <3>7, Kept
  <2> QED
    BY <2>3, <2>5, <2>6, <2>7
<1>18. ASSUME NEW k \in Keys, Edit(k) PROVE Rest'
  <2>1. UNCHANGED <<sentAs, draft, stored, saving, pass, row>>
    BY <1>18 DEF Edit, page, queue, server, history
  <2>2. FailedIsGiven'
    BY <1>0, <1>t, <1>18, <2>1, Kept, SMTT(10) DEF IInv, FailedIsGiven, Edit, page, queue,
       SentOK, EditingOK, Editings
  <2> QED
    BY <1>0, <2>1, <2>2, Kept
<1>19. ASSUME EditReadsAck PROVE Rest'
  <2>1. UNCHANGED <<sentAs, draft, stored, saving, pass, row>>
    BY <1>19 DEF EditReadsAck, page, queue, server, history
  <2>2. FailedIsGiven'
    BY <1>0, <1>t, <1>19, <2>1, Kept, SMTT(10) DEF IInv, FailedIsGiven, EditReadsAck, page,
       queue, SentOK, EditingOK, Editings
  <2> QED
    BY <1>0, <2>1, <2>2, Kept
<1>20. ASSUME EditLanded PROVE Rest'
  <2>1. UNCHANGED <<sentAs, saving, pass>>
    BY <1>20 DEF EditLanded, ResetDraft, page, server, history
  <2>2. DraftsAreTagged'
    BY <1>0, <1>t, <1>20, <2>1, Kept, SMTT(10) DEF IInv, DraftsAreTagged, Named, Tagged,
       EditLanded, ResetDraft, page, Blank, NotEditing, DraftOK, StoredOK, Drafts
  <2>3. FailedIsGiven'
    BY <1>0, <1>t, <1>20, <2>1, Kept, SMTT(10) DEF IInv, FailedIsGiven, EditLanded,
       ResetDraft, page, Blank, NotEditing, DraftOK, StoredOK, Drafts, SentOK, EditingOK,
       Editings
  <2>4. SavingIsTheDraft'
    BY <1>0, <1>t, <1>20, <2>1, Kept, SMTT(10) DEF IInv, SavingIsTheDraft, EditLanded,
       ResetDraft, page, Blank, NotEditing, DraftOK, StoredOK, SavingOK, Savings, Drafts
  <2>5. PassIsCurrent'
    BY <1>0, <1>t, <1>20, <2>1, Kept, SMTT(10) DEF IInv, PassIsCurrent, Current, EditLanded,
       ResetDraft, page, Blank, NotEditing, DraftOK, StoredOK, Drafts, PassOK, PassRecords
  <2> QED
    BY <1>0, <2>1, <2>2, <2>3, <2>4, <2>5, Kept
<1>21. ASSUME EditReadsRow PROVE Rest'
  <2>1. UNCHANGED <<sentAs, draft, stored, saving, pass, row>>
    BY <1>21 DEF EditReadsRow, page, queue, server, history
  <2>2. FailedIsGiven'
    BY <1>0, <1>t, <1>21, <2>1, Kept, SMTT(10) DEF IInv, FailedIsGiven, EditReadsRow, page,
       queue, NotEditing, SentOK, EditingOK, Editings
  <2> QED
    BY <1>0, <2>1, <2>2, Kept
<1>22. ASSUME EditDiscards PROVE Rest'
  <2>1. UNCHANGED <<sentAs, saving, pass>>
    BY <1>22 DEF EditDiscards, server, LetGo
  <2>2. DraftsAreTagged'
    <3>1. \A k \in Keys : \A b : b = editing.body => ~MayLand(b, k)'
      BY <1>0, <1>t, <1>22, <2>1 DEF IInv, FailedIsGiven, EditDiscards, MayLand, Given,
         LetGo, server
    <3>2. /\ draft'.body = editing.body /\ draft'.key = NoKey /\ draft'.sent = NoBody
          /\ stored' \in {draft', Blank}
      BY <1>22 DEF EditDiscards, StoreDraft, Blank
    <3>3. Blank.body = NoBody /\ Blank.key = NoKey /\ Blank.sent = NoBody
      BY DEF Blank
    <3> QED
      BY <1>0, <2>1, <3>1, <3>2, <3>3, Kept DEF DraftsAreTagged, Named, Tagged
  <2>3. FailedIsGiven'
    BY <1>0, <1>t, <1>22, <2>1, Kept, SMTT(10) DEF IInv, FailedIsGiven, EditDiscards,
       StoreDraft, Blank, NotEditing, DraftOK, StoredOK, Drafts, SentOK, EditingOK, Editings
  <2>4. SavingIsTheDraft'
    BY <1>0, <1>t, <1>22, <2>1, Kept, SMTT(10) DEF IInv, SavingIsTheDraft, EditDiscards,
       StoreDraft, Blank, NotEditing, DraftOK, StoredOK, SavingOK, Savings, Drafts
  <2>5. PassIsCurrent'
    BY <1>0, <1>t, <1>22, <2>1, Kept, SMTT(10) DEF IInv, PassIsCurrent, Current,
       EditDiscards, StoreDraft, Blank, NotEditing, DraftOK, StoredOK, Drafts, PassOK,
       PassRecords
  <2> QED
    BY <1>0, <2>1, <2>2, <2>3, <2>4, <2>5, Kept
<1>23. ASSUME NEW k \in Keys, Discard(k) PROVE Rest'
  <2>1. UNCHANGED <<sentAs, saving, editing, pass>>
    BY <1>23 DEF Discard, ResetDraft, page, server, history
  <2>2. DraftsAreTagged'
    BY <1>0, <1>t, <1>23, <2>1, Kept, SMTT(10) DEF IInv, DraftsAreTagged, Named, Tagged,
       Discard, ResetDraft, page, Blank, DraftOK, StoredOK, Drafts
  <2>3. FailedIsGiven'
    BY <1>0, <1>t, <1>23, <2>1, Kept, SMTT(10) DEF IInv, FailedIsGiven, Discard, ResetDraft,
       page, Blank, DraftOK, StoredOK, Drafts, SentOK, EditingOK, Editings
  <2>4. SavingIsTheDraft'
    BY <1>0, <1>t, <1>23, <2>1, Kept, SMTT(10) DEF IInv, SavingIsTheDraft, Discard,
       ResetDraft, page, Blank, DraftOK, StoredOK, SavingOK, Savings, Drafts
  <2>5. PassIsCurrent'
    BY <1>0, <1>t, <1>23, <2>1, Kept, SMTT(10) DEF IInv, PassIsCurrent, Current, Discard,
       ResetDraft, page, Blank, DraftOK, StoredOK, Drafts, PassOK, PassRecords
  <2> QED
    BY <1>0, <2>1, <2>2, <2>3, <2>4, <2>5, Kept
<1>24. ASSUME NEW k \in Keys, PutAck(k) PROVE Rest'
  <2>1. UNCHANGED <<sentAs, draft, stored, saving, editing, pass, row>>
    BY <1>24 DEF PutAck, page, panel, server, history
  <2> QED
    BY <1>0, <2>1, Kept
<1>25. ASSUME NEW k \in Keys, DeleteRow(k) PROVE Rest'
  <2>1. UNCHANGED <<sentAs, draft, stored, saving, editing, pass>>
    BY <1>25 DEF DeleteRow, page, panel, server, history
  <2>2. FailedIsGiven'
    BY <1>0, <1>t, <1>25, <2>1, Kept, SMTT(10) DEF IInv, FailedIsGiven, DeleteRow, page,
       panel, SentOK, EditingOK, Editings
  <2> QED
    BY <1>0, <2>1, <2>2, Kept
<1>26. ASSUME NEW k \in Keys, NEW outcome \in {"refused", "gave up", "retry"}, WriteBack(k,
outcome) PROVE Rest'
  <2>1. UNCHANGED <<sentAs, draft, stored, saving, editing, pass>>
    BY <1>26 DEF WriteBack, page, panel, server, LetGo
  <2>2. FailedIsGiven'
    <3>1. \A l \in Keys \ {k} : row'[l] = row[l]
      BY <1>t, <1>26 DEF WriteBack, SentOK
    <3>2. CASE outcome = "retry"
      BY <1>0, <1>t, <1>26, <2>1, <3>1, <3>2 DEF IInv, WriteBack, SentOK, FailedIsGiven
    <3>3. CASE outcome # "retry"
      <4>1. k \in Given'
        BY <1>26, <3>3 DEF WriteBack, Given, LetGo, server
      <4> QED
        BY <1>0, <2>1, <3>1, <4>1 DEF IInv, FailedIsGiven
    <3> QED
      BY <3>2, <3>3
  <2> QED
    BY <1>0, <2>1, <2>2, Kept
<1>27. ASSUME NEW k \in Keys, ServerRuns(k) PROVE Rest'
  <2>1. UNCHANGED <<sentAs, draft, stored, saving, editing, pass, row>>
    BY <1>27 DEF ServerRuns, page, panel, queue, history
  <2> QED
    BY <1>0, <2>1, Kept
<1>28. ASSUME UNCHANGED vars PROVE Rest'
  BY <1>0, <1>28, Kept DEF vars, panel, page, queue, history
<1> QED
  BY <1>0, <1>1, <1>2, <1>3, <1>4, <1>5, <1>6, <1>7, <1>8, <1>9, <1>10, <1>11, <1>12, <1>13,
     <1>14, <1>15, <1>16, <1>17, <1>18, <1>19, <1>20, <1>21, <1>22, <1>23, <1>24, <1>25,
     <1>26, <1>27, <1>28 DEF IInv, Next, User, Page, Drain

\* The inductive invariant: a line whose save may yet land is only in a draft
\* tagged with the key of that save, so that saving it again repeats the key.
THEOREM Invariant == Spec => []IInv
<1>1. Init => IInv
  <2> SUFFICES ASSUME Init PROVE IInv
    OBVIOUS
  <2>1. TypeOK
    BY TypesAtStart
  <2>2. \A b, k : k \in Keys => ~MayLand(b, k)
    BY DEF Init, MayLand
  <2>3. KeyNamesItsBody /\ OneMayLand
    BY <2>2 DEF Init, KeyNamesItsBody, OneMayLand
  <2>4. DraftsAreTagged
    BY <2>2 DEF Init, DraftsAreTagged, Named, Tagged, Blank
  <2>5. FailedIsGiven /\ SavingIsTheDraft
    BY DEF Init, FailedIsGiven, SavingIsTheDraft, Blank, NotEditing, NotSaving
  <2>6. PassIsCurrent
    BY DEF Init, PassIsCurrent, Resting
  <2> QED
    BY <2>1, <2>3, <2>4, <2>5, <2>6 DEF IInv
<1> QED
  BY <1>1, IInvKept, PTL DEF Spec

\* Whatever is edited, saved again, reloaded or left unanswered, a key is sent
\* with one body.
THEOREM OneBodyPerKey == Spec => []KeyNamesItsBody
<1>1. IInv => KeyNamesItsBody
  BY DEF IInv
<1> QED
  BY <1>1, Invariant, PTL

\* A line is made a route once, the excused keys apart.
THEOREM LineSavedOnce == Spec => []SavedOnce
<1>1. IInv => SavedOnce
  <2> SUFFICES ASSUME IInv, NEW k \in landed, NEW l \in landed, k # l,
                      NEW b \in sentAs[k] \cap sentAs[l]
               PROVE  {k, l} \cap excuse # {}
    BY DEF SavedOnce
  <2>1. k \in Keys /\ l \in Keys /\ k \notin refused /\ l \notin refused /\ b \in Bodies
    BY DEF IInv, TypeOK, ServerOK, SentOK
  <2> QED
    BY <2>1 DEF IInv, OneMayLand, MayLand, Given
<1> QED
  BY <1>1, Invariant, PTL

\* A draft offered as refused has not landed, the excused keys apart.
THEOREM RefusedDraftNotLanded == Spec => []RefusedDraftHasNotLanded
<1>1. IInv => RefusedDraftHasNotLanded
  BY SentinelAssumption DEF IInv, FailedIsGiven, Given, TypeOK, ServerOK,
     RefusedDraftHasNotLanded
<1> QED
  BY <1>1, Invariant, PTL

-----------------------------------------------------------------------------
(* What takes the stored line.                                             *)

\* While the panel is open, or a save under way, there is a line in memory
\* where there is one stored.
PanelHasTheLine ==
  active \/ saving.step # "no" => (draft.body = NoBody <=> stored.body = NoBody)

\* What a pass, or Edit, takes for landed has landed; Edit discards for a line.
ReadsAreTrue ==
  /\ \A q \in Passes :
       pass[q].step \in {"ack", "settle"} /\ pass[q].found = "acknowledged"
       => pass[q].key \in landed
  /\ editing.step = "landed" => editing.key \in landed
  /\ editing.step = "discard" => editing.body # NoBody

LineTaken ==
  stored.body # NoBody /\ stored'.body = NoBody =>
    \/ StartOver \/ PostSucceeds
    \/ \E k \in landed : IsSaveOf(stored, k)
    \/ \E k \in Keys : Discard(k) /\ IsSaveOf(stored, k)

LEMMA ReadsKept ==
  ASSUME ReadsAreTrue, UNCHANGED <<pass, editing>>, landed \subseteq landed'
  PROVE  ReadsAreTrue'
  BY DEF ReadsAreTrue

LEMMA UserTakes ==
  ASSUME TypeOK, PanelHasTheLine, ReadsAreTrue, User
  PROVE  PanelHasTheLine' /\ ReadsAreTrue' /\ LineTaken
<1>. USE SentinelAssumption
<1>t. DraftOK /\ StoredOK /\ SavingOK /\ EditingOK
  BY DEF TypeOK
<1>1. ASSUME NEW b \in Bodies, Draw(b)
      PROVE  PanelHasTheLine' /\ ReadsAreTrue' /\ LineTaken
  <2>1. draft'.body = b /\ stored'.body = b /\ b # NoBody
    BY <1>t, <1>1 DEF Draw, StoreDraft, DraftOK, Drafts
  <2>2. UNCHANGED <<pass, editing, landed>>
    BY <1>1 DEF Draw, server
  <2>. QED BY <2>1, <2>2, ReadsKept DEF PanelHasTheLine, LineTaken
<1>2. CASE StartOver
  <2>1. draft'.body = NoBody /\ stored'.body = NoBody
    BY <1>t, <1>2 DEF StartOver, StoreDraft, Blank, DraftOK, Drafts
  <2>2. UNCHANGED <<pass, editing, landed>>
    BY <1>2 DEF StartOver, server
  <2>. QED BY <1>2, <2>1, <2>2, ReadsKept DEF PanelHasTheLine, LineTaken
<1>3. CASE Start
  BY <1>3, ReadsKept DEF Start, server, PanelHasTheLine, LineTaken
<1>4. CASE ExitMode
  BY <1>4, ReadsKept DEF ExitMode, server, PanelHasTheLine, LineTaken
<1>5. CASE LoadPage
  <2>1. ~active' /\ saving'.step = "no" /\ editing'.step = "no"
    BY <1>5 DEF LoadPage, JustLoaded, NotSaving, NotEditing
  <2>2. stored' = stored /\ \A q \in Passes : pass'[q].step = "no"
    BY <1>5 DEF LoadPage, Resting
  <2>. QED BY <2>1, <2>2 DEF PanelHasTheLine, ReadsAreTrue, LineTaken
<1>6. ASSUME NEW k \in Keys, NEW next \in {"post", "enqueue"}, Save(k, next)
      PROVE  PanelHasTheLine' /\ ReadsAreTrue' /\ LineTaken
  <2>1. draft'.body # NoBody /\ stored'.body # NoBody
    BY <1>6 DEF Save, StoreDraft
  <2>2. UNCHANGED <<pass, editing, landed>>
    BY <1>6 DEF Save
  <2>. QED BY <2>1, <2>2, ReadsKept DEF PanelHasTheLine, LineTaken
<1>7. ASSUME NEW k \in Keys, Edit(k)
      PROVE  PanelHasTheLine' /\ ReadsAreTrue' /\ LineTaken
  BY <1>7 DEF Edit, page, server, PanelHasTheLine, ReadsAreTrue, LineTaken
<1>8. ASSUME NEW k \in Keys, Discard(k)
      PROVE  PanelHasTheLine' /\ ReadsAreTrue' /\ LineTaken
  <2>1. UNCHANGED <<pass, editing, landed, saving>>
    BY <1>8 DEF Discard, server
  <2>2. CASE IsSaveOf(stored, k)
    <3>1. draft' = Blank /\ stored' = Blank
      BY <1>8, <2>2 DEF Discard, ResetDraft
    <3>. QED BY <1>8, <2>1, <2>2, <3>1, ReadsKept DEF PanelHasTheLine, LineTaken
  <2>3. CASE ~IsSaveOf(stored, k)
    BY <1>8, <2>1, <2>3, ReadsKept DEF Discard, page, PanelHasTheLine, LineTaken
  <2>. QED BY <2>2, <2>3
<1>. QED BY <1>1, <1>2, <1>3, <1>4, <1>5, <1>6, <1>7, <1>8 DEF User

LEMMA SaveTakes ==
  ASSUME TypeOK, PanelHasTheLine, ReadsAreTrue,
         \/ PostSucceeds \/ PostIsUnreadable \/ PostIsRefused \/ PostIsUnanswered
         \/ Enqueue \/ QueueSaveCloses \/ NoQueue
  PROVE  PanelHasTheLine' /\ ReadsAreTrue' /\ LineTaken
<1>. USE SentinelAssumption
<1>t. DraftOK /\ StoredOK /\ SavingOK
  BY DEF TypeOK
<1>1. ReadsAreTrue'
  BY ReadsKept DEF PostSucceeds, PostIsUnreadable, PostIsRefused, PostIsUnanswered,
     Enqueue, QueueSaveCloses, NoQueue, server
<1>2. CASE PostSucceeds
  <2>1. saving'.step = "no" /\ ~active'
    BY <1>2 DEF PostSucceeds, NotSaving
  <2>. QED BY <1>1, <1>2, <2>1 DEF PanelHasTheLine, LineTaken
<1>3. CASE PostIsRefused \/ NoQueue
  <2>1. draft' = Untagged(draft) /\ StoreDraft(draft') /\ saving.step # "no"
    BY <1>3 DEF PostIsRefused, NoQueue
  <2>2. draft'.body = draft.body
    BY <1>t, <2>1 DEF Untagged, DraftOK, Drafts
  <2>3. stored'.body = draft.body
    BY <2>1, <2>2 DEF StoreDraft, Blank
  <2>. QED BY <1>1, <2>1, <2>2, <2>3 DEF PanelHasTheLine, LineTaken
<1>4. CASE PostIsUnreadable \/ PostIsUnanswered \/ Enqueue \/ QueueSaveCloses
  <2>1. draft' = draft /\ stored' = stored /\ saving.step # "no"
    BY <1>4 DEF PostIsUnreadable, PostIsUnanswered, Enqueue, QueueSaveCloses, page
  <2>. QED BY <1>1, <2>1 DEF PanelHasTheLine, LineTaken
<1>. QED BY <1>2, <1>3, <1>4

LEMMA PassTakes ==
  ASSUME TypeOK, PanelHasTheLine, ReadsAreTrue, NEW q \in Passes,
         Reconcile(q) \/ ReadRow(q) \/ ReadAck(q) \/ Settle(q)
  PROVE  PanelHasTheLine' /\ ReadsAreTrue' /\ LineTaken
<1>. USE SentinelAssumption
<1>t. DraftOK /\ StoredOK /\ SavingOK /\ PassOK /\ SentOK /\ ServerOK
  BY DEF TypeOK
<1>1. UNCHANGED <<saving, editing, landed, acks>>
  BY DEF Reconcile, ReadRow, ReadAck, Settle, panel, queue, server
<1>2. CASE Reconcile(q)
  <2>1. \/ pass' = pass
        \/ pass' = [pass EXCEPT ![q].step = "row", ![q].key = stored.key, ![q].body = stored.body]
    BY <1>2 DEF Reconcile
  <2>2. \A r \in Passes : pass'[r].step \in {"ack", "settle"} => pass'[r] = pass[r]
    BY <1>t, <2>1 DEF PassOK, PassRecords
  <2>. QED
    BY <1>1, <1>2, <2>2 DEF Reconcile, PanelHasTheLine, ReadsAreTrue, LineTaken
<1>3. CASE ReadRow(q)
  <2>1. \A r \in Passes : r # q => pass'[r] = pass[r]
    BY <1>t, <1>3 DEF ReadRow, PassOK
  <2>2. pass'[q].found = row[pass[q].key] /\ pass[q].key \in Keys
    BY <1>t, <1>3 DEF ReadRow, PassOK, PassRecords
  <2>3. pass'[q].found # "acknowledged"
    BY <1>t, <2>2 DEF SentOK
  <2>4. ASSUME NEW r \in Passes, pass'[r].step \in {"ack", "settle"},
               pass'[r].found = "acknowledged"
        PROVE  pass'[r].key \in landed
    <3>1. CASE r = q
      BY <2>3, <2>4, <3>1
    <3>2. CASE r # q
      BY <2>1, <2>4, <3>2 DEF ReadsAreTrue
    <3>. QED BY <3>1, <3>2
  <2>5. ReadsAreTrue'
    BY <1>1, <2>4 DEF ReadsAreTrue
  <2>. QED BY <1>1, <1>3, <2>5 DEF ReadRow, panel, page, PanelHasTheLine, LineTaken
<1>4. CASE ReadAck(q)
  <2>1. \A r \in Passes : r # q => pass'[r] = pass[r]
    BY <1>t, <1>4 DEF ReadAck, PassOK
  <2>2. /\ pass[q].step = "ack" /\ pass'[q].key = pass[q].key
        /\ pass'[q].found = "acknowledged" =>
             pass[q].key \in acks \/ pass[q].found = "acknowledged"
    BY <1>t, <1>4 DEF ReadAck, PassOK, PassRecords
  <2>3. pass'[q].found = "acknowledged" => pass'[q].key \in landed
    BY <1>t, <2>2 DEF ServerOK, ReadsAreTrue
  <2>4. ASSUME NEW r \in Passes, pass'[r].step \in {"ack", "settle"},
               pass'[r].found = "acknowledged"
        PROVE  pass'[r].key \in landed
    <3>1. CASE r = q
      BY <2>3, <2>4, <3>1
    <3>2. CASE r # q
      BY <2>1, <2>4, <3>2 DEF ReadsAreTrue
    <3>. QED BY <3>1, <3>2
  <2>5. ReadsAreTrue'
    BY <1>1, <2>4 DEF ReadsAreTrue
  <2>. QED BY <1>1, <1>4, <2>5 DEF ReadAck, panel, page, PanelHasTheLine, LineTaken
<1>5. CASE Settle(q)
  <2>. DEFINE k == pass[q].key
  <2>1. k \in Keys /\ pass[q].body \in Bodies /\ pass[q].step = "settle"
    BY <1>t, <1>5 DEF Settle, PassOK
  <2>2. ReadsAreTrue'
    <3>1. \A r \in Passes : pass'[r].step \in {"ack", "settle"} => pass'[r] = pass[r]
      BY <1>t, <1>5, Forms DEF Settle, PassOK
    <3>. QED BY <1>1, <3>1 DEF ReadsAreTrue
  <2>3. \/ UNCHANGED <<page, stored>>
        \/ stored.key = k /\ pass[q].found = "acknowledged" /\ ResetDraft
        \/ /\ stored.key = k
           /\ draft' = [Untagged(draft) EXCEPT !.failed = k] /\ UNCHANGED active
           /\ stored' = [Blank EXCEPT !.body = pass[q].body, !.failed = k]
        \/ UNCHANGED <<draft, active, stored>>
    BY <1>t, <1>5 DEF Settle, DraftState, PassOK, PassRecords
  <2>4. CASE UNCHANGED <<page, stored>> \/ UNCHANGED <<draft, active, stored>>
    BY <1>1, <2>2, <2>4 DEF page, PanelHasTheLine, LineTaken
  <2>5. CASE stored.key = k /\ pass[q].found = "acknowledged" /\ ResetDraft
    <3>1. k \in landed
      BY <2>1, <2>5 DEF ReadsAreTrue
    <3>2. draft' = Blank /\ stored' = Blank
      BY <2>5 DEF ResetDraft
    <3>. QED BY <2>2, <2>5, <3>1, <3>2 DEF PanelHasTheLine, LineTaken, IsSaveOf
  <2>6. CASE /\ stored.key = k
             /\ draft' = [Untagged(draft) EXCEPT !.failed = k] /\ UNCHANGED active
             /\ stored' = [Blank EXCEPT !.body = pass[q].body, !.failed = k]
    <3>1. draft'.body = draft.body
      BY <1>t, <2>6 DEF Untagged, DraftOK, Drafts
    <3>2. stored'.body = pass[q].body /\ stored'.body # NoBody
      BY <2>1, <2>6 DEF Blank
    <3>3. stored.body # NoBody
      BY <1>t, <2>1, <2>6 DEF StoredOK, Blank
    <3>. QED BY <1>1, <2>2, <2>6, <3>1, <3>2, <3>3 DEF PanelHasTheLine, LineTaken
  <2>. QED BY <2>3, <2>4, <2>5, <2>6
<1>. QED BY <1>2, <1>3, <1>4, <1>5

LEMMA EditTakes ==
  ASSUME TypeOK, PanelHasTheLine, ReadsAreTrue,
         EditReadsAck \/ EditLanded \/ EditReadsRow \/ EditDiscards
  PROVE  PanelHasTheLine' /\ ReadsAreTrue' /\ LineTaken
<1>. USE SentinelAssumption
<1>t. DraftOK /\ StoredOK /\ SavingOK /\ EditingOK /\ SentOK /\ ServerOK
  BY DEF TypeOK
<1>1. UNCHANGED <<saving, pass, landed>>
  BY DEF EditReadsAck, EditLanded, EditReadsRow, EditDiscards, server
<1>2. CASE EditReadsAck
  <2>1. /\ editing'.key = editing.key
        /\ editing'.step = IF editing.key \in acks THEN "landed" ELSE "row"
    BY <1>t, <1>2 DEF EditReadsAck, EditingOK, Editings
  <2>2. ReadsAreTrue'
    BY <1>t, <1>1, <2>1 DEF ServerOK, ReadsAreTrue
  <2>. QED BY <1>1, <1>2, <2>2 DEF EditReadsAck, page, PanelHasTheLine, LineTaken
<1>3. CASE EditLanded
  <2>1. editing.key \in landed /\ editing'.step = "no"
    BY <1>3, Forms DEF EditLanded, ReadsAreTrue
  <2>2. ReadsAreTrue'
    BY <1>1, <2>1 DEF ReadsAreTrue
  <2>3. CASE IsSaveOf(stored, editing.key) /\ ResetDraft
    <3>1. draft' = Blank /\ stored' = Blank
      BY <2>3 DEF ResetDraft
    <3>. QED BY <2>1, <2>2, <2>3, <3>1 DEF PanelHasTheLine, LineTaken
  <2>4. CASE UNCHANGED <<page, stored>>
    BY <1>1, <2>2, <2>4 DEF page, PanelHasTheLine, LineTaken
  <2>. QED BY <1>3, <2>3, <2>4 DEF EditLanded
<1>4. CASE EditReadsRow
  <2>. DEFINE k == editing.key
              body == IF IsSaveOf(stored, k) THEN stored.body ELSE BodyOf(k)
  <2>1. k \in Keys
    BY <1>t, <1>4 DEF EditReadsRow, EditingOK
  <2>2. row[k] # "none" => body # NoBody
    <3>1. IsSaveOf(stored, k) => stored.body # NoBody
      BY <1>t, <2>1 DEF IsSaveOf, StoredOK, Blank
    <3>2. row[k] # "none" => BodyOf(k) \in sentAs[k]
      BY <1>t, <2>1 DEF SentOK, BodyOf
    <3>3. row[k] # "none" => BodyOf(k) # NoBody
      BY <1>t, <2>1, <3>2 DEF SentOK
    <3>. QED BY <3>1, <3>3
  <2>3. \/ editing' = NotEditing
        \/ row[k] # "none" /\ editing' = [editing EXCEPT !.step = "discard", !.body = body]
    BY <1>4 DEF EditReadsRow
  <2>. HIDE DEF body
  <2>4. editing'.step # "landed" /\ (editing'.step = "discard" => editing'.body # NoBody)
    BY <1>t, <2>2, <2>3, Forms DEF EditingOK, Editings
  <2>5. ReadsAreTrue'
    BY <1>1, <2>4 DEF ReadsAreTrue
  <2>. QED BY <1>1, <1>4, <2>5 DEF EditReadsRow, page, PanelHasTheLine, LineTaken
<1>5. CASE EditDiscards
  <2>1. editing.body # NoBody /\ editing'.step = "no"
    BY <1>5, Forms DEF EditDiscards, ReadsAreTrue
  <2>2. ReadsAreTrue'
    BY <1>1, <2>1 DEF ReadsAreTrue
  <2>3. draft'.body = editing.body /\ stored' = draft'
    BY <1>5, <2>1 DEF EditDiscards, StoreDraft, Blank
  <2>. QED BY <2>1, <2>2, <2>3 DEF PanelHasTheLine, LineTaken
<1>. QED BY <1>2, <1>3, <1>4, <1>5

LEMMA StepTakes ==
  ASSUME TypeOK, PanelHasTheLine, ReadsAreTrue, [Next]_vars
  PROVE  PanelHasTheLine' /\ ReadsAreTrue' /\ LineTaken
<1>1. ASSUME NEW k \in Keys, Drain(k)
      PROVE  PanelHasTheLine' /\ ReadsAreTrue' /\ LineTaken
  <2>1. UNCHANGED <<panel, pass>> /\ landed \subseteq landed'
    BY <1>1 DEF Drain, PutAck, DeleteRow, ServerRuns, WriteBack, server
  <2>2. ReadsAreTrue'
    BY <2>1, ReadsKept DEF panel
  <2>. QED BY <2>1, <2>2 DEF panel, page, PanelHasTheLine, LineTaken
<1>2. CASE UNCHANGED vars
  <2>1. ReadsAreTrue'
    BY <1>2, ReadsKept DEF vars, panel, server
  <2>. QED BY <1>2, <2>1 DEF vars, panel, page, PanelHasTheLine, LineTaken
<1>. QED
  BY <1>1, <1>2, UserTakes, SaveTakes, PassTakes, EditTakes DEF Next, Page

\* A stored line goes with a save of its own that landed, and not with what a
\* reconcile or Edit read of another's, Start over, Discard and a post that
\* succeeds apart.
THEOREM LineGoesWithASave == Spec => LineGoesWithItsSave
<1>1. Init => PanelHasTheLine /\ ReadsAreTrue
  BY DEF Init, PanelHasTheLine, ReadsAreTrue, NotSaving, NotEditing, Resting
<1>2. TypeOK /\ PanelHasTheLine /\ ReadsAreTrue /\ [Next]_vars
        => PanelHasTheLine' /\ ReadsAreTrue' /\ [LineTaken]_stored
  BY StepTakes
<1>3. [LineTaken]_stored <=>
        [stored.body # NoBody /\ stored'.body = NoBody =>
           \/ StartOver \/ PostSucceeds
           \/ \E k \in landed : IsSaveOf(stored, k)
           \/ \E k \in Keys : Discard(k) /\ IsSaveOf(stored, k)]_stored
  BY DEF LineTaken
<1>. QED BY <1>1, <1>2, <1>3, TypeCorrect, PTL DEF Spec, LineGoesWithItsSave
=============================================================================
