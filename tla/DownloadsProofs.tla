-------------------------- MODULE DownloadsProofs ---------------------------
(***************************************************************************)
(* Theorems about Downloads, for any tabs, accounts and areas.             *)
(***************************************************************************)
EXTENDS Downloads, TLAPS

\* A record that is unclaimed, and was not put back, no account has had.
OwnedByOne ==
  \A a \in Areas \ putBack :
    /\ record[a] = Unclaimed => owners[a] = {}
    /\ \A p, q \in owners[a] : p = q

\* A stamp that is stored, or that a writer has read, is remembered.
Remembered(array) == \A a \in Areas : array[a] \in Accounts => array[a] \in ever[a]

\* What a tab does next is well typed; it pushes what its account's stamp has
\* been on, and puts back what was stored.
FlowInv ==
  /\ flow \in [Tabs -> Flows] /\ NobodyRecords
  /\ \A t \in Tabs :
       /\ flow[t].step = "push" => page[t] \in ever[flow[t].area]
       /\ flow[t].step = "put array" => Remembered(flow[t].array)

IInv ==
  /\ TypeOK /\ FlowInv /\ OwnedByOne
  /\ Remembered(record) /\ PushedUnderItsStamp

-----------------------------------------------------------------------------
(* What a tab does next. *)

LEMMA FlowShape ==
  ASSUME NEW f \in Flows
  PROVE  /\ f.step \in {"adopt", "reassert", "claim", "push"} => f.area \in Areas
         /\ f.step = "put array" => f.array \in Records
         /\ f.step \in {"no", "adopt", "reassert", "claim", "push", "put array"}
  BY DEF Flows

LEMMA IdleIsAFlow == Idle \in Flows /\ Idle.step = "no"
  BY DEF Flows, Idle

LEMMA FlowsOf ==
  /\ Idle \in Flows /\ Idle.step = "no"
  /\ \A a \in Areas, s \in {"adopt", "reassert", "claim", "push"} :
       /\ [step |-> s, area |-> a] \in Flows
       /\ [step |-> s, area |-> a].step = s /\ [step |-> s, area |-> a].area = a
  /\ \A r \in Records :
       /\ [step |-> "put array", array |-> r] \in Flows
       /\ [step |-> "put array", array |-> r].step = "put array"
       /\ [step |-> "put array", array |-> r].array = r
  BY DEF Flows, Idle

\* What one tab goes on to is enough for what is said of all of them.
LEMMA GoKeeps ==
  ASSUME IInv, NEW t \in Tabs, NEW f \in Flows, Go(t, f), UNCHANGED page,
         \A a \in Areas : ever[a] \subseteq ever'[a],
         page[t] \notin Accounts => f.step \in {"no", "put array"},
         f.step = "put array" => \A a \in Areas : f.array[a] \in Accounts => f.array[a] \in ever'[a],
         f.step = "push" => page[t] \in ever'[f.area]
  PROVE  FlowInv'
<1>1. flow' \in [Tabs -> Flows] /\ \A u \in Tabs : flow'[u] = IF u = t THEN f ELSE flow[u]
  BY DEF IInv, TypeOK, Go
<1>2. NobodyRecords'
  BY <1>1 DEF IInv, TypeOK, NobodyRecords
<1>3. \A u \in Tabs : (flow[u].step = "put array" => Remembered(flow[u].array))'
  BY <1>1 DEF IInv, FlowInv, Remembered
<1>4. \A u \in Tabs : (flow[u].step = "push" => page[u] \in ever[flow[u].area])'
  <2>1. \A u \in Tabs : flow[u].step = "push" => flow[u].area \in Areas
    BY FlowShape DEF IInv, TypeOK
  <2>. QED BY <1>1, <2>1 DEF IInv, FlowInv
<1>. QED BY <1>1, <1>2, <1>3, <1>4 DEF FlowInv

LEMMA GoToArea ==
  ASSUME IInv, NEW t \in Tabs, NEW a \in Areas, UNCHANGED page, page[t] \in Accounts,
         NEW s \in {"adopt", "reassert", "claim", "push"}, Go(t, [step |-> s, area |-> a]),
         \A b \in Areas : ever[b] \subseteq ever'[b],
         s = "push" => page[t] \in ever'[a]
  PROVE  FlowInv'
<1>. DEFINE f == [step |-> s, area |-> a]
<1>1. f \in Flows /\ f.step = s /\ f.area = a
  BY FlowsOf
<1>2. Go(t, f)
  OBVIOUS
<1>. HIDE DEF f
<1>. QED BY <1>1, <1>2, GoKeeps

LEMMA StopKeeps ==
  ASSUME IInv, NEW t \in Tabs, Stop(t), UNCHANGED page,
         \A a \in Areas : ever[a] \subseteq ever'[a]
  PROVE  FlowInv'
  BY GoKeeps, FlowsOf DEF Stop

\* What a step changes neither in the flow nor in the records it keeps.
LEMMA SameKeeps ==
  ASSUME IInv, FlowInv', UNCHANGED <<record, browser, queue, history>>,
         account' \in [Accounts -> SUBSET Areas]
  PROVE  IInv'
  BY DEF IInv, TypeOK, FlowInv, OwnedByOne, Remembered, PushedUnderItsStamp, browser, history

-----------------------------------------------------------------------------
(* The steps of a tab. *)

LEMMA CheckKeeps ==
  ASSUME IInv, NEW t \in Tabs, NEW a \in Areas, Load(t, a) \/ OpenSheet(t, a)
  PROVE  IInv'
<1>1. PICK s \in {"adopt", "reassert"} : Go(t, [step |-> s, area |-> a])
  BY DEF Load, OpenSheet
<1>2. page[t] \in Accounts /\ UNCHANGED <<record, browser, queue, account, history>>
  BY DEF Load, OpenSheet
<1>3. FlowInv'
  BY <1>1, <1>2, GoToArea DEF browser, history
<1>. QED BY <1>2, <1>3, SameKeeps DEF IInv, TypeOK

LEMMA RecordHeldKeeps ==
  ASSUME IInv, NEW t \in Tabs, At(t, "adopt") \/ At(t, "reassert"),
         RecordHeld(t) \/ Stop(t), UNCHANGED <<record, browser, queue, account, history>>
  PROVE  IInv'
<1>. DEFINE a == flow[t].area
<1>1. a \in Areas /\ page[t] \in Accounts
  BY FlowShape DEF IInv, TypeOK, NobodyRecords, At
<1>2. \/ Stop(t)
      \/ record[a] = page[t] /\ Go(t, [step |-> "push", area |-> a])
      \/ Go(t, [step |-> "claim", area |-> a])
  BY <1>1 DEF RecordHeld, Ownership
<1>. HIDE DEF a
<1>3. CASE Stop(t)
  BY <1>3, StopKeeps, SameKeeps DEF IInv, TypeOK, browser, history
<1>4. CASE record[a] = page[t] /\ Go(t, [step |-> "push", area |-> a])
  <2>1. page[t] \in ever'[a]
    BY <1>1, <1>4 DEF IInv, Remembered, history
  <2>2. FlowInv'
    BY <1>1, <1>4, <2>1, GoToArea DEF browser, history
  <2>. QED BY <2>2, SameKeeps DEF IInv, TypeOK
<1>5. CASE Go(t, [step |-> "claim", area |-> a])
  <2>1. FlowInv'
    BY <1>1, <1>5, GoToArea DEF browser, history
  <2>. QED BY <2>1, SameKeeps DEF IInv, TypeOK
<1>. QED BY <1>2, <1>3, <1>4, <1>5

LEMMA StampKeeps ==
  ASSUME IInv, NEW t \in Tabs, NEW a \in Areas, page[t] \in Accounts,
         record[a] = Unclaimed, Stamp(a, page[t]),
         Go(t, [step |-> "push", area |-> a]), UNCHANGED <<browser, queue, account>>
  PROVE  IInv'
<1>1. /\ record' \in Records
      /\ \A b \in Areas : record'[b] = IF b = a THEN page[t] ELSE record[b]
      /\ owners' \in [Areas -> SUBSET Accounts]
      /\ \A b \in Areas : owners'[b] = IF b = a THEN owners[b] \cup {page[t]} ELSE owners[b]
      /\ ever' \in [Areas -> SUBSET Accounts]
      /\ (\A b \in Areas : ever[b] \subseteq ever'[b]) /\ page[t] \in ever'[a]
      /\ putBack' = putBack
  BY DEF IInv, TypeOK, Stamp, Records
<1>2. FlowInv'
  BY <1>1, GoToArea DEF browser
<1>3. OwnedByOne'
  BY <1>1, SentinelsAssumption DEF IInv, OwnedByOne
<1>4. Remembered(record)'
  BY <1>1 DEF IInv, Remembered
<1>5. PushedUnderItsStamp'
  BY <1>1 DEF IInv, TypeOK, Requests, PushedUnderItsStamp
<1>. QED BY <1>1, <1>2, <1>3, <1>4, <1>5 DEF IInv, TypeOK, FlowInv, browser

LEMMA ClaimKeeps ==
  ASSUME IInv, NEW t \in Tabs, ClaimLocal(t)
  PROVE  IInv'
<1>. DEFINE a == flow[t].area
<1>1. a \in Areas /\ page[t] \in Accounts
  BY FlowShape DEF IInv, TypeOK, NobodyRecords, ClaimLocal, At
<1>2. UNCHANGED <<browser, queue, account>>
  BY DEF ClaimLocal
<1>3. \/ record[a] = Unclaimed /\ Stamp(a, page[t]) /\ Go(t, [step |-> "push", area |-> a])
      \/ /\ record[a] = page[t] /\ Go(t, [step |-> "push", area |-> a])
         /\ UNCHANGED <<record, history>>
      \/ Stop(t) /\ UNCHANGED <<record, history>>
  BY DEF ClaimLocal
<1>. HIDE DEF a
<1>4. CASE record[a] = Unclaimed /\ Stamp(a, page[t]) /\ Go(t, [step |-> "push", area |-> a])
  BY <1>1, <1>2, <1>4, StampKeeps
<1>5. CASE /\ record[a] = page[t] /\ Go(t, [step |-> "push", area |-> a])
           /\ UNCHANGED <<record, history>>
  <2>1. page[t] \in ever'[a]
    BY <1>1, <1>5 DEF IInv, Remembered, history
  <2>2. FlowInv'
    BY <1>1, <1>2, <1>5, <2>1, GoToArea DEF browser, history
  <2>. QED BY <1>2, <1>5, <2>2, SameKeeps DEF IInv, TypeOK
<1>6. CASE Stop(t) /\ UNCHANGED <<record, history>>
  BY <1>2, <1>6, StopKeeps, SameKeeps DEF IInv, TypeOK, browser, history
<1>. QED BY <1>3, <1>4, <1>5, <1>6

LEMMA PushKeeps ==
  ASSUME IInv, NEW t \in Tabs, Push(t)
  PROVE  IInv'
<1>. DEFINE a == flow[t].area
<1>1. a \in Areas /\ page[t] \in Accounts /\ page[t] \in ever[a]
  BY FlowShape DEF IInv, TypeOK, NobodyRecords, FlowInv, Push, At
<1>2. UNCHANGED <<record, browser, account, history>> /\ Stop(t)
  BY DEF Push
<1>3. FlowInv'
  BY <1>2, StopKeeps DEF browser, history
<1>4. queue' = queue \cup {[op |-> "sync", area |-> a, by |-> page[t]]}
  BY DEF Push, Enqueue
<1>5. queue' \subseteq Requests
  BY <1>1, <1>4 DEF IInv, TypeOK, Requests
<1>6. PushedUnderItsStamp'
  BY <1>1, <1>2, <1>4 DEF IInv, PushedUnderItsStamp, history
<1>. QED
  BY <1>2, <1>3, <1>5, <1>6 DEF IInv, TypeOK, FlowInv, OwnedByOne, Remembered, browser, history

LEMMA ForgetKeeps ==
  ASSUME IInv, NEW t \in Tabs, NEW a \in Areas, Forget(t, a)
  PROVE  IInv'
<1>1. queue' = queue \cup {[op |-> "forget", area |-> a, by |-> page[t]]}
  BY DEF Forget, Enqueue
<1>2. queue' \subseteq Requests
  BY <1>1 DEF IInv, TypeOK, Requests, Forget
<1>3. PushedUnderItsStamp'
  BY <1>1 DEF IInv, PushedUnderItsStamp, Forget, history
<1>. QED
  BY <1>2, <1>3 DEF IInv, TypeOK, NobodyRecords, FlowInv, OwnedByOne, Remembered,
                    Forget, browser, history

-----------------------------------------------------------------------------
(* The writers of the array. *)

LEMMA DownloadKeeps ==
  ASSUME IInv, NEW t \in Tabs, NEW a \in Areas, Download(t, a)
  PROVE  IInv'
<1>. DEFINE own == {NewStamp(t)} \cap Accounts
<1>1. UNCHANGED <<browser, queue, account>> /\ NewStamp(t) \in Accounts \cup {Unclaimed}
  BY DEF Download, Resting, IInv, TypeOK, NewStamp
<1>2. \/ /\ record[a] = NoArea
         /\ record' = [record EXCEPT ![a] = NewStamp(t)]
         /\ owners' = [owners EXCEPT ![a] = own]
         /\ ever' = [ever EXCEPT ![a] = @ \cup own]
         /\ putBack' = putBack \ {a}
      \/ UNCHANGED <<record, history>>
  BY DEF Download
<1>3. /\ record' \in Records
      /\ owners' \in [Areas -> SUBSET Accounts] /\ ever' \in [Areas -> SUBSET Accounts]
      /\ putBack' \subseteq Areas
      /\ \A b \in Areas : ever[b] \subseteq ever'[b]
  <2>1. own \subseteq Accounts
    OBVIOUS
  <2>2. CASE UNCHANGED <<record, history>>
    BY <2>2 DEF IInv, TypeOK, history
  <2>3. CASE /\ record' = [record EXCEPT ![a] = NewStamp(t)]
             /\ owners' = [owners EXCEPT ![a] = own]
             /\ ever' = [ever EXCEPT ![a] = @ \cup own]
             /\ putBack' = putBack \ {a}
    BY <1>1, <2>1, <2>3 DEF IInv, TypeOK, Records
  <2>. QED BY <1>2, <2>2, <2>3
<1>4. OwnedByOne'
  <2>1. CASE UNCHANGED <<record, history>>
    BY <2>1 DEF IInv, OwnedByOne, history
  <2>2. CASE /\ record' = [record EXCEPT ![a] = NewStamp(t)]
             /\ owners' = [owners EXCEPT ![a] = own]
             /\ putBack' = putBack \ {a}
    <3>1. (NewStamp(t) = Unclaimed => own = {}) /\ \A p, q \in own : p = q
      BY SentinelsAssumption
    <3>2. /\ record'[a] = NewStamp(t) /\ owners'[a] = own
          /\ \A b \in Areas \ {a} : record'[b] = record[b] /\ owners'[b] = owners[b]
      BY <2>2 DEF IInv, TypeOK, Records
    <3>. QED BY <2>2, <3>1, <3>2 DEF IInv, OwnedByOne
  <2>. QED BY <1>2, <2>1, <2>2
<1>5. Remembered(record)'
  <2>1. CASE UNCHANGED <<record, history>>
    BY <2>1 DEF IInv, Remembered, history
  <2>2. CASE /\ record' = [record EXCEPT ![a] = NewStamp(t)]
             /\ ever' = [ever EXCEPT ![a] = @ \cup own]
    <3>1. \A b \in Areas : record'[b] = IF b = a THEN NewStamp(t) ELSE record[b]
      BY <2>2 DEF IInv, TypeOK, Records
    <3>2. own \subseteq ever'[a]
      BY <2>2 DEF IInv, TypeOK
    <3>. QED BY <1>3, <3>1, <3>2 DEF IInv, Remembered
  <2>. QED BY <1>2, <2>1, <2>2
<1>6. FlowInv'
  <2>1. CASE record'[a] = page[t] /\ Go(t, [step |-> "push", area |-> a])
    <3>1. page[t] \in Accounts
      <4>1. record'[a] \in Accounts \cup {Unclaimed, NoArea}
        BY <1>3 DEF Records
      <4>2. page[t] \in Accounts \cup {Anon} /\ page[t] # Closed
        BY DEF Download, Resting, IInv, TypeOK
      <4>. QED BY <2>1, <4>1, <4>2, SentinelsAssumption
    <3>2. page[t] \in ever'[a]
      BY <1>5, <2>1, <3>1 DEF Remembered
    <3>. QED BY <1>1, <1>3, <2>1, <3>1, <3>2, GoToArea DEF browser
  <2>2. CASE UNCHANGED flow
    <3>1. \A u \in Tabs : flow[u].step = "push" => flow[u].area \in Areas
      BY FlowShape DEF IInv, TypeOK
    <3>. QED
      BY <1>1, <1>3, <2>2, <3>1 DEF IInv, TypeOK, NobodyRecords, FlowInv, Remembered, browser
  <2>. QED BY <2>1, <2>2 DEF Download
<1>7. PushedUnderItsStamp'
  BY <1>1, <1>3 DEF IInv, TypeOK, Requests, PushedUnderItsStamp
<1>. QED
  BY <1>1, <1>3, <1>4, <1>5, <1>6, <1>7
  DEF IInv, TypeOK, FlowInv, browser

LEMMA ReadArrayKeeps ==
  ASSUME IInv, NEW t \in Tabs, ReadArray(t)
  PROVE  IInv'
<1>. DEFINE f == [step |-> "put array", array |-> record]
<1>1. UNCHANGED <<record, browser, queue, account, history>> /\ Go(t, f)
  BY DEF ReadArray
<1>2. f \in Flows /\ f.step = "put array" /\ f.array = record
  BY FlowsOf DEF IInv, TypeOK
<1>. HIDE DEF f
<1>3. FlowInv'
  BY <1>1, <1>2, GoKeeps DEF IInv, Remembered, browser, history
<1>. QED BY <1>1, <1>3, SameKeeps DEF IInv, TypeOK

LEMMA PutArrayKeeps ==
  ASSUME IInv, NEW t \in Tabs, NEW array \in Records, PutArray(t, array), Remembered(array)
  PROVE  IInv'
<1>1. /\ record' = array /\ Stop(t)
      /\ putBack' = putBack \cup {a \in Areas : array[a] \notin {record[a], NoArea}}
      /\ UNCHANGED <<browser, queue, account, owners, ever>>
  BY DEF PutArray
<1>2. FlowInv'
  BY <1>1, StopKeeps DEF browser
<1>3. OwnedByOne'
  BY <1>1, SentinelsAssumption DEF IInv, OwnedByOne
<1>. QED
  BY <1>1, <1>2, <1>3 DEF IInv, TypeOK, FlowInv, Remembered, PushedUnderItsStamp, browser

LEMMA WriterKeeps ==
  ASSUME IInv, NEW t \in Tabs, Rewrite(t) \/ \E a \in Areas : Evict(t, a)
  PROVE  IInv'
<1>1. flow[t].array \in Records /\ Remembered(flow[t].array)
  BY FlowShape DEF IInv, TypeOK, FlowInv, Rewrite, Evict, At
<1>2. CASE Rewrite(t)
  BY <1>1, <1>2, PutArrayKeeps DEF Rewrite
<1>3. ASSUME NEW a \in Areas, Evict(t, a)
      PROVE  IInv'
  <2>. DEFINE rest == [flow[t].array EXCEPT ![a] = NoArea]
  <2>1. rest \in Records /\ Remembered(rest)
    BY <1>1, SentinelsAssumption DEF Records, Remembered
  <2>. QED BY <1>3, <2>1, PutArrayKeeps DEF Evict
<1>. QED BY <1>2, <1>3

-----------------------------------------------------------------------------
(* The server, the tabs and the sessions. *)

LEMMA ServerKeeps ==
  ASSUME IInv,
         \/ \E r \in Requests : Land(r) \/ Fail(r)
         \/ \E p \in Accounts, a \in Areas : OtherDevice(p, a)
  PROVE  IInv'
<1>1. queue' \subseteq queue /\ UNCHANGED <<record, browser, flow, history>>
  BY DEF Land, Fail, OtherDevice
<1>2. account' \in [Accounts -> SUBSET Areas]
  <2>1. ASSUME NEW r \in Requests, Land(r)
        PROVE  account' \in [Accounts -> SUBSET Areas]
    <3>1. r.by \in Accounts /\ r.area \in Areas
      BY DEF Requests
    <3>. QED BY <2>1, <3>1 DEF Land, IInv, TypeOK
  <2>2. ASSUME NEW p \in Accounts, NEW a \in Areas, OtherDevice(p, a)
        PROVE  account' \in [Accounts -> SUBSET Areas]
    BY <2>2 DEF OtherDevice, IInv, TypeOK
  <2>. QED BY <2>1, <2>2 DEF Fail, IInv, TypeOK
<1>. QED
  BY <1>1, <1>2 DEF IInv, TypeOK, NobodyRecords, FlowInv, OwnedByOne, Remembered,
                    PushedUnderItsStamp, browser, history

LEMMA LoadPageKeeps ==
  ASSUME IInv, NEW t \in Tabs, LoadPage(t)
  PROVE  IInv'
<1>1. /\ page' = [page EXCEPT ![t] = session] /\ page[t] = Closed
      /\ UNCHANGED <<record, session, flow, queue, account, history>>
  BY DEF LoadPage
<1>2. page' \in [Tabs -> Accounts \cup {Anon, Closed}]
  BY <1>1 DEF IInv, TypeOK
<1>3. flow[t].step \in {"no", "put array"}
  BY <1>1, SentinelsAssumption DEF IInv, TypeOK, NobodyRecords
<1>4. FlowInv'
  BY <1>1, <1>3 DEF IInv, TypeOK, NobodyRecords, FlowInv, Remembered, history
<1>. QED
  BY <1>1, <1>2, <1>4 DEF IInv, TypeOK, FlowInv, OwnedByOne, Remembered,
                          PushedUnderItsStamp, history

LEMMA CloseTabKeeps ==
  ASSUME IInv, NEW t \in Tabs, CloseTab(t)
  PROVE  IInv'
<1>1. /\ page' = [page EXCEPT ![t] = Closed]
      /\ UNCHANGED <<record, session, queue, account, history>>
  BY DEF CloseTab
<1>2. page' \in [Tabs -> Accounts \cup {Anon, Closed}]
  BY <1>1 DEF IInv, TypeOK
<1>3. flow' \in [Tabs -> Flows] /\ \A u \in Tabs : flow'[u] = IF u = t THEN Idle ELSE flow[u]
  BY IdleIsAFlow DEF IInv, TypeOK, CloseTab, Stop, Go
<1>4. /\ flow'[t].step = "no"
      /\ \A u \in Tabs : u # t => flow'[u] = flow[u] /\ page'[u] = page[u]
  <2>1. page \in [Tabs -> Accounts \cup {Anon, Closed}]
    BY DEF IInv, TypeOK
  <2>. QED BY <1>1, <1>3, <2>1, IdleIsAFlow
<1>5. NobodyRecords'
  BY <1>4 DEF IInv, TypeOK, NobodyRecords
<1>6. \A u \in Tabs : flow'[u].step \in {"push", "put array"} => u # t
  BY <1>4
<1>7. FlowInv'
  BY <1>1, <1>3, <1>4, <1>5, <1>6 DEF IInv, FlowInv, Remembered, history
<1>. QED
  BY <1>1, <1>2, <1>7 DEF IInv, TypeOK, FlowInv, OwnedByOne, Remembered,
                          PushedUnderItsStamp, history

LEMMA SignInKeeps ==
  ASSUME IInv, NEW p \in Accounts \cup {Anon}, SignIn(p)
  PROVE  IInv'
  BY DEF SignIn, IInv, TypeOK, NobodyRecords, FlowInv, OwnedByOne, Remembered,
         PushedUnderItsStamp, history

-----------------------------------------------------------------------------
(* The inductive invariant. *)

LEMMA InitHolds == Init => IInv
<1>. SUFFICES ASSUME Init PROVE IInv
  OBVIOUS
<1>1. \A t \in Tabs : flow[t].step = "no"
  BY IdleIsAFlow DEF Init
<1>2. TypeOK
  <2>1. flow \in [Tabs -> Flows] /\ NobodyRecords
    BY <1>1, IdleIsAFlow DEF Init, NobodyRecords
  <2>2. record \in Records /\ page \in [Tabs -> Accounts \cup {Anon, Closed}]
    BY DEF Init, Records
  <2>. QED BY <2>1, <2>2 DEF Init, TypeOK
<1>3. FlowInv
  BY <1>1, <1>2 DEF TypeOK, FlowInv
<1>4. \A a \in Areas : record[a] \in {NoArea, Unclaimed}
  BY DEF Init
<1>5. OwnedByOne /\ PushedUnderItsStamp
  BY DEF Init, OwnedByOne, PushedUnderItsStamp
<1>6. Remembered(record)
  BY <1>4, SentinelsAssumption DEF Remembered
<1>. QED BY <1>2, <1>3, <1>5, <1>6 DEF IInv

LEMMA NextKeeps == IInv /\ [Next]_vars => IInv'
<1>. SUFFICES ASSUME IInv, [Next]_vars PROVE IInv'
  OBVIOUS
<1>1. ASSUME NEW t \in Tabs, Proceed(t)
      PROVE  IInv'
  <2>1. CASE Adopt(t)
    BY <2>1, RecordHeldKeeps DEF Adopt
  <2>2. CASE Reassert(t)
    BY <2>2, RecordHeldKeeps DEF Reassert
  <2>3. CASE ClaimLocal(t)
    BY <2>3, ClaimKeeps
  <2>4. CASE Push(t)
    BY <2>4, PushKeeps
  <2>5. CASE Rewrite(t) \/ \E a \in Areas : Evict(t, a)
    BY <2>5, WriterKeeps
  <2>. QED BY <1>1, <2>1, <2>2, <2>3, <2>4, <2>5 DEF Proceed
<1>2. ASSUME NEW t \in Tabs, NEW a \in Areas, Begin(t, a)
      PROVE  IInv'
  BY <1>2, CheckKeeps, DownloadKeeps, ForgetKeeps DEF Begin
<1>3. ASSUME NEW t \in Tabs, ReadArray(t) \/ LoadPage(t) \/ CloseTab(t)
      PROVE  IInv'
  BY <1>3, ReadArrayKeeps, LoadPageKeeps, CloseTabKeeps
<1>4. ASSUME NEW p \in Accounts \cup {Anon}, SignIn(p)
      PROVE  IInv'
  BY <1>4, SignInKeeps
<1>5. CASE UNCHANGED vars
  BY <1>5 DEF IInv, TypeOK, NobodyRecords, FlowInv, OwnedByOne, Remembered,
              PushedUnderItsStamp, vars, browser, history
<1>. QED BY <1>1, <1>2, <1>3, <1>4, <1>5, ServerKeeps DEF Next

-----------------------------------------------------------------------------
(* The theorems. *)

\* The records, the requests and what every tab is at have their types, and the
\* page of nobody records nothing.
THEOREM TypeCorrect == Spec => []TypeOK
<1>1. IInv => TypeOK
  BY DEF IInv
<1>. QED BY InitHolds, NextKeeps, <1>1, PTL DEF Spec

\* However many tabs race to claim an area, and whatever they had read before,
\* one account at most has its download, unless a writer put the record back.
THEOREM ClaimsExcludeHolds == Spec => []ClaimsExclude
<1>1. IInv => ClaimsExclude
  BY DEF IInv, OwnedByOne, ClaimsExclude
<1>. QED BY InitHolds, NextKeeps, <1>1, PTL DEF Spec

\* No request to record an area waits for an account whose stamp the area's
\* record never bore, whoever else uses the browser.
THEOREM PushesAreStamped == Spec => []PushedUnderItsStamp
<1>1. IInv => PushedUnderItsStamp
  BY DEF IInv
<1>. QED BY InitHolds, NextKeeps, <1>1, PTL DEF Spec

=============================================================================
