---------------------------- MODULE AlertsProofs ----------------------------
(***************************************************************************)
(* Proofs about Alerts: however many messages are on their way, a PENDING  *)
(* row is carried by one of them; the log of a cell always has an order    *)
(* and a newest row; a trip's evening alert is due whatever a pin logged;  *)
(* and with one message on its way, the latest SENT row is what was heard. *)
(***************************************************************************)
EXTENDS Alerts, FiniteSetTheorems, TLAPS

\* What carries a row: the part of the type invariant the proof needs.
CarrierOK ==
  /\ outcome \in [Rows -> Outcomes]
  /\ queue \in Seq(SUBSET Rows)
  /\ job \in Jobs \cup {NoJob}

CarriedInv == CarrierOK /\ PendingIsCarried

\* Whether x is in a message, queued or in the worker's hands.
Carried(x) ==
  \/ \E i \in 1..Len(queue) : x \in queue[i]
  \/ job # NoJob /\ x \in job.rows

LEMMA InitCarried == Init => CarriedInv
  BY DEF Init, CarriedInv, CarrierOK, PendingIsCarried, Outcomes

LEMMA WrittenIsOutcome ==
  ASSUME NEW x \in Rows, NEW reachable \in BOOLEAN
  PROVE  Written(x, reachable) \in Outcomes
  BY DEF Written, Outcomes, Decisions

\* deliver leaves a row PENDING only if it queues it in the same step.
LEMMA WrittenPendingIsQueued ==
  ASSUME NEW x \in Rows, NEW reachable \in BOOLEAN,
         Written(x, reachable) = "PENDING"
  PROVE  reachable /\ x \in Message
  BY DEF Written

LEMMA DeliverCarried == CarriedInv /\ Deliver => CarriedInv'
<1> SUFFICES ASSUME CarriedInv, Deliver PROVE CarriedInv'
    OBVIOUS
<1> DEFINE reachable == Message # {} /\ (device \/ CanEmail)
<1>1. /\ outcome' = [x \in Rows |-> IF x \in DecidedOf THEN Written(x, reachable)
                                     ELSE outcome[x]]
      /\ lost' = lost \ DecidedOf
      /\ queue' = IF reachable THEN Append(queue, Message) ELSE queue
      /\ job' = job
  BY DEF Deliver, WriteRows, accountVars
<1>2. /\ queue \in Seq(SUBSET Rows)
      /\ Message \in SUBSET Rows
      /\ outcome \in [Rows -> Outcomes]
      /\ job \in Jobs \cup {NoJob}
      /\ PendingIsCarried
  BY DEF CarriedInv, CarrierOK, Message
<1>r. reachable \in BOOLEAN
  OBVIOUS
<1> HIDE DEF reachable
<1>3. CarrierOK'
  BY <1>1, <1>2, <1>r, WrittenIsOutcome DEF CarrierOK
<1>4. ASSUME NEW x \in Rows, outcome'[x] = "PENDING", x \notin lost'
      PROVE  Carried(x)'
  <2>1. \A i \in 1..Len(queue) : i \in 1..Len(queue') /\ queue'[i] = queue[i]
    BY <1>1, <1>2
  <2>2. CASE x \in DecidedOf
    <3>1. reachable /\ x \in Message
      BY <2>2, <1>1, <1>4, <1>r, WrittenPendingIsQueued
    <3>2. /\ queue' = Append(queue, Message)
          /\ Len(queue') = Len(queue) + 1 /\ queue'[Len(queue) + 1] = Message
          /\ Len(queue) \in Nat
      BY <3>1, <1>1, <1>2
    <3> QED BY <3>1, <3>2 DEF Carried
  <2>3. CASE x \notin DecidedOf
    <3>1. outcome[x] = "PENDING" /\ x \notin lost
      BY <2>3, <1>1, <1>4
    <3> QED BY <3>1, <2>1, <1>1, <1>2 DEF PendingIsCarried, Carried
  <2> QED BY <2>2, <2>3
<1> QED BY <1>3, <1>4 DEF CarriedInv, PendingIsCarried, Carried

LEMMA TakeMessageCarried == CarriedInv /\ TakeMessage => CarriedInv'
<1> SUFFICES ASSUME CarriedInv, TakeMessage PROVE CarriedInv'
    OBVIOUS
<1>1. /\ job = NoJob /\ queue # <<>>
      /\ job' = [rows |-> Head(queue), step |-> "push", reached |-> FALSE]
      /\ queue' = Tail(queue)
      /\ outcome' = outcome /\ lost' = lost
      /\ queue \in Seq(SUBSET Rows)
      /\ PendingIsCarried
  BY DEF TakeMessage, logVars, history, CarriedInv, CarrierOK
<1>2. /\ queue' \in Seq(SUBSET Rows)
      /\ Head(queue) \in SUBSET Rows /\ Head(queue) = queue[1]
      /\ Len(queue) \in Nat /\ Len(queue') = Len(queue) - 1
      /\ \A i \in 1..Len(queue') : queue'[i] = queue[i + 1]
  BY <1>1
<1>3. job' \in Jobs /\ job' # NoJob /\ job'.rows = queue[1]
  <2>1. job' = [rows |-> queue[1], step |-> "push", reached |-> FALSE]
    BY <1>1, <1>2
  <2>2. queue[1] \in SUBSET Rows
    BY <1>2
  <2>3. job' \in Jobs
    BY <2>1, <2>2 DEF Jobs
  <2>4. job'.rows = queue[1]
    BY <2>1
  <2> QED BY <2>3, <2>4, NoJobAssumption
<1>4. CarrierOK'
  BY <1>1, <1>2, <1>3 DEF CarriedInv, CarrierOK
<1>5. ASSUME NEW x \in Rows, outcome'[x] = "PENDING", x \notin lost'
      PROVE  Carried(x)'
  <2>1. PICK i \in 1..Len(queue) : x \in queue[i]
    BY <1>1, <1>5 DEF PendingIsCarried
  <2>2. CASE i = 1
    BY <2>1, <2>2, <1>3 DEF Carried
  <2>3. CASE i # 1
    <3>1. i - 1 \in 1..Len(queue') /\ queue'[i - 1] = queue[i]
      BY <2>3, <1>2
    <3> QED BY <3>1, <2>1 DEF Carried
  <2> QED BY <2>2, <2>3
<1> QED BY <1>4, <1>5 DEF CarriedInv, PendingIsCarried, Carried

\* Push and email change nothing of the message but how far it is.
LEMMA TellCarried == CarriedInv /\ (Push \/ Email) => CarriedInv'
<1> SUFFICES ASSUME CarriedInv, Push \/ Email PROVE CarriedInv'
    OBVIOUS
<1>1. PICK step \in {"email", "settle"}, reached \in BOOLEAN :
        job' = [job EXCEPT !.step = step, !.reached = reached]
  <2>1. CASE Push
    BY <2>1 DEF Push
  <2>2. CASE Email
    <3>1. job \in Jobs
      BY <2>2 DEF Email, CarriedInv, CarrierOK
    <3>2. job.reached \in BOOLEAN
      BY <3>1 DEF Jobs
    <3> QED BY <2>2, <3>2 DEF Email
  <2> QED BY <2>1, <2>2
<1>2. /\ job # NoJob /\ outcome' = outcome /\ queue' = queue /\ lost' = lost
  BY DEF Push, Email, logVars, history, HandOver
<1>3. job \in Jobs /\ job' \in Jobs /\ job'.rows = job.rows /\ job' # NoJob
  <2>1. job \in Jobs
    BY <1>2 DEF CarriedInv, CarrierOK
  <2>2. job' \in Jobs /\ job'.rows = job.rows
    BY <2>1, <1>1 DEF Jobs
  <2> QED BY <2>1, <2>2, NoJobAssumption
<1> QED BY <1>2, <1>3 DEF CarriedInv, CarrierOK, PendingIsCarried

\* A message is given up with its rows settled, or counted as lost.
LEMMA SettleCarried == CarriedInv /\ (Settle \/ WorkerDies) => CarriedInv'
<1> SUFFICES ASSUME CarriedInv, Settle \/ WorkerDies PROVE CarriedInv'
    OBVIOUS
<1>1. outcome \in [Rows -> Outcomes] /\ job' = NoJob /\ queue' = queue /\ job \in Jobs
  BY DEF CarriedInv, CarrierOK, Settle, WorkerDies
<1>2. CASE Settle
  <2>1. /\ outcome' \in [Rows -> Outcomes] /\ lost' = lost
        /\ \A x \in Rows : outcome'[x] = "PENDING" =>
             outcome[x] = "PENDING" /\ x \notin job.rows
    <3>1. outcome' = [x \in Rows |->
            IF x \in {y \in job.rows : outcome[y] = "PENDING"}
              THEN IF job.reached THEN "SENT" ELSE "FAILED" ELSE outcome[x]]
      BY <1>2 DEF Settle
    <3>2. lost' = lost
      BY <1>2 DEF Settle, history
    <3>3. outcome' \in [Rows -> Outcomes]
      BY <3>1, <1>1 DEF Outcomes, Decisions
    <3>4. ASSUME NEW x \in Rows, outcome'[x] = "PENDING"
          PROVE  outcome[x] = "PENDING" /\ x \notin job.rows
      BY <3>1, <3>4
    <3> QED BY <3>2, <3>3, <3>4
  <2> QED BY <2>1, <1>1 DEF CarriedInv, CarrierOK, PendingIsCarried
<1>3. CASE WorkerDies
  <2>1. outcome' = outcome /\ lost' = lost \cup {x \in job.rows : outcome[x] = "PENDING"}
    BY <1>3 DEF WorkerDies, logVars
  <2> QED BY <2>1, <1>1 DEF CarriedInv, CarrierOK, PendingIsCarried
<1> QED BY <1>2, <1>3

LEMMA NextCarried == CarriedInv /\ [Next]_vars => CarriedInv'
<1> SUFFICES ASSUME CarriedInv, [Next]_vars PROVE CarriedInv'
    OBVIOUS
<1> DEFINE Elsewhere == UNCHANGED <<outcome, queue, job, lost>>
<1>1. Elsewhere => CarriedInv'
  BY DEF CarriedInv, CarrierOK, PendingIsCarried
<1>2. CASE Evaluate
  BY <1>1, <1>2 DEF Evaluate, logVars, history
<1>3. CASE DeliverFails
  BY <1>1, <1>3 DEF DeliverFails, logVars, history
<1>4. ASSUME NEW c \in Cells, NEW s \in States, Publish(c, s) PROVE CarriedInv'
  BY <1>1, <1>4 DEF Publish, logVars, history
<1>5. ASSUME NEW d \in Days, NEW crossed \in SUBSET Regions, SaveTrip(d, crossed)
      PROVE  CarriedInv'
  BY <1>1, <1>5 DEF SaveTrip, logVars, history
<1>6. CASE NewDay \/ Unsubscribe \/ AddDevice
  BY <1>1, <1>6 DEF NewDay, Unsubscribe, AddDevice, logVars, history
<1>7. CASE UNCHANGED vars
  BY <1>1, <1>7 DEF vars, logVars, history
<1> QED
  BY <1>2, <1>3, <1>4, <1>5, <1>6, <1>7, DeliverCarried, TakeMessageCarried,
     TellCarried, SettleCarried DEF Next, Command, DbWorker

\* Whatever the bounds, the accounts' settings and the order of runs and
\* deliveries, a row that counts as told unsettled is in a message that will
\* settle it, or its worker died with it: nothing else can hold an alert back.
THEOREM PendingCarried == Spec => []PendingIsCarried
<1>1. CarriedInv => PendingIsCarried
  BY DEF CarriedInv
<1> QED BY <1>1, InitCarried, NextCarried, PTL DEF Spec

-----------------------------------------------------------------------------
(* The type invariant: the log of every cell has an order *)

\* At most one row of a cell, as DecidedRows leaves it.
OneRowEach(xs) == \A x, y \in xs : CellOf(x) = CellOf(y) => x = y

OneRowPerCell ==
  /\ \A x, y \in Rows, o, p \in Decisions :
       <<x, o>> \in run /\ <<y, p>> \in run /\ CellOf(x) = CellOf(y) => x = y
  /\ \A i \in 1..Len(queue) : OneRowEach(queue[i])
  /\ job # NoJob => OneRowEach(job.rows)

TypeInv == TypeOK /\ OneRowPerCell

LEMMA RowsAndCells ==
  /\ \A x \in Rows : /\ CellOf(x) \in Cells /\ x[1] \in Regions /\ x[2] \in Days
                     /\ x[3] \in States /\ x = RowOf(CellOf(x), x[3])
  /\ \A c \in Cells, s \in States : /\ RowOf(c, s) \in Rows
                                    /\ CellOf(RowOf(c, s)) = c /\ RowOf(c, s)[3] = s
  BY DEF Rows, Cells, CellOf, RowOf

\* Touching at most one row of each cell, of those that are in the log by then,
\* keeps every cell's log in order: the touched row is its newest.
LEMMA TouchedKeepsOrder ==
  ASSUME newer \in [Cells -> SUBSET (States \X States)],
         \A c \in Cells : InOrder(c),
         NEW xs \in SUBSET Rows, OneRowEach(xs),
         newer' = Touched(xs),
         \A c \in Cells : Logged(c)' = Logged(c) \cup {s \in States : RowOf(c, s) \in xs}
  PROVE  /\ newer' \in [Cells -> SUBSET (States \X States)]
         /\ \A c \in Cells : InOrder(c)'
<1> DEFINE new(c) == {s \in States : RowOf(c, s) \in xs}
           others(c) == Logged(c) \ new(c)
<1>1. \A c \in Cells : newer'[c] = (newer[c] \cap (others(c) \X others(c)))
                                     \cup (new(c) \X others(c))
  BY DEF Touched
<1>2. \A c \in Cells : Logged(c) \in SUBSET States
  BY DEF Logged
<1>3. newer' \in [Cells -> SUBSET (States \X States)]
  <2>1. newer' = [c \in Cells |-> (newer[c] \cap (others(c) \X others(c)))
                                     \cup (new(c) \X others(c))]
    BY DEF Touched
  <2> QED BY <2>1, <1>2
<1>4. ASSUME NEW c \in Cells PROVE InOrder(c)'
  <2> DEFINE N == new(c)  O == others(c)
  <2>1. newer'[c] = (newer[c] \cap (O \X O)) \cup (N \X O)
    BY <1>1
  <2>2. Logged(c)' = Logged(c) \cup N
    OBVIOUS
  <2>3. \A s, t \in N : s = t
    <3> SUFFICES ASSUME NEW s \in N, NEW t \in N PROVE s = t
        OBVIOUS
    <3>1. RowOf(c, s) \in xs /\ RowOf(c, t) \in xs
      OBVIOUS
    <3>2. CellOf(RowOf(c, s)) = CellOf(RowOf(c, t))
      BY RowsAndCells
    <3>3. RowOf(c, s) = RowOf(c, t)
      BY <3>1, <3>2 DEF OneRowEach
    <3> QED BY <3>3, RowsAndCells
  <2>4. /\ newer[c] \in SUBSET (States \X States)
        /\ \A s, t \in States : <<s, t>> \in newer[c] => <<t, s>> \notin newer[c]
        /\ \A ss \in (SUBSET Logged(c)) \ {{}} :
             \E s \in ss : \A t \in ss \ {s} : <<s, t>> \in newer[c]
    BY DEF InOrder
  <2>5. N \in SUBSET States /\ O = Logged(c) \ N /\ Logged(c) \in SUBSET States
    BY <1>2
  <2> HIDE DEF N, O
  <2>6. newer'[c] \subseteq Logged(c)' \X Logged(c)'
    BY <2>1, <2>2, <2>5
  <2>7. \A s, t \in States : <<s, t>> \in newer'[c] => <<t, s>> \notin newer'[c]
    BY <2>1, <2>4, <2>5
  <2>8. ASSUME NEW ss \in (SUBSET Logged(c)') \ {{}}
        PROVE  \E s \in ss : \A t \in ss \ {s} : <<s, t>> \in newer'[c]
    <3>1. CASE ss \cap N # {}
      <4>1. PICK s \in ss \cap N : TRUE
        BY <3>1
      <4>2. \A t \in ss \ {s} : t \in O
        BY <4>1, <2>2, <2>3, <2>5
      <4> QED BY <4>1, <4>2, <2>1
    <3>2. CASE ss \cap N = {}
      <4>1. ss \in (SUBSET Logged(c)) \ {{}} /\ ss \in SUBSET O
        BY <3>2, <2>2, <2>5
      <4>2. PICK s \in ss : \A t \in ss \ {s} : <<s, t>> \in newer[c]
        BY <4>1, <2>4
      <4>3. \A t \in ss \ {s} : <<s, t>> \in newer'[c]
        BY <4>1, <4>2, <2>1
      <4> QED BY <4>3
    <3> QED BY <3>1, <3>2
  <2> QED BY <2>6, <2>7, <2>8 DEF InOrder
<1> QED BY <1>3, <1>4

\* A cell with a logged state among some has a newest of them, and no other is
\* newer than it.
LEMMA NewestIsNewest ==
  ASSUME NEW c \in Cells, InOrder(c), NEW ss \in SUBSET Logged(c), ss # {}
  PROVE  /\ Newest(c, ss) \in ss
         /\ \A t \in ss \ {Newest(c, ss)} : <<Newest(c, ss), t>> \in newer[c]
<1>1. \E s \in ss : \A t \in ss \ {s} : <<s, t>> \in newer[c]
  BY DEF InOrder
<1> QED BY <1>1 DEF Newest

-----------------------------------------------------------------------------
(* What evaluate_account finds and decides *)

LEMMA PlacesTyped ==
  ASSUME trip \in [Days -> SUBSET Regions], NEW d \in Days, NEW p \in Places(d)
  PROVE  p.regions \in SUBSET Regions /\ p.trip \in BOOLEAN
<1>1. trip[d] \in SUBSET Regions
  OBVIOUS
<1>2. CASE p = [regions |-> trip[d], trip |-> TRUE]
  BY <1>1, <1>2
<1>3. CASE p # [regions |-> trip[d], trip |-> TRUE]
  <2>1. PICK r \in Pins \cup trip[d] : p = [regions |-> {r}, trip |-> trip[d] = {r}]
    BY <1>3 DEF Places
  <2>2. r \in Regions
    BY <1>1, PinsAssumption
  <2> QED BY <2>1, <2>2
<1> QED BY <1>2, <1>3

LEMMA EntriesTyped ==
  ASSUME trip \in [Days -> SUBSET Regions],
         bulletin \in [Cells -> States \cup {NoState}], NEW e \in Entries
  PROVE  /\ e.day \in Days /\ e.region \in Regions /\ CellAt(e) \in Cells
         /\ bulletin[CellAt(e)] \in States
<1>1. PICK d \in {today, today + 1} \cap Days :
        \E p \in Places(d) : e \in [place: {p}, region: p.regions, day: {d}]
  BY DEF Entries
<1>2. PICK p \in Places(d) : e.day = d /\ e.region \in p.regions
  BY <1>1
<1>3. e.region \in Regions
  BY <1>2, PlacesTyped
<1>4. CellAt(e) \in Cells
  BY <1>2, <1>3 DEF CellAt, Cells
<1>5. bulletin[CellAt(e)] # NoState
  BY DEF Entries
<1> QED BY <1>2, <1>3, <1>4, <1>5

LEMMA DecideTyped == \A e : Decide(e) \in Decisions
  BY DEF Decide, Decisions

LEMMA DecidedTyped ==
  ASSUME trip \in [Days -> SUBSET Regions],
         bulletin \in [Cells -> States \cup {NoState}],
         NEW row \in DecidedRows(Entries)
  PROVE  \E e \in Entries :
           /\ row[1] = RowOf(CellAt(e), bulletin[CellAt(e)])
           /\ row = <<row[1], row[2]>> /\ row[1] \in Rows /\ row[2] \in Decisions
           /\ row[2] = "BASELINE" => Decide(e) = "BASELINE"
<1>1. PICK e \in Entries :
        row = <<RowOf(CellAt(e), bulletin[CellAt(e)]),
                IF \E f \in Entries : CellAt(f) = CellAt(e) /\ Sends(f, Entries) THEN "SENT"
                ELSE IF Decide(e) = "SENT" THEN "SKIPPED" ELSE Decide(e)>>
  BY DEF DecidedRows
<1>2. RowOf(CellAt(e), bulletin[CellAt(e)]) \in Rows
  BY EntriesTyped, RowsAndCells
<1>3. Decide(e) \in Decisions
  BY DecideTyped
<1>4. row[2] \in Decisions /\ (row[2] = "BASELINE" => Decide(e) = "BASELINE")
  BY <1>1, <1>3 DEF Decisions
<1> QED BY <1>1, <1>2, <1>4

LEMMA OneDecisionPerCell ==
  ASSUME trip \in [Days -> SUBSET Regions],
         bulletin \in [Cells -> States \cup {NoState}],
         NEW x, NEW o, NEW y, NEW p,
         <<x, o>> \in DecidedRows(Entries), <<y, p>> \in DecidedRows(Entries),
         CellOf(x) = CellOf(y)
  PROVE  x = y
<1>1. PICK e \in Entries : x = RowOf(CellAt(e), bulletin[CellAt(e)])
  BY DecidedTyped
<1>2. PICK f \in Entries : y = RowOf(CellAt(f), bulletin[CellAt(f)])
  BY DecidedTyped
<1>3. CellOf(x) = CellAt(e) /\ CellOf(y) = CellAt(f)
  BY <1>1, <1>2, EntriesTyped, RowsAndCells
<1> QED BY <1>1, <1>2, <1>3

-----------------------------------------------------------------------------
(* Every step keeps the type *)

LEMMA InitTyped == Init => TypeInv
<1> SUFFICES ASSUME Init PROVE TypeInv
    OBVIOUS
<1>1. \A c \in Cells : Logged(c) = {}
  BY RowsAndCells DEF Init, Logged
<1>2. \A c \in Cells : InOrder(c)
  BY <1>1 DEF Init, InOrder
<1>3. 1 \in Days /\ 0 \in 0..MaxIssues
  BY BoundsAssumption DEF Days
<1>4. queue = <<>> /\ queue \in Seq(SUBSET Rows) /\ Len(queue) = 0
  BY DEF Init
<1>5. outcome \in [Rows -> Outcomes]
  BY DEF Init, Outcomes
<1>6. newer \in [Cells -> SUBSET (States \X States)]
  BY DEF Init
<1>7. TypeOK
  BY <1>2, <1>3, <1>4, <1>5, <1>6 DEF Init, TypeOK
<1>8. OneRowPerCell
  BY <1>4 DEF Init, OneRowPerCell
<1> QED BY <1>7, <1>8 DEF TypeInv

\* Most steps leave the log and the messages alone.
LEMMA LogAndMessagesAlone ==
  ASSUME TypeInv,
         bulletin' \in [Cells -> States \cup {NoState}], issues' \in 0..MaxIssues,
         trip' \in [Days -> SUBSET Regions], today' \in Days,
         mode' = mode, enabledOn' = enabledOn,
         email' \in {"ALWAYS", "FALLBACK", "NEVER"}, device' \in BOOLEAN,
         UNCHANGED <<logVars, run, queue, job, history>>
  PROVE  TypeInv'
<1>1. \A c \in Cells : InOrder(c)' <=> InOrder(c)
  BY DEF InOrder, Logged, logVars
<1>2. TypeOK'
  BY <1>1 DEF TypeInv, TypeOK, logVars, history
<1>3. OneRowPerCell'
  BY DEF TypeInv, OneRowPerCell
<1> QED BY <1>2, <1>3 DEF TypeInv

LEMMA WorldTyped ==
  ASSUME TypeInv,
         \/ \E c \in Cells, s \in States : Publish(c, s)
         \/ \E d \in Days, crossed \in (SUBSET Regions) \ {{}} : SaveTrip(d, crossed)
         \/ NewDay \/ Unsubscribe \/ AddDevice \/ UNCHANGED vars
  PROVE  TypeInv'
<1>1. TypeOK
  BY DEF TypeInv
<1>2. CASE \E c \in Cells, s \in States : Publish(c, s)
  BY <1>1, <1>2, LogAndMessagesAlone, BoundsAssumption
     DEF Publish, TypeOK, accountVars
<1>3. CASE \E d \in Days, crossed \in (SUBSET Regions) \ {{}} : SaveTrip(d, crossed)
  BY <1>1, <1>3, LogAndMessagesAlone DEF SaveTrip, TypeOK, accountVars
<1>4. CASE NewDay
  <2>1. today' \in Days
    BY <1>1, <1>4, BoundsAssumption DEF NewDay, TypeOK, Days
  <2> QED BY <1>1, <1>4, <2>1, LogAndMessagesAlone DEF NewDay, TypeOK, accountVars
<1>5. CASE Unsubscribe \/ AddDevice
  BY <1>1, <1>5, LogAndMessagesAlone DEF Unsubscribe, AddDevice, TypeOK, worldVars
<1>6. CASE UNCHANGED vars
  BY <1>1, <1>6, LogAndMessagesAlone DEF vars, TypeOK, worldVars, accountVars
<1> QED BY <1>2, <1>3, <1>4, <1>5, <1>6

LEMMA EvaluateTyped == TypeInv /\ (Evaluate \/ DeliverFails) => TypeInv'
<1> SUFFICES ASSUME TypeInv, Evaluate \/ DeliverFails PROVE TypeInv'
    OBVIOUS
<1>1. /\ TypeOK /\ OneRowPerCell
      /\ UNCHANGED <<worldVars, accountVars, logVars, queue, job, history>>
      /\ run' = {} \/ run' = DecidedRows(Entries)
  BY DEF TypeInv, Evaluate, DeliverFails
<1>2. /\ trip \in [Days -> SUBSET Regions]
      /\ bulletin \in [Cells -> States \cup {NoState}]
  BY <1>1 DEF TypeOK
<1>3. run' \subseteq Rows \X Decisions
  BY <1>1, <1>2, DecidedTyped
<1>4. \A x \in Rows, y \in Rows, o \in Decisions, p \in Decisions :
        <<x, o>> \in run' /\ <<y, p>> \in run' /\ CellOf(x) = CellOf(y) => x = y
  BY <1>1, <1>2, OneDecisionPerCell
<1>5. \A c \in Cells : InOrder(c)' <=> InOrder(c)
  BY <1>1 DEF InOrder, Logged, logVars
<1>6. TypeOK'
  BY <1>1, <1>3, <1>5 DEF TypeOK, worldVars, accountVars, logVars, history
<1>7. OneRowPerCell'
  BY <1>1, <1>4 DEF OneRowPerCell
<1> QED BY <1>6, <1>7 DEF TypeInv

\* deliver touches one row of a cell, and every row it touches is in the log.
LEMMA DecidedOnePerCell ==
  ASSUME TypeInv
  PROVE  /\ DecidedOf \in SUBSET Rows /\ OneRowEach(DecidedOf)
         /\ Message \in SUBSET DecidedOf /\ OneRowEach(Message)
<1>1. DecidedOf \in SUBSET Rows /\ OneRowEach(DecidedOf)
  BY DEF DecidedOf, OneRowEach, TypeInv, OneRowPerCell
<1>2. Message \in SUBSET DecidedOf
  BY DEF Message, DecidedOf, Decisions
<1> QED BY <1>1, <1>2 DEF OneRowEach

LEMMA LoggedByDeliver ==
  ASSUME TypeInv, NEW reachable \in BOOLEAN, WriteRows(reachable)
  PROVE  /\ outcome' \in [Rows -> Outcomes]
         /\ \A c \in Cells : Logged(c)' =
              Logged(c) \cup {s \in States : RowOf(c, s) \in DecidedOf}
<1>1. outcome' = [x \in Rows |-> IF x \in DecidedOf THEN Written(x, reachable)
                                  ELSE outcome[x]]
  BY DEF WriteRows
<1>2. outcome \in [Rows -> Outcomes]
  BY DEF TypeInv, TypeOK
<1>3. outcome' \in [Rows -> Outcomes]
  BY <1>1, <1>2, WrittenIsOutcome
<1>4. \A x \in Rows : Written(x, reachable) # "none"
  BY DEF Written
<1>5. ASSUME NEW c \in Cells, NEW s \in States
      PROVE  outcome'[RowOf(c, s)] # "none" <=>
               outcome[RowOf(c, s)] # "none" \/ RowOf(c, s) \in DecidedOf
  BY <1>1, <1>4, RowsAndCells
<1> QED BY <1>3, <1>5 DEF Logged

LEMMA DeliverTyped == TypeInv /\ Deliver => TypeInv'
<1> SUFFICES ASSUME TypeInv, Deliver PROVE TypeInv'
    OBVIOUS
<1>1. PICK reachable \in BOOLEAN :
        /\ WriteRows(reachable)
        /\ queue' = IF reachable THEN Append(queue, Message) ELSE queue
        /\ UNCHANGED <<worldVars, accountVars, job, heard>>
  BY DEF Deliver
<1>2. TypeOK /\ OneRowPerCell
  BY DEF TypeInv
<1>3. newer' = Touched(DecidedOf) /\ run' = {} /\ lost' = lost \ DecidedOf
  BY <1>1 DEF WriteRows
<1>4. /\ newer' \in [Cells -> SUBSET (States \X States)]
      /\ \A c \in Cells : InOrder(c)'
  BY <1>1, <1>2, <1>3, DecidedOnePerCell, LoggedByDeliver, TouchedKeepsOrder DEF TypeOK
<1>5. /\ queue \in Seq(SUBSET Rows) /\ Message \in SUBSET Rows /\ OneRowEach(Message)
      /\ \A i \in 1..Len(queue) : OneRowEach(queue[i])
  BY <1>2, DecidedOnePerCell DEF TypeOK, OneRowPerCell
<1>6. /\ queue' \in Seq(SUBSET Rows)
      /\ \A i \in 1..Len(queue') : OneRowEach(queue'[i])
  BY <1>1, <1>5
<1>7. TypeOK'
  BY <1>1, <1>2, <1>3, <1>4, <1>6, LoggedByDeliver DEF TypeOK, worldVars, accountVars
<1>8. OneRowPerCell'
  BY <1>1, <1>2, <1>3, <1>6 DEF OneRowPerCell
<1> QED BY <1>7, <1>8 DEF TypeInv

LEMMA TakeMessageTyped == TypeInv /\ TakeMessage => TypeInv'
<1> SUFFICES ASSUME TypeInv, TakeMessage PROVE TypeInv'
    OBVIOUS
<1>1. /\ TypeOK /\ OneRowPerCell /\ queue # <<>>
      /\ job' = [rows |-> Head(queue), step |-> "push", reached |-> FALSE]
      /\ queue' = Tail(queue)
      /\ UNCHANGED <<worldVars, accountVars, logVars, run, history>>
  BY DEF TakeMessage, TypeInv
<1>2. queue \in Seq(SUBSET Rows) /\ \A i \in 1..Len(queue) : OneRowEach(queue[i])
  BY <1>1 DEF TypeOK, OneRowPerCell
<1>3. /\ queue' \in Seq(SUBSET Rows)
      /\ \A i \in 1..Len(queue') : i + 1 \in 1..Len(queue) /\ queue'[i] = queue[i + 1]
      /\ Head(queue) = queue[1] /\ queue[1] \in SUBSET Rows /\ 1 \in 1..Len(queue)
  BY <1>1, <1>2
<1>4. job' \in Jobs /\ job'.rows = queue[1]
  <2>1. job' = [rows |-> queue[1], step |-> "push", reached |-> FALSE]
    BY <1>1, <1>3
  <2>2. queue[1] \in SUBSET Rows
    BY <1>3
  <2> QED BY <2>1, <2>2 DEF Jobs
<1>5. \A c \in Cells : InOrder(c)' <=> InOrder(c)
  BY <1>1 DEF InOrder, Logged, logVars
<1>6. TypeOK'
  BY <1>1, <1>3, <1>4, <1>5 DEF TypeOK, worldVars, accountVars, logVars, history
<1>7. OneRowPerCell'
  BY <1>1, <1>2, <1>3, <1>4 DEF OneRowPerCell
<1> QED BY <1>6, <1>7 DEF TypeInv

\* What the person hears is the state of the message's row of the cell.
LEMMA HandOverTells ==
  ASSUME TypeInv, job # NoJob, HandOver
  PROVE  /\ heard' \in [Cells -> States \cup {NoState}]
         /\ \A x \in job.rows : heard'[CellOf(x)] = x[3] /\ x[3] \in States
         /\ \A c \in Cells : (\A x \in job.rows : CellOf(x) # c) => heard'[c] = heard[c]
<1> DEFINE RowIn(c) == CHOOSE x \in job.rows : CellOf(x) = c
<1>1. heard' = [c \in Cells |->
         IF \E x \in job.rows : CellOf(x) = c THEN RowIn(c)[3] ELSE heard[c]]
  BY DEF HandOver
<1>2. /\ job.rows \in SUBSET Rows /\ OneRowEach(job.rows)
      /\ heard \in [Cells -> States \cup {NoState}]
  BY DEF TypeInv, TypeOK, Jobs, OneRowPerCell
<1>3. ASSUME NEW x \in job.rows
      PROVE  RowIn(CellOf(x)) = x /\ CellOf(x) \in Cells /\ x[3] \in States
  <2>1. RowIn(CellOf(x)) \in job.rows /\ CellOf(RowIn(CellOf(x))) = CellOf(x)
    OBVIOUS
  <2> QED BY <2>1, <1>2, RowsAndCells DEF OneRowEach
<1> HIDE DEF RowIn
<1>4. ASSUME NEW c \in Cells PROVE heard'[c] \in States \cup {NoState}
  <2>1. CASE \E x \in job.rows : CellOf(x) = c
    BY <2>1, <1>1, <1>3
  <2>2. CASE ~\E x \in job.rows : CellOf(x) = c
    BY <2>2, <1>1, <1>2
  <2> QED BY <2>1, <2>2
<1> QED BY <1>1, <1>3, <1>4

LEMMA TellTyped == TypeInv /\ (Push \/ Email) => TypeInv'
<1> SUFFICES ASSUME TypeInv, Push \/ Email PROVE TypeInv'
    OBVIOUS
<1>1. TypeOK /\ OneRowPerCell /\ job \in Jobs /\ job # NoJob
  BY DEF TypeInv, TypeOK, Push, Email
<1>2. PICK step \in {"email", "settle"}, reached \in BOOLEAN :
        job' = [job EXCEPT !.step = step, !.reached = reached]
  <2>1. job.reached \in BOOLEAN
    BY <1>1 DEF Jobs
  <2> QED BY <2>1 DEF Push, Email
<1>3. job' \in Jobs /\ job'.rows = job.rows
  BY <1>1, <1>2 DEF Jobs
<1>4. HandOver \/ UNCHANGED history
  BY DEF Push, Email
<1>5. heard' \in [Cells -> States \cup {NoState}] /\ lost' = lost
  <2>1. CASE HandOver
    BY <2>1, <1>1, HandOverTells DEF HandOver
  <2>2. CASE UNCHANGED history
    BY <2>2, <1>1 DEF history, TypeOK
  <2> QED BY <1>4, <2>1, <2>2
<1>6. /\ UNCHANGED <<worldVars, mode, enabledOn, email, logVars, run, queue>>
      /\ device' \in BOOLEAN
  BY <1>1 DEF Push, Email, TypeOK, accountVars
<1>7. \A c \in Cells : InOrder(c)' <=> InOrder(c)
  BY <1>6 DEF InOrder, Logged, logVars
<1>8. TypeOK'
  BY <1>1, <1>3, <1>5, <1>6, <1>7 DEF TypeOK, worldVars, logVars
<1>9. OneRowPerCell'
  BY <1>1, <1>3, <1>6 DEF OneRowPerCell
<1> QED BY <1>8, <1>9 DEF TypeInv

LEMMA SettleTyped == TypeInv /\ (Settle \/ WorkerDies) => TypeInv'
<1> SUFFICES ASSUME TypeInv, Settle \/ WorkerDies PROVE TypeInv'
    OBVIOUS
<1>1. /\ TypeOK /\ OneRowPerCell /\ job # NoJob /\ job' = NoJob
      /\ UNCHANGED <<worldVars, accountVars, run, queue, heard>>
  BY DEF TypeInv, Settle, WorkerDies, history
<1>2. job.rows \in SUBSET Rows /\ OneRowEach(job.rows)
  BY <1>1 DEF TypeOK, Jobs, OneRowPerCell
<1>3. OneRowPerCell'
  BY <1>1 DEF OneRowPerCell
<1>4. CASE Settle
  <2> DEFINE xs == {x \in job.rows : outcome[x] = "PENDING"}
  <2>1. /\ outcome' = [x \in Rows |->
             IF x \in xs THEN IF job.reached THEN "SENT" ELSE "FAILED" ELSE outcome[x]]
        /\ newer' = Touched(xs) /\ lost' = lost
    BY <1>4 DEF Settle, history
  <2>2. xs \in SUBSET Rows /\ OneRowEach(xs) /\ outcome \in [Rows -> Outcomes]
    BY <1>1, <1>2 DEF OneRowEach, TypeOK
  <2>3. \A x \in xs : outcome[x] = "PENDING"
    OBVIOUS
  <2> HIDE DEF xs
  <2>4. outcome' \in [Rows -> Outcomes]
    BY <2>1, <2>2 DEF Outcomes, Decisions
  <2>5. \A c \in Cells : /\ {s \in States : RowOf(c, s) \in xs} \subseteq Logged(c)
                         /\ Logged(c)' = Logged(c)
    <3>1. \A x \in Rows : outcome'[x] # "none" <=> outcome[x] # "none"
      BY <2>1, <2>3
    <3> QED BY <2>3, <3>1, RowsAndCells DEF Logged
  <2>6. /\ newer' \in [Cells -> SUBSET (States \X States)]
        /\ \A c \in Cells : InOrder(c)'
    BY <1>1, <2>1, <2>2, <2>5, TouchedKeepsOrder DEF TypeOK
  <2>7. TypeOK'
    BY <1>1, <2>1, <2>4, <2>6 DEF TypeOK, worldVars, accountVars
  <2> QED BY <2>7, <1>3 DEF TypeInv
<1>5. CASE WorkerDies
  <2>1. lost' \subseteq Rows /\ UNCHANGED logVars
    BY <1>1, <1>2, <1>5 DEF WorkerDies, TypeOK
  <2>2. \A c \in Cells : InOrder(c)' <=> InOrder(c)
    BY <2>1 DEF InOrder, Logged, logVars
  <2>3. TypeOK'
    BY <1>1, <2>1, <2>2 DEF TypeOK, worldVars, accountVars, logVars
  <2> QED BY <2>3, <1>3 DEF TypeInv
<1> QED BY <1>4, <1>5

LEMMA NextTyped == TypeInv /\ [Next]_vars => TypeInv'
  BY WorldTyped, EvaluateTyped, DeliverTyped, TakeMessageTyped, TellTyped, SettleTyped
     DEF Next, Command, DbWorker

\* Type correctness, whatever the bounds.  Most of all, the log of a cell always
\* has an order and a newest row, though rows are rewritten and settled at any
\* time: a run decides at most one row of a cell, so does a message carry.
THEOREM TypeCorrect == Spec => []TypeOK
<1>1. TypeInv => TypeOK
  BY DEF TypeInv
<1> QED BY <1>1, InitTyped, NextTyped, PTL DEF Spec

-----------------------------------------------------------------------------
(* A trip's evening alert *)

\* A silent baseline is only ever of a day that has begun.
BaselineIsPast ==
  /\ \A x \in Rows : outcome[x] = "BASELINE" => x[2] <= today
  /\ \A x \in Rows : <<x, "BASELINE">> \in run => x[2] <= today

BaselineInv == TypeInv /\ BaselineIsPast

LEMMA BaselineIsToday == \A e : Decide(e) = "BASELINE" => e.day = today
  BY DEF Decide

LEMMA WrittenBaseline ==
  ASSUME NEW x \in DecidedOf, NEW reachable \in BOOLEAN,
         Written(x, reachable) = "BASELINE"
  PROVE  <<x, "BASELINE">> \in run
<1>1. x \in Rows /\ \E o \in Decisions : <<x, o>> \in run
  BY DEF DecidedOf
<1>2. x \notin Message /\ <<x, "SKIPPED">> \notin run
  BY DEF Written
<1> QED BY <1>1, <1>2 DEF Message, Decisions

LEMMA NextBaseline == BaselineInv /\ [Next]_vars => BaselineInv'
<1> SUFFICES ASSUME BaselineInv, [Next]_vars PROVE BaselineInv'
    OBVIOUS
<1>1. TypeInv' /\ TypeInv /\ TypeOK /\ BaselineIsPast
  BY NextTyped DEF BaselineInv, TypeInv
<1> SUFFICES BaselineIsPast'
    BY <1>1 DEF BaselineInv
<1>2. /\ today \in Nat /\ \A x \in Rows : x[2] \in Nat
      /\ outcome \in [Rows -> Outcomes]
  BY <1>1, RowsAndCells, BoundsAssumption DEF TypeOK, Days
<1>3. CASE today' = today /\ outcome' = outcome /\ (run' = run \/ run' = {})
  BY <1>1, <1>3 DEF BaselineIsPast
<1>4. CASE Evaluate
  <2>1. run' = DecidedRows(Entries) /\ today' = today /\ outcome' = outcome
    BY <1>4 DEF Evaluate, worldVars, logVars
  <2>2. ASSUME NEW x \in Rows, <<x, "BASELINE">> \in run' PROVE x[2] <= today'
    <3>1. PICK e \in Entries : /\ x = RowOf(CellAt(e), bulletin[CellAt(e)])
                               /\ Decide(e) = "BASELINE"
      BY <1>1, <2>1, <2>2, DecidedTyped DEF TypeOK
    <3>2. x[2] = e.day
      BY <3>1 DEF RowOf, CellAt
    <3> QED BY <3>1, <3>2, <2>1, <1>2, BaselineIsToday
  <2> QED BY <2>1, <2>2, <1>1 DEF BaselineIsPast
<1>5. CASE Deliver
  <2>1. PICK reachable \in BOOLEAN :
          /\ outcome' = [x \in Rows |-> IF x \in DecidedOf THEN Written(x, reachable)
                                         ELSE outcome[x]]
          /\ run' = {} /\ today' = today
    BY <1>5 DEF Deliver, WriteRows, worldVars
  <2>2. ASSUME NEW x \in Rows, outcome'[x] = "BASELINE" PROVE x[2] <= today'
    <3>1. CASE x \in DecidedOf
      BY <3>1, <2>1, <2>2, <1>1, WrittenBaseline DEF BaselineIsPast
    <3>2. CASE x \notin DecidedOf
      BY <3>2, <2>1, <2>2, <1>1 DEF BaselineIsPast
    <3> QED BY <3>1, <3>2
  <2> QED BY <2>1, <2>2 DEF BaselineIsPast
<1>6. CASE Settle
  <2>1. /\ today' = today /\ run' = run
        /\ \A x \in Rows : outcome'[x] = "BASELINE" => outcome[x] = "BASELINE"
    BY <1>6 DEF Settle, worldVars
  <2> QED BY <2>1, <1>1 DEF BaselineIsPast
<1>7. CASE NewDay
  BY <1>1, <1>2, <1>7 DEF NewDay, BaselineIsPast, logVars
<1>8. CASE TakeMessage \/ Push \/ Email \/ DeliverFails \/ WorkerDies
  BY <1>3, <1>8
     DEF TakeMessage, Push, Email, DeliverFails, WorkerDies, worldVars, logVars
<1>9. CASE \/ \E c \in Cells, s \in States : Publish(c, s)
           \/ \E d \in Days, crossed \in (SUBSET Regions) \ {{}} : SaveTrip(d, crossed)
           \/ Unsubscribe \/ AddDevice \/ UNCHANGED vars
  BY <1>3, <1>9
     DEF Publish, SaveTrip, Unsubscribe, AddDevice, vars, worldVars, logVars
<1> QED BY <1>4, <1>5, <1>6, <1>7, <1>8, <1>9 DEF Next, Command, DbWorker

\* A region that a trip crosses is in a place of the trip.
LEMMA TripHasItsPlace ==
  ASSUME trip \in [Days -> SUBSET Regions], NEW d \in Days, NEW r \in trip[d]
  PROVE  \E p \in Places(d) : p.trip = TRUE /\ r \in p.regions
<1>1. CASE Cardinality(trip[d]) > 1
  <2>1. [regions |-> trip[d], trip |-> TRUE] \in Places(d)
    BY <1>1 DEF Places
  <2> QED BY <2>1
<1>2. CASE ~(Cardinality(trip[d]) > 1)
  <2>1. IsFiniteSet(trip[d])
    BY RegionsAssumption, FS_Subset
  <2>2. Cardinality(trip[d]) \in Nat
    BY <2>1, FS_CardinalityType
  <2>3. Cardinality(trip[d]) # 0
    BY <2>1, FS_EmptySet
  <2>4. Cardinality(trip[d]) = 1
    BY <1>2, <2>2, <2>3
  <2>5. trip[d] = {r}
    BY <2>1, <2>4, FS_Singleton
  <2>6. [regions |-> {r}, trip |-> trip[d] = {r}] \in Places(d)
    BY <1>2 DEF Places
  <2> QED BY <2>5, <2>6
<1> QED BY <1>1, <1>2

LEMMA BaselineGivesTripEvening == BaselineInv => TripEveningIsDue
<1> SUFFICES ASSUME BaselineInv, NEW c \in Cells,
                    c[2] = today + 1, c[1] \in trip[c[2]], bulletin[c] # NoState,
                    \A s \in States : outcome[RowOf(c, s)] \notin {"SENT", "PENDING"}
             PROVE  \E e \in Entries : CellAt(e) = c /\ Sends(e, Entries)
    BY DEF TripEveningIsDue
<1>1. /\ TypeOK /\ BaselineIsPast /\ today \in Nat
      /\ c[2] \in Days /\ c = <<c[1], c[2]>>
  BY BoundsAssumption DEF BaselineInv, TypeInv, TypeOK, Days, Cells
<1>2. PICK p \in Places(c[2]) : p.trip = TRUE /\ c[1] \in p.regions
  BY <1>1, TripHasItsPlace DEF TypeOK
<1> DEFINE e == [place |-> p, region |-> c[1], day |-> c[2]]
<1>3. CellAt(e) = c /\ Evening(e) = TRUE
  BY <1>1, <1>2 DEF CellAt, Evening
<1>4. LastTold(c, TRUE) = NoState
  <2>1. ASSUME NEW s \in Logged(c)
        PROVE  outcome[RowOf(c, s)] \in {"FAILED", "SKIPPED"}
    <3>1. s \in States /\ RowOf(c, s) \in Rows /\ RowOf(c, s)[2] = c[2]
      BY RowsAndCells DEF Logged, RowOf
    <3>2. outcome[RowOf(c, s)] # "none" /\ outcome[RowOf(c, s)] \in Outcomes
      BY <3>1, <1>1 DEF Logged, TypeOK
    <3>3. outcome[RowOf(c, s)] # "BASELINE"
      BY <3>1, <1>1 DEF BaselineIsPast
    <3> QED BY <3>1, <3>2, <3>3 DEF Outcomes, Decisions
  <2> QED BY <2>1 DEF LastTold
<1>5. e \in Entries
  <2>1. e \in [place: {p}, region: p.regions, day: {c[2]}]
    BY <1>2
  <2>2. c[2] \in {today, today + 1} \cap Days
    BY <1>1
  <2>3. bulletin[CellAt(e)] \notin {NoState, LastTold(CellAt(e), Evening(e))}
    BY <1>3, <1>4
  <2> HIDE DEF e
  <2> DEFINE On(d) == UNION {[place: {q}, region: q.regions, day: {d}] : q \in Places(d)}
  <2>4. e \in On(c[2])
    BY <2>1, <1>2
  <2>5. e \in UNION {On(d) : d \in {today, today + 1} \cap Days}
    BY <2>4, <2>2
  <2> QED BY <2>3, <2>5 DEF Entries
<1>6. Decide(e) = "SENT"
  <2>1. e.day # today /\ e.place.trip = TRUE
    BY <1>1, <1>2
  <2> QED BY <2>1, <1>3, <1>4 DEF Decide
<1>7. \A later \in Entries : ~(later.day > e.day)
  <2> SUFFICES ASSUME NEW later \in Entries PROVE ~(later.day > e.day)
      OBVIOUS
  <2>1. later.day \in {today, today + 1}
    BY DEF Entries
  <2> QED BY <2>1, <1>1
<1> QED BY <1>3, <1>5, <1>6, <1>7 DEF Sends

\* Whatever a pin of the region was silently logged with, whatever failed, and
\* however the trip's places fold into the pins: the evening before a trip, a
\* bulletin of its day that nothing was sent of is due to be sent.
THEOREM TripEveningDue == Spec => []TripEveningIsDue
<1>1. Init => BaselineInv
  BY InitTyped DEF Init, BaselineInv, BaselineIsPast
<1> QED BY <1>1, NextBaseline, BaselineGivesTripEvening, PTL DEF Spec

-----------------------------------------------------------------------------
(* The log and the person, with one message on its way *)

OneOnItsWay == Len(queue) = 0 \/ (Len(queue) = 1 /\ job = NoJob)

\* The rows of a message that is on its way are the newest of their cells.
NewestOf(xs) ==
  \A x \in xs :
    /\ x[3] \in Logged(CellOf(x))
    /\ \A t \in Logged(CellOf(x)) \ {x[3]} : <<x[3], t>> \in newer[CellOf(x)]

OnItsWayIsNewest ==
  /\ \A i \in 1..Len(queue) : NewestOf(queue[i])
  /\ job # NoJob => NewestOf(job.rows)

\* Once the message reached the person, it is what they heard last.
ReachedWasHeard ==
  job # NoJob /\ job.reached => \A x \in job.rows : heard[CellOf(x)] = x[3]

\* No row reads SENT and is newer than the row of the state heard last.
HeardIsLatest ==
  \A c \in Cells, s \in States : outcome[RowOf(c, s)] = "SENT" =>
    heard[c] # NoState /\ (s = heard[c] \/ <<heard[c], s>> \in newer[c])

HeardInv ==
  TypeInv /\ OneOnItsWay /\ OnItsWayIsNewest /\ ReachedWasHeard /\ HeardIsLatest

LEMMA HeardGivesLog == HeardInv => LogIsWhatTheyHeard
<1> SUFFICES ASSUME HeardInv, NEW c \in Cells, NEW last, last = LastTold(c, FALSE),
                    last # NoState, outcome[RowOf(c, last)] = "SENT"
             PROVE  heard[c] # NoState /\
                      (heard[c] = last \/ outcome[RowOf(c, heard[c])] = "FAILED")
    BY DEF LogIsWhatTheyHeard
<1> DEFINE counted == {s \in Logged(c) : outcome[RowOf(c, s)] # "FAILED"}
<1>1. counted # {} /\ last = Newest(c, counted)
  BY DEF LastTold
<1>2. InOrder(c) /\ counted \in SUBSET Logged(c) /\ Logged(c) \in SUBSET States
  BY DEF HeardInv, TypeInv, TypeOK, Logged
<1>3. last \in counted /\ \A t \in counted \ {last} : <<last, t>> \in newer[c]
  BY <1>1, <1>2, NewestIsNewest
<1>4. heard[c] # NoState /\ (last = heard[c] \/ <<heard[c], last>> \in newer[c])
  BY <1>2, <1>3 DEF HeardInv, HeardIsLatest
<1>5. ASSUME heard[c] # last, outcome[RowOf(c, heard[c])] # "FAILED" PROVE FALSE
  <2>1. <<heard[c], last>> \in newer[c] /\ heard[c] \in Logged(c)
    BY <1>2, <1>4, <1>5 DEF InOrder
  <2>2. <<last, heard[c]>> \in newer[c]
    BY <2>1, <1>3, <1>5
  <2> QED BY <2>1, <2>2, <1>2, <1>3 DEF InOrder
<1> QED BY <1>4, <1>5

\* Touching rows of which none reads SENT keeps the state heard last the latest.
LEMMA TouchedKeepsHeard ==
  ASSUME TypeInv, NEW c \in Cells, NEW s \in States, NEW xs, newer' = Touched(xs),
         heard[c] = s \/ <<heard[c], s>> \in newer[c],
         RowOf(c, s) \notin xs, s \in Logged(c)
  PROVE  heard[c] = s \/ <<heard[c], s>> \in newer'[c]
<1> DEFINE N == {t \in States : RowOf(c, t) \in xs}
           O == Logged(c) \ N
<1>1. newer'[c] = (newer[c] \cap (O \X O)) \cup (N \X O)
  BY DEF Touched
<1>2. s \in O
  OBVIOUS
<1>3. <<heard[c], s>> \in newer[c] => heard[c] \in Logged(c)
  BY DEF TypeInv, TypeOK, InOrder
<1> QED BY <1>1, <1>2, <1>3

\* The rows that are touched are the newest of their cells.
LEMMA TouchedIsNewest ==
  ASSUME NEW xs \in SUBSET Rows, OneRowEach(xs), newer' = Touched(xs), NEW x \in xs,
         \A c \in Cells : Logged(c)' = Logged(c) \cup {s \in States : RowOf(c, s) \in xs}
  PROVE  /\ x[3] \in Logged(CellOf(x))'
         /\ \A t \in Logged(CellOf(x))' \ {x[3]} : <<x[3], t>> \in newer'[CellOf(x)]
<1> DEFINE c == CellOf(x)
           N == {t \in States : RowOf(c, t) \in xs}
           O == Logged(c) \ N
<1>1. c \in Cells /\ x[3] \in States /\ x = RowOf(c, x[3]) /\ x[3] \in N
  BY RowsAndCells
<1>2. ASSUME NEW t \in N PROVE t = x[3]
  <2>1. RowOf(c, t) \in xs /\ CellOf(RowOf(c, t)) = c /\ RowOf(c, t)[3] = t
    BY <1>1, RowsAndCells
  <2>2. RowOf(c, t) = x
    BY <2>1 DEF OneRowEach
  <2> QED BY <2>1, <2>2
<1>3. newer'[c] = (newer[c] \cap (O \X O)) \cup (N \X O)
  BY <1>1 DEF Touched
<1>4. Logged(c)' = Logged(c) \cup N
  BY <1>1
<1>5. O = Logged(c) \ N
  OBVIOUS
<1> HIDE DEF c, N, O
<1>6. x[3] \in Logged(c)' /\ \A t \in Logged(c)' \ {x[3]} : <<x[3], t>> \in newer'[c]
  BY <1>1, <1>2, <1>3, <1>4, <1>5
<1> QED BY <1>6 DEF c

LEMMA DeliverHeard ==
  ASSUME Backlog = 1, HeardInv, Deliver
  PROVE  OneOnItsWay' /\ OnItsWayIsNewest' /\ ReachedWasHeard' /\ HeardIsLatest'
<1>1. PICK reachable \in BOOLEAN :
        /\ WriteRows(reachable)
        /\ queue' = IF reachable THEN Append(queue, Message) ELSE queue
        /\ job' = job /\ heard' = heard
  BY DEF Deliver
<1>2. TypeInv /\ TypeOK
  BY DEF HeardInv, TypeInv
<1>3. /\ newer' = Touched(DecidedOf)
      /\ outcome' = [x \in Rows |-> IF x \in DecidedOf THEN Written(x, reachable)
                                     ELSE outcome[x]]
  BY <1>1 DEF WriteRows
<1>4. queue \in Seq(SUBSET Rows) /\ Len(queue) = 0 /\ job = NoJob
  BY <1>2 DEF Deliver, InFlight, TypeOK
<1>5. /\ Message \in SUBSET DecidedOf /\ DecidedOf \in SUBSET Rows
      /\ OneRowEach(DecidedOf)
  BY <1>2, DecidedOnePerCell
<1>6. /\ \A i \in 1..Len(queue') : queue'[i] = Message
      /\ OneOnItsWay'
  <2>1. Message \in SUBSET Rows
    BY <1>5
  <2>2. Append(queue, Message) \in Seq(SUBSET Rows) /\ Len(Append(queue, Message)) = 1
        /\ Append(queue, Message)[1] = Message
    BY <1>4, <2>1
  <2> QED BY <1>1, <1>4, <2>2 DEF OneOnItsWay
<1>7. OnItsWayIsNewest'
  <2>1. \A x \in DecidedOf :
          /\ x[3] \in Logged(CellOf(x))'
          /\ \A t \in Logged(CellOf(x))' \ {x[3]} : <<x[3], t>> \in newer'[CellOf(x)]
    BY <1>1, <1>2, <1>3, <1>5, LoggedByDeliver, TouchedIsNewest
  <2>2. \A i \in 1..Len(queue') : \A x \in queue'[i] : x \in DecidedOf
    BY <1>5, <1>6
  <2> QED BY <2>1, <2>2, <1>1, <1>4 DEF OnItsWayIsNewest, NewestOf
<1>8. ReachedWasHeard'
  BY <1>1, <1>4 DEF ReachedWasHeard
<1>9. ASSUME NEW c \in Cells, NEW s \in States, outcome'[RowOf(c, s)] = "SENT"
      PROVE  heard'[c] # NoState /\ (s = heard'[c] \/ <<heard'[c], s>> \in newer'[c])
  <2>1. RowOf(c, s) \in Rows
    BY RowsAndCells
  <2>2. \A x \in DecidedOf : Written(x, reachable) # "SENT"
    BY DEF Written
  <2>3. RowOf(c, s) \notin DecidedOf /\ outcome[RowOf(c, s)] = "SENT"
    BY <1>3, <1>9, <2>1, <2>2
  <2>4. heard[c] # NoState /\ (s = heard[c] \/ <<heard[c], s>> \in newer[c])
    BY <2>3 DEF HeardInv, HeardIsLatest
  <2>5. s \in Logged(c)
    BY <2>3 DEF Logged
  <2> QED BY <1>1, <1>2, <1>3, <2>3, <2>4, <2>5, TouchedKeepsHeard
<1> QED BY <1>6, <1>7, <1>8, <1>9 DEF HeardIsLatest

LEMMA TakeMessageHeard ==
  ASSUME HeardInv, TakeMessage
  PROVE  OneOnItsWay' /\ OnItsWayIsNewest' /\ ReachedWasHeard' /\ HeardIsLatest'
<1>1. /\ queue # <<>> /\ queue \in Seq(SUBSET Rows)
      /\ job' = [rows |-> Head(queue), step |-> "push", reached |-> FALSE]
      /\ queue' = Tail(queue)
      /\ newer' = newer /\ outcome' = outcome /\ heard' = heard
      /\ OneOnItsWay /\ OnItsWayIsNewest /\ HeardIsLatest
  BY DEF TakeMessage, logVars, history, HeardInv, TypeInv, TypeOK
<1>2. Len(queue) = 1 /\ Len(queue') = 0 /\ Head(queue) = queue[1] /\ 1 \in 1..Len(queue)
  <2>1. Len(queue) # 0
    BY <1>1
  <2>2. Len(queue) = 1
    BY <1>1, <2>1 DEF OneOnItsWay
  <2> QED BY <1>1, <2>2
<1>3. job'.rows = queue[1] /\ job'.reached = FALSE
  BY <1>1, <1>2
<1>4. NewestOf(queue[1])
  BY <1>1, <1>2 DEF OnItsWayIsNewest
<1>5. OnItsWayIsNewest'
  BY <1>1, <1>2, <1>3, <1>4 DEF OnItsWayIsNewest, NewestOf, Logged
<1>6. OneOnItsWay' /\ ReachedWasHeard'
  BY <1>2, <1>3 DEF OneOnItsWay, ReachedWasHeard
<1> QED BY <1>1, <1>5, <1>6 DEF HeardIsLatest

LEMMA TellHeard ==
  ASSUME HeardInv, Push \/ Email
  PROVE  OneOnItsWay' /\ OnItsWayIsNewest' /\ ReachedWasHeard' /\ HeardIsLatest'
<1>1. /\ TypeInv /\ TypeOK /\ job # NoJob /\ job \in Jobs
      /\ OneOnItsWay /\ OnItsWayIsNewest /\ ReachedWasHeard /\ HeardIsLatest
      /\ outcome' = outcome /\ newer' = newer /\ queue' = queue
  BY DEF Push, Email, HeardInv, TypeInv, TypeOK, logVars
<1>2. PICK step \in {"email", "settle"}, reached \in BOOLEAN :
        /\ job' = [job EXCEPT !.step = step, !.reached = reached]
        /\ \/ HandOver
           \/ heard' = heard /\ (reached => job.reached)
  <2>1. CASE Push
    BY <2>1 DEF Push, history
  <2>2. CASE Email
    <3>1. job.reached \in BOOLEAN
      BY <1>1 DEF Jobs
    <3> QED BY <2>2, <3>1 DEF Email, history
  <2> QED BY <2>1, <2>2
<1>3. job'.rows = job.rows /\ job'.reached = reached /\ job.rows \in SUBSET Rows
  BY <1>1, <1>2 DEF Jobs
<1>4. OneOnItsWay' /\ OnItsWayIsNewest'
  BY <1>1, <1>3 DEF OneOnItsWay, OnItsWayIsNewest, NewestOf, Logged
<1>5. CASE HandOver
  <2>1. /\ \A x \in job.rows : heard'[CellOf(x)] = x[3] /\ x[3] \in States
        /\ \A c \in Cells : (\A x \in job.rows : CellOf(x) # c) => heard'[c] = heard[c]
    BY <1>1, <1>5, HandOverTells
  <2>2. ASSUME NEW c \in Cells, NEW s \in States, outcome[RowOf(c, s)] = "SENT"
        PROVE  heard'[c] # NoState /\ (s = heard'[c] \/ <<heard'[c], s>> \in newer[c])
    <3>1. CASE \E x \in job.rows : CellOf(x) = c
      <4>1. PICK x \in job.rows : CellOf(x) = c
        BY <3>1
      <4>2. s \in Logged(c)
        BY <2>2 DEF Logged
      <4>3. s = x[3] \/ <<x[3], s>> \in newer[c]
        BY <1>1, <4>1, <4>2 DEF OnItsWayIsNewest, NewestOf
      <4> QED BY <2>1, <4>1, <4>3, NoStateAssumption
    <3>2. CASE \A x \in job.rows : CellOf(x) # c
      BY <3>2, <2>1, <2>2, <1>1 DEF HeardIsLatest
    <3> QED BY <3>1, <3>2
  <2>3. HeardIsLatest'
    BY <1>1, <2>2 DEF HeardIsLatest
  <2> QED BY <1>3, <1>4, <2>1, <2>3 DEF ReachedWasHeard
<1>6. CASE heard' = heard /\ (reached => job.reached)
  BY <1>1, <1>3, <1>4, <1>6 DEF ReachedWasHeard, HeardIsLatest
<1> QED BY <1>2, <1>5, <1>6

LEMMA SettleHeard ==
  ASSUME HeardInv, Settle
  PROVE  OneOnItsWay' /\ OnItsWayIsNewest' /\ ReachedWasHeard' /\ HeardIsLatest'
<1> DEFINE xs == {x \in job.rows : outcome[x] = "PENDING"}
<1>1. /\ TypeInv /\ TypeOK /\ job # NoJob /\ job \in Jobs /\ job' = NoJob
      /\ OneOnItsWay /\ ReachedWasHeard /\ HeardIsLatest
      /\ outcome' = [x \in Rows |->
           IF x \in xs THEN IF job.reached THEN "SENT" ELSE "FAILED" ELSE outcome[x]]
      /\ newer' = Touched(xs) /\ queue' = queue /\ heard' = heard
  BY DEF Settle, HeardInv, TypeInv, TypeOK, history
<1>2. queue \in Seq(SUBSET Rows) /\ Len(queue) = 0
  BY <1>1 DEF OneOnItsWay, TypeOK
<1>3. OneOnItsWay' /\ OnItsWayIsNewest' /\ ReachedWasHeard'
  BY <1>1, <1>2 DEF OneOnItsWay, OnItsWayIsNewest, ReachedWasHeard
<1>4. /\ xs \in SUBSET job.rows /\ job.rows \in SUBSET Rows
      /\ OneRowEach(xs)
      /\ \A x \in xs : outcome[x] = "PENDING"
  BY <1>1 DEF Jobs, TypeInv, OneRowPerCell, OneRowEach
<1> HIDE DEF xs
<1>5. \A c \in Cells : Logged(c)' = Logged(c) \cup {s \in States : RowOf(c, s) \in xs}
  <2>1. \A x \in Rows : outcome'[x] # "none" <=> outcome[x] # "none" \/ x \in xs
    BY <1>1, <1>4
  <2> QED BY <2>1, RowsAndCells DEF Logged
<1>6. ASSUME NEW c \in Cells, NEW s \in States, outcome'[RowOf(c, s)] = "SENT"
      PROVE  heard[c] # NoState /\ (s = heard[c] \/ <<heard[c], s>> \in newer'[c])
  <2>1. RowOf(c, s) \in Rows /\ CellOf(RowOf(c, s)) = c /\ RowOf(c, s)[3] = s
    BY RowsAndCells
  <2>2. CASE RowOf(c, s) \in xs
    <3>1. job.reached = TRUE
      BY <1>1, <1>6, <2>1, <2>2
    <3> QED BY <1>1, <1>4, <2>1, <2>2, <3>1, NoStateAssumption DEF ReachedWasHeard
  <2>3. CASE RowOf(c, s) \notin xs
    <3>1. outcome[RowOf(c, s)] = "SENT"
      BY <1>1, <1>6, <2>1, <2>3
    <3>2. s \in Logged(c)
      BY <3>1 DEF Logged
    <3>3. heard[c] # NoState /\ (s = heard[c] \/ <<heard[c], s>> \in newer[c])
      BY <1>1, <3>1 DEF HeardIsLatest
    <3> QED BY <1>1, <2>3, <3>2, <3>3, TouchedKeepsHeard
  <2> QED BY <2>2, <2>3
<1>7. HeardIsLatest'
  BY <1>1, <1>6 DEF HeardIsLatest
<1> QED BY <1>3, <1>7

LEMMA WorkerDiesHeard ==
  ASSUME HeardInv, WorkerDies
  PROVE  OneOnItsWay' /\ OnItsWayIsNewest' /\ ReachedWasHeard' /\ HeardIsLatest'
  BY DEF HeardInv, WorkerDies, logVars, OneOnItsWay, OnItsWayIsNewest, NewestOf, Logged,
         ReachedWasHeard, HeardIsLatest

LEMMA NextHeard == ASSUME Backlog = 1 PROVE HeardInv /\ [Next]_vars => HeardInv'
<1> SUFFICES ASSUME HeardInv, [Next]_vars PROVE HeardInv'
    OBVIOUS
<1>1. TypeInv'
  BY NextTyped DEF HeardInv
<1>2. CASE UNCHANGED <<logVars, queue, job, heard>>
  BY <1>1, <1>2 DEF HeardInv, logVars, OneOnItsWay, OnItsWayIsNewest, NewestOf, Logged,
                    ReachedWasHeard, HeardIsLatest
<1>3. CASE Deliver \/ TakeMessage \/ Push \/ Email \/ Settle \/ WorkerDies
  BY <1>1, <1>3, DeliverHeard, TakeMessageHeard, TellHeard, SettleHeard, WorkerDiesHeard
     DEF HeardInv
<1>4. CASE \/ Evaluate \/ DeliverFails
           \/ \E c \in Cells, s \in States : Publish(c, s)
           \/ \E d \in Days, crossed \in (SUBSET Regions) \ {{}} : SaveTrip(d, crossed)
           \/ NewDay \/ Unsubscribe \/ AddDevice \/ UNCHANGED vars
  BY <1>2, <1>4
     DEF Evaluate, DeliverFails, Publish, SaveTrip, NewDay, Unsubscribe, AddDevice,
         vars, history
<1> QED BY <1>3, <1>4 DEF Next, Command, DbWorker

\* With one message of the account on its way, whatever is published, saved,
\* refused, lost or settled late in between, a log whose latest row reads SENT
\* records what the person heard last, or what they heard was sent again since
\* and reached nobody.
THEOREM LogMatchesThePerson == ASSUME Backlog = 1 PROVE Spec => []LogIsWhatTheyHeard
<1>1. Init => HeardInv
  <2> SUFFICES ASSUME Init PROVE HeardInv
      OBVIOUS
  <2>1. queue = <<>> /\ Len(queue) = 0 /\ job = NoJob
    BY DEF Init
  <2>2. HeardIsLatest
    BY RowsAndCells DEF Init, HeardIsLatest
  <2> QED BY <2>1, <2>2, InitTyped
          DEF HeardInv, OneOnItsWay, OnItsWayIsNewest, ReachedWasHeard
<1> QED BY <1>1, NextHeard, HeardGivesLog, PTL DEF Spec

=============================================================================
