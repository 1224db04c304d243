------------------------------- MODULE Alerts -------------------------------
(***************************************************************************)
(* Bulletin alerts for one account: send_bulletin_alerts evaluates what    *)
(* the send log last recorded against today's and tomorrow's bulletins,    *)
(* writes rows and queues a message (apps/bulletins/services/alerts.py);   *)
(* the db_worker pushes it, falls back to email and settles the rows.      *)
(*                                                                         *)
(* A bulletin is its state's fingerprint; Notice is what a reader would    *)
(* notice of it (the level, and which problems there are).  What a message *)
(* says is left out, and so are an account that is deleted and the mail's  *)
(* own task: an email counts as handed over when it is queued.             *)
(***************************************************************************)
EXTENDS Naturals, FiniteSets, Sequences

CONSTANTS
  Regions,
  Pins,       \* regions the account has a pin or a saved resort in
  LastDay,    \* bound: days the model runs for
  States,     \* fingerprints
  Notice,
  NoState,    \* no bulletin, no row
  NoJob,
  MaxIssues,  \* bound: bulletins published
  Backlog     \* bound: messages that are on their way

Days == 1..LastDay
Cells == Regions \X Days           \* what one bulletin is about
Rows == Regions \X Days \X States  \* the log's key, for the account

Decisions == {"SENT", "SKIPPED", "BASELINE"}
Outcomes == Decisions \cup {"none", "PENDING", "FAILED"}

Jobs == [rows: SUBSET Rows, step: {"push", "email", "settle"}, reached: BOOLEAN]

ASSUME BoundsAssumption ==
  /\ LastDay \in Nat \ {0} /\ MaxIssues \in Nat /\ Backlog \in Nat \ {0}
ASSUME RegionsAssumption == IsFiniteSet(Regions)
ASSUME PinsAssumption == Pins \subseteq Regions
ASSUME NoStateAssumption == NoState \notin States
ASSUME NoJobAssumption == NoJob \notin Jobs

VARIABLES
  \* the world
  bulletin,   \* per cell: the state of the authoritative bulletin
  issues,     \* bulletins published
  trip,       \* per day: the regions a saved trip of that day crosses
  today,
  \* the account
  mode,       \* NEW_BULLETIN or CHANGES
  enabledOn,  \* the day alerts were turned on, 0 for before the first
  email,      \* ALWAYS, FALLBACK or NEVER (unverified is NEVER)
  device,     \* whether a push subscription is active
  \* the send log
  outcome,    \* per row
  newer,      \* per cell: <<s, t>> if the row of s was updated after that of t
  \* send_bulletin_alerts and the worker
  run,        \* the decided rows, from evaluate_account to deliver
  queue,      \* messages to deliver, as the sets of rows they carry
  job,
  \* history
  heard,      \* per cell: the state last handed over
  lost        \* PENDING rows of a message whose worker died

worldVars == <<bulletin, issues, trip, today>>
accountVars == <<mode, enabledOn, email, device>>
logVars == <<outcome, newer>>
history == <<heard, lost>>
vars == <<worldVars, accountVars, logVars, run, queue, job, history>>

CellOf(x) == <<x[1], x[2]>>
RowOf(c, s) == <<c[1], c[2], s>>

\* The states that have a row in a cell, one row of each, as the unique
\* constraint has it.
Logged(c) == {s \in States : outcome[RowOf(c, s)] # "none"}

\* updated_at tells the rows of a cell apart: any of them have a newest.
InOrder(c) ==
  /\ newer[c] \subseteq Logged(c) \X Logged(c)
  /\ \A s, t \in States : <<s, t>> \in newer[c] => <<t, s>> \notin newer[c]
  /\ \A ss \in (SUBSET Logged(c)) \ {{}} :
       \E s \in ss : \A t \in ss \ {s} : <<s, t>> \in newer[c]

TypeOK ==
  /\ bulletin \in [Cells -> States \cup {NoState}]
  /\ issues \in 0..MaxIssues
  /\ trip \in [Days -> SUBSET Regions]
  /\ today \in Days
  /\ mode \in {"NEW_BULLETIN", "CHANGES"}
  /\ enabledOn \in {0, 1}
  /\ email \in {"ALWAYS", "FALLBACK", "NEVER"}
  /\ device \in BOOLEAN
  /\ outcome \in [Rows -> Outcomes]
  /\ newer \in [Cells -> SUBSET (States \X States)]
  /\ \A c \in Cells : InOrder(c)
  /\ run \subseteq Rows \X Decisions
  /\ queue \in Seq(SUBSET Rows)
  /\ job \in Jobs \cup {NoJob}
  /\ heard \in [Cells -> States \cup {NoState}]
  /\ lost \subseteq Rows

Init ==
  /\ bulletin = [c \in Cells |-> NoState]
  /\ issues = 0
  /\ trip = [d \in Days |-> {}]
  /\ today = 1
  /\ mode \in {"NEW_BULLETIN", "CHANGES"}
  /\ enabledOn \in {0, 1}
  /\ email \in {"ALWAYS", "FALLBACK", "NEVER"}
  /\ device \in BOOLEAN
  /\ outcome = [x \in Rows |-> "none"]
  /\ newer = [c \in Cells |-> {}]
  /\ run = {}
  /\ queue = <<>>
  /\ job = NoJob
  /\ heard = [c \in Cells |-> NoState]
  /\ lost = {}

-----------------------------------------------------------------------------
(* The send log *)

\* Fault: a state that recurs keeps its old place as well.
TouchedAgain(xs) ==
  [c \in Cells |->
    LET new == {s \in States : RowOf(c, s) \in xs}
    IN  newer[c] \cup (new \X (Logged(c) \ new))]

\* The cells' order once these rows, at most one of a cell, are the ones updated
\* last.
Touched(xs) ==
  [c \in Cells |->
    LET new == {s \in States : RowOf(c, s) \in xs}
        others == Logged(c) \ new
    IN  (newer[c] \cap (others \X others)) \cup (new \X others)]

Newest(c, ss) == CHOOSE s \in ss : \A t \in ss \ {s} : <<s, t>> \in newer[c]

\* Fault: a row that reached nobody counts as told.
LastToldCountsFailed(c, evening) ==
  LET counted == {s \in Logged(c) : ~(evening /\ outcome[RowOf(c, s)] = "SKIPPED")}
  IN  IF counted = {} THEN NoState ELSE Newest(c, counted)

\* Fault: a trip's evening alert looks at the log as a pin does.
LastToldAnySkip(c, evening) ==
  LET counted == {s \in Logged(c) : outcome[RowOf(c, s)] # "FAILED"}
  IN  IF counted = {} THEN NoState ELSE Newest(c, counted)

\* The state the account was last told of, or that was logged in its place: a
\* FAILED row reached nobody, and a SKIPPED one is not a trip's evening alert.
LastTold(c, evening) ==
  LET untold == {"FAILED"} \cup (IF evening THEN {"SKIPPED"} ELSE {})
      counted == {s \in Logged(c) : outcome[RowOf(c, s)] \notin untold}
  IN  IF counted = {} THEN NoState ELSE Newest(c, counted)

-----------------------------------------------------------------------------
(* evaluate_account *)

\* A one-region trip folds into the pin of its region; a longer one is a place
\* of its own.
Places(d) ==
  LET longTrip == Cardinality(trip[d]) > 1
  IN  {[regions |-> {r}, trip |-> trip[d] = {r}] :
         r \in Pins \cup (IF longTrip THEN {} ELSE trip[d])}
      \cup (IF longTrip THEN {[regions |-> trip[d], trip |-> TRUE]} ELSE {})

Evening(e) == e.place.trip /\ e.day > today

CellAt(e) == <<e.region, e.day>>

\* The (place, region, day) entries whose bulletin is not what was last told.
Entries ==
  {e \in UNION {UNION {[place: {p}, region: p.regions, day: {d}] : p \in Places(d)} :
                d \in {today, today + 1} \cap Days} :
     bulletin[CellAt(e)] \notin {NoState, LastTold(CellAt(e), Evening(e))}}

Notable(s, t) == Notice[s] # Notice[t]

DayBefore(c) == IF c[2] = 1 THEN NoState ELSE bulletin[<<c[1], c[2] - 1>>]

Decide(e) ==
  LET c == CellAt(e)
      last == LastTold(c, Evening(e))
  IN  IF last # NoState
        THEN IF Notable(last, bulletin[c]) THEN "SENT" ELSE "SKIPPED"
      ELSE IF e.day = today /\ enabledOn = e.day THEN "BASELINE"
      ELSE IF /\ DayBefore(c) # NoState
              /\ mode = "CHANGES"
              /\ ~Notable(DayBefore(c), bulletin[c])
              /\ ~e.place.trip
        THEN "SKIPPED" ELSE "SENT"

\* _one_day_per_place: today gives way to a tomorrow that sends.
Sends(e, entries) ==
  /\ Decide(e) = "SENT"
  /\ Cardinality(e.place.regions) > 1 \/
       \A later \in entries : later.day > e.day /\ later.place.regions = e.place.regions
                                => Decide(later) # "SENT"

\* _one_row_per_log_key: a sending entry wins.
DecidedRows(entries) ==
  {<<RowOf(CellAt(e), bulletin[CellAt(e)]),
     IF \E f \in entries : CellAt(f) = CellAt(e) /\ Sends(f, entries) THEN "SENT"
     ELSE IF Decide(e) = "SENT" THEN "SKIPPED" ELSE Decide(e)>> : e \in entries}

\* Messages that are queued or in the worker's hands.
InFlight == Len(queue) + (IF job = NoJob THEN 0 ELSE 1)

Evaluate ==
  /\ run = {}
  /\ \E entries \in {Entries} :
       /\ entries # {}
       /\ run' = DecidedRows(entries)
  /\ UNCHANGED <<worldVars, accountVars, logVars, queue, job, history>>

-----------------------------------------------------------------------------
(* deliver *)

CanEmail == email # "NEVER"

Message == {x \in Rows : <<x, "SENT">> \in run}

\* What deliver writes of a row, and the log it leaves.
Written(x, reachable) ==
  CASE x \in Message -> IF reachable THEN "PENDING" ELSE "SKIPPED"
    [] <<x, "SKIPPED">> \in run -> "SKIPPED"
    [] OTHER -> "BASELINE"

DecidedOf == {x \in Rows : \E o \in Decisions : <<x, o>> \in run}

WriteRows(reachable) ==
  /\ outcome' = [x \in Rows |->
                   IF x \in DecidedOf THEN Written(x, reachable) ELSE outcome[x]]
  /\ newer' = Touched(DecidedOf)
  /\ lost' = lost \ DecidedOf
  /\ run' = {}

\* Fault: get_or_create, so a state that recurs leaves its row as it was.
DeliverUntouched ==
  LET reachable == Message # {} /\ (device \/ CanEmail)
      new == {x \in DecidedOf : outcome[x] = "none"}
  IN  /\ run # {}
      /\ InFlight < Backlog
      /\ outcome' = [x \in Rows |->
           IF x \in new THEN Written(x, reachable) ELSE outcome[x]]
      /\ newer' = Touched(new)
      /\ lost' = lost \ DecidedOf
      /\ run' = {}
      /\ queue' = IF reachable THEN Append(queue, Message) ELSE queue
      /\ UNCHANGED <<worldVars, accountVars, job, heard>>

\* Fault: the message is queued outside the transaction, and may fail to be.
DeliverThenQueue ==
  LET reachable == Message # {} /\ (device \/ CanEmail)
  IN  /\ run # {}
      /\ InFlight < Backlog
      /\ WriteRows(reachable)
      /\ queue' \in {queue, IF reachable THEN Append(queue, Message) ELSE queue}
      /\ UNCHANGED <<worldVars, accountVars, job, heard>>

(* The rows and the queued message commit together.                        *)
Deliver ==
  LET reachable == Message # {} /\ (device \/ CanEmail)
  IN  /\ run # {}
      /\ InFlight < Backlog
      /\ WriteRows(reachable)
      /\ queue' = IF reachable THEN Append(queue, Message) ELSE queue
      /\ UNCHANGED <<worldVars, accountVars, job, heard>>

(* The transaction fails, or the command dies first: nothing is written.   *)
DeliverFails ==
  /\ run # {}
  /\ run' = {}
  /\ UNCHANGED <<worldVars, accountVars, logVars, queue, job, history>>

-----------------------------------------------------------------------------
(* _worker_deliver_alert *)

TakeMessage ==
  /\ job = NoJob
  /\ queue # <<>>
  /\ job' = [rows |-> Head(queue), step |-> "push", reached |-> FALSE]
  /\ queue' = Tail(queue)
  /\ UNCHANGED <<worldVars, accountVars, logVars, run, history>>

\* The person is told what the message's rows say.
HandOver ==
  /\ heard' = [c \in Cells |->
       IF \E x \in job.rows : CellOf(x) = c
         THEN (CHOOSE x \in job.rows : CellOf(x) = c)[3] ELSE heard[c]]
  /\ UNCHANGED lost

(* Every active device is tried; one that answers 410 is no longer active. *)
Push ==
  /\ job # NoJob
  /\ job.step = "push"
  /\ \E accepted \in IF device THEN BOOLEAN ELSE {FALSE} :
       /\ job' = [job EXCEPT !.step = "email", !.reached = accepted]
       /\ IF accepted THEN HandOver /\ UNCHANGED device
          ELSE device' \in {FALSE, device} /\ UNCHANGED history
  /\ UNCHANGED <<worldVars, mode, enabledOn, email, logVars, run, queue>>

(* Email, from what actually happened.                                     *)
Email ==
  LET wanted == email = "ALWAYS" \/ (email = "FALLBACK" /\ ~job.reached)
  IN  /\ job # NoJob
      /\ job.step = "email"
      /\ job' = [job EXCEPT !.step = "settle", !.reached = @ \/ wanted]
      /\ IF wanted /\ ~job.reached THEN HandOver ELSE UNCHANGED history
      /\ UNCHANGED <<worldVars, accountVars, logVars, run, queue>>

(* The rows that are still PENDING become SENT or FAILED.                  *)
Settle ==
  LET xs == {x \in job.rows : outcome[x] = "PENDING"}
  IN  /\ job # NoJob
      /\ job.step = "settle"
      /\ outcome' = [x \in Rows |->
           IF x \in xs THEN IF job.reached THEN "SENT" ELSE "FAILED" ELSE outcome[x]]
      /\ newer' = Touched(xs)
      /\ job' = NoJob
      /\ UNCHANGED <<worldVars, accountVars, run, queue, history>>

(* The worker is killed; nothing runs its task again.                      *)
WorkerDies ==
  /\ job # NoJob
  /\ lost' = lost \cup {x \in job.rows : outcome[x] = "PENDING"}
  /\ job' = NoJob
  /\ UNCHANGED <<worldVars, accountVars, logVars, run, queue, heard>>

-----------------------------------------------------------------------------
(* The world and the account's owner *)

Publish(c, s) ==
  /\ issues < MaxIssues
  /\ c[2] \in {today, today + 1}
  /\ bulletin[c] # s
  /\ bulletin' = [bulletin EXCEPT ![c] = s]
  /\ issues' = issues + 1
  /\ UNCHANGED <<trip, today, accountVars, logVars, run, queue, job, history>>

SaveTrip(d, crossed) ==
  /\ d >= today
  /\ trip[d] = {}
  /\ trip' = [trip EXCEPT ![d] = crossed]
  /\ UNCHANGED <<bulletin, issues, today, accountVars, logVars, run, queue,
                 job, history>>

(* A night passes.  Nothing is evaluated in it; the worker does not ask.    *)
NewDay ==
  /\ today < LastDay
  /\ today' = today + 1
  /\ UNCHANGED <<bulletin, issues, trip, accountVars, logVars, run, queue, job,
                 history>>

\* The unsubscribe link, and turning alerts on on a device.
Unsubscribe ==
  /\ email' = "NEVER"
  /\ UNCHANGED <<worldVars, mode, enabledOn, device, logVars, run, queue, job, history>>

AddDevice ==
  /\ device' = TRUE
  /\ UNCHANGED <<worldVars, mode, enabledOn, email, logVars, run, queue, job, history>>

-----------------------------------------------------------------------------

Command == Evaluate \/ Deliver \/ DeliverFails
DbWorker == TakeMessage \/ Push \/ Email \/ Settle

Next ==
  \/ Command \/ DbWorker \/ WorkerDies
  \/ \E c \in Cells, s \in States : Publish(c, s)
  \/ \E d \in Days, crossed \in (SUBSET Regions) \ {{}} : SaveTrip(d, crossed)
  \/ NewDay \/ Unsubscribe \/ AddDevice

Spec == Init /\ [][Next]_vars

\* The command runs every hour of a day, and not every one of its transactions
\* fails; the worker goes on with what it has begun.
Fairness ==
  /\ SF_vars(Evaluate) /\ SF_vars(Deliver)
  /\ WF_vars(DbWorker)

FairSpec == Spec /\ Fairness

-----------------------------------------------------------------------------
(* Properties *)

\* A row that counts as told but was not settled yet is in a message that will
\* settle it ("a failed enqueue leaves no PENDING row behind to count as told",
\* deliver), unless the worker died with it.
PendingIsCarried ==
  \A x \in Rows : outcome[x] = "PENDING" =>
    \/ x \in lost
    \/ \E i \in 1..Len(queue) : x \in queue[i]
    \/ job # NoJob /\ x \in job.rows

\* A log whose latest row reads SENT records what the person heard last, so the
\* next comparison is against that, whatever failed, recurred, settled late or was
\* lost with a worker meanwhile ("the log is the change memory", docs/alerts.md).
\* Or what they heard last was sent to them again and reached nobody: a row has
\* one outcome, and reads FAILED by then.  It holds while one message of the
\* account is on its way; of two, the earlier one's row may be settled after the
\* later one's was written, and reads as the latest when that one is handed over.
LogIsWhatTheyHeard ==
  \A c \in Cells :
    LET last == LastTold(c, FALSE)
    IN  last # NoState /\ outcome[RowOf(c, last)] = "SENT" =>
          heard[c] # NoState /\ (heard[c] = last \/ outcome[RowOf(c, heard[c])] = "FAILED")

\* No row is in two messages that are on their way: a PENDING row "counts as
\* told, so a second run does not queue it again" (BulletinAlert).
QueuedOnce ==
  /\ \A i, j \in 1..Len(queue) : i # j => queue[i] \cap queue[j] = {}
  /\ job # NoJob => \A i \in 1..Len(queue) : queue[i] \cap job.rows = {}

\* The evening before a saved trip its bulletin is due, whatever a pin in the
\* region was silently logged with before the trip was saved ("A trip's day
\* always gets its establishing issue", alerts.py).
TripEveningIsDue ==
  \A c \in Cells :
    (/\ c[2] = today + 1 /\ c[1] \in trip[c[2]]
     /\ bulletin[c] # NoState
     /\ \A s \in States : outcome[RowOf(c, s)] \notin {"SENT", "PENDING"})
    => \E e \in Entries : CellAt(e) = c /\ Sends(e, Entries)

\* While its day is today or tomorrow a pinned region's bulletin keeps becoming
\* the one the log last counts as told: an alert that reached nobody is tried
\* again, and one that another state's row was written after is sent anew.
EveryIssueIsAnswered ==
  \A c \in Pins \X Days : []<>(
    \/ c[2] \notin {today, today + 1} \/ bulletin[c] = NoState
    \/ /\ outcome[RowOf(c, bulletin[c])] \notin {"none", "FAILED"}
       /\ \A t \in States : <<t, bulletin[c]>> \in newer[c] => outcome[RowOf(c, t)] = "FAILED")

=============================================================================
