------------------------ MODULE RemoteCommandsProofs ------------------------
(***************************************************************************)
(* Proofs about RemoteCommands: one operator has one task at a time, and   *)
(* the register keeps what a run wrote of its end, for any number of       *)
(* callers and runs and any StaleAfter.                                    *)
(***************************************************************************)
EXTENDS RemoteCommands, TLAPS

\* What the queue proof needs: a request that goes on to enqueue saw no task,
\* and nobody else adds one.
QueueInv ==
  /\ task \in [Tasks -> {"none", "READY", "RUNNING", "DONE"}]
  /\ asking \in [Operators -> {"nothing", "register", "queue", "enqueue"}]
  /\ OneRemoteRun
  /\ \A o \in Operators : asking[o] = "enqueue" => \A t \in Tasks : ~Active(t)

LEMMA InitQueue == Init => QueueInv
  BY DEF Init, QueueInv, OneRemoteRun, Active

LEMMA RequestQueue ==
  ASSUME \A o1, o2 \in Operators : o1 = o2, NEW o \in Operators, QueueInv, Request(o)
  PROVE  QueueInv'
<1>1. CASE Ask(o) \/ CheckRegister(o)
  <2>1. /\ task' = task
        /\ asking' \in [Operators -> {"nothing", "register", "queue", "enqueue"}]
        /\ \A p \in Operators : asking'[p] = "enqueue" => asking[p] = "enqueue"
    BY <1>1 DEF Ask, CheckRegister, QueueInv
  <2> QED BY <2>1 DEF QueueInv, OneRemoteRun, Active
<1>2. CASE CheckQueue(o)
  <2>1. /\ task' = task
        /\ asking' \in [Operators -> {"nothing", "register", "queue", "enqueue"}]
        /\ asking'[o] = "enqueue" => ~Queued
    BY <1>2 DEF CheckQueue, QueueInv
  <2>2. ~Queued => \A t \in Tasks : ~Active(t)
    BY DEF Queued, Active
  <2> QED BY <2>1, <2>2 DEF QueueInv, OneRemoteRun, Active
<1>3. CASE Enqueue(o)
  <2>1. PICK t \in Tasks : task' = [task EXCEPT ![t] = "READY"]
    BY <1>3 DEF Enqueue
  <2>2. asking[o] = "enqueue" /\ asking' = [asking EXCEPT ![o] = "nothing"]
    BY <1>3 DEF Enqueue
  <2>3. \A u \in Tasks : ~Active(u)
    BY <2>2 DEF QueueInv
  <2>4. \A u \in Tasks : Active(u)' => u = t
    BY <2>1, <2>3 DEF QueueInv, Active
  <2>5. \A p \in Operators : asking'[p] = "nothing"
    BY <2>2 DEF QueueInv
  <2> QED BY <2>1, <2>2, <2>4, <2>5 DEF QueueInv, OneRemoteRun
<1> QED BY <1>1, <1>2, <1>3 DEF Request

\* A task only becomes active in a request.
LEMMA WorkerQueue == QueueInv /\ (TakeTask \/ TaskDone) => QueueInv'
<1> SUFFICES ASSUME QueueInv, TakeTask \/ TaskDone PROVE QueueInv'
    OBVIOUS
<1>1. asking' = asking
  BY DEF TakeTask, TaskDone
<1>2. /\ task' \in [Tasks -> {"none", "READY", "RUNNING", "DONE"}]
      /\ \A t \in Tasks : Active(t)' => Active(t)
  <2>1. CASE TakeTask
    <3>1. PICK t \in Tasks : task[t] = "READY" /\ task' = [task EXCEPT ![t] = "RUNNING"]
      BY <2>1 DEF TakeTask
    <3> QED BY <3>1 DEF QueueInv, Active
  <2>2. CASE TaskDone
    BY <2>2 DEF TaskDone, QueueInv, Active
  <2> QED BY <2>1, <2>2
<1> QED BY <1>1, <1>2 DEF QueueInv, OneRemoteRun

LEMMA NextQueue ==
  ASSUME \A o1, o2 \in Operators : o1 = o2, QueueInv, [Next]_vars
  PROVE  QueueInv'
<1>1. UNCHANGED requests => QueueInv'
  BY DEF requests, QueueInv, OneRemoteRun, Active
<1>2. ASSUME NEW o \in Operators, Request(o) PROVE QueueInv'
  BY <1>2, RequestQueue
<1>3. CASE TakeTask \/ TaskDone
  BY <1>3, WorkerQueue
<1>4. ASSUME NEW p \in Callers, CallerStarts(p) PROVE QueueInv'
  BY <1>1, <1>4 DEF CallerStarts
<1>5. ASSUME NEW p \in Processes, OpenRun(p) \/ CloseRun(p) \/ Dies(p) PROVE QueueInv'
  BY <1>1, <1>5 DEF OpenRun, CloseRun, Dies
<1>6. CASE Prune \/ Tick \/ UNCHANGED vars
  BY <1>1, <1>6 DEF Prune, Sweep, Tick, vars
<1> QED BY <1>2, <1>3, <1>4, <1>5, <1>6 DEF Next

\* However many runs other callers start, however late the hour and whether or
\* not the register could be written, one operator has one task queued or
\* running at a time.
THEOREM OneOperatorOneRun ==
  ASSUME \A o1, o2 \in Operators : o1 = o2
  PROVE  Spec => []OneRemoteRun
<1>1. QueueInv => OneRemoteRun
  BY DEF QueueInv
<1>2. QueueInv /\ [Next]_vars => QueueInv'
  BY NextQueue
<1> QED BY <1>1, <1>2, InitQueue, PTL DEF Spec

-----------------------------------------------------------------------------

\* What the register proof needs.
RunsTyped ==
  /\ now \in Nat /\ ran \in Nat
  /\ status \in [Runs -> Statuses]
  /\ began \in [Runs -> Nat]
  /\ closed \in [Runs -> Outcomes \cup {"none"}]
  /\ doing \in [Processes -> 0..ran]
  /\ step \in [Processes -> {"off", "open", "run", "ended"}]

\* No two processes are in one run, and a run that is not open yet, or to come,
\* has no row.
RunsApart ==
  /\ \A p, q \in Processes : doing[p] = doing[q] /\ doing[p] # 0 => p = q
  /\ \A p \in Processes : step[p] \in {"open", "run"} => doing[p] \in Runs
  /\ \A p \in Processes : step[p] \in {"off", "ended"} => doing[p] = 0
  /\ \A p \in Processes : step[p] = "open" => status[doing[p]] = "none"
  /\ \A r \in Runs : r > ran => status[r] = "none"

\* A run wrote its end only if it is no process's any more.
EndedIsOver ==
  \A r \in Runs : closed[r] # "none" => /\ status[r] = closed[r]
                                        /\ r <= ran
                                        /\ \A p \in Processes : doing[p] # r

RunsInv == RunsTyped /\ RunsApart /\ EndedIsOver /\ FreshRunIsShown

LEMMA InitRuns == Init => RunsInv
  BY BoundsAssumption
     DEF Init, RunsInv, RunsTyped, RunsApart, EndedIsOver, FreshRunIsShown, Live, Runs,
         Processes, Statuses, Outcomes

LEMMA BeginsRuns ==
  ASSUME NEW p \in Processes, RunsInv, Begins(p), step[p] = "off",
         UNCHANGED <<now, register, closed>>
  PROVE  RunsInv'
<1>1. /\ ran' = ran + 1 /\ ran + 1 \in Runs
      /\ doing' = [doing EXCEPT ![p] = ran + 1]
      /\ step' = [step EXCEPT ![p] = "open"]
      /\ now' = now /\ status' = status /\ began' = began /\ closed' = closed
  BY BoundsAssumption DEF Begins, register, Runs, RunsInv, RunsTyped
<1>2. RunsTyped /\ RunsApart /\ EndedIsOver /\ FreshRunIsShown
  BY DEF RunsInv
<1>3. RunsTyped'
  BY <1>1, <1>2 DEF RunsTyped
<1>4. \A q \in Processes : doing[q] \in 0..ran
  BY <1>2 DEF RunsTyped
<1>5. RunsApart'
  BY <1>1, <1>2, <1>4 DEF RunsTyped, RunsApart, Runs
<1>6. EndedIsOver'
  BY <1>1, <1>2, <1>4 DEF RunsTyped, EndedIsOver, Runs
<1>7. FreshRunIsShown'
  <2> SUFFICES ASSUME NEW r \in Runs, Live(r)', status'[r] # "none",
                      began'[r] + StaleAfter >= now'
               PROVE  status'[r] = "RUNNING"
      BY DEF FreshRunIsShown
  <2>1. status[ran + 1] = "none"
    BY <1>1, <1>2 DEF RunsApart, RunsTyped
  <2>2. r # ran + 1
    BY <2>1, <1>1
  <2>3. Live(r)
    BY <2>2, <1>1, <1>2 DEF Live, RunsTyped
  <2> QED BY <2>3, <1>1, <1>2 DEF FreshRunIsShown
<1> QED BY <1>3, <1>5, <1>6, <1>7 DEF RunsInv

LEMMA OpenRuns ==
  ASSUME NEW p \in Processes, RunsInv, OpenRun(p)
  PROVE  RunsInv'
<1> DEFINE r == doing[p]
<1>1. PICK s \in {"RUNNING", "none"} : status' = [status EXCEPT ![r] = s]
  BY DEF OpenRun
<1>2. /\ step[p] = "open" /\ began' = [began EXCEPT ![r] = now]
      /\ step' = [step EXCEPT ![p] = "run"]
      /\ now' = now /\ ran' = ran /\ doing' = doing /\ closed' = closed
  BY DEF OpenRun
<1>3. RunsTyped /\ RunsApart /\ EndedIsOver /\ FreshRunIsShown
  BY DEF RunsInv
<1>4. r \in Runs /\ r <= ran
  BY <1>2, <1>3 DEF RunsTyped, RunsApart, Runs
<1>5. RunsTyped'
  BY <1>1, <1>2, <1>3, <1>4 DEF RunsTyped, Statuses
<1>6. RunsApart'
  BY <1>1, <1>2, <1>3, <1>4 DEF RunsTyped, RunsApart, Runs
<1>7. EndedIsOver'
  BY <1>1, <1>2, <1>3, <1>4 DEF RunsTyped, EndedIsOver
<1>8. FreshRunIsShown'
  BY <1>1, <1>2, <1>3, <1>4 DEF RunsTyped, FreshRunIsShown, Live
<1> QED BY <1>5, <1>6, <1>7, <1>8 DEF RunsInv

LEMMA CloseRuns ==
  ASSUME NEW p \in Processes, RunsInv, CloseRun(p)
  PROVE  RunsInv'
<1> DEFINE r == doing[p]
<1>1. PICK outcome \in Outcomes, written \in BOOLEAN :
        /\ status' = [status EXCEPT ![r] = IF written THEN outcome ELSE @]
        /\ closed' = [closed EXCEPT ![r] = IF written THEN outcome ELSE @]
  BY DEF CloseRun
<1>2. /\ step[p] = "run" /\ doing' = [doing EXCEPT ![p] = 0]
      /\ now' = now /\ ran' = ran /\ began' = began
      /\ \E after \in {"off", "ended"} : step' = [step EXCEPT ![p] = after]
  BY DEF CloseRun, After
<1>3. RunsTyped /\ RunsApart /\ EndedIsOver /\ FreshRunIsShown
  BY DEF RunsInv
<1>4. /\ r \in Runs /\ r \in 1..ran /\ closed[r] = "none"
      /\ \A q \in Processes \ {p} : doing[q] # r
  BY <1>2, <1>3 DEF RunsTyped, RunsApart, EndedIsOver, Runs
<1>5. RunsTyped'
  BY <1>1, <1>2, <1>3, <1>4 DEF RunsTyped, Statuses
<1>6. RunsApart'
  BY <1>1, <1>2, <1>3, <1>4 DEF RunsTyped, RunsApart, Runs
<1>7. EndedIsOver'
  BY <1>1, <1>2, <1>3, <1>4 DEF RunsTyped, EndedIsOver, Runs
<1>8. FreshRunIsShown'
  <2>0. \A q \in Processes : doing'[q] = IF q = p THEN 0 ELSE doing[q]
    BY <1>2, <1>3 DEF RunsTyped
  <2>1. ASSUME NEW q \in Processes, doing'[q] = r PROVE FALSE
    BY <2>0, <2>1, <1>4
  <2>2. \A t \in Runs : Live(t)' => Live(t) /\ t # r
    BY <2>0, <2>1 DEF Live, Runs
  <2>3. ASSUME NEW t \in Runs, t # r PROVE status'[t] = status[t]
    BY <2>3, <1>1, <1>3 DEF RunsTyped
  <2> QED BY <2>2, <2>3, <1>2, <1>3 DEF FreshRunIsShown
<1> QED BY <1>5, <1>6, <1>7, <1>8 DEF RunsInv

\* A process that is off, or settles its task, is in no run any more.
LEMMA LeaveRuns ==
  ASSUME NEW p \in Processes, RunsInv,
         NEW after \in {"off", "ended"},
         step' = [step EXCEPT ![p] = after],
         doing' = [doing EXCEPT ![p] = 0],
         UNCHANGED <<now, register, ran, closed>>
  PROVE  RunsInv'
<1>1. RunsTyped /\ RunsApart /\ EndedIsOver /\ FreshRunIsShown
  BY DEF RunsInv
<1>2. now' = now /\ status' = status /\ began' = began /\ ran' = ran /\ closed' = closed
  BY DEF register
<1>3. RunsTyped'
  BY <1>1, <1>2 DEF RunsTyped
<1>4. RunsApart'
  BY <1>1, <1>2 DEF RunsTyped, RunsApart
<1>5. EndedIsOver'
  BY <1>1, <1>2 DEF RunsTyped, EndedIsOver, Runs
<1>6. \A r \in Runs : Live(r)' => Live(r)
  BY <1>1 DEF Live, RunsTyped, Runs
<1>7. FreshRunIsShown'
  BY <1>1, <1>2, <1>6 DEF FreshRunIsShown
<1> QED BY <1>3, <1>4, <1>5, <1>7 DEF RunsInv

LEMMA PruneRuns == RunsInv /\ Prune => RunsInv'
<1> SUFFICES ASSUME RunsInv, Prune PROVE RunsInv'
    OBVIOUS
<1> DEFINE swept == {r \in Runs : status[r] = "RUNNING" /\ began[r] + StaleAfter < now}
<1>1. /\ status' = [r \in Runs |-> IF r \in swept THEN "INTERRUPTED" ELSE status[r]]
      /\ UNCHANGED <<now, began, ran, doing, step, closed>>
  BY DEF Prune, Sweep, processes
<1>2. RunsTyped /\ RunsApart /\ EndedIsOver /\ FreshRunIsShown
  BY DEF RunsInv
<1>3. RunsTyped'
  BY <1>1, <1>2 DEF RunsTyped, Statuses, Outcomes
<1>4. RunsApart'
  BY <1>1, <1>2 DEF RunsTyped, RunsApart
<1>5. EndedIsOver'
  BY <1>1, <1>2 DEF RunsTyped, EndedIsOver, Outcomes
<1>6. FreshRunIsShown'
  BY <1>1, <1>2, BoundsAssumption DEF RunsTyped, FreshRunIsShown, Live
<1> QED BY <1>3, <1>4, <1>5, <1>6 DEF RunsInv

LEMMA NextRuns == RunsInv /\ [Next]_vars => RunsInv'
<1> SUFFICES ASSUME RunsInv, [Next]_vars PROVE RunsInv'
    OBVIOUS
<1> DEFINE Elsewhere == UNCHANGED <<now, status, began, ran, doing, step, closed>>
<1>1. Elsewhere => RunsInv'
  BY DEF RunsInv, RunsTyped, RunsApart, EndedIsOver, FreshRunIsShown, Live
<1>2. ASSUME NEW o \in Operators, Request(o) PROVE RunsInv'
  BY <1>1, <1>2 DEF Request, Ask, CheckRegister, CheckQueue, Enqueue, register, processes
<1>3. ASSUME NEW p \in Callers, CallerStarts(p) PROVE RunsInv'
  BY <1>3, BeginsRuns DEF CallerStarts, Processes, register
<1>4. CASE TakeTask
  BY <1>4, BeginsRuns DEF TakeTask, Processes, register
<1>5. CASE TaskDone
  <2>1. Worker \in Processes /\ doing' = doing /\ doing[Worker] = 0
    BY <1>5 DEF TaskDone, Processes, RunsInv, RunsApart
  <2>2. doing' = [doing EXCEPT ![Worker] = 0]
    BY <2>1 DEF RunsInv, RunsTyped
  <2> QED BY <1>5, <2>1, <2>2, LeaveRuns DEF TaskDone
<1>6. ASSUME NEW p \in Processes, OpenRun(p) \/ CloseRun(p) \/ Dies(p) PROVE RunsInv'
  BY <1>6, OpenRuns, CloseRuns, LeaveRuns DEF Dies
<1>7. CASE Prune
  BY <1>7, PruneRuns
<1>8. CASE Tick
  BY <1>8, BoundsAssumption
     DEF Tick, register, processes, RunsInv, RunsTyped, RunsApart, EndedIsOver,
         FreshRunIsShown, Live
<1>9. CASE UNCHANGED vars
  BY <1>1, <1>9 DEF vars, register, processes
<1> QED BY <1>2, <1>3, <1>4, <1>5, <1>6, <1>7, <1>8, <1>9 DEF Next

\* What a run wrote of its end stays on its row, however callers, crashes and
\* sweeps interleave.
THEOREM OutcomesAreKept == Spec => []OutcomeStays
<1>1. RunsInv => OutcomeStays
  BY DEF RunsInv, EndedIsOver, OutcomeStays
<1> QED BY <1>1, InitRuns, NextRuns, PTL DEF Spec

\* A run that still goes is shown as RUNNING until its row is stale: the sweep
\* takes no row that the check of a new request would still count.
THEOREM LiveRunsAreShown == Spec => []FreshRunIsShown
<1>1. RunsInv => FreshRunIsShown
  BY DEF RunsInv
<1> QED BY <1>1, InitRuns, NextRuns, PTL DEF Spec

-----------------------------------------------------------------------------

\* What TypeOK says beyond RunsInv: the bounds, the request, and the worker,
\* which holds a task exactly as long as it is not off.
RequestsTyped ==
  /\ task \in [Tasks -> {"none", "READY", "RUNNING", "DONE"}]
  /\ asking \in [Operators -> {"nothing", "register", "queue", "enqueue"}]

HoursBounded == now \in 0..LastHour /\ began \in [Runs -> 0..LastHour]

WorkerTyped ==
  /\ ran \in 0..MaxRuns
  /\ taken \in 0..MaxRequests
  /\ taken = 0 <=> step[Worker] = "off"

BoundsInv == RequestsTyped /\ HoursBounded /\ WorkerTyped

TypeInv == RunsInv /\ BoundsInv

LEMMA TypeInvTypes == TypeInv => TypeOK
  BY DEF TypeInv, BoundsInv, TypeOK, RunsInv, RunsTyped, RunsApart, Runs, RequestsTyped, HoursBounded,
         WorkerTyped

LEMMA InitTypes == Init => TypeInv
  BY InitRuns, BoundsAssumption
     DEF Init, TypeInv, BoundsInv, RequestsTyped, HoursBounded, WorkerTyped, Processes

LEMMA RequestTypes ==
  ASSUME NEW o \in Operators, TypeInv, Request(o)
  PROVE  BoundsInv'
<1>1. UNCHANGED <<now, began, ran, taken, step>>
  BY DEF Request, Ask, CheckRegister, CheckQueue, Enqueue, register, processes
<1>2. (HoursBounded /\ WorkerTyped)'
  BY <1>1 DEF TypeInv, BoundsInv, HoursBounded, WorkerTyped
<1>3. CASE Ask(o) \/ CheckRegister(o) \/ CheckQueue(o)
  BY <1>2, <1>3 DEF Ask, CheckRegister, CheckQueue, TypeInv, BoundsInv, RequestsTyped
<1>4. CASE Enqueue(o)
  BY <1>2, <1>4 DEF Enqueue, TypeInv, BoundsInv, RequestsTyped
<1> QED BY <1>2, <1>3, <1>4 DEF Request

LEMMA WorkerTypes ==
  ASSUME TypeInv, TakeTask \/ TaskDone
  PROVE  BoundsInv'
<1>1. Worker \in Processes /\ step \in [Processes -> {"off", "open", "run", "ended"}]
  BY DEF Processes, TypeInv, BoundsInv, RunsInv, RunsTyped
<1>2. HoursBounded'
  BY DEF TakeTask, TaskDone, register, TypeInv, BoundsInv, HoursBounded
<1>3. CASE TakeTask
  <2>1. PICK t \in Tasks : task' = [task EXCEPT ![t] = "RUNNING"] /\ taken' = t
    BY <1>3 DEF TakeTask
  <2>2. RequestsTyped'
    BY <1>3, <2>1 DEF TakeTask, TypeInv, BoundsInv, RequestsTyped
  <2>3. ran' \in 0..MaxRuns /\ step'[Worker] = "open"
    BY <1>1, <1>3, BoundsAssumption DEF TakeTask, Begins, TypeInv, BoundsInv, WorkerTyped
  <2>4. WorkerTyped'
    BY <2>1, <2>3, BoundsAssumption DEF WorkerTyped, Tasks
  <2> QED BY <1>2, <2>2, <2>4 DEF BoundsInv
<1>4. CASE TaskDone
  <2>1. RequestsTyped'
    BY <1>4 DEF TaskDone, TypeInv, BoundsInv, RequestsTyped
  <2>2. WorkerTyped'
    BY <1>1, <1>4, BoundsAssumption DEF TaskDone, TypeInv, BoundsInv, WorkerTyped
  <2> QED BY <1>2, <2>1, <2>2 DEF BoundsInv
<1> QED BY <1>3, <1>4

LEMMA RunTypes ==
  ASSUME TypeInv, NEW p \in Processes,
         \/ p \in Callers /\ CallerStarts(p)
         \/ OpenRun(p) \/ CloseRun(p) \/ Dies(p)
  PROVE  BoundsInv'
<1>1. step \in [Processes -> {"off", "open", "run", "ended"}] /\ Worker \in Processes
  BY DEF TypeInv, BoundsInv, RunsInv, RunsTyped, Processes
<1>2. RequestsTyped'
  BY DEF CallerStarts, OpenRun, CloseRun, Dies, requests, TypeInv, BoundsInv, RequestsTyped
<1>3. CASE p \in Callers /\ CallerStarts(p)
  <2>1. HoursBounded'
    BY <1>3 DEF CallerStarts, register, TypeInv, BoundsInv, HoursBounded
  <2>2. p # Worker
    BY <1>3, WorkerAssumption
  <2>3. WorkerTyped'
    BY <1>1, <1>3, <2>2, BoundsAssumption DEF CallerStarts, Begins, TypeInv, BoundsInv, WorkerTyped
  <2> QED BY <1>2, <2>1, <2>3 DEF BoundsInv
<1>4. CASE OpenRun(p)
  <2>1. HoursBounded'
    BY <1>4 DEF OpenRun, TypeInv, BoundsInv, HoursBounded
  <2>2. WorkerTyped'
    BY <1>1, <1>4 DEF OpenRun, TypeInv, BoundsInv, WorkerTyped
  <2> QED BY <1>2, <2>1, <2>2 DEF BoundsInv
<1>5. CASE CloseRun(p)
  <2>1. HoursBounded'
    BY <1>5 DEF CloseRun, TypeInv, BoundsInv, HoursBounded
  <2>2. step[p] = "run" /\ step' = [step EXCEPT ![p] = After(p)] /\ ran' = ran /\ taken' = taken
    BY <1>5 DEF CloseRun
  <2>3. WorkerTyped'
    BY <1>1, <2>2 DEF After, TypeInv, BoundsInv, WorkerTyped
  <2> QED BY <1>2, <2>1, <2>3 DEF BoundsInv
<1>6. CASE Dies(p)
  <2>1. HoursBounded'
    BY <1>6 DEF Dies, register, TypeInv, BoundsInv, HoursBounded
  <2>2. WorkerTyped'
    BY <1>1, <1>6, BoundsAssumption DEF Dies, TypeInv, BoundsInv, WorkerTyped
  <2> QED BY <1>2, <2>1, <2>2 DEF BoundsInv
<1> QED BY <1>3, <1>4, <1>5, <1>6

LEMMA NextTypes == TypeInv /\ [Next]_vars => TypeInv'
<1> SUFFICES ASSUME TypeInv, [Next]_vars PROVE BoundsInv'
    BY NextRuns DEF TypeInv
<1>1. ASSUME NEW o \in Operators, Request(o) PROVE BoundsInv'
  BY <1>1, RequestTypes
<1>2. CASE TakeTask \/ TaskDone
  BY <1>2, WorkerTypes
<1>3. ASSUME NEW p \in Callers, CallerStarts(p) PROVE BoundsInv'
  BY <1>3, RunTypes DEF Processes
<1>4. ASSUME NEW p \in Processes, OpenRun(p) \/ CloseRun(p) \/ Dies(p) PROVE BoundsInv'
  BY <1>4, RunTypes
<1>5. CASE Prune
  BY <1>5 DEF Prune, Sweep, requests, processes, TypeInv, BoundsInv, RequestsTyped, HoursBounded,
         WorkerTyped
<1>6. CASE Tick
  BY <1>6, BoundsAssumption
     DEF Tick, requests, register, processes, TypeInv, BoundsInv, RequestsTyped, HoursBounded,
         WorkerTyped
<1>7. CASE UNCHANGED vars
  BY <1>7 DEF vars, requests, register, processes, TypeInv, BoundsInv, RequestsTyped, HoursBounded,
              WorkerTyped
<1> QED
  BY <1>1, <1>2, <1>3, <1>4, <1>5, <1>6, <1>7 DEF Next

\* The register, the queue and the processes keep their types and their bounds:
\* a process is in a run exactly between execute() and the row's close, and the
\* worker holds a task exactly as long as it is not off.
THEOREM TypeCorrect == Spec => []TypeOK
<1> QED BY TypeInvTypes, InitTypes, NextTypes, PTL DEF Spec

=============================================================================
