--------------------------- MODULE RemoteCommands ---------------------------
(***************************************************************************)
(* One management command that run_command may start from the MCP server:  *)
(* an operator's request checks the register and the task queue and then   *)
(* enqueues a task (apps/core/remote_commands.py); the db_worker runs it;  *)
(* every run, from whatever caller, opens and closes a row of the register *)
(* (apps/core/command_register.py); prune_command_runs sweeps the rows of  *)
(* runs that were killed.                                                  *)
(*                                                                         *)
(* Left out: the arguments' check, what the command does, and the deletion *)
(* of rows of scheduled runs that are ninety days old.                     *)
(***************************************************************************)
EXTENDS Naturals, FiniteSets

CONSTANTS
  Operators,
  Callers,     \* the scheduler and shells, which start a run unasked
  Worker,      \* the one db_worker
  StaleAfter,  \* hours
  MaxRequests, \* bound: tasks
  MaxRuns,     \* bound: runs
  LastHour     \* bound; a row is opened in time to become stale

ASSUME BoundsAssumption ==
  /\ StaleAfter \in Nat /\ MaxRequests \in Nat /\ MaxRuns \in Nat /\ LastHour \in Nat
ASSUME WorkerAssumption == Worker \notin Callers

Tasks == 1..MaxRequests
Runs == 1..MaxRuns
Processes == Callers \cup {Worker}

\* ENDED stands for SUCCEEDED, PARTIAL and FAILED, which nothing here tells apart.
Outcomes == {"ENDED", "INTERRUPTED"}
Statuses == Outcomes \cup {"none", "RUNNING"}

VARIABLES
  now,
  task,    \* the status of each task result
  asking,  \* per operator: what its request does next
  status,  \* of each register row, "none" if the run has none
  began,   \* per run: the hour it began
  ran,     \* runs begun
  doing,   \* per process: the run it is in, 0 for none
  step,    \* per process: what it does next
  taken,   \* the worker's task, 0 for none
  closed   \* history: the outcome a run wrote to its row when it ended

requests == <<task, asking>>
register == <<status, began>>
processes == <<doing, step, taken>>
vars == <<now, requests, register, ran, processes, closed>>

TypeOK ==
  /\ now \in 0..LastHour
  /\ task \in [Tasks -> {"none", "READY", "RUNNING", "DONE"}]
  /\ asking \in [Operators -> {"nothing", "register", "queue", "enqueue"}]
  /\ status \in [Runs -> Statuses]
  /\ began \in [Runs -> 0..LastHour]
  /\ ran \in 0..MaxRuns
  /\ doing \in [Processes -> 0..ran]
  /\ step \in [Processes -> {"off", "open", "run", "ended"}]
  /\ \A p \in Processes : doing[p] = 0 <=> step[p] \in {"off", "ended"}
  /\ taken \in 0..MaxRequests
  /\ taken = 0 <=> step[Worker] = "off"
  /\ closed \in [Runs -> Outcomes \cup {"none"}]

Init ==
  /\ now = 0
  /\ task = [t \in Tasks |-> "none"]
  /\ asking = [o \in Operators |-> "nothing"]
  /\ status = [r \in Runs |-> "none"]
  /\ began = [r \in Runs |-> 0]
  /\ ran = 0
  /\ doing = [p \in Processes |-> 0]
  /\ step = [p \in Processes |-> "off"]
  /\ taken = 0
  /\ closed = [r \in Runs |-> "none"]

-----------------------------------------------------------------------------
(* The request *)

Fresh(r) == status[r] = "RUNNING" /\ began[r] + StaleAfter >= now

\* Fault: a task that is running has its row, so only waiting ones are asked for.
QueuedWaiting == \E t \in Tasks : task[t] = "READY"

\* _queued: the task queue keeps no time, so neither does its answer.
Queued == \E t \in Tasks : task[t] \in {"READY", "RUNNING"}

Ask(o) ==
  /\ asking[o] = "nothing"
  /\ asking' = [asking EXCEPT ![o] = "register"]
  /\ UNCHANGED <<now, task, register, ran, processes, closed>>

(* _already_running, its first query.                                      *)
CheckRegister(o) ==
  /\ asking[o] = "register"
  /\ asking' = [asking EXCEPT ![o] =
       IF \E r \in Runs : Fresh(r) THEN "nothing" ELSE "queue"]
  /\ UNCHANGED <<now, task, register, ran, processes, closed>>

(* And its second; either one refuses the request.                         *)
CheckQueue(o) ==
  /\ asking[o] = "queue"
  /\ asking' = [asking EXCEPT ![o] = IF Queued THEN "nothing" ELSE "enqueue"]
  /\ UNCHANGED <<now, task, register, ran, processes, closed>>

Enqueue(o) ==
  /\ asking[o] = "enqueue"
  /\ \E t \in Tasks :
       /\ task[t] = "none" /\ \A u \in 1..t - 1 : task[u] # "none"
       /\ task' = [task EXCEPT ![t] = "READY"]
  /\ asking' = [asking EXCEPT ![o] = "nothing"]
  /\ UNCHANGED <<now, register, ran, processes, closed>>

-----------------------------------------------------------------------------
(* A run, in the worker or in another caller's process *)

\* Process p begins a run: execute().
Begins(p) ==
  /\ ran < MaxRuns
  /\ ran' = ran + 1
  /\ doing' = [doing EXCEPT ![p] = ran + 1]
  /\ step' = [step EXCEPT ![p] = "open"]

CallerStarts(p) ==
  /\ step[p] = "off"
  /\ Begins(p)
  /\ UNCHANGED <<now, requests, register, taken, closed>>

(* The worker takes a task; nothing but a crash takes it away from it.     *)
TakeTask ==
  /\ step[Worker] = "off"
  /\ \E t \in Tasks :
       /\ task[t] = "READY"
       /\ task' = [task EXCEPT ![t] = "RUNNING"]
       /\ taken' = t
  /\ Begins(Worker)
  /\ UNCHANGED <<now, asking, register, closed>>

(* _open_run: a row that cannot be written does not stop the command.      *)
OpenRun(p) ==
  /\ step[p] = "open"
  /\ now + StaleAfter < LastHour
  /\ \E recorded \in BOOLEAN :
       status' = [status EXCEPT ![doing[p]] = IF recorded THEN "RUNNING" ELSE "none"]
  /\ began' = [began EXCEPT ![doing[p]] = now]
  /\ step' = [step EXCEPT ![p] = "run"]
  /\ UNCHANGED <<now, requests, ran, doing, taken, closed>>

\* Fault: the worker goes on to the next task without settling this one.
AfterUnsettled(p) == "off"

\* What a caller's process is after its run; the worker has the task to settle.
After(p) == IF p = Worker THEN "ended" ELSE "off"

\* Fault: a row that was swept meanwhile is left as it is.
CloseRunIfRunning(p) ==
  /\ step[p] = "run"
  /\ LET r == doing[p]
     IN  \E outcome \in Outcomes, written \in IF status[r] = "none" THEN {FALSE} ELSE BOOLEAN :
           /\ status' = [status EXCEPT ![r] =
                           IF written /\ @ = "RUNNING" THEN outcome ELSE @]
           /\ closed' = [closed EXCEPT ![r] = IF written THEN outcome ELSE @]
  /\ doing' = [doing EXCEPT ![p] = 0]
  /\ step' = [step EXCEPT ![p] = After(p)]
  /\ UNCHANGED <<now, requests, began, ran, taken>>

(* The command returns or raises: _classify, and _close_run, which writes  *)
(* over whatever the row reads by now, or fails to.                        *)
CloseRun(p) ==
  /\ step[p] = "run"
  /\ LET r == doing[p]
     IN  \E outcome \in Outcomes, written \in IF status[r] = "none" THEN {FALSE} ELSE BOOLEAN :
           /\ status' = [status EXCEPT ![r] = IF written THEN outcome ELSE @]
           /\ closed' = [closed EXCEPT ![r] = IF written THEN outcome ELSE @]
  /\ doing' = [doing EXCEPT ![p] = 0]
  /\ step' = [step EXCEPT ![p] = After(p)]
  /\ UNCHANGED <<now, requests, began, ran, taken>>

(* The task's result, good or bad; a command's sys.exit is no way past it. *)
TaskDone ==
  /\ step[Worker] = "ended"
  /\ task' = [task EXCEPT ![taken] = "DONE"]
  /\ step' = [step EXCEPT ![Worker] = "off"]
  /\ taken' = 0
  /\ UNCHANGED <<now, asking, register, ran, doing, closed>>

(* The process is killed; its row and its task stay as they are.           *)
Dies(p) ==
  /\ step[p] # "off"
  /\ doing' = [doing EXCEPT ![p] = 0]
  /\ step' = [step EXCEPT ![p] = "off"]
  /\ taken' = IF p = Worker THEN 0 ELSE taken
  /\ UNCHANGED <<now, requests, register, ran, closed>>

-----------------------------------------------------------------------------
(* prune_command_runs, daily and on demand *)

Sweep(rows) ==
  /\ status' = [r \in Runs |-> IF r \in rows THEN "INTERRUPTED" ELSE status[r]]
  /\ UNCHANGED <<now, requests, began, ran, processes, closed>>

\* Fault: a row is swept in the hour the check still reads it as fresh.
PruneEarly ==
  Sweep({r \in Runs : status[r] = "RUNNING" /\ began[r] + StaleAfter <= now})

\* Fault: scheduled without --commit.
PruneDryRun == Sweep({})

Prune ==
  Sweep({r \in Runs : status[r] = "RUNNING" /\ began[r] + StaleAfter < now})

Tick ==
  /\ now < LastHour
  /\ now' = now + 1
  /\ UNCHANGED <<requests, register, ran, processes, closed>>

-----------------------------------------------------------------------------

Request(o) == Ask(o) \/ CheckRegister(o) \/ CheckQueue(o) \/ Enqueue(o)

Next ==
  \/ \E o \in Operators : Request(o)
  \/ \E p \in Callers : CallerStarts(p)
  \/ TakeTask \/ TaskDone
  \/ \E p \in Processes : OpenRun(p) \/ CloseRun(p) \/ Dies(p)
  \/ Prune \/ Tick

Spec == Init /\ [][Next]_vars

\* Time passes, and the scheduler fires the sweep every day.
FairSpec == Spec /\ WF_vars(Tick) /\ WF_vars(Prune)

-----------------------------------------------------------------------------
(* Properties *)

Active(t) == task[t] \in {"READY", "RUNNING"}

Live(r) == \E p \in Processes : doing[p] = r

\* "One run of a command at a time" (docs/decisions/
\* a-remote-command-runs-on-the-task-worker.md): one operator's requests never
\* have two tasks queued or running, although a task that waits has no row, a
\* row may be missing, and a run may outlast StaleAfter.
OneRemoteRun == \A t, u \in Tasks : Active(t) /\ Active(u) => t = u

\* The sweep and the check agree on when a row is stale: a run that has a row
\* shows as RUNNING as long as the row would refuse a request.
FreshRunIsShown ==
  \A r \in Runs : Live(r) /\ status[r] # "none" /\ began[r] + StaleAfter >= now
                  => status[r] = "RUNNING"

\* What a run wrote of its end is what the register shows from then on, whether
\* or not the sweep took it for dead before.
OutcomeStays == \A r \in Runs : closed[r] # "none" => status[r] = closed[r]

\* The row of a run that was killed does not read RUNNING for ever.
KilledRunIsSwept ==
  \A r \in Runs : (status[r] = "RUNNING" /\ ~Live(r)) ~> status[r] # "RUNNING"

\* With nothing waiting, nothing running and nothing begun within StaleAfter,
\* the command can be started again: "a RUNNING row older than STALE_AFTER is a dead process, not
\* a run" (tests/core/test_remote_commands.py).
RefusedOnlyWhileBusy ==
  Queued => \/ \E t \in Tasks : task[t] = "READY"
            \/ step[Worker] # "off"
            \/ \E r \in 1..ran : began[r] + StaleAfter >= now

=============================================================================
