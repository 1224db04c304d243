\* The worker is killed with a task in its hands.
SPECIFICATION Spec
CONSTANTS
  o1 = o1
  worker = worker
  shell = shell
  Operators = {o1}
  Callers = {shell}
  Worker = worker
  StaleAfter = 1
  MaxRequests = 2
  MaxRuns = 3
  LastHour = 4
CHECK_DEADLOCK FALSE
INVARIANT RefusedOnlyWhileBusy
