\* One operator, a shell and the worker; three runs and two requests.
SPECIFICATION FairSpec
CONSTANTS
  o1 = o1
  worker = worker
  shell = shell
  Operators = {o1}
  Callers = {shell}
  Worker = worker
  StaleAfter = 1
  MaxRequests = 2
  MaxRuns = 3
  LastHour = 4
CHECK_DEADLOCK FALSE
INVARIANTS
  TypeOK
  OneRemoteRun
  FreshRunIsShown
  OutcomeStays
PROPERTY KilledRunIsSwept
