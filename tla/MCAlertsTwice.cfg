\* A run writes rows while the message of an earlier one is not settled.
SPECIFICATION Spec
CONSTANTS
  r1 = r1
  r2 = r2
  calm = calm
  calmer = calmer
  storm = storm
  Regions = {r1, r2}
  Pins = {r1}
  LastDay = 2
  States = {calm, calmer, storm}
  Notice <- NoticeOf
  NoState = NoState
  NoJob = NoJob
  MaxIssues = 2
  Backlog = 2
CONSTRAINT Focused
INVARIANT QueuedOnce
