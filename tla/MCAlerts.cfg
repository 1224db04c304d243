\* Two regions, one of them pinned, and a trip; two days; one message on its way.
SPECIFICATION FairSpec
CONSTANTS
  r1 = r1
  r2 = r2
  calm = calm
  calmer = calmer
  storm = storm
  Regions = {r1, r2}
  Pins = {r1}
  LastDay = 2
  States = {calm, calmer, storm}
  Notice <- NoticeOf
  NoState = NoState
  NoJob = NoJob
  MaxIssues = 3
  Backlog = 1
CONSTRAINT Focused
INVARIANTS
  TypeOK
  PendingIsCarried
  LogIsWhatTheyHeard
  TripEveningIsDue
PROPERTY EveryIssueIsAnswered
