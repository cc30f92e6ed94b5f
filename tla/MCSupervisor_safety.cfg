\* Every kind of command, two jobs, a worker crash and a supervisor crash.
SPECIFICATION Spec
CONSTANTS
  Order <- NoParse
  Commands <- EveryKind
  QueueCapacity = 1
  MaxCommands = 3
  MaxJobs = 2
  MaxKills = 1
  MaxSupCrashes = 1
INVARIANTS
  TypeOK
  OneServer
  StoppedMeansDown
  StopIsHeard
PROPERTIES
  FaultsOnlyBeforeStart
\* The supervisor really may hang in send_stop_job or wait.
CHECK_DEADLOCK FALSE
