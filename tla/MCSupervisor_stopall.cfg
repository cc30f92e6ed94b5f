\* A stop of all workers under load.
SPECIFICATION FairSpec
CONSTANTS
  Order <- AllWorkers
  Commands <- StartStop
  QueueCapacity = 1
  MaxCommands = 2
  MaxJobs = 3
  MaxKills = 0
  MaxSupCrashes = 0
PROPERTIES
  CommandsComplete
\* The supervisor really may hang in send_stop_job or wait.
CHECK_DEADLOCK FALSE
