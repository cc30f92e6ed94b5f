\* All four workers, a restart of one of them, two jobs and a worker crash.
SPECIFICATION FairSpec
CONSTANTS
  Order <- AllWorkers
  Commands <- StartRestartOne
  QueueCapacity = 1
  MaxCommands = 2
  MaxJobs = 2
  MaxKills = 1
  MaxSupCrashes = 0
PROPERTIES
  RunningServes
  CommandsComplete
\* The supervisor really may hang in send_stop_job.
CHECK_DEADLOCK FALSE
