\* A job, a start or a restart under load, a crash.
SPECIFICATION FairSystem
CONSTANTS
  j1 = j1
  j2 = j2
  t1 = t1
  Jobs <- OneJob
  Threads <- OneThread
  NoId = NoId
  PoisonPill = PoisonPill
  MagicResults <- TwoMagic
  Parsers = {"Pdf"}
  QueueCapacity = 1
  MaxCrashes = 9
  MaxPills = 9
  Order <- WorkerOrder
  Commands <- StartsAndRestarts
  MaxCommands = 1
  MaxFaults = 1
INVARIANTS
  ControlTypeOK
PROPERTIES
  RestartKeepsJobs
  StartIsFair
  UploadSettles
\* The supervisor really may hang in a stop.
CHECK_DEADLOCK FALSE
