\* With a PDF parser, so that jobs get done: a crash and a stop job.
SPECIFICATION FairSpec
CONSTANTS
  j1 = j1
  j2 = j2
  j3 = j3
  j4 = j4
  t1 = t1
  t2 = t2
  Jobs <- TwoJobs
  Threads <- OneThread
  NoId = NoId
  PoisonPill = PoisonPill
  MagicResults <- SampleMagic
  Parsers = {"Pdf"}
  QueueCapacity = 1
  MaxCrashes = 1
  MaxPills = 1
INVARIANTS
  SpoolMatchesFate
PROPERTIES
  EveryUploadSettles
  ImplementsLifecycle
