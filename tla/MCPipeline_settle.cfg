\* Four jobs through queues of one message, one thread each.
SPECIFICATION FairSpec
CONSTANTS
  j1 = j1
  j2 = j2
  j3 = j3
  j4 = j4
  t1 = t1
  t2 = t2
  Jobs <- FourJobs
  Threads <- OneThread
  NoId = NoId
  PoisonPill = PoisonPill
  MagicResults <- TwoMagic
  Parsers = {}
  QueueCapacity = 1
  MaxCrashes = 0
  MaxPills = 0
PROPERTIES
  EveryUploadSettles
