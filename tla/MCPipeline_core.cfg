\* Two jobs, two pool threads, queues of one message, a crash and a stop job.
SPECIFICATION Spec
CONSTANTS
  j1 = j1
  j2 = j2
  j3 = j3
  j4 = j4
  t1 = t1
  t2 = t2
  Jobs <- TwoJobs
  Threads <- TwoThreads
  NoId = NoId
  PoisonPill = PoisonPill
  MagicResults <- SampleMagic
  Parsers = {}
  QueueCapacity = 1
  MaxCrashes = 1
  MaxPills = 1
SYMMETRY Symmetric
INVARIANTS
  TypeOK
  WellRouted
  SingleCopy
  NothingVanishes
