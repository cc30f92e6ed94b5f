\* Two uploads, an empty one, two seconds, and a death of ingestd.
SPECIFICATION FairSpec
CONSTANTS
  u1 = u1
  u2 = u2
  u3 = u3
  Uploads <- ThreeUploads
  Empty <- OneEmpty
  NoFile = NoFile
  Result = Result
  HttpThreads = 2
  QueueCapacity = 1
  LastSecond = 2
  MaxCrashes = 1
INVARIANTS
  TypeOK
  InspectsOwn
  SomeoneSubmitted
  JobFindsFile
PROPERTIES
  EveryRequestAnswered
