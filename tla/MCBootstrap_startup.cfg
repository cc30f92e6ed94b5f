\* Three clients at any time, and one crash or interruption.
SPECIFICATION FairSpec
CONSTANTS
  c1 = c1
  c2 = c2
  c3 = c3
  Clients <- ThreeClients
  Nobody = Nobody
  MaxCrashes = 1
INVARIANTS
  TypeOK
  OneSupervisor
  NoSplit
  PidNamesServer
PROPERTIES
  CommandsArrive
  ClientsEnd
