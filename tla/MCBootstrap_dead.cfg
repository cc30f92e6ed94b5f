\* Two clients, without a crash.
SPECIFICATION Spec
CONSTANTS
  c1 = c1
  c2 = c2
  c3 = c3
  Clients <- TwoClients
  Nobody = Nobody
  MaxCrashes = 0
PROPERTIES
  DeadMeansDead
