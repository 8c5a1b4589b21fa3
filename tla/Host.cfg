SPECIFICATION Spec
CONSTANTS
  Requests = {r1, r2}
  MaxHosts = 2
  MaxStarts = 2
  MaxChildren = 2
  UnhealthyGrace = 2
  UnresponsiveGrace = 1
  ShutdownGrace = 2
  HostGrace = 1
INVARIANTS ConsoleConsistent OneJustlyWatched StopComplete
PROPERTIES ServiceRecovers
