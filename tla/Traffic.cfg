SPECIFICATION TrafficSpec
CONSTANTS
  r1 = r1
  r2 = r2
  r3 = r3
  A = A
  B = B
  Requests = {r1, r2, r3}
  Media = {r1}
  Providers = {A, B}
  Provider <- ProviderOf
  Configured <- PlacesOf
  QueueLimit <- WaitersOf
  MaxRetries = 1
  Recovery = 1
  Budget = 2
  MaxChunks = 2
  Callers = {c1, c2}
  Keys = {k1, k2}
  NoKey = NoKey
  Limit = 1
  Clients = {r1, r2, r3}
  MaxQueue = 2
  Threshold = 2
  OneWake <- OneWakeOf
  TwoWakes <- TwoWakesOf
INVARIANTS Accounted NobodyForgotten WakeTruthful
PROPERTIES NothingOverdue WaitsEnd
