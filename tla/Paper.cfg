SPECIFICATION PaperSpec
CONSTANTS
  MaxIntents = 3
  MaxGeneration = 4
  Lot = 2
  Pids = {p1, p2, p3}
  NoFile = NoFile
  MaxBoot = 1
  Hosts = {h1, h2}
  Runtimes = {r1}
  MaxTokens = 4
  NoLease = NoLease
INVARIANTS HolderKeepsLease OneMutation BooksTruthful
PROPERTIES OrphanCleared PlacedAsAuthorized IntentsSettle
CHECK_DEADLOCK FALSE
