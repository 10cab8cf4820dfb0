SPECIFICATION IvfSpec
CONSTANTS
  Kinds = {"brute", "flat", "rabitq", "pq", "scann"}
  Datasets <- MCDatasets
  Extras <- MCExtras
  Centroids <- MCCentroids
  Codebooks <- MCCodebooks
  Batches <- MCBatches
  SearchKs = {1, 3}
  Probes = {0, 2}
  Refines = {1, 4}
  Filters <- MCFilters
  Settings <- MCSettings
  Values = {0, 1, 2, 3}
  Inf = 1000000
  MaxRows = 4
  MaxBlock = 2
  MaxRefine = 3
  Habits = {}
INVARIANT BatchesAnswerAlone
INVARIANT FullProbeIsExact
INVARIANT RowsLieInTheirLists
PROPERTY FailuresChangeNothing
CHECK_DEADLOCK FALSE
