SPECIFICATION Spec
CONSTANTS
  Callers = {c1, c2}
  Writer = w
  Storages = {"f32", "f16"}
  Policies = {"auto", "force_gpu", "force_npu"}
  HybridPercent = 50
  HeteroMin = 2
  MaxNq = 2
  Values = {0, 300}
  Exact = {0}
  Sampled = {2}
  InitRows = 1
  InitValue = 0
  MaxRows = 2
  MaxCalls = 2
  MaxEvents = 1
  MaxInside = 2
  Faults = {"gpu", "prune"}
SYMMETRY Symmetry
INVARIANT WalksScoreTheDataset
INVARIANT GpuWalksKeepTheirMirror
PROPERTY EveryQueryAnswered
