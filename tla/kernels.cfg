SPECIFICATION Spec
CONSTANTS
  Tasks <- MCTasks
  Outputs <- MCOutputs
  Scans <- MCScans
  Graphs <- MCRanked
  FinalDegrees = {1, 2, 3, 4}
  MaxInitialDegree = 5
  Builds <- MCBuilds
  ExactRows = 3
  SampleCap = 2
  ReverseChunk = 3
  ProposalChunk = 3
  Priority <- MCPriority
  Walks <- MCWalks
  SeedFloor = 2
  TurnFloor = 24
  TurnSlack = 24
INVARIANT PlanTilesTheOutput
INVARIANT ScanTakesTheNearest
INVARIANT GpuPrunesAsTheHost
INVARIANT InboxOrderNeverMatters
INVARIANT BuildsRankOtherRows
INVARIANT EnginesAgree
INVARIANT MembersAreTheBeam
PROPERTY Converges
CHECK_DEADLOCK FALSE
