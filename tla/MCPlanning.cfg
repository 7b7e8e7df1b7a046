CONSTANTS
  VectorBytes = 8
  HmxTile = 4
  ContractionTile = 2
  GenericReductionTile = 2
  CacheTileCap = 3
  TileBudget = 100
  DynamicSize = 5
  Dynamic <- MCDynamic
  Dispatches <- MCDispatches
  Options <- MCOptions
SPECIFICATION Spec
INVARIANTS
  AnalysisIsConnectivity
  VerifierAgrees
  StagedTilesFit
CHECK_DEADLOCK FALSE
