SPECIFICATION BothSpec
CONSTANTS
  Plans <- MCPlans
  Manifests <- MCManifests
  RequiredCount = 1
  RequiredShapes = {"interior"}
  RuntimeFiles <- MCRuntimeFiles
  MaxCommits = 1
  NoFile = NoFile
  Missing = Missing
INVARIANTS
  TablesAreOfWholeRepetitions
  OverheadsAgree
  EvidenceIsComplete
CHECK_DEADLOCK FALSE
