SPECIFICATION ToolchainSpec
CONSTANTS
  LineBreaks <- MCLineBreaks
  Functions = {"f", "g"}
  Types <- MCTypes
  CastOf <- MCCastOf
  SizeofOf <- MCSizeofOf
  Files <- MCFiles
  Alphabet <- MCAlphabet
  Byte <- MCByte
  HashModulus = 32
  MaxSiteId = 15
  Projects <- MCProjects
  Results <- MCResults
  Rank <- MCRank
  Garbled = Garbled
  Sources <- MCSources
INVARIANTS
  InstrumentedAsReported
  FaithfulPolicyIsAccepted
  SitesKeepTheirType
  GeneratorsAgree
  PolicyIsTheResult
  BridgesAreWhole
CHECK_DEADLOCK FALSE
