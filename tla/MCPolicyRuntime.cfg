SPECIFICATION FairPolicySpec
CONSTANTS
  h1 = h1
  h2 = h2
  MaxWord = 31
  ArenaBase = 8
  ArenaSize = 16
  TypeIds = {0, 1, 2}
  SiteIds = {0, 1, 2}
  TypeHashes <- MCTypeHashes
  NoHash = NoHash
  Sizes <- MCSizes
  Pcs <- MCPcs
  Threads = {t1, t2}
  Symbols <- MCSymbols
  SymbolTables <- MCSymbolTables
  Policies <- MCPolicies
INVARIANTS
  ReadyMeansWholePolicy
  FallbackNeverReattributes
  ObjectsComeFromPolicy
PROPERTIES
  ConstructorEnds
  CallbacksReturn
CHECK_DEADLOCK FALSE
