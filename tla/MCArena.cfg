SPECIFICATION Spec
CONSTANTS
  h1 = h1
  h2 = h2
  MaxWord <- MCMaxWord
  ArenaBase = 24
  ArenaSize = 39
  TypeIds = {0, 1, 2}
  SiteIds = {0, 1, 2}
  TypeHashes <- MCTypeHashes
  NoHash = NoHash
  Sizes <- ArenaSizes
  Pcs <- ArenaPcs
INVARIANTS
  ArenaLayout
  LookupExact
  Provenance
PROPERTIES
  ImplementsTypedMemory
CHECK_DEADLOCK FALSE
