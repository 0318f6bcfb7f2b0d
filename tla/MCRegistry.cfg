SPECIFICATION Spec
CONSTANTS
  h1 = h1
  h2 = h2
  MaxWord <- MCMaxWord
  ArenaBase = 40
  ArenaSize = 30
  TypeIds = {0, 1, 2}
  SiteIds = {0, 1, 2, 3}
  TypeHashes <- MCTypeHashes
  NoHash = NoHash
  Sizes <- RegistrySizes
  Pcs <- RegistryPcs
INVARIANTS
  PcProvenance
  RegistryConsistent
PROPERTIES
  BindingsArePermanent
CHECK_DEADLOCK FALSE
