SPECIFICATION UseSpec
CONSTANTS
  h1 = h1
  h2 = h2
  MaxWord = 31
  ArenaBase = 8
  ArenaSize = 23
  TypeIds = {0, 1, 2}
  SiteIds = {0, 1, 2}
  TypeHashes <- MCTypeHashes
  NoHash = NoHash
  Sizes <- MCSizes
  Pcs = {0}
  Consumers = {c1, c2}
  AccessPolicies <- MCAccessPolicies
  Lengths <- MCLengths
  TypeOf <- MCTypeOf
INVARIANTS
  AcceptanceIsExact
  HeldRangeIsNeverReused
  HeldRangeInsideOwner
CHECK_DEADLOCK FALSE
