SPECIFICATION BackendsSpec
CONSTANTS
  h1 = h1
  h2 = h2
  MaxWord = 31
  ArenaBase = 8
  ArenaSize = 16
  TypeIds = {0, 1, 2}
  SiteIds = {0, 1, 2}
  TypeHashes <- MCTypeHashes
  NoHash = NoHash
  Sizes = {8}
  Pcs = {0, 3, 4, 5}
  SandboxThreads = {t1, t2}
  Slots = {0, 1, 2}
  Registered = {1, 2}
  AllocSlot = 1
  MaxNesting = 2
  SiteRanges <- MCSiteRanges
  MaxAddress = 63
  PageSize = 4
  PageCount = 5
  MapLengths = {0, 1, 4, 6, 20}
  ArenaSizes = {0, 1, 4, 6}
  Patches <- NaClPatches
  Repos = {sandbox, compiler}
  Checkouts <- NearlyClean
  MaxRuns = 3
INVARIANTS
  ArenaStaysUsable
  OverlapExact
  AuthorityFollowsCaller
  SuccessIsTheWholePatch
PROPERTIES
  PatchesAreNeverLost
CHECK_DEADLOCK FALSE
