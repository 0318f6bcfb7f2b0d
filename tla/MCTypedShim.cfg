SPECIFICATION ShimSpec
CONSTANTS
  h1 = h1
  t1 = t1
  t2 = t2
  c1 = c1
  c2 = c2
  MaxWord = 63
  ArenaBase = 8
  ArenaSize = 32
  TypeIds = {0, 1}
  SiteIds = {0, 1}
  TypeHashes <- MCTypeHashes
  NoHash = NoHash
  Sizes = {4, 16}
  Pcs = {0}
  Threads = {t1, t2}
  Contents = {c1, c2}
  NoContent = NoContent
  HeapBases = {48}
  HeapBlock = 16
  MaxOwned = 1
  TypeOf <- MCTypeOf
SYMMETRY Symmetry
INVARIANTS
  ContentsPreserved
  LibcSeesItsOwn
  HeldIsAllocated
CHECK_DEADLOCK FALSE
