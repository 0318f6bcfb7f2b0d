SPECIFICATION FairLockSpec
CONSTANTS
  h1 = h1
  h2 = h2
  t1 = t1
  t2 = t2
  t3 = t3
  MaxWord = 31
  ArenaBase = 8
  ArenaSize = 16
  TypeIds = {0, 1}
  SiteIds = {0, 1}
  TypeHashes <- MCTypeHashes
  NoHash = NoHash
  Sizes = {0, 8}
  Pcs = {0}
  Threads = {t1, t2, t3}
  MaxCalls <- MCMaxCalls
  Pointers = {8, 16}
  TypeOf <- MCTypeOf
INVARIANTS
  NoDanglingIterator
  AnswersAreAtomic
PROPERTIES
  CallsAreAtomic
  CallsReturn
CHECK_DEADLOCK FALSE
