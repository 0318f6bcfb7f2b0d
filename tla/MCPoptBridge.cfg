SPECIFICATION BridgeSpec
CONSTANTS
  char = char
  popt = popt
  number = number
  word = word
  a = a
  b = b
  Null = Null
  NoHash = NoHash
  MaxWord = 255
  ArenaBase = 16
  ArenaSize = 136
  TypeIds = {0, 1, 2}
  SiteIds = {0, 1, 2}
  TypeHashes <- MCTypeHashes
  Sizes = {8, 16, 40}
  Pcs = {0}
  Dests <- MCDests
  ValuesOf <- MCValuesOf
  Integers32 <- MCIntegers
  Texts <- MCTexts
  TextSize <- MCTextSize
  OptionTables <- MCOptionTables
  Arguments <- MCArguments
  Name = a
  ContextSize = 16
  CopySite = 1
  ContextSite = 2
  CharHash = char
  TypeOf <- MCTypeOf
  AssignsMeanwhile = FALSE
INVARIANTS
  UHasWhatTGave
  NoSpuriousAbort
  ContextHoldsItsTables
PROPERTIES
  LikeNativePopt
CHECK_DEADLOCK FALSE
