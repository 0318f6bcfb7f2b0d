SPECIFICATION SourceSpec
CONSTANTS
  LineBreaks <- MCLineBreaks
  Functions = {"f", "g"}
  Types <- MCTypes
  CastOf <- MCCastOf
  SizeofOf <- MCSizeofOf
  Files <- PageBreakFiles
INVARIANTS
  EachSiteIsItsCall
CHECK_DEADLOCK FALSE
