SPECIFICATION PagingSpec
CONSTANTS
  BITS_PER_LONG = 3
  Sizes <- MCSizes3
  Fan = 2
  PoolPages = 10
  ReservedPages = 1
  TempPages = 1
  RemapPages = 3
  REMAP_BASE = 1
  HvRegion <- MCHv3
  CellRegions <- MCCell3
  Parts = {}
  GuestPages = {0}
  OtherSizes = {1,2}
  MaxOthers = 1
INVARIANT TranslationExact
CHECK_DEADLOCK FALSE
