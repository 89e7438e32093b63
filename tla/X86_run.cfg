SPECIFICATION MCSpec
CONSTANTS
  c0 = c0
  c1 = c1
  c2 = c2
  c3 = c3
  CPU <- FourCPUs
  NoCpu = NoCpu
  EPerm = EPerm
  NonRoot = {"a", "b", "c"}
  RootCell = "R"
  NoCell = "none"
  Devices = {"d1", "d2", "d3"}
  BusOf <- MCBusOf
  DevicesOf <- MCDevicesOf
  Pins = {"i1", "i2", "i3"}
  PinsOf <- MCPinsOf
  Ports = {0, 1, 2, 3}
  PortsOf <- MCPortsOf
  PmTimer = 0
  BigCpuSets = {"b"}
  NumDid = 3
  PoolSize = 13
  OtherUses = {0, 3, 5, 7}
  Guests = {"r", "a1", "a2"}
  CellOf <- MCCellOf
  NoGuest = "none"
  BITS_PER_LONG = 3
  Sizes <- MCSizes
  Fan = 4
  PoolPages = 10
  ReservedPages = 1
  TempPages = 1
  RemapPages = 3
  REMAP_BASE = 1
  HvRegion <- MCHv
  CellRegions <- MCCell
  Parts <- MCParts
  GuestPages = {0}
  OtherSizes = {1, 3}
  MaxOthers = 1
  PAGE_SIZE = 4
  HEADER = 64
  CLUSTER = 4
  Width = 4
  NumVectors = 2
  LvtVector <- MCLvtVector
  MAX_IRQS = 3
  Procs = {"p1", "p2"}
  NoProc = "none"
  Names = {"n1", "n2"}
  NoName = "none"
  Cpus = {0, 1, 2}
  CellCpus <- MCCellCpus
INVARIANTS
  DisableSafe
  ResourcesExclusive ResourcesReturned AccessOwned
  TranslationExact PoolExact  DriverConsistent NoOldInterrupt
PROPERTIES
  SameAnswer DisableFinishes WholeUnmapSucceeds ClearEnds
CHECK_DEADLOCK FALSE
