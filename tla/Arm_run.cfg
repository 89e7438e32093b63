SPECIFICATION MCSpec
CONSTANTS
  ArmCpus = {"c0", "c1", "c2"}
  Master = "c0"
  CellSet = {"c1", "c2"}
  Primary = "c1"
  MboxWriters = {"c0"}
  MayOff = {"c2"}
  MayFail = {"c1"}
  GCpus = {"t", "s", "u"}
  Senders = {"s", "u"}
  Receivers = {"t"}
  NumSlots = 2
  NumLr = 1
  SgiIds = {1, 2}
  HwIrq = 40
  MaxSends = 3
  MaxResets = 1
  Spis = {0, 1, 2}
  PerWord = 2
  RootCpus = {"r0", "r1"}
  CellCpu = "a1"
  HyperCpu = "r0"
  RootPins = {0, 1}
  CellPins = {1, 2}
  SCpus = {"c0", "c1", "c2"}
  NoCpu = "none"
  GicVersion = 3
  BYTE = 2
  FRAME = 3
INVARIANTS
  MailboxSafe ListExact   

   
CHECK_DEADLOCK FALSE
