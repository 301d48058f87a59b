CONSTANTS
  Value = {0, 1}
  Bits = {}
  Codes = {"AccessFault"}
  Instructions <- SmallInstructions
  Csrs = {}
  Regions <- SmallRegions
  IoAccesses = {}
  IoFirst = 1
  IoLast = 3
  U64 = 4
  Xlen = 4
  Phys = 4
  Pcs = {1, 2}
  TrapVector = 1
  Rd = {1}
  MaxReports = 1
  MaxRegions = 1
  MaxIo = 0
  Views = {v1, v2}
  LoadIds = {l1}
  StoreIds = {s1, s2}
  Addr = {0}
  Footprints <- OneByte
  MaxLen = 1
  Null = null
  Self = v1
SPECIFICATION Spec
SYMMETRY Symmetry
VIEW Live
PROPERTY ReportedLoadsSound NothingLeftOver
CHECK_DEADLOCK FALSE
