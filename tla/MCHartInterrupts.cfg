CONSTANTS
  Value = {0}
  Bits = {"MTI", "SSI"}
  Codes = {"Fault"}
  Instructions <- Interruptible
  Csrs = {"mip", "mie", "mcycle"}
  Regions = {}
  IoAccesses = {}
  IoFirst = 1
  IoLast = 5
  U64 = 32
  Xlen = 16
  Phys = 8
  Pcs = {1, 4, 12, 28}
  TrapVector = 4
  Rd = {1}
  MaxReports = 0
  MaxRegions = 0
  MaxIo = 0
  Null = Null
SPECIFICATION Spec
VIEW Live
INVARIANT TypeOK InterruptStateOwned
PROPERTY InterruptsComeFromTraps
CHECK_DEADLOCK FALSE
