CONSTANTS
  Value = {0, 1}
  Bits = {}
  Codes = {"AccessFault"}
  Instructions <- Reported
  Csrs = {"other"}
  Regions <- Memories
  IoAccesses <- DutIo
  IoFirst = 1
  IoLast = 5
  U64 = 32
  Xlen = 16
  Phys = 8
  Pcs = {1, 4}
  TrapVector = 4
  Rd = {1}
  MaxReports = 2
  MaxRegions = 1
  MaxIo = 2
  Null = Null
SPECIFICATION Spec
VIEW Live
PROPERTY ReportsChecked BusErrorsTrap
CHECK_DEADLOCK FALSE
