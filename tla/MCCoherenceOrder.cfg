CONSTANTS
  Views = {v1, v2}
  LoadIds = {l1, l2}
  StoreIds = {s1, s2}
  Addr = {1}
  MaxVersion = 3
  Byte <- Versions
  Footprints <- OneByte
  MaxLen = 1
  Null = null
SPECIFICATION HSpec
SYMMETRY Symmetry
VIEW LiveHistory
INVARIANT ForwardingSound ReadsOwnWrites
CHECK_DEADLOCK FALSE
