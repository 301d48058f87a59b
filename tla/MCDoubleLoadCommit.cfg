CONSTANTS
  Views = {v1}
  LoadIds = {l1, l2}
  StoreIds = {s1, s2}
  Addr = {1, 2}
  Byte = {b0}
  Footprints <- Nested
  MaxLen = 1
  Null = null
SPECIFICATION AnySpec
SYMMETRY Symmetry
INVARIANT NeverCrashes
CHECK_DEADLOCK FALSE
