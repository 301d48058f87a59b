CONSTANTS
  Views = {v1}
  LoadIds = {l1}
  StoreIds = {s1, s2, s3}
  Addr = {1, 2}
  Byte = {b0, b1}
  Footprints <- Nested
  MaxLen = 2
  Null = null
SPECIFICATION Spec
SYMMETRY Symmetry
VIEW Live
INVARIANT StoreListWellFormed
PROPERTY Implements
CHECK_DEADLOCK FALSE
