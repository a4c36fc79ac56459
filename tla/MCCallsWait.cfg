CONSTANTS
  c1 = c1
  c2 = c2
  Consumers = {c1}
  Uses <- MCUsesWait
  Ids = {i1, i2, i3}
  Reals = {r1, r2}
  Platform = platform
  Device = device
  Available = available
  Null = null
  VendorRefuses = TRUE
  MaxRefs = 2
SPECIFICATION Spec
INVARIANTS
  AllTranslated
SYMMETRY Symmetry
CHECK_DEADLOCK FALSE
