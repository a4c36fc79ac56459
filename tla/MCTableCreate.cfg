CONSTANTS
  c1 = c1
  c2 = c2
  p1 = p1
  i1 = i1
  i2 = i2
  i3 = i3
  i4 = i4
  Consumers = {c1, c2}
  Providers = {p1}
  Ids = {i1, i2, i3, i4}
  None = None
  MaxRefs = 2
  ProvidersLeave = FALSE
  ConsumersLeave = FALSE
SYMMETRY Symmetry
SPECIFICATION Spec
CHECK_DEADLOCK FALSE
INVARIANTS
  CreateNeverAsserts
