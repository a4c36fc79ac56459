CONSTANTS
  t1 = t1
  t2 = t2
  Threads = {t1, t2}
  None = None
  Null = Null
  Freed = Freed
  Keys = {1, 2, 3, 4, 5, 6, 7}
SYMMETRY Symmetry
SPECIFICATION Spec
CHECK_DEADLOCK FALSE
INVARIANTS
  ItemsLive
