CONSTANTS
  u1 = u1
  u2 = u2
  h1 = h1
  Hosts = {h1}
  Consumers = {u1}
  None = None
  Freed = Freed
  NDevices = 1
  Modes = {TRUE, FALSE}
  ClientsDie = TRUE
  MaxStarts = 2
SPECIFICATION FairSpec
CHECK_DEADLOCK FALSE
PROPERTIES
  LostProviderRetries
  
