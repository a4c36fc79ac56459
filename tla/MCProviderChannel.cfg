CONSTANTS
  c1 = c1
  c2 = c2
  Callers = {c1, c2}
  Ping = Ping
  None = None
  SendBuf = 2
  MaxNesting = 2
  Kinds = {"allocate", "create", "event", "fetch", "free", "memput"}
  ProviderDies = TRUE
  ConsumersDie = TRUE
SPECIFICATION FairSpec
CHECK_DEADLOCK FALSE
INVARIANTS
  TypeOK
  OneDialogue
  MixUpsExplained
  MappedBeforeUse

  
  
