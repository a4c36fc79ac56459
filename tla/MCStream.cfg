CONSTANTS
  None = None
  Kinds = {"memput", "fetch"}
  Lens = {0, 1, 4, 5, 7}
  RawMax = 4
  BlkSz = 5
  Piece = 3
  Room = 1
  EventSize = 2
  Window = 2
  MaxStreams = 2
  Dies = {"sender", "agent", "receiver"}
SPECIFICATION FairSpec
CHECK_DEADLOCK FALSE
INVARIANTS
  TypeOK
  FailsOnlyByLoss
  CompleteMeansSent
PROPERTIES
  IsTransfer
  StreamsEnd
