SPECIFICATION FairSpec
CONSTANTS
  Protocols = {"HCP1", "HCP2"}
  FrameKinds <- PollsAndBroadcasts
  MinFrame = 2
  FullThreshold = 3
  BufferSize <- Buffers
  QueueLength = 2
  Tags = 3
  MaxFaults = 4
INVARIANTS
  TypeOK
  NothingLeftBehind
  FramesStayApart
PROPERTIES
  KeepsListening
