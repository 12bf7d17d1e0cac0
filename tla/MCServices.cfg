SPECIFICATION MCSpec
CONSTANTS
  Byte = {b0, b1}
  ZeroByte = b0
  TotalLen = 3
  MaxChunk = 4
  TotalNode = 5
  Degree = 4
  Cycle = 10
  Full = 6
  TurnBy = {1, 3}
  Late = FALSE
  MaxCommand = 2
  Asker = {a1, a2}
  Cmd = {c1, c2}
  SrvFaults = {}
  MaxNode = 2
  MaxAsk = 2
  DaemonFaults = {}
  MaxBeat = 2
  MaxCrash = 2
  HotFaults = {}
  MaxInsert = 2
  AUser = {u1, u2}
  RingLen = 2
  MaxAge = 2
  MaxAencUser = 2
  MaxPcm = 2
  MaxRequest = 3
  RLen = 8
  PcmLen = 2
  ReadLen <- RingReads
  MaxSample = 24
  Viewer = {v1, v2}
  Recorded <- ThreeFiles
  Wanted <- Spans
  ReplayFaults = {"badfile"}
  MaxPlay = 2
  MaxPause = 1
INVARIANTS
  PartsAreSound
  CommandIsObeyed
  NoRebootInUpdate
  SettledIsMounted
  
  SoundInOrder
  PlayedWhole
PROPERTIES
  ImplementsWindow
  NodeGivenOnce
  AskerComesBack
  AppReturns
  SoundKept
  SilentAfterStop
  ReplayEnds
CHECK_DEADLOCK FALSE
