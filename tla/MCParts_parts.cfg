SPECIFICATION MCSpec
CONSTANTS
  Width = 50
  Heights = {144, 152}
  Chars = {"a", "b"}
  BufSize = 3
  MaxHistory = 2
  ChunkMax = 2
  Prompt <- ThePrompt
  LessName <- Less
  KtopName <- Ktop
  Pasts <- ThreeLines
  Outputs <- SomeOutputs
  DocLines = 6
  MaxRows = 3
  MaxTyped = 4
  MaxNoise = 1
  PageWords = 8
  ArenaSize = 16
  MaxArenas = 2
  HeapVaBase = 8
  HeapVaEnd = 64
  UserRequests <- SomeRequests
  Ps2Keys = {"a", "left", "lshift"}
  MaxStrokes = 2
  MaxPackets = 2
  MaxLoads = 1
  QueueCap = 2
  DrainMax = 3
  ArgChars = {"x"}
  MaxLine = 7
  ArgBuf = 10
  BinPrefix <- ShortPrefix
  BinSuffix <- ShortSuffix
  StackTop = 256
  StackSize = 128
  Scenario <- Steps
  FailOn = {"panic"}
  Liveness = {"beat", "NoPattern"}
  NoPattern = "NoPattern"
  LogLines = {"prompt", "beat", "panic"}
  IdleTimeout = 2
  ExpectTimeout = 2
  BootTimeout = 1
  AfterWait = 1
  MaxLog = 2
  MaxTime = 3
  MaxPid = 2
  MaxFd = 4
  MaxPipes = 1
  MaxBytes = 2
  MaxCount = 2
  Calls <- AllCalls
  HeapCpus = {c1, c2}
  HeapStart = 8
  HeapSize = 41
  Classes = {8, 16}
  CacheCap = 1
  HeapRequests <- FourLayouts
  Threads = {t1, t2}
  Levels = 3
  Radix = 2
  MaxTables = 5
  Frames = {1, 2}
  FirstPage = 2
  PageEnd = 5
  Sizes = {1, 2}
INVARIANTS
  FilesInv
  NoReaderStranded
  StreamIntact
  HeapInv
  PageTablesInv
  UserHeapInv
  SessionInv
  LineShown
  FrameShownWhereItFits
  ArgsArrive
  Ps2Inv
  PipelineInv
PROPERTY ReturnsItsCount
CHECK_DEADLOCK FALSE
