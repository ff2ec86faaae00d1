SPECIFICATION PlatformSpec
CONSTANTS
  Parts = {"loop", "heap", "timer", "nvm"}
  Threads = {loop, app}
  Loop = loop
  Cancellers = {loop}
  Handlers = {h1}
  Ids = {1}
  Priorities = {0, 2}
  PoolEvents = {e1}
  HeapEvents = {e2}
  UserEvents = {u1}
  PoolTimers = {}
  HeapTimers = {}
  NoEvent = null
  TickMod = 6
  TickPeriod = 10
  LegacyTimes = {20, 30}
  TickSteps = {1, 2}
  MaxLag = 2
  ResendFromHandler = FALSE
  HOLE_T_SIZE = 2
  WordSize = 4
  BookSize = 8
  MaxWords = 14
  Requests = {0, 1, 8, 9, 60}
  Buffers <- mBuffers
  TimerIds = {0, 1, 2}
  Slots = {1, 2}
  SlotMod = 3
  TimerCareless = {}
  NvmRequests = {"a", "b", "c"}
  NvmOps = {"read", "write", "delete"}
  NvmCareless = {}
CHECK_DEADLOCK FALSE
INVARIANTS WellFormed NeverCorrupted OnTime AnswersAreTrue
PROPERTIES HighPriorityIsServed HeapKeepsThePromise NvmAnswers
