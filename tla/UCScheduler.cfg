SPECIFICATION FairSpec
CONSTANTS
  Threads = {loop, t1, t2}
  Loop = loop
  Nodes = {a, b}
  NoNode = NoNode
  MaxPosts = 3
  Modes <- AllModes
  SendMayFail = FALSE
CHECK_DEADLOCK FALSE
INVARIANTS NoLostWakeUp
PROPERTIES KeepsThePromise EveryPostRuns
