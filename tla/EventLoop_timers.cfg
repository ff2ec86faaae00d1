SPECIFICATION Spec
CONSTANTS
  Threads = {loop, app}
  Loop = loop
  Cancellers = {loop}
  Handlers = {h1}
  Ids = {1}
  Priorities = {2}
  PoolEvents = {e1}
  HeapEvents = {}
  UserEvents = {}
  PoolTimers = {t1}
  HeapTimers = {t2}
  NoEvent = null
  TickMod = 6
  TickPeriod = 10
  LegacyTimes = {20}
  TickSteps = {1, 2}
  MaxLag = 2
  ResendFromHandler = FALSE
INVARIANTS OneOwner StateTellsPlace TimersInOrder NoTimerForgotten
PROPERTIES NoOvertaking NeverEarly
