SPECIFICATION FairSpec
CONSTANTS
  None = None p1 = p1 p2 = p2
  aPut = aPut aPut2 = aPut2 aPut3 = aPut3 pPut = pPut pPut2 = pPut2 pNon = pNon pPing = pPing
  aBig = aBig aEven = aEven aGet = aGet aNote = aNote pBig = pBig pGet = pGet
  Messages = {aPut, aPut2, aPut3, pPut, pPut2, pNon, pPing, aBig, aEven, aGet, aNote, pBig, pGet}
  Sender <- mSender Receiver <- mReceiver Kind <- mKind Length <- mLength
  Peers = {p1, p2}
  BlockSize = 1 QueueSize = 2 ResendCount = 1 Interval = 1 Keep = 2 MaxId = 6 StartIds = {6} MaxPeerId = 3 MaxPayloads = 3
  MayGiveUp = TRUE MayClear = TRUE
  Scenarios <- mScenarios
CHECK_DEADLOCK FALSE
INVARIANTS ResendsAreCounted PayloadsAreWhole
PROPERTIES EverySendEnds
