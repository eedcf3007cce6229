SPECIFICATION FairSpec
CONSTANTS
  Values = {"a"}
  MaxIndex = 1
  ClientFrames <- MCClientFrames
  ServerFrames <- MCServerFrames
  Replacements <- MCReplacements
  Extent <- MCExtent
  MaxFrames <- MCMaxFrames
  MaxFrameLen <- MCMaxFrameLen
  MaxPackets = 2
  HeaderLen = 2
  MaxPacketLen = 3
  Legal = {"CommandComplete"}
CHECK_DEADLOCK FALSE
INVARIANTS StreamIntact NothingCrossesTheUpgrade NoticesOfTheirCommand EventsInOrder ChangedIsExact
PROPERTIES EverythingArrives
