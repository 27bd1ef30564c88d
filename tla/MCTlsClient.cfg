SPECIFICATION FairSpec
CONSTANTS
  MaxRecord = 3
  MaxPieces = 2
  RbufSize = 2
  PreSize = 2
  Packets <- MCPackets
  MaxWrites = 2
  MaxDown = 1
  ShortWrites = TRUE
INVARIANTS TypeOK HelloInOrder OnlyShortBreaks InFrame
PROPERTIES ReadsAsSent DecryptsAsSealed EverythingIsRead
CHECK_DEADLOCK FALSE
