SPECIFICATION TradeSpec
CONSTANTS
  Thread = {"main", "engine"}
  LOG_QUEUE_SIZE = 2
  MessageLength = 1
  MaxPending = 3
  MaxBacklog = 1
  MaxSends = 1
INVARIANTS
  StopHandlesWhatCame
  PositionsComplete
  FileIsLog
PROPERTY ProgramEnds
