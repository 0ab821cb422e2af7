SPECIFICATION FairSpec
CONSTANTS
  MaxSent = 3
  MaxBreaks = 2
INVARIANTS TypeOK
PROPERTIES ChannelSpec NewestKept Delivered
CHECK_DEADLOCK FALSE
