CONSTANTS
  Channel = {"messages", "tool_calls", "values"}
  QueueSize = 2
  MaxItems = 4
SPECIFICATION FairSpec
CHECK_DEADLOCK FALSE
INVARIANTS
  TypeOK
  NothingLost
  SentinelsAccounted
  BoundedReadAhead
PROPERTIES
  FeedSpec
  TurnFinishes
  RelaysSettle
