CONSTANT Server = {s1, s2}
SPECIFICATION FairToolkitSpec
CHECK_DEADLOCK FALSE
INVARIANTS
  ToolkitTypeOK
  ReadyResolved
  NoStrayWorker
  NoSessionOutlivesToolkit
PROPERTY ToolkitSettles
