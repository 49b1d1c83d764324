CONSTANTS
  Tool <- MCTool
  File <- MCFile
  Document <- MCDocument
  MaxAttempts = 2
  MaxToolAttempts = 3
  MaxAsked = 2
  MaxRounds = 2
SPECIFICATION Spec
INVARIANT CallerInPrompt
CHECK_DEADLOCK FALSE
