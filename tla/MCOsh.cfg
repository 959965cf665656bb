CONSTANTS
  Sessions <- MCSessions
  MAX_LINE = 7
  NULL = NULL
  Output <- MCOutput
  Filters = {"sort", "less", "cat"}
  CannotRead = {"missing"}
  CannotWrite = {"dir"}
  MaxFd = 5
  MaxProcs = 4
  PIPE_SIZE = 2
  HZ = 2
  Wrap = 4
  MaxClock = 2
  Boots = {0, 3}
  Numeral <- MCNumeral
  Existing = {1}
SPECIFICATION Spec
INVARIANTS PromptIsClean RunsWhatIsTyped PipelineDelivers QuietMeansClear 
PROPERTIES PromptReturns
CHECK_DEADLOCK FALSE
