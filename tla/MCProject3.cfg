CONSTANTS
  array_length = 4
  ARRAY_SIZE = 5
  ARRAY_SIZE_FOR_SOLO = 4
  Values = {1, 2, 3}
  NotRead = NotRead
  Box = 2
  Puzzles <- MCPuzzles
SPECIFICATION Spec
INVARIANTS AnswersRight
PROPERTIES TasksStayInRange ProgramsEnd
