SPECIFICATION PipesSpec
CONSTANTS
  Word <- MCWord
  Newline = "newline"
  Return = "return"
  MaxBuffer = 5
  Chunk = 2
  MaxWritten = 6
  Capacity = 2
  MaxInput = 3
  MaxOutput = 3
  Limit = 2
CHECK_DEADLOCK FALSE
INVARIANTS
  EventsAreLines
  ResultIsComplete
PROPERTIES
  ClientIsHeard
  CommandReturns
