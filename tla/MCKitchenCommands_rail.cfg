SPECIFICATION CommandsSpec
CONSTANTS
  o1 = o1
  o2 = o2
  i1 = i1
  i2 = i2
  Orders = {o1, o2}
  Instances = {i1, i2}
  Attempts = 2
  Scenarios <- MCScenarios
  MaxCommands = 2
  MaxCalls = 2
  NONE = NONE
INVARIANTS
  UnansweredIsKept
PROPERTIES
  RailNeverMovesBack
  HeardIsShown
  TicketIsUsable
CHECK_DEADLOCK FALSE
