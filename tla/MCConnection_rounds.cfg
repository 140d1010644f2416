SPECIFICATION FairSpec
CONSTANTS
  N = 3
  Clients <- MCClients
  MaxTodo = 2
  MaxArrivals = 2
INVARIANTS
  CountsMatch
  TakeTurns
PROPERTIES
  OnlyIntended
  EndWhenDone
  EndAfterAll
  Answered
  EndComes
