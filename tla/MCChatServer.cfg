CONSTANTS
  Conns = 3
  Talkers = 2
  Talks <- MCTalks
SPECIFICATION Spec
INVARIANT TypeOK OneOrder CountIsThreads UntilOneLeaves
CHECK_DEADLOCK FALSE
