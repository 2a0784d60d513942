CONSTANTS
  c1 = c1
  c2 = c2
  Conns <- MCConns
  MaxSent <- MCMaxSent
  Writer = writer
  Buf = 2
  Room = 1
  Quota = 1
  PipeRoom = 2
SPECIFICATION FairSpec
INVARIANT TypeOK ZombiesAreMerged StoredIsEchoed
PROPERTY ImplementsService WorksAlone EndsForAll
CHECK_DEADLOCK FALSE
