CONSTANTS
  Messages <- MCMessages
  Requests <- MCRequests
  Addr = Addr
  Answer = "dead"
  MaxMsgs = 2
  MaxLen = 2
  MaxWalk = 4
SPECIFICATION FairSpec
PROPERTY ImplementsService Returns
