CONSTANTS
  Messages <- MCMessages
  Requests <- MCRequests
  Addr = Addr
  Answer = "late"
  MaxMsgs = 2
  MaxLen = 2
  MaxWalk = 4
SPECIFICATION Spec
INVARIANT InBounds InOrder DoneIsWhole LastByteNak
PROPERTY NoUseAfterReturn
