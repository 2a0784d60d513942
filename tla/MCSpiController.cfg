CONSTANTS
  Chips = {flash, oled}
  Transfers <- MCTransfers
  Messages <- MCMessages
  Dummy = Dummy
  None = None
  MaxLen = 3
  MaxTransfers = 2
SPECIFICATION FairSpec
INVARIANT IrqFindsItsTransfer FrameIsMessage
PROPERTY Completes
