--------------------------- MODULE MCI2cAdapter ---------------------------
(* Instances of I2cAdapter for TLC: messages of up to two bytes in either  *)
(* direction, transfers of up to MaxMsgs of them.                          *)
EXTENDS I2cAdapter

CONSTANTS MaxMsgs, MaxLen

MCMessages == [rd : BOOLEAN, len : 0 .. MaxLen]
MCRequests == UNION {[1 .. n -> MCMessages] : n \in 1 .. MaxMsgs}
============================================================================
