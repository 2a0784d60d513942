-------------------------- MODULE MCSpiController --------------------------
(* Instances of SpiController for TLC: transfers of every kind of up to    *)
(* MaxLen bytes, messages of up to MaxTransfers of them.                   *)
EXTENDS SpiController

CONSTANTS MaxLen, MaxTransfers

MCTransfers == {x \in [tx : BOOLEAN, rx : BOOLEAN, len : 0 .. MaxLen] :
                  x.len = 0 /\ x.rx => x.tx}
MCMessages ==
  [chip : Chips, ts : UNION {[1 .. n -> MCTransfers] : n \in 0 .. MaxTransfers}]
============================================================================
