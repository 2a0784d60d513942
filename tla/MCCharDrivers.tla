--------------------------- MODULE MCCharDrivers ---------------------------
(* The character drivers whose calls sleep until an interrupt sets a flag, *)
(* and secbulk; one of them is loaded.                                     *)
EXTENDS KeyTimer, DmaCopy, Secbulk

VARIABLE loaded

driversVars == <<tvars, dma, secbulk, loaded>>

DriversInit ==
  /\ loaded \in {"keys", "dma", "secbulk"}
  /\ TimerInit /\ DmaInit /\ SecbulkInit
  /\ loaded # "keys" => ~debounced /\ level = [k \in Keys |-> 1]

DriversNext ==
  \/ loaded = "keys" /\ TimerNext /\ UNCHANGED <<dma, secbulk, loaded>>
  \/ loaded = "dma" /\ DmaNext /\ UNCHANGED <<tvars, secbulk, loaded>>
  \/ loaded = "secbulk" /\ SecbulkNext /\ UNCHANGED <<tvars, dma, loaded>>

DriversSpec == DriversInit /\ [][DriversNext]_driversVars /\ TimerFairness
============================================================================
