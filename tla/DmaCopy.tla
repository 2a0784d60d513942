------------------------------ MODULE DmaCopy ------------------------------
(***************************************************************************)
(* The DMA driver: an ioctl fills two buffers, copies one to the other,    *)
(* with the processor or with a DMA channel that raises an interrupt at    *)
(* the end, and reports whether they are equal.                            *)
(*                                                                         *)
(* The kernel holds its one lock around an ioctl, except while it sleeps;  *)
(* a call is therefore two steps, before and after the wait.  The buffers  *)
(* are Words words; the source is never anything but the fill value.       *)
(***************************************************************************)
EXTENDS Naturals

CONSTANTS Callers, Words

ASSUME WordsAssumption == Words \in Nat \ {0}

VARIABLES
  at,        \* by process: "out" or "asleep" in an ioctl
  ev_dma,    \* the flag
  copied,    \* the words of s3c_dst that hold what s3c_src does
  left,      \* the words that the channel has still to copy
  irq,       \* its interrupt is pending
  said,      \* by process: what its last ioctl reported
  alone      \* history: the sleeping caller that began with the channel at
             \* rest and whom no other has disturbed

dma == <<at, ev_dma, copied, left, irq, said, alone>>

AllWords == 1 .. Words
Report == IF copied = AllWords THEN "OK" ELSE "ERROR"

DmaInit ==
  /\ at = [p \in Callers |-> "out"]
  /\ ev_dma = 0 /\ copied = {} /\ left = {} /\ irq = FALSE
  /\ said = [p \in Callers |-> "nothing"]
  /\ alone = {}

(* MEM_COPY_NO_DMA: all without a wait.                                    *)
CopyNoDma(p) ==
  /\ at[p] = "out"
  /\ copied' = AllWords
  /\ said' = [said EXCEPT ![p] = "OK"]
  /\ UNCHANGED <<at, ev_dma, left, irq, alone>>

(* Any other command fills the buffers, and that is all.                   *)
OtherIoctl(p) ==
  /\ at[p] = "out"
  /\ copied' = {} /\ alone' = {}
  /\ UNCHANGED <<at, ev_dma, left, irq, said>>

(* MEM_COPY_DMA as far as the wait.  What the channel does with a trigger  *)
(* while it copies is not documented: it begins again, or goes on.         *)
BugCopyDma(p) ==
  /\ at[p] = "out" /\ at' = [at EXCEPT ![p] = "asleep"]
  /\ copied' = {}
  /\ left' \in {AllWords, IF left = {} THEN AllWords ELSE left}
  /\ alone' = IF left = {} /\ ~irq /\ \A q \in Callers : at[q] = "out" THEN {p} ELSE {}
  /\ UNCHANGED <<ev_dma, irq, said>>

CopyDma(p) ==
  /\ at[p] = "out" /\ at' = [at EXCEPT ![p] = "asleep"]
  /\ ev_dma' = 0
  /\ copied' = {}
  /\ left' \in {AllWords, IF left = {} THEN AllWords ELSE left}
  /\ alone' = IF left = {} /\ ~irq /\ \A q \in Callers : at[q] = "out" THEN {p} ELSE {}
  /\ UNCHANGED <<irq, said>>

(* The wait ends, by the flag or by a signal; its result is not looked at. *)
Wake(p) ==
  /\ at[p] = "asleep" /\ at' = [at EXCEPT ![p] = "out"]
  /\ said' = [said EXCEPT ![p] = Report]
  /\ alone' = alone \ {p}
  /\ UNCHANGED <<ev_dma, copied, left, irq>>

WokenUp(p) == Wake(p) /\ ev_dma = 1
CutShort(p) == Wake(p) /\ ev_dma = 0
----------------------------------------------------------------------------
(* The channel: external.                                                  *)
MoveWord ==
  /\ \E w \in left : left' = left \ {w} /\ copied' = copied \cup {w}
  /\ irq' = (irq \/ left' = {})
  /\ UNCHANGED <<at, ev_dma, said, alone>>

(* s3c_dma_irq                                                             *)
DmaIrq ==
  /\ irq /\ irq' = FALSE
  /\ ev_dma' = 1
  /\ UNCHANGED <<at, copied, left, said, alone>>

DmaNext ==
  \/ \E p \in Callers : CopyNoDma(p) \/ OtherIoctl(p) \/ CopyDma(p) \/ WokenUp(p) \/ CutShort(p)
  \/ MoveWord \/ DmaIrq

DmaSpec == DmaInit /\ [][DmaNext]_dma
----------------------------------------------------------------------------
(* A call that begins with the channel at rest, that no other call joins   *)
(* and that no signal cuts short reports OK, whatever calls, signals and   *)
(* late ends of copies there were before.                                  *)
AloneIsOk ==
  [][\A p \in alone : WokenUp(p) => said'[p] = "OK"]_dma
============================================================================
