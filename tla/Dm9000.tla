------------------------------- MODULE Dm9000 -------------------------------
(***************************************************************************)
(* The DM9000 network driver while its interface is up.  Three levels of   *)
(* code run on the one core: system calls; the softirq level, which sends  *)
(* packets, looks after time-outs and has a timer; and the interrupt       *)
(* handler.  The upper ones take turns with the lower ones at any          *)
(* instruction, except where the lock is taken with interrupts off, which  *)
(* is one action here.                                                     *)
(*                                                                         *)
(* The chip's registers are behind two ports: the number of a register is  *)
(* written to the first and the register is accessed through the second.   *)
(* Its interrupt line rises when an event is recorded in ISR and enabled   *)
(* in IMR and none was before; the core sees edges only.                   *)
(***************************************************************************)
EXTENDS Integers

CONSTANTS CONT_RX_PKT_CNT,  \* packets received in a row that mask "rx"
          MaxFifo           \* packets that wait in the chip, at most

ASSUME Dm9000Assumption == CONT_RX_PKT_CNT \in Nat \ {0} /\ MaxFifo \in Nat

VARIABLES
  step, reg, seen, \* the softirq level: where it is, the access that comes
                   \* next, and the count that dmfe_start_xmit has loaded
  handling,        \* where the interrupt handler is; "out": not in it
  int_status,      \* what it has read from ISR and has still to look at
  reg_save,        \* its reg_save
  tx_pkt_cnt, cont_rx_pkt_cnt, Speed,
  stopped,         \* the queue of the network layer is stopped
  addr,            \* the register selected, if some code is to access it
  imr, isr,        \* events enabled, events recorded
  pending,         \* the core has seen an edge
  sending,         \* packets given to the chip that are not yet sent
  nsr,             \* NSR: how many of its bits for packets sent are set
  fifo,            \* packets received that wait in the chip
  ethtool,         \* a dmfe_get_link has "selected" a register, or "out"
  astray,          \* it has accessed another one
  leftover,        \* history: the handler has left packets in the chip
  slowed           \* history: the link became slow with packets counted, and
                   \* the count has not been 0 since

softirq == <<step, reg, seen>>
handler == <<handling, int_status, reg_save>>
counts == <<tx_pkt_cnt, cont_rx_pkt_cnt>>
events == <<imr, isr, pending>>
txside == <<sending, nsr>>
tool == <<ethtool, astray>>
dmfe == <<softirq, handler, counts, Speed, stopped, addr, events, txside, fifo, tool, leftover, slowed>>

AllEvents == {"rx", "tx", "link"}     \* DM9KS_REGFF
Speeds == {10, 100}

(* A chip of revision 1A holds two packets as others do at 100 Mb/s.       *)
Limit == IF Speed = 100 THEN 2 ELSE 1

(* The register that each access of the softirq level selects.             *)
RegOf == [mask |-> "IMR", packet |-> "MWCMD", start |-> "TCR", unmask |-> "IMR",
          poll |-> "TCR", reset |-> "NCR", enable |-> "IMR", phy |-> "EPCR"]

DmfeInit ==
  /\ step = "idle" /\ reg = "none" /\ seen = 0
  /\ handling = "out" /\ int_status = {} /\ reg_save = "none"
  /\ tx_pkt_cnt = 0 /\ cont_rx_pkt_cnt = 0 /\ Speed \in Speeds /\ stopped = FALSE
  /\ addr = "none" /\ imr = AllEvents /\ isr = {} /\ pending = FALSE
  /\ sending = 0 /\ nsr = 0 /\ fifo = 0
  /\ ethtool = "out" /\ astray = FALSE /\ leftover = FALSE /\ slowed = FALSE
----------------------------------------------------------------------------
(* The chip: external.  Its line rises from low to high at an edge.        *)
High(enabled, recorded) == enabled \cap recorded # {}
Registers(enabled, recorded) ==
  /\ imr' = enabled /\ isr' = recorded
  /\ pending' = (pending \/ (~High(imr, isr) /\ High(enabled, recorded)))

PacketSent ==
  /\ sending > 0 /\ sending' = sending - 1
  /\ nsr' = IF nsr = 2 THEN 2 ELSE nsr + 1
  /\ Registers(imr, isr \cup {"tx"})
  /\ UNCHANGED <<softirq, handler, counts, Speed, stopped, addr, fifo, tool, leftover>>

PacketArrives ==
  /\ fifo < MaxFifo /\ fifo' = fifo + 1
  /\ Registers(imr, isr \cup {"rx"})
  /\ UNCHANGED <<softirq, handler, counts, Speed, stopped, addr, txside, tool, leftover>>

LinkChanges ==
  /\ Registers(imr, isr \cup {"link"})
  /\ UNCHANGED <<softirq, handler, counts, Speed, stopped, addr, txside, fifo, tool, leftover>>

(* A reset of the chip loses what it has to send and what it has received. *)
ChipReset == sending' = 0 /\ nsr' = 0 /\ fifo' = 0 /\ leftover' = FALSE
----------------------------------------------------------------------------
(* The softirq level.  An access is the first port, then the second.       *)
InSoftirq(s) == handling = "out" /\ step = s
Goes(s) == step' = s /\ reg' = "none"
Begins(r) == step' = "select" /\ reg' = r
InAccess(r) == InSoftirq("access") /\ reg = r /\ addr' = "none"

SelectReg ==
  /\ InSoftirq("select") /\ step' = "access" /\ addr' = RegOf[reg]
  /\ UNCHANGED <<reg, seen, handler, counts, Speed, stopped, events, txside, fifo, tool, leftover>>

(* dmfe_start_xmit: one packet, unless the chip has as many as it holds.   *)
StartXmit ==
  /\ InSoftirq("idle") /\ ~stopped /\ tx_pkt_cnt < Limit
  /\ Goes("count") /\ seen' = tx_pkt_cnt
  /\ UNCHANGED <<handler, counts, Speed, stopped, addr, events, txside, fifo, tool, leftover>>

CountPacket ==
  /\ InSoftirq("count") /\ Goes("check")
  /\ tx_pkt_cnt' = seen + 1
  /\ UNCHANGED <<seen, handler, cont_rx_pkt_cnt, Speed, stopped, addr, events, txside, fifo,
                 tool, leftover>>

(* The compiler may load the count again for this, or not.                 *)
CheckFull ==
  /\ InSoftirq("check") /\ seen' = 0
  /\ \E count \in {seen + 1, tx_pkt_cnt} :
       IF count >= Limit THEN Goes("stop") ELSE Begins("mask")
  /\ UNCHANGED <<handler, counts, Speed, stopped, addr, events, txside, fifo, tool, leftover>>

StopQueue ==
  /\ InSoftirq("stop") /\ Begins("mask") /\ stopped' = TRUE
  /\ UNCHANGED <<seen, handler, counts, Speed, addr, events, txside, fifo, tool, leftover>>

Mask ==
  /\ InAccess("mask") /\ Begins("packet") /\ Registers({}, isr)
  /\ UNCHANGED <<seen, handler, counts, Speed, stopped, txside, fifo, tool, leftover>>

(* Its length and its bytes.                                               *)
MovePacket ==
  /\ InAccess("packet") /\ Begins("start")
  /\ UNCHANGED <<seen, handler, counts, Speed, stopped, events, txside, fifo, tool, leftover>>

(* A third packet takes the place of one of the two.                       *)
StartSending ==
  /\ InAccess("start") /\ Goes("started")
  /\ sending' = IF sending = 2 THEN 2 ELSE sending + 1
  /\ UNCHANGED <<seen, handler, counts, Speed, stopped, events, nsr, fifo, tool, leftover>>

Started ==
  /\ InSoftirq("started") /\ Begins("unmask") /\ cont_rx_pkt_cnt' = 0
  /\ UNCHANGED <<seen, handler, tx_pkt_cnt, Speed, stopped, addr, events, txside, fifo, tool,
                 leftover>>

Unmask ==
  /\ InAccess("unmask") /\ Goes("idle") /\ Registers(AllEvents, isr)
  /\ UNCHANGED <<seen, handler, counts, Speed, stopped, txside, fifo, tool, leftover>>
----------------------------------------------------------------------------
(* dmfe_timer                                                              *)
Timer ==
  /\ InSoftirq("idle") /\ cont_rx_pkt_cnt >= CONT_RX_PKT_CNT
  /\ cont_rx_pkt_cnt' = 0 /\ Begins("unmask")
  /\ UNCHANGED <<seen, handler, tx_pkt_cnt, Speed, stopped, addr, events, txside, fifo, tool,
                 leftover>>

(* dmfe_timeout: the network layer finds the queue stopped for long.       *)
Timeout ==
  /\ InSoftirq("idle") /\ stopped /\ Begins("poll")
  /\ UNCHANGED <<seen, handler, counts, Speed, stopped, addr, events, txside, fifo, tool,
                 leftover>>

Poll ==
  /\ InAccess("poll")
  /\ \/ sending > 0 /\ Begins("poll")
     \/ sending = 0 /\ Goes("clear")
     \/ Goes("reset")                    \* the hundredth time
  /\ UNCHANGED <<seen, handler, counts, Speed, stopped, events, txside, fifo, tool, leftover>>

ClearCount ==
  /\ InSoftirq("clear") /\ Goes("wake") /\ tx_pkt_cnt' = 0
  /\ UNCHANGED <<seen, handler, cont_rx_pkt_cnt, Speed, stopped, addr, events, txside, fifo, tool,
                 leftover>>

WakeQueue ==
  /\ InSoftirq("wake") /\ Goes("idle") /\ stopped' = FALSE
  /\ UNCHANGED <<seen, handler, counts, Speed, addr, events, txside, fifo, tool, leftover>>

(* dmfe_reset with dmfe_init_dm9000                                        *)
Reset ==
  /\ InSoftirq("reset") /\ Begins("reset") /\ stopped' = TRUE
  /\ UNCHANGED <<seen, handler, counts, Speed, addr, events, txside, fifo, tool, leftover>>

SoftwareReset ==
  /\ InAccess("reset") /\ Begins("enable") /\ ChipReset /\ Registers({}, {})
  /\ UNCHANGED <<seen, handler, counts, Speed, stopped, tool>>

Enable ==
  /\ InAccess("enable") /\ Goes("enabled") /\ Registers(AllEvents, isr)
  /\ UNCHANGED <<seen, handler, counts, Speed, stopped, txside, fifo, tool, leftover>>

Enabled ==
  /\ InSoftirq("enabled") /\ Begins("phy") /\ tx_pkt_cnt' = 0
  /\ UNCHANGED <<seen, handler, cont_rx_pkt_cnt, Speed, stopped, addr, events, txside, fifo, tool,
                 leftover>>

ReadSpeed ==
  /\ InAccess("phy") /\ Goes("wake") /\ Speed' \in Speeds
  /\ UNCHANGED <<seen, handler, counts, stopped, events, txside, fifo, tool, leftover>>
----------------------------------------------------------------------------
(* System calls: the ones that take the lock, and dmfe_get_link, which     *)
(* does not; when it has done something to another register than its own,  *)
(* only the chip is followed.                                              *)
LockedCall ==
  /\ InSoftirq("idle") /\ addr' = "none"
  /\ UNCHANGED <<softirq, handler, counts, Speed, stopped, events, txside, fifo, tool, leftover>>

GetLink ==
  /\ InSoftirq("idle") /\ ethtool = "out" /\ ethtool' = "selected" /\ addr' = "phy"
  /\ UNCHANGED <<softirq, handler, counts, Speed, stopped, events, txside, fifo, astray, leftover>>

GetLinkAccess ==
  /\ InSoftirq("idle") /\ ethtool = "selected" /\ ethtool' = "out"
  /\ astray' = (addr # "phy") /\ addr' = "none"
  /\ UNCHANGED <<softirq, handler, counts, Speed, stopped, events, txside, fifo, leftover>>
----------------------------------------------------------------------------
(* dmfe_interrupt.  What it does after the events of done.                 *)
Handles(done) ==
  /\ int_status' = int_status \ done
  /\ handling' = IF "rx" \in int_status' THEN "receive"
                 ELSE IF "tx" \in int_status' THEN "tx_done" ELSE "leave"

BugEnter ==
  /\ pending /\ handling = "out" /\ handling' = "clear"
  /\ reg_save' = addr /\ addr' = "none"
  /\ int_status' = isr /\ pending' = FALSE
  /\ UNCHANGED <<softirq, counts, Speed, stopped, imr, isr, txside, fifo, tool, leftover>>

Enter ==
  /\ pending /\ handling = "out" /\ handling' = "clear"
  /\ reg_save' = addr /\ addr' = "none"
  /\ imr' = {} /\ int_status' = isr /\ pending' = FALSE
  /\ UNCHANGED <<softirq, counts, Speed, stopped, isr, txside, fifo, tool, leftover>>

BugClearIsr ==
  /\ handling = "clear" /\ Handles({"link"})
  /\ Registers(imr, {})
  /\ IF "link" \in int_status THEN stopped' = FALSE /\ Speed' \in Speeds
     ELSE UNCHANGED <<stopped, Speed>>
  /\ cont_rx_pkt_cnt' = IF "rx" \in int_status THEN 0 ELSE cont_rx_pkt_cnt
  /\ UNCHANGED <<softirq, reg_save, tx_pkt_cnt, addr, txside, fifo, tool, leftover>>

(* And if the link has changed, the queue is stopped and woken.            *)
ClearIsr ==
  /\ handling = "clear" /\ Handles({"link"})
  /\ Registers(imr, isr \ int_status)
  /\ IF "link" \in int_status THEN stopped' = FALSE /\ Speed' \in Speeds
     ELSE UNCHANGED <<stopped, Speed>>
  /\ cont_rx_pkt_cnt' = IF "rx" \in int_status THEN 0 ELSE cont_rx_pkt_cnt
  /\ UNCHANGED <<softirq, reg_save, tx_pkt_cnt, addr, txside, fifo, tool, leftover>>

BugLeave ==
  /\ handling = "leave" /\ handling' = "out"
  /\ Registers(AllEvents \ (IF cont_rx_pkt_cnt >= CONT_RX_PKT_CNT THEN {"rx"} ELSE {}), isr)
  /\ reg_save' = "none" /\ int_status' = {}
  /\ UNCHANGED <<softirq, counts, Speed, stopped, addr, txside, fifo, tool, leftover>>

Leave ==
  /\ handling = "leave" /\ handling' = "out"
  /\ Registers(AllEvents \ (IF cont_rx_pkt_cnt >= CONT_RX_PKT_CNT THEN {"rx"} ELSE {}), isr)
  /\ addr' = reg_save /\ reg_save' = "none" /\ int_status' = {}
  /\ UNCHANGED <<softirq, counts, Speed, stopped, txside, fifo, tool, leftover>>
----------------------------------------------------------------------------
(* dmfe_packet_receive: to the last packet, unless one of these comes.     *)
NoPacket ==
  /\ handling = "receive" /\ fifo = 0 /\ Handles({"rx"}) /\ leftover' = FALSE
  /\ UNCHANGED <<softirq, reg_save, counts, Speed, stopped, addr, events, txside, fifo, tool>>

BadPacket ==
  /\ handling = "receive" /\ fifo > 0 /\ fifo' = fifo - 1
  /\ UNCHANGED <<softirq, handler, counts, Speed, stopped, addr, events, txside, tool, leftover>>

NoSkb ==
  /\ handling = "receive" /\ fifo > 0 /\ Handles({"rx"}) /\ leftover' = TRUE
  /\ UNCHANGED <<softirq, reg_save, counts, Speed, stopped, addr, events, txside, fifo, tool>>

GoodPacket ==
  /\ handling = "receive" /\ fifo > 0 /\ fifo' = fifo - 1
  /\ cont_rx_pkt_cnt' = cont_rx_pkt_cnt + 1
  /\ IF cont_rx_pkt_cnt' >= CONT_RX_PKT_CNT
     THEN handling' = "flooded" /\ leftover' = (fifo' > 0)
     ELSE UNCHANGED <<handling, leftover>>
  /\ UNCHANGED <<softirq, int_status, reg_save, tx_pkt_cnt, Speed, stopped, addr, events, txside,
                 tool>>

(* The chip does not say how the next packet begins: dmfe_reset, here in   *)
(* the handler.                                                            *)
RxByteError ==
  /\ handling = "receive" /\ Handles({"rx"})
  /\ ChipReset /\ Registers(AllEvents, {})
  /\ tx_pkt_cnt' = 0 /\ Speed' \in Speeds /\ stopped' = FALSE
  /\ UNCHANGED <<softirq, reg_save, cont_rx_pkt_cnt, addr, tool>>
----------------------------------------------------------------------------
(* dmfe_tx_done, called for "tx" or by dmfe_packet_receive.  When NSR does *)
(* not fit the count, it waits until all is sent.                          *)
Called == IF handling \in {"flooded", "flooded_wait"} THEN {"rx"} ELSE {"rx", "tx"}

BugTxDone ==
  /\ handling \in {"flooded", "tx_done"}
  /\ nsr # 0 /\ tx_pkt_cnt >= nsr
  /\ tx_pkt_cnt' = tx_pkt_cnt - nsr /\ nsr' = 0
  /\ Handles(Called)
  /\ UNCHANGED <<softirq, reg_save, cont_rx_pkt_cnt, Speed, stopped, addr, events, sending, fifo,
                 tool, leftover>>

TxDone ==
  /\ handling \in {"flooded", "tx_done"}
  /\ nsr # 0 /\ tx_pkt_cnt >= nsr
  /\ tx_pkt_cnt' = tx_pkt_cnt - nsr /\ nsr' = 0
  /\ stopped' = FALSE /\ Handles(Called)
  /\ UNCHANGED <<softirq, reg_save, cont_rx_pkt_cnt, Speed, addr, events, sending, fifo, tool,
                 leftover>>

TxMiscounted ==
  /\ handling \in {"flooded", "tx_done"}
  /\ nsr = 0 \/ tx_pkt_cnt < nsr
  /\ nsr' = 0
  /\ handling' = IF handling = "flooded" THEN "flooded_wait" ELSE "tx_wait"
  /\ UNCHANGED <<softirq, int_status, reg_save, counts, Speed, stopped, addr, events, sending,
                 fifo, tool, leftover>>

TxWaited ==
  /\ handling \in {"flooded_wait", "tx_wait"} /\ sending = 0
  /\ tx_pkt_cnt' = 0 /\ stopped' = FALSE /\ Handles(Called)
  /\ UNCHANGED <<softirq, reg_save, cont_rx_pkt_cnt, Speed, addr, events, txside, fifo, tool,
                 leftover>>
----------------------------------------------------------------------------
Chip == PacketSent \/ PacketArrives \/ LinkChanges
Xmit == \/ StartXmit \/ CountPacket \/ CheckFull \/ StopQueue
        \/ Mask \/ MovePacket \/ StartSending \/ Started \/ Unmask
Timers == \/ Timer \/ Timeout \/ Poll \/ ClearCount \/ WakeQueue
          \/ Reset \/ SoftwareReset \/ Enable \/ Enabled \/ ReadSpeed
SystemCall == LockedCall \/ GetLink \/ GetLinkAccess
Interrupt == \/ Enter \/ ClearIsr \/ Leave
             \/ NoPacket \/ BadPacket \/ NoSkb \/ GoodPacket \/ RxByteError
             \/ TxDone \/ TxMiscounted \/ TxWaited

(* History: at 100 Mb/s the count may have been left one too high.         *)
Slows == slowed' = /\ Speed' = 10 /\ (Speed = 100 \/ slowed)
                   /\ tx_pkt_cnt' > 0 \/ (step' = "count" /\ seen' > 0)

DmfeNext == /\ Chip \/ (~astray /\ (SelectReg \/ Xmit \/ Timers \/ SystemCall \/ Interrupt))
            /\ Slows

DmfeSpec == DmfeInit /\ [][DmfeNext]_dmfe
----------------------------------------------------------------------------
Quiet == handling = "out" /\ step = "idle" /\ ~astray

(* Whatever interrupts the softirq level between the two ports, it         *)
(* accesses the register that it has selected.                             *)
RightRegister == InSoftirq("access") => addr = RegOf[reg]

(* No interrupt is lost.  Whatever masked the events and in whatever order *)
(* the masks were set, an event that is enabled has an edge that the core  *)
(* has seen; and at rest all are enabled, unless "rx" is masked by a       *)
(* flood, and then the timer is going to enable it.                        *)
InterruptComes ==
  /\ handling = "out" /\ High(imr, isr) => pending
  /\ Quiet => /\ {"tx", "link"} \subseteq imr
              /\ "rx" \in imr \/ cont_rx_pkt_cnt >= CONT_RX_PKT_CNT

(* When the driver takes no more packets, because it has stopped the queue *)
(* or counts as many as the chip holds, a packet is being sent or its      *)
(* event is still to be handled: the sending of packets goes on by itself, *)
(* although the count is not exact.  A count that was left one too high at *)
(* 100 Mb/s is no hindrance there, but it is once the link has become      *)
(* slow: then dmfe_start_xmit may refuse every packet with nothing to come.*)
TxGoesOn ==
  Quiet /\ (stopped \/ tx_pkt_cnt >= IF slowed THEN 2 ELSE Limit)
    => sending > 0 \/ "tx" \in isr

(* A packet that waits in the chip has an event that makes the handler     *)
(* fetch it, unless the handler has seen it and left it there.             *)
RxComes == handling = "out" /\ ~astray /\ fifo > 0 /\ ~leftover => "rx" \in isr
============================================================================
