--------------------------- MODULE SpiController ---------------------------
(***************************************************************************)
(* The S3C2440 SPI controller driver: s3c2440_spi_transfer, which runs in  *)
(* the calling process, feeds the first byte of each spi_transfer of a     *)
(* message and sleeps, and the interrupt handler, which feeds the others.  *)
(* They share cur_t, cur_cnt and the completion done without a lock.  The  *)
(* kernel's spi_sync holds a mutex while the driver runs, so there is one  *)
(* message at a time; chips have a select line each.                       *)
(*                                                                         *)
(* A transfer is [tx, rx, len]: whether it has each buffer, and how long.  *)
(* Byte i of transfer k that is sent is <<k, i>>; a transfer without a     *)
(* tx_buf sends Dummy (0xff).  The byte that a chip sends is named by its  *)
(* place in the frame, which is all the chip sees while it is selected.    *)
(***************************************************************************)
EXTENDS Naturals, Sequences, FiniteSets

CONSTANTS Chips,      \* the devices on the bus
          Transfers,  \* the spi_transfers of the bus's users: [tx, rx, len]
          Messages,   \* their messages: [chip : Chips, ts : Seq(Transfers)]
          Dummy,      \* the byte 0xff that is sent in order to receive
          None        \* no byte is being shifted

(* A transfer may be empty, as that of a write of no bytes to the OLED is, *)
(* but not one that is there to receive: only the flash driver receives,   *)
(* and the MTD layer ends an empty read before it gets to the driver.      *)
ASSUME TransfersAssumption ==
  /\ Transfers \subseteq [tx : BOOLEAN, rx : BOOLEAN, len : Nat]
  /\ \A x \in Transfers : x.len = 0 /\ x.rx => x.tx
ASSUME MessagesAssumption == Messages \subseteq [chip : Chips, ts : Seq(Transfers)]
ASSUME ByteAssumption == Dummy \notin Nat \X Nat /\ None \notin (Nat \X Nat) \cup {Dummy}

VARIABLES
  pc,        \* where the process is in s3c2440_spi_transfer; "out": not in it
  mesg, t,   \* its message, and how many transfers it has taken from the list
  cur_t, cur_cnt, done,  \* s3c_spi_info; cur_t 0 is NULL
  cs,        \* the chips whose select line is low
  tdat,      \* the byte being shifted out
  rdat,      \* SPRDAT: the byte that was shifted in
  irq,       \* the interrupt is pending
  frame,     \* history: what was shifted out since the chip was selected
  stored     \* history: <<k, i, v>>, byte v put at place i of rx_buf k

process == <<pc, mesg, t>>
info == <<cur_t, cur_cnt, done>>
wires == <<cs, tdat, rdat, irq>>
vars == <<process, info, wires, frame, stored>>

Init ==
  /\ pc = "out" /\ mesg \in Messages /\ t = 0
  /\ cur_t = 0 /\ cur_cnt = 0 /\ done = 0
  /\ cs = {} /\ tdat = None /\ rdat = 0 /\ irq = FALSE
  /\ frame = <<>> /\ stored = {}
----------------------------------------------------------------------------
(* s3c2440_spi_transfer: select the chip, set the controller up.           *)
Select(m) ==
  /\ pc = "out" /\ pc' = "next"
  /\ mesg' = m /\ t' = 0
  /\ cs' = cs \cup {m.chip}
  /\ frame' = <<>> /\ stored' = {}
  /\ UNCHANGED <<info, tdat, rdat, irq>>

(* The next transfer of the list becomes the handler's.                    *)
BugTake ==
  /\ pc = "next" /\ t < Len(mesg.ts)
  /\ t' = t + 1
  /\ cur_t' = t + 1 /\ done' = 0
  /\ LET x == mesg.ts[t + 1] IN pc' = IF x.tx \/ x.rx THEN "kick" ELSE "next"
  /\ UNCHANGED <<mesg, cur_cnt, wires, frame, stored>>

Take ==
  /\ pc = "next" /\ t < Len(mesg.ts)
  /\ t' = t + 1
  /\ cur_t' = t + 1 /\ cur_cnt' = 0 /\ done' = 0
  /\ LET x == mesg.ts[t + 1] IN pc' = IF x.tx \/ x.rx THEN "kick" ELSE "next"
  /\ UNCHANGED <<mesg, wires, frame, stored>>

(* The first byte, which starts the interrupts; then wait_for_completion.  *)
Kick ==
  /\ pc = "kick" /\ pc' = "sleep"
  /\ tdat' = IF mesg.ts[t].tx THEN <<t, 0>> ELSE Dummy
  /\ UNCHANGED <<mesg, t, info, cs, rdat, irq, frame, stored>>

Awake ==
  /\ pc = "sleep" /\ done > 0 /\ pc' = "next"
  /\ done' = done - 1
  /\ UNCHANGED <<mesg, t, cur_t, cur_cnt, wires, frame, stored>>

(* The list is at its end: status 0 and mesg->complete, then the chip is   *)
(* deselected.                                                             *)
Complete ==
  /\ pc = "next" /\ t = Len(mesg.ts) /\ pc' = "over"
  /\ UNCHANGED <<mesg, t, info, wires, frame, stored>>

Deselect ==
  /\ pc = "over" /\ pc' = "out"
  /\ cs' = cs \ {mesg.chip}
  /\ UNCHANGED <<mesg, t, info, tdat, rdat, irq, frame, stored>>
----------------------------------------------------------------------------
(* s3c2440_spi_irq: one more byte of the transfer x is over; v is sent     *)
(* next, or the process woken.                                             *)
BugContinueNoWake(x, v) ==
  /\ cur_cnt' = cur_cnt + 1
  /\ IF cur_cnt + 1 < x.len THEN tdat' = v /\ UNCHANGED done
     ELSE UNCHANGED <<done, tdat>>

Continue(x, v) ==
  /\ cur_cnt' = cur_cnt + 1
  /\ IF cur_cnt + 1 < x.len THEN tdat' = v /\ UNCHANGED done
     ELSE done' = done + 1 /\ UNCHANGED tdat

IrqSend ==
  /\ irq /\ irq' = FALSE
  /\ mesg.ts[cur_t].tx
  /\ Continue(mesg.ts[cur_t], <<cur_t, cur_cnt + 1>>)
  /\ UNCHANGED <<process, cur_t, cs, rdat, frame, stored>>

BugIrqReceive ==
  /\ irq /\ irq' = FALSE
  /\ ~mesg.ts[cur_t].tx
  /\ stored' = stored \cup {<<cur_t, cur_cnt + 1, rdat>>}
  /\ Continue(mesg.ts[cur_t], Dummy)
  /\ UNCHANGED <<process, cur_t, cs, rdat, frame>>

IrqReceive ==
  /\ irq /\ irq' = FALSE
  /\ ~mesg.ts[cur_t].tx
  /\ stored' = stored \cup {<<cur_t, cur_cnt, rdat>>}
  /\ Continue(mesg.ts[cur_t], Dummy)
  /\ UNCHANGED <<process, cur_t, cs, rdat, frame>>

(* The controller has exchanged a byte with the chip: external.            *)
Shifted ==
  /\ tdat # None /\ tdat' = None
  /\ frame' = Append(frame, tdat)
  /\ rdat' = Len(frame)
  /\ irq' = TRUE
  /\ UNCHANGED <<process, info, cs, stored>>
----------------------------------------------------------------------------
Handler == IrqSend \/ IrqReceive

Next == \/ \E m \in Messages : Select(m)
        \/ Take \/ Kick \/ Awake \/ Complete \/ Deselect
        \/ Handler \/ Shifted

Spec == Init /\ [][Next]_vars

(* A process in the driver runs on, interrupts are taken, and the clock    *)
(* that shifts bytes is the controller's own: no chip can stop it.         *)
Fairness ==
  /\ WF_vars(Take \/ Kick \/ Awake \/ Complete \/ Deselect)
  /\ WF_vars(Handler)
  /\ WF_vars(Shifted)

FairSpec == Spec /\ Fairness
----------------------------------------------------------------------------
(* How many bytes a transfer exchanges: its length, but of an empty one    *)
(* the first byte of the tx_buf is on the wire before the length is looked *)
(* at.                                                                     *)
Exchanged(x) == IF x.len = 0 THEN 1 ELSE x.len

(* The bytes of a message, in the order in which they go over the wire.    *)
BytesOf(ts) == UNION {{<<k, i>> : i \in 0 .. Exchanged(ts[k]) - 1} :
                      k \in {j \in DOMAIN ts : ts[j].tx \/ ts[j].rx}}
Before(b, c) == b[1] < c[1] \/ (b[1] = c[1] /\ b[2] < c[2])
Place(ts, b) == Cardinality({c \in BytesOf(ts) : Before(c, b)})

(* Every variable stays in its type.                                       *)
TypeOK ==
  /\ pc \in {"out", "next", "kick", "sleep", "over"}
  /\ mesg \in Messages /\ t \in 0 .. Len(mesg.ts)
  /\ cur_t \in Nat /\ cur_cnt \in Nat /\ done \in {0, 1}
  /\ cs \subseteq Chips
  /\ tdat \in (Nat \X Nat) \cup {Dummy, None}
  /\ rdat \in Nat /\ irq \in BOOLEAN
  /\ frame \in Seq((Nat \X Nat) \cup {Dummy})
  /\ stored \subseteq Nat \X Nat \X Nat

(* An interrupt finds the process asleep in the transfer that cur_t points *)
(* at, with the count inside the bytes it exchanges, and inside its buffer *)
(* if one is to be stored: cur_t, which is never cleared, is not used when *)
(* it is stale, and `if (!t)' is never true.                               *)
IrqFindsItsTransfer ==
  irq \/ tdat # None =>
    /\ pc = "sleep" /\ cur_t = t /\ cur_t > 0
    /\ cur_cnt < Exchanged(mesg.ts[cur_t])
    /\ ~mesg.ts[cur_t].tx => cur_cnt < mesg.ts[cur_t].len

(* The chip whose message it is, and no other, is selected from the first  *)
(* byte to the last.                                                       *)
OneSelected == cs = IF pc = "out" THEN {} ELSE {mesg.chip}

(* When the message completes, the chip has seen all of its bytes in       *)
(* order and nothing else but one byte for each empty transfer, and each   *)
(* transfer that only receives has, at each place, the byte the chip sent  *)
(* at that moment.  (A transfer with both buffers sends, and leaves its    *)
(* rx_buf as it was.)                                                      *)
FrameIsMessage ==
  pc = "over" =>
    /\ Len(frame) = Cardinality(BytesOf(mesg.ts))
    /\ \A b \in BytesOf(mesg.ts) :
         frame[Place(mesg.ts, b) + 1] = IF mesg.ts[b[1]].tx THEN b ELSE Dummy
    /\ stored = {<<b[1], b[2], Place(mesg.ts, b)>> :
                   b \in {c \in BytesOf(mesg.ts) : ~mesg.ts[c[1]].tx}}

(* Every message is completed and its chip let go.                         *)
Completes == (pc = "next") ~> (pc = "out")
============================================================================
