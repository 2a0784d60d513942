---------------------------- MODULE I2cAdapter ----------------------------
(***************************************************************************)
(* The S3C2440 I2C bus driver: master_xfer, which runs in the calling      *)
(* process, and the interrupt handler, which runs the transfer.  The two   *)
(* share s3c2440_i2c_xfer_data without a lock.  The SoC has one core, so   *)
(* the handler runs whole between two statements of the process, and every *)
(* store of master_xfer is a step of its own.                              *)
(*                                                                         *)
(* The pointer msgs, which master_xfer sets and the handler increments, is *)
(* the array msgs and the position at; cur_msg is the separate counter the *)
(* code keeps beside it.  bus is what the controller is doing; it takes an *)
(* operation from the driver, and when that is over it raises the          *)
(* interrupt and holds the clock until the handler resumes it.             *)
(***************************************************************************)
EXTENDS Integers, Sequences

CONSTANTS Messages,   \* the i2c_msg descriptors: [rd : BOOLEAN, len : Nat]
          Requests,   \* the message arrays the i2c core passes to master_xfer
          Addr,       \* what the data register holds while the address is sent
          Answer,     \* what a device that is slow does, see AnswerAssumption
          MaxWalk     \* bound: the handler is not followed past this cur_msg

ASSUME MessagesAssumption == Messages \subseteq [rd : BOOLEAN, len : Nat]
ASSUME RequestsAssumption == Requests \subseteq Seq(Messages) \ {<<>>}
(* An operation that is not over when the five seconds of the wait are     *)
(* never ends ("dead"), or may end afterwards and raise its interrupt then *)
(* ("late").                                                               *)
ASSUME AnswerAssumption == Answer \in {"dead", "late"}
ASSUME AddrAssumption == Addr \notin Nat
ASSUME MaxWalkAssumption == MaxWalk \in Nat

VARIABLES
  state, msgs, at, msg_num, cur_msg, cur_ptr, err,  \* s3c2440_i2c_xfer_data
  pc,      \* where the calling process is in s3c2440_bus_xfer
  ret,     \* what the latest call returned
  bus,     \* the operation the controller is on
  irq,     \* IRQPEND: the interrupt is pending
  nak,     \* IICSTAT_LASTBIT: the last byte was not acknowledged
  iicds,   \* the data register: the address, or the number of a byte
  slave,   \* the message and the byte the device has reached
  moved,   \* history: the bytes moved, as in I2cService
  clean    \* history: the controller was quiet when the latest call began

driver == <<state, msgs, at, msg_num, cur_msg, cur_ptr, err>>
device == <<bus, irq, nak, iicds, slave>>
vars == <<driver, pc, ret, device, moved, clean>>

States == {"IDLE", "START", "READ", "WRITE", "STOP"}
Stores == {"msg_num", "cur_msg", "cur_ptr", "err", "start"}
Operations == {"start", "tx", "rx", "rxlast"}

Quiet == bus = "idle" /\ ~irq

Init ==
  /\ state = "IDLE" /\ msgs = <<>> /\ at = 0
  /\ msg_num = 0 /\ cur_msg = 0 /\ cur_ptr = 0 /\ err = "ok"
  /\ pc = "idle" /\ ret = "none"
  /\ bus = "idle" /\ irq = FALSE /\ nak = FALSE /\ iicds = Addr
  /\ slave = [msg |-> 0, pos |-> 0]
  /\ moved = {} /\ clean = TRUE
----------------------------------------------------------------------------
(* s3c2440_i2c_start: S and the address of the device of message a go out. *)
StartSignal(a) ==
  /\ state' = "START"
  /\ iicds' = Addr
  /\ bus' = "start"
  /\ slave' = [msg |-> a, pos |-> 0]

(* A name that begins with Bug is the definition after it with a bug that  *)
(* the code might have had; the runs' properties tell the two apart.       *)
BugStopNoState(e) ==
  /\ err' = e
  /\ bus' = "idle"
  /\ UNCHANGED <<state, iicds, slave>>

(* s3c2440_i2c_stop: P goes out, no interrupt follows it.                  *)
StopSignal(e) ==
  /\ state' = "STOP"
  /\ err' = e
  /\ bus' = "idle"
  /\ UNCHANGED <<iicds, slave>>

BugLastMsg == cur_msg + 2 >= msg_num
isLastMsg == cur_msg + 1 = msg_num

BugEndData(m, p) == p > m.len
BugEndDataEarly(m, p) == p + 1 >= m.len
isEndData(m, p) == p >= m.len

BugLastData(m, p) == p = m.len
isLastData(m, p) == p + 1 = m.len

(* The descriptor msgs points at; past the end of the array, any bytes.    *)
Pointed == IF at < Len(msgs) THEN {msgs[at + 1]} ELSE Messages

----------------------------------------------------------------------------
(* s3c2440_bus_xfer, in the process that holds the i2c core's bus lock.    *)
BusXfer(r) ==
  /\ pc = "idle"
  /\ msgs' = r /\ at' = 0
  /\ pc' = "msg_num"
  /\ clean' = Quiet
  /\ moved' = {}
  /\ UNCHANGED <<state, msg_num, cur_msg, cur_ptr, err, ret, device>>

StoreMsgNum ==
  /\ pc = "msg_num" /\ pc' = "cur_msg"
  /\ msg_num' = Len(msgs)
  /\ UNCHANGED <<state, msgs, at, cur_msg, cur_ptr, err, ret, device, moved, clean>>

StoreCurMsg ==
  /\ pc = "cur_msg" /\ pc' = "cur_ptr"
  /\ cur_msg' = 0
  /\ UNCHANGED <<state, msgs, at, msg_num, cur_ptr, err, ret, device, moved, clean>>

StoreCurPtr ==
  /\ pc = "cur_ptr" /\ pc' = "err"
  /\ cur_ptr' = 0
  /\ UNCHANGED <<state, msgs, at, msg_num, cur_msg, err, ret, device, moved, clean>>

StoreErr ==
  /\ pc = "err" /\ pc' = "start"
  /\ err' = "ENODEV"
  /\ UNCHANGED <<state, msgs, at, msg_num, cur_msg, cur_ptr, ret, device, moved, clean>>

Start ==
  /\ pc = "start" /\ pc' = "wait"
  /\ StartSignal(at)
  /\ UNCHANGED <<msgs, at, msg_num, cur_msg, cur_ptr, err, ret, irq, nak, moved, clean>>

(* The condition of wait_event_timeout: the handler reached STATE_STOP.    *)
BugFinished == state # "START"
Finished == state = "STOP"

Woken ==
  /\ pc = "wait" /\ Finished
  /\ pc' = "idle"
  /\ ret' = err
  /\ UNCHANGED <<driver, device, moved, clean>>

(* wait_event_timeout gives 0, which it also does when the condition came  *)
(* true together with the timer.  The driver leaves the controller as it   *)
(* is; the device then gives up the operation, or does not.                *)
Expired ==
  /\ pc = "wait"
  /\ pc' = "idle"
  /\ ret' = "ETIMEDOUT"
  /\ \/ Answer = "dead" /\ ~irq /\ bus' = "idle"
     \/ Answer = "late" /\ UNCHANGED bus
  /\ UNCHANGED <<driver, irq, nak, iicds, slave, moved, clean>>
----------------------------------------------------------------------------
(* s3c2440_i2c_xfer_irq, one action per outcome.                           *)
IrqTaken == irq /\ irq' = FALSE /\ UNCHANGED <<msgs, msg_num, nak, pc, ret, clean>>

BugNoReset(p) ==
  \/ /\ ~isLastMsg
     /\ cur_msg < MaxWalk
     /\ at' = at + 1 /\ cur_msg' = cur_msg + 1 /\ cur_ptr' = p
     /\ StartSignal(at + 1)
     /\ UNCHANGED err
  \/ /\ isLastMsg
     /\ StopSignal("ok")
     /\ cur_ptr' = p
     /\ UNCHANGED <<at, cur_msg>>

(* Message m is over: on to the next one, or to the end of the transfer.   *)
MessageOver(p) ==
  \/ /\ ~isLastMsg
     /\ cur_msg < MaxWalk
     /\ at' = at + 1 /\ cur_msg' = cur_msg + 1 /\ cur_ptr' = 0
     /\ StartSignal(at + 1)
     /\ UNCHANGED err
  \/ /\ isLastMsg
     /\ StopSignal("ok")
     /\ cur_ptr' = p
     /\ UNCHANGED <<at, cur_msg>>

(* The label next_read: ask for byte p, the last one without acknowledge.  *)
NextRead(m, p) ==
  \/ /\ ~isEndData(m, p)
     /\ bus' = IF isLastData(m, p) THEN "rxlast" ELSE "rx"
     /\ state' = "READ" /\ cur_ptr' = p
     /\ UNCHANGED <<at, cur_msg, err, iicds, slave>>
  \/ isEndData(m, p) /\ MessageOver(p)

NextWrite(m, p) ==
  \/ /\ ~isEndData(m, p)
     /\ iicds' = p /\ bus' = "tx"
     /\ state' = "WRITE" /\ cur_ptr' = p + 1
     /\ UNCHANGED <<at, cur_msg, err, slave>>
  \/ isEndData(m, p) /\ MessageOver(p)

IrqNak ==
  /\ IrqTaken
  /\ state \in {"START", "WRITE"} /\ nak
  /\ StopSignal("ENODEV")
  /\ UNCHANGED <<at, cur_msg, cur_ptr, moved>>

IrqStart ==
  /\ IrqTaken
  /\ state = "START" /\ ~nak
  /\ \E m \in Pointed :
       \/ isLastMsg /\ isEndData(m, cur_ptr) /\ StopSignal("ok")
            /\ UNCHANGED <<at, cur_msg, cur_ptr>>
       \/ ~(isLastMsg /\ isEndData(m, cur_ptr)) /\ m.rd /\ NextRead(m, cur_ptr)
       \/ ~(isLastMsg /\ isEndData(m, cur_ptr)) /\ ~m.rd /\ NextWrite(m, cur_ptr)
  /\ UNCHANGED moved

IrqWrite ==
  /\ IrqTaken
  /\ state = "WRITE" /\ ~nak
  /\ \E m \in Pointed : NextWrite(m, cur_ptr)
  /\ UNCHANGED moved

IrqRead ==
  /\ IrqTaken
  /\ state = "READ"
  /\ moved' = moved \cup {<<at, cur_ptr, iicds>>}
  /\ \E m \in Pointed : NextRead(m, cur_ptr + 1)
----------------------------------------------------------------------------
(* The controller and the device: external.                                *)
OperationOver == irq' = TRUE /\ bus' = "held" /\ UNCHANGED <<driver, pc, ret, clean>>

AddressSent(n) ==
  /\ bus = "start" /\ OperationOver
  /\ nak' = n
  /\ UNCHANGED <<iicds, slave, moved>>

ByteSent(n) ==
  /\ bus = "tx" /\ OperationOver
  /\ nak' = n
  /\ IF n THEN UNCHANGED <<slave, moved>>
     ELSE /\ moved' = moved \cup {<<slave.msg, slave.pos, iicds>>}
          /\ slave' = [slave EXCEPT !.pos = @ + 1]
  /\ UNCHANGED iicds

ByteReceived ==
  /\ bus \in {"rx", "rxlast"} /\ OperationOver
  /\ nak' = (bus = "rxlast")
  /\ iicds' = slave.pos
  /\ slave' = [slave EXCEPT !.pos = @ + 1]
  /\ UNCHANGED moved
----------------------------------------------------------------------------
Process == \/ \E r \in Requests : BusXfer(r)
           \/ StoreMsgNum \/ StoreCurMsg \/ StoreCurPtr \/ StoreErr \/ Start
           \/ Woken \/ Expired

Handler == IrqNak \/ IrqStart \/ IrqWrite \/ IrqRead

Device == \/ \E n \in BOOLEAN : AddressSent(n) \/ ByteSent(n)
          \/ ByteReceived

Next == Process \/ Handler \/ Device

Spec == Init /\ [][Next]_vars

(* A call that has begun runs on, and a raised interrupt is taken.  The    *)
(* five-second timer is not counted on.                                    *)
Fairness ==
  /\ WF_vars(StoreMsgNum \/ StoreCurMsg \/ StoreCurPtr \/ StoreErr \/ Start \/ Woken)
  /\ WF_vars(Handler)

FairSpec == Spec /\ Fairness
----------------------------------------------------------------------------
(* Every variable stays in its type, in every environment.                 *)
TypeOK ==
  /\ state \in States
  /\ msgs \in Seq(Messages) /\ at \in Nat
  /\ msg_num \in Nat /\ cur_msg \in Nat /\ cur_ptr \in Nat
  /\ err \in {"ok", "ENODEV"}
  /\ pc \in Stores \cup {"idle", "wait"}
  /\ ret \in {"none", "ok", "ENODEV", "ETIMEDOUT"}
  /\ bus \in Operations \cup {"idle", "held"}
  /\ irq \in BOOLEAN /\ nak \in BOOLEAN /\ clean \in BOOLEAN
  /\ iicds \in Nat \cup {Addr}
  /\ slave \in [msg : Nat, pos : Nat]
  /\ moved \subseteq Nat \X Nat \X (Nat \cup {Addr})

(* The handler never reads a descriptor or a buffer beyond its end         *)
(* (irq handler, case STATE_READ and the msgs++ of both directions), when  *)
(* the transfer it serves began on a quiet controller - even when that     *)
(* transfer timed out and the interrupts go on without its caller.         *)
InBounds ==
  clean /\ irq => /\ at < Len(msgs)
                  /\ cur_ptr <= msgs[at + 1].len
                  /\ state = "READ" => cur_ptr < msgs[at + 1].len

(* A transfer that began on a quiet controller moves its bytes in order:   *)
(* finished messages whole, the current one as a prefix, nothing of later  *)
(* ones, each byte in its own place, whichever way the message goes.       *)
InOrder ==
  clean => \A b \in moved :
    /\ b[1] < Len(msgs) /\ b[2] < msgs[b[1] + 1].len /\ b[3] = b[2]
    /\ \A m \in 0 .. b[1] : \A i \in 0 .. msgs[m + 1].len - 1 :
         m < b[1] \/ i < b[2] => <<m, i, i>> \in moved

(* A transfer that began on a quiet controller and is reported as done     *)
(* (stop with err 0) has moved every byte of every message.                *)
DoneIsWhole ==
  clean /\ pc = "wait" /\ state = "STOP" /\ err = "ok"
    => \A m \in 1 .. Len(msgs) : \A i \in 0 .. msgs[m].len - 1 :
         <<m - 1, i, i>> \in moved

(* The master withholds the acknowledge exactly on the last byte of a      *)
(* message it reads (0x2f against 0xaf): acknowledging that byte makes the *)
(* device drive the line against the P or S that follows.                  *)
LastByteNak ==
  clean => /\ bus = "rx" => slave.pos + 1 < msgs[slave.msg + 1].len
           /\ bus = "rxlast" => slave.pos + 1 = msgs[slave.msg + 1].len

(* Once the handler has sent P nothing is left that could interrupt: the   *)
(* `default: break' of its switch is never taken, in any environment.      *)
StopIsQuiet == state \in {"IDLE", "STOP"} => Quiet

(* The handler uses the caller's messages only while the caller sleeps in  *)
(* the call - unless the last call that returned timed out: its interrupts *)
(* may go on (nothing at the return of -ETIMEDOUT stops them), after the   *)
(* return and into the stores of the next call, in every environment.      *)
NoUseAfterReturn == [][Handler => pc = "wait" \/ ret = "ETIMEDOUT"]_vars

(* A call on a bus that answers returns without the help of the timer: no  *)
(* interrupt leaves the transfer waiting for another that will not come.   *)
Returns == WF_vars(Device) => ((pc = "wait") ~> (pc = "idle"))

(* The driver implements I2cService.  Holds when a slow device is dead.    *)
Service == INSTANCE I2cService
             WITH req <- msgs,
                  result <- IF pc = "idle" THEN ret ELSE "busy"
ImplementsService == Service!Spec
============================================================================
