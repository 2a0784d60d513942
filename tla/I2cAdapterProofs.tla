------------------------- MODULE I2cAdapterProofs -------------------------
(***************************************************************************)
(* Theorems about I2cAdapter, for every set of messages and requests and   *)
(* for every kind of device.                                               *)
(***************************************************************************)
EXTENDS I2cAdapter, TLAPS

(* While the process stores the fields of a call that found the controller *)
(* quiet, no interrupt can read them, and each field is set by its turn.   *)
Storing ==
  clean /\ pc \in Stores =>
    /\ Quiet
    /\ msgs # <<>> /\ at = 0
    /\ pc # "msg_num" => msg_num = Len(msgs)
    /\ pc \notin {"msg_num", "cur_msg"} => cur_msg = 0
    /\ pc \in {"err", "start"} => cur_ptr = 0

(* While the controller works for such a call, the pointer and the counter *)
(* agree and stay inside the array and the message.                        *)
Aligned ==
  clean /\ pc \notin Stores /\ ~Quiet =>
    /\ at = cur_msg /\ msg_num = Len(msgs) /\ cur_msg < msg_num
    /\ cur_ptr <= msgs[at + 1].len
    /\ state = "READ" => cur_ptr < msgs[at + 1].len

IInv == TypeOK /\ StopIsQuiet /\ Storing /\ Aligned

USE MessagesAssumption, RequestsAssumption, AnswerAssumption, AddrAssumption
USE DEF isLastMsg, isEndData, isLastData

(* What the pointer msgs gives is a message descriptor.                    *)
LEMMA PointedType ==
  ASSUME TypeOK, NEW m \in Pointed
  PROVE  m \in [rd : BOOLEAN, len : Nat]
<1>1. CASE at < Len(msgs)
  <2>1. msgs \in Seq(Messages) /\ at \in Nat BY DEF TypeOK
  <2>2. msgs[at + 1] \in Messages BY <1>1, <2>1
  <2> QED BY <1>1, <2>2 DEF Pointed
<1>2. CASE ~(at < Len(msgs)) BY <1>2 DEF Pointed
<1> QED BY <1>1, <1>2

(* The type invariant of the driver, the process and the controller.       *)
LEMMA TypeInductive == TypeOK /\ [Next]_vars => TypeOK'
<1> SUFFICES ASSUME TypeOK, [Next]_vars PROVE TypeOK' OBVIOUS
<1> USE DEF TypeOK, Stores, Operations, States
<1>1. ASSUME NEW r \in Requests, BusXfer(r) PROVE TypeOK'
  BY <1>1 DEF BusXfer, device, Quiet
<1>2. CASE StoreMsgNum BY <1>2 DEF StoreMsgNum, device
<1>3. CASE StoreCurMsg BY <1>3 DEF StoreCurMsg, device
<1>4. CASE StoreCurPtr BY <1>4 DEF StoreCurPtr, device
<1>5. CASE StoreErr BY <1>5 DEF StoreErr, device
<1>6. CASE Start BY <1>6 DEF Start, StartSignal
<1>7. CASE Woken BY <1>7 DEF Woken, driver, device
<1>8. CASE Expired BY <1>8 DEF Expired, driver
<1>9. CASE IrqNak BY <1>9 DEF IrqNak, IrqTaken, StopSignal
<1>10. ASSUME NEW p \in Nat, IrqTaken, MessageOver(p),
              moved' \in SUBSET (Nat \X Nat \X (Nat \cup {Addr}))
       PROVE  TypeOK'
  <2>1. CASE at' = at + 1 /\ cur_msg' = cur_msg + 1 /\ cur_ptr' = 0
             /\ StartSignal(at + 1) /\ UNCHANGED err
    <3>1. at' \in Nat /\ cur_msg' \in Nat /\ cur_ptr' \in Nat BY <2>1
    <3>2. slave' \in [msg : Nat, pos : Nat] BY <2>1, <3>1 DEF StartSignal
    <3> QED BY <1>10, <2>1, <3>1, <3>2 DEF IrqTaken, StartSignal
  <2>2. CASE StopSignal("ok") /\ cur_ptr' = p /\ UNCHANGED <<at, cur_msg>>
    BY <1>10, <2>2 DEF IrqTaken, StopSignal
  <2> QED BY <1>10, <2>1, <2>2 DEF MessageOver
<1>11. ASSUME NEW m \in Pointed, NEW p \in Nat, IrqTaken,
              NextRead(m, p) \/ NextWrite(m, p),
              moved' \in SUBSET (Nat \X Nat \X (Nat \cup {Addr}))
       PROVE  TypeOK'
  <2>1. CASE state' = "READ" /\ cur_ptr' = p /\ bus' \in {"rx", "rxlast"}
             /\ UNCHANGED <<at, cur_msg, err, iicds, slave>>
    BY <1>11, <2>1 DEF IrqTaken
  <2>2. CASE iicds' = p /\ bus' = "tx" /\ state' = "WRITE" /\ cur_ptr' = p + 1
             /\ UNCHANGED <<at, cur_msg, err, slave>>
    <3>1. p + 1 \in Nat BY <1>11
    <3>2. p \in Nat \cup {Addr} BY <1>11
    <3> QED BY <1>11, <2>2, <3>1, <3>2 DEF IrqTaken
  <2> QED BY <1>10, <1>11, <2>1, <2>2 DEF NextRead, NextWrite
<1>12. CASE IrqStart
  <2>1. CASE StopSignal("ok") /\ UNCHANGED <<at, cur_msg, cur_ptr, moved>>
    BY <1>12, <2>1 DEF IrqStart, IrqTaken, StopSignal
  <2> QED BY <1>11, <1>12, <2>1 DEF IrqStart
<1>13. CASE IrqWrite BY <1>11, <1>13 DEF IrqWrite
<1>18. CASE IrqRead
  <2>1. moved' \in SUBSET (Nat \X Nat \X (Nat \cup {Addr})) BY <1>18 DEF IrqRead
  <2> QED BY <1>11, <1>18, <2>1 DEF IrqRead
<1>14. ASSUME NEW n \in BOOLEAN, AddressSent(n) PROVE TypeOK'
  BY <1>14 DEF AddressSent, OperationOver, driver
<1>15. ASSUME NEW n \in BOOLEAN, ByteSent(n) PROVE TypeOK'
  BY <1>15 DEF ByteSent, OperationOver, driver
<1>16. CASE ByteReceived BY <1>16 DEF ByteReceived, OperationOver, driver
<1>17. CASE UNCHANGED vars BY <1>17 DEF vars, driver, device
<1> QED BY <1>1, <1>2, <1>3, <1>4, <1>5, <1>6, <1>7, <1>8, <1>9, <1>12, <1>13,
           <1>18, <1>14, <1>15, <1>16, <1>17 DEF Next, Process, Handler, Device

LEMMA TypeInitial == Init => TypeOK
<1> SUFFICES ASSUME Init PROVE TypeOK OBVIOUS
<1>1. msgs \in Seq(Messages) BY DEF Init
<1>2. slave \in [msg : Nat, pos : Nat] BY DEF Init
<1>3. moved \subseteq Nat \X Nat \X (Nat \cup {Addr}) BY DEF Init
<1> QED BY <1>1, <1>2, <1>3 DEF Init, TypeOK, States, Stores, Operations

(* Every variable stays in its type, whatever the device does.             *)
THEOREM TypeCorrect == Spec => []TypeOK
BY TypeInitial, TypeInductive, PTL DEF Spec

(* The handler, whichever of its parts runs, keeps the pointer inside.     *)
LEMMA OverAligned ==
  ASSUME IInv, NEW p \in Nat, IrqTaken, MessageOver(p)
  PROVE  StopIsQuiet' /\ Storing' /\ Aligned'
<1> USE DEF Quiet, StopIsQuiet
<1>1. clean => pc \notin Stores BY DEF IInv, Storing, IrqTaken
<1>2. Storing' BY <1>1 DEF IrqTaken, Storing
<1>3. CASE StopSignal("ok")
  BY <1>2, <1>3 DEF StopSignal, IrqTaken, Aligned
<1>4. CASE ~isLastMsg /\ at' = at + 1 /\ cur_msg' = cur_msg + 1 /\ cur_ptr' = 0
           /\ StartSignal(at + 1)
  <2>1. state' = "START" /\ bus' = "start" BY <1>4 DEF StartSignal
  <2>2. ASSUME clean PROVE /\ at' = cur_msg' /\ msg_num' = Len(msgs') /\ cur_msg' < msg_num'
                           /\ cur_ptr' <= msgs'[at' + 1].len
    <3>1. /\ at = cur_msg /\ msg_num = Len(msgs) /\ cur_msg < msg_num
          /\ at \in Nat /\ cur_msg \in Nat /\ msg_num \in Nat
      BY <1>1, <2>2 DEF IInv, Aligned, IrqTaken, TypeOK
    <3>2. cur_msg + 1 < msg_num BY <1>4, <3>1
    <3>3. msgs \in Seq(Messages) /\ UNCHANGED <<msgs, msg_num>>
      BY DEF IInv, TypeOK, IrqTaken
    <3>4. msgs[cur_msg + 2] \in Messages BY <3>1, <3>2, <3>3
    <3>5. msgs[cur_msg + 2].len \in Nat BY <3>4
    <3> QED BY <1>4, <3>1, <3>2, <3>3, <3>5
  <2> QED BY <1>2, <2>1, <2>2 DEF Aligned, IrqTaken
<1> QED BY <1>2, <1>3, <1>4 DEF MessageOver

LEMMA ReadAligned ==
  ASSUME IInv, NEW m \in Pointed, NEW p \in Nat, IrqTaken, NextRead(m, p),
         clean => p <= m.len
  PROVE  StopIsQuiet' /\ Storing' /\ Aligned'
<1>1. CASE MessageOver(p) BY <1>1, OverAligned
<1>2. CASE ~isEndData(m, p) /\ bus' \in {"rx", "rxlast"} /\ state' = "READ"
           /\ cur_ptr' = p /\ UNCHANGED <<at, cur_msg>>
  <2>1. clean => pc \notin Stores BY DEF IInv, Storing, IrqTaken, Quiet
  <2>2. clean => at = cur_msg /\ msg_num = Len(msgs) /\ cur_msg < msg_num
    BY <2>1 DEF IInv, Aligned, IrqTaken, Quiet
  <2>3. clean => m = msgs[at + 1] BY <2>2 DEF Pointed
  <2>4. m.len \in Nat BY PointedType DEF IInv
  <2>5. p < m.len BY <1>2, <2>4
  <2> QED BY <1>2, <2>1, <2>2, <2>3, <2>5 DEF StopIsQuiet, Storing, Aligned, IrqTaken, Quiet
<1> QED BY <1>1, <1>2 DEF NextRead

LEMMA WriteAligned ==
  ASSUME IInv, NEW m \in Pointed, NEW p \in Nat, IrqTaken, NextWrite(m, p)
  PROVE  StopIsQuiet' /\ Storing' /\ Aligned'
<1>1. CASE MessageOver(p) BY <1>1, OverAligned
<1>2. CASE ~isEndData(m, p) /\ bus' = "tx" /\ state' = "WRITE"
           /\ cur_ptr' = p + 1 /\ UNCHANGED <<at, cur_msg>>
  <2>1. clean => pc \notin Stores BY DEF IInv, Storing, IrqTaken, Quiet
  <2>2. clean => at = cur_msg /\ msg_num = Len(msgs) /\ cur_msg < msg_num
    BY <2>1 DEF IInv, Aligned, IrqTaken, Quiet
  <2>3. clean => m = msgs[at + 1] BY <2>2 DEF Pointed
  <2>4. m.len \in Nat BY PointedType DEF IInv
  <2>5. p + 1 <= m.len BY <1>2, <2>4
  <2> QED BY <1>2, <2>1, <2>2, <2>3, <2>5 DEF StopIsQuiet, Storing, Aligned, IrqTaken, Quiet
<1> QED BY <1>1, <1>2 DEF NextWrite

(* The invariant is inductive: the stores find a quiet controller, and the *)
(* handler finds the pointer where the previous interrupt left it.         *)
LEMMA Inductive == IInv /\ [Next]_vars => IInv'
<1> SUFFICES ASSUME IInv, [Next]_vars PROVE StopIsQuiet' /\ Storing' /\ Aligned'
  BY TypeInductive DEF IInv
<1>0. TypeOK BY DEF IInv
<1> USE DEF Quiet, StopIsQuiet
<1>1. ASSUME NEW r \in Requests, BusXfer(r) PROVE StopIsQuiet' /\ Storing' /\ Aligned'
  <2>1. r # <<>> BY <1>1
  <2> QED BY <1>1, <2>1 DEF BusXfer, IInv, Storing, Aligned, Stores, device
<1>2. CASE StoreMsgNum
  BY <1>2 DEF StoreMsgNum, IInv, Storing, Aligned, Stores, device
<1>3. CASE StoreCurMsg
  BY <1>3 DEF StoreCurMsg, IInv, Storing, Aligned, Stores, device
<1>4. CASE StoreCurPtr
  BY <1>4 DEF StoreCurPtr, IInv, Storing, Aligned, Stores, device
<1>5. CASE StoreErr
  BY <1>5 DEF StoreErr, IInv, Storing, Aligned, Stores, device
<1>6. CASE Start
  <2>1. clean => Len(msgs) > 0 /\ msgs[1].len \in Nat
    <3>1. msgs \in Seq(Messages) BY <1>0 DEF TypeOK
    <3>2. clean => msgs # <<>> BY <1>6 DEF Start, IInv, Storing, Stores
    <3>3. clean => Len(msgs) > 0 BY <3>1, <3>2
    <3>4. clean => msgs[1] \in Messages BY <3>1, <3>3
    <3> QED BY <3>3, <3>4
  <2>2. clean => at = 0 /\ cur_msg = 0 /\ cur_ptr = 0 /\ msg_num = Len(msgs)
    BY <1>6 DEF Start, IInv, Storing, Stores
  <2> QED BY <1>6, <2>1, <2>2 DEF Start, StartSignal, Storing, Aligned, Stores
<1>7. CASE Woken BY <1>7 DEF Woken, IInv, Storing, Aligned, Stores, driver, device
<1>8. CASE Expired BY <1>8 DEF Expired, IInv, Storing, Aligned, Stores, driver
<1>9. CASE IrqNak
  BY <1>9 DEF IrqNak, IrqTaken, StopSignal, IInv, Storing, Aligned, Stores
<1>10. CASE IrqStart
  <2>1. PICK m \in Pointed :
          \/ StopSignal("ok") /\ UNCHANGED <<at, cur_msg, cur_ptr>>
          \/ NextRead(m, cur_ptr)
          \/ NextWrite(m, cur_ptr)
    BY <1>10 DEF IrqStart
  <2>2. CASE StopSignal("ok")
    BY <1>10, <2>2 DEF IrqStart, IrqTaken, StopSignal, IInv, Storing, Aligned, Stores
  <2>3. cur_ptr \in Nat /\ IrqTaken BY <1>0, <1>10 DEF TypeOK, IrqStart
  <2>4. clean => cur_ptr <= m.len
    BY <2>3 DEF IInv, Storing, Aligned, Pointed, IrqTaken
  <2> QED BY <2>1, <2>2, <2>3, <2>4, ReadAligned, WriteAligned
<1>11. CASE IrqWrite
  <2>1. cur_ptr \in Nat /\ IrqTaken BY <1>0, <1>11 DEF TypeOK, IrqWrite
  <2> QED BY <1>11, <2>1, WriteAligned DEF IrqWrite
<1>12. CASE IrqRead
  <2>1. cur_ptr \in Nat /\ IrqTaken BY <1>0, <1>12 DEF TypeOK, IrqRead
  <2>2. PICK m \in Pointed : NextRead(m, cur_ptr + 1) BY <1>12 DEF IrqRead
  <2>3. m.len \in Nat BY <1>0, PointedType
  <2>4. clean => cur_ptr < m.len
    BY <1>12, <2>1 DEF IrqRead, IInv, Storing, Aligned, Pointed, IrqTaken
  <2>5. clean => cur_ptr + 1 <= m.len BY <2>1, <2>3, <2>4
  <2> QED BY <2>1, <2>2, <2>5, ReadAligned
<1>13. ASSUME NEW n \in BOOLEAN, AddressSent(n) PROVE StopIsQuiet' /\ Storing' /\ Aligned'
  BY <1>13 DEF AddressSent, OperationOver, driver, IInv, Storing, Aligned
<1>14. ASSUME NEW n \in BOOLEAN, ByteSent(n) PROVE StopIsQuiet' /\ Storing' /\ Aligned'
  BY <1>14 DEF ByteSent, OperationOver, driver, IInv, Storing, Aligned
<1>15. CASE ByteReceived
  BY <1>15 DEF ByteReceived, OperationOver, driver, IInv, Storing, Aligned
<1>16. CASE UNCHANGED vars BY <1>16 DEF vars, driver, device, IInv, Storing, Aligned
<1> QED BY <1>1, <1>2, <1>3, <1>4, <1>5, <1>6, <1>7, <1>8, <1>9, <1>10, <1>11,
           <1>12, <1>13, <1>14, <1>15, <1>16 DEF Next, Process, Handler, Device

LEMMA Initially == Init => IInv
<1> SUFFICES ASSUME Init PROVE IInv OBVIOUS
<1>1. TypeOK BY TypeInitial
<1>2. StopIsQuiet /\ Storing /\ Aligned
  BY DEF Init, StopIsQuiet, Storing, Aligned, Quiet, Stores
<1> QED BY <1>1, <1>2 DEF IInv

LEMMA Always == Spec => []IInv
BY Initially, Inductive, PTL DEF Spec

(* The handler stays inside the caller's arrays and buffers in every       *)
(* transfer that began on a quiet controller, timed out or not.            *)
THEOREM AlwaysInBounds == Spec => []InBounds
<1>1. IInv => InBounds BY DEF IInv, Storing, Aligned, InBounds, Quiet
<1> QED BY <1>1, Always, PTL

(* After P no interrupt follows: the handler's default case is dead code,  *)
(* whatever the device does.                                               *)
THEOREM AlwaysStopIsQuiet == Spec => []StopIsQuiet
<1>1. IInv => StopIsQuiet BY DEF IInv
<1> QED BY <1>1, Always, PTL
----------------------------------------------------------------------------
(* What a transfer that began on a quiet controller puts on the wire and   *)
(* into the caller's buffers: every byte in order and in its place, all of *)
(* them when it is reported as done, the last byte of a message that is    *)
(* read without acknowledge.  For every set of requests and every kind of  *)
(* device.                                                                 *)

(* The bytes of the first a messages of ms and k bytes of the next one.    *)
Upto(ms, a, k) == {b \in Nat \X Nat \X Nat :
                     b[3] = b[2] /\ \/ b[1] < a /\ b[2] < ms[b[1] + 1].len
                                    \/ b[1] = a /\ b[2] < k}
MovedUpto(k) == moved = Upto(msgs, at, k)

(* Between two steps of the handler or the device, a transfer is           *)
Starting == /\ state = "START" /\ bus \in {"start", "held"}
            /\ slave.pos = 0 /\ cur_ptr = 0 /\ MovedUpto(0)
Writing  == /\ state = "WRITE" /\ bus = "tx"
            /\ cur_ptr = slave.pos + 1 /\ iicds = slave.pos /\ MovedUpto(slave.pos)
Written  == /\ state = "WRITE" /\ bus = "held"
            /\ nak \/ cur_ptr = slave.pos
            /\ slave.pos <= cur_ptr /\ MovedUpto(slave.pos)
Reading  == /\ state = "READ" /\ bus \in {"rx", "rxlast"}
            /\ slave.pos = cur_ptr /\ MovedUpto(cur_ptr)
            /\ bus = "rxlast" <=> cur_ptr + 1 = msgs[at + 1].len
Received == /\ state = "READ" /\ bus = "held"
            /\ iicds = cur_ptr /\ slave.pos = cur_ptr + 1 /\ MovedUpto(cur_ptr)

Wire ==
  clean /\ pc \notin Stores /\ ~Quiet =>
    /\ slave.msg = at
    /\ irq <=> bus = "held"
    /\ Starting \/ Writing \/ Written \/ Reading \/ Received

(* At rest, too, what has moved is a prefix of the request.                *)
Kept ==
  clean => \E a, k \in Nat :
    /\ (a < Len(msgs) /\ k <= msgs[a + 1].len) \/ (a = 0 /\ k = 0)
    /\ moved = Upto(msgs, a, k)

Fresh == clean /\ pc \in Stores => moved = {}

Told == Wire /\ Kept /\ Fresh /\ DoneIsWhole
WInv == IInv /\ Told

----------------------------------------------------------------------------
LEMMA UptoZero == ASSUME NEW ms PROVE Upto(ms, 0, 0) = {}
BY DEF Upto

LEMMA UptoNext ==
  ASSUME NEW ms, NEW a \in Nat, NEW k \in Nat
  PROVE  Upto(ms, a, k) \cup {<<a, k, k>>} = Upto(ms, a, k + 1)
<1>1. ASSUME NEW b \in Upto(ms, a, k) \cup {<<a, k, k>>} PROVE b \in Upto(ms, a, k + 1)
  BY <1>1 DEF Upto
<1>2. ASSUME NEW b \in Upto(ms, a, k + 1) PROVE b \in Upto(ms, a, k) \cup {<<a, k, k>>}
  <2>1. b \in Nat \X Nat \X Nat /\ b[3] = b[2] BY <1>2 DEF Upto
  <2>2. b = <<b[1], b[2], b[3]>> BY <2>1
  <2>3. CASE b[1] = a /\ b[2] = k BY <2>1, <2>2, <2>3
  <2>4. CASE ~(b[1] = a /\ b[2] = k) BY <1>2, <2>1, <2>4 DEF Upto
  <2> QED BY <2>3, <2>4
<1> QED BY <1>1, <1>2

LEMMA UptoMessage ==
  ASSUME NEW ms, NEW a \in Nat
  PROVE  Upto(ms, a, ms[a + 1].len) = Upto(ms, a + 1, 0)
<1>1. ASSUME NEW b \in Nat \X Nat \X Nat
      PROVE b \in Upto(ms, a, ms[a + 1].len) <=> b \in Upto(ms, a + 1, 0)
  BY <1>1 DEF Upto
<1> QED BY <1>1 DEF Upto

(* The bytes up to the end of the last message are all bytes.              *)
LEMMA UptoLast ==
  ASSUME NEW ms \in Seq(Messages), ms # <<>>
  PROVE  \A m \in 1 .. Len(ms) : \A i \in 0 .. ms[m].len - 1 :
           <<m - 1, i, i>> \in Upto(ms, Len(ms) - 1, ms[Len(ms)].len)
<1> TAKE m \in 1 .. Len(ms)
<1>1. ms[m] \in Messages /\ ms[m].len \in Nat OBVIOUS
<1> TAKE i \in 0 .. ms[m].len - 1
<1>2. Len(ms) \in Nat \ {0} OBVIOUS
<1>3. m - 1 \in Nat /\ i \in Nat /\ i < ms[m].len BY <1>1
<1>4. m - 1 < Len(ms) - 1 \/ m = Len(ms) BY <1>2
<1>5. (m - 1) + 1 = m OBVIOUS
<1> QED BY <1>2, <1>3, <1>4, <1>5 DEF Upto
----------------------------------------------------------------------------
(* While the controller is busy for such a call, the process is not at its *)
(* stores, and the descriptor the handler reads is the request's.          *)
LEMMA Busy ==
  ASSUME WInv, clean, ~Quiet
  PROVE  /\ pc \notin Stores /\ state \notin {"IDLE", "STOP"}
         /\ at \in Nat /\ at < Len(msgs) /\ msgs \in Seq(Messages)
         /\ msgs[at + 1].len \in Nat /\ Pointed = {msgs[at + 1]}
         /\ cur_ptr \in Nat /\ cur_ptr <= msgs[at + 1].len
         /\ slave = [msg |-> at, pos |-> slave.pos] /\ slave.pos \in Nat
         /\ isLastMsg <=> at + 1 = Len(msgs)
<1>1. pc \notin Stores BY DEF WInv, IInv, Storing
<1>2. state \notin {"IDLE", "STOP"} BY DEF WInv, IInv, StopIsQuiet
<1>3. /\ at = cur_msg /\ msg_num = Len(msgs) /\ cur_msg < msg_num
      /\ cur_ptr <= msgs[at + 1].len
  BY <1>1 DEF WInv, IInv, Aligned
<1>4. at \in Nat /\ msgs \in Seq(Messages) /\ cur_ptr \in Nat /\ slave \in [msg : Nat, pos : Nat]
  BY DEF WInv, IInv, TypeOK
<1>5. msgs[at + 1] \in Messages BY <1>3, <1>4
<1>6. slave.msg = at BY <1>1 DEF WInv, Told, Wire
<1>7. Pointed = {msgs[at + 1]} BY <1>3 DEF Pointed
<1> QED BY <1>1, <1>2, <1>3, <1>4, <1>5, <1>6, <1>7

(* The handler sends P, at the end of the last message or because a byte   *)
(* was not acknowledged.                                                   *)
LEMMA StopTold ==
  ASSUME WInv, IrqTaken, NEW e, StopSignal(e), clean, UNCHANGED at,
         NEW k \in Nat, moved' = Upto(msgs, at, k), k <= msgs[at + 1].len,
         e = "ok" => at + 1 = Len(msgs) /\ k = msgs[at + 1].len
  PROVE  Told'
<1>1. ~Quiet BY DEF IrqTaken, Quiet
<1>2. pc \notin Stores /\ at \in Nat /\ at < Len(msgs) /\ msgs \in Seq(Messages)
  BY <1>1, Busy
<1>3. UNCHANGED <<msgs, pc, clean>> /\ state' = "STOP" /\ err' = e /\ Quiet'
  BY DEF IrqTaken, StopSignal, Quiet
<1>4. Kept' BY <1>2, <1>3 DEF Kept
<1>5. ASSUME e = "ok" PROVE DoneIsWhole'
  <2>1. msgs # <<>> /\ at = Len(msgs) - 1 BY <1>2, <1>5
  <2>2. moved' = Upto(msgs, Len(msgs) - 1, msgs[Len(msgs)].len) BY <1>2, <1>5, <2>1
  <2> QED BY <1>2, <1>3, <2>1, <2>2, UptoLast DEF DoneIsWhole
<1> QED BY <1>2, <1>3, <1>4, <1>5 DEF Told, Wire, Fresh, DoneIsWhole

(* A message is over: the next one starts, or P is sent.                   *)
LEMMA OverTold ==
  ASSUME WInv, IrqTaken, clean, NEW p \in Nat, MessageOver(p), p = msgs[at + 1].len,
         moved' = Upto(msgs, at, p)
  PROVE  Told'
<1>1. ~Quiet BY DEF IrqTaken, Quiet
<1>2. /\ pc \notin Stores /\ at \in Nat /\ at < Len(msgs) /\ msgs \in Seq(Messages)
      /\ isLastMsg <=> at + 1 = Len(msgs)
  BY <1>1, Busy
<1>3. CASE isLastMsg /\ StopSignal("ok") /\ UNCHANGED at BY <1>2, <1>3, StopTold
<1>4. CASE ~isLastMsg /\ at' = at + 1 /\ cur_ptr' = 0 /\ StartSignal(at + 1)
  <2>1. UNCHANGED <<msgs, pc, clean>> /\ irq' = FALSE BY DEF IrqTaken
  <2>2. /\ state' = "START" /\ bus' = "start" /\ slave' = [msg |-> at + 1, pos |-> 0]
    BY <1>4 DEF StartSignal
  <2>3. moved' = Upto(msgs', at', 0) BY <1>2, <1>4, <2>1, UptoMessage
  <2>4. at' \in Nat /\ at' < Len(msgs') /\ msgs'[at' + 1].len \in Nat
    <3>1. at + 1 < Len(msgs) BY <1>2, <1>4
    <3>2. msgs[at + 2] \in Messages BY <1>2, <3>1
    <3> QED BY <1>2, <1>4, <2>1, <3>1, <3>2
  <2>5. Kept' BY <2>3, <2>4 DEF Kept
  <2>6. Wire' BY <1>4, <2>1, <2>2, <2>3 DEF Wire, Starting, MovedUpto
  <2> QED BY <1>2, <2>1, <2>2, <2>5, <2>6 DEF Told, Fresh, DoneIsWhole
<1> QED BY <1>3, <1>4 DEF MessageOver

(* After byte p - 1 of a message the handler goes on with byte p.          *)
LEMMA ReadTold ==
  ASSUME WInv, IrqTaken, clean, NEW m \in Pointed, NEW p \in Nat, NextRead(m, p),
         p <= m.len, slave.pos = p, moved' = Upto(msgs, at, p)
  PROVE  Told'
<1>1. ~Quiet BY DEF IrqTaken, Quiet
<1>2. /\ pc \notin Stores /\ at \in Nat /\ at < Len(msgs) /\ m = msgs[at + 1]
      /\ m.len \in Nat /\ slave.msg = at
  BY <1>1, Busy
<1>3. CASE isEndData(m, p) /\ MessageOver(p) BY <1>2, <1>3, OverTold
<1>4. CASE ~isEndData(m, p) /\ bus' = (IF isLastData(m, p) THEN "rxlast" ELSE "rx")
           /\ state' = "READ" /\ cur_ptr' = p /\ UNCHANGED <<at, slave>>
  <2>1. UNCHANGED <<msgs, pc, clean>> /\ irq' = FALSE BY DEF IrqTaken
  <2>2. Kept' BY <1>2, <1>4, <2>1 DEF Kept
  <2>3. Reading' BY <1>2, <1>4, <2>1 DEF Reading, MovedUpto
  <2>4. Wire' BY <1>2, <1>4, <2>1, <2>3 DEF Wire
  <2> QED BY <1>2, <1>4, <2>1, <2>2, <2>4 DEF Told, Fresh, DoneIsWhole
<1> QED BY <1>3, <1>4 DEF NextRead

LEMMA WriteTold ==
  ASSUME WInv, IrqTaken, clean, NEW m \in Pointed, NEW p \in Nat, NextWrite(m, p),
         p <= m.len, slave.pos = p, moved' = Upto(msgs, at, p)
  PROVE  Told'
<1>1. ~Quiet BY DEF IrqTaken, Quiet
<1>2. /\ pc \notin Stores /\ at \in Nat /\ at < Len(msgs) /\ m = msgs[at + 1]
      /\ m.len \in Nat /\ slave.msg = at
  BY <1>1, Busy
<1>3. CASE isEndData(m, p) /\ MessageOver(p) BY <1>2, <1>3, OverTold
<1>4. CASE ~isEndData(m, p) /\ iicds' = p /\ bus' = "tx"
           /\ state' = "WRITE" /\ cur_ptr' = p + 1 /\ UNCHANGED <<at, slave>>
  <2>1. UNCHANGED <<msgs, pc, clean>> /\ irq' = FALSE BY DEF IrqTaken
  <2>2. Kept' BY <1>2, <1>4, <2>1 DEF Kept
  <2>3. Writing' BY <1>4, <2>1 DEF Writing, MovedUpto
  <2>4. Wire' BY <1>2, <1>4, <2>1, <2>3 DEF Wire
  <2> QED BY <1>2, <1>4, <2>1, <2>2, <2>4 DEF Told, Fresh, DoneIsWhole
<1> QED BY <1>3, <1>4 DEF NextWrite

(* The handler.                                                            *)
LEMMA HandlerTold ==
  ASSUME WInv, Handler, clean
  PROVE  Told'
<1>1. IrqTaken /\ irq /\ ~Quiet BY DEF Handler, IrqNak, IrqStart, IrqWrite, IrqRead, IrqTaken, Quiet
<1>2. /\ pc \notin Stores /\ at \in Nat /\ at < Len(msgs)
      /\ msgs[at + 1].len \in Nat /\ Pointed = {msgs[at + 1]}
      /\ cur_ptr \in Nat /\ cur_ptr <= msgs[at + 1].len /\ slave.pos \in Nat
      /\ isLastMsg <=> at + 1 = Len(msgs)
  BY <1>1, Busy
<1>3. bus = "held" /\ (Starting \/ Written \/ Received)
  BY <1>1, <1>2 DEF WInv, Told, Wire, Writing, Reading
<1>4. CASE IrqNak
  <2>1. Starting \/ Written BY <1>3, <1>4 DEF IrqNak, Received
  <2>2. moved' = Upto(msgs, at, slave.pos) /\ slave.pos <= msgs[at + 1].len
    BY <1>2, <1>4, <2>1 DEF IrqNak, Starting, Written, MovedUpto
  <2>3. StopSignal("ENODEV") /\ UNCHANGED at BY <1>4 DEF IrqNak
  <2> QED BY <1>1, <1>2, <2>2, <2>3, StopTold
<1>5. CASE IrqStart
  <2>1. /\ slave.pos = 0 /\ cur_ptr = 0 /\ moved' = Upto(msgs, at, 0)
    BY <1>3, <1>5 DEF IrqStart, Starting, Written, Received, MovedUpto
  <2>2. PICK m \in Pointed :
          \/ isLastMsg /\ isEndData(m, cur_ptr) /\ StopSignal("ok") /\ UNCHANGED at
          \/ NextRead(m, cur_ptr)
          \/ NextWrite(m, cur_ptr)
    BY <1>5 DEF IrqStart
  <2>3. m = msgs[at + 1] BY <1>2, <2>2
  <2>4. CASE isLastMsg /\ isEndData(m, cur_ptr) /\ StopSignal("ok") /\ UNCHANGED at
    <3>1. m.len = 0 BY <1>2, <2>1, <2>3, <2>4
    <3> QED BY <1>1, <1>2, <2>1, <2>3, <2>4, <3>1, StopTold
  <2> QED BY <1>1, <1>2, <2>1, <2>2, <2>3, <2>4, ReadTold, WriteTold
<1>6. CASE IrqWrite
  <2>1. /\ slave.pos = cur_ptr /\ moved' = Upto(msgs, at, cur_ptr)
    BY <1>3, <1>6 DEF IrqWrite, Starting, Written, Received, MovedUpto
  <2> QED BY <1>1, <1>2, <1>6, <2>1, WriteTold DEF IrqWrite
<1>7. CASE IrqRead
  <2>1. /\ iicds = cur_ptr /\ slave.pos = cur_ptr + 1 /\ moved = Upto(msgs, at, cur_ptr)
    BY <1>3, <1>7 DEF IrqRead, Starting, Written, Received, MovedUpto
  <2>2. moved' = Upto(msgs, at, cur_ptr + 1) BY <1>2, <1>7, <2>1, UptoNext DEF IrqRead
  <2>3. cur_ptr < msgs[at + 1].len BY <1>1, <1>2, <1>7 DEF IrqRead, WInv, IInv, Aligned
  <2>4. cur_ptr + 1 \in Nat /\ cur_ptr + 1 <= msgs[at + 1].len BY <1>2, <2>3
  <2> QED BY <1>1, <1>2, <1>7, <2>1, <2>2, <2>4, ReadTold DEF IrqRead
<1> QED BY <1>4, <1>5, <1>6, <1>7 DEF Handler

(* The controller.                                                         *)
LEMMA DeviceTold ==
  ASSUME WInv, Device, clean
  PROVE  Told'
<1>1. ~Quiet /\ OperationOver BY DEF Device, AddressSent, ByteSent, ByteReceived, OperationOver, Quiet
<1>2. /\ pc \notin Stores /\ state \notin {"IDLE", "STOP"} /\ at \in Nat /\ at < Len(msgs)
      /\ msgs[at + 1].len \in Nat /\ cur_ptr \in Nat /\ cur_ptr <= msgs[at + 1].len
      /\ slave = [msg |-> at, pos |-> slave.pos] /\ slave.pos \in Nat
  BY <1>1, Busy
<1>3. UNCHANGED <<msgs, at, cur_ptr, state, pc, clean>> /\ irq' /\ bus' = "held"
  BY <1>1 DEF OperationOver, driver
<1>4. Starting \/ Writing \/ Written \/ Reading \/ Received
  BY <1>1, <1>2 DEF WInv, Told, Wire
<1>5. SUFFICES Kept' /\ Wire' BY <1>2, <1>3 DEF Told, Fresh, DoneIsWhole
<1>6. ASSUME UNCHANGED moved PROVE Kept' BY <1>3, <1>6 DEF WInv, Told, Kept
<1>7. ASSUME NEW n \in BOOLEAN, AddressSent(n) PROVE Kept' /\ Wire'
  <2>1. Starting BY <1>4, <1>7 DEF AddressSent, Writing, Written, Reading, Received
  <2>2. UNCHANGED <<slave, moved>> BY <1>7 DEF AddressSent
  <2>3. Starting' BY <1>3, <2>1, <2>2 DEF Starting, MovedUpto
  <2> QED BY <1>2, <1>3, <1>6, <2>2, <2>3 DEF Wire
<1>8. ASSUME NEW n \in BOOLEAN, ByteSent(n) PROVE Kept' /\ Wire'
  <2>1. Writing BY <1>4, <1>8 DEF ByteSent, Starting, Written, Reading, Received
  <2>2. CASE n
    <3>1. nak' /\ UNCHANGED <<slave, moved>> BY <1>8, <2>2 DEF ByteSent
    <3>2. Written' BY <1>2, <1>3, <2>1, <3>1 DEF Writing, Written, MovedUpto
    <3> QED BY <1>2, <1>3, <1>6, <3>1, <3>2 DEF Wire
  <2>3. CASE ~n
    <3>1. /\ moved' = moved \cup {<<at, slave.pos, slave.pos>>}
          /\ slave' = [msg |-> at, pos |-> slave.pos + 1]
      BY <1>2, <1>8, <2>1, <2>3 DEF ByteSent, Writing
    <3>2. moved' = Upto(msgs, at, slave.pos + 1)
      BY <1>2, <2>1, <3>1, UptoNext DEF Writing, MovedUpto
    <3>3. slave.pos + 1 = cur_ptr BY <2>1 DEF Writing
    <3>4. Written' BY <1>2, <1>3, <2>1, <3>1, <3>2, <3>3 DEF Writing, Written, MovedUpto
    <3>5. Kept' BY <1>2, <1>3, <3>2, <3>3 DEF Kept
    <3> QED BY <1>2, <1>3, <3>1, <3>4, <3>5 DEF Wire
  <2> QED BY <2>2, <2>3
<1>9. CASE ByteReceived
  <2>1. Reading BY <1>4, <1>9 DEF ByteReceived, Starting, Writing, Written, Received
  <2>2. /\ iicds' = slave.pos /\ slave' = [msg |-> at, pos |-> slave.pos + 1] /\ UNCHANGED moved
    BY <1>2, <1>9 DEF ByteReceived
  <2>3. Received' BY <1>2, <1>3, <2>1, <2>2 DEF Reading, Received, MovedUpto
  <2> QED BY <1>2, <1>3, <1>6, <2>2, <2>3 DEF Wire
<1> QED BY <1>7, <1>8, <1>9 DEF Device

(* The calling process.                                                    *)
LEMMA ProcessTold ==
  ASSUME WInv, Process, clean'
  PROVE  Told'
<1>1. ASSUME NEW r \in Requests, BusXfer(r) PROVE Told'
  <2>1. moved' = {} /\ pc' = "msg_num" BY <1>1 DEF BusXfer
  <2> QED BY <2>1, UptoZero DEF Told, Wire, Kept, Fresh, DoneIsWhole, Stores
<1>2. CASE StoreMsgNum \/ StoreCurMsg \/ StoreCurPtr \/ StoreErr
  <2>1. pc \in Stores /\ pc' \in Stores /\ UNCHANGED <<moved, clean>>
    BY <1>2 DEF StoreMsgNum, StoreCurMsg, StoreCurPtr, StoreErr, Stores
  <2>2. moved' = {} BY <2>1 DEF WInv, Told, Fresh
  <2> QED BY <2>1, <2>2, UptoZero DEF Told, Wire, Kept, Fresh, DoneIsWhole, Stores
<1>3. CASE Start
  <2>1. /\ pc = "start" /\ pc' = "wait" /\ UNCHANGED <<msgs, at, cur_ptr, irq, moved, clean>>
        /\ state' = "START" /\ bus' = "start" /\ slave' = [msg |-> at, pos |-> 0]
    BY <1>3 DEF Start, StartSignal
  <2>2. at = 0 /\ cur_ptr = 0 /\ Quiet /\ moved = {}
    BY <2>1 DEF WInv, IInv, Storing, Told, Fresh, Stores
  <2>3. Wire' BY <2>1, <2>2, UptoZero DEF Wire, Starting, MovedUpto, Quiet
  <2> QED BY <2>1, <2>2, <2>3, UptoZero DEF Told, Kept, Fresh, DoneIsWhole, Stores
<1>4. CASE Woken \/ Expired
  <2>1. /\ pc = "wait" /\ pc' = "idle" /\ UNCHANGED <<driver, irq, nak, iicds, slave, moved, clean>>
        /\ (~irq /\ bus' = "idle") \/ UNCHANGED bus
    BY <1>4 DEF Woken, Expired, device
  <2>2. Kept' BY <2>1 DEF WInv, Told, Kept, driver
  <2>3. CASE ~irq /\ bus' = "idle" BY <2>1, <2>2, <2>3 DEF Told, Wire, Quiet, Fresh, DoneIsWhole, Stores
  <2>4. CASE UNCHANGED bus
    <3>1. Wire'
      BY <2>1, <2>4 DEF WInv, Told, Wire, Quiet, Stores, driver, MovedUpto,
                        Starting, Writing, Written, Reading, Received
    <3> QED BY <2>1, <2>2, <3>1 DEF Told, Fresh, DoneIsWhole, Stores
  <2> QED BY <2>1, <2>3, <2>4
<1> QED BY <1>1, <1>2, <1>3, <1>4 DEF Process

LEMMA WireInductive == WInv /\ [Next]_vars => WInv'
<1> SUFFICES ASSUME WInv, [Next]_vars PROVE Told' BY Inductive DEF WInv
<1>1. CASE clean' = FALSE BY <1>1 DEF Told, Wire, Kept, Fresh, DoneIsWhole
<1>2. CASE Process /\ clean' BY <1>2, ProcessTold
<1>3. CASE (Handler \/ Device) /\ clean'
  <2>1. clean' = clean
    BY <1>3 DEF Handler, Device, IrqNak, IrqStart, IrqWrite, IrqRead, IrqTaken,
                AddressSent, ByteSent, ByteReceived, OperationOver
  <2> QED BY <1>3, <2>1, HandlerTold, DeviceTold
<1>4. CASE UNCHANGED vars
  BY <1>4 DEF vars, driver, device, WInv, Told, Wire, Kept, Fresh, DoneIsWhole, Quiet,
              MovedUpto, Starting, Writing, Written, Reading, Received
<1>5. clean' \in BOOLEAN BY TypeInductive DEF WInv, IInv, TypeOK
<1> QED BY <1>1, <1>2, <1>3, <1>4, <1>5 DEF Next

LEMMA WireInitially == Init => WInv
<1> SUFFICES ASSUME Init PROVE Told BY Initially DEF WInv
<1> QED BY UptoZero DEF Init, Told, Wire, Kept, Fresh, DoneIsWhole, Quiet, Stores

LEMMA WireAlways == Spec => []WInv
BY WireInitially, WireInductive, PTL DEF Spec
----------------------------------------------------------------------------
(* A transfer that began on a quiet controller moves its bytes in order    *)
(* and each to its place, whatever is requested and whatever answers.      *)
THEOREM AlwaysInOrder == Spec => []InOrder
<1>1. WInv => InOrder
  <2> SUFFICES ASSUME WInv, clean, NEW b \in moved
               PROVE  /\ b[1] < Len(msgs) /\ b[2] < msgs[b[1] + 1].len /\ b[3] = b[2]
                      /\ \A m \in 0 .. b[1] : \A i \in 0 .. msgs[m + 1].len - 1 :
                           m < b[1] \/ i < b[2] => <<m, i, i>> \in moved
    BY DEF InOrder
  <2>1. PICK a \in Nat, k \in Nat :
          /\ (a < Len(msgs) /\ k <= msgs[a + 1].len) \/ (a = 0 /\ k = 0)
          /\ moved = Upto(msgs, a, k)
    BY DEF WInv, Told, Kept
  <2>2. a < Len(msgs) /\ k <= msgs[a + 1].len
    <3>1. ~(a = 0 /\ k = 0) BY <2>1, UptoZero
    <3> QED BY <2>1, <3>1
  <2>3. msgs \in Seq(Messages) BY DEF WInv, IInv, TypeOK
  <2>4. /\ b \in Nat \X Nat \X Nat /\ b[3] = b[2]
        /\ (b[1] < a /\ b[2] < msgs[b[1] + 1].len) \/ (b[1] = a /\ b[2] < k)
    BY <2>1 DEF Upto
  <2>5. b[1] \in Nat /\ b[2] \in Nat /\ b[1] < Len(msgs) BY <2>2, <2>3, <2>4
  <2>6. msgs[b[1] + 1].len \in Nat
    <3>1. msgs[b[1] + 1] \in Messages BY <2>3, <2>5
    <3> QED BY <3>1
  <2>7. b[2] < msgs[b[1] + 1].len BY <2>1, <2>2, <2>4, <2>5, <2>6
  <2>8. ASSUME NEW m \in 0 .. b[1], NEW i \in 0 .. msgs[m + 1].len - 1,
               m < b[1] \/ i < b[2]
        PROVE  <<m, i, i>> \in moved
    <3>1. m \in Nat /\ m < Len(msgs) BY <2>3, <2>5
    <3>2. msgs[m + 1] \in Messages BY <2>3, <3>1
    <3>3. msgs[m + 1].len \in Nat BY <3>2
    <3>4. i \in Nat /\ i < msgs[m + 1].len BY <3>3
    <3>5. m < a \/ (m = a /\ i < k) BY <2>4, <2>5, <2>8, <3>1, <3>4
    <3> QED BY <2>1, <3>1, <3>4, <3>5 DEF Upto
  <2> QED BY <2>4, <2>5, <2>7, <2>8
<1> QED BY <1>1, WireAlways, PTL

(* A transfer that is reported as done has moved every byte.               *)
THEOREM AlwaysDoneIsWhole == Spec => []DoneIsWhole
<1>1. WInv => DoneIsWhole BY DEF WInv, Told
<1> QED BY <1>1, WireAlways, PTL

(* Exactly the last byte of a message that is read goes unacknowledged.    *)
THEOREM AlwaysLastByteNak == Spec => []LastByteNak
<1>1. WInv => LastByteNak
  <2> SUFFICES ASSUME WInv, clean, bus \in {"rx", "rxlast"}
               PROVE  /\ bus = "rx" => slave.pos + 1 < msgs[slave.msg + 1].len
                      /\ bus = "rxlast" => slave.pos + 1 = msgs[slave.msg + 1].len
    BY DEF LastByteNak
  <2>1. ~Quiet BY DEF Quiet
  <2>2. /\ pc \notin Stores /\ msgs[at + 1].len \in Nat /\ cur_ptr \in Nat /\ slave.msg = at
    BY <2>1, Busy
  <2>3. Reading BY <2>1, <2>2 DEF WInv, Told, Wire, Starting, Writing, Written, Received
  <2>4. cur_ptr < msgs[at + 1].len
    BY <2>1, <2>2, <2>3 DEF WInv, IInv, Aligned, Reading
  <2> QED BY <2>2, <2>3, <2>4 DEF Reading
<1> QED BY <1>1, WireAlways, PTL
----------------------------------------------------------------------------
(* Why a call returns: what is left of Returns without fairness.           *)

(* The bus is held for an interrupt that is pending, and busy for a call   *)
(* that is not over.                                                       *)
Attended ==
  /\ bus = "held" => irq
  /\ pc = "wait" => state = "STOP" \/ bus # "idle"

LEMMA AttendedInductive == TypeOK /\ Attended /\ [Next]_vars => Attended'
<1> SUFFICES ASSUME TypeOK, Attended, [Next]_vars PROVE Attended' OBVIOUS
<1> USE DEF Attended
<1>1. ASSUME NEW r \in Requests, BusXfer(r) PROVE Attended' BY <1>1 DEF BusXfer, device
<1>2. CASE StoreMsgNum BY <1>2 DEF StoreMsgNum, device
<1>3. CASE StoreCurMsg BY <1>3 DEF StoreCurMsg, device
<1>4. CASE StoreCurPtr BY <1>4 DEF StoreCurPtr, device
<1>5. CASE StoreErr BY <1>5 DEF StoreErr, device
<1>6. CASE Start BY <1>6 DEF Start, StartSignal
<1>7. CASE Woken BY <1>7 DEF Woken, driver, device
<1>8. CASE Expired BY <1>8 DEF Expired, driver
<1>9. CASE IrqNak BY <1>9 DEF IrqNak, StopSignal
<1>10. ASSUME NEW p, MessageOver(p) PROVE Attended'
  BY <1>10 DEF MessageOver, StartSignal, StopSignal
<1>11. ASSUME NEW m, NEW p, NextRead(m, p) \/ NextWrite(m, p) PROVE Attended'
  BY <1>10, <1>11 DEF NextRead, NextWrite
<1>12. CASE IrqStart
  <2>1. CASE StopSignal("ok") BY <2>1 DEF StopSignal
  <2> QED BY <1>11, <1>12, <2>1 DEF IrqStart
<1>13. CASE IrqWrite BY <1>11, <1>13 DEF IrqWrite
<1>14. CASE IrqRead BY <1>11, <1>14 DEF IrqRead
<1>15. CASE Device
  BY <1>15 DEF Device, AddressSent, ByteSent, ByteReceived, OperationOver, driver
<1>16. CASE UNCHANGED vars BY <1>16 DEF vars, driver, device
<1> QED BY <1>1, <1>2, <1>3, <1>4, <1>5, <1>6, <1>7, <1>8, <1>9, <1>12, <1>13, <1>14,
           <1>15, <1>16 DEF Next, Process, Handler

(* A call that waits and is not over is never left with nothing to come:   *)
(* the controller is on an operation, or its interrupt is pending.  This   *)
(* holds in every environment, also when the interrupts of a transfer that *)
(* timed out go on in the next one.                                        *)
THEOREM AlwaysSomethingToCome ==
  Spec => [](pc = "wait" /\ state # "STOP" => irq \/ bus \in Operations)
<1>1. Init => Attended BY DEF Init, Attended
<1>2. TypeOK /\ Attended => (pc = "wait" /\ state # "STOP" => irq \/ bus \in Operations)
  BY DEF TypeOK, Attended
<1> QED BY <1>1, <1>2, AttendedInductive, TypeCorrect, PTL DEF Spec

(* How far the handler is in the message it serves.                        *)
Reached == IF state = "START" THEN 0 ELSE cur_ptr + 1

(* The transfer ends, or goes on to the next message or byte, or the       *)
(* operation it waited for is over.                                        *)
Forward ==
  \/ state' = "STOP"
  \/ at' > at
  \/ at' = at /\ Reached' > Reached
  \/ at' = at /\ Reached' = Reached /\ ~irq /\ irq'

LEMMA HandlerForward == ASSUME TypeOK, Handler PROVE Forward
<1> USE DEF Forward, Reached
<1>1. at \in Nat /\ cur_ptr \in Nat BY DEF TypeOK
<1>2. CASE IrqNak BY <1>2 DEF IrqNak, StopSignal
<1>3. ASSUME NEW p, MessageOver(p) PROVE Forward
  BY <1>1, <1>3 DEF MessageOver, StopSignal
<1>4. CASE IrqStart
  <2>1. CASE StopSignal("ok") BY <2>1 DEF StopSignal
  <2>2. ASSUME NEW m, NextRead(m, cur_ptr) \/ NextWrite(m, cur_ptr) PROVE Forward
    BY <1>1, <1>3, <1>4, <2>2 DEF NextRead, NextWrite, IrqStart
  <2> QED BY <1>4, <2>1, <2>2 DEF IrqStart
<1>5. CASE IrqWrite BY <1>1, <1>3, <1>5 DEF IrqWrite, NextWrite
<1>6. CASE IrqRead BY <1>1, <1>3, <1>6 DEF IrqRead, NextRead
<1> QED BY <1>2, <1>4, <1>5, <1>6 DEF Handler

LEMMA DeviceForward == ASSUME WInv, clean, Device PROVE Forward
<1>1. bus \in Operations
  BY DEF Device, AddressSent, ByteSent, ByteReceived, Operations
<1>2. ~Quiet /\ bus # "held" BY <1>1 DEF Quiet, Operations
<1>3. pc \notin Stores BY <1>2 DEF WInv, IInv, Storing
<1>4. ~irq BY <1>2, <1>3 DEF WInv, Told, Wire
<1> QED BY <1>4 DEF Device, AddressSent, ByteSent, ByteReceived, OperationOver, driver,
                    Forward, Reached

(* The controller is at rest outside the wait, unless the last call that   *)
(* returned timed out.                                                     *)
LetGo == pc = "wait" \/ ret = "ETIMEDOUT" \/ Quiet

LEMMA LetGoInductive == IInv /\ LetGo /\ [Next]_vars => LetGo'
<1> SUFFICES ASSUME IInv, LetGo, [Next]_vars PROVE LetGo' OBVIOUS
<1> USE DEF LetGo, Quiet
<1>1. ASSUME NEW r \in Requests, BusXfer(r) PROVE LetGo' BY <1>1 DEF BusXfer, device
<1>2. CASE StoreMsgNum BY <1>2 DEF StoreMsgNum, device
<1>3. CASE StoreCurMsg BY <1>3 DEF StoreCurMsg, device
<1>4. CASE StoreCurPtr BY <1>4 DEF StoreCurPtr, device
<1>5. CASE StoreErr BY <1>5 DEF StoreErr, device
<1>6. CASE Start BY <1>6 DEF Start
<1>7. CASE Woken BY <1>7 DEF Woken, Finished, IInv, StopIsQuiet, device
<1>8. CASE Expired BY <1>8 DEF Expired
<1>9. CASE Handler
  BY <1>9 DEF Handler, IrqNak, IrqStart, IrqWrite, IrqRead, IrqTaken
<1>10. CASE Device
  BY <1>10 DEF Device, AddressSent, ByteSent, ByteReceived, OperationOver
<1>11. CASE UNCHANGED vars BY <1>11 DEF vars, device
<1> QED BY <1>1, <1>2, <1>3, <1>4, <1>5, <1>6, <1>7, <1>8, <1>9, <1>10, <1>11
        DEF Next, Process

(* The handler uses a caller's messages only while the caller sleeps in    *)
(* the call, or after a call that timed out: every other return finds the  *)
(* controller at rest.  For every request and every kind of device, also   *)
(* those whose interrupts come late.                                       *)
THEOREM NeverUseAfterReturn == Spec => NoUseAfterReturn
<1>1. Init => LetGo BY DEF Init, LetGo, Quiet
<1>2. LetGo /\ [Next]_vars => [Handler => pc = "wait" \/ ret = "ETIMEDOUT"]_vars
  BY DEF LetGo, Quiet, Handler, IrqNak, IrqStart, IrqWrite, IrqRead, IrqTaken
<1> QED BY <1>1, <1>2, LetGoInductive, Always, PTL DEF Spec, NoUseAfterReturn

(* No transfer that began on a quiet controller goes on for ever: each     *)
(* interrupt and each operation takes it forward, and what it can reach is *)
(* bounded by the messages and their bytes.                                *)
THEOREM AlwaysForward ==
  Spec => [][clean /\ (Handler \/ Device) =>
               at < Len(msgs) /\ Reached <= msgs[at + 1].len + 1 /\ Forward]_vars
<1>1. ASSUME WInv, clean, Handler \/ Device
      PROVE  at < Len(msgs) /\ Reached <= msgs[at + 1].len + 1 /\ Forward
  <2>1. TypeOK BY <1>1 DEF WInv, IInv
  <2>2. Forward BY <1>1, <2>1, HandlerForward, DeviceForward
  <2>3. ~Quiet
    BY <1>1 DEF Quiet, Handler, IrqNak, IrqStart, IrqWrite, IrqRead, IrqTaken, Device,
                AddressSent, ByteSent, ByteReceived
  <2>4. pc \notin Stores BY <1>1, <2>3 DEF WInv, IInv, Storing
  <2>5. at < Len(msgs) /\ cur_ptr <= msgs[at + 1].len
    BY <1>1, <2>3, <2>4 DEF WInv, IInv, Aligned
  <2>6. msgs[at + 1].len \in Nat /\ cur_ptr \in Nat
    <3>1. msgs \in Seq(Messages) /\ at \in Nat /\ cur_ptr \in Nat BY <2>1 DEF TypeOK
    <3>2. msgs[at + 1] \in Messages BY <2>5, <3>1
    <3> QED BY <3>1, <3>2
  <2> QED BY <2>2, <2>5, <2>6 DEF Reached
<1>2. WInv /\ [Next]_vars =>
        [clean /\ (Handler \/ Device) =>
           at < Len(msgs) /\ Reached <= msgs[at + 1].len + 1 /\ Forward]_vars
  BY <1>1
<1> QED BY <1>2, WireAlways, PTL DEF Spec
----------------------------------------------------------------------------
(* With devices that never answer late, the driver implements the transfer *)
(* service I2cService.  For every set of requests.                         *)

(* Every call finds the controller quiet, because every call leaves it so. *)
DInv == WInv /\ clean /\ (pc = "idle" => Quiet)

LEMMA DeadInductive ==
  ASSUME Answer = "dead"
  PROVE  DInv /\ [Next]_vars => DInv'
<1> SUFFICES ASSUME DInv, [Next]_vars PROVE clean' /\ (pc' = "idle" => Quiet')
  BY WireInductive DEF DInv
<1> USE DEF DInv, Quiet
<1>1. ASSUME NEW r \in Requests, BusXfer(r) PROVE clean' /\ (pc' = "idle" => Quiet')
  BY <1>1 DEF BusXfer
<1>2. CASE StoreMsgNum \/ StoreCurMsg \/ StoreCurPtr \/ StoreErr \/ Start
  BY <1>2 DEF StoreMsgNum, StoreCurMsg, StoreCurPtr, StoreErr, Start
<1>3. CASE Woken
  <2>1. Quiet BY <1>3 DEF WInv, IInv, StopIsQuiet, Woken, Finished
  <2> QED BY <1>3, <2>1 DEF Woken, device
<1>4. CASE Expired BY <1>4 DEF Expired
<1>5. CASE Handler
  BY <1>5 DEF Handler, IrqNak, IrqStart, IrqWrite, IrqRead, IrqTaken
<1>6. CASE Device
  BY <1>6 DEF Device, AddressSent, ByteSent, ByteReceived, OperationOver
<1>7. CASE UNCHANGED vars BY <1>7 DEF vars, device
<1> QED BY <1>1, <1>2, <1>3, <1>4, <1>5, <1>6, <1>7 DEF Next, Process

LEMMA DeadAlways ==
  ASSUME Answer = "dead"
  PROVE  Spec => []DInv
<1>1. Init => DInv BY WireInitially DEF DInv, Init, Quiet
<1>2. DInv /\ [Next]_vars => DInv' BY DeadInductive
<1> QED BY <1>1, <1>2, PTL DEF Spec

(* While an interrupt is pending the process is in the wait.               *)
LEMMA InterruptInWait == DInv /\ irq => pc = "wait"
<1> SUFFICES ASSUME DInv, irq PROVE pc = "wait" OBVIOUS
<1>1. pc \notin Stores /\ pc # "idle" BY Busy DEF DInv, Quiet
<1> QED BY <1>1 DEF DInv, WInv, IInv, TypeOK

----------------------------------------------------------------------------
(* The bytes of a request, one by one.                                     *)
LEMMA InWhole ==
  ASSUME NEW ms \in Seq(Messages), NEW b
  PROVE  b \in Service!Whole(ms) <=>
           \E m, i \in Nat : m < Len(ms) /\ i < ms[m + 1].len /\ b = <<m, i, i>>
<1>1. ASSUME b \in Service!Whole(ms)
      PROVE  \E m, i \in Nat : m < Len(ms) /\ i < ms[m + 1].len /\ b = <<m, i, i>>
  <2>1. PICK n \in DOMAIN ms : b \in {<<n - 1, i, i>> : i \in 0 .. ms[n].len - 1}
    BY <1>1 DEF Service!Whole
  <2>2. PICK i \in 0 .. ms[n].len - 1 : b = <<n - 1, i, i>> BY <2>1
  <2>3. ms[n] \in Messages /\ n \in 1 .. Len(ms) OBVIOUS
  <2>4. ms[n].len \in Nat BY <2>3
  <2>5. n - 1 \in Nat /\ n - 1 < Len(ms) /\ i \in Nat /\ i < ms[n].len /\ (n - 1) + 1 = n
    BY <2>3, <2>4
  <2> QED BY <2>2, <2>5
<1>2. ASSUME NEW m \in Nat, NEW i \in Nat, m < Len(ms), i < ms[m + 1].len, b = <<m, i, i>>
      PROVE  b \in Service!Whole(ms)
  <2>1. m + 1 \in DOMAIN ms /\ (m + 1) - 1 = m BY <1>2
  <2>2. ms[m + 1] \in Messages BY <2>1
  <2>3. i \in 0 .. ms[m + 1].len - 1 BY <1>2, <2>2
  <2>4. b \in {<<(m + 1) - 1, j, j>> : j \in 0 .. ms[m + 1].len - 1} BY <1>2, <2>1, <2>3
  <2> QED BY <2>1, <2>4 DEF Service!Whole
<1> QED BY <1>1, <1>2

(* A byte that the handler stores is the next one of the request.          *)
LEMMA ReadIsMove ==
  ASSUME DInv, IrqRead
  PROVE  Service!Move
<1>1. irq /\ ~Quiet /\ state = "READ" BY DEF IrqRead, IrqTaken, Quiet
<1>2. /\ at \in Nat /\ at < Len(msgs) /\ msgs \in Seq(Messages) /\ cur_ptr \in Nat
      /\ pc \notin Stores
  BY <1>1, Busy DEF DInv
<1>3. Received
  BY <1>1, <1>2 DEF DInv, WInv, Told, Wire, IrqRead, Starting, Writing, Written, Reading
<1>4. iicds = cur_ptr /\ moved = Upto(msgs, at, cur_ptr) BY <1>3 DEF Received, MovedUpto
<1>5. cur_ptr < msgs[at + 1].len BY <1>1, <1>2 DEF DInv, WInv, IInv, Aligned
<1> DEFINE b == <<at, cur_ptr, cur_ptr>>
<1>6. b \in Service!Whole(msgs) BY <1>2, <1>5, InWhole
<1>7. b \notin moved BY <1>2, <1>4 DEF Upto
<1>8. ASSUME NEW c \in Service!Whole(msgs) \ moved PROVE c = b \/ Service!Before(b, c)
  <2>1. PICK m \in Nat, i \in Nat : m < Len(msgs) /\ i < msgs[m + 1].len /\ c = <<m, i, i>>
    <3>1. c \in Service!Whole(msgs) BY <1>8
    <3> QED BY <1>2, <3>1, InWhole
  <2>2. ~(m < at \/ (m = at /\ i < cur_ptr)) BY <1>4, <1>8, <2>1 DEF Upto
  <2>3. m > at \/ (m = at /\ i >= cur_ptr) BY <1>2, <2>1, <2>2
  <2> QED BY <1>2, <2>1, <2>3 DEF Service!Before
<1>9. moved' = moved \cup {b} BY <1>4 DEF IrqRead
<1>10. UNCHANGED <<msgs, pc, ret>> /\ pc = "wait"
  BY <1>1, InterruptInWait DEF IrqRead, IrqTaken
<1> HIDE DEF b
<1> QED BY <1>6, <1>7, <1>8, <1>9, <1>10 DEF Service!Move

(* So is a byte that the device has taken.                                 *)
LEMMA WriteIsMove ==
  ASSUME DInv, ByteSent(FALSE)
  PROVE  Service!Move
<1>1. ~Quiet /\ bus = "tx" BY DEF ByteSent, Quiet
<1>2. /\ at \in Nat /\ at < Len(msgs) /\ msgs \in Seq(Messages) /\ pc \notin Stores
      /\ slave.pos \in Nat /\ slave.msg = at /\ msgs[at + 1].len \in Nat
      /\ cur_ptr \in Nat /\ cur_ptr <= msgs[at + 1].len
  BY <1>1, Busy DEF DInv
<1>3. Writing
  BY <1>1, <1>2 DEF DInv, WInv, Told, Wire, Starting, Written, Reading, Received
<1>4. iicds = slave.pos /\ moved = Upto(msgs, at, slave.pos) /\ cur_ptr = slave.pos + 1
  BY <1>3 DEF Writing, MovedUpto
<1>5. slave.pos < msgs[at + 1].len BY <1>2, <1>4
<1> DEFINE b == <<at, slave.pos, slave.pos>>
<1>6. b \in Service!Whole(msgs) BY <1>2, <1>5, InWhole
<1>7. b \notin moved BY <1>2, <1>4 DEF Upto
<1>8. ASSUME NEW c \in Service!Whole(msgs) \ moved PROVE c = b \/ Service!Before(b, c)
  <2>1. PICK m \in Nat, i \in Nat : m < Len(msgs) /\ i < msgs[m + 1].len /\ c = <<m, i, i>>
    <3>1. c \in Service!Whole(msgs) BY <1>8
    <3> QED BY <1>2, <3>1, InWhole
  <2>2. ~(m < at \/ (m = at /\ i < slave.pos)) BY <1>4, <1>8, <2>1 DEF Upto
  <2>3. m > at \/ (m = at /\ i >= slave.pos) BY <1>2, <2>1, <2>2
  <2> QED BY <1>2, <2>1, <2>3 DEF Service!Before
<1>9. moved' = moved \cup {b} BY <1>2, <1>4 DEF ByteSent
<1>10. UNCHANGED <<msgs, pc, ret>> /\ pc # "idle"
  BY <1>1 DEF ByteSent, OperationOver, driver, DInv
<1> HIDE DEF b
<1> QED BY <1>6, <1>7, <1>8, <1>9, <1>10 DEF Service!Move

(* What the driver reports as done is the whole request.                   *)
LEMMA WokenIsReturn ==
  ASSUME DInv, Woken
  PROVE  Service!Return(err)
<1>1. pc = "wait" /\ state = "STOP" /\ pc' = "idle" /\ ret' = err /\ UNCHANGED <<msgs, moved>>
  BY DEF Woken, Finished, driver
<1>2. ASSUME err = "ok" PROVE moved = Service!Whole(msgs)
  <2>1. msgs \in Seq(Messages) BY DEF DInv, WInv, IInv, TypeOK
  <2>2. ASSUME NEW b \in Service!Whole(msgs) PROVE b \in moved
    <3>1. PICK m \in Nat, i \in Nat : m < Len(msgs) /\ i < msgs[m + 1].len /\ b = <<m, i, i>>
      BY <2>1, InWhole
    <3>2. m + 1 \in 1 .. Len(msgs) /\ (m + 1) - 1 = m /\ msgs[m + 1] \in Messages BY <2>1, <3>1
    <3>3. i \in 0 .. msgs[m + 1].len - 1 BY <3>1, <3>2
    <3> QED BY <1>1, <1>2, <3>1, <3>2, <3>3 DEF DInv, WInv, Told, DoneIsWhole
  <2>3. ASSUME NEW b \in moved PROVE b \in Service!Whole(msgs)
    <3>1. PICK a \in Nat, k \in Nat :
            /\ (a < Len(msgs) /\ k <= msgs[a + 1].len) \/ (a = 0 /\ k = 0)
            /\ moved = Upto(msgs, a, k)
      BY DEF DInv, WInv, Told, Kept
    <3>2. a < Len(msgs) /\ k <= msgs[a + 1].len
      <4>1. ~(a = 0 /\ k = 0) BY <2>3, <3>1, UptoZero
      <4> QED BY <3>1, <4>1
    <3>3. /\ b[1] \in Nat /\ b[2] \in Nat /\ b = <<b[1], b[2], b[2]>>
          /\ (b[1] < a /\ b[2] < msgs[b[1] + 1].len) \/ (b[1] = a /\ b[2] < k)
      BY <2>3, <3>1 DEF Upto
    <3>4. b[1] < Len(msgs) /\ msgs[b[1] + 1] \in Messages BY <2>1, <3>2, <3>3
    <3>5. b[2] < msgs[b[1] + 1].len BY <3>2, <3>3, <3>4
    <3> QED BY <2>1, <3>3, <3>4, <3>5, InWhole
  <2> QED BY <2>2, <2>3
<1> QED BY <1>1, <1>2 DEF Service!Return

(* Every step of the driver is one of the service or leaves it as it is.   *)
LEMMA StepIsServiceStep ==
  ASSUME DInv, [Next]_vars
  PROVE  [Service!Next]_(Service!vars)
<1>0. ret # "busy" /\ err \in {"ok", "ENODEV"} BY DEF DInv, WInv, IInv, TypeOK
<1> DEFINE Same == UNCHANGED <<msgs, moved, pc, ret>>
<1>1. Same => UNCHANGED Service!vars BY DEF Service!vars
<1>2. ASSUME NEW r \in Requests, BusXfer(r) PROVE Service!Next
  <2>1. Service!Call(r) BY <1>0, <1>2 DEF BusXfer, Service!Call
  <2> QED BY <2>1 DEF Service!Next
<1>3. CASE StoreMsgNum \/ StoreCurMsg \/ StoreCurPtr \/ StoreErr \/ Start
  BY <1>3 DEF StoreMsgNum, StoreCurMsg, StoreCurPtr, StoreErr, Start, Service!vars
<1>4. CASE Woken
  <2>1. Service!Return(err) BY <1>4, WokenIsReturn
  <2> QED BY <1>0, <2>1 DEF Service!Next, Service!Errors
<1>5. CASE Expired
  <2>1. Service!Return("ETIMEDOUT") BY <1>5 DEF Expired, driver, Service!Return
  <2> QED BY <2>1 DEF Service!Next, Service!Errors
<1>6. CASE IrqNak \/ IrqStart \/ IrqWrite
  <2>1. Same BY <1>6 DEF IrqNak, IrqStart, IrqWrite, IrqTaken
  <2> QED BY <1>1, <2>1
<1>7. CASE IrqRead BY <1>7, ReadIsMove DEF Service!Next
<1>8. ASSUME NEW n \in BOOLEAN, AddressSent(n) PROVE UNCHANGED Service!vars
  BY <1>1, <1>8 DEF AddressSent, OperationOver, driver
<1>9. ASSUME NEW n \in BOOLEAN, ByteSent(n) PROVE [Service!Next]_(Service!vars)
  <2>1. CASE n BY <1>1, <1>9, <2>1 DEF ByteSent, OperationOver, driver
  <2>2. CASE n = FALSE BY <1>9, <2>2, WriteIsMove DEF Service!Next
  <2> QED BY <2>1, <2>2
<1>10. CASE ByteReceived BY <1>1, <1>10 DEF ByteReceived, OperationOver, driver
<1>11. CASE UNCHANGED vars BY <1>1, <1>11 DEF vars, driver
<1> QED BY <1>2, <1>3, <1>4, <1>5, <1>6, <1>7, <1>8, <1>9, <1>10, <1>11
        DEF Next, Process, Handler, Device

(* The driver implements the transfer service: for every set of requests,  *)
(* when a device that is slow is dead.                                     *)
THEOREM Implementation ==
  ASSUME Answer = "dead"
  PROVE  Spec => ImplementsService
<1>1. Init => Service!Init BY DEF Init, Service!Init
<1>2. DInv /\ [Next]_vars => [Service!Next]_(Service!vars) BY StepIsServiceStep
<1> QED BY <1>1, <1>2, DeadAlways, PTL DEF Spec, ImplementsService, Service!Spec
============================================================================
