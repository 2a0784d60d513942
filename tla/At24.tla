------------------------------- MODULE At24 -------------------------------
(***************************************************************************)
(* The AT24Cxx EEPROM driver over the I2C bus: processes that read and     *)
(* write one byte through /dev/at24cxx, the SMBus calls of the i2c core,   *)
(* which turn each into one bus transfer, and the chip.  The bus is        *)
(* I2cService, which I2cAdapter implements: the transfer is in the shared  *)
(* variables req, moved and result.                                        *)
(*                                                                         *)
(* The chip keeps an address counter, takes a byte into a latch, and       *)
(* programs it when the transfer stops; until that is over it acknowledges *)
(* nothing.  The driver neither waits for it nor tries again.  A transfer  *)
(* that is reported as timed out may have stopped all the same: the wait   *)
(* of the bus driver can run out just as its last interrupt ends it.       *)
(***************************************************************************)
EXTENDS Integers, Sequences

CONSTANTS Procs,      \* processes that have the device open
          Size,       \* the chip's cells are 0 .. Size - 1
          Bytes,      \* the values tried
          Reads,      \* processes of Procs that read; the others write
          Faults      \* TRUE: the bus may fail besides the chip being busy

ASSUME SizeAssumption == Size \in Nat \ {0}
ASSUME BytesAssumption == Bytes \subseteq 0 .. 255 /\ Bytes # {}
ASSUME ReadsAssumption == Reads \subseteq Procs
ASSUME FaultsAssumption == Faults \in BOOLEAN

VARIABLES pc,       \* what each process is in: "idle", "call" (waits for the
                    \* adapter), "bus" (has it), "back" (the core returned)
          address,  \* the local variables address and data of the handler
          data,
          status,   \* what the SMBus call returned to it
          out,      \* until a call begins: what the handler that returned last
                    \* gave, a reader in buf[0] or a writer as its result
          req, moved, result,           \* the bus
          cell, word, latch, writing,   \* the chip
          held      \* history, by cell: the bytes it may hold, that is the one
                    \* whose writing was reported last and the ones of the
                    \* writes that timed out since

bus == <<req, moved, result>>
chip == <<cell, word, latch, writing>>
locals == <<address, data, status, out>>
vars == <<pc, locals, bus, chip, held>>

Cells == 0 .. Size - 1

(* What the core sends for i2c_smbus_write_byte_data and read_byte_data.   *)
WriteByteData == <<[rd |-> FALSE, len |-> 2]>>
ReadByteData == <<[rd |-> FALSE, len |-> 1], [rd |-> TRUE, len |-> 1]>>

Service == INSTANCE I2cService WITH Requests <- {WriteByteData, ReadByteData}

(* A negative errno stored into an unsigned char: ENODEV 19, ETIMEDOUT 110.*)
errno == [ENODEV |-> 19, ETIMEDOUT |-> 110]
UnsignedChar(e) == 256 - errno[e]

Init ==
  /\ pc = [p \in Procs |-> "idle"]
  /\ address = [p \in Procs |-> 0]
  /\ data = [p \in Procs |-> 0]
  /\ status = [p \in Procs |-> "none"]
  /\ out = 0
  /\ Service!Init
  /\ cell \in [Cells -> Bytes] /\ held = [a \in Cells |-> {cell[a]}]
  /\ word = 0 /\ latch = 0 /\ writing = FALSE
----------------------------------------------------------------------------
(* A name that begins with Bug is the definition after it with a bug that  *)
(* the code might have had: here, locals that all processes share.         *)
BugBegin(p) ==
  /\ pc[p] = "idle"
  /\ pc' = [pc EXCEPT ![p] = "call"]
  /\ \E a \in Cells : address' = [q \in Procs |-> a]
  /\ IF p \in Reads THEN UNCHANGED data
     ELSE \E b \in Bytes : data' = [data EXCEPT ![p] = b]
  /\ out' = 0
  /\ UNCHANGED <<status, bus, chip, held>>

(* The handlers copy the user's bytes into locals, then call the core.     *)
Begin(p) ==
  /\ pc[p] = "idle"
  /\ pc' = [pc EXCEPT ![p] = "call"]
  /\ \E a \in Cells : address' = [address EXCEPT ![p] = a]
  /\ IF p \in Reads THEN UNCHANGED data
     ELSE \E b \in Bytes : data' = [data EXCEPT ![p] = b]
  /\ out' = 0
  /\ UNCHANGED <<status, bus, chip, held>>

(* i2c_smbus_xfer: the core locks the adapter and starts the transfer.     *)
Transfer(p) ==
  /\ pc[p] = "call"
  /\ \A q \in Procs : pc[q] # "bus"
  /\ Service!Call(IF p \in Reads THEN ReadByteData ELSE WriteByteData)
  /\ pc' = [pc EXCEPT ![p] = "bus"]
  /\ UNCHANGED <<locals, chip, held>>

(* One byte of the transfer of p crosses the bus.                          *)
AddressByte(p) == word' = address[p] /\ UNCHANGED <<data, cell, latch, writing>>

DataByte(p) == latch' = data[p] /\ UNCHANGED <<data, cell, word, writing>>

ReadByte(p) ==
  /\ data' = [data EXCEPT ![p] = cell[word]]
  /\ word' = (word + 1) % Size
  /\ UNCHANGED <<cell, latch, writing>>

Byte(p) ==
  /\ pc[p] = "bus" /\ ~writing
  /\ Service!Move
  /\ \E b \in moved' \ moved :
       LET rd == req[b[1] + 1].rd IN
       \/ ~rd /\ b[2] = 0 /\ AddressByte(p)
       \/ ~rd /\ b[2] = 1 /\ DataByte(p)
       \/ rd /\ ReadByte(p)
  /\ UNCHANGED <<pc, address, status, out, held>>

(* The stop after a whole write makes the chip program, unless the bus     *)
(* driver never came to it: then the call has timed out.                   *)
Stops(p, e) == p \notin Reads /\ moved = Service!Whole(req) /\ e # "ENODEV"

Program == cell' = [cell EXCEPT ![word] = latch] /\ writing' = TRUE

(* The transfer of p ends.                                                 *)
Over(p, e) ==
  /\ pc[p] = "bus"
  /\ e = "ok" \/ Faults \/ (writing /\ e = "ENODEV")
  /\ Service!Return(e)
  /\ pc' = [pc EXCEPT ![p] = "back"]
  /\ status' = [status EXCEPT ![p] = e]
  /\ \/ Stops(p, e) /\ Program
     \/ ~(Stops(p, e) /\ e = "ok") /\ UNCHANGED <<cell, writing>>
  /\ held' = IF p \in Reads \/ e = "ENODEV" THEN held
             ELSE [held EXCEPT ![address[p]] =
                     IF e = "ok" THEN {data[p]} ELSE @ \cup {data[p]}]
  /\ UNCHANGED <<address, data, out, word, latch>>

(* at24cxx_read: the int that the call gives goes into an unsigned char.   *)
ReadReturns(p) ==
  /\ pc[p] = "back" /\ p \in Reads
  /\ out' = IF status[p] = "ok" THEN data[p] ELSE UnsignedChar(status[p])

(* at24cxx_write: 2, or -EIO (5).                                          *)
WriteReturns(p) ==
  /\ pc[p] = "back" /\ p \notin Reads
  /\ out' = IF status[p] = "ok" THEN 2 ELSE -5

(* The handler's locals are gone with it.                                  *)
Return(p) ==
  /\ ReadReturns(p) \/ WriteReturns(p)
  /\ pc' = [pc EXCEPT ![p] = "idle"]
  /\ address' = [address EXCEPT ![p] = 0] /\ data' = [data EXCEPT ![p] = 0]
  /\ status' = [status EXCEPT ![p] = "none"]
  /\ UNCHANGED <<bus, chip, held>>

WriteCycleEnds ==
  /\ writing /\ writing' = FALSE
  /\ UNCHANGED <<pc, locals, bus, cell, word, latch, held>>

Next ==
  \/ \E p \in Procs : Begin(p) \/ Transfer(p) \/ Byte(p) \/ Return(p)
  \/ \E p \in Procs, e \in Service!Errors \cup {"ok"} : Over(p, e)
  \/ WriteCycleEnds

Spec == Init /\ [][Next]_vars
----------------------------------------------------------------------------
(* A read that the bus reports as done has the byte whose writing to that  *)
(* address was reported last, or that of a write to it which timed out     *)
(* since; never one of another address or of a write that failed in any    *)
(* other way, whatever other processes read and write in between (both     *)
(* calls are one bus transfer, so the chip's address counter is not        *)
(* shared).                                                                *)
ReadIsLastWrite ==
  [][\A p \in Reads : pc[p] = "bus" /\ pc'[p] = "back" /\ status'[p] = "ok"
                       => data[p] \in held[address[p]]]_vars

(* What the comment over at24cxx_read says of the user's buffer - "output: *)
(* buf[0] : data" - is that after a read it has a byte of the chip.        *)
ReadOutputsData == [][\A p \in Reads : ReadReturns(p) => out' \in Bytes]_vars
============================================================================
