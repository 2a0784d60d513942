------------------------------- MODULE Secbulk -------------------------------
(***************************************************************************)
(* The USB driver that dnw writes to.  One process may have the device     *)
(* open; but an open gives the device a new buffer before it finds out     *)
(* whether it is the only one, a refused one leaves it there, and a        *)
(* release frees whatever buffer the device has by then.                   *)
(*                                                                         *)
(* A write is a loop of copies into the buffer and bulk messages out of    *)
(* it.  Where the driver follows a pointer to nothing, writes to memory or *)
(* frees memory that it has freed before, or has freed what an open file   *)
(* points to, the model stops.                                             *)
(***************************************************************************)
EXTENDS Naturals

CONSTANTS Writers,    \* processes
          Blocks,     \* the blocks of memory that kzalloc may give it
          NoBlock,    \* NULL
          MaxChunks   \* the bulk messages of one write, at most

ASSUME SecbulkAssumption == NoBlock \notin Blocks /\ MaxChunks \in Nat

VARIABLES
  plugged,         \* "out", "probing", "in" or "leaving"
  bulkout_buffer,  \* of the device: a block or NoBlock
  io_mutex,        \* it is held
  used,            \* the blocks that are allocated
  holds,           \* by block: the chunk in it, or Zero
  opened,          \* the processes that have the device open
  doing,           \* by process: "idle"; in an open, "try"; in a write, "copy"
                   \* or "send"; in a release, "unlock"
  len,             \* by process: the chunks its write has still to send
  broken,          \* a bad pointer was followed, or will be
  disturbed,       \* history: writers during whose write there was an open
  spoilt           \* history: since the device was given a buffer, an open found
                   \* no memory, or a release came between two steps of one

bulkDev == <<plugged, bulkout_buffer, io_mutex>>
memory == <<used, holds>>
writes == <<opened, doing, len>>
secbulk == <<bulkDev, memory, writes, broken, disturbed, spoilt>>

Zero == <<>>
Chunk(p) == <<p, len[p]>>

SecbulkInit ==
  /\ plugged = "out" /\ bulkout_buffer = NoBlock /\ io_mutex = FALSE
  /\ used = {} /\ holds = [b \in Blocks |-> Zero]
  /\ opened = {} /\ doing = [p \in Writers |-> "idle"] /\ len = [p \in Writers |-> 0]
  /\ broken = FALSE /\ disturbed = {} /\ spoilt = FALSE
----------------------------------------------------------------------------
At(p, place) == doing[p] = place
Goes(p, place) == doing' = [doing EXCEPT ![p] = place]

(* secbulk_probe: the device can be opened from usb_register_dev on, but   *)
(* has no data before usb_set_intfdata.                                    *)
Probe ==
  /\ plugged = "out" /\ plugged' = "probing"
  /\ UNCHANGED <<bulkout_buffer, io_mutex, memory, writes, broken, disturbed, spoilt>>

ProbeEnds ==
  /\ plugged = "probing" /\ plugged' = "in"
  /\ bulkout_buffer' = NoBlock /\ io_mutex' = FALSE
  /\ UNCHANGED <<memory, writes, broken, disturbed, spoilt>>

(* secbulk_disconnect: the device's data is freed, whoever has it open or  *)
(* is opening it, and it can be opened until usb_deregister_dev.           *)
Disconnect ==
  /\ plugged = "in" /\ plugged' = "leaving"
  /\ broken' = (opened # {} \/ \E p \in Writers : At(p, "try"))
  /\ UNCHANGED <<bulkout_buffer, io_mutex, memory, writes, disturbed, spoilt>>

Disconnected ==
  /\ plugged = "leaving" /\ plugged' = "out"
  /\ UNCHANGED <<bulkout_buffer, io_mutex, memory, writes, broken, disturbed, spoilt>>
----------------------------------------------------------------------------
(* secbulk_open: kzalloc, which may fail at any time, and mutex_trylock.   *)
Opens(p, place) == p \notin opened /\ At(p, "idle") /\ plugged \in place

OpenNothing(p) ==
  /\ Opens(p, {"probing", "leaving"})
  /\ broken' = TRUE
  /\ UNCHANGED <<bulkDev, memory, writes, disturbed, spoilt>>

NoMemory(p) ==
  /\ Opens(p, {"in"})
  /\ bulkout_buffer' = NoBlock
  /\ disturbed' = Writers /\ spoilt' = TRUE
  /\ UNCHANGED <<plugged, io_mutex, memory, writes, broken>>

NewBuffer(p) ==
  /\ Opens(p, {"in"}) /\ Goes(p, "try")
  /\ \E b \in Blocks \ used :
       /\ used' = used \cup {b}
       /\ holds' = [holds EXCEPT ![b] = Zero]
       /\ bulkout_buffer' = b
  /\ disturbed' = Writers /\ spoilt' = FALSE
  /\ UNCHANGED <<plugged, io_mutex, opened, len, broken>>

BugBulkOpen(p) ==
  /\ At(p, "try") /\ Goes(p, "idle")
  /\ io_mutex' = TRUE /\ opened' = opened \cup {p}
  /\ UNCHANGED <<plugged, bulkout_buffer, memory, len, broken, disturbed, spoilt>>

BulkOpen(p) ==
  /\ At(p, "try") /\ Goes(p, "idle")
  /\ io_mutex' = TRUE /\ opened' = IF io_mutex THEN opened ELSE opened \cup {p}
  /\ UNCHANGED <<plugged, bulkout_buffer, memory, len, broken, disturbed, spoilt>>

(* secbulk_release: kfree and mutex_unlock                                 *)
FreeBuffer(p) ==
  /\ p \in opened /\ At(p, "idle") /\ Goes(p, "unlock")
  /\ used' = used \ {bulkout_buffer}
  /\ broken' = (bulkout_buffer \notin used \cup {NoBlock})
  /\ spoilt' = (spoilt \/ \E q \in Writers : At(q, "try"))
  /\ UNCHANGED <<bulkDev, holds, opened, len, disturbed>>

BulkRelease(p) ==
  /\ At(p, "unlock") /\ Goes(p, "idle") /\ opened' = opened \ {p}
  /\ io_mutex' = FALSE
  /\ UNCHANGED <<plugged, bulkout_buffer, memory, len, broken, disturbed, spoilt>>
----------------------------------------------------------------------------
(* secbulk_write: the buffer's address is read anew each time.             *)
BulkWrite(p) ==
  /\ p \in opened /\ At(p, "idle") /\ Goes(p, "copy")
  /\ \E n \in 1 .. MaxChunks : len' = [len EXCEPT ![p] = n]
  /\ disturbed' = disturbed \ {p}
  /\ UNCHANGED <<bulkDev, memory, opened, broken, spoilt>>

CopyIn(p) ==
  /\ At(p, "copy") /\ Goes(p, "send")
  /\ IF bulkout_buffer \in used
     THEN holds' = [holds EXCEPT ![bulkout_buffer] = Chunk(p)] /\ UNCHANGED broken
     ELSE broken' = TRUE /\ UNCHANGED holds
  /\ UNCHANGED <<bulkDev, used, opened, len, disturbed, spoilt>>

SendOut(p) ==
  /\ At(p, "send") /\ Goes(p, IF len[p] = 1 THEN "idle" ELSE "copy")
  /\ len' = [len EXCEPT ![p] = @ - 1]
  /\ broken' = (bulkout_buffer = NoBlock)
  /\ UNCHANGED <<bulkDev, memory, opened, disturbed, spoilt>>

(* copy_from_user or usb_bulk_msg fails.                                   *)
GiveUp(p) ==
  /\ At(p, "copy") \/ At(p, "send")
  /\ Goes(p, "idle")
  /\ UNCHANGED <<bulkDev, memory, opened, len, broken, disturbed, spoilt>>

WriterSteps(p) ==
  \/ OpenNothing(p) \/ NoMemory(p) \/ NewBuffer(p) \/ BulkOpen(p)
  \/ FreeBuffer(p) \/ BulkRelease(p)
  \/ BulkWrite(p) \/ CopyIn(p) \/ SendOut(p) \/ GiveUp(p)

SecbulkNext ==
  /\ ~broken
  /\ Probe \/ ProbeEnds \/ Disconnect \/ Disconnected \/ \E p \in Writers : WriterSteps(p)

SecbulkSpec == SecbulkInit /\ [][SecbulkNext]_secbulk
----------------------------------------------------------------------------
(* A write copies into memory that is the driver's, and what a bulk        *)
(* message carries is what its writer copied for it, unless somebody has   *)
(* begun to open the device since the write began, or the buffer was       *)
(* spoilt before: no other refused open, failed write, release or removed  *)
(* device does it harm.                                                    *)
SendsItsOwn ==
  [][~spoilt =>
       \A p \in Writers \ disturbed :
         /\ CopyIn(p) => bulkout_buffer \in used
         /\ SendOut(p) => bulkout_buffer \in used /\ holds[bulkout_buffer] = Chunk(p)]_secbulk
============================================================================
