------------------------------ MODULE SpiFlash ------------------------------
(***************************************************************************)
(* The MTD driver of the SPI flash.  probe clears the chip's protection;   *)
(* then the users of the MTD device erase, read and write it.  Each step   *)
(* of a process is one SPI message (SpiController: the chip sees a message *)
(* whole and in order), and nothing keeps the messages of two calls apart: *)
(* neither the MTD core nor the driver takes a lock.                       *)
(*                                                                         *)
(* The unit of address is the page (256 bytes); a sector has SectorPages   *)
(* of them.  A page holds Erased, the page <<p, i>> of the buffer that     *)
(* user p writes, or Mixed when it was programmed over something else.     *)
(***************************************************************************)
EXTENDS Naturals, FiniteSets

CONSTANTS Users, Probe, NoOne,    \* processes
          SectorPages, Pages,     \* the geometry
          Erased, Mixed,          \* contents of a page
          Factory                 \* what pages may hold before probe

ASSUME UsersAssumption == Probe \notin Users /\ NoOne \notin Users \cup {Probe}
ASSUME PagesAssumption == SectorPages \in Nat \ {0} /\ Pages \in Nat
ASSUME ContentAssumption ==
  /\ Factory \subseteq {Erased, Mixed}
  /\ Erased \notin Users \X Nat /\ Mixed \notin (Users \X Nat) \cup {Erased}

VARIABLES
  pc,      \* by process: "out", "regs", "enable", "command", "poll", "back"
  job,     \* by process: the call [op, first, n] and at, the pages it has done
  ret,     \* by process: what its call is going to return
  regs,    \* the protection bits that probe has read and cleared some of
  registered,             \* mtd_device_register was called
  busy, wel, doing,       \* the chip: BUSY, WEL, what it is busy with
  protect, cell,          \* its protection bits and its pages
  seen,    \* by process: the pages that its read returned
  alone,   \* history: the user whose call no other call has overlapped
  before   \* history: the pages when that call began

calls == <<pc, job, ret, regs, registered, seen>>
chip == <<busy, wel, doing, protect, cell>>
history == <<alone, before>>
vars == <<calls, chip, history>>

Procs == Users \cup {Probe}
AllPages == 0 .. Pages - 1
Bits == {"srp0", "srp1", "bp", "cmp"}
Contents == (Users \X AllPages) \cup {Erased, Mixed}
Nothing == [op |-> "none", first |-> 0, n |-> 0, at |-> 0]

(* The calls the MTD core lets through: inside the device, not empty.      *)
Calls == {c \in [op : {"erase", "read", "write"}, first : AllPages,
                 n : 1 .. Pages, at : {0}] : c.first + c.n <= Pages}

Covers(c) == c.first .. c.first + c.n - 1
isAligned(c) == c.first % SectorPages = 0 /\ c.n % SectorPages = 0
Size(c) == IF c.op = "erase" THEN SectorPages ELSE 1

Init ==
  /\ pc = [p \in Procs |-> IF p = Probe THEN "regs" ELSE "out"]
  /\ job = [p \in Procs |-> IF p = Probe THEN [Nothing EXCEPT !.op = "status", !.n = 2]
                            ELSE Nothing]
  /\ ret = [p \in Procs |-> "none"]
  /\ regs = {} /\ registered = FALSE
  /\ busy = FALSE /\ wel = FALSE /\ doing = [op |-> "none", at |-> 0, by |-> NoOne]
  /\ protect \in SUBSET (Bits \ {"srp1"})
  /\ cell \in [AllPages -> Factory]
  /\ seen = [p \in Procs |-> <<>>]
  /\ alone = NoOne /\ before = [pg \in AllPages |-> Erased]
----------------------------------------------------------------------------
(* spi_flash_probe: SPI_Flash_Init, then mtd_device_register.  The first   *)
(* round clears SRP0 and SRP1, the second CMP and the block bits.          *)
ReadRegs ==
  /\ pc[Probe] = "regs"
  /\ regs' = protect \ (IF job[Probe].at = 0 THEN {"srp0", "srp1"} ELSE {"bp", "cmp"})
  /\ pc' = [pc EXCEPT ![Probe] = "enable"]
  /\ UNCHANGED <<job, ret, registered, seen, chip, history>>

Register ==
  /\ pc[Probe] = "back" /\ ~registered
  /\ registered' = TRUE
  /\ regs' = {}
  /\ UNCHANGED <<pc, job, ret, seen, chip, history>>

(* A user's call: spi_flash_erase, spi_flash_write or spi_flash_read.      *)
Overlaps(p) == \E q \in Users \ {p} : pc[q] # "out"

Call(p, c) ==
  /\ registered /\ pc[p] = "out"
  /\ job' = [job EXCEPT ![p] = c]
  /\ pc' = [pc EXCEPT ![p] = CASE c.op = "read" -> "command"
                              [] c.op # "read" /\ isAligned(c) -> "enable"
                              [] OTHER -> "back"]
  /\ ret' = [ret EXCEPT ![p] = IF c.op = "read" \/ isAligned(c) THEN "ok" ELSE "EINVAL"]
  /\ IF Overlaps(p) THEN alone' = NoOne /\ before' = [pg \in AllPages |-> Erased]
     ELSE alone' = p /\ before' = cell
  /\ seen' = [seen EXCEPT ![p] = <<>>]
  /\ UNCHANGED <<regs, registered, chip>>

Return(p) ==
  /\ p \in Users /\ pc[p] = "back"
  /\ pc' = [pc EXCEPT ![p] = "out"]
  /\ job' = [job EXCEPT ![p] = Nothing]
  /\ ret' = [ret EXCEPT ![p] = "none"]
  /\ seen' = [seen EXCEPT ![p] = <<>>]
  /\ alone' = NoOne /\ before' = [pg \in AllPages |-> Erased]
  /\ UNCHANGED <<regs, registered, chip>>

(* SPI_Flash_Write_Enable: the chip takes no command but a status read     *)
(* while it is busy.                                                       *)
WriteEnable(p) ==
  /\ pc[p] = "enable"
  /\ pc' = [pc EXCEPT ![p] = "command"]
  /\ wel' = (wel \/ ~busy)
  /\ UNCHANGED <<job, ret, regs, registered, seen, busy, doing, protect, cell, history>>

(* The command itself (0x20, 0x02, 0x01): ignored by a chip that is busy,  *)
(* not enabled, or protected; SRP1 locks the status register.              *)
Accepts(op) ==
  /\ wel /\ ~busy
  /\ IF op = "status" THEN "srp1" \notin protect
     ELSE protect \cap {"bp", "cmp"} = {}

Command(p) ==
  /\ pc[p] = "command" /\ job[p].op # "read"
  /\ pc' = [pc EXCEPT ![p] = "poll"]
  /\ IF Accepts(job[p].op)
     THEN /\ busy' = TRUE
          /\ doing' = [op |-> job[p].op, at |-> job[p].at, by |-> p]
     ELSE UNCHANGED <<busy, doing>>
  /\ UNCHANGED <<job, ret, regs, registered, seen, wel, protect, cell, history>>

(* SPI_Flash_Wait_Busy, and the loop around it: the next sector, page or   *)
(* register pair, or the end of the call.                                  *)
Advance(p, k) ==
  /\ job' = [job EXCEPT ![p].at = @ + k]
  /\ pc' = [pc EXCEPT ![p] = IF job[p].at + k >= job[p].n THEN "back"
                             ELSE IF p = Probe THEN "regs" ELSE "enable"]

BugPoll(p) ==
  /\ pc[p] = "poll"
  /\ Advance(p, Size(job[p]))
  /\ UNCHANGED <<ret, regs, registered, seen, chip, history>>

BugPollPage(p) ==
  /\ pc[p] = "poll" /\ ~busy
  /\ Advance(p, SectorPages)
  /\ UNCHANGED <<ret, regs, registered, seen, chip, history>>

Poll(p) ==
  /\ pc[p] = "poll" /\ ~busy
  /\ Advance(p, Size(job[p]))
  /\ UNCHANGED <<ret, regs, registered, seen, chip, history>>

(* SPI_Flash_Read: one message, without a look at BUSY.                    *)
ReadData(p) ==
  /\ pc[p] = "command" /\ job[p].op = "read"
  /\ pc' = [pc EXCEPT ![p] = "back"]
  /\ seen' = [seen EXCEPT ![p] =
       [i \in 0 .. job[p].n - 1 |-> IF busy THEN Mixed ELSE cell[job[p].first + i]]]
  /\ UNCHANGED <<job, ret, regs, registered, chip, history>>
----------------------------------------------------------------------------
(* The chip, external: what it is busy with takes effect, and WEL is       *)
(* cleared.  A program clears bits only.                                   *)
Program(old, new) == CASE old = Erased -> new
                       [] old = new -> new
                       [] OTHER -> Mixed

Done(pg) ==
  LET first == job[doing.by].first + doing.at IN
  CASE doing.op = "erase" /\ pg \in first .. first + SectorPages - 1 -> Erased
    [] doing.op = "write" /\ pg = first -> Program(cell[pg], <<doing.by, doing.at>>)
    [] OTHER -> cell[pg]

BusyEnds ==
  /\ busy
  /\ busy' = FALSE /\ wel' = FALSE
  /\ protect' = IF doing.op = "status" THEN regs ELSE protect
  /\ cell' = [pg \in AllPages |-> Done(pg)]
  /\ doing' = [op |-> "none", at |-> 0, by |-> NoOne]
  /\ UNCHANGED <<calls, history>>
----------------------------------------------------------------------------
Step(p) == WriteEnable(p) \/ Command(p) \/ Poll(p) \/ ReadData(p) \/ Return(p)

Next ==
  \/ ReadRegs \/ Register
  \/ \E p \in Users, c \in Calls : Call(p, c)
  \/ \E p \in Procs : Step(p)
  \/ BusyEnds

Spec == Init /\ [][Next]_vars
----------------------------------------------------------------------------
(* A call that no other one overlaps does what it was asked to, and only   *)
(* that: a read returns the pages, an erase or a write has changed those   *)
(* it covers, all of them and no others, when it returns.                  *)
AloneWorks ==
  alone # NoOne /\ pc[alone] = "back" =>
    LET c == job[alone] IN
    \A pg \in AllPages :
      CASE ret[alone] = "EINVAL" \/ pg \notin Covers(c) -> cell[pg] = before[pg]
        [] OTHER ->
           CASE c.op = "read" -> cell[pg] = before[pg] /\ seen[alone][pg - c.first] = cell[pg]
             [] c.op = "erase" -> cell[pg] = Erased
             [] c.op = "write" -> cell[pg] = Program(before[pg], <<alone, pg - c.first>>)

(* However calls overlap, a page changes only while a call that covers it  *)
(* is waiting for the chip: what a call does is over when it returns.      *)
ChangesInsideCalls ==
  [][\A pg \in AllPages : cell'[pg] # cell[pg] =>
       \E p \in Users : /\ pc[p] = "poll"
                        /\ job[p].op \in {"erase", "write"} /\ pg \in Covers(job[p])]_vars

(* However calls overlapped, with none in progress the chip is idle and    *)
(* its write enable latch is clear.                                        *)
RestsDisabled ==
  registered /\ (\A p \in Users : pc[p] = "out") => ~busy /\ ~wel
==============================================================================
