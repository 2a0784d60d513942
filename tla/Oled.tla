-------------------------------- MODULE Oled --------------------------------
(***************************************************************************)
(* The OLED driver.  The chip takes a byte for a command or for data by    *)
(* the level of its D/C line, which the driver sets outside the SPI        *)
(* message the byte is in; no lock keeps one process's line and messages   *)
(* apart from another's.  SpiController moves one message at a time, whole *)
(* and in order, and of one without bytes the first of the buffer; the     *)
(* line may change between two bytes of a message.                         *)
(*                                                                         *)
(* A column's number is two digits, the lower one of base Digit (16 of the *)
(* 128 columns), which the chip gets in two commands.                      *)
(***************************************************************************)
EXTENDS Naturals, Sequences

CONSTANTS Users, Nobody,    \* processes
          Pages, Digit,     \* the geometry: Highs * Digit columns
          Highs,
          MaxWrite,         \* the bytes of one write, at most
          Ink,              \* the data that users write
          Joining           \* the calls that begin while another is under way

ASSUME OledAssumption ==
  /\ Nobody \notin Users /\ Pages \in Nat \ {0} /\ Digit \in Nat \ {0, 1}
  /\ Highs \in Nat \ {0}
  /\ MaxWrite \in Nat \ {0} /\ Ink \subseteq Nat \ {0, 1}

VARIABLES
  call,    \* by process: what its system call is, or Idle
  todo,    \* by process: the bytes that its call has still to send
  at,      \* by process: "set", "send" or "restore"
  spi_buf, \* the buffer that every write copies to and sends from
  wires,   \* the process whose message is on the wires, or Nobody
  dc,      \* the D/C line: 0 command, 1 data
  page, col,    \* the chip: where the next data goes
  place, ram,   \* one place of the screen, any, and what is shown there
  mine,    \* history: the process whose call no other has overlapped
  old      \* history: [page, col, ram, dc] when that call began

driver == <<call, todo, at, spi_buf, wires, dc>>
panel == <<page, col, place, ram>>
oled == <<driver, panel, mine, old>>

Cols == Highs * Digit
AllPages == 0 .. Pages - 1
Places == AllPages \X (0 .. Cols - 1)
Idle == [op |-> "none"]
Shown == [page |-> page, col |-> col, ram |-> ram, dc |-> dc]
NotShown == [page |-> 0, col |-> 0, ram |-> 0, dc |-> 0]

(* A byte is a command, a number of some kind, or data.                    *)
Cmd(op, n) == [dc |-> 0, op |-> op, n |-> n]
Data(n) == [dc |-> 1, op |-> "data", n |-> n]
Keep == 2                                        \* write leaves the line alone
Buffered(i) == [dc |-> Keep, op |-> "buffer", n |-> i]
Garbage == 1                                     \* a command's byte taken for data

BugOLED_Set_Pos(p, c) == <<Cmd("page", p), Cmd("low", c % Digit)>>

OLED_Set_Pos(p, c) == <<Cmd("page", p), Cmd("low", c % Digit), Cmd("high", c \div Digit)>>

Zeros == [i \in 1 .. Cols |-> Data(0)]

(* Both loops are over pages: the position of the beginning, then zeros.   *)
PageOfZeros(p) == OLED_Set_Pos(p, 0) \o Zeros

OLED_Clear_Page(p) == PageOfZeros(p) \o PageOfZeros(p + 1)

OLED_Clear ==
  LET one == Len(PageOfZeros(0))
  IN [k \in 1 .. Pages * one |-> PageOfZeros((k - 1) \div one)[((k - 1) % one) + 1]]

(* The settings end with the addressing mode; the display goes on last.    *)
OLED_Init == <<Cmd("setting", 0)>> \o OLED_Clear \o <<Cmd("setting", 0)>>

Calls ==
  {[op |-> "init"], [op |-> "clear"]}
  \cup [op : {"clear_page"}, page : AllPages]
  \cup [op : {"set_pos"}, page : AllPages, col : 0 .. Cols - 1]
  \cup [op : {"write"}, buf : UNION {[1 .. n -> Ink] : n \in 0 .. MaxWrite}]

(* spi_write of count 0 puts the buffer's first byte on the wire too: the  *)
(* controller begins a message before it looks at its length.              *)
Message(buf) ==
  [i \in 1 .. (IF buf = <<>> THEN 1 ELSE Len(buf)) |-> Buffered(i)]

Sequence(c) ==
  CASE c.op = "init" -> OLED_Init
    [] c.op = "clear" -> OLED_Clear
    [] c.op = "clear_page" -> OLED_Clear_Page(c.page)
    [] c.op = "set_pos" -> OLED_Set_Pos(c.page, c.col)
    [] c.op = "write" -> Message(c.buf)

(* probe makes the line an output, and sets no level; the buffer comes     *)
(* from kmalloc with anything in it.                                       *)
OledInit ==
  /\ call = [u \in Users |-> Idle] /\ todo = [u \in Users |-> <<>>]
  /\ at = [u \in Users |-> "set"] /\ wires = Nobody
  /\ \E n \in Ink \cup {0} : spi_buf = [i \in 1 .. MaxWrite |-> n]
  /\ dc \in {0, 1}
  /\ page = 0 /\ col = 0 /\ place \in Places /\ ram = 0
  /\ mine = Nobody /\ old = NotShown
----------------------------------------------------------------------------
(* The system calls.                                                       *)
First(c) == IF c.op = "write" THEN "send" ELSE "set"

OledCall(u, c) ==
  /\ call[u] = Idle
  /\ (\A v \in Users : call[v] = Idle) \/ c.op \in Joining
  /\ call' = [call EXCEPT ![u] = c]
  /\ todo' = [todo EXCEPT ![u] = Sequence(c)]
  /\ at' = [at EXCEPT ![u] = First(c)]
  /\ spi_buf' = IF c.op = "write" THEN [i \in DOMAIN spi_buf |->
                   IF i \in DOMAIN c.buf THEN c.buf[i] ELSE spi_buf[i]] ELSE spi_buf
  /\ mine' = IF \A v \in Users : call[v] = Idle THEN u ELSE Nobody
  /\ old' = IF mine' = u THEN Shown ELSE NotShown
  /\ UNCHANGED <<wires, dc, panel>>

OledReturn(u) ==
  /\ call[u] # Idle /\ todo[u] = <<>> /\ at[u] # "restore"
  /\ call' = [call EXCEPT ![u] = Idle]
  /\ mine' = Nobody /\ old' = NotShown
  /\ UNCHANGED <<todo, at, spi_buf, wires, dc, panel>>

SetDC(u) ==
  /\ at[u] = "set" /\ todo[u] # <<>>
  /\ dc' = Head(todo[u]).dc
  /\ at' = [at EXCEPT ![u] = "send"]
  /\ UNCHANGED <<call, todo, spi_buf, wires, panel, mine, old>>

RestoreDC(u) ==
  /\ at[u] = "restore"
  /\ dc' = 1
  /\ at' = [at EXCEPT ![u] = "set"]
  /\ UNCHANGED <<call, todo, spi_buf, wires, panel, mine, old>>

(* What the chip does with a byte, by the line: external.  Data moves on   *)
(* in the page, and from its end to its beginning.  Of data taken for a    *)
(* command nothing is known but that 0 sets the low digit.                 *)
Value(b) == CASE b.op = "buffer" -> spi_buf[b.n]
              [] b.op \in {"data", "low"} -> b.n
              [] OTHER -> Garbage

TakeData(n) ==
  /\ ram' = IF place = <<page, col>> THEN n ELSE ram
  /\ col' = (col + 1) % Cols
  /\ UNCHANGED <<page, place>>

SetsPage(b) == b.op = "page" /\ page' = (IF b.n < Pages THEN b.n ELSE page) /\ UNCHANGED col
SetsLow(b) == b.op = "low" /\ col' = Digit * (col \div Digit) + b.n /\ UNCHANGED page
SetsHigh(b) == b.op = "high" /\ col' = Digit * b.n + (col % Digit) /\ UNCHANGED page
Sets(b) == b.op = "setting" /\ UNCHANGED <<page, col>>
Mistaken(b) ==
  /\ b.op \in {"data", "buffer"}
  /\ IF Value(b) = 0 THEN col' = Digit * (col \div Digit) /\ UNCHANGED page
     ELSE page' \in AllPages /\ col' \in 0 .. Cols - 1

TakeCommand(b) ==
  /\ SetsPage(b) \/ SetsLow(b) \/ SetsHigh(b) \/ Sets(b) \/ Mistaken(b)
  /\ UNCHANGED <<place, ram>>

(* spi_write: a message of one byte, or the next byte of write's.          *)
Send(u) ==
  /\ at[u] = "send" /\ todo[u] # <<>> /\ wires \in {Nobody, u}
  /\ LET b == Head(todo[u]) IN
       /\ IF dc = 1 THEN TakeData(Value(b)) ELSE TakeCommand(b)
       /\ at' = [at EXCEPT ![u] = IF b.dc = Keep THEN "send" ELSE "restore"]
       /\ wires' = IF b.dc = Keep /\ Len(todo[u]) > 1 THEN u ELSE Nobody
  /\ todo' = [todo EXCEPT ![u] = Tail(@)]
  /\ UNCHANGED <<call, spi_buf, dc, mine, old>>

OledNext ==
  \E u \in Users : \/ \E c \in Calls : OledCall(u, c)
                   \/ OledReturn(u) \/ SetDC(u) \/ Send(u) \/ RestoreDC(u)

OledSpec == OledInit /\ [][OledNext]_oled
----------------------------------------------------------------------------
(* What a call is for.  clear_page clears two pages, the second only if    *)
(* there is one.  write goes on from where the last call stopped; one of   *)
(* no bytes may change the place that is next, and no other.               *)
Blank(pages) == IF place[1] \in pages THEN 0 ELSE old.ram

Written(buf) ==
  LET here == {i \in DOMAIN buf : place = <<old.page, (old.col + i - 1) % Cols>>}
  IN IF here = {} THEN old.ram ELSE buf[CHOOSE i \in here : \A j \in here : j <= i]

At(s) == <<s.page, s.col>>

Done(c) ==
  CASE c.op \in {"init", "clear"} -> ram = Blank(AllPages)
    [] c.op = "clear_page" -> ram = Blank({c.page, c.page + 1})
    [] c.op = "set_pos" -> ram = old.ram /\ page = c.page /\ col = c.col
    [] c.op = "write" /\ c.buf # <<>> ->
         old.dc = 1 => ram = Written(c.buf) /\ page = old.page
    [] OTHER -> old.dc = 1 => page = old.page /\ (place # At(old) => ram = old.ram)

(* A call that no other overlaps does what it is for, and every ioctl that *)
(* sent a byte leaves the line at data, so that a write may follow.  Two   *)
(* calls at a time, or a write before the first ioctl, are not promised    *)
(* anything.                                                               *)
AloneShows ==
  \A u \in Users :
    mine = u /\ todo[u] = <<>> /\ at[u] # "restore"
      => Done(call[u]) /\ (call[u].op # "write" => dc = 1)
============================================================================
