------------------------- MODULE ChipDriversProofs -------------------------
(***************************************************************************)
(* Theorems about At24, for any number of processes, cells and values and  *)
(* whatever else may fail on the bus, and about Oled, for a screen of any  *)
(* size and any number of processes.                                       *)
(***************************************************************************)
EXTENDS At24, Oled, TLAPS

Values == Bytes \cup {0}
Results == Service!Errors \cup {"none", "busy", "ok"}

At24TypeOK ==
  /\ pc \in [Procs -> {"idle", "call", "bus", "back"}]
  /\ address \in [Procs -> Cells] /\ data \in [Procs -> Values]
  /\ status \in [Procs -> Results]
  /\ result \in Results
  /\ cell \in [Cells -> Values] /\ held \in [Cells -> SUBSET Values]
  /\ word \in Cells /\ latch \in Values /\ writing \in BOOLEAN

OneOnBus == \A p, q \in Procs : pc[p] = "bus" /\ pc[q] = "bus" => p = q

(* The address byte is what a transfer moves first.                        *)
AddressMoved == {<<0, 0, 0>>}
Wanted(p) == IF p \in Reads THEN ReadByteData ELSE WriteByteData

(* What the transfer of p has done to the chip and to data[p] so far.      *)
Halfway(p) == word = address[p]
Finished(p) ==
  IF p \in Reads THEN data[p] = cell[address[p]]
  ELSE word = address[p] /\ latch = data[p]

Transferring(p) ==
  pc[p] = "bus" =>
    /\ req = Wanted(p)
    /\ \/ moved = {}
       \/ moved = AddressMoved /\ Halfway(p)
       \/ moved = Service!Whole(req) /\ Finished(p)

CellHeld == \A a \in Cells : cell[a] \in held[a]

At24Inv ==
  At24TypeOK /\ OneOnBus /\ (\A p \in Procs : Transferring(p)) /\ CellHeld
----------------------------------------------------------------------------
(* The bytes of the two transfers, and the order in which they move.       *)
LEMMA WholeWrite == Service!Whole(WriteByteData) = {<<0, 0, 0>>, <<0, 1, 1>>}
<1>1. DOMAIN WriteByteData = {1} /\ 0 .. WriteByteData[1].len - 1 = {0, 1}
  BY DEF WriteByteData
<1>2. Service!Whole(WriteByteData) = UNION {{<<m - 1, i, i>> : i \in {0, 1}} : m \in {1}}
  <2>1. \A m \in {1} : {<<m - 1, i, i>> : i \in 0 .. WriteByteData[m].len - 1}
                       = {<<m - 1, i, i>> : i \in {0, 1}}
    BY <1>1
  <2> QED BY <1>1, <2>1 DEF Service!Whole
<1> QED BY <1>2

LEMMA WholeRead == Service!Whole(ReadByteData) = {<<0, 0, 0>>, <<1, 0, 0>>}
<1>1. /\ DOMAIN ReadByteData = {1, 2}
      /\ \A m \in {1, 2} : 0 .. ReadByteData[m].len - 1 = {0}
  BY DEF ReadByteData
<1>2. Service!Whole(ReadByteData) = UNION {{<<m - 1, i, i>> : i \in {0}} : m \in {1, 2}}
  <2>1. \A m \in {1, 2} : {<<m - 1, i, i>> : i \in 0 .. ReadByteData[m].len - 1}
                          = {<<m - 1, i, i>> : i \in {0}}
    BY <1>1
  <2> QED BY <1>1, <2>1 DEF Service!Whole
<1> QED BY <1>2

(* The whole of a transfer is its address byte and one more.               *)
LEMMA WholeIsMore ==
  ASSUME NEW p
  PROVE  Service!Whole(Wanted(p)) # {} /\ Service!Whole(Wanted(p)) # AddressMoved
<1>1. <<0, 1, 1>> # <<0, 0, 0>> /\ <<1, 0, 0>> # <<0, 0, 0>> OBVIOUS
<1> QED BY <1>1, WholeWrite, WholeRead DEF Wanted, AddressMoved

LEMMA Moves ==
  ASSUME NEW p \in Procs, Transferring(p), pc[p] = "bus", Service!Move
  PROVE  \/ moved = {} /\ moved' = AddressMoved
         \/ moved = AddressMoved /\ moved' = Service!Whole(req)
<1> DEFINE W == Service!Whole(req)
<1>1. PICK b \in W \ moved : /\ \A c \in W \ moved : c = b \/ Service!Before(b, c)
                             /\ moved' = moved \cup {b}
  BY DEF Service!Move
<1>2. PICK d : W = {<<0, 0, 0>>, d} /\ d \in {<<0, 1, 1>>, <<1, 0, 0>>}
  BY WholeWrite, WholeRead DEF Transferring, Wanted
<1>3. d # <<0, 0, 0>> /\ ~Service!Before(d, <<0, 0, 0>>)
  BY <1>2 DEF Service!Before
<1> HIDE DEF W
<1>4. CASE moved = {}
  <2>1. b = <<0, 0, 0>> BY <1>1, <1>2, <1>3, <1>4
  <2> QED BY <1>1, <1>4, <2>1 DEF AddressMoved
<1>5. CASE moved = AddressMoved
  <2>1. b = d BY <1>1, <1>2, <1>5 DEF AddressMoved
  <2>2. moved' = W BY <1>1, <1>2, <1>5, <2>1 DEF AddressMoved
  <2> QED BY <1>5, <2>2 DEF W
<1>6. moved # W BY <1>1
<1> QED BY <1>4, <1>5, <1>6 DEF Transferring, W

----------------------------------------------------------------------------
(* The chip's counter stays in the chip.                                   *)
LEMMA At24TypeStep == At24TypeOK /\ [Next]_vars => At24TypeOK'
<1> SUFFICES ASSUME At24TypeOK, [Next]_vars PROVE At24TypeOK' OBVIOUS
<1> USE DEF At24TypeOK, Results, Values
<1>1. ASSUME NEW p \in Procs, Begin(p) PROVE At24TypeOK'
  BY <1>1 DEF Begin, bus, chip
<1>2. ASSUME NEW p \in Procs, Transfer(p) PROVE At24TypeOK'
  BY <1>2 DEF Transfer, Service!Call, locals, chip
<1>3. ASSUME NEW p \in Procs, Byte(p) PROVE At24TypeOK'
  <2>1. result' = result /\ UNCHANGED <<pc, address, status, held, writing>>
    BY <1>3 DEF Byte, Service!Move, AddressByte, DataByte, ReadByte
  <2>2. AddressByte(p) \/ DataByte(p) \/ ReadByte(p) BY <1>3 DEF Byte
  <2>3. CASE AddressByte(p) BY <2>1, <2>3 DEF AddressByte
  <2>4. CASE DataByte(p) BY <2>1, <2>4 DEF DataByte
  <2>5. CASE ReadByte(p)
    <3>1. (word + 1) % Size \in Cells BY SizeAssumption DEF At24TypeOK, Cells
    <3>2. data' \in [Procs -> Values] /\ word' \in Cells /\ cell' = cell /\ latch' = latch
      BY <2>5, <3>1 DEF ReadByte
    <3> QED BY <2>1, <3>2
  <2> QED BY <2>2, <2>3, <2>4, <2>5
<1>4. ASSUME NEW p \in Procs, NEW e \in Service!Errors \cup {"ok"}, Over(p, e)
      PROVE  At24TypeOK'
  <2>1. cell' \in [Cells -> Values] /\ writing' \in BOOLEAN
    <3>1. Program => cell' \in [Cells -> Values] /\ writing' \in BOOLEAN BY DEF Program
    <3> QED BY <1>4, <3>1 DEF Over
  <2>2. held' \in [Cells -> SUBSET Values]
    <3>1. \A S : S \subseteq Values =>
            [held EXCEPT ![address[p]] = S] \in [Cells -> SUBSET Values]
      OBVIOUS
    <3>2. {data[p]} \subseteq Values /\ held[address[p]] \cup {data[p]} \subseteq Values
      OBVIOUS
    <3> QED BY <1>4, <3>1, <3>2 DEF Over
  <2> QED BY <1>4, <2>1, <2>2 DEF Over, Service!Return
<1>5. ASSUME NEW p \in Procs, Return(p) PROVE At24TypeOK'
  <2>1. 0 \in Cells BY SizeAssumption DEF Cells
  <2> QED BY <1>5, <2>1 DEF Return, bus, chip
<1>6. CASE WriteCycleEnds BY <1>6 DEF WriteCycleEnds, locals, bus
<1>7. CASE UNCHANGED vars BY <1>7 DEF vars, locals, bus, chip
<1> QED BY <1>1, <1>2, <1>3, <1>4, <1>5, <1>6, <1>7 DEF Next

LEMMA At24Initially == Init => At24Inv
<1> SUFFICES ASSUME Init PROVE At24Inv OBVIOUS
<1>1. 0 \in Cells BY SizeAssumption DEF Cells
<1>2. At24TypeOK BY <1>1 DEF Init, At24TypeOK, Service!Init, Results, Values
<1>3. \A p \in Procs : pc[p] # "bus" BY DEF Init
<1>4. CellHeld BY DEF Init, CellHeld
<1> QED BY <1>2, <1>3, <1>4 DEF At24Inv, OneOnBus, Transferring

(* Only the process that has the bus touches the chip or data[p].          *)
LEMMA At24Step == At24Inv /\ [Next]_vars => At24Inv'
<1> SUFFICES ASSUME At24Inv, [Next]_vars PROVE At24Inv' OBVIOUS
<1>1. At24TypeOK /\ At24TypeOK' BY At24TypeStep DEF At24Inv
<1>2. OneOnBus /\ (\A p \in Procs : Transferring(p)) /\ CellHeld BY DEF At24Inv
<1>3. ASSUME NEW p \in Procs, Begin(p) PROVE At24Inv'
  <2>1. pc'[p] = "call" /\ pc[p] = "idle" BY <1>1, <1>3 DEF Begin, At24TypeOK
  <2>2. ASSUME NEW q \in Procs, q # p
        PROVE  pc'[q] = pc[q] /\ address'[q] = address[q] /\ data'[q] = data[q]
    BY <1>1, <1>3, <2>2 DEF Begin, At24TypeOK
  <2>3. UNCHANGED <<req, moved, word, latch, cell, held>> BY <1>3 DEF Begin, bus, chip
  <2>4. OneOnBus' BY <1>2, <2>1, <2>2 DEF OneOnBus
  <2>5. ASSUME NEW q \in Procs PROVE Transferring(q)'
    <3>1. CASE q = p BY <2>1, <3>1 DEF Transferring
    <3>2. CASE q # p
      BY <1>2, <2>2, <2>3, <3>2 DEF Transferring, Halfway, Finished, Wanted
    <3> QED BY <3>1, <3>2
  <2> QED BY <1>1, <1>2, <2>3, <2>4, <2>5 DEF At24Inv, CellHeld
<1>4. ASSUME NEW p \in Procs, Transfer(p) PROVE At24Inv'
  <2>1. \A q \in Procs : pc[q] # "bus" BY <1>4 DEF Transfer
  <2>2. \A q \in Procs : pc'[q] = "bus" => q = p
    BY <1>1, <1>4, <2>1 DEF Transfer, At24TypeOK
  <2>3. req' = Wanted(p) /\ moved' = {} BY <1>4 DEF Transfer, Service!Call, Wanted
  <2>4. OneOnBus' BY <2>2 DEF OneOnBus
  <2>5. \A q \in Procs : Transferring(q)' BY <2>2, <2>3 DEF Transferring, Wanted
  <2>6. CellHeld' BY <1>2, <1>4 DEF Transfer, chip, CellHeld
  <2> QED BY <1>1, <2>4, <2>5, <2>6 DEF At24Inv
<1>5. ASSUME NEW p \in Procs, Byte(p) PROVE At24Inv'
  <2>1. pc[p] = "bus" /\ Service!Move /\ UNCHANGED <<pc, address, held, req>>
    BY <1>5 DEF Byte, Service!Move
  <2>2. \A q \in Procs : pc'[q] = "bus" => q = p BY <1>2, <2>1 DEF OneOnBus
  <2>3. cell' = cell BY <1>5 DEF Byte, AddressByte, DataByte, ReadByte
  <2>4. PICK b \in moved' \ moved :
          LET rd == req[b[1] + 1].rd IN
          \/ ~rd /\ b[2] = 0 /\ AddressByte(p)
          \/ ~rd /\ b[2] = 1 /\ DataByte(p)
          \/ rd /\ ReadByte(p)
    BY <1>5 DEF Byte
  <2>5. req = Wanted(p) BY <1>2, <2>1 DEF Transferring
  <2>6. Transferring(p)'
    <3>1. CASE moved = {} /\ moved' = AddressMoved
      <4>1. b = <<0, 0, 0>> BY <2>4, <3>1 DEF AddressMoved
      <4>2. ~req[b[1] + 1].rd
        BY <2>5, <4>1 DEF Wanted, ReadByteData, WriteByteData
      <4>3. AddressByte(p) BY <2>4, <4>1, <4>2
      <4> QED BY <2>1, <2>5, <3>1, <4>3
           DEF AddressByte, Transferring, Halfway, Wanted
    <3>2. CASE moved = AddressMoved /\ moved' = Service!Whole(req)
      <4>1. word = address[p]
        <5>1. AddressMoved # {} BY DEF AddressMoved
        <5>2. AddressMoved # Service!Whole(req) BY <2>5, WholeIsMore
        <5> QED BY <1>2, <2>1, <3>2, <5>1, <5>2 DEF Transferring, Halfway
      <4>2. CASE p \in Reads
        <5>1. b = <<1, 0, 0>>
          BY <2>4, <2>5, <3>2, <4>2, WholeRead DEF AddressMoved, Wanted
        <5>2. req[b[1] + 1].rd BY <2>5, <4>2, <5>1 DEF Wanted, ReadByteData
        <5>3. ReadByte(p) BY <2>4, <5>2
        <5>4. data'[p] = cell[address[p]] BY <1>1, <4>1, <5>3 DEF ReadByte, At24TypeOK
        <5> QED BY <2>1, <2>3, <2>5, <3>2, <4>2, <5>4 DEF Transferring, Finished, Wanted
      <4>3. CASE p \notin Reads
        <5>1. b = <<0, 1, 1>>
          BY <2>4, <2>5, <3>2, <4>3, WholeWrite DEF AddressMoved, Wanted
        <5>2. ~req[b[1] + 1].rd BY <2>5, <4>3, <5>1 DEF Wanted, WriteByteData
        <5>3. DataByte(p) BY <2>4, <5>1, <5>2
        <5>4. word' = address'[p] /\ latch' = data'[p]
          BY <2>1, <4>1, <5>3 DEF DataByte
        <5> QED BY <2>1, <2>5, <3>2, <4>3, <5>4 DEF Transferring, Finished, Wanted
      <4> QED BY <4>2, <4>3
    <3> QED BY <1>2, <2>1, <3>1, <3>2, Moves
  <2>7. OneOnBus' BY <2>2 DEF OneOnBus
  <2>8. \A q \in Procs : Transferring(q)' BY <2>2, <2>6 DEF Transferring
  <2> QED BY <1>1, <1>2, <2>1, <2>3, <2>7, <2>8 DEF At24Inv, CellHeld
<1>6. ASSUME NEW p \in Procs, NEW e \in Service!Errors \cup {"ok"}, Over(p, e)
      PROVE  At24Inv'
  <2>1. pc[p] = "bus" BY <1>6 DEF Over
  <2>2. \A q \in Procs : pc'[q] # "bus"
    BY <1>1, <1>2, <1>6, <2>1 DEF Over, OneOnBus, At24TypeOK
  <2>3. CellHeld'
    <3>1. CASE Stops(p, e) /\ Program
      <4>1. Finished(p)
        <5>1. Service!Whole(req) # {} /\ Service!Whole(req) # AddressMoved
          BY <1>2, <2>1, WholeIsMore DEF Transferring
        <5> QED BY <1>2, <2>1, <3>1, <5>1 DEF Transferring, Stops
      <4>2. cell' = [cell EXCEPT ![address[p]] = data[p]]
        BY <3>1, <4>1 DEF Finished, Stops, Program
      <4>3. \/ held' = [held EXCEPT ![address[p]] = {data[p]}]
            \/ held' = [held EXCEPT ![address[p]] = @ \cup {data[p]}]
        BY <1>6, <3>1 DEF Over, Stops
      <4> QED BY <1>1, <1>2, <4>2, <4>3 DEF CellHeld, At24TypeOK
    <3>2. CASE cell' = cell /\ ~(Stops(p, e) /\ e = "ok")
      <4>1. p \in Reads \/ e # "ok"
        BY <1>6, <3>2 DEF Over, Stops, Service!Return
      <4>2. held' = held \/ held' = [held EXCEPT ![address[p]] = @ \cup {data[p]}]
        BY <1>6, <4>1 DEF Over
      <4> QED BY <1>1, <1>2, <3>2, <4>2 DEF CellHeld, At24TypeOK
    <3> QED BY <1>6, <3>1, <3>2 DEF Over
  <2> QED BY <1>1, <2>2, <2>3 DEF At24Inv, OneOnBus, Transferring
<1>7. ASSUME NEW p \in Procs, Return(p) PROVE At24Inv'
  <2>1. pc'[p] = "idle" /\ pc[p] = "back"
    BY <1>1, <1>7 DEF Return, ReadReturns, WriteReturns, At24TypeOK
  <2>2. ASSUME NEW q \in Procs, q # p
        PROVE  pc'[q] = pc[q] /\ address'[q] = address[q] /\ data'[q] = data[q]
    BY <1>1, <1>7, <2>2 DEF Return, At24TypeOK
  <2>3. UNCHANGED <<req, moved, word, latch, cell, held>> BY <1>7 DEF Return, bus, chip
  <2>4. OneOnBus' BY <1>2, <2>1, <2>2 DEF OneOnBus
  <2>5. ASSUME NEW q \in Procs PROVE Transferring(q)'
    <3>1. CASE q = p BY <2>1, <3>1 DEF Transferring
    <3>2. CASE q # p
      BY <1>2, <2>2, <2>3, <3>2 DEF Transferring, Halfway, Finished, Wanted
    <3> QED BY <3>1, <3>2
  <2> QED BY <1>1, <1>2, <2>3, <2>4, <2>5 DEF At24Inv, CellHeld
<1>8. CASE WriteCycleEnds \/ UNCHANGED vars
  <2>1. UNCHANGED <<pc, address, data, req, moved, word, latch, cell, held>>
    BY <1>8 DEF WriteCycleEnds, vars, locals, bus, chip
  <2>2. OneOnBus' BY <1>2, <2>1 DEF OneOnBus
  <2>3. \A p \in Procs : Transferring(p)'
    BY <1>2, <2>1 DEF Transferring, Halfway, Finished, Wanted
  <2> QED BY <1>1, <1>2, <2>1, <2>2, <2>3 DEF At24Inv, CellHeld
<1> QED BY <1>3, <1>4, <1>5, <1>6, <1>7, <1>8 DEF Next

LEMMA At24Always == Spec => []At24Inv
BY At24Initially, At24Step, PTL DEF Spec

(* A read that succeeds gives the byte whose writing to that address was   *)
(* reported last or that of a write to it that timed out since, for any    *)
(* number of processes and cells and whatever else fails on the bus.       *)
THEOREM AlwaysReadIsLastWrite == Spec => ReadIsLastWrite
<1> DEFINE Right ==
      \A p \in Reads : pc[p] = "bus" /\ pc'[p] = "back" /\ status'[p] = "ok"
                        => data[p] \in held[address[p]]
<1>1. At24Inv /\ [Next]_vars => [Right]_vars
  <2> SUFFICES ASSUME At24Inv, Next,
                      NEW p \in Reads, pc[p] = "bus", pc'[p] = "back", status'[p] = "ok"
               PROVE  data[p] \in held[address[p]]
    OBVIOUS
  <2>1. p \in Procs /\ At24TypeOK /\ Transferring(p) /\ CellHeld
    BY ReadsAssumption DEF At24Inv
  <2>2. ASSUME NEW q \in Procs, Begin(q) \/ Transfer(q) \/ Byte(q) \/ Return(q)
        PROVE  FALSE
    BY <2>1, <2>2 DEF Begin, Transfer, Byte, Return, ReadReturns, WriteReturns, At24TypeOK
  <2>3. ~WriteCycleEnds BY DEF WriteCycleEnds
  <2>4. PICK q \in Procs, e \in Service!Errors \cup {"ok"} : Over(q, e)
    BY <2>2, <2>3 DEF Next
  <2>5. q = p BY <2>1, <2>4 DEF Over, At24TypeOK
  <2>6. e = "ok" BY <2>1, <2>4, <2>5 DEF Over, At24TypeOK
  <2>7. moved = Service!Whole(req) BY <2>4, <2>6 DEF Over, Service!Return
  <2>8. Service!Whole(req) # {} /\ Service!Whole(req) # AddressMoved
    BY <2>1, WholeIsMore DEF Transferring
  <2>9. Finished(p) BY <2>1, <2>7, <2>8 DEF Transferring
  <2> QED BY <2>1, <2>9 DEF Finished, CellHeld, At24TypeOK
<1> QED BY <1>1, At24Always, PTL DEF Spec, ReadIsLastWrite
----------------------------------------------------------------------------
(* The bytes that clear a page: three of position and the columns.         *)
PageLen == Cols + 3

(* The bytes of the ioctls, and those of a write.                          *)
Plain ==
  {Cmd("setting", 0), Data(0)}
  \cup {Cmd("page", n) : n \in 0 .. Pages} \cup {Cmd("low", n) : n \in 0 .. Digit - 1}
  \cup {Cmd("high", n) : n \in 0 .. Highs - 1}
Buffers == {Buffered(i) : i \in 1 .. MaxWrite}

OledTypeOK ==
  /\ call \in [Users -> Calls \cup {Idle}] /\ todo \in [Users -> Seq(Plain) \cup Seq(Buffers)]
  /\ at \in [Users -> {"set", "send", "restore"}]
  /\ \A u \in Users : todo[u] \in Seq(Plain) \/ at[u] = "send"
  /\ spi_buf \in [1 .. MaxWrite -> Nat] /\ dc \in {0, 1}
  /\ page \in AllPages /\ col \in 0 .. Cols - 1 /\ place \in Places
  /\ mine \in Users \cup {Nobody}

(* A process that is in no call has nothing to send.                       *)
Resting == \A u \in Users : call[u] = Idle => todo[u] = <<>> /\ at[u] # "restore"

(* While a call is alone, the other processes are in none.                 *)
OnlyMine ==
  mine # Nobody =>
    /\ call[mine] # Idle /\ \A v \in Users \ {mine} : call[v] = Idle
    /\ old.page \in AllPages /\ old.col \in 0 .. Cols - 1

(* What the call of u has still to send is the end of what it sends.       *)
Sent(u) == Len(Sequence(call[u])) - Len(todo[u])

Ahead(u) ==
  /\ Sent(u) \in 0 .. Len(Sequence(call[u]))
  /\ \A k \in 1 .. Len(todo[u]) : todo[u][k] = Sequence(call[u])[Sent(u) + k]

(* The D/C line fits the next byte of an ioctl; a write leaves it alone,   *)
(* and the buffer has what the user wrote.                                 *)
Line(u) ==
  IF call[u].op = "write"
  THEN /\ at[u] = "send" /\ dc = old.dc
       /\ \A k \in DOMAIN call[u].buf : spi_buf[k] = call[u].buf[k]
  ELSE /\ at[u] = "send" => todo[u] # <<>> /\ dc = todo[u][1].dc
       /\ at[u] = "restore" => Sent(u) > 0
       /\ at[u] = "set" /\ Sent(u) > 0 => dc = 1

(* r bytes of a page of zeros have come to page q; before the first of     *)
(* them the place showed from.                                             *)
InPage(q, r, from) ==
  /\ r >= 1 => page = q
  /\ r = 2 => col % Digit = 0
  /\ r >= 3 => col = r - 3
  /\ ram = IF place[1] = q /\ place[2] < r - 3 THEN 0 ELSE from

(* What the chip shows after j bytes of each call.                         *)
InClear(j) ==
  \E n \in 0 .. Pages, r \in 0 .. PageLen - 1 :
    j = n * PageLen + r /\ InPage(n, r, Blank(0 .. n - 1))

(* Where a chip goes that is sent to the page after p.                     *)
Second(p) == IF p + 1 < Pages THEN p + 1 ELSE p

InClearPage(p, j) ==
  IF j < PageLen THEN InPage(p, j, old.ram)
  ELSE IF j < 2 * PageLen
  THEN /\ j = PageLen => page = p
       /\ InPage(Second(p), j - PageLen, Blank({p}))
  ELSE ram = Blank({p, p + 1})

InSetPos(p, c, j) ==
  /\ ram = old.ram /\ (j >= 1 => page = p)
  /\ j = 2 => col % Digit = c % Digit
  /\ j = 3 => col = c

(* The bytes of the first i of a write that fell on the place; the latest  *)
(* of them is what it shows.                                               *)
Here(i) == {k \in 1 .. i : place = <<old.page, (old.col + k - 1) % Cols>>}
Latest(S) == CHOOSE k \in S : \A j \in S : j <= k

InWrite(i) ==
  old.dc = 1 =>
    /\ page = old.page /\ col = (old.col + i) % Cols
    /\ ram = IF Here(i) = {} THEN old.ram ELSE spi_buf[Latest(Here(i))]
    /\ Here(i) # {} => Latest(Here(i)) \in Here(i)

InInit(i) ==
  IF i = 0 THEN ram = old.ram
  ELSE IF i <= Pages * PageLen + 1 THEN InClear(i - 1)
  ELSE ram = Blank(AllPages)

Effect(c, i) ==
  CASE c.op = "init" -> InInit(i)
    [] c.op = "clear" -> InClear(i)
    [] c.op = "clear_page" -> InClearPage(c.page, i)
    [] c.op = "set_pos" -> InSetPos(c.page, c.col, i)
    [] c.op = "write" -> InWrite(i)

Doing(u) == Ahead(u) /\ Line(u) /\ Effect(call[u], Sent(u))
OledInv == OledTypeOK /\ Resting /\ OnlyMine /\ (mine # Nobody => Doing(mine))

(* What Send makes the chip do.                                            *)
Take(b) == IF dc = 1 THEN TakeData(Value(b)) ELSE TakeCommand(b)
----------------------------------------------------------------------------
USE OledAssumption

(* Rows of D columns: a number has one row and one column.                 *)

LEMMA Split ==
  ASSUME NEW D \in Nat \ {0}, NEW n \in Nat, NEW r \in 0 .. D - 1
  PROVE  (n * D + r) \div D = n /\ (n * D + r) % D = r
BY SMT

LEMMA Join ==
  ASSUME NEW D \in Nat \ {0}, NEW H \in Nat \ {0}, NEW c \in 0 .. H * D - 1
  PROVE  /\ c = D * (c \div D) + (c % D)
         /\ c \div D \in 0 .. H - 1 /\ c % D \in 0 .. D - 1
BY SMT

LEMMA InRange ==
  ASSUME NEW D \in Nat \ {0}, NEW H \in Nat \ {0}, NEW h \in 0 .. H - 1, NEW r \in 0 .. D - 1
  PROVE  h * D + r \in 0 .. H * D - 1
BY SMT

(* A column is two digits, and two digits are a column.                    *)
LEMMA Columns ==
  /\ Cols \in Nat \ {0, 1} /\ PageLen \in Nat /\ PageLen > 4
  /\ \A c \in 0 .. Cols - 1 : /\ c = Digit * (c \div Digit) + (c % Digit)
                              /\ c \div Digit \in 0 .. Highs - 1
                              /\ c % Digit \in 0 .. Digit - 1
  /\ \A h \in 0 .. Highs - 1, l \in 0 .. Digit - 1 :
       /\ Digit * h + l \in 0 .. Cols - 1
       /\ (Digit * h + l) \div Digit = h /\ (Digit * h + l) % Digit = l
<1>1. Cols \in Nat \ {0, 1} BY DEF Cols
<1>2. ASSUME NEW c \in 0 .. Cols - 1
      PROVE  /\ c = Digit * (c \div Digit) + (c % Digit)
             /\ c \div Digit \in 0 .. Highs - 1 /\ c % Digit \in 0 .. Digit - 1
  BY Join DEF Cols
<1>3. ASSUME NEW h \in 0 .. Highs - 1, NEW l \in 0 .. Digit - 1
      PROVE  /\ Digit * h + l \in 0 .. Cols - 1
             /\ (Digit * h + l) \div Digit = h /\ (Digit * h + l) % Digit = l
  <2>1. Digit * h + l = h * Digit + l OBVIOUS
  <2> QED BY <2>1, Split, InRange DEF Cols
<1> QED BY <1>1, <1>2, <1>3 DEF PageLen

----------------------------------------------------------------------------
(* The bytes that the calls send.                                          *)
LEMMA PositionBytes ==
  ASSUME NEW p \in 0 .. Pages, NEW c \in 0 .. Cols - 1
  PROVE  /\ OLED_Set_Pos(p, c) \in Seq(Plain) /\ Len(OLED_Set_Pos(p, c)) = 3
         /\ OLED_Set_Pos(p, c)[1] = Cmd("page", p)
         /\ OLED_Set_Pos(p, c)[2] = Cmd("low", c % Digit)
         /\ OLED_Set_Pos(p, c)[3] = Cmd("high", c \div Digit)
<1>1. c \div Digit \in 0 .. Highs - 1 /\ c % Digit \in 0 .. Digit - 1 BY Columns
<1>2. Cmd("page", p) \in Plain /\ Cmd("low", c % Digit) \in Plain
      /\ Cmd("high", c \div Digit) \in Plain
  BY <1>1 DEF Plain
<1> QED BY <1>2 DEF OLED_Set_Pos

LEMMA PageBytes ==
  ASSUME NEW p \in 0 .. Pages
  PROVE  /\ PageOfZeros(p) \in Seq(Plain) /\ Len(PageOfZeros(p)) = PageLen
         /\ PageOfZeros(p)[1] = Cmd("page", p)
         /\ PageOfZeros(p)[2] = Cmd("low", 0)
         /\ PageOfZeros(p)[3] = Cmd("high", 0)
         /\ \A k \in 4 .. PageLen : PageOfZeros(p)[k] = Data(0)
<1>1. 0 \in 0 .. Cols - 1 /\ 0 % Digit = 0 /\ 0 \div Digit = 0 BY Columns
<1>2. Zeros \in Seq(Plain) /\ Len(Zeros) = Cols /\ \A k \in 1 .. Cols : Zeros[k] = Data(0)
  <2>1. Data(0) \in Plain BY DEF Plain
  <2> QED BY <2>1, Columns DEF Zeros
<1>3. PageOfZeros(p) = OLED_Set_Pos(p, 0) \o Zeros BY DEF PageOfZeros
<1> HIDE DEF Zeros
<1>4. Len(OLED_Set_Pos(p, 0)) = 3 /\ OLED_Set_Pos(p, 0) \in Seq(Plain)
  BY <1>1, PositionBytes
<1>5. /\ PageOfZeros(p) \in Seq(Plain) /\ Len(PageOfZeros(p)) = 3 + Cols
      /\ \A k \in 1 .. 3 : PageOfZeros(p)[k] = OLED_Set_Pos(p, 0)[k]
      /\ \A k \in 1 .. Cols : PageOfZeros(p)[3 + k] = Zeros[k]
  <2> DEFINE s == OLED_Set_Pos(p, 0)
  <2>1. /\ s \o Zeros \in Seq(Plain) /\ Len(s \o Zeros) = Len(s) + Len(Zeros)
        /\ \A k \in 1 .. Len(s) : (s \o Zeros)[k] = s[k]
        /\ \A k \in 1 .. Len(Zeros) : (s \o Zeros)[Len(s) + k] = Zeros[k]
    <3>1. s \in Seq(Plain) BY <1>4
    <3> HIDE DEF s
    <3> QED BY <1>2, <3>1
  <2> QED BY <1>2, <1>3, <1>4, <2>1
<1>7. \A k \in 4 .. PageLen : PageOfZeros(p)[k] = Data(0)
  <2> SUFFICES ASSUME NEW k \in 4 .. PageLen PROVE PageOfZeros(p)[k] = Data(0) OBVIOUS
  <2>1. k - 3 \in 1 .. Cols /\ 3 + (k - 3) = k BY Columns DEF PageLen
  <2>2. PageOfZeros(p)[3 + (k - 3)] = Zeros[k - 3] BY <1>5, <2>1
  <2> QED BY <1>2, <2>1, <2>2
<1>8. Len(PageOfZeros(p)) = PageLen BY <1>5, Columns DEF PageLen
<1>9. /\ PageOfZeros(p)[1] = Cmd("page", p) /\ PageOfZeros(p)[2] = Cmd("low", 0)
      /\ PageOfZeros(p)[3] = Cmd("high", 0)
  BY <1>1, <1>5, PositionBytes
<1> QED BY <1>5, <1>7, <1>8, <1>9

LEMMA ClearBytes ==
  /\ OLED_Clear \in Seq(Plain) /\ Len(OLED_Clear) = Pages * PageLen
  /\ \A n \in AllPages, r \in 0 .. PageLen - 1 :
       /\ n * PageLen + r \in 0 .. Pages * PageLen - 1
       /\ OLED_Clear[n * PageLen + r + 1] = PageOfZeros(n)[r + 1]
<1> DEFINE N == Pages * PageLen
<1>1. Len(PageOfZeros(0)) = PageLen BY PageBytes
<1>2. OLED_Clear = [k \in 1 .. N |-> PageOfZeros((k - 1) \div PageLen)[((k - 1) % PageLen) + 1]]
  BY <1>1 DEF OLED_Clear
<1>3. N \in Nat BY Columns
<1>4. ASSUME NEW k \in 1 .. N
      PROVE PageOfZeros((k - 1) \div PageLen)[((k - 1) % PageLen) + 1] \in Plain
  <2>1. k - 1 \in 0 .. N - 1 BY <1>3
  <2>2. (k - 1) \div PageLen \in AllPages /\ (k - 1) % PageLen \in 0 .. PageLen - 1
    <3>1. PageLen \in Nat \ {0} /\ Pages \in Nat \ {0} BY Columns
    <3> QED BY <2>1, <3>1, Join DEF AllPages
  <2>3. ((k - 1) % PageLen) + 1 \in 1 .. PageLen BY <2>2, Columns
  <2>4. (k - 1) \div PageLen \in 0 .. Pages BY <2>2 DEF AllPages
  <2> QED BY <2>3, <2>4, PageBytes
<1>5. ASSUME NEW n \in AllPages, NEW r \in 0 .. PageLen - 1
      PROVE  /\ n * PageLen + r \in 0 .. N - 1
             /\ OLED_Clear[n * PageLen + r + 1] = PageOfZeros(n)[r + 1]
  <2>1. n * PageLen + r \in 0 .. N - 1 BY Columns, InRange DEF AllPages
  <2>2. n * PageLen + r + 1 \in 1 .. N /\ (n * PageLen + r + 1) - 1 = n * PageLen + r
    BY <1>3, <2>1
  <2>3. (n * PageLen + r) \div PageLen = n /\ (n * PageLen + r) % PageLen = r
    BY Columns, Split DEF AllPages
  <2> QED BY <1>2, <2>1, <2>2, <2>3
<1> HIDE DEF N
<1>6. OLED_Clear \in [1 .. N -> Plain] BY <1>2, <1>4
<1>7. OLED_Clear \in Seq(Plain) /\ Len(OLED_Clear) = N BY <1>3, <1>6
<1> QED BY <1>5, <1>7 DEF N

(* A page and the next one; the settings around the clearing.              *)
LEMMA TwoPagesBytes ==
  ASSUME NEW p \in AllPages
  PROVE  /\ OLED_Clear_Page(p) \in Seq(Plain) /\ Len(OLED_Clear_Page(p)) = 2 * PageLen
         /\ \A k \in 1 .. PageLen : /\ OLED_Clear_Page(p)[k] = PageOfZeros(p)[k]
                                  /\ OLED_Clear_Page(p)[PageLen + k] = PageOfZeros(p + 1)[k]
<1> DEFINE s == PageOfZeros(p) t == PageOfZeros(p + 1)
<1>1. p \in 0 .. Pages /\ p + 1 \in 0 .. Pages BY DEF AllPages
<1>2. s \in Seq(Plain) /\ t \in Seq(Plain) /\ Len(s) = PageLen /\ Len(t) = PageLen
  BY <1>1, PageBytes
<1>3. OLED_Clear_Page(p) = s \o t BY DEF OLED_Clear_Page
<1> HIDE DEF s, t
<1>4. /\ s \o t \in Seq(Plain) /\ Len(s \o t) = Len(s) + Len(t)
      /\ \A k \in 1 .. Len(s) : (s \o t)[k] = s[k]
      /\ \A k \in 1 .. Len(t) : (s \o t)[Len(s) + k] = t[k]
  BY <1>2
<1>5. PageLen + PageLen = 2 * PageLen BY Columns
<1>6. ASSUME NEW k \in 1 .. PageLen
      PROVE  OLED_Clear_Page(p)[k] = s[k] /\ OLED_Clear_Page(p)[PageLen + k] = t[k]
  BY <1>2, <1>3, <1>4
<1> QED BY <1>2, <1>3, <1>4, <1>5, <1>6 DEF s, t

LEMMA InitBytes ==
  /\ OLED_Init \in Seq(Plain) /\ Len(OLED_Init) = Pages * PageLen + 2
  /\ OLED_Init[1] = Cmd("setting", 0)
  /\ OLED_Init[Pages * PageLen + 2] = Cmd("setting", 0)
  /\ \A k \in 1 .. Pages * PageLen : OLED_Init[1 + k] = OLED_Clear[k]
<1> DEFINE s == <<Cmd("setting", 0)>> t == OLED_Clear N == Pages * PageLen
<1>1. N \in Nat BY Columns
<1>2. s \in Seq(Plain) BY DEF Plain
<1>10. Len(s) = 1 /\ s[1] = Cmd("setting", 0) OBVIOUS
<1>3. t \in Seq(Plain) BY ClearBytes
<1>11. Len(t) = N BY ClearBytes
<1>4. OLED_Init = (s \o t) \o s BY DEF OLED_Init
<1> HIDE DEF s, t, N
<1>5. /\ s \o t \in Seq(Plain) /\ Len(s \o t) = 1 + N
      /\ (s \o t)[1] = s[1]
      /\ \A k \in 1 .. N : (s \o t)[1 + k] = t[k]
  <2>1. s \o t \in Seq(Plain) /\ Len(s \o t) = Len(s) + Len(t) BY <1>2, <1>3
  <2>2. \A k \in 1 .. Len(s) : (s \o t)[k] = s[k] BY <1>2, <1>3
  <2>3. \A k \in 1 .. Len(t) : (s \o t)[Len(s) + k] = t[k] BY <1>2, <1>3
  <2> QED BY <1>10, <1>11, <2>1, <2>2, <2>3
<1>6. PICK a : a = s \o t OBVIOUS
<1>7. /\ a \o s \in Seq(Plain) /\ Len(a \o s) = N + 2
      /\ \A k \in 1 .. N + 1 : (a \o s)[k] = a[k]
      /\ (a \o s)[N + 2] = s[1]
  <2>1. a \in Seq(Plain) /\ Len(a) = 1 + N BY <1>5, <1>6
  <2>6. a \in Seq(Plain) BY <2>1
  <2>2. a \o s \in Seq(Plain) /\ Len(a \o s) = Len(a) + Len(s) BY <1>2, <2>6
  <2>3. \A k \in 1 .. Len(a) : (a \o s)[k] = a[k] BY <1>2, <2>6
  <2>4. \A k \in 1 .. Len(s) : (a \o s)[Len(a) + k] = s[k] BY <1>2, <2>6
  <2>5. Len(a) + 1 = N + 2 /\ Len(a) = N + 1 BY <1>1, <2>1
  <2> QED BY <1>10, <2>2, <2>3, <2>4, <2>5
<1>8. \A k \in 1 .. N : 1 + k \in 1 .. N + 1 BY <1>1
<1>9. 1 \in 1 .. N + 1 BY <1>1
<1> QED BY <1>10, <1>4, <1>5, <1>6, <1>7, <1>8, <1>9 DEF t, N

LEMMA WriteBytes ==
  ASSUME NEW n \in 0 .. MaxWrite, NEW buf \in [1 .. n -> Ink]
  PROVE  LET s == Message(buf)
             m == IF n = 0 THEN 1 ELSE n IN
           /\ s \in Seq(Buffers) /\ Len(s) = m /\ m > 0 /\ s # <<>>
           /\ \A k \in 1 .. m : s[k] = Buffered(k)
           /\ buf = <<>> <=> n = 0
<1> DEFINE m == IF n = 0 THEN 1 ELSE n
<1>1. buf \in Seq(Ink) /\ Len(buf) = n /\ (buf = <<>> <=> n = 0) OBVIOUS
<1>2. m \in Nat \ {0} /\ Message(buf) = [i \in 1 .. m |-> Buffered(i)]
  BY <1>1 DEF Message
<1>3. \A i \in 1 .. m : Buffered(i) \in Buffers BY DEF Buffers
<1> HIDE DEF Buffered, m
<1>4. Message(buf) \in Seq(Buffers) /\ Len(Message(buf)) = m
  BY <1>2, <1>3
<1>5. /\ Message(buf) # <<>>
      /\ \A k \in 1 .. m : Message(buf)[k] = Buffered(k)
  BY <1>2, <1>4
<1> QED BY <1>1, <1>2, <1>4, <1>5 DEF m

(* What the calls are.                                                     *)
LEMMA CallKinds ==
  ASSUME NEW c \in Calls
  PROVE  \/ c.op = "init" \/ c.op = "clear"
         \/ c.op = "clear_page" /\ c.page \in AllPages
         \/ c.op = "set_pos" /\ c.page \in AllPages /\ c.col \in 0 .. Cols - 1
         \/ c.op = "write" /\ \E n \in 0 .. MaxWrite : c.buf \in [1 .. n -> Ink]
BY DEF Calls

LEMMA SequenceBytes ==
  ASSUME NEW c \in Calls
  PROVE  /\ Sequence(c) \in IF c.op = "write" THEN Seq(Buffers) ELSE Seq(Plain)
         /\ Sequence(c) # <<>>
<1>1. ASSUME c.op = "init" PROVE Sequence(c) \in Seq(Plain) /\ Sequence(c) # <<>>
  <2>1. Sequence(c) = OLED_Init BY <1>1 DEF Sequence
  <2> QED BY <2>1, InitBytes, Columns
<1>2. ASSUME c.op = "clear" PROVE Sequence(c) \in Seq(Plain) /\ Sequence(c) # <<>>
  <2>1. Sequence(c) = OLED_Clear BY <1>2 DEF Sequence
  <2>2. Pages * PageLen > 0 BY Columns
  <2> QED BY <2>1, <2>2, ClearBytes
<1>3. ASSUME c.op = "clear_page" PROVE Sequence(c) \in Seq(Plain) /\ Sequence(c) # <<>>
  <2>1. Sequence(c) = OLED_Clear_Page(c.page) /\ c.page \in AllPages
    BY <1>3, CallKinds DEF Sequence
  <2> QED BY <2>1, TwoPagesBytes, Columns
<1>4. ASSUME c.op = "set_pos" PROVE Sequence(c) \in Seq(Plain) /\ Sequence(c) # <<>>
  <2>1. Sequence(c) = OLED_Set_Pos(c.page, c.col)
    BY <1>4 DEF Sequence
  <2>2. c.page \in 0 .. Pages /\ c.col \in 0 .. Cols - 1 BY <1>4, CallKinds DEF AllPages
  <2>3. /\ OLED_Set_Pos(c.page, c.col) \in Seq(Plain)
        /\ Len(OLED_Set_Pos(c.page, c.col)) = 3
    BY <2>2, PositionBytes
  <2>4. PICK s : s = OLED_Set_Pos(c.page, c.col) OBVIOUS
  <2>5. s \in Seq(Plain) /\ s # <<>> BY <2>3, <2>4
  <2> QED BY <2>1, <2>4, <2>5
<1>5. ASSUME c.op = "write" PROVE Sequence(c) \in Seq(Buffers) /\ Sequence(c) # <<>>
  <2>1. Sequence(c) = Message(c.buf) BY <1>5 DEF Sequence
  <2>2. PICK n \in 0 .. MaxWrite : c.buf \in [1 .. n -> Ink] BY <1>5, CallKinds
  <2> QED BY <2>1, <2>2, WriteBytes
<1> QED BY <1>1, <1>2, <1>3, <1>4, <1>5, CallKinds

----------------------------------------------------------------------------
(* What the chip does with each byte.                                      *)
LEMMA TakesPage ==
  ASSUME NEW n \in 0 .. Pages, dc = 0, Take(Cmd("page", n))
  PROVE  page' = (IF n < Pages THEN n ELSE page) /\ UNCHANGED <<col, ram, place>>
BY DEF Take, TakeCommand, SetsPage, SetsLow, SetsHigh, Sets, Mistaken, Cmd

LEMMA TakesLow ==
  ASSUME OledTypeOK, NEW n \in 0 .. Digit - 1, dc = 0, Take(Cmd("low", n))
  PROVE  /\ col' = Digit * (col \div Digit) + n /\ col' \in 0 .. Cols - 1
         /\ col' % Digit = n /\ UNCHANGED <<page, ram, place>>
<1>1. col' = Digit * (col \div Digit) + n /\ UNCHANGED <<page, ram, place>>
  BY DEF Take, TakeCommand, SetsPage, SetsLow, SetsHigh, Sets, Mistaken, Cmd
<1>2. col \div Digit \in 0 .. Highs - 1 BY Columns DEF OledTypeOK
<1> QED BY <1>1, <1>2, Columns

LEMMA TakesHigh ==
  ASSUME OledTypeOK, NEW n \in 0 .. Highs - 1, dc = 0, Take(Cmd("high", n))
  PROVE  /\ col' = Digit * n + (col % Digit) /\ col' \in 0 .. Cols - 1
         /\ UNCHANGED <<page, ram, place>>
<1>1. col' = Digit * n + (col % Digit) /\ UNCHANGED <<page, ram, place>>
  BY DEF Take, TakeCommand, SetsPage, SetsLow, SetsHigh, Sets, Mistaken, Cmd
<1>2. col % Digit \in 0 .. Digit - 1 BY Columns DEF OledTypeOK
<1> QED BY <1>1, <1>2, Columns

LEMMA TakesSetting ==
  ASSUME dc = 0, Take(Cmd("setting", 0))
  PROVE  UNCHANGED <<page, col, ram, place>>
BY DEF Take, TakeCommand, SetsPage, SetsLow, SetsHigh, Sets, Mistaken, Cmd

LEMMA TakesZero ==
  ASSUME dc = 1, Take(Data(0))
  PROVE  /\ ram' = IF place = <<page, col>> THEN 0 ELSE ram
         /\ col' = (col + 1) % Cols /\ UNCHANGED <<page, place>>
BY DEF Take, TakeData, Value, Data

LEMMA TakesBuffered ==
  ASSUME NEW k, dc = 1, Take(Buffered(k))
  PROVE  /\ ram' = IF place = <<page, col>> THEN spi_buf[k] ELSE ram
         /\ col' = (col + 1) % Cols /\ UNCHANGED <<page, place>>
BY DEF Take, TakeData, Value, Buffered

(* Data taken for a command, or a command taken for data, leave the chip   *)
(* on its screen as well.                                                  *)
LEMMA TakesAny ==
  ASSUME OledTypeOK, NEW b \in Plain \cup Buffers, Take(b)
  PROVE  page' \in AllPages /\ col' \in 0 .. Cols - 1 /\ place' = place
<1>1. CASE dc = 1
  <2>1. col' = (col + 1) % Cols /\ UNCHANGED <<page, place>>
    BY <1>1 DEF Take, TakeData
  <2>2. (col + 1) % Cols \in 0 .. Cols - 1 BY Columns DEF OledTypeOK
  <2> QED BY <2>1, <2>2 DEF OledTypeOK
<1>2. CASE dc # 1
  <2>1. place' = place BY <1>2 DEF Take, TakeCommand
  <2>2. col \div Digit \in 0 .. Highs - 1 /\ col % Digit \in 0 .. Digit - 1
    BY Columns DEF OledTypeOK
  <2>3. CASE SetsPage(b)
    BY <2>1, <2>3 DEF SetsPage, OledTypeOK, Plain, Buffers, Cmd, Data, Buffered, AllPages
  <2>4. CASE SetsLow(b)
    <3>1. b.n \in 0 .. Digit - 1 BY <2>4 DEF SetsLow, Plain, Buffers, Cmd, Data, Buffered
    <3> QED BY <2>1, <2>2, <2>4, <3>1, Columns DEF SetsLow, OledTypeOK
  <2>5. CASE SetsHigh(b)
    <3>1. b.n \in 0 .. Highs - 1 BY <2>5 DEF SetsHigh, Plain, Buffers, Cmd, Data, Buffered
    <3> QED BY <2>1, <2>2, <2>5, <3>1, Columns DEF SetsHigh, OledTypeOK
  <2>6. CASE Sets(b) BY <2>1, <2>6 DEF Sets, OledTypeOK
  <2>7. CASE Mistaken(b)
    <3>1. 0 \in 0 .. Digit - 1 OBVIOUS
    <3>2. Digit * (col \div Digit) + 0 \in 0 .. Cols - 1 BY <2>2, <3>1, Columns
    <3>3. Digit * (col \div Digit) + 0 = Digit * (col \div Digit) BY <2>2
    <3> QED BY <2>1, <2>7, <3>2, <3>3 DEF Mistaken, OledTypeOK
  <2> QED BY <1>2, <2>3, <2>4, <2>5, <2>6, <2>7 DEF Take, TakeCommand
<1> QED BY <1>1, <1>2

----------------------------------------------------------------------------
(* One more byte of a page of zeros.                                       *)
LEMMA PageStep ==
  ASSUME OledTypeOK, NEW p \in 0 .. Pages, NEW q \in AllPages, NEW from,
         NEW r \in 0 .. PageLen - 1, InPage(q, r, from),
         r = 0 => q = IF p < Pages THEN p ELSE page,
         dc = PageOfZeros(p)[r + 1].dc, Take(PageOfZeros(p)[r + 1])
  PROVE  /\ r + 1 < PageLen => InPage(q, r + 1, from)'
         /\ r + 1 = PageLen => page' = q /\ ram' = IF place[1] = q THEN 0 ELSE from
<1>1. place[1] \in AllPages /\ place[2] \in 0 .. Cols - 1 /\ place = <<place[1], place[2]>>
  BY DEF OledTypeOK, Places
<1>2. PageLen = Cols + 3 /\ Cols \in Nat /\ Cols > 1 BY Columns DEF PageLen
<1>3. CASE r = 0
  <2>1. dc = 0 /\ Take(Cmd("page", p)) BY <1>3, PageBytes DEF Cmd
  <2>2. page' = q /\ UNCHANGED <<col, ram, place>>
    BY <1>3, <2>1, TakesPage DEF AllPages
  <2>3. ram = from BY <1>1, <1>3 DEF InPage
  <2> QED BY <1>1, <1>2, <1>3, <2>2, <2>3 DEF InPage
<1>4. CASE r = 1
  <2>1. dc = 0 /\ Take(Cmd("low", 0))
    <3>1. PageOfZeros(p)[r + 1] = Cmd("low", 0) BY <1>4, PageBytes
    <3> QED BY <3>1 DEF Cmd
  <2>2. col' % Digit = 0 /\ UNCHANGED <<page, ram, place>>
    <3>1. 0 \in 0 .. Digit - 1 OBVIOUS
    <3> QED BY <2>1, <3>1, TakesLow
  <2>3. page = q /\ ram = from BY <1>1, <1>4 DEF InPage
  <2> QED BY <1>1, <1>2, <1>4, <2>2, <2>3 DEF InPage
<1>5. CASE r = 2
  <2>1. dc = 0 /\ Take(Cmd("high", 0))
    <3>1. PageOfZeros(p)[r + 1] = Cmd("high", 0) BY <1>5, PageBytes
    <3> QED BY <3>1 DEF Cmd
  <2>2. page = q /\ ram = from /\ col % Digit = 0 BY <1>1, <1>5 DEF InPage
  <2>3. col' = 0 /\ UNCHANGED <<page, ram, place>>
    <3>1. 0 \in 0 .. Highs - 1 OBVIOUS
    <3>2. col' = Digit * 0 + (col % Digit) /\ UNCHANGED <<page, ram, place>>
      BY <2>1, <3>1, TakesHigh
    <3> QED BY <2>2, <3>2
  <2> QED BY <1>1, <1>2, <1>5, <2>2, <2>3 DEF InPage
<1>6. CASE r > 2
  <2>1. dc = 1 /\ Take(Data(0))
    <3>1. r + 1 \in 4 .. PageLen BY <1>2, <1>6
    <3>2. PageOfZeros(p)[r + 1] = Data(0) BY <3>1, PageBytes
    <3> QED BY <3>2 DEF Data
  <2>2. /\ page = q /\ col = r - 3
        /\ ram = IF place[1] = q /\ place[2] < r - 3 THEN 0 ELSE from
    BY <1>6 DEF InPage
  <2>3. /\ ram' = IF place = <<page, col>> THEN 0 ELSE ram
        /\ col' = (col + 1) % Cols /\ UNCHANGED <<page, place>>
    BY <2>1, TakesZero
  <2>4. place = <<page, col>> <=> place[1] = q /\ place[2] = r - 3 BY <1>1, <2>2
  <2>5. ram' = IF place[1] = q /\ place[2] < r - 2 THEN 0 ELSE from
    <3>1. place[2] < r - 2 <=> place[2] < r - 3 \/ place[2] = r - 3 BY <1>1
    <3> QED BY <2>2, <2>3, <2>4, <3>1
  <2>6. CASE r + 1 < PageLen
    <3>1. r - 2 \in 0 .. Cols - 1 /\ col + 1 = r - 2 BY <1>2, <1>6, <2>2, <2>6
    <3>2. (r - 2) % Cols = r - 2 BY <1>2, <3>1
    <3>3. col' = (r + 1) - 3 BY <2>3, <3>1, <3>2
    <3>4. r - 2 = (r + 1) - 3 OBVIOUS
    <3>5. page' = q /\ place' = place BY <2>2, <2>3
    <3>6. r + 1 # 2 /\ r + 1 # PageLen BY <1>6, <2>6
    <3>7. ram' = IF place'[1] = q /\ place'[2] < (r + 1) - 3 THEN 0 ELSE from
      BY <2>5, <3>4, <3>5
    <3>8. InPage(q, r + 1, from)' BY <3>3, <3>5, <3>6, <3>7 DEF InPage
    <3> QED BY <3>6, <3>8
  <2>7. CASE r + 1 = PageLen
    <3>1. place[2] < r - 2 BY <1>1, <1>2, <2>7
    <3>2. page' = q BY <2>2, <2>3
    <3>3. ram' = IF place[1] = q THEN 0 ELSE from BY <2>5, <3>1
    <3> QED BY <2>7, <3>2, <3>3
  <2> QED BY <1>2, <2>6, <2>7
<1> QED BY <1>3, <1>4, <1>5, <1>6

(* One more byte of OLED_Clear.                                            *)
LEMMA ClearStep ==
  ASSUME OledTypeOK, NEW j \in 0 .. Pages * PageLen - 1, InClear(j),
         UNCHANGED <<place, old>>,
         dc = OLED_Clear[j + 1].dc, Take(OLED_Clear[j + 1])
  PROVE  InClear(j + 1)'
<1>1. PICK n \in 0 .. Pages, r \in 0 .. PageLen - 1 :
        j = n * PageLen + r /\ InPage(n, r, Blank(0 .. n - 1))
  BY DEF InClear
<1>2. PageLen \in Nat /\ PageLen > 4 BY Columns
<1>3. n < Pages
  <2>1. n # Pages BY <1>1, <1>2
  <2> QED BY <2>1
<1>4. OLED_Clear[j + 1] = PageOfZeros(n)[r + 1] BY <1>1, <1>3, ClearBytes DEF AllPages
<1>5. PICK from : from = Blank(0 .. n - 1) OBVIOUS
<1>6. Blank(0 .. n - 1)' = from BY <1>5 DEF Blank
<1>7. /\ r + 1 < PageLen => InPage(n, r + 1, from)'
      /\ r + 1 = PageLen => page' = n /\ ram' = IF place[1] = n THEN 0 ELSE from
  BY <1>1, <1>3, <1>4, <1>5, PageStep DEF AllPages
<1>8. CASE r + 1 < PageLen
  <2>1. r + 1 \in 0 .. PageLen - 1 /\ j + 1 = n * PageLen + (r + 1) BY <1>1, <1>2, <1>8
  <2>2. InPage(n, r + 1, Blank(0 .. n - 1))' BY <1>6, <1>7, <1>8 DEF InPage
  <2> QED BY <2>1, <2>2 DEF InClear
<1>9. CASE r + 1 = PageLen
  <2>1. n + 1 \in 0 .. Pages /\ 0 \in 0 .. PageLen - 1 BY <1>2, <1>3
  <2>2. j + 1 = (n + 1) * PageLen + 0 BY <1>1, <1>2, <1>9
  <2>3. place[1] \in Nat /\ place[2] \in Nat BY Columns DEF OledTypeOK, Places, AllPages
  <2>4. place[1] \in 0 .. (n + 1) - 1 <=> place[1] = n \/ place[1] \in 0 .. n - 1
    BY <2>3
  <2>5. ram' = Blank(0 .. (n + 1) - 1)'
    BY <1>5, <1>7, <1>9, <2>4 DEF Blank
  <2>6. InPage(n + 1, 0, Blank(0 .. (n + 1) - 1))' BY <2>3, <2>5 DEF InPage
  <2> QED BY <2>1, <2>2, <2>6 DEF InClear
<1> QED BY <1>2, <1>8, <1>9

LEMMA ClearBegins ==
  ASSUME OledTypeOK, place' = place, ram' = old'.ram PROVE InClear(0)'
<1>1. 0 \in 0 .. Pages /\ 0 \in 0 .. PageLen - 1 /\ 0 = 0 * PageLen + 0 BY Columns
<1>2. place[1] \in Nat /\ place[2] \in Nat BY Columns DEF OledTypeOK, Places, AllPages
<1>3. InPage(0, 0, Blank(0 .. 0 - 1))' BY <1>2 DEF InPage, Blank
<1> QED BY <1>1, <1>3 DEF InClear

LEMMA ClearEnds ==
  ASSUME OledTypeOK, InClear(Pages * PageLen) PROVE ram = Blank(AllPages)
<1>1. PICK n \in 0 .. Pages, r \in 0 .. PageLen - 1 :
        Pages * PageLen = n * PageLen + r /\ InPage(n, r, Blank(0 .. n - 1))
  BY DEF InClear
<1>2. n = Pages /\ r = 0
  <2>1. PageLen \in Nat \ {0} BY Columns
  <2>2. (Pages * PageLen + 0) \div PageLen = Pages /\ (Pages * PageLen + 0) % PageLen = 0
    BY <2>1, Split
  <2>3. (n * PageLen + r) \div PageLen = n /\ (n * PageLen + r) % PageLen = r
    BY <2>1, Split
  <2>4. Pages * PageLen + 0 = Pages * PageLen BY <2>1
  <2> QED BY <1>1, <2>2, <2>3, <2>4
<1>3. place[2] \in Nat BY Columns DEF OledTypeOK, Places
<1>4. ram = Blank(0 .. Pages - 1) BY <1>1, <1>2, <1>3 DEF InPage
<1> QED BY <1>4 DEF AllPages

(* One more byte of each of the other calls.                               *)
LEMMA InitStep ==
  ASSUME OledTypeOK, NEW i \in 0 .. Pages * PageLen + 1, InInit(i),
         UNCHANGED <<place, old>>,
         dc = OLED_Init[i + 1].dc, Take(OLED_Init[i + 1])
  PROVE  InInit(i + 1)'
<1> DEFINE N == Pages * PageLen
<1>1. N \in Nat BY Columns
<1>2. CASE i = 0
  <2>1. OLED_Init[i + 1] = Cmd("setting", 0) BY <1>2, InitBytes
  <2>2. dc = 0 /\ Take(Cmd("setting", 0)) BY <2>1 DEF Cmd
  <2>3. ram' = old'.ram BY <1>2, <2>2, TakesSetting DEF InInit
  <2>4. InClear(0)' BY <2>3, ClearBegins
  <2>5. i + 1 <= N + 1 /\ i + 1 # 0 /\ (i + 1) - 1 = 0 BY <1>1, <1>2
  <2> QED BY <2>4, <2>5 DEF InInit
<1>3. CASE i \in 1 .. N
  <2>1. i - 1 \in 0 .. N - 1 /\ (i - 1) + 1 = i /\ i + 1 = 1 + i /\ (i + 1) - 1 = i
    BY <1>1, <1>3
  <2>2. OLED_Init[i + 1] = OLED_Clear[(i - 1) + 1] BY <1>3, <2>1, InitBytes
  <2>3. InClear(i - 1) BY <1>3 DEF InInit
  <2>4. InClear(i)' BY <2>1, <2>2, <2>3, ClearStep
  <2>5. i + 1 <= N + 1 /\ i + 1 # 0 BY <1>1, <1>3
  <2> QED BY <2>1, <2>4, <2>5 DEF InInit
<1>4. CASE i = N + 1
  <2>1. OLED_Init[i + 1] = Cmd("setting", 0)
    <3>1. i + 1 = N + 2 BY <1>1, <1>4
    <3> QED BY <3>1, InitBytes
  <2>2. dc = 0 /\ Take(Cmd("setting", 0)) BY <2>1 DEF Cmd
  <2>3. InClear(N)
    <3>1. i # 0 /\ i <= N + 1 /\ i - 1 = N BY <1>1, <1>4
    <3> QED BY <3>1 DEF InInit
  <2>4. ram = Blank(AllPages) BY <2>3, ClearEnds
  <2>5. ram' = Blank(AllPages)' BY <2>2, <2>4, TakesSetting DEF Blank, AllPages
  <2>6. i + 1 # 0 /\ ~(i + 1 <= N + 1) BY <1>1, <1>4
  <2> QED BY <2>5, <2>6 DEF InInit
<1>5. i = 0 \/ i \in 1 .. N \/ i = N + 1 BY <1>1
<1> QED BY <1>2, <1>3, <1>4, <1>5

LEMMA ClearPageStep ==
  ASSUME OledTypeOK, NEW p \in AllPages, NEW j \in 0 .. 2 * PageLen - 1,
         InClearPage(p, j), UNCHANGED <<place, old>>,
         dc = OLED_Clear_Page(p)[j + 1].dc, Take(OLED_Clear_Page(p)[j + 1])
  PROVE  InClearPage(p, j + 1)'
<1>1. PageLen \in Nat /\ PageLen > 4 BY Columns
<1>2. place[1] \in AllPages /\ place[2] \in Nat BY Columns DEF OledTypeOK, Places
<1>3. CASE j < PageLen
  <2>1. OLED_Clear_Page(p)[j + 1] = PageOfZeros(p)[j + 1]
    <3>1. j + 1 \in 1 .. PageLen BY <1>1, <1>3
    <3> QED BY <3>1, TwoPagesBytes
  <2>2. PICK from : from = old.ram OBVIOUS
  <2>3. p \in 0 .. Pages /\ p < Pages /\ j \in 0 .. PageLen - 1
    BY <1>1, <1>3 DEF AllPages
  <2>4. InPage(p, j, from) BY <1>3, <2>2 DEF InClearPage
  <2>5. /\ j + 1 < PageLen => InPage(p, j + 1, from)'
        /\ j + 1 = PageLen => page' = p /\ ram' = IF place[1] = p THEN 0 ELSE from
    BY <2>1, <2>3, <2>4, PageStep
  <2>6. CASE j + 1 < PageLen
    <3>1. InPage(p, j + 1, old.ram)' BY <2>2, <2>5, <2>6 DEF InPage
    <3> QED BY <2>6, <3>1 DEF InClearPage
  <2>7. CASE j + 1 = PageLen
    <3>1. page' = p /\ ram' = Blank({p})' BY <2>2, <2>5, <2>7 DEF Blank
    <3>2. InPage(Second(p), 0, Blank({p}))' BY <1>2, <3>1 DEF InPage
    <3>3. /\ ~(j + 1 < PageLen) /\ j + 1 < 2 * PageLen
          /\ (j + 1) - PageLen = 0
      BY <1>1, <2>7
    <3> QED BY <3>1, <3>2, <3>3 DEF InClearPage
  <2> QED BY <1>1, <1>3, <2>6, <2>7
<1>4. CASE ~(j < PageLen)
  <2> DEFINE r == j - PageLen q == Second(p)
  <2>1. r \in 0 .. PageLen - 1 /\ PageLen + (r + 1) = j + 1 /\ r + 1 \in 1 .. PageLen
    BY <1>1, <1>4
  <2>2. OLED_Clear_Page(p)[j + 1] = PageOfZeros(p + 1)[r + 1]
    BY <2>1, TwoPagesBytes
  <2>3. PICK from : from = Blank({p}) OBVIOUS
  <2>4. p + 1 \in 0 .. Pages /\ q \in AllPages BY DEF AllPages, Second
  <2>5. InPage(q, r, from) /\ (r = 0 => page = p)
    <3>1. j < 2 * PageLen BY <1>1
    <3>2. r = 0 => j = PageLen BY <1>1
    <3> QED BY <1>4, <2>3, <3>1, <3>2 DEF InClearPage
  <2>6. r = 0 => q = IF p + 1 < Pages THEN p + 1 ELSE page BY <2>5 DEF Second
  <2> HIDE DEF r, q
  <2>7. /\ r + 1 < PageLen => InPage(q, r + 1, from)'
        /\ r + 1 = PageLen => page' = q /\ ram' = IF place[1] = q THEN 0 ELSE from
    BY <2>1, <2>2, <2>4, <2>5, <2>6, PageStep
  <2>8. CASE r + 1 < PageLen
    <3>1. InPage(q, r + 1, Blank({p}))' BY <2>3, <2>7, <2>8 DEF InPage, Blank
    <3>2. ~(j + 1 < PageLen) /\ j + 1 < 2 * PageLen /\ j + 1 # PageLen
          /\ (j + 1) - PageLen = r + 1
      BY <1>1, <1>4, <2>8 DEF r
    <3> QED BY <3>1, <3>2 DEF InClearPage, q
  <2>9. CASE r + 1 = PageLen
    <3>1. ram' = Blank({p, p + 1})'
      <4>1. ram' = IF place[1] = q \/ place[1] = p THEN 0 ELSE old.ram
        BY <2>3, <2>7, <2>9 DEF Blank
      <4>2. place[1] = q \/ place[1] = p <=> place[1] \in {p, p + 1}
        BY <1>2 DEF q, Second, AllPages
      <4> QED BY <4>1, <4>2 DEF Blank
    <3>2. ~(j + 1 < PageLen) /\ ~(j + 1 < 2 * PageLen) BY <1>1, <1>4, <2>9 DEF r
    <3> QED BY <3>1, <3>2 DEF InClearPage
  <2> QED BY <1>1, <2>1, <2>8, <2>9
<1> QED BY <1>3, <1>4

LEMMA SetPosStep ==
  ASSUME OledTypeOK, NEW p \in AllPages, NEW c \in 0 .. Cols - 1, NEW j \in 0 .. 2,
         InSetPos(p, c, j), UNCHANGED <<place, old>>,
         dc = OLED_Set_Pos(p, c)[j + 1].dc, Take(OLED_Set_Pos(p, c)[j + 1])
  PROVE  InSetPos(p, c, j + 1)'
<1>1. p \in 0 .. Pages /\ p < Pages BY DEF AllPages
<1>2. c % Digit \in 0 .. Digit - 1 /\ c \div Digit \in 0 .. Highs - 1
      /\ c = Digit * (c \div Digit) + (c % Digit)
  BY Columns
<1>3. CASE j = 0
  <2>1. OLED_Set_Pos(p, c)[j + 1] = Cmd("page", p) BY <1>1, <1>3, PositionBytes
  <2>2. dc = 0 /\ Take(Cmd("page", p)) BY <2>1 DEF Cmd
  <2>3. page' = p /\ UNCHANGED <<col, ram, place>> BY <1>1, <2>2, TakesPage
  <2> QED BY <1>3, <2>3 DEF InSetPos
<1>4. CASE j = 1
  <2>1. OLED_Set_Pos(p, c)[j + 1] = Cmd("low", c % Digit) BY <1>1, <1>4, PositionBytes
  <2>2. dc = 0 /\ Take(Cmd("low", c % Digit)) BY <2>1 DEF Cmd
  <2>3. col' % Digit = c % Digit /\ UNCHANGED <<page, ram, place>>
    BY <1>2, <2>2, TakesLow
  <2> QED BY <1>4, <2>3 DEF InSetPos
<1>5. CASE j = 2
  <2>1. OLED_Set_Pos(p, c)[j + 1] = Cmd("high", c \div Digit)
    BY <1>1, <1>5, PositionBytes
  <2>2. dc = 0 /\ Take(Cmd("high", c \div Digit)) BY <2>1 DEF Cmd
  <2>3. col' = Digit * (c \div Digit) + (col % Digit) /\ UNCHANGED <<page, ram, place>>
    BY <1>2, <2>2, TakesHigh
  <2>4. col % Digit = c % Digit BY <1>5 DEF InSetPos
  <2>5. col' = c BY <1>2, <2>3, <2>4
  <2> QED BY <1>5, <2>3, <2>5 DEF InSetPos
<1> QED BY <1>3, <1>4, <1>5

LEMMA NextColumn ==
  ASSUME NEW N \in Nat \ {0}, NEW a \in Nat PROVE ((a % N) + 1) % N = (a + 1) % N
<1> DEFINE q == a \div N r == a % N
<1>1. q \in Nat /\ r \in 0 .. N - 1 /\ a = q * N + r BY SMT
<1> HIDE DEF q, r
<1>2. CASE r + 1 < N
  <2>1. r + 1 \in 0 .. N - 1 /\ a + 1 = q * N + (r + 1) BY <1>1, <1>2
  <2>2. ((q * N) + (r + 1)) % N = r + 1 BY <1>1, <2>1, Split
  <2>3. (r + 1) % N = r + 1 BY <2>1
  <2> QED BY <2>1, <2>2, <2>3 DEF r
<1>3. CASE r + 1 = N
  <2>1. 0 \in 0 .. N - 1 /\ a + 1 = (q + 1) * N + 0 /\ q + 1 \in Nat BY <1>1, <1>3
  <2>2. (a + 1) % N = 0 BY <2>1, Split
  <2>3. N % N = 0 BY SMT
  <2> QED BY <1>3, <2>2, <2>3 DEF r
<1> QED BY <1>1, <1>2, <1>3

LEMMA WriteStep ==
  ASSUME OledTypeOK, NEW i \in Nat, InWrite(i), UNCHANGED <<place, old, spi_buf>>,
         dc = old.dc, old.col \in 0 .. Cols - 1, Take(Buffered(i + 1))
  PROVE  InWrite(i + 1)'
<1> SUFFICES ASSUME old.dc = 1 PROVE InWrite(i + 1)' BY DEF InWrite
<1> DEFINE here == <<old.page, (old.col + i) % Cols>>
<1>1. /\ page = old.page /\ col = (old.col + i) % Cols
      /\ ram = IF Here(i) = {} THEN old.ram ELSE spi_buf[Latest(Here(i))]
      /\ Here(i) # {} => Latest(Here(i)) \in Here(i)
  BY DEF InWrite
<1>2. /\ ram' = IF place = <<page, col>> THEN spi_buf[i + 1] ELSE ram
      /\ col' = (col + 1) % Cols /\ UNCHANGED <<page, place>>
  BY TakesBuffered
<1>7. <<page, col>> = here BY <1>1
<1>3. col' = (old.col + (i + 1)) % Cols
  <2>1. old.col \in Nat /\ i \in Nat BY Columns
  <2>2. old.col + i \in Nat /\ (old.col + i) + 1 = old.col + (i + 1) BY <2>1
  <2>3. (((old.col + i) % Cols) + 1) % Cols = ((old.col + i) + 1) % Cols
    BY <2>2, Columns, NextColumn
  <2> QED BY <1>1, <1>2, <2>2, <2>3
<1>4. Here(i + 1) = Here(i) \cup {k \in {i + 1} : place = here}
  <2>1. 1 .. i + 1 = (1 .. i) \cup {i + 1} OBVIOUS
  <2>2. old.col + (i + 1) - 1 = old.col + i BY Columns
  <2> QED BY <2>1, <2>2 DEF Here
<1>5. Here(i + 1)' = Here(i + 1) BY DEF Here
<1> HIDE DEF here
<1>6. /\ ram' = IF Here(i + 1) = {} THEN old.ram ELSE spi_buf[Latest(Here(i + 1))]
      /\ Here(i + 1) # {} => Latest(Here(i + 1)) \in Here(i + 1)
  <2>1. CASE place = here
    <3>1. i + 1 \in Here(i + 1) BY <1>4, <2>1
    <3>2. \A j \in Here(i + 1) : j <= i + 1 /\ j \in Nat BY DEF Here
    <3>3. Latest(Here(i + 1)) = i + 1 BY <3>1, <3>2 DEF Latest
    <3> QED BY <1>2, <1>7, <2>1, <3>1, <3>3
  <2>2. CASE place # here
    <3>1. Here(i + 1) = Here(i) BY <1>4, <2>2
    <3> QED BY <1>1, <1>2, <1>7, <2>2, <3>1
  <2> QED BY <2>1, <2>2
<1> QED BY <1>1, <1>2, <1>3, <1>5, <1>6 DEF InWrite

(* The effect of a call: when it begins, with each of its bytes, and at    *)
(* its end.                                                                *)
LEMMA EffectBegins ==
  ASSUME OledTypeOK, NEW c \in Calls, UNCHANGED panel, old' = Shown
  PROVE  Effect(c, 0)'
<1>1. /\ old'.page = page /\ old'.col = col /\ old'.ram = ram
      /\ UNCHANGED <<page, col, place, ram>>
  BY DEF Shown, panel
<1>2. place[2] \in Nat /\ col \in 0 .. Cols - 1 BY Columns DEF OledTypeOK, Places
<1>3. CASE c.op = "init"
  <2>1. InInit(0)' BY <1>1 DEF InInit
  <2> QED BY <1>3, <2>1 DEF Effect
<1>4. CASE c.op = "clear"
  <2>1. InClear(0)' BY <1>1, ClearBegins
  <2> QED BY <1>4, <2>1 DEF Effect
<1>5. CASE c.op = "clear_page"
  <2>1. InClearPage(c.page, 0)' BY <1>1, <1>2, Columns DEF InClearPage, InPage
  <2> QED BY <1>5, <2>1 DEF Effect
<1>6. CASE c.op = "set_pos"
  <2>1. InSetPos(c.page, c.col, 0)' BY <1>1 DEF InSetPos
  <2> QED BY <1>6, <2>1 DEF Effect
<1>7. CASE c.op = "write"
  <2>1. Here(0)' = {} BY DEF Here
  <2>2. (col + 0) % Cols = col
    <3>1. Cols \in Nat BY Columns
    <3> QED BY <1>2, <3>1
  <2>3. InWrite(0)' BY <1>1, <2>1, <2>2 DEF InWrite
  <2> QED BY <1>7, <2>3 DEF Effect
<1> QED BY <1>3, <1>4, <1>5, <1>6, <1>7, CallKinds

LEMMA EffectStep ==
  ASSUME OledTypeOK, NEW c \in Calls, NEW i \in 0 .. Len(Sequence(c)) - 1,
         Effect(c, i), UNCHANGED <<place, old, spi_buf>>, Take(Sequence(c)[i + 1]),
         IF c.op = "write" THEN dc = old.dc /\ old.col \in 0 .. Cols - 1
         ELSE dc = Sequence(c)[i + 1].dc
  PROVE  Effect(c, i + 1)'
<1> DEFINE s == Sequence(c)
<1>1. CASE c.op = "init"
  <2>1. s = OLED_Init BY <1>1 DEF Sequence
  <2>2. i \in 0 .. Pages * PageLen + 1 BY <2>1, InitBytes, Columns
  <2>3. InInit(i) BY <1>1 DEF Effect
  <2>4. InInit(i + 1)' BY <1>1, <2>1, <2>2, <2>3, InitStep
  <2> QED BY <1>1, <2>4 DEF Effect
<1>2. CASE c.op = "clear"
  <2>1. s = OLED_Clear BY <1>2 DEF Sequence
  <2>2. i \in 0 .. Pages * PageLen - 1 BY <2>1, ClearBytes
  <2>3. InClear(i) BY <1>2 DEF Effect
  <2>4. InClear(i + 1)' BY <1>2, <2>1, <2>2, <2>3, ClearStep
  <2> QED BY <1>2, <2>4 DEF Effect
<1>3. CASE c.op = "clear_page"
  <2>1. s = OLED_Clear_Page(c.page) /\ c.page \in AllPages
    BY <1>3, CallKinds DEF Sequence
  <2>2. i \in 0 .. 2 * PageLen - 1 BY <2>1, TwoPagesBytes
  <2>3. InClearPage(c.page, i) BY <1>3 DEF Effect
  <2>4. InClearPage(c.page, i + 1)' BY <1>3, <2>1, <2>2, <2>3, ClearPageStep
  <2> QED BY <1>3, <2>4 DEF Effect
<1>4. CASE c.op = "set_pos"
  <2>1. s = OLED_Set_Pos(c.page, c.col) BY <1>4 DEF Sequence
  <2>2. c.page \in AllPages /\ c.page \in 0 .. Pages /\ c.col \in 0 .. Cols - 1
    BY <1>4, CallKinds DEF AllPages
  <2>3. i \in 0 .. 2
    <3>1. Len(OLED_Set_Pos(c.page, c.col)) = 3 BY <2>2, PositionBytes
    <3>2. Len(s) = 3 BY <2>1, <3>1
    <3> QED BY <3>2
  <2>4. InSetPos(c.page, c.col, i) BY <1>4 DEF Effect
  <2>5. InSetPos(c.page, c.col, i + 1)' BY <1>4, <2>1, <2>2, <2>3, <2>4, SetPosStep
  <2> QED BY <1>4, <2>5 DEF Effect
<1>5. CASE c.op = "write"
  <2>1. s = Message(c.buf) BY <1>5 DEF Sequence
  <2>2. PICK n \in 0 .. MaxWrite : c.buf \in [1 .. n -> Ink] BY <1>5, CallKinds
  <2>3. PICK m \in Nat : Len(s) = m /\ \A k \in 1 .. m : s[k] = Buffered(k)
    BY <2>1, <2>2, WriteBytes
  <2>4. i \in Nat /\ i + 1 \in 1 .. m BY <2>3
  <2>5. s[i + 1] = Buffered(i + 1) BY <2>3, <2>4
  <2>7. InWrite(i) BY <1>5 DEF Effect
  <2>8. InWrite(i + 1)' BY <1>5, <2>4, <2>5, <2>7, WriteStep
  <2> QED BY <1>5, <2>8 DEF Effect
<1> QED BY <1>1, <1>2, <1>3, <1>4, <1>5, CallKinds

(* It needs the screen and the buffer, and nothing else.                   *)
LEMMA EffectStays ==
  ASSUME NEW u, call[u] \in Calls, Effect(call[u], Sent(u)),
         UNCHANGED <<call, todo, spi_buf, page, col, place, ram, old>>
  PROVE  Effect(call[u], Sent(u))'
<1>1. PICK c, i : c \in Calls /\ c = call[u] /\ i = Sent(u) OBVIOUS
<1>2. call'[u] = c /\ Sent(u)' = i BY <1>1 DEF Sent
<1>3. \A q, r, f : InPage(q, r, f)' <=> InPage(q, r, f) BY DEF InPage
<1>4. \A S : Blank(S)' = Blank(S) BY DEF Blank
<1>5. \A j : InClear(j)' <=> InClear(j) BY <1>3, <1>4 DEF InClear, InPage
<1>6. InInit(i)' <=> InInit(i) BY <1>4, <1>5 DEF InInit
<1>7. InClearPage(c.page, i)' <=> InClearPage(c.page, i)
  BY <1>3, <1>4 DEF InClearPage, InPage
<1>8. InSetPos(c.page, c.col, i)' <=> InSetPos(c.page, c.col, i) BY DEF InSetPos
<1>9. InWrite(i)' <=> InWrite(i) BY DEF InWrite, Here
<1>10. InClear(i)' <=> InClear(i) BY <1>5
<1>11. Effect(c, i)' BY <1>1, <1>6, <1>7, <1>8, <1>9, <1>10, CallKinds DEF Effect
<1> QED BY <1>2, <1>11

LEMMA EffectEnds ==
  ASSUME OledTypeOK, NEW c \in Calls, Effect(c, Len(Sequence(c))),
         c.op = "write" => /\ old.col \in 0 .. Cols - 1
                           /\ \A k \in DOMAIN c.buf : spi_buf[k] = c.buf[k]
  PROVE  Done(c)
<1>1. CASE c.op = "init"
  <2>1. Sequence(c) = OLED_Init BY <1>1 DEF Sequence
  <2>2. InInit(Pages * PageLen + 2) BY <1>1, <2>1, InitBytes DEF Effect
  <2>3. ram = Blank(AllPages)
    <3>2. \A n \in Nat : n + 2 # 0 /\ ~(n + 2 <= n + 1) OBVIOUS
    <3>3. Pages * PageLen \in Nat BY Columns
    <3>1. LET i == Pages * PageLen + 2 IN i # 0 /\ ~(i <= Pages * PageLen + 1)
      BY <3>2, <3>3
    <3> QED BY <2>2, <3>1 DEF InInit
  <2> QED BY <1>1, <2>3 DEF Done
<1>2. CASE c.op = "clear"
  <2>1. Sequence(c) = OLED_Clear BY <1>2 DEF Sequence
  <2>2. InClear(Pages * PageLen) BY <1>2, <2>1, ClearBytes DEF Effect
  <2> QED BY <1>2, <2>2, ClearEnds DEF Done
<1>3. CASE c.op = "clear_page"
  <2>1. Sequence(c) = OLED_Clear_Page(c.page) /\ c.page \in AllPages
    BY <1>3, CallKinds DEF Sequence
  <2>2. InClearPage(c.page, 2 * PageLen) BY <1>3, <2>1, TwoPagesBytes DEF Effect
  <2>3. ram = Blank({c.page, c.page + 1})
    <3>1. ~(2 * PageLen < PageLen) /\ ~(2 * PageLen < 2 * PageLen) BY Columns
    <3> QED BY <2>2, <3>1 DEF InClearPage
  <2> QED BY <1>3, <2>3 DEF Done
<1>4. CASE c.op = "set_pos"
  <2>1. Sequence(c) = OLED_Set_Pos(c.page, c.col) BY <1>4 DEF Sequence
  <2>2. c.page \in 0 .. Pages /\ c.col \in 0 .. Cols - 1
    BY <1>4, CallKinds DEF AllPages
  <2>3. Len(OLED_Set_Pos(c.page, c.col)) = 3 BY <2>2, PositionBytes
  <2>4. InSetPos(c.page, c.col, 3) BY <1>4, <2>1, <2>3 DEF Effect
  <2> QED BY <1>4, <2>4 DEF Done, InSetPos
<1>5. CASE c.op = "write"
  <2>1. Sequence(c) = Message(c.buf) BY <1>5 DEF Sequence
  <2>2. PICK n \in 0 .. MaxWrite : c.buf \in [1 .. n -> Ink] BY <1>5, CallKinds
  <2>3. /\ Len(Sequence(c)) = IF n = 0 THEN 1 ELSE n
        /\ c.buf = <<>> <=> n = 0
    BY <2>1, <2>2, WriteBytes
  <2>5. DOMAIN c.buf = 1 .. n BY <2>2
  <2>6. CASE n # 0
    <3>1. Here(n) = {i \in DOMAIN c.buf : place = <<old.page, (old.col + i - 1) % Cols>>}
      BY <2>5 DEF Here
    <3>2. Written(c.buf) = IF Here(n) = {} THEN old.ram ELSE c.buf[Latest(Here(n))]
      BY <3>1 DEF Written, Latest
    <3>3. InWrite(n) BY <1>5, <2>3, <2>6 DEF Effect
    <3>4. old.dc = 1 /\ Here(n) # {} => Latest(Here(n)) \in DOMAIN c.buf
      <4>1. Here(n) \subseteq 1 .. n BY DEF Here
      <4> QED BY <2>5, <3>3, <4>1 DEF InWrite
    <3>5. old.dc = 1 => ram = Written(c.buf) /\ page = old.page
      BY <1>5, <3>2, <3>3, <3>4 DEF InWrite
    <3> QED BY <1>5, <2>3, <2>6, <3>5 DEF Done
  <2>7. CASE n = 0
    <3>1. InWrite(1) BY <1>5, <2>3, <2>7 DEF Effect
    <3>2. place # At(old) => Here(1) = {}
      <4>1. (old.col + 1 - 1) % Cols = old.col
        <5>1. old.col \in Nat /\ old.col < Cols /\ Cols \in Nat BY <1>5, Columns
        <5>2. old.col + 1 - 1 = old.col BY <5>1
        <5>3. old.col % Cols = old.col BY <5>1
        <5> QED BY <5>2, <5>3
      <4> QED BY <4>1 DEF Here, At
    <3>3. old.dc = 1 => page = old.page /\ (place # At(old) => ram = old.ram)
      BY <3>1, <3>2 DEF InWrite
    <3> QED BY <1>5, <2>3, <2>7, <3>3 DEF Done
  <2> QED BY <2>6, <2>7
<1> QED BY <1>1, <1>2, <1>3, <1>4, <1>5, CallKinds

----------------------------------------------------------------------------
LEMMA OledInitially == OledInit => OledInv
<1> SUFFICES ASSUME OledInit PROVE OledInv OBVIOUS
<1>1. 0 \in 0 .. Cols - 1 /\ 0 \in AllPages BY Columns DEF AllPages
<1>3. OledTypeOK BY <1>1 DEF OledInit, OledTypeOK
<1>4. Resting /\ OnlyMine /\ mine = Nobody BY DEF OledInit, Resting, OnlyMine
<1> QED BY <1>3, <1>4 DEF OledInv

LEMMA OledTypeStep == OledTypeOK /\ [OledNext]_oled => OledTypeOK'
<1> SUFFICES ASSUME OledTypeOK, [OledNext]_oled PROVE OledTypeOK' OBVIOUS
<1> USE DEF OledTypeOK
<1>1. ASSUME NEW u \in Users, NEW c \in Calls, OledCall(u, c) PROVE OledTypeOK'
  <2>1. call' \in [Users -> Calls \cup {Idle}] BY <1>1 DEF OledCall
  <2>2. /\ todo' \in [Users -> Seq(Plain) \cup Seq(Buffers)]
        /\ at' \in [Users -> {"set", "send", "restore"}]
        /\ \A v \in Users : todo'[v] \in Seq(Plain) \/ at'[v] = "send"
    <3>1. PICK s \in Seq(Plain) \cup Seq(Buffers) :
            s = Sequence(c) /\ (s \in Seq(Plain) \/ First(c) = "send")
      BY SequenceBytes DEF First
    <3>2. First(c) \in {"set", "send"} BY DEF First
    <3> QED BY <1>1, <3>1, <3>2 DEF OledCall
  <2>4. spi_buf' \in [1 .. MaxWrite -> Nat]
    <3>1. CASE c.op = "write"
      <4>1. PICK n \in 0 .. MaxWrite : c.buf \in [1 .. n -> Ink] BY <3>1, CallKinds
      <4> QED BY <1>1, <3>1, <4>1 DEF OledCall
    <3>2. CASE c.op # "write" BY <1>1, <3>2 DEF OledCall
    <3> QED BY <3>1, <3>2
  <2>5. mine' \in Users \cup {Nobody} /\ UNCHANGED <<dc, page, col, place>>
    BY <1>1 DEF OledCall, panel
  <2> QED BY <2>1, <2>2, <2>4, <2>5
<1>2. ASSUME NEW u \in Users, OledReturn(u) PROVE OledTypeOK'
  BY <1>2 DEF OledReturn, panel
<1>3. ASSUME NEW u \in Users, SetDC(u) PROVE OledTypeOK'
  <2>1. dc' \in {0, 1}
    <3>1. PICK b \in Plain : b = Head(todo[u]) BY <1>3 DEF SetDC
    <3> QED BY <1>3, <3>1 DEF SetDC, Plain, Cmd, Data
  <2> QED BY <1>3, <2>1 DEF SetDC, panel
<1>4. ASSUME NEW u \in Users, RestoreDC(u) PROVE OledTypeOK'
  BY <1>4 DEF RestoreDC, panel
<1>5. ASSUME NEW u \in Users, Send(u) PROVE OledTypeOK'
  <2>1. PICK s \in Seq(Plain) \cup Seq(Buffers) :
          s = todo[u] /\ s # <<>> /\ (s \in Seq(Plain) \/ at[u] = "send")
    BY <1>5 DEF Send
  <2>2. Take(Head(s)) BY <1>5, <2>1 DEF Send, Take
  <2>3. page' \in AllPages /\ col' \in 0 .. Cols - 1 /\ place' = place
    <3>1. Head(s) \in Plain \cup Buffers BY <2>1
    <3> QED BY <2>2, <3>1, TakesAny
  <2>4. /\ todo' \in [Users -> Seq(Plain) \cup Seq(Buffers)]
        /\ at' \in [Users -> {"set", "send", "restore"}]
        /\ \A v \in Users : todo'[v] \in Seq(Plain) \/ at'[v] = "send"
    <3>1. s \in Seq(Plain) => Tail(s) \in Seq(Plain) BY <2>1
    <3>2. s \in Seq(Buffers) => Tail(s) \in Seq(Buffers) /\ Head(s) \in Buffers BY <2>1
    <3>3. \A b \in Buffers : b.dc = Keep BY DEF Buffers, Buffered
    <3>4. todo' = [todo EXCEPT ![u] = Tail(s)]
      BY <1>5, <2>1 DEF Send
    <3>5. at' = [at EXCEPT ![u] = IF Head(s).dc = Keep THEN "send" ELSE "restore"]
      BY <1>5, <2>1 DEF Send
    <3> QED BY <3>1, <3>2, <3>3, <3>4, <3>5
  <2> QED BY <1>5, <2>3, <2>4 DEF Send
<1>6. CASE UNCHANGED oled BY <1>6 DEF oled, driver, panel
<1> QED BY <1>1, <1>2, <1>3, <1>4, <1>5, <1>6 DEF OledNext

(* A process that has something to do is in a call: if one is alone, it    *)
(* is that one.                                                            *)
LEMMA Busy ==
  ASSUME OledInv, NEW u \in Users, todo[u] # <<>> \/ at[u] = "restore"
  PROVE  call[u] \in Calls /\ (mine # Nobody => mine = u)
<1>1. call[u] # Idle BY DEF OledInv, Resting
<1>2. call[u] \in Calls BY <1>1 DEF OledInv, OledTypeOK
<1>3. mine # Nobody => mine = u BY <1>1 DEF OledInv, OnlyMine
<1> QED BY <1>2, <1>3

(* What the actions other than a call and a return leave alone.            *)
LEMMA StillBusy ==
  ASSUME OledInv, NEW u \in Users, todo[u] # <<>> \/ at[u] = "restore",
         UNCHANGED <<call, mine, old>>,
         \A v \in Users \ {u} : todo'[v] = todo[v] /\ at'[v] = at[v]
  PROVE  Resting' /\ OnlyMine'
<1>1. call[u] # Idle BY DEF OledInv, Resting
<1>2. Resting' BY <1>1 DEF OledInv, Resting
<1>3. OnlyMine' BY DEF OledInv, OnlyMine
<1> QED BY <1>2, <1>3

LEMMA CallStep ==
  ASSUME OledInv, NEW u \in Users, NEW c \in Calls, OledCall(u, c)
  PROVE  Resting' /\ OnlyMine' /\ (mine # Nobody => Doing(mine))'
<1>1. OledTypeOK /\ Resting BY DEF OledInv
<1>2. /\ call' = [call EXCEPT ![u] = c] /\ todo' = [todo EXCEPT ![u] = Sequence(c)]
      /\ at' = [at EXCEPT ![u] = First(c)]
  BY DEF OledCall
<1>3. /\ call'[u] = c /\ todo'[u] = Sequence(c) /\ at'[u] = First(c)
      /\ \A v \in Users \ {u} : call'[v] = call[v] /\ todo'[v] = todo[v] /\ at'[v] = at[v]
  BY <1>1, <1>2 DEF OledTypeOK
<1>4. c # Idle
  <2>1. c.op # "none" BY CallKinds
  <2> QED BY <2>1 DEF Idle
<1>5. Resting' BY <1>1, <1>3, <1>4 DEF Resting
<1>6. CASE mine' = Nobody BY <1>5, <1>6 DEF OnlyMine
<1>7. CASE mine' # Nobody
  <2>1. mine' = u /\ \A v \in Users : call[v] = Idle BY <1>7 DEF OledCall
  <2>2. old' = Shown /\ UNCHANGED panel /\ dc' = dc BY <2>1 DEF OledCall
  <2>3. old'.page = page /\ old'.col = col /\ old'.dc = dc BY <2>2 DEF Shown
  <2>4. OnlyMine' BY <1>1, <1>3, <1>4, <2>1, <2>3 DEF OnlyMine, OledTypeOK
  <2>5. Len(Sequence(c)) \in Nat BY SequenceBytes
  <2>6. Sent(u)' = 0 BY <1>3, <2>5 DEF Sent
  <2>7. Ahead(u)' BY <1>3, <2>5, <2>6 DEF Ahead
  <2>8. Line(u)'
    <3>1. CASE c.op = "write"
      <4>1. at'[u] = "send" /\ dc' = old'.dc BY <1>3, <2>2, <2>3, <3>1 DEF First
      <4>2. \A k \in DOMAIN c.buf : spi_buf'[k] = c.buf[k]
        <5>1. PICK n \in 0 .. MaxWrite : c.buf \in [1 .. n -> Ink] BY <3>1, CallKinds
        <5>2. \A k \in DOMAIN c.buf : k \in 1 .. MaxWrite BY <5>1
        <5>3. DOMAIN spi_buf = 1 .. MaxWrite BY <1>1 DEF OledTypeOK
        <5>4. spi_buf' = [i \in DOMAIN spi_buf |->
                            IF i \in DOMAIN c.buf THEN c.buf[i] ELSE spi_buf[i]]
          BY <3>1 DEF OledCall
        <5> QED BY <5>2, <5>3, <5>4
      <4> QED BY <1>3, <3>1, <4>1, <4>2 DEF Line
    <3>2. CASE c.op # "write" BY <1>3, <2>6, <3>2 DEF Line, First
    <3> QED BY <3>1, <3>2
  <2>9. Effect(c, 0)' BY <1>1, <2>2, EffectBegins
  <2>10. Effect(call[u], Sent(u))' BY <1>3, <2>6, <2>9
  <2>11. Doing(u)' BY <2>7, <2>8, <2>10 DEF Doing
  <2> QED BY <1>5, <2>1, <2>4, <2>11
<1> QED BY <1>6, <1>7

LEMMA SetStep ==
  ASSUME OledInv, NEW u \in Users, SetDC(u)
  PROVE  Resting' /\ OnlyMine' /\ (mine # Nobody => Doing(mine))'
<1>1. OledTypeOK /\ (mine # Nobody => Doing(mine)) BY DEF OledInv
<1>2. todo[u] # <<>> /\ at[u] = "set" BY DEF SetDC
<1>3. /\ at' = [at EXCEPT ![u] = "send"] /\ UNCHANGED <<call, todo, spi_buf, mine, old>>
      /\ UNCHANGED <<page, col, place, ram>>
  BY DEF SetDC, panel
<1>4. at'[u] = "send" /\ \A v \in Users \ {u} : at'[v] = at[v] /\ todo'[v] = todo[v]
  BY <1>1, <1>3 DEF OledTypeOK
<1>5. Resting' /\ OnlyMine' BY <1>2, <1>3, <1>4, StillBusy
<1>6. CASE mine = Nobody BY <1>3, <1>5, <1>6
<1>7. CASE mine # Nobody
  <2>1. mine = u /\ Doing(u) /\ call[u] \in Calls BY <1>1, <1>2, <1>7, Busy
  <2>2. Ahead(u)' BY <1>3, <2>1 DEF Doing, Ahead, Sent
  <2>3. call[u].op # "write" BY <1>2, <2>1 DEF Doing, Line
  <2>4. dc' = todo'[u][1].dc BY <1>1, <1>2, <1>3 DEF SetDC, OledTypeOK
  <2>5. Line(u)' BY <1>2, <1>3, <1>4, <2>3, <2>4 DEF Line
  <2>6. Effect(call[u], Sent(u)) BY <2>1 DEF Doing
  <2>7. Effect(call[u], Sent(u))'
    BY <1>3, <2>1, <2>6, EffectStays
  <2> QED BY <1>3, <1>5, <2>1, <2>2, <2>5, <2>7 DEF Doing
<1> QED BY <1>6, <1>7

LEMMA RestoreStep ==
  ASSUME OledInv, NEW u \in Users, RestoreDC(u)
  PROVE  Resting' /\ OnlyMine' /\ (mine # Nobody => Doing(mine))'
<1>1. OledTypeOK /\ (mine # Nobody => Doing(mine)) BY DEF OledInv
<1>2. at[u] = "restore" BY DEF RestoreDC
<1>3. /\ at' = [at EXCEPT ![u] = "set"] /\ UNCHANGED <<call, todo, spi_buf, mine, old>>
      /\ UNCHANGED <<page, col, place, ram>> /\ dc' = 1
  BY DEF RestoreDC, panel
<1>4. at'[u] = "set" /\ \A v \in Users \ {u} : at'[v] = at[v] /\ todo'[v] = todo[v]
  BY <1>1, <1>3 DEF OledTypeOK
<1>5. Resting' /\ OnlyMine' BY <1>2, <1>3, <1>4, StillBusy
<1>6. CASE mine = Nobody BY <1>3, <1>5, <1>6
<1>7. CASE mine # Nobody
  <2>1. mine = u /\ Doing(u) /\ call[u] \in Calls BY <1>1, <1>2, <1>7, Busy
  <2>2. Ahead(u)' BY <1>3, <2>1 DEF Doing, Ahead, Sent
  <2>3. call[u].op # "write" BY <1>2, <2>1 DEF Doing, Line
  <2>4. Line(u)' BY <1>3, <1>4, <2>3 DEF Line
  <2>5. Effect(call[u], Sent(u)) BY <2>1 DEF Doing
  <2>6. Effect(call[u], Sent(u))'
    BY <1>3, <2>1, <2>5, EffectStays
  <2> QED BY <1>3, <1>5, <2>1, <2>2, <2>4, <2>6 DEF Doing
<1> QED BY <1>6, <1>7

LEMMA SendStep ==
  ASSUME OledInv, NEW u \in Users, Send(u)
  PROVE  Resting' /\ OnlyMine' /\ (mine # Nobody => Doing(mine))'
<1>1. OledTypeOK /\ OnlyMine /\ (mine # Nobody => Doing(mine)) BY DEF OledInv
<1>2. todo[u] # <<>> /\ at[u] = "send" BY DEF Send
<1>3. PICK b : b = Head(todo[u]) OBVIOUS
<1>4. /\ at' = [at EXCEPT ![u] = IF b.dc = Keep THEN "send" ELSE "restore"]
      /\ todo' = [todo EXCEPT ![u] = Tail(todo[u])]
      /\ UNCHANGED <<call, spi_buf, dc, mine, old>> /\ Take(b)
  BY <1>3 DEF Send, Take
<1>5. /\ at'[u] = (IF b.dc = Keep THEN "send" ELSE "restore") /\ todo'[u] = Tail(todo[u])
      /\ \A v \in Users \ {u} : at'[v] = at[v] /\ todo'[v] = todo[v]
  BY <1>1, <1>4 DEF OledTypeOK
<1>6. Resting' /\ OnlyMine' BY <1>2, <1>4, <1>5, StillBusy
<1>7. CASE mine = Nobody BY <1>4, <1>6, <1>7
<1>8. CASE mine # Nobody
  <2>1. mine = u /\ Doing(u) BY <1>1, <1>2, <1>8, Busy
  <2>2. PICK c \in Calls : c = call[u] BY <1>2, Busy
  <2>3. PICK s \in Seq(Plain) \cup Seq(Buffers) : s = todo[u] BY <1>1 DEF OledTypeOK
  <2> DEFINE L == Len(Sequence(c))
  <2>13. PICK i : i = Sent(u) OBVIOUS
  <2>4. L \in Nat BY SequenceBytes
  <2>5. Len(s) \in Nat /\ Len(s) > 0 /\ i = L - Len(s) /\ i \in 0 .. L
        /\ \A k \in 1 .. Len(s) : s[k] = Sequence(c)[i + k]
    <3>1. Len(s) \in Nat /\ Len(s) > 0 BY <1>2, <2>3
    <3>2. i = L - Len(s) BY <2>2, <2>3, <2>13 DEF Sent
    <3>3. Ahead(u) BY <2>1 DEF Doing
    <3>4. i \in 0 .. L /\ \A k \in 1 .. Len(s) : s[k] = Sequence(c)[i + k]
      BY <2>2, <2>3, <2>13, <3>3 DEF Ahead
    <3> QED BY <3>1, <3>2, <3>4
  <2>6. /\ Len(Tail(s)) = Len(s) - 1 /\ b = s[1]
        /\ \A k \in 1 .. Len(s) - 1 : Tail(s)[k] = s[k + 1]
    BY <1>2, <1>3, <2>3
  <2>7. Sent(u)' = i + 1 /\ i + 1 \in 0 .. L /\ i \in 0 .. L - 1
    <3>1. Sent(u)' = L - Len(Tail(s)) BY <1>4, <1>5, <2>2, <2>3 DEF Sent
    <3>2. Len(s) \in Nat /\ Len(s) > 0 /\ i = L - Len(s) /\ i \in 0 .. L BY <2>5
    <3>3. Sent(u)' = L - (Len(s) - 1) BY <2>6, <3>1
    <3> HIDE DEF L
    <3> QED BY <2>4, <3>2, <3>3
  <2>8. Ahead(u)'
    <3> HIDE DEF L
    <3>1. \A k \in 1 .. Len(s) - 1 : Tail(s)[k] = Sequence(c)[(i + 1) + k]
      <4> TAKE k \in 1 .. Len(s) - 1
      <4>1. k + 1 \in 1 .. Len(s) /\ i + (k + 1) = (i + 1) + k BY <2>4, <2>5
      <4> QED BY <2>5, <2>6, <4>1
    <3>2. call'[u] = c /\ todo'[u] = Tail(s) BY <1>4, <1>5, <2>2, <2>3
    <3> QED BY <2>6, <2>7, <3>1, <3>2 DEF Ahead, L
  <2>9. b = Sequence(c)[i + 1]
    <3>1. 1 \in 1 .. Len(s) BY <2>5
    <3> QED BY <2>5, <2>6, <3>1
  <2>10. IF c.op = "write"
         THEN /\ dc = old.dc /\ old.col \in 0 .. Cols - 1
              /\ \A k \in DOMAIN c.buf : spi_buf[k] = c.buf[k]
         ELSE dc = b.dc
    <3>1. CASE c.op = "write"
      BY <1>1, <1>8, <2>1, <2>2, <3>1 DEF Doing, Line, OnlyMine
    <3>2. CASE c.op # "write"
      BY <1>2, <2>1, <2>2, <2>3, <2>6, <3>2 DEF Doing, Line
    <3> QED BY <3>1, <3>2
  <2>11. Line(u)'
    <3>1. CASE c.op = "write"
      <4>1. PICK n \in 0 .. MaxWrite : c.buf \in [1 .. n -> Ink] BY <3>1, CallKinds
      <4>2. PICK m \in Nat : L = m /\ \A k \in 1 .. m : Sequence(c)[k] = Buffered(k)
        BY <3>1, <4>1, WriteBytes DEF Sequence
      <4>3. i + 1 \in 1 .. m BY <2>7, <4>2
      <4>4. b.dc = Keep BY <2>9, <4>2, <4>3 DEF Buffered
      <4> QED BY <1>4, <1>5, <2>2, <2>10, <3>1, <4>4 DEF Line
    <3>2. CASE c.op # "write"
      <4>1. dc \in {0, 1} BY <1>1 DEF OledTypeOK
      <4>2. at'[u] = "restore" BY <1>5, <2>10, <3>2, <4>1 DEF Keep
      <4>3. Sent(u)' > 0 BY <2>5, <2>7
      <4> QED BY <1>4, <2>2, <3>2, <4>2, <4>3 DEF Line
    <3> QED BY <3>1, <3>2
  <2>12. Effect(c, i + 1)'
    <3>1. place' = place BY <1>4 DEF Take, TakeData, TakeCommand
    <3>2. Effect(c, i) BY <2>1, <2>2, <2>13 DEF Doing
    <3> QED BY <1>1, <1>4, <2>7, <2>9, <2>10, <3>1, <3>2, EffectStep
  <2>14. Effect(call[u], Sent(u))' BY <1>4, <2>2, <2>7, <2>12
  <2>15. Doing(u)' BY <2>8, <2>11, <2>14 DEF Doing
  <2> QED BY <1>4, <1>6, <2>1, <2>15
<1> QED BY <1>7, <1>8

LEMMA OledStep == OledInv /\ [OledNext]_oled => OledInv'
<1> SUFFICES ASSUME OledInv, [OledNext]_oled PROVE OledInv' OBVIOUS
<1>1. OledTypeOK' BY OledTypeStep DEF OledInv
<1>2. ASSUME NEW u \in Users, NEW c \in Calls, OledCall(u, c) PROVE OledInv'
  BY <1>1, <1>2, CallStep DEF OledInv
<1>3. ASSUME NEW u \in Users, OledReturn(u) PROVE OledInv'
  <2>1. mine' = Nobody BY <1>3 DEF OledReturn
  <2>2. Resting' BY <1>3 DEF OledReturn, OledInv, Resting, OledTypeOK
  <2> QED BY <1>1, <2>1, <2>2 DEF OledInv, OnlyMine
<1>4. ASSUME NEW u \in Users, SetDC(u) PROVE OledInv'
  BY <1>1, <1>4, SetStep DEF OledInv
<1>5. ASSUME NEW u \in Users, Send(u) PROVE OledInv'
  BY <1>1, <1>5, SendStep DEF OledInv
<1>6. ASSUME NEW u \in Users, RestoreDC(u) PROVE OledInv'
  BY <1>1, <1>6, RestoreStep DEF OledInv
<1>7. CASE UNCHANGED oled
  <2>1. /\ UNCHANGED <<call, todo, at, spi_buf, dc, page, col, place, ram, mine, old>>
    BY <1>7 DEF oled, driver, panel
  <2>2. Resting' /\ OnlyMine' BY <2>1 DEF OledInv, Resting, OnlyMine
  <2>3. ASSUME mine # Nobody PROVE Doing(mine)'
    <3>1. PICK u : u = mine OBVIOUS
    <3>2. Doing(u) /\ call[u] \in Calls
      BY <2>3, <3>1 DEF OledInv, OledTypeOK, OnlyMine
    <3>3. Ahead(u)' /\ Line(u)' BY <2>1, <3>2 DEF Doing, Ahead, Line, Sent
    <3>4. Effect(call[u], Sent(u)) BY <3>2 DEF Doing
    <3>5. Effect(call[u], Sent(u))'
      BY <2>1, <3>2, <3>4, EffectStays
    <3>6. Doing(u)' BY <3>3, <3>5 DEF Doing
    <3> QED BY <2>1, <3>1, <3>6
  <2> QED BY <1>1, <2>1, <2>2, <2>3 DEF OledInv
<1> QED BY <1>2, <1>3, <1>4, <1>5, <1>6, <1>7 DEF OledNext

LEMMA OledAlways == OledSpec => []OledInv
BY OledInitially, OledStep, PTL DEF OledSpec

(* A call that no other overlaps shows what it should, and leaves the D/C  *)
(* line at data, for a screen of any size, for writes of any length, and   *)
(* whatever calls that overlapped have left behind.                        *)
THEOREM AlwaysAloneShows == OledSpec => []AloneShows
<1>1. OledInv => AloneShows
  <2> SUFFICES ASSUME OledInv, NEW u \in Users, mine = u, todo[u] = <<>>, at[u] # "restore"
               PROVE  Done(call[u]) /\ (call[u].op # "write" => dc = 1)
    BY DEF AloneShows
  <2>1. Doing(u) /\ call[u] # Idle /\ OledTypeOK BY DEF OledInv, OnlyMine
  <2>2. PICK c \in Calls : c = call[u] BY <2>1 DEF OledTypeOK
  <2>3. Sent(u) = Len(Sequence(c)) /\ Len(Sequence(c)) > 0
    BY <2>2, SequenceBytes DEF Sent
  <2>4. Done(c)
    <3>1. c.op = "write" => /\ old.col \in 0 .. Cols - 1
                            /\ \A k \in DOMAIN c.buf : spi_buf[k] = c.buf[k]
      BY <2>1, <2>2 DEF Doing, Line, OledInv, OnlyMine, OledTypeOK
    <3> QED BY <2>1, <2>2, <2>3, <3>1, EffectEnds DEF Doing
  <2>5. c.op # "write" => dc = 1
    BY <2>1, <2>2, <2>3 DEF Doing, Line, OledTypeOK
  <2> QED BY <2>2, <2>4, <2>5
<1> QED BY <1>1, OledAlways, PTL
============================================================================
