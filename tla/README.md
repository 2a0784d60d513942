# A verification project for LearningNote's drivers and servers

LearningNote is a collection of programs that grew while its author learned
embedded Linux, network programming and algorithms: kernel drivers for an
S3C2440 board in a dozen stages, bare-metal programs for the same board,
TCP/IP servers, and exercises of several books. Most of the 1042 source files
are vendor code, copies of the same board support, or exercises of a few lines.
What can go subtly wrong is in the programs where two things happen at once:
drivers whose system calls share state with an interrupt handler, drivers and
chips that work in parallel, and servers with processes and threads. Those are
what this directory models.

- [1 Inventory](#1-inventory)
- [2 The modules and how they correspond to the
  code](#2-the-modules-and-how-they-correspond-to-the-code)
- [3 The runs](#3-the-runs)
- [4 Fairness](#4-fairness)
- [5 What is proved](#5-what-is-proved)
- [6 What the code does against its own texts](#6-what-the-code-does-against-its-own-texts)
- [7 What is not modelled](#7-what-is-not-modelled)
- [8 Plan](#8-plan)

To check a module: `tlc -config <cfg> <module>`; to check proofs: `tlapm <module>Proofs.tla`.

## 1 Inventory

Paths are under `src/`; `MyDrv` is `Embedded/MyDrv`, `TCP` is `TCP-IP-code`.
`PROJECT.json` has the same list with every file, and the hazards line by line.

| Component | State it keeps | Operations | Who it meets | What is hard | What makes it correct |
|---|---|---|---|---|---|
| **I2C bus adapter** `MyDrv/13th_IIC/linux_3.4.2/i2c_bus/i2c-s3c2440.c` | `s3c2440_i2c_xfer_data`: state, msgs, counters, err, wait queue | `master_xfer` (store, start, wait with timeout); interrupt handler | i2c core above; the controller and devices below | the handler runs the whole transfer on state the process filled in without a lock; a timeout abandons a transfer that the controller may go on with; last byte / last message / empty message arithmetic | bytes in order and in place; success means all of them; last byte read is not acknowledged; no access beyond the arrays; nothing used after a call that did not time out |
| **AT24 EEPROM driver** `…/linux_3.4.2/at24cxx_drv.c` | none of its own; the chip's address counter, latch, cells | read, write of one byte by many processes | I2C core, adapter, chip | the chip is deaf during its write cycle; errno and data share a variable | a successful read returns the byte written last, or that of a write that timed out |
| **SPI controller** `MyDrv/14th_SPI/spi_s3c2440.c` | `cur_t`, `cur_cnt`, completion | `transfer`; interrupt handler | chip drivers above; wires below | first byte by the process, the others by the handler; pointers never cleared; one completion used again; an empty transfer | each message goes out whole, in order, to its chip and completes |
| **SPI flash (MTD)** `…/14th_SPI/spi_flash_drv.c` | none beyond one `spi_device`; the chip's BUSY, WEL, protection, pages | probe, erase, read, write | SPI controller; MTD users | each operation is a sequence of messages that nothing keeps together | a lone call does exactly what it says; the chip comes to rest; protection is off when registered |
| **Key driver with exclusive open** `MyDrv/1st_LED/8th/key-concurrency.c` | semaphore, `ev_press`, `keyval`, `button_async`, registered handlers | open, release, read, fasync, poll; interrupt handler | processes; the interrupt lines | order of giving things back; flag cleared after the copy; blocking with signals | one owner; the owner has interrupts; nothing left after release; presses wake readers |
| **Chat server** `TCP/chat_server.c` (client `chat_clnt.c`) | `clnt_socks`, `clnt_cnt`, `mutex`; descriptors | accept loop; per-client thread; broadcast; removal | TCP clients | thread argument shared; descriptors used again; array edited while others wait to walk it; SIGPIPE | one order of messages; the count right; nobody left out |
| **Key driver with debounce timer** `MyDrv/1st_LED/9th/key-delayms.c` | as the 8th, plus `irq_pd` and one timer | the same; the handler only notes the key and starts the timer | processes; interrupt lines; the timer | four lines share one pointer and one timer, which is added before any press | what is recorded of a key settles to its pin; nothing left after release; a waiting reader gets its data |
| **Touch screen** `MyDrv/4th_TS/s3c_ts.c` | controller mode, `cnt`, sample arrays, timer | pen interrupt, ADC interrupt, timer | the ADC | three callbacks hand a mode register to each other | sampling never gets stuck; a release is always reported |
| **OLED over SPI** `MyDrv/14th_SPI/spi_oled_drv.c` | the D/C line, one buffer; the chip's cursor and screen | ioctl (init, clear, clear a page, set position) and write | SPI controller; processes | the D/C line is set outside the message, and no lock keeps two calls apart | a call that no other overlaps shows what it is for |
| **DM9000 network driver** `MyDrv/10th_dm9dev9000c/AfterChange/linux_3.4.2/dm9dev9000c.c` | `board_info`: `tx_pkt_cnt`, `cont_rx_pkt_cnt`, `Speed`; the chip's IMR, ISR, NSR and memory | `start_xmit`; interrupt (receive, `tx_done`, link); time-out and reset; timer; ioctl, `get_link` | the network layer; the chip | each register access is two port accesses that an interrupt may part; events come as edges and are masked in several places; the packet count is not kept atomically; ISR is cleared before the packets are fetched | the right register; no interrupt, received packet or end of sending is lost for good |
| **DMA copy** `MyDrv/11th_DMA/dma.c` | `ev_dma`, two buffers, a channel | ioctl; interrupt | the DMA engine | a signal ends the wait early, and the copy goes on into the next call | a lone call that is not cut short reports OK |
| **USB download driver** `Embedded/dnw_for_linux/secbulk/secbulk.c` | one `secbulk_dev` with its buffer and mutex | probe, disconnect, open, release, write | USB core; processes | open replaces the buffer before it tries the mutex; release frees and unlocks for whoever comes | a bulk message carries what its writer put in |
| **Echo servers** `TCP/echo_{server,mpserv,storeserv,selectserv,epollserv,EPETserv}.c` | descriptors, children, pipe, file, epoll's ready list | one service in six shapes | clients, SIGCHLD | reaping, readiness that is told once, short writes, a pipe whose reader ends, a loop that stays with one client | each client gets its own bytes back, in order; who depends on no other client is served |
| Earlier key drivers, LED, global memory, input, LCD, NAND, NOR, RAM disk, virtual network card, boot loader, bare-metal board support, text viewer, dnw, small socket and thread programs, bitmap sort, book exercises | mostly registers | see `PROJECT.json` | | little that outlives one call | see section 7 |

How they interact. The EEPROM driver is a client of the I2C core, which takes
the adapter's lock and calls `master_xfer`; the flash and OLED drivers are
clients of the SPI core, which calls the controller's transfer hook for one
message at a time. So the lower module's promise is the upper one's
assumption: `At24` runs over `I2cService`, which `I2cAdapter` is shown to
implement, and each step of a process in `SpiFlash` is one message of
`SpiController`, and each byte in `Oled` one of its bytes, because the D/C line may
change between two of them. The two key drivers share their system calls line for line, and so do
`KeyTimer` and `KeyDrv`. The touch screen, the DMA driver, secbulk, the DM9000 driver (whose
peer, the network layer, calls it) and the servers stand alone.

## 2 The modules and how they correspond to the code

`map` in `PROJECT.json` names the source lines of every definition. In all
modules a definition that begins with `Bug` is a faulty variant of the one that
follows it; nothing else uses it.

**Granularity.** The S3C2440 has one core. An interrupt handler therefore runs
whole between two statements of a process and is one action (split into one per
outcome); a process's statements are steps of their own wherever they touch what
a handler or another process can see. In `Dm9000` there is a level between them: packets are
sent, and time-outs handled, in a softirq that takes turns with the system calls only at their
ends, but that the handler may interrupt between any two accesses to a port; there the handler, too,
is several actions, because the chip goes on while it runs. In user space (the servers) every
access to a shared variable, a pipe or a socket is a step.

| Module | Models | State ↔ code |
|---|---|---|
| `I2cService` | abstract: what an I2C adapter promises (call, move the next byte, return) | — |
| `I2cAdapter` | `i2c-s3c2440.c` | `state … err` are the fields of `s3c2440_i2c_xfer_data`; the pointer `msgs` is the array and the position `at`, apart from `cur_msg`, because the code keeps both and they can part; `pc` the place in `s3c2440_bus_xfer`; `bus irq nak iicds slave` the controller and the device |
| `MCI2cAdapter` | instances | messages of 0–2 bytes in both directions, transfers of 1–2 messages |
| `At24` | `at24cxx_drv.c`, the SMBus calls, the chip | handler locals per process; the bus is `I2cService`'s variables |
| `SpiController` | `spi_s3c2440.c` | `cur_t cur_cnt done` as in `s3c_spi_info`; `frame` what the selected chip has seen |
| `MCSpiController` | instances | |
| `SpiFlash` | `spi_flash_drv.c` and the flash chip | one step per SPI message; the unit of address is the 256-byte page |
| `MCSpiFlash` | the symmetry of the users | |
| `Oled` | `spi_oled_drv.c` and the panel | `todo` the bytes of a call still to be sent, `dc` the line, `page col` the chip's cursor; of the screen one place, any, is followed |
| `Dm9000` | `dm9dev9000c.c` and the chip | counters, IMR, ISR by their names; `addr` the register that the first port has selected; `step reg` the place in the softirq, `handling` in the interrupt handler |
| `MCChipDrivers` | one of `At24`, `Oled`, `Dm9000` is in use; the other two rest | |
| `KeyDrv` | `key-concurrency.c` | the driver's globals; per-process place; `MayRun` is CONFIG_PREEMPT |
| `KeyTimer` | `key-delayms.c`, over `KeyDrv` | `irq_pd`, `armed` the timer; `debounced` says which of the two drivers runs |
| `DmaCopy` | `dma.c` | `ev_dma`; `left` the words that the channel has still to copy; a call is two steps, before and after its wait |
| `Secbulk` | `secbulk.c` | the device's buffer is a block of memory that may have been freed or replaced |
| `MCCharDrivers` | one of `KeyDrv`, `KeyTimer`, `DmaCopy`, `Secbulk` is loaded | |
| `TouchScreen` | `4th_TS/s3c_ts.c` | `mode` is ADCTSC, `x` the samples and `cnt`, `touch where` the last report; `handler` and `timer` hold the place in a callback and what it saw; pen and controller are external |
| `ChatServer` | `chat_server.c` | `socks` is `clnt_socks[0..clnt_cnt-1]`, `sock` each thread's `clnt_sock`, `file` the descriptor table |
| `MCChatServer` | instances | |
| `EchoService` | abstract: what an echo server promises | — |
| `EchoSockets` | clients, sockets, and what `select` and `epoll` know | `in out` the bytes on the way, `registered ready` the watched descriptors and epoll's ready list |
| `EchoFork` | `echo_server.c`, `echo_mpserv.c`, `echo_storeserv.c` | parent, children, the pipe and its reader, SIGCHLD and zombies |
| `EchoEvent` | `echo_selectserv.c`, `echo_epollserv.c`, `echo_EPETserv.c` | the loop: the events returned, the descriptor served, the buffer |
| `EchoServers`, `MCEchoServers` | the six together and what they promise; instances | `server` is the one that runs |

Points at which the models follow the code where one might expect otherwise:

- `I2cAdapter`: a call that times out leaves the controller as it is and `msgs`
  set. A late interrupt then works on messages of a call that has returned, or
  on half-stored fields of the next one. `Answer` chooses between devices that
  never answer late (`"dead"`) and ones that may (`"late"`).
- `I2cAdapter`: past the end of the array `Pointed` yields any descriptor, so
  nothing that follows an overrun is assumed.
- `SpiController`: a transfer with both buffers sends and does not store
  (`else if` in the handler). The first byte is sent before the length is looked at, so an
  empty transfer puts one byte on the wire (`Exchanged`). Empty transfers come from the OLED
  driver; the assumption leaves out only an empty transfer that receives, because the MTD layer
  ends an empty read.
- `At24`: whether the chip programs is decided by the stop that follows a whole write, not by what
  the call returns: a call that times out may have been stopped by its last interrupt all the
  same (`Stops`). `held` therefore has, for each cell, the byte reported last and those of the
  writes that timed out since.
- `SpiFlash`: write enable and command are two messages, and neither the driver
  nor the MTD core holds a lock over a call; a command the chip ignores leaves
  no trace.
- `KeyDrv`: the results of `request_irq` and `wait_event_interruptible` are not
  looked at, and either may fail; a `request_irq` may do so on a line that is free, too
  (`refused` remembers those that did). Edges that come while an interrupt is pending are one interrupt.
- `TouchScreen`: the two handlers share an interrupt line and do not nest; each
  looks at the pen once, and pen and controller go on before it acts. When the
  timer starts a conversion while one is already over, two are under way, and a
  sample may be taken while the controller waits for the pen to go up: such a
  sample is any number.
- `ChatServer`: every thread gets a pointer to main's single `clnt_sock`, so it
  may serve another connection than its own; the removal loop advances before
  its first assignment, so the client *after* the leaver is dropped; `accept`
  may give -1, which is stored like any other; a write to a reset connection
  may kill the server.
- `KeyTimer`: the timer is added when the module is loaded; it runs before any key was
  pressed and follows a null pointer (`oops`), after which the model stops.
- `Oled`: a write of no bytes sends the byte that is first in the buffer, left by the write before it
  (`Message`). A byte is a command or data by the line's level when it arrives, whatever it was
  meant to be; of data taken for a command only 0 has a known effect.
- `Secbulk`: an open that will be refused has already given the device a new, zeroed buffer. Open
  (`NewBuffer`, `BulkOpen`) and release (`FreeBuffer`, `BulkRelease`) are two steps each, because
  nothing but the mutex they are about to take or give orders them: a release may free the buffer
  that an open has just made and let that open in. After a null pointer, a use of freed memory, or
  a disconnect while a file is open, the model stops (`broken`).
- `Dm9000`: `tx_pkt_cnt` is loaded and stored apart, and the compiler may or may not load
  it again. `dmfe_get_link` touches the ports without the lock; when its second access meets another
  register than its own (`astray`), nothing is known of the driver any more and only
  the chip goes on. With the link at 10 Mbit `start_xmit` takes one packet at a time; `slowed` says that the
  link has gone from fast to slow since the driver was opened, which changes that limit under a count that may
  have drifted.
- `EchoFork`: an `accept` that SIGCHLD interrupts is called again, because the servers
  `continue`; the interruption is therefore no step of the parent's, which only stands still
  while the handler runs.
- `EchoEvent`: `echo_epollserv` asks for edges on every descriptor, the listening one
  included, but accepts one connection and reads one buffer at an edge. The short write that
  `echo_EPETserv` may do loses the rest; the client is then in `lost`.

## 3 The runs

"States" is the number of distinct states TLC visits; each run is exhaustive.

| Run | Question | Checks | Bounds | States |
|---|---|---|---|---|
| `MCI2cAdapter_dead` | is the driver the service, when slow devices are dead? | `ImplementsService`, `Returns` | ≤ 2 messages of ≤ 2 bytes, any number of calls | 12.9 k |
| `MCI2cAdapter_late` | what survives when interrupts come after a timeout, and can they come otherwise? | `InBounds`, `InOrder`, `DoneIsWhole`, `LastByteNak`, `NoUseAfterReturn` | the same, the handler followed to `cur_msg` ≤ 4 (`MaxWalk`) | 2.4 M |
| `MCChipDrivers` | does a read return what was written last? does a lone call show what it should? does the network driver lose anything between its levels? | `ReadIsLastWrite`; `AloneShows`; `RightRegister`, `InterruptComes`, `TxGoesOn`, `RxComes` | a reader and two writers, 2 cells, 2 byte values, bus faults; 2 users of an OLED of 2 pages × 4 columns, writes of 0–2 bytes (`MaxWrite`); 2 packets in a row mask the receiver, 1 waits in the chip (`MaxFifo`) | 4.6 M |
| `At24_doc` | finding, section 6 | `ReadOutputsData` | one reader, one writer | — |
| `MCSpiController` | does each message go out whole? | `IrqFindsItsTransfer`, `FrameIsMessage`, `Completes` | 2 chips, messages of 0–2 transfers of every shape, 0–3 bytes | 25.4 k |
| `MCSpiFlash` | what holds of calls that overlap, and of those that do not? | `AloneWorks`, `RestsDisabled`, `ChangesInsideCalls` | 2 interchangeable users, 4 pages in 2 sectors | 4.2 M |
| `MCCharDrivers` | are keys recorded and given back, are lone copies whole, do bulk messages carry their own data? | `TimerTypeOK`, `NothingLeft`, `KeyvalSettles`, `WaitEnds`; `AloneIsOk`; `SendsItsOwn` | 2 processes (1 with the timer, `TimerProcs`), 2 keys, no kernel preemption; 2 callers, 2 words; 2 writers, 2 blocks, writes of ≤ 2 chunks (`MaxChunks`) | 626 k |
| `KeyDrv_irqs` | finding, section 6 | `OpenHasIrqs` | 2 processes, 2 keys, with kernel preemption | — |
| `KeyDrv_press` | finding, section 6 | `SleepsOnlyWithoutPress` | 1 process, 2 keys | — |
| `TouchScreen_run` | does sampling go on, and is a release reported? | `TypeOK`, `NeverStuck`, `Watched`, `Releases`, `Tracks` | 2 places, further apart than the filter allows | 326 k |
| `MCChatServer` | one order, right count, nobody left out? | `TypeOK`, `OneOrder`, `CountIsThreads`, `UntilOneLeaves` | 3 connections, of which 2 send a message | 2.6 M |
| `MCEchoServers` | is each server the echo service, and who is served to the end? | `TypeOK`, `ZombiesAreMerged`, `StoredIsEchoed`, `ImplementsService`, `WorksAlone`, `EndsForAll` | 2 clients that say up to 3 bytes and 1, a buffer of 2, sockets that hold 1 byte, a pipe of 2, whose reader reads once (`Quota`) | 176 k |

Why the bounds are enough. *I2C*: the handler's decisions compare `cur_ptr` with
`len`, `len - 1` and `cur_msg` with `msg_num - 1`; lengths 0, 1, 2 and counts 1, 2
take every side of each, in both directions and every order of directions.
`MaxWalk` cuts only runs in which the handler has already run past the
request (possible after a timeout only); the invariants about clean transfers do
not reach it, and the theorems of section 5 hold for every value of it.
*EEPROM*: two writers are needed for one writer's address to come between
another's address and data, and TLC may interchange them (`SYMMETRY`); two cells and two values tell right from wrong,
and a byte that was reported from one that was not.
*SPI*: no byte is the empty transfer, three bytes give a first, a middle and a last one, two transfers a
hand-over, with and without each buffer. *Flash*: two sectors of two pages tell
sector from page and covered from uncovered, at the first and the last address.
*Keys*: one process inside and one that waits, and a first and a last pin; with the
timer, whose system calls are the same, one process; any number is in the theorems. *OLED*: two
pages tell the page that is set from its neighbour, which `clear_page`
clears too; two digits of two columns each make a carry; writes of none, one and two bytes are the stray
byte, the single one and a row; and a second process's write is
what can change the line and the cursor under a call (`Joining`: other calls of the second
process start at rest. The chip's taking a data byte 0 for a command does not happen in this
instance). *DM9000*: the chip holds two packets, and the model is exact about them;
one packet that waits is told from none, and two in a row are the least that can be a flood
and yet not the first. The theorems hold for every number of either. *DMA*: two words tell a
copy that has begun from one that is over. *Secbulk*: two blocks are the least with which an
open can replace one, two writers the least with which a release can come inside an open, and two chunks the least between which it can. *Echo*: three bytes
and a buffer of two need a second read; a socket of one byte makes every write of two a short one;
two clients are the least of which one can hold up the other, and one read of the pipe's reader
leaves a pipe that fills.
*Touch screen*: two places make the filter accept and refuse; the
code bounds everything else.
*Chat*: three clients are the least with a leaver, a neighbour that is dropped
and a third that is not; two messages are the least that can be ordered.
`CHECK_DEADLOCK` is off for the servers, whose bounded supply of clients ends (and SIGPIPE kills
the chat server), and for `MCCharDrivers`, where a null pointer or freed memory stops the kernel.
In every other run a state without a step would be an error.

The run of `MCChipDrivers`, as that of `MCCharDrivers`, is a disjoint union: `chosen` (`loaded`) does
not change, and each part's own steps leave the others at rest in one initial state. Nothing
of one part can mask or disturb another.

## 4 Fairness

Fairness is assumed where the machine gives it, never for users or devices.

- `I2cAdapter`: a process in the call runs on and a raised interrupt is taken.
  The five-second timer is *not* counted on. `Returns` adds, as its premise, that
  the bus answers (`WF(Device)`): then every call returns without the timer.
- `SpiController`: the process runs on, interrupts are taken, and the controller
  shifts (its clock is its own; no chip can hold it). `Completes` follows.
- `KeyDrv`, `KeyTimer`: a pending interrupt is taken, and a system call that can go on does
  (down is left out: it may wait for ever for the owner). The timer runs, unless interrupts
  start its time anew for ever, which bouncing keys can do. `WaitEnds` follows: a reader that
  waits while an interrupt is pending stops waiting, in either driver, unless the
  kernel has stopped.
- `TouchScreen`: interrupts are taken, a conversion ends (its clock is the
  controller's), and the timer runs when it is due and is not interrupted for
  ever. That the controller raises IRQ_TC for a pen which went down *before* the
  waiting mode was set is not assumed; only `Tracks` takes it as a premise.
  `Releases` needs no such help, because the timer looks at the pen itself.
- `EchoServers`: the scheduler runs every process that can go on, and a signal that is pending is
  handled. Nothing is assumed of the clients; that one reads (`Reads`), or that in the end
  all have shut down their side, are premises of the properties. `WorksAlone` says
  what a client may expect of the two servers that do not make it wait for another one to read or to
  close. Of `echo_mpserv`, which has a child for each client, it needs that this client
  some day stops sending (`Silent({c})`: whether it then shuts down its side is its affair) and nothing of
  the others. `echo_EPETserv` reads one client until there is nothing left to read
  (`echo_EPETserv.c:74-89`), so that one who never stops sending starves all the others; there
  the premise is that *every* client some day stops (`Silent(Conns)`). In the
  instance the clients have 3 bytes and 1 to say and all of them stop (`MaxSent`): what TLC shows
  is that nobody is kept waiting by those who do not read or do not close. That a child of
  `echo_mpserv` does not depend on talkers either is an argument: no step of it looks at
  another connection. `EndsForAll` says what
  all may expect if all behave, of every server but `echo_epollserv`, of which it is false.
- `At24`, `Oled`, `SpiFlash`, `ChatServer`, `DmaCopy`, `Secbulk` and `Dm9000` state safety only: their
  waits end when a chip, a client or a signal ends them, which the code cannot make happen.
  What a driver can do for progress there, never to be in a state with nothing to come, is in
  `InterruptComes`, `TxGoesOn` and `RxComes`.

## 5 What is proved

TLAPS checks these for **every** value of the constants; the runs above check the
same formulas on instances. The assumptions are the named `ASSUME`s of the
modules and what is listed.

| Theorem | Says | Rests on |
|---|---|---|
| `I2cAdapterProofs`: `TypeCorrect`, `AlwaysInBounds`, `AlwaysStopIsQuiet` | types; no access past the arrays in a transfer begun on a quiet controller; no interrupt after P | `IInv` |
| `I2cAdapterProofs`: `AlwaysInOrder`, `AlwaysDoneIsWhole`, `AlwaysLastByteNak` | bytes in order and in place; success means all; nak on the last byte only | `WInv` |
| `I2cAdapterProofs`: `NeverUseAfterReturn` | the handler works on a call's messages only while the caller sleeps in it, or after a call that timed out, however late devices answer | `LetGo` |
| `I2cAdapterProofs`: `Implementation` | the driver implements `I2cService` | `DInv`, with `Answer = "dead"` |
| `I2cAdapterProofs`: `AlwaysSomethingToCome`, `AlwaysForward` | a call that waits has an operation on the bus or an interrupt pending; in a transfer begun on a quiet controller each step of handler and device goes forward within the bounds of the messages | `Attended`, `WInv` |
| `ChipDriversProofs`: `AlwaysReadIsLastWrite` | a read of the EEPROM that succeeds returns the byte whose writing was reported last, or that of a write that timed out since, for any processes, cells and bytes, over any adapter that is an `I2cService` | `At24Inv` |
| `ChipDriversProofs`: `AlwaysAloneShows` | a lone call leaves on the panel what it is for, wherever it is looked at; a write of no bytes leaves all but the place at the cursor | `OledInv` |
| `ControllerProofs`, SPI: `TypeCorrect`, `AlwaysItsTransfer`, `AlwaysOneSelected` | types; an interrupt finds the process asleep in its transfer; one chip selected | `IInv` |
| `ControllerProofs`, SPI: `AlwaysFrameIsMessage` | when a message is complete, its chip has seen all of its bytes, in order and no other but one for each empty transfer | `InFrame` |
| `ControllerProofs`, SPI: `AlwaysSleepIsForSomething` | who sleeps has a byte on the wire, an interrupt pending or its completion | `IInv` |
| `SpiFlashProofs`: `AlwaysRestsDisabled`, `AlwaysChangesInsideCalls`, `AlwaysAloneWorks` | with no call in progress the chip is idle and its latch off; pages change only inside a call that covers them; a call that no other overlaps does exactly what it says, at any address and size | `FInv`, `Alone` |
| `ControllerProofs`, DM9000: `AlwaysRightRegister`, `AlwaysInterruptComes`, `AlwaysTxGoesOn`, `AlwaysRxComes` | the register selected is the one accessed; no interrupt is lost; a driver that takes no more packets has something to come, except at count 1 after the link has slowed down; a packet in the chip has its event | `DmfeInv` |
| `CharDriversProofs`, keys: `TypeCorrect`, `AlwaysSoleOwner`, `AlwaysNothingLeft`, `AlwaysSettles` | types, and the one cause of the oops; one owner; nothing left behind; what is recorded settles to the pin — with and without the timer, preempted or not | `KInv`, `KeyvalSettles` itself |
| `CharDriversProofs`: `OpenHasIrqsUncut` | whoever is inside has its interrupts, but for those that `request_irq` refused it and nobody noticed | `KInv`, `Uncut`, `Registered`, with `Preemptible = FALSE` |
| `CharDriversProofs`: `AlwaysAloneIsOk`, `AlwaysSendsItsOwn` | lone copies report OK; a bulk message carries its writer's data, as long as nobody has opened or closed the device since its open began | `Undisturbed`, `BulkInv` |
| `TouchScreenProofs`: `TypeCorrect`, `AlwaysNeverStuck`, `AlwaysWatched` | types and no fifth sample; never measuring without a conversion; a callback to come after every touch | `Watching` |
| `ChatServerProofs`: `TypeCorrect`, `AlwaysCountIsThreads`, `AlwaysOneOrder`, `AlwaysUntilOneLeaves` | types and no index past the array; the count; one order; until somebody leaves, who is in the array gets every message | `SInv`, `OInv`, `UInv` |
| `EchoServersProofs`: `TypeCorrect`, `AlwaysMerged`, `EchoIsService` | types, sockets and pipe that never overflow; no more zombies than merged signals; each of the six servers implements `EchoService` | `IInv` |
| `EchoServersProofs`: `AlwaysStoredIsEchoed` | the file and the pipe hold what was echoed, per client in order and without a gap | `StoredInv`, by induction over `Of` |

Why the invariants had to be strengthened:

- *I2C.* `InBounds` is not inductive: that `cur_ptr` is inside the message says
  nothing of the next message, whose end is decided by `cur_msg` while the
  descriptor is found through `at`. `Aligned` says the two agree while a clean
  transfer is on the bus, and `Storing` that no interrupt can come while the
  process fills the fields in. `Wire` describes the five situations between two
  steps of handler and device (`Starting`, `Writing`, `Written`, `Reading`,
  `Received`) with the exact set of bytes moved; `InOrder` and `DoneIsWhole`
  follow from it. The refinement needs no more than that and `clean`: with dead
  devices every call leaves the controller quiet, so every call begins so. `NeverUseAfterReturn` does
  without: outside the wait the controller is at rest or the last call timed out (`LetGo`), because
  the wait ends otherwise only in STATE_STOP, and then nothing is left that could interrupt
  (`StopIsQuiet`).
- *SPI.* `Turns`: process and handler alternate, at most one of "byte out" and
  "interrupt pending" is true, and `cur_cnt` is 0 when a transfer is kicked. `InFrame`, for
  `FrameIsMessage`: at every point of a message the frame is the bytes up to `At`, a place that
  is reckoned from `cur_t`, `cur_cnt` and whether the byte is still to go, is on the wire or has been
  answered; and what was stored reaches up to `SeenTo`, which the handler moves later. A byte's
  place in the frame is the number of bytes before it (`PlaceInside`), for transfers of any length.
- *EEPROM.* That cell and reader agree needs to be said of the middle of a transfer:
  `Transferring` says which of its bytes have moved, and that after the first the chip's address
  counter is the caller's address (`Halfway`). It is the caller's and nobody else's because of
  `OneOnBus`, the lock of the I2C core.
- *OLED.* What a call has still to send is a suffix of its command sequence (`Ahead`), the D/C
  line fits the byte that comes next (`Line`), and the screen is what it was with the first so many bytes
  carried out (`Effect`, one formula for each kind of call). The clear is two nested loops;
  in the model it is an explicit function of the byte's number, page by page, so that each byte's
  effect follows from division and remainder (`Split`).
- *Flash.* `Latch` and `Own`: the latch is set or the chip busy only while some
  process is between its write enable and the end of its wait. `Before`: until the driver is registered only
  the probe talks to the chip, and what it writes takes the protection off. `Alone`: every page is as
  it was before the call, or as the call makes it if the loop has passed it (`Expected`).
- *DM9000.* What the properties say of the driver at rest has to be said of every point at which
  one level has interrupted another. `Kept`: while an access is half done, the register it
  selected is in the first port or, in the handler, in `reg_save`. `Unmasked`: all events
  are enabled outside the handler, or some level is on its way to enable them (`ToUnmask`), and an
  enabled event has been seen. `TxLooked` is the heart of it: although the count drifts, whenever it
  is at its limit
  or the queue is stopped, something is to come that looks at them (`TxComing`), except where the
  softirq level is about to send or to wake (`ToSend`, `ToWake`). That the count can be
  too high is harmless then, because it is corrected by the next end of sending, through the wait of
  `dmfe_tx_done` - at a limit of 2. A drifted count of 1 with nothing being sent is corrected by
  nothing, and is at the limit when the link is slow. For a link that has been slow all the time
  the count cannot drift (`SlowsUp`, `TxLooked`): one packet is in the chip at most. After the change
  from fast to slow it may have, and the property then speaks of count 2 and the stopped queue only. `RxLooked`: a packet has its event in ISR, or the handler has taken the event and
  not yet looked.
- *Keys.* `Owned`: every registered handler is one that some process will still
  free. It holds although `up` comes before `free_irq`, which is why nothing
  is left over in the end even in the executions in which a process is inside
  without interrupts. `Uncut` says that without preemption nobody is inside while
  a release is under way. The debounced driver takes the same steps and two more, of the handler
  and of the timer, which change neither a process's place nor what is registered.
- *DMA.* `Undisturbed`: while a call is alone, every word is copied or left to copy, and
  an interrupt or a flag that is set means that none is left. `CopyDma` clears the flag *before* it
  starts the channel, which is what makes this true from the start.
- *secbulk.* `OwnBuffer`: between copy and message, an undisturbed writer's block is allocated and
  holds its chunk; with `OneWriter` there is no other who could have written to it.
- *Touch screen.* `RearmedWhileWaiting`: a touch reported by an interrupt between
  the timer's report and its last statement has armed the timer again, so that
  the mode that statement sets does not leave the touch standing.
- *Chat.* `Holder` (the mutex is held by the thread in the loop, all other
  indices are 0) makes the type of `i` inductive although others shorten the
  array. `CountIsThreads` gives that the array is not empty when someone leaves,
  through `Forget`, which drops one entry whatever it finds. For the order:
  messages are numbered by their client, so what is read is new (`Heard`,
  `Speaking`); no two threads send the same (`Apart`); nobody has heard it before
  its thread has the mutex (`Fresh`); and from then to the unlock it is the latest
  thing anybody has heard (`Latest`). With `Latest`, appending it cannot
  contradict any order seen elsewhere. `UInv`, which holds until somebody leaves: client and
  place in the array are the same number, and in the middle of a broadcast those before the index
  have the last message and the others all but that one.
- *Echo.* `Flow`: the bytes a client has said are in four places one after the other, got back,
  on the way back, in the server, on the way to it, and together they are the stream without a
  gap. Each kind of server moves a piece over one border. That a client is hung up on only when it
  has everything needs `Places` as well: that each connection is in one place (queue, parent,
  process, loop), and that who closes has seen the end of the input. The mapping takes
  what is on the way back as echoed.
- *The store of `echo_storeserv`.* `StoredIsEchoed` is almost inductive; `Holding` adds that
  a process has nothing left to store when it reads again, `OwnBytes` that what it stores is its client's.
  What it rests on is how `Of`, a recursive function, treats a sequence that has become longer
  (`OfConcat`). The library's induction theorems cannot be used here, because they take an
  operator as a parameter; `Induction` states induction for a *set* of numbers, and follows from
  `WFMin`, which needs none. `PicksExists` is the other half: that the
  recursion defines a function at all.

Only model-checked: the liveness properties `Returns`, `Completes`, `WaitEnds`,
`Releases`, `Tracks`, `WorksAlone` and `EndsForAll`, because fairness and ENABLED are out of the
prover's reach. Of two of them the part that needs no fairness is proved: for `Returns`, that a call that
waits is never left with nothing to come (`AlwaysSomethingToCome`) and that a transfer begun on a
quiet controller has only so many steps, ordered by message, byte and phase (`AlwaysForward`); for
`Completes`, that nobody sleeps for nothing (`AlwaysSleepIsForSomething`). What is left to TLC is that
these steps are taken. Every invariant and every action property of a passing run is a theorem.

## 6 What the code does against its own texts

- **A failed read gives the reader a byte** (`At24_doc`). The comment over
  `at24cxx_read` (`at24cxx_drv.c:15-16`) says "输出: buf[0] : data". The `int` that
  `i2c_smbus_read_byte_data` returns is stored into an `unsigned char` (line 22):
  during the chip's write cycle the reader gets 237, which is -ENODEV.
- **Open without interrupts** (`KeyDrv_irqs`). The file's subject is
  "并态问题的解决(同步互斥阻塞)" (`key-concurrency.c:1`). `key_drv_release` puts the
  semaphore up (line 117) before it frees the interrupts; on a preemptible
  kernel the next process can be refused its `request_irq`, unnoticed, and then
  lose the old handlers to the first process's `free_irq`.
- **A press that is wiped out** (`KeyDrv_press`). "如果没有按键的话就陷入休眠"
  (line 146): `key_drv_read` clears `ev_press` (line 152) after it has copied
  `keyval` (line 151). A press between the two is recorded, and the next read
  sleeps all the same.

Not findings, because no text of the repository promises otherwise, but in the
models:

- the neighbour dropped by `chat_server.c:74`, and threads that serve another connection (`:54`, `:65`);
- overlapping flash calls that do nothing and return 0 (`spi_flash_drv.c:136`);
- late I2C interrupts after a timeout, which use the messages of a call that has returned and the
  half-stored fields of the next (`i2c-s3c2440.c:108`; `NoUseAfterReturn` says that it takes a timeout);
- the stray byte of an empty SPI transfer (`spi_s3c2440.c:102-104`), which makes a write of no bytes to
  the OLED show one (`spi_oled_drv.c:127`);
- the first run of the debounce timer, which follows a null pointer (`key-delayms.c:206`), and the
  first of two keys pressed within the debounce time, which is not recorded (`:82`);
- a second caller's OLED command taken for data (`spi_oled_drv.c:31`), and a write before the first
  ioctl (`:127`);
- `request_irq` results that nobody looks at (`key-concurrency.c:101-104`): open returns 0 without the
  interrupts;
- a refused open that takes the writer's buffer away and leaks it (`secbulk.c:92`), and a release
  between two steps of an open, which frees the new buffer and lets the open succeed with it (`:106-107`);
- a disconnect that frees what an open file points to (`secbulk.c:37`), where the model stops;
- the flag of a DMA copy whose caller was interrupted, which ends the next caller's wait (`dma.c:91`);
- in `dm9dev9000c.c`, `dmfe_get_link`, which uses the ports without the lock (`:1618`); and
  `tx_pkt_cnt`, which is counted outside the lock (`:791`) while the handler may zero it (`:933`):
  a third packet can then be written over one of two that the chip holds. The queue goes on all the same
  (`TxGoesOn`), the packet is lost. But when the link has gone from 100 to 10 Mbit under a count that has
  drifted to 1 with nothing being sent, `start_xmit` refuses every packet (`:783-784`) and neither
  the handler nor the time-out, which looks at stopped queues only, ever comes: the property excepts
  count 1 after a slow-down;
- zombies of children that end together (`echo_mpserv.c:76`), connections and bytes left lying
  for want of another edge (`echo_epollserv.c:62`), clients that wait for one who never stops sending
  (`echo_EPETserv.c:74-89`), bytes lost by a short write
  (`echo_EPETserv.c:85`), and children that wait for ever for a pipe that nobody reads
  (`echo_storeserv.c:54`).

## 7 What is not modelled

- Loading and unloading of the drivers: straight-line register set-up and kernel
  registration, one thread, no interleaving. What it leaves behind is `Init`.
- Timing other than "before or after": the delays around P, baud rates, BUSY times.
- `poll` of the key driver: it changes nothing.
- The socket set-up of the servers and the command lines; the text of messages.
- Of `dm9dev9000c.c`: probing, opening and stopping the interface, statistics, checksum and
  multicast settings, and which of three packets the chip then sends. The five other copies of the file
  are the vendor's versions for other kernels.
- Of the echo servers: clients that reset the connection, the limit of `EPOLL_SIZE` events, and
  that `echo_server` ends after five clients. Of the chat server: the 257th client, which is written
  behind the array (`chat_server.c:51`); the model's array
  has room for every client.
- Of the OLED, a write whose `copy_from_user` fails half-way, positions past the last page or column, and what other data than 0 means as a command.
- Of secbulk, what follows a use of freed memory.
- Some forty copies of the same bare-metal board support, font tables, the kernel patches, and
  drivers whose code is registration and register
  writes (LCD, NAND, NOR, RAM disk, virtual network card, LEDs): one thread, straight-line, and
  no state that one call leaves to another.
- Earlier stages of the key drivers, which `KeyDrv` and `KeyTimer` contain, and the input driver
  over the same timer.
- The bare-metal I2C controller and touch screen, earlier forms of what `I2cAdapter` and
  `TouchScreen` model; `webserv_linux.c`, which hands its threads one descriptor as
  `chat_server.c` does.
- Programs of a page with one thread, or a textbook's two: the bitmap sort, the hand-over between two
  semaphores, the counter under a mutex, the USB mouse, global memory. The text viewer's sources are
  tables of
  functions that nothing calls yet.
- Book exercises of a few lines each.

## 8 Plan

Done, in the order of importance: `I2cService`, `I2cAdapter` and its refinement;
`SpiController`; `At24` over the service; `SpiFlash` over messages; `KeyDrv`; `ChatServer`;
`TouchScreen`; then `EchoService` with the six servers that implement it; `KeyTimer`, `DmaCopy` and
`Secbulk`; `Oled` over the controller's bytes; `Dm9000`; and the proofs of section 5.

What would come next, the most useful first:

1. A driver-and-controller composition for `SpiFlash` (messages of two users through one
   `SpiController` queue) as a refinement rather than by argument.
2. `dmfe_stop` and `dmfe_open` around the part of `Dm9000` that is modelled, and a chip with an abstract
   specification, so that lost packets are counted and not only lost.
3. Liveness of `Dm9000` (every queued packet is sent at last, without the time-out), which
   `TxGoesOn` and `InterruptComes` suggest.
4. The bitmap sort against a reference definition.

Theorem still worth proving: the safety form of `WaitEnds`, that a press noted for a reader that
waits is never forgotten by handler and timer. It needs a history of which reader took which press,
because two readers of one open file may take it from each other.
