# RISC-V Atom in TLA+

RISC-V Atom is a small RV32IC soft core with its SoC, its C library, boot loader
and simulator. This directory holds TLA+ models of the parts whose correctness
lies in the order of things: the pipeline and its bus, the arbiter, the
peripherals that run beside the program, the software that talks to them, and
the main loop of the simulator. TLC checks the models on small instances; for
the most important properties TLAPS proves them for every value of the constants.

Run TLC in this directory, for example `tlc -config SocBus.cfg MCHydrogenSoC.tla`, and
the proofs with `tlapm CoreProofs.tla`. `PROJECT.json` lists the runs, the source
lines behind every definition, the hazards of the code with the properties that
watch them, and, for each property, a mutant of the model that breaks it.

## 1. The system

| Part | State it keeps | Operations | What makes it hard |
|---|---|---|---|
| Core pipeline (`rtl/core/AtomRV.v`, `Decode.v`) | PC, PC_Old, link address, IR, "ignore the next fetch", halted | fetch, execute, stall, flush, sleep (WFI), trap | a jump while a fetch is on the bus; memory of any latency |
| RVC aligner (`RVC_Aligner.v`) | was_misaligned, saved half word | joins two fetches to one instruction | a jump or trap between the halves |
| CSR unit (`CSR_Unit.v`) | interrupt enables, pending bits, mepc, mcause, cycle counter | CSR writes, trap cause, edge detection | an edge and an exception in one cycle |
| Core bus ports (`AtomRV_wb.v`) | one IDLE/ACTIVE machine per port with a latched request | request, acknowledge | requests outlive the instruction that made them |
| Bus arbiter (`Arbiter.v`, `Priority_encoder.v`, `Arbiter2_wb.v`) | grant, round robin mask | grant, hold, release | starvation; the encoder's bit order |
| Crossbar and SoC (`Crossbar_wb.v`, `HydrogenSoC.v`) | acknowledge register of every slave | address decoding | unmapped addresses |
| UART (`UART.v`, `UART_core.v`, `FIFO_sync.v`, `serial.c`) | line control, two shift registers with state machines, two FIFOs | send, receive, reconfigure | sampling, full FIFOs, settings that change |
| Timer (`Timer_wb.v`, `timer.c`, `time.c`) | mtime, mtimecmp, cycle | read and write in halves, sleep | a half that wraps around between accesses |
| Trap entry and dispatch (`start.S`, `arch.c`, `interrupt.c`) | context frames on the stack, mepc, handler tables | prologue, dispatch, epilogue, wait for an interrupt | nested traps, lost wake ups, a request half written when the handler clears it |
| SPI (`SPI_core.v`, `SPI_wb.v`, `spi.c`) | two shift registers, divider, delays, chip select registers | init, select, transfer, deselect | the last bit against busy; the chip select against a running transfer |
| SD card driver (`sd.c`) | command in progress, attempts, response, block | sd_init, sdc_read_block, sdc_write_block | retry limits, slow cards, cards that go |
| Boot selection, flash boot (`main.c`, `boot.c`, `flashboot.c`) | boot mode, place in the image | identify the flash, copy the image, jump | no flash, settings of the SPI controller |
| UART boot (`uartboot.c`, `scripts/xmsend.py`) | packet number, memory; on the host index, packet number, failures | XMODEM receive and send | lost and garbled bytes, timeouts, retries |
| Heap (`heap.c`) | free list inside the heap | malloc, free, heap_defrag | long sequences of splits and merges |
| Simulator (`sim/atomsim.cpp`, `interactive.cpp`, `main.cpp`, `testbench.hpp`) | debug mode, steps to make, breakpoints, Ctrl+C flag, trace file | run, step, break, reset, trace, quit, Ctrl+C | state that outlives the turn of the loop it was made in; a signal at any moment |
| Simulator's serial line (`sim/bitbang_uart.cpp`, `UART` of `backend_hydrogensoc.cpp`, `vuart.cpp`) | receiver and transmitter states, two queues, the pin | eval in every tick, relay to a terminal | three ticks in a bit; edges seen only between waits |
| Simulator support (rest of `sim/`) | memory images, screens | load, dump | sequential |
| GPIO | direction and output registers | read, write | nothing in particular |

How they interact: the two ports of the core request the bus from the arbiter;
the crossbar passes the granted request to a slave, which acknowledges one cycle
later; the timer's line enters the CSR unit, which redirects the pipeline into
start.S. Software reaches the peripherals only through loads and stores on that
bus, one register access at a time, while the peripherals go on every cycle. The
boot loader reads the flash memory through the SPI controller, access by access,
or receives from a sender on the host through the UART. The SD card driver is a
client of the SPI driver. The simulator calls the clocked design one tick at a
time, between two looks at its breakpoints, its console and a flag that a signal
handler sets; in every tick it first samples and drives the pins of the UART.

What makes each part correct, and where it could go wrong, is the list of
"hazards" in PROJECT.json.

## 2. The modules

One step of a hardware module is one rising clock edge. Registers keep the
names of the code where TLA+ allows it.

### Core and bus
* `AtomCore`: the pipeline control, the aligner and both port machines. `Tick`
  is one clock; `IgnoreHandshake`, `Halt`, `Fetch`, `Align`, `IPort` and `DPort` are
  its always blocks. Addresses count half words, and an instruction is
  represented by the addresses its half words came from, so that "the right
  instruction" can be stated: IR must hold the half words of PC_Old. What an
  instruction does to control (jump, branch, CSR write, access, WFI, illegal) is
  looked up in the program; results of arithmetic are not modelled, and a branch
  goes either way.
* `CsrUnit`: enables, edge detectors, trap cause, mepc and mcause, used by AtomCore.
* `CoreMem`: the core with a memory that acknowledges after any number of cycles,
  and the properties of the core.
* `Isa`: the sequential machine a program believes it runs on. `CoreMem` implements
  it, with `NextToExecute` as the program counter.
* `HydrogenSoC`: extends `CoreMem` with the real interconnect: the arbiter (an instance of
  `Arbiter`), the crossbar and the acknowledge registers of the slaves take the place of
  the memory. Its cycles are cycles of `CoreMem`: the assumptions made there about memory
  hold on this bus.
* `Arbiter`, `ArbiterPorts`: the arbiter with all its parameters, and ports that
  request and release.
* `MCCoreMem`: families of programs: every combination of a few instructions at both
  lengths and alignments in front of a trap handler.

### Peripherals
* `FifoSync` and `BoundedQueue`: the circular buffer, and the queue it implements.
* `UartCore`: transmitter and receiver, one action per state of the code, bit timing
  included. `Uart` puts the FIFOs (as queues, justified by FifoSync), the line control
  register, loopback and the polling driver around it. Its history variable
  `flight` holds what the sender (in loopback the transmitter, otherwise the one at
  the other end) took and what has not yet been delivered.
* `SimUart`: extends `Uart` with the simulator's end of the line, one step per tick: what
  was heard goes to the terminal, what was typed is queued, receiver and
  transmitter evaluate, then the clock rises and the SoC's receiver sees the new
  level. `air` is the history of what the SoC's transmitter took and the host has
  not heard, as `flight` is on the other way.
* `TimerWb`: the timer and the cycle counter as pairs of halves.
* `SpiCore`: the shift engine, one action per state of the code. Bit i of byte b is
  `<<b, i>>`, so that a register shows whose bits it holds and in which order.
* `Spi`: the registers around it with one of the chip selects, the access
  sequences of spi.c, and the slave as a shift register in the controller's mode.
  An access lasts two clocks (request and acknowledge) and any number of clocks
  may lie before it. The slave is external; what it answers is given by the module
  that uses it. `sent` and `expected` are history.

### Software
* `TimerDriver`: each bus access of `timer_get_time`, `timer_get_interrupt`,
  `timer_clear_interrupt`, `cycle` and `sleep_ms` is a step of its own, with any number
  of cycles in between. sleep_us is sleep_ms with another factor. Around them is the
  interrupt: the edge of the gated line (`intrpt_timer`), the entry (`Trap`), the context
  frame of PROLOGUE, a handler that clears the request and may ask for the next
  one (`Rearm`), EPILOGUE and mret. mepc becomes the next access or, on a bubble of
  the pipeline, the one before (`last`), which then happens twice; after a wfi it is
  the one behind it. A store that is in stage 2 when the trap flushes it stays on the bus
  (AtomRV.v:140-147, 192; AtomRV_wb.v:154-176): it takes effect with the trap, or
  is `posted` and `Completes` any number of cycles later, and is made again after
  mret; what a store does is in `Takes`, whoever makes it. PROLOGUE waits for it: the
  arbiter of HydrogenSoC has fixed priorities with the data port first
  (HydrogenSoC.v:98-103), so the store is served before the fetches of the handler.
  A load left behind reads registers that reading does not change, and is not modelled;
  a write of the enables is done although the trap flushes its instruction.
  The history variables are `due`, when the request expires;
  `asks`, that one is being written; `from`, where the running handlers have to
  return to; `torn`, that the halves of a request do not belong together, because the low half
  wrapped around between the two reads of timer.c:17-18; and `stale`, that the request is
  being written over an older one that was not cleared, so that the comparator has
  halves of both in between. Then the interrupt may come early, and nothing is promised
  about that (`Blurred`). timer_get_time
  is there for its accesses; no property is about its result.
* `Heap` and `Allocator`: the free list with the blocks it describes, and what malloc and
  free promise. `Merged` drops the header that becomes part of another block, so
  `size` holds live headers only. Programs free what they own, once.
* `Xmodem`: receiver and sender with a byte queue in each direction. `Inbyte` is `_inbyte`
  with its timeout; the receiver's `rpc` names the place in xmodemReceive, the
  sender's `spc` the place in `send`. 128 data bytes are one byte and the CRC is one
  byte that differs for any two data bytes, as the CRC-16 does for any burst of
  up to 16 bits. The data may equal a control character. Reading five pings is a
  constant (`SyncReads`). The sender's fall back to the algebraic checksum needs
  five garbled pings and is left out. `Heard` is what may arrive of a packet, byte by
  byte, and `DamageShows` says that nothing of it passes for another packet.
* `Boot`: extends `Xmodem` and `Spi`. platform_init chooses by the boot mode pins;
  `flashboot` is the sequence of SPI accesses that flashboot.c makes, each played
  on the clocked controller, with the flash memory as its slave; the UART path
  runs the receiver and then waits for ENTER; main jumps to the program and panics
  if it returns.
* `SdCard`: sd_init, sdc_read_block and sdc_write_block with every loop. A step is one
  exchange of a byte, which `ExchangesWhole` of Boot shows to be what spi_transfer is; the
  six bytes of a command are one step. The card is external: of version 2 or 1, too late
  to be heard, with its line stuck low, or missing; it may need several CMD0 and
  ACMD41, answer late, refuse a block, send an error token, be pulled out or lose
  power. The counters keep their width: `U8` is the number of values of a uint8_t,
  scaled down with the limits it is compared with, in the order of the code
  (10 < 255, 3907 >= 256).
* `AtomSim`: the main loop (`check`, `step`, `resume`, `prompt`), the console's control
  commands, the Ctrl+C handler and the trace file. The simulated program is a flow
  of program counters; an instruction may take any number of ticks. Touching
  the deleted trace object is undefined, and modelled as a choice between going on
  and a crash. `asked` and `signalled` are history.

`MCCoreMem`, `MCHydrogenSoC`, `MCUart`, `MCSimUart`, `MCXmodem`, `MCBoot`, `MCSdCard` and `MCAtomSim` add the
instances for TLC. An operator whose comment says "Mutant of X" is X with a plausible
bug; PROJECT.json says which property notices it. Mutants are used nowhere else.

## 3. What is checked

### Runs that pass
| Run | Bounds | What it shows |
|---|---|---|
| FifoSync | depth 4, three values | pointers and count agree; it is a bounded queue, also when read and written at once on the boundaries |
| CoreSync | all programs of four instructions of the family, 16 half words, any latency | without asynchronous traps: no fetch is torn or misplaced, return addresses are right, no access is abandoned, and the pipeline implements the sequential machine |
| SocBus | a handful of the programs and programs under timer interrupts | the bus is a memory as CoreMem assumes it, its fairness included; every access of either port completes; the core keeps executing, and an interrupt line always ends a sleep |
| ArbRoundRobin | four ports, the grant held until the request drops | nobody is overtaken twice, only requesters are granted, every request is served |
| UartLoopback | characters of two bits, FIFO of two, three cycles in a bit; every frame format in loopback, and the default one to and from the simulator's terminal, with two characters under way in any mix of directions and phases | each character arrives once, in order, undamaged and not marked as broken, on every way |
| UartRecover | characters of one bit, two extreme settings, any line level | both machines return to idle whatever the line does and whenever the settings change |
| TimerDriver | halves of six values, 26 cycles, so that the low half wraps four times; an interrupt between any two accesses, and stores that complete behind it at any time | the line tells when a request is due, and early only when torn or written over one not cleared; an enabled request traps, when due and once; sleeps are never short; cycle() belongs to its call; the program goes on where it was interrupted, unless it was writing a request over one not cleared |
| Heap | sixteen units, headers of two, requests of up to five | the blocks tile the heap, the list stays sorted, defragmenting merges all neighbours, chunks never overlap |
| Boot | every boot mode; a flash memory or none; every mode, bit order and delay of the SPI controller with two divisors; every file of up to three packets in a memory of four, stale bytes before the transfer, up to two bytes lost or garbled on the way to the board, or no sender | no other program is started than the whole one from where the pins say; spi_transfer exchanges whole bytes; what was acknowledged is in memory; booting always ends, and on a quiet line with the image |
| SdCard | every kind of card, two attempts where the code makes ten, blocks of two bytes whose values are the tokens; three calls, one removal or loss of power | sd_init tells whether the card is ready; a block read is the card's, and a write reports what the card did; the card is left deselected; calls return |
| AtomSim | a loop of two instructions that may leave to an EBREAK, two breakpoint slots, steps of 0 to 2, a limit of four ticks | never past a breakpoint or EBREAK unasked; Ctrl+C stops a running simulator within a tick; a single step is one tick; the console always comes back or the simulator ends |

The bounds are small where the code is uniform: a bit of a character is handled as
any other, a slot of a FIFO as any other, and the core looks at its program through one
instruction in stage 2 and one fetch in flight, so that four instructions at both
alignments with every latency reach each pair of neighbours. The timer's halves have
six values so that a delay can span several wrap arounds and a trap handler fits
between two of them; the 26 cycles are as many as it takes for two requests, the second
over the first, to trap one within the other and return (TimerStale, at the same bounds). Three bits are enough for a first, an inner and a last one of an
SPI byte. The retry loops of sd_init are entered, repeated, left at their limit
and one before it. In `AtomSim` two slots have a first and a full case, and a step of two
is the shortest that is pending over a turn of the loop.

Deadlock is not checked in `TimerDriver`, which ends at `MaxTime`; in `Boot`, which ends in
a program, a panic or the endless loop of boot mode 3; in `SdCard`, which ends after its
calls; in `AtomSim`, which ends with the process; nor in the demonstrations below that
use these models.

### Disagreements between the code and what it says
The run SocTornFetch expects a violation, and the "findings" of PROJECT.json quote the
lines: a trap between the halves of a misaligned fetch leaves was_misaligned set,
and the next fetch joins two unrelated half words.

More of them can be replayed with configurations that are kept beside the runs; each
checks one property, which TLC finds violated:

| Configuration, module | What happens |
|---|---|
| SocTrapPC, MCHydrogenSoC | an interrupt on a bubble saves the address of an instruction already executed, which mret executes again (CSR_Unit.v:287) |
| TimerNested, TimerDriver | a handler that asks for the next interrupt is interrupted in EPILOGUE, after mepc was restored and before mret: the program goes on in the wrong place (start.S:86) |
| TimerStale, TimerDriver | the store of a new request over one not cleared takes the line down behind the trap, and the line rises again before PROLOGUE has read mepc: the second trap overwrites it, and the program's place is lost (start.S:63-83) |
| XmodemRetry, MCXmodem | one garbled byte and the transfer can never succeed: the receiver counts refused packets too (uartboot.c:207) |
| SdAttempt, MCSdCard | a card that answers the last of the CMD0 attempts is dismissed (sd.c:255-258) |
| SdAddr, MCSdCard | the block address (sd.h:32) is not used: every read and write is of block 0 |
| SdWrite, MCSdCard | "timeout = 250ms" (sd.c:389, 400) never comes: a uint8_t counter is compared with 3907 |
| SimStep, MCAtomSim | "Step for specified cycles" (interactive.cpp:283) with two or more goes on for ever: the count is only taken down in the turn in which the prompt was open |

These were met in the same models, and shape the assumptions of the runs that pass:

* A trap while a load or store is on the bus abandons the access, and it is made again after
  mret (AtomRV.v:140-147): AccessAwaited holds in CoreSync and fails on the programs
  of SocTornFetch.
* A timer edge in the cycle of an exception is lost: the CSR unit reacts to edges of the line
  (CSR_Unit.v:96-103) and that cycle traps for the exception. The line stays up
  and no interrupt is taken.
* With two ports and the lowest bit first, the priority encoder inverts its answer twice
  (Priority_encoder.v:99) and grants the port that does not ask. HydrogenSoC uses the
  other order.
* A character that waits for a full receive FIFO is overwritten by the next one bit by bit
  (UART_core.v:47, UART.v:146): Delivers fails when FlowControl is FALSE.
* The parity flag is raised for correct characters: it is computed from the character before,
  and `&` binds tighter than `^` (UART_core.v:108).
* Of two stop bits the first one stores the character, not the last (UART_core.v:118-119).
* A request written while an older one is pending, or one that a handler clears between
  the writes of its halves, may come early or be lost (timer.c:16-27): LineTells
  excuses `torn` and `stale`, and a request is only "asked" once it is written. In the
  first case the program may even lose its place: Resumes excuses `stale` (TimerStale).
* An interrupt between its request and the wfi that waits for it makes the wfi sleep
  for ever (interrupt.c:31).
* A lost SOH makes the number of packet 4 the EOT character, and a truncated program is
  started as "Successful!" (uartboot.c:186-188): StartsImage fails for files of four packets.
  Boot keeps to three, and garbles no byte into EOT.
* A file with exactly as many packets as the memory holds is received whole and ends in the
  panic "Unreachable" (uartboot.c:210). Boot leaves one packet free.
* sdc_read_block discards the CRC: a card pulled out within a block yields ones and success.
  BlocksMove is about cards that stay.
* Ctrl+C between the prompt's run command and the next tick is forgotten (atomsim.cpp:139).
* With all breakpoint slots used the break command reports a breakpoint that it has not set,
  and reads behind the array to print it (interactive.cpp:458-461).
* The simulated terminal has no flow control either: typing faster than the program reads
  overwrites characters, as above. UartLoopback keeps to what there is room for.
* clean_recieve_buffer keeps what it received in a char and stops at a byte 0xff, which it takes
  for the empty buffer (vuart.cpp:121-128).
* closeTrace deletes the trace object and keeps the pointer (testbench.hpp:146), which the
  next tick, trace command and the destructor use.

### Fairness
* `HydrogenSoC`: the clock runs, nothing else (`SocFairSpec`). `FairSpec` of CoreMem adds that a
  request is answered eventually, and ImplementsMem shows that the bus provides that.
* `ArbiterPorts`: the clock runs and a granted port releases the bus, as AtomRV_wb does on
  its acknowledge.
* `Uart`, `SimUart`: the clock runs. The driver reads when it likes; since it writes, and the
  user types, only what there is room for, characters arrive without it.
* `TimerDriver`: none; its properties are about steps and states.
* `Boot`: the processor of the board and the sender's process keep running. The user need not
  press ENTER, and `key`, the wait for it, counts as an end. Reads of the receiver and the
  sender give up only when nothing more is to come: the receiver's timeout (10 or 50 ms)
  is assumed longer than the gaps of a sender that is sending, and the sender's (10 s)
  longer than anything the receiver does. Nothing is claimed of the sender's end: it
  repeats the last packet or the EOT to a dead board for ever (xmsend.py:203-217, 221-231).
* `SdCard`: the driver keeps running. The card owes nothing.
* `AtomSim`: the process runs; the user need do nothing, so the prompt counts as an end.

## 4. What is proved

Eight modules hold theorems, for all values of the constants that the named
assumptions of the modules allow. Each follows from an inductive invariant that TLC
checked on the instances first.

* **FIFO** (`UartProofs`, last part): `FifoInv` adds to the types that
  `w_ptr = (r_ptr + count) % WRAP`. FifoTypes and PointersAlwaysAgree follow.
  FifoImplementsQueue maps the circular buffer to
  the sequence of its `count` entries from r_ptr; the lemmas EnqAppends, DeqShifts and
  EnqDeqRotates say what each clock does to that sequence. It needs the depth to be
  the size of the pointers' range (`WRAP = DEPTH`): the code lets DEPTH be any
  number while its pointers wrap at a power of two.
* **Serial line** (`UartProofs`): LinkLosesNone (no sender starts a character before the last one
  has arrived) and LinkDelivers (what the SoC stores and what the simulator hears is what was sent,
  bit for bit, in order and once each), for characters of every length, every divisor from 1 and
  every depth of the FIFO; in loopback with every setting of parity and stop bits, which the
  parity and framing flags then find in order. NoneLost is not inductive: it says nothing of the
  phase the two machines are in. LinkInvariant does. It takes the line as the clock both ends
  share: a sender puts bit k of a frame on it and has held it for d cycles, read off its state by
  `SocK`, `SocD`, `HostK` and `HostD`, and `Moves` says that this pair counts on. A receiver is in
  step (`RxFollows`, `EarFollows`) when it will sample bit k half a bit into it; then what it has
  shifted in are the first bits of the character under way (`RxHolds`, `EarHolds`) and the sender still has
  the others (`SocCarries`, `HostCarries`). A receiver leaves a frame half a bit before its
  sender may begin another, so there is one character under way, and by flow control
  a place for it in the FIFO. The hypotheses are `LinkWorks`: both ends hold a bit for the same
  number of cycles (serial.c:59-60 sets the ratio less two, backend_hydrogensoc.cpp:28 the
  simulator's), and the SoC's divisor is at least 1, as with the highest rate serial.h:7 offers:
  with 0 the receiver samples a bit behind. The settings stay as they are; they are ones both ends
  understand, since the simulator knows neither parity nor a second stop bit; and the
  driver writes what there is room for.
* **Arbiter** (`ArbiterProofs`): TypeCorrect and GrantsOnlyRequesters under `Sound`, which excludes the
  parameters for which the encoder inverts its answer twice. RoundRobinIsFair (nobody is granted twice while
  another waits) needs the invariant `FairInv`: the mask holds exactly the ports
  after the last one granted, so a port that was overtaken is inside it.
* **Core** (`CoreProofs`): CoreTypeCorrect holds with all interrupts. FetchesIntact, LinksCorrect and
  AccessesAwaited are under `NoAsync`, that programs enable no timer interrupt: with one
  they are false (SocTornFetch). `FetchInv` is the inductive invariant:
  FetchIntegrity by itself is not inductive, since it says nothing of the fetch in flight.
  The invariant relates the latched address of the instruction port, the aligner's
  saved half and the "ignore" flag to PC: a fetch in flight is either the one PC
  asks for, in the half the aligner is at, or marked to be ignored. PipelineStep is
  the lemma on the clocks on which stage 2 moves.
  PipelineIsSequential is the refinement of `Isa` under NoAsync. SameInstruction says that
  what is in stage 2 is the instruction of the program there, NextAfter what
  `NextToExecute` is after each kind of instruction, and MachineStep puts them together: a
  clock in which the instruction leaves stage 2 is a step of Isa, any other a stutter.
* **Bus** (`CoreProofs`): BusTypeCorrect and BusIsMemory. `BusInv` says that an acknowledge in
  flight belongs to a port that was granted and still requests; from it each cycle
  with arbiter and crossbar is a cycle of `CoreMem`, with a latency the bus chooses. So
  what is proved of CoreMem holds on HydrogenSoC: SocIsSequential. That requests are
  answered at all, the other half of ImplementsMem, is liveness and stays with TLC.
* **Timer** (`TimerProofs`): for counters of any width and any number of cycles. TimerTypeCorrect,
  CycleReadsCurrent and SleepNeverShort hold whatever handlers do; their invariants
  (`StackInv`, `CycleInv`) follow the frames on the stack and the halves read so far.
  LineAlwaysTells, NoRequestMissed, TrapsOnlyWhenDue and HandlersResume are for handlers that
  do not ask again (`Rearm = {}`): with one that does, the trap in EPILOGUE breaks
  HandlersResume (TimerNested). There `LineInv` relates the comparator, the pending flag and the
  history of requests. `EdgeInv` says that in the handler's first steps the line stays up,
  whatever store completes behind the trap, unless a stale request's took it down;
  `PostedInv` that such a store is the one the program makes again. So a handler is
  interrupted only by a stale request, and `NestInv` follows what the stack looks like then:
  one frame otherwise, and two, or a lost place, in that case. `Positions`, where the program
  goes on, is the same before, in and behind the handlers of either case, which is what
  LineAlwaysTells needs.
* **Heap** (`HeapProofs`): HeapWellFormed, NothingLeaks and KeepsPromise (the refinement of `Allocator`),
  for every heap size, header and set of request sizes. WellFormed alone is not inductive:
  that free may turn a chunk into a block needs `Owned`, that what the program holds is
  behind the header of a block in use. MergeTiles and SplitTiles say that the blocks still
  tile the heap after each operation on two neighbours. For heap_defrag, `Visited` is a
  recursive function over the blocks; a least counterexample shows that no two free
  neighbours remain, in lists of any length.
* **SD card** (`SdProofs`): CardTold and CardObeyed. `SdInv` is types and `Flow`, under any fault, and phases
  of the protocol as long as the card is `Undisturbed`: which exchange the driver is at, which one
  the card is at, and that both count the same attempts. The order of the limits is assumed
  as it is in the code: attempts (10) fit a uint8_t, whose 256 values are fewer than the
  waits (1563 and 3907) that can therefore never end by their limit.
* **Boot over UART** (`BootProofs`): AcknowledgedIsStored, and StartsWhatWasSent, that in the boot modes without
  the flash memory only a whole program is started, for files and memories of any size. AckedIsStored
  is not inductive: it says nothing of the packet that is on its way. `XInv` adds, for the time
  between two acknowledgements, one of four situations: the packet is unread so far,
  the receiver has read a part of what has arrived of it (`Reading`), it was answered,
  or it was lost whole and the receiver pings on; in each, `packetnum = index + failed`
  or one more. SuccessMeansStored is the heart: a packet that passes the checks is the one the
  sender sent, and since both numbers agree modulo 256, nothing was refused before, so that it
  went to its own place. Three hypotheses, `TolerableLine`: `RepliesIntact`, the answers
  may be lost but not turned into each other; `FewRetries`, the sender gives up before 255
  refusals (10 in xmsend.py:148), or the numbers could agree by going round; `DamageShows`,
  no damage to a packet makes another packet or its first byte an end (TLC evaluates
  it for the instance of Boot). A lost SOH in front of packet 4 does make one, see above.
* **Boot from flash over SPI** (`BootProofs`, second part): EveryByteIsExchanged (ExchangesWhole) and
  ImageIsStartedWhole (StartsImage, for all boot modes together), for words of any width, images of any
  size, and every divisor from 1, mode, bit order and delay. ExchangesWhole says nothing of what
  is between two reads; `FlashInv` does. The lemma Plan says which access of the driver
  is where in `flashboot`: access r (write, poll, read) of byte k of one of the two
  commands, or one of the fourteen that set up and select and the check of the manufacturer.
  `Session` then reads off the place
  that the slave has got the first k - 1 bytes of the command, and that byte k is `Waiting` behind
  the delay, `Shifting`, or done. Within a byte, `done` bits have left and the clock is
  `Past` the middle of the next or not: what is left in the transmitter (`Leaves`), has come to
  the receiver (`Comes`), is offered by the slave (`Offers`) and was sampled by it
  (`Gathers`) are the bits before or behind that place, in either order. The four modes differ
  only in the edge with which the slave samples. AccessAcknowledged is the point where driver
  and controller meet: the poll goes on until the last bit and the delay behind it are through.
  `RegsFollow` says that no setting changes while the memory is selected, and `Copied` that
  each byte read was the one of the image that comes next, with ImageAnswer as the memory's part.
  EveryByteIsExchanged assumes nothing of the UART's line; ImageIsStartedWhole
  needs `TolerableLine` for the UART boot mode only.
* **Simulator** (`AtomSimProofs`): NeverRunsPast, CtrlCStops and SingleStep, for every program, set of
  breakpoints and sequence of commands. They share the inductive invariant `Inv`.
  `AskInv` says that the prompt is only open in debug mode with no steps to make;
  `PendingInv` that steps are only pending in debug mode, and none when at most one was
  asked for; `StepInv` that such a step starts in the tick it was asked at; `SignalInv`
  that after Ctrl+C at most the tick under way follows. StopsWhereAsked alone is not
  inductive: that a breakpoint may be passed right behind the prompt depends on
  `rval`, and what a step leaves behind on the pending count. The reset address is
  assumed to hold no EBREAK: after reset the instruction register holds a NOP.

The proofs treat all of memory's latencies, all programs and all command sequences at
once; TLC's runs cover only the listed ones.

Only model-checked: all liveness, which TLAPS does not reach, the fairness of ImplementsMem
included. Every invariant of the passing runs is a theorem.

## 5. Not modelled

* Data paths (ALU, register file, expansion of compressed instructions): values, not order.
* Of the SPI controller: its internal loopback, the other chip selects, and
  spi_transfer_buf and spi_get_buf, which no program here calls. A divisor of 0
  and a baud rate above the clock frequency are excluded, as the drivers never set them.
* The handler tables of arch.c, the dispatch of causes other than the timer, and the reset code.
* Of the simulator: memory and dump commands (one action that changes nothing here), ELF
  loading, disassembly, terminal output and the command line. A reset command in the middle
  of a character leaves the host's half of it to be garbled; `SimUart` does not reset.
* GPIO: registers. The C library, examples, test suites and synthesis files: sequential,
  or no part of the system.
* Vendored code (cxxopts, ELFIO, SerialPort, CoreMark, Dhrystone) makes up more than a third of
  the C and C++ lines of the repository and holds none of its own logic. Together with the
  Verilog being most of what is modelled, this is why the share of C and C++ lines
  that the models stand for stays small.
* The divisor of the UART is fixed in a run; FIFO_DEPTH, the depth of its queues, is a constant. Header alignment in
  the heap is not modelled, although an odd request leaves the next header unaligned.
* Accesses to unmapped addresses hang the bus by construction of the crossbar and are excluded
  from the programs.

## 6. Plan

In this order:

1. The handler tables of arch.c on `TimerDriver`'s traps, with several causes.
2. The internal loopback and buffer transfers of `Spi`.
