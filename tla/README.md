# Verification of the NEORV32 Linux system

The repository puts a NEORV32 soft processor on an AX301 board and boots Linux on
it: an SDRAM controller in Verilog, a second-stage loader in C, host scripts in
Python that load the kernel over a serial line or from an SD card, a UART driver
for the kernel, and a copy of openFPGALoader, the C++ program that programs the
FPGA over JTAG, SPI and DFU. This directory holds TLA+ models of the parts in which
timing, order or loss can go wrong, what TLC checks of them, and proofs of the
central properties.

Contents: [inventory](#inventory), [modules](#modules-and-the-code-they-model),
[runs](#runs), [findings and observations](#findings-and-observations),
[proofs](#proofs), [what is not modelled](#what-is-not-modelled), [plan](#plan).

`PROJECT.json` gives the lines of source behind each definition (`map`), the runs,
the hazards with the properties that cover them, and for each property a mutated
definition that breaks it.

## Inventory

| Part | Source | State | Operations | Hard behaviour |
|---|---|---|---|---|
| SDRAM controller | `rtl/sdram_ctrl.v` | 31-state FSM, wait counters, refresh counter and request, latched request, open row and bank, pins | one state per clock; the refresh counter in an always block of its own | a refresh due in mid-access, page-mode hits on a stale row, counters of 3, 10 and 14 bits, a reset while the chip keeps its rows |
| SDRAM chip | `sim/sdram_model.v` | cells, open row of each bank, read pipeline | sample a command on the falling edge | legal command, spacing, who drives DQ |
| XBUS bridge | `rtl/wb_sdram_ctrl.v` | `pending`, acknowledge, read data | accept, reject, answer | latches nothing of the request |
| Board top | `rtl/ax301_top.vhd` | power-on reset counter | reset, wiring, `XBUS_TIMEOUT` 4096 | KEY2 at any time; the bus gives up before the 10000 cycles of initialisation are over |
| Stage2, serial boot | `sw/stage2_loader/main.c` | block number, retries, what is stored | `xmodem_receive`, verdict, DTB patch, jump | lost and late bytes, a 3 s timer against the host's 3 s |
| Serial boot, host | `host/boot_linux.py` | payload, block, retries | send, repeat, EOT, compare CRC-32 | the same, from the other end |
| Stage2, command loop and SD modes | `sw/stage2_loader/main.c`, `sd.c` | mode, baud rate, segments to come | R, W, w, B, b | waits without a timeout; what comes next completes what came short |
| SD tools | `host/sd_proto.py`, `sd_pack.py`, `sd_update.py`, `boot_sd.py`, `sd_write_test.py` | session, phase, files read | pack, update, check, boot, write test | killed or failing half-way; two rates; a session taken over with `--persistent` |
| SD layout | `host/sd_layout.py` | header, three slots | pad, build header | files that end in mid-sector, are empty or too large |
| UART driver | `board/neorv32_uart.c` | polling thread, port, tty, transmit buffer, FIFOs | startup, shutdown, poll, start_tx, console, probe, remove | a polling thread without interrupts against opens, closes, the console, FIFOs of 4 bytes and a line discipline that is full; `kthread_run` that fails |
| JTAG core | `tools/openFPGALoader/src/jtag.cpp` | believed TAP state, chain, selected device | walks, shifts with bypass bits, clocks, detection | the state is only tracked, never read; shifts that take several calls |
| Cable drivers | 17 classes behind `JtagInterface` | a buffer of commands, pins, answers | writeTMS, writeTDI, toggleClk, flush | buffers at their limit, the last bit of a shift, answers of earlier commands, transfers that fail |
| SPI and BPI flash | `spiFlash.cpp`, `flashInterface.cpp`, `bpiFlash.cpp` | cells, status register, locks | erase, write, verify, protect, unprotect, quad bit | locks lifted and put back, sectors of two sizes, waits that time out between two steps |
| FPGA drivers | `altera.cpp`, `anlogic.cpp`, `colognechip.cpp`, `efinix.cpp`, `gowin.cpp`, `ice40.cpp`, `lattice.cpp`, `latticeSSPI.cpp`, `xilinx.cpp` | configuration mode, SRAM, internal flash, bridge | program, reset, detect, dump, protect, ... | results dropped on the way up; what a failed run leaves to the next |
| openFPGALoader main | `main.cpp` | command line, exit status | commands in a fixed order | which results count |
| DFU | `dfu.cpp` | DFU state, block, tries | find the device, set_state, download | lost transfers and answers, a device that is busy, fails or is pulled, a killed run |
| Others | iCESugar port, `sw/initramfs`, Quartus, device trees, file parsers | | | not modelled, see below |

How they interact. The CPU strobes a request on XBUS; the bridge raises `pending`;
the controller takes the request from the bus when its FSM reaches `S_IDLE`, unless a
refresh is due, and drives the chip, which samples half a cycle later. Stage2 runs
from on-chip memory and talks to a host script over one serial line, by XMODEM for
the serial boot and by commands with one-letter acknowledges for the SD card. The
scripts share nothing but the card, the running stage2 and the files in `output/`.
openFPGALoader is layered: `main` calls the virtual methods of an FPGA driver, which
calls `SPIFlash` for a flash behind the FPGA and `Jtag` for its registers; `Jtag` calls
the virtual methods of a cable driver, which fills a buffer and sends it over USB or a
socket. The Linux driver shares its registers and the tty between a kernel thread, the
programs that open the tty, and the console.

What makes each part correct:

- the SDRAM path is a memory (`ImplementsMemory`): the chip gets only legal, spaced
  commands, keeps its refreshes, and each request gets one answer, its own and in time;
- a serial boot starts a kernel only when all payloads have arrived as they were sent,
  or stops on both sides;
- a script that says OK has put on the card what it read, and a boot from the card
  loads that;
- every byte that passes the UART is accounted for, no freed tty is used, and opens and
  closes end;
- the wire carries exactly the pulses that the callers of `Jtag` asked for, and they
  reach the selected device;
- an exit status 0 of openFPGALoader means that the file is in the device, and nothing
  else has changed;
- a DFU device manifests a whole image or none, and the result says which.

## Modules and the code they model

SDRAM path, one step is one clock cycle:

- `SdramCtrl`: the controller. Each FSM state is an action with the name of the
  state (`Idle`, `RefPre`, `ActW`, ...); `RefreshCounter` is the always block beside
  them. Registers keep their names and their widths (`% 8`, `% 1024`, `% 16384`).
- `SdramDevice`: the chip. What the simulation model prints as an error is not a
  guard: the chip does something anyway and the properties say it never happens.
- `WbSdram`: the bridge, extends both.
- `SdramSystem`: composes them with the XBUS master (external: the NEORV32 is a
  submodule whose files are not in the repository), the power-on reset and KEY2, and
  states the properties.
- `XbusMemory`: the abstract specification, a memory of words with a write of two
  halves. The mapping under which `SdramSystem` implements it stands at its end.

Serial boot, one step is one item on the line:

- `SerialLine`: both directions, and the ways a packet, a control byte or a CRC line
  can be damaged or lost (external). Bytes of a packet are not modelled; its flaws
  are told apart by what `xmodem_receive` makes of them.
- `LinuxTarget`: `mode_linux`, `xmodem_receive`, `xmodem_receive_verified`.
- `LinuxHost`: `boot_linux.py` from the first NAK on.
- `SerialBoot`: both, and the rules of their timers.

SD card, one step is one item on the line:

- `Stage2`: the card, its layout, the command loop and the modes; `SdTools`: the scripts
  as lists of phases; `SdSystem`: all of them, with faults.

UART driver, one step is one access to the registers or to what the tty layer shares:

- `UartDriver`: the polling thread (`Thread*`), opening and closing the tty, the
  console, the debug output and the FIFOs of the UART (external, as the tty layer is).
  The line discipline has a buffer of `LdiscSize` bytes, which programs empty (`TtyRead`). It
  takes what it has room for (`Receives`); the driver ignores how much that was and drops
  the rest (`refused`). What it does with bytes it has accepted (echo, editing, a flush)
  is not modelled: `got` is what the driver has handed over.

JTAG of openFPGALoader, one step is one method of class `Jtag`:

- `JtagTap`: the state diagram of IEEE 1149.1 (external) and the walk of `set_state`.
- `Jtag`: the methods of the class as the calls they make of a cable driver.
- `JtagCable`: what the cable drivers have in common: a buffer of commands, each with
  the clock pulses it makes, transfers that may fail, and answers. `UsbBlaster`,
  `FtdiMpsse` (MPSSE and CH552), `PacketCables` (DirtyJTAG, CMSIS-DAP, ESP32-S3, CH347,
  GWU2X), `BitVectorCables` (J-Link, XVC and the XVC server) and `BitBang` (Anlogic, FT232R,
  libgpiod, remote bitbang) are the drivers: pure operators from a driver and a call to
  the driver after it. `CableDrivers` is the virtual call.
- `JtagSystem`: `Jtag` on a cable on a chain of devices. The pulses of a call are compared
  with what it asked for as it ends, and `wrong` remembers a difference, so that no history
  of the wire is needed.

Programming with openFPGALoader, one step is one command of a run:

- `FpgaDevice`: the devices of a board, and the waits that can time out; `SpiFlash`:
  the flash chip (external) and the class; `Altera`, `Gowin`, `Lattice` (JTAG and SSPI),
  `Xilinx` (with the parallel flash) and `OtherVendors` (Anlogic, CologneChip, Efinix,
  iCE40): the drivers, as operators from the devices before a command to those after it.
  A field `err` stands for an exception, `rc` for a result.
- `Loader`: the virtual call (`Do`) and the runs: a command line, its commands in the order
  of `main.cpp`, exit status, power cycles.
- `Dfu`: `main` and class `DFU` against a device that follows the DFU class (external), a
  transfer a step.

`MCSdram`, `MCSerialBoot`, `MCSd`, `MCJtag`, `MCLoader` and `MCDfu` give
the constants small values for TLC. The virtual calls are constants of `JtagSystem`
(`Send`) and `Loader` (`Drive`); in every instance they are `Run` of `CableDrivers` and `Do` of
`Loader`.

## Runs

Twelve runs, ten that pass and two that show a disagreement between the code and
what the repository says of it.

| Run | Instance | What it shows |
|---|---|---|
| `sdram_protocol` | 2 banks, 2 rows, six requests (hit, miss in the same and in another bank, one outside the window), refresh interval 40, KEY2 once at any cycle | `TypeOK`, `RowTracking`, `CommandLegal`, `SpacingLegal`, `NoContention`, `RefreshGapBounded`, `ServesTheRequest` (one acknowledge for each request, and its own), `AckInTime` (a bound, so that every request is answered) |
| `sdram_memory` | 2 banks, 2 words of a row, two byte values, partial strobes, KEY2 in mid-access | `ImplementsMemory`: the refinement |
| `sdram_early` | accesses during the initialisation, with a bus that gives up before it is over | a request left pending causes only legal, spaced commands: `CommandLegal`, `SpacingLegal` |
| `serial_boot` | payloads of 3, 1 and 2 blocks, block numbers modulo 2, retry limits of the code, four sets of flaws, up to six of them, three where all kinds mix | `StoredInOrder`, `AckedIsStored`, `BootVerified`, `BothEnd`; `Completes` when packets are only lost or garbled |
| `sd_blob` | slots of 2, 1 and 2 sectors, two versions of each file (too large, empty, ending in mid-sector), three scripts, one rebuilt file, one fault, `--persistent` too | `SlotsKeepApart`, `ClaimHolds`, `BootsWhatWasWritten` |
| `sd_session` | all five scripts, each from a programmed FPGA, two faults | `SessionUsable`, `ToolsEnd` |
| `sd_stale` | update of one slot after another file was rebuilt | violated: `TagIsHonest` |
| `uart_driver` | receive FIFO of 2, transmit FIFO of 1, buffers of 3 and 2, a line discipline of 2, two opens, three bytes each way, one console line | `RxAccounted`, `TxAccounted`, `ConsoleLineWhole`, `TtyAlive`, `FifosServed`, `OpenAndCloseEnd` |
| `jtag_cables` | 17 cable drivers, chains of one and two devices, shifts of 2, 4 and 34 bits in one or several calls, clocks of 3 and 34, octets of 4 bits and buffers scaled with them, transfers that succeed | `WireCarriesTheCalls`, `StateIsTracked`, `BufferFits`, `ReadsWhatItShifted`, `SelectedDeviceLoaded` |
| `loader` | 29 boards, up to four flash chips for a board, command lines with and without a file, two runs with power cycles, one timeout at any of six waits | `ReportedIsWritten`, `CleanRunDoesIt`, `NothingElseChanged`, `LocksAsAsked` |
| `max10_sectors` | a MAX 10, one run without faults, every file and set of sectors of `loader` | violated: `SectorsAsAsked` |
| `dfu` | six kinds of device, images of two blocks, two runs, two faults (a lost transfer or answer, a device that fails, an unplugging), the first run killed anywhere | `OutcomeIsTrue`, `ManifestsWhole`, `Ends`, `Completes` |

Bounds. The FSM of the controller returns to `S_IDLE` after every access, so what
matters is the pair of consecutive requests, the open row between them and the cycle
in which the refresh counter expires; two banks and two rows give every pair, and an
interval of 40 cycles, longer than the longest access and refresh together
(`RefreshAssumption`), lets the expiry meet every state. The proofs do without these
bounds. Block numbers modulo 2 bring a number back within a payload, as modulo 256
does in a kernel of 13000 blocks; six flaws are more than any property needs to
fail under its mutant. Two sectors of a slot tell the last from the others, and three
scripts are enough for a damaged session, its repair and a boot. A receive FIFO of 2 and
a transmit FIFO of 1 are full and overrun within three bytes, and so is a line discipline
of 2 that nobody reads; two opens let a second one meet what the first left. The run has one
console message, which meets the other writers at every place of theirs; with two it takes
too long. That several messages stay whole is proved (`LinesAreWhole`), that the others
make progress between several is not shown. In `jtag_cables` every buffer of a driver keeps its formula
in terms of `Octet` and its size, with an octet of 4 bits; the lengths lie below, on and
across the octet and above every buffer. No transfer of that run fails (`Faults = {99}`):
`Jtag` drops the result of a driver and goes on (`jtag.cpp:372`, `408`, `415`), so that after a failure the
wire does not carry the calls and reads do not return what was shifted; how full the buffers
get then is not checked. In `loader` a block (64 KB) has two
subsectors (4 KB) of two pages of two cells, so that a file covers less than a
page, ends in mid-page or crosses a block, and the flash has a block that no file
touches; a timeout can hit each of the first waits of a run and later ones. In `dfu` two
blocks tell the first from the last, and two faults are what a lost answer and its
repetition, or a loss during a retry, need.

Flaws come in scenarios, of which a boot meets one (`BootScenarios`), and a property of the
serial boot names those it is about. `StoredInOrder` and `AckedIsStored` are about `InStep`: no
packet loses its SOH or a byte behind it (then the target takes payload for control bytes).
`BootVerified` is also about `Detectable`: damage that the 8-bit checksum misses comes
without losses of answers. Under both at once it does not hold, and is not claimed: a
missing verdict counts as consent on both sides (`main.c:222`, `boot_linux.py`), so
silent damage and a lost CRC line together reach the kernel.

What callers are kept away from. Some drivers of openFPGALoader get a case wrong whatever
the circumstances; the properties are stated for the rest, and the exemptions are
definitions with their reasons: `SoundCall` in `JtagSystem` (a constant, `Careful`, lifts
it), `Placed`, `Fits`, `Unlocked`, `OneUserSector`, `Able` and `Tells` in `Loader`. The instance
contains the cases that are exempted (a MAX 10 with one of UFM1 and UFM0, a GW1N whose
status has neither `GOWIN_VLD` nor `POR`), and `max10_sectors` shows the first of these.

Fairness. The SDRAM clock does not stop: `WF(Tick)`, `WF(PorTick)`, none for KEY2. In
the serial models both programs run and their timers expire: weak fairness of their
steps and of their timeouts. None is assumed of killing a script, starting one or
rebuilding a file. A timer expires only when nothing is in flight that
would stop it, because an answer takes milliseconds and every timer seconds; the two
3 s timers of the serial boot may expire in either order, which is where late NAKs
and repeated blocks come from. In `UartDriver` the transmitter shifts, the kernel thread is
scheduled and a system call or a console write that has begun goes on: weak fairness of
`Shifts`, `ThreadSteps`, `OpenSteps` and `ConsolePuts`; none of bytes that arrive and of
programs that open, read, write or close. In `Dfu` the host's process runs and a device that is
busy gets ready: weak fairness of `HostSteps`, `GetsReady` and `Manifests`; none of faults, of
the user and of plugging. `JtagSystem` and `Loader` state no liveness.

What is abstracted: CRC-32 tells any two payloads apart; a file is known by its name,
version and sector number, or by its length; a bit on the wire by its place in the
caller's data; a garbled sector on the way to the card is not modelled, since mode W has
no checksum and nothing could detect it (listed as a hazard).

## Findings and observations

The findings, each with a run that shows it:

- `sd_stale`: `sd_update.py` writes the sizes of all local files into the header, also
  of slots it does not write, and the build-tag check then calls an old slot current.
- `max10_sectors`: with `--flash-sector` and exactly one of `UFM1` and `UFM0`,
  openFPGALoader erases the one that was named and writes the other from the `.pof`, with
  exit status 0 (`altera.cpp:938-941` against `altera.cpp:533-536`). `intel.rst:161-164`
  promises that the named sectors are updated and all others left unchanged.

Observed while modelling, and exempted from the properties or kept in the notes of the
hazards:

- `rtl/sdram_ctrl.v:50` wants a refresh every 7.81 us at most; one requested when a row
  miss has just begun comes up to 402 cycles (8.0 us) after the previous one. None is
  lost (`RefreshesNotLost`), so the average holds.
- An EOT byte in a packet whose start byte was lost ends a transfer, and the byte after
  it passes for the verdict (`main.c:160`): what `InStep` excludes.
- The "safe offset" of the write test, LBA 2048, lies in the Image slot. Stage2 waits for
  the rest of a sector without a timeout, so that the command of a script that takes over
  a session with `--persistent` after a lost byte becomes data.
- The UART driver drops what the line discipline does not take (`neorv32_uart.c:128`) and
  counts neither that nor an overrun of the FIFO.
- Cable drivers: the last bit of a read is or'ed into the wrong bit or lost for certain
  lengths (`ftdiJtagMPSSE.cpp:348`, `ch552_jtag.cpp:339`, the bit-bang drivers); a multiple
  of 512 bits never leaves the shift state (`anlogicCable.cpp:264`); the XVC client takes a
  single `recv` for a whole answer (`xvc_client.cpp:280`).
- Flash: a file that does not begin on a sector of 64 KB can be erased with a gap
  (`spiFlash.cpp:225`); a failed erase or write of sections returns -1 as bool
  (`spiFlash.cpp:492`); a page that times out does not end the loop over the pages
  (`spiFlash.cpp:546`).
- Drivers: `gowin.cpp:288` returns without a result when the status register does not show
  that the flash can be written, and `gowin.cpp:293`, `ice40.cpp:142`, `xilinx.cpp:849`, `anlogic.cpp` and
  `colognechip.cpp` drop the result of a write, so that exit status 0 says nothing there;
  `main.cpp:839` takes the 0 of a flash alone on the bus for a failure, and `main.cpp:611`
  drops the result of the others.
- DFU: the bytes of the poll timeout are joined with `||`, so that every wait is one of 0
  or 1 ms (`dfu.cpp:600`); the loop after the empty last block has no exit when that block
  was lost (`dfu.cpp:800`), which `Ends` excludes by `Hung`; `main.cpp:357` drops the result
  of `download`.

## Proofs

TLAPS checks twenty-eight theorems, in seven modules:

| Theorem | Module | Statement |
|---|---|---|
| `TypeCorrect` | `SdramProofs` | `Spec => []TypeOK` |
| `RowTracked` | `SdramProofs` | `Spec => []RowTracking` |
| `CommandsLegal` | `SdramProofs` | `Spec => CommandLegal` |
| `BusNotContended` | `SdramProofs` | `Spec => []NoContention` |
| `SpacingIsLegal` | `SdramProofs` | `Spec => SpacingLegal` |
| `RefreshesNotLost` | `SdramProofs` | `Spec => []RefreshNotLost` |
| `RefreshGapIsBounded` | `SdramProofs` | `Spec => []RefreshGapBounded` |
| `RequestIsServed` | `SdramProofs` | under `BusAssumptions`, `Spec => []ServesTheRequest` |
| `AckIsInTime` | `SdramProofs` | under `BusAssumptions`, `Spec => []AckInTime` |
| `MemoryIsImplemented` | `SdramRefinementProofs` | under `BusAssumptions` and `CL = 3`, `Spec => ImplementsMemory` |
| `BlocksStoredInOrder` | `SerialProofs` | `Spec => []StoredInOrder` |
| `AcknowledgedIsStored` | `SerialProofs` | `Spec => []AckedIsStored` |
| `BootIsVerified` | `SerialProofs` | `Spec => []BootVerified` |
| `ThreadKeepsItsTty` | `UartProofs` | `Spec => []TtyAlive` |
| `ReceivedIsAccounted` | `UartProofs` | `Spec => []RxAccounted` |
| `SentIsAccounted` | `UartProofs` | `Spec => []TxAccounted` |
| `LinesAreWhole` | `UartProofs` | `Spec => []ConsoleLineWhole` |
| `OnlyWholeImages` | `DfuProofs` | `Spec => ManifestsWhole` |
| `OnlyTheNamedDevice` | `DfuProofs` | `Spec => []NamedDeviceOnly` |
| `OutcomeIsReported` | `DfuProofs` | `Spec => []OutcomeIsTrue` |
| `StaysInStep` | `SdProofs` | `Spec => []Inv` |
| `SlotsApart` | `SdProofs` | `Spec => []SlotsKeepApart` |
| `UsableWhenProgrammed` | `SdProofs` | under `~Persistent`, `Spec => []SessionUsable` |
| `WritesArrive` | `SdProofs` | without the write test, `Spec => []Written` |
| `ClaimIsTrue` | `SdProofs` | without the write test, `Spec => []ClaimHolds` |
| `BootsTheClaim` | `SdProofs` | without the write test, `Spec => []BootsWhatWasWritten` |
| `StateTracked` | `JtagProofs` | `Spec => []StateIsTracked` |
| `SelectedIsLoaded` | `JtagProofs` | under `(Goals \cup Pauses) \cap Shifts = {}`, `Spec => []SelectedDeviceLoaded` |

SDRAM, for every geometry, timing and set of requests that satisfies
`GeometryAssumption` (at least one bank, row and word), `TimingAssumption` (each
parameter fits the counter it is compared with), `CLAssumption`, `TagAssumption`,
`RequestAssumption`, `BoardAssumption`, `PowerUpAssumption` (the initialisation waits at
least as long as what a reset may have cut short) and, for refresh, `RefreshAssumption` (the
longest access and one refresh fit into the interval: 21 against 380 on the board):

- `TypeOK` is inductive as it stands; the controller, the chip and the bridge each
  keep their part, and the chip's part needs the pins to carry a row with ACT and a
  column with READ and WRITE.
- `RowTracking` is not inductive: it does not say on which row an access in progress
  works, nor in which states no row is open. `RowInv` adds both, and what the
  initialisation has done. `CommandLegal` follows from `RowInv` in the state before
  the command.
- `NoContention` rests on `PipeInv`, which says for each FSM state which positions of the
  chip's read pipeline can hold data: it is empty in every state that leads to a write.
- `SpacingLegal` rests on `SpaceInv`: in a state that waits after a command, the command's
  age is at least the wait counter, and in every other state it is past its limit. The
  initialisation after a reset in mid-access is what needs `PowerUpAssumption`.
- `RefreshNotLost` and `RefreshGapBounded` rest on `RefreshInv`. Its core is
  `RefreshOnTime`: the cycles counted since the request and the most still to come
  from the present FSM state (`RefreshDue`) are together at most `MAX_DUE`. Each FSM
  state must use up one cycle of its budget for the one that passes.
- `ServesTheRequest` rests on `BusInv`, which ties the phases of bridge, controller and
  master, and `AckInTime` on `LatencyInv`: the time waited and the most still to come
  (`AnswerDue`) are together at most `MAX_LATENCY`. Both need `BusAssumptions`: the CPU
  leaves the SDRAM alone until it is initialised, the longest access fits into the timeout
  of the bus, and a second refresh does not become due while a request waits for the
  first. Without the first two a request that the bus gave up is served late, which is
  what `sdram_early` is about.
- `MemoryIsImplemented` shows that each step of the path is a step of `XbusMemory` or a
  stutter. `DataInv` is the strengthening: in each FSM state of a read, which half of
  the word is in the pipeline, on DQ or captured, and in each of a write, which half is in
  the cells. `CL = 3` is the latency the controller captures at; with another the
  refinement does not hold.

Serial boot, for payloads of any number of blocks, any modulus of the block numbers above
1, any retry limit (`BootAssumption`) and any number of flaws. The core is `LockStep`: for
each place of the host, what can be on its way in each direction and how far the target can
be; on the line to the target there are packets of the block the host is at, before them
such of the block before it, and after the last the EOT. `ReceiverInv` ties the number the
receiver waits for to what it has stored. A step puts something on one line or takes it from
the other, so that the work is in lemmas on the sequences `LockStep` speaks of. The
three properties are about the boots whose flaws are `InStep` (and `Detectable`), whatever other
scenarios there are. `StoredInOrder` and `AckedIsStored` are proved also for boots with both silent damage and lost
answers; of the scenarios of `serial_boot` that are `InStep` none has both.
`BootVerified` follows from `GoodInv` (without silent damage every stored block is good) and
`ComparedInv` (with it, neither side goes on before the CRC-32 was compared).

UART driver, for FIFOs and buffers of every size (`UartSizes`) and any number of bytes,
messages and opens. `TtyAlive` follows from `Belongs`: a thread that runs belongs to a port
that is open or closing, and such a port has a tty; `neorv32_shutdown` waits for the
thread before the core lets the tty go, which is the one step that could break it.
`RxAccounted` needs `Holds` as well: the thread has bytes in its hands only between taking
them and handing them over, so that `ThreadRx` overwrites nothing. The steps are then lemmas
about three sequences (`AByteArrives`, `Taken`, `HandedOver`, `Dropped`): rising
sequences, cut and joined, whose parts are known through their sets of bytes. A line discipline
that has no room takes a part of the buffer and leaves the rest to be lost
(`WhatIsReceived`); such a byte has `LdiscSize` earlier ones accepted before it, because
no more bytes wait to be read than were accepted, and nothing that happens later
changes that (`StaysBehind`).
`TxAccounted` is inductive with the types of what is sent (`SendTypes`): it speaks of two
flows, of the programs and of the console, through one FIFO, so that each step is a lemma
about a sequence with bytes of several writers (`Insert`: bytes of others change nothing,
`NewBytes`, `Leaves`, `Discarded`), and `TxCharsMoves` says that `neorv32_tx_chars` moves a
prefix. `ConsoleLineWhole` looks only at what has left the console; `LineInv` adds what the
console still holds (`Line`) and that this ends with the end of a message (`EndsWell`), which
is why the thread and the programs, who need the lock and so find `con` empty, may append.
`DbgBetween` covers `neo_uart_dbg`, which needs no lock.

DFU, for images of any number of blocks (`DfuBounds`), kinds of device that end in one of
the three ways (`DfuKinds`), any devices on the bus with an identity other than 0
(`DfuIdentities`), and any number of faults and runs. `ManifestsWhole` is not inductive.
`InStep` adds where the host is in the file and what state the device can be in meanwhile,
`Received` what the device has received so far: the blocks up to the last one it took. A
request is described once by what it may do to the device (`TakesBlock`, `TakesZero`,
`TakesStatus`, `TakesOther`), a transfer by its outcomes (`Outcomes`); a step that leaves the
host outside the loop over the blocks and the device without a new manifestation is
covered by one lemma (`QuietStep`), which leaves the steps on the blocks themselves.
`NamedDeviceOnly` (a run is for the device the file names or, when that is absent, the command line)
is inductive; the work is in `OpensNamed`, on the order of the searches.
`OutcomeIsTrue` needs `Told`: which results each place of the host can have (`Results`),
that the firmware is still one of those the run may have found (`Untouched`), and
that after the empty block the image is in the device and on its way to be the firmware,
until it is (`Lands`). The proof corrected the property: a run that is killed in the
manifestation leaves a device that changes its firmware during the next run, so that what a
failed run leaves is one of the `Firmwares` at its start, not always the one of that moment.

SD card, for slots of any size (`SlotAssumption`), any set of files, versions and sizes
(`FileAssumption`), any number of faults and sessions (`BoundAssumption`) and any subset of
the five scripts (`ToolsAssumption`). The core is `Inv`. Its part `InStep` gives, for each
place of a script, what can be in flight in each direction and where stage2 can be in its
command: the sectors on the line are those of the segment the script is at, each next to the
place it will be written to, and the segments stage2 expects are those the script still has
to send. `QueueOK` and `StreamOK` say the same of what is left after a script was killed: a
segment that was begun stays within one slot, whoever completes it, which is
`SlotsKeepApart`. `Inv` holds for all scripts, faults and rebuilt files, with `--persistent`
and without. It was not inductive at first: an item still in flight could reach a script
that attached with `--persistent`. `persistent_session` sleeps and reads for 0.7 s before its
caller sends (`sd_proto.py:124-152`), in which stage2 takes what was on its way, so `Attach`
now requires that nothing is; the model was corrected, not the invariant. `ClaimHolds` and `BootsWhatWasWritten`
need `Written` as well: when a script has reached a place in its plan, the sectors
acknowledged so far are on the card as the script read them and the others still queued
(`PlanReady`, `PlanSent`), and once the last is there, nothing is in flight that would make
stage2 write, up to the OK and after it (`Verified`, `Claimed`). No later sector of a plan
overwrites an earlier one, because the slots are apart. Two hypotheses are needed,
and the runs show why: the write test overwrites LBA 2048 in the Image slot (a hazard), so that
after it the claim of an earlier update is false; and `--persistent` may find a stage2 in
mid-sector, so that `SessionUsable` is for sessions that begin with programming the FPGA.

JTAG, for chains of 1 to 32 devices whose irlengths a table knows (`ChainAssumption`), shifts
of at least a bit and any number of idle cycles, and whatever states of the ports callers
leave for (`CallerAssumption`). The cable is left open: neither theorem depends on what
`Send` does, since both are about the pulses that the calls mean, and that a driver makes
exactly those is `WireCarriesTheCalls`. The induction runs over the number of pulses,
calls or levels of TMS: the lemma `Induction` is about sets of numbers, and `FoldExists` and
`Agree` give the folds of the model their equations (`TicksMore`, `TicksCat`, `AfterCat`).
Three facts carry the rest. A walk ends: `Dist` bounds the turns left to the loop of
`set_state` (`StepDown`), and each turn is a step of the port (`StepIsTap`), so that
`WalkTakes` holds from every state to every state. A walk into a shift state, or out of one
through its exit, shifts nothing (`Clear`). And a shift of any number of bits appends
exactly these (`Shifted`, `ShiftedOut`). `Tracked` says that class `Jtag` is the one that
`device_select` makes of the chain and the state of the ports; `Unspoilt` says what has been
shifted in while the ports stay in a shift state: the padding in front and then the bits of
all calls so far. `StateTracked` holds whatever states callers name. `SelectedIsLoaded` needs that
they enter a shift state by a shift of that register only, which is where the padding is
put in front; `CologneChip` goes there by `set_state` (`colognechip.cpp:366`) and by a
`shiftIR` that ends in `SHIFT_DR` (`colognechip.cpp:482`), and clocks zeros in front itself.

Only model-checked: of the SD tools `TagIsHonest` (which is violated) and `ToolsEnd`; of the
cable drivers `WireCarriesTheCalls`, `BufferFits` and `ReadsWhatItShifted`; the programming of
devices, whose operators TLC evaluates on each board (`SectorsAsAsked` is violated); and all liveness, which is outside what
the prover handles.

## What is not modelled

- Serial boot: the phases before the first NAK (programming, bootloader handshake,
  upload of stage2), which are sequential and end at the first error.
- Stage2's U-Boot mode, SDRAM test, trap dump and FENCE.I test; `sd_init` and the SPI
  bytes of the SD driver (an SD operation succeeds or fails in `Stage2`).
- `sw/initramfs/init.c`: a test program for the guest. The iCESugar port: another board
  without SDRAM. The NEORV32: not in the repository. Quartus files, device trees, kernel
  configurations: data.
- Host scripts that only read and print (`sd_dump.py`, `sd_smoke.py`, `fencei_test.py`,
  `test_shell.py`).
- openFPGALoader: the parsers of bitstreams and other files (pure functions of a file), the
  SVF player, option parsing and the tables of boards, cables and chips, the firmware of
  adapters, progress bars; of the cable drivers the opening of an adapter, the setting of
  the clock, `writeTMSTDI` and the bit-bang driver of the Jetson Nano; of the FPGA drivers
  security settings and the printing of registers.

## Plan

Done: the SDRAM path with its refinement, the serial boot, the UART driver, the SD tools and
DFU, with proofs of their safety properties; JTAG, with proofs of the class, and the cable
drivers; programming with openFPGALoader. Next, in this order:

1. Proofs of the cable drivers, one at a time: `WireCarriesTheCalls` and `BufferFits` for
   buffers of any size, beginning with `UsbBlaster`.
2. The SD-over-SPI driver as a module of its own, refining the SD operations of `Stage2` (a
   write that reports an error after the card has taken the data).
3. The memory map: load addresses and sizes of the payloads in the SDRAM, for which
   `xmodem_receive` has no bound.
4. The SVF player of openFPGALoader, as a caller of `Jtag`.
