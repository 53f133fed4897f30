------------------------------- MODULE Loader -------------------------------
(* A user who runs openFPGALoader several times on one board.  A run is one    *)
(* process of main.cpp: it takes the commands of its command line in a fixed   *)
(* order (Order), each through the driver of the board's FPGA, and exits.      *)
(* board holds what the board fixes of the options, Requests what a user may   *)
(* ask of it.  At most one run has a device that does not get ready in time.   *)
EXTENDS SpiFlash, TLC

Alt == INSTANCE Altera
Other == INSTANCE OtherVendors
Gow == INSTANCE Gowin
Lat == INSTANCE Lattice
Xil == INSTANCE Xilinx

CONSTANTS
    Boards,         \* the boards: what they fix of the options
    Chips(_),       \* the SPI flash chips a board may carry
    Requests(_),    \* what the user may ask of a board: [cmds, opt]
    Drive(_, _, _), \* the virtual methods of Device (Do, below)
    Waits,          \* numbers of waits that end well before one does not
    MaxRuns         \* bound on the runs

VARIABLES
    board,          \* the board
    dev,            \* the devices on it, and the objects of the running process
    run,            \* the command line of the run and its commands still to do
    pc,             \* "idle", "run" or "exit"
    exit,           \* the exit status: 0 is success
    before,         \* the devices when the run began
    trouble,        \* a run had a wait that timed out
    count           \* the runs so far

vars == <<board, dev, run, pc, exit, before, trouble, count>>

NoFault == -1

-----------------------------------------------------------------------------
(* The drivers of the FPGAs behind the class Device: the commands each of them *)
(* has, and what each does to the devices s of a board b.                      *)
Order == <<"program", "unprotect", "erase", "protect", "quad", "detect", "dump", "reset">>
Commands == {Order[i] : i \in DOMAIN Order}

\* What main.cpp hands to spi_comm, and the boards of it without a driver.
OnSpiBus(b) == b.bus = "spi"
Bare(b) == b.vendor = "none"

-----------------------------------------------------------------------------
\* The commands a driver has; the others answer that they are not supported.
Has(b) ==
    CASE b.vendor \in {"xilinx"} -> Commands
      [] b.vendor \in {"altera", "lattice"} -> Commands \ {"quad"}
      [] b.vendor = "anlogic" -> Commands \ {"quad", "detect"}
      [] b.vendor = "ice40" -> Commands \ {"quad"}
      [] b.vendor = "colognechip" -> Commands \ {"protect", "unprotect"}
      [] b.vendor = "efinix" -> {"program", "detect", "dump", "reset"}
      [] b.vendor = "latticesspi" -> {"program"}
      [] b.vendor = "gowin" ->
            {"program", "dump", "reset"} \cup (IF b.fam = "gw5a" THEN {"unprotect"} ELSE {})
                                         \cup (IF b.fam \in {"gw5a", "gw2a"} THEN {"erase", "detect"} ELSE {})
      [] OTHER -> Commands \ {"quad", "detect", "reset"}

\* The commands of FlashInterface, for the drivers that leave them to it.
Shared(s, cmd, prepare(_), post(_)) ==
    CASE cmd = "unprotect" -> FlashUnprotect(s, prepare, post)
      [] cmd = "erase"     -> FlashBulkErase(s, prepare, post)
      [] cmd = "protect"   -> FlashProtect(s, prepare, post, s.opt.area)
      [] cmd = "quad"      -> FlashQuad(s, prepare, post, TRUE)
      [] cmd = "detect"    -> FlashDetect(s, prepare, post)
      [] cmd = "dump"      -> FlashDump(s, prepare, post, 0, s.opt.area)

AlteraDo(s, cmd) ==
    CASE cmd = "program" -> Alt!Program(s)
      [] cmd = "reset" -> Alt!Reset(s)
      [] cmd = "dump" /\ s.opt.max10 -> Alt!Max10Dump(s)
      [] OTHER -> Shared(s, cmd, Alt!PrepareFlashAccess, Alt!PostFlashAccess)
GowinDo(s, cmd) ==
    CASE cmd = "program" -> Gow!Program(s)
      [] cmd = "reset" -> Gow!Reset(s)
      [] OTHER -> Shared(s, cmd, Gow!PrepareFlashAccess, Gow!PostFlashAccess)
EfinixDo(s, cmd) ==
    CASE cmd = "program" -> Other!EfinixProgram(s)
      [] cmd = "reset" -> Other!EfinixReset(s)
      [] cmd = "detect" -> Other!EfinixDetect(s)
      [] cmd = "dump" -> Other!EfinixDump(s, 0, s.opt.area)
AnlogicDo(s, cmd) ==
    CASE cmd = "program" -> Other!AnlogicProgram(s)
      [] cmd = "reset" -> Other!AnlogicReset(s)
      [] OTHER -> Shared(s, cmd, Other!AnlogicPrepareFlashAccess, Other!AnlogicPostFlashAccess)
CologneChipDo(s, cmd) ==
    CASE cmd = "program" -> Other!CologneProgram(s)
      [] cmd = "reset" -> Other!CologneReset(s)
      [] cmd = "detect" -> Other!CologneDetect(s)
      [] cmd = "dump" -> Other!CologneDump(s, 0, s.opt.area)
      [] OTHER -> Shared(s, cmd, Other!ColognePrepareFlashAccess, Other!ColognePostFlashAccess)
Ice40Do(s, cmd) ==
    CASE cmd = "program" -> Other!IceProgram(s)
      [] cmd = "reset" -> Other!IceReset(s)
      [] cmd = "detect" -> Other!IceDetect(s)
      [] cmd = "dump" -> Other!IceDump(s, 0, s.opt.area)
      [] cmd = "protect" -> Other!Protect(s, s.opt.area)
      [] cmd = "unprotect" -> Other!Unprotect(s)
      [] cmd = "erase" -> Other!EraseAll(s)
LatticeDo(s, cmd) ==
    CASE cmd = "program" -> Lat!Program(s)
      [] cmd = "reset" -> Lat!Reset(s)
      [] OTHER -> Shared(s, cmd, Lat!PrepareFlashAccess, Lat!PostFlashAccess)
XilinxDo(s, cmd) ==
    CASE cmd = "program" -> Xil!Program(s)
      [] cmd = "reset" -> Xil!Reset(s)
      [] cmd = "detect" -> Xil!Detect(s)
      [] cmd = "dump" -> Xil!Dump(s, 0, s.opt.area)
      [] cmd = "protect" -> Xil!Protect(s, s.opt.area)
      [] cmd = "unprotect" -> Xil!Unprotect(s)
      [] cmd = "quad" -> Xil!Quad(s, TRUE)
      [] cmd = "erase" -> Xil!EraseAll(s)

\* The flash alone on the SPI bus (end of spi_comm): the FPGA beside it is held in
\* reset by the object that is built for the run and let go at its end.
BareDo(s, cmd) ==
    LET f == Construct([s EXCEPT !.spi = TRUE], s.opt.unprotect)
        w == EraseAndProg(f, s.opt.offset, s.opt.file)
        c == CASE cmd = "program" -> IF s.opt.verify THEN Verify(w, s.opt.offset, s.opt.file) ELSE w
               [] cmd = "unprotect" -> DisableProtection(f)
               [] cmd = "erase" -> BulkErase(f, FALSE)
               [] cmd = "protect" -> EnableProtection(f, s.opt.area)
               [] cmd = "dump" -> Read(f, 0, s.opt.area)
    IN  IF cmd = "program" /\ ~s.opt.parses THEN Fail(s) ELSE Unless(f, Boot(c))

\* The virtual call of a command.
Do(b, s, cmd) ==
    IF cmd \notin Has(b) THEN Fail(s)
    ELSE CASE b.vendor = "altera" -> AlteraDo(s, cmd)
           [] b.vendor = "gowin" -> GowinDo(s, cmd)
           [] b.vendor = "efinix" -> EfinixDo(s, cmd)
           [] b.vendor = "anlogic" -> AnlogicDo(s, cmd)
           [] b.vendor = "colognechip" -> CologneChipDo(s, cmd)
           [] b.vendor = "ice40" -> Ice40Do(s, cmd)
           [] b.vendor = "latticesspi" -> Lat!SspiProgram(s)
           [] b.vendor = "lattice" -> LatticeDo(s, cmd)
           [] b.vendor = "xilinx" -> XilinxDo(s, cmd)
           [] b.vendor = "none" -> BareDo(s, cmd)
-----------------------------------------------------------------------------
\* Which results main looks at: an exception of program ends the run, the result of
\* set_quad_bit does, the results of the others are dropped.  spi_comm keeps three of
\* them, those of the bare flash with the sense of the test turned round, and an
\* exception ends the process.
EndsRun(s, cmd) ==
    IF OnSpiBus(board) THEN s.err /\ (Bare(board) \/ cmd = "program") ELSE s.err /\ cmd \in {"program", "quad"}
Counts(s, cmd) ==
    /\ OnSpiBus(board) /\ cmd \in {"unprotect", "erase", "protect"}
    /\ IF Bare(board) THEN s.rc = 0 ELSE s.err

\* One command of the run.
Takes(cmd) ==
    LET s == Drive(board, dev, cmd) IN
    /\ pc = "run" /\ run.todo # <<>> /\ Head(run.todo) = cmd
    /\ dev' = [s EXCEPT !.err = FALSE, !.poll = IF @ < 0 THEN NoFault ELSE @]
    /\ run' = [run EXCEPT !.todo = IF EndsRun(s, cmd) THEN <<>> ELSE Tail(@)]
    /\ exit' = IF EndsRun(s, cmd) \/ Counts(s, cmd) THEN 1 ELSE exit
    /\ trouble' = (trouble \/ (dev.poll # NoFault /\ s.poll < 0))
    /\ UNCHANGED <<board, pc, before, count>>

DoProgram == Takes("program")
DoUnprotect == Takes("unprotect")
DoErase == Takes("erase")
DoProtect == Takes("protect")
DoQuad == Takes("quad")
DoDetect == Takes("detect")
DoDump == Takes("dump")
DoReset == Takes("reset")

\* The commands that main, or spi_comm, looks for.
LooksFor(b) == IF ~OnSpiBus(b) THEN Commands
               ELSE Commands \ ({"quad", "reset"} \cup (IF Bare(b) THEN {"detect"} ELSE {}))

\* A run begins: unprotect and erase are for runs without a file, in the others the
\* flag lets program lift the locks.  A fault may be waiting for it.
Begins ==
    /\ pc = "idle" /\ count < MaxRuns
    /\ \E r \in Requests(board) : \E p \in IF trouble THEN {NoFault} ELSE Waits \cup {NoFault} :
        LET todo == SelectSeq(Order, LAMBDA cmd : cmd \in r.cmds \cap LooksFor(board))
        IN  /\ run' = [cmds |-> r.cmds, todo |-> todo, clean |-> p = NoFault]
            /\ dev' = Begin(dev, r.opt @@ board, p)
            /\ before' = dev
    /\ pc' = "run" /\ exit' = 0 /\ count' = count + 1
    /\ UNCHANGED <<board, trouble>>

Exits ==
    /\ pc = "run" /\ run.todo = <<>>
    /\ pc' = "exit"
    /\ UNCHANGED <<board, dev, run, exit, before, trouble, count>>

\* What the process knew is gone with it.
Forget(d) == [d EXCEPT !.opt = <<>>, !.poll = 0, !.late = FALSE, !.rc = 0, !.unprotect = FALSE,
                       !.relock = FALSE, !.status = <<>>, !.rd = <<>>, !.wel = FALSE]
Leaves ==
    /\ pc = "exit"
    /\ pc' = "idle" /\ dev' = Forget(dev) /\ before' = <<>> /\ run' = <<>>
    /\ UNCHANGED <<board, exit, trouble, count>>

\* The board is switched off and on: what is not volatile stays.
PowerCycle ==
    /\ pc = "idle" /\ count < MaxRuns /\ count > 0
    /\ dev' = [Boot(dev) EXCEPT !.isc = FALSE, !.lock = dev.chip.global, !.open = {}, !.view = "array",
                                !.other.lock = dev.chip.global]
    /\ UNCHANGED <<board, run, pc, exit, before, trouble, count>>

Init ==
    /\ board \in Boards
    /\ dev \in {Forget(NewDevice(c)) : c \in Chips(board)}
    /\ run = <<>> /\ pc = "idle" /\ exit = 0 /\ before = <<>> /\ trouble = FALSE /\ count = 0

Next == \/ Begins \/ Exits \/ Leaves \/ PowerCycle
        \/ DoProgram \/ DoUnprotect \/ DoErase \/ DoProtect
        \/ DoQuad \/ DoDetect \/ DoDump \/ DoReset

Spec == Init /\ [][Next]_vars

-----------------------------------------------------------------------------
\* What a command line asks of the devices.  In MAX 10 a .pof goes to the sectors that
\* are named, or to all; any other file fills the area from the first sector named to the
\* last, UFM1 and UFM0 without a name (CFM0 is for a design).
AllSectors == {Alt!Sectors[i] : i \in 1..5}
UserArea(o) ==
    LET named == IF o.sectors = {} THEN {1, 2} ELSE {i \in 1..4 : Alt!Sectors[i] \in o.sectors}
    IN  {i \in 1..4 : \E a, b \in named : a <= i /\ i <= b}
Filled(o) == {i \in UserArea(o) : Cardinality({x \in UserArea(o) : x < i}) \in o.offset .. o.offset + Len(o.file) - 1}
PofSectors(o) == IF o.sectors = {} THEN AllSectors ELSE o.sectors
Sections(o, area) == SelectSeq(o.jed, LAMBDA x : x.lines > 0 /\ Lat!Area([opt |-> o], x.note) = area)
Lines(o, notes) == Fold(LAMBDA n, x : IF x.note \in notes THEN n + x.lines ELSE n, 0, o.jed)
InsideGoal(o) ==
    CASE o.vendor = "altera" /\ o.max10 ->
            [r \in IF o.ext = "pof" THEN PofSectors(o) ELSE {Alt!Sectors[i] : i \in Filled(o)} |-> 1]
      [] o.vendor = "gowin" /\ o.fam = "gw1n" ->
            [r \in (IF o.ext = "fs" THEN {"main"} ELSE {}) \cup (IF o.mcufw THEN {"mcu"} ELSE {}) \cup (IF o.userflash THEN {"user"} ELSE {}) |->
                CASE r = "main" -> 1 [] r = "mcu" -> 2 [] r = "user" -> 3]
      [] o.vendor = "lattice" /\ o.fam \in {"xo2", "xo3"} ->
            [r \in {"cfg", "feature", "feabits"} \cup (IF Lines(o, {"tag"}) > 0 THEN {"ufm"} ELSE {}) |->
                CASE r = "cfg" -> Lines(o, {"cfg", "ebr"}) [] r = "ufm" -> Lines(o, {"tag"}) [] OTHER -> 1]
      [] o.vendor = "lattice" /\ o.fam = "xo3d" /\ o.ext = "jed" ->
            [r \in {"CFG0", "UFM0"} |-> Fold(LAMBDA n, x : n + x.lines, 0, Sections(o, r))]
      [] o.vendor = "lattice" /\ o.fam = "xo3d" /\ o.ext = "fea" -> [r \in {"feature", "feabits"} |-> 3]
      [] o.vendor = "lattice" /\ o.fam = "xo3d" /\ o.ext = "pub" -> [r \in {"key"} |-> 4]
      [] o.vendor = "xilinx" /\ o.fam \in {"xcf", "xc95", "xc2c"} -> [r \in {"prom"} |-> Len(o.file)]
      [] OTHER -> <<>>

Holds(mem, o) == \A i \in DOMAIN o.file :
    o.offset + i - 1 \in Cells /\ mem[o.offset + i - 1] = o.file[i]
Written(d) ==
    LET o == d.opt IN
    IF o.prg = "sram" THEN d.fab = "file" /\ d.got = Len(o.file)
    ELSE IF InsideGoal(o) # <<>> THEN \A r \in DOMAIN InsideGoal(o) : d.nv[r] = InsideGoal(o)[r]
    ELSE /\ o.target \in {"primary", "both"} => Holds(d.mem, o)
         /\ o.target \in {"secondary", "both"} => Holds(d.other.mem, o)

-----------------------------------------------------------------------------
\* The run that has just ended: it was to write a file, none of its waits timed out.
Ended == pc = "exit"
Wrote == Ended /\ "program" \in run.cmds /\ (dev.opt.prg = "sram" => "reset" \notin run.cmds)
Clean == run.clean \/ dev.poll # NoFault
Inside(o) == InsideGoal(o) # <<>>
OnFlash(o) == o.prg = "flash" /\ ~Inside(o)

\* The file fits into the flash, or into its sectors of MAX 10 (altera.cpp does not tell),
\* and begins with a sector of 64 KB: from another place sectors_erase leaves a gap.
Placed(o) ==
    /\ o.offset + Len(o.file) <= Block * NrBlocks /\ o.offset % Block = 0
    /\ o.max10 /\ o.ext # "pof" => o.offset + Len(o.file) <= Cardinality(UserArea(o))

\* The file is whole, it is for this device, and nothing that the run needs is missing.
Fits(o) ==
    /\ o.parses /\ o.match /\ o.bridge /\ o.package /\ o.stray /\ o.vld /\ ~o.skipBridge /\ Placed(o)

\* No lock is in the way of the run, or it may lift it.
Unlocked(o, d) ==
    \/ d.bp = 0 /\ d.other.bp = 0
    \/ o.unprotect /\ d.chip.tb # "STATR" /\ d.chip.quad # "STATR"
    \/ Inside(o) \/ o.prg # "flash"

\* A .pof for one of the two user sectors of MAX 10: altera.cpp:534 looks at the wrong bit
\* of the mask, so that it erases this one and writes over the other.
OneUserSector(o) == o.max10 /\ o.ext = "pof" /\ Cardinality(o.sectors \cap {"UFM1", "UFM0"}) = 1

\* What a driver cannot do: that, efinix.cpp writes nothing over SPI, and the verify of a
\* CoolRunner compares with the wrong lines.
Able(o) == ~OneUserSector(o) /\ ~(o.vendor = "efinix" /\ o.bus = "spi") /\ ~(o.fam = "xc2c" /\ o.verify)

\* The drivers that hand a failed write on to main.
Tells(o) ==
    \/ o.prg = "sram" /\ o.vendor \in {"lattice", "latticesspi"}
    \/ o.prg = "flash" /\ \/ o.vendor = "altera" /\ ~o.max10
                          \/ o.vendor = "efinix" /\ o.bus = "jtag"
                          \/ o.vendor = "gowin" /\ o.external
                          \/ o.vendor = "lattice" /\ o.ext # "pub"
                          \/ o.vendor = "xilinx" /\ o.bpi /\ o.parses

Touched(o) == {a \div Block : a \in o.offset .. o.offset + Len(o.file) - 1}
BlocksOf(mem, b) == [a \in {x \in Cells : x \div Block = b} |-> mem[a]]

-----------------------------------------------------------------------------
\* Where the driver hands failures on to main, exit status 0 means that the file is in
\* the device: after a run without a timeout and, when it was to verify, after any run.
\* efinix.cpp turns verify off, and a .mcs file is not verified.
ReportedIsWritten ==
    LET Sure == Clean /\ Placed(dev.opt)
        Verified == dev.opt.verify /\ dev.opt.vendor # "efinix" /\ dev.opt.ext # "mcs"
    IN  Wrote /\ exit = 0 /\ Tells(dev.opt) /\ (Sure \/ Verified) => Written(dev)

\* For every driver, but for the requests it cannot serve (Able): a run with nothing in its
\* way (Fits, Unlocked) writes the file and says so, whatever an earlier run that failed, was
\* refused or locked other blocks has left in the device; and if it says so it leaves the device out of programming mode and of reset, and a
\* parallel flash showing its contents.
CleanRunDoesIt ==
    Wrote /\ Clean /\ Fits(dev.opt) /\ Unlocked(dev.opt, before) =>
        /\ Able(dev.opt) => Written(dev) /\ (run.cmds = {"program"} => exit = 0)
        /\ exit = 0 => ~dev.isc /\ ~dev.held /\ (OnFlash(dev.opt) => dev.view = "array")

\* Also a run that ends with a timeout changes nothing but what it was asked to change: not
\* the sectors of 64 KB that the file does not touch nor, without --unprotect-flash, the
\* blocks that were locked when it began.  (bpiFlash.cpp unlocks what it writes, and the
\* lock of an SST26 is lifted without asking.)  In MAX 10 the sectors that --flash-sector
\* leaves out stay as they were (but see OneUserSector), also when a file is too long.
NothingElseChanged ==
    LET Kept(b) == BlocksOf(dev.mem, b) = BlocksOf(before.mem, b)
    IN  /\ Wrote /\ "erase" \notin run.cmds /\ dev.opt.ext # "mcs" =>
               \A b \in 0 .. NrBlocks - 1 : b \notin Touched(dev.opt) => Kept(b)
        /\ Ended /\ ~board.bpi /\ ~dev.chip.global /\ ~dev.opt.unprotect /\ "unprotect" \notin run.cmds =>
               \A b \in LockedBlocks(before) : Kept(b)
        /\ Wrote /\ dev.opt.max10 /\ ~OneUserSector(dev.opt) =>
               LET o == dev.opt
                   asked == IF o.ext # "pof" THEN {Alt!Sectors[i] : i \in UserArea(o)}
                            ELSE IF PofSectors(o) = AllSectors THEN Regions ELSE o.sectors
               IN  \A r \in Regions \ asked : dev.nv[r] = before.nv[r]

\* What doc/vendors/intel.rst promises of --flash-sector with a .pof: the sectors that are
\* named are updated, all other sectors are left unchanged.
SectorsAsAsked ==
    Wrote /\ Clean /\ Fits(dev.opt) /\ dev.opt.max10 /\ dev.opt.ext = "pof" /\ dev.opt.sectors # {} =>
        \A r \in AllSectors : dev.nv[r] = IF r \in dev.opt.sectors THEN 1 ELSE before.nv[r]

\* A run that may lift the locks to write a file leaves them, and the quad bit, as they
\* were; after --protect-flash with a length the blocks from 0 up to it are locked, on a
\* chip that can lock from the bottom and, where that can be chosen once only, with consent.
LocksAsAsked ==
    /\ Wrote /\ Clean /\ Unlocked(dev.opt, before) /\ run.cmds = {"program"} /\ ~dev.chip.global =>
           <<dev.bp, dev.tb, dev.qe>> = <<before.bp, before.tb, before.qe>>
    /\ Ended /\ Clean /\ run.cmds = {"protect"} /\ "protect" \in Has(board)
             /\ dev.chip.known /\ dev.chip.bpLen > 0 /\ dev.chip.tb # "NONER"
             /\ (dev.chip.otp => dev.opt.confirm \/ before.tb = 1) =>
           0 .. dev.opt.area \div Block - 1 \subseteq LockedBlocks(dev)
=============================================================================
