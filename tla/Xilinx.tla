------------------------------- MODULE Xilinx -------------------------------
(* Class Xilinx (xilinx.cpp).  opt.fam is the family: FPGAs with a SPI or a    *)
(* parallel flash behind a bridge design ("7series", "spartan3", "zynq",       *)
(* "zynqmp", "spartanusp"), and the flash inside XCF PROMs ("xcf"), XC9500     *)
(* ("xc95") and CoolRunner ("xc2c").  Region prom is that flash; it is written *)
(* in one packet per byte of the file.                                         *)
EXTENDS SpiFlash

(* Class BPIFlash (bpiFlash.cpp): a parallel flash of 16 bit words behind a    *)
(* bridge design.  A word is two cells; its blocks are locked at power-up.     *)
(* The program buffer of 512 words is scaled down to a page.                   *)

\* wait_ready: a timeout leaves the chip showing its status register.
WaitReady(s) == LET w == Check(s) IN [w EXCEPT !.view = IF w.err THEN "status" ELSE "array"]

\* detect: an answer of all ones or all zeroes is no chip.
BpiDetect(s) == IF s.chip.mute \/ ~s.spi THEN Fail(s) ELSE [s EXCEPT !.view = "array"]

UnlockBlock(s, b) == [s EXCEPT !.open = @ \cup {b}]

EraseBlock(s, b) ==
    LET w == WaitReady(UnlockBlock(s, b))
    IN  Unless(w, [w EXCEPT !.mem = [a \in Cells |-> IF a \div Block = b THEN Blank ELSE @[a]]])

BpiBulkErase(s) == Fold(LAMBDA t, b : Unless(t, EraseBlock(t, b - 1)), s, [b \in 1..NrBlocks |-> b])

\* A burst of words from a word address; an odd length is filled up with ones.
BurstWrite(s, addr, data) ==
    LET base == 2 * (addr \div 2)
        full == IF Len(data) % 2 = 1 THEN Append(data, Blank) ELSE data
        Hit(a) == a - base + 1 \in DOMAIN full /\ a \div Block \in s.open
    IN  [s EXCEPT !.mem = [a \in Cells |->
            IF ~Hit(a) \/ full[a - base + 1] = Blank THEN @[a]
            ELSE IF @[a] = Blank THEN full[a - base + 1] ELSE Garbled]]

\* One turn of the loop of write: a buffer that stays within its block.
ProgramChunk(t, data) ==
    LET at == t.addr + t.off
        n  == Least(Least(Len(data) - t.off, Page), Block - (at % Block))
        u  == UnlockBlock(t.s, at \div Block)
        w  == WaitReady(u)
    IN  IF t.off >= Len(data) \/ t.s.err THEN t
        ELSE [t EXCEPT !.s = Unless(w, BurstWrite(w, at, SubSeq(data, t.off + 1, t.off + n))),
                       !.off = @ + RoundUp(n, 2)]

\* write: the words it verifies at the end do not change its result.
BpiWrite(s, addr, data) ==
    LET first == addr \div Block
        last  == (addr + Len(data) - 1) \div Block
        e     == Fold(LAMBDA t, b : Unless(t, EraseBlock(t, b)), s, [i \in 1 .. last - first + 1 |-> first + i - 1])
        p     == Iter(LAMBDA t : ProgramChunk(t, data), [s |-> e, addr |-> addr, off |-> 0], Len(data)).s
    IN  Unless(e, Unless(p, [p EXCEPT !.view = "array"]))

BpiRead(s, addr, len) ==
    [s EXCEPT !.view = "array", !.rd = [i \in 1..len |-> s.mem[2 * ((addr + 2 * ((i - 1) \div 2)) \div 2) + ((i - 1) % 2)]]]

-----------------------------------------------------------------------------

\* The constructor: the mode, which a secondary flash overrides, and its errors.
Second(s) == s.opt.target \in {"secondary", "both"}
First(s) == s.opt.target \in {"primary", "both"}
Mode(s) ==
    CASE Second(s) -> "SPI"
      [] ~Second(s) /\ s.opt.prg = "dump" -> "READ"
      [] ~Second(s) /\ s.opt.prg # "dump" ->
            CASE s.opt.ext \in {"bit", "bin"} -> IF s.opt.prg = "sram" THEN "MEM" ELSE "SPI"
              [] s.opt.ext = "jed" -> "FLASH"
              [] s.opt.ext = "pdi" -> "MEM"
              [] s.opt.ext = "" -> "NONE"
              [] OTHER -> "SPI"

\* zynqmp_init looks at the chain before and after it enables the PL.
ZynqmpInit(s) == Check(s)
Setup(s) ==
    LET m == Mode(s) IN
    IF \/ Second(s) /\ ~s.opt.twin
       \/ s.opt.fam \in {"zynq", "zynqmp"} /\ m # "MEM"
       \/ s.opt.fam = "spartanusp" /\ s.opt.ext # "pdi"
       \/ s.opt.fam = "xcf" /\ m = "MEM"
    THEN Fail(s)
    ELSE IF s.opt.fam = "zynqmp" THEN ZynqmpInit(s) ELSE s

Reset(s) == Boot(s)

\* program_mem and xc3s_flow_program: DONE is printed, and not looked at otherwise.
Start(s, what, n) ==
    LET w == Poll(Load(s, what, n)) IN IF w.late THEN [w EXCEPT !.fab = "none", !.spi = FALSE] ELSE w
ProgramMem(s, what, n) == Start(Clear(s), what, n)
Xc3sFlowProgram(s, what, n) == IscOff(Start(Clear(IscOn(s)), what, n))
LoadSram(s, what, n) == IF s.opt.fam = "spartan3" THEN Xc3sFlowProgram(s, what, n) ELSE ProgramMem(s, what, n)

\* load_bridge, prepare_flash_access and post_flash_access
LoadBridge(s) == IF ~s.opt.package THEN Fail(s) ELSE Bridge(s, LAMBDA x : LoadSram(x, "bridge", 1))
PrepareFlashAccess(s) == IF s.opt.skipBridge THEN s ELSE LoadBridge(s)
PostFlashAccess(s) == IF s.opt.skipReset THEN s ELSE Reset(s)

\* select_flash_chip, as an exchange of the two chips.
Swap(s) == [s EXCEPT !.mem = s.other.mem, !.bp = s.other.bp, !.tb = s.other.tb,
                     !.qe = s.other.qe, !.lock = s.other.lock, !.wel = FALSE,
                     !.other = [mem |-> s.mem, bp |-> s.bp, tb |-> s.tb, qe |-> s.qe, lock |-> s.lock]]
EachChip(s, command(_)) ==
    LET a == IF First(s) THEN command(s) ELSE s
        b == IF Second(s) THEN Swap(command(Swap(a))) ELSE a
    IN  Unless(a, b)

\* program_spi: a write that fails is not reported, a bridge that cannot be read
\* throws.
ProgramSpi(s) ==
    LET base == [base |-> s.opt.offset, data |-> s.opt.file]
    IN  IF ~s.opt.skipBridge /\ s.opt.package /\ ~s.opt.bridge THEN Fail(s)
        ELSE IF s.opt.ext = "mcs"
             THEN Untold(FlashWriteSections(s, PrepareFlashAccess, PostFlashAccess, <<base>>, TRUE))
             ELSE Untold(FlashWrite(s, PrepareFlashAccess, PostFlashAccess, s.opt.offset, s.opt.file))

\* program_bpi: every error throws; load_bpi_bridge is not skipped.
ProgramBpi(s) ==
    LET b == IF ~s.opt.package THEN Fail(s) ELSE Bridge(s, LAMBDA x : ProgramMem(x, "bridge", 1))
        d == BpiDetect(b)
    IN  Unless(b, Unless(d, BpiWrite(d, s.opt.offset, s.opt.file)))

----------------------------------------------------------------------------
\* The flash inside: a packet is programmed and polled; an error returns at once,
\* in programming mode.
Packets(s) ==
    LET One(t, x) == LET w == Check(t) IN Unless(t, Unless(w, NvNext(w, "prom")))
    IN  Fold(One, s, s.opt.file)
ReadBack(s) == IF s.opt.verify /\ s.nv["prom"] # Len(s.opt.file) THEN Fail(IscOff(s)) ELSE s

\* xcf_flow_erase and xcf_program, which leave programming mode in between.
XcfFlowErase(s) == LET w == Check(IscOn(s)) IN Unless(w, IscOff(NvErase(w, {"prom"})))
XcfProgram(s) ==
    LET e == XcfFlowErase(s)
        p == Packets(IscOn(e))
        v == ReadBack(p)
    IN  Unless(e, Unless(p, Unless(v, Boot(IscOff(v)))))

\* flow_erase and flow_program (XC9500)
FlowErase(s) == LET w == Check(s) IN Unless(w, NvErase(w, {"prom"}))
FlowProgram(s) ==
    LET e == FlowErase(IscOn(s))
        p == Packets(e)
        v == ReadBack(p)
    IN  Unless(e, Unless(p, Unless(v, IscOff(v))))

\* xc2c_flow_erase and xc2c_flow_program: nothing is polled; verify compares what
\* is left of a byte with one fuse and finds a difference.
Xc2cFlowErase(s) == IscOff(NvErase(IscOn(s), {"prom"}))
Xc2cFlowProgram(s) ==
    LET e == Xc2cFlowErase(s)
        p == IscOff(Fold(LAMBDA t, x : NvNext(t, "prom"), IscOn(e), s.opt.file))
    IN  IF s.opt.verify THEN Fail(p) ELSE Boot(p)

\* program: errors of the file, of XC9500 and of the PROM are not reported; the
\* device is reset after a flash is written, whether the caller wants it or not.
Program(s) ==
    LET c == Setup(s)
        m == Mode(s)
        f == s.opt.fam
        chips == EachChip(c, ProgramSpi)
        bpi   == ProgramBpi(c)
    IN  Unless(c,
        CASE m \in {"NONE", "READ"} -> c
          [] m = "FLASH" ->
                (CASE f \notin {"xc95", "xc2c"} -> Fail(c)
                   [] f \in {"xc95", "xc2c"} /\ ~s.opt.parses -> c
                   [] f = "xc95" /\ s.opt.parses -> Untold(FlowProgram(c))
                   [] f = "xc2c" /\ s.opt.parses -> Xc2cFlowProgram(c))
          [] m \in {"MEM", "SPI"} ->
                CASE f = "xc95" \/ ~s.opt.parses -> c
                  [] f = "xcf" /\ s.opt.parses -> Untold(XcfProgram(c))
                  [] OTHER -> CASE m = "MEM" -> LoadSram(c, "file", Len(s.opt.file))
                                [] m = "SPI" /\ s.opt.bpi -> Unless(bpi, Reset(bpi))
                                [] m = "SPI" /\ ~s.opt.bpi -> Unless(chips, Reset(chips)))

\* dumpFlash, detect_flash and the other commands go over both chips.
Dump(s, base, len) ==
    IF s.opt.fam \in {"xc95", "xcf"} THEN IscOff([IscOn(s) EXCEPT !.rd = <<s.nv["prom"]>>])
    ELSE EachChip(s, LAMBDA x : FlashDump(x, PrepareFlashAccess, PostFlashAccess, base, len))
Detect(s) == EachChip(s, LAMBDA x : FlashDetect(x, PrepareFlashAccess, PostFlashAccess))
Protect(s, len) == EachChip(s, LAMBDA x : FlashProtect(x, PrepareFlashAccess, PostFlashAccess, len))
Unprotect(s) == EachChip(s, LAMBDA x : FlashUnprotect(x, PrepareFlashAccess, PostFlashAccess))
Quad(s, on) == EachChip(s, LAMBDA x : FlashQuad(x, PrepareFlashAccess, PostFlashAccess, on))
EraseAll(s) == EachChip(s, LAMBDA x : FlashBulkErase(x, PrepareFlashAccess, PostFlashAccess))
=============================================================================
