---------------------------- MODULE OtherVendors ----------------------------
(* The device classes that write their flash through little code of their own. *)
EXTENDS SpiFlash

-----------------------------------------------------------------------------
(* Class Anlogic (anlogic.cpp). *)

\* The constructor: a raw file goes to the flash only.
AnlogicMode(s) == CASE s.opt.ext = "svf" -> "MEM"
             [] s.opt.ext = "bit" -> IF s.opt.prg = "sram" THEN "MEM" ELSE "SPI"
             [] OTHER -> IF s.opt.prg = "flash" THEN "SPI" ELSE "throw"

AnlogicReset(s) == Boot(s)

\* prepare_flash_access stops the design and opens the way to the flash.
AnlogicPrepareFlashAccess(s) == [Clear(s) EXCEPT !.spi = TRUE]
AnlogicPostFlashAccess(s) == AnlogicReset(s)

\* program: a file that is not parsed and a write that fails are not reported; a
\* design is started without a look at the device.
AnlogicProgram(s) ==
    LET mode == AnlogicMode(s) IN
    CASE mode = "throw" -> Fail(s)
      [] mode # "throw" /\ ~s.opt.parses -> s
      [] mode = "SPI" /\ s.opt.parses ->
            Untold(FlashWrite(s, AnlogicPrepareFlashAccess, AnlogicPostFlashAccess, s.opt.offset, s.opt.file))
      [] OTHER -> Load(Clear(s), "file", Len(s.opt.file))

-----------------------------------------------------------------------------
(* Class CologneChip (colognechip.cpp).  opt.pins tells what the reset pin     *)
(* hangs on: the SPI bus, a FTDI cable, a DirtyJTAG cable or nothing.          *)

\* The constructors; both take a dump for a flash mode.
CologneMode(s) == IF s.opt.prg = "sram" THEN "MEM" ELSE "FLASH"
OnSpi(s) == s.opt.pins = "spi"

CologneReset(s) == IF s.opt.pins = "none" THEN s ELSE Boot(s)
WaitCfgDone(s) == Poll(s)              \* the result is printed

ColognePrepareFlashAccess(s) == [s EXCEPT !.spi = TRUE, !.held = OnSpi(s)]
ColognePostFlashAccess(s) == CologneReset([s EXCEPT !.spi = FALSE, !.held = FALSE])

\* detect_flash and dumpFlash: an exception passes post_flash_access by.
CologneGuarded(s, command(_)) ==
    LET f == Construct(ColognePrepareFlashAccess(s), FALSE) IN Unless(f, ColognePostFlashAccess(command(f)))
CologneDetect(s) == CologneGuarded(s, LAMBDA f : f)
CologneDump(s, base, len) == CologneGuarded(s, LAMBDA f : Read(f, base, len))

\* programSPI_sram and programJTAG_sram
ProgramSram(s) == WaitCfgDone(Load(Clear(CologneReset(s)), "file", Len(s.opt.file)))

\* programSPI_flash holds the device in reset, programJTAG_flash goes through it;
\* neither looks at the result of the write or of the verification.
ProgramFlash(s) ==
    LET h == IF OnSpi(s) THEN [s EXCEPT !.held = TRUE, !.spi = TRUE]
             ELSE [CologneReset(s) EXCEPT !.spi = TRUE]
        f == Construct(h, s.opt.unprotect)
        w == EraseAndProg(f, s.opt.offset, s.opt.file)
        v == IF s.opt.verify THEN Verify(w, s.opt.offset, s.opt.file) ELSE w
    IN  Unless(f, IF OnSpi(s) THEN WaitCfgDone(Boot(v)) ELSE ColognePostFlashAccess(v))

\* program
CologneProgram(s) ==
    CASE CologneMode(s) = "MEM" /\ s.opt.ext \notin {"cfg", "bit"} -> Fail(s)
      [] CologneMode(s) = "MEM" /\ s.opt.ext \in {"cfg", "bit"} -> ProgramSram(s)
      [] OTHER -> ProgramFlash(s)

-----------------------------------------------------------------------------
(* Class Efinix (efinix.cpp): Trion and Titanium (opt.fam), over JTAG or over  *)
(* the SPI bus of the flash (opt.bus).  opt.pins: the cable has the pins to    *)
(* reset the device, which every cable on the SPI bus has.                     *)

\* The constructors and init_common.
Setup(s) ==
    IF \/ s.opt.bus = "spi" /\ s.opt.prg = "sram"
       \/ s.opt.bus = "jtag" /\ s.opt.fam = "titanium"
            /\ <<s.opt.ext, s.opt.prg>> \in {<<"hex", "sram">>, <<"bit", "flash">>}
    THEN Fail(s) ELSE s
EfinixMode(s) == CASE s.opt.prg = "sram" -> "MEM"
             [] s.opt.prg = "flash" -> IF s.opt.bus = "jtag" THEN "FLASH" ELSE "SPI"
             [] OTHER -> "NONE"

\* reset does nothing but say so without pins; its wait for CDONE is printed.
EfinixReset(s) == IF s.opt.pins THEN Boot(Poll(s)) ELSE s

\* programJTAG: nothing of the device is checked.
ProgramJtag(s, what, n) == Load(Clear(s), what, n)

\* The bridge is found by the package of the device.
EfinixPrepareFlashAccess(s) == IF ~s.opt.package THEN Fail(s) ELSE Bridge(s, LAMBDA x : ProgramJtag(x, "bridge", 1))
EfinixPostFlashAccess(s) == EfinixReset(s)

\* FlashInterface is built without verify.
WriteFlash(s) ==
    FlashWrite([s EXCEPT !.opt.verify = FALSE], EfinixPrepareFlashAccess, EfinixPostFlashAccess, s.opt.offset, s.opt.file)

\* program: the mode of the SPI bus is none of those it knows, and it returns.
EfinixProgram(s) ==
    LET c == Setup(s) m == EfinixMode(s) IN
    Unless(c, IF s.opt.ext = "" \/ m = "NONE" THEN c
              ELSE IF \/ s.opt.ext \notin {"hex", "bit"} /\ s.opt.offset = 0 /\ s.opt.pins
                      \/ ~s.opt.parses
                      \/ m = "FLASH" /\ ~s.opt.match
              THEN Fail(c)
              ELSE CASE m = "MEM" -> ProgramJtag(c, "file", Len(s.opt.file))
                     [] m = "FLASH" -> WriteFlash(c)
                     [] OTHER -> c)

\* detect_flash and dumpFlash; on the SPI bus the one is refused, the other reads
\* the flash and reports a failure in any case.
EfinixDetect(s) == IF s.opt.bus = "jtag" THEN FlashDetect(s, EfinixPrepareFlashAccess, EfinixPostFlashAccess) ELSE Fail(s)
EfinixDump(s, base, len) ==
    LET f == Construct([s EXCEPT !.held = TRUE, !.spi = TRUE], FALSE)
    IN  IF s.opt.bus = "jtag" THEN FlashDump(s, EfinixPrepareFlashAccess, EfinixPostFlashAccess, base, len)
        ELSE Unless(f, Fail(Boot(Poll(Read(f, base, len)))))

-----------------------------------------------------------------------------
(* Class Ice40 (ice40.cpp): the flash is written over its SPI bus while the    *)
(* device is held in reset.                                                    *)

\* reset waits for CDONE and prints what it sees; post_flash_access looks again.
IceReset(s) == LET b == Poll(Boot(s)) IN IF b.late THEN [b EXCEPT !.fab = "none"] ELSE b
IcePrepareFlashAccess(s) == [s EXCEPT !.held = TRUE, !.spi = TRUE]
IcePostFlashAccess(s) == LET r == IceReset(s) IN IF r.fab = "none" THEN Fail(r) ELSE r

\* program_cram lets the device out of reset; its result is not used.
ProgramCram(s) ==
    LET w == Poll(Load(Clear([s EXCEPT !.held = FALSE]), "file", Len(s.opt.file)))
    IN  IF w.late THEN [w EXCEPT !.fab = "none"] ELSE w

\* program: what the flash answers to the write and to verify is not looked at.
IceProgram(s) ==
    LET f == Construct(IcePrepareFlashAccess(s), s.opt.unprotect)
        w == EraseAndProg(f, s.opt.offset, s.opt.file)
        v == IF s.opt.verify THEN Verify(w, s.opt.offset, s.opt.file) ELSE w
    IN  IF s.opt.ext = "" \/ ~s.opt.parses THEN s
        ELSE IF s.opt.prg = "sram" THEN ProgramCram(s)
        ELSE Unless(f, Untold(IcePostFlashAccess(v)))

\* The other commands return on an error and leave the device in reset.
IceGuarded(s, command(_)) ==
    LET f == Construct(IcePrepareFlashAccess(s), FALSE)
        c == command(f)
    IN  Unless(f, IF c.rc = -1 THEN Fail(c) ELSE IcePostFlashAccess(c))
IceDetect(s) == IceGuarded(s, LAMBDA f : [f EXCEPT !.rc = 0])
IceDump(s, base, len) == IceGuarded(s, LAMBDA f : Read(f, base, len))
Protect(s, len) == IceGuarded(s, LAMBDA f : EnableProtection(f, len))
Unprotect(s) == IceGuarded(s, DisableProtection)
EraseAll(s) == IceGuarded(s, LAMBDA f : BulkErase(f, FALSE))
=============================================================================
