------------------------------- MODULE Gowin --------------------------------
(* Class Gowin (gowin.cpp).  opt.fam is the family: GW1N has its flash inside  *)
(* (regions main, mcu and user), GW2A and GW5A have a SPI flash only.          *)
(* programFlash and programSRAM are void and return on an error: what went     *)
(* wrong is printed and the caller is not told.                                *)
EXTENDS SpiFlash

\* The constructor: what it throws, and GW5A taken out of SPI mode.
Setup(s) ==
    IF \/ s.opt.ext \notin {"", "fs"} /\ ~s.opt.external
       \/ (s.opt.ext # "" \/ s.opt.mcufw \/ s.opt.userflash) /\ ~s.opt.parses
       \/ s.opt.ext = "fs" /\ ~s.opt.match
       \/ s.opt.mcufw /\ s.opt.fam # "gw1n"
       \/ s.opt.userflash /\ (s.opt.fam # "gw1n" \/ s.opt.mcufw)
    THEN Fail(s)
    ELSE IF s.opt.fam = "gw5a" /\ s.opt.prg = "flash" THEN [IscOff(Poll(s)) EXCEPT !.spi = FALSE] ELSE s

Reset(s) == Boot(s)

\* enableCfg and disableCfg wait for the edit mode to come and to go.
EnableCfg(s) == LET w == Check(s) IN Unless(w, IscOn(w))
DisableCfg(s) == LET w == Check(s) IN Unless(w, IscOff(w))

\* eraseSRAM; GW5A needs at least two turns.
EraseSramTurn(s) ==
    LET e == EnableCfg(s)
        c == Check(e)
    IN  Unless(e, Unless(c, DisableCfg(Clear(c))))
EraseSram(s) ==
    LET once == EraseSramTurn(s)
        all  == IF s.opt.fam = "gw5a" THEN Unless(once, EraseSramTurn(once)) ELSE once
    IN  Unless(all, IF s.opt.prg = "flash" /\ all.fab # "none" THEN Fail(all) ELSE all)

\* eraseFLASH: the whole flash, tried until no design starts from it.
EraseFlash(s) ==
    LET e == EnableCfg(s)
        d == DisableCfg(NvErase(e, Regions))
    IN  Unless(e, Unless(d, IF d.fab = "none" THEN d ELSE Fail(d)))

\* writeFLASH enters the edit mode for every page; nothing tells it of a failure.
WriteFlash(s, region, v) == NvWrite(IscOn(s), region, v)

\* writeSRAM
WriteSram(s) ==
    LET w == IscOff(Load(IscOn(s), "file", Len(s.opt.file)))
        r == Poll(w)                       \* DONE_FINAL is looked at once
    IN  IF r.late THEN Fail([r EXCEPT !.fab = "none"]) ELSE r

\* It writes nothing, and does not tell, when the status register shows neither that the
\* device is valid nor that it was powered on (opt.vld: it shows one of them).
ProgramFlash(s) ==
    LET o == IscOff(s)
        a == EraseSram(o)
        b == EnableCfg(a)
        c == EraseFlash(b)
        d == DisableCfg(c)
        m == IF s.opt.ext = "fs" THEN WriteFlash(d, "main", 1) ELSE d
        f == IF s.opt.mcufw THEN WriteFlash(m, "mcu", 2) ELSE m
        u == IF s.opt.userflash THEN WriteFlash(f, "user", 3) ELSE f
        z == DisableCfg(u)
    IN  IF ~s.opt.vld THEN o ELSE Untold(Unless(a, Unless(b, Unless(c, Unless(d, Unless(z, Reset(z)))))))

ProgramSram(s) ==
    LET r == IF s.opt.fam = "gw5a" THEN Reset(s) ELSE s
        e == EraseSram(r)
    IN  Untold(Unless(e, WriteSram(e)))

----------------------------------------------------------------------------
\* prepare_flash_access and post_flash_access; gw5a_enable_spi does not look at
\* the waits of the two calls it makes.
EnableSpi(s) ==
    LET a == Poll(IscOn(s)) b == Poll(IscOff(a)) IN [b EXCEPT !.spi = TRUE]
PrepareFlashAccess(s) ==
    LET e == EraseSram(IF s.opt.fam = "gw5a" THEN Reset(s) ELSE s)
        c == EnableCfg(e)
    IN  Unless(e, CASE s.opt.fam = "gw5a" -> EnableSpi(e)
                    [] s.opt.fam = "gw2a" -> [e EXCEPT !.spi = TRUE]
                    [] OTHER -> Unless(c, [c EXCEPT !.spi = TRUE]))
PostFlashAccess(s) ==
    LET d == IF s.opt.fam \in {"gw5a", "gw2a"} THEN s ELSE DisableCfg(s)
    IN  Reset([d EXCEPT !.spi = FALSE])

\* programExtFlash: an exception of the flash passes post_flash_access by.
ProgramExtFlash(s) ==
    LET p == PrepareFlashAccess(s)
        f == Construct(p, s.opt.unprotect)
        w == EraseAndProg(f, s.opt.offset, s.opt.file)
        v == IF w.rc = 0 /\ s.opt.verify THEN Verify(w, s.opt.offset, s.opt.file) ELSE w
        e == PostFlashAccess(v)
    IN  Unless(p, Unless(f, IF v.rc # 0 THEN Fail(e) ELSE e))

\* program: a user flash alone does nothing.
Program(s) ==
    LET c == Setup(s) IN
    Unless(c, CASE s.opt.ext = "" /\ ~s.opt.mcufw -> c
                [] s.opt.prg = "flash" /\ s.opt.external -> ProgramExtFlash(c)
                [] s.opt.prg = "flash" /\ ~s.opt.external -> ProgramFlash(c)
                [] OTHER -> ProgramSram(c))
=============================================================================
