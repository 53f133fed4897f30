------------------------------- MODULE Lattice ------------------------------
(* Class Lattice (lattice.cpp).  opt.fam is the family: "xo2", "xo3" and       *)
(* "xo3d" have their flash inside, written in lines (flashProg), "ecp3",       *)
(* "ecp5" and "nexus" have a SPI flash that the device lets through.  opt.jed  *)
(* holds the sections of a JEDEC file: [note, off, lines].                     *)
EXTENDS SpiFlash

Sector == {"CFG0", "CFG1", "UFM0", "UFM1", "UFM2", "UFM3", "FEA", "PKEY"}

\* The constructor.
Mode(s) ==
    CASE s.opt.prg = "dump" -> "READ"
      [] s.opt.prg # "dump" /\ s.opt.ext = "" -> "NONE"
      [] s.opt.prg # "dump" /\ s.opt.ext \in {"jed", "mcs", "fea", "pub"} -> "FLASH"
      [] OTHER -> IF s.opt.prg = "flash" THEN "FLASH"
                  ELSE IF s.opt.ext \in {"bit", "bin"} THEN "MEM" ELSE "throw"
Setup(s) ==
    IF Mode(s) = "throw" \/ (s.opt.fam = "xo3d" /\ Mode(s) = "FLASH" /\ s.opt.sector \notin Sector)
    THEN Fail(s) ELSE s

\* EnableISC, DisableISC and flashErase wait for the busy flag and look at the
\* status register, on ECP3 they do neither.
Ready(s) == IF s.opt.fam = "ecp3" THEN s ELSE Check(s)
EnableISC(s) == LET w == Ready(s) IN Unless(w, IscOn(w))
DisableISC(s) == LET w == Ready(s) IN Unless(w, IscOff(w))
EraseSram(s) == LET w == Ready(s) IN Unless(w, Clear(w))
FlashErase(s, regions) == LET w == Ready(s) IN Unless(w, NvErase(w, regions))

\* clearSRAM
ClearSram(s) ==
    LET i == EnableISC(IF s.opt.fam = "nexus" THEN Boot(s) ELSE s)
        e == EraseSram(i)
    IN  Unless(i, Unless(e, DisableISC(e)))

\* program_mem: a Nexus device is reset twice over, an ECP3 is refreshed first and
\* looked at again in the end.
ProgramMem(s) ==
    LET i == EnableISC(IF s.opt.fam = "ecp3" THEN Boot(s) ELSE s)
        r == IF s.opt.fam = "nexus" THEN Check(Check(Boot(i))) ELSE i
        e == EraseSram(r)
        n == IF s.opt.fam = "nexus" THEN Check(e) ELSE e
        l == Check(Load(n, "file", Len(s.opt.file)))
        d == DisableISC(l)
    IN  IF ~s.opt.parses \/ ~s.opt.match THEN Fail(s)
        ELSE Unless(i, Unless(r, Unless(e, Unless(n,
             IF l.err THEN [l EXCEPT !.fab = "none"]
             ELSE Unless(d, IF s.opt.fam = "ecp3" THEN Check(d) ELSE d)))))

----------------------------------------------------------------------------
\* Access to the SPI flash, and the refresh after it: loadConfiguration.
PrepareFlashAccess(s) ==
    LET c == ClearSram(s)
    IN  IF s.opt.skipBridge THEN s ELSE Unless(c, [c EXCEPT !.spi = TRUE])

LoadConfiguration(s) == LET w == Check(s) IN IF w.err THEN [w EXCEPT !.fab = "none", !.spi = FALSE] ELSE Boot(w)

\* post_flash_access: a device that does not start is excused by a blank first
\* page; the reading of it does not refresh again, and passes for good when the
\* flash does not answer (then the buffer holds what opt.stray says).
PostFlashAccess(s) ==
    LET l == LoadConfiguration(s)
        q == [Untold(l) EXCEPT !.opt.skipReset = TRUE]
        p == PrepareFlashAccess(q)
        f == Construct(p, FALSE)
        r == Read(f, 0, Page)
        again == LoadConfiguration(Untold(IF f.err THEN f ELSE r))
        blank == IF f.err THEN s.opt.stray ELSE \A i \in 1..Page : r.rd[i] = Blank
    IN  IF s.opt.skipReset THEN s
        ELSE IF s.opt.fam = "ecp3" THEN Boot(s)
        ELSE IF ~l.err THEN l
        ELSE IF p.err THEN Fail(LoadConfiguration(Untold(p)))
        ELSE IF blank THEN Untold(again) ELSE Fail(again)
Reset(s) == IF s.opt.fam \in {"ecp3", "ecp5", "nexus"} THEN Untold(PostFlashAccess(s)) ELSE s

----------------------------------------------------------------------------
\* The flash inside: flashProg writes line after line and waits after each.
FlashProg(s, region, n) ==
    Iter(LAMBDA t : LET w == Check(t) IN Unless(t, Unless(w, NvNext(w, region))), s, n)

\* Verify reads as many lines from the start of the area.
VerifyLines(s, region, n) == IF s.opt.verify /\ s.nv[region] < n THEN Fail(s) ELSE s

\* writeFeaturesRow and writeFeabits read back what they wrote, those of MachXO3D
\* when they are to verify.
WriteFeature(s, region, v, readBack) ==
    LET w == Check(s) x == NvWrite(w, region, v)
    IN  Unless(s, Unless(w, IF readBack /\ x.nv[region] # v THEN Fail(x) ELSE x))
WriteProgramDone(s) == Unless(s, Check(s))
Finish(s) == LET d == WriteProgramDone(s) IN Unless(d, DisableISC(d))

Lines(s, notes) ==
    LET ss == SelectSeq(s.opt.jed, LAMBDA x : x.note \in notes) IN IF ss = <<>> THEN 0 ELSE ss[Len(ss)].lines

\* program_intFlash: the configuration, then initial memory contents, then the user
\* flash, then the feature row and bits when they differ; an error returns in
\* programming mode.
ProgramIntFlash(s) ==
    LET jed  == s.opt.ext = "jed"
        cfg  == IF jed THEN Lines(s, {"cfg"}) ELSE Len(s.opt.file)
        ufm  == IF jed THEN Lines(s, {"tag"}) ELSE 0
        ebr  == IF jed THEN Lines(s, {"ebr"}) ELSE 0
        row  == IF jed THEN 1 ELSE 2
        i    == EnableISC(s)
        diff == i.nv["feature"] # row \/ i.nv["feabits"] # row
        e    == FlashErase(i, {"cfg"} \cup (IF ufm > 0 THEN {"ufm"} ELSE {})
                                      \cup (IF diff THEN {"feature", "feabits"} ELSE {}))
        c    == FlashProg(FlashProg(e, "cfg", cfg), "cfg", ebr)
        v    == VerifyLines(c, "cfg", cfg)
        u    == FlashProg(v, "ufm", ufm)
        f    == IF diff THEN WriteFeature(WriteFeature(u, "feature", row, TRUE), "feabits", row, TRUE) ELSE u
    IN  Unless(i, IF ufm > 0 /\ s.opt.offset > 0 THEN Fail(i)
                  ELSE Unless(e, Unless(c, Unless(v, Finish(f)))))

\* program_intFlash_MachXO3D: the area a section goes to, by the sector the user
\* named; "" is none, and the lines are sent to no sector.
Area(s, note) ==
    LET sector == s.opt.sector
        Beside == [x \in {"CFG0", "CFG1"} |-> IF x = "CFG0" THEN "UFM0" ELSE "UFM1"]
    IN  CASE note \in {"end", "cfg"} -> IF sector \in {"CFG0", "CFG1"} THEN sector ELSE ""
          [] note = "ebr" -> IF sector \in {"CFG0", "CFG1"} THEN Beside[sector] ELSE ""
          [] note = "tag" -> IF sector \in {"CFG0", "CFG1"} THEN Beside[sector]
                             ELSE IF sector \in {"UFM0", "UFM1", "UFM2", "UFM3"} THEN sector ELSE ""

\* A section is erased when it starts its area and is no padding; one that does not
\* start its area is verified against the wrong lines.
ProgramSection(s, sec) ==
    LET area  == Area(s, sec.note)
        e == IF area # "" /\ sec.note # "end" /\ (sec.off = 0 \/ sec.note = "cfg")
             THEN FlashErase(s, {area}) ELSE s
        w == IF area = "" THEN Iter(LAMBDA t : Unless(t, Check(t)), e, sec.lines) ELSE FlashProg(e, area, sec.lines)
        doubt == area = "" \/ (sec.off # 0 /\ ~s.opt.stray)
    IN  IF s.err \/ sec.lines = 0 \/ (sec.note = "ebr" /\ sec.off # 0) THEN s
        ELSE Unless(e, Unless(w, IF doubt THEN IF s.opt.verify THEN Fail(w) ELSE w
                                 ELSE VerifyLines(w, area, sec.lines)))
ProgramIntFlashXo3d(s) ==
    LET i == EnableISC(s)
        p == Fold(ProgramSection, i, s.opt.jed)
    IN  Unless(i, Unless(p, Finish(p)))

\* program_fea_MachXO3D: the feature row is verified over 15 bytes of 12, so that
\* opt.stray, what lies behind it, decides.
ProgramFea(s) ==
    LET i == EnableISC(s)
        e == FlashErase(i, {"feature", "feabits"})
        r == WriteFeature(e, "feature", 3, s.opt.verify)
        b == IF s.opt.verify /\ ~s.opt.stray THEN Fail(r) ELSE WriteFeature(r, "feabits", 3, s.opt.verify)
        same == i.nv["feature"] = 3 /\ i.nv["feabits"] = 3
    IN  IF ~s.opt.parses THEN Fail(s)
        ELSE Unless(i, IF same THEN Finish(i) ELSE Unless(e, Unless(r, Unless(b, Finish(b)))))

\* program_pubkey_MachXO3D: a key in four parts.
ProgramPubkey(s) ==
    LET i == EnableISC(s)
        e == FlashErase(i, {"key"})
        k == FlashProg(e, "key", 4)
        v == VerifyLines(k, "key", 4)
    IN  IF ~s.opt.parses THEN Fail(s)
        ELSE Unless(i, IF i.nv["key"] = 4 THEN Finish(i) ELSE Unless(e, Unless(k, Unless(v, Finish(v)))))

----------------------------------------------------------------------------
\* program_extFlash
ProgramExtFlash(s) ==
    LET rec == <<[base |-> s.opt.offset, data |-> s.opt.file]>>
    IN  IF ~s.opt.parses \/ (s.opt.ext = "bit" /\ ~s.opt.match) THEN Fail(s)
        ELSE IF s.opt.ext = "mcs" THEN FlashWriteSections(s, PrepareFlashAccess, PostFlashAccess, rec, TRUE)
        ELSE FlashWrite(s, PrepareFlashAccess, PostFlashAccess, s.opt.offset, s.opt.file)

\* post_flash_access() && retval
ThenPost(s) == LET p == PostFlashAccess(Untold(s)) IN IF s.err THEN Fail(p) ELSE p

\* program_flash: clearSRAM and the writing of a public key are not looked at.
ProgramFlash(s) ==
    LET c == Untold(ClearSram(s)) IN
    CASE s.opt.ext = "jed" ->
            IF ~s.opt.parses THEN Fail(s)
            ELSE IF s.opt.fam = "xo3d" THEN ThenPost(ProgramIntFlashXo3d(c))
            ELSE IF s.opt.fam = "xo2" THEN ProgramIntFlash(c) ELSE ThenPost(ProgramIntFlash(c))
      [] s.opt.ext = "fea" -> ThenPost(ProgramFea(c))
      [] s.opt.ext = "pub" -> Untold(ProgramPubkey(c))
      [] OTHER -> IF s.opt.ext = "bit" /\ s.opt.fam = "xo2" THEN ThenPost(ProgramIntFlash(s))
                  ELSE ProgramExtFlash(s)

\* program throws on any failure it is told of.
Program(s) ==
    LET c == Setup(s) IN
    Unless(c, CASE Mode(s) = "FLASH" -> ProgramFlash(c)
                [] Mode(s) = "MEM" -> ProgramMem(c)
                [] OTHER -> c)

-----------------------------------------------------------------------------
(* Class LatticeSSPI (latticeSSPI.cpp): a Nexus device loaded over its slave   *)
(* SPI port.                                                                   *)

\* EnableISC, DisableISC and flashErase end in pollBusyFlag and a look at the
\* status register.
SspiEnableISC(s) == LET w == Check(s) IN Unless(w, IscOn(w))
SspiDisableISC(s) == LET w == Check(s) IN Unless(w, IscOff(w))
SspiFlashErase(s) == LET w == Check(s) IN Unless(w, Clear(w))

\* program_mem: a refresh first, then the design as one burst.
SspiProgramMem(s) ==
    LET e == SspiEnableISC(Boot(s))
        f == SspiFlashErase(e)
    IN  IF ~s.opt.parses \/ ~s.opt.match THEN Fail(s)
        ELSE Unless(e, Unless(f, SspiDisableISC(Load(f, "file", Len(s.opt.file)))))

\* program: class Device is built without a mode.
SspiProgram(s) == SspiProgramMem(s)
=============================================================================
