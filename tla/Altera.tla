------------------------------- MODULE Altera -------------------------------
(* Class Altera (altera.cpp): Cyclone devices, whose SPI flash is reached      *)
(* through a bridge design, and MAX 10, which has its flash inside: sectors    *)
(* UFM1, UFM0, CFM2, CFM1 and CFM0 and the ICB words of the DSM.  A sector of  *)
(* MAX 10 is one cell.                                                         *)
EXTENDS SpiFlash

Sectors == <<"UFM1", "UFM0", "CFM2", "CFM1", "CFM0">>    \* bits 0 to 4 of a mask

\* The constructor's choice of a mode by type of file and kind of programming.
Mode(s) ==
    CASE s.opt.ext \in {"svf"} -> "MEM"
      [] s.opt.ext \in {"rbf", "rpd"} -> IF s.opt.prg = "sram" THEN "MEM" ELSE "SPI"
      [] s.opt.ext = "pof" \/ s.opt.max10 -> "FLASH"
      [] OTHER -> IF s.opt.prg = "sram" THEN "throw" ELSE "SPI"

Reset(s) == Boot(s)

\* programMem: no state of the device is checked.
ProgramMem(s, what, n) == Load(Clear(s), what, n)

LoadBridge(s) == Bridge(s, LAMBDA x : ProgramMem(x, "bridge", 1))
PrepareFlashAccess(s) == IF s.opt.skipBridge THEN s ELSE LoadBridge(s)
PostFlashAccess(s) == IF s.opt.skipReset THEN s ELSE Reset(s)

----------------------------------------------------------------------------
\* MAX 10: max10_flow_erase with DSM_CLEAR, which clears the ICB too, or sector by sector.
FlowErase(s, mask) ==
    IF mask = 0..4 THEN NvErase(s, Regions) ELSE NvErase(s, {Sectors[b + 1] : b \in mask})

\* writeXFM leaves out words of ones; verifyxFM counts errors nobody looks at.
WriteXfm(s, r) == NvWrite(s, r, 1)
VerifyXfm(s, r) == s

\* The loops of max10_program write UFM<i> when bit i is set, though the bits of
\* the mask name UFM1 first.
PofWrites(mask) ==
    SelectSeq(<<<<"UFM1", 1>>, <<"UFM0", 0>>, <<"CFM2", 2>>, <<"CFM1", 3>>, <<"CFM0", 4>>>>,
              LAMBDA w : w[2] \in mask)

\* max10_dsm_program is given words and takes them for bits: a part is written.
DsmProgram(s) == NvWrite(s, "ICB", 2)
DoneAndSuccess(s) == NvWrite(s, "DONE", 1)

Max10ProgramPof(s, mask) ==
    LET e == FlowErase(IscOn(s), mask)
        w == Fold(LAMBDA t, x : WriteXfm(t, x[1]), e, PofWrites(mask))
        v == IF s.opt.verify THEN Fold(LAMBDA t, x : VerifyXfm(t, x[1]), w, PofWrites(mask)) ELSE w
        d == IF mask = 0..4 THEN DoneAndSuccess(DsmProgram(v)) ELSE v
    IN  IscOff(d)

\* max10_program_ufm: a file of n sectors' size at an offset; all sectors from the
\* first to the last selected one are erased.  Its refusals are not reported.
Max10ProgramUfm(s, mask, off, n) ==
    LET low   == mask \cap 0..3
        first == IF mask = {} THEN 0 ELSE IF low = {} THEN 4 ELSE CHOOSE b \in low : \A x \in low : b <= x
        end   == IF mask = {} THEN 2 ELSE IF low = {} THEN 0 ELSE 1 + CHOOSE b \in low : \A x \in low : b >= x
        base  == first + off
        e     == NvErase(IscOn(s), {Sectors[b + 1] : b \in first .. end - 1})
        w     == Fold(WriteXfm, e, [i \in 1..n |-> Sectors[base + i]])
    IN  IF base > end \/ end - base < n THEN s ELSE IscOff(w)

\* max10_program; the mask comes from --flash-sector, an unknown name throws.
Max10Program(s) ==
    LET mask == IF s.opt.sectors = {} THEN 0..4 ELSE {b \in 0..4 : Sectors[b + 1] \in s.opt.sectors}
    IN  IF ~(s.opt.sectors \subseteq {Sectors[b] : b \in 1..5}) THEN Fail(s)
        ELSE IF s.opt.ext = "pof" THEN Max10ProgramPof(s, mask)
        ELSE Max10ProgramUfm(s, IF s.opt.sectors = {} THEN {} ELSE mask, s.opt.offset, Len(s.opt.file))

Max10Dump(s) == IscOff([IscOn(s) EXCEPT !.rd = [i \in 1..5 |-> s.nv[Sectors[i]]]])

----------------------------------------------------------------------------
\* program
Program(s) ==
    LET mode == Mode(s) IN
    CASE mode = "throw" -> Fail(s)
      [] mode # "throw" /\ s.opt.max10 -> Max10Program(s)
      [] mode = "MEM" /\ ~s.opt.max10 -> ProgramMem(s, "file", Len(s.opt.file))
      [] mode = "SPI" /\ ~s.opt.max10 ->
            FlashWrite(s, PrepareFlashAccess, PostFlashAccess, s.opt.offset, s.opt.file)
      [] OTHER -> s
=============================================================================
