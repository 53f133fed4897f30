------------------------------ MODULE SpiFlash ------------------------------
(* Class SPIFlash (spiFlash.cpp) and the commands of FlashInterface            *)
(* (flashInterface.cpp), on a chip that knows the commands they send.  A       *)
(* command that changes the chip and the wait after it are one operator; an    *)
(* operation that is not over when the wait ends has changed nothing.          *)
(* opt.late is what spi_wait of the driver returns on a timeout: -1 in         *)
(* altera.cpp, -ETIME in all others.                                           *)
EXTENDS FpgaDevice

Least(a, b) == IF a < b THEN a ELSE b
RoundUp(n, k) == k * ((n + k - 1) \div k)
Iter(op(_), base, n) == Fold(LAMBDA s, i : op(s), base, [i \in 1..n |-> i])

Wait(s) == LET w == Poll(s) IN [w EXCEPT !.rc = IF w.late THEN s.opt.late ELSE 0]

----------------------------------------------------------------------------
\* The chip: blocks locked by BP and TB, or by the global lock of SST26.
LockedBlocks(s) ==
    LET n == IF s.bp = 0 THEN 0 ELSE Least(2 ^ (s.bp - 1), NrBlocks)
    IN  IF s.lock THEN 0 .. NrBlocks - 1
        ELSE IF s.tb = 1 THEN 0 .. n - 1 ELSE NrBlocks - n .. NrBlocks - 1
Writable(s, a) == s.wel /\ a \div Block \notin LockedBlocks(s)

\* An erase, and a page program whose address wraps inside the page.
ChipErase(s, from, size) ==
    LET first == size * (from \div size)
        Gone(a) == a \in first .. first + size - 1 /\ Writable(s, a)
    IN  [s EXCEPT !.mem = [a \in Cells |-> IF Gone(a) THEN Blank ELSE @[a]], !.wel = FALSE]

ChipProgram(s, addr, data) ==
    LET Place(i) == Page * (addr \div Page) + ((addr + i - 1) % Page)
        New(a, v) == LET hits == {i \in DOMAIN data : Place(i) = a}
                     IN  IF hits = {} \/ ~Writable(s, a) THEN v
                         ELSE IF v = Blank /\ Cardinality(hits) = 1
                              THEN data[CHOOSE i \in hits : TRUE] ELSE Garbled
    IN  [s EXCEPT !.mem = [a \in Cells |-> New(a, @[a])], !.wel = FALSE]

\* The status register; WRSR needs WREN as all writes do.
StatusReg(s) == [bp |-> s.bp, tb |-> IF s.chip.tb = "STATR" THEN s.tb ELSE 0,
                 qe |-> IF s.chip.quad = "STATR" THEN s.qe ELSE 0]
WriteStatus(s, v) ==
    IF ~s.wel THEN s
    ELSE [s EXCEPT !.bp = v.bp, !.tb = IF s.chip.tb = "STATR" THEN v.tb ELSE @,
                   !.qe = IF s.chip.quad = "STATR" THEN v.qe ELSE @, !.wel = FALSE]

----------------------------------------------------------------------------
\* The constructor: reset, power_up and read_id, which throws when no chip answers.
Construct(s, unprotect) ==
    IF s.chip.mute \/ ~s.spi THEN Fail(s)
    ELSE [s EXCEPT !.unprotect = unprotect, !.relock = FALSE, !.wel = FALSE]

WriteEnable(s) ==
    LET w == Poll(s) IN [w EXCEPT !.wel = ~w.late, !.rc = IF w.late THEN -1 ELSE 0]

\* A write command followed by its wait.
Timed(s, effect) == LET w == Wait(s) IN IF w.rc # 0 THEN w ELSE [effect EXCEPT !.poll = w.poll, !.late = FALSE, !.rc = 0]

HasBp(s) == ~s.chip.known \/ s.chip.bpLen # 0
BpMask(s) == IF s.chip.known /\ s.chip.bpLen = 0 THEN 0 ELSE s.bp       \* get_bp

\* disable_protection: every bit of the register must read as zero afterwards.
DisableProtection(s) ==
    LET w == WriteEnable(s)
        r == Timed(w, WriteStatus(w, [StatusReg(w) EXCEPT !.bp = 0]))
    IN  IF ~HasBp(s) THEN [s EXCEPT !.rc = 0]
        ELSE IF w.rc # 0 THEN w
        ELSE IF r.rc < 0 THEN [r EXCEPT !.rc = -1]
        ELSE [r EXCEPT !.rc = IF StatusReg(r) = [bp |-> 0, tb |-> 0, qe |-> 0] THEN 0 ELSE -1]

\* enable_protection(uint8_t)
EnableProtectionCode(s, code) ==
    LET w == WriteEnable(s)
        r == Timed(w, WriteStatus(w, code))
    IN  IF ~HasBp(s) THEN [s EXCEPT !.rc = -1]
        ELSE IF w.rc # 0 THEN w
        ELSE [r EXCEPT !.rc = IF r.rc < 0 \/ StatusReg(r) # code THEN -1 ELSE 0]

\* len_to_bp, and bp_to_len as the cells [first, end) that a code locks.
LenToBp(len) ==
    LET n == RoundUp(len, Block) \div Block
    IN  IF len = 0 THEN 0 ELSE CHOOSE k \in 1 .. n + 1 : 2 ^ (k - 1) >= n /\ 2 ^ (k - 1) < 2 * n
BpToLen(bp, tb) ==
    LET len == Block * 2 ^ (bp - 1)
    IN  IF bp = 0 THEN <<0, 0>>
        ELSE IF tb = 1 THEN <<0, len - 1>> ELSE <<Block * NrBlocks - len, Block * NrBlocks - 1>>

\* enable_protection(uint32_t); the Spansion chip is written without write_enable,
\* a TB bit that can be set once only needs the user's consent.
EnableProtection(s, len) ==
    LET bp   == LenToBp(len)
        keep == StatusReg(s)
        code == [keep EXCEPT !.bp = bp, !.tb = IF s.chip.tb = "STATR" THEN 1 ELSE @]
        r    == EnableProtectionCode(s, code)
        w    == WriteEnable(r)
        t    == Timed(w, [w EXCEPT !.tb = 1, !.wel = FALSE])
    IN  IF ~s.chip.known \/ s.chip.bpLen = 0 THEN [s EXCEPT !.rc = -1]
        ELSE IF s.chip.otp /\ s.chip.tb # "NONER" /\ s.tb = 0 /\ ~s.opt.confirm THEN [s EXCEPT !.rc = -1]
        ELSE IF s.chip.spansion THEN LET x == Timed(s, WriteStatus(s, [keep EXCEPT !.bp = bp]))
                                     IN  [x EXCEPT !.rc = IF x.rc < 0 THEN -1 ELSE 0]
        ELSE IF s.chip.tb \in {"STATR", "NONER"} \/ r.rc = -1 THEN r
        ELSE IF s.chip.tb # "FUNCR" THEN [r EXCEPT !.rc = -1]
        ELSE IF w.rc # 0 THEN w
        ELSE [t EXCEPT !.rc = IF t.rc < 0 THEN -1 ELSE 0]

\* set_quad_bit
SetQuadBit(s, on) ==
    LET w == WriteEnable(s)
        t == Timed(w, [w EXCEPT !.qe = IF on THEN 1 ELSE 0, !.wel = FALSE])
    IN  IF ~s.chip.known \/ s.chip.quad = "NONER" THEN [s EXCEPT !.rc = -1]
        ELSE IF w.rc # 0 THEN w ELSE IF t.rc # 0 THEN [t EXCEPT !.rc = -1] ELSE t

\* global_unlock
GlobalUnlock(s) ==
    LET w == WriteEnable(s)
        t == Timed(w, [w EXCEPT !.lock = FALSE, !.wel = FALSE])
    IN  IF w.rc # 0 THEN w ELSE IF t.rc < 0 THEN [t EXCEPT !.rc = -1] ELSE t

----------------------------------------------------------------------------
\* bulk_erase; a chip with locked blocks ignores the command.
BulkErase(s, skip) ==
    LET bp == IF skip THEN 0 ELSE BpMask(s)
        d  == IF bp # 0 THEN DisableProtection(s) ELSE [s EXCEPT !.rc = 0]
        w  == WriteEnable(d)
        e  == Timed(w, IF LockedBlocks(w) # {} THEN w ELSE ChipErase(w, 0, Block * NrBlocks))
        p  == EnableProtectionCode(e, [bp |-> bp, tb |-> 0, qe |-> 0])
    IN  IF bp # 0 /\ ~s.unprotect THEN [s EXCEPT !.rc = -1]
        ELSE IF d.rc # 0 THEN d
        ELSE IF w.rc # 0 THEN w
        ELSE IF bp # 0 THEN [p EXCEPT !.rc = IF p.rc = 0 THEN e.rc ELSE p.rc] ELSE e

\* A mutant: one sector more is erased when the end is aligned.
EraseStepOneMore(t) ==
    LET c     == t.s.chip
        small == (c.known /\ ~c.sector) \/ (t.addr + t.step > t.end /\ c.known /\ c.sub)
        w     == WriteEnable(t.s)
        e     == Timed(w, ChipErase(w, t.addr, IF small THEN Sub ELSE Block))
        step  == IF small THEN Sub ELSE t.step
    IN  IF t.addr > t.end \/ t.s.rc = -1 THEN t
        ELSE IF w.rc # 0 THEN [t EXCEPT !.s = w]
        ELSE [t EXCEPT !.s = IF e.rc = -1 THEN e ELSE [e EXCEPT !.rc = 0],
                       !.step = step, !.addr = @ + step]

\* One turn of the loop of sectors_erase: t holds the address, the step, the end.
EraseStep(t) ==
    LET c     == t.s.chip
        small == (c.known /\ ~c.sector) \/ (t.addr + t.step > t.end /\ c.known /\ c.sub)
        w     == WriteEnable(t.s)
        e     == Timed(w, ChipErase(w, t.addr, IF small THEN Sub ELSE Block))
        step  == IF small THEN Sub ELSE t.step
    IN  IF t.addr >= t.end \/ t.s.rc = -1 THEN t
        ELSE IF w.rc # 0 THEN [t EXCEPT !.s = w]
        ELSE [t EXCEPT !.s = IF e.rc = -1 THEN e ELSE [e EXCEPT !.rc = 0],
                       !.step = step, !.addr = @ + step]

SectorsErase(s, base, size) ==
    LET c    == s.chip
        end  == RoundUp(base + size, IF c.known /\ c.sub THEN Sub ELSE Block)
        step == IF c.known /\ ~c.sector THEN Sub ELSE Block
    IN  Iter(EraseStep, [s |-> [s EXCEPT !.rc = 0], addr |-> base, step |-> step, end |-> end],
             (end - base) \div Sub + 1).s

\* write_page, and the loop over the pages of a run of bytes; a chip without page
\* program takes one byte at a time.
WritePage(s, addr, data) ==
    LET w == WriteEnable(s) IN IF w.rc # 0 THEN w ELSE Timed(w, ChipProgram(w, addr, data))

\* A mutant: the last page is not written unless it is full.
WritePagesFull(s, base, data) ==
    LET size == IF s.chip.bytewise THEN 1 ELSE Page
        One(t, i) == IF t.rc = -1 THEN t
                     ELSE WritePage(t, base + size * (i - 1), SubSeq(data, size * (i - 1) + 1, size * i))
    IN  Fold(One, [s EXCEPT !.rc = 0], [i \in 1 .. (Len(data) \div size) |-> i])

WritePages(s, base, data) ==
    LET size == IF s.chip.bytewise THEN 1 ELSE Page
        n    == (Len(data) + size - 1) \div size
        One(t, i) == IF t.rc = -1 THEN t
                     ELSE WritePage(t, base + size * (i - 1),
                                    SubSeq(data, size * (i - 1) + 1, Least(size * i, Len(data))))
    IN  Fold(One, [s EXCEPT !.rc = 0], [i \in 1..n |-> i])

\* Locks are in the way and the user did not ask to lift them.
Refused(s) == s.relock /\ ~s.unprotect

\* prepare_flash: the bounds, the locks in the way, and the user's leave to lift them.
PrepareFlash(s, base, len) ==
    LET c    == s.chip
        u    == IF c.known /\ c.global THEN GlobalUnlock(s) ELSE [s EXCEPT !.rc = 0]
        tb   == IF c.tb = "NONER" THEN 0 ELSE u.tb
        area == BpToLen(u.bp, tb)
        over == IF tb = 1 THEN base <= area[2] ELSE base + len >= area[1]
        hit  == IF c.known THEN c.bpLen # 0 /\ area # <<0, 0>> /\ over ELSE u.bp # 0
        odd  == c.known /\ c.bpLen # 0 /\ c.topOnly /\ tb = 1 /\ base # 0
        k    == [u EXCEPT !.status = StatusReg(u), !.relock = hit \/ odd, !.unprotect = @ \/ odd]
        d    == DisableProtection(k)
    IN  IF u.rc # 0 THEN u
        ELSE IF c.known /\ base + len > Block * NrBlocks THEN [u EXCEPT !.rc = -1]
        ELSE IF ~k.relock THEN k
        ELSE IF Refused(k) THEN [k EXCEPT !.rc = -1]
        ELSE [d EXCEPT !.rc = IF d.rc # 0 THEN -1 ELSE 0]

\* A mutant: the locks that were lifted are forgotten.
RelockForgotten(s) == [s EXCEPT !.rc = 0]

\* The end of both erase_and_prog: the result of locking again is not looked at.
Relock(s) == IF s.relock THEN [EnableProtectionCode(s, s.status) EXCEPT !.rc = 0] ELSE [s EXCEPT !.rc = 0]

\* A mutant: the result of prepare_flash is not handed on.
EraseAndProgRefusalLost(s, base, data) ==
    LET p == PrepareFlash(s, base, Len(data))
        e == SectorsErase(p, base, Len(data))
        w == WritePages(e, base, data)
    IN  IF p.rc # 0 THEN [p EXCEPT !.rc = 0] ELSE IF e.rc = -1 THEN e ELSE IF w.rc = -1 THEN w ELSE Relock(w)

\* erase_and_prog(base, data, len)
EraseAndProg(s, base, data) ==
    LET p == PrepareFlash(s, base, Len(data))
        e == SectorsErase(p, base, Len(data))
        w == WritePages(e, base, data)
    IN  IF p.rc # 0 THEN p ELSE IF e.rc = -1 THEN e ELSE IF w.rc = -1 THEN w ELSE Relock(w)

\* erase_and_prog(sections): true, as bool, after an erase or a write that failed.
EraseAndProgSections(s, secs, full) ==
    LET base == IF full THEN 0 ELSE secs[1].base
        last == secs[Len(secs)]
        span == IF full THEN Block * NrBlocks ELSE last.base + Len(last.data) - base
        len  == Fold(LAMBDA n, x : n + Len(x.data), 0, secs)
        p    == PrepareFlash(s, base, span)
        e    == IF full THEN BulkErase(p, TRUE) ELSE SectorsErase(p, base, len)
        w    == Fold(LAMBDA t, x : IF t.rc = -1 THEN t ELSE WritePages(t, x.base, x.data), e, secs)
    IN  IF p.rc # 0 THEN p
        ELSE IF e.rc = -1 THEN [e EXCEPT !.rc = IF full THEN -1 ELSE 0]
        ELSE IF w.rc = -1 THEN [w EXCEPT !.rc = 0] ELSE Relock(w)

\* read, and the bursts of verify and dump, which fetch all of it.
Read(s, base, len) == [s EXCEPT !.rd = [i \in 1..len |-> s.mem[(base + i - 1) % (Block * NrBlocks)]], !.rc = 0]
Verify(s, base, data) ==
    LET r == Read(s, base, Len(data)) IN [r EXCEPT !.rc = IF r.rd = data THEN 0 ELSE -1]

----------------------------------------------------------------------------
\* FlashInterface: a command between prepare_flash_access and post_flash_access;
\* an exception of it is caught and makes it fail.  Of the device as prepared, after
\* the command and after post_flash_access, the outcome of all three:
Outcome(p, c, e) == IF p.err THEN p ELSE IF c.err \/ c.rc # 0 THEN Fail(e) ELSE e

Access(s, prepare(_), post(_), unprotect, command(_)) ==
    LET p == prepare(s)
        f == Construct(p, unprotect)
        c == IF f.err THEN f ELSE command(f)
        e == post([c EXCEPT !.err = FALSE])
    IN  Outcome(p, c, e)

\* The command of write.
WriteAndVerify(f, base, data) ==
    LET p == EraseAndProg(f, base, data)
    IN  IF p.rc = 0 /\ p.opt.verify THEN Verify(p, base, data) ELSE p

FlashWrite(s, prepare(_), post(_), base, data) ==
    Access(s, prepare, post, s.opt.unprotect, LAMBDA f : WriteAndVerify(f, base, data))

FlashWriteSections(s, prepare(_), post(_), secs, full) ==
    Access(s, prepare, post, s.opt.unprotect, LAMBDA f : EraseAndProgSections(f, secs, full))

FlashProtect(s, prepare(_), post(_), len) ==
    Access(s, prepare, post, FALSE, LAMBDA f : EnableProtection(f, len))
FlashUnprotect(s, prepare(_), post(_)) == Access(s, prepare, post, FALSE, DisableProtection)
FlashQuad(s, prepare(_), post(_), on) == Access(s, prepare, post, FALSE, LAMBDA f : SetQuadBit(f, on))
FlashBulkErase(s, prepare(_), post(_)) == Access(s, prepare, post, FALSE, LAMBDA f : BulkErase(f, FALSE))
FlashDump(s, prepare(_), post(_), base, len) == Access(s, prepare, post, FALSE, LAMBDA f : Read(f, base, len))
FlashDetect(s, prepare(_), post(_)) == Access(s, prepare, post, FALSE, LAMBDA f : [f EXCEPT !.rc = 0])
=============================================================================
