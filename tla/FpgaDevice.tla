----------------------------- MODULE FpgaDevice -----------------------------
(* The hardware behind a driver of openFPGALoader: an FPGA with its           *)
(* configuration memory and internal flash, and a SPI flash chip beside it.   *)
(* None of it is in the repository: it is modelled from the instructions the  *)
(* drivers send.  A driver's methods are functions from one session record to *)
(* the next; an error that ends a method, or an exception, sets err.          *)
(* Flash is scaled down: a byte is a cell, Page, Sub and Block cells make the *)
(* page of 256 bytes, the subsector of 4 KB and the sector of 64 KB.          *)
EXTENDS JtagTap, FiniteSets

CONSTANTS Page, Sub, Block, NrBlocks, Regions

ASSUME FlashGeometry ==
    /\ Page \in Nat \ {0} /\ Sub \in Nat /\ Block \in Nat /\ NrBlocks \in Nat \ {0}
    /\ Sub % Page = 0 /\ Sub > Page /\ Block % Sub = 0 /\ Block > Sub

Cells == 0 .. Block * NrBlocks - 1

\* The contents of a cell: what was there before, erased, programmed without an
\* erase in between, or (any number above 0) a byte of the file.
Old == -1
Blank == 0
Garbled == -2

(* The device: what the fabric runs (fab) and how many bytes it was given,     *)
(* whether it is in programming mode (isc) or held in reset (held), whether    *)
(* the SPI flash can be reached through it or past it (spi); its               *)
(* internal flash (nv); the cells of the SPI flash and its registers; for a    *)
(* parallel flash the blocks unlocked (open) and what a read shows (view); a   *)
(* second SPI flash of the same make (other).                                  *)
(* The session: the number of polls to come before the one that times out (poll),  *)
(* whether the last one did (late), the result of the last call (rc), err, the *)
(* fields of class SPIFlash, and what was read (rd).                           *)
NewDevice(chip) ==
    [fab |-> "old", got |-> 0, isc |-> FALSE, held |-> FALSE, spi |-> FALSE,
     nv |-> [r \in Regions |-> Old], mem |-> [a \in Cells |-> Old],
     bp |-> 0, tb |-> 0, qe |-> 0, wel |-> FALSE, lock |-> chip.global, chip |-> chip,
     open |-> {}, view |-> "array",
     other |-> [mem |-> [a \in Cells |-> Old], bp |-> 0, tb |-> 0, qe |-> 0, lock |-> chip.global],
     opt |-> <<>>, poll |-> 0, late |-> FALSE, rc |-> 0, err |-> FALSE,
     unprotect |-> FALSE, relock |-> FALSE, status |-> <<>>, rd |-> <<>>]

Begin(d, opt, poll) == [d EXCEPT !.opt = opt, !.poll = poll, !.rc = 0, !.err = FALSE, !.rd = <<>>]

\* What comes next, unless an error has ended the method.
Unless(s, next) == IF s.err THEN s ELSE next
Fail(s) == [s EXCEPT !.err = TRUE]

\* A void method that returned early, or one whose result nobody looks at.
Untold(s) == [s EXCEPT !.err = FALSE]

\* A bounded wait: the chosen one finds the device busy to the end.
Poll(s) == [s EXCEPT !.late = s.poll = 0, !.poll = @ - 1]
Check(s) == LET w == Poll(s) IN IF w.late THEN Fail(w) ELSE w

\* The fabric: cleared, given bytes, started; booted from what the flash holds.
\* A bridge is a design that connects the JTAG port to the SPI flash.
Clear(s) == [s EXCEPT !.fab = "none", !.got = 0, !.spi = FALSE]
Load(s, what, n) == [s EXCEPT !.fab = what, !.got = @ + n, !.spi = what = "bridge"]
Boot(s) == [s EXCEPT !.fab = "boot", !.held = FALSE, !.spi = FALSE]
Bridge(s, prog(_)) == IF s.opt.bridge THEN prog(s) ELSE Fail(s)

\* The internal flash: it changes in programming mode only.  A region written in
\* packets holds the number of them, counted from the erased state.
IscOn(s) == [s EXCEPT !.isc = TRUE]
IscOff(s) == [s EXCEPT !.isc = FALSE]
NvErase(s, rs) == IF ~s.isc THEN s
                  ELSE [s EXCEPT !.nv = [r \in Regions |-> IF r \in rs THEN Blank ELSE @[r]]]
NvNext(s, r) == IF ~s.isc THEN s
                ELSE [s EXCEPT !.nv[r] = IF @ >= Blank THEN @ + 1 ELSE Garbled]
NvWrite(s, r, v) == IF ~s.isc THEN s
                    ELSE [s EXCEPT !.nv[r] = IF @ = Blank THEN v ELSE Garbled]
=============================================================================
