------------------------------ MODULE FtdiMpsse ------------------------------
(* Class FtdiJtagMPSSE over FTDIpp_MPSSE (ftdiJtagMPSSE.cpp,                   *)
(* ftdipp_mpsse.cpp): commands of the MPSSE engine are stored in a buffer of   *)
(* one USB packet, which a command may straddle.  The engine answers a read    *)
(* command with one byte per eight bits.  The order of bits in a byte (the     *)
(* most significant first for one adapter) is undone by the engine and left    *)
(* out, and so are the reads that only drain what a CH552 adapter answers to   *)
(* writes.                                                                     *)
EXTENDS JtagCable

\* mpsse_write(): a transfer that fails leaves the buffer as it is.
MpsseWrite(c) ==
    IF c.num = 0 THEN c
    ELSE IF c.xfers = 0 THEN [c EXCEPT !.err = TRUE] ELSE Sent(c)

\* mpsse_store() of a command: what does not fit goes into the next packet, and
\* the command is dropped when the packet before it cannot be sent.
MpsseStore(c, cmd) ==
    LET room  == IF c.num = MpsseSize THEN MpsseWrite(c) ELSE c
        head  == MpsseSize - room.num
        first == MpsseWrite([room EXCEPT !.num = MpsseSize])
    IN  IF c.num + cmd.n <= MpsseSize THEN Store(c, MpsseSize, <<cmd>>)
        ELSE IF room.err THEN room
        ELSE IF room.num + cmd.n <= MpsseSize THEN Store(room, MpsseSize, <<cmd>>)
        ELSE IF first.err THEN first
        ELSE Store(first, MpsseSize, <<[cmd EXCEPT !.n = @ - head]>>)

MpsseStoreAll(c, cmds) == Fold(MpsseStore, c, cmds)

\* mpsse_read(): SEND_IMMEDIATE, the transfer, then n answers.
MpsseRead(c, n) ==
    LET sent == MpsseWrite(MpsseStore(c, Cmd(1, <<>>, FALSE)))
    IN  IF sent.err THEN sent ELSE Take(sent, n)

\* No method below looks at these results: each of them answers the length.
Quiet(c) == [c EXCEPT !.err = FALSE]

\* Six levels a command; the buffer is sent each time it may have been filled.
WriteTMS(c, tms, now) ==
    LET iter == MpsseSize \div 3
        six  == Pieces(tms, 6)
        One(s, i) == LET st == MpsseStore(s, Cmd(3, TmsPulses(six[i]), FALSE))
                     IN  IF i % iter = 0 THEN MpsseWrite(st) ELSE st
        all  == Fold(One, c, [i \in DOMAIN six |-> i])
    IN  IF tms = <<>> THEN c
        ELSE Quiet([(IF now THEN MpsseWrite(all) ELSE all) EXCEPT !.tms = Last(tms)])

Flush(c) == MpsseWrite(c)

\* The chips of the H series clock without data, TMS staying as it is ...
ToggleClkH(c, n) ==
    LET eight == IF n > Octet THEN n \div Octet ELSE 0
        rest  == n - Octet * eight
        bytes == IF eight = 0 THEN c
                 ELSE MpsseStore(c, Cmd(3, ClkPulses(c.tms, Octet * eight), FALSE))
    IN  Quiet(IF rest = 0 THEN bytes
              ELSE MpsseStore(bytes, Cmd(2, ClkPulses(c.tms, rest), FALSE)))

\* ... the others use a command for TMS.
ToggleClk(c, tms, n) == WriteTMS(c, [i \in 1..n |-> tms], FALSE)

\* A single full byte is sent as eight bits.  The bit that leaves the shift
\* state is then looked up at bit 8 of that byte, where there is none.
WriteTDI(c, tdi, rd, end) ==
    LET real   == IF end THEN Len(tdi) - 1 ELSE Len(tdi)
        one    == real = Octet
        nbyte  == IF one THEN 0 ELSE real \div Octet
        nbit   == IF one THEN Octet ELSE real % Octet
        first  == IF real \div Octet + c.num + 3 > MpsseSize THEN MpsseWrite(c) ELSE c
        Xfer(s, b) ==
            LET st == MpsseStoreAll(s, <<Cmd(3, <<>>, FALSE)>> \o
                                       [i \in DOMAIN b |-> Cmd(1, TdiPulses(b[i]), rd)])
            IN  IF rd THEN MpsseRead(st, Len(b)) ELSE IF end THEN st ELSE MpsseWrite(st)
        bytes  == Fold(Xfer, first, Pieces(Octets(Upto(tdi, Octet * nbyte)), MpsseSize - 3))
        rest   == SubSeq(tdi, Octet * nbyte + 1, Octet * nbyte + nbit)
        stored == MpsseStoreAll(bytes, <<Cmd(2, <<>>, FALSE), Cmd(1, TdiPulses(rest), rd)>>)
        bits   == IF nbit = 0 THEN bytes
                  ELSE IF end THEN stored
                  ELSE IF rd THEN MpsseRead(stored, 1) ELSE MpsseWrite(stored)
        lastd  == IF one THEN 0 ELSE tdi[Len(tdi)]
        last   == MpsseStore([bits EXCEPT !.tms = 1], Cmd(3, <<<<1, lastd>>>>, rd))
        lastrx == MpsseRead(last, IF nbit = 0 THEN 1 ELSE 2)
        mixed  == IF nbit \in {0, Octet} /\ lastrx.rx # <<>>
                  THEN [lastrx EXCEPT !.rx[Len(lastrx.rx)] = Mixed] ELSE lastrx
    IN  Quiet(IF ~end THEN bits ELSE IF rd THEN mixed ELSE MpsseWrite(last))

------------------------------------------------------------------------------
(* Class CH552_jtag (ch552_jtag.cpp): an MPSSE engine whose firmware answers    *)
(* nearly every command, so that each method ends with a read.  Errors are      *)
(* printed and not reported.                                                    *)

\* A read for the caller, and one whose answer is dropped.
Read(c, n) == Quiet(MpsseRead(c, n))
Drain(c, n) == [Read(c, n) EXCEPT !.rx = c.rx]

Ch552Flush(c) == MpsseWrite(c)

Ch552WriteTMS(c, tms) ==
    LET iter == MpsseSize \div 3
        groups == Pieces(Pieces(tms, 6), (iter + 2) \div 3)
        Group(s, g) ==
            Drain(MpsseStoreAll(s, [i \in DOMAIN g |-> Cmd(3, TmsPulses(g[i]), TRUE)]), Len(g))
    IN  IF tms = <<>> THEN c
        ELSE [Quiet(MpsseWrite(Fold(Group, c, groups))) EXCEPT !.tms = Last(tms)]

Ch552ToggleClk(c, tms, n) == Ch552WriteTMS(c, [i \in 1..n |-> tms])

\* Without a read the last byte of each run is still read, to know that the run
\* is over.  The bit that leaves the shift state comes back as the top bit of a
\* byte and is moved to the left, out of the byte unless it belongs at the top.
Ch552WriteTDI(c, tdi, rd, end) ==
    LET real  == IF end THEN Len(tdi) - 1 ELSE Len(tdi)
        nbyte == real \div Octet
        nbit  == real % Octet
        Got(s, n) == IF rd THEN Read(s, n) ELSE Drain(s, n)
        Byte(b, back) == Cmd(1, TdiPulses(b), back)
        Run(s, p) ==
            LET head == Cmd(3, <<>>, FALSE)
                body == [i \in DOMAIN p |-> Byte(p[i], rd)]
                most == IF Len(p) = 1 THEN s ELSE MpsseStoreAll(s, <<head>> \o Front(body))
            IN  IF rd THEN Read(MpsseStoreAll(s, <<head>> \o body), Len(p))
                ELSE Drain(MpsseStoreAll(most, <<head, Byte(Last(p), TRUE)>>), 1)
        start == IF c.num # 0 /\ nbyte + c.num + 3 > MpsseSize THEN Quiet(MpsseWrite(c)) ELSE c
        bytes == Fold(Run, start, Pieces(Octets(Upto(tdi, Octet * nbyte)), MpsseSize - 7))
        rest  == SubSeq(tdi, Octet * nbyte + 1, real)
        bits  == IF nbit = 0 THEN bytes
                 ELSE Got(MpsseStoreAll(bytes, <<Cmd(2, <<>>, FALSE), Byte(rest, TRUE)>>), 1)
        last  == Got(MpsseStore([bits EXCEPT !.tms = 1],
                                  Cmd(3, <<<<1, tdi[Len(tdi)]>>>>, TRUE)), 1)
        lost  == rd /\ nbit # Octet - 1 /\ last.rx # <<>>
    IN  IF ~end THEN bits
        ELSE IF lost THEN [last EXCEPT !.rx[Len(last.rx)] = IF nbit = 0 THEN Mixed ELSE 0]
        ELSE last
==============================================================================
