------------------------------- MODULE BitBang -------------------------------
(* The cables without an engine: AnlogicCable (anlogicCable.cpp),               *)
(* FtdiJtagBitBang (ftdiJtagBitbang.cpp), LibgpiodJtagBitbang                   *)
(* (libgpiodJtagBitbang.cpp) and RemoteBitbang_client                           *)
(* (remoteBitbang_client.cpp).  Every pulse is two levels of TCK made by the    *)
(* program.                                                                     *)
EXTENDS JtagCable

\* The bits of a read of which the last byte is not filled: they are left at the
\* top of that byte, or or'ed into a byte of the caller that nobody cleared.
Unaligned(rx, got) ==
    LET whole == Octet * (Len(got) \div Octet)
    IN  rx \o [i \in DOMAIN got |-> IF i > whole THEN Mixed ELSE got[i]]

Levels(tdi, tms, end) == [i \in DOMAIN tdi |-> <<IF end /\ i = Len(tdi) THEN 1 ELSE tms, tdi[i]>>]

----------------------------------------------------------------------------
\* AnlogicCable: every transfer is answered and the answer read.  The levels of
\* a second transfer are looked up eight times too far, where there are none.
AnlogicXfer(c, p) == Unless(c, Direct(c, AnlogicSize, <<Cmd(Len(p), p, FALSE)>>))

AnlogicTMS(c, tms) ==
    LET seen == [i \in DOMAIN tms |-> IF i <= AnlogicSize THEN tms[i] ELSE 0]
    IN  Fold(AnlogicXfer, c, Pieces(TmsPulses(seen), AnlogicSize))

AnlogicClk(c, tms, n) == Fold(AnlogicXfer, c, Pieces(ClkPulses(tms, n), AnlogicSize))

\* TMS is raised with the last bit only in a transfer that is not full.
AnlogicTDI(c, tdi, rd, end) ==
    LET short == Len(tdi) % AnlogicSize # 0
        sent  == Fold(AnlogicXfer, c, Pieces(Levels(tdi, 0, end /\ short), AnlogicSize))
    IN  IF rd THEN Unless(sent, [sent EXCEPT !.rx = Unaligned(@, tdi)]) ELSE sent

----------------------------------------------------------------------------
\* FtdiJtagBitBang: write() keeps the buffer when a transfer fails.
BangWrite(c) == IF c.num = 0 THEN c
                ELSE IF c.xfers = 0 THEN [c EXCEPT !.err = TRUE] ELSE Sent(c)
Pulse(s, t, d) == Store([s EXCEPT !.tms = t, !.tck = 1], BangSize, <<Cmd(2, <<<<t, d>>>>, FALSE)>>)
BangRoom(s) == IF s.num + 2 > BangSize THEN BangWrite(s) ELSE s

BangTMS(c, tms, now) ==
    LET One(s, t) == Unless(s, BangRoom(Pulse(s, t, 0)))
        all == Fold(One, BangRoom(c), tms)
    IN  IF tms = <<>> THEN IF now THEN BangWrite(c) ELSE c
        ELSE IF now THEN Unless(all, BangWrite(all)) ELSE all

\* Runs of iter bits; errors are not looked at.
BangTDI(c, tdi, rd, end) ==
    LET size == IF rd THEN BangRead ELSE BangSize
        iter == IF 2 * Len(tdi) + 1 < size THEN Len(tdi)
                ELSE Octet * ((size \div 2) \div Octet)
        start == IF c.num # 0 THEN BangWrite(c) ELSE c
        Run(s, p) == [BangWrite(Fold(LAMBDA x, y : Pulse(x, y[1], y[2]), s, p)) EXCEPT !.err = FALSE]
        sent == Fold(Run, start, Pieces(Levels(tdi, start.tms, end), iter))
    IN  IF rd THEN [sent EXCEPT !.rx = Unaligned(@, tdi)] ELSE sent

\* TCK goes up and then down: the first pulse is none when it was up already.
BangClk(c, tms, n) ==
    LET One(s, i) ==
            LET pre  == BangRoom(s)
                edge == IF pre.tck = 1 THEN <<>> ELSE <<<<tms, 0>>>>
            IN  Unless(s, Unless(pre, Store([pre EXCEPT !.tck = 0], BangSize, <<Cmd(2, edge, FALSE)>>)))
        all == Fold(One, c, [i \in 1..n |-> i])
    IN  Unless(all, [BangWrite(all) EXCEPT !.err = FALSE])

----------------------------------------------------------------------------
\* LibgpiodJtagBitbang: the pins are set by calls of the kernel, none of which
\* is checked; the second version of the library clocks with the levels it has.
GpiodOut(c, p) == IF p = <<>> THEN c ELSE [c EXCEPT !.out = @ \o p, !.tms = Last(p)[1]]
GpiodTMS(c, tms) == GpiodOut(c, TmsPulses(tms))
GpiodClk(c, tms, n, v2) == GpiodOut(c, ClkPulses(IF v2 THEN c.tms ELSE tms, n))
GpiodTDI(c, tdi, rd, end, v2) ==
    LET out == GpiodOut(c, Levels(tdi, IF v2 THEN 0 ELSE c.tms, end))
    IN  IF rd THEN [out EXCEPT !.rx = Unaligned(@, tdi)] ELSE out

----------------------------------------------------------------------------
\* RemoteBitbang_client: ll_write(); a write that fails leaves the buffer.
RemoteWrite(c) == IF c.num = 0 THEN c
                  ELSE IF c.xfers = 0 THEN [c EXCEPT !.err = TRUE] ELSE Sent(c)
\* Pulses are buffered, and the buffer is written when the next one finds it full.
RemotePut(c, p) ==
    LET room == (RemoteSize - c.num) \div 2
        runs == <<Upto(p, room)>> \o Pieces(From(p, room + 1), RemoteSize \div 2)
        Put(s, run) == Store([(IF s.num = RemoteSize THEN RemoteWrite(s) ELSE s) EXCEPT !.err = FALSE],
                             RemoteSize, [i \in DOMAIN run |-> Cmd(2, <<run[i]>>, FALSE)])
        all  == IF Len(p) <= room THEN Put(c, p) ELSE Fold(Put, c, SelectSeq(runs, LAMBDA r : r # <<>>))
    IN  IF p = <<>> THEN c ELSE [all EXCEPT !.tms = Last(p)[1]]

RemoteTMS(c, tms, now) ==
    LET all == RemotePut(c, TmsPulses(tms))
    IN  IF now THEN RemoteWrite(all) ELSE all

\* Each bit of a read is a transfer of its own, the first with what was buffered.
RemoteTDI(c, tdi, rd, end) ==
    LET p == Levels(tdi, c.tms, end)
        n == Least(c.xfers, Len(tdi))
        room == IF c.num = RemoteSize THEN RemoteWrite(c) ELSE c
    IN  IF rd THEN [room EXCEPT !.num = 0, !.q = <<>>, !.out = @ \o Pulses(room.q) \o Upto(p, n),
                                !.rx = @ \o Upto(tdi, n), !.tms = IF end THEN 1 ELSE @,
                                !.xfers = @ - n, !.err = n < Len(tdi)]
        ELSE RemotePut(c, p)

\* The level of TMS is sent at the place of TDI, and the buffer is not looked at.
RemoteClk(c, tms, n) ==
    LET start == IF c.num # 0 THEN RemoteWrite(c) ELSE c
        cmds  == [i \in 1..n |-> Cmd(2, <<<<0, tms>>>>, FALSE)]
    IN  RemoteWrite(Store([start EXCEPT !.tms = 0, !.err = FALSE], RemoteSize, cmds))
==============================================================================
