----------------------------- MODULE PacketCables -----------------------------
(* The drivers whose adapter takes packets of commands. *)
EXTENDS JtagCable

-------------------------------------------------------------------------------
(* Class DirtyJtag (dirtyJtag.cpp): every method sends what it is given before *)
(* it returns.  A level of TMS takes six bytes of a packet of 64, a packet     *)
(* ends with a stop byte, and the falling edge of the last level takes three.  *)
(* The pins keep their levels between the commands.                            *)

DirtyFlush(c) == c

DirtyWriteTMS(c, tms) ==
    LET Level(s, t) == Store([s EXCEPT !.tms = t], DirtySize, <<Cmd(6, <<<<t, 0>>>>, FALSE)>>)
        One(s, i) ==
            LET put  == Level(s, tms[i])
                last == i = Len(tms)
                tail == Cmd(IF last THEN 4 ELSE 1, <<>>, FALSE)
            IN  IF s.err THEN s
                ELSE IF last \/ put.num + 9 >= DirtySize THEN Direct(put, DirtySize, <<tail>>) ELSE put
    IN  Fold(One, c, [i \in DOMAIN tms |-> i])

\* CMD_CLK repeats the pins as they are: the levels given are not looked at.
Clock(c, n, d) ==
    LET run == Pieces([i \in 1..n |-> <<c.tms, d>>], DirtyClk)
    IN  Fold(LAMBDA s, p : Unless(s, Direct(s, DirtySize, <<Cmd(4, p, FALSE)>>)), c, run)
DirtyToggleClk(c, tms, n) == Clock(c, n, 0)

\* Versions 0 and 1 answer every transfer, so that the answer is read in any case.
DirtyWriteTDI(c, tdi, rd, end, old) ==
    LET real == IF end THEN Len(tdi) - 1 ELSE Len(tdi)
        Xfer(s, bits) ==
            LET sent == Direct(s, 512, <<Cmd(3 + Len(Octets(bits)), TdiPulses(bits), rd \/ old)>>)
                got  == Take(sent, 1)
            IN  IF s.err \/ sent.err \/ ~(rd \/ old) THEN Unless(s, sent)
                ELSE [got EXCEPT !.rx = IF rd THEN @ ELSE <<>>]
        bits == Fold(Xfer, c, Pieces(Upto(tdi, real), DirtyBits))
        high == [bits EXCEPT !.tms = 1]
        sig  == Direct(high, DirtySize, <<Cmd(8, <<<<1, tdi[Len(tdi)]>>>>, TRUE)>>)
        got  == Take(sig, 1)
        last == IF real % Octet = 0 THEN [got EXCEPT !.rx[Len(tdi)] = Mixed] ELSE got
    IN  IF bits.err \/ ~end THEN bits
        ELSE IF ~rd THEN Clock(high, 1, tdi[Len(tdi)])
        ELSE Unless(sig, Direct(last, DirtySize, <<Cmd(4, <<>>, FALSE)>>))

-------------------------------------------------------------------------------
(* Class CmsisDAP (cmsisDAP.cpp): levels of TMS are collected in the packet that *)
(* the next command needs, so that every other method flushes them first.  TDI   *)
(* goes in sequences of at most eight bytes with one byte of header each, seven  *)
(* to a packet, the seventh cut to the bytes that are left.                      *)

\* flush(): the count is cleared whatever xfer() answers.
DapFlush(c) ==
    IF c.num = 0 THEN c
    ELSE IF c.xfers = 0 THEN [c EXCEPT !.num = 0, !.q = <<>>, !.err = TRUE]
    ELSE Sent(c)

\* Here num counts levels, not bytes.
DapWriteTMS(c, tms, now) ==
    LET Level(s, t) == LET pre == IF s.num = DapTms THEN DapFlush(s) ELSE s
                       IN  Unless(pre, Store(pre, DapTms, <<Cmd(1, <<<<t, 0>>>>, FALSE)>>))
        all == Fold(Level, c, tms)
    IN  Unless(all, IF now \/ all.num = DapTms THEN DapFlush(all) ELSE all)

(* The sequences of one packet: the bits are cut into runs of DapSeq bytes, but  *)
(* the seventh has one byte less, because a packet has DapSize bytes with the    *)
(* number of sequences in front.                                                 *)
PacketBits == Octet * (7 * DapSeq - 1)
Sequences(run, tms, rd) ==
    LET s == Pieces(run, Octet * DapSeq)
    IN  [i \in DOMAIN s |-> Cmd(1 + Len(Octets(s[i])), [k \in DOMAIN s[i] |-> <<tms, s[i][k]>>], rd)]

\* The result of the flush in front is not looked at.  A packet that is not full
\* is sent at once, or together with the bit that leaves the shift state.
WriteJtagSequence(c, tms, tdi, rd, end) ==
    LET real    == IF end THEN Len(tdi) - 1 ELSE Len(tdi)
        packets == Pieces(Upto(tdi, real), PacketBits)
        partial == end /\ real % PacketBits # 0
        full    == IF partial THEN Front(packets) ELSE packets
        rest    == IF partial THEN Sequences(Last(packets), tms, rd) ELSE <<>>
        number  == Cmd(1, <<>>, FALSE)
        Packet(s, cmds) ==
            LET sent == Direct(s, DapSize, <<number>> \o cmds)
            IN  Unless(sent, IF rd THEN Take(sent, Len(cmds)) ELSE sent)
        start == [DapFlush(c) EXCEPT !.err = FALSE]
        body  == Fold(LAMBDA s, p : Unless(s, Packet(s, Sequences(p, tms, rd))), start, full)
        last  == Cmd(2, <<<<1 - tms, tdi[Len(tdi)]>>>>, rd)
    IN  IF end THEN Unless(body, Packet(body, Append(rest, last))) ELSE body

DapWriteTDI(c, tdi, rd, end) == WriteJtagSequence(c, 0, tdi, rd, end)
DapToggleClk(c, tms, n) == WriteJtagSequence(c, tms, [i \in 1..n |-> 0], FALSE, FALSE)

-------------------------------------------------------------------------------
(* Class esp_usb_jtag (esp_usb_jtag.cpp): a command is half a byte, a packet     *)
(* takes OUT_EP_SZ bytes and is sent by the method that fills it; a packet of an *)
(* odd number of commands starts with CMD_FLUSH, which does nothing when no      *)
(* answer is pending.  num counts half bytes.                                    *)

Nop == Cmd(1, <<>>, FALSE)
Even(cmds) == IF Len(cmds) % 2 = 1 THEN <<Nop>> \o cmds ELSE cmds
EspPacket(s, cmds) == Unless(s, Direct(s, 2 * EspSize, Even(cmds)))

EspFlush(c) == Direct(c, 2 * EspSize, <<Nop, Nop>>)

\* A flush that is asked for comes before the levels, and is not checked.
EspWriteTMS(c, tms, now) ==
    LET start == IF now THEN [EspFlush(c) EXCEPT !.err = FALSE] ELSE c
        cmds  == [i \in DOMAIN tms |-> Cmd(1, <<<<tms[i], 0>>>>, FALSE)]
        sent  == Fold(EspPacket, start, Pieces(cmds, 2 * EspSize))
    IN  IF tms = <<>> THEN start ELSE [sent EXCEPT !.tms = Last(tms)]

\* The pins keep their levels: those given are not looked at.
EspToggleClk(c, tms, n) ==
    Fold(EspPacket, c, Pieces([i \in 1..n |-> Cmd(1, <<<<c.tms, 0>>>>, FALSE)], 2 * EspSize))

\* Each packet of a read is flushed and answered before the next one is sent; the
\* result of that flush is not checked, an answer that is missing ends the reading.
EspWriteTDI(c, tdi, rd, end) ==
    LET Level(i) == IF end /\ i = Len(tdi) THEN 1 ELSE c.tms
        cmds == [i \in DOMAIN tdi |-> Cmd(1, <<<<Level(i), tdi[i]>>>>, rd)]
        One(s, p) == LET sent == EspPacket(s, p)
                     IN  IF rd THEN Unless(sent, Take(EspFlush(sent), Len(p))) ELSE sent
        sent == Fold(One, c, Pieces(cmds, 2 * EspSize))
    IN  [sent EXCEPT !.tms = IF end THEN 1 ELSE @]

-------------------------------------------------------------------------------
(* Class CH347Jtag (ch347jtag.cpp): commands with three bytes of header are      *)
(* deferred in one buffer until a read, a flush or less than 12 free bytes.      *)
(* The shortcut of toggleClk for a low TDI is left out: class Jtag drives TDI    *)
(* high outside the shift states, and nobody clocks in those.                    *)

\* usb_xfer(): the buffer counts as empty whether or not the transfer succeeds.
UsbXfer(c, cmds, defer) ==
    LET put == Store(c, Ch347Size, cmds)
    IN  IF defer /\ put.num < Ch347Size - 12 THEN put
        ELSE IF put.num = 0 THEN put
        ELSE IF put.xfers = 0 THEN [put EXCEPT !.num = 0, !.q = <<>>, !.err = TRUE]
        ELSE Sent(put)

Ch347Flush(c) == UsbXfer(c, <<>>, FALSE)
Left(c) == Ch347Size - c.num
Quiet(c) == [c EXCEPT !.err = FALSE]

\* Two bytes a pulse; a command takes what the empty buffer has room for.
Bang(c, pulses, defer) ==
    Fold(LAMBDA s, p : Unless(s, UsbXfer(s, <<Cmd(4 + 2 * Len(p), p, FALSE)>>, defer)),
         c, Pieces(pulses, (Ch347Size - 4) \div 2))

Ch347WriteTMS(c, tms, now) ==
    LET start == Quiet(Ch347Flush(c))
    IN  IF tms = <<>> THEN start
        ELSE [Bang(start, TmsPulses(tms), ~now) EXCEPT !.tms = Last(tms)]

\* The pins keep their levels: those given are not looked at.
Ch347ToggleClk(c, tms, n) ==
    LET start == IF Left(c) < 2 * n + 4 THEN Quiet(Ch347Flush(c)) ELSE c
    IN  Bang(start, ClkPulses(c.tms, n), TRUE)

\* A chunk takes what is left of the buffer, so that its size is known only when
\* it is stored; f[k] is the cable when the bytes from k on are still to be sent.
Bytes(c, bytes, rd) ==
    LET Chunk(s, k) == Least(Len(bytes) - k + 1, Left(s) - 3)
        Put(s, k) ==
            LET st   == IF Left(s) < 4 THEN Quiet(Ch347Flush(s)) ELSE s
                n    == Chunk(st, k)
                p    == Concat([i \in 1..n |-> TdiPulses(bytes[k + i - 1])])
                sent == UsbXfer(st, <<Cmd(n + 3, p, rd)>>, ~rd)
            IN  [k |-> k + n, c |-> IF rd THEN Unless(sent, Take(sent, 1)) ELSE sent]
        f[i \in 0..Len(bytes)] ==
            IF i = 0 THEN [k |-> 1, c |-> c]
            ELSE LET x == f[i - 1]
                 IN  IF x.c.err \/ x.k > Len(bytes) THEN x ELSE Put(x.c, x.k)
    IN  f[Len(bytes)].c

Ch347WriteTDI(c, tdi, rd, end) ==
    LET nbyte == (Len(tdi) - (IF end THEN 1 ELSE 0)) \div Octet
        rest  == From(tdi, Octet * nbyte + 1)
        bytes == Bytes(c, Octets(Upto(tdi, Octet * nbyte)), rd)
        room  == IF Left(bytes) < 4 + 2 * Len(rest) THEN Quiet(Ch347Flush(bytes)) ELSE bytes
        Level(i) == IF end /\ i = Len(rest) THEN 1 ELSE 0
        cmd   == Cmd(4 + 2 * Len(rest), [i \in DOMAIN rest |-> <<Level(i), rest[i]>>], rd)
        sent  == UsbXfer([room EXCEPT !.tms = IF end THEN 1 ELSE @], <<cmd>>, ~rd)
    IN  IF bytes.err \/ rest = <<>> THEN bytes
        ELSE IF rd THEN Unless(sent, Take(sent, 1)) ELSE sent

-------------------------------------------------------------------------------
(* Class GowinGWU2x (gwu2x_jtag.cpp): a buffer of one full packet of bytes with  *)
(* its header and a read-back command.                                           *)

GwuBuffer == GwuSize + 3

\* xfer(): a transfer that fails leaves the buffer as it is.
GwuXfer(c) == IF c.num = 0 THEN c
           ELSE IF c.xfers = 0 THEN [c EXCEPT !.err = TRUE] ELSE Sent(c)
GwuFlush(c) == GwuXfer(c)

StoreSeq(c, cmd, back) ==
    LET n   == IF back THEN 4 ELSE 3
        pre == IF c.num + n > GwuBuffer THEN GwuXfer(c) ELSE c
    IN  Unless(pre, Store(pre, GwuBuffer, <<[cmd EXCEPT !.n = n]>>))

GwuWriteTMS(c, tms, now) ==
    LET Seven(s, p) == Unless(s, StoreSeq(s, Cmd(3, TmsPulses(p), FALSE), FALSE))
        all == Fold(Seven, c, Pieces(tms, 7))
        new == IF tms = <<>> THEN all ELSE [all EXCEPT !.tms = Last(tms)]
    IN  IF now THEN Unless(new, GwuXfer(new)) ELSE new

\* Clock pulses have a command of their own, TMS staying as it is.
GwuToggleClk(c, tms, n) ==
    LET One(s, p) == Unless(s, StoreSeq(s, Cmd(3, p, FALSE), FALSE))
        all == Fold(One, c, Pieces(ClkPulses(c.tms, n), GwuClk))
    IN  Unless(all, GwuXfer(all))

\* The bits that do not fill a byte wait for the last one when there is one.
GwuWriteTDI(c, tdi, rd, end) ==
    LET real  == IF end THEN Len(tdi) - 1 ELSE Len(tdi)
        nbyte == real \div Octet
        rest  == SubSeq(tdi, Octet * nbyte + 1, real)
        Read(s, n) == LET sent == GwuXfer(s) IN IF rd THEN Unless(sent, Take(sent, n)) ELSE sent
        Packet(s, b) ==
            LET p == Concat([i \in DOMAIN b |-> TdiPulses(b[i])])
            IN  Unless(s, Read(Store(s, GwuBuffer, <<Cmd(2 + Len(b) + (IF rd THEN 1 ELSE 0), p, rd)>>), 1))
        start == GwuXfer(c)
        bytes == Fold(Packet, start, Pieces(Octets(Upto(tdi, Octet * nbyte)), GwuSize))
        put   == StoreSeq(bytes, Cmd(3, TdiPulses(rest), rd), rd /\ ~end)
        bits  == IF rest = <<>> THEN bytes
                 ELSE Unless(bytes, IF end THEN put ELSE Unless(put, Read(put, 1)))
        last  == StoreSeq([bits EXCEPT !.tms = 1], Cmd(3, <<<<1, tdi[Len(tdi)]>>>>, rd), rd)
    IN  IF end THEN Unless(bits, Unless(last, Read(last, IF rest = <<>> THEN 1 ELSE 2)))
        ELSE bits
===============================================================================
