----------------------------- MODULE UsbBlaster -----------------------------
(* Class UsbBlaster (usbBlaster.cpp), the cable of the AX301 board: a buffer *)
(* of 64 bytes in which a clock pulse takes two bytes (bit-bang) or eight    *)
(* pulses take one (shift mode, after a header byte that counts to 63).      *)
EXTENDS JtagCable

\* A mutant: the buffer keeps what it has sent.
FlushAgain(c) ==
    IF c.num = 0 THEN c
    ELSE IF c.xfers = 0 THEN [c EXCEPT !.err = TRUE]
    ELSE [Sent(c) EXCEPT !.num = c.num, !.q = c.q]

\* write(): the buffer is emptied whether or not the transfer succeeds.
Flush(c) ==
    IF c.num = 0 THEN c
    ELSE IF c.xfers = 0 THEN [c EXCEPT !.num = 0, !.q = <<>>, !.err = TRUE]
    ELSE Sent(c)

Put(c, cmds) == Store(c, BlasterSize, cmds)
Bang(tms, d, rd) == Cmd(2, <<<<tms, d>>>>, rd)
Low == Cmd(1, <<>>, FALSE)      \* a byte that leaves TCK low

\* A mutant: the two bytes about to be stored are not counted.
RoomLate(c) == IF c.num > BlasterSize THEN Flush(c) ELSE c

Room(c) == IF c.num + 2 > BlasterSize THEN Flush(c) ELSE c

WriteTMS(c, tms, now) ==
    IF tms = <<>> THEN IF now THEN Flush(c) ELSE c
    ELSE LET Level(s, t) == Unless(s, Room(Put([s EXCEPT !.tms = t], <<Bang(t, 0, FALSE)>>)))
             body == Fold(Level, Room(c), tms)
             low  == Put(body, <<Low>>)
         IN  Unless(body, IF now THEN Flush(low) ELSE low)

\* A mutant: the answers to a full buffer are left for the next read.
ChunkUnread(rd, s, bytes) ==
    LET pre == IF s.num + Len(bytes) + 1 > BlasterSize THEN Flush(s) ELSE s
    IN  Unless(pre, Put(pre, <<Low>> \o [i \in DOMAIN bytes |-> Cmd(1, TdiPulses(bytes[i]), rd)]))

\* One header and its bytes; a full buffer is sent, and answered, first.
Chunk(rd, s, bytes) ==
    LET pre == IF s.num + Len(bytes) + 1 > BlasterSize
               THEN LET sent == Flush(s) IN IF rd THEN Take(sent, s.num - 1) ELSE sent
               ELSE s
    IN  Unless(pre, Put(pre, <<Low>> \o [i \in DOMAIN bytes |-> Cmd(1, TdiPulses(bytes[i]), rd)]))

\* The first flush is not checked, and bytes are dropped while TMS is high.
WriteTDI(c, tdi, rd, end) ==
    LET real   == IF end THEN Len(tdi) - 1 ELSE Len(tdi)
        nbyte  == IF c.tms = 0 THEN real \div Octet ELSE 0
        nbit   == real % Octet
        first  == [Flush(Put(c, <<Low>>)) EXCEPT !.err = FALSE]
        chunks == Pieces(Octets(Upto(tdi, Octet * nbyte)), BlasterSize - 1)
        filled == Fold(LAMBDA s, b : Unless(s, Chunk(rd, s, b)), first, chunks)
        bytes  == IF filled.num = 0 \/ filled.err THEN filled
                  ELSE LET sent == Flush(filled) IN IF rd THEN Take(sent, filled.num - 1) ELSE sent
        rest   == SubSeq(tdi, Octet * nbyte + 1, Octet * nbyte + nbit)
        banged == IF nbit = 0 THEN bytes
                  ELSE LET sent == Flush(Put(bytes, [i \in DOMAIN rest |-> Bang(0, rest[i], rd)]))
                       IN  Unless(bytes, IF rd THEN Take(sent, nbit) ELSE sent)
        last   == Put([banged EXCEPT !.tms = 1], <<Bang(1, tdi[Octet * nbyte + nbit + 1], rd)>>)
        lastrx == LET sent == Flush(last) IN IF rd THEN Take(sent, 1) ELSE sent
        mixed  == IF rd /\ nbit = 0 THEN [lastrx EXCEPT !.rx[Len(lastrx.rx)] = Mixed] ELSE lastrx
    IN  IF end THEN Unless(banged, Unless(lastrx, Flush(Put(mixed, <<Low>>)))) ELSE banged

ToggleClk(c, tms, n) ==
    LET Spare(s) == IF s.num = BlasterSize THEN Flush(s) ELSE s
        nbyte  == IF tms = 0 THEN n \div Octet ELSE 0
        start  == IF nbyte > 0 THEN Flush(Put(Spare(c), <<Low>>)) ELSE c
        bytes  == [i \in 1..nbyte |-> ClkPulses(0, Octet)]
        Fill(s, b) == IF s.err THEN s
                      ELSE LET pre == IF s.num + Len(b) + 1 > BlasterSize THEN Flush(s) ELSE s
                           IN  Unless(pre, Put(pre, <<Low>> \o [i \in DOMAIN b |-> Cmd(1, b[i], FALSE)]))
        shifted == Fold(Fill, [start EXCEPT !.err = FALSE], Pieces(bytes, BlasterSize - 1))
        Pulse(s, i) == IF s.err THEN s
                       ELSE LET pre == Room(s) IN Unless(pre, Put(pre, <<Bang(tms, 0, FALSE)>>))
        banged == Fold(Pulse, shifted, [i \in 1..(n - Octet * nbyte) |-> i])
    IN  Unless(banged, [Flush(Put(Spare(banged), <<Low>>)) EXCEPT !.err = FALSE])
=============================================================================
