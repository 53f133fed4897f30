---------------------------- MODULE BitVectorCables ----------------------------
(* The drivers whose adapter takes one vector of bits for TMS and one for TDI. *)
EXTENDS JtagCable

Bit(t, d) == Cmd(1, <<<<t, d>>>>, TRUE)

-------------------------------------------------------------------------------
(* Class Jlink (jlink.cpp): one pair of bit vectors, for TMS and TDI, of        *)
(* BUF_SIZE bytes each; every transfer is answered with the TDO of all its bits *)
(* and a status, and the answer is read at once.  num counts bits.              *)

JlinkFull == JlinkSize * Octet

\* ll_write(): a transfer that cannot be written throws; the bits are kept then.
JlinkLlWrite(c, rd) ==
    IF c.num = 0 THEN c
    ELSE IF c.xfers = 0 THEN [c EXCEPT !.err = TRUE]
    ELSE LET sent == Sent(c)
             got  == Concat(sent.fifo)
         IN  [sent EXCEPT !.fifo = <<>>, !.rx = IF rd THEN @ \o got ELSE @]

JlinkFlush(c) == JlinkLlWrite(c, FALSE)

JlinkWriteTMS(c, tms, now) ==
    LET Level(s, t) == LET pre == IF s.num = JlinkFull THEN JlinkLlWrite(s, FALSE) ELSE s
                       IN  Unless(s, Store([pre EXCEPT !.tms = t], JlinkFull, <<Bit(t, 0)>>))
        all == Fold(Level, c, tms)
    IN  IF now \/ (tms # <<>> /\ all.num = JlinkFull) THEN Unless(all, JlinkFlush(all)) ELSE all

\* TMS stays where the last method left it, but for the last bit.
JlinkWriteTDI(c, tdi, rd, end) ==
    LET start == JlinkFlush(c)
        Level(i) == IF end /\ i = Len(tdi) THEN 1 ELSE start.tms
        bits  == [i \in DOMAIN tdi |-> Bit(Level(i), tdi[i])]
        sent  == Fold(LAMBDA s, b : Unless(s, JlinkLlWrite(Store(s, JlinkFull, b), rd)), start, Pieces(bits, JlinkFull))
    IN  [sent EXCEPT !.tms = IF end THEN 1 ELSE @]

JlinkToggleClk(c, tms, n) ==
    LET start == [JlinkFlush(c) EXCEPT !.tms = tms]
        bits  == [i \in 1..n |-> Bit(tms, 0)]
    IN  Fold(LAMBDA s, b : Unless(s, JlinkLlWrite(Store(s, JlinkFull, b), FALSE)), start, Pieces(bits, JlinkFull))

-------------------------------------------------------------------------------
(* XVC_client (xvc_client.cpp), a cable at the end of a TCP connection, and the  *)
(* XVC_server (xvc_server.cpp) that drives the cable there.  num counts bits.    *)

XvcFull == XvcSize * Octet

\* The state the server follows: a shift state seems to alternate with the
\* capture state before it.
SrvNext(s, t) ==
    CASE s = "SHIFT_DR" /\ t = 0 -> "CAPTURE_DR"
      [] s = "SHIFT_IR" /\ t = 0 -> "CAPTURE_IR"
      [] OTHER                   -> TapNext(s, t)
SrvState(s, p) == Fold(LAMBDA x, y : SrvNext(x, y[1]), s, p)

\* handle_data() of a "shift:" request: two runs of levels, from the states in
\* which a scan has just been left, are dropped.
Dropped(s, p) ==
    LET tms == [i \in DOMAIN p |-> p[i][1]]
    IN  \/ s = "EXIT1_IR" /\ tms = <<1, 1, 1, 0, 1>>
        \/ s = "EXIT1_DR" /\ tms = <<1, 1, 0, 1>>

HandleShift(c) ==
    LET p    == Pulses(c.q)
        sent == Sent(c)
    IN  IF Dropped(c.srv, p) THEN [sent EXCEPT !.out = c.out, !.fifo = <<[i \in DOMAIN p |-> 0]>>]
        ELSE [sent EXCEPT !.srv = SrvState(@, p)]

\* ll_write(): the request and its answer; the bits are kept when it fails.
XvcLlWrite(c, rd) ==
    IF c.num = 0 THEN c
    ELSE IF c.xfers = 0 THEN [c EXCEPT !.err = TRUE]
    ELSE LET done == HandleShift(c)
         IN  [done EXCEPT !.fifo = <<>>, !.rx = IF rd THEN @ \o Concat(done.fifo) ELSE @]

XvcFlush(c) == XvcLlWrite(c, FALSE)

XvcWriteTMS(c, tms, now) ==
    LET Level(s, t) == LET pre == IF s.num = XvcFull THEN XvcLlWrite(s, FALSE) ELSE s
                       IN  Unless(pre, Store([pre EXCEPT !.tms = t], XvcFull, <<Bit(t, 0)>>))
        all == Fold(Level, c, tms)
    IN  IF now \/ (tms # <<>> /\ all.num = XvcFull) THEN Unless(all, XvcFlush(all)) ELSE all

\* A failure throws, but for the one of the flush in front.
Bursts(c, bits, rd) ==
    Fold(LAMBDA s, b : Unless(s, XvcLlWrite(Store(s, XvcFull, b), rd)), c, Pieces(bits, XvcFull))

XvcWriteTDI(c, tdi, rd, end) ==
    LET start == [XvcFlush(c) EXCEPT !.err = FALSE]
        Level(i) == IF end /\ i = Len(tdi) THEN 1 ELSE start.tms
    IN  [Bursts(start, [i \in DOMAIN tdi |-> Bit(Level(i), tdi[i])], rd)
            EXCEPT !.tms = IF end THEN 1 ELSE @]

XvcToggleClk(c, tms, n) ==
    Bursts([XvcFlush(c) EXCEPT !.tms = tms, !.err = FALSE], [i \in 1..n |-> Bit(tms, 0)], FALSE)
===============================================================================
