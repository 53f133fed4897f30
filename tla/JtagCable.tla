------------------------------ MODULE JtagCable ------------------------------
(* What the cable drivers of openFPGALoader share: each keeps a buffer of      *)
(* commands for its adapter, sends it in one transfer when it is full or when  *)
(* an answer is needed, and reads the answers back.  A command is a record of  *)
(* the bytes it takes in the buffer (n), the clock pulses the adapter makes of *)
(* it (p, pairs of TMS and TDI) and whether the adapter answers with the TDO   *)
(* of those pulses (rd).  The TDO of a pulse is named by the TDI bit that was  *)
(* shifted with it, so that an answer put in the wrong place can be told.      *)
(* The adapters are not part of the repository: they are modelled from the     *)
(* commands the drivers send to them.                                          *)
EXTENDS JtagTap, SequencesExt

(* The buffers of the drivers, in bytes unless said otherwise; their sizes in   *)
(* the code are in the comments.                                               *)
CONSTANTS
    Octet,          \* the bits of a byte: 8
    BlasterSize,    \* UsbBlaster: 64
    MpsseSize,      \* FTDIpp_MPSSE: the packet size of the chip, 64 or 512
    DirtyBits,      \* DirtyJtag: bits of a transfer, 240 to 4000 by version
    DirtySize, DirtyClk, \* DirtyJtag: bytes of a packet and pulses of a CMD_CLK, 64 both
    DapTms,         \* CmsisDAP: levels of TMS in a packet, 256
    DapSeq, DapSize, \* CmsisDAP: bytes of a sequence and of a packet, 8 and 63
    JlinkSize,      \* Jlink: BUF_SIZE, 2048
    EspSize,        \* esp_usb_jtag: OUT_EP_SZ, 64
    Ch347Size,      \* CH347Jtag: MAX_BUFFER, 512
    GwuSize, GwuClk, \* GowinGWU2x: bytes of a transfer and pulses of a command, 256 and 65536
    AnlogicSize,    \* AnlogicCable: pulses of a transfer, 512
    BangSize, BangRead, \* FtdiJtagBitBang: bytes of a write and of a read, 4096 and 256
    RemoteSize,     \* RemoteBitbang_client: _buffer_size, 2048
    XvcSize         \* XVC_client: _buffer_size, half of what the server offers

ASSUME BufferSizes ==
    /\ Octet \in Nat /\ Octet > 2
    /\ BlasterSize \in Nat /\ BlasterSize % 2 = 0 /\ BlasterSize >= 2 * Octet
    /\ MpsseSize \in Nat /\ MpsseSize > 3
    /\ DirtyBits \in Nat /\ DirtyBits > 0 /\ DirtyBits % Octet = 0
    /\ DirtySize \in Nat /\ DirtySize > 9 /\ DirtyClk \in Nat /\ DirtyClk > 0
    /\ DapTms \in Nat /\ DapTms > 0
    /\ DapSeq \in Nat /\ DapSeq > 1 /\ DapSize = 7 * (DapSeq + 1)
    /\ JlinkSize \in Nat /\ JlinkSize > 0
    /\ EspSize \in Nat /\ EspSize > 0
    /\ Ch347Size \in Nat /\ Ch347Size % 2 = 0 /\ Ch347Size >= 4 + 2 * Octet /\ Ch347Size > 12
    /\ GwuSize \in Nat /\ GwuSize > 0 /\ GwuClk \in Nat /\ GwuClk > 0
    /\ AnlogicSize \in Nat /\ AnlogicSize > 0 /\ AnlogicSize % Octet = 0
    /\ BangSize \in Nat /\ BangSize % 2 = 0 /\ BangRead \in Nat
    /\ BangRead >= 2 * Octet /\ BangRead <= BangSize
    /\ RemoteSize \in Nat /\ RemoteSize > 0 /\ RemoteSize % 2 = 0
    /\ XvcSize \in Nat /\ XvcSize > 0

Cmd(n, p, rd) == [n |-> n, p |-> p, rd |-> rd]

\* The pulses of a run of TMS levels, of a run of TDI bits, of n equal levels.
TmsPulses(tms) == [i \in DOMAIN tms |-> <<tms[i], 0>>]
TdiPulses(tdi) == [i \in DOMAIN tdi |-> <<0, tdi[i]>>]
ClkPulses(tms, n) == [i \in 1..n |-> <<tms, 0>>]

From(s, i) == SubSeq(s, i, Len(s))
Upto(s, i) == SubSeq(s, 1, i)
Least(a, b) == IF a < b THEN a ELSE b

(* A cable: the bytes (num) and commands (q) of its buffer, the levels of TMS  *)
(* and TCK it leaves behind, the state an XVC server believes the ports are    *)
(* in (srv); of the call under way the pulses that reached the wire (out), *)
(* the answers not read yet (fifo), the bits stored for the caller (rx), and   *)
(* whether the buffer overflowed (ovf) or an error was met (err); xfers is the *)
(* number of transfers that succeed before one fails.                          *)
NewCable == [num |-> 0, q |-> <<>>, tms |-> 0, tck |-> 0,
             srv |-> "RUN_TEST_IDLE", out |-> <<>>, fifo |-> <<>>, rx |-> <<>>, ovf |-> FALSE, err |-> FALSE, xfers |-> 0]

BeginCall(c, xfers) == [c EXCEPT !.out = <<>>, !.rx = <<>>, !.err = FALSE, !.xfers = xfers]

Pulses(cmds) == Concat([i \in DOMAIN cmds |-> cmds[i].p])
Answers(cmds) == LET r == SelectSeq(cmds, LAMBDA x : x.rd)
                 IN  [i \in DOMAIN r |-> [k \in DOMAIN r[i].p |-> r[i].p[k][2]]]

\* Storing commands in a buffer of size bytes.
Store(c, size, cmds) ==
    LET n == Fold(LAMBDA a, x : a + x.n, c.num, cmds)
    IN  [c EXCEPT !.num = n, !.q = @ \o cmds, !.ovf = @ \/ n > size]

\* A transfer of the whole buffer that succeeds.
Sent(c) == [c EXCEPT !.num = 0, !.q = <<>>, !.out = @ \o Pulses(c.q),
                     !.fifo = @ \o Answers(c.q), !.xfers = @ - 1]

\* What comes next, unless an error ends the method.
Unless(c, next) == IF c.err THEN c ELSE next

\* A transfer of commands that no buffer collects.
Direct(c, size, cmds) ==
    IF c.xfers = 0 THEN [c EXCEPT !.err = TRUE] ELSE Sent(Store(c, size, cmds))

\* Reading n answers: the adapter has sent them, or the read gives nothing.
Take(c, n) ==
    IF Len(c.fifo) < n THEN [c EXCEPT !.err = TRUE]
    ELSE [c EXCEPT !.fifo = From(@, n + 1), !.rx = @ \o Concat(Upto(c.fifo, n))]

\* A sequence cut into pieces of at most k elements; the bytes of a run of bits.
Pieces(s, k) == [i \in 1..((Len(s) + k - 1) \div k) |-> SubSeq(s, k * (i - 1) + 1, Least(k * i, Len(s)))]
Octets(s) == Pieces(s, Octet)

\* A bit that is or'ed into a byte of the caller nobody cleared.
Mixed == -1
==============================================================================
