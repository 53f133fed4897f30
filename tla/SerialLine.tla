----------------------------- MODULE SerialLine -----------------------------
(***************************************************************************)
(* The serial line between the host scripts and the stage2 loader, as the  *)
(* two ends see it: first in, first out in each direction, and bytes may   *)
(* be lost or garbled.  What happens to a piece of data is chosen when it  *)
(* is sent, a bounded number of times.  A boot meets the flaws of one      *)
(* scenario only, so that a property can hold under some that go together. *)
(*                                                                         *)
(* An XMODEM packet is one item of the line.  Its flaws are told apart by  *)
(* what the receiver makes of them:                                        *)
(*   garbled   a byte of it is wrong and the checksum shows it             *)
(*   silent    bytes of it are wrong and the 8-bit checksum still fits     *)
(*   short     a byte after the SOH is missing                             *)
(*   headless  the SOH is missing or wrong                                 *)
(*   lost      nothing of it arrives                                       *)
(* A control byte (EOT, ACK, NAK, CAN) and the CRC line can be lost, and   *)
(* the CRC line can be unreadable.                                         *)
(***************************************************************************)
EXTENDS Integers, Sequences

CONSTANTS
    Scenarios,      \* sets of flaws that may happen in one boot
    MAX_FLAWS       \* bound: how many do, for each of them

VARIABLES
    scenario,       \* the flaws of this boot
    h2t, t2h,       \* in flight from the host to the target, and back
    flaws           \* how many flaws have happened

lineVars == <<h2t, t2h, flaws>>

Packet(p, b, f) == [kind |-> "packet", pay |-> p, blk |-> b, flaw |-> f]
Ctl(k) == [kind |-> k, pay |-> 0, blk |-> 0, flaw |-> "none"]
\* The rest of a packet whose beginning was taken for something else.
Junk == Ctl("junk")

\* A byte of the target; the CRC line is another kind of item.
Byte(k) == [kind |-> k, data |-> <<>>, flaw |-> "none"]

\* Stage2 has sent the NAK that opens its first transfer.
LineInit == /\ scenario \in Scenarios
            /\ h2t = <<>> /\ t2h = <<Byte("NAK")>> /\ flaws = 0

MayFail(f) == f \in scenario /\ flaws < MAX_FLAWS[scenario]

PutPacket(p, b) ==
    \/ h2t' = Append(h2t, Packet(p, b, "none")) /\ UNCHANGED flaws
    \/ \E f \in {"garbled", "silent", "short", "headless"} :
         /\ MayFail(f) /\ flaws' = flaws + 1
         /\ h2t' = Append(h2t, Packet(p, b, f))
    \/ MayFail("lost") /\ flaws' = flaws + 1 /\ UNCHANGED h2t

PutByte(k) ==
    \/ h2t' = Append(h2t, Ctl(k)) /\ UNCHANGED flaws
    \/ MayFail("ctl_lost") /\ flaws' = flaws + 1 /\ UNCHANGED h2t

\* What the target sends is a sequence of items; a flaw loses one of them.
ReplyAll(s) ==
    \/ t2h' = t2h \o s /\ UNCHANGED flaws
    \/ /\ MayFail("reply_lost") /\ flaws' = flaws + 1
       /\ \E i \in 1 .. Len(s) :
            t2h' = t2h \o SubSeq(s, 1, i - 1) \o SubSeq(s, i + 1, Len(s))
=============================================================================
