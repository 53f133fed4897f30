----------------------------- MODULE LinuxTarget -----------------------------
(***************************************************************************)
(* The target side of the serial boot: mode_linux of the stage2 loader     *)
(* (sw/stage2_loader/main.c), which receives kernel, DTB and initramfs one *)
(* after the other by XMODEM, reports a CRC-32 of each and jumps to the    *)
(* kernel.                                                                 *)
(*                                                                         *)
(* What is stored is a sequence of blocks, each with the payload and the   *)
(* block it came from; a payload is intact when it is exactly the blocks   *)
(* the host has.  The CRC line carries the stored sequence: CRC-32 is      *)
(* taken to tell any two apart.                                            *)
(***************************************************************************)
EXTENDS SerialLine

CONSTANTS
    Blocks,             \* number of blocks of each payload, in sending order
    DTB,                \* which of them is the device tree
    BLK_MOD,            \* block numbers are modulo this (256)
    XMODEM_RETRY_MAX

Payload == 1 .. Len(Blocks)

\* No file that is sent is empty, and the block numbers of neighbours differ.
ASSUME BootAssumption ==
    /\ Blocks \in Seq(Nat \ {0}) /\ DTB \in Payload
    /\ BLK_MOD \in Nat /\ BLK_MOD > 1 /\ XMODEM_RETRY_MAX \in Nat

VARIABLES
    t_pc,               \* recv, resp (waiting for the verdict), halt, boot
    t_pay,              \* the payload being received
    dest,               \* what is stored for each payload
    blk_num, t_retries, \* of xmodem_receive
    t_waits             \* its timer has run long enough to expire

targetVars == <<t_pc, t_pay, dest, blk_num, t_retries, t_waits>>

Block(p, b, f) == [pay |-> p, blk |-> b, good |-> f = "none"]
Sent(p) == [b \in 1 .. Blocks[p] |-> Block(p, b, "none")]

CrcLine(d, f) == [kind |-> "CRC", data |-> d, flaw |-> f]

TargetInit ==
    /\ t_pc = "recv" /\ t_pay = 1 /\ dest = [p \in Payload |-> <<>>]
    /\ blk_num = 1 % BLK_MOD /\ t_retries = 0 /\ t_waits = FALSE

-----------------------------------------------------------------------------
(* xmodem_receive, one action for what it makes of the next item.          *)

In == Head(h2t)
Take == h2t' = Tail(h2t)
Receiving == t_pc = "recv" /\ h2t # <<>>

Halt == t_pc' = "halt" /\ UNCHANGED <<t_pay, dest, blk_num, t_retries>>

\* Mutant: the block number is not looked at.
StoreAnyNumber ==
    /\ Receiving /\ In.kind = "packet" /\ In.flaw \in {"none", "silent"}
    /\ dest' = [dest EXCEPT ![t_pay] = Append(@, Block(In.pay, In.blk, In.flaw))]
    /\ blk_num' = (blk_num + 1) % BLK_MOD /\ t_retries' = 0
    /\ Take /\ ReplyAll(<<Byte("ACK")>>)
    /\ UNCHANGED <<t_pc, t_pay>>

\* A packet that is whole, has the number that is due and a fitting checksum.
StoreBlock ==
    /\ Receiving /\ In.kind = "packet" /\ In.flaw \in {"none", "silent"}
    /\ In.blk % BLK_MOD = blk_num
    /\ dest' = [dest EXCEPT ![t_pay] = Append(@, Block(In.pay, In.blk, In.flaw))]
    /\ blk_num' = (blk_num + 1) % BLK_MOD /\ t_retries' = 0
    /\ Take /\ ReplyAll(<<Byte("ACK")>>)
    /\ UNCHANGED <<t_pc, t_pay>>

\* Mutant: the refused packet is answered with ACK.
RefusedIsAcked ==
    /\ Receiving /\ In.kind = "packet" /\ In.flaw \in {"none", "silent", "garbled"}
    /\ In.flaw = "garbled" \/ In.blk % BLK_MOD # blk_num
    /\ t_retries' = t_retries + 1
    /\ Take /\ ReplyAll(<<Byte("ACK")>>)
    /\ UNCHANGED <<t_pc, t_pay, dest, blk_num>>

\* A packet that is whole but has another number or a wrong checksum.
RefuseBlock ==
    /\ Receiving /\ In.kind = "packet" /\ In.flaw \in {"none", "silent", "garbled"}
    /\ In.flaw = "garbled" \/ In.blk % BLK_MOD # blk_num
    /\ t_retries' = t_retries + 1
    /\ Take /\ ReplyAll(<<Byte("NAK")>>)
    /\ UNCHANGED <<t_pc, t_pay, dest, blk_num>>

\* A packet with a byte missing: the 1 s timeout, which does not count, or,
\* when more is on the line, the next item's first byte fills the gap, the
\* checksum is wrong and the rest of that item is junk.
RefuseShort ==
    /\ Receiving /\ In.kind = "packet" /\ In.flaw = "short"
    /\ \/ /\ Len(h2t) = 1
          /\ Take /\ UNCHANGED t_retries
       \/ /\ Len(h2t) > 1 /\ t_retries' = t_retries + 1
          /\ h2t' = IF h2t[2].kind \in {"packet", "junk"}
                    THEN <<Junk>> \o Tail(Tail(h2t)) ELSE Tail(Tail(h2t))
    /\ ReplyAll(<<Byte("NAK")>>)
    /\ UNCHANGED <<t_pc, t_pay, dest, blk_num>>

\* if (c == EOT), and what xmodem_receive_verified does with the size.
EndOfTransfer ==
    /\ IF dest[t_pay] = <<>>
       THEN Halt /\ ReplyAll(<<Byte("ACK")>>)
       ELSE /\ t_pc' = "resp" /\ UNCHANGED <<t_pay, dest, blk_num, t_retries>>
            /\ \/ ReplyAll(<<Byte("ACK"), CrcLine(dest[t_pay], "none")>>)
               \/ /\ MayFail("crc_garbled") /\ flaws' = flaws + 1
                  /\ t2h' = t2h \o <<Byte("ACK"), CrcLine(dest[t_pay], "garbled")>>

TakeEot == Receiving /\ In.kind = "EOT" /\ Take /\ EndOfTransfer

\* Bytes of a packet whose SOH was missed: they are looked at one by one for
\* SOH, EOT and CAN, which are as good as any other payload bytes.
Scan ==
    /\ Receiving
    /\ In.kind = "junk" \/ (In.kind = "packet" /\ In.flaw = "headless")
    /\ \/ /\ Take                           \* none of them
          /\ UNCHANGED <<t2h, flaws, t_pc, t_pay, dest, blk_num, t_retries>>
       \/ /\ Take /\ ReplyAll(<<Byte("NAK")>>)    \* a SOH, and too few bytes follow
          /\ UNCHANGED <<t_pc, t_pay, dest, blk_num, t_retries>>
       \/ /\ \/ Take \/ h2t' = <<Junk>> \o Tail(h2t)
          /\ EndOfTransfer                  \* an EOT
       \/ Take /\ Halt /\ UNCHANGED <<t2h, flaws>>  \* a CAN

\* if (c != SOH) continue: an answer of the host that comes late.
IgnoreByte ==
    /\ Receiving /\ In.kind \in {"ACK", "NAK"} /\ Take
    /\ UNCHANGED <<t2h, flaws, t_pc, t_pay, dest, blk_num, t_retries>>

\* Mutant: a timeout is not counted.
TimeoutNotCounted ==
    /\ t_pc = "recv" /\ h2t = <<>> /\ UNCHANGED h2t
    /\ ReplyAll(<<Byte("NAK")>>)
    /\ UNCHANGED <<t_pc, t_pay, dest, blk_num, t_retries>>

\* Nothing for 3 s.
ReceiveTimeout ==
    /\ t_pc = "recv" /\ h2t = <<>> /\ UNCHANGED h2t
    /\ \/ /\ t_retries + 1 > XMODEM_RETRY_MAX
          /\ ReplyAll(<<Byte("CAN"), Byte("CAN")>>) /\ Halt
       \/ /\ t_retries + 1 <= XMODEM_RETRY_MAX
          /\ t_retries' = t_retries + 1 /\ ReplyAll(<<Byte("NAK")>>)
          /\ UNCHANGED <<t_pc, t_pay, dest, blk_num>>

-----------------------------------------------------------------------------
(* The verdict of the host, and mode_linux.                                *)

\* patch_dtb_initrd_end must find its sentinel exactly once, as it does in the
\* device tree the host has; in a damaged one it may not.
PatchFinds == IF dest[DTB] = Sent(DTB) THEN {TRUE} ELSE BOOLEAN

\* The next payload, or, after the last, the patch of the device tree and the
\* jump to the kernel.
Proceed ==
    \/ /\ t_pay < Len(Blocks)
       /\ t_pay' = t_pay + 1 /\ t_pc' = "recv"
       /\ blk_num' = 1 % BLK_MOD /\ t_retries' = 0 /\ ReplyAll(<<Byte("NAK")>>)
       /\ UNCHANGED dest
    \/ /\ t_pay = Len(Blocks)
       /\ \E found \in PatchFinds : t_pc' = IF found THEN "boot" ELSE "halt"
       /\ UNCHANGED <<t_pay, dest, blk_num, t_retries, t2h, flaws>>

\* Mutant: any answer is as good as an ACK.
VerdictIgnored ==
    /\ t_pc = "resp" /\ h2t # <<>> /\ Proceed
    /\ Take \/ (In.kind \in {"packet", "junk"} /\ h2t' = <<Junk>> \o Tail(h2t))

\* One byte is read: NAK halts, everything else is as good as an ACK.
TakeVerdict ==
    /\ t_pc = "resp" /\ h2t # <<>>
    /\ \/ /\ In.kind = "NAK" /\ Take /\ Halt /\ UNCHANGED <<t2h, flaws>>
       \/ /\ In.kind \in {"ACK", "EOT"} /\ Take /\ Proceed
       \/ /\ In.kind = "packet" /\ In.flaw # "headless"
          /\ h2t' = <<Junk>> \o Tail(h2t) /\ Proceed
       \/ /\ In.kind = "junk" \/ (In.kind = "packet" /\ In.flaw = "headless")
          /\ \/ Take /\ Proceed
             \/ h2t' = <<Junk>> \o Tail(h2t) /\ Proceed
             \/ Take /\ Halt /\ UNCHANGED <<t2h, flaws>>

\* No answer for 5 s: proceed.
VerdictTimeout == t_pc = "resp" /\ h2t = <<>> /\ UNCHANGED h2t /\ Proceed

TargetStep == \/ StoreBlock \/ RefuseBlock \/ RefuseShort \/ TakeEot \/ Scan
              \/ IgnoreByte \/ TakeVerdict
TargetTimeout == ReceiveTimeout \/ VerdictTimeout

=============================================================================
