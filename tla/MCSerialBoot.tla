---------------------------- MODULE MCSerialBoot ----------------------------
(***************************************************************************)
(* Instances of SerialBoot for TLC: a kernel of three blocks, a DTB of one *)
(* and an initramfs of two, with block numbers modulo 2, so that a number  *)
(* comes back within a payload as it does after 256 blocks.                *)
(***************************************************************************)
EXTENDS SerialBoot

ThreePayloads == <<3, 1, 2>>

\* Flaws of packets that leave the target in step with the packets.
PacketFlaws == {"garbled", "silent", "lost"}
\* Flaws of what goes between the packets.
ControlFlaws == {"reply_lost", "ctl_lost", "crc_garbled"}
\* Those that a repetition of the packet repairs.
RepairableFlaws == {"garbled", "lost"}
AllFlaws == PacketFlaws \cup ControlFlaws \cup {"short", "headless"}

\* A silently damaged packet is found by a CRC line that comes through, so it
\* and flaws of control bytes belong to different scenarios; in the last one
\* everything happens, and both sides have to end.
BootScenarios == {RepairableFlaws, PacketFlaws, RepairableFlaws \cup ControlFlaws, AllFlaws}
FlawBounds == [s \in BootScenarios |-> IF s = AllFlaws THEN 3 ELSE 6]
=============================================================================
