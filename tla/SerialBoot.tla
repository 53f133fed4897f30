----------------------------- MODULE SerialBoot -----------------------------
(***************************************************************************)
(* Host and target together, over a line that loses and garbles bytes.     *)
(*                                                                         *)
(* Timers.  An answer takes milliseconds and a timer seconds, so a timer   *)
(* expires only when nothing is in flight that would stop it.  The         *)
(* target's 3 s timer can expire at most once while the host waits 3 s for *)
(* the answer to a block or 5 s for that to the EOT; when both have waited *)
(* 3 s in vain, the target may expire before or after the host sends       *)
(* again.  While the host waits for a prompt (15 s) or a CRC (30 s) the    *)
(* target's timer may expire as long as the host has not seen what it      *)
(* waits for.  Once the host has stopped nothing holds the timer back.     *)
(***************************************************************************)
EXTENDS LinuxHost

vars == <<scenario, lineVars, targetVars, hostVars>>

Init == LineInit /\ TargetInit /\ HostInit

TargetStays == UNCHANGED <<t_pc, t_pay, dest, blk_num, t_retries>>

HostActs == /\ HostStep
            /\ t_waits' = (h_pc # h_pc' /\ h_pc' \in {"await", "eot"})
            /\ TargetStays /\ UNCHANGED scenario
TargetActs == TargetStep /\ UNCHANGED <<hostVars, t_waits, scenario>>
HostExpires == /\ HostTimeout /\ (h2t = <<>> \/ t_pc \in {"boot", "halt"})
               /\ TargetStays /\ UNCHANGED <<t_waits, scenario>>
TargetExpires == /\ TargetTimeout
                 /\ h_pc \in {"send", "await", "eot"} => t_waits
                 /\ h_pc \in {"await", "eot", "crc"} => t2h = <<>>
                 /\ h_pc = "prompt" => \A i \in 1 .. Len(t2h) : t2h[i].kind # "NAK"
                 /\ t_waits' = FALSE /\ UNCHANGED <<hostVars, scenario>>
Over == /\ h_pc \in {"console", "failed"} /\ t_pc \in {"boot", "halt"}
        /\ UNCHANGED vars

Next == HostActs \/ TargetActs \/ HostExpires \/ TargetExpires \/ Over

Spec == /\ Init /\ [][Next]_vars
        /\ WF_vars(HostActs) /\ WF_vars(TargetActs)
        /\ WF_vars(HostExpires) /\ WF_vars(TargetExpires)

-----------------------------------------------------------------------------
\* The flaws of this boot leave the target in step with the packets: it never
\* takes a byte from the middle of a packet for a control byte.
InStep == "short" \notin scenario /\ "headless" \notin scenario

\* Damage that a checksum does not show comes only where no answer is lost, so
\* that the CRC-32 finds it.
Detectable ==
    "silent" \in scenario =>
        "ctl_lost" \notin scenario /\ "reply_lost" \notin scenario /\ "crc_garbled" \notin scenario

InOrder ==
    \A p \in Payload : \A i \in 1 .. Len(dest[p]) :
        dest[p][i].pay = p /\ dest[p][i].blk = i

\* What is stored for a payload is a beginning of it, block by block: no block
\* is skipped, stored twice or taken from another payload, whatever is lost or
\* refused and repeated (silent damage of a block apart).
StoredInOrder == InStep => InOrder

\* The host never goes on past a block that the target has not stored, and
\* takes the EOT for acknowledged only when all of them are.
AckedIsStored == InStep =>
    /\ h_pc \in {"send", "await"} => Len(dest[h_pay]) >= h_blk - 1
    /\ h_pc \in {"eot", "crc"} => Len(dest[h_pay]) = Blocks[h_pay]

Intact == \A p \in Payload : dest[p] = Sent(p)

\* boot_linux.py:8-11, each payload "CRC-32 verify", then "Stage2 jumps to
\* kernel": the target jumps only to payloads that are what the host has, and
\* the host opens its console only then.
BootVerified == InStep /\ Detectable /\ (t_pc = "boot" \/ h_pc = "console") => Intact

\* Neither side waits for ever for the other.
BothEnd == <>(h_pc \in {"console", "failed"} /\ t_pc \in {"boot", "halt"})

\* With packets only lost or damaged where the checksum shows it, and fewer
\* times than one side gives up, the boot succeeds: late NAKs and blocks sent
\* twice never stop it.
Completes ==
    scenario \subseteq {"garbled", "lost"} =>
        <>(h_pc = "console" /\ t_pc = "boot" /\ Intact)
-----------------------------------------------------------------------------
(* What makes the three invariants inductive.                              *)

StoredBlock == [pay : Payload, blk : Nat, good : BOOLEAN]
HostItem == [kind : {"packet", "EOT", "ACK", "NAK"}, pay : Nat, blk : Nat,
             flaw : {"none", "garbled", "silent"}]
Reply == [kind : {"ACK", "NAK", "CAN", "CRC"}, data : Seq(StoredBlock),
          flaw : {"none", "garbled"}]

TypeOK ==
    /\ scenario \in Scenarios /\ flaws \in Nat
    /\ h2t \in Seq(HostItem) /\ t2h \in Seq(Reply)
    /\ t_pc \in {"recv", "resp", "halt", "boot"} /\ t_pay \in Payload
    /\ dest \in [Payload -> Seq(StoredBlock)]
    /\ blk_num \in Nat /\ t_retries \in Nat /\ t_waits \in BOOLEAN
    /\ h_pc \in {"prompt", "send", "await", "eot", "crc", "console", "failed"}
    /\ h_pay \in Payload /\ h_blk \in Nat /\ retries \in Nat

\* The number the receiver waits for is that of the block after the last one
\* it has stored; payloads it has left are complete, later ones empty.
ReceiverInv ==
    /\ blk_num = (Len(dest[t_pay]) + 1) % BLK_MOD
    /\ \A p \in Payload : p < t_pay => Len(dest[p]) = Blocks[p]
    /\ \A p \in Payload : p > t_pay => dest[p] = <<>>
    /\ t_pc \in {"resp", "boot"} => Len(dest[t_pay]) = Blocks[t_pay]
    /\ t_pc = "boot" => t_pay = Len(Blocks)

OnlyNaks(s) == \A i \in 1 .. Len(s) : s[i].kind \in {"NAK", "CAN"}

\* Both are at the same payload.  What is on its way to the target are packets
\* of the block the host is at and before them such of the block before; after
\* the last of them comes the EOT.
OldOrNew(m) ==
    /\ m.kind = "packet" /\ m.pay = h_pay
    /\ m.blk = h_blk \/ (m.blk = h_blk - 1 /\ Len(dest[h_pay]) = h_blk - 1)
Packets ==
    /\ \A i \in 1 .. Len(h2t) :
         \/ OldOrNew(h2t[i])
         \/ /\ h2t[i].kind = "EOT" /\ i = Len(h2t)
            /\ h_pc = "eot" \/ (h_pc = "failed" /\ t_pc = "halt")
    /\ \A i, j \in 1 .. Len(h2t) :
         i < j /\ h2t[j].kind = "packet" => h2t[i].blk <= h2t[j].blk
Transfer ==
    /\ t_pay = h_pay /\ t_pc \in {"recv", "halt"}
    /\ h_blk \in 1 .. Blocks[h_pay] /\ Len(dest[h_pay]) \in {h_blk - 1, h_blk}
    /\ Packets

\* An ACK on its way to the host is the only one, and its block is stored.
OneAck(s) ==
    /\ \A i \in 1 .. Len(s) : s[i].kind # "CRC"
    /\ \A i, j \in 1 .. Len(s) : s[i].kind = "ACK" /\ s[j].kind = "ACK" => i = j
AckDue == OnlyNaks(t2h) \/ (OneAck(t2h) /\ Len(dest[h_pay]) = h_blk)

\* The target has taken the EOT and sent what is stored.
Answered ==
    /\ t_pay = h_pay /\ t_pc \in {"resp", "boot", "halt"}
    /\ Len(dest[h_pay]) = Blocks[h_pay]
CrcComes(s) ==
    \A i \in 1 .. Len(s) :
        /\ s[i].kind = "CRC" => i = Len(s) /\ s[i].data = dest[h_pay]
        /\ s[i].kind = "ACK" => \A j \in i + 1 .. Len(s) : s[j].kind = "CRC"

\* The target has gone on to the next payload before the host.
Ahead ==
    t_pay = h_pay + 1 /\ t_pc \in {"recv", "halt"} /\ dest[t_pay] = <<>> /\ h2t = <<>>

\* How host and target stand to each other, for each thing the host may do.
AtPrompt ==
    /\ h_blk = 1
    /\ \/ /\ t_pay = h_pay /\ t_pc \in {"recv", "halt"} /\ dest[h_pay] = <<>>
          /\ h2t = <<>> /\ OnlyNaks(t2h)
       \/ /\ t_pay = h_pay - 1 /\ t_pc = "resp" /\ t2h = <<>>
          /\ h2t \in {<<>>, <<Ctl("ACK")>>}
AtBlock == Transfer /\ AckDue
AtEot ==
    \/ /\ Transfer /\ h_blk = Blocks[h_pay] /\ Len(dest[h_pay]) = h_blk
       /\ OnlyNaks(t2h)
    \/ Answered /\ t_pc = "resp" /\ h2t = <<>> /\ CrcComes(t2h)
    \/ Answered /\ t_pc # "resp" /\ h2t = <<>> /\ t2h = <<>>
    \/ Ahead /\ OnlyNaks(t2h)
AtCrc ==
    \/ /\ Answered /\ t_pc = "resp" /\ h2t = <<>> /\ CrcComes(t2h)
       /\ \A i \in 1 .. Len(t2h) : t2h[i].kind = "CRC"
    \/ Answered /\ t_pc # "resp" /\ h2t = <<>> /\ t2h = <<>> /\ h_pay = Len(Blocks)
    \/ Ahead /\ OnlyNaks(t2h)
AtConsole == Answered /\ h_pay = Len(Blocks) /\ h2t \in {<<>>, <<Ctl("ACK")>>}
AtFailed ==
    \/ Transfer
    \/ Answered /\ h2t \in {<<>>, <<Ctl("NAK")>>}
    \/ Ahead
LockStep ==
    /\ h_pc = "prompt" => AtPrompt
    /\ h_pc \in {"send", "await"} => AtBlock
    /\ h_pc = "eot" => AtEot
    /\ h_pc = "crc" => AtCrc
    /\ h_pc = "console" => AtConsole
    /\ h_pc = "failed" => AtFailed

\* Without silent damage every block stored is good.  With it no answer is
\* lost, so that no one goes on before the CRC-32 has been compared.
GoodInv ==
    "silent" \notin scenario =>
        /\ \A p \in Payload : \A i \in 1 .. Len(dest[p]) : dest[p][i].good
        /\ \A i \in 1 .. Len(h2t) : h2t[i].flaw # "silent"
ComparedInv ==
    "silent" \in scenario =>
        /\ t_pay <= h_pay /\ (t_pc = "boot" => h_pc = "console")
        /\ \A p \in Payload : p < h_pay \/ h_pc = "console" => dest[p] = Sent(p)
        /\ t_pay < h_pay => h2t = <<Ctl("ACK")>>
        /\ h_pc = "console" => t_pc = "boot" \/ h2t = <<Ctl("ACK")>>
        /\ h_pc = "eot" /\ t_pay = h_pay /\ t_pc # "recv" =>
             \/ t_pc = "halt" /\ OnlyNaks(t2h)
             \/ /\ Len(t2h) > 1 /\ t2h[Len(t2h) - 1].kind = "ACK"
                /\ t2h[Len(t2h)] = CrcLine(dest[h_pay], "none")
        /\ h_pc = "crc" => t2h = <<CrcLine(dest[h_pay], "none")>> /\ t_pc = "resp"
        /\ h_pc = "failed" /\ t_pc = "resp" => h2t = <<Ctl("NAK")>>

BootInv == /\ ReceiverInv /\ StoredInOrder /\ LockStep
           /\ Detectable => GoodInv /\ ComparedInv
=============================================================================
