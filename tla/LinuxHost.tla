------------------------------ MODULE LinuxHost ------------------------------
(***************************************************************************)
(* The host side of the serial boot: host/boot_linux.py from the moment    *)
(* stage2 has confirmed its Linux mode.  For each payload it waits for a   *)
(* NAK, sends the blocks (xmodem_send), compares the CRC-32 that comes     *)
(* back and answers with a verdict (xmodem_send_verified).                 *)
(***************************************************************************)
EXTENDS LinuxTarget

CONSTANT HOST_RETRY_MAX     \* sends of one block (10)

VARIABLES
    h_pc,       \* prompt, send, await, eot, crc, console, failed
    h_pay,      \* the payload being sent
    h_blk,      \* the block of it
    retries

hostVars == <<h_pc, h_pay, h_blk, retries>>

HostInit == h_pc = "prompt" /\ h_pay = 1 /\ h_blk = 1 /\ retries = 0

Fail == h_pc' = "failed" /\ UNCHANGED <<h_pay, h_blk, retries>>

Out == Head(t2h)
Read == t2h' = Tail(t2h)

\* The wait for a NAK; reset_input_buffer discards what has arrived after it.
Prompted ==
    /\ h_pc = "prompt"
    /\ \E i \in 1 .. Len(t2h) :
         /\ t2h[i].kind = "NAK" /\ \A j \in 1 .. i - 1 : t2h[j].kind # "NAK"
         /\ \E k \in i .. Len(t2h) : t2h' = SubSeq(t2h, k + 1, Len(t2h))
    /\ h_pc' = "send" /\ h_blk' = 1 /\ retries' = 0
    /\ UNCHANGED <<h_pay, h2t, flaws>>

\* No NAK for 15 s, five times the interval in which a receiving target
\* sends one: only when it has stopped.
PromptTimeout ==
    /\ h_pc = "prompt" /\ \A i \in 1 .. Len(t2h) : t2h[i].kind # "NAK"
    /\ t_pc \in {"halt", "boot"}
    /\ Fail /\ UNCHANGED lineVars

SendBlock ==
    /\ h_pc = "send" /\ PutPacket(h_pay, h_blk) /\ h_pc' = "await"
    /\ UNCHANGED <<h_pay, h_blk, retries, t2h>>

\* Another try, or the end of the loop.
Again ==
    \/ retries + 1 < HOST_RETRY_MAX /\ h_pc' = "send" /\ retries' = retries + 1
       /\ UNCHANGED <<h_pay, h_blk>>
    \/ retries + 1 >= HOST_RETRY_MAX /\ Fail

\* The inner loop looks for ACK and NAK only.
BlockAcked ==
    /\ h_pc = "await" /\ t2h # <<>> /\ Out.kind = "ACK" /\ Read
    /\ \/ h_blk < Blocks[h_pay] /\ h_blk' = h_blk + 1 /\ h_pc' = "send"
          /\ retries' = 0 /\ UNCHANGED <<h2t, flaws>>
       \/ h_blk = Blocks[h_pay] /\ PutByte("EOT") /\ h_pc' = "eot"
          /\ UNCHANGED <<h_blk, retries>>
    /\ UNCHANGED h_pay
BlockRefused ==
    /\ h_pc = "await" /\ t2h # <<>> /\ Out.kind = "NAK" /\ Read /\ Again
    /\ UNCHANGED <<h2t, flaws>>
BlockTimeout ==
    /\ h_pc = "await" /\ t2h = <<>> /\ Again /\ UNCHANGED lineVars

EotAcked ==
    /\ h_pc = "eot" /\ t2h # <<>> /\ Out.kind = "ACK" /\ Read /\ h_pc' = "crc"
    /\ UNCHANGED <<h_pay, h_blk, retries, h2t, flaws>>
EotTimeout == h_pc = "eot" /\ t2h = <<>> /\ Fail /\ UNCHANGED lineVars

\* Mutant: a NAK that comes before the ACK of the EOT ends the transfer.
SkipOrFail ==
    /\ t2h # <<>> /\ Read /\ UNCHANGED <<h2t, flaws>>
    /\ \/ h_pc = "await" /\ Out.kind \notin {"ACK", "NAK"} /\ UNCHANGED hostVars
       \/ h_pc = "eot" /\ Out.kind # "ACK" /\ Fail
       \/ h_pc = "crc" /\ Out.kind # "CRC" /\ UNCHANGED hostVars

\* Bytes the loops read and do nothing with.
Skip ==
    /\ t2h # <<>> /\ Read
    /\ \/ h_pc = "await" /\ Out.kind \notin {"ACK", "NAK"}
       \/ h_pc = "eot" /\ Out.kind # "ACK"
       \/ h_pc = "crc" /\ Out.kind # "CRC"
    /\ UNCHANGED <<hostVars, h2t, flaws>>

\* xmodem_send_verified returned True: the next payload, or the console.
Success ==
    \/ /\ h_pay < Len(Blocks) /\ h_pc' = "prompt"
       /\ h_pay' = h_pay + 1 /\ h_blk' = 1 /\ retries' = 0
    \/ /\ h_pay = Len(Blocks) /\ h_pc' = "console"
       /\ UNCHANGED <<h_pay, h_blk, retries>>

Verdict ==
    /\ h_pc = "crc" /\ t2h # <<>> /\ Out.kind = "CRC" /\ Read
    /\ \/ /\ Out.flaw = "none" /\ Out.data = Sent(h_pay)
          /\ PutByte("ACK") /\ Success
       \/ /\ Out.flaw = "none" /\ Out.data # Sent(h_pay)
          /\ PutByte("NAK") /\ Fail
       \/ /\ Out.flaw = "garbled"           \* a wrong value, or not a number
          /\ \/ PutByte("NAK") /\ Fail
             \/ UNCHANGED <<h2t, flaws>> /\ Success
\* No CRC for 30 s: proceed.
CrcTimeout == h_pc = "crc" /\ t2h = <<>> /\ Success /\ UNCHANGED lineVars

HostStep == \/ Prompted \/ SendBlock \/ BlockAcked \/ BlockRefused \/ EotAcked
            \/ Skip \/ Verdict
HostTimeout == PromptTimeout \/ BlockTimeout \/ EotTimeout \/ CrcTimeout

=============================================================================
