---------------------------- MODULE SerialProofs ----------------------------
(***************************************************************************)
(* The serial boot: what is stored and what is booted, for any number and  *)
(* size of payloads, any number of flaws, and every block modulus above 1. *)
(* The argument is LockStep: for each thing the host may be doing, where   *)
(* the target is and what can be on the line between them.  The first two  *)
(* sections say what the ends can do in such a state: most of what the     *)
(* target is prepared for cannot happen.                                   *)
(***************************************************************************)
EXTENDS SerialBoot, SequenceTheorems, TLAPS

(* The line.                                                               *)

\* Taking the first item moves the others up by one.
LEMMA TailOf ==
  ASSUME NEW S, NEW s \in Seq(S), s # <<>>
  PROVE  /\ Head(s) = s[1] /\ s[1] \in S /\ Len(s) \in Nat \ {0}
         /\ Tail(s) \in Seq(S) /\ Len(Tail(s)) = Len(s) - 1
         /\ \A i \in 1 .. Len(s) - 1 : Tail(s)[i] = s[i + 1]
  BY HeadTailProperties, EmptySeq

\* The items of the two directions.
LEMMA Items ==
  /\ \A k \in {"ACK", "NAK", "CAN"} : Byte(k) \in Reply /\ Byte(k).kind = k
  /\ \A d \in Seq(StoredBlock), f \in {"none", "garbled"} :
       CrcLine(d, f) \in Reply /\ CrcLine(d, f).kind = "CRC" /\ CrcLine(d, f).data = d
  /\ \A k \in {"EOT", "ACK", "NAK"} :
       Ctl(k) \in HostItem /\ Ctl(k).kind = k /\ Ctl(k).flaw = "none"
  /\ \A p \in Payload, b \in Nat, f \in {"none", "garbled", "silent"} :
       /\ Packet(p, b, f) \in HostItem /\ Packet(p, b, f).kind = "packet"
       /\ Packet(p, b, f).pay = p /\ Packet(p, b, f).blk = b /\ Packet(p, b, f).flaw = f
<1>1. <<>> \in Seq(StoredBlock)
  BY EmptySeq
<1>2. \A p \in Payload : p \in Nat
  BY DEF Payload
<1>3. QED BY <1>1, <1>2 DEF Byte, Reply, CrcLine, Ctl, HostItem, Packet

\* A block on the line, whole or damaged, or nothing of it.
LEMMA PutPacketOutcome ==
  ASSUME InStep, TypeOK, NEW p \in Payload, NEW b \in Nat, PutPacket(p, b)
  PROVE  /\ flaws' \in Nat
         /\ \/ h2t' = h2t
            \/ \E f \in {"none", "garbled", "silent"} :
                 /\ h2t' = Append(h2t, Packet(p, b, f))
                 /\ f = "silent" => "silent" \in scenario
<1>1. "short" \notin scenario /\ "headless" \notin scenario /\ flaws \in Nat
  BY DEF InStep, TypeOK
<1>2. QED BY <1>1 DEF PutPacket, MayFail

\* A control byte of the host, which can be lost.
LEMMA PutByteOutcome ==
  ASSUME TypeOK, NEW k, PutByte(k)
  PROVE  /\ flaws' \in Nat
         /\ h2t' = Append(h2t, Ctl(k)) \/ ("ctl_lost" \in scenario /\ h2t' = h2t)
  BY DEF PutByte, MayFail, TypeOK

\* An answer of one item, which can be lost.
LEMMA ReplyOne ==
  ASSUME TypeOK, NEW x \in Reply, ReplyAll(<<x>>)
  PROVE  /\ flaws' \in Nat
         /\ t2h' = Append(t2h, x) \/ ("reply_lost" \in scenario /\ t2h' = t2h)
<1>1. flaws \in Nat /\ t2h \in Seq(Reply)
  BY DEF TypeOK
<1>2. CASE t2h' = t2h \o <<x>> /\ UNCHANGED flaws
  BY <1>1, <1>2, AppendIsConcat
<1>3. CASE /\ MayFail("reply_lost") /\ flaws' = flaws + 1
           /\ \E i \in 1 .. Len(<<x>>) :
                t2h' = t2h \o SubSeq(<<x>>, 1, i - 1) \o SubSeq(<<x>>, i + 1, Len(<<x>>))
  <2>1. t2h' = t2h \o SubSeq(<<x>>, 1, 0) \o SubSeq(<<x>>, 2, 1)
    <3>1. PICK i \in 1 .. Len(<<x>>) :
            t2h' = t2h \o SubSeq(<<x>>, 1, i - 1) \o SubSeq(<<x>>, i + 1, Len(<<x>>))
      BY <1>3, Zenon
    <3>2. i = 1 /\ i - 1 = 0 /\ i + 1 = 2 /\ Len(<<x>>) = 1
      OBVIOUS
    <3>3. QED BY <3>1, <3>2, Zenon
  <2>2. SubSeq(<<x>>, 1, 0) = <<>> /\ SubSeq(<<x>>, 2, 1) = <<>>
    BY SubSeqEmpty
  <2>3. t2h' = t2h
    BY <2>1, <2>2, <1>1, ConcatEmptySeq
  <2>4. "reply_lost" \in scenario /\ flaws' = flaws + 1
    BY <1>3, Zenon DEF MayFail
  <2>5. QED BY <2>3, <2>4, <1>1
<1>4. QED BY <1>2, <1>3 DEF ReplyAll

\* Two items put at the end of the line.
LEMMA ConcatTwo ==
  ASSUME NEW s \in Seq(Reply), NEW x \in Reply, NEW y \in Reply
  PROVE  /\ <<x, y>> \in Seq(Reply) /\ <<x>> \in Seq(Reply) /\ <<y>> \in Seq(Reply)
         /\ s \o <<x, y>> = Append(Append(s, x), y)
<1>1. <<x>> \in Seq(Reply) /\ <<y>> \in Seq(Reply) /\ <<x, y>> \in Seq(Reply)
  OBVIOUS
<1>2. <<x, y>> = <<x>> \o <<y>>
  <2>1. /\ <<x>> \in Seq(Reply) /\ Len(<<x>>) = 1 /\ <<x>>[1] = x
        /\ <<y>> \in Seq(Reply) /\ Len(<<y>>) = 1 /\ <<y>>[1] = y
        /\ <<x, y>> \in Seq(Reply) /\ Len(<<x, y>>) = 2
        /\ <<x, y>>[1] = x /\ <<x, y>>[2] = y
    OBVIOUS
  <2>2. /\ <<x>> \o <<y>> \in Seq(Reply) /\ Len(<<x>> \o <<y>>) = 2
        /\ (<<x>> \o <<y>>)[1] = x /\ (<<x>> \o <<y>>)[2] = y
    BY <2>1, ConcatProperties
  <2>3. \A i \in 1 .. Len(<<x, y>>) : <<x, y>>[i] = (<<x>> \o <<y>>)[i]
    <3>1. \A i \in 1 .. 2 : i = 1 \/ i = 2
      OBVIOUS
    <3>2. QED BY <2>1, <2>2, <3>1, Zenon
  <2>4. QED BY <2>1, <2>2, <2>3, SeqEqual, Zenon
<1>3. s \o <<x, y>> = (s \o <<x>>) \o <<y>>
  BY <1>1, <1>2, ConcatAssociative
<1>4. s \o <<x>> = Append(s, x) /\ Append(s, x) \in Seq(Reply)
  BY AppendIsConcat, AppendProperties
<1>5. QED BY <1>1, <1>3, <1>4, AppendIsConcat

\* An answer of two, of which one can be lost.
LEMMA ReplyTwo ==
  ASSUME TypeOK, NEW x \in Reply, NEW y \in Reply, ReplyAll(<<x, y>>)
  PROVE  /\ flaws' \in Nat
         /\ \/ t2h' = Append(Append(t2h, x), y)
            \/ "reply_lost" \in scenario /\ t2h' \in {Append(t2h, x), Append(t2h, y)}
<1>1. flaws \in Nat /\ t2h \in Seq(Reply)
  BY DEF TypeOK
<1>2. <<x>> \in Seq(Reply) /\ <<y>> \in Seq(Reply)
  BY <1>1, ConcatTwo
<1>3. CASE t2h' = t2h \o <<x, y>> /\ UNCHANGED flaws
  BY <1>1, <1>3, ConcatTwo
<1>4. CASE /\ MayFail("reply_lost") /\ flaws' = flaws + 1
           /\ \E i \in 1 .. Len(<<x, y>>) :
                t2h' = t2h \o SubSeq(<<x, y>>, 1, i - 1) \o SubSeq(<<x, y>>, i + 1, Len(<<x, y>>))
  <2>1. \/ t2h' = t2h \o SubSeq(<<x, y>>, 1, 0) \o SubSeq(<<x, y>>, 2, 2)
        \/ t2h' = t2h \o SubSeq(<<x, y>>, 1, 1) \o SubSeq(<<x, y>>, 3, 2)
    <3>1. PICK i \in 1 .. Len(<<x, y>>) :
            t2h' = t2h \o SubSeq(<<x, y>>, 1, i - 1) \o SubSeq(<<x, y>>, i + 1, Len(<<x, y>>))
      BY <1>4, Zenon
    <3>2. Len(<<x, y>>) = 2 /\ (i = 1 \/ i = 2)
      OBVIOUS
    <3>3. (i = 1 => i - 1 = 0 /\ i + 1 = 2) /\ (i = 2 => i - 1 = 1 /\ i + 1 = 3)
      OBVIOUS
    <3>4. QED BY <3>1, <3>2, <3>3, Zenon
  <2>2. SubSeq(<<x, y>>, 1, 0) = <<>> /\ SubSeq(<<x, y>>, 3, 2) = <<>>
    BY SubSeqEmpty
  <2>3. SubSeq(<<x, y>>, 2, 2) = <<y>> /\ SubSeq(<<x, y>>, 1, 1) = <<x>>
    <3>1. /\ <<x, y>>[1] = x /\ <<x, y>>[2] = y
          /\ <<x>> \in Seq(Reply) /\ Len(<<x>>) = 1 /\ <<x>>[1] = x
          /\ <<y>> \in Seq(Reply) /\ Len(<<y>>) = 1 /\ <<y>>[1] = y
      OBVIOUS
    <3>2. /\ \A i \in 2 .. 2 : <<x, y>>[i] \in Reply
          /\ \A i \in 1 .. 1 : <<x, y>>[i] \in Reply
      BY <3>1
    <3>3. /\ SubSeq(<<x, y>>, 2, 2) \in Seq(Reply) /\ Len(SubSeq(<<x, y>>, 2, 2)) = 1
          /\ SubSeq(<<x, y>>, 2, 2)[1] = <<x, y>>[2]
      BY <3>2, SubSeqProperties
    <3>4. /\ SubSeq(<<x, y>>, 1, 1) \in Seq(Reply) /\ Len(SubSeq(<<x, y>>, 1, 1)) = 1
          /\ SubSeq(<<x, y>>, 1, 1)[1] = <<x, y>>[1]
      BY <3>2, SubSeqProperties
    <3>5. \A i \in 1 .. 1 : i = 1
      OBVIOUS
    <3>6. /\ \A i \in 1 .. Len(SubSeq(<<x, y>>, 2, 2)) : SubSeq(<<x, y>>, 2, 2)[i] = <<y>>[i]
          /\ \A i \in 1 .. Len(SubSeq(<<x, y>>, 1, 1)) : SubSeq(<<x, y>>, 1, 1)[i] = <<x>>[i]
      BY <3>1, <3>3, <3>4, <3>5, Zenon
    <3>7. SubSeq(<<x, y>>, 2, 2) = <<y>>
      BY <3>1, <3>3, <3>6, SeqEqual, Zenon
    <3>8. SubSeq(<<x, y>>, 1, 1) = <<x>>
      BY <3>1, <3>4, <3>6, SeqEqual, Zenon
    <3>9. QED BY <3>7, <3>8
  <2>4. t2h \o <<>> = t2h /\ (t2h \o <<x>>) \o <<>> = t2h \o <<x>>
    BY <1>1, <1>2, ConcatEmptySeq, ConcatProperties
  <2>5. t2h' \in {Append(t2h, x), Append(t2h, y)}
    BY <2>1, <2>2, <2>3, <2>4, <1>1, AppendIsConcat
  <2>6. "reply_lost" \in scenario /\ flaws' = flaws + 1
    BY <1>4, Zenon DEF MayFail
  <2>7. QED BY <2>5, <2>6, <1>1
<1>5. QED BY <1>3, <1>4 DEF ReplyAll

-----------------------------------------------------------------------------
(* What the target can do.                                                 *)

\* Two neighbouring blocks have different numbers.
LEMMA NumbersDiffer ==
  ASSUME NEW k \in Nat
  PROVE  k % BLK_MOD # (k + 1) % BLK_MOD /\ k % BLK_MOD \in Nat
<1>1. BLK_MOD \in Nat /\ BLK_MOD > 1
  BY BootAssumption
<1>2. ASSUME NEW x \in Nat PROVE x = BLK_MOD * (x \div BLK_MOD) + (x % BLK_MOD)
  BY <1>1
<1>3. k = BLK_MOD * (k \div BLK_MOD) + (k % BLK_MOD)
  BY <1>2
<1>4. k + 1 = BLK_MOD * ((k + 1) \div BLK_MOD) + ((k + 1) % BLK_MOD)
  BY <1>2
<1>5. /\ k \div BLK_MOD \in Int /\ (k + 1) \div BLK_MOD \in Int
      /\ k % BLK_MOD \in Nat /\ (k + 1) % BLK_MOD \in Nat
  BY <1>1
<1> DEFINE q == k \div BLK_MOD
           r == (k + 1) \div BLK_MOD
           u == k % BLK_MOD
           v == (k + 1) % BLK_MOD
           d == r - q
<1>6. k = BLK_MOD * q + u /\ k + 1 = BLK_MOD * r + v /\ q \in Int /\ r \in Int /\ u \in Nat /\ v \in Nat
  BY <1>3, <1>4, <1>5
<1> HIDE DEF q, r, u, v
<1>7. ASSUME u = v PROVE FALSE
  <2>1. BLK_MOD * r = BLK_MOD * q + 1
    BY <1>1, <1>6, <1>7
  <2>2. CASE r <= q
    BY <2>1, <2>2, <1>1, <1>6
  <2>3. CASE r >= q + 1
    <3>1. BLK_MOD * r >= BLK_MOD * (q + 1)
      BY <2>3, <1>1, <1>6
    <3>2. BLK_MOD * (q + 1) = BLK_MOD * q + BLK_MOD
      BY <1>1, <1>6
    <3>3. QED BY <3>1, <3>2, <2>1, <1>1, <1>6
  <2>4. QED BY <2>2, <2>3, <1>6
<1>8. QED BY <1>7, <1>5 DEF u, v

\* The shape of the state, for the steps that follow.
LEMMA Facts ==
  ASSUME TypeOK
  PROVE  /\ h2t \in Seq(HostItem) /\ Len(h2t) \in Nat
         /\ t2h \in Seq(Reply) /\ Len(t2h) \in Nat
         /\ t_pay \in Payload /\ h_pay \in Payload /\ t_pay \in Nat /\ h_pay \in Nat
         /\ Len(Blocks) \in Nat /\ t_pay \in 1 .. Len(Blocks) /\ h_pay \in 1 .. Len(Blocks)
         /\ \A p \in Payload : /\ dest[p] \in Seq(StoredBlock) /\ Len(dest[p]) \in Nat
                               /\ Blocks[p] \in Nat \ {0}
         /\ h_blk \in Nat
<1>1. Blocks \in Seq(Nat \ {0}) /\ Len(Blocks) \in Nat
  BY BootAssumption, LenProperties
<1>2. \A p \in Payload : Blocks[p] \in Nat \ {0}
  BY <1>1, ElementOfSeq DEF Payload
<1>3. \A p \in Payload : dest[p] \in Seq(StoredBlock)
  BY DEF TypeOK
<1>4. \A p \in Payload : Len(dest[p]) \in Nat
  BY <1>3, LenProperties
<1>5. QED BY <1>1, <1>2, <1>3, <1>4, LenProperties DEF TypeOK, Payload

\* A receiving target finds packets of the payload the host is at, or its EOT.
LEMMA RecvItem ==
  ASSUME TypeOK, LockStep, t_pc = "recv", h2t # <<>>
  PROVE  /\ Transfer /\ h_pc \in {"send", "await", "eot", "failed"}
         /\ h_pc = "eot" => Len(dest[h_pay]) = h_blk /\ h_blk = Blocks[h_pay]
         /\ \/ OldOrNew(h2t[1])
            \/ h2t[1].kind = "EOT" /\ Len(h2t) = 1 /\ h_pc = "eot"
<1>1. h2t \in Seq(HostItem) /\ Len(h2t) \in Nat \ {0}
  BY TailOf DEF TypeOK
<1>2. h_pc \in {"prompt", "send", "await", "eot", "crc", "console", "failed"}
  BY DEF TypeOK
<1>3. h_pc \notin {"prompt", "crc", "console"}
  BY DEF LockStep, AtPrompt, AtCrc, AtConsole, Answered, Ahead
<1>4. Transfer
  <2>1. CASE h_pc \in {"send", "await"}
    BY <2>1 DEF LockStep, AtBlock
  <2>2. CASE h_pc = "eot"
    BY <2>2 DEF LockStep, AtEot, Answered, Ahead
  <2>3. CASE h_pc = "failed"
    BY <2>3 DEF LockStep, AtFailed, Answered, Ahead
  <2>4. QED BY <2>1, <2>2, <2>3, <1>2, <1>3
<1>5. \/ OldOrNew(h2t[1])
      \/ h2t[1].kind = "EOT" /\ 1 = Len(h2t) /\ h_pc = "eot"
  <2>1. 1 \in 1 .. Len(h2t)
    BY <1>1
  <2>2. Packets
    BY <1>4 DEF Transfer
  <2>3. QED BY <2>1, <2>2, Zenon DEF Packets
<1>6. h_pc = "eot" => Len(dest[h_pay]) = h_blk /\ h_blk = Blocks[h_pay]
  BY DEF LockStep, AtEot, Answered, Ahead
<1>7. QED BY <1>2, <1>3, <1>4, <1>5, <1>6

\* A target that waits for a verdict finds nothing else.
LEMMA RespItem ==
  ASSUME TypeOK, LockStep, t_pc = "resp", h2t # <<>>
  PROVE  \/ /\ h2t = <<Ctl("ACK")>>
            /\ \/ h_pc = "prompt" /\ t_pay = h_pay - 1 /\ t2h = <<>>
               \/ h_pc = "console"
         \/ h2t = <<Ctl("NAK")>> /\ h_pc = "failed"
<1>1. h_pc \in {"prompt", "send", "await", "eot", "crc", "console", "failed"}
  BY DEF TypeOK
<1>2. h_pc \notin {"send", "await", "eot", "crc"}
  BY DEF LockStep, AtBlock, AtEot, AtCrc, Transfer, Ahead
<1>3. CASE h_pc = "prompt"
  BY <1>3 DEF LockStep, AtPrompt
<1>4. CASE h_pc = "console"
  BY <1>4 DEF LockStep, AtConsole
<1>5. CASE h_pc = "failed"
  BY <1>5 DEF LockStep, AtFailed, Transfer, Ahead
<1>6. QED BY <1>1, <1>2, <1>3, <1>4, <1>5

\* So a step of the target is one of five.
Stores ==
    /\ t_pc = "recv" /\ Transfer /\ h2t # <<>> /\ h_pc \in {"send", "await", "failed"}
    /\ h2t[1].kind = "packet" /\ h2t[1].pay = h_pay /\ h2t[1].blk = h_blk
    /\ h2t[1].flaw \in {"none", "silent"} /\ Len(dest[h_pay]) = h_blk - 1
    /\ dest' = [dest EXCEPT ![h_pay] = Append(@, Block(h_pay, h_blk, h2t[1].flaw))]
    /\ blk_num' = (blk_num + 1) % BLK_MOD /\ t_retries' = 0
    /\ h2t' = Tail(h2t) /\ ReplyAll(<<Byte("ACK")>>) /\ UNCHANGED <<t_pc, t_pay>>
Refuses ==
    /\ t_pc = "recv" /\ Transfer /\ h2t # <<>>
    /\ h_pc \in {"send", "await", "eot", "failed"}
    /\ h2t[1].kind = "packet" /\ t_retries' = t_retries + 1
    /\ h2t' = Tail(h2t) /\ ReplyAll(<<Byte("NAK")>>)
    /\ UNCHANGED <<t_pc, t_pay, dest, blk_num>>
Ends ==
    /\ t_pc = "recv" /\ Transfer /\ h_pc = "eot" /\ h2t # <<>>
    /\ Len(dest[h_pay]) = Blocks[h_pay] /\ h2t' = <<>> /\ t_pc' = "resp"
    /\ UNCHANGED <<t_pay, dest, blk_num, t_retries>>
    /\ \/ ReplyAll(<<Byte("ACK"), CrcLine(dest[h_pay], "none")>>)
       \/ /\ "crc_garbled" \in scenario /\ flaws' = flaws + 1
          /\ t2h' = t2h \o <<Byte("ACK"), CrcLine(dest[h_pay], "garbled")>>
GoesOn ==
    /\ t_pc = "resp" /\ h2t = <<Ctl("ACK")>> /\ h2t' = <<>> /\ Proceed
    /\ (h_pc = "prompt" /\ t_pay = h_pay - 1 /\ t2h = <<>>) \/ h_pc = "console"
Stops ==
    /\ t_pc = "resp" /\ h2t = <<Ctl("NAK")>> /\ h2t' = <<>> /\ h_pc = "failed"
    /\ t_pc' = "halt" /\ UNCHANGED <<t_pay, dest, blk_num, t_retries, t2h, flaws>>

\* Blocks are stored only in their turn; nothing of the target's handling of
\* stray bytes is reached.
LEMMA TargetCases ==
  ASSUME InStep, TypeOK, ReceiverInv, LockStep, TargetStep
  PROVE  Stores \/ Refuses \/ Ends \/ GoesOn \/ Stops
<1>0. h2t # <<>> => /\ h2t[1] \in HostItem /\ In = h2t[1] /\ Len(h2t) \in Nat \ {0}
                    /\ h2t[1].kind \in {"packet", "EOT", "ACK", "NAK"}
                    /\ h2t[1].flaw \in {"none", "garbled", "silent"}
                    /\ h2t[1].kind # "junk" /\ h2t[1].flaw # "short" /\ h2t[1].flaw # "headless"
  <2>1. SUFFICES ASSUME h2t # <<>>
                 PROVE  h2t[1] \in HostItem /\ In = h2t[1] /\ Len(h2t) \in Nat \ {0}
    BY DEF HostItem
  <2>2. QED BY <2>1, TailOf DEF In, TypeOK
<1>1. CASE StoreBlock
  <2>1. /\ t_pc = "recv" /\ h2t # <<>> /\ h2t[1].kind = "packet"
        /\ h2t[1].flaw \in {"none", "silent"} /\ h2t[1].blk % BLK_MOD = blk_num
        /\ dest' = [dest EXCEPT ![t_pay] = Append(@, Block(h2t[1].pay, h2t[1].blk, h2t[1].flaw))]
        /\ blk_num' = (blk_num + 1) % BLK_MOD /\ t_retries' = 0
        /\ h2t' = Tail(h2t) /\ ReplyAll(<<Byte("ACK")>>) /\ UNCHANGED <<t_pc, t_pay>>
    BY <1>0, <1>1 DEF StoreBlock, Receiving, Take
  <2>2. /\ Transfer /\ OldOrNew(h2t[1]) /\ h_pc \in {"send", "await", "eot", "failed"}
        /\ h_pc = "eot" => Len(dest[h_pay]) = h_blk
    BY <2>1, RecvItem
  <2>3. t_pay = h_pay /\ blk_num = (Len(dest[h_pay]) + 1) % BLK_MOD
    BY <2>2 DEF Transfer, ReceiverInv
  <2>4. /\ h2t[1].pay = h_pay
        /\ h2t[1].blk = h_blk \/ (h2t[1].blk = h_blk - 1 /\ Len(dest[h_pay]) = h_blk - 1)
        /\ Len(dest[h_pay]) \in {h_blk - 1, h_blk} /\ h_blk \in Nat /\ h_blk >= 1
    BY <2>2, Facts DEF OldOrNew, Transfer
  <2>5. h_blk - 1 \in Nat /\ h_blk - 1 + 1 = h_blk
    BY <2>4
  <2>6. /\ (h_blk - 1) % BLK_MOD # h_blk % BLK_MOD
        /\ h_blk % BLK_MOD # (h_blk + 1) % BLK_MOD
    BY <2>4, <2>5, NumbersDiffer
  <2>7. h2t[1].blk = h_blk /\ Len(dest[h_pay]) = h_blk - 1
    BY <2>1, <2>3, <2>4, <2>5, <2>6
  <2>8. h_pc # "eot"
    BY <2>2, <2>7, <2>4
  <2>9. Stores
    BY <2>1, <2>2, <2>3, <2>4, <2>7, <2>8 DEF Stores
  <2>10. QED BY <2>9
<1>2. CASE RefuseBlock
  <2>1. t_pc = "recv" /\ h2t # <<>> /\ h2t[1].kind = "packet"
    BY <1>0, <1>2 DEF RefuseBlock, Receiving
  <2>2. Transfer /\ h_pc \in {"send", "await", "eot", "failed"}
    BY <2>1, RecvItem
  <2>3. Refuses
    BY <2>1, <2>2, <1>2 DEF Refuses, RefuseBlock, Take
  <2>4. QED BY <2>3
<1>3. CASE RefuseShort
  BY <1>0, <1>3 DEF RefuseShort, Receiving
<1>4. CASE TakeEot
  <2>1. t_pc = "recv" /\ h2t # <<>> /\ h2t[1].kind = "EOT" /\ h2t' = Tail(h2t) /\ EndOfTransfer
    BY <1>0, <1>4 DEF TakeEot, Receiving, Take
  <2>2. ~OldOrNew(h2t[1])
    BY <2>1 DEF OldOrNew
  <2>3. /\ Transfer /\ h_pc = "eot" /\ Len(h2t) = 1
        /\ Len(dest[h_pay]) = h_blk /\ h_blk = Blocks[h_pay]
    BY <2>1, <2>2, RecvItem
  <2>4. t_pay = h_pay /\ dest[h_pay] \in Seq(StoredBlock) /\ Blocks[h_pay] \in Nat \ {0}
    BY <2>3, Facts DEF Transfer
  <2>5. dest[t_pay] # <<>>
    BY <2>3, <2>4, EmptySeq
  <2>6. h2t' = <<>>
    BY <2>1, <2>3, TailOf, EmptySeq DEF TypeOK
  <2>7. /\ t_pc' = "resp" /\ UNCHANGED <<t_pay, dest, blk_num, t_retries>>
        /\ \/ ReplyAll(<<Byte("ACK"), CrcLine(dest[h_pay], "none")>>)
           \/ /\ MayFail("crc_garbled") /\ flaws' = flaws + 1
              /\ t2h' = t2h \o <<Byte("ACK"), CrcLine(dest[h_pay], "garbled")>>
    BY <2>1, <2>4, <2>5 DEF EndOfTransfer
  <2>8. Ends
    BY <2>1, <2>3, <2>6, <2>7 DEF Ends, MayFail
  <2>9. QED BY <2>8
<1>5. CASE Scan
  BY <1>0, <1>5 DEF Scan, Receiving
<1>6. CASE IgnoreByte
  <2>1. t_pc = "recv" /\ h2t # <<>> /\ h2t[1].kind \in {"ACK", "NAK"}
    BY <1>0, <1>6 DEF IgnoreByte, Receiving
  <2>2. ~OldOrNew(h2t[1]) /\ h2t[1].kind # "EOT"
    BY <2>1 DEF OldOrNew
  <2>3. QED BY <2>1, <2>2, RecvItem
<1>7. CASE TakeVerdict
  <2>1. t_pc = "resp" /\ h2t # <<>>
    BY <1>7 DEF TakeVerdict
  <2>2. \/ /\ h2t = <<Ctl("ACK")>>
           /\ \/ h_pc = "prompt" /\ t_pay = h_pay - 1 /\ t2h = <<>>
              \/ h_pc = "console"
        \/ h2t = <<Ctl("NAK")>> /\ h_pc = "failed"
    BY <2>1, RespItem
  <2>3. CASE h2t = <<Ctl("ACK")>>
    <3>1. h2t[1] = Ctl("ACK") /\ Ctl("ACK").kind = "ACK" /\ Len(h2t) = 1
      BY <2>3, Items
    <3>2. h2t' = Tail(h2t) /\ Proceed
      BY <3>1, <1>0, <1>7 DEF TakeVerdict, Take
    <3>3. h2t' = <<>>
      BY <3>1, <3>2, <2>1, TailOf, EmptySeq DEF TypeOK
    <3>4. Ctl("ACK").kind # Ctl("NAK").kind
      BY Items
    <3>5. h2t # <<Ctl("NAK")>>
      BY <3>1, <3>4
    <3>6. GoesOn
      BY <2>1, <2>2, <2>3, <3>2, <3>3, <3>5 DEF GoesOn
    <3>7. QED BY <3>6
  <2>4. CASE h2t = <<Ctl("NAK")>> /\ h_pc = "failed"
    <3>1. h2t[1] = Ctl("NAK") /\ Ctl("NAK").kind = "NAK" /\ Len(h2t) = 1
      BY <2>4, Items
    <3>2. h2t' = Tail(h2t) /\ Halt /\ UNCHANGED <<t2h, flaws>>
      BY <3>1, <1>0, <1>7 DEF TakeVerdict, Take
    <3>3. h2t' = <<>>
      BY SMTT(30), <3>1, <3>2, <2>1, TailOf, EmptySeq DEF TypeOK
    <3>4. Stops
      BY <2>1, <2>4, <3>2, <3>3 DEF Stops, Halt
    <3>5. QED BY <3>4
  <2>5. QED BY <2>2, <2>3, <2>4
<1>8. QED BY <1>1, <1>2, <1>3, <1>4, <1>5, <1>6, <1>7 DEF TargetStep

-----------------------------------------------------------------------------
(* Types.                                                                  *)

\* What the target stores, sends and counts.
LEMMA TargetTypeStep ==
  ASSUME InStep, TypeOK, ReceiverInv, LockStep, TargetStep \/ TargetTimeout
  PROVE  /\ h2t' \in Seq(HostItem) /\ t2h' \in Seq(Reply) /\ flaws' \in Nat
         /\ t_pc' \in {"recv", "resp", "halt", "boot"} /\ t_pay' \in Payload
         /\ dest' \in [Payload -> Seq(StoredBlock)]
         /\ blk_num' \in Nat /\ t_retries' \in Nat
<1>t. /\ h2t \in Seq(HostItem) /\ t2h \in Seq(Reply) /\ flaws \in Nat
      /\ t_pc \in {"recv", "resp", "halt", "boot"} /\ t_pay \in Payload
      /\ dest \in [Payload -> Seq(StoredBlock)]
      /\ blk_num \in Nat /\ t_retries \in Nat /\ h_pay \in Payload /\ h_blk \in Nat
  BY DEF TypeOK
<1>e. <<>> \in Seq(HostItem)
  BY EmptySeq
<1>n. /\ Byte("NAK") \in Reply /\ Byte("ACK") \in Reply /\ Byte("CAN") \in Reply
      /\ Append(t2h, Byte("NAK")) \in Seq(Reply) /\ Append(t2h, Byte("ACK")) \in Seq(Reply)
      /\ Append(t2h, Byte("CAN")) \in Seq(Reply)
  BY <1>t, Items, AppendProperties
<1>m. \A x \in Nat : x % BLK_MOD \in Nat
  BY BootAssumption
<1>1. CASE Stores
  <2>1. h2t' \in Seq(HostItem)
    BY <1>1, <1>t, TailOf DEF Stores
  <2>2. t2h' \in Seq(Reply) /\ flaws' \in Nat
    BY <1>1, <1>n, <1>t, ReplyOne DEF Stores
  <2>3. Block(h_pay, h_blk, h2t[1].flaw) \in StoredBlock
    BY <1>t DEF Block, StoredBlock
  <2>4. Append(dest[h_pay], Block(h_pay, h_blk, h2t[1].flaw)) \in Seq(StoredBlock)
    BY <1>t, <2>3, AppendProperties
  <2>5. dest' \in [Payload -> Seq(StoredBlock)]
    BY <1>1, <1>t, <2>4 DEF Stores
  <2>6. QED BY <1>1, <2>1, <2>2, <2>5, <1>t, <1>m DEF Stores
<1>2. CASE Refuses
  <2>1. h2t' \in Seq(HostItem)
    BY <1>2, <1>t, TailOf DEF Refuses
  <2>2. t2h' \in Seq(Reply) /\ flaws' \in Nat
    BY <1>2, <1>n, <1>t, ReplyOne DEF Refuses
  <2>3. QED BY <1>2, <2>1, <2>2, <1>t DEF Refuses
<1>3. CASE Ends
  <2>1. t2h' \in Seq(Reply) /\ flaws' \in Nat
    <3>1. dest[h_pay] \in Seq(StoredBlock)
      BY <1>t
    <3>2. CrcLine(dest[h_pay], "none") \in Reply /\ CrcLine(dest[h_pay], "garbled") \in Reply
      BY <3>1, Items
    <3>3. /\ Append(t2h, CrcLine(dest[h_pay], "none")) \in Seq(Reply)
          /\ Append(Append(t2h, Byte("ACK")), CrcLine(dest[h_pay], "none")) \in Seq(Reply)
      BY <3>2, <1>n, <1>t, AppendProperties
    <3>4. CASE ReplyAll(<<Byte("ACK"), CrcLine(dest[h_pay], "none")>>)
      BY <3>2, <3>3, <3>4, <1>n, ReplyTwo
    <3>5. CASE /\ flaws' = flaws + 1
               /\ t2h' = t2h \o <<Byte("ACK"), CrcLine(dest[h_pay], "garbled")>>
      <4>1. <<Byte("ACK"), CrcLine(dest[h_pay], "garbled")>> \in Seq(Reply)
        BY <3>2, <1>n
      <4>2. QED BY <4>1, <3>5, <1>t, ConcatProperties
    <3>6. QED BY <3>4, <3>5, <1>3 DEF Ends
  <2>2. QED BY <1>3, <2>1, <1>t, <1>e DEF Ends
<1>4. ASSUME Proceed
      PROVE  /\ t2h' \in Seq(Reply) /\ flaws' \in Nat
             /\ t_pc' \in {"recv", "resp", "halt", "boot"} /\ t_pay' \in Payload
             /\ dest' = dest /\ blk_num' \in Nat /\ t_retries' \in Nat
  <2>1. CASE /\ t_pay < Len(Blocks) /\ t_pay' = t_pay + 1 /\ t_pc' = "recv"
             /\ blk_num' = 1 % BLK_MOD /\ t_retries' = 0 /\ ReplyAll(<<Byte("NAK")>>)
             /\ UNCHANGED dest
    <3>1. t2h' \in Seq(Reply) /\ flaws' \in Nat
      BY <2>1, <1>n, <1>t, ReplyOne
    <3>2. t_pay' \in Payload
      BY <2>1, Facts DEF Payload
    <3>3. QED BY <2>1, <3>1, <3>2, <1>m
  <2>2. CASE /\ t_pay = Len(Blocks)
             /\ \E found \in PatchFinds : t_pc' = IF found THEN "boot" ELSE "halt"
             /\ UNCHANGED <<t_pay, dest, blk_num, t_retries, t2h, flaws>>
    BY <2>2, <1>t
  <2>3. QED BY <1>4, <2>1, <2>2 DEF Proceed
<1>5. CASE GoesOn
  BY <1>5, <1>4, <1>t, <1>e DEF GoesOn
<1>6. CASE Stops
  BY <1>6, <1>t, <1>e DEF Stops
<1>7. CASE ReceiveTimeout
  <2>1. CASE ReplyAll(<<Byte("CAN"), Byte("CAN")>>) /\ Halt /\ UNCHANGED h2t
    <3>1. Append(Append(t2h, Byte("CAN")), Byte("CAN")) \in Seq(Reply)
      BY <1>n, AppendProperties
    <3>2. t2h' \in Seq(Reply) /\ flaws' \in Nat
      BY <2>1, <3>1, <1>n, ReplyTwo
    <3>3. QED BY <2>1, <3>2, <1>t DEF Halt
  <2>2. CASE /\ t_retries' = t_retries + 1 /\ ReplyAll(<<Byte("NAK")>>)
             /\ UNCHANGED <<h2t, t_pc, t_pay, dest, blk_num>>
    <3>1. t2h' \in Seq(Reply) /\ flaws' \in Nat
      BY <2>2, <1>n, <1>t, ReplyOne
    <3>2. QED BY <2>2, <3>1, <1>t
  <2>3. QED BY <1>7, <2>1, <2>2 DEF ReceiveTimeout
<1>8. CASE VerdictTimeout
  BY <1>8, <1>4, <1>t DEF VerdictTimeout
<1>9. QED BY <1>1, <1>2, <1>3, <1>5, <1>6, <1>7, <1>8, TargetCases DEF TargetTimeout

\* What the host sends and counts.
LEMMA HostTypeStep ==
  ASSUME InStep, TypeOK, HostStep \/ HostTimeout
  PROVE  /\ h2t' \in Seq(HostItem) /\ t2h' \in Seq(Reply) /\ flaws' \in Nat
         /\ h_pc' \in {"prompt", "send", "await", "eot", "crc", "console", "failed"}
         /\ h_pay' \in Payload /\ h_blk' \in Nat /\ retries' \in Nat
<1>t. /\ h2t \in Seq(HostItem) /\ t2h \in Seq(Reply) /\ flaws \in Nat
      /\ h_pc \in {"prompt", "send", "await", "eot", "crc", "console", "failed"}
      /\ h_pay \in Payload /\ h_blk \in Nat /\ retries \in Nat
  BY DEF TypeOK
<1>r. t2h # <<>> => Tail(t2h) \in Seq(Reply)
  BY <1>t, TailOf
<1>b. ASSUME NEW k \in {"EOT", "ACK", "NAK"}, PutByte(k)
      PROVE  h2t' \in Seq(HostItem) /\ flaws' \in Nat
  <2>1. Append(h2t, Ctl(k)) \in Seq(HostItem)
    BY <1>t, Items, AppendProperties
  <2>2. QED BY <2>1, <1>b, <1>t, PutByteOutcome
<1>s. ASSUME Success
      PROVE  /\ h_pc' \in {"prompt", "console"}
             /\ h_pay' \in Payload /\ h_blk' \in Nat /\ retries' \in Nat
  BY <1>s, <1>t, Facts DEF Success, Payload
<1>f. ASSUME Fail
      PROVE  h_pc' = "failed" /\ h_pay' \in Payload /\ h_blk' \in Nat /\ retries' \in Nat
  BY <1>f, <1>t DEF Fail
<1>a. ASSUME Again
      PROVE  /\ h_pc' \in {"send", "failed"}
             /\ h_pay' \in Payload /\ h_blk' \in Nat /\ retries' \in Nat
  BY <1>a, <1>t DEF Again, Fail
<1>1. CASE Prompted
  <2>1. PICK i \in 1 .. Len(t2h) : \E k \in i .. Len(t2h) : t2h' = SubSeq(t2h, k + 1, Len(t2h))
    BY <1>1, Zenon DEF Prompted
  <2>2. PICK k \in i .. Len(t2h) : t2h' = SubSeq(t2h, k + 1, Len(t2h))
    BY <2>1, Zenon
  <2>3. \A j \in k + 1 .. Len(t2h) : t2h[j] \in Reply
    BY <1>t, Facts, ElementOfSeq
  <2>4. k + 1 \in Int /\ Len(t2h) \in Int
    BY Facts
  <2>5. t2h' \in Seq(Reply)
    BY <2>2, <2>3, <2>4, SubSeqProperties
  <2>6. h_pc' = "send" /\ h_blk' = 1 /\ retries' = 0 /\ UNCHANGED <<h_pay, h2t, flaws>>
    BY <1>1 DEF Prompted
  <2>7. QED BY <2>5, <2>6, <1>t
<1>2. CASE SendBlock
  <2>1. PutPacket(h_pay, h_blk) /\ h_pc' = "await" /\ UNCHANGED <<h_pay, h_blk, retries, t2h>>
    BY <1>2 DEF SendBlock
  <2>2. \A f \in {"none", "garbled", "silent"} :
          Append(h2t, Packet(h_pay, h_blk, f)) \in Seq(HostItem)
    BY <1>t, Items, AppendProperties
  <2>3. h2t' \in Seq(HostItem) /\ flaws' \in Nat
    BY <2>1, <2>2, <1>t, PutPacketOutcome
  <2>4. QED BY <2>1, <2>3, <1>t
<1>3. CASE BlockAcked
  BY <1>3, <1>b, <1>r, <1>t DEF BlockAcked, Read
<1>4. CASE BlockRefused
  BY <1>4, <1>a, <1>r, <1>t DEF BlockRefused, Read
<1>5. CASE EotAcked
  BY <1>5, <1>r, <1>t DEF EotAcked, Read
<1>6. CASE Skip
  BY <1>6, <1>r, <1>t DEF Skip, Read, hostVars
<1>7. CASE Verdict
  BY <1>7, <1>b, <1>s, <1>f, <1>r, <1>t DEF Verdict, Read
<1>8. CASE PromptTimeout \/ EotTimeout
  BY <1>8, <1>f, <1>t DEF PromptTimeout, EotTimeout, lineVars
<1>9. CASE BlockTimeout
  BY <1>9, <1>a, <1>t DEF BlockTimeout, lineVars
<1>10. CASE CrcTimeout
  BY <1>10, <1>s, <1>t DEF CrcTimeout, lineVars
<1>11. QED BY <1>1, <1>2, <1>3, <1>4, <1>5, <1>6, <1>7, <1>8, <1>9, <1>10
           DEF HostStep, HostTimeout

\* Every step keeps the types.
LEMMA TypeStep ==
  ASSUME InStep, TypeOK, ReceiverInv, LockStep, [Next]_vars
  PROVE  TypeOK'
<1>1. CASE HostActs
  <2>1. t_waits' \in BOOLEAN /\ TargetStays /\ UNCHANGED scenario
    BY <1>1 DEF HostActs
  <2>2. QED BY <1>1, <2>1, HostTypeStep DEF HostActs, TargetStays, TypeOK
<1>2. CASE TargetActs
  BY <1>2, TargetTypeStep DEF TargetActs, hostVars, TypeOK
<1>3. CASE HostExpires
  BY <1>3, HostTypeStep DEF HostExpires, TargetStays, TypeOK
<1>4. CASE TargetExpires
  BY <1>4, TargetTypeStep DEF TargetExpires, hostVars, TypeOK
<1>5. CASE Over \/ UNCHANGED vars
  BY <1>5 DEF Over, vars, lineVars, targetVars, hostVars, TypeOK
<1>6. QED BY <1>1, <1>2, <1>3, <1>4, <1>5 DEF Next

-----------------------------------------------------------------------------
(* The receiver.                                                           *)

\* Counting modulo BLK_MOD step by step is counting and then reducing.
LEMMA NumberFollows ==
  ASSUME NEW k \in Nat
  PROVE  ((k % BLK_MOD) + 1) % BLK_MOD = (k + 1) % BLK_MOD
<1>1. BLK_MOD \in Nat /\ BLK_MOD > 1
  BY BootAssumption
<1>2. /\ k = BLK_MOD * (k \div BLK_MOD) + (k % BLK_MOD) /\ k \div BLK_MOD \in Nat
      /\ k % BLK_MOD \in 0 .. BLK_MOD - 1
  BY <1>1
<1> DEFINE q == k \div BLK_MOD
           u == k % BLK_MOD
<1>3. k = BLK_MOD * q + u /\ q \in Nat /\ u \in 0 .. BLK_MOD - 1
  BY <1>2
<1> HIDE DEF q, u
<1>4. ASSUME NEW a \in Nat, NEW r \in 0 .. BLK_MOD - 1 PROVE (BLK_MOD * a + r) % BLK_MOD = r
  BY <1>1
<1>5. CASE u + 1 < BLK_MOD
  <2>1. k + 1 = BLK_MOD * q + (u + 1) /\ u + 1 \in 0 .. BLK_MOD - 1
    BY <1>1, <1>3, <1>5
  <2>2. (k + 1) % BLK_MOD = u + 1
    BY <2>1, <1>3, <1>4
  <2>3. (u + 1) % BLK_MOD = u + 1
    BY <2>1, <1>1
  <2>4. QED BY <2>2, <2>3 DEF u
<1>6. CASE u + 1 = BLK_MOD
  <2>1. BLK_MOD * (q + 1) = BLK_MOD * q + BLK_MOD
    BY <1>1, <1>3
  <2>2. k + 1 = BLK_MOD * (q + 1) + 0 /\ 0 \in 0 .. BLK_MOD - 1 /\ q + 1 \in Nat
    BY <2>1, <1>1, <1>3, <1>6
  <2>3. (k + 1) % BLK_MOD = 0
    BY <2>2, <1>4
  <2>4. (u + 1) % BLK_MOD = 0
    BY <1>1, <1>6
  <2>5. QED BY <2>3, <2>4 DEF u
<1>7. QED BY <1>1, <1>3, <1>5, <1>6

\* The receiver's book-keeping: the next number, complete payloads behind it
\* and empty ones ahead.
LEMMA ProceedReceiver ==
  ASSUME TypeOK, ReceiverInv, InOrder, t_pc = "resp", Proceed
  PROVE  ReceiverInv' /\ InOrder'
<1>1. Len(dest[t_pay]) = Blocks[t_pay] /\ dest' = dest
  BY DEF ReceiverInv, Proceed
<1>2. InOrder'
  BY <1>1 DEF InOrder
<1>3. CASE t_pay < Len(Blocks) /\ t_pay' = t_pay + 1 /\ t_pc' = "recv" /\ blk_num' = 1 % BLK_MOD
  <2>1. t_pay' \in Payload /\ t_pay' > t_pay /\ t_pay \in Nat
    BY <1>3, Facts DEF Payload
  <2>2. dest'[t_pay'] = <<>> /\ Len(dest'[t_pay']) = 0
    BY <1>1, <2>1, EmptySeq DEF ReceiverInv
  <2>3. \A p \in Payload : p < t_pay' => Len(dest'[p]) = Blocks[p]
    <3>1. SUFFICES ASSUME NEW p \in Payload, p < t_pay' PROVE Len(dest[p]) = Blocks[p]
      BY <1>1
    <3>2. p < t_pay \/ p = t_pay
      BY <3>1, <1>3, <2>1 DEF Payload
    <3>3. QED BY <3>1, <3>2, <1>1 DEF ReceiverInv
  <2>4. \A p \in Payload : p > t_pay' => dest'[p] = <<>>
    BY <1>1, <1>3, <2>1 DEF ReceiverInv, Payload
  <2>5. QED BY <1>2, <1>3, <2>2, <2>3, <2>4 DEF ReceiverInv
<1>4. CASE /\ t_pay = Len(Blocks)
           /\ \E found \in PatchFinds : t_pc' = IF found THEN "boot" ELSE "halt"
           /\ UNCHANGED <<t_pay, blk_num>>
  <2>1. t_pc' \in {"boot", "halt"} /\ t_pay' = t_pay /\ blk_num' = blk_num
    BY <1>4
  <2>2. QED BY <1>1, <1>2, <1>4, <2>1 DEF ReceiverInv
<1>5. QED BY <1>3, <1>4 DEF Proceed

\* A block that is stored is the next of its payload.
LEMMA StoresReceiver ==
  ASSUME TypeOK, ReceiverInv, InOrder, Stores
  PROVE  /\ ReceiverInv' /\ InOrder'
         /\ Len(dest'[h_pay]) = h_blk /\ \A p \in Payload : p # h_pay => dest'[p] = dest[p]
         /\ \A i \in 1 .. h_blk - 1 : dest'[h_pay][i] = dest[h_pay][i]
         /\ dest'[h_pay][h_blk] = Block(h_pay, h_blk, h2t[1].flaw)
<1> DEFINE b == Block(h_pay, h_blk, h2t[1].flaw)
<1>1. /\ t_pay = h_pay /\ h_blk \in Nat /\ h_blk >= 1 /\ Len(dest[h_pay]) = h_blk - 1
      /\ dest' = [dest EXCEPT ![h_pay] = Append(@, b)] /\ t_pay' = t_pay /\ t_pc' = t_pc
      /\ t_pc = "recv" /\ blk_num' = (blk_num + 1) % BLK_MOD
  BY Facts DEF Stores, Transfer
<1>2. b \in StoredBlock /\ b.pay = h_pay /\ b.blk = h_blk
  BY Facts DEF Block, StoredBlock
<1> HIDE DEF b
<1>3. /\ dest \in [Payload -> Seq(StoredBlock)] /\ h_pay \in Payload
      /\ dest[h_pay] \in Seq(StoredBlock)
  BY Facts DEF TypeOK
<1>4. dest'[h_pay] = Append(dest[h_pay], b) /\ \A p \in Payload : p # h_pay => dest'[p] = dest[p]
  BY <1>1, <1>3
<1>5. /\ Len(dest'[h_pay]) = h_blk /\ dest'[h_pay][h_blk] = b
      /\ \A i \in 1 .. h_blk - 1 : dest'[h_pay][i] = dest[h_pay][i]
  <2>1. /\ Len(Append(dest[h_pay], b)) = Len(dest[h_pay]) + 1
        /\ \A i \in 1 .. Len(dest[h_pay]) : Append(dest[h_pay], b)[i] = dest[h_pay][i]
        /\ Append(dest[h_pay], b)[Len(dest[h_pay]) + 1] = b
    BY <1>2, <1>3, AppendProperties
  <2>2. Len(dest[h_pay]) + 1 = h_blk
    BY <1>1
  <2>3. QED BY <2>1, <2>2, <1>1, <1>4
<1>6. InOrder'
  <2>1. SUFFICES ASSUME NEW p \in Payload, NEW i \in 1 .. Len(dest'[p])
                 PROVE  dest'[p][i].pay = p /\ dest'[p][i].blk = i
    BY DEF InOrder
  <2>2. CASE p # h_pay
    BY <2>1, <2>2, <1>4 DEF InOrder
  <2>3. CASE p = h_pay /\ i = h_blk
    BY <2>3, <1>5, <1>2
  <2>4. CASE p = h_pay /\ i # h_blk
    <3>1. i \in 1 .. h_blk - 1
      BY <2>1, <2>4, <1>1, <1>5
    <3>2. dest[p][i].pay = p /\ dest[p][i].blk = i
      BY <3>1, <2>4, <1>1 DEF InOrder
    <3>3. QED BY <3>1, <3>2, <2>4, <1>5
  <2>5. QED BY <2>2, <2>3, <2>4
<1>7. blk_num' = (Len(dest'[t_pay']) + 1) % BLK_MOD
  <2>1. blk_num = h_blk % BLK_MOD
    BY <1>1 DEF ReceiverInv
  <2>2. blk_num' = (h_blk + 1) % BLK_MOD
    BY <2>1, <1>1, NumberFollows
  <2>3. QED BY <2>2, <1>1, <1>5
<1>8. ReceiverInv'
  <2>1. /\ \A p \in Payload : p < t_pay => Len(dest'[p]) = Blocks[p]
        /\ \A p \in Payload : p > t_pay => dest'[p] = <<>>
    BY <1>1, <1>4, Facts DEF ReceiverInv, Payload
  <2>2. QED BY <2>1, <1>1, <1>7 DEF ReceiverInv
<1>9. QED BY <1>4, <1>5, <1>6, <1>8 DEF b

\* Every step keeps the book-keeping and the order.
LEMMA ReceiverStep ==
  ASSUME InStep, TypeOK, ReceiverInv, InOrder, LockStep, [Next]_vars
  PROVE  ReceiverInv' /\ InOrder'
<1>1. ASSUME UNCHANGED <<t_pay, dest, blk_num>>, t_pc' \in {t_pc, "halt"}
      PROVE  ReceiverInv' /\ InOrder'
  BY <1>1 DEF ReceiverInv, InOrder
<1>2. CASE TargetStep
  <2>1. CASE Stores
    BY <2>1, StoresReceiver
  <2>2. CASE Refuses
    BY <2>2, <1>1 DEF Refuses
  <2>3. CASE Ends
    <3>1. t_pay = h_pay
      BY <2>3 DEF Ends, Transfer
    <3>2. QED BY <3>1, <2>3 DEF Ends, ReceiverInv, InOrder
  <2>4. CASE GoesOn
    BY <2>4, ProceedReceiver DEF GoesOn
  <2>5. CASE Stops
    BY <2>5, <1>1 DEF Stops
  <2>6. QED BY <1>2, <2>1, <2>2, <2>3, <2>4, <2>5, TargetCases
<1>3. CASE ReceiveTimeout
  BY <1>3, <1>1 DEF ReceiveTimeout, Halt
<1>4. CASE VerdictTimeout
  BY <1>4, ProceedReceiver DEF VerdictTimeout
<1>5. CASE HostActs \/ HostExpires \/ Over \/ UNCHANGED vars
  BY <1>5, <1>1 DEF HostActs, HostExpires, Over, TargetStays, vars, targetVars
<1>6. QED BY <1>2, <1>3, <1>4, <1>5 DEF Next, TargetActs, TargetExpires, TargetTimeout

-----------------------------------------------------------------------------
(* Lock step: the answers on the line.                                     *)

\* An item put at the end of the line.
LEMMA AppendOf ==
  ASSUME NEW S, NEW s \in Seq(S), NEW x \in S
  PROVE  /\ Append(s, x) \in Seq(S) /\ Len(Append(s, x)) = Len(s) + 1 /\ Len(s) \in Nat
         /\ \A i \in 1 .. Len(s) + 1 : i \in 1 .. Len(s) \/ i = Len(s) + 1
         /\ \A i \in 1 .. Len(s) : Append(s, x)[i] = s[i]
         /\ Append(s, x)[Len(s) + 1] = x
<1>1. Len(s) \in Nat
  BY LenProperties
<1>2. QED BY <1>1, AppendProperties

\* The places of a line that has lost its first item.
LEMMA ShiftedIndex ==
  ASSUME NEW n \in Nat \ {0}, NEW i \in 1 .. n - 1
  PROVE  i + 1 \in 1 .. n /\ 1 < i + 1 /\ (i + 1 = n => i = n - 1)
  OBVIOUS

\* Another NAK or CAN behind the answers.
LEMMA NaksGrow ==
  ASSUME NEW s \in Seq(Reply), NEW x \in Reply, x.kind \in {"NAK", "CAN"}
  PROVE  /\ Append(s, x) \in Seq(Reply)
         /\ OnlyNaks(s) => OnlyNaks(Append(s, x))
         /\ OneAck(s) => OneAck(Append(s, x))
<1>1. /\ Append(s, x) \in Seq(Reply) /\ Len(Append(s, x)) = Len(s) + 1 /\ Len(s) \in Nat
      /\ \A i \in 1 .. Len(s) + 1 : i \in 1 .. Len(s) \/ i = Len(s) + 1
      /\ \A i \in 1 .. Len(s) : Append(s, x)[i] = s[i]
      /\ Append(s, x)[Len(s) + 1] = x
  BY AppendOf
<1>2. ASSUME OnlyNaks(s) PROVE OnlyNaks(Append(s, x))
  BY <1>1, <1>2 DEF OnlyNaks
<1>3. ASSUME OneAck(s) PROVE OneAck(Append(s, x))
  <2>1. \A i \in 1 .. Len(s) + 1 : Append(s, x)[i].kind # "CRC"
    BY <1>1, <1>3 DEF OneAck
  <2>2. ASSUME NEW i \in 1 .. Len(s) + 1, Append(s, x)[i].kind = "ACK"
        PROVE  i \in 1 .. Len(s) /\ s[i].kind = "ACK"
    BY <1>1, <2>2
  <2>3. QED BY <1>1, <1>3, <2>1, <2>2 DEF OneAck
<1>4. QED BY <1>1, <1>2, <1>3

\* The ACK of a block is the only one.
LEMMA FirstAck ==
  ASSUME NEW s \in Seq(Reply), NEW x \in Reply, x.kind = "ACK", OnlyNaks(s)
  PROVE  OneAck(Append(s, x)) /\ OneAck(s)
<1>1. /\ Append(s, x) \in Seq(Reply) /\ Len(Append(s, x)) = Len(s) + 1 /\ Len(s) \in Nat
      /\ \A i \in 1 .. Len(s) + 1 : i \in 1 .. Len(s) \/ i = Len(s) + 1
      /\ \A i \in 1 .. Len(s) : Append(s, x)[i] = s[i]
      /\ Append(s, x)[Len(s) + 1] = x
  BY AppendOf
<1>2. \A i \in 1 .. Len(s) : s[i].kind # "CRC" /\ s[i].kind # "ACK"
  BY DEF OnlyNaks
<1>3. ASSUME NEW i \in 1 .. Len(s) + 1, Append(s, x)[i].kind = "ACK" PROVE i = Len(s) + 1
  BY <1>1, <1>2, <1>3
<1>4. QED BY <1>1, <1>2, <1>3 DEF OneAck

\* Reading an answer: the host that has read the ACK finds NAKs only.
LEMMA AnswersRead ==
  ASSUME NEW s \in Seq(Reply), s # <<>>
  PROVE  /\ OnlyNaks(s) => OnlyNaks(Tail(s)) /\ s[1].kind \notin {"ACK", "CRC"}
         /\ OneAck(s) => OneAck(Tail(s))
         /\ OneAck(s) /\ s[1].kind = "ACK" => OnlyNaks(Tail(s))
<1>1. /\ Len(s) \in Nat \ {0} /\ Tail(s) \in Seq(Reply) /\ Len(Tail(s)) = Len(s) - 1
      /\ \A i \in 1 .. Len(s) - 1 : Tail(s)[i] = s[i + 1] /\ i + 1 \in 1 .. Len(s)
      /\ 1 \in 1 .. Len(s)
  BY TailOf
<1>2. ASSUME OnlyNaks(s) PROVE OnlyNaks(Tail(s)) /\ s[1].kind \notin {"ACK", "CRC"}
  BY <1>1, <1>2 DEF OnlyNaks
<1>3. ASSUME OneAck(s) PROVE OneAck(Tail(s))
  <2>1. \A i \in 1 .. Len(s) - 1 : Tail(s)[i].kind # "CRC"
    BY <1>1, <1>3 DEF OneAck
  <2>2. ASSUME NEW i \in 1 .. Len(s) - 1, NEW j \in 1 .. Len(s) - 1,
               Tail(s)[i].kind = "ACK", Tail(s)[j].kind = "ACK"
        PROVE  i = j
    <3>1. i + 1 = j + 1
      BY <1>1, <1>3, <2>2 DEF OneAck
    <3>2. QED BY <3>1
  <2>3. QED BY <1>1, <2>1, <2>2 DEF OneAck
<1>4. ASSUME OneAck(s), s[1].kind = "ACK" PROVE OnlyNaks(Tail(s))
  <2>1. SUFFICES ASSUME NEW i \in 1 .. Len(s) - 1 PROVE Tail(s)[i].kind \in {"NAK", "CAN"}
    BY <1>1 DEF OnlyNaks
  <2>2. Tail(s)[i] \in Reply /\ i + 1 # 1
    BY <1>1, ElementOfSeq
  <2>3. Tail(s)[i].kind # "CRC" /\ Tail(s)[i].kind # "ACK"
    BY <1>1, <1>4, <2>1, <2>2 DEF OneAck
  <2>4. QED BY <2>2, <2>3 DEF Reply
<1>5. QED BY <1>2, <1>3, <1>4

\* Reading on towards the CRC line, which is the last thing to come.
LEMMA CrcRead ==
  ASSUME NEW s \in Seq(Reply), s # <<>>, CrcComes(s)
  PROVE  /\ CrcComes(Tail(s))
         /\ s[1].kind = "ACK" => \A i \in 1 .. Len(Tail(s)) : Tail(s)[i].kind = "CRC"
         /\ s[1].kind = "CRC" => Tail(s) = <<>> /\ s[1].data = dest[h_pay]
<1>1. /\ Len(s) \in Nat \ {0} /\ Tail(s) \in Seq(Reply) /\ Len(Tail(s)) = Len(s) - 1
      /\ \A i \in 1 .. Len(s) - 1 : Tail(s)[i] = s[i + 1] /\ i + 1 \in 1 .. Len(s)
      /\ 1 \in 1 .. Len(s)
  BY TailOf
<1>2. CrcComes(Tail(s))
  <2>1. SUFFICES ASSUME NEW i \in 1 .. Len(s) - 1
                 PROVE  /\ Tail(s)[i].kind = "CRC" => i = Len(s) - 1 /\ Tail(s)[i].data = dest[h_pay]
                        /\ Tail(s)[i].kind = "ACK" =>
                             \A j \in i + 1 .. Len(s) - 1 : Tail(s)[j].kind = "CRC"
    BY <1>1 DEF CrcComes
  <2>2. Tail(s)[i].kind = "CRC" => i = Len(s) - 1 /\ Tail(s)[i].data = dest[h_pay]
    <3>1. i + 1 \in 1 .. Len(s) /\ Tail(s)[i] = s[i + 1]
      BY <1>1, <2>1
    <3>2. s[i + 1].kind = "CRC" => i + 1 = Len(s) /\ s[i + 1].data = dest[h_pay]
      BY <3>1, Zenon DEF CrcComes
    <3>3. i + 1 = Len(s) => i = Len(s) - 1
      BY <1>1, ShiftedIndex, Zenon
    <3>4. QED BY <3>1, <3>2, <3>3, Zenon
  <2>3. ASSUME Tail(s)[i].kind = "ACK", NEW j \in i + 1 .. Len(s) - 1
        PROVE  Tail(s)[j].kind = "CRC"
    <3>1. j \in 1 .. Len(s) - 1 /\ j + 1 \in (i + 1) + 1 .. Len(s)
      BY <1>1, <2>1, <2>3
    <3>2. s[i + 1].kind = "ACK" /\ i + 1 \in 1 .. Len(s) /\ Tail(s)[j] = s[j + 1]
      BY <1>1, <2>1, <2>3, <3>1
    <3>3. QED BY <3>1, <3>2 DEF CrcComes
  <2>4. QED BY <2>2, <2>3, SMTT(30)
<1>3. ASSUME s[1].kind = "ACK", NEW i \in 1 .. Len(s) - 1 PROVE Tail(s)[i].kind = "CRC"
  <2>1. i + 1 \in 1 + 1 .. Len(s)
    BY <1>1
  <2>2. \A j \in 1 + 1 .. Len(s) : s[j].kind = "CRC"
    BY <1>1, <1>3, Zenon DEF CrcComes
  <2>3. QED BY <1>1, <2>1, <2>2
<1>4. ASSUME s[1].kind = "CRC" PROVE Tail(s) = <<>> /\ s[1].data = dest[h_pay]
  <2>1. Len(s) = 1 /\ s[1].data = dest[h_pay]
    <3>1. 1 = Len(s) /\ s[1].data = dest[h_pay]
      BY <1>1, <1>4, Zenon DEF CrcComes
    <3>2. QED BY <3>1
  <2>2. Len(Tail(s)) = 0
    BY <1>1, <2>1
  <2>3. QED BY <1>1, <2>1, <2>2, EmptySeq
<1>5. QED BY <1>1, <1>2, <1>3, <1>4

\* The answer to the EOT: an ACK and the CRC line behind NAKs, or one of the two.
LEMMA CrcStarts ==
  ASSUME TypeOK, OnlyNaks(t2h), NEW a \in Reply, a.kind = "ACK",
         NEW c \in Reply, c.kind = "CRC", c.data = dest[h_pay],
         NEW s \in {Append(Append(t2h, a), c), Append(t2h, a), Append(t2h, c)}
  PROVE  CrcComes(s)
<1>0. t2h \in Seq(Reply)
  BY DEF TypeOK
<1>1. /\ \A x \in Reply : /\ Append(t2h, x) \in Seq(Reply)
                          /\ Len(Append(t2h, x)) = Len(t2h) + 1 /\ Len(t2h) \in Nat
                          /\ \A i \in 1 .. Len(t2h) : Append(t2h, x)[i] = t2h[i]
                          /\ Append(t2h, x)[Len(t2h) + 1] = x
      /\ \A i \in 1 .. Len(t2h) + 1 : i \in 1 .. Len(t2h) \/ i = Len(t2h) + 1
  BY <1>0, AppendOf
<1>2. \A i \in 1 .. Len(t2h) : t2h[i].kind # "CRC" /\ t2h[i].kind # "ACK"
  BY DEF OnlyNaks
<1>3. CASE s = Append(t2h, a)
  <2>1. ASSUME NEW i \in 1 .. Len(s), s[i].kind \in {"ACK", "CRC"}
        PROVE  i = Len(t2h) + 1 /\ s[i] = a
    BY <1>1, <1>2, <1>3, <2>1
  <2>2. Len(s) = Len(t2h) + 1
    BY <1>1, <1>3
  <2>3. QED BY <1>1, <2>1, <2>2 DEF CrcComes
<1>4. CASE s = Append(t2h, c)
  <2>1. ASSUME NEW i \in 1 .. Len(s), s[i].kind \in {"ACK", "CRC"}
        PROVE  i = Len(t2h) + 1 /\ s[i] = c
    BY <1>1, <1>2, <1>4, <2>1
  <2>2. Len(s) = Len(t2h) + 1
    BY <1>1, <1>4
  <2>3. QED BY <1>1, <2>1, <2>2 DEF CrcComes
<1>5. CASE s = Append(Append(t2h, a), c)
  <2> DEFINE u == Append(t2h, a)
             n == Len(t2h) + 1
  <2>1. /\ u \in Seq(Reply) /\ Len(u) = n /\ n \in Nat
        /\ \A i \in 1 .. n : u[i].kind \in {"ACK", "CRC"} => i = n /\ u[i] = a
        /\ u[n] = a
    <3>1. u \in Seq(Reply) /\ Len(u) = n /\ n \in Nat /\ u[n] = a
      BY <1>1
    <3>2. ASSUME NEW i \in 1 .. n, u[i].kind \in {"ACK", "CRC"} PROVE i = n /\ u[i] = a
      <4>1. CASE i = n
        BY <3>1, <4>1
      <4>2. CASE i \in 1 .. Len(t2h)
        <5>1. u[i] = t2h[i]
          BY <1>1, <4>2
        <5>2. QED BY <5>1, <4>2, <3>2, <1>2
      <4>3. QED BY <1>1, <4>1, <4>2
    <3>3. QED BY <3>1, <3>2
  <2> HIDE DEF u, n
  <2>2. /\ Len(s) = n + 1 /\ s[n + 1] = c
        /\ \A i \in 1 .. n : s[i] = u[i]
        /\ \A i \in 1 .. n + 1 : i \in 1 .. n \/ i = n + 1
    BY <2>1, <1>5, AppendOf DEF u
  <2>3. ASSUME NEW i \in 1 .. n + 1, s[i].kind = "CRC" PROVE i = n + 1 /\ s[i] = c
    <3>1. CASE i = n + 1
      BY <3>1, <2>2
    <3>2. CASE i \in 1 .. n
      <4>1. s[i] = u[i] /\ u[i].kind = "CRC"
        BY <3>2, <2>2, <2>3
      <4>2. u[i] = a
        BY <4>1, <3>2, <2>1
      <4>3. QED BY <4>1, <4>2
    <3>3. QED BY <2>2, <3>1, <3>2
  <2>4. ASSUME NEW i \in 1 .. n + 1, s[i].kind = "ACK" PROVE i = n
    <3>1. CASE i = n + 1
      BY <3>1, <2>2, <2>4
    <3>2. CASE i \in 1 .. n
      <4>1. s[i] = u[i] /\ u[i].kind = "ACK"
        BY <3>2, <2>2, <2>4
      <4>2. QED BY <4>1, <3>2, <2>1
    <3>3. QED BY <2>2, <3>1, <3>2
  <2>5. ASSUME NEW j \in n + 1 .. n + 1 PROVE s[j].kind = "CRC"
    BY <2>1, <2>2
  <2>6. ASSUME NEW i \in 1 .. Len(s)
        PROVE  /\ s[i].kind = "CRC" => i = Len(s) /\ s[i].data = dest[h_pay]
               /\ s[i].kind = "ACK" => \A j \in i + 1 .. Len(s) : s[j].kind = "CRC"
    BY <2>2, <2>3, <2>4, <2>5
  <2>7. QED BY <2>6 DEF CrcComes
<1>6. QED BY <1>3, <1>4, <1>5

-----------------------------------------------------------------------------
(* Lock step: the packets on the line.                                     *)

\* The target takes an item and changes nothing that is stored.
LEMMA TransferTail ==
  ASSUME TypeOK, Transfer, h2t # <<>>, h2t' = Tail(h2t), UNCHANGED hostVars,
         UNCHANGED <<t_pc, t_pay, dest>>
  PROVE  Transfer'
<1>1. /\ Len(h2t) \in Nat \ {0} /\ Len(h2t') = Len(h2t) - 1
      /\ \A i \in 1 .. Len(h2t) - 1 : h2t'[i] = h2t[i + 1] /\ i + 1 \in 1 .. Len(h2t)
  BY TailOf DEF TypeOK
<1>2. h_pc' = h_pc /\ h_pay' = h_pay /\ h_blk' = h_blk
  BY DEF hostVars
<1>3. Packets'
  <2>1. ASSUME NEW i \in 1 .. Len(h2t')
        PROVE  \/ OldOrNew(h2t[i])'
               \/ /\ h2t'[i].kind = "EOT" /\ i = Len(h2t')
                  /\ h_pc' = "eot" \/ (h_pc' = "failed" /\ t_pc' = "halt")
    <3>1. h2t'[i] = h2t[i + 1] /\ i + 1 \in 1 .. Len(h2t) /\ (i + 1 = Len(h2t) => i = Len(h2t'))
      BY <1>1, <2>1, ShiftedIndex, Zenon
    <3>2. \/ OldOrNew(h2t[i + 1])
          \/ /\ h2t[i + 1].kind = "EOT" /\ i + 1 = Len(h2t)
             /\ h_pc = "eot" \/ (h_pc = "failed" /\ t_pc = "halt")
      BY <3>1 DEF Transfer, Packets
    <3>3. CASE OldOrNew(h2t[i + 1])
      BY <3>1, <3>3, <1>2 DEF OldOrNew
    <3>4. QED BY <3>1, <3>2, <3>3, <1>2
  <2>2. ASSUME NEW i \in 1 .. Len(h2t'), NEW j \in 1 .. Len(h2t'), i < j,
               h2t'[j].kind = "packet"
        PROVE  h2t'[i].blk <= h2t'[j].blk
    <3>1. /\ h2t'[i] = h2t[i + 1] /\ i + 1 \in 1 .. Len(h2t)
          /\ h2t'[j] = h2t[j + 1] /\ j + 1 \in 1 .. Len(h2t) /\ i + 1 < j + 1
      BY <1>1, <2>2
    <3>2. QED BY <3>1, <2>2 DEF Transfer, Packets
  <2>3. QED BY <2>1, <2>2 DEF Packets
<1>4. QED BY <1>2, <1>3 DEF Transfer

\* The target takes the block that is due: what is left on the line are
\* repetitions of it.
LEMMA TransferStores ==
  ASSUME TypeOK, ReceiverInv, InOrder, Stores, UNCHANGED hostVars
  PROVE  Transfer' /\ Len(dest'[h_pay]) = h_blk
<1>1. /\ Len(h2t) \in Nat \ {0} /\ Len(h2t') = Len(h2t) - 1
      /\ \A i \in 1 .. Len(h2t) - 1 : h2t'[i] = h2t[i + 1] /\ i + 1 \in 1 .. Len(h2t)
  BY TailOf DEF TypeOK, Stores
<1>2. h_pc' = h_pc /\ h_pay' = h_pay /\ h_blk' = h_blk /\ t_pc' = t_pc /\ t_pay' = t_pay
  BY DEF hostVars, Stores
<1>3. Len(dest'[h_pay]) = h_blk
  BY StoresReceiver
<1>4. /\ h2t[1].kind = "packet" /\ h2t[1].blk = h_blk /\ t_pc = "recv" /\ h_pc # "eot"
      /\ Packets /\ t_pay = h_pay /\ h_blk \in 1 .. Blocks[h_pay] /\ h_blk \in Nat
  BY Facts DEF Stores, Transfer
<1>5. Packets'
  <2>1. ASSUME NEW i \in 1 .. Len(h2t')
        PROVE  h2t'[i].kind = "packet" /\ h2t'[i].pay = h_pay /\ h2t'[i].blk = h_blk
    <3>1. h2t'[i] = h2t[i + 1] /\ i + 1 \in 1 .. Len(h2t) /\ 1 \in 1 .. Len(h2t) /\ 1 < i + 1
      BY <1>1, <2>1
    <3>2. OldOrNew(h2t[i + 1])
      BY <3>1, <1>4 DEF Packets
    <3>3. h2t[1].blk <= h2t[i + 1].blk
      BY <3>1, <3>2, <1>4 DEF Packets, OldOrNew
    <3>4. h2t[i + 1].blk # h_blk - 1
      BY <3>3, <1>4
    <3>5. QED BY <3>1, <3>2, <3>4 DEF OldOrNew
  <2>2. QED BY <2>1, <1>2, <1>4 DEF Packets, OldOrNew
<1>6. QED BY <1>2, <1>3, <1>4, <1>5 DEF Transfer

\* The target stops and leaves the line as it is.
LEMMA TransferHalts ==
  ASSUME TypeOK, Transfer, t_pc' \in {t_pc, "halt"}, UNCHANGED hostVars,
         UNCHANGED <<h2t, t_pay, dest>>
  PROVE  Transfer'
<1>1. h_pc' = h_pc /\ h_pay' = h_pay /\ h_blk' = h_blk
  BY DEF hostVars
<1>2. Packets'
  <2>1. ASSUME NEW i \in 1 .. Len(h2t)
        PROVE  \/ OldOrNew(h2t[i])'
               \/ /\ h2t'[i].kind = "EOT" /\ i = Len(h2t')
                  /\ h_pc' = "eot" \/ (h_pc' = "failed" /\ t_pc' = "halt")
    <3>1. \/ OldOrNew(h2t[i])
          \/ /\ h2t[i].kind = "EOT" /\ i = Len(h2t)
             /\ h_pc = "eot" \/ (h_pc = "failed" /\ t_pc = "halt")
      BY <2>1 DEF Transfer, Packets
    <3>2. CASE OldOrNew(h2t[i])
      BY <3>2, <1>1 DEF OldOrNew
    <3>3. QED BY <3>1, <3>2, <1>1
  <2>2. \A i, j \in 1 .. Len(h2t) :
          i < j /\ h2t[j].kind = "packet" => h2t[i].blk <= h2t[j].blk
    BY DEF Transfer, Packets
  <2>3. QED BY <2>1, <2>2 DEF Packets
<1>3. QED BY <1>1, <1>2 DEF Transfer

\* The host sends the block it is at, once more or for the first time.
LEMMA TransferSends ==
  ASSUME InStep, TypeOK, Transfer, h_pc = "send", PutPacket(h_pay, h_blk),
         UNCHANGED <<h_pay, h_blk, t_pc, t_pay, dest>>
  PROVE  Transfer'
<1>1. h_pay \in Payload /\ h_blk \in Nat /\ h2t \in Seq(HostItem) /\ Len(h2t) \in Nat
  BY Facts
<1>2. \A i \in 1 .. Len(h2t) : OldOrNew(h2t[i])
  BY DEF Transfer, Packets
<1>3. CASE h2t' = h2t
  BY <1>2, <1>3 DEF Transfer, Packets, OldOrNew
<1>4. ASSUME NEW f \in {"none", "garbled", "silent"},
             h2t' = Append(h2t, Packet(h_pay, h_blk, f))
      PROVE  Transfer'
  <2> DEFINE x == Packet(h_pay, h_blk, f)
  <2>1. x \in HostItem /\ x.kind = "packet" /\ x.pay = h_pay /\ x.blk = h_blk
    BY <1>1, Items
  <2> HIDE DEF x
  <2>2. /\ Len(h2t') = Len(h2t) + 1 /\ h2t'[Len(h2t) + 1] = x
        /\ \A i \in 1 .. Len(h2t) + 1 : i \in 1 .. Len(h2t) \/ i = Len(h2t) + 1
        /\ \A i \in 1 .. Len(h2t) : h2t'[i] = h2t[i]
    BY <1>1, <1>4, <2>1, AppendOf DEF x
  <2>3. ASSUME NEW i \in 1 .. Len(h2t') PROVE OldOrNew(h2t[i])'
    <3>1. CASE i \in 1 .. Len(h2t)
      BY <3>1, <2>2, <1>2 DEF OldOrNew
    <3>2. CASE i = Len(h2t) + 1
      BY <3>2, <2>1, <2>2 DEF OldOrNew
    <3>3. QED BY <2>2, <3>1, <3>2
  <2>4. ASSUME NEW i \in 1 .. Len(h2t'), NEW j \in 1 .. Len(h2t'), i < j,
               h2t'[j].kind = "packet"
        PROVE  h2t'[i].blk <= h2t'[j].blk
    <3>1. i \in 1 .. Len(h2t) /\ h2t'[i] = h2t[i]
      BY <1>1, <2>2, <2>4
    <3>2. CASE j \in 1 .. Len(h2t)
      BY <3>1, <3>2, <2>2, <2>4 DEF Transfer, Packets
    <3>3. CASE j = Len(h2t) + 1
      <4>1. h2t[i].blk = h_blk \/ h2t[i].blk = h_blk - 1
        BY <3>1, <1>2 DEF OldOrNew
      <4>2. QED BY <3>1, <3>3, <4>1, <2>1, <2>2, <1>1
    <3>4. QED BY <2>2, <3>2, <3>3
  <2>5. Packets'
    BY <2>3, <2>4 DEF Packets
  <2>6. QED BY <2>5 DEF Transfer
<1>5. QED BY <1>1, <1>3, <1>4, PutPacketOutcome

\* The host has read the ACK of its block: everything on the line is a
\* repetition of that block, now the one before.
LEMMA TransferAcked ==
  ASSUME TypeOK, Transfer, h_pc = "await", Len(dest[h_pay]) = h_blk,
         UNCHANGED <<h_pay, t_pc, t_pay, dest>>,
         \/ h_blk < Blocks[h_pay] /\ h_blk' = h_blk + 1 /\ h_pc' = "send" /\ h2t' = h2t
         \/ h_blk = Blocks[h_pay] /\ h_blk' = h_blk /\ h_pc' = "eot" /\ PutByte("EOT")
  PROVE  Transfer'
<1>1. h_pay \in Payload /\ h_blk \in Nat /\ h2t \in Seq(HostItem) /\ Len(h2t) \in Nat
  BY Facts
<1>2. \A i \in 1 .. Len(h2t) : OldOrNew(h2t[i])
  BY DEF Transfer, Packets
<1>3. \A i \in 1 .. Len(h2t) : h2t[i].kind = "packet" /\ h2t[i].pay = h_pay /\ h2t[i].blk = h_blk
  <2>1. Len(dest[h_pay]) # h_blk - 1
    BY <1>1
  <2>2. QED BY <1>2, <2>1 DEF OldOrNew
<1>4. CASE h_blk < Blocks[h_pay] /\ h_blk' = h_blk + 1 /\ h_pc' = "send" /\ h2t' = h2t
  <2>1. Len(dest[h_pay]) = h_blk' - 1 /\ h_blk = h_blk' - 1 /\ h_blk' \in 1 .. Blocks[h_pay]
    BY <1>1, <1>4, Facts
  <2>2. Packets'
    BY <1>1, <1>3, <1>4, <2>1 DEF Packets, OldOrNew
  <2>3. QED BY <1>4, <2>1, <2>2 DEF Transfer
<1>5. CASE h_blk' = h_blk /\ h_pc' = "eot" /\ h2t' = h2t
  BY <1>1, <1>3, <1>5 DEF Transfer, Packets, OldOrNew
<1>6. CASE h_blk' = h_blk /\ h_pc' = "eot" /\ h2t' = Append(h2t, Ctl("EOT"))
  <2> DEFINE x == Ctl("EOT")
  <2>1. x \in HostItem /\ x.kind = "EOT"
    BY Items
  <2> HIDE DEF x
  <2>2. /\ Len(h2t') = Len(h2t) + 1 /\ h2t'[Len(h2t) + 1] = x
        /\ \A i \in 1 .. Len(h2t) + 1 : i \in 1 .. Len(h2t) \/ i = Len(h2t) + 1
        /\ \A i \in 1 .. Len(h2t) : h2t'[i] = h2t[i]
    BY <1>1, <1>6, <2>1, AppendOf DEF x
  <2>3. ASSUME NEW i \in 1 .. Len(h2t')
        PROVE  OldOrNew(h2t[i])' \/ (h2t'[i].kind = "EOT" /\ i = Len(h2t') /\ h_pc' = "eot")
    <3>1. CASE i \in 1 .. Len(h2t)
      BY <3>1, <2>2, <1>3, <1>6 DEF OldOrNew
    <3>2. CASE i = Len(h2t) + 1
      BY <3>2, <2>1, <2>2, <1>6
    <3>3. QED BY <2>2, <3>1, <3>2
  <2>4. ASSUME NEW i \in 1 .. Len(h2t'), NEW j \in 1 .. Len(h2t'), i < j,
               h2t'[j].kind = "packet"
        PROVE  h2t'[i].blk <= h2t'[j].blk
    <3>1. j # Len(h2t) + 1
      BY <2>1, <2>2, <2>4
    <3>2. i \in 1 .. Len(h2t) /\ j \in 1 .. Len(h2t)
      BY <1>1, <2>2, <2>4, <3>1
    <3>3. h2t'[i].blk = h_blk /\ h2t'[j].blk = h_blk
      BY <3>2, <2>2, <1>3
    <3>4. QED BY <3>3, <1>1
  <2>5. Packets'
    BY <2>3, <2>4 DEF Packets
  <2>6. QED BY <2>5, <1>6 DEF Transfer
<1>7. QED BY <1>4, <1>5, <1>6, PutByteOutcome

-----------------------------------------------------------------------------
(* Lock step: the target's part.                                           *)

\* NAKs and CANs disturb nobody.
LEMMA NaksAdded ==
  ASSUME TypeOK, ReplyAll(<<Byte("NAK")>>) \/ ReplyAll(<<Byte("CAN"), Byte("CAN")>>)
  PROVE  /\ OnlyNaks(t2h) => OnlyNaks(t2h')
         /\ OneAck(t2h) => OneAck(t2h')
<1>1. /\ Byte("NAK") \in Reply /\ Byte("NAK").kind = "NAK"
      /\ Byte("CAN") \in Reply /\ Byte("CAN").kind = "CAN" /\ t2h \in Seq(Reply)
  BY Items DEF TypeOK
<1> DEFINE n == Append(t2h, Byte("NAK"))
           c == Append(t2h, Byte("CAN"))
           d == Append(c, Byte("CAN"))
<1>2. /\ c \in Seq(Reply)
      /\ OnlyNaks(t2h) => OnlyNaks(n) /\ OnlyNaks(c)
      /\ OneAck(t2h) => OneAck(n) /\ OneAck(c)
  BY <1>1, NaksGrow
<1> HIDE DEF c
<1>3. (OnlyNaks(c) => OnlyNaks(d)) /\ (OneAck(c) => OneAck(d))
  BY <1>1, <1>2, NaksGrow
<1> HIDE DEF n, d
<1>4. t2h' \in {t2h, n, c, d}
  <2>1. CASE ReplyAll(<<Byte("NAK")>>)
    BY <1>1, <2>1, ReplyOne DEF n
  <2>2. CASE ReplyAll(<<Byte("CAN"), Byte("CAN")>>)
    BY <1>1, <2>2, ReplyTwo DEF c, d
  <2>3. QED BY <2>1, <2>2
<1>5. QED BY <1>2, <1>3, <1>4

\* Going on from one payload to the next, or to the kernel.
LEMMA ProceedOutcome ==
  ASSUME TypeOK, ReceiverInv, t_pc = "resp", Proceed
  PROVE  /\ dest' = dest
         /\ \/ /\ t_pay < Len(Blocks) /\ t_pay' = t_pay + 1 /\ t_pc' = "recv"
               /\ dest'[t_pay'] = <<>> /\ (OnlyNaks(t2h) => OnlyNaks(t2h'))
            \/ /\ t_pay = Len(Blocks) /\ t_pay' = t_pay /\ t_pc' \in {"boot", "halt"}
               /\ t2h' = t2h /\ (dest[DTB] = Sent(DTB) => t_pc' = "boot")
<1>1. dest' = dest
  BY DEF Proceed
<1>2. CASE t_pay < Len(Blocks) /\ t_pay' = t_pay + 1 /\ t_pc' = "recv" /\ ReplyAll(<<Byte("NAK")>>)
  <2>1. t_pay' \in Payload /\ t_pay' > t_pay
    BY <1>2, Facts DEF Payload
  <2>2. dest'[t_pay'] = <<>>
    BY <1>1, <2>1 DEF ReceiverInv
  <2>3. OnlyNaks(t2h) => OnlyNaks(t2h')
    BY <1>2, NaksAdded
  <2>4. QED BY <1>1, <1>2, <2>2, <2>3
<1>3. CASE /\ t_pay = Len(Blocks)
           /\ \E found \in PatchFinds : t_pc' = IF found THEN "boot" ELSE "halt"
           /\ UNCHANGED <<t_pay, t2h>>
  <2>1. PICK found \in PatchFinds : t_pc' = IF found THEN "boot" ELSE "halt"
    BY <1>3
  <2>2. t_pc' \in {"boot", "halt"}
    BY <2>1
  <2>3. dest[DTB] = Sent(DTB) => PatchFinds = {TRUE}
    BY DEF PatchFinds
  <2>4. dest[DTB] = Sent(DTB) => t_pc' = "boot"
    <3>1. SUFFICES ASSUME dest[DTB] = Sent(DTB) PROVE t_pc' = "boot"
      OBVIOUS
    <3>2. found \in {TRUE}
      BY <2>3, <3>1
    <3>3. found
      BY <3>2, Zenon
    <3>4. QED BY <2>1, <3>3, Zenon
  <2>5. t_pay = Len(Blocks) /\ t_pay' = t_pay /\ t2h' = t2h
    BY <1>3, Zenon
  <2>6. QED BY <1>1, <2>2, <2>4, <2>5, Zenon
<1>4. QED BY <1>2, <1>3 DEF Proceed

\* The target takes an item.
LEMMA TargetLock ==
  ASSUME InStep, TypeOK, ReceiverInv, InOrder, LockStep, TargetStep, UNCHANGED hostVars
  PROVE  LockStep'
<1>h. h_pc' = h_pc /\ h_pay' = h_pay /\ h_blk' = h_blk
  BY DEF hostVars
<1>t. t2h \in Seq(Reply)
  BY DEF TypeOK
<1>b. /\ Byte("ACK") \in Reply /\ Byte("ACK").kind = "ACK"
      /\ Byte("NAK") \in Reply /\ Byte("NAK").kind = "NAK"
  BY Items
<1>1. CASE Stores
  <2>1. Transfer' /\ Len(dest'[h_pay]) = h_blk
    BY <1>1, TransferStores
  <2>2. CASE h_pc = "failed"
    BY <2>1, <2>2, <1>h DEF LockStep, AtFailed
  <2>3. CASE h_pc \in {"send", "await"}
    <3>1. OnlyNaks(t2h)
      <4>1. Len(dest[h_pay]) # h_blk
        BY <1>1, Facts DEF Stores
      <4>2. QED BY <2>3, <4>1 DEF LockStep, AtBlock, AckDue
    <3>2. OneAck(t2h')
      BY <1>1, <1>t, <1>b, <3>1, ReplyOne, FirstAck DEF Stores
    <3>3. AtBlock'
      BY <2>1, <3>2, <1>h DEF AtBlock, AckDue
    <3>4. QED BY <2>3, <3>3, <1>h DEF LockStep
  <2>4. QED BY <1>1, <2>2, <2>3 DEF Stores
<1>2. CASE Refuses
  <2>1. Transfer'
    BY <1>2, TransferTail DEF Refuses
  <2>2. /\ OnlyNaks(t2h) => OnlyNaks(t2h')
        /\ OneAck(t2h) => OneAck(t2h')
    BY <1>2, NaksAdded DEF Refuses
  <2>3. /\ dest' = dest /\ t_pay' = t_pay /\ t_pc' = t_pc
        /\ t_pay = h_pay /\ t_pc = "recv"
    BY <1>2 DEF Refuses, Transfer
  <2>4. CASE h_pc = "failed"
    BY <2>1, <2>4, <1>h DEF LockStep, AtFailed
  <2>5. CASE h_pc \in {"send", "await"}
    <3>1. AckDue
      BY <2>5 DEF LockStep, AtBlock
    <3>2. AckDue'
      BY <3>1, <2>2, <2>3, <1>h DEF AckDue
    <3>3. QED BY <2>1, <2>5, <3>2, <1>h DEF LockStep, AtBlock
  <2>6. CASE h_pc = "eot"
    <3>1. ~Ahead /\ ~Answered
      BY <2>3, Facts DEF Ahead, Answered
    <3>2. h_blk = Blocks[h_pay] /\ Len(dest[h_pay]) = h_blk /\ OnlyNaks(t2h)
      BY <2>6, <3>1 DEF LockStep, AtEot
    <3>3. AtEot'
      BY <2>1, <2>2, <2>3, <3>2, <1>h DEF AtEot
    <3>4. QED BY <2>6, <3>3, <1>h DEF LockStep
  <2>7. QED BY <1>2, <2>4, <2>5, <2>6 DEF Refuses
<1>3. CASE Ends
  <2>1. /\ t_pay = h_pay /\ t_pc = "recv" /\ h_pc = "eot" /\ h2t' = <<>> /\ t_pc' = "resp"
        /\ t_pay' = t_pay /\ dest' = dest /\ Len(dest[h_pay]) = Blocks[h_pay]
    BY <1>3 DEF Ends, Transfer
  <2>2. ~Ahead /\ ~Answered
    BY <2>1, Facts DEF Ahead, Answered
  <2>3. OnlyNaks(t2h)
    BY <2>1, <2>2 DEF LockStep, AtEot
  <2>4. CrcComes(t2h')
    <3>1. /\ \A f \in {"none", "garbled"} :
               /\ CrcLine(dest[h_pay], f) \in Reply /\ CrcLine(dest[h_pay], f).kind = "CRC"
               /\ CrcLine(dest[h_pay], f).data = dest[h_pay]
      BY Facts, Items
    <3>2. PICK f \in {"none", "garbled"} :
            t2h' \in {Append(Append(t2h, Byte("ACK")), CrcLine(dest[h_pay], f)),
                      Append(t2h, Byte("ACK")), Append(t2h, CrcLine(dest[h_pay], f))}
      <4>1. CASE ReplyAll(<<Byte("ACK"), CrcLine(dest[h_pay], "none")>>)
        BY <4>1, <3>1, <1>b, ReplyTwo
      <4>2. CASE t2h' = t2h \o <<Byte("ACK"), CrcLine(dest[h_pay], "garbled")>>
        BY <4>2, <3>1, <1>b, <1>t, ConcatTwo
      <4>3. QED BY <4>1, <4>2, <1>3 DEF Ends
    <3>3. QED BY <3>1, <3>2, <2>3, <1>b, CrcStarts
  <2>5. CrcComes(t2h)'
    BY <2>1, <2>4, <1>h DEF CrcComes
  <2>6. AtEot'
    BY <2>1, <2>5, <1>h DEF AtEot, Answered
  <2>7. QED BY <2>1, <2>6, <1>h DEF LockStep
<1>4. CASE GoesOn
  <2>1. t_pc = "resp" /\ h2t' = <<>> /\ Proceed
    BY <1>4 DEF GoesOn
  <2>2. CASE h_pc = "prompt" /\ t_pay = h_pay - 1 /\ t2h = <<>>
    <3>1. OnlyNaks(t2h)
      BY <2>2, EmptySeq DEF OnlyNaks
    <3>2. t_pay < Len(Blocks) /\ t_pay + 1 = h_pay
      BY <2>2, Facts
    <3>3. t_pay' = h_pay /\ t_pc' = "recv" /\ dest'[h_pay] = <<>> /\ OnlyNaks(t2h')
      BY <2>1, <3>1, <3>2, Facts, ProceedOutcome
    <3>4. AtPrompt'
      BY <2>1, <2>2, <3>3, <1>h DEF LockStep, AtPrompt
    <3>5. QED BY <2>2, <3>4, <1>h DEF LockStep
  <2>3. CASE h_pc = "console"
    <3>1. t_pay = h_pay /\ Len(dest[h_pay]) = Blocks[h_pay] /\ h_pay = Len(Blocks)
      BY <2>3 DEF LockStep, AtConsole, Answered
    <3>2. dest' = dest /\ t_pay' = t_pay /\ t_pc' \in {"boot", "halt"}
      BY <2>1, <3>1, Facts, ProceedOutcome
    <3>3. AtConsole'
      BY <2>1, <3>1, <3>2, <1>h DEF AtConsole, Answered
    <3>4. QED BY <2>3, <3>3, <1>h DEF LockStep
  <2>4. QED BY <1>4, <2>2, <2>3 DEF GoesOn
<1>5. CASE Stops
  <2>1. /\ t_pc = "resp" /\ h_pc = "failed" /\ h2t' = <<>> /\ t_pc' = "halt"
        /\ t_pay' = t_pay /\ dest' = dest
    BY <1>5 DEF Stops
  <2>2. Answered
    BY <2>1 DEF LockStep, AtFailed, Transfer, Ahead
  <2>3. AtFailed'
    BY <2>1, <2>2, <1>h DEF AtFailed, Answered
  <2>4. QED BY <2>1, <2>3, <1>h DEF LockStep
<1>6. QED BY <1>1, <1>2, <1>3, <1>4, <1>5, TargetCases

\* The target's timers.
LEMMA ReceiveTimeoutLock ==
  ASSUME TypeOK, LockStep, ReceiveTimeout, UNCHANGED hostVars
  PROVE  LockStep'
<1>h. h_pc' = h_pc /\ h_pay' = h_pay /\ h_blk' = h_blk
  BY DEF hostVars
<1>1. /\ t_pc = "recv" /\ t_pc' \in {"recv", "halt"} /\ h2t = <<>> /\ h2t' = h2t
      /\ t_pay' = t_pay /\ dest' = dest
  BY DEF ReceiveTimeout, Halt
<1>2. /\ OnlyNaks(t2h) => OnlyNaks(t2h')
      /\ OneAck(t2h) => OneAck(t2h')
  BY NaksAdded DEF ReceiveTimeout
<1>3. Transfer => Transfer'
  BY <1>1, TransferHalts
<1>4. Ahead => Ahead'
  BY <1>1, <1>h DEF Ahead
<1>5. ~Answered
  BY <1>1 DEF Answered
<1>6. h_pc = "prompt" => AtPrompt'
  BY <1>1, <1>2, <1>h DEF LockStep, AtPrompt
<1>7. ASSUME h_pc \in {"send", "await"} PROVE AtBlock'
  <2>1. AckDue'
    BY <1>7, <1>1, <1>2, <1>h DEF LockStep, AtBlock, AckDue
  <2>2. QED BY <2>1, <1>3, <1>7 DEF LockStep, AtBlock
<1>8. ASSUME h_pc = "eot" PROVE AtEot'
  <2>1. \/ Transfer /\ h_blk = Blocks[h_pay] /\ Len(dest[h_pay]) = h_blk /\ OnlyNaks(t2h)
        \/ Ahead /\ OnlyNaks(t2h)
    BY <1>8, <1>5 DEF LockStep, AtEot
  <2>2. QED BY <2>1, <1>1, <1>2, <1>3, <1>4, <1>h DEF AtEot
<1>9. ASSUME h_pc = "crc" PROVE AtCrc'
  <2>1. Ahead /\ OnlyNaks(t2h)
    BY <1>9, <1>5 DEF LockStep, AtCrc
  <2>2. QED BY <2>1, <1>2, <1>4 DEF AtCrc
<1>10. h_pc # "console"
  BY <1>5 DEF LockStep, AtConsole
<1>11. h_pc = "failed" => AtFailed'
  BY <1>3, <1>4, <1>5 DEF LockStep, AtFailed
<1>12. QED BY <1>6, <1>7, <1>8, <1>9, <1>10, <1>11, <1>h DEF LockStep

\* No verdict: the target goes on, and the host is behind it or lost.
LEMMA VerdictTimeoutLock ==
  ASSUME TypeOK, ReceiverInv, LockStep, VerdictTimeout, UNCHANGED hostVars,
         h_pc \in {"await", "eot", "crc"} => t2h = <<>>
  PROVE  LockStep'
<1>h. h_pc' = h_pc /\ h_pay' = h_pay /\ h_blk' = h_blk
  BY DEF hostVars
<1>1. t_pc = "resp" /\ h2t = <<>> /\ h2t' = <<>> /\ Proceed /\ dest' = dest
  BY DEF VerdictTimeout, Proceed
<1>2. ~Transfer /\ ~Ahead
  BY <1>1 DEF Transfer, Ahead
<1>3. ASSUME t2h = <<>> PROVE OnlyNaks(t2h)
  BY <1>3, EmptySeq DEF OnlyNaks
<1>4. ASSUME Answered
      PROVE  \/ Ahead' /\ (OnlyNaks(t2h) => OnlyNaks(t2h'))
             \/ Answered' /\ t_pc' # "resp" /\ t2h' = t2h /\ h_pay = Len(Blocks)
  <2>1. t_pay = h_pay /\ Len(dest[h_pay]) = Blocks[h_pay]
    BY <1>4 DEF Answered
  <2>2. QED BY <2>1, <1>1, <1>h, ProceedOutcome DEF Ahead, Answered
<1>5. ASSUME h_pc = "prompt" PROVE AtPrompt'
  <2>1. h_blk = 1 /\ t_pay = h_pay - 1 /\ t2h = <<>>
    BY <1>1, <1>5 DEF LockStep, AtPrompt
  <2>2. t_pay < Len(Blocks) /\ t_pay + 1 = h_pay
    BY <2>1, Facts
  <2>3. t_pay' = h_pay /\ t_pc' = "recv" /\ dest'[h_pay] = <<>> /\ OnlyNaks(t2h')
    BY <2>1, <2>2, <1>1, <1>3, Facts, ProceedOutcome
  <2>4. QED BY <1>1, <2>1, <2>3, <1>h DEF AtPrompt
<1>6. h_pc \notin {"send", "await"}
  BY <1>2 DEF LockStep, AtBlock
<1>7. ASSUME h_pc = "eot" PROVE AtEot'
  <2>1. Answered /\ t2h = <<>> /\ OnlyNaks(t2h)
    BY <1>2, <1>3, <1>7 DEF LockStep, AtEot
  <2>2. QED BY <2>1, <1>1, <1>4 DEF AtEot
<1>8. ASSUME h_pc = "crc" PROVE AtCrc'
  <2>1. Answered /\ t2h = <<>> /\ OnlyNaks(t2h)
    BY <1>2, <1>3, <1>8 DEF LockStep, AtCrc
  <2>2. QED BY <2>1, <1>1, <1>4, <1>h DEF AtCrc
<1>9. ASSUME h_pc = "console" PROVE AtConsole'
  <2>1. t_pay = h_pay /\ Len(dest[h_pay]) = Blocks[h_pay] /\ h_pay = Len(Blocks)
    BY <1>9 DEF LockStep, AtConsole, Answered
  <2>2. dest' = dest /\ t_pay' = t_pay /\ t_pc' \in {"boot", "halt"}
    BY <2>1, <1>1, Facts, ProceedOutcome
  <2>3. QED BY <2>1, <2>2, <1>1, <1>h DEF AtConsole, Answered
<1>10. ASSUME h_pc = "failed" PROVE AtFailed'
  <2>1. Answered
    BY <1>2, <1>10 DEF LockStep, AtFailed
  <2>2. QED BY <2>1, <1>1, <1>4 DEF AtFailed
<1>11. QED BY <1>5, <1>6, <1>7, <1>8, <1>9, <1>10, <1>h DEF LockStep

-----------------------------------------------------------------------------
(* Lock step: the host's part.                                             *)

\* The target has left the payload the host is at only when it is complete.
LEMMA AheadComplete ==
  ASSUME TypeOK, ReceiverInv, Ahead
  PROVE  Len(dest[h_pay]) = Blocks[h_pay] /\ h_pay < Len(Blocks) /\ t_pay = h_pay + 1
<1>1. t_pay = h_pay + 1 /\ h_pay < t_pay /\ h_pay \in Payload /\ h_pay < Len(Blocks)
  BY Facts DEF Ahead
<1>2. QED BY <1>1 DEF ReceiverInv

\* xmodem_send_verified is over, the verdict sent or not.
LEMMA SuccessLock ==
  ASSUME TypeOK, ReceiverInv, LockStep, Success, h_pc = "crc",
         UNCHANGED <<t_pc, t_pay, dest>>,
         \/ Answered /\ t2h' = <<>> /\ h2t' \in {<<>>, <<Ctl("ACK")>>}
         \/ Ahead /\ t2h' = <<>> /\ h2t' = <<>>
  PROVE  LockStep'
<1>1. CASE /\ h_pay < Len(Blocks) /\ h_pc' = "prompt" /\ h_pay' = h_pay + 1 /\ h_blk' = 1
  <2>1. CASE Answered /\ t2h' = <<>> /\ h2t' \in {<<>>, <<Ctl("ACK")>>}
    <3>1. t_pc = "resp"
      <4>1. ~Ahead
        BY <2>1, Facts DEF Ahead, Answered
      <4>2. h_pay # Len(Blocks)
        BY <1>1, Facts
      <4>3. QED BY <4>1, <4>2 DEF LockStep, AtCrc
    <3>2. t_pay' = h_pay' - 1
      BY <1>1, <2>1, Facts DEF Answered
    <3>3. AtPrompt'
      BY <1>1, <2>1, <3>1, <3>2 DEF AtPrompt
    <3>4. QED BY <1>1, <3>3 DEF LockStep
  <2>2. CASE Ahead /\ t2h' = <<>> /\ h2t' = <<>>
    <3>1. t_pay' = h_pay' /\ t_pc' \in {"recv", "halt"} /\ dest'[h_pay'] = <<>>
      BY <1>1, <2>2 DEF Ahead
    <3>2. OnlyNaks(t2h')
      BY <2>2, EmptySeq DEF OnlyNaks
    <3>3. AtPrompt'
      BY <1>1, <2>2, <3>1, <3>2 DEF AtPrompt
    <3>4. QED BY <1>1, <3>3 DEF LockStep
  <2>3. QED BY <2>1, <2>2
<1>2. CASE h_pay = Len(Blocks) /\ h_pc' = "console" /\ UNCHANGED <<h_pay, h_blk>>
  <2>1. ~Ahead
    BY <1>2, AheadComplete, Facts
  <2>2. AtConsole'
    BY <1>2, <2>1 DEF AtConsole, Answered
  <2>3. QED BY <1>2, <2>2 DEF LockStep
<1>3. QED BY <1>1, <1>2 DEF Success

\* The host gives up where it is.
LEMMA FailLock ==
  ASSUME TypeOK, LockStep, Fail, UNCHANGED <<t_pc, t_pay, dest>>,
         \/ Transfer /\ h2t' = h2t /\ (h_pc = "eot" => h2t = <<>> \/ t_pc = "halt")
         \/ Answered /\ h2t' \in {<<>>, <<Ctl("NAK")>>}
         \/ Ahead /\ h2t' = <<>>
  PROVE  LockStep'
<1>1. h_pc' = "failed" /\ h_pay' = h_pay /\ h_blk' = h_blk
  BY DEF Fail
<1>2. CASE Transfer /\ h2t' = h2t /\ (h_pc = "eot" => h2t = <<>> \/ t_pc = "halt")
  <2>1. Packets'
    <3>1. ASSUME NEW i \in 1 .. Len(h2t)
          PROVE  OldOrNew(h2t[i]) \/ (h2t[i].kind = "EOT" /\ i = Len(h2t) /\ t_pc = "halt")
      <4>1. h2t # <<>>
        BY <3>1, EmptySeq
      <4>2. \/ OldOrNew(h2t[i])
            \/ /\ h2t[i].kind = "EOT" /\ i = Len(h2t)
               /\ h_pc = "eot" \/ (h_pc = "failed" /\ t_pc = "halt")
        BY <1>2, <3>1 DEF Transfer, Packets
      <4>3. QED BY <4>1, <4>2, <1>2
    <3>2. ASSUME NEW i \in 1 .. Len(h2t)
          PROVE  OldOrNew(h2t[i])' \/ (h2t[i].kind = "EOT" /\ i = Len(h2t) /\ t_pc = "halt")
      <4>1. CASE OldOrNew(h2t[i])
        BY <4>1, <1>1, <1>2 DEF OldOrNew
      <4>2. QED BY <3>1, <3>2, <4>1
    <3>3. \A i, j \in 1 .. Len(h2t) :
            i < j /\ h2t[j].kind = "packet" => h2t[i].blk <= h2t[j].blk
      BY <1>2 DEF Transfer, Packets
    <3>4. QED BY <1>1, <1>2, <3>2, <3>3 DEF Packets
  <2>2. AtFailed'
    BY <1>1, <1>2, <2>1 DEF AtFailed, Transfer
  <2>3. QED BY <1>1, <2>2 DEF LockStep
<1>3. CASE Answered /\ h2t' \in {<<>>, <<Ctl("NAK")>>}
  <2>1. AtFailed'
    BY <1>1, <1>3 DEF AtFailed, Answered
  <2>2. QED BY <1>1, <2>1 DEF LockStep
<1>4. CASE Ahead /\ h2t' = <<>>
  <2>1. AtFailed'
    BY <1>1, <1>4 DEF AtFailed, Ahead
  <2>2. QED BY <1>1, <2>1 DEF LockStep
<1>5. QED BY <1>2, <1>3, <1>4

\* Another try of the same block.
LEMMA AgainLock ==
  ASSUME TypeOK, LockStep, h_pc = "await", Again, UNCHANGED <<h2t, t_pc, t_pay, dest>>,
         OnlyNaks(t2h) => OnlyNaks(t2h'), OneAck(t2h) => OneAck(t2h')
  PROVE  LockStep'
<1>1. Transfer /\ AckDue
  BY DEF LockStep, AtBlock
<1>2. CASE h_pc' = "send" /\ UNCHANGED <<h_pay, h_blk>>
  <2>1. \A i \in 1 .. Len(h2t) : OldOrNew(h2t[i])
    BY <1>1 DEF Transfer, Packets
  <2>2. Transfer'
    BY <1>1, <1>2, <2>1 DEF Transfer, Packets, OldOrNew
  <2>3. AckDue'
    BY <1>1, <1>2 DEF AckDue
  <2>4. QED BY <1>2, <2>2, <2>3 DEF LockStep, AtBlock
<1>3. CASE Fail
  BY <1>1, <1>3, FailLock
<1>4. QED BY <1>2, <1>3 DEF Again

\* The host's steps, and its timers when nothing is in flight that would stop
\* them.
LEMMA HostLock ==
  ASSUME InStep, TypeOK, ReceiverInv, LockStep, UNCHANGED <<t_pc, t_pay, dest>>,
         HostStep \/ (HostTimeout /\ (h2t = <<>> \/ t_pc \in {"boot", "halt"}))
  PROVE  LockStep'
<1>t. t2h \in Seq(Reply) /\ h2t \in Seq(HostItem)
  BY DEF TypeOK
<1>e. /\ t2h # <<>> => Out = t2h[1] /\ t2h[1] \in Reply
      /\ t2h # <<>> /\ OnlyNaks(t2h) => OnlyNaks(Tail(t2h)) /\ t2h[1].kind \notin {"ACK", "CRC"}
      /\ t2h # <<>> /\ OneAck(t2h) => OneAck(Tail(t2h))
      /\ t2h # <<>> /\ OneAck(t2h) /\ t2h[1].kind = "ACK" => OnlyNaks(Tail(t2h))
      /\ t2h = <<>> => OnlyNaks(t2h) /\ OneAck(t2h)
  <2>1. t2h # <<>> => Out = t2h[1] /\ t2h[1] \in Reply
    BY <1>t, TailOf DEF Out
  <2>2. t2h = <<>> => OnlyNaks(t2h) /\ OneAck(t2h)
    BY EmptySeq DEF OnlyNaks, OneAck
  <2>3. QED BY <2>1, <2>2, <1>t, AnswersRead
<1>a. ASSUME OnlyNaks(t2h) PROVE OneAck(t2h)
  BY <1>a DEF OnlyNaks, OneAck
<1>1. CASE Prompted
  <2>1. /\ h_pc = "prompt" /\ h_pc' = "send" /\ h_blk' = 1 /\ UNCHANGED <<h_pay, h2t>>
        /\ \E i \in 1 .. Len(t2h) : t2h[i].kind = "NAK"
        /\ \E i \in 1 .. Len(t2h) : \E k \in i .. Len(t2h) : t2h' = SubSeq(t2h, k + 1, Len(t2h))
    BY <1>1, Zenon DEF Prompted
  <2>2. t2h # <<>>
    BY <2>1, EmptySeq
  <2>3. /\ h_blk = 1 /\ t_pay = h_pay /\ t_pc \in {"recv", "halt"} /\ dest[h_pay] = <<>>
        /\ h2t = <<>> /\ OnlyNaks(t2h)
    BY <2>1, <2>2 DEF LockStep, AtPrompt
  <2>4. OnlyNaks(t2h')
    <3>1. PICK i \in 1 .. Len(t2h) : \E k \in i .. Len(t2h) : t2h' = SubSeq(t2h, k + 1, Len(t2h))
      BY <2>1
    <3>2. PICK k \in i .. Len(t2h) : t2h' = SubSeq(t2h, k + 1, Len(t2h))
      BY <3>1
    <3>3. k + 1 \in Nat /\ Len(t2h) \in Nat /\ k + 1 >= 1
      BY Facts
    <3>4. \A j \in k + 1 .. Len(t2h) : j \in 1 .. Len(t2h) /\ t2h[j] \in Reply
      BY <1>t, <3>3, ElementOfSeq
    <3>5. /\ Len(t2h') = IF k + 1 <= Len(t2h) THEN Len(t2h) - (k + 1) + 1 ELSE 0
          /\ \A j \in 1 .. Len(t2h) - (k + 1) + 1 : t2h'[j] = t2h[(k + 1) + j - 1]
      BY <3>2, <3>3, <3>4, SubSeqProperties
    <3>6. ASSUME NEW j \in 1 .. Len(t2h') PROVE t2h'[j].kind \in {"NAK", "CAN"}
      <4>1. j \in 1 .. Len(t2h) - (k + 1) + 1 /\ (k + 1) + j - 1 \in 1 .. Len(t2h)
        BY <3>3, <3>5, <3>6
      <4>2. QED BY <4>1, <3>5, <2>3 DEF OnlyNaks
    <3>7. QED BY <3>6 DEF OnlyNaks
  <2>5. Len(dest[h_pay]) = 0 /\ 1 \in 1 .. Blocks[h_pay] /\ Len(h2t') = 0
    BY <2>1, <2>3, EmptySeq, Facts
  <2>6. Transfer'
    BY <2>1, <2>3, <2>5 DEF Transfer, Packets
  <2>7. AtBlock'
    BY <2>4, <2>6 DEF AtBlock, AckDue
  <2>8. QED BY <2>1, <2>7 DEF LockStep
<1>2. CASE SendBlock
  <2>1. /\ h_pc = "send" /\ PutPacket(h_pay, h_blk) /\ h_pc' = "await"
        /\ UNCHANGED <<h_pay, h_blk, t2h>>
    BY <1>2 DEF SendBlock
  <2>2. Transfer /\ AckDue
    BY <2>1 DEF LockStep, AtBlock
  <2>3. Transfer' /\ AckDue'
    BY <2>1, <2>2, TransferSends DEF AckDue
  <2>4. QED BY <2>1, <2>3 DEF LockStep, AtBlock
<1>3. CASE BlockAcked
  <2>1. /\ h_pc = "await" /\ t2h # <<>> /\ t2h[1].kind = "ACK" /\ t2h' = Tail(t2h)
        /\ \/ h_blk < Blocks[h_pay] /\ h_blk' = h_blk + 1 /\ h_pc' = "send" /\ h2t' = h2t
           \/ h_blk = Blocks[h_pay] /\ h_blk' = h_blk /\ h_pc' = "eot" /\ PutByte("EOT")
        /\ h_pay' = h_pay
    BY <1>3, <1>e DEF BlockAcked, Read
  <2>2. Transfer /\ OneAck(t2h) /\ Len(dest[h_pay]) = h_blk
    BY <2>1, <1>e DEF LockStep, AtBlock, AckDue
  <2>3. Transfer' /\ OnlyNaks(t2h')
    BY <2>1, <2>2, <1>e, TransferAcked
  <2>4. CASE h_pc' = "send"
    BY <2>3, <2>4 DEF LockStep, AtBlock, AckDue
  <2>5. CASE h_pc' = "eot" /\ h_blk = Blocks[h_pay] /\ h_blk' = h_blk
    BY <2>1, <2>2, <2>3, <2>5 DEF LockStep, AtEot
  <2>6. QED BY <2>1, <2>4, <2>5
<1>4. CASE BlockRefused
  BY <1>4, <1>e, AgainLock DEF BlockRefused, Read
<1>5. CASE EotAcked
  <2>1. /\ h_pc = "eot" /\ t2h # <<>> /\ t2h[1].kind = "ACK" /\ t2h' = Tail(t2h)
        /\ h_pc' = "crc" /\ UNCHANGED <<h_pay, h_blk, h2t>>
    BY <1>5, <1>e DEF EotAcked, Read
  <2>2. Answered /\ t_pc = "resp" /\ h2t = <<>> /\ CrcComes(t2h)
    BY <2>1, <1>e DEF LockStep, AtEot
  <2>3. CrcComes(t2h') /\ \A i \in 1 .. Len(t2h') : t2h'[i].kind = "CRC"
    BY <2>1, <2>2, <1>t, CrcRead
  <2>4. CrcComes(t2h)'
    BY <2>1, <2>3 DEF CrcComes
  <2>5. AtCrc'
    BY <2>1, <2>2, <2>3, <2>4 DEF AtCrc, Answered
  <2>6. QED BY <2>1, <2>5 DEF LockStep
<1>6. CASE Skip
  <2>1. /\ t2h # <<>> /\ t2h' = Tail(t2h) /\ UNCHANGED <<h_pc, h_pay, h_blk, h2t>>
        /\ \/ h_pc = "await" \/ h_pc = "eot"
           \/ h_pc = "crc" /\ t2h[1].kind # "CRC"
    BY <1>6, <1>e DEF Skip, Read, hostVars
  <2>2. /\ Transfer => Transfer'
        /\ Ahead => Ahead'
        /\ Answered => Answered'
    BY <2>1 DEF Transfer, Packets, OldOrNew, Ahead, Answered
  <2>3. CrcComes(t2h) => CrcComes(t2h)'
    <3>1. CrcComes(t2h) => CrcComes(t2h')
      BY <2>1, <1>t, CrcRead
    <3>2. QED BY <2>1, <3>1 DEF CrcComes
  <2>4. CASE h_pc = "await"
    <3>1. Transfer /\ AckDue
      BY <2>4 DEF LockStep, AtBlock
    <3>2. AckDue'
      BY <3>1, <2>1, <1>e DEF AckDue
    <3>3. QED BY <3>1, <3>2, <2>1, <2>2, <2>4 DEF LockStep, AtBlock
  <2>5. CASE h_pc = "eot"
    <3>1. AtEot'
      <4>1. \/ Transfer /\ h_blk = Blocks[h_pay] /\ Len(dest[h_pay]) = h_blk /\ OnlyNaks(t2h)
            \/ Answered /\ t_pc = "resp" /\ h2t = <<>> /\ CrcComes(t2h)
            \/ Ahead /\ OnlyNaks(t2h)
        BY <2>1, <2>5 DEF LockStep, AtEot
      <4>2. QED BY <4>1, <2>1, <2>2, <2>3, <1>e DEF AtEot
    <3>2. QED BY <3>1, <2>1, <2>5 DEF LockStep
  <2>6. CASE h_pc = "crc" /\ t2h[1].kind # "CRC"
    <3>1. \/ \A i \in 1 .. Len(t2h) : t2h[i].kind = "CRC"
          \/ Ahead /\ OnlyNaks(t2h)
      BY <2>1, <2>6 DEF LockStep, AtCrc
    <3>2. 1 \in 1 .. Len(t2h)
      BY <2>1, <1>t, TailOf
    <3>3. Ahead /\ OnlyNaks(t2h)
      BY <3>1, <3>2, <2>6
    <3>4. AtCrc'
      BY <3>3, <2>1, <2>2, <1>e DEF AtCrc
    <3>5. QED BY <3>4, <2>1, <2>6 DEF LockStep
  <2>7. QED BY <2>1, <2>4, <2>5, <2>6
<1>7. CASE Verdict
  <2>1. /\ h_pc = "crc" /\ t2h # <<>> /\ t2h[1].kind = "CRC" /\ t2h' = Tail(t2h)
        /\ \/ (PutByte("ACK") \/ h2t' = h2t) /\ Success
           \/ PutByte("NAK") /\ Fail
    BY <1>7, <1>e DEF Verdict, Read
  <2>2. Answered /\ t_pc = "resp" /\ h2t = <<>> /\ CrcComes(t2h)
    BY <2>1, <1>e DEF LockStep, AtCrc
  <2>3. t2h' = <<>>
    BY <2>1, <2>2, <1>t, CrcRead
  <2>4. \A k : PutByte(k) => h2t' \in {<<>>, <<Ctl(k)>>}
    <3>1. \A k : Append(<<>>, Ctl(k)) = <<Ctl(k)>>
      OBVIOUS
    <3>2. QED BY <2>2, <3>1, PutByteOutcome
  <2>5. CASE (PutByte("ACK") \/ h2t' = h2t) /\ Success
    BY <2>1, <2>2, <2>3, <2>4, <2>5, SuccessLock
  <2>6. CASE PutByte("NAK") /\ Fail
    BY <2>2, <2>4, <2>6, FailLock
  <2>7. QED BY <2>1, <2>5, <2>6
<1>8. CASE PromptTimeout /\ (h2t = <<>> \/ t_pc \in {"boot", "halt"})
  <2>1. h_pc = "prompt" /\ t_pc \in {"halt", "boot"} /\ Fail /\ h2t' = h2t
    BY <1>8 DEF PromptTimeout, lineVars
  <2>2. /\ h_blk = 1 /\ t_pay = h_pay /\ t_pc = "halt" /\ dest[h_pay] = <<>> /\ h2t = <<>>
    BY <2>1 DEF LockStep, AtPrompt
  <2>3. Transfer
    BY <2>2, EmptySeq, Facts DEF Transfer, Packets
  <2>4. QED BY <2>1, <2>3, FailLock
<1>9. CASE BlockTimeout /\ (h2t = <<>> \/ t_pc \in {"boot", "halt"})
  BY <1>9, AgainLock DEF BlockTimeout, lineVars
<1>10. CASE EotTimeout /\ (h2t = <<>> \/ t_pc \in {"boot", "halt"})
  <2>1. h_pc = "eot" /\ Fail /\ h2t' = h2t
    BY <1>10 DEF EotTimeout, lineVars
  <2>2. \/ Transfer
        \/ Answered /\ h2t = <<>>
        \/ Ahead /\ h2t = <<>>
    BY <2>1 DEF LockStep, AtEot, Ahead
  <2>3. Transfer => t_pc # "boot"
    BY DEF Transfer
  <2>4. QED BY <1>10, <2>1, <2>2, <2>3, FailLock
<1>11. CASE CrcTimeout /\ (h2t = <<>> \/ t_pc \in {"boot", "halt"})
  <2>1. h_pc = "crc" /\ t2h' = <<>> /\ h2t' = h2t /\ Success
    BY <1>11 DEF CrcTimeout, lineVars
  <2>2. (Answered \/ Ahead) /\ h2t = <<>>
    BY <2>1 DEF LockStep, AtCrc, Ahead
  <2>3. QED BY <2>1, <2>2, SuccessLock
<1>12. QED BY <1>1, <1>2, <1>3, <1>4, <1>5, <1>6, <1>7, <1>8, <1>9, <1>10, <1>11
           DEF HostStep, HostTimeout

\* Every step keeps host and target in step.
LEMMA LockStepKept ==
  ASSUME InStep, TypeOK, ReceiverInv, InOrder, LockStep, [Next]_vars
  PROVE  LockStep'
<1>1. CASE HostActs \/ HostExpires
  BY <1>1, HostLock DEF HostActs, HostExpires, TargetStays
<1>2. CASE TargetActs
  BY <1>2, TargetLock DEF TargetActs
<1>3. CASE TargetExpires
  BY <1>3, ReceiveTimeoutLock, VerdictTimeoutLock DEF TargetExpires, TargetTimeout
<1>4. CASE Over \/ UNCHANGED vars
  <2>1. UNCHANGED <<h2t, t2h, t_pc, t_pay, dest, h_pc, h_pay, h_blk>>
    BY <1>4 DEF Over, vars, lineVars, targetVars, hostVars
  <2>2. QED BY <2>1 DEF LockStep, AtPrompt, AtBlock, AtEot, AtCrc, AtConsole, AtFailed,
               Transfer, Answered, Ahead, AckDue, CrcComes, Packets, OldOrNew, OnlyNaks, OneAck
<1>5. QED BY <1>1, <1>2, <1>3, <1>4 DEF Next

-----------------------------------------------------------------------------
(* What is stored is what was sent.                                        *)

\* The flaws a boot meets are of one scenario.
LEMMA ScenarioStays == [Next]_vars => scenario' = scenario
  BY DEF Next, HostActs, TargetActs, HostExpires, TargetExpires, Over, vars

\* Where there is no silent damage, what is stored is good.
LEMMA GoodStep ==
  ASSUME InStep, TypeOK, ReceiverInv, InOrder, LockStep, GoodInv, [Next]_vars
  PROVE  GoodInv'
<1>1. SUFFICES ASSUME "silent" \notin scenario
               PROVE  /\ \A p \in Payload : \A i \in 1 .. Len(dest'[p]) : dest'[p][i].good
                      /\ \A i \in 1 .. Len(h2t') : h2t'[i].flaw # "silent"
  BY ScenarioStays DEF GoodInv
<1>2. /\ \A p \in Payload : \A i \in 1 .. Len(dest[p]) : dest[p][i].good
      /\ \A i \in 1 .. Len(h2t) : h2t[i].flaw # "silent"
  BY <1>1 DEF GoodInv
<1>3. ASSUME h2t # <<>>, h2t' = Tail(h2t)
      PROVE  \A i \in 1 .. Len(h2t') : h2t'[i].flaw # "silent"
  <2>1. /\ Len(h2t) \in Nat \ {0} /\ Len(h2t') = Len(h2t) - 1
        /\ \A i \in 1 .. Len(h2t) - 1 : h2t'[i] = h2t[i + 1] /\ i + 1 \in 1 .. Len(h2t)
    BY <1>3, TailOf DEF TypeOK
  <2>2. QED BY <2>1, <1>2
<1>4. ASSUME h2t' = <<>> PROVE \A i \in 1 .. Len(h2t') : h2t'[i].flaw # "silent"
  BY <1>4, EmptySeq
<1>5. ASSUME NEW x \in HostItem, x.flaw # "silent", h2t' = Append(h2t, x)
      PROVE  \A i \in 1 .. Len(h2t') : h2t'[i].flaw # "silent"
  <2>1. /\ Len(h2t') = Len(h2t) + 1 /\ h2t'[Len(h2t) + 1] = x
        /\ \A i \in 1 .. Len(h2t) + 1 : i \in 1 .. Len(h2t) \/ i = Len(h2t) + 1
        /\ \A i \in 1 .. Len(h2t) : h2t'[i] = h2t[i]
    BY <1>5, AppendOf DEF TypeOK
  <2>2. QED BY <2>1, <1>2, <1>5
<1>6. ASSUME NEW k \in {"EOT", "ACK", "NAK"}, PutByte(k)
      PROVE  \A i \in 1 .. Len(h2t') : h2t'[i].flaw # "silent"
  <2>1. Ctl(k) \in HostItem /\ Ctl(k).flaw # "silent"
    BY Items
  <2>2. QED BY <2>1, <1>2, <1>5, <1>6, PutByteOutcome
<1>7. CASE TargetStep
  <2>1. CASE Stores
    <3>1. h2t[1].flaw # "silent" /\ h2t[1].flaw \in {"none", "silent"} /\ h2t # <<>>
      BY <2>1, <1>2, TailOf DEF Stores, TypeOK
    <3>2. Block(h_pay, h_blk, h2t[1].flaw).good
      BY <3>1 DEF Block
    <3>3. \A i \in 1 .. Len(dest'[h_pay]) : dest'[h_pay][i].good
      <4>1. SUFFICES ASSUME NEW i \in 1 .. Len(dest'[h_pay]) PROVE dest'[h_pay][i].good
        OBVIOUS
      <4>2. /\ Len(dest'[h_pay]) = h_blk /\ h_blk \in Nat /\ Len(dest[h_pay]) = h_blk - 1
            /\ \A j \in 1 .. h_blk - 1 : dest'[h_pay][j] = dest[h_pay][j]
            /\ dest'[h_pay][h_blk] = Block(h_pay, h_blk, h2t[1].flaw)
        BY <2>1, Facts, StoresReceiver DEF Stores
      <4>3. CASE i = h_blk
        BY <4>2, <4>3, <3>2
      <4>4. CASE i \in 1 .. h_blk - 1
        <5>1. dest'[h_pay][i] = dest[h_pay][i] /\ i \in 1 .. Len(dest[h_pay])
          BY <4>2, <4>4
        <5>2. dest[h_pay][i].good
          BY <5>1, <1>2, Facts
        <5>3. QED BY <5>1, <5>2, Zenon
      <4>5. QED BY <4>1, <4>2, <4>3, <4>4
    <3>4. \A p \in Payload : p # h_pay => dest'[p] = dest[p]
      BY <2>1, StoresReceiver
    <3>5. \A p \in Payload : \A i \in 1 .. Len(dest'[p]) : dest'[p][i].good
      BY <3>3, <3>4, <1>2, Zenon
    <3>6. QED BY <2>1, <3>1, <3>5, <1>3 DEF Stores
  <2>2. CASE Refuses
    BY <2>2, <1>2, <1>3 DEF Refuses
  <2>3. CASE Ends
    BY <2>3, <1>2, <1>4 DEF Ends
  <2>4. CASE GoesOn
    <3>1. dest' = dest
      BY <2>4 DEF GoesOn, Proceed
    <3>2. QED BY <2>4, <3>1, <1>2, <1>4 DEF GoesOn
  <2>5. CASE Stops
    BY <2>5, <1>2, <1>4 DEF Stops
  <2>6. QED BY <1>7, <2>1, <2>2, <2>3, <2>4, <2>5, TargetCases
<1>8. ASSUME UNCHANGED <<dest, h2t>>
      PROVE  /\ \A p \in Payload : \A i \in 1 .. Len(dest'[p]) : dest'[p][i].good
             /\ \A i \in 1 .. Len(h2t') : h2t'[i].flaw # "silent"
  BY <1>2, <1>8
<1>9. CASE TargetTimeout
  <2>1. UNCHANGED <<dest, h2t>>
    BY <1>9 DEF TargetTimeout, ReceiveTimeout, VerdictTimeout, Halt, Proceed
  <2>2. QED BY <2>1, <1>8
<1>10. CASE HostActs
  <2>1. dest' = dest /\ HostStep
    BY <1>10 DEF HostActs, TargetStays
  <2>2. CASE SendBlock
    <3>1. h_pay \in Payload /\ h_blk \in Nat /\ PutPacket(h_pay, h_blk)
      BY <2>2, Facts DEF SendBlock
    <3>2. \/ h2t' = h2t
          \/ \E f \in {"none", "garbled", "silent"} :
               /\ h2t' = Append(h2t, Packet(h_pay, h_blk, f))
               /\ f = "silent" => "silent" \in scenario
      BY <3>1, PutPacketOutcome
    <3>3. CASE h2t' = h2t
      BY <3>3, <2>1, <1>8
    <3>4. ASSUME NEW f \in {"none", "garbled", "silent"}, f # "silent",
                 h2t' = Append(h2t, Packet(h_pay, h_blk, f))
          PROVE  \A i \in 1 .. Len(h2t') : h2t'[i].flaw # "silent"
      <4>1. Packet(h_pay, h_blk, f) \in HostItem /\ Packet(h_pay, h_blk, f).flaw # "silent"
        BY <3>1, <3>4, Items
      <4>2. QED BY <4>1, <3>4, <1>5
    <3>5. QED BY <3>2, <3>3, <3>4, <2>1, <1>1, <1>2
  <2>3. CASE BlockAcked
    <3>1. h2t' = h2t \/ PutByte("EOT")
      BY <2>3 DEF BlockAcked
    <3>2. QED BY <3>1, <2>1, <1>2, <1>6
  <2>4. CASE Verdict
    <3>1. h2t' = h2t \/ PutByte("ACK") \/ PutByte("NAK")
      BY <2>4 DEF Verdict
    <3>2. QED BY <3>1, <2>1, <1>2, <1>6
  <2>5. CASE Prompted \/ BlockRefused \/ EotAcked \/ Skip
    BY <2>1, <2>5, <1>8 DEF Prompted, BlockRefused, EotAcked, Skip
  <2>6. QED BY <2>1, <2>2, <2>3, <2>4, <2>5 DEF HostStep
<1>11. CASE HostExpires \/ Over \/ UNCHANGED vars
  <2>1. UNCHANGED <<dest, h2t>>
    BY <1>11 DEF HostExpires, TargetStays, HostTimeout, PromptTimeout, BlockTimeout,
       EotTimeout, CrcTimeout, Over, vars, lineVars, targetVars
  <2>2. QED BY <2>1, <1>8
<1>12. QED BY <1>7, <1>9, <1>10, <1>11 DEF Next, TargetActs, TargetExpires

\* Where there is, no answer is lost, and the target waits for the host's
\* comparison.
LEMMA NothingLost ==
  ASSUME InStep, Detectable, TypeOK, "silent" \in scenario
  PROVE  /\ \A k : PutByte(k) => h2t' = Append(h2t, Ctl(k))
         /\ \A x \in Reply : ReplyAll(<<x>>) => t2h' = Append(t2h, x)
         /\ \A x, y \in Reply : ReplyAll(<<x, y>>) => t2h' = Append(Append(t2h, x), y)
         /\ "crc_garbled" \notin scenario
<1>1. "ctl_lost" \notin scenario /\ "reply_lost" \notin scenario /\ "crc_garbled" \notin scenario
  BY DEF Detectable, TypeOK
<1>2. QED BY <1>1, PutByteOutcome, ReplyOne, ReplyTwo

\* ... in the steps of the target,
LEMMA ComparedTarget ==
  ASSUME InStep, Detectable, TypeOK, ReceiverInv, InOrder, LockStep, ComparedInv,
         TargetStep \/ TargetTimeout, UNCHANGED hostVars,
         TargetTimeout => (h_pc \in {"eot", "crc"} => t2h = <<>>), scenario' = scenario
  PROVE  ComparedInv'
<1>1. SUFFICES ASSUME "silent" \in scenario PROVE ComparedInv'
  BY DEF ComparedInv
<1>2. /\ t_pay <= h_pay /\ (t_pc = "boot" => h_pc = "console")
      /\ \A p \in Payload : p < h_pay \/ h_pc = "console" => dest[p] = Sent(p)
      /\ t_pay < h_pay => h2t = <<Ctl("ACK")>>
      /\ h_pc = "console" => t_pc = "boot" \/ h2t = <<Ctl("ACK")>>
      /\ h_pc = "eot" /\ t_pay = h_pay /\ t_pc # "recv" =>
           \/ t_pc = "halt" /\ OnlyNaks(t2h)
           \/ /\ Len(t2h) > 1 /\ t2h[Len(t2h) - 1].kind = "ACK"
              /\ t2h[Len(t2h)] = CrcLine(dest[h_pay], "none")
      /\ h_pc = "crc" => t2h = <<CrcLine(dest[h_pay], "none")>> /\ t_pc = "resp"
      /\ h_pc = "failed" /\ t_pc = "resp" => h2t = <<Ctl("NAK")>>
  BY <1>1 DEF ComparedInv
<1>h. h_pc' = h_pc /\ h_pay' = h_pay /\ h_blk' = h_blk
  BY DEF hostVars
<1>c. \A k : <<Ctl(k)>> # <<>>
  OBVIOUS
<1>3. CASE Stores \/ Refuses
  <2>1. /\ t_pc = "recv" /\ t_pc' = "recv" /\ t_pay = h_pay /\ t_pay' = t_pay
        /\ h_pc \in {"send", "await", "eot", "failed"}
        /\ \A p \in Payload : p # h_pay => dest'[p] = dest[p]
    BY <1>3, StoresReceiver DEF Stores, Refuses, Transfer
  <2>2. \A p \in Payload : p < h_pay => p # h_pay
    BY Facts
  <2>3. QED BY <2>1, <2>2, <1>2, <1>h, Facts DEF ComparedInv
<1>4. CASE Ends
  <2>1. /\ t_pay = h_pay /\ h_pc = "eot" /\ h2t' = <<>> /\ t_pc' = "resp"
        /\ t_pay' = t_pay /\ dest' = dest
        /\ ReplyAll(<<Byte("ACK"), CrcLine(dest[h_pay], "none")>>)
    BY <1>1, <1>4, NothingLost DEF Ends, Transfer
  <2> DEFINE a == Byte("ACK")
             c == CrcLine(dest[h_pay], "none")
  <2>2. a \in Reply /\ c \in Reply /\ a.kind = "ACK"
    BY Items, Facts
  <2>3. t2h' = Append(Append(t2h, a), c) /\ t2h \in Seq(Reply)
    BY <2>1, <2>2, <1>1, NothingLost DEF TypeOK
  <2> HIDE DEF a, c
  <2>4. /\ Append(t2h, a) \in Seq(Reply) /\ Len(Append(t2h, a)) = Len(t2h) + 1
        /\ Append(t2h, a)[Len(t2h) + 1] = a /\ Len(t2h) \in Nat
    BY <2>2, <2>3, AppendOf
  <2>5. /\ Len(t2h') = Len(t2h) + 2 /\ t2h'[Len(t2h) + 2] = c
        /\ t2h'[Len(t2h) + 1] = Append(t2h, a)[Len(t2h) + 1]
    <3> DEFINE u == Append(t2h, a)
               n == Len(t2h) + 1
    <3>1. u \in Seq(Reply) /\ Len(u) = n /\ n \in Nat /\ n \in 1 .. n
      BY <2>4
    <3> HIDE DEF u, n
    <3>2. Len(Append(u, c)) = n + 1 /\ Append(u, c)[n + 1] = c /\ Append(u, c)[n] = u[n]
      BY <3>1, <2>2, AppendOf
    <3>3. n + 1 = Len(t2h) + 2
      BY <2>4 DEF n
    <3>4. QED BY <2>3, <3>2, <3>3 DEF u, n
  <2>6. Len(t2h') > 1 /\ t2h'[Len(t2h') - 1].kind = "ACK" /\ t2h'[Len(t2h')] = c
    <3>1. Len(t2h') - 1 = Len(t2h) + 1 /\ Len(t2h') > 1
      BY <2>4, <2>5
    <3>2. QED BY <3>1, <2>2, <2>4, <2>5
  <2>7. QED BY <2>1, <2>6, <1>2, <1>h, Facts DEF ComparedInv, c
<1>5. CASE GoesOn
  <2>1. t_pc = "resp" /\ h2t' = <<>> /\ Proceed
    BY <1>5 DEF GoesOn
  <2>2. CASE h_pc = "prompt" /\ t_pay = h_pay - 1 /\ t2h = <<>>
    <3>1. t_pay' = h_pay /\ t_pc' = "recv" /\ dest' = dest
      BY <2>1, <2>2, Facts, ProceedOutcome
    <3>2. QED BY <2>1, <2>2, <3>1, <1>2, <1>h, Facts DEF ComparedInv
  <2>3. CASE h_pc = "console"
    <3>1. t_pay = h_pay /\ h_pay = Len(Blocks) /\ DTB \in Payload
      BY <2>3, BootAssumption DEF LockStep, AtConsole, Answered
    <3>2. dest[DTB] = Sent(DTB)
      BY <2>3, <3>1, <1>2
    <3>3. dest' = dest /\ t_pay' = t_pay /\ t_pc' = "boot"
      BY <2>1, <3>1, <3>2, Facts, ProceedOutcome
    <3>4. QED BY <2>1, <2>3, <3>1, <3>3, <1>2, <1>h, Facts DEF ComparedInv
  <2>4. QED BY <1>5, <2>2, <2>3 DEF GoesOn
<1>6. CASE Stops
  <2>1. h_pc = "failed" /\ t_pc' = "halt" /\ t_pay' = t_pay /\ dest' = dest /\ h2t' = <<>>
    BY <1>6 DEF Stops
  <2>2. t_pay = h_pay
    BY <1>6 DEF Stops, LockStep, AtFailed, Transfer, Answered, Ahead
  <2>3. QED BY <2>1, <2>2, <1>2, <1>h, Facts DEF ComparedInv
<1>7. CASE ReceiveTimeout
  <2>1. /\ t_pc = "recv" /\ t_pc' \in {"recv", "halt"} /\ h2t = <<>> /\ h2t' = h2t
        /\ t_pay' = t_pay /\ dest' = dest
    BY <1>7 DEF ReceiveTimeout, Halt
  <2>2. t_pay = h_pay /\ h_pc \notin {"console", "crc"}
    BY <2>1, <1>2, <1>c, Facts
  <2>3. h_pc = "eot" => OnlyNaks(t2h')
    <3>1. h_pc = "eot" => OnlyNaks(t2h)
      BY <2>1 DEF LockStep, AtEot, Answered
    <3>2. OnlyNaks(t2h) => OnlyNaks(t2h')
      BY <1>7, NaksAdded DEF ReceiveTimeout
    <3>3. QED BY <3>1, <3>2
  <2>4. QED BY <2>1, <2>2, <2>3, <1>2, <1>h, Facts DEF ComparedInv
<1>8. CASE VerdictTimeout
  <2>1. t_pc = "resp" /\ h2t = <<>>
    BY <1>8 DEF VerdictTimeout
  <2>2. t_pay = h_pay
    BY <2>1, <1>2, <1>c, Facts
  <2>3. h_pc # "prompt"
    BY <2>1, <2>2, Facts DEF LockStep, AtPrompt
  <2>4. h_pc \notin {"send", "await"}
    BY <2>1 DEF LockStep, AtBlock, Transfer
  <2>5. h_pc # "eot"
    <3>1. Len(<<>>) = 0
      BY EmptySeq
    <3>2. QED BY <2>1, <2>2, <3>1, <1>2, <1>8 DEF TargetTimeout
  <2>6. h_pc # "crc"
    BY <1>2, <1>8 DEF TargetTimeout
  <2>7. h_pc \notin {"console", "failed"}
    BY <2>1, <1>2, <1>c
  <2>8. QED BY <2>3, <2>4, <2>5, <2>6, <2>7 DEF TypeOK
<1>9. QED BY <1>3, <1>4, <1>5, <1>6, <1>7, <1>8, TargetCases DEF TargetTimeout


\* ... and in those of the host: the CRC line is the whole of what comes back.
LEMMA ComparedHost ==
  ASSUME InStep, Detectable, TypeOK, ReceiverInv, LockStep, ComparedInv,
         HostStep \/ (HostTimeout /\ (h2t = <<>> \/ t_pc \in {"boot", "halt"})),
         UNCHANGED <<t_pc, t_pay, dest>>, scenario' = scenario
  PROVE  ComparedInv'
<1>1. SUFFICES ASSUME "silent" \in scenario PROVE ComparedInv'
  BY DEF ComparedInv
<1>2. /\ t_pay <= h_pay /\ (t_pc = "boot" => h_pc = "console")
      /\ \A p \in Payload : p < h_pay \/ h_pc = "console" => dest[p] = Sent(p)
      /\ t_pay < h_pay => h2t = <<Ctl("ACK")>>
      /\ h_pc = "eot" /\ t_pay = h_pay /\ t_pc # "recv" =>
           \/ t_pc = "halt" /\ OnlyNaks(t2h)
           \/ /\ Len(t2h) > 1 /\ t2h[Len(t2h) - 1].kind = "ACK"
              /\ t2h[Len(t2h)] = CrcLine(dest[h_pay], "none")
      /\ h_pc = "crc" => t2h = <<CrcLine(dest[h_pay], "none")>> /\ t_pc = "resp"
  BY <1>1 DEF ComparedInv
<1>t. t2h \in Seq(Reply) /\ (t2h # <<>> => Out = t2h[1] /\ t2h[1] \in Reply)
  BY TailOf DEF TypeOK, Out
<1>n. /\ t2h # <<>> /\ OnlyNaks(t2h) => OnlyNaks(Tail(t2h)) /\ t2h[1].kind \notin {"ACK", "CRC"}
      /\ t2h # <<>> /\ OneAck(t2h) /\ t2h[1].kind = "ACK" => OnlyNaks(Tail(t2h))
  BY <1>t, AnswersRead
<1>a. Ahead => FALSE
  BY <1>2, Facts DEF Ahead
<1>3. ASSUME t_pay = h_pay, h_pay' = h_pay, t_pc \in {"recv", "halt"},
             h_pc' \in {"send", "await", "eot", "failed"}, h_pc' = "eot" => OnlyNaks(t2h')
      PROVE  ComparedInv'
  BY <1>2, <1>3, Facts DEF ComparedInv
<1>4. CASE h_pc \in {"send", "await"}
  <2>1. t_pay = h_pay /\ t_pc \in {"recv", "halt"} /\ AckDue
    BY <1>4 DEF LockStep, AtBlock, Transfer
  <2>2. h_pay' = h_pay /\ h_pc' \in {"send", "await", "eot", "failed"}
    BY <1>4 DEF HostStep, HostTimeout, Prompted, SendBlock, BlockAcked, BlockRefused,
       EotAcked, Skip, Verdict, PromptTimeout, BlockTimeout, EotTimeout, CrcTimeout,
       Again, Fail, hostVars
  <2>3. h_pc' = "eot" => t2h # <<>> /\ t2h[1].kind = "ACK" /\ t2h' = Tail(t2h)
    BY <1>4, <1>t DEF HostStep, HostTimeout, Prompted, SendBlock, BlockAcked, BlockRefused,
       EotAcked, Skip, Verdict, PromptTimeout, BlockTimeout, EotTimeout, CrcTimeout,
       Again, Fail, hostVars, Read
  <2>4. h_pc' = "eot" => OnlyNaks(t2h')
    BY <2>1, <2>3, <1>n DEF AckDue
  <2>5. QED BY <2>1, <2>2, <2>4, <1>3
<1>5. CASE h_pc = "prompt"
  <2>1. \/ /\ h_pc' = "send" /\ h_pay' = h_pay /\ t2h # <<>>
        \/ /\ h_pc' = "failed" /\ h_pay' = h_pay /\ t_pc \in {"halt", "boot"}
    <3>1. Prompted \/ PromptTimeout
      BY <1>5 DEF HostStep, HostTimeout, SendBlock, BlockAcked, BlockRefused,
         EotAcked, Skip, Verdict, BlockTimeout, EotTimeout, CrcTimeout
    <3>2. CASE Prompted
      <4>1. \E i \in 1 .. Len(t2h) : t2h[i].kind = "NAK"
        BY <3>2, Zenon DEF Prompted
      <4>2. QED BY <4>1, <3>2, EmptySeq DEF Prompted
    <3>3. QED BY <3>1, <3>2 DEF PromptTimeout, Fail
  <2>2. t_pay = h_pay /\ t_pc \in {"recv", "halt"}
    BY <2>1, <1>2, <1>5 DEF LockStep, AtPrompt
  <2>3. QED BY <2>1, <2>2, <1>3
<1>6. CASE h_pc = "eot"
  <2>1. \/ t_pay = h_pay /\ t_pc \in {"recv", "halt"} /\ OnlyNaks(t2h)
        \/ /\ Answered /\ Len(t2h) > 1 /\ t2h[Len(t2h) - 1].kind = "ACK" /\ t2h # <<>>
           /\ t2h[Len(t2h)] = CrcLine(dest[h_pay], "none")
           /\ t_pc = "resp" /\ CrcComes(t2h)
    <3>1. CASE Transfer /\ OnlyNaks(t2h)
      BY <3>1 DEF Transfer
    <3>2. CASE Answered /\ t_pc = "resp" /\ CrcComes(t2h)
      BY <3>2, <1>2, <1>6, EmptySeq DEF Answered
    <3>3. CASE Answered /\ t_pc # "resp" /\ t2h = <<>>
      BY <3>3, <1>2, <1>6, EmptySeq DEF Answered
    <3>4. QED BY <3>1, <3>2, <3>3, <1>a, <1>6 DEF LockStep, AtEot
  <2>2. \/ EotAcked
        \/ /\ t2h # <<>> /\ t2h' = Tail(t2h) /\ t2h[1].kind # "ACK"
           /\ h_pc' = "eot" /\ h_pay' = h_pay /\ h2t' = h2t
        \/ t2h = <<>> /\ h_pc' = "failed" /\ h_pay' = h_pay
    BY <1>6, <1>t DEF HostStep, HostTimeout, Prompted, SendBlock, BlockAcked, BlockRefused,
         Skip, Verdict, PromptTimeout, BlockTimeout, EotTimeout, CrcTimeout, Fail, Read,
         hostVars
  <2>3. CASE t_pay = h_pay /\ t_pc \in {"recv", "halt"} /\ OnlyNaks(t2h)
    <3>1. ~EotAcked
      BY <2>3, <1>n, <1>t DEF EotAcked
    <3>2. QED BY <2>2, <2>3, <3>1, <1>n, <1>3
  <2>4. CASE /\ Answered /\ Len(t2h) > 1 /\ t2h[Len(t2h) - 1].kind = "ACK" /\ t2h # <<>>
             /\ t2h[Len(t2h)] = CrcLine(dest[h_pay], "none")
             /\ t_pc = "resp" /\ CrcComes(t2h)
    <3> DEFINE n == Len(t2h)
               c == CrcLine(dest[h_pay], "none")
    <3>1. /\ n \in Nat \ {0} /\ Len(Tail(t2h)) = n - 1 /\ Tail(t2h) \in Seq(Reply)
          /\ \A i \in 1 .. n - 1 : Tail(t2h)[i] = t2h[i + 1]
      BY <2>4, <1>t, TailOf
    <3>2. n > 1 /\ t2h[n - 1].kind = "ACK" /\ t2h[n] = c /\ t_pay = h_pay
      BY <2>4 DEF Answered
    <3>3. CASE EotAcked
      <4>1. /\ t2h[1].kind = "ACK" /\ t2h' = Tail(t2h) /\ h_pc' = "crc" /\ h_pay' = h_pay
        BY <3>3, <1>t DEF EotAcked, Read
      <4>2. \A j \in 1 + 1 .. n : t2h[j].kind = "CRC"
        <5>1. 1 \in 1 .. n
          BY <3>1
        <5>2. QED BY <5>1, <4>1, <2>4, Zenon DEF CrcComes
      <4>3. n = 2
        <5>1. SUFFICES ASSUME n # 2 PROVE FALSE
          OBVIOUS
        <5>2. n - 1 \in 1 + 1 .. n
          BY <5>1, <3>1, <3>2
        <5>3. t2h[n - 1].kind = "CRC"
          BY <5>2, <4>2, Zenon
        <5>4. QED BY <5>3, <3>2
      <4>4. Len(t2h') = 1 /\ t2h'[1] = c
        BY <4>1, <4>3, <3>1, <3>2
      <4>5. t2h' = <<c>>
        <5> HIDE DEF c
        <5>1. t2h' \in Seq(Reply) /\ c \in Reply
          BY <4>1, <3>1, Items, Facts DEF c
        <5>2. <<c>> \in Seq(Reply) /\ Len(<<c>>) = 1 /\ <<c>>[1] = c
          BY <5>1
        <5>3. QED BY <4>4, <5>1, <5>2, SeqEqual
      <4>6. t2h' = <<CrcLine(dest[h_pay], "none")>>'
        BY <4>1, <4>5
      <4>7. \A p \in Payload : p < h_pay' \/ h_pc' = "console" => dest'[p] = Sent(p)
        BY <4>1, <1>2
      <4>8. t_pc' = "resp" /\ t_pay' <= h_pay' /\ ~(t_pay' < h_pay') /\ h_pc' = "crc"
        BY <4>1, <3>2, <2>4, Facts
      <4>9. /\ t_pc' # "boot" /\ h_pc' # "eot" /\ h_pc' # "console" /\ h_pc' # "failed"
        BY <4>8
      <4> HIDE DEF c, n
      <4>10. QED BY <4>6, <4>7, <4>8, <4>9, Zenon DEF ComparedInv
    <3>4. CASE /\ t2h' = Tail(t2h) /\ t2h[1].kind # "ACK"
               /\ h_pc' = "eot" /\ h_pay' = h_pay /\ h2t' = h2t
      <4>1. n # 2
        BY <3>2, <3>4
      <4>2. n - 2 \in 1 .. n - 1 /\ n - 1 \in 1 .. n - 1 /\ (n - 2) + 1 = n - 1 /\ (n - 1) + 1 = n
        BY <4>1, <3>1, <3>2
      <4>3. /\ Len(t2h') = n - 1 /\ t2h'[n - 2] = t2h[n - 1] /\ t2h'[n - 1] = t2h[n]
        <5>1. Tail(t2h)[n - 2] = t2h[(n - 2) + 1] /\ Tail(t2h)[n - 1] = t2h[(n - 1) + 1]
          BY <4>2, <3>1, Zenon
        <5>2. QED BY <5>1, <4>2, <3>1, <3>4
      <4>4. n - 1 > 1 /\ (n - 1) - 1 = n - 2
        BY <4>1, <3>1, <3>2
      <4>5. Len(t2h') > 1 /\ t2h'[Len(t2h') - 1].kind = "ACK" /\ t2h'[Len(t2h')] = c
        BY <4>3, <4>4, <3>2
      <4>6. QED BY <4>5, <3>2, <3>4, <2>4, <1>2, Facts DEF ComparedInv
    <3>5. QED BY <2>2, <2>4, <3>3, <3>4
  <2>5. QED BY <2>1, <2>3, <2>4
<1>7. CASE h_pc = "crc"
  <2> DEFINE c == CrcLine(dest[h_pay], "none")
  <2>1. t2h = <<c>> /\ t_pc = "resp" /\ t2h # <<>> /\ Out = c
    BY <1>2, <1>7 DEF Out
  <2>2. c.kind = "CRC" /\ c.data = dest[h_pay] /\ c.flaw = "none"
    BY DEF CrcLine
  <2>3. t_pay = h_pay /\ h2t = <<>>
    BY <2>1, <1>7, <1>a DEF LockStep, AtCrc, Answered
  <2>4. Verdict
    BY <2>1, <2>2, <1>7 DEF HostStep, HostTimeout, Prompted, SendBlock, BlockAcked,
       BlockRefused, EotAcked, Skip, PromptTimeout, BlockTimeout, EotTimeout, CrcTimeout
  <2>5. \A k : PutByte(k) => h2t' = <<Ctl(k)>>
    <3>1. \A k : Append(<<>>, Ctl(k)) = <<Ctl(k)>>
      OBVIOUS
    <3>2. QED BY <3>1, <2>3, <1>1, NothingLost
  <2>6. \/ dest[h_pay] = Sent(h_pay) /\ h2t' = <<Ctl("ACK")>> /\ Success
        \/ h2t' = <<Ctl("NAK")>> /\ Fail
    <3> HIDE DEF c
    <3>1. \/ dest[h_pay] = Sent(h_pay) /\ PutByte("ACK") /\ Success
          \/ PutByte("NAK") /\ Fail
      BY <2>1, <2>2, <2>4 DEF Verdict
    <3>2. QED BY <3>1, <2>5
  <2>7. CASE h2t' = <<Ctl("NAK")>> /\ Fail
    BY <2>7, <2>1, <2>3, <1>2, Facts DEF Fail, ComparedInv
  <2>8. CASE dest[h_pay] = Sent(h_pay) /\ h2t' = <<Ctl("ACK")>> /\ Success
    <3>1. \A p \in Payload : p < h_pay + 1 => dest[p] = Sent(p)
      <4>1. \A p \in Payload : p < h_pay + 1 => p < h_pay \/ p = h_pay
        BY Facts DEF Payload
      <4>2. QED BY <4>1, <2>8, <1>2, Zenon
    <3>2. CASE h_pay < Len(Blocks) /\ h_pc' = "prompt" /\ h_pay' = h_pay + 1
      BY <3>1, <3>2, <2>1, <2>3, <2>8, <1>2, Facts DEF ComparedInv
    <3>3. CASE h_pay = Len(Blocks) /\ h_pc' = "console" /\ h_pay' = h_pay
      <4>1. \A p \in Payload : dest[p] = Sent(p)
        <5>1. \A p \in Payload : p < h_pay + 1
          BY <3>3, Facts DEF Payload
        <5>2. QED BY <5>1, <3>1
      <4>2. QED BY <4>1, <3>3, <2>1, <2>3, <2>8, <1>2, Facts DEF ComparedInv
    <3>4. QED BY <3>2, <3>3, <2>8 DEF Success
  <2>9. QED BY <2>6, <2>7, <2>8
<1>8. CASE h_pc \in {"console", "failed"}
  BY <1>8 DEF HostStep, HostTimeout, Prompted, SendBlock, BlockAcked, BlockRefused,
     EotAcked, Skip, Verdict, PromptTimeout, BlockTimeout, EotTimeout, CrcTimeout
<1>9. QED BY <1>4, <1>5, <1>6, <1>7, <1>8 DEF TypeOK

\* What the host takes for verified is what it has sent.
LEMMA ComparedStep ==
  ASSUME InStep, Detectable, TypeOK, ReceiverInv, InOrder, LockStep, ComparedInv,
         [Next]_vars
  PROVE  ComparedInv'
<1>1. scenario' = scenario
  BY ScenarioStays
<1>2. CASE TargetActs
  <2>1. TargetStep /\ UNCHANGED hostVars
    BY <1>2 DEF TargetActs
  <2>2. CASE ~TargetTimeout
    BY <2>1, <2>2, <1>1, ComparedTarget
  <2>3. CASE TargetTimeout
    <3>1. h2t = <<>>
      BY <2>3 DEF TargetTimeout, ReceiveTimeout, VerdictTimeout
    <3>2. h2t # <<>>
      BY <2>1 DEF TargetStep, StoreBlock, RefuseBlock, RefuseShort, TakeEot, Scan,
         IgnoreByte, TakeVerdict, Receiving
    <3>3. QED BY <3>1, <3>2
  <2>4. QED BY <2>2, <2>3
<1>3. CASE TargetExpires
  BY <1>3, <1>1, ComparedTarget DEF TargetExpires
<1>4. CASE HostActs
  BY <1>4, <1>1, ComparedHost DEF HostActs, TargetStays
<1>5. CASE HostExpires
  BY <1>5, <1>1, ComparedHost DEF HostExpires, TargetStays
<1>6. CASE Over \/ UNCHANGED vars
  <2>1. UNCHANGED <<scenario, h2t, t2h, t_pc, t_pay, dest, h_pc, h_pay>>
    BY <1>6 DEF Over, vars, lineVars, targetVars, hostVars
  <2>2. QED BY <2>1 DEF ComparedInv, OnlyNaks
<1>7. QED BY <1>2, <1>3, <1>4, <1>5, <1>6 DEF Next
-----------------------------------------------------------------------------
(* The theorems.                                                           *)

\* The first NAK of stage2 is on the line, and nothing else has happened.
LEMMA InitHolds ==
  ASSUME Init
  PROVE  TypeOK /\ ReceiverInv /\ InOrder /\ LockStep /\ GoodInv /\ ComparedInv
<1>1. /\ scenario \in Scenarios /\ h2t = <<>> /\ t2h = <<Byte("NAK")>> /\ flaws = 0
      /\ t_pc = "recv" /\ t_pay = 1 /\ dest = [p \in Payload |-> <<>>]
      /\ blk_num = 1 % BLK_MOD /\ t_retries = 0 /\ t_waits = FALSE
      /\ h_pc = "prompt" /\ h_pay = 1 /\ h_blk = 1 /\ retries = 0
  BY DEF Init, LineInit, TargetInit, HostInit
<1>2. /\ Len(Blocks) \in Nat /\ DTB \in 1 .. Len(Blocks)
      /\ \A p \in Payload : p \in Nat /\ p >= 1 /\ Blocks[p] \in Nat \ {0}
  <2>1. Blocks \in Seq(Nat \ {0}) /\ DTB \in Payload
    BY BootAssumption
  <2>2. QED BY <2>1, LenProperties, ElementOfSeq DEF Payload
<1>3. 1 \in Payload
  BY <1>2 DEF Payload
<1>4. /\ \A p \in Payload : dest[p] = <<>> /\ Len(dest[p]) = 0
      /\ Len(h2t) = 0 /\ <<>> \in Seq(StoredBlock) /\ <<>> \in Seq(HostItem)
  BY <1>1, EmptySeq
<1>5. Byte("NAK") \in Reply /\ Byte("NAK").kind = "NAK"
  BY Items
<1>6. /\ t2h \in Seq(Reply) /\ Len(t2h) = 1 /\ t2h[1].kind = "NAK"
  BY <1>1, <1>5
<1>7. blk_num \in Nat
  BY <1>1, BootAssumption
<1>8. TypeOK
  BY <1>1, <1>3, <1>4, <1>6, <1>7 DEF TypeOK
<1>9. ReceiverInv
  <2>1. \A p \in Payload : ~(p < t_pay)
    BY <1>1, <1>2
  <2>2. blk_num = (Len(dest[t_pay]) + 1) % BLK_MOD
    BY <1>1, <1>3, <1>4
  <2>3. QED BY <2>1, <2>2, <1>1, <1>4 DEF ReceiverInv
<1>10. InOrder
  BY <1>4 DEF InOrder
<1>11. OnlyNaks(t2h)
  BY <1>6 DEF OnlyNaks
<1>12. LockStep
  BY <1>1, <1>3, <1>4, <1>11 DEF LockStep, AtPrompt
<1>13. GoodInv
  BY <1>4 DEF GoodInv
<1>14. ComparedInv
  BY <1>1, <1>2 DEF ComparedInv
<1>15. QED BY <1>8, <1>9, <1>10, <1>12, <1>13, <1>14

\* What holds throughout a boot whose flaws leave the target in step.
Inv == TypeOK /\ ReceiverInv /\ InOrder /\ LockStep

\* Host and target stay in step, whatever is lost or garbled.
LEMMA InStepHolds == Spec => [](InStep => Inv)
<1>1. Init => (InStep => Inv)
  BY InitHolds DEF Inv
<1>2. (InStep => Inv) /\ [Next]_vars => (InStep => Inv)'
  <2>1. SUFFICES ASSUME InStep => Inv, [Next]_vars, InStep' PROVE Inv'
    OBVIOUS
  <2>2. InStep
    BY <2>1, ScenarioStays DEF InStep
  <2>3. TypeOK /\ ReceiverInv /\ InOrder /\ LockStep
    BY <2>1, <2>2 DEF Inv
  <2>4. TypeOK' /\ ReceiverInv' /\ InOrder' /\ LockStep'
    BY <2>1, <2>2, <2>3, TypeStep, ReceiverStep, LockStepKept
  <2>5. QED BY <2>4 DEF Inv
<1>3. QED BY <1>1, <1>2, PTL DEF Spec

\* What was sent is what is compared.
LEMMA DetectableHolds == Spec => [](InStep /\ Detectable => GoodInv /\ ComparedInv)
<1> DEFINE Found == InStep /\ Detectable => GoodInv /\ ComparedInv
<1>1. Init => Found
  BY InitHolds
<1>2. (InStep => Inv) /\ Found /\ [Next]_vars => Found'
  <2>1. SUFFICES ASSUME InStep => Inv, Found, [Next]_vars, InStep', Detectable'
                 PROVE  GoodInv' /\ ComparedInv'
    OBVIOUS
  <2>2. InStep /\ Detectable
    BY <2>1, ScenarioStays DEF InStep, Detectable
  <2>3. TypeOK /\ ReceiverInv /\ InOrder /\ LockStep /\ GoodInv /\ ComparedInv
    BY <2>1, <2>2 DEF Inv
  <2>4. QED BY <2>1, <2>2, <2>3, GoodStep, ComparedStep
<1>3. Spec => [](InStep => Inv)
  BY InStepHolds
<1> HIDE DEF Found
<1>4. Spec => []Found
  BY <1>1, <1>2, <1>3, PTL DEF Spec
<1>5. QED BY <1>4 DEF Found

\* StoredInOrder: the receiver stores the blocks of a payload one after the
\* other and once each, whatever packets, acknowledgements and CRC lines are
\* lost, damaged or repeated, as long as no packet loses a byte the checksum
\* does not cover or its SOH.
THEOREM BlocksStoredInOrder == Spec => []StoredInOrder
<1>1. (InStep => Inv) => StoredInOrder
  BY DEF Inv, StoredInOrder
<1>2. Spec => [](InStep => Inv)
  BY InStepHolds
<1>3. QED BY <1>1, <1>2, PTL

\* AckedIsStored: xmodem_send goes on to the next block, and to the CRC, only
\* when what it goes on from is stored.
THEOREM AcknowledgedIsStored == Spec => []AckedIsStored
<1>1. (InStep => Inv) => AckedIsStored
  <2>1. SUFFICES ASSUME InStep, TypeOK, ReceiverInv, LockStep PROVE AckedIsStored
    BY DEF Inv, AckedIsStored
  <2>2. ASSUME h_pc \in {"send", "await"} PROVE Len(dest[h_pay]) >= h_blk - 1
    <3>1. Len(dest[h_pay]) \in {h_blk - 1, h_blk}
      BY <2>1, <2>2 DEF LockStep, AtBlock, Transfer
    <3>2. h_blk \in Nat
      BY <2>1, Facts
    <3>3. QED BY <3>1, <3>2
  <2>3. ASSUME h_pc \in {"eot", "crc"} PROVE Len(dest[h_pay]) = Blocks[h_pay]
    <3>1. \/ h_blk = Blocks[h_pay] /\ Len(dest[h_pay]) = h_blk
          \/ Answered \/ Ahead
      BY <2>1, <2>3 DEF LockStep, AtEot, AtCrc
    <3>2. QED BY <3>1, <2>1, AheadComplete DEF Answered
  <2>4. QED BY <2>2, <2>3 DEF AckedIsStored
<1>2. Spec => [](InStep => Inv)
  BY InStepHolds
<1>3. QED BY <1>1, <1>2, PTL

\* A payload that is complete and good throughout is the one the host has.
LEMMA CompleteIsSent ==
  ASSUME TypeOK, InOrder, NEW p \in Payload, Len(dest[p]) = Blocks[p],
         \A i \in 1 .. Len(dest[p]) : dest[p][i].good
  PROVE  dest[p] = Sent(p)
<1>1. dest[p] \in Seq(StoredBlock)
  BY Facts
<1>2. dest[p] \in [1 .. Blocks[p] -> StoredBlock]
  BY <1>1, LenProperties
<1>3. ASSUME NEW i \in 1 .. Blocks[p] PROVE dest[p][i] = Block(p, i, "none")
  <2>1. dest[p][i] \in StoredBlock
    BY <1>2, <1>3
  <2>2. dest[p][i].pay = p /\ dest[p][i].blk = i /\ dest[p][i].good
    BY <1>3 DEF InOrder
  <2>3. QED BY <2>1, <2>2 DEF StoredBlock, Block
<1>4. QED BY <1>2, <1>3 DEF Sent

\* BootVerified: mode_linux jumps to the kernel, and boot_linux.py opens its
\* console, only with all payloads stored as the host has them: also when
\* silent damage passes a checksum, as long as no answer is lost with it.
THEOREM BootIsVerified == Spec => []BootVerified
<1>1. (InStep => Inv) /\ (InStep /\ Detectable => GoodInv /\ ComparedInv) => BootVerified
  <2>1. SUFFICES ASSUME TypeOK, ReceiverInv, InOrder, LockStep, GoodInv, ComparedInv,
                        t_pc = "boot" \/ h_pc = "console", NEW p \in Payload
                 PROVE  dest[p] = Sent(p)
    BY DEF Inv, BootVerified, Intact
  <2>2. CASE "silent" \notin scenario
    <3>1. t_pay = Len(Blocks) /\ Len(dest[t_pay]) = Blocks[t_pay]
      BY <2>1 DEF ReceiverInv, LockStep, AtConsole, Answered
    <3>2. p < t_pay \/ p = t_pay
      BY <3>1, Facts DEF Payload
    <3>3. Len(dest[p]) = Blocks[p]
      BY <3>1, <3>2, <2>1 DEF ReceiverInv
    <3>4. \A i \in 1 .. Len(dest[p]) : dest[p][i].good
      BY <2>1, <2>2 DEF GoodInv
    <3>5. QED BY <3>3, <3>4, <2>1, CompleteIsSent
  <2>3. CASE "silent" \in scenario
    BY <2>1, <2>3 DEF ComparedInv
  <2>4. QED BY <2>2, <2>3
<1>2. Spec => [](InStep => Inv)
  BY InStepHolds
<1>3. Spec => [](InStep /\ Detectable => GoodInv /\ ComparedInv)
  BY DetectableHolds
<1>4. QED BY <1>1, <1>2, <1>3, PTL
=============================================================================
