------------------------------ MODULE SdProofs ------------------------------
(* Proofs about the SD tools, for slots, files and limits of every size, any    *)
(* number of scripts and any number of lost items, bytes and answers, SD errors *)
(* and killed scripts: slots never mix, a script that said OK has put its files *)
(* on the card and they are what a boot loads, and a session that begins by     *)
(* programming the FPGA finds stage2 in its command loop.                       *)
EXTENDS SdSystem, SequenceTheorems, TLAPS

\* What travels on the line, and what the sectors of the card hold.
Datas == [of : {"header"}, sizes : [Files -> Nat]]
         \cup [of : Files, ver : Versions, at : Nat]
         \cup [of : {"blank", "test", "torn"}]
Bauds == {"app", "fast"}
Items == [k : {"cmd"}, c : {"R", "W", "w", "b"}]
         \cup [k : {"cmd"}, c : {"B"}, baud : Bauds]
         \cup [k : {"count"}, n : Nat]
         \cup [k : {"segment"}, lba : Nat, n : Nat]
         \cup [k : {"sector"}, data : Datas, short : BOOLEAN]
         \cup [k : {"probe", "noise"}]
Replies == [k : {"MW_READY", "MW_GO", "MW_FAIL", "MW_DONE", "K", "X", "SEND_512",
                 "WRITE_OK", "BAUD_SWITCH", "BAUD_OK", "text", "noise"}]
           \cup [k : {"RD_READY"}, data : Datas]
Segments == [lba : Nat, data : Seq(Datas)]

\* Where stage2 is; what a script waits for after one item, and where it is when it
\* sends the segments.
Live == {"cmd", "segs", "seg", "data", "partial", "probe", "wtest"}
Out == {"uboot", "halt", "linux"}
Waits == {"rd", "mw_ready", "mw_go", "b1", "b2", "w1", "w2"}
Streams == {"seg", "sector", "ack", "mw_done"}
Names == {"speed", "rd", "write", "verify", "drop", "check", "b", "w"}

Types ==
    /\ card \in [0 .. END_LBA -> Datas]
    /\ s_pc \in Live \cup Out
    /\ s_baud \in Bauds
    /\ h_baud \in Bauds
    /\ segs \in Nat
    /\ lba \in Nat
    /\ left \in Nat
    /\ rx \in Seq(Items)
    /\ tx \in Seq(Replies)
    /\ files \in [Files -> Versions]
    /\ h_files \in [Files -> Versions]
    /\ h_pc \in {"idle", "next"} \cup Waits \cup Streams
    /\ todo \in Seq(Names)
    /\ slots \in SUBSET Files
    /\ at \in Nat \ {0}
    /\ queue \in Seq(Segments)

-----------------------------------------------------------------------------
(* Places on the card.                                                       *)

\* n sectors from l on are the header or lie in one slot; the contents d may be at l.
InOneSlot(l, n) ==
    \/ n = 0
    \/ l = HDR_LBA /\ n = 1
    \/ \E c \in Files : SlotLba[c] <= l /\ l + n <= SlotLba[c] + MAX_SEC[c]
Belongs(d, l) ==
    \/ d.of = "test"
    \/ d.of = "header" /\ l = HDR_LBA
    \/ d.of \in Files /\ SlotLba[d.of] <= l /\ l < SlotLba[d.of] + MAX_SEC[d.of]

\* A segment that the scripts may send.
GoodSegment(s) ==
    /\ InOneSlot(s.lba, Len(s.data))
    /\ \A i \in 1 .. Len(s.data) : Belongs(s.data[i], s.lba + i - 1)

CardOK ==
    /\ \A l \in 0 .. END_LBA : card[l].of \in {"blank", "torn"} \/ Belongs(card[l], l)
    /\ card[END_LBA] = Blank
\* What stage2 is about to write, and what a script is about to send, stays in a slot.
WriteOK == s_pc \in {"data", "partial"} => left >= 1 /\ InOneSlot(lba, left)
QueueOK == /\ \A j \in 1 .. Len(queue) : GoodSegment(queue[j])
           /\ h_pc = "mw_ready" => queue # <<>>

-----------------------------------------------------------------------------
(* What is in flight to stage2.  A sector is the last item, and when stage2  *)
(* takes it as data it belongs where stage2 writes next.                     *)

SectorOK(i) ==
    /\ i = Len(rx)
    /\ s_pc = "wtest" => rx[i].data.of = "test"
    /\ i = 1 /\ s_pc = "data" => Belongs(rx[i].data, lba)
    /\ i > 1 => /\ rx[i - 1].k = "segment"
                /\ rx[i - 1].n >= 1 => Belongs(rx[i].data, rx[i - 1].lba)
StreamOK ==
    \A i \in 1 .. Len(rx) :
        /\ rx[i].k = "segment" => InOneSlot(rx[i].lba, rx[i].n)
        /\ rx[i].k = "sector" => SectorOK(i)
        /\ rx[i].k = "cmd" /\ rx[i].c = "w" => Len(rx) = 1

-----------------------------------------------------------------------------
(* The phases of a script: the order that matters, and that files are fit    *)
(* when they are about to be written.                                        *)

Follows(i) ==
    /\ todo[i] = "rd" => i < Len(todo) /\ todo[i + 1] = "write"
    /\ todo[i] = "speed" => i < Len(todo) /\ todo[i + 1] \in {"rd", "write"}
    /\ \A j \in i + 1 .. Len(todo) :
          /\ todo[i] = "write" => todo[j] \in {"verify", "drop", "b"}
          /\ todo[i] = "verify" => todo[j] \in {"drop", "b"}
          /\ todo[i] \in {"check", "drop", "b", "w"} => todo[j] = "b"
FitAt(i) == todo[i] = "write" => Fit(h_files) \/ (i > 1 /\ todo[i - 1] = "rd")
TodoOK ==
    /\ \A i \in 1 .. Len(todo) : Follows(i) /\ FitAt(i)
    /\ h_pc = "idle" => todo = <<>>
    /\ h_pc = "rd" => todo # <<>> /\ todo[1] \in {"rd", "check", "verify"}
                      /\ (todo[1] = "rd" => Fit(h_files))
    /\ h_pc \in {"b1", "b2"} => todo # <<>> /\ todo[1] \in {"speed", "drop"}
    /\ h_pc \in {"w1", "w2"} => todo # <<>> /\ todo[1] = "w"
    /\ h_pc \in {"mw_ready", "mw_go"} \cup Streams => todo # <<>> /\ todo[1] = "write"

-----------------------------------------------------------------------------
(* Script and stage2 in step: what is in flight and where stage2 is, for     *)
(* each place of the script.                                                 *)

AtNext == h_pc = "next" => rx = <<>> /\ tx = <<>>

\* One item is out, or its answers have come.  An answer that lets the script go on is
\* alone, and says where stage2 is.
GoesOn == {"RD_READY", "MW_READY", "MW_GO", "BAUD_SWITCH", "BAUD_OK", "SEND_512"}
Says(r) ==
    /\ r.k = "RD_READY" => s_pc = "cmd" /\ s_baud = h_baud /\ r.data = card[HDR_LBA]
    /\ r.k = "MW_READY" => s_pc = "segs" /\ s_baud = h_baud
    /\ r.k = "MW_GO" => s_pc = "seg" /\ s_baud = h_baud
    /\ r.k = "BAUD_SWITCH" => s_pc = "probe"
    /\ r.k = "BAUD_OK" => s_pc = "cmd" /\ s_baud = h_baud
    /\ r.k = "SEND_512" => s_pc = "wtest"
AtWait ==
    h_pc \in Waits =>
        /\ Len(rx) <= 1 /\ (rx # <<>> => tx = <<>>)
        /\ \A i \in 1 .. Len(tx) : tx[i].k \in GoesOn => Len(tx) = 1 /\ Says(tx[i])
AtB1 ==
    h_pc = "b1" =>
        /\ rx # <<>> /\ rx[1].k = "cmd" => rx[1].c = "B" /\ rx[1].baud = Rate(todo[1])
        /\ \A i \in 1 .. Len(tx) : tx[i].k = "BAUD_SWITCH" => s_baud = Rate(todo[1])
AtGo ==
    h_pc = "mw_go" =>
        /\ s_baud = h_baud /\ queue # <<>>
        /\ rx # <<>> => rx[1] = Count(Len(queue)) /\ s_pc = "segs"
        /\ \A i \in 1 .. Len(tx) : tx[i].k = "MW_GO" => segs = Len(queue)

\* The segment that is being sent.  Before it may be empty ones, which stage2 refuses
\* when it comes to them and which the script does not wait for.
Current == queue[1]
Size1 == Len(queue[1].data)
Zero(i) == rx[i].k = "segment" /\ rx[i].n = 0
Sent(i, l) == Zero(i) \/ (at = 1 /\ i = l /\ rx[i] = Segment(Current.lba, Size1))
SentAll == \A i \in 1 .. Len(rx) : Sent(i, Len(rx))
SentBefore == \A i \in 1 .. Len(rx) - 1 : Sent(i, Len(rx) - 1)
NoK == \A i \in 1 .. Len(tx) : tx[i].k \notin {"K", "MW_DONE"}

AtSeg ==
    h_pc = "seg" =>
        /\ s_baud = h_baud /\ queue # <<>>
        /\ \A i \in 1 .. Len(rx) : Zero(i)
        /\ s_pc \in {"seg", "cmd", "uboot"} /\ NoK
        /\ s_pc = "seg" => segs >= Len(queue) /\ tx = <<>>
AtSector ==
    h_pc = "sector" =>
        /\ s_baud = h_baud /\ queue # <<>> /\ at <= Size1 + 1
        /\ SentAll
        /\ rx # <<>> => at = 1
        /\ s_pc \in {"seg", "data", "cmd", "uboot"}
        /\ s_pc = "data" => /\ rx = <<>> /\ tx = <<>> /\ segs >= Len(queue)
                            /\ lba = Current.lba + at - 1 /\ left = Size1 - at + 1
        /\ s_pc = "seg" => /\ segs >= (IF at <= Size1 THEN Len(queue) ELSE Len(queue) - 1)
                           /\ tx = <<>>
        /\ NoK \/ /\ tx = <<Reply("MW_DONE")>> /\ rx = <<>> /\ s_pc = "cmd"
                  /\ Len(queue) = 1 /\ at = Size1 + 1
\* The sector is out ...
AckToCome ==
    /\ rx[Len(rx)].k = "sector" /\ rx[Len(rx)].data = Current.data[at] /\ NoK
    /\ s_pc # "partial"
    /\ s_pc = "seg" => segs >= Len(queue) /\ tx = <<>>
    /\ s_pc = "data" => /\ Len(rx) = 1 /\ tx = <<>> /\ segs >= Len(queue)
                        /\ lba = Current.lba + at - 1 /\ left = Size1 - at + 1
\* ... or stage2 has taken it.
AckCame ==
    /\ s_pc = "data" => /\ segs >= Len(queue)
                        /\ lba = Current.lba + at /\ left = Size1 - at
    /\ s_pc = "seg" => segs >= Len(queue) - 1
    /\ \/ NoK
       \/ tx = <<Reply("K")>> /\ s_pc \in {"data", "seg", "cmd"} /\ (s_pc = "seg" => at = Size1)
       \/ /\ tx \in {<<Reply("K"), Reply("MW_DONE")>>, <<Reply("MW_DONE")>>}
          /\ s_pc = "cmd" /\ Len(queue) = 1 /\ at = Size1
AtAck ==
    h_pc = "ack" =>
        /\ s_baud = h_baud /\ queue # <<>> /\ at <= Size1
        /\ s_pc \in {"seg", "data", "partial", "cmd", "uboot"}
        /\ SentBefore
        /\ rx # <<>> => AckToCome
        /\ rx = <<>> => AckCame
AtDone ==
    h_pc = "mw_done" =>
        /\ s_baud = h_baud
        /\ \A i \in 1 .. Len(rx) : Zero(i)
        /\ s_pc \in {"seg", "cmd", "uboot"}
        /\ NoK \/ (rx = <<>> /\ tx = <<Reply("MW_DONE")>> /\ s_pc = "cmd")

InStep == AtNext /\ AtWait /\ AtB1 /\ AtGo /\ AtSeg /\ AtSector /\ AtAck /\ AtDone

Inv == Types /\ CardOK /\ WriteOK /\ QueueOK /\ StreamOK /\ TodoOK /\ InStep

-----------------------------------------------------------------------------
\* The slots follow each other on the card, after the header.
LEMMA Layout ==
    /\ END_LBA \in Nat /\ TEST_LBA \in 1 .. END_LBA - 1
    /\ \A c \in Files : /\ SlotLba[c] \in Nat /\ MAX_SEC[c] \in Nat
                        /\ 1 <= SlotLba[c] /\ SlotLba[c] + MAX_SEC[c] <= END_LBA
    /\ \A c, d \in Files : c # d => \/ SlotLba[c] + MAX_SEC[c] <= SlotLba[d]
                                    \/ SlotLba[d] + MAX_SEC[d] <= SlotLba[c]
BY SlotAssumption DEF Files, SlotLba, END_LBA, IRD_LBA, DTB_LBA, IMG_LBA

\* Every sector of a part of a slot is on the card, before its end, and what follows the
\* first sector of such a part is one.
LEMMA PartOfSlot ==
    ASSUME NEW l \in Nat, NEW n \in Nat, n >= 1, InOneSlot(l, n)
    PROVE  /\ l \in 0 .. END_LBA /\ l # END_LBA
           /\ InOneSlot(l + 1, n - 1)
BY Layout DEF InOneSlot, HDR_LBA

\* The end of the card belongs to no contents but test data.
LEMMA NothingAtEnd ==
    ASSUME NEW d \in Datas, Belongs(d, END_LBA) PROVE d.of = "test"
BY Layout DEF Belongs, HDR_LBA

\* A sequence without its first element.
LEMMA TailIs ==
    ASSUME NEW S, NEW s \in Seq(S), s # <<>>
    PROVE  /\ Head(s) = s[1] /\ s[1] \in S /\ Len(s) \in Nat \ {0}
           /\ Tail(s) \in Seq(S) /\ Len(Tail(s)) = Len(s) - 1
           /\ \A i \in 1 .. Len(s) - 1 : Tail(s)[i] = s[i + 1]
OBVIOUS

\* A sequence with one element more.
LEMMA AppendIs ==
    ASSUME NEW S, NEW s \in Seq(S), NEW e \in S
    PROVE  /\ Append(s, e) \in Seq(S) /\ Len(s) \in Nat /\ Len(Append(s, e)) = Len(s) + 1
           /\ \A i \in 1 .. Len(s) : Append(s, e)[i] = s[i]
           /\ Append(s, e)[Len(s) + 1] = e
           /\ Append(s, e) # <<>>
OBVIOUS

\* A sequence of one element.
LEMMA SingleIs ==
    ASSUME NEW S, NEW e \in S
    PROVE  Len(<<e>>) = 1 /\ <<e>>[1] = e /\ <<e>> \in Seq(S)
OBVIOUS

\* Two answers at once.
LEMMA TwoMore ==
    ASSUME NEW S, NEW s \in Seq(S), NEW e \in S, NEW f \in S
    PROVE  /\ s \o <<e, f>> \in Seq(S) /\ Len(s) \in Nat /\ Len(s \o <<e, f>>) = Len(s) + 2
           /\ \A i \in 1 .. Len(s) : (s \o <<e, f>>)[i] = s[i]
           /\ (s \o <<e, f>>)[Len(s) + 1] = e /\ (s \o <<e, f>>)[Len(s) + 2] = f
OBVIOUS

\* The fields that an item has, by its kind.
LEMMA ItemFields ==
    ASSUME NEW x \in Items
    PROVE  /\ x.k \in {"cmd", "count", "segment", "sector", "probe", "noise"}
           /\ x.k = "count" => x.n \in Nat
           /\ x.k = "segment" => x.lba \in Nat /\ x.n \in Nat
           /\ x.k = "sector" => x.data \in Datas /\ x.short \in BOOLEAN
           /\ x.k = "cmd" => x.c \in {"R", "W", "w", "b", "B"} /\ (x.c = "B" => x.baud \in Bauds)
BY DEF Items

\* The items that the scripts send are such.
LEMMA ItemsSent ==
    /\ \A c \in {"R", "W", "w", "b"} : Cmd(c) \in Items
    /\ \A b \in Bauds : Baud(b) \in Items
    /\ \A n \in Nat : Count(n) \in Items
    /\ \A l, n \in Nat : Segment(l, n) \in Items
    /\ \A d \in Datas, short \in BOOLEAN : Sector(d, short) \in Items
    /\ Probe \in Items /\ Noise \in Items
BY DEF Items, Cmd, Baud, Count, Segment, Sector, Probe, Noise

\* The answers that stage2 sends.
Plain == {"MW_READY", "MW_GO", "MW_FAIL", "MW_DONE", "K", "X", "SEND_512", "WRITE_OK",
          "BAUD_SWITCH", "BAUD_OK", "text", "noise"}
LEMMA RepliesSent ==
    /\ \A k \in Plain : Reply(k) \in Replies /\ Reply(k).k = k
    /\ \A d \in Datas : HeaderReply(d) \in Replies /\ HeaderReply(d).k = "RD_READY"
                        /\ HeaderReply(d).data = d
    /\ Noise \in Replies /\ Noise.k = "noise"
BY DEF Replies, Reply, HeaderReply, Noise, Plain

\* The special contents of a sector.
LEMMA SpecialData ==
    /\ Blank \in Datas /\ TestData \in Datas /\ Torn \in Datas
    /\ Blank.of = "blank" /\ TestData.of = "test" /\ Torn.of = "torn"
BY DEF Datas, Blank, TestData, Torn

-----------------------------------------------------------------------------
(* What the steps of stage2 do.                                              *)

\* It takes the first item of those in flight.
LEMMA TakeIs ==
    ASSUME Types, Take
    PROVE  /\ rx # <<>> /\ In = rx[1] /\ In \in Items /\ Len(rx) \in Nat \ {0}
           /\ rx' \in Seq(Items) /\ Len(rx') = Len(rx) - 1
           /\ \A i \in 1 .. Len(rx) - 1 : rx'[i] = rx[i + 1]
BY TailIs DEF Types, Take, In

\* The answer r has been sent, or is lost, or is noise to the host.
Answered(r) == \/ tx' = tx
               \/ tx' = Append(tx, Noise)
               \/ tx' = Append(tx, r) /\ s_baud = h_baud

\* It answers, or the answer is lost; at the wrong rate it is noise.
LEMMA SayIs ==
    ASSUME Types, NEW r \in Replies, Say(r)
    PROVE  /\ tx' \in Seq(Replies)
           /\ Answered(r)
<1>1. \A e \in Replies : Append(tx, e) \in Seq(Replies)
  BY AppendIs DEF Types
<1>2. tx \in Seq(Replies) /\ Noise \in Replies
  BY RepliesSent DEF Types
<1>3. QED BY <1>1, <1>2 DEF Say, SayAt, Answered

\* An SD error is told.
LEMMA SdFailsIs ==
    ASSUME Types, SdFails
    PROVE  tx' \in Seq(Replies) /\ tx' = Append(tx, Reply("text"))
BY RepliesSent, AppendIs DEF Types, SdFails, Plain

\* A sector is written and acknowledged, the last one with the end of the command.
LEMMA AfterSectorIs ==
    ASSUME Types, left >= 1, NEW p \in {"data", "partial"}, AfterSector(p)
    PROVE  /\ lba' = lba + 1 /\ left' = left - 1 /\ s_baud' = s_baud
           /\ lba' \in Nat /\ left' \in Nat /\ segs' \in Nat
           /\ tx' \in Seq(Replies)
           /\ \/ /\ left > 1 /\ s_pc' = p /\ segs' = segs
                 /\ Answered(Reply("K"))
              \/ /\ left = 1 /\ segs > 1 /\ s_pc' = "seg" /\ segs' = segs - 1
                 /\ Answered(Reply("K"))
              \/ /\ left = 1 /\ segs = 1 /\ s_pc' = "cmd" /\ segs' = 0
                 /\ \/ tx' = tx \o <<Reply("K"), Reply("MW_DONE")>>
                    \/ tx' = Append(tx, Reply("K"))
                    \/ tx' = Append(tx, Reply("MW_DONE"))
<1>1. Reply("K") \in Replies /\ Reply("MW_DONE") \in Replies /\ tx \in Seq(Replies)
  BY RepliesSent DEF Plain, Types
<1>2. lba' = lba + 1 /\ left' = left - 1 /\ s_baud' = s_baud /\ lba' \in Nat /\ left' \in Nat
  BY DEF AfterSector, Types
<1>3. CASE left > 1 /\ s_pc' = p /\ UNCHANGED segs /\ Say(Reply("K"))
  <2>1. tx' \in Seq(Replies) /\ Answered(Reply("K"))
    BY <1>1, <1>3, SayIs
  <2>2. QED BY <1>2, <1>3, <2>1 DEF Types
<1>4. CASE left = 1 /\ segs > 1 /\ s_pc' = "seg" /\ segs' = segs - 1 /\ Say(Reply("K"))
  <2>1. tx' \in Seq(Replies) /\ Answered(Reply("K"))
    BY <1>1, <1>4, SayIs
  <2>2. QED BY <1>2, <1>4, <2>1 DEF Types
<1>5. CASE /\ left = 1 /\ segs = 1 /\ s_pc' = "cmd" /\ segs' = 0
           /\ \/ tx' = tx \o <<Reply("K"), Reply("MW_DONE")>> /\ UNCHANGED flaws
              \/ /\ MayFail("reply") /\ flaws' = flaws + 1
                 /\ tx' \in {Append(tx, Reply("K")), Append(tx, Reply("MW_DONE"))}
  <2>1. tx' \in Seq(Replies)
    <3>1. /\ Append(tx, Reply("K")) \in Seq(Replies)
          /\ Append(tx, Reply("MW_DONE")) \in Seq(Replies)
      BY <1>1, AppendIs
    <3>2. tx \o <<Reply("K"), Reply("MW_DONE")>> \in Seq(Replies)
      BY <1>1, TwoMore
    <3>3. QED BY <1>5, <3>1, <3>2
  <2>2. \/ tx' = tx \o <<Reply("K"), Reply("MW_DONE")>>
        \/ tx' = Append(tx, Reply("K"))
        \/ tx' = Append(tx, Reply("MW_DONE"))
    BY <1>5
  <2>3. QED BY <1>2, <1>5, <2>1, <2>2
<1>6. QED BY <1>3, <1>4, <1>5 DEF AfterSector

\* A sector is refused.
LEMMA WriteFailsIs ==
    ASSUME Types, NEW d, WriteFails(d)
    PROVE  /\ s_pc' = "cmd" /\ UNCHANGED <<s_baud, segs, lba, left>>
           /\ card' \in {card, [card EXCEPT ![lba] = d]}
           /\ tx' \in Seq(Replies) /\ tx' = tx \o <<Reply("X"), Reply("MW_FAIL")>>
BY RepliesSent, TwoMore DEF Types, WriteFails, Goto, Plain

\* The types are kept by each of its steps.
LEMMA StageTypes ==
    ASSUME Types, WriteOK, Stage2Step, UNCHANGED <<h_baud, hostVars>>
    PROVE  Types'
<1> DEFINE Modes == /\ s_pc' \in Live \cup Out /\ s_baud' \in Bauds
                   /\ segs' \in Nat /\ lba' \in Nat /\ left' \in Nat
           Kept == UNCHANGED <<s_baud, segs, lba, left>>
<1>1. /\ h_baud' \in Bauds /\ files' \in [Files -> Versions] /\ h_files' \in [Files -> Versions]
      /\ h_pc' \in {"idle", "next"} \cup Waits \cup Streams /\ todo' \in Seq(Names)
      /\ slots' \in SUBSET Files /\ at' \in Nat \ {0} /\ queue' \in Seq(Segments)
  BY DEF Types, hostVars
<1>2. SUFFICES rx' \in Seq(Items) /\ tx' \in Seq(Replies) /\ card' \in [0 .. END_LBA -> Datas] /\ Modes
  BY <1>1 DEF Types
<1>3. Kept => s_baud' \in Bauds /\ segs' \in Nat /\ lba' \in Nat /\ left' \in Nat
  BY DEF Types
<1>4. UNCHANGED tx => tx' \in Seq(Replies)
  BY DEF Types
<1>5. UNCHANGED card => card' \in [0 .. END_LBA -> Datas]
  BY DEF Types
<1>6. Take => rx' \in Seq(Items)
  BY TakeIs
<1>7. \A k \in Plain : Say(Reply(k)) => tx' \in Seq(Replies)
  BY SayIs, RepliesSent
<1>8. SdFails => tx' \in Seq(Replies)
  BY SdFailsIs
<1>9. \A d \in Datas : card' \in {card, [card EXCEPT ![lba] = d]} => card' \in [0 .. END_LBA -> Datas]
  BY DEF Types
<1>10. \A p \in Live \cup Out : Goto(p) => Modes
  BY <1>3 DEF Goto
<1>11. card[HDR_LBA] \in Datas
  BY Layout DEF Types, HDR_LBA
<1> HIDE DEF Kept
<1>a. CASE ReadHeader
  <2>1. Take /\ Goto("cmd") /\ UNCHANGED card /\ (Say(HeaderReply(card[HDR_LBA])) \/ SdFails)
    BY <1>a DEF ReadHeader, Command, Gets
  <2>2. Say(HeaderReply(card[HDR_LBA])) => tx' \in Seq(Replies)
    BY <1>11, SayIs, RepliesSent
  <2>3. QED BY <2>1, <2>2, <1>5, <1>6, <1>8, <1>10 DEF Live
<1>b. CASE WriteMulti
  <2>1. Take /\ UNCHANGED card
        /\ ((Goto("segs") /\ Say(Reply("MW_READY"))) \/ (Goto("cmd") /\ SdFails))
    BY <1>b DEF WriteMulti, Command, Gets
  <2>2. QED BY <2>1, <1>5, <1>6, <1>7, <1>8, <1>10 DEF Live, Plain
<1>c. CASE TakeCount
  <2>1. Take /\ UNCHANGED card /\ In.k = "count"
    BY <1>c DEF TakeCount, Gets
  <2>2. In.n \in Nat BY <2>1, TakeIs, ItemFields
  <2>3. tx' \in Seq(Replies) BY <1>c, <1>7 DEF TakeCount, Plain
  <2>4. Modes
    <3>1. CASE s_pc' = "seg" /\ segs' = In.n /\ UNCHANGED <<s_baud, lba, left, loaded>>
      BY <3>1, <2>2 DEF Types, Live
    <3>2. CASE Goto("cmd") BY <3>2, <1>10 DEF Live
    <3>3. QED BY <1>c, <3>1, <3>2 DEF TakeCount
  <2>5. QED BY <2>1, <2>3, <2>4, <1>5, <1>6
<1>d. CASE TakeSegment
  <2>1. Take /\ UNCHANGED card /\ In.k = "segment"
    BY <1>d DEF TakeSegment, Gets
  <2>2. In.n \in Nat /\ In.lba \in Nat BY <2>1, TakeIs, ItemFields
  <2>3. tx' \in Seq(Replies) BY <1>d, <1>7, <1>4 DEF TakeSegment, Plain
  <2>4. Modes
    <3>1. CASE s_pc' = "data" /\ lba' = In.lba /\ left' = In.n
               /\ UNCHANGED <<s_baud, segs, loaded, tx, flaws>>
      BY <3>1, <2>2 DEF Types, Live
    <3>2. CASE Goto("cmd") BY <3>2, <1>10 DEF Live
    <3>3. QED BY <1>d, <3>1, <3>2 DEF TakeSegment
  <2>5. QED BY <2>1, <2>3, <2>4, <1>5, <1>6
<1>e. CASE WriteSector
  <2>1. Take /\ In.k = "sector" /\ s_pc = "data"
        /\ ((card' = [card EXCEPT ![lba] = In.data] /\ AfterSector("data")) \/ WriteFails(In.data))
    BY <1>e DEF WriteSector, Gets
  <2>2. In.data \in Datas BY <2>1, TakeIs, ItemFields
  <2>3. left >= 1 BY <2>1 DEF WriteOK
  <2>4. CASE card' = [card EXCEPT ![lba] = In.data] /\ AfterSector("data")
    <3>1. tx' \in Seq(Replies) /\ Modes BY <2>4, <2>3, AfterSectorIs DEF Live, Types
    <3>2. QED BY <2>1, <2>2, <2>4, <3>1, <1>6, <1>9
  <2>5. CASE WriteFails(In.data)
    <3>1. tx' \in Seq(Replies) /\ Modes /\ card' \in {card, [card EXCEPT ![lba] = In.data]}
      BY <2>5, WriteFailsIs DEF Live, Types
    <3>2. QED BY <2>1, <2>2, <3>1, <1>6, <1>9
  <2>6. QED BY <2>1, <2>4, <2>5
<1>f. CASE WaitForMore
  <2>1. Take /\ UNCHANGED <<card, tx>> /\ (Goto("partial") \/ Goto("wtest"))
    BY <1>f DEF WaitForMore
  <2>2. QED BY <2>1, <1>4, <1>5, <1>6, <1>10 DEF Live
<1>g. CASE FillUp
  <2>1. Take /\ s_pc = "partial" BY <1>g DEF FillUp
  <2>2. left >= 1 BY <2>1 DEF WriteOK
  <2>3. CASE Goto("partial") /\ UNCHANGED <<card, s_first, tx, flaws>>
    BY <2>1, <2>3, <1>4, <1>5, <1>6, <1>10 DEF Live
  <2>4. CASE card' = [card EXCEPT ![lba] = Torn] /\ AfterSector("partial")
    <3>1. tx' \in Seq(Replies) /\ Modes BY <2>4, <2>2, AfterSectorIs DEF Live, Types
    <3>2. QED BY <2>1, <2>4, <3>1, <1>6, <1>9, SpecialData
  <2>5. CASE WriteFails(Torn)
    <3>1. tx' \in Seq(Replies) /\ Modes /\ card' \in {card, [card EXCEPT ![lba] = Torn]}
      BY <2>5, WriteFailsIs DEF Live, Types
    <3>2. QED BY <2>1, <3>1, <1>6, <1>9, SpecialData
  <2>6. QED BY <1>g, <2>3, <2>4, <2>5 DEF FillUp
<1>h. CASE BadWord
  <2>1. Take /\ s_pc \in {"segs", "seg"} /\ UNCHANGED card
        /\ ((Goto(s_pc) /\ UNCHANGED tx) \/ (Goto("cmd") /\ Say(Reply("MW_FAIL"))))
    BY <1>h DEF BadWord
  <2>2. QED BY <2>1, <1>4, <1>5, <1>6, <1>7, <1>10 DEF Live, Plain
<1>i. CASE WriteTest
  <2>1. Take /\ UNCHANGED card
        /\ ((Goto("wtest") /\ Say(Reply("SEND_512"))) \/ (Goto("cmd") /\ SdFails))
    BY <1>i DEF WriteTest, Command, Gets
  <2>2. QED BY <2>1, <1>5, <1>6, <1>7, <1>8, <1>10 DEF Live, Plain
<1>j. CASE WriteTestSector
  <2>1. Take /\ In.k = "sector" /\ Goto("cmd") /\ (Say(Reply("WRITE_OK")) \/ SdFails)
        /\ card' \in {card, [card EXCEPT ![TEST_LBA] = In.data]}
    BY <1>j DEF WriteTestSector, Gets
  <2>2. In.data \in Datas BY <2>1, TakeIs, ItemFields
  <2>3. card' \in [0 .. END_LBA -> Datas] BY <2>1, <2>2 DEF Types
  <2>4. QED BY <2>1, <2>3, <1>6, <1>7, <1>8, <1>10 DEF Live, Plain
<1>k. CASE SetBaud
  <2>1. Take /\ UNCHANGED card /\ In.k = "cmd" /\ In.c = "B" /\ Say(Reply("BAUD_SWITCH"))
        /\ s_pc' = "probe" /\ s_baud' = In.baud /\ UNCHANGED <<segs, lba, left>>
    BY <1>k DEF SetBaud, Command, Gets
  <2>2. In.baud \in Bauds BY <2>1, TakeIs, ItemFields
  <2>3. Modes BY <2>1, <2>2 DEF Types, Live
  <2>4. QED BY <2>1, <2>3, <1>5, <1>6, <1>7 DEF Plain
<1>l. CASE Probed
  <2>1. Take /\ UNCHANGED card /\ Goto("cmd") /\ Say(Reply("BAUD_OK"))
    BY <1>l DEF Probed
  <2>2. QED BY <2>1, <1>5, <1>6, <1>7, <1>10 DEF Live, Plain
<1>m. CASE BootSd
  <2>1. Take /\ UNCHANGED <<card, s_baud, segs, lba, left, tx>> /\ s_pc' \in {"linux", "halt"}
    BY <1>m DEF BootSd, Command, Gets
  <2>2. Modes BY <2>1 DEF Types, Out
  <2>3. QED BY <2>1, <2>2, <1>4, <1>5, <1>6
<1>n. CASE DefaultMode
  BY <1>n, <1>4, <1>5, <1>6, <1>10 DEF DefaultMode, Out
<1>o. CASE Deaf
  <2>1. Take /\ UNCHANGED <<card, s_pc, s_baud, segs, lba, left, tx>>
    BY <1>o DEF Deaf, modeVars
  <2>2. Modes BY <2>1 DEF Types
  <2>3. QED BY <2>1, <2>2, <1>4, <1>5, <1>6
<1>99. QED
  BY <1>a, <1>b, <1>c, <1>d, <1>e, <1>f, <1>g, <1>h, <1>i, <1>j, <1>k, <1>l, <1>m, <1>n, <1>o
     DEF Stage2Step

-----------------------------------------------------------------------------
\* A sector is written where it belongs, or with torn contents.
LEMMA CardWritten ==
    ASSUME Types, CardOK, NEW l \in 0 .. END_LBA, l # END_LBA, NEW d \in Datas,
           d.of \in {"blank", "torn"} \/ Belongs(d, l),
           card' \in {card, [card EXCEPT ![l] = d]}
    PROVE  CardOK'
<1>1. CASE card' = card BY <1>1 DEF CardOK
<1>2. CASE card' = [card EXCEPT ![l] = d]
  <2>1. card'[END_LBA] = Blank
    BY <1>2, Layout DEF CardOK, Types
  <2>2. ASSUME NEW m \in 0 .. END_LBA
        PROVE  card'[m].of \in {"blank", "torn"} \/ Belongs(card'[m], m)
    <3>1. CASE m = l
      <4>1. card'[m] = d BY <1>2, <3>1 DEF Types
      <4>2. QED BY <4>1, <3>1
    <3>2. CASE m # l
      <4>1. card'[m] = card[m] BY <1>2, <3>2 DEF Types
      <4>2. QED BY <4>1 DEF CardOK
    <3>3. QED BY <3>1, <3>2
  <2>3. QED BY <2>1, <2>2 DEF CardOK
<1>3. QED BY <1>1, <1>2

\* After a sector of a slot the rest of the segment is in the slot.
LEMMA RestInSlot ==
    ASSUME Types, WriteOK, s_pc \in {"data", "partial"},
           NEW p \in {"data", "partial"}, AfterSector(p)
    PROVE  WriteOK'
<1>1. left >= 1 /\ InOneSlot(lba, left) /\ lba \in Nat /\ left \in Nat
  BY DEF WriteOK, Types
<1>2. InOneSlot(lba + 1, left - 1) BY <1>1, PartOfSlot
<1>3. lba' = lba + 1 /\ left' = left - 1 /\ (s_pc' \in {"data", "partial"} => left > 1)
  BY <1>1, AfterSectorIs
<1>4. QED BY <1>1, <1>2, <1>3 DEF WriteOK

\* Stage2 writes inside the slot that it was told, what belongs there or torn contents.
LEMMA StageWrites ==
    ASSUME Types, CardOK, WriteOK, StreamOK, Stage2Step
    PROVE  CardOK' /\ WriteOK'
<1> USE DEF Command, Gets
<1>1. \A p \in {"cmd", "segs", "seg", "probe", "wtest", "uboot", "halt", "linux"} :
         Goto(p) => WriteOK'
  BY DEF Goto, WriteOK
<1>2. s_pc' \notin {"data", "partial"} => WriteOK'
  BY DEF WriteOK
<1>3. UNCHANGED card => CardOK'
  BY DEF CardOK
<1>4. Take => rx # <<>> /\ In = rx[1] /\ In \in Items /\ 1 \in 1 .. Len(rx)
  BY TakeIs
<1>a. CASE ReadHeader
  <2>1. UNCHANGED card /\ Goto("cmd") BY <1>a DEF ReadHeader
  <2>2. QED BY <2>1, <1>1, <1>3
<1>b. CASE WriteMulti
  <2>1. UNCHANGED card /\ (Goto("segs") \/ Goto("cmd")) BY <1>b DEF WriteMulti
  <2>2. QED BY <2>1, <1>1, <1>3
<1>c. CASE TakeCount
  <2>1. UNCHANGED card /\ s_pc' \in {"seg", "cmd"} BY <1>c DEF TakeCount, Goto
  <2>2. QED BY <2>1, <1>2, <1>3
<1>d. CASE TakeSegment
  <2>1. Take /\ In.k = "segment" /\ UNCHANGED card BY <1>d DEF TakeSegment
  <2>2. InOneSlot(In.lba, In.n) BY <2>1, <1>4 DEF StreamOK
  <2>3. CASE s_pc' = "data" /\ lba' = In.lba /\ left' = In.n /\ In.n \in 1 .. MAX_COUNT
    <3>1. left' >= 1 BY <2>3, BoundAssumption
    <3>2. QED BY <2>1, <2>2, <2>3, <3>1, <1>3 DEF WriteOK
  <2>4. CASE Goto("cmd") BY <2>1, <2>4, <1>1, <1>3
  <2>5. QED BY <1>d, <2>3, <2>4 DEF TakeSegment
<1>e. CASE WriteSector
  <2>1. /\ Take /\ In.k = "sector" /\ s_pc = "data"
        /\ \/ card' = [card EXCEPT ![lba] = In.data] /\ AfterSector("data")
           \/ WriteFails(In.data)
    BY <1>e DEF WriteSector
  <2>2. In.data \in Datas BY <2>1, <1>4, ItemFields
  <2>3. Belongs(In.data, lba) BY <2>1, <1>4 DEF StreamOK, SectorOK
  <2>4. left >= 1 /\ InOneSlot(lba, left) /\ lba \in Nat /\ left \in Nat
    BY <2>1 DEF WriteOK, Types
  <2>5. lba \in 0 .. END_LBA /\ lba # END_LBA BY <2>4, PartOfSlot
  <2>6. CASE card' = [card EXCEPT ![lba] = In.data] /\ AfterSector("data")
    BY <2>1, <2>2, <2>3, <2>5, <2>6, CardWritten, RestInSlot
  <2>7. CASE WriteFails(In.data)
    <3>1. card' \in {card, [card EXCEPT ![lba] = In.data]} /\ s_pc' = "cmd"
      BY <2>7, WriteFailsIs
    <3>2. QED BY <2>2, <2>3, <2>5, <3>1, <1>2, CardWritten
  <2>8. QED BY <2>1, <2>6, <2>7
<1>f. CASE WaitForMore
  <2>1. /\ s_pc \in {"data", "wtest"} /\ UNCHANGED <<card, lba, left>>
        /\ s_pc' = (IF s_pc = "data" THEN "partial" ELSE "wtest")
    BY <1>f DEF WaitForMore, Goto
  <2>2. QED BY <2>1, <1>3 DEF WriteOK
<1>g. CASE FillUp
  <2>1. s_pc = "partial" BY <1>g DEF FillUp
  <2>2. left >= 1 /\ InOneSlot(lba, left) /\ lba \in Nat /\ left \in Nat
    BY <2>1 DEF WriteOK, Types
  <2>3. lba \in 0 .. END_LBA /\ lba # END_LBA BY <2>2, PartOfSlot
  <2>4. CASE Goto("partial") /\ UNCHANGED card
    BY <2>1, <2>4, <1>3 DEF Goto, WriteOK
  <2>5. CASE card' = [card EXCEPT ![lba] = Torn] /\ AfterSector("partial")
    BY <2>1, <2>3, <2>5, SpecialData, CardWritten, RestInSlot
  <2>6. CASE WriteFails(Torn)
    <3>1. card' \in {card, [card EXCEPT ![lba] = Torn]} /\ s_pc' = "cmd"
      BY <2>6, WriteFailsIs
    <3>2. QED BY <2>3, <3>1, <1>2, SpecialData, CardWritten
  <2>7. QED BY <1>g, <2>4, <2>5, <2>6 DEF FillUp
<1>h. CASE BadWord
  <2>1. UNCHANGED card /\ s_pc' \in {"segs", "seg", "cmd"} BY <1>h DEF BadWord, Goto
  <2>2. QED BY <2>1, <1>2, <1>3
<1>i. CASE WriteTest
  <2>1. UNCHANGED card /\ (Goto("wtest") \/ Goto("cmd")) BY <1>i DEF WriteTest
  <2>2. QED BY <2>1, <1>1, <1>3
<1>j. CASE WriteTestSector
  <2>1. /\ Take /\ In.k = "sector" /\ s_pc = "wtest" /\ Goto("cmd")
        /\ card' \in {card, [card EXCEPT ![TEST_LBA] = In.data]}
    BY <1>j DEF WriteTestSector
  <2>2. In.data \in Datas BY <2>1, <1>4, ItemFields
  <2>3. In.data.of = "test" BY <2>1, <1>4 DEF StreamOK, SectorOK
  <2>4. TEST_LBA \in 0 .. END_LBA /\ TEST_LBA # END_LBA BY Layout
  <2>5. CardOK' BY <2>1, <2>2, <2>3, <2>4, CardWritten DEF Belongs
  <2>6. QED BY <2>1, <2>5, <1>1
<1>k. CASE SetBaud
  <2>1. UNCHANGED card /\ s_pc' = "probe" BY <1>k DEF SetBaud
  <2>2. QED BY <2>1, <1>2, <1>3
<1>l. CASE Probed
  <2>1. UNCHANGED card /\ Goto("cmd") BY <1>l DEF Probed
  <2>2. QED BY <2>1, <1>1, <1>3
<1>m. CASE BootSd
  <2>1. UNCHANGED card /\ s_pc' \in {"linux", "halt"} BY <1>m DEF BootSd
  <2>2. QED BY <2>1, <1>2, <1>3
<1>n. CASE DefaultMode
  <2>1. UNCHANGED card /\ Goto("uboot") BY <1>n DEF DefaultMode
  <2>2. QED BY <2>1, <1>1, <1>3
<1>o. CASE Deaf
  <2>1. UNCHANGED <<card, s_pc, lba, left>> BY <1>o DEF Deaf, modeVars
  <2>2. QED BY <2>1, <1>3 DEF WriteOK
<1>99. QED
  BY <1>a, <1>b, <1>c, <1>d, <1>e, <1>f, <1>g, <1>h, <1>i, <1>j, <1>k, <1>l, <1>m, <1>n, <1>o
     DEF Stage2Step

-----------------------------------------------------------------------------
\* What remains in flight when stage2 takes an item, if it then waits for data only where
\* the item said.
LEMMA StreamShifts ==
    ASSUME Types, StreamOK, Take,
           s_pc' = "wtest" => s_pc = "wtest" \/ (In.k = "cmd" /\ In.c = "w"),
           s_pc' = "data" => In.k # "segment" \/ (In.n >= 1 /\ lba' = In.lba)
    PROVE  StreamOK'
<1>1. /\ In = rx[1] /\ Len(rx) \in Nat \ {0} /\ Len(rx') = Len(rx) - 1
      /\ \A i \in 1 .. Len(rx) - 1 : rx'[i] = rx[i + 1]
  BY TakeIs
<1>2. SUFFICES ASSUME NEW i \in 1 .. Len(rx')
               PROVE  /\ rx'[i].k = "segment" => InOneSlot(rx'[i].lba, rx'[i].n)
                      /\ rx'[i].k = "sector" => SectorOK(i)'
                      /\ rx'[i].k = "cmd" /\ rx'[i].c = "w" => Len(rx') = 1
  BY DEF StreamOK
<1>3. i + 1 \in 1 .. Len(rx) /\ rx'[i] = rx[i + 1] /\ 1 \in 1 .. Len(rx) /\ Len(rx) # 1
  BY <1>1
<1>4. /\ rx'[i].k = "segment" => InOneSlot(rx'[i].lba, rx'[i].n)
      /\ rx'[i].k = "cmd" /\ rx'[i].c = "w" => Len(rx') = 1
  BY <1>3 DEF StreamOK
<1>5. ASSUME rx'[i].k = "sector" PROVE SectorOK(i)'
  <2>1. SectorOK(i + 1) BY <1>3, <1>5 DEF StreamOK
  <2>2. i = Len(rx') BY <1>1, <2>1 DEF SectorOK
  <2>3. /\ rx[i].k = "segment"
        /\ rx[i].n >= 1 => Belongs(rx'[i].data, rx[i].lba)
    BY <1>3, <2>1 DEF SectorOK
  <2>4. i > 1 => rx'[i - 1] = rx[i] BY <1>1
  <2>5. s_pc' = "wtest" => rx'[i].data.of = "test"
    <3>1. ~(In.k = "cmd" /\ In.c = "w") BY <1>1, <1>3 DEF StreamOK
    <3>2. QED BY <3>1, <1>3, <2>1 DEF SectorOK
  <2>6. i = 1 /\ s_pc' = "data" => Belongs(rx'[i].data, lba')
    BY <1>1, <2>3
  <2>7. QED BY <2>2, <2>3, <2>4, <2>5, <2>6 DEF SectorOK
<1>6. QED BY <1>4, <1>5

\* ... as in every step of stage2.
LEMMA StageStream ==
    ASSUME Types, StreamOK, Stage2Step
    PROVE  StreamOK'
<1> USE DEF Command, Gets, Goto
<1>1. Take
  BY DEF Stage2Step, ReadHeader, WriteMulti, TakeCount, TakeSegment, WriteSector, WaitForMore,
         FillUp, BadWord, WriteTest, WriteTestSector, SetBaud, Probed, BootSd, DefaultMode, Deaf
<1>2. s_pc' = "wtest" => s_pc = "wtest" \/ (In.k = "cmd" /\ In.c = "w")
  BY DEF Stage2Step, ReadHeader, WriteMulti, TakeCount, TakeSegment, WriteSector, WaitForMore,
         FillUp, BadWord, WriteTest, WriteTestSector, SetBaud, Probed, BootSd, DefaultMode, Deaf,
         AfterSector, WriteFails, modeVars
<1>3. s_pc' = "data" => In.k # "segment" \/ (In.n >= 1 /\ lba' = In.lba)
  BY BoundAssumption
     DEF Stage2Step, ReadHeader, WriteMulti, TakeCount, TakeSegment, WriteSector, WaitForMore,
         FillUp, BadWord, WriteTest, WriteTestSector, SetBaud, Probed, BootSd, DefaultMode, Deaf,
         AfterSector, WriteFails, modeVars
<1>4. QED BY <1>1, <1>2, <1>3, StreamShifts

-----------------------------------------------------------------------------
\* One answer, to a script that has read all before.
LEMMA OneAnswer ==
    ASSUME NEW r \in Replies, tx = <<>>, Answered(r)
    PROVE  \A i \in 1 .. Len(tx') :
              /\ Len(tx') = 1
              /\ tx'[i].k = "noise" \/ (tx'[i] = r /\ s_baud = h_baud)
BY RepliesSent DEF Answered

\* What stage2 answers when all before has been read: an answer that lets the script go on
\* is alone and says where stage2 is.
LEMMA StageAnswers ==
    ASSUME Types, WriteOK, Stage2Step, UNCHANGED h_baud, tx = <<>>
    PROVE  \A i \in 1 .. Len(tx') : tx'[i].k \in GoesOn =>
              /\ Len(tx') = 1 /\ Says(tx[i])'
              /\ tx'[i].k = "BAUD_SWITCH" => In.k = "cmd" /\ In.c = "B" /\ s_baud' = In.baud
              /\ tx'[i].k = "MW_GO" => In.k = "count" /\ segs' = In.n
<1> USE DEF Command, Gets
<1> SUFFICES ASSUME NEW i \in 1 .. Len(tx'), tx'[i].k \in GoesOn
             PROVE  /\ Len(tx') = 1 /\ Says(tx[i])'
                    /\ tx'[i].k = "BAUD_SWITCH" => In.k = "cmd" /\ In.c = "B" /\ s_baud' = In.baud
                    /\ tx'[i].k = "MW_GO" => In.k = "count" /\ segs' = In.n
  OBVIOUS
<1>1. tx \in Seq(Replies) BY DEF Types
<1>2. ASSUME NEW k \in Plain, Say(Reply(k))
      PROVE  Len(tx') = 1 /\ tx'[i].k = k /\ s_baud = h_baud
  <2>1. Reply(k) \in Replies /\ Reply(k).k = k BY RepliesSent
  <2>2. Answered(Reply(k)) BY <1>2, <2>1, SayIs
  <2>3. Len(tx') = 1 /\ (tx'[i].k = "noise" \/ (tx'[i] = Reply(k) /\ s_baud = h_baud))
    BY <2>1, <2>2, OneAnswer
  <2>4. QED BY <2>1, <2>3 DEF GoesOn
<1>3. ~UNCHANGED tx
  <2>1. Len(tx) = 0 OBVIOUS
  <2>2. QED BY <2>1
<1>4. ~SdFails
  <2>1. SUFFICES ASSUME SdFails PROVE FALSE OBVIOUS
  <2>2. tx' = Append(tx, Reply("text")) BY <2>1, SdFailsIs
  <2>3. tx' = <<Reply("text")>> BY <2>2
  <2>4. tx'[i].k = "text" BY <2>3 DEF Reply
  <2>5. QED BY <2>4 DEF GoesOn
<1>5. \A d : ~WriteFails(d)
  <2>1. SUFFICES ASSUME NEW d, WriteFails(d) PROVE FALSE OBVIOUS
  <2>2. tx' = tx \o <<Reply("X"), Reply("MW_FAIL")>> BY <2>1, WriteFailsIs
  <2>3. tx' = <<Reply("X"), Reply("MW_FAIL")>> BY <2>2
  <2>4. tx'[i].k \in {"X", "MW_FAIL"} BY <2>3 DEF Reply
  <2>5. QED BY <2>4 DEF GoesOn
<1>6. \A p \in {"data", "partial"} : left >= 1 => ~AfterSector(p)
  <2>1. SUFFICES ASSUME NEW p \in {"data", "partial"}, left >= 1, AfterSector(p) PROVE FALSE
    OBVIOUS
  <2>2. Reply("K") \in Replies /\ Reply("K").k = "K" BY RepliesSent DEF Plain
  <2>3. ~Answered(Reply("K"))
    <3>1. SUFFICES ASSUME Answered(Reply("K")) PROVE FALSE OBVIOUS
    <3>2. tx'[i].k = "noise" \/ tx'[i] = Reply("K") BY <2>2, <3>1, OneAnswer
    <3>3. QED BY <2>2, <3>2 DEF GoesOn
  <2>4. \/ tx' = tx \o <<Reply("K"), Reply("MW_DONE")>>
        \/ tx' = Append(tx, Reply("K"))
        \/ tx' = Append(tx, Reply("MW_DONE"))
    BY <2>1, <2>3, AfterSectorIs
  <2>5. \/ tx' = <<Reply("K"), Reply("MW_DONE")>>
        \/ tx' = <<Reply("K")>>
        \/ tx' = <<Reply("MW_DONE")>>
    BY <2>4
  <2>6. tx'[i].k \in {"K", "MW_DONE"} BY <2>5 DEF Reply
  <2>7. QED BY <2>6 DEF GoesOn
<1>a. CASE ReadHeader
  <2>1. Say(HeaderReply(card[HDR_LBA])) /\ s_pc' = "cmd" /\ UNCHANGED <<card, s_baud>>
    BY <1>a, <1>4 DEF ReadHeader, Goto
  <2>2. card[HDR_LBA] \in Datas
    <3>1. card \in [0 .. END_LBA -> Datas] BY DEF Types
    <3>2. HDR_LBA \in 0 .. END_LBA BY Layout DEF HDR_LBA
    <3>3. QED BY <3>1, <3>2
  <2>3. /\ HeaderReply(card[HDR_LBA]) \in Replies
        /\ HeaderReply(card[HDR_LBA]).k = "RD_READY"
        /\ HeaderReply(card[HDR_LBA]).data = card[HDR_LBA]
    BY <2>2, RepliesSent
  <2>4. Answered(HeaderReply(card[HDR_LBA])) BY <2>1, <2>3, SayIs
  <2>5. /\ Len(tx') = 1
        /\ tx'[i].k = "noise" \/ (tx'[i] = HeaderReply(card[HDR_LBA]) /\ s_baud = h_baud)
    BY <2>3, <2>4, OneAnswer
  <2>6. tx'[i] = HeaderReply(card[HDR_LBA]) /\ s_baud = h_baud
    BY <2>5 DEF GoesOn
  <2>7. QED BY <2>1, <2>3, <2>5, <2>6 DEF Says
<1>b. CASE WriteMulti
  <2>1. Say(Reply("MW_READY")) /\ s_pc' = "segs" /\ UNCHANGED s_baud
    BY <1>b, <1>4 DEF WriteMulti, Goto
  <2>2. Len(tx') = 1 /\ tx'[i].k = "MW_READY" /\ s_baud = h_baud BY <1>2, <2>1 DEF Plain
  <2>3. QED BY <2>1, <2>2 DEF Says
<1>c. CASE TakeCount
  <2>1. CASE Say(Reply("MW_GO")) /\ s_pc' = "seg" /\ segs' = In.n /\ UNCHANGED s_baud
    <3>1. Len(tx') = 1 /\ tx'[i].k = "MW_GO" /\ s_baud = h_baud BY <1>2, <2>1 DEF Plain
    <3>2. QED BY <1>c, <2>1, <3>1 DEF Says, TakeCount
  <2>2. CASE Say(Reply("MW_FAIL"))
    BY <2>2, <1>2 DEF Plain, GoesOn
  <2>3. QED BY <1>c, <2>1, <2>2 DEF TakeCount
<1>d. CASE TakeSegment
  <2>1. Say(Reply("MW_FAIL")) BY <1>d, <1>3 DEF TakeSegment
  <2>2. QED BY <2>1, <1>2 DEF Plain, GoesOn
<1>e. CASE WriteSector
  <2>1. left >= 1 BY <1>e DEF WriteSector, WriteOK
  <2>2. QED BY <2>1, <1>e, <1>5, <1>6 DEF WriteSector
<1>f. CASE WaitForMore
  BY <1>f, <1>3 DEF WaitForMore
<1>g. CASE FillUp
  <2>1. left >= 1 BY <1>g DEF FillUp, WriteOK
  <2>2. QED BY <2>1, <1>g, <1>3, <1>5, <1>6 DEF FillUp
<1>h. CASE BadWord
  <2>1. Say(Reply("MW_FAIL")) BY <1>h, <1>3 DEF BadWord
  <2>2. QED BY <2>1, <1>2 DEF Plain, GoesOn
<1>i. CASE WriteTest
  <2>1. Say(Reply("SEND_512")) /\ s_pc' = "wtest"
    BY <1>i, <1>4 DEF WriteTest, Goto
  <2>2. Len(tx') = 1 /\ tx'[i].k = "SEND_512" BY <1>2, <2>1 DEF Plain
  <2>3. QED BY <2>1, <2>2 DEF Says
<1>j. CASE WriteTestSector
  <2>1. Say(Reply("WRITE_OK")) BY <1>j, <1>4 DEF WriteTestSector
  <2>2. QED BY <2>1, <1>2 DEF Plain, GoesOn
<1>k. CASE SetBaud
  <2>1. Say(Reply("BAUD_SWITCH")) /\ s_pc' = "probe" /\ s_baud' = In.baud
        /\ In.k = "cmd" /\ In.c = "B"
    BY <1>k DEF SetBaud
  <2>2. Len(tx') = 1 /\ tx'[i].k = "BAUD_SWITCH" BY <1>2, <2>1 DEF Plain
  <2>3. QED BY <2>1, <2>2 DEF Says
<1>l. CASE Probed
  <2>1. Say(Reply("BAUD_OK")) /\ s_pc' = "cmd" /\ UNCHANGED s_baud
    BY <1>l DEF Probed, Goto
  <2>2. Len(tx') = 1 /\ tx'[i].k = "BAUD_OK" /\ s_baud = h_baud BY <1>2, <2>1 DEF Plain
  <2>3. QED BY <2>1, <2>2 DEF Says
<1>m. CASE BootSd
  BY <1>m, <1>3 DEF BootSd
<1>n. CASE DefaultMode
  BY <1>n, <1>3 DEF DefaultMode
<1>o. CASE Deaf
  BY <1>o, <1>3 DEF Deaf
<1>99. QED
  BY <1>a, <1>b, <1>c, <1>d, <1>e, <1>f, <1>g, <1>h, <1>i, <1>j, <1>k, <1>l, <1>m, <1>n, <1>o
     DEF Stage2Step

\* The rate is changed by its command only.
LEMMA StageBaud ==
    ASSUME Stage2Step
    PROVE  Take /\ (s_baud' = s_baud \/ In.k = "cmd")
BY DEF Stage2Step, ReadHeader, WriteMulti, TakeCount, TakeSegment, WriteSector, WaitForMore,
       FillUp, BadWord, WriteTest, WriteTestSector, SetBaud, Probed, BootSd, DefaultMode, Deaf,
       AfterSector, WriteFails, Command, Gets, Goto, modeVars

\* While a script waits after one item, a step of stage2 takes that item.
LEMMA StageWaits ==
    ASSUME Inv, Stage2Step, UNCHANGED <<h_baud, hostVars>>
    PROVE  AtNext' /\ AtWait' /\ AtB1' /\ AtGo'
<1>1. /\ h_pc' = h_pc /\ todo' = todo /\ queue' = queue /\ h_baud' = h_baud
      /\ rx # <<>> /\ In = rx[1] /\ In \in Items /\ Len(rx) \in Nat \ {0}
      /\ rx' \in Seq(Items) /\ Len(rx') = Len(rx) - 1
      /\ (s_baud' = s_baud \/ In.k = "cmd")
  BY StageBaud, TakeIs DEF hostVars, Inv
<1>2. AtNext' BY <1>1 DEF AtNext, Inv, InStep
<1>3. ASSUME h_pc \in Waits
      PROVE  /\ rx' = <<>> /\ tx = <<>> /\ Len(rx) = 1
             /\ \A i \in 1 .. Len(tx') : tx'[i].k \in GoesOn =>
                   /\ Len(tx') = 1 /\ Says(tx[i])'
                   /\ tx'[i].k = "BAUD_SWITCH" => In.k = "cmd" /\ In.c = "B" /\ s_baud' = In.baud
                   /\ tx'[i].k = "MW_GO" => In.k = "count" /\ segs' = In.n
  <2>1. Len(rx) = 1 /\ tx = <<>> BY <1>1, <1>3 DEF Inv, InStep, AtWait
  <2>2. rx' = <<>> BY <1>1, <2>1
  <2>3. QED BY <1>1, <2>1, <2>2, StageAnswers DEF Inv
<1>4. AtWait'
  <2>1. SUFFICES ASSUME h_pc \in Waits
                 PROVE  /\ Len(rx') <= 1 /\ (rx' # <<>> => tx' = <<>>)
                        /\ \A i \in 1 .. Len(tx') : tx'[i].k \in GoesOn =>
                              Len(tx') = 1 /\ Says(tx[i])'
    BY <1>1 DEF AtWait, Says
  <2>2. rx' = <<>> BY <1>3, <2>1
  <2>a. Len(rx') <= 1 BY <2>2
  <2>3. QED BY <1>3, <2>1, <2>2, <2>a
<1>5. AtB1'
  <2>1. SUFFICES ASSUME h_pc = "b1"
                 PROVE  /\ rx' = <<>>
                        /\ \A i \in 1 .. Len(tx') : tx'[i].k = "BAUD_SWITCH" => s_baud' = Rate(todo[1])
    BY <1>1 DEF AtB1, Rate
  <2>2. h_pc \in Waits BY <2>1 DEF Waits
  <2>3. In.k = "cmd" => In.c = "B" /\ In.baud = Rate(todo[1])
    BY <1>1, <2>1 DEF Inv, InStep, AtB1
  <2>4. QED BY <1>3, <2>2, <2>3 DEF GoesOn
<1>6. AtGo'
  <2>1. SUFFICES ASSUME h_pc = "mw_go"
                 PROVE  /\ s_baud' = h_baud /\ queue # <<>> /\ rx' = <<>>
                        /\ \A i \in 1 .. Len(tx') : tx'[i].k = "MW_GO" => segs' = Len(queue)
    BY <1>1 DEF AtGo
  <2>2. h_pc \in Waits BY <2>1 DEF Waits
  <2>3. s_baud = h_baud /\ queue # <<>> /\ In = Count(Len(queue))
    BY <1>1, <2>1 DEF Inv, InStep, AtGo
  <2>4. In.k = "count" /\ In.n = Len(queue) BY <2>3 DEF Count
  <2>5. QED BY <1>1, <1>3, <2>2, <2>3, <2>4 DEF GoesOn
<1>7. QED BY <1>2, <1>4, <1>5, <1>6

-----------------------------------------------------------------------------
\* Answers that acknowledge nothing.
Harmless == tx' \in {tx, Append(tx, Noise), Append(tx, Reply("MW_FAIL")),
                     tx \o <<Reply("X"), Reply("MW_FAIL")>>}
LEMMA StillNoK ==
    ASSUME Types, NoK, Harmless PROVE NoK'
<1>1. tx \in Seq(Replies) BY DEF Types
<1>2. /\ Noise \in Replies /\ Reply("MW_FAIL") \in Replies /\ Reply("X") \in Replies
      /\ Noise.k = "noise" /\ Reply("MW_FAIL").k = "MW_FAIL" /\ Reply("X").k = "X"
  BY RepliesSent DEF Plain
<1>3. SUFFICES ASSUME NEW i \in 1 .. Len(tx') PROVE tx'[i].k \notin {"K", "MW_DONE"}
  BY DEF NoK
<1>4. CASE tx' = tx BY <1>4, <1>3 DEF NoK
<1>5. ASSUME NEW e \in Replies, e.k \notin {"K", "MW_DONE"}, tx' = Append(tx, e)
      PROVE  tx'[i].k \notin {"K", "MW_DONE"}
  <2>1. /\ Len(tx') = Len(tx) + 1 /\ Len(tx) \in Nat /\ tx'[Len(tx) + 1] = e
        /\ \A j \in 1 .. Len(tx) : tx'[j] = tx[j]
    BY <1>1, <1>5, AppendIs
  <2>2. i \in 1 .. Len(tx) \/ i = Len(tx) + 1 BY <2>1, <1>3
  <2>3. QED BY <2>1, <2>2, <1>5 DEF NoK
<1>6. CASE tx' = tx \o <<Reply("X"), Reply("MW_FAIL")>>
  <2>1. /\ Len(tx') = Len(tx) + 2 /\ Len(tx) \in Nat
        /\ tx'[Len(tx) + 1] = Reply("X") /\ tx'[Len(tx) + 2] = Reply("MW_FAIL")
        /\ \A j \in 1 .. Len(tx) : tx'[j] = tx[j]
    BY <1>1, <1>2, <1>6, TwoMore
  <2>2. i \in 1 .. Len(tx) \/ i = Len(tx) + 1 \/ i = Len(tx) + 2 BY <2>1, <1>3
  <2>3. QED BY <2>1, <2>2, <1>2 DEF NoK
<1>7. QED BY <1>2, <1>4, <1>5, <1>6 DEF Harmless

\* What stage2 does with a segment or a sector, where it can be while a script sends them.
LEMMA StreamActs ==
    ASSUME Types, WriteOK, Stage2Step, s_pc \in {"seg", "data", "cmd", "uboot"},
           In.k \in {"segment", "sector"}
    PROVE  /\ s_baud' = s_baud
           /\ \/ /\ s_pc = "seg" /\ In.k = "segment" /\ In.n \in 1 .. MAX_COUNT
                 /\ s_pc' = "data" /\ lba' = In.lba /\ left' = In.n /\ segs' = segs /\ tx' = tx
              \/ s_pc = "seg" /\ s_pc' = "cmd" /\ Harmless
              \/ s_pc = "seg" /\ In.k = "sector" /\ s_pc' = "seg" /\ segs' = segs /\ tx' = tx
              \/ /\ s_pc = "data" /\ In.k = "sector" /\ AfterSector("data")
                 /\ card' = [card EXCEPT ![lba] = In.data]
              \/ s_pc = "data" /\ s_pc' = "cmd" /\ Harmless
              \/ s_pc = "data" /\ s_pc' = "partial" /\ tx' = tx
              \/ s_pc \in {"cmd", "uboot"} /\ s_pc' = "uboot" /\ tx' = tx
<1> USE DEF Command, Gets
<1>1. Say(Reply("MW_FAIL")) => Harmless
  <2>1. Reply("MW_FAIL") \in Replies BY RepliesSent DEF Plain
  <2>2. QED BY <2>1, SayIs DEF Answered, Harmless
<1>2. WriteFails(In.data) => s_pc' = "cmd" /\ s_baud' = s_baud /\ Harmless
  BY DEF WriteFails, Goto, Harmless
<1>d. CASE TakeSegment
  BY <1>d, <1>1 DEF TakeSegment, Goto
<1>e. CASE WriteSector
  <2>1. CASE card' = [card EXCEPT ![lba] = In.data] /\ AfterSector("data")
    <3>1. s_baud' = s_baud BY <2>1 DEF AfterSector
    <3>2. s_pc = "data" /\ In.k = "sector" BY <1>e DEF WriteSector
    <3>3. QED BY <2>1, <3>1, <3>2
  <2>2. CASE WriteFails(In.data) BY <1>e, <2>2, <1>2 DEF WriteSector
  <2>3. QED BY <1>e, <2>1, <2>2 DEF WriteSector
<1>f. CASE WaitForMore
  BY <1>f DEF WaitForMore, Goto
<1>h. CASE BadWord
  BY <1>h, <1>1 DEF BadWord, Goto
<1>n. CASE DefaultMode
  BY <1>n DEF DefaultMode, Goto
<1>o. CASE Deaf
  BY <1>o DEF Deaf, modeVars
<1>99. QED
  BY <1>d, <1>e, <1>f, <1>h, <1>n, <1>o
     DEF Stage2Step, ReadHeader, WriteMulti, TakeCount, FillUp, WriteTest, WriteTestSector,
         SetBaud, Probed, BootSd

\* The segment at the head of the queue.
LEMMA QueueHead ==
    ASSUME Types, queue # <<>>
    PROVE  /\ Len(queue) \in Nat /\ Len(queue) >= 1 /\ Current = Head(queue)
           /\ Current \in Segments /\ Current.lba \in Nat
           /\ Current.data \in Seq(Datas) /\ Size1 \in Nat
           /\ Tail(queue) \in Seq(Segments) /\ Len(Tail(queue)) = Len(queue) - 1
           /\ \A i \in 1 .. Len(queue) - 1 : Tail(queue)[i] = queue[i + 1]
<1>1. queue \in Seq(Segments) BY DEF Types
<1>2. Current = Head(queue) /\ Current \in Segments BY <1>1, TailIs DEF Current
<1>3. Current.data \in Seq(Datas) /\ Current.lba \in Nat BY <1>2 DEF Segments
<1>4. QED BY <1>1, <1>2, <1>3, TailIs DEF Size1, Current

\* While a script sends segments and sectors, stage2 counts along or has left the command.
LEMMA StageStreams ==
    ASSUME Inv, Stage2Step, UNCHANGED <<h_baud, hostVars>>
    PROVE  AtSeg' /\ AtSector' /\ AtAck' /\ AtDone'
<1>1. /\ h_pc' = h_pc /\ queue' = queue /\ h_baud' = h_baud /\ at' = at
      /\ rx # <<>> /\ In = rx[1] /\ In \in Items /\ Len(rx) \in Nat \ {0}
      /\ rx' \in Seq(Items) /\ Len(rx') = Len(rx) - 1
      /\ \A i \in 1 .. Len(rx') : rx'[i] = rx[i + 1] /\ i + 1 \in 1 .. Len(rx)
  BY StageBaud, TakeIs DEF hostVars, Inv
<1>2. Types /\ WriteOK /\ at \in Nat \ {0} /\ segs \in Nat /\ left \in Nat /\ lba \in Nat
  BY DEF Inv, Types
<1>3. rx' = <<>> <=> Len(rx) = 1 BY <1>1
<1>a. AtSeg'
  <2>1. SUFFICES ASSUME h_pc = "seg"
                 PROVE  /\ s_baud' = h_baud /\ queue # <<>>
                        /\ \A i \in 1 .. Len(rx') : rx'[i].k = "segment" /\ rx'[i].n = 0
                        /\ s_pc' \in {"cmd", "uboot"} /\ NoK'
    BY <1>1 DEF AtSeg, Zero
  <2>2. AtSeg BY DEF Inv, InStep
  <2>3. /\ s_baud = h_baud /\ queue # <<>> /\ s_pc \in {"seg", "cmd", "uboot"} /\ NoK
        /\ \A i \in 1 .. Len(rx) : rx[i].k = "segment" /\ rx[i].n = 0
    BY <2>1, <2>2 DEF AtSeg, Zero
  <2>4. In.k = "segment" /\ In.n = 0 BY <1>1, <2>3
  <2>5. s_baud' = s_baud /\ s_pc' \in {"cmd", "uboot"} /\ (Harmless \/ tx' = tx)
    BY <1>2, <2>3, <2>4, StreamActs
  <2>6. NoK' BY <1>2, <2>3, <2>5, StillNoK DEF Harmless
  <2>7. QED BY <1>1, <2>3, <2>5, <2>6
<1>d. AtDone'
  <2>1. SUFFICES ASSUME h_pc = "mw_done"
                 PROVE  /\ s_baud' = h_baud
                        /\ \A i \in 1 .. Len(rx') : rx'[i].k = "segment" /\ rx'[i].n = 0
                        /\ s_pc' \in {"cmd", "uboot"} /\ NoK'
    BY <1>1 DEF AtDone, Zero
  <2>2. AtDone BY DEF Inv, InStep
  <2>3. /\ s_baud = h_baud /\ s_pc \in {"seg", "cmd", "uboot"} /\ NoK
        /\ \A i \in 1 .. Len(rx) : rx[i].k = "segment" /\ rx[i].n = 0
    BY <1>1, <2>1, <2>2 DEF AtDone, Zero
  <2>4. In.k = "segment" /\ In.n = 0 BY <1>1, <2>3
  <2>5. s_baud' = s_baud /\ s_pc' \in {"cmd", "uboot"} /\ (Harmless \/ tx' = tx)
    BY <1>2, <2>3, <2>4, StreamActs
  <2>6. NoK' BY <1>2, <2>3, <2>5, StillNoK DEF Harmless
  <2>7. QED BY <1>1, <2>3, <2>5, <2>6
<1>b. AtSector'
  <2>1. SUFFICES ASSUME h_pc = "sector" PROVE AtSector' BY <1>1 DEF AtSector
  <2>2. AtSector BY DEF Inv, InStep
  <2>3. /\ s_baud = h_baud /\ queue # <<>> /\ at = 1 /\ at <= Size1 + 1
        /\ SentAll
        /\ s_pc \in {"seg", "cmd", "uboot"} /\ NoK
        /\ s_pc = "seg" => /\ segs >= (IF at <= Size1 THEN Len(queue) ELSE Len(queue) - 1)
                           /\ tx = <<>>
    BY <1>1, <2>1, <2>2 DEF AtSector
  <2>4. Sent(1, Len(rx)) BY <1>1, <2>3 DEF SentAll
  <2>5. In.k = "segment" /\ (In.n >= 1 => /\ Len(rx) = 1 /\ In.lba = Current.lba
                                          /\ In.n = Size1)
    BY <1>1, <2>4 DEF Sent, Zero, Segment
  <2>6. SentAll'
    <3>1. SUFFICES ASSUME NEW i \in 1 .. Len(rx')
                   PROVE  \/ rx'[i].k = "segment" /\ rx'[i].n = 0
                          \/ /\ at = 1 /\ i = Len(rx')
                             /\ rx'[i] = Segment(Current.lba, Size1)
      BY <1>1 DEF SentAll, Sent, Zero, Current, Size1
    <3>2. rx'[i] = rx[i + 1] /\ i + 1 \in 1 .. Len(rx) /\ (i = Len(rx') <=> i + 1 = Len(rx))
      BY <1>1
    <3>3. Sent(i + 1, Len(rx)) BY <2>3, <3>2 DEF SentAll
    <3>4. QED BY <3>2, <3>3 DEF Sent, Zero
  <2>7. CASE s_pc' = "data"
    <3>1. /\ s_pc = "seg" /\ In.n \in 1 .. MAX_COUNT /\ lba' = In.lba /\ left' = In.n
          /\ segs' = segs /\ tx' = tx /\ s_baud' = s_baud
      BY <1>2, <2>3, <2>5, <2>7, StreamActs DEF AfterSector
    <3>2. Len(rx) = 1 /\ In.lba = Current.lba /\ In.n = Size1 /\ Size1 >= 1
      BY <2>5, <3>1, BoundAssumption
    <3>3. rx' = <<>> BY <1>3, <3>2
    <3>4. tx' = <<>> /\ segs' >= Len(queue) BY <2>3, <3>1, <3>2
    <3>5. NoK' BY <3>4 DEF NoK
    <3>6. Current' = Current /\ Size1' = Size1 BY <1>1 DEF Current, Size1
    <3>7. Current.lba \in Nat BY <1>1, <3>1, <3>2, <2>5, ItemFields
    <3>8. lba' = Current.lba + at - 1 /\ left' = Size1 - at + 1 BY <2>3, <3>1, <3>2, <3>7
    <3>9. QED BY <1>1, <2>1, <2>3, <2>6, <2>7, <3>1, <3>2, <3>3, <3>4, <3>5, <3>6, <3>8 DEF AtSector
  <2>8. CASE s_pc' # "data"
    <3>1. s_baud' = s_baud /\ s_pc' \in {"cmd", "uboot"} /\ (Harmless \/ tx' = tx)
      BY <1>2, <2>3, <2>5, <2>8, StreamActs
    <3>2. NoK' BY <1>2, <2>3, <3>1, StillNoK DEF Harmless
    <3>3. Current' = Current /\ Size1' = Size1 BY <1>1 DEF Current, Size1
    <3>4. QED BY <1>1, <2>1, <2>3, <2>6, <3>1, <3>2, <3>3 DEF AtSector
  <2>9. QED BY <2>7, <2>8
<1>c. AtAck'
  <2>1. SUFFICES ASSUME h_pc = "ack" PROVE AtAck' BY <1>1 DEF AtAck
  <2>2. AtAck BY DEF Inv, InStep
  <2>3. /\ s_baud = h_baud /\ queue # <<>> /\ at <= Size1
        /\ SentBefore
        /\ s_pc \in {"seg", "data", "cmd", "uboot"} /\ AckToCome
    BY <1>1, <2>1, <2>2 DEF AtAck, AckToCome
  <2>4. Current' = Current /\ Size1' = Size1 BY <1>1 DEF Current, Size1
  <2>q. Len(queue) \in Nat /\ Len(queue) >= 1 /\ Size1 \in Nat /\ Current.lba \in Nat
    BY <1>2, <2>3, QueueHead
  <2>5. SentBefore'
    <3>1. SUFFICES ASSUME NEW i \in 1 .. Len(rx') - 1
                   PROVE  \/ rx'[i].k = "segment" /\ rx'[i].n = 0
                          \/ /\ at = 1 /\ i = Len(rx') - 1
                             /\ rx'[i] = Segment(Current.lba, Size1)
      BY <1>1 DEF SentBefore, Sent, Zero, Current, Size1
    <3>2. /\ rx'[i] = rx[i + 1] /\ i + 1 \in 1 .. Len(rx) - 1
          /\ (i = Len(rx') - 1 <=> i + 1 = Len(rx) - 1)
      BY <1>1
    <3>3. Sent(i + 1, Len(rx) - 1) BY <2>3, <3>2 DEF SentBefore
    <3>4. QED BY <3>2, <3>3 DEF Sent, Zero
  <2>6. CASE Len(rx) > 1
    <3>1. Sent(1, Len(rx) - 1) BY <1>1, <2>3, <2>6 DEF SentBefore
    <3>2. In.k = "segment" /\ (In.n >= 1 => /\ Len(rx) = 2 /\ In.lba = Current.lba /\ at = 1
                                            /\ In.n = Size1)
      BY <1>1, <2>6, <3>1 DEF Sent, Zero, Segment
    <3>3. s_pc \in {"seg", "cmd", "uboot"} /\ NoK /\ (s_pc = "seg" => segs >= Len(queue) /\ tx = <<>>)
      BY <2>3, <2>6 DEF AckToCome
    <3>4. rx' # <<>> /\ rx'[Len(rx')] = rx[Len(rx)] BY <1>1, <2>6
    <3>5. rx'[Len(rx')].k = "sector" /\ rx'[Len(rx')].data = Current.data[at]
      BY <2>3, <3>4 DEF AckToCome
    <3>6. CASE s_pc' = "data"
      <4>1. /\ s_pc = "seg" /\ In.n \in 1 .. MAX_COUNT /\ lba' = In.lba /\ left' = In.n
            /\ segs' = segs /\ tx' = tx /\ s_baud' = s_baud
        BY <1>2, <3>2, <3>3, <3>6, StreamActs
      <4>2. Len(rx') = 1 /\ In.lba = Current.lba /\ In.n = Size1 /\ Size1 >= 1 /\ at = 1
        BY <1>1, <3>2, <4>1, BoundAssumption
      <4>3. tx' = <<>> /\ segs' >= Len(queue) BY <3>3, <4>1
      <4>4. NoK' BY <4>3 DEF NoK
      <4>5. Current.lba \in Nat BY <1>1, <4>2, <3>2, ItemFields
      <4>6. lba' = Current.lba + at - 1 /\ left' = Size1 - at + 1 BY <4>1, <4>2, <4>5
      <4>7. AckToCome'
        BY <1>1, <2>4, <3>5, <3>6, <4>2, <4>3, <4>4, <4>6 DEF AckToCome
      <4>8. QED BY <1>1, <2>3, <2>4, <2>5, <3>4, <3>6, <4>1, <4>7 DEF AtAck
    <3>7. CASE s_pc' # "data"
      <4>1. s_baud' = s_baud /\ s_pc' \in {"cmd", "uboot"} /\ (Harmless \/ tx' = tx)
        BY <1>2, <3>2, <3>3, <3>7, StreamActs
      <4>2. NoK' BY <1>2, <3>3, <4>1, StillNoK DEF Harmless
      <4>3. AckToCome' BY <1>1, <2>4, <3>5, <4>1, <4>2 DEF AckToCome
      <4>4. QED BY <1>1, <2>3, <2>4, <2>5, <3>4, <4>1, <4>3 DEF AtAck
    <3>8. QED BY <3>6, <3>7
  <2>7. CASE Len(rx) = 1
    <3>1. rx' = <<>> BY <1>3, <2>7
    <3>2. In.k = "sector" BY <1>1, <2>3, <2>7 DEF AckToCome
    <3>3. SUFFICES s_baud' = s_baud /\ s_pc' \in {"seg", "data", "partial", "cmd", "uboot"} /\ AckCame'
      BY <1>1, <2>3, <2>4, <2>5, <3>1 DEF AtAck
    <3>4. NoK BY <2>3 DEF AckToCome
    <3>5. CASE s_pc = "data" /\ AfterSector("data")
      <4>1. /\ tx = <<>> /\ segs >= Len(queue) /\ lba = Current.lba + at - 1
            /\ left = Size1 - at + 1 /\ left >= 1
        BY <1>2, <2>3, <3>5 DEF AckToCome, WriteOK
      <4>3. /\ lba' = lba + 1 /\ left' = left - 1 /\ s_baud' = s_baud
            /\ \/ /\ left > 1 /\ s_pc' = "data" /\ segs' = segs
                  /\ Answered(Reply("K"))
               \/ /\ left = 1 /\ segs > 1 /\ s_pc' = "seg" /\ segs' = segs - 1
                  /\ Answered(Reply("K"))
               \/ /\ left = 1 /\ segs = 1 /\ s_pc' = "cmd" /\ segs' = 0
                  /\ \/ tx' = tx \o <<Reply("K"), Reply("MW_DONE")>>
                     \/ tx' = Append(tx, Reply("K"))
                     \/ tx' = Append(tx, Reply("MW_DONE"))
        BY <1>2, <3>5, <4>1, AfterSectorIs
      <4>4. Answered(Reply("K")) => NoK' \/ tx' = <<Reply("K")>>
        BY <4>1 DEF Answered, NoK, Reply, Noise
      <4>5. lba' = Current.lba + at /\ left' = Size1 - at
        BY <1>2, <4>1, <2>q, <4>3
      <4>6. CASE left > 1 /\ s_pc' = "data" /\ segs' = segs /\ Answered(Reply("K"))
        BY <1>1, <2>4, <4>1, <4>3, <4>4, <4>5, <4>6 DEF AckCame
      <4>7. CASE left = 1 /\ segs > 1 /\ s_pc' = "seg" /\ segs' = segs - 1 /\ Answered(Reply("K"))
        <5>1. at = Size1 /\ segs' >= Len(queue) - 1 BY <1>2, <4>1, <2>q, <4>7
        <5>2. QED BY <1>1, <2>4, <4>3, <4>4, <4>7, <5>1 DEF AckCame
      <4>8. CASE /\ left = 1 /\ segs = 1 /\ s_pc' = "cmd" /\ segs' = 0
                 /\ \/ tx' = tx \o <<Reply("K"), Reply("MW_DONE")>>
                    \/ tx' = Append(tx, Reply("K"))
                    \/ tx' = Append(tx, Reply("MW_DONE"))
        <5>0. left = 1 /\ segs = 1 BY <4>8
        <5>a. 1 >= Len(queue) /\ 1 = Size1 - at + 1 BY <4>1, <5>0
        <5>b. at = Size1 BY <1>2, <2>q, <5>a
        <5>c. \A n \in Nat : n >= 1 /\ 1 >= n => n = 1 OBVIOUS
        <5>d. Len(queue) \in Nat /\ Len(queue) >= 1 /\ 1 >= Len(queue) BY <2>q, <5>a
        <5>1. at = Size1 /\ Len(queue) = 1 BY <5>b, <5>c, <5>d, Zenon
        <5>2. tx' \in {<<Reply("K")>>, <<Reply("K"), Reply("MW_DONE")>>, <<Reply("MW_DONE")>>}
          BY <4>1, <4>8
        <5>3. QED BY <1>1, <2>4, <4>3, <4>8, <5>1, <5>2 DEF AckCame
      <4>9. QED BY <4>3, <4>6, <4>7, <4>8
    <3>6. CASE ~(s_pc = "data" /\ AfterSector("data"))
      <4>1. /\ s_baud' = s_baud /\ s_pc' \in {"seg", "partial", "cmd", "uboot"}
            /\ Harmless
            /\ s_pc' = "seg" => s_pc = "seg" /\ segs' = segs
        BY <1>2, <2>3, <3>2, <3>6, StreamActs DEF Harmless
      <4>2. NoK' BY <1>2, <3>4, <4>1, StillNoK
      <4>3. s_pc' = "seg" => segs' >= Len(queue) - 1
        BY <1>2, <2>3, <2>q, <4>1 DEF AckToCome
      <4>4. QED BY <1>1, <4>1, <4>2, <4>3 DEF AckCame
    <3>7. QED BY <3>5, <3>6
  <2>8. QED BY <1>1, <2>6, <2>7
<1>99. QED BY <1>a, <1>b, <1>c, <1>d
-----------------------------------------------------------------------------
\* A step of stage2 keeps the invariant.
LEMMA StageStep ==
    ASSUME Inv, Stage2Acts PROVE Inv'
<1>1. Stage2Step /\ UNCHANGED <<h_baud, hostVars>> BY DEF Stage2Acts
<1>2. Types /\ CardOK /\ WriteOK /\ StreamOK BY DEF Inv
<1>3. Types' BY <1>1, <1>2, StageTypes
<1>4. CardOK' /\ WriteOK' BY <1>1, <1>2, StageWrites
<1>5. StreamOK' BY <1>1, <1>2, StageStream
<1>6. InStep' BY <1>1, StageWaits, StageStreams DEF InStep
<1>7. QueueOK' /\ TodoOK'
  <2>1. queue' = queue /\ todo' = todo /\ h_pc' = h_pc /\ h_files' = h_files
    BY <1>1 DEF hostVars
  <2>2. QueueOK' BY <2>1 DEF Inv, QueueOK, GoodSegment
  <2>3. TodoOK' BY <2>1 DEF Inv, TodoOK, Follows, FitAt
  <2>4. QED BY <2>2, <2>3
<1>8. QED BY <1>3, <1>4, <1>5, <1>6, <1>7 DEF Inv

\* A first command that is late: the script waits for it in vain.
LEMMA ExpireStep ==
    ASSUME Inv, Stage2Expires PROVE Inv'
<1>1. /\ s_pc = "cmd" /\ s_pc' = "uboot" /\ rx = <<>>
      /\ \/ h_pc = "idle"
         \/ tx = <<>> /\ h_pc \notin {"next", "seg", "sector"}
      /\ UNCHANGED <<card, rx, tx, s_baud, segs, lba, left, h_baud>>
      /\ UNCHANGED <<files, h_pc, todo, h_files, slots, queue, at>>
  BY DEF Stage2Expires, FirstTimeout, Goto, hostVars, Waiting, Wanted
<1>2. Types' BY <1>1 DEF Inv, Types, Out
<1>3. CardOK' BY <1>1 DEF Inv, CardOK
<1>4. WriteOK' BY <1>1 DEF WriteOK
<1>5. StreamOK' BY <1>1 DEF StreamOK
<1>6. QueueOK' BY <1>1 DEF Inv, QueueOK, GoodSegment
<1>7. TodoOK' BY <1>1 DEF Inv, TodoOK, Follows, FitAt
<1>8. AtNext' /\ AtSeg' /\ AtSector' BY <1>1 DEF AtNext, AtSeg, AtSector
<1>9. AtWait' /\ AtB1'
  <2>1. h_pc \in Waits => rx' = <<>> /\ tx' = <<>> BY <1>1 DEF Waits
  <2>2. Len(rx') = 0 \/ h_pc \notin Waits BY <2>1
  <2>3. QED BY <1>1, <2>1, <2>2 DEF AtWait, AtB1, Waits
<1>10. AtGo' BY <1>1 DEF Inv, InStep, AtGo
<1>11. AtDone' BY <1>1 DEF Inv, InStep, AtDone, NoK
<1>12. AtAck'
  <2>1. SUFFICES ASSUME h_pc = "ack" PROVE AtAck' BY <1>1 DEF AtAck
  <2>2. /\ s_baud = h_baud /\ queue # <<>> /\ at <= Size1 BY <2>1 DEF Inv, InStep, AtAck
  <2>3. Size1' = Size1 BY <1>1 DEF Size1
  <2>4. SentBefore' BY <1>1 DEF SentBefore
  <2>5. AckCame' BY <1>1, <2>1 DEF AckCame, NoK
  <2>6. QED BY <1>1, <2>1, <2>2, <2>3, <2>4, <2>5 DEF AtAck
<1>13. QED
  BY <1>2, <1>3, <1>4, <1>5, <1>6, <1>7, <1>8, <1>9, <1>10, <1>11, <1>12 DEF Inv, InStep

-----------------------------------------------------------------------------
(* What the steps of a script do.                                            *)

\* The card and stage2 are as the invariant wants them.
StageOK ==
    /\ card \in [0 .. END_LBA -> Datas] /\ CardOK /\ WriteOK
    /\ s_pc \in Live \cup Out /\ s_baud \in Bauds /\ segs \in Nat /\ lba \in Nat /\ left \in Nat

\* A script leaves the card and stage2 alone ...
LEMMA HostKeeps ==
    ASSUME Inv, UNCHANGED <<card, modeVars>>
    PROVE  StageOK' /\ UNCHANGED <<s_pc, s_baud, segs, lba, left>>
BY DEF Inv, Types, CardOK, WriteOK, modeVars, StageOK

\* ... except when it programs the FPGA.
LEMMA ProgramIs ==
    ASSUME Inv, UNCHANGED card, NEW ph, Program(ph)
    PROVE  /\ StageOK' /\ rx' = <<>> /\ tx' = <<>> /\ h_baud' = "app" /\ s_baud' = "app"
           /\ (todo' = ph /\ s_pc' = "cmd") \/ (todo' = <<>> /\ s_pc' = "halt")
BY DEF Inv, Types, CardOK, WriteOK, StageOK, Program, Started, Live, Out, Bauds

\* Nothing but what it sends, its own place and the files it has read change.
LEMMA HostTypes ==
    ASSUME Types, StageOK', UNCHANGED <<files, slots>>,
           h_files' \in {h_files, files}, h_baud' \in Bauds,
           rx' \in Seq(Items), tx' \in Seq(Replies), todo' \in Seq(Names),
           h_pc' \in {"idle", "next"} \cup Waits \cup Streams,
           queue' \in Seq(Segments), at' \in Nat \ {0}
    PROVE  Types'
BY DEF Types, StageOK

\* The rest of the phases is in order, if the files that it is about to write fit.
LEMMA TodoShrinks ==
    ASSUME Types, TodoOK, todo # <<>>, todo' = Tail(todo), h_files' = h_files,
           todo[1] = "rd" => Fit(h_files), h_pc' = "next"
    PROVE  TodoOK' /\ todo' \in Seq(Names)
<1>1. /\ todo' \in Seq(Names) /\ Len(todo') = Len(todo) - 1 /\ Len(todo) \in Nat \ {0}
      /\ \A i \in 1 .. Len(todo') : todo'[i] = todo[i + 1] /\ i + 1 \in 1 .. Len(todo)
  BY TailIs DEF Types
<1>2. ASSUME NEW i \in 1 .. Len(todo') PROVE Follows(i)'
  <2>1. Follows(i + 1) BY <1>1 DEF TodoOK
  <2>2. /\ todo'[i] = todo[i + 1]
        /\ i + 1 < Len(todo) => i < Len(todo') /\ todo'[i + 1] = todo[i + 2]
    BY <1>1
  <2>3. \A j \in i + 1 .. Len(todo') : todo'[j] = todo[j + 1] /\ j + 1 \in i + 2 .. Len(todo)
    BY <1>1
  <2>4. /\ todo'[i] = "rd" => i < Len(todo') /\ todo'[i + 1] = "write"
        /\ todo'[i] = "speed" => i < Len(todo') /\ todo'[i + 1] \in {"rd", "write"}
    BY <1>1, <2>1, <2>2 DEF Follows
  <2>5. ASSUME NEW j \in i + 1 .. Len(todo')
        PROVE  /\ todo'[i] = "write" => todo'[j] \in {"verify", "drop", "b"}
               /\ todo'[i] = "verify" => todo'[j] \in {"drop", "b"}
               /\ todo'[i] \in {"check", "drop", "b", "w"} => todo'[j] = "b"
    <3>1. todo'[j] = todo[j + 1] /\ j + 1 \in (i + 1) + 1 .. Len(todo) /\ todo'[i] = todo[i + 1]
      BY <1>1, <2>3
    <3>2. QED BY <2>1, <3>1 DEF Follows
  <2>6. QED BY <2>4, <2>5 DEF Follows
<1>3. ASSUME NEW i \in 1 .. Len(todo') PROVE FitAt(i)'
  <2>1. FitAt(i + 1) /\ todo'[i] = todo[i + 1] BY <1>1 DEF TodoOK
  <2>2. i > 1 => todo'[i - 1] = todo[i] BY <1>1
  <2>3. QED BY <2>1, <2>2 DEF FitAt, Fit
<1>4. /\ h_pc' # "idle" /\ h_pc' # "rd" /\ h_pc' \notin {"b1", "b2"}
      /\ h_pc' \notin {"w1", "w2"} /\ h_pc' \notin {"mw_ready", "mw_go"} \cup Streams
  BY DEF Streams
<1>5. \A i \in 1 .. Len(todo') : Follows(i)' /\ FitAt(i)' BY <1>2, <1>3
<1>6. QED BY <1>1, <1>4, <1>5 DEF TodoOK

\* Nothing is in flight, or one item that is no data.
LEMMA OneInFlight ==
    ASSUME NEW x \in Items, x.k \notin {"segment", "sector"}, rx' = <<>> \/ rx' = <<x>>
    PROVE  StreamOK' /\ rx' \in Seq(Items) /\ Len(rx') <= 1
<1>1. CASE rx' = <<>> BY <1>1 DEF StreamOK
<1>2. CASE rx' = <<x>>
  <2>1. Len(rx') = 1 /\ rx'[1] = x /\ rx' \in Seq(Items) BY <1>2
  <2>2. \A i \in 1 .. Len(rx') : i = 1 BY <2>1
  <2>3. QED BY <2>1, <2>2 DEF StreamOK
<1>3. QED BY <1>1, <1>2

\* An item sent with nothing in flight: it may be noise to stage2, or be lost.
LEMMA SentAlone ==
    ASSUME rx = <<>>, NEW x \in Items, NEW pc, SendThen(x, pc)
    PROVE  /\ h_pc' = pc
           /\ rx' = <<>> \/ (rx' = <<x>> /\ h_baud = s_baud) \/ (rx' = <<Noise>> /\ h_baud # s_baud)
BY DEF SendThen
-----------------------------------------------------------------------------
\* A script that ends, by itself or not, asks nothing of the rest.
LEMMA ToIdle ==
    ASSUME Inv, UNCHANGED <<card, modeVars, files, h_files, slots, rx, tx, h_baud>>,
           h_pc' = "idle", todo' = <<>>, queue' = <<>>, at' = 1
    PROVE  Inv'
<1>1. StageOK' BY HostKeeps
<1>2. Types' BY <1>1, HostTypes DEF Inv, Types
<1>3. StreamOK'
  <2>1. UNCHANGED <<rx, s_pc, lba>> BY DEF modeVars
  <2>2. QED BY <2>1 DEF Inv, StreamOK, SectorOK
<1>4. QueueOK' /\ TodoOK' BY DEF QueueOK, TodoOK, Streams
<1>5. InStep'
  BY DEF InStep, AtNext, AtWait, AtB1, AtGo, AtSeg, AtSector, AtAck, AtDone, Waits
<1>6. QED BY <1>1, <1>2, <1>3, <1>4, <1>5 DEF Inv, StageOK

\* A script goes on to its next phase when all that was sent has been taken and read.
LEMMA ToNext ==
    ASSUME Inv, StageOK', UNCHANGED <<files, h_files, slots, queue, at>>,
           h_baud' \in Bauds, rx' = <<>>, tx' = <<>>, h_pc' = "next",
           \/ todo' = <<>>
           \/ todo # <<>> /\ todo' = Tail(todo) /\ (todo[1] = "rd" => Fit(h_files))
    PROVE  Inv'
<1>1. TodoOK' /\ todo' \in Seq(Names)
  <2>1. CASE todo' = <<>> BY <2>1 DEF TodoOK, Streams
  <2>2. CASE todo # <<>> /\ todo' = Tail(todo) /\ (todo[1] = "rd" => Fit(h_files))
    BY <2>2, TodoShrinks DEF Inv
  <2>3. QED BY <2>1, <2>2
<1>2. Types'
  <2>1. queue' \in Seq(Segments) /\ at' \in Nat \ {0} /\ Types BY DEF Inv, Types
  <2>2. rx' \in Seq(Items) /\ tx' \in Seq(Replies) OBVIOUS
  <2>3. QED BY <1>1, <2>1, <2>2, HostTypes
<1>3. StreamOK' BY DEF StreamOK
<1>4. QueueOK' BY DEF Inv, QueueOK, GoodSegment
<1>5. InStep'
  BY DEF InStep, AtNext, AtWait, AtB1, AtGo, AtSeg, AtSector, AtAck, AtDone, Waits
<1>6. QED BY <1>1, <1>2, <1>3, <1>4, <1>5 DEF Inv, StageOK

\* A script waits after an item that is no data.
LEMMA ToWait ==
    ASSUME Inv, UNCHANGED <<card, modeVars, files, slots>>, h_files' \in {h_files, files},
           h_baud' \in Bauds, tx' = <<>>, todo' = todo, h_pc' \in Waits \ {"mw_go"},
           NEW x \in Items, x.k \notin {"segment", "sector"}, rx' = <<>> \/ rx' = <<x>>,
           h_pc' = "b1" => x.k = "noise" \/ x = Baud(Rate(todo[1])),
           TodoOK', queue' \in Seq(Segments), at' \in Nat \ {0}, QueueOK'
    PROVE  Inv'
<1>1. StageOK' BY HostKeeps
<1>2. StreamOK' /\ rx' \in Seq(Items) /\ Len(rx') <= 1 BY OneInFlight
<1>3. Types'
  <2>1. Types /\ todo' \in Seq(Names) BY DEF Inv, Types
  <2>2. tx' \in Seq(Replies) OBVIOUS
  <2>3. QED BY <1>1, <1>2, <2>1, <2>2, HostTypes
<1>4. /\ h_pc' # "next" /\ h_pc' # "mw_go" /\ h_pc' \notin Streams
      /\ h_pc' \notin {"seg", "sector", "ack", "mw_done"}
  BY DEF Waits, Streams
<1>5. AtNext' /\ AtGo' /\ AtSeg' /\ AtSector' /\ AtAck' /\ AtDone'
  BY <1>4 DEF AtNext, AtGo, AtSeg, AtSector, AtAck, AtDone
<1>6. AtWait'
  <2>1. Len(rx') <= 1 BY <1>2
  <2>2. \A i \in 1 .. Len(tx') : FALSE OBVIOUS
  <2>3. QED BY <2>1, <2>2 DEF AtWait
<1>7. AtB1'
  <2>1. \A i \in 1 .. Len(tx') : FALSE OBVIOUS
  <2>2. ASSUME h_pc' = "b1", rx' # <<>>, rx'[1].k = "cmd" PROVE rx'[1] = Baud(Rate(todo[1]))
    <3>1. rx'[1] = x BY <2>2
    <3>2. QED BY <2>2, <3>1
  <2>3. QED BY <2>1, <2>2 DEF AtB1, Baud, Rate
<1>8. QED BY <1>1, <1>2, <1>3, <1>5, <1>6, <1>7 DEF Inv, InStep, StageOK

\* The phases do not change while a script waits.
LEMMA SamePhases ==
    ASSUME Inv, todo' = todo, todo # <<>>,
           \/ h_files' = h_files
           \/ h_files' = files /\ (todo[1] = "check" \/ (todo[1] = "rd" /\ Fit(files))),
           h_pc' = "rd" => todo[1] \in {"rd", "check", "verify"} /\ (todo[1] = "rd" => Fit(h_files')),
           h_pc' \in {"b1", "b2"} => todo[1] \in {"speed", "drop"},
           h_pc' \in {"w1", "w2"} => todo[1] = "w",
           h_pc' \in {"mw_ready", "mw_go"} \cup Streams => todo[1] = "write",
           h_pc' # "idle"
    PROVE  TodoOK'
<1>1. todo \in Seq(Names) /\ Len(todo) \in Nat \ {0} BY DEF Inv, Types
<1>2. \A i \in 1 .. Len(todo) : Follows(i) /\ FitAt(i) BY DEF Inv, TodoOK
<1>3. ASSUME NEW i \in 1 .. Len(todo) PROVE Follows(i)'
  BY <1>2 DEF Follows
<1>4. ASSUME NEW i \in 1 .. Len(todo) PROVE FitAt(i)'
  <2>1. CASE h_files' = h_files
    <3>1. FitAt(i) BY <1>2
    <3>2. QED BY <2>1, <3>1 DEF FitAt, Fit
  <2>2. CASE h_files' = files /\ todo[1] = "rd" /\ Fit(files)
    BY <2>2 DEF FitAt, Fit
  <2>3. CASE h_files' = files /\ todo[1] = "check"
    <3>1. Follows(1) BY <1>1, <1>2
    <3>2. \A j \in 2 .. Len(todo) : todo[j] = "b" BY <2>3, <3>1 DEF Follows
    <3>3. i = 1 \/ i \in 2 .. Len(todo) BY <1>1
    <3>4. todo[i] # "write" BY <2>3, <3>2, <3>3
    <3>5. QED BY <3>4 DEF FitAt
  <2>4. QED BY <2>1, <2>2, <2>3
<1>5. \A i \in 1 .. Len(todo') : Follows(i)' /\ FitAt(i)' BY <1>3, <1>4
<1>6. (Fit(h_files))' <=> Fit(h_files') BY DEF Fit
<1>7. QED BY <1>5, <1>6 DEF TodoOK
-----------------------------------------------------------------------------
\* The number of sectors that some bytes take.
LEMMA PaddedNat ==
    ASSUME NEW n \in Nat PROVE Padded(n) \in Nat
BY FileAssumption DEF Padded

\* The sectors of a file.
LEMMA ContentsIs ==
    ASSUME NEW c \in Files, NEW v \in Versions
    PROVE  /\ Contents(c, v) \in Seq(Datas) /\ Len(Contents(c, v)) = Padded(Size[c][v])
           /\ Padded(Size[c][v]) \in Nat
           /\ \A i \in 1 .. Padded(Size[c][v]) :
                 Contents(c, v)[i] = [of |-> c, ver |-> v, at |-> i]
<1> DEFINE n == Padded(Size[c][v])
           f == [i \in 1 .. n |-> [of |-> c, ver |-> v, at |-> i]]
<1>1. n \in Nat BY PaddedNat, FileAssumption
<1>2. \A i \in 1 .. n : [of |-> c, ver |-> v, at |-> i] \in Datas BY <1>1 DEF Datas
<1>3. f = Contents(c, v) BY DEF Contents
<1> HIDE DEF n
<1>4. f \in Seq(Datas) /\ Len(f) = n BY <1>1, <1>2
<1>5. \A i \in 1 .. n : f[i] = [of |-> c, ver |-> v, at |-> i] OBVIOUS
<1>6. QED BY <1>1, <1>3, <1>4, <1>5 DEF n

\* The segments of files that fit their slots are such as the scripts may send.
LEMMA SegmentsAreGood ==
    ASSUME NEW sel \in SUBSET Files, NEW ver \in [Files -> Versions], Fit(ver)
    PROVE  /\ SegmentsOf(sel, ver) \in Seq(Segments) /\ SegmentsOf(sel, ver) # <<>>
           /\ \A j \in 1 .. Len(SegmentsOf(sel, ver)) : GoodSegment(SegmentsOf(sel, ver)[j])
<1> DEFINE Good == {s \in Segments : GoodSegment(s)}
           header == [lba |-> HDR_LBA, data |-> <<Header(SizesOf(ver))>>]
           file(c) == [lba |-> SlotLba[c], data |-> Contents(c, ver[c])]
           one(c) == IF c \in sel THEN <<file(c)>> ELSE <<>>
<1>1. header \in Good
  <2>1. Header(SizesOf(ver)) \in Datas /\ Header(SizesOf(ver)).of = "header"
    BY FileAssumption DEF Header, SizesOf, Datas
  <2>2. header \in Segments /\ header.lba = HDR_LBA /\ Len(header.data) = 1
        /\ header.data[1] = Header(SizesOf(ver))
    BY <2>1 DEF Segments, HDR_LBA
  <2>3. InOneSlot(header.lba, Len(header.data)) BY <2>2 DEF InOneSlot
  <2>4. \A i \in 1 .. Len(header.data) : Belongs(header.data[i], header.lba + i - 1)
    <3>1. Belongs(Header(SizesOf(ver)), HDR_LBA) BY <2>1 DEF Belongs
    <3>2. \A i \in 1 .. Len(header.data) : i = 1 /\ header.lba + i - 1 = HDR_LBA
      BY <2>2 DEF HDR_LBA
    <3>3. QED BY <2>2, <3>1, <3>2
  <2>5. QED BY <2>2, <2>3, <2>4 DEF GoodSegment
<1>2. ASSUME NEW c \in Files PROVE file(c) \in Good
  <2>1. ver[c] \in Versions OBVIOUS
  <2>2. Padded(Size[c][ver[c]]) <= MAX_SEC[c] BY DEF Fit
  <2>3. /\ file(c).lba = SlotLba[c] /\ file(c).data = Contents(c, ver[c])
        /\ SlotLba[c] \in Nat /\ MAX_SEC[c] \in Nat
    BY Layout
  <2>4. /\ file(c).data \in Seq(Datas) /\ Len(file(c).data) = Padded(Size[c][ver[c]])
        /\ Padded(Size[c][ver[c]]) \in Nat
        /\ \A i \in 1 .. Padded(Size[c][ver[c]]) : file(c).data[i].of = c
    <3>1. /\ Contents(c, ver[c]) \in Seq(Datas)
          /\ Len(Contents(c, ver[c])) = Padded(Size[c][ver[c]])
          /\ Padded(Size[c][ver[c]]) \in Nat
          /\ \A i \in 1 .. Padded(Size[c][ver[c]]) :
                Contents(c, ver[c])[i] = [of |-> c, ver |-> ver[c], at |-> i]
      BY <2>1, ContentsIs
    <3>2. \A i \in 1 .. Padded(Size[c][ver[c]]) : Contents(c, ver[c])[i].of = c BY <3>1
    <3> HIDE DEF file
    <3>3. QED BY <2>3, <3>1, <3>2
  <2>5. file(c) \in Segments BY <2>3, <2>4 DEF Segments
  <2>6. InOneSlot(file(c).lba, Len(file(c).data)) BY <2>2, <2>3, <2>4 DEF InOneSlot
  <2>7. \A i \in 1 .. Len(file(c).data) : Belongs(file(c).data[i], file(c).lba + i - 1)
    BY <2>2, <2>3, <2>4 DEF Belongs
  <2>8. QED BY <2>5, <2>6, <2>7 DEF GoodSegment
<1>3. \A c \in Files : one(c) \in Seq(Good)
  <2>1. SUFFICES ASSUME NEW c \in Files PROVE one(c) \in Seq(Good) OBVIOUS
  <2>2. file(c) \in Good BY <1>2
  <2> HIDE DEF file, Good
  <2>3. QED BY <2>2
<1>4. SegmentsOf(sel, ver) = <<header>> \o one("Image") \o one("DTB") \o one("initrd")
  BY DEF SegmentsOf
<1>5. <<header>> \o one("Image") \o one("DTB") \o one("initrd") \in Seq(Good)
      /\ <<header>> \o one("Image") \o one("DTB") \o one("initrd") # <<>>
  <2>1. /\ one("Image") \in Seq(Good) /\ one("DTB") \in Seq(Good)
        /\ one("initrd") \in Seq(Good)
    BY <1>3 DEF Files
  <2> HIDE DEF one, Good, header
  <2>2. <<header>> \in Seq(Good) /\ Len(<<header>>) = 1 BY <1>1
  <2>3. QED BY <2>1, <2>2
<1>6. SegmentsOf(sel, ver) \in Seq(Good) /\ SegmentsOf(sel, ver) # <<>>
  BY <1>4, <1>5
<1>7. SegmentsOf(sel, ver) \in Seq(Segments) BY <1>6
<1>8. \A j \in 1 .. Len(SegmentsOf(sel, ver)) : SegmentsOf(sel, ver)[j] \in Good
  <2> HIDE DEF Good
  <2>1. QED BY <1>6
<1>9. QED BY <1>6, <1>7, <1>8

-----------------------------------------------------------------------------
\* A script begins its next phase, when nothing is in flight.
LEMMA AtNextIs ==
    ASSUME Inv, h_pc = "next", todo # <<>>
    PROVE  /\ rx = <<>> /\ tx = <<>> /\ Head(todo) = todo[1] /\ todo[1] \in Names
           /\ Len(todo) \in Nat \ {0}
BY TailIs DEF Inv, InStep, AtNext, Types

\* Rates are switched, or are what they should be.
LEMMA BeginSwitchStep ==
    ASSUME Inv, BeginSwitch PROVE Inv'
<1>1. h_pc = "next" /\ todo # <<>> /\ Head(todo) \in {"speed", "drop"} BY DEF BeginSwitch
<1>2. /\ UNCHANGED <<card, modeVars, files, h_files, slots, queue, at, h_baud>>
      /\ h_baud' \in Bauds /\ queue' \in Seq(Segments) /\ at' \in Nat \ {0}
  BY DEF BeginSwitch, Quiet, Keep, Inv, Types
<1>3. rx = <<>> /\ tx = <<>> /\ todo[1] \in {"speed", "drop"} /\ Head(todo) = todo[1]
  BY <1>1, AtNextIs
<1>4. CASE SendThen(Baud(Rate(Head(todo))), "b1") /\ tx' = <<>> /\ UNCHANGED todo
  <2>1. Rate(todo[1]) \in Bauds BY DEF Rate, Bauds
  <2>2. Baud(Rate(todo[1])) \in Items /\ Baud(Rate(todo[1])).k = "cmd"
    BY <2>1, ItemsSent DEF Baud
  <2>3. /\ h_pc' = "b1"
        /\ rx' = <<>> \/ rx' = <<Baud(Rate(todo[1]))>> \/ rx' = <<Noise>>
    BY <1>3, <1>4, <2>2, SentAlone
  <2>4. TodoOK' BY <1>1, <1>2, <1>3, <1>4, <2>3, SamePhases DEF Streams
  <2>5. QueueOK' BY <1>2, <2>3 DEF Inv, QueueOK, GoodSegment
  <2>6. Noise \in Items /\ Noise.k = "noise" BY ItemsSent DEF Noise
  <2>7. h_pc' \in Waits \ {"mw_go"} BY <2>3 DEF Waits
  <2>8. CASE rx' = <<>> \/ rx' = <<Baud(Rate(todo[1]))>>
    BY <1>2, <1>4, <2>2, <2>4, <2>5, <2>7, <2>8, ToWait
  <2>9. CASE rx' = <<Noise>>
    BY <1>2, <1>4, <2>4, <2>5, <2>6, <2>7, <2>9, ToWait
  <2>10. QED BY <2>3, <2>8, <2>9
<1>5. CASE todo' = Tail(todo) /\ UNCHANGED <<h_pc, rx, tx, flaws>>
  <2>1. StageOK' BY <1>2, HostKeeps
  <2>2. QED BY <1>1, <1>2, <1>3, <1>5, <2>1, ToNext
<1>6. QED BY <1>4, <1>5 DEF BeginSwitch

\* It sends a command and waits.
LEMMA CommandSent ==
    ASSUME Inv, rx = <<>>, tx = <<>>, NEW c \in {"R", "W", "w", "b"}, NEW pc, SendThen(Cmd(c), pc),
           UNCHANGED <<card, modeVars, files, slots, h_baud, todo, tx>>,
           h_files' \in {h_files, files}, pc \in {"rd", "mw_ready", "w1"},
           TodoOK', queue' \in Seq(Segments), at' \in Nat \ {0}, QueueOK'
    PROVE  Inv'
<1>1. Cmd(c) \in Items /\ Cmd(c).k = "cmd" BY ItemsSent DEF Cmd
<1>2. Noise \in Items /\ Noise.k = "noise" BY ItemsSent DEF Noise
<1>3. h_pc' = pc /\ (rx' = <<>> \/ rx' = <<Cmd(c)>> \/ rx' = <<Noise>>)
  BY <1>1, SentAlone
<1>4. h_pc' \in Waits \ {"mw_go"} /\ h_pc' # "b1" BY <1>3 DEF Waits
<1>5. h_baud' \in Bauds /\ tx' = <<>> BY DEF Inv, Types
<1>6. CASE rx' = <<>> \/ rx' = <<Cmd(c)>> BY <1>1, <1>4, <1>5, <1>6, ToWait
<1>7. CASE rx' = <<Noise>> BY <1>2, <1>4, <1>5, <1>7, ToWait
<1>8. QED BY <1>3, <1>6, <1>7

\* The header is asked for.
LEMMA BeginReadStep ==
    ASSUME Inv, BeginRead PROVE Inv'
<1>1. /\ h_pc = "next" /\ todo # <<>> /\ SendThen(Cmd("R"), "rd")
      /\ UNCHANGED <<card, modeVars, files, slots, h_baud, todo, tx, queue, at>>
      /\ \/ Head(todo) = "verify" /\ h_files' = h_files
         \/ Head(todo) = "check" /\ h_files' = files
         \/ Head(todo) = "rd" /\ Fit(files) /\ h_files' = files
  BY DEF BeginRead
<1>2. rx = <<>> /\ tx = <<>> /\ Head(todo) = todo[1] BY <1>1, AtNextIs
<1>3. h_pc' = "rd" BY <1>1 DEF SendThen
<1>4. TodoOK' BY <1>1, <1>2, <1>3, SamePhases DEF Streams
<1>5. QueueOK' BY <1>1, <1>3 DEF Inv, QueueOK, GoodSegment
<1>6. queue' \in Seq(Segments) /\ at' \in Nat \ {0} BY <1>1 DEF Inv, Types
<1>7. QED BY <1>1, <1>2, <1>4, <1>5, <1>6, CommandSent

\* A write is begun, with files that fit.
LEMMA BeginWriteStep ==
    ASSUME Inv, BeginWrite PROVE Inv'
<1>1. /\ h_pc = "next" /\ todo # <<>> /\ Head(todo) = "write" /\ SendThen(Cmd("W"), "mw_ready")
      /\ UNCHANGED <<card, modeVars, files, h_files, slots, h_baud, todo, tx>>
      /\ queue' = SegmentsOf(slots, h_files) /\ at' = 1
  BY DEF BeginWrite, Keep
<1>2. rx = <<>> /\ tx = <<>> /\ todo[1] = "write" /\ 1 \in 1 .. Len(todo) BY <1>1, AtNextIs
<1>3. h_pc' = "mw_ready" BY <1>1 DEF SendThen
<1>4. Fit(h_files)
  <2>1. FitAt(1) BY <1>2 DEF Inv, TodoOK
  <2>2. QED BY <1>2, <2>1 DEF FitAt
<1>5. slots \in SUBSET Files /\ h_files \in [Files -> Versions] BY DEF Inv, Types
<1>6. /\ queue' \in Seq(Segments) /\ queue' # <<>>
      /\ \A j \in 1 .. Len(queue') : GoodSegment(queue'[j])
  BY <1>1, <1>4, <1>5, SegmentsAreGood
<1>7. QueueOK' BY <1>6 DEF QueueOK, GoodSegment
<1>8. TodoOK' BY <1>1, <1>2, <1>3, SamePhases DEF Streams
<1>9. at' \in Nat \ {0} BY <1>1
<1>10. QED BY <1>1, <1>2, <1>6, <1>7, <1>8, <1>9, CommandSent

\* The write test is begun.
LEMMA BeginTestStep ==
    ASSUME Inv, BeginTest PROVE Inv'
<1>1. /\ h_pc = "next" /\ todo # <<>> /\ Head(todo) = "w" /\ SendThen(Cmd("w"), "w1")
      /\ UNCHANGED <<card, modeVars, files, h_files, slots, h_baud, todo, tx, queue, at>>
  BY DEF BeginTest, Quiet, Keep
<1>2. rx = <<>> /\ tx = <<>> /\ Head(todo) = todo[1] BY <1>1, AtNextIs
<1>3. h_pc' = "w1" BY <1>1 DEF SendThen
<1>4. TodoOK' BY <1>1, <1>2, <1>3, SamePhases DEF Streams
<1>5. QueueOK' BY <1>1, <1>3 DEF Inv, QueueOK, GoodSegment
<1>6. queue' \in Seq(Segments) /\ at' \in Nat \ {0} BY <1>1 DEF Inv, Types
<1>7. QED BY <1>1, <1>2, <1>4, <1>5, <1>6, CommandSent

\* The boot is asked for, and the script ends.
LEMMA BeginBootStep ==
    ASSUME Inv, BeginBoot PROVE Inv'
<1>1. /\ h_pc = "next" /\ todo # <<>> /\ SendThen(Cmd("b"), "idle") /\ todo' = <<>>
      /\ UNCHANGED <<card, modeVars, files, h_files, slots, h_baud, tx, queue, at>>
  BY DEF BeginBoot, Quiet, Keep
<1>2. rx = <<>> /\ tx = <<>> BY <1>1, AtNextIs
<1>3. Cmd("b") \in Items /\ Cmd("b").k = "cmd" BY ItemsSent DEF Cmd
<1>4. Noise \in Items /\ Noise.k = "noise" BY ItemsSent DEF Noise
<1>5. h_pc' = "idle" /\ (rx' = <<>> \/ rx' = <<Cmd("b")>> \/ rx' = <<Noise>>)
  BY <1>1, <1>2, <1>3, SentAlone
<1>6. StreamOK' /\ rx' \in Seq(Items)
  <2>1. CASE rx' = <<>> \/ rx' = <<Cmd("b")>> BY <1>3, <2>1, OneInFlight
  <2>2. CASE rx' = <<Noise>> BY <1>4, <2>2, OneInFlight
  <2>3. QED BY <1>5, <2>1, <2>2
<1>7. StageOK' BY <1>1, HostKeeps
<1>8. Types'
  <2>1. /\ Types /\ tx' \in Seq(Replies) /\ queue' \in Seq(Segments) /\ at' \in Nat \ {0}
        /\ h_baud' \in Bauds
    BY <1>1 DEF Inv, Types
  <2>2. QED BY <1>1, <1>5, <1>6, <1>7, <2>1, HostTypes
<1>9. QueueOK' BY <1>1, <1>5 DEF Inv, QueueOK, GoodSegment
<1>10. TodoOK' BY <1>1, <1>5 DEF TodoOK, Streams
<1>11. InStep'
  BY <1>5 DEF InStep, AtNext, AtWait, AtB1, AtGo, AtSeg, AtSector, AtAck, AtDone, Waits
<1>12. QED BY <1>6, <1>7, <1>8, <1>9, <1>10, <1>11 DEF Inv, StageOK
-----------------------------------------------------------------------------
\* An answer that lets a script go on is all there is, and says where stage2 is.
LEMMA GotIs ==
    ASSUME Inv, NEW pc \in Waits, NEW k \in GoesOn, Got(pc, k)
    PROVE  /\ h_pc = pc /\ rx = <<>> /\ tx' = <<>> /\ Head(tx) = tx[1] /\ tx[1].k = k
           /\ 1 \in 1 .. Len(tx) /\ Says(tx[1]) /\ todo # <<>> /\ Head(todo) = todo[1]
<1>1. h_pc = pc /\ tx # <<>> /\ Head(tx).k = k /\ tx' = Tail(tx) BY DEF Got
<1>2. /\ tx \in Seq(Replies) /\ Len(tx) \in Nat \ {0} /\ Head(tx) = tx[1]
      /\ Tail(tx) \in Seq(Replies) /\ Len(Tail(tx)) = Len(tx) - 1
  BY <1>1, TailIs DEF Inv, Types
<1>3. AtWait BY DEF Inv, InStep
<1>4. 1 \in 1 .. Len(tx) BY <1>2
<1>5. (rx # <<>> => tx = <<>>) /\ Len(tx) = 1 /\ Says(tx[1]) BY <1>1, <1>2, <1>3, <1>4 DEF AtWait
<1>6. tx' = <<>> BY <1>1, <1>2, <1>5
<1>7. todo # <<>>
  BY <1>1 DEF Inv, TodoOK, Waits
<1>8. Head(todo) = todo[1] BY <1>7, TailIs DEF Inv, Types
<1>9. QED BY <1>1, <1>2, <1>4, <1>5, <1>6, <1>7, <1>8

\* The old rate's answer has come: the script switches too and probes.
LEMMA SwitchedStep ==
    ASSUME Inv, Switched PROVE Inv'
<1>1. /\ Got("b1", "BAUD_SWITCH") /\ h_baud' = Rate(Head(todo)) /\ h_pc' = "b2"
      /\ UNCHANGED <<card, modeVars, files, h_files, slots, queue, at, todo>>
      /\ rx' = Append(rx, Probe) \/ rx' = Append(rx, Noise) \/ rx' = rx
  BY DEF Switched, Quiet, Keep
<1>2. "b1" \in Waits /\ "BAUD_SWITCH" \in GoesOn BY DEF Waits, GoesOn
<1>3. /\ h_pc = "b1" /\ rx = <<>> /\ tx' = <<>> /\ todo # <<>> /\ Head(todo) = todo[1]
  BY <1>1, <1>2, GotIs
<1>4. rx' = <<>> \/ rx' = <<Probe>> \/ rx' = <<Noise>> BY <1>1, <1>3
<1>5. todo[1] \in {"speed", "drop"} BY <1>3 DEF Inv, TodoOK
<1>6. TodoOK' BY <1>1, <1>3, <1>5, SamePhases DEF Streams
<1>7. QueueOK' BY <1>1 DEF Inv, QueueOK, GoodSegment
<1>8. h_baud' \in Bauds BY <1>1 DEF Rate, Bauds
<1>9. h_pc' \in Waits \ {"mw_go"} /\ h_pc' # "b1" /\ queue' \in Seq(Segments) /\ at' \in Nat \ {0}
  BY <1>1 DEF Waits, Inv, Types
<1>10. Probe \in Items /\ Noise \in Items /\ Probe.k = "probe" /\ Noise.k = "noise"
  BY ItemsSent DEF Probe, Noise
<1>11. CASE rx' = <<>> \/ rx' = <<Probe>>
  BY <1>1, <1>3, <1>6, <1>7, <1>8, <1>9, <1>10, <1>11, ToWait
<1>12. CASE rx' = <<Noise>>
  BY <1>1, <1>3, <1>6, <1>7, <1>8, <1>9, <1>10, <1>12, ToWait
<1>13. QED BY <1>4, <1>11, <1>12

\* The new rate's answer has come.
LEMMA SwitchOkStep ==
    ASSUME Inv, SwitchOk PROVE Inv'
<1>1. /\ Got("b2", "BAUD_OK") /\ h_pc' = "next" /\ todo' = Tail(todo)
      /\ UNCHANGED <<card, modeVars, files, h_files, slots, queue, at, rx, h_baud>>
  BY DEF SwitchOk, Quiet, Keep
<1>2. "b2" \in Waits /\ "BAUD_OK" \in GoesOn BY DEF Waits, GoesOn
<1>3. h_pc = "b2" /\ rx = <<>> /\ tx' = <<>> /\ todo # <<>> BY <1>1, <1>2, GotIs
<1>4. todo[1] # "rd" BY <1>3 DEF Inv, TodoOK
<1>5. StageOK' /\ h_baud' \in Bauds BY <1>1, HostKeeps DEF Inv, Types
<1>6. rx' = <<>> BY <1>1, <1>3
<1>7. QED BY <1>1, <1>3, <1>4, <1>5, <1>6, ToNext

\* The header has come: the script goes on or gives up.
LEMMA HeaderReadStep ==
    ASSUME Inv, HeaderRead PROVE Inv'
<1>1. /\ Got("rd", "RD_READY") /\ UNCHANGED <<card, modeVars, files, h_files, slots, rx, h_baud>>
      /\ \/ h_pc' = "next" /\ todo' = Tail(todo) /\ UNCHANGED <<queue, at>>
         \/ h_pc' = "idle" /\ todo' = <<>> /\ queue' = <<>> /\ at' = 1
  BY DEF HeaderRead, Keep
<1>2. "rd" \in Waits /\ "RD_READY" \in GoesOn BY DEF Waits, GoesOn
<1>3. h_pc = "rd" /\ rx = <<>> /\ tx' = <<>> /\ todo # <<>> BY <1>1, <1>2, GotIs
<1>4. todo[1] = "rd" => Fit(h_files) BY <1>3 DEF Inv, TodoOK
<1>5. StageOK' /\ h_baud' \in Bauds BY <1>1, HostKeeps DEF Inv, Types
<1>6. rx' = <<>> BY <1>1, <1>3
<1>7. CASE h_pc' = "next" /\ todo' = Tail(todo) /\ UNCHANGED <<queue, at>>
  BY <1>1, <1>3, <1>4, <1>5, <1>6, <1>7, ToNext
<1>8. CASE h_pc' = "idle" /\ todo' = <<>> /\ queue' = <<>> /\ at' = 1
  <2>1. Types'
    <3>1. Types /\ rx' \in Seq(Items) /\ tx' \in Seq(Replies) BY <1>3, <1>6 DEF Inv
    <3>2. queue' \in Seq(Segments) /\ todo' \in Seq(Names) /\ at' \in Nat \ {0} BY <1>8
    <3>3. QED BY <1>1, <1>5, <1>8, <3>1, <3>2, HostTypes
  <2>2. StreamOK' BY <1>6 DEF StreamOK
  <2>3. QueueOK' /\ TodoOK' BY <1>8 DEF QueueOK, TodoOK, Streams
  <2>4. InStep'
    BY <1>8 DEF InStep, AtNext, AtWait, AtB1, AtGo, AtSeg, AtSector, AtAck, AtDone, Waits
  <2>5. QED BY <1>5, <2>1, <2>2, <2>3, <2>4 DEF Inv, StageOK
<1>9. QED BY <1>1, <1>7, <1>8

\* Stage2 is ready for the number of segments.
LEMMA GotReadyStep ==
    ASSUME Inv, GotReady PROVE Inv'
<1>1. /\ Got("mw_ready", "MW_READY") /\ SendThen(Count(Len(queue)), "mw_go")
      /\ UNCHANGED <<card, modeVars, files, h_files, slots, queue, at, h_baud, todo>>
  BY DEF GotReady, Quiet, Keep
<1>2. "mw_ready" \in Waits /\ "MW_READY" \in GoesOn BY DEF Waits, GoesOn
<1>3. /\ h_pc = "mw_ready" /\ rx = <<>> /\ tx' = <<>> /\ todo # <<>>
      /\ tx[1].k = "MW_READY" /\ Says(tx[1])
  BY <1>1, <1>2, GotIs
<1>4. s_pc = "segs" /\ s_baud = h_baud BY <1>3 DEF Says
<1>5. queue # <<>> /\ Len(queue) \in Nat BY <1>3, QueueHead DEF Inv, QueueOK
<1>6. Count(Len(queue)) \in Items /\ Count(Len(queue)).k = "count"
  BY <1>5, ItemsSent DEF Count
<1>7. h_pc' = "mw_go" /\ (rx' = <<>> \/ rx' = <<Count(Len(queue))>>)
  BY <1>1, <1>3, <1>4, <1>6, SentAlone
<1>8. StreamOK' /\ rx' \in Seq(Items) /\ Len(rx') <= 1 BY <1>6, <1>7, OneInFlight
<1>9. StageOK' /\ s_pc' = s_pc /\ s_baud' = s_baud BY <1>1, HostKeeps
<1>10. Types'
  <2>1. /\ Types /\ todo' \in Seq(Names) /\ queue' \in Seq(Segments) /\ at' \in Nat \ {0}
        /\ h_baud' \in Bauds
    BY <1>1 DEF Inv, Types
  <2>2. tx' \in Seq(Replies) /\ h_pc' \in Waits BY <1>3, <1>7 DEF Waits
  <2>3. QED BY <1>1, <1>8, <1>9, <2>1, <2>2, HostTypes
<1>11. todo[1] = "write" BY <1>3 DEF Inv, TodoOK
<1>12. TodoOK' BY <1>1, <1>3, <1>7, <1>11, SamePhases DEF Streams
<1>13. QueueOK' BY <1>1, <1>7 DEF Inv, QueueOK, GoodSegment
<1>14. AtNext' /\ AtB1' /\ AtSeg' /\ AtSector' /\ AtAck' /\ AtDone'
  BY <1>7 DEF AtNext, AtB1, AtSeg, AtSector, AtAck, AtDone
<1>15. \A i \in 1 .. Len(tx') : FALSE BY <1>3
<1>16. AtWait' BY <1>3, <1>8, <1>15 DEF AtWait
<1>17. AtGo'
  <2>1. rx' # <<>> => rx'[1] = Count(Len(queue)) BY <1>7
  <2>2. QED BY <1>1, <1>4, <1>5, <1>9, <1>15, <2>1 DEF AtGo
<1>18. QED BY <1>8, <1>9, <1>10, <1>12, <1>13, <1>14, <1>16, <1>17 DEF Inv, InStep, StageOK

\* Stage2 waits for the segments.
LEMMA GotGoStep ==
    ASSUME Inv, GotGo PROVE Inv'
<1>1. /\ Got("mw_go", "MW_GO") /\ h_pc' = "seg"
      /\ UNCHANGED <<card, modeVars, files, h_files, slots, queue, at, rx, h_baud, todo>>
  BY DEF GotGo, Quiet, Keep
<1>2. "mw_go" \in Waits /\ "MW_GO" \in GoesOn BY DEF Waits, GoesOn
<1>3. /\ h_pc = "mw_go" /\ rx = <<>> /\ tx' = <<>> /\ todo # <<>> /\ 1 \in 1 .. Len(tx)
      /\ tx[1].k = "MW_GO" /\ Says(tx[1])
  BY <1>1, <1>2, GotIs
<1>4. s_pc = "seg" BY <1>3 DEF Says
<1>5. s_baud = h_baud /\ queue # <<>> /\ segs = Len(queue) BY <1>3 DEF Inv, InStep, AtGo
<1>6. StageOK' /\ s_pc' = s_pc /\ s_baud' = s_baud /\ segs' = segs BY <1>1, HostKeeps
<1>7. Types'
  <2>1. /\ Types /\ todo' \in Seq(Names) /\ queue' \in Seq(Segments) /\ at' \in Nat \ {0}
        /\ h_baud' \in Bauds
    BY <1>1 DEF Inv, Types
  <2>2. tx' \in Seq(Replies) /\ rx' \in Seq(Items) /\ h_pc' \in Streams BY <1>1, <1>3 DEF Streams
  <2>3. QED BY <1>1, <1>6, <2>1, <2>2, HostTypes
<1>8. StreamOK' BY <1>1, <1>3 DEF StreamOK
<1>9. todo[1] = "write" BY <1>3 DEF Inv, TodoOK
<1>10. TodoOK' BY <1>1, <1>3, <1>9, SamePhases DEF Streams
<1>11. QueueOK' BY <1>1 DEF Inv, QueueOK, GoodSegment
<1>12. AtNext' /\ AtWait' /\ AtB1' /\ AtGo' /\ AtSector' /\ AtAck' /\ AtDone'
  BY <1>1 DEF AtNext, AtWait, AtB1, AtGo, AtSector, AtAck, AtDone, Waits
<1>13. AtSeg'
  <2>1. \A i \in 1 .. Len(rx') : FALSE BY <1>1, <1>3
  <2>2. \A i \in 1 .. Len(tx') : FALSE BY <1>3
  <2>3. Len(queue) \in Nat BY <1>5, QueueHead DEF Inv
  <2>4. segs' >= Len(queue) BY <1>5, <1>6, <2>3
  <2>5. NoK' BY <2>2 DEF NoK
  <2>6. QED BY <1>1, <1>3, <1>4, <1>5, <1>6, <2>1, <2>4, <2>5 DEF AtSeg
<1>14. QED BY <1>6, <1>7, <1>8, <1>10, <1>11, <1>12, <1>13 DEF Inv, InStep, StageOK
-----------------------------------------------------------------------------
\* Stage2 waits for the test data.
LEMMA TestReadyStep ==
    ASSUME Inv, TestReady PROVE Inv'
<1>1. /\ Got("w1", "SEND_512") /\ h_pc' = "w2" /\ rx' = Append(rx, Sector(TestData, FALSE))
      /\ UNCHANGED <<card, modeVars, files, h_files, slots, queue, at, h_baud, todo>>
  BY DEF TestReady, Quiet, Keep
<1>2. "w1" \in Waits /\ "SEND_512" \in GoesOn BY DEF Waits, GoesOn
<1>3. /\ h_pc = "w1" /\ rx = <<>> /\ tx' = <<>> /\ todo # <<>>
      /\ tx[1].k = "SEND_512" /\ Says(tx[1])
  BY <1>1, <1>2, GotIs
<1>4. s_pc = "wtest" BY <1>3 DEF Says
<1>5. StageOK' /\ s_pc' = s_pc BY <1>1, HostKeeps
<1>6. /\ Sector(TestData, FALSE) \in Items /\ Sector(TestData, FALSE).k = "sector"
      /\ Sector(TestData, FALSE).data.of = "test"
  BY SpecialData, ItemsSent DEF Sector
<1>7. rx' = <<Sector(TestData, FALSE)>> BY <1>1, <1>3
<1>8. Len(rx') = 1 /\ rx'[1] = Sector(TestData, FALSE) /\ rx' \in Seq(Items)
  BY <1>6, <1>7, SingleIs
<1>9. StreamOK'
  <2>1. \A i \in 1 .. Len(rx') : i = 1 BY <1>8
  <2>2. rx'[1].k = "sector" /\ rx'[1].data.of = "test" BY <1>6, <1>8
  <2>3. \A l : Belongs(rx'[1].data, l) BY <2>2 DEF Belongs
  <2>4. 1 = Len(rx') /\ ~(1 > 1) BY <1>8
  <2>5. SectorOK(1)' BY <2>2, <2>3, <2>4 DEF SectorOK
  <2>6. QED BY <2>1, <2>2, <2>5 DEF StreamOK
<1>10. Types'
  <2>1. /\ Types /\ todo' \in Seq(Names) /\ queue' \in Seq(Segments) /\ at' \in Nat \ {0}
        /\ h_baud' \in Bauds
    BY <1>1 DEF Inv, Types
  <2>2. tx' \in Seq(Replies) /\ h_pc' \in Waits BY <1>1, <1>3 DEF Waits
  <2>3. QED BY <1>1, <1>5, <1>8, <2>1, <2>2, HostTypes
<1>11. todo[1] = "w" BY <1>3 DEF Inv, TodoOK
<1>12. TodoOK' BY <1>1, <1>3, <1>11, SamePhases DEF Streams
<1>13. QueueOK' BY <1>1 DEF Inv, QueueOK, GoodSegment
<1>14. AtNext' /\ AtB1' /\ AtGo' /\ AtSeg' /\ AtSector' /\ AtAck' /\ AtDone'
  BY <1>1 DEF AtNext, AtB1, AtGo, AtSeg, AtSector, AtAck, AtDone
<1>15. AtWait'
  <2>1. \A i \in 1 .. Len(tx') : FALSE BY <1>3
  <2>2. Len(rx') <= 1 BY <1>8
  <2>3. QED BY <1>3, <2>1, <2>2 DEF AtWait
<1>16. QED BY <1>5, <1>9, <1>10, <1>12, <1>13, <1>14, <1>15 DEF Inv, InStep, StageOK

\* An answer that the script does not want is skipped.
LEMMA SkipReplyStep ==
    ASSUME Inv, SkipReply PROVE Inv'
<1>1. /\ tx # <<>> /\ tx' = Tail(tx) /\ h_pc \in Waits \cup {"mw_done"}
      /\ h_pc = "mw_done" => Head(tx).k # "MW_DONE"
      /\ UNCHANGED <<card, modeVars, files, h_files, slots, queue, at, rx, h_baud, h_pc, todo>>
  BY DEF SkipReply, Wanted, Quiet, Keep, Waits
<1>2. /\ tx \in Seq(Replies) /\ Len(tx) \in Nat \ {0} /\ Head(tx) = tx[1]
      /\ tx' \in Seq(Replies) /\ Len(tx') = Len(tx) - 1
      /\ \A i \in 1 .. Len(tx') : tx'[i] = tx[i + 1] /\ i + 1 \in 1 .. Len(tx)
  BY <1>1, TailIs DEF Inv, Types
<1>3. StageOK' /\ UNCHANGED <<s_pc, s_baud, segs, lba, left>> BY <1>1, HostKeeps
<1>4. Types'
  <2>1. /\ Types /\ rx' \in Seq(Items) /\ todo' \in Seq(Names) /\ queue' \in Seq(Segments)
        /\ at' \in Nat \ {0} /\ h_baud' \in Bauds
        /\ h_pc' \in {"idle", "next"} \cup Waits \cup Streams
    BY <1>1 DEF Inv, Types
  <2>2. QED BY <1>1, <1>2, <1>3, <2>1, HostTypes
<1>5. StreamOK' BY <1>1, <1>3 DEF Inv, StreamOK, SectorOK
<1>6. QueueOK' BY <1>1 DEF Inv, QueueOK, GoodSegment
<1>7. TodoOK' BY <1>1 DEF Inv, TodoOK, Follows, FitAt
<1>8. AtNext' /\ AtSeg' /\ AtSector' /\ AtAck'
  BY <1>1 DEF AtNext, AtSeg, AtSector, AtAck, Waits
<1>9. h_pc \in Waits => rx = <<>> /\ \A i \in 1 .. Len(tx') : tx'[i].k \notin GoesOn
  <2>1. SUFFICES ASSUME h_pc \in Waits
                 PROVE  rx = <<>> /\ \A i \in 1 .. Len(tx') : tx'[i].k \notin GoesOn
    OBVIOUS
  <2>2. AtWait BY DEF Inv, InStep
  <2>3. rx = <<>> /\ \A i \in 1 .. Len(tx) : tx[i].k \in GoesOn => Len(tx) = 1
    BY <1>1, <2>1, <2>2 DEF AtWait
  <2>4. ASSUME NEW i \in 1 .. Len(tx'), tx'[i].k \in GoesOn PROVE FALSE
    <3>1. Len(tx) = 1 BY <1>2, <2>3, <2>4
    <3>2. QED BY <1>2, <3>1
  <2>5. QED BY <2>3, <2>4
<1>10. h_pc \in Waits => rx' = <<>> BY <1>1, <1>9
<1>11. AtWait'
  <2>1. SUFFICES ASSUME h_pc \in Waits PROVE AtWait' BY <1>1 DEF AtWait
  <2>2. rx' = <<>> BY <1>10, <2>1
  <2>3. Len(rx') <= 1 BY <2>2
  <2>4. QED BY <1>9, <2>1, <2>2, <2>3 DEF AtWait
<1>12. AtB1'
  <2>1. SUFFICES ASSUME h_pc = "b1" PROVE AtB1' BY <1>1 DEF AtB1
  <2>2. QED BY <1>9, <1>10, <2>1 DEF AtB1, Waits, GoesOn
<1>13. AtGo'
  <2>1. SUFFICES ASSUME h_pc = "mw_go" PROVE AtGo' BY <1>1 DEF AtGo
  <2>2. h_pc \in Waits BY <2>1 DEF Waits
  <2>3. s_baud = h_baud /\ queue # <<>> BY <2>1 DEF Inv, InStep, AtGo
  <2>4. QED BY <1>1, <1>3, <1>9, <1>10, <2>1, <2>2, <2>3 DEF AtGo, GoesOn
<1>14. AtDone'
  <2>1. SUFFICES ASSUME h_pc = "mw_done" PROVE AtDone' BY <1>1 DEF AtDone
  <2>2. AtDone BY DEF Inv, InStep
  <2>3. ~(tx = <<Reply("MW_DONE")>>)
    <3>1. SUFFICES ASSUME tx = <<Reply("MW_DONE")>> PROVE FALSE OBVIOUS
    <3>2. Head(tx).k = "MW_DONE" BY <3>1 DEF Reply
    <3>3. QED BY <1>1, <2>1, <3>2
  <2>4. NoK BY <2>1, <2>2, <2>3 DEF AtDone
  <2>5. NoK' BY <1>2, <2>4 DEF NoK
  <2>6. \A i \in 1 .. Len(rx') : rx'[i].k = "segment" /\ rx'[i].n = 0
    BY <1>1, <2>1, <2>2 DEF AtDone, Zero
  <2>7. s_baud' = h_baud' /\ s_pc' \in {"seg", "cmd", "uboot"}
    BY <1>1, <1>3, <2>1, <2>2 DEF AtDone
  <2>8. QED BY <2>5, <2>6, <2>7 DEF AtDone, Zero
<1>15. QED
  BY <1>3, <1>4, <1>5, <1>6, <1>7, <1>8, <1>11, <1>12, <1>13, <1>14 DEF Inv, InStep, StageOK

\* The steps in which a script ends without sending anything.
LEMMA StopStep ==
    ASSUME Inv,
           Stop \/ Killed \/ UpdateRefused \/ SectorRefused \/ WriteFailed \/ TestDone \/ AtEnd
           \/ WaitTimeout
    PROVE  Inv'
<1>1. Stop \/ Killed
  BY DEF UpdateRefused, SectorRefused, WriteFailed, TestDone, AtEnd, WaitTimeout
<1>2. /\ UNCHANGED <<card, modeVars, files, h_files, slots, rx, tx, h_baud>>
      /\ h_pc' = "idle" /\ todo' = <<>> /\ queue' = <<>> /\ at' = 1
  BY <1>1 DEF Stop, Killed, Keep
<1>3. QED BY <1>2, ToIdle

\* The answer to a switch of rates does not come: the FPGA is programmed again.
LEMMA FallBackStep ==
    ASSUME Inv, FallBack PROVE Inv'
<1>1. /\ h_pc \in {"b1", "b2"} /\ Program(Tail(todo)) /\ h_pc' = "next"
      /\ UNCHANGED <<card, files, h_files, slots, queue, at>>
  BY DEF FallBack
<1>2. /\ StageOK' /\ rx' = <<>> /\ tx' = <<>> /\ h_baud' = "app"
      /\ todo' = Tail(todo) \/ todo' = <<>>
  BY <1>1, ProgramIs
<1>3. todo # <<>> /\ todo[1] # "rd" BY <1>1 DEF Inv, TodoOK
<1>4. h_baud' \in Bauds BY <1>2 DEF Bauds
<1>5. QED BY <1>1, <1>2, <1>3, <1>4, ToNext

\* The answer to the check of the card does not come: the script boots without it.
LEMMA CheckTimeoutStep ==
    ASSUME Inv, CheckTimeout, rx = <<>> PROVE Inv'
<1>1. /\ h_pc = "rd" /\ Head(todo) = "check" /\ tx = <<>> /\ h_pc' = "next" /\ todo' = Tail(todo)
      /\ UNCHANGED <<card, modeVars, files, h_files, slots, queue, at, rx, tx, h_baud>>
  BY DEF CheckTimeout, Waiting, Keep
<1>2. todo # <<>> BY <1>1 DEF Inv, TodoOK
<1>3. todo[1] # "rd" BY <1>1, <1>2, TailIs DEF Inv, Types
<1>4. StageOK' /\ h_baud' \in Bauds BY <1>1, HostKeeps DEF Inv, Types
<1>5. rx' = <<>> /\ tx' = <<>> BY <1>1
<1>6. QED BY <1>1, <1>2, <1>3, <1>4, <1>5, ToNext
-----------------------------------------------------------------------------
\* The segment that is being sent may be sent, each of its sectors in its place.
LEMMA CurrentIsGood ==
    ASSUME Inv, queue # <<>>
    PROVE  /\ InOneSlot(Current.lba, Size1)
           /\ \A i \in 1 .. Size1 : /\ Current.data[i] \in Datas
                                    /\ Belongs(Current.data[i], Current.lba + i - 1)
<1>1. Len(queue) \in Nat /\ Len(queue) >= 1 /\ Current.data \in Seq(Datas)
  BY QueueHead DEF Inv
<1>2. 1 \in 1 .. Len(queue) BY <1>1
<1>3. GoodSegment(queue[1]) BY <1>2 DEF Inv, QueueOK
<1>4. \A i \in 1 .. Size1 : Current.data[i] \in Datas BY <1>1 DEF Size1, Current
<1>5. QED BY <1>3, <1>4 DEF GoodSegment, Current, Size1

\* A script is in the write phase while it sends segments.
LEMMA AtWrite ==
    ASSUME Inv, h_pc \in Streams
    PROVE  todo # <<>> /\ todo[1] = "write" /\ Head(todo) = todo[1]
<1>1. todo # <<>> /\ todo[1] = "write" BY DEF Inv, TodoOK
<1>2. QED BY <1>1, TailIs DEF Inv, Types

\* ... and stays in it while it goes from place to place.
LEMMA StreamTypes ==
    ASSUME Inv, h_pc \in Streams, h_pc' \in Streams, rx' \in Seq(Items), tx' \in Seq(Replies),
           at' \in Nat \ {0}, queue' \in Seq(Segments),
           \A j \in 1 .. Len(queue') : GoodSegment(queue'[j]),
           UNCHANGED <<card, modeVars, files, h_files, slots, h_baud, todo>>
    PROVE  /\ Types' /\ StageOK' /\ QueueOK' /\ TodoOK' /\ AtNext' /\ AtWait' /\ AtB1' /\ AtGo'
           /\ UNCHANGED <<s_pc, s_baud, segs, lba, left>>
<1>1. StageOK' /\ UNCHANGED <<s_pc, s_baud, segs, lba, left>> BY HostKeeps
<1>2. Types'
  <2>1. Types /\ todo' \in Seq(Names) /\ h_baud' \in Bauds BY DEF Inv, Types
  <2>2. QED BY <1>1, <2>1, HostTypes
<1>3. todo # <<>> /\ todo[1] = "write" BY AtWrite
<1>4. h_pc' # "idle" /\ h_pc' # "rd" /\ h_pc' \notin {"b1", "b2"} /\ h_pc' \notin {"w1", "w2"}
      /\ h_pc' # "mw_ready" /\ h_pc' # "next" /\ h_pc' \notin Waits /\ h_pc' # "mw_go"
  BY DEF Streams, Waits
<1>5. TodoOK' BY <1>3, <1>4, SamePhases
<1>6. QueueOK' BY <1>4 DEF QueueOK, GoodSegment
<1>7. AtNext' /\ AtWait' /\ AtB1' /\ AtGo' BY <1>4 DEF AtNext, AtWait, AtB1, AtGo
<1>8. QED BY <1>1, <1>2, <1>5, <1>6, <1>7

\* A segment is sent.
LEMMA SendSegmentStep ==
    ASSUME Inv, SendSegment PROVE Inv'
<1> DEFINE seg == Segment(Current.lba, Size1)
<1>1. /\ h_pc = "seg" /\ queue # <<>>
      /\ SendThen(Segment(Head(queue).lba, Len(Head(queue).data)), "sector") /\ at' = 1
      /\ UNCHANGED <<card, modeVars, files, h_files, slots, queue, h_baud, todo, tx>>
  BY DEF SendSegment, Keep
<1>2. AtSeg BY DEF Inv, InStep
<1>3. /\ s_baud = h_baud /\ s_pc \in {"seg", "cmd", "uboot"} /\ NoK
      /\ \A i \in 1 .. Len(rx) : rx[i].k = "segment" /\ rx[i].n = 0
      /\ s_pc = "seg" => segs >= Len(queue) /\ tx = <<>>
  BY <1>1, <1>2 DEF AtSeg, Zero
<1>4. /\ Current = Head(queue) /\ Current.lba \in Nat /\ Size1 \in Nat /\ Len(queue) \in Nat
      /\ Len(queue) >= 1
  BY <1>1, QueueHead DEF Inv
<1>5. seg = Segment(Head(queue).lba, Len(Head(queue).data))
  BY <1>4 DEF Size1, Current
<1>6. seg \in Items /\ seg.k = "segment" /\ seg.lba = Current.lba /\ seg.n = Size1
  BY <1>4, ItemsSent DEF Segment
<1> HIDE DEF seg
<1>7. h_pc' = "sector" /\ (rx' = Append(rx, seg) \/ rx' = rx)
  BY <1>1, <1>3, <1>5 DEF SendThen
<1>8. rx \in Seq(Items) /\ Len(rx) \in Nat BY DEF Inv, Types
<1>9. /\ rx' \in Seq(Items)
      /\ \A i \in 1 .. Len(rx') : \/ i \in 1 .. Len(rx) /\ rx'[i] = rx[i]
                                  \/ i = Len(rx') /\ rx'[i] = seg
  <2>1. CASE rx' = rx BY <1>8, <2>1
  <2>2. CASE rx' = Append(rx, seg)
    <3>1. /\ rx' \in Seq(Items) /\ Len(rx') = Len(rx) + 1 /\ rx'[Len(rx) + 1] = seg
          /\ \A i \in 1 .. Len(rx) : rx'[i] = rx[i]
      BY <1>6, <1>8, <2>2, AppendIs
    <3>2. QED BY <1>8, <3>1
  <2>3. QED BY <1>7, <2>1, <2>2
<1>10. /\ Types' /\ StageOK' /\ QueueOK' /\ TodoOK' /\ AtNext' /\ AtWait' /\ AtB1' /\ AtGo'
       /\ UNCHANGED <<s_pc, s_baud, segs, lba, left>>
  <2>1. h_pc \in Streams /\ h_pc' \in Streams BY <1>1, <1>7 DEF Streams
  <2>2. tx' \in Seq(Replies) /\ queue' \in Seq(Segments) BY <1>1 DEF Inv, Types
  <2>3. \A j \in 1 .. Len(queue') : GoodSegment(queue'[j]) BY <1>1 DEF Inv, QueueOK
  <2>4. at' \in Nat \ {0} BY <1>1
  <2>5. QED BY <1>1, <1>9, <2>1, <2>2, <2>3, <2>4, StreamTypes
<1>11. StreamOK'
  <2>1. SUFFICES ASSUME NEW i \in 1 .. Len(rx')
                 PROVE  rx'[i].k = "segment" /\ InOneSlot(rx'[i].lba, rx'[i].n)
    BY DEF StreamOK
  <2>2. CASE i \in 1 .. Len(rx) /\ rx'[i] = rx[i]
    <3>1. rx'[i].k = "segment" /\ rx'[i].n = 0 BY <1>3, <2>2
    <3>2. QED BY <3>1 DEF InOneSlot
  <2>3. CASE rx'[i] = seg BY <1>1, <1>6, <2>3, CurrentIsGood
  <2>4. QED BY <1>9, <2>2, <2>3
<1>12. AtSector'
  <2>1. Current' = Current /\ Size1' = Size1 BY <1>1 DEF Current, Size1
  <2>2. SentAll'
    <3>1. SUFFICES ASSUME NEW i \in 1 .. Len(rx')
                   PROVE  \/ rx'[i].k = "segment" /\ rx'[i].n = 0
                          \/ at' = 1 /\ i = Len(rx') /\ rx'[i] = seg
      BY <2>1 DEF SentAll, Sent, Zero, seg
    <3>2. QED BY <1>1, <1>3, <1>9
  <2>3. NoK' BY <1>1, <1>3 DEF NoK
  <2>4. s_pc' = "seg" => segs' >= Len(queue) /\ segs' >= Len(queue) - 1 /\ tx' = <<>>
    BY <1>1, <1>3, <1>4, <1>10 DEF Inv, Types
  <2>5. at' <= Size1 + 1 BY <1>1, <1>4
  <2>6. QED BY <1>1, <1>3, <1>10, <2>1, <2>2, <2>3, <2>4, <2>5 DEF AtSector
<1>13. AtSeg' /\ AtAck' /\ AtDone' BY <1>7 DEF AtSeg, AtAck, AtDone
<1>14. QED BY <1>10, <1>11, <1>12, <1>13 DEF Inv, InStep, StageOK

\* A sector of the segment is sent.
LEMMA SendSectorStep ==
    ASSUME Inv, SendSector PROVE Inv'
<1>1. /\ h_pc = "sector" /\ h_pc' = "ack" /\ at <= Len(Head(queue).data)
      /\ \E short \in BOOLEAN : rx' = Append(rx, Sector(Head(queue).data[at], short))
      /\ UNCHANGED <<card, modeVars, files, h_files, slots, queue, at, h_baud, todo, tx>>
  BY DEF SendSector, Quiet, Keep
<1>2. AtSector BY DEF Inv, InStep
<1>3. queue # <<>> BY <1>1, <1>2 DEF AtSector
<1>4. /\ Current = Head(queue) /\ Current.lba \in Nat /\ Size1 \in Nat /\ Len(queue) \in Nat
      /\ Len(queue) >= 1 /\ at \in Nat \ {0} /\ segs \in Nat
  BY <1>3, QueueHead DEF Inv, Types
<1>5. at <= Size1 /\ at \in 1 .. Size1
  <2>1. at <= Size1 BY <1>1, <1>4 DEF Size1, Current
  <2>2. QED BY <2>1, <1>4
<1>6. /\ s_baud = h_baud /\ SentAll /\ NoK /\ (rx # <<>> => at = 1)
      /\ s_pc \in {"seg", "data", "cmd", "uboot"}
      /\ s_pc = "data" => /\ rx = <<>> /\ tx = <<>> /\ segs >= Len(queue)
                          /\ lba = Current.lba + at - 1 /\ left = Size1 - at + 1
      /\ s_pc = "seg" => segs >= Len(queue) /\ tx = <<>>
  <2>1. at # Size1 + 1 BY <1>4, <1>5
  <2>2. QED BY <1>1, <1>2, <1>5, <2>1 DEF AtSector
<1>7. PICK short \in BOOLEAN : rx' = Append(rx, Sector(Current.data[at], short))
  BY <1>1, <1>4
<1> DEFINE sector == Sector(Current.data[at], short)
<1>8. /\ Current.data[at] \in Datas /\ Belongs(Current.data[at], Current.lba + at - 1)
  BY <1>3, <1>5, CurrentIsGood
<1>9. sector \in Items /\ sector.k = "sector" /\ sector.data = Current.data[at]
  BY <1>8, ItemsSent DEF Sector
<1> HIDE DEF sector
<1>10. rx \in Seq(Items) /\ Len(rx) \in Nat BY DEF Inv, Types
<1>11. /\ rx' \in Seq(Items) /\ Len(rx') = Len(rx) + 1 /\ rx'[Len(rx')] = sector /\ rx' # <<>>
       /\ \A i \in 1 .. Len(rx) : rx'[i] = rx[i]
  BY <1>7, <1>9, <1>10, AppendIs DEF sector
<1>12. /\ Types' /\ StageOK' /\ QueueOK' /\ TodoOK' /\ AtNext' /\ AtWait' /\ AtB1' /\ AtGo'
       /\ UNCHANGED <<s_pc, s_baud, segs, lba, left>>
  <2>1. h_pc \in Streams /\ h_pc' \in Streams BY <1>1 DEF Streams
  <2>2. tx' \in Seq(Replies) /\ queue' \in Seq(Segments) /\ at' \in Nat \ {0}
    BY <1>1 DEF Inv, Types
  <2>3. \A j \in 1 .. Len(queue') : GoodSegment(queue'[j]) BY <1>1 DEF Inv, QueueOK
  <2>4. QED BY <1>1, <1>11, <2>1, <2>2, <2>3, StreamTypes
<1>13. \A i \in 1 .. Len(rx) :
          /\ rx[i].k = "segment"
          /\ rx[i].n >= 1 => i = Len(rx) /\ at = 1 /\ rx[i].lba = Current.lba
  <2>1. SUFFICES ASSUME NEW i \in 1 .. Len(rx)
                 PROVE  /\ rx[i].k = "segment"
                        /\ rx[i].n >= 1 => i = Len(rx) /\ at = 1 /\ rx[i].lba = Current.lba
    OBVIOUS
  <2>2. Sent(i, Len(rx)) BY <1>6, <2>1 DEF SentAll
  <2>3. QED BY <2>2 DEF Sent, Zero, Segment
<1>14. StreamOK'
  <2>1. SUFFICES ASSUME NEW i \in 1 .. Len(rx')
                 PROVE  /\ rx'[i].k = "segment" => InOneSlot(rx'[i].lba, rx'[i].n)
                        /\ rx'[i].k = "sector" => SectorOK(i)'
                        /\ rx'[i].k = "cmd" /\ rx'[i].c = "w" => Len(rx') = 1
    BY DEF StreamOK
  <2>2. CASE i \in 1 .. Len(rx)
    <3>1. rx'[i] = rx[i] /\ rx[i].k = "segment" BY <1>11, <1>13, <2>2
    <3>2. InOneSlot(rx[i].lba, rx[i].n) BY <2>2, <3>1 DEF Inv, StreamOK
    <3>3. QED BY <3>1, <3>2
  <2>3. CASE i = Len(rx')
    <3>1. rx'[i] = sector /\ rx'[i].k = "sector" BY <1>9, <1>11, <2>3
    <3>2. s_pc' # "wtest" BY <1>6, <1>12
    <3>3. i = 1 /\ s_pc' = "data" => Belongs(rx'[i].data, lba')
      BY <1>6, <1>8, <1>9, <1>12, <3>1
    <3>4. ASSUME i > 1
          PROVE  /\ rx'[i - 1].k = "segment"
                 /\ rx'[i - 1].n >= 1 => Belongs(rx'[i].data, rx'[i - 1].lba)
      <4>1. i - 1 \in 1 .. Len(rx) /\ i - 1 = Len(rx) BY <1>10, <1>11, <2>3, <3>4
      <4>2. rx'[i - 1] = rx[i - 1] BY <1>11, <4>1
      <4>3. rx[i - 1].k = "segment" /\ (rx[i - 1].n >= 1 => at = 1 /\ rx[i - 1].lba = Current.lba)
        BY <1>13, <4>1
      <4>4. at = 1 => Belongs(rx'[i].data, Current.lba)
        <5>1. at = 1 => Current.lba + at - 1 = Current.lba BY <1>4
        <5>2. QED BY <1>8, <1>9, <3>1, <5>1
      <4>5. QED BY <4>2, <4>3, <4>4
    <3>5. SectorOK(i)' BY <2>3, <3>2, <3>3, <3>4 DEF SectorOK
    <3>6. QED BY <3>1, <3>5
  <2>4. QED BY <1>10, <1>11, <2>2, <2>3
<1>15. AtAck'
  <2>1. Current' = Current /\ Size1' = Size1 BY <1>1 DEF Current, Size1
  <2>2. SentBefore'
    <3>1. SUFFICES ASSUME NEW i \in 1 .. Len(rx') - 1
                   PROVE  \/ rx'[i].k = "segment" /\ rx'[i].n = 0
                          \/ at = 1 /\ i = Len(rx') - 1 /\ rx'[i] = Segment(Current.lba, Size1)
      BY <1>1, <2>1 DEF SentBefore, Sent, Zero
    <3>2. i \in 1 .. Len(rx) /\ rx'[i] = rx[i] /\ Len(rx') - 1 = Len(rx)
      BY <1>10, <1>11
    <3>3. Sent(i, Len(rx)) BY <1>6, <3>2 DEF SentAll
    <3>4. QED BY <3>2, <3>3 DEF Sent, Zero
  <2>3. NoK' BY <1>1, <1>6 DEF NoK
  <2>4. s_pc' = "data" => Len(rx') = 1
    <3>1. rx = <<>> => Len(rx) = 0 OBVIOUS
    <3>2. QED BY <1>6, <1>11, <1>12, <3>1
  <2>5. AckToCome'
    BY <1>1, <1>6, <1>9, <1>11, <1>12, <2>1, <2>3, <2>4 DEF AckToCome
  <2>6. QED BY <1>1, <1>3, <1>5, <1>6, <1>11, <1>12, <2>1, <2>2, <2>5 DEF AtAck
<1>16. AtSeg' /\ AtSector' /\ AtDone' BY <1>1 DEF AtSeg, AtSector, AtDone
<1>17. QED BY <1>12, <1>14, <1>15, <1>16 DEF Inv, InStep, StageOK
-----------------------------------------------------------------------------
\* A sector is acknowledged.
LEMMA SectorAckedStep ==
    ASSUME Inv, SectorAcked PROVE Inv'
<1>1. /\ h_pc = "ack" /\ tx # <<>> /\ Head(tx).k = "K" /\ tx' = Tail(tx) /\ h_pc' = "sector"
      /\ at' = at + 1
      /\ UNCHANGED <<card, modeVars, files, h_files, slots, queue, rx, h_baud, todo>>
  BY DEF SectorAcked, Got, Keep
<1>2. AtAck BY DEF Inv, InStep
<1>3. /\ s_baud = h_baud /\ queue # <<>> /\ at <= Size1
      /\ rx # <<>> => AckToCome
      /\ rx = <<>> => AckCame
  BY <1>1, <1>2 DEF AtAck
<1>4. /\ Len(queue) \in Nat /\ Len(queue) >= 1 /\ Size1 \in Nat /\ Current.lba \in Nat
      /\ at \in Nat \ {0} /\ segs \in Nat
  BY <1>3, QueueHead DEF Inv, Types
<1>5. ~NoK
  <2>1. Head(tx) = tx[1] /\ Len(tx) \in Nat \ {0} BY <1>1, TailIs DEF Inv, Types
  <2>2. 1 \in 1 .. Len(tx) /\ tx[1].k = "K" BY <1>1, <2>1
  <2>3. QED BY <2>2 DEF NoK
<1>6. rx = <<>> /\ AckCame BY <1>3, <1>5 DEF AckToCome
<1>7. tx # <<Reply("MW_DONE")>>
  <2>1. SUFFICES ASSUME tx = <<Reply("MW_DONE")>> PROVE FALSE OBVIOUS
  <2>2. Head(tx).k = "MW_DONE" BY <2>1 DEF Reply
  <2>3. QED BY <1>1, <2>2
<1>8. \/ tx = <<Reply("K")>> /\ s_pc \in {"data", "seg", "cmd"} /\ (s_pc = "seg" => at = Size1)
      \/ /\ tx = <<Reply("K"), Reply("MW_DONE")>>
         /\ s_pc = "cmd" /\ Len(queue) = 1 /\ at = Size1
  BY <1>5, <1>6, <1>7 DEF AckCame
<1>9. Reply("K") \in Replies /\ Reply("MW_DONE") \in Replies BY RepliesSent DEF Plain
<1>10. /\ tx' \in Seq(Replies) /\ s_pc \in {"data", "seg", "cmd"}
       /\ \/ tx' = <<>> /\ (s_pc = "seg" => at = Size1)
          \/ /\ tx' = <<Reply("MW_DONE")>>
             /\ s_pc = "cmd" /\ Len(queue) = 1 /\ at = Size1
  <2>1. tx = <<Reply("K")>> => tx' = <<>> BY <1>1
  <2>2. tx = <<Reply("K"), Reply("MW_DONE")>> => tx' = <<Reply("MW_DONE")>> BY <1>1
  <2>3. <<>> \in Seq(Replies) /\ <<Reply("MW_DONE")>> \in Seq(Replies) BY <1>9, SingleIs
  <2>4. CASE tx = <<Reply("K")>> /\ s_pc \in {"data", "seg", "cmd"} /\ (s_pc = "seg" => at = Size1)
    BY <2>1, <2>3, <2>4
  <2>5. CASE /\ tx = <<Reply("K"), Reply("MW_DONE")>>
             /\ s_pc = "cmd" /\ Len(queue) = 1 /\ at = Size1
    BY <2>2, <2>3, <2>5
  <2>6. QED BY <1>8, <2>4, <2>5
<1>11. /\ Types' /\ StageOK' /\ QueueOK' /\ TodoOK' /\ AtNext' /\ AtWait' /\ AtB1' /\ AtGo'
       /\ UNCHANGED <<s_pc, s_baud, segs, lba, left>>
  <2>1. h_pc \in Streams /\ h_pc' \in Streams BY <1>1 DEF Streams
  <2>2. rx' \in Seq(Items) /\ queue' \in Seq(Segments) BY <1>1 DEF Inv, Types
  <2>3. \A j \in 1 .. Len(queue') : GoodSegment(queue'[j]) BY <1>1 DEF Inv, QueueOK
  <2>4. at' \in Nat \ {0} BY <1>1, <1>4
  <2>5. QED BY <1>1, <1>10, <2>1, <2>2, <2>3, <2>4, StreamTypes
<1>12. StreamOK' BY <1>1, <1>6 DEF StreamOK
<1>13. AtSector'
  <2>1. Current' = Current /\ Size1' = Size1 BY <1>1 DEF Current, Size1
  <2>2. rx' = <<>> BY <1>1, <1>6
  <2>3. SentAll'
    <3>1. \A i \in 1 .. Len(rx') : FALSE BY <2>2
    <3>2. QED BY <3>1 DEF SentAll
  <2>4. at' <= Size1 + 1 BY <1>1, <1>3, <1>4
  <2>5. s_pc = "data" => /\ tx' = <<>> /\ segs >= Len(queue) /\ lba = Current.lba + at' - 1
                         /\ left = Size1 - at' + 1
    <3>1. SUFFICES ASSUME s_pc = "data"
                   PROVE  /\ tx' = <<>> /\ segs >= Len(queue) /\ lba = Current.lba + at' - 1
                          /\ left = Size1 - at' + 1
      OBVIOUS
    <3>2. segs >= Len(queue) /\ lba = Current.lba + at /\ left = Size1 - at
      BY <1>6, <3>1 DEF AckCame
    <3>3. tx' = <<>> BY <1>10, <3>1
    <3>4. lba = Current.lba + at' - 1 /\ left = Size1 - at' + 1 BY <1>1, <1>4, <3>2
    <3>5. QED BY <3>2, <3>3, <3>4
  <2>6. s_pc = "seg" => segs >= Len(queue) - 1 /\ tx' = <<>> /\ ~(at' <= Size1)
    <3>1. SUFFICES ASSUME s_pc = "seg"
                   PROVE  segs >= Len(queue) - 1 /\ tx' = <<>> /\ ~(at' <= Size1)
      OBVIOUS
    <3>2. segs >= Len(queue) - 1 BY <1>6, <3>1 DEF AckCame
    <3>3. tx' = <<>> /\ at = Size1 BY <1>10, <3>1
    <3>4. ~(at' <= Size1) BY <1>1, <1>4, <3>3
    <3>5. QED BY <3>2, <3>3, <3>4
  <2>7. \/ NoK'
        \/ tx' = <<Reply("MW_DONE")>> /\ s_pc = "cmd" /\ Len(queue) = 1 /\ at' = Size1 + 1
    <3>1. tx' = <<>> => NoK' BY DEF NoK
    <3>2. QED BY <1>1, <1>10, <3>1
  <2>8. QED BY <1>1, <1>3, <1>10, <1>11, <2>1, <2>2, <2>3, <2>4, <2>5, <2>6, <2>7 DEF AtSector
<1>14. AtSeg' /\ AtAck' /\ AtDone' BY <1>1 DEF AtSeg, AtAck, AtDone
<1>15. QED BY <1>11, <1>12, <1>13, <1>14 DEF Inv, InStep, StageOK

\* The script goes on to the next segment, or to the end.
LEMMA EndOfSegmentStep ==
    ASSUME Inv, EndOfSegment PROVE Inv'
<1>1. /\ h_pc = "sector" /\ at > Len(Head(queue).data) /\ queue' = Tail(queue) /\ at' = 1
      /\ h_pc' = IF Tail(queue) = <<>> THEN "mw_done" ELSE "seg"
      /\ UNCHANGED <<card, modeVars, files, h_files, slots, rx, tx, h_baud, todo>>
  BY DEF EndOfSegment, Keep
<1>2. AtSector BY DEF Inv, InStep
<1>3. queue # <<>> BY <1>1, <1>2 DEF AtSector
<1>4. /\ Current = Head(queue) /\ Current.lba \in Nat /\ Size1 \in Nat /\ Len(queue) \in Nat
      /\ Len(queue) >= 1 /\ at \in Nat \ {0} /\ segs \in Nat
      /\ queue' \in Seq(Segments) /\ Len(queue') = Len(queue) - 1
      /\ \A j \in 1 .. Len(queue) - 1 : queue'[j] = queue[j + 1]
  BY <1>1, <1>3, QueueHead DEF Inv, Types
<1>5. at > Size1 BY <1>1, <1>4 DEF Size1, Current
<1>6. /\ s_baud = h_baud /\ SentAll /\ at <= Size1 + 1 /\ (rx # <<>> => at = 1)
      /\ s_pc \in {"seg", "data", "cmd", "uboot"}
      /\ s_pc = "data" => left = Size1 - at + 1
      /\ s_pc = "seg" => segs >= Len(queue) - 1 /\ tx = <<>>
      /\ NoK \/ (/\ tx = <<Reply("MW_DONE")>> /\ rx = <<>> /\ s_pc = "cmd"
                 /\ Len(queue) = 1 /\ at = Size1 + 1)
  <2>1. ~(at <= Size1) BY <1>4, <1>5
  <2>2. QED BY <1>1, <1>2, <2>1 DEF AtSector
<1>7. s_pc # "data"
  <2>1. SUFFICES ASSUME s_pc = "data" PROVE FALSE OBVIOUS
  <2>2. left >= 1 BY <2>1 DEF Inv, WriteOK
  <2>3. left = Size1 - at + 1 BY <1>6, <2>1
  <2>4. QED BY <1>4, <1>5, <2>2, <2>3
<1>8. \A i \in 1 .. Len(rx) : rx[i].k = "segment" /\ rx[i].n = 0
  <2>1. SUFFICES ASSUME NEW i \in 1 .. Len(rx) PROVE rx[i].k = "segment" /\ rx[i].n = 0
    OBVIOUS
  <2>2. Sent(i, Len(rx)) BY <1>6, <2>1 DEF SentAll
  <2>3. CASE at = 1 /\ rx[i] = Segment(Current.lba, Size1)
    <3>1. Size1 = 0 BY <1>4, <1>5, <2>3
    <3>2. QED BY <2>3, <3>1 DEF Segment
  <2>4. QED BY <2>2, <2>3 DEF Sent, Zero
<1>9. /\ h_pc' \in {"seg", "mw_done"}
      /\ h_pc' = "mw_done" <=> queue' = <<>>
  BY <1>1
<1>10. /\ Types' /\ StageOK' /\ QueueOK' /\ TodoOK' /\ AtNext' /\ AtWait' /\ AtB1' /\ AtGo'
       /\ UNCHANGED <<s_pc, s_baud, segs, lba, left>>
  <2>1. h_pc \in Streams /\ h_pc' \in Streams BY <1>1, <1>9 DEF Streams
  <2>2. rx' \in Seq(Items) /\ tx' \in Seq(Replies) BY <1>1 DEF Inv, Types
  <2>3. \A j \in 1 .. Len(queue') : GoodSegment(queue'[j])
    BY <1>4 DEF Inv, QueueOK
  <2>4. at' \in Nat \ {0} BY <1>1
  <2>5. QED BY <1>1, <1>4, <2>1, <2>2, <2>3, <2>4, StreamTypes
<1>11. StreamOK' BY <1>1, <1>8 DEF Inv, StreamOK
<1>12. AtSeg'
  <2>1. SUFFICES ASSUME h_pc' = "seg" PROVE AtSeg' BY DEF AtSeg
  <2>2. queue' # <<>> BY <1>9, <2>1
  <2>3. Len(queue) # 1
    <3>1. SUFFICES ASSUME Len(queue) = 1 PROVE FALSE OBVIOUS
    <3>2. Len(queue') = 0 BY <1>4, <3>1
    <3>3. QED BY <1>4, <2>2, <3>2
  <2>4. NoK' BY <1>1, <1>6, <2>3 DEF NoK
  <2>5. s_pc' = "seg" => segs' >= Len(queue') /\ tx' = <<>> BY <1>1, <1>4, <1>6, <1>10
  <2>6. s_baud' = h_baud' /\ s_pc' \in {"seg", "cmd", "uboot"} BY <1>1, <1>6, <1>7, <1>10
  <2>7. \A i \in 1 .. Len(rx') : rx'[i].k = "segment" /\ rx'[i].n = 0 BY <1>1, <1>8
  <2>8. QED BY <2>2, <2>4, <2>5, <2>6, <2>7 DEF AtSeg, Zero
<1>13. AtDone'
  <2>1. s_baud' = h_baud' /\ s_pc' \in {"seg", "cmd", "uboot"} BY <1>1, <1>6, <1>7, <1>10
  <2>2. \A i \in 1 .. Len(rx') : rx'[i].k = "segment" /\ rx'[i].n = 0 BY <1>1, <1>8
  <2>3. NoK' \/ (rx' = <<>> /\ tx' = <<Reply("MW_DONE")>> /\ s_pc' = "cmd")
    BY <1>1, <1>6, <1>10 DEF NoK
  <2>4. QED BY <2>1, <2>2, <2>3 DEF AtDone, Zero
<1>14. AtSector' /\ AtAck' BY <1>9 DEF AtSector, AtAck
<1>15. QED BY <1>10, <1>11, <1>12, <1>13, <1>14 DEF Inv, InStep, StageOK

\* The write is at its end.
LEMMA WriteDoneStep ==
    ASSUME Inv, WriteDone PROVE Inv'
<1>1. /\ h_pc = "mw_done" /\ tx # <<>> /\ Head(tx).k = "MW_DONE" /\ tx' = Tail(tx)
      /\ h_pc' = "next" /\ todo' = Tail(todo)
      /\ UNCHANGED <<card, modeVars, files, h_files, slots, queue, at, rx, h_baud>>
  BY DEF WriteDone, Got, Keep
<1>2. AtDone BY DEF Inv, InStep
<1>3. ~NoK
  <2>1. Head(tx) = tx[1] /\ Len(tx) \in Nat \ {0} BY <1>1, TailIs DEF Inv, Types
  <2>2. 1 \in 1 .. Len(tx) /\ tx[1].k = "MW_DONE" BY <1>1, <2>1
  <2>3. QED BY <2>2 DEF NoK
<1>4. rx = <<>> /\ tx = <<Reply("MW_DONE")>> BY <1>1, <1>2, <1>3 DEF AtDone
<1>5. rx' = <<>> /\ tx' = <<>> BY <1>1, <1>4
<1>6. todo # <<>> /\ todo[1] = "write"
  <2>1. h_pc \in Streams BY <1>1 DEF Streams
  <2>2. QED BY <2>1, AtWrite
<1>7. StageOK' /\ h_baud' \in Bauds BY <1>1, HostKeeps DEF Inv, Types
<1>8. QED BY <1>1, <1>5, <1>6, <1>7, ToNext
-----------------------------------------------------------------------------
\* The phases of the scripts, and what is left of them when no rate is switched.
Lists == {<<"check", "b">>,
          <<"w">>,
          <<"speed", "write">>,
          <<"write">>,
          <<"speed", "rd", "write">>,
          <<"rd", "write">>,
          <<"speed", "rd", "write", "drop", "b">>,
          <<"rd", "write", "drop", "b">>,
          <<"speed", "rd", "write", "verify">>,
          <<"rd", "write", "verify">>,
          <<"speed", "rd", "write", "verify", "drop", "b">>,
          <<"rd", "write", "verify", "drop", "b">>}

\* They are in order, if the files that sd_pack has read fit.
LEMMA ListsInOrder ==
    ASSUME h_pc' = "next", todo' \in Lists,
           todo' \in {<<"speed", "write">>, <<"write">>} => Fit(h_files')
    PROVE  TodoOK' /\ todo' \in Seq(Names)
<1>1. SUFFICES /\ \A i \in 1 .. Len(todo') : Follows(i)' /\ FitAt(i)'
               /\ todo' \in Seq(Names)
  BY DEF TodoOK, Streams
<1>2. Fit(h_files') => (Fit(h_files))' BY DEF Fit
<1>3. CASE todo' = <<"check", "b">>
  BY <1>2, <1>3 DEF Follows, FitAt, Names
<1>4. CASE todo' = <<"w">>
  BY <1>2, <1>4 DEF Follows, FitAt, Names
<1>5. CASE todo' = <<"speed", "write">>
  BY <1>2, <1>5 DEF Follows, FitAt, Names
<1>6. CASE todo' = <<"write">>
  BY <1>2, <1>6 DEF Follows, FitAt, Names
<1>7. CASE todo' = <<"speed", "rd", "write">>
  BY <1>2, <1>7 DEF Follows, FitAt, Names
<1>8. CASE todo' = <<"rd", "write">>
  BY <1>2, <1>8 DEF Follows, FitAt, Names
<1>9. CASE todo' = <<"speed", "rd", "write", "drop", "b">>
  BY <1>2, <1>9 DEF Follows, FitAt, Names
<1>10. CASE todo' = <<"rd", "write", "drop", "b">>
  BY <1>2, <1>10 DEF Follows, FitAt, Names
<1>11. CASE todo' = <<"speed", "rd", "write", "verify">>
  BY <1>2, <1>11 DEF Follows, FitAt, Names
<1>12. CASE todo' = <<"rd", "write", "verify">>
  BY <1>2, <1>12 DEF Follows, FitAt, Names
<1>13. CASE todo' = <<"speed", "rd", "write", "verify", "drop", "b">>
  BY <1>2, <1>13 DEF Follows, FitAt, Names
<1>14. CASE todo' = <<"rd", "write", "verify", "drop", "b">>
  BY <1>2, <1>14 DEF Follows, FitAt, Names
<1>15. QED BY <1>3, <1>4, <1>5, <1>6, <1>7, <1>8, <1>9, <1>10, <1>11, <1>12, <1>13, <1>14 DEF Lists

\* Lists of phases that are put together.
LEMMA ThreeOne ==
    ASSUME NEW a, NEW b, NEW c, NEW d
    PROVE  <<a, b, c>> \o <<d>> = <<a, b, c, d>>
<1> DEFINE S == {a, b, c, d}
<1>1. <<a, b, c>> \in Seq(S) /\ <<d>> \in Seq(S) /\ <<a, b, c, d>> \in Seq(S)
  OBVIOUS
<1>2. <<a, b, c>> \o <<d>> \in Seq(S) /\ Len(<<a, b, c>> \o <<d>>) = 4
  BY <1>1
<1>3. \A i \in 1 .. 4 : (<<a, b, c>> \o <<d>>)[i] = <<a, b, c, d>>[i]
  <2>1. \A i \in 1 .. 4 : i \in {1, 2, 3, 4}
    OBVIOUS
  <2>2. QED BY <1>1, <2>1
<1>4. QED BY <1>1, <1>2, <1>3, SeqEqual

\* ...
LEMMA ThreeTwo ==
    ASSUME NEW a, NEW b, NEW c, NEW d, NEW e
    PROVE  <<a, b, c>> \o <<d, e>> = <<a, b, c, d, e>>
<1> DEFINE S == {a, b, c, d, e}
<1>1. <<a, b, c>> \in Seq(S) /\ <<d, e>> \in Seq(S) /\ <<a, b, c, d, e>> \in Seq(S)
  OBVIOUS
<1>2. <<a, b, c>> \o <<d, e>> \in Seq(S) /\ Len(<<a, b, c>> \o <<d, e>>) = 5
  BY <1>1
<1>3. \A i \in 1 .. 5 : (<<a, b, c>> \o <<d, e>>)[i] = <<a, b, c, d, e>>[i]
  <2>1. \A i \in 1 .. 5 : i \in {1, 2, 3, 4, 5}
    OBVIOUS
  <2>2. QED BY <1>1, <2>1
<1>4. QED BY <1>1, <1>2, <1>3, SeqEqual

\* ...
LEMMA FourTwo ==
    ASSUME NEW a, NEW b, NEW c, NEW d, NEW e, NEW f
    PROVE  <<a, b, c, d>> \o <<e, f>> = <<a, b, c, d, e, f>>
<1> DEFINE S == {a, b, c, d, e, f}
<1>1. <<a, b, c, d>> \in Seq(S) /\ <<e, f>> \in Seq(S) /\ <<a, b, c, d, e, f>> \in Seq(S)
  OBVIOUS
<1>2. <<a, b, c, d>> \o <<e, f>> \in Seq(S) /\ Len(<<a, b, c, d>> \o <<e, f>>) = 6
  BY <1>1
<1>3. \A i \in 1 .. 6 : (<<a, b, c, d>> \o <<e, f>>)[i] = <<a, b, c, d, e, f>>[i]
  <2>1. \A i \in 1 .. 6 : i \in {1, 2, 3, 4, 5, 6}
    OBVIOUS
  <2>2. QED BY <1>1, <2>1
<1>4. QED BY <1>1, <1>2, <1>3, SeqEqual

\* The phases that a script is started with.
LEMMA PhasesAre ==
    ASSUME NEW tool \in {"pack", "update", "boot", "bootup", "wtest"},
           NEW verify \in {<<>>, <<"verify">>}
    PROVE  /\ Phases(tool, verify) \in Lists
           /\ Head(Phases(tool, verify)) = "speed" => Tail(Phases(tool, verify)) \in Lists
           /\ \/ Phases(tool, verify) \in {<<"speed", "write">>, <<"write">>}
              \/ /\ Head(Phases(tool, verify)) = "speed"
                 /\ Tail(Phases(tool, verify)) \in {<<"speed", "write">>, <<"write">>}
              => tool = "pack"
<1> DEFINE ph == Phases(tool, verify)
<1>1. CASE tool = "pack"
  <2>1. ph = <<"speed", "write">> BY <1>1 DEF Phases
  <2>2. Tail(ph) = <<"write">> BY <2>1
  <2>3. QED BY <1>1, <2>1, <2>2 DEF Lists
<1>2. CASE tool = "update"
  <2>1. CASE verify = <<>>
    <3>1. ph = <<"speed", "rd", "write">> BY <1>2, <2>1 DEF Phases
    <3>2. Tail(ph) = <<"rd", "write">> BY <3>1
    <3>3. QED BY <3>1, <3>2 DEF Lists
  <2>2. CASE verify = <<"verify">>
    <3>0. ph = <<"speed", "rd", "write">> \o verify BY <1>2 DEF Phases
    <3>a. <<"speed", "rd", "write">> \o <<"verify">> = <<"speed", "rd", "write", "verify">>
      BY ThreeOne
    <3>1. ph = <<"speed", "rd", "write", "verify">> BY <2>2, <3>0, <3>a
    <3>2. Tail(ph) = <<"rd", "write", "verify">> BY <3>1
    <3>3. QED BY <3>1, <3>2 DEF Lists
  <2>3. QED BY <2>1, <2>2
<1>3. CASE tool = "bootup"
  <2>1. CASE verify = <<>>
    <3>0. ph = <<"speed", "rd", "write">> \o verify \o <<"drop", "b">> BY <1>3 DEF Phases
    <3>a. <<"speed", "rd", "write">> \o <<>> = <<"speed", "rd", "write">>
      OBVIOUS
    <3>b. <<"speed", "rd", "write">> \o <<"drop", "b">> = <<"speed", "rd", "write", "drop", "b">>
      BY ThreeTwo
    <3>1. ph = <<"speed", "rd", "write", "drop", "b">> BY <2>1, <3>0, <3>a, <3>b
    <3>2. Tail(ph) = <<"rd", "write", "drop", "b">> BY <3>1
    <3>3. QED BY <3>1, <3>2 DEF Lists
  <2>2. CASE verify = <<"verify">>
    <3>0. ph = <<"speed", "rd", "write">> \o verify \o <<"drop", "b">> BY <1>3 DEF Phases
    <3>a. <<"speed", "rd", "write">> \o <<"verify">> = <<"speed", "rd", "write", "verify">>
      BY ThreeOne
    <3>b. <<"speed", "rd", "write", "verify">> \o <<"drop", "b">>
          = <<"speed", "rd", "write", "verify", "drop", "b">>
      BY FourTwo
    <3>1. ph = <<"speed", "rd", "write", "verify", "drop", "b">> BY <2>2, <3>0, <3>a, <3>b
    <3>2. Tail(ph) = <<"rd", "write", "verify", "drop", "b">> BY <3>1
    <3>3. QED BY <3>1, <3>2 DEF Lists
  <2>3. QED BY <2>1, <2>2
<1>4. CASE tool = "boot"
  <2>1. ph = <<"check", "b">> BY <1>4 DEF Phases
  <2>2. Head(ph) = "check" BY <2>1
  <2>3. QED BY <2>1, <2>2 DEF Lists
<1>5. CASE tool = "wtest"
  <2>1. ph = <<"w">> BY <1>5 DEF Phases
  <2>2. Head(ph) = "w" BY <2>1
  <2>3. QED BY <2>1, <2>2 DEF Lists
<1>6. QED BY <1>1, <1>2, <1>3, <1>4, <1>5

\* One of the scripts is started, with a choice of slots and with or without --verify.
LEMMA StartsOne ==
    ASSUME Starts
    PROVE  \E tool \in Tools, fresh \in BOOLEAN, sel \in SUBSET Files,
              verify \in {<<>>, <<"verify">>} : Start(tool, sel, verify, fresh)
<1>1. PICK tool \in Tools, fresh \in BOOLEAN :
        \E sel \in IF tool = "pack" THEN {Files}
                   ELSE IF tool \in {"update", "bootup"} THEN SUBSET Files \ {{}}
                   ELSE {{}} :
        \E verify \in IF sel = {} \/ tool = "pack" THEN {<<>>} ELSE {<<>>, <<"verify">>} :
          Start(tool, sel, verify, fresh)
  BY DEF Starts
<1>2. PICK sel \in IF tool = "pack" THEN {Files}
                   ELSE IF tool \in {"update", "bootup"} THEN SUBSET Files \ {{}}
                   ELSE {{}} :
        \E verify \in IF sel = {} \/ tool = "pack" THEN {<<>>} ELSE {<<>>, <<"verify">>} :
          Start(tool, sel, verify, fresh)
  BY <1>1
<1>3. PICK verify \in IF sel = {} \/ tool = "pack" THEN {<<>>} ELSE {<<>>, <<"verify">>} :
          Start(tool, sel, verify, fresh)
  BY <1>2
<1>4. sel \in SUBSET Files BY <1>2
<1>5. verify \in {<<>>, <<"verify">>} BY <1>3
<1>6. QED BY <1>3, <1>4, <1>5

\* A script is started: the FPGA is programmed, or what stage2 has sent is dropped.
LEMMA StartsStep ==
    ASSUME Inv, Starts PROVE Inv'
<1>1. PICK tool \in Tools, fresh \in BOOLEAN, sel \in SUBSET Files,
           verify \in {<<>>, <<"verify">>} : Start(tool, sel, verify, fresh)
  BY StartsOne
<1> DEFINE ph == Phases(tool, verify)
<1>2. tool \in {"pack", "update", "boot", "bootup", "wtest"} BY ToolsAssumption
<1>3. /\ ph \in Lists
      /\ Head(ph) = "speed" => Tail(ph) \in Lists
      /\ \/ ph \in {<<"speed", "write">>, <<"write">>}
         \/ Head(ph) = "speed" /\ Tail(ph) \in {<<"speed", "write">>, <<"write">>}
         => tool = "pack"
  BY <1>2, PhasesAre
<1> HIDE DEF ph
<1>4. /\ h_pc = "idle" /\ (tool = "pack" => Fit(files)) /\ Attach(ph, fresh)
      /\ h_pc' = "next" /\ h_files' = files /\ slots' = sel /\ queue' = <<>> /\ at' = 1
      /\ UNCHANGED <<card, files>>
  BY <1>1 DEF Start, ph
<1>5. /\ StageOK' /\ rx' = <<>> /\ tx' = <<>> /\ h_baud' \in Bauds
      /\ todo' \in {ph, <<>>} \/ (Head(ph) = "speed" /\ todo' = Tail(ph))
  <2>1. CASE Program(ph)
    <3>1. /\ StageOK' /\ rx' = <<>> /\ tx' = <<>> /\ h_baud' = "app" /\ todo' \in {ph, <<>>}
      BY <1>4, <2>1, ProgramIs
    <3>2. QED BY <3>1 DEF Bauds
  <2>2. CASE /\ rx = <<>> /\ h_baud' = s_baud /\ tx' = <<>> /\ UNCHANGED <<modeVars, rx, flaws>>
             /\ todo' = IF Head(ph) = "speed" THEN Tail(ph) ELSE ph
    <3>1. StageOK' BY <1>4, <2>2, HostKeeps
    <3>2. h_baud' \in Bauds BY <2>2 DEF Inv, Types
    <3>3. QED BY <2>2, <3>1, <3>2
  <2>3. QED BY <1>4, <2>1, <2>2 DEF Attach
<1>6. TodoOK' /\ todo' \in Seq(Names)
  <2>1. CASE todo' = <<>> BY <1>4, <2>1 DEF TodoOK, Streams
  <2>2. CASE todo' = ph \/ (Head(ph) = "speed" /\ todo' = Tail(ph))
    <3>1. todo' \in Lists BY <1>3, <2>2
    <3>2. todo' \in {<<"speed", "write">>, <<"write">>} => Fit(h_files')
      BY <1>3, <1>4, <2>2
    <3>3. QED BY <1>4, <3>1, <3>2, ListsInOrder
  <2>3. QED BY <1>5, <2>1, <2>2
<1>7. Types'
  <2>1. files \in [Files -> Versions] BY DEF Inv, Types
  <2>2. /\ rx' \in Seq(Items) /\ tx' \in Seq(Replies) /\ queue' \in Seq(Segments)
        /\ at' \in Nat \ {0}
    BY <1>4, <1>5
  <2>3. QED BY <1>4, <1>5, <1>6, <2>1, <2>2 DEF Types, StageOK
<1>8. StreamOK' BY <1>5 DEF StreamOK
<1>9. QueueOK' BY <1>4 DEF QueueOK
<1>10. InStep'
  BY <1>4, <1>5 DEF InStep, AtNext, AtWait, AtB1, AtGo, AtSeg, AtSector, AtAck, AtDone, Waits
<1>11. QED BY <1>5, <1>6, <1>7, <1>8, <1>9, <1>10 DEF Inv, StageOK

\* What the developer does meanwhile, and what does nothing.
LEMMA OutsideStep ==
    ASSUME Inv,
           \/ PackRefused \/ Rest \/ UNCHANGED vars
           \/ \E c \in Files, v \in Versions : Build(c, v)
    PROVE  Inv'
<1>1. /\ UNCHANGED <<card, modeVars, h_pc, todo, h_files, slots, queue, at, rx, tx, h_baud>>
      /\ files' \in [Files -> Versions]
  <2>1. files \in [Files -> Versions] BY DEF Inv, Types
  <2>2. CASE PackRefused BY <2>1, <2>2 DEF PackRefused, lineVars
  <2>3. CASE Rest \/ UNCHANGED vars BY <2>1, <2>3 DEF Rest, vars, lineVars, hostVars
  <2>4. ASSUME NEW c \in Files, NEW v \in Versions, Build(c, v)
        PROVE  /\ files' \in [Files -> Versions]
               /\ UNCHANGED <<card, modeVars, h_pc, todo, h_files, slots, queue, at, rx, tx, h_baud>>
    <3>1. files' = [files EXCEPT ![c] = v] BY <2>4 DEF Build
    <3>2. files' \in [Files -> Versions] BY <2>1, <3>1
    <3>3. QED BY <2>4, <3>2 DEF Build, lineVars
  <2>5. QED BY <2>2, <2>3, <2>4
<1>2. StageOK' /\ UNCHANGED <<s_pc, s_baud, segs, lba, left>> BY <1>1, HostKeeps
<1>3. Types' BY <1>1, <1>2 DEF Inv, Types, StageOK
<1>4. StreamOK' BY <1>1, <1>2 DEF Inv, StreamOK, SectorOK
<1>5. QueueOK' BY <1>1 DEF Inv, QueueOK, GoodSegment
<1>6. TodoOK' BY <1>1 DEF Inv, TodoOK, Follows, FitAt
<1>7. AtNext' /\ AtWait' /\ AtB1' /\ AtGo'
  BY <1>1, <1>2 DEF Inv, InStep, AtNext, AtWait, AtB1, AtGo, Says
<1>8. Current' = Current /\ Size1' = Size1 /\ (NoK' <=> NoK) /\ (SentAll' <=> SentAll)
      /\ (SentBefore' <=> SentBefore)
  BY <1>1 DEF Current, Size1, NoK, SentAll, SentBefore, Sent, Zero
<1>9. AtSeg' /\ AtDone' BY <1>1, <1>2, <1>8 DEF Inv, InStep, AtSeg, AtDone, Zero
<1>10. AtSector' BY <1>1, <1>2, <1>8 DEF Inv, InStep, AtSector
<1>11. AtAck' BY <1>1, <1>2, <1>8 DEF Inv, InStep, AtAck, AckToCome, AckCame
<1>12. QED BY <1>2, <1>3, <1>4, <1>5, <1>6, <1>7, <1>9, <1>10, <1>11 DEF Inv, InStep, StageOK
-----------------------------------------------------------------------------
(* The invariant holds, and with it the slots are kept apart.                *)

\* The card is blank, and no script runs.
LEMMA InitInv == Init => Inv
<1> SUFFICES ASSUME Init PROVE Inv OBVIOUS
<1> USE DEF Init, CardInit, Stage2Init, ToolsInit
<1>1. END_LBA \in Nat /\ Blank \in Datas BY Layout, SpecialData
<1>2. Types
  <2>1. card \in [0 .. END_LBA -> Datas] BY <1>1
  <2>2. files \in [Files -> Versions] /\ h_files \in [Files -> Versions] OBVIOUS
  <2>3. QED BY <2>1, <2>2 DEF Types, Out, Bauds
<1>3. CardOK BY <1>1, SpecialData DEF CardOK
<1>4. WriteOK /\ QueueOK /\ StreamOK BY DEF WriteOK, QueueOK, StreamOK
<1>5. TodoOK BY DEF TodoOK, Streams
<1>6. InStep
  BY DEF InStep, AtNext, AtWait, AtB1, AtGo, AtSeg, AtSector, AtAck, AtDone, Waits
<1>7. QED BY <1>2, <1>3, <1>4, <1>5, <1>6 DEF Inv

\* Every step of a script keeps the invariant.
LEMMA HostInv ==
    ASSUME Inv, HostActs \/ HostExpires PROVE Inv'
<1>1. CASE HostActs
  BY <1>1, BeginSwitchStep, BeginReadStep, BeginWriteStep, BeginTestStep, BeginBootStep,
     SwitchedStep, SwitchOkStep, HeaderReadStep, GotReadyStep, GotGoStep, SendSegmentStep,
     SendSectorStep, SectorAckedStep, EndOfSegmentStep, WriteDoneStep, TestReadyStep,
     SkipReplyStep, StopStep
     DEF HostActs, HostStep
<1>2. CASE HostExpires
  BY <1>2, FallBackStep, CheckTimeoutStep, StopStep DEF HostExpires, HostTimeout
<1>3. QED BY <1>1, <1>2

\* Every step keeps the invariant.
LEMMA NextInv == Inv /\ [Next]_vars => Inv'
<1> SUFFICES ASSUME Inv, [Next]_vars PROVE Inv' OBVIOUS
<1>1. CASE Stage2Acts BY <1>1, StageStep
<1>2. CASE HostActs \/ HostExpires BY <1>2, HostInv
<1>3. CASE Stage2Expires BY <1>3, ExpireStep
<1>4. CASE Killed BY <1>4, StopStep
<1>5. CASE Starts BY <1>5, StartsStep
<1>6. CASE \/ PackRefused \/ Rest \/ UNCHANGED vars
           \/ \E c \in Files, v \in Versions : Build(c, v)
  BY <1>6, OutsideStep
<1>7. QED BY <1>1, <1>2, <1>3, <1>4, <1>5, <1>6 DEF Next

\* The card, the line, the script and stage2 stay in step.
THEOREM StaysInStep == Spec => []Inv
<1>1. QED BY InitInv, NextInv, PTL DEF Spec

\* A slot never holds a sector of another file, and nothing is written past the last: for
\* slots and files of any size, any number of scripts, and whatever is lost or killed.
THEOREM SlotsApart == Spec => []SlotsKeepApart
<1>1. Inv => SlotsKeepApart
  <2> SUFFICES ASSUME Inv PROVE SlotsKeepApart OBVIOUS
  <2>1. CardOK /\ card[END_LBA] = Blank BY DEF Inv, CardOK
  <2>2. ASSUME NEW c \in Files, NEW l \in SlotLba[c] .. SlotLba[c] + MAX_SEC[c] - 1
        PROVE  card[l].of \in {c, "blank", "test", "torn"}
    <3>1. /\ SlotLba[c] \in Nat /\ MAX_SEC[c] \in Nat /\ 1 <= SlotLba[c]
          /\ SlotLba[c] + MAX_SEC[c] <= END_LBA /\ END_LBA \in Nat
      BY Layout
    <3>2. l \in Nat /\ 1 <= l /\ SlotLba[c] <= l /\ l < SlotLba[c] + MAX_SEC[c] BY <3>1
    <3>3. l \in 0 .. END_LBA BY <3>1, <3>2
    <3>4. card[l].of \in {"blank", "torn"} \/ Belongs(card[l], l) BY <2>1, <3>3 DEF CardOK
    <3>5. ASSUME card[l].of \in Files, SlotLba[card[l].of] <= l,
                 l < SlotLba[card[l].of] + MAX_SEC[card[l].of]
          PROVE  card[l].of = c
      <4>1. SUFFICES ASSUME card[l].of # c PROVE FALSE OBVIOUS
      <4>2. \/ SlotLba[c] + MAX_SEC[c] <= SlotLba[card[l].of]
            \/ SlotLba[card[l].of] + MAX_SEC[card[l].of] <= SlotLba[c]
        BY <3>5, <4>1, Layout
      <4>3. SlotLba[card[l].of] \in Nat /\ MAX_SEC[card[l].of] \in Nat BY <3>5, Layout
      <4>4. QED BY <3>1, <3>2, <3>5, <4>2, <4>3
    <3>6. QED BY <3>2, <3>4, <3>5 DEF Belongs, HDR_LBA
  <2>3. QED BY <2>1, <2>2 DEF SlotsKeepApart
<1>2. QED BY <1>1, StaysInStep, PTL

-----------------------------------------------------------------------------
(* Sessions that begin by programming the FPGA.                              *)

\* Before its first command, stage2 has said that it is in its command loop.
Usable == h_pc = "next" /\ todo # <<>> /\ todo[1] \in {"speed", "rd", "check", "w", "write"} =>
              s_pc = "cmd" /\ s_baud = h_baud

\* A script comes to a phase from the one before, or from the programming.
LEMMA NextUsable ==
    ASSUME ~Persistent, Inv, Usable, [Next]_vars PROVE Usable'
<1> SUFFICES ASSUME h_pc' = "next", todo' # <<>>,
                    todo'[1] \in {"speed", "rd", "check", "w", "write"}
             PROVE  s_pc' = "cmd" /\ s_baud' = h_baud'
  BY DEF Usable
<1>1. ASSUME NEW ph, Program(ph) PROVE s_pc' = "cmd" /\ s_baud' = h_baud'
  BY <1>1 DEF Program, Started
<1>2. ASSUME todo # <<>>, todo' = Tail(todo)
      PROVE  /\ todo[1] \notin {"write", "verify", "check", "drop", "b", "w"}
             /\ todo \in Seq(Names) /\ Head(todo) = todo[1]
  <2>1. /\ Len(todo) \in Nat \ {0} /\ todo \in Seq(Names) /\ Head(todo) = todo[1]
        /\ Tail(todo) \in Seq(Names) /\ Len(Tail(todo)) = Len(todo) - 1
        /\ \A i \in 1 .. Len(todo) - 1 : Tail(todo)[i] = todo[i + 1]
    BY <1>2, TailIs DEF Inv, Types
  <2>2. Len(Tail(todo)) # 0 BY <1>2, <2>1
  <2>3. 1 \in 1 .. Len(todo) /\ 2 \in 1 + 1 .. Len(todo) /\ todo'[1] = todo[2]
    BY <1>2, <2>1, <2>2
  <2>4. Follows(1) BY <2>3 DEF Inv, TodoOK
  <2>5. QED BY <2>1, <2>3, <2>4 DEF Follows
<1>3. CASE Stage2Acts
  <2>1. h_pc = "next" /\ Take BY <1>3, StageBaud DEF Stage2Acts, hostVars
  <2>2. rx # <<>> BY <2>1 DEF Take
  <2>3. QED BY <2>1, <2>2 DEF Inv, InStep, AtNext
<1>4. CASE HostActs
  <2>a. CASE BeginSwitch
    <3>1. h_pc' # "b1" OBVIOUS
    <3>2. /\ h_pc = "next" /\ todo # <<>> /\ Head(todo) \in {"speed", "drop"}
          /\ todo' = Tail(todo) /\ UNCHANGED <<modeVars, h_baud>>
      BY <2>a, <3>1 DEF BeginSwitch, SendThen, Quiet, Keep
    <3>3. todo[1] = "speed" BY <1>2, <3>2
    <3>4. QED BY <3>2, <3>3 DEF Usable, modeVars
  <2>b. CASE SwitchOk
    <3>1. Got("b2", "BAUD_OK") /\ UNCHANGED <<modeVars, h_baud>>
      BY <2>b DEF SwitchOk, Quiet, Keep
    <3>2. "b2" \in Waits /\ "BAUD_OK" \in GoesOn BY DEF Waits, GoesOn
    <3>3. tx[1].k = "BAUD_OK" /\ Says(tx[1]) BY <3>1, <3>2, GotIs
    <3>4. QED BY <3>1, <3>3 DEF Says, modeVars
  <2>c. CASE HeaderRead
    <3>1. Got("rd", "RD_READY") /\ UNCHANGED <<modeVars, h_baud>>
      BY <2>c DEF HeaderRead, Keep
    <3>2. "rd" \in Waits /\ "RD_READY" \in GoesOn BY DEF Waits, GoesOn
    <3>3. tx[1].k = "RD_READY" /\ Says(tx[1]) BY <3>1, <3>2, GotIs
    <3>4. QED BY <3>1, <3>3 DEF Says, modeVars
  <2>d. CASE WriteDone
    <3>1. h_pc = "mw_done" /\ todo' = Tail(todo) BY <2>d DEF WriteDone, Got
    <3>2. h_pc \in Streams BY <3>1 DEF Streams
    <3>3. todo # <<>> /\ todo[1] = "write" BY <3>2, AtWrite
    <3>4. QED BY <1>2, <3>1, <3>3
  <2>e. CASE SkipReply
    <3>1. h_pc \in DOMAIN Wanted /\ h_pc' = h_pc BY <2>e DEF SkipReply
    <3>2. QED BY <3>1 DEF Wanted
  <2>f. CASE ~(BeginSwitch \/ SwitchOk \/ HeaderRead \/ WriteDone \/ SkipReply)
    <3>1. h_pc' # "next"
      BY <1>4, <2>f
         DEF HostActs, HostStep, BeginRead, UpdateRefused, BeginWrite, BeginTest, BeginBoot,
             Switched, GotReady, GotGo, SendSegment, SendSector, SectorAcked, SectorRefused,
             EndOfSegment, WriteFailed, TestReady, TestDone, AtEnd, Stop, SendThen
    <3>2. QED BY <3>1
  <2>g. QED BY <2>a, <2>b, <2>c, <2>d, <2>e, <2>f
<1>5. CASE HostExpires
  <2>1. CASE FallBack BY <1>1, <2>1 DEF FallBack
  <2>2. CASE CheckTimeout
    <3>1. h_pc = "rd" /\ Head(todo) = "check" /\ todo' = Tail(todo) BY <2>2 DEF CheckTimeout
    <3>2. todo # <<>> BY <3>1 DEF Inv, TodoOK
    <3>3. QED BY <1>2, <3>1, <3>2
  <2>3. CASE WaitTimeout
    <3>1. h_pc' = "idle" BY <2>3 DEF WaitTimeout, Stop
    <3>2. QED BY <3>1
  <2>4. QED BY <1>5, <2>1, <2>2, <2>3 DEF HostExpires, HostTimeout
<1>6. CASE Stage2Expires
  <2>1. h_pc' = h_pc /\ h_pc # "next" BY <1>6 DEF Stage2Expires, hostVars, Waiting, Wanted
  <2>2. QED BY <2>1
<1>7. CASE Killed
  <2>1. h_pc' = "idle" BY <1>7 DEF Killed
  <2>2. QED BY <2>1
<1>8. CASE Starts
  <2>1. \E tool, fresh, sel, verify : fresh \in BOOLEAN /\ Start(tool, sel, verify, fresh)
    BY <1>8 DEF Starts
  <2>2. PICK tool, fresh, sel, verify : fresh \in BOOLEAN /\ Start(tool, sel, verify, fresh)
    BY <2>1
  <2>3. fresh /\ Attach(Phases(tool, verify), fresh) BY <2>2 DEF Start
  <2>4. Program(Phases(tool, verify)) BY <2>3 DEF Attach
  <2>5. QED BY <1>1, <2>4
<1>9. CASE \/ PackRefused \/ Rest \/ UNCHANGED vars
           \/ \E c \in Files, v \in Versions : Build(c, v)
  <2>1. UNCHANGED <<h_pc, todo, s_pc, s_baud, h_baud>>
    BY <1>9 DEF PackRefused, Rest, vars, Build, modeVars, hostVars
  <2>2. QED BY <2>1 DEF Usable
<1>10. QED BY <1>3, <1>4, <1>5, <1>6, <1>7, <1>8, <1>9 DEF Next

\* When the script of such a session sends its first command, stage2 is in its command loop
\* and listens at the host's rate.
THEOREM UsableWhenProgrammed ==
    ASSUME ~Persistent PROVE Spec => []SessionUsable
<1>1. Init => Usable BY DEF Init, ToolsInit, Usable
<1>2. Inv /\ Usable /\ [Next]_vars => Usable' BY NextUsable
<1>3. Inv /\ Usable => SessionUsable
  <2> SUFFICES ASSUME Inv, Usable, h_pc = "next", todo # <<>>,
                      Head(todo) \in {"rd", "check", "w", "write"}
               PROVE  s_pc = "cmd" /\ s_baud = h_baud
    BY DEF SessionUsable
  <2>1. Head(todo) = todo[1] BY TailIs DEF Inv, Types
  <2>2. QED BY <2>1 DEF Usable
<1>4. QED BY <1>1, <1>2, <1>3, StaysInStep, PTL DEF Spec
-----------------------------------------------------------------------------
(* What a script has put on the card.                                        *)

\* The segments of a choice of files, and how much of one is on the card.
HeaderSeg(ver) == [lba |-> HDR_LBA, data |-> <<Header(SizesOf(ver))>>]
FileSeg(c, ver) == [lba |-> SlotLba[c], data |-> Contents(c, ver[c])]
Plan(sel, ver) == {HeaderSeg(ver)} \cup {FileSeg(c, ver) : c \in sel}
OnCard(s, n) == \A i \in 1 .. n : card[s.lba + i - 1] = s.data[i]
AllOnCard(sel, ver) == \A s \in Plan(sel, ver) : OnCard(s, Len(s.data))

\* A write under way: what is to be written is still to be sent or on the card whole; of
\* the segment that is being sent, the sectors that have been acknowledged.
Planned == /\ Fit(h_files)
           /\ \A j \in 1 .. Len(queue) : queue[j] \in Plan(slots, h_files)
Queued(s) == \E j \in 1 .. Len(queue) : queue[j] = s
PlanReady ==
    h_pc \in {"mw_ready", "mw_go"} =>
        Planned /\ \A s \in Plan(slots, h_files) : Queued(s)
PlanSent ==
    h_pc \in Streams =>
        /\ Planned
        /\ \A s \in Plan(slots, h_files) : Queued(s) \/ OnCard(s, Len(s.data))
        /\ h_pc \in {"sector", "ack"} => OnCard(Current, at - 1)
        /\ h_pc = "ack" => OnCard(Current, at) \/ \A i \in 1 .. Len(tx) : tx[i].k # "K"
        /\ h_pc = "mw_done" => queue = <<>>

\* Stage2 writes nothing, and nothing that would make it write is in flight.
StillRx == \A i \in 1 .. Len(rx) : /\ rx[i].k \in {"cmd", "probe", "noise"}
                                   /\ rx[i].k = "cmd" => rx[i].c \in {"R", "b", "B"}
Still == s_pc \in {"cmd", "probe"} \cup Out /\ StillRx

\* After the write, before and after the script has said OK.
Verified == todo # <<>> /\ todo[1] = "verify" => Still /\ AllOnCard(slots, h_files)
Claimed ==
    claim.slots # {} =>
        /\ claim.slots \in SUBSET Files /\ claim.files \in [Files -> Versions]
        /\ Still /\ AllOnCard(claim.slots, claim.files)
        /\ \A i \in 1 .. Len(todo) : todo[i] \in {"check", "drop", "b"}
        /\ h_pc \in {"idle", "next", "rd", "b1", "b2"}

Written == PlanReady /\ PlanSent /\ Verified /\ Claimed /\ BootsWhatWasWritten

\* Where the segments of a choice of files lie.
LEMMA PlanPlaces ==
    ASSUME NEW sel \in SUBSET Files, NEW ver \in [Files -> Versions], Fit(ver),
           NEW s \in Plan(sel, ver)
    PROVE  /\ s.lba \in Nat /\ Len(s.data) \in Nat
           /\ \/ s = HeaderSeg(ver) /\ s.lba = 0 /\ Len(s.data) = 1
              \/ \E c \in sel : /\ s = FileSeg(c, ver) /\ s.lba = SlotLba[c]
                                /\ Len(s.data) <= MAX_SEC[c]
<1>1. CASE s = HeaderSeg(ver)
  <2>1. s.lba = 0 /\ s.data = <<Header(SizesOf(ver))>> BY <1>1 DEF HeaderSeg, HDR_LBA
  <2>2. Len(s.data) = 1 BY <2>1
  <2>3. QED BY <1>1, <2>1, <2>2
<1>2. ASSUME NEW c \in sel, s = FileSeg(c, ver)
      PROVE  s.lba = SlotLba[c] /\ s.lba \in Nat /\ Len(s.data) \in Nat /\ Len(s.data) <= MAX_SEC[c]
  <2>1. s.lba = SlotLba[c] /\ s.data = Contents(c, ver[c]) BY <1>2 DEF FileSeg
  <2>2. c \in Files /\ ver[c] \in Versions OBVIOUS
  <2>3. Len(s.data) = Padded(Size[c][ver[c]]) /\ Len(s.data) \in Nat BY <2>1, <2>2, ContentsIs
  <2>4. Padded(Size[c][ver[c]]) <= MAX_SEC[c] BY <2>2 DEF Fit
  <2>5. SlotLba[c] \in Nat BY <2>2, Layout
  <2>6. QED BY <2>1, <2>3, <2>4, <2>5
<1>3. QED BY <1>1, <1>2 DEF Plan

\* Sectors of two ranges that are apart differ.
LEMMA RangesApart ==
    ASSUME NEW a \in Nat, NEW m \in Nat, NEW b \in Nat, NEW n \in Nat, NEW x \in Nat,
           \/ a + m <= b
           \/ b + n <= a,
           x <= a + m, x <= b + n, x > a, x > b
    PROVE  FALSE
OBVIOUS

\* A sector of a file that starts at l lies before the end of a slot that holds the file.
LEMMA InRange ==
    \A l, i, n, m, e \in Nat : 1 <= i /\ i <= n /\ n <= m /\ l + m <= e => l + i - 1 \in 0 .. e
OBVIOUS

\* Two segments of one choice of files say the same of a sector in both: they are one.
LEMMA PlanAgrees ==
    ASSUME NEW sel \in SUBSET Files, NEW ver \in [Files -> Versions], Fit(ver),
           NEW s \in Plan(sel, ver), NEW t \in Plan(sel, ver),
           NEW i \in Nat, NEW j \in Nat, i \in 1 .. Len(s.data), j \in 1 .. Len(t.data),
           s.lba + i = t.lba + j
    PROVE  s = t /\ i = j
<1>1. ASSUME NEW u \in Plan(sel, ver)
      PROVE  /\ u.lba \in Nat /\ Len(u.data) \in Nat
             /\ \/ u = HeaderSeg(ver) /\ u.lba = 0 /\ Len(u.data) = 1
                \/ \E c \in sel : /\ u = FileSeg(c, ver) /\ u.lba = SlotLba[c]
                                  /\ Len(u.data) <= MAX_SEC[c]
  BY <1>1, PlanPlaces
<1>2. /\ s.lba \in Nat /\ Len(s.data) \in Nat /\ t.lba \in Nat /\ Len(t.data) \in Nat
      /\ i \in Nat /\ j \in Nat /\ 1 <= i /\ i <= Len(s.data) /\ 1 <= j /\ j <= Len(t.data)
  BY <1>1
<1>3. SUFFICES s = t BY <1>2
<1>4. CASE s = HeaderSeg(ver) /\ s.lba = 0 /\ Len(s.data) = 1
  <2>1. CASE t = HeaderSeg(ver) BY <1>4, <2>1
  <2>2. ASSUME NEW c \in sel, t.lba = SlotLba[c] PROVE FALSE
    <3>1. SlotLba[c] \in Nat /\ 1 <= SlotLba[c] BY Layout
    <3>2. QED BY <1>2, <1>4, <2>2, <3>1
  <2>3. QED BY <1>1, <2>1, <2>2
<1>5. ASSUME NEW c \in sel, s = FileSeg(c, ver), s.lba = SlotLba[c], Len(s.data) <= MAX_SEC[c]
      PROVE  s = t
  <2>1. /\ SlotLba[c] \in Nat /\ 1 <= SlotLba[c] /\ MAX_SEC[c] \in Nat BY Layout
  <2>2. CASE t.lba = 0 /\ Len(t.data) = 1 BY <1>2, <1>5, <2>1, <2>2
  <2>3. ASSUME NEW d \in sel, t = FileSeg(d, ver), t.lba = SlotLba[d], Len(t.data) <= MAX_SEC[d]
        PROVE  s = t
    <3>1. SlotLba[d] \in Nat /\ MAX_SEC[d] \in Nat BY Layout
    <3>2. CASE c = d BY <1>5, <2>3, <3>2
    <3>3. CASE c # d
      <4>1. \/ SlotLba[c] + MAX_SEC[c] <= SlotLba[d]
            \/ SlotLba[d] + MAX_SEC[d] <= SlotLba[c]
        BY <3>3, Layout
      <4>2. s.lba + i <= SlotLba[c] + MAX_SEC[c] /\ t.lba + j <= SlotLba[d] + MAX_SEC[d]
        BY <1>2, <1>5, <2>1, <2>3, <3>1
      <4>3. s.lba + i > SlotLba[c] /\ t.lba + j > SlotLba[d] BY <1>2, <1>5, <2>3
      <4>4. s.lba + i \in Nat BY <1>2
      <4>5. QED BY <2>1, <3>1, <4>1, <4>2, <4>3, <4>4, RangesApart
    <3>4. QED BY <3>2, <3>3
  <2>4. QED BY <1>1, <2>2, <2>3
<1>6. QED BY <1>1, <1>4, <1>5

\* A sector of a segment is written, or not: the rest stays, and the segment is one longer.
LEMMA PlanWrite ==
    ASSUME Types, NEW sel \in SUBSET Files, NEW ver \in [Files -> Versions], Fit(ver),
           NEW s \in Plan(sel, ver), NEW a \in Nat, a \in 1 .. Len(s.data),
           card' \in {card, [card EXCEPT ![s.lba + a - 1] = s.data[a]]}
    PROVE  /\ \A t \in Plan(sel, ver) : \A n \in 0 .. Len(t.data) : OnCard(t, n) => OnCard(t, n)'
           /\ card' = [card EXCEPT ![s.lba + a - 1] = s.data[a]] /\ OnCard(s, a - 1) => OnCard(s, a)'
<1> DEFINE m == s.lba + a - 1
<1>1. card \in [0 .. END_LBA -> Datas] /\ END_LBA \in Nat BY Layout DEF Types
<1>2. ASSUME NEW t \in Plan(sel, ver)
      PROVE  /\ t.lba \in Nat /\ Len(t.data) \in Nat
             /\ \A i \in 1 .. Len(t.data) : t.lba + i - 1 \in 0 .. END_LBA
  <2>1. /\ t.lba \in Nat /\ Len(t.data) \in Nat
        /\ \/ t.lba = 0 /\ Len(t.data) = 1
           \/ \E c \in sel : t.lba = SlotLba[c] /\ Len(t.data) <= MAX_SEC[c]
    BY <1>2, PlanPlaces
  <2>2. ASSUME NEW c \in sel, t.lba = SlotLba[c], Len(t.data) <= MAX_SEC[c],
               NEW i \in 1 .. Len(t.data)
        PROVE  t.lba + i - 1 \in 0 .. END_LBA
    <3>1. /\ SlotLba[c] \in Nat /\ 1 <= SlotLba[c] /\ MAX_SEC[c] \in Nat
          /\ SlotLba[c] + MAX_SEC[c] <= END_LBA
      BY Layout
    <3>2. i \in Nat /\ 1 <= i /\ i <= Len(t.data) BY <2>1
    <3>3. t.lba = SlotLba[c] /\ Len(t.data) <= MAX_SEC[c] BY <2>2
    <3>4. QED BY <1>1, <2>1, <3>1, <3>2, <3>3, InRange
  <2>3. CASE t.lba = 0 /\ Len(t.data) = 1 BY <1>1, <2>1, <2>3
  <2>4. QED BY <2>1, <2>2, <2>3
<1>3. s.lba \in Nat /\ Len(s.data) \in Nat /\ m \in 0 .. END_LBA BY <1>2
<1>4. \A l \in 0 .. END_LBA : \/ card'[l] = card[l]
                              \/ l = m /\ card'[l] = s.data[a]
  BY <1>1, <1>3
<1>a. \A t \in Plan(sel, ver) : \A i \in Nat :
         i \in 1 .. Len(t.data) /\ t.lba + i - 1 = m => t.data[i] = s.data[a]
  <2>1. SUFFICES ASSUME NEW t \in Plan(sel, ver), NEW i \in Nat, i \in 1 .. Len(t.data),
                        t.lba + i - 1 = s.lba + a - 1
                 PROVE  t.data[i] = s.data[a]
    BY DEF m
  <2>2. s.lba \in Nat /\ t.lba \in Nat BY <1>2
  <2>3. s.lba + a = t.lba + i
    <3> DEFINE p == s.lba
               q == t.lba
    <3>1. p \in Nat /\ q \in Nat /\ q + i - 1 = p + a - 1 BY <2>1, <2>2
    <3> HIDE DEF p, q
    <3>2. p + a = q + i BY <3>1
    <3>3. QED BY <3>2 DEF p, q
  <2>4. s = t /\ a = i BY <2>1, <2>3, PlanAgrees, ZenonT(40)
  <2>5. QED BY <2>4
<1>5. ASSUME NEW t \in Plan(sel, ver), NEW n \in 0 .. Len(t.data), OnCard(t, n)
      PROVE  OnCard(t, n)'
  <2>1. t.lba \in Nat /\ Len(t.data) \in Nat BY <1>2
  <2>2. SUFFICES ASSUME NEW i \in 1 .. n PROVE card'[t.lba + i - 1] = t.data[i]
    BY DEF OnCard
  <2>3. i \in Nat /\ i \in 1 .. Len(t.data) BY <2>1
  <2>4. t.lba + i - 1 \in 0 .. END_LBA BY <1>2, <2>3
  <2>5. card[t.lba + i - 1] = t.data[i] BY <1>5 DEF OnCard
  <2>6. CASE t.lba + i - 1 = m /\ card'[t.lba + i - 1] = s.data[a]
    BY <1>a, <2>3, <2>6
  <2>7. QED BY <1>4, <2>4, <2>5, <2>6
<1>6. ASSUME card' = [card EXCEPT ![m] = s.data[a]], OnCard(s, a - 1) PROVE OnCard(s, a)'
  <2>1. SUFFICES ASSUME NEW i \in 1 .. a PROVE card'[s.lba + i - 1] = s.data[i]
    BY DEF OnCard
  <2>2. CASE i = a BY <1>1, <1>3, <1>6, <2>2
  <2>3. CASE i # a
    <3>1. i \in 1 .. a - 1 /\ s.lba + i - 1 # m BY <1>3, <2>3
    <3>2. card[s.lba + i - 1] = s.data[i] BY <1>6, <3>1 DEF OnCard
    <3>3. card'[s.lba + i - 1] = card[s.lba + i - 1] BY <1>1, <1>2, <1>6, <3>1
    <3>4. QED BY <3>2, <3>3
  <2>4. QED BY <2>2, <2>3
<1>7. QED BY <1>5, <1>6

-----------------------------------------------------------------------------
(* What stage2 does with the card.                                           *)

\* When nothing is in flight that would make it write, it does not, and stays so.
LEMMA QuietStage ==
    ASSUME Types, Still, Stage2Step
    PROVE  Still' /\ UNCHANGED card
<1> USE DEF Command, Gets, Goto
<1>1. /\ rx # <<>> /\ In = rx[1] /\ Len(rx) \in Nat \ {0} /\ Len(rx') = Len(rx) - 1
      /\ \A i \in 1 .. Len(rx) - 1 : rx'[i] = rx[i + 1]
  <2>1. Take BY StageBaud
  <2>2. QED BY <2>1, TakeIs
<1>2. /\ In.k \in {"cmd", "probe", "noise"} /\ (In.k = "cmd" => In.c \in {"R", "b", "B"})
      /\ s_pc \in {"cmd", "probe"} \cup Out
  BY <1>1 DEF Still, StillRx
<1>3. StillRx'
  <2>1. SUFFICES ASSUME NEW i \in 1 .. Len(rx')
                 PROVE  /\ rx'[i].k \in {"cmd", "probe", "noise"}
                        /\ rx'[i].k = "cmd" => rx'[i].c \in {"R", "b", "B"}
    BY DEF StillRx
  <2>2. rx'[i] = rx[i + 1] /\ i + 1 \in 1 .. Len(rx) BY <1>1
  <2>3. QED BY <2>2 DEF Still, StillRx
<1>4. s_pc' \in {"cmd", "probe"} \cup Out /\ UNCHANGED card
  <2>1. s_pc \notin {"segs", "seg", "data", "partial", "wtest"} BY <1>2 DEF Out
  <2>a. CASE ReadHeader BY <2>a DEF ReadHeader
  <2>b. CASE SetBaud BY <2>b DEF SetBaud
  <2>c. CASE Probed BY <2>c DEF Probed
  <2>d. CASE BootSd
    <3>1. s_pc' = "halt" \/ s_pc' \in {"linux", "halt"} BY <2>d DEF BootSd
    <3>2. UNCHANGED card BY <2>d DEF BootSd
    <3>3. QED BY <3>1, <3>2 DEF Out
  <2>e. CASE DefaultMode BY <2>e DEF DefaultMode, Out
  <2>f. CASE Deaf BY <1>2, <2>f DEF Deaf, modeVars
  <2>g. QED
    BY <1>2, <2>1, <2>a, <2>b, <2>c, <2>d, <2>e, <2>f
       DEF Stage2Step, WriteMulti, TakeCount, TakeSegment, WriteSector, WaitForMore, FillUp,
           BadWord, WriteTest, WriteTestSector
<1>5. QED BY <1>3, <1>4 DEF Still

\* Where it can be while a script sends segments and sectors, it writes the sector that it
\* takes, where it was told.
LEMMA StreamWrites ==
    ASSUME Stage2Step, s_pc \in {"seg", "data", "cmd", "uboot"}, In.k \in {"segment", "sector"}
    PROVE  \/ card' = card
           \/ /\ s_pc = "data" /\ In.k = "sector"
              /\ card' \in {card, [card EXCEPT ![lba] = In.data]}
BY DEF Stage2Step, ReadHeader, WriteMulti, TakeCount, TakeSegment, WriteSector, WaitForMore,
       FillUp, BadWord, WriteTest, WriteTestSector, SetBaud, Probed, BootSd, DefaultMode, Deaf,
       WriteFails, Command, Gets

\* A sector of a choice of files that is on the card whole, and what reading it gives.
LEMMA WholeOnCard ==
    ASSUME NEW sel \in SUBSET Files, NEW ver \in [Files -> Versions], AllOnCard(sel, ver)
    PROVE  /\ card[HDR_LBA] = Header(SizesOf(ver))
           /\ \A c \in sel : /\ Len(Contents(c, ver[c])) = Padded(Size[c][ver[c]])
                             /\ Stored(SlotLba[c], Padded(Size[c][ver[c]])) = Contents(c, ver[c])
<1>1. card[HDR_LBA] = Header(SizesOf(ver))
  <2>1. HeaderSeg(ver) \in Plan(sel, ver) BY DEF Plan
  <2>2. /\ HeaderSeg(ver).lba = HDR_LBA /\ HeaderSeg(ver).data = <<Header(SizesOf(ver))>>
    BY DEF HeaderSeg
  <2>3. Len(HeaderSeg(ver).data) = 1 /\ HeaderSeg(ver).data[1] = Header(SizesOf(ver)) BY <2>2
  <2>4. OnCard(HeaderSeg(ver), 1) BY <2>1, <2>3 DEF AllOnCard
  <2>5. card[HeaderSeg(ver).lba + 1 - 1] = HeaderSeg(ver).data[1] BY <2>4 DEF OnCard
  <2>6. HeaderSeg(ver).lba + 1 - 1 = HDR_LBA BY <2>2 DEF HDR_LBA
  <2>7. QED BY <2>3, <2>5, <2>6
<1>2. ASSUME NEW c \in sel
      PROVE  /\ Len(Contents(c, ver[c])) = Padded(Size[c][ver[c]])
             /\ Stored(SlotLba[c], Padded(Size[c][ver[c]])) = Contents(c, ver[c])
  <2> DEFINE n == Padded(Size[c][ver[c]])
             e(i) == [of |-> c, ver |-> ver[c], at |-> i]
  <2>1. c \in Files /\ ver[c] \in Versions OBVIOUS
  <2>2. n \in Nat /\ Len(Contents(c, ver[c])) = n BY <2>1, ContentsIs
  <2>3. Contents(c, ver[c]) = [i \in 1 .. n |-> e(i)] BY DEF Contents
  <2>4. FileSeg(c, ver) \in Plan(sel, ver) BY DEF Plan
  <2>5. FileSeg(c, ver).lba = SlotLba[c] /\ FileSeg(c, ver).data = Contents(c, ver[c])
    BY DEF FileSeg
  <2>6. OnCard(FileSeg(c, ver), n) BY <2>2, <2>4, <2>5 DEF AllOnCard
  <2> HIDE DEF n, e
  <2>7. \A i \in 1 .. n : card[SlotLba[c] + i - 1] = Contents(c, ver[c])[i]
    BY <2>5, <2>6 DEF OnCard
  <2>8. \A i \in 1 .. n : card[SlotLba[c] + i - 1] = e(i) BY <2>3, <2>7
  <2>9. Stored(SlotLba[c], n) = [i \in 1 .. n |-> card[SlotLba[c] + i - 1]] BY DEF Stored
  <2>10. Stored(SlotLba[c], n) = Contents(c, ver[c]) BY <2>3, <2>8, <2>9
  <2>11. QED BY <2>2, <2>10 DEF n
<1>3. QED BY <1>1, <1>2

\* What a boot loads is what the last script that said OK wrote.
LEMMA StageBoots ==
    ASSUME Types, Claimed, BootsWhatWasWritten, Stage2Step, UNCHANGED claim
    PROVE  BootsWhatWasWritten'
<1> USE DEF Command, Gets, Goto
<1> SUFFICES ASSUME s_pc' = "linux", NEW c \in claim.slots
             PROVE  loaded'[c] = Contents(c, claim.files[c])
  BY DEF BootsWhatWasWritten
<1> DEFINE ver == claim.files
<1>1. /\ claim.slots \in SUBSET Files /\ ver \in [Files -> Versions] /\ c \in Files
      /\ AllOnCard(claim.slots, ver)
  BY DEF Claimed
<1>2. CASE BootSd
  <2>1. /\ IsHeader(card[HDR_LBA])
        /\ loaded' = [d \in Files |-> Stored(SlotLba[d], Padded(card[HDR_LBA].sizes[d]))]
    BY <1>2 DEF BootSd
  <2>2. /\ card[HDR_LBA] = Header(SizesOf(ver))
        /\ Stored(SlotLba[c], Padded(Size[c][ver[c]])) = Contents(c, ver[c])
    BY <1>1, WholeOnCard
  <2>3. card[HDR_LBA].sizes[c] = Size[c][ver[c]] BY <1>1, <2>2 DEF Header, SizesOf
  <2>4. loaded'[c] = Stored(SlotLba[c], Padded(card[HDR_LBA].sizes[c])) BY <1>1, <2>1
  <2>5. QED BY <2>2, <2>3, <2>4
<1>3. CASE ~BootSd
  <2>1. s_pc = "linux" /\ loaded' = loaded
    BY <1>3
       DEF Stage2Step, ReadHeader, WriteMulti, TakeCount, TakeSegment, WriteSector, WaitForMore,
           FillUp, BadWord, WriteTest, WriteTestSector, SetBaud, Probed, DefaultMode, Deaf,
           AfterSector, WriteFails, modeVars
  <2>2. QED BY <2>1 DEF BootsWhatWasWritten
<1>4. QED BY <1>2, <1>3

\* A step of stage2 keeps what has been written, and what it acknowledges is on the card.
LEMMA StageSent ==
    ASSUME Inv, PlanSent, Stage2Step, UNCHANGED <<h_baud, hostVars>>
    PROVE  PlanSent'
<1>1. UNCHANGED <<h_pc, h_files, slots, queue, at>> BY DEF hostVars
<1>2. SUFFICES ASSUME h_pc \in Streams PROVE PlanSent' BY <1>1 DEF PlanSent
<1> DEFINE plan == Plan(slots, h_files)
<1>3. /\ Fit(h_files) /\ \A j \in 1 .. Len(queue) : queue[j] \in plan
      /\ \A s \in plan : Queued(s) \/ OnCard(s, Len(s.data))
      /\ h_pc \in {"sector", "ack"} => OnCard(Current, at - 1)
      /\ h_pc = "mw_done" => queue = <<>>
  BY <1>2 DEF PlanSent, Planned
<1>4. /\ slots \in SUBSET Files /\ h_files \in [Files -> Versions] /\ queue \in Seq(Segments)
      /\ at \in Nat /\ at >= 1 /\ Types
  BY DEF Inv, Types
<1>5. /\ rx # <<>> /\ In = rx[1] /\ 1 \in 1 .. Len(rx) /\ Len(rx) \in Nat /\ Len(rx) >= 1
  <2>1. Take BY StageBaud
  <2>2. QED BY <1>4, <2>1, TakeIs
<1>6. ASSUME queue # <<>>
      PROVE  Current \in plan /\ Size1 \in Nat /\ Current.data \in Seq(Datas)
  <2>1. Len(queue) \in Nat /\ Len(queue) >= 1 BY <1>4, <1>6, QueueHead
  <2>2. 1 \in 1 .. Len(queue) BY <2>1
  <2>3. Current \in plan BY <1>3, <2>2 DEF Current
  <2>4. QED BY <1>4, <1>6, <2>3, QueueHead
<1>7. ASSUME \A t \in plan : \A n \in 0 .. Len(t.data) : OnCard(t, n) => OnCard(t, n)',
             h_pc = "ack" => OnCard(Current, at)' \/ \A i \in 1 .. Len(tx') : tx'[i].k # "K"
      PROVE  PlanSent'
  <2>1. Planned' BY <1>1, <1>3 DEF Planned
  <2>2. ASSUME NEW s \in plan PROVE Queued(s)' \/ OnCard(s, Len(s.data))'
    <3>1. Len(s.data) \in 0 .. Len(s.data)
      <4>1. Len(s.data) \in Nat BY <1>3, <1>4, PlanPlaces
      <4>2. QED BY <4>1
    <3>2. Queued(s) \/ OnCard(s, Len(s.data)) BY <1>3
    <3>3. Queued(s) => Queued(s)' BY <1>1 DEF Queued
    <3>4. QED BY <1>7, <3>1, <3>2, <3>3
  <2>3. h_pc \in {"sector", "ack"} => OnCard(Current, at - 1)'
    <3>1. SUFFICES ASSUME h_pc \in {"sector", "ack"} PROVE OnCard(Current, at - 1)' OBVIOUS
    <3>2. queue # <<>> /\ at <= Size1 + 1
      <4>1. AtSector /\ AtAck BY DEF Inv, InStep
      <4>2. CASE h_pc = "sector" BY <4>1, <4>2 DEF AtSector
      <4>3. CASE h_pc = "ack"
        <5>1. queue # <<>> /\ at <= Size1 BY <4>1, <4>3 DEF AtAck
        <5>2. QED BY <1>4, <1>6, <5>1
      <4>4. QED BY <3>1, <4>2, <4>3
    <3>3. Current \in plan /\ at - 1 \in 0 .. Size1 BY <1>4, <1>6, <3>2
    <3>4. \A n \in 0 .. Size1 : OnCard(Current, n) => \A i \in 1 .. n :
             card'[Current.lba + i - 1] = Current.data[i]
      BY <1>7, <3>3 DEF OnCard, Size1, Current
    <3>5. OnCard(Current, at - 1) BY <1>3, <3>1
    <3>6. Current' = Current BY <1>1 DEF Current
    <3>7. QED BY <1>1, <3>3, <3>4, <3>5, <3>6 DEF OnCard
  <2>4. QED BY <1>1, <1>3, <1>7, <2>1, <2>2, <2>3 DEF PlanSent
<1>8. ASSUME h_pc # "ack", In.k = "segment", s_pc \in {"seg", "data", "cmd", "uboot"}
      PROVE  PlanSent'
  <2>1. card' = card BY <1>8, StreamWrites
  <2>2. \A t, n : OnCard(t, n) => OnCard(t, n)' BY <2>1 DEF OnCard
  <2>3. QED BY <1>7, <1>8, <2>2
<1>9. CASE h_pc \in {"seg", "mw_done"}
  <2>1. In.k = "segment" /\ s_pc \in {"seg", "cmd", "uboot"}
    BY <1>5, <1>9 DEF Inv, InStep, AtSeg, AtDone, Zero
  <2>2. QED BY <1>8, <1>9, <2>1
<1>10. CASE h_pc = "sector"
  <2>1. SentAll /\ s_pc \in {"seg", "data", "cmd", "uboot"} BY <1>10 DEF Inv, InStep, AtSector
  <2>2. Sent(1, Len(rx)) BY <1>5, <2>1 DEF SentAll
  <2>3. In.k = "segment" BY <1>5, <2>2 DEF Sent, Zero, Segment
  <2>4. QED BY <1>8, <1>10, <2>1, <2>3
<1>11. CASE h_pc = "ack"
  <2>1. /\ queue # <<>> /\ at <= Size1 /\ SentBefore /\ AckToCome
        /\ s_pc \in {"seg", "data", "partial", "cmd", "uboot"}
    BY <1>5, <1>11 DEF Inv, InStep, AtAck
  <2>2. NoK /\ s_pc \in {"seg", "data", "cmd", "uboot"} /\ rx[Len(rx)].k = "sector"
        /\ rx[Len(rx)].data = Current.data[at]
        /\ (s_pc = "data" => Len(rx) = 1 /\ lba = Current.lba + at - 1)
    BY <2>1 DEF AckToCome
  <2>3. Len(rx) # 1 => In.k = "segment"
    <3>1. SUFFICES ASSUME Len(rx) # 1 PROVE In.k = "segment" OBVIOUS
    <3>2. \A n \in Nat : n >= 1 /\ n # 1 => 1 \in 1 .. n - 1 OBVIOUS
    <3>3. 1 \in 1 .. Len(rx) - 1 BY <1>5, <3>2, <3>1, Zenon
    <3>4. Sent(1, Len(rx) - 1) BY <2>1, <3>3 DEF SentBefore
    <3>5. QED BY <1>5, <3>4 DEF Sent, Zero, Segment
  <2>4. In.k \in {"segment", "sector"} BY <1>5, <2>2, <2>3
  <2>5. ASSUME NoK' PROVE \A i \in 1 .. Len(tx') : tx'[i].k # "K" BY <2>5 DEF NoK
  <2>6. CASE card' = card /\ ~(s_pc = "data" /\ AfterSector("data"))
    <3>1. NoK'
      <4>1. tx' = tx \/ Harmless BY <2>2, <2>4, <2>6, <1>4, StreamActs DEF Inv
      <4>2. tx' = tx => Harmless BY DEF Harmless
      <4>3. QED BY <1>4, <2>2, <4>1, <4>2, StillNoK
    <3>2. \A t, n : OnCard(t, n) => OnCard(t, n)' BY <2>6 DEF OnCard
    <3>3. QED BY <1>7, <2>5, <3>1, <3>2
  <2>7. CASE s_pc = "data"
    <3>1. /\ Len(rx) = 1 /\ In.k = "sector" /\ In.data = Current.data[at]
          /\ lba = Current.lba + at - 1
      BY <1>5, <2>2, <2>7
    <3>2. /\ Current \in plan /\ at \in Nat /\ at \in 1 .. Len(Current.data)
      BY <1>4, <1>6, <2>1 DEF Size1, Current
    <3>3. \/ card' = [card EXCEPT ![lba] = In.data]
          \/ card' \in {card, [card EXCEPT ![lba] = In.data]} /\ (tx' = tx \/ Harmless)
      <4>1. card' \in {card, [card EXCEPT ![lba] = In.data]} BY <2>2, <2>4, StreamWrites
      <4>2. card' = [card EXCEPT ![lba] = In.data] \/ tx' = tx \/ Harmless
        BY <1>4, <2>2, <2>4, <2>7, StreamActs DEF Inv
      <4>3. QED BY <4>1, <4>2
    <3>4. card' \in {card, [card EXCEPT ![Current.lba + at - 1] = Current.data[at]]}
      BY <3>1, <3>3
    <3>5. PICK s \in plan, a \in Nat : s = Current /\ a = at BY <3>2
    <3>6. /\ \A t \in plan : \A n \in 0 .. Len(t.data) : OnCard(t, n) => OnCard(t, n)'
          /\ card' = [card EXCEPT ![s.lba + a - 1] = s.data[a]] /\ OnCard(s, a - 1)
             => OnCard(s, a)'
      <4>1. /\ a \in 1 .. Len(s.data)
            /\ card' \in {card, [card EXCEPT ![s.lba + a - 1] = s.data[a]]}
        BY <3>2, <3>4, <3>5
      <4>2. QED BY <1>3, <1>4, <4>1, PlanWrite
    <3>7. OnCard(s, a - 1) BY <1>3, <1>11, <3>5
    <3>8. CASE card' = [card EXCEPT ![lba] = In.data]
      <4>1. OnCard(s, a)' BY <3>1, <3>5, <3>6, <3>7, <3>8
      <4>2. Current' = s /\ at' = a BY <1>1, <3>5 DEF Current
      <4>3. OnCard(Current, at)' BY <4>1, <4>2 DEF OnCard
      <4>4. QED BY <1>7, <3>6, <4>3
    <3>9. CASE tx' = tx \/ Harmless
      <4>1. tx' = tx => Harmless BY DEF Harmless
      <4>2. NoK' BY <1>4, <2>2, <3>9, <4>1, StillNoK
      <4>3. QED BY <1>7, <2>5, <3>6, <4>2
    <3>10. QED BY <3>3, <3>8, <3>9
  <2>8. s_pc = "data" \/ card' = card BY <2>2, <2>4, StreamWrites
  <2>9. QED BY <2>6, <2>7, <2>8
<1>12. QED BY <1>2, <1>9, <1>10, <1>11 DEF Streams

\* A step of stage2 keeps what has been written.
LEMMA StageWritten ==
    ASSUME Inv, Written, Stage2Acts PROVE Written'
<1>1. /\ Stage2Step /\ UNCHANGED <<h_baud, hostVars>>
      /\ UNCHANGED <<h_pc, todo, h_files, slots, queue, at, claim>>
  BY DEF Stage2Acts, hostVars
<1>2. Types BY DEF Inv
<1>3. PlanReady' BY <1>1 DEF Written, PlanReady, Planned, Queued
<1>4. PlanSent' BY <1>1, StageSent DEF Written
<1>5. Still => Still' /\ card' = card BY <1>1, <1>2, QuietStage
<1>6. Verified'
  <2>1. SUFFICES ASSUME todo # <<>>, todo[1] = "verify"
                 PROVE  Still' /\ AllOnCard(slots, h_files)'
    BY <1>1 DEF Verified
  <2>2. Still /\ AllOnCard(slots, h_files) BY <2>1 DEF Written, Verified
  <2>3. QED BY <1>1, <1>5, <2>2 DEF AllOnCard, OnCard
<1>7. Claimed'
  <2>1. SUFFICES ASSUME claim.slots # {} PROVE Claimed' BY <1>1 DEF Claimed
  <2>2. Still /\ AllOnCard(claim.slots, claim.files) BY <2>1 DEF Written, Claimed
  <2>3. Still' /\ AllOnCard(claim.slots, claim.files)'
    BY <1>1, <1>5, <2>2 DEF AllOnCard, OnCard
  <2>4. QED BY <1>1, <2>1, <2>3 DEF Written, Claimed
<1>8. BootsWhatWasWritten' BY <1>1, <1>2, StageBoots DEF Written
<1>9. QED BY <1>3, <1>4, <1>6, <1>7, <1>8 DEF Written

-----------------------------------------------------------------------------
(* What a script does with what has been written.                            *)

\* What follows a phase.
LEMMA NextPhase ==
    ASSUME Inv, todo # <<>>
    PROVE  /\ Head(todo) = todo[1] /\ Tail(todo) \in Seq(Names) /\ Len(Tail(todo)) \in Nat
           /\ todo[1] \in {"rd", "speed"} => Tail(todo) # <<>> /\ Tail(todo)[1] \in {"rd", "write"}
           /\ todo[1] = "rd" => Tail(todo)[1] = "write"
           /\ \A i \in 1 .. Len(Tail(todo)) :
                 /\ todo[1] = "write" => Tail(todo)[i] \in {"verify", "drop", "b"}
                 /\ todo[1] = "write" /\ Tail(todo)[1] = "drop" => Tail(todo)[i] \in {"drop", "b"}
                 /\ todo[1] = "verify" => Tail(todo)[i] \in {"drop", "b"}
                 /\ todo[1] \in {"check", "drop", "b", "w"} => Tail(todo)[i] = "b"
<1>1. /\ Head(todo) = todo[1] /\ Len(todo) \in Nat \ {0} /\ Tail(todo) \in Seq(Names)
      /\ Len(Tail(todo)) = Len(todo) - 1
      /\ \A i \in 1 .. Len(todo) - 1 : Tail(todo)[i] = todo[i + 1]
  BY TailIs DEF Inv, Types
<1>2. \A i \in 1 .. Len(todo) : Follows(i) BY DEF Inv, TodoOK
<1>3. Follows(1) BY <1>1, <1>2
<1>4. ASSUME todo[1] \in {"rd", "speed"}
      PROVE  /\ Tail(todo) # <<>> /\ Tail(todo)[1] \in {"rd", "write"}
             /\ todo[1] = "rd" => Tail(todo)[1] = "write"
  <2>1. 1 < Len(todo) /\ todo[2] \in {"rd", "write"} /\ (todo[1] = "rd" => todo[2] = "write")
    BY <1>3, <1>4 DEF Follows
  <2>2. 1 \in 1 .. Len(todo) - 1 /\ Len(Tail(todo)) # 0 BY <1>1, <2>1
  <2>3. Tail(todo)[1] = todo[2] BY <1>1, <2>2
  <2>4. Tail(todo) # <<>>
    <3>1. \A q : q = <<>> => Len(q) = 0 OBVIOUS
    <3>2. QED BY <2>2, <3>1, Zenon
  <2>5. QED BY <2>1, <2>3, <2>4
<1>5. ASSUME NEW i \in 1 .. Len(Tail(todo))
      PROVE  /\ todo[1] = "write" => Tail(todo)[i] \in {"verify", "drop", "b"}
             /\ todo[1] = "write" /\ Tail(todo)[1] = "drop" => Tail(todo)[i] \in {"drop", "b"}
             /\ todo[1] = "verify" => Tail(todo)[i] \in {"drop", "b"}
             /\ todo[1] \in {"check", "drop", "b", "w"} => Tail(todo)[i] = "b"
  <2>1. Tail(todo)[i] = todo[i + 1] /\ i + 1 \in 1 + 1 .. Len(todo) BY <1>1
  <2>2. /\ todo[1] = "write" => Tail(todo)[i] \in {"verify", "drop", "b"}
        /\ todo[1] = "verify" => Tail(todo)[i] \in {"drop", "b"}
        /\ todo[1] \in {"check", "drop", "b", "w"} => Tail(todo)[i] = "b"
    BY <1>3, <2>1 DEF Follows
  <2>3. ASSUME Tail(todo)[1] = "drop" PROVE Tail(todo)[i] \in {"drop", "b"}
    <3>1. CASE i = 1 BY <2>3, <3>1
    <3>2. CASE i # 1
      <4>1. 1 \in 1 .. Len(todo) - 1 /\ 2 \in 1 .. Len(todo) /\ i + 1 \in 2 + 1 .. Len(todo)
        BY <1>1, <3>2
      <4>2. todo[2] = "drop" BY <1>1, <2>3, <4>1
      <4>3. Follows(2) BY <1>2, <4>1
      <4>4. todo[i + 1] = "b" BY <4>1, <4>2, <4>3 DEF Follows
      <4>5. QED BY <2>1, <4>4
    <3>3. QED BY <3>1, <3>2
  <2>4. QED BY <2>2, <2>3
<1>6. QED BY <1>1, <1>4, <1>5

\* Where a script leaves the card alone, and stage2 too or starts it anew: it must not go on
\* to check what it has not written, and what has been written asks nothing to be in flight
\* that could write.
LEMMA ElsewhereWritten ==
    ASSUME Inv, Written, UNCHANGED <<card, claim>>,
           (s_pc' = s_pc /\ loaded' = loaded) \/ s_pc' \in {"cmd", "halt"},
           h_pc' \notin {"mw_ready", "mw_go"} \cup Streams,
           todo' # <<>> /\ todo'[1] = "verify" =>
              UNCHANGED <<todo, slots, h_files>> /\ StillRx',
           claim.slots # {} =>
              /\ StillRx' /\ h_pc' \in {"idle", "next", "rd", "b1", "b2"}
              /\ \A i \in 1 .. Len(todo') : todo'[i] \in {"check", "drop", "b"}
    PROVE  Written'
<1>1. PlanReady' /\ PlanSent' BY DEF PlanReady, PlanSent
<1>2. Still /\ StillRx' => Still' BY DEF Still, Out
<1>3. Verified'
  <2>1. SUFFICES ASSUME todo' # <<>>, todo'[1] = "verify"
                 PROVE  Still' /\ AllOnCard(slots, h_files)'
    BY DEF Verified
  <2>2. UNCHANGED <<todo, slots, h_files>> /\ StillRx' BY <2>1
  <2>3. Still /\ AllOnCard(slots, h_files) BY <2>1, <2>2 DEF Written, Verified
  <2>4. QED BY <1>2, <2>2, <2>3 DEF AllOnCard, OnCard
<1>4. Claimed'
  <2>1. SUFFICES ASSUME claim.slots # {} PROVE Claimed' BY DEF Claimed
  <2>2. /\ claim.slots \in SUBSET Files /\ claim.files \in [Files -> Versions]
        /\ Still /\ AllOnCard(claim.slots, claim.files)
    BY <2>1 DEF Written, Claimed
  <2>3. Still' /\ AllOnCard(claim.slots, claim.files)'
    BY <1>2, <2>1, <2>2 DEF AllOnCard, OnCard
  <2>4. QED BY <2>1, <2>2, <2>3 DEF Claimed
<1>5. BootsWhatWasWritten' BY DEF Written, BootsWhatWasWritten
<1>6. QED BY <1>1, <1>3, <1>4, <1>5 DEF Written

\* A first command that is late.
LEMMA ExpireWritten ==
    ASSUME Inv, Written, Stage2Expires PROVE Written'
<1>1. /\ s_pc = "cmd" /\ s_pc' = "uboot" /\ UNCHANGED <<card, rx, tx, h_pc, todo, h_files, slots,
                                                        queue, at, claim>>
  BY DEF Stage2Expires, FirstTimeout, Goto, hostVars
<1>2. PlanReady' BY <1>1 DEF Written, PlanReady, Planned, Queued
<1>3. PlanSent' BY <1>1 DEF Written, PlanSent, Planned, Queued, OnCard, Current
<1>4. Still => Still' BY <1>1 DEF Still, StillRx, Out
<1>5. Verified' BY <1>1, <1>4 DEF Written, Verified, AllOnCard, OnCard
<1>6. Claimed' BY <1>1, <1>4 DEF Written, Claimed, AllOnCard, OnCard
<1>7. BootsWhatWasWritten' BY <1>1 DEF BootsWhatWasWritten
<1>8. QED BY <1>2, <1>3, <1>5, <1>6, <1>7 DEF Written

\* A script of which more is to come than to check, to drop the rate and to boot has not
\* said OK.
LEMMA Unclaimed ==
    ASSUME Inv, Written, todo # <<>>, todo[1] \notin {"check", "drop", "b"}
    PROVE  claim.slots = {}
<1>1. Len(todo) \in Nat \ {0} BY TailIs DEF Inv, Types
<1>2. 1 \in 1 .. Len(todo) BY <1>1
<1>3. QED BY <1>2 DEF Written, Claimed

\* One command that reads, boots or switches the rate, a byte or noise.
LEMMA QuietItem ==
    ASSUME NEW x, x.k \in {"cmd", "probe", "noise"},
           x.k = "cmd" => x.c \in {"R", "b", "B"}, rx' = <<>> \/ rx' = <<x>>
    PROVE  StillRx'
<1>1. CASE rx' = <<>> BY <1>1 DEF StillRx
<1>2. CASE rx' = <<x>>
  <2>1. Len(rx') = 1 /\ rx'[1] = x BY <1>2
  <2>2. \A i \in 1 .. Len(rx') : rx'[i] = x BY <2>1
  <2>3. QED BY <2>2 DEF StillRx
<1>3. QED BY <1>1, <1>2

\* The script ends, by itself or not.
LEMMA StopWritten ==
    ASSUME Inv, Written,
           Stop \/ Killed \/ UpdateRefused \/ SectorRefused \/ WriteFailed \/ TestDone \/ AtEnd
           \/ WaitTimeout
    PROVE  Written'
<1>1. Stop \/ Killed
  BY DEF UpdateRefused, SectorRefused, WriteFailed, TestDone, AtEnd, WaitTimeout
<1>2. /\ UNCHANGED <<card, claim, s_pc, loaded, rx>> /\ h_pc' = "idle" /\ todo' = <<>>
  BY <1>1 DEF Stop, Killed, Keep, modeVars
<1>3. claim.slots # {} => StillRx' BY <1>2 DEF Written, Claimed, Still, StillRx
<1>4. h_pc' \notin {"mw_ready", "mw_go"} \cup Streams BY <1>2 DEF Streams
<1>5. QED BY <1>2, <1>3, <1>4, ElsewhereWritten

\* The next phase is begun, or the rate is what it should be.
LEMMA BeginWritten ==
    ASSUME Inv, Written, BeginSwitch \/ BeginRead \/ BeginTest \/ BeginBoot PROVE Written'
<1>1. /\ h_pc = "next" /\ todo # <<>> /\ UNCHANGED <<card, claim, s_pc, loaded, slots>>
  BY DEF BeginSwitch, BeginRead, BeginTest, BeginBoot, Quiet, Keep, modeVars
<1>2. rx = <<>> /\ Head(todo) = todo[1] BY <1>1, AtNextIs
<1>3. CASE BeginSwitch
  <2>1. todo[1] \in {"speed", "drop"} BY <1>2, <1>3 DEF BeginSwitch
  <2>2. CASE SendThen(Baud(Rate(Head(todo))), "b1") /\ UNCHANGED todo
    <3>1. Rate(Head(todo)) \in Bauds BY DEF Rate, Bauds
    <3>2. Baud(Rate(Head(todo))) \in Items BY <3>1, ItemsSent
    <3>3. /\ h_pc' = "b1"
          /\ rx' = <<>> \/ rx' = <<Baud(Rate(Head(todo)))>> \/ rx' = <<Noise>>
      BY <1>2, <2>2, <3>2, SentAlone
    <3>4. StillRx'
      <4>1. CASE rx' = <<Noise>> BY <4>1, QuietItem DEF Noise
      <4>2. \A b : Baud(b).k = "cmd" /\ Baud(b).c = "B" BY DEF Baud
      <4>3. CASE rx' = <<>> \/ rx' = <<Baud(Rate(Head(todo)))>> BY <4>2, <4>3, QuietItem
      <4>4. QED BY <3>3, <4>1, <4>3
    <3>5. h_pc' \notin {"mw_ready", "mw_go"} \cup Streams BY <3>3 DEF Streams
    <3>6. claim.slots # {} => \A i \in 1 .. Len(todo') : todo'[i] \in {"check", "drop", "b"}
      BY <2>2 DEF Written, Claimed
    <3>7. QED BY <1>1, <2>1, <2>2, <3>3, <3>4, <3>5, <3>6, ElsewhereWritten
  <2>3. CASE todo' = Tail(todo) /\ UNCHANGED <<h_pc, rx>>
    <3>1. StillRx' BY <1>2, <2>3 DEF StillRx
    <3>2. todo' # <<>> => todo'[1] # "verify"
      <4>1. SUFFICES ASSUME todo' # <<>> PROVE todo'[1] # "verify" OBVIOUS
      <4>2. Len(todo') \in Nat /\ todo' \in Seq(Names) BY <1>1, <2>3, NextPhase
      <4>3. 1 \in 1 .. Len(todo') BY <4>1, <4>2
      <4>4. QED BY <1>1, <2>1, <2>3, <4>1, <4>3, NextPhase
    <3>3. claim.slots # {} => \A i \in 1 .. Len(todo') : todo'[i] \in {"check", "drop", "b"}
      <4>1. SUFFICES ASSUME claim.slots # {} PROVE \A i \in 1 .. Len(todo') : todo'[i] = "b"
        OBVIOUS
      <4>2. todo[1] = "drop" BY <1>1, <2>1, <4>1, Unclaimed
      <4>3. QED BY <1>1, <2>3, <4>2, NextPhase
    <3>4. h_pc' = "next" /\ h_pc' \notin {"mw_ready", "mw_go"} \cup Streams
      BY <1>1, <2>3 DEF Streams
    <3>5. QED BY <1>1, <3>1, <3>2, <3>3, <3>4, ElsewhereWritten
  <2>4. QED BY <1>3, <2>2, <2>3 DEF BeginSwitch
<1>4. ASSUME NEW c \in {"R", "b"}, NEW pc \in {"rd", "idle"}, SendThen(Cmd(c), pc)
      PROVE  StillRx' /\ h_pc' = pc /\ h_pc' \notin {"mw_ready", "mw_go"} \cup Streams
  <2>1. Cmd(c) \in Items /\ Cmd(c).k = "cmd" /\ Cmd(c).c = c BY ItemsSent DEF Cmd
  <2>2. h_pc' = pc /\ (rx' = <<>> \/ rx' = <<Cmd(c)>> \/ rx' = <<Noise>>)
    BY <1>2, <1>4, <2>1, SentAlone
  <2>3. StillRx'
    <3>1. CASE rx' = <<Noise>> BY <3>1, QuietItem DEF Noise
    <3>2. CASE rx' = <<>> \/ rx' = <<Cmd(c)>> BY <2>1, <3>2, QuietItem
    <3>3. QED BY <2>2, <3>1, <3>2
  <2>4. QED BY <2>2, <2>3 DEF Streams
<1>5. CASE BeginRead
  <2>1. /\ SendThen(Cmd("R"), "rd") /\ todo' = todo
        /\ todo[1] = "verify" => h_files' = h_files
    BY <1>2, <1>5 DEF BeginRead
  <2>2. StillRx' /\ h_pc' = "rd" /\ h_pc' \notin {"mw_ready", "mw_go"} \cup Streams
    BY <1>4, <2>1
  <2>3. claim.slots # {} => \A i \in 1 .. Len(todo') : todo'[i] \in {"check", "drop", "b"}
    BY <2>1 DEF Written, Claimed
  <2>4. QED BY <1>1, <2>1, <2>2, <2>3, ElsewhereWritten
<1>6. CASE BeginTest
  <2>1. todo[1] = "w" /\ todo' = todo /\ h_pc' = "w1" BY <1>2, <1>6 DEF BeginTest, SendThen
  <2>2. claim.slots = {} BY <1>1, <2>1, Unclaimed
  <2>3. h_pc' \notin {"mw_ready", "mw_go"} \cup Streams BY <2>1 DEF Streams
  <2>4. QED BY <1>1, <2>1, <2>2, <2>3, ElsewhereWritten
<1>7. CASE BeginBoot
  <2>1. SendThen(Cmd("b"), "idle") /\ todo' = <<>> BY <1>7 DEF BeginBoot
  <2>2. StillRx' /\ h_pc' = "idle" /\ h_pc' \notin {"mw_ready", "mw_go"} \cup Streams
    BY <1>4, <2>1
  <2>3. QED BY <1>1, <2>1, <2>2, ElsewhereWritten
<1>8. QED BY <1>3, <1>5, <1>6, <1>7

\* The rate is switched.
LEMMA SwitchWritten ==
    ASSUME Inv, Written, Switched \/ SwitchOk PROVE Written'
<1>1. UNCHANGED <<card, claim, s_pc, loaded, slots, h_files>>
  BY DEF Switched, SwitchOk, Quiet, Keep, modeVars
<1>2. CASE Switched
  <2>1. /\ Got("b1", "BAUD_SWITCH") /\ h_pc' = "b2" /\ todo' = todo
        /\ rx' = Append(rx, Probe) \/ rx' = Append(rx, Noise) \/ rx' = rx
    BY <1>2 DEF Switched
  <2>2. "b1" \in Waits /\ "BAUD_SWITCH" \in GoesOn BY DEF Waits, GoesOn
  <2>3. rx = <<>> BY <2>1, <2>2, GotIs
  <2>4. rx' = <<>> \/ rx' = <<Probe>> \/ rx' = <<Noise>> BY <2>1, <2>3
  <2>5. StillRx'
    <3>1. Probe.k = "probe" /\ Noise.k = "noise" BY DEF Probe, Noise
    <3>2. CASE rx' = <<>> \/ rx' = <<Probe>> BY <3>1, <3>2, QuietItem
    <3>3. CASE rx' = <<Noise>> BY <3>1, <3>3, QuietItem
    <3>4. QED BY <2>4, <3>2, <3>3
  <2>6. claim.slots # {} => \A i \in 1 .. Len(todo') : todo'[i] \in {"check", "drop", "b"}
    BY <2>1 DEF Written, Claimed
  <2>7. h_pc' \notin {"mw_ready", "mw_go"} \cup Streams BY <2>1 DEF Streams
  <2>8. QED BY <1>1, <2>1, <2>5, <2>6, <2>7, ElsewhereWritten
<1>3. CASE SwitchOk
  <2>1. Got("b2", "BAUD_OK") /\ h_pc' = "next" /\ todo' = Tail(todo) /\ rx' = rx
    BY <1>3 DEF SwitchOk
  <2>2. "b2" \in Waits /\ "BAUD_OK" \in GoesOn BY DEF Waits, GoesOn
  <2>3. h_pc = "b2" /\ rx = <<>> /\ todo # <<>> BY <2>1, <2>2, GotIs
  <2>4. todo[1] \in {"speed", "drop"} BY <2>3 DEF Inv, TodoOK
  <2>5. StillRx' BY <2>1, <2>3 DEF StillRx
  <2>6. todo' # <<>> => todo'[1] # "verify"
    <3>1. SUFFICES ASSUME todo' # <<>> PROVE todo'[1] # "verify" OBVIOUS
    <3>2. Len(todo') \in Nat /\ todo' \in Seq(Names) BY <2>1, <2>3, NextPhase
    <3>3. 1 \in 1 .. Len(todo') BY <3>1, <3>2
    <3>4. QED BY <2>1, <2>3, <2>4, <3>1, <3>3, NextPhase
  <2>7. claim.slots # {} => \A i \in 1 .. Len(todo') : todo'[i] \in {"check", "drop", "b"}
    <3>1. SUFFICES ASSUME claim.slots # {} PROVE \A i \in 1 .. Len(todo') : todo'[i] = "b"
      OBVIOUS
    <3>2. todo[1] = "drop" BY <2>3, <2>4, <3>1, Unclaimed
    <3>3. QED BY <2>1, <2>3, <3>2, NextPhase
  <2>8. h_pc' \notin {"mw_ready", "mw_go"} \cup Streams BY <2>1 DEF Streams
  <2>9. QED BY <1>1, <2>1, <2>5, <2>6, <2>7, <2>8, ElsewhereWritten
<1>4. QED BY <1>2, <1>3

\* The build-tag check goes on to the boot, with an answer or without.
LEMMA CheckedWritten ==
    ASSUME Inv, Written, UNCHANGED <<card, claim, s_pc, loaded>>, rx' = <<>>, todo # <<>>,
           todo[1] = "check", h_pc' = "next", todo' = Tail(todo)
    PROVE  Written'
<1>1. StillRx' BY DEF StillRx
<1>2. \A i \in 1 .. Len(todo') : todo'[i] = "b" BY NextPhase
<1>3. todo' # <<>> => todo'[1] # "verify"
  <2>1. Len(todo') \in Nat /\ todo' \in Seq(Names) BY NextPhase
  <2>2. SUFFICES ASSUME todo' # <<>> PROVE todo'[1] # "verify" OBVIOUS
  <2>3. 1 \in 1 .. Len(todo') BY <2>1, <2>2
  <2>4. QED BY <1>2, <2>3
<1>4. h_pc' \notin {"mw_ready", "mw_go"} \cup Streams BY DEF Streams
<1>5. QED BY <1>1, <1>2, <1>3, <1>4, ElsewhereWritten

\* The segments and the header are on the card, and stage2 is in its command loop: the
\* script goes on to verify, or says OK.
LEMMA DoneWritten ==
    ASSUME Inv, Written, UNCHANGED <<card, slots, h_files>>, s_pc' = "cmd", rx' = <<>>,
           todo # <<>>, todo[1] \in {"write", "verify"}, todo' = Tail(todo), h_pc' = "next",
           AllOnCard(slots, h_files), ClaimOf(todo')
    PROVE  Written'
<1>1. PlanReady' /\ PlanSent' BY DEF PlanReady, PlanSent, Streams
<1>2. Still' BY DEF Still, StillRx
<1>3. Verified' BY <1>2 DEF Verified, AllOnCard, OnCard
<1>4. claim.slots = {} BY Unclaimed
<1>5. Claimed'
  <2>1. SUFFICES ASSUME claim'.slots # {} PROVE Claimed' BY DEF Claimed
  <2>2. /\ claim' = [slots |-> slots, files |-> h_files]
        /\ todo' = <<>> \/ Head(todo') = "drop"
    BY <1>4, <2>1 DEF ClaimOf
  <2>3. claim'.slots = slots /\ claim'.files = h_files BY <2>2
  <2>4. slots \in SUBSET Files /\ h_files \in [Files -> Versions] BY DEF Inv, Types
  <2>5. AllOnCard(claim.slots, claim.files)'
    <3>1. AllOnCard(slots, h_files)' BY DEF AllOnCard, OnCard
    <3>2. QED BY <2>3, <3>1 DEF AllOnCard, OnCard
  <2>6. \A i \in 1 .. Len(todo') : todo'[i] \in {"drop", "b"}
    <3>1. CASE todo' = <<>> BY <3>1
    <3>2. CASE todo' # <<>> /\ Head(todo') = "drop"
      <4>1. todo' \in Seq(Names) BY NextPhase
      <4>2. todo'[1] = "drop" BY <3>2, <4>1, TailIs
      <4>3. QED BY <4>2, NextPhase
    <3>3. QED BY <2>2, <3>1, <3>2
  <2>7. QED BY <1>2, <2>3, <2>4, <2>5, <2>6 DEF Claimed
<1>6. BootsWhatWasWritten' BY DEF BootsWhatWasWritten
<1>7. QED BY <1>1, <1>3, <1>5, <1>6 DEF Written

\* The header has been read.
LEMMA HeaderWritten ==
    ASSUME Inv, Written, HeaderRead PROVE Written'
<1>1. /\ Got("rd", "RD_READY")
      /\ UNCHANGED <<card, s_pc, loaded, slots, h_files, rx>>
  BY DEF HeaderRead, Keep, modeVars
<1>2. "rd" \in Waits /\ "RD_READY" \in GoesOn BY DEF Waits, GoesOn
<1>3. /\ h_pc = "rd" /\ rx = <<>> /\ tx[1].k = "RD_READY" /\ Says(tx[1]) /\ todo # <<>>
      /\ Head(todo) = todo[1]
  BY <1>1, <1>2, GotIs
<1>4. s_pc = "cmd" /\ todo[1] \in {"rd", "check", "verify"} BY <1>3 DEF Says, Inv, TodoOK
<1>5. CASE todo[1] = "check" /\ h_pc' = "next" /\ todo' = Tail(todo) /\ claim' = claim
  BY <1>1, <1>3, <1>5, CheckedWritten
<1>6. CASE h_pc' = "idle" /\ todo' = <<>> /\ claim' = claim
  <2>1. StillRx' BY <1>1, <1>3 DEF StillRx
  <2>2. h_pc' \notin {"mw_ready", "mw_go"} \cup Streams BY <1>6 DEF Streams
  <2>3. QED BY <1>1, <1>6, <2>1, <2>2, ElsewhereWritten
<1>7. CASE /\ todo[1] # "check" /\ h_pc' = "next" /\ todo' = Tail(todo)
           /\ ClaimOf(Tail(todo))
  <2>1. CASE todo[1] = "rd"
    <3>1. todo' # <<>> /\ todo'[1] = "write" /\ todo' \in Seq(Names)
      BY <1>3, <1>7, <2>1, NextPhase
    <3>2. Head(todo') = "write" BY <3>1, TailIs
    <3>3. claim' = claim BY <1>7, <3>1, <3>2 DEF ClaimOf
    <3>4. claim.slots = {} BY <1>3, <2>1, Unclaimed
    <3>5. h_pc' \notin {"mw_ready", "mw_go"} \cup Streams BY <1>7 DEF Streams
    <3>6. QED BY <1>1, <1>7, <3>1, <3>3, <3>4, <3>5, ElsewhereWritten
  <2>2. CASE todo[1] = "verify"
    <3>1. AllOnCard(slots, h_files) BY <1>3, <2>2 DEF Written, Verified
    <3>2. QED BY <1>1, <1>3, <1>4, <1>7, <2>2, <3>1, DoneWritten
  <2>3. QED BY <1>4, <1>7, <2>1, <2>2
<1>8. QED BY <1>3, <1>5, <1>6, <1>7 DEF HeaderRead

\* An answer that is not waited for.
LEMMA SkipWritten ==
    ASSUME Inv, Written, SkipReply PROVE Written'
<1>1. /\ UNCHANGED <<card, claim, s_pc, loaded, slots, h_files, queue, at, rx, h_pc, todo>>
      /\ h_pc # "ack"
  BY DEF SkipReply, Quiet, Keep, modeVars, Wanted
<1>2. PlanReady' BY <1>1 DEF Written, PlanReady, Planned, Queued
<1>3. PlanSent' BY <1>1 DEF Written, PlanSent, Planned, Queued, OnCard, Current
<1>4. Still' <=> Still BY <1>1 DEF Still, StillRx
<1>5. Verified' BY <1>1, <1>4 DEF Written, Verified, AllOnCard, OnCard
<1>6. Claimed' BY <1>1, <1>4 DEF Written, Claimed, AllOnCard, OnCard
<1>7. BootsWhatWasWritten' BY <1>1 DEF Written, BootsWhatWasWritten
<1>8. QED BY <1>2, <1>3, <1>5, <1>6, <1>7 DEF Written

\* The sector of the write test is sent: nothing has been claimed.
LEMMA TestWritten ==
    ASSUME Inv, Written, TestReady PROVE Written'
<1>1. /\ h_pc = "w1" /\ h_pc' = "w2" /\ UNCHANGED <<card, claim, s_pc, loaded, todo>>
  BY DEF TestReady, Got, Quiet, Keep, modeVars
<1>2. todo # <<>> /\ todo[1] = "w" BY <1>1 DEF Inv, TodoOK
<1>3. claim.slots = {} BY <1>2, Unclaimed
<1>4. h_pc' \notin {"mw_ready", "mw_go"} \cup Streams BY <1>1 DEF Streams
<1>5. QED BY <1>1, <1>2, <1>3, <1>4, ElsewhereWritten

\* A wait that runs out before the write, or in the build-tag check.
LEMMA TimeoutWritten ==
    ASSUME Inv, Written, FallBack \/ CheckTimeout, rx = <<>> PROVE Written'
<1>1. CASE FallBack
  <2>1. /\ h_pc \in {"b1", "b2"} /\ Head(todo) = "speed" /\ h_pc' = "next"
        /\ Program(Tail(todo)) /\ UNCHANGED <<card, claim>>
    BY <1>1 DEF FallBack
  <2>2. s_pc' \in {"cmd", "halt"} /\ (todo' = Tail(todo) \/ todo' = <<>>)
    BY <2>1, ProgramIs
  <2>3. todo # <<>> BY <2>1 DEF Inv, TodoOK
  <2>4. todo[1] = "speed" BY <2>1, <2>3, NextPhase
  <2>5. claim.slots = {} BY <2>3, <2>4, Unclaimed
  <2>6. todo' # <<>> => todo'[1] # "verify" BY <2>2, <2>3, <2>4, NextPhase
  <2>7. h_pc' \notin {"mw_ready", "mw_go"} \cup Streams BY <2>1 DEF Streams
  <2>8. QED BY <2>1, <2>2, <2>5, <2>6, <2>7, ElsewhereWritten
<1>2. CASE CheckTimeout
  <2>1. /\ h_pc = "rd" /\ Head(todo) = "check" /\ h_pc' = "next" /\ todo' = Tail(todo)
        /\ UNCHANGED <<card, claim, s_pc, loaded, rx>>
    BY <1>2 DEF CheckTimeout, Keep, modeVars
  <2>2. todo # <<>> BY <2>1 DEF Inv, TodoOK
  <2>3. todo[1] = "check" BY <2>1, <2>2, NextPhase
  <2>4. QED BY <2>1, <2>2, <2>3, CheckedWritten
<1>3. QED BY <1>1, <1>2

-----------------------------------------------------------------------------
(* A write, from the first item to the last answer.                          *)

\* While it is under way nothing is claimed.
LEMMA WhileWriting ==
    ASSUME Inv, Written, todo # <<>>, todo[1] = "write", UNCHANGED <<todo, claim>>,
           PlanReady', PlanSent'
    PROVE  Written'
<1>1. claim.slots = {} BY Unclaimed
<1>2. Verified' BY DEF Verified
<1>3. Claimed' /\ BootsWhatWasWritten' BY <1>1 DEF Claimed, BootsWhatWasWritten
<1>4. QED BY <1>2, <1>3 DEF Written

\* The elements of a sequence, and of two in a row.
Elems(q) == {q[j] : j \in 1 .. Len(q)}
LEMMA ElemsOfBoth ==
    ASSUME NEW S, NEW p \in Seq(S), NEW q \in Seq(S)
    PROVE  p \o q \in Seq(S) /\ Elems(p \o q) = Elems(p) \cup Elems(q)
<1>1. /\ p \o q \in Seq(S) /\ Len(p) \in Nat /\ Len(q) \in Nat /\ Len(p \o q) = Len(p) + Len(q)
      /\ \A i \in 1 .. Len(p) : (p \o q)[i] = p[i]
      /\ \A i \in 1 .. Len(q) : (p \o q)[Len(p) + i] = q[i]
  OBVIOUS
<1>2. ASSUME NEW e \in Elems(p \o q) PROVE e \in Elems(p) \cup Elems(q)
  <2>1. PICK i \in 1 .. Len(p \o q) : e = (p \o q)[i] BY DEF Elems
  <2>2. CASE i \in 1 .. Len(p) BY <1>1, <2>1, <2>2 DEF Elems
  <2>3. CASE i \notin 1 .. Len(p)
    <3>1. i - Len(p) \in 1 .. Len(q) /\ Len(p) + (i - Len(p)) = i BY <1>1, <2>1, <2>3
    <3>2. e = q[i - Len(p)] BY <1>1, <2>1, <3>1
    <3>3. QED BY <3>1, <3>2 DEF Elems
  <2>4. QED BY <2>2, <2>3
<1>3. ASSUME NEW e \in Elems(p) PROVE e \in Elems(p \o q)
  <2>1. PICK i \in 1 .. Len(p) : e = p[i] BY DEF Elems
  <2>2. i \in 1 .. Len(p \o q) /\ e = (p \o q)[i] BY <1>1, <2>1
  <2>3. QED BY <2>2 DEF Elems
<1>4. ASSUME NEW e \in Elems(q) PROVE e \in Elems(p \o q)
  <2>1. PICK i \in 1 .. Len(q) : e = q[i] BY DEF Elems
  <2>2. Len(p) + i \in 1 .. Len(p \o q) /\ e = (p \o q)[Len(p) + i] BY <1>1, <2>1
  <2>3. QED BY <2>2 DEF Elems
<1>5. QED BY <1>1, <1>2, <1>3, <1>4

\* The segments that a script sends are those of its choice of files, and all of them.
LEMMA SegmentsArePlan ==
    ASSUME NEW sel \in SUBSET Files, NEW ver \in [Files -> Versions]
    PROVE  Elems(SegmentsOf(sel, ver)) = Plan(sel, ver)
<1> DEFINE S == {HeaderSeg(ver)} \cup {FileSeg(c, ver) : c \in Files}
           one(c) == IF c \in sel THEN <<FileSeg(c, ver)>> ELSE <<>>
           some(c) == IF c \in sel THEN {FileSeg(c, ver)} ELSE {}
<1>1. \A e \in S : <<e>> \in Seq(S) /\ Elems(<<e>>) = {e}
  <2>1. SUFFICES ASSUME NEW e \in S PROVE <<e>> \in Seq(S) /\ Elems(<<e>>) = {e} OBVIOUS
  <2> HIDE DEF S
  <2>2. Len(<<e>>) = 1 /\ <<e>>[1] = e /\ <<e>> \in Seq(S) BY SingleIs
  <2>3. QED BY <2>2 DEF Elems
<1>2. <<>> \in Seq(S) /\ Elems(<<>>) = {}
  <2>1. <<>> \in Seq(S) /\ Len(<<>>) = 0 OBVIOUS
  <2>2. QED BY <2>1 DEF Elems
<1>3. ASSUME NEW c \in Files PROVE one(c) \in Seq(S) /\ Elems(one(c)) = some(c)
  <2>1. FileSeg(c, ver) \in S OBVIOUS
  <2> HIDE DEF S
  <2>2. CASE c \in sel BY <1>1, <2>1, <2>2
  <2>3. CASE c \notin sel BY <1>2, <2>3
  <2>4. QED BY <2>2, <2>3
<1>4. SegmentsOf(sel, ver) = <<HeaderSeg(ver)>> \o one("Image") \o one("DTB") \o one("initrd")
  BY DEF SegmentsOf, HeaderSeg, FileSeg
<1>5. Plan(sel, ver) = {HeaderSeg(ver)} \cup some("Image") \cup some("DTB") \cup some("initrd")
  <2>1. sel \subseteq {"Image", "DTB", "initrd"} BY DEF Files
  <2>2. QED BY <2>1 DEF Plan
<1>6. <<HeaderSeg(ver)>> \in Seq(S) /\ Elems(<<HeaderSeg(ver)>>) = {HeaderSeg(ver)} BY <1>1
<1>7. /\ one("Image") \in Seq(S) /\ one("DTB") \in Seq(S) /\ one("initrd") \in Seq(S)
      /\ Elems(one("Image")) = some("Image") /\ Elems(one("DTB")) = some("DTB")
      /\ Elems(one("initrd")) = some("initrd")
  BY <1>3 DEF Files
<1> HIDE DEF S, one, some
<1>a. \A p, q \in Seq(S) : p \o q \in Seq(S) /\ Elems(p \o q) = Elems(p) \cup Elems(q)
  BY ElemsOfBoth
<1>8. /\ <<HeaderSeg(ver)>> \o one("Image") \in Seq(S)
      /\ Elems(<<HeaderSeg(ver)>> \o one("Image")) = {HeaderSeg(ver)} \cup some("Image")
  BY <1>6, <1>7, <1>a, Zenon
<1>9. /\ <<HeaderSeg(ver)>> \o one("Image") \o one("DTB") \in Seq(S)
      /\ Elems(<<HeaderSeg(ver)>> \o one("Image") \o one("DTB"))
         = {HeaderSeg(ver)} \cup some("Image") \cup some("DTB")
  BY <1>7, <1>8, <1>a, Zenon
<1>10. Elems(<<HeaderSeg(ver)>> \o one("Image") \o one("DTB") \o one("initrd"))
       = {HeaderSeg(ver)} \cup some("Image") \cup some("DTB") \cup some("initrd")
  BY <1>7, <1>9, <1>a, Zenon
<1>11. QED BY <1>4, <1>5, <1>10

\* A write is begun: all that is to be written is still to be sent.
LEMMA BeginWriteWritten ==
    ASSUME Inv, Written, BeginWrite PROVE Written'
<1>1. /\ h_pc = "next" /\ todo # <<>> /\ Head(todo) = "write" /\ h_pc' = "mw_ready"
      /\ UNCHANGED <<card, h_files, slots, todo, claim>> /\ queue' = SegmentsOf(slots, h_files)
  BY DEF BeginWrite, Keep, SendThen
<1>2. todo[1] = "write" /\ 1 \in 1 .. Len(todo) BY <1>1, AtNextIs
<1>3. Fit(h_files)
  <2>1. FitAt(1) BY <1>2 DEF Inv, TodoOK
  <2>2. QED BY <1>2, <2>1 DEF FitAt
<1>4. slots \in SUBSET Files /\ h_files \in [Files -> Versions] BY DEF Inv, Types
<1>5. Elems(queue') = Plan(slots, h_files) BY <1>1, <1>4, SegmentsArePlan
<1>6. Planned'
  <2>1. \A j \in 1 .. Len(queue') : queue'[j] \in Plan(slots, h_files) BY <1>5 DEF Elems
  <2>2. QED BY <1>1, <1>3, <2>1 DEF Planned, Fit
<1>7. ASSUME NEW s \in Plan(slots, h_files) PROVE Queued(s)'
  BY <1>5, <1>7 DEF Elems, Queued
<1>8. PlanReady' BY <1>1, <1>6, <1>7 DEF PlanReady
<1>9. PlanSent' BY <1>1 DEF PlanSent, Streams
<1>10. QED BY <1>1, <1>2, <1>8, <1>9, WhileWriting

\* The number of segments is asked for and sent, and the first of them is next.
LEMMA ReadyWritten ==
    ASSUME Inv, Written, GotReady \/ GotGo PROVE Written'
<1>1. /\ \/ h_pc = "mw_ready" /\ h_pc' = "mw_go"
         \/ h_pc = "mw_go" /\ h_pc' = "seg"
      /\ UNCHANGED <<card, h_files, slots, queue, todo, claim>>
  BY DEF GotReady, GotGo, Got, SendThen, Quiet, Keep
<1>2. Planned /\ \A s \in Plan(slots, h_files) : Queued(s) BY <1>1 DEF Written, PlanReady
<1>3. Planned' BY <1>1, <1>2 DEF Planned
<1>4. \A s \in Plan(slots, h_files) : Queued(s)' BY <1>1, <1>2 DEF Queued
<1>5. PlanReady' BY <1>1, <1>3, <1>4 DEF PlanReady
<1>6. PlanSent' BY <1>1, <1>3, <1>4 DEF PlanSent, Streams
<1>7. todo # <<>> /\ todo[1] = "write" BY <1>1 DEF Inv, TodoOK
<1>8. QED BY <1>1, <1>5, <1>6, <1>7, WhileWriting

\* A script sends on: of what is queued nothing is taken away, and what it counts of the
\* segment at the head is on the card.
LEMMA StreamWritten ==
    ASSUME Inv, Written, h_pc \in Streams, h_pc' \in {"sector", "ack"},
           UNCHANGED <<card, h_files, slots, queue, todo, claim>>, queue # <<>>,
           \A i \in 1 .. at' - 1 : card[Current.lba + i - 1] = Current.data[i],
           h_pc' = "ack" => \A i \in 1 .. Len(tx') : tx'[i].k # "K"
    PROVE  Written'
<1>1. /\ Planned /\ \A s \in Plan(slots, h_files) : Queued(s) \/ OnCard(s, Len(s.data))
  BY DEF Written, PlanSent
<1>2. Planned' BY <1>1 DEF Planned
<1>3. \A s \in Plan(slots, h_files) : Queued(s)' \/ OnCard(s, Len(s.data))'
  BY <1>1 DEF Queued, OnCard
<1>4. OnCard(Current, at - 1)' BY DEF OnCard, Current
<1>5. PlanSent' BY <1>2, <1>3, <1>4 DEF PlanSent
<1>6. PlanReady' BY DEF PlanReady
<1>7. todo # <<>> /\ todo[1] = "write" BY AtWrite
<1>8. QED BY <1>5, <1>6, <1>7, WhileWriting

\* A segment or a sector is sent, or a sector has been acknowledged.
LEMMA SendWritten ==
    ASSUME Inv, Written, SendSegment \/ SendSector \/ SectorAcked PROVE Written'
<1>1. UNCHANGED <<card, h_files, slots, queue, todo, claim>>
  BY DEF SendSegment, SendSector, SectorAcked, Quiet, Keep
<1>2. h_pc \in Streams BY DEF SendSegment, SendSector, SectorAcked, Got, Streams
<1>3. CASE SendSegment
  <2>1. h_pc' = "sector" /\ at' = 1 /\ queue # <<>> BY <1>3 DEF SendSegment, SendThen
  <2>2. \A i \in 1 .. at' - 1 : FALSE BY <2>1
  <2>3. QED BY <1>1, <1>2, <2>1, <2>2, StreamWritten
<1>4. CASE SendSector
  <2>1. h_pc = "sector" /\ h_pc' = "ack" /\ UNCHANGED <<at, tx>> BY <1>4 DEF SendSector, Quiet
  <2>2. queue # <<>> /\ (NoK \/ tx = <<Reply("MW_DONE")>>)
    BY <2>1 DEF Inv, InStep, AtSector
  <2>3. \A i \in 1 .. Len(tx') : tx'[i].k # "K"
    <3>1. CASE NoK BY <2>1, <3>1 DEF NoK
    <3>2. CASE tx = <<Reply("MW_DONE")>>
      <4>1. Len(tx) = 1 /\ tx[1] = Reply("MW_DONE") BY <3>2
      <4>2. QED BY <2>1, <4>1 DEF Reply
    <3>3. QED BY <2>2, <3>1, <3>2
  <2>4. OnCard(Current, at - 1) BY <2>1 DEF Written, PlanSent, Streams
  <2>5. \A i \in 1 .. at' - 1 : card[Current.lba + i - 1] = Current.data[i]
    BY <2>1, <2>4 DEF OnCard
  <2>6. QED BY <1>1, <1>2, <2>1, <2>2, <2>3, <2>5, StreamWritten
<1>5. CASE SectorAcked
  <2>1. /\ h_pc = "ack" /\ h_pc' = "sector" /\ at' = at + 1 /\ tx # <<>> /\ Head(tx).k = "K"
    BY <1>5 DEF SectorAcked, Got
  <2>2. queue # <<>> /\ at \in Nat BY <2>1 DEF Inv, Types, InStep, AtAck
  <2>3. 1 \in 1 .. Len(tx) /\ tx[1].k = "K"
    <3>1. Head(tx) = tx[1] /\ Len(tx) \in Nat \ {0} BY <2>1, TailIs DEF Inv, Types
    <3>2. QED BY <2>1, <3>1
  <2>4. OnCard(Current, at) BY <2>1, <2>3 DEF Written, PlanSent, Streams
  <2>5. at' - 1 = at BY <2>1, <2>2
  <2>6. \A i \in 1 .. at' - 1 : card[Current.lba + i - 1] = Current.data[i]
    BY <2>4, <2>5 DEF OnCard
  <2>7. QED BY <1>1, <1>2, <2>1, <2>2, <2>6, StreamWritten
<1>6. QED BY <1>3, <1>4, <1>5

\* A segment whose sectors have all been acknowledged is on the card whole.
LEMMA EndWritten ==
    ASSUME Inv, Written, EndOfSegment PROVE Written'
<1>1. /\ h_pc = "sector" /\ at > Len(Head(queue).data) /\ queue' = Tail(queue) /\ at' = 1
      /\ h_pc' = IF Tail(queue) = <<>> THEN "mw_done" ELSE "seg"
      /\ UNCHANGED <<card, h_files, slots, todo, claim>>
  BY DEF EndOfSegment, Keep
<1>2. queue # <<>> /\ at <= Size1 + 1 BY <1>1 DEF Inv, InStep, AtSector
<1>3. /\ Current = Head(queue) /\ Size1 \in Nat /\ Len(queue) \in Nat /\ Len(queue) >= 1
      /\ Len(Tail(queue)) = Len(queue) - 1
      /\ \A i \in 1 .. Len(queue) - 1 : Tail(queue)[i] = queue[i + 1]
  BY <1>2, QueueHead DEF Inv
<1>4. /\ Planned /\ OnCard(Current, at - 1)
      /\ \A s \in Plan(slots, h_files) : Queued(s) \/ OnCard(s, Len(s.data))
  BY <1>1 DEF Written, PlanSent, Streams
<1>5. OnCard(Current, Len(Current.data))
  <2>1. at \in Nat /\ Size1 = Len(Current.data) BY DEF Inv, Types, Size1, Current
  <2>2. at > Size1 BY <1>1, <1>3, <2>1
  <2>3. at - 1 = Size1 BY <1>2, <1>3, <2>1, <2>2
  <2>4. QED BY <1>4, <2>1, <2>3
<1>6. Planned'
  <2>1. ASSUME NEW j \in 1 .. Len(queue') PROVE queue'[j] \in Plan(slots, h_files)
    <3>1. queue'[j] = queue[j + 1] /\ j + 1 \in 1 .. Len(queue) BY <1>1, <1>3
    <3>2. QED BY <1>4, <3>1 DEF Planned
  <2>2. QED BY <1>1, <1>4, <2>1 DEF Planned
<1>7. ASSUME NEW s \in Plan(slots, h_files) PROVE Queued(s)' \/ OnCard(s, Len(s.data))'
  <2>1. CASE OnCard(s, Len(s.data)) BY <1>1, <2>1 DEF OnCard
  <2>2. CASE Queued(s)
    <3>1. PICK j \in 1 .. Len(queue) : queue[j] = s BY <2>2 DEF Queued
    <3>2. CASE j = 1 BY <1>1, <1>5, <3>1, <3>2 DEF Current, OnCard
    <3>3. CASE j # 1
      <4>1. j - 1 \in 1 .. Len(queue) - 1 /\ (j - 1) + 1 = j BY <1>3, <3>1, <3>3
      <4>2. queue'[j - 1] = s /\ j - 1 \in 1 .. Len(queue') BY <1>1, <1>3, <3>1, <4>1
      <4>3. QED BY <4>2 DEF Queued
    <3>4. QED BY <3>2, <3>3
  <2>3. QED BY <1>4, <2>1, <2>2
<1>8. PlanSent' BY <1>1, <1>6, <1>7 DEF PlanSent
<1>9. PlanReady' BY <1>1 DEF PlanReady
<1>10. h_pc \in Streams BY <1>1 DEF Streams
<1>11. todo # <<>> /\ todo[1] = "write" BY <1>10, AtWrite
<1>12. QED BY <1>1, <1>8, <1>9, <1>11, WhileWriting

\* The command has ended, and all segments have been acknowledged.
LEMMA WriteDoneWritten ==
    ASSUME Inv, Written, WriteDone PROVE Written'
<1>1. /\ h_pc = "mw_done" /\ tx # <<>> /\ Head(tx).k = "MW_DONE" /\ h_pc' = "next"
      /\ todo' = Tail(todo) /\ ClaimOf(Tail(todo))
      /\ UNCHANGED <<card, s_pc, h_files, slots, rx>>
  BY DEF WriteDone, Got, Keep, modeVars
<1>2. AtDone /\ h_pc \in Streams BY <1>1 DEF Inv, InStep, Streams
<1>3. ~NoK
  <2>1. Head(tx) = tx[1] /\ Len(tx) \in Nat \ {0} BY <1>1, TailIs DEF Inv, Types
  <2>2. 1 \in 1 .. Len(tx) /\ tx[1].k = "MW_DONE" BY <1>1, <2>1
  <2>3. QED BY <2>2 DEF NoK
<1>4. rx = <<>> /\ s_pc = "cmd" BY <1>1, <1>2, <1>3 DEF AtDone
<1>5. todo # <<>> /\ todo[1] = "write" BY <1>2, AtWrite
<1>6. /\ queue = <<>>
      /\ \A s \in Plan(slots, h_files) : Queued(s) \/ OnCard(s, Len(s.data))
  BY <1>1, <1>2 DEF Written, PlanSent
<1>7. \A s : ~Queued(s)
  <2>1. Len(queue) = 0 BY <1>6
  <2>2. \A j \in 1 .. Len(queue) : FALSE BY <2>1
  <2>3. QED BY <2>2 DEF Queued
<1>8. AllOnCard(slots, h_files) BY <1>6, <1>7 DEF AllOnCard
<1>9. ClaimOf(Tail(todo)) => ClaimOf(todo') BY <1>1 DEF ClaimOf
<1>10. QED BY <1>1, <1>4, <1>5, <1>8, <1>9, DoneWritten

-----------------------------------------------------------------------------
(* Scripts that are started, and the result.                                 *)

\* A script that writes takes the claim back; one that only boots begins with the check.
LEMMA StartsWritten ==
    ASSUME "wtest" \notin Tools, Inv, Written, Starts PROVE Written'
<1>1. PICK tool \in Tools, fresh \in BOOLEAN, sel \in SUBSET Files,
           verify \in {<<>>, <<"verify">>} : Start(tool, sel, verify, fresh)
  BY StartsOne
<1> DEFINE ph == Phases(tool, verify)
<1>2. tool \in {"pack", "update", "boot", "bootup"} BY ToolsAssumption
<1>3. /\ ph \in Lists /\ (Head(ph) = "speed" => Tail(ph) \in Lists)
      /\ tool = "boot" => ph = <<"check", "b">>
  <2>1. ph \in Lists /\ (Head(ph) = "speed" => Tail(ph) \in Lists) BY <1>2, PhasesAre
  <2>2. tool = "boot" => ph = <<"check", "b">> BY DEF Phases
  <2>3. QED BY <2>1, <2>2
<1> HIDE DEF ph
<1>4. /\ h_pc = "idle" /\ h_pc' = "next" /\ Attach(ph, fresh) /\ UNCHANGED card
      /\ claim' = IF tool = "boot" THEN claim ELSE NoClaim
      /\ fresh \/ s_pc \notin Out
  BY <1>1, <1>2 DEF Start, ph, Out
<1>5. /\ rx' = <<>>
      /\ todo' \in {ph, <<>>} \/ (Head(ph) = "speed" /\ todo' = Tail(ph))
      /\ \/ s_pc' = s_pc /\ loaded' = loaded
         \/ s_pc' \in {"cmd", "halt"}
  <2>1. CASE Program(ph) BY <1>4, <2>1, ProgramIs
  <2>2. CASE /\ rx = <<>> /\ UNCHANGED <<modeVars, rx>>
             /\ todo' = IF Head(ph) = "speed" THEN Tail(ph) ELSE ph
    BY <2>2 DEF modeVars
  <2>3. QED BY <1>4, <2>1, <2>2 DEF Attach
<1>6. todo' # <<>> => todo'[1] # "verify"
  <2>1. \A l \in Lists : l[1] # "verify" BY DEF Lists
  <2>2. QED BY <1>3, <1>5, <2>1
<1>7. StillRx' BY <1>5 DEF StillRx
<1>8. h_pc' \notin {"mw_ready", "mw_go"} \cup Streams BY <1>4 DEF Streams
<1>9. CASE tool = "boot"
  <2>1. ph = <<"check", "b">> /\ Len(ph) = 2 /\ Head(ph) # "speed" BY <1>3, <1>9
  <2>2. todo' = ph \/ todo' = <<>> BY <1>5, <2>1
  <2>3. \A i \in 1 .. Len(todo') : todo'[i] \in {"check", "drop", "b"}
    <3>1. CASE todo' = <<>> BY <3>1
    <3>2. CASE todo' = ph
      <4>1. ph[1] = "check" /\ ph[2] = "b" BY <2>1
      <4>2. \A i \in 1 .. Len(todo') : i = 1 \/ i = 2 BY <2>1, <3>2
      <4>3. QED BY <3>2, <4>1, <4>2
    <3>3. QED BY <2>2, <3>1, <3>2
  <2>4. QED BY <1>4, <1>5, <1>6, <1>7, <1>8, <1>9, <2>3, ElsewhereWritten
<1>10. CASE tool # "boot"
  <2>1. claim'.slots = {} BY <1>4, <1>10 DEF NoClaim
  <2>2. PlanReady' /\ PlanSent' BY <1>8 DEF PlanReady, PlanSent
  <2>3. Verified' BY <1>6 DEF Verified
  <2>4. Claimed' /\ BootsWhatWasWritten' BY <2>1 DEF Claimed, BootsWhatWasWritten
  <2>5. QED BY <2>2, <2>3, <2>4 DEF Written
<1>11. QED BY <1>9, <1>10

\* What the developer does meanwhile, and what does nothing.
LEMMA OutsideWritten ==
    ASSUME Inv, Written,
           \/ PackRefused \/ Rest \/ UNCHANGED vars
           \/ \E c \in Files, v \in Versions : Build(c, v)
    PROVE  Written'
<1>1. UNCHANGED <<card, s_pc, loaded, h_pc, todo, h_files, slots, queue, at, rx, tx, claim>>
  BY DEF PackRefused, Rest, Build, vars, modeVars, lineVars, hostVars
<1>2. PlanReady' BY <1>1 DEF Written, PlanReady, Planned, Queued
<1>3. PlanSent' BY <1>1 DEF Written, PlanSent, Planned, Queued, OnCard, Current
<1>4. Still' <=> Still BY <1>1 DEF Still, StillRx
<1>5. Verified' BY <1>1, <1>4 DEF Written, Verified, AllOnCard, OnCard
<1>6. Claimed' BY <1>1, <1>4 DEF Written, Claimed, AllOnCard, OnCard
<1>7. BootsWhatWasWritten' BY <1>1 DEF Written, BootsWhatWasWritten
<1>8. QED BY <1>2, <1>3, <1>5, <1>6, <1>7 DEF Written

\* Without the write test, every step keeps what has been written and claimed.
LEMMA NextWritten ==
    ASSUME "wtest" \notin Tools, Inv, Written, [Next]_vars PROVE Written'
<1>1. CASE Stage2Acts BY <1>1, StageWritten
<1>2. CASE HostActs
  BY <1>2, BeginWritten, BeginWriteWritten, SwitchWritten, HeaderWritten, ReadyWritten,
     SendWritten, EndWritten, WriteDoneWritten, TestWritten, SkipWritten, StopWritten
     DEF HostActs, HostStep
<1>3. CASE HostExpires
  BY <1>3, TimeoutWritten, StopWritten DEF HostExpires, HostTimeout
<1>4. CASE Stage2Expires BY <1>4, ExpireWritten
<1>5. CASE Killed BY <1>5, StopWritten
<1>6. CASE Starts BY <1>6, StartsWritten
<1>7. CASE \/ PackRefused \/ Rest \/ UNCHANGED vars
           \/ \E c \in Files, v \in Versions : Build(c, v)
  BY <1>7, OutsideWritten
<1>8. QED BY <1>1, <1>2, <1>3, <1>4, <1>5, <1>6, <1>7 DEF Next

\* What a write under way has acknowledged and what a script has said OK to is on the card.
THEOREM WritesArrive ==
    ASSUME "wtest" \notin Tools PROVE Spec => []Written
<1>1. Init => Written
  <2> SUFFICES ASSUME Init PROVE Written OBVIOUS
  <2>1. h_pc = "idle" /\ todo = <<>> /\ claim.slots = {} /\ s_pc = "halt"
    BY DEF Init, Stage2Init, ToolsInit, NoClaim
  <2>2. QED
    BY <2>1 DEF Written, PlanReady, PlanSent, Verified, Claimed, BootsWhatWasWritten, Streams
<1>2. Inv /\ Written /\ [Next]_vars => Written' BY NextWritten
<1>3. QED BY <1>1, <1>2, StaysInStep, PTL DEF Spec

\* When a script has said OK, the header on the card gives the sizes of the files it read
\* and the slots it wrote hold them, sector by sector.
THEOREM ClaimIsTrue ==
    ASSUME "wtest" \notin Tools PROVE Spec => []ClaimHolds
<1>1. Written => ClaimHolds
  <2> SUFFICES ASSUME Written, claim.slots # {}
               PROVE  /\ card[HDR_LBA] = Header(SizesOf(claim.files))
                      /\ \A c \in claim.slots :
                            LET f == Contents(c, claim.files[c])
                            IN  Stored(SlotLba[c], Len(f)) = f
    BY DEF ClaimHolds
  <2>1. /\ claim.slots \in SUBSET Files /\ claim.files \in [Files -> Versions]
        /\ AllOnCard(claim.slots, claim.files)
    BY DEF Written, Claimed
  <2>2. QED BY <2>1, WholeOnCard
<1>2. QED BY <1>1, WritesArrive, PTL

\* A kernel started from the card after such a script has in memory the files the script
\* wrote, whole.
THEOREM BootsTheClaim ==
    ASSUME "wtest" \notin Tools PROVE Spec => []BootsWhatWasWritten
<1>1. Written => BootsWhatWasWritten BY DEF Written
<1>2. QED BY <1>1, WritesArrive, PTL
=============================================================================
