------------------------------- MODULE Stage2 -------------------------------
(***************************************************************************)
(* The SD card with the boot blob on it (host/sd_layout.py) and the        *)
(* command loop of the stage2 loader (sw/stage2_loader/main.c) with the    *)
(* modes the SD tools use: R (read the header), W (write segments), w      *)
(* (write test), B (switch the baud rate), b (boot from the card).         *)
(*                                                                         *)
(* The blob is a header in sector 0, then one slot of fixed place and size *)
(* for each of Image, DTB and initrd.  A sector's contents are told apart  *)
(* by where they come from: the header with the sizes it holds, or a       *)
(* sector of a version of one of the files.                                *)
(*                                                                         *)
(* The line carries commands, words and sectors as items.  Something sent  *)
(* at a rate the other end does not listen to arrives as noise.  Stage2    *)
(* waits for what a mode needs without a timeout, so what comes late or    *)
(* short is completed by whatever comes next.                              *)
(***************************************************************************)
EXTENDS Integers, Sequences

CONSTANTS
    SECTOR,         \* bytes of a sector (512)
    MAX_SEC,        \* sectors of each slot (4000, 8, 4000)
    Versions,       \* of the files a developer builds
    Size,           \* Size[c][v]: bytes of version v of file c
    TEST_LBA,       \* the sector of the write test (2048)
    MAX_SEGS,       \* segments of one W command (16)
    MAX_COUNT,      \* sectors of a segment (8192)
    Flaws,          \* what may go wrong in a run
    MAX_FLAWS       \* bound: how often

VARIABLES
    card,           \* contents of each sector
    s_pc,           \* cmd, segs, seg, data, partial, probe, wtest: in a mode;
                    \* uboot, halt, linux: out of the loop
    s_first,        \* still waiting for the first command, for 3 s
    s_baud,         \* app or fast
    segs, lba, left,    \* of W: segments to come, next sector, sectors to come
    loaded,         \* what b has put into memory
    h_baud,         \* the rate of the host's port
    rx, tx,         \* in flight to stage2, and to the host
    flaws

Files == {"Image", "DTB", "initrd"}

HDR_LBA == 0
IMG_LBA == 1
DTB_LBA == IMG_LBA + MAX_SEC["Image"]
IRD_LBA == DTB_LBA + MAX_SEC["DTB"]
END_LBA == IRD_LBA + MAX_SEC["initrd"]

SlotLba == [Image |-> IMG_LBA, DTB |-> DTB_LBA, initrd |-> IRD_LBA]

\* pad_sector: the number of sectors that n bytes take.
Padded(n) == (n + SECTOR - 1) \div SECTOR

\* A file as a sequence of sectors; a choice of a version of each file.
Contents(c, v) == [i \in 1 .. Padded(Size[c][v]) |-> [of |-> c, ver |-> v, at |-> i]]
SizesOf(ver) == [c \in Files |-> Size[c][ver[c]]]

\* build_header; the layout constants are the same for every writer.
Header(sizes) == [of |-> "header", sizes |-> sizes]
IsHeader(s) == s.of = "header"

Blank == [of |-> "blank"]
TestData == [of |-> "test"]
Torn == [of |-> "torn"]     \* bytes of one sector, then of something else

CardInit == card = [l \in 0 .. END_LBA |-> Blank]

\* sd_read_many.
Stored(l, n) == [i \in 1 .. n |-> card[l + i - 1]]

\* Mutant: files are written without a look at the slots.
FitUnchecked(ver) == TRUE

\* Both scripts refuse files that do not fit their slots.
Fit(ver) == \A c \in Files : Padded(Size[c][ver[c]]) <= MAX_SEC[c]

ASSUME SlotAssumption == MAX_SEC \in [Files -> Nat] /\ TEST_LBA \in IMG_LBA .. END_LBA - 1
ASSUME FileAssumption == SECTOR \in Nat \ {0} /\ Size \in [Files -> [Versions -> Nat]]
ASSUME BoundAssumption == MAX_SEGS \in Nat /\ MAX_COUNT \in Nat /\ MAX_FLAWS \in Nat

-----------------------------------------------------------------------------
cardVars == <<card>>
modeVars == <<s_pc, s_first, s_baud, segs, lba, left, loaded>>
lineVars == <<rx, tx, flaws>>

MayFail(f) == f \in Flaws /\ flaws < MAX_FLAWS

Cmd(c) == [k |-> "cmd", c |-> c]
Baud(b) == [k |-> "cmd", c |-> "B", baud |-> b]
Count(n) == [k |-> "count", n |-> n]
Segment(l, n) == [k |-> "segment", lba |-> l, n |-> n]
Sector(d, short) == [k |-> "sector", data |-> d, short |-> short]
Probe == [k |-> "probe"]
Noise == [k |-> "noise"]

Reply(k) == [k |-> k]
HeaderReply(d) == [k |-> "RD_READY", data |-> d]

\* Stage2 sends r at rate b and goes on; the reply may be lost.
SayAt(b, r) ==
    \/ tx' = Append(tx, IF b = h_baud THEN r ELSE Noise) /\ UNCHANGED flaws
    \/ MayFail("reply") /\ flaws' = flaws + 1 /\ UNCHANGED tx
Say(r) == SayAt(s_baud, r)

\* main, after the FPGA has been programmed and stage2 uploaded: pc is cmd, or
\* halt when stage2 is not there or its SDRAM test fails.
Started(pc) == /\ s_pc' = pc /\ s_first' = (pc = "cmd") /\ s_baud' = "app"
               /\ segs' = 0 /\ lba' = 0 /\ left' = 0 /\ rx' = <<>> /\ tx' = <<>>
               /\ UNCHANGED loaded

Stage2Init == /\ s_pc = "halt" /\ s_first = FALSE /\ s_baud = "app"
              /\ segs = 0 /\ lba = 0 /\ left = 0 /\ loaded = [c \in Files |-> <<>>]
              /\ rx = <<>> /\ tx = <<>> /\ flaws = 0

-----------------------------------------------------------------------------
In == Head(rx)
Take == rx # <<>> /\ rx' = Tail(rx)
Gets(pc, kind) == s_pc = pc /\ Take /\ In.k = kind
Command(c) == Gets("cmd", "cmd") /\ In.c = c /\ s_first' = FALSE
Goto(pc) == s_pc' = pc /\ UNCHANGED <<s_baud, segs, lba, left, loaded>>

\* An SD operation that fails, with its message.
SdFails == MayFail("sd") /\ flaws' = flaws + 1 /\ tx' = Append(tx, Reply("text"))

ReadHeader ==
    /\ Command("R") /\ Goto("cmd") /\ UNCHANGED card
    /\ Say(HeaderReply(card[HDR_LBA])) \/ SdFails

WriteMulti ==
    /\ Command("W") /\ UNCHANGED card
    /\ \/ Goto("segs") /\ Say(Reply("MW_READY"))
       \/ Goto("cmd") /\ SdFails

TakeCount ==
    /\ Gets("segs", "count") /\ UNCHANGED <<card, s_first>>
    /\ \/ /\ In.n \in 1 .. MAX_SEGS /\ Say(Reply("MW_GO"))
          /\ s_pc' = "seg" /\ segs' = In.n
          /\ UNCHANGED <<s_baud, lba, left, loaded>>
       \/ In.n \notin 1 .. MAX_SEGS /\ Goto("cmd") /\ Say(Reply("MW_FAIL"))

TakeSegment ==
    /\ Gets("seg", "segment") /\ UNCHANGED <<card, s_first>>
    /\ \/ /\ In.n \in 1 .. MAX_COUNT
          /\ s_pc' = "data" /\ lba' = In.lba /\ left' = In.n
          /\ UNCHANGED <<s_baud, segs, loaded, tx, flaws>>
       \/ In.n \notin 1 .. MAX_COUNT /\ Goto("cmd") /\ Say(Reply("MW_FAIL"))

\* The rest of the loops of sd_write_multi after a sector has been written: the
\* next sector, the next segment, or the end.  A rest of bytes that is already
\* read keeps the next sector partial.
AfterSector(pc) ==
    /\ lba' = lba + 1 /\ left' = left - 1
    /\ UNCHANGED <<s_baud, loaded, s_first>>
    /\ \/ left > 1 /\ s_pc' = pc /\ UNCHANGED segs /\ Say(Reply("K"))
       \/ left = 1 /\ segs > 1 /\ s_pc' = "seg" /\ segs' = segs - 1 /\ Say(Reply("K"))
       \/ /\ left = 1 /\ segs = 1 /\ s_pc' = "cmd" /\ segs' = 0
          /\ \/ tx' = tx \o <<Reply("K"), Reply("MW_DONE")>> /\ UNCHANGED flaws
             \/ /\ MayFail("reply") /\ flaws' = flaws + 1
                /\ tx' \in {Append(tx, Reply("K")), Append(tx, Reply("MW_DONE"))}

\* sd_write_block fails: nothing was written, or it was and the card stays busy.
WriteFails(d) ==
    /\ MayFail("sd") /\ flaws' = flaws + 1
    /\ card' \in {card, [card EXCEPT ![lba] = d]}
    /\ tx' = tx \o <<Reply("X"), Reply("MW_FAIL")>>
    /\ Goto("cmd") /\ UNCHANGED s_first

\* Mutant: the result of sd_write_block is not looked at.
WriteSectorUnchecked ==
    /\ Gets("data", "sector") /\ ~In.short
    /\ card' \in {card, [card EXCEPT ![lba] = In.data]} /\ AfterSector("data")

WriteSector ==
    /\ Gets("data", "sector") /\ ~In.short
    /\ \/ card' = [card EXCEPT ![lba] = In.data] /\ AfterSector("data")
       \/ WriteFails(In.data)

\* A sector with a byte missing, or a byte that is no sector: stage2 waits.
WaitForMore ==
    /\ s_pc \in {"data", "wtest"} /\ Take
    /\ IF In.k = "sector" THEN In.short ELSE TRUE
    /\ Goto(IF s_pc = "data" THEN "partial" ELSE "wtest")
    /\ UNCHANGED <<card, s_first, tx, flaws>>

\* It takes the next bytes, whatever they are, for the rest of the sector.
FillUp ==
    /\ s_pc = "partial" /\ Take
    /\ \/ Goto("partial") /\ UNCHANGED <<card, s_first, tx, flaws>>
       \/ card' = [card EXCEPT ![lba] = Torn] /\ AfterSector("partial")
       \/ WriteFails(Torn)

\* Bytes that are not the word W waits for make a number out of its range.
BadWord ==
    /\ s_pc \in {"segs", "seg"} /\ Take
    /\ In.k \notin {"count", "segment"}
    /\ \/ Goto(s_pc) /\ UNCHANGED <<card, s_first, tx, flaws>>
       \/ Goto("cmd") /\ Say(Reply("MW_FAIL")) /\ UNCHANGED <<card, s_first>>

WriteTest ==
    /\ Command("w") /\ UNCHANGED card
    /\ \/ Goto("wtest") /\ Say(Reply("SEND_512"))
       \/ Goto("cmd") /\ SdFails

WriteTestSector ==
    /\ Gets("wtest", "sector") /\ ~In.short /\ Goto("cmd") /\ UNCHANGED s_first
    /\ \/ card' = [card EXCEPT ![TEST_LBA] = In.data] /\ Say(Reply("WRITE_OK"))
       \/ SdFails /\ card' \in {card, [card EXCEPT ![TEST_LBA] = In.data]}

\* The answer before the switch comes at the old rate.
SetBaud ==
    /\ Command("B") /\ s_pc' = "probe" /\ s_baud' = In.baud
    /\ Say(Reply("BAUD_SWITCH")) /\ UNCHANGED <<card, segs, lba, left, loaded>>
Probed ==
    /\ s_pc = "probe" /\ Take /\ Goto("cmd") /\ Say(Reply("BAUD_OK"))
    /\ UNCHANGED <<card, s_first>>

\* Mutant: sizes are rounded down to whole sectors.
BootSdRoundedDown ==
    /\ Command("b") /\ UNCHANGED <<card, s_baud, segs, lba, left, tx, flaws>>
    /\ \/ ~IsHeader(card[HDR_LBA]) /\ s_pc' = "halt" /\ UNCHANGED loaded
       \/ /\ IsHeader(card[HDR_LBA]) /\ s_pc' = "linux"
          /\ loaded' = [c \in Files |->
                           Stored(SlotLba[c], card[HDR_LBA].sizes[c] \div SECTOR)]

\* patch_dtb_initrd_end looks for a sentinel: a DTB as it was built holds it, an
\* empty one does not, a damaged one may.
Sentinel(dtb) ==
    IF dtb = <<>> THEN {FALSE}
    ELSE IF \E v \in Versions : dtb = Contents("DTB", v) THEN {TRUE} ELSE BOOLEAN

\* mode_sd_boot: the sizes are the header's, the places the layout's.
BootSd ==
    /\ Command("b") /\ UNCHANGED <<card, s_baud, segs, lba, left, tx>>
    /\ \/ /\ IsHeader(card[HDR_LBA]) /\ UNCHANGED flaws
          /\ loaded' = [c \in Files |-> Stored(SlotLba[c],
                                             Padded(card[HDR_LBA].sizes[c]))]
          /\ \E found \in Sentinel(loaded'["DTB"]) :
               s_pc' = IF found THEN "linux" ELSE "halt"
       \/ ~IsHeader(card[HDR_LBA]) /\ s_pc' = "halt" /\ UNCHANGED <<loaded, flaws>>
       \/ MayFail("sd") /\ flaws' = flaws + 1 /\ s_pc' = "halt" /\ UNCHANGED loaded

\* Any other byte runs the default mode, which waits for U-Boot and never comes
\* back; so does a first command that is 3 s late.
DefaultMode ==
    /\ s_pc = "cmd" /\ Take /\ In.k # "cmd"
    /\ Goto("uboot") /\ s_first' = FALSE /\ UNCHANGED <<card, tx, flaws>>
FirstTimeout ==
    /\ s_pc = "cmd" /\ s_first /\ rx = <<>>
    /\ Goto("uboot") /\ s_first' = FALSE /\ UNCHANGED <<card, rx, tx, flaws>>

\* Out of the loop, and in a mode that does not look, bytes go nowhere.
Deaf ==
    /\ s_pc \in {"uboot", "halt", "linux"} /\ Take
    /\ UNCHANGED <<card, modeVars, tx, flaws>>

Stage2Step == \/ ReadHeader \/ WriteMulti \/ TakeCount \/ TakeSegment \/ WriteSector
              \/ WaitForMore \/ FillUp \/ BadWord \/ WriteTest \/ WriteTestSector
              \/ SetBaud \/ Probed \/ BootSd \/ DefaultMode \/ Deaf
=============================================================================
