------------------------------- MODULE SdTools -------------------------------
(***************************************************************************)
(* The host scripts that keep the blob on the SD card: sd_pack.py (all     *)
(* slots), sd_update.py (some slots), boot_sd.py (check or update, then    *)
(* boot) and sd_write_test.py, over sd_proto.py.  One runs at a time.      *)
(*                                                                         *)
(* A script is a list of phases: speed and drop switch the baud rate, rd   *)
(* and check and verify read the header, write sends the segments, w is    *)
(* the write test and b boots.  sd_pack reads the files when it starts,    *)
(* update_sd and the build-tag check when they read the header.            *)
(***************************************************************************)
EXTENDS Stage2

CONSTANTS
    Tools,          \* the scripts of a run: pack, update, boot, bootup, wtest
    Persistent,     \* are there sessions with --persistent (BOOLEAN)
    MAX_RUNS,       \* bound: scripts started
    MAX_EDITS       \* bound: files built anew

VARIABLES
    files,          \* the version of each file in output/
    edits, runs,
    h_pc,           \* idle, next, or what the script waits for
    todo,           \* its phases to come
    h_files,        \* the files as it has read them
    slots,          \* the slots it writes
    queue, at,      \* segments to send, and the next sector of the first
    tag,            \* the build-tag check: none, or whether all sizes match
    claim           \* what the last script that said OK has put on the card

ASSUME ToolsAssumption == Tools \subseteq {"pack", "update", "boot", "bootup", "wtest"}

hostVars == <<files, edits, runs, h_pc, todo, h_files, slots, queue, at, tag, claim>>
NoClaim == [slots |-> {}, files |-> [c \in Files |-> CHOOSE v \in Versions : TRUE]]

ToolsInit ==
    /\ files \in {[c \in Files |-> v] : v \in Versions}
    /\ edits = 0 /\ runs = 0 /\ h_pc = "idle" /\ todo = <<>> /\ h_files = files
    /\ slots = {} /\ queue = <<>> /\ at = 1 /\ tag = "none" /\ claim = NoClaim
    /\ h_baud = "app"

-----------------------------------------------------------------------------
(* Between the scripts.                                                    *)

Build(c, v) ==
    /\ edits < MAX_EDITS /\ v # files[c]
    /\ files' = [files EXCEPT ![c] = v] /\ edits' = edits + 1
    /\ UNCHANGED <<card, modeVars, lineVars, h_baud, runs, h_pc, todo, h_files,
                   slots, queue, at, tag, claim>>

Phases(tool, verify) ==
    CASE tool = "pack" -> <<"speed", "write">>
      [] tool = "update" -> <<"speed", "rd", "write">> \o verify
      [] tool = "boot" -> <<"check", "b">>
      [] tool = "bootup" -> <<"speed", "rd", "write">> \o verify \o <<"drop", "b">>
      [] tool = "wtest" -> <<"w">>

\* program_fpga, bootloader_handshake, upload_stage2, reopen_app; the script ends
\* when one of them fails.
Program(ph) ==
    /\ h_baud' = "app"
    /\ \/ Started("cmd") /\ todo' = ph /\ UNCHANGED flaws
       \/ MayFail("program") /\ flaws' = flaws + 1 /\ Started("halt") /\ todo' = <<>>

\* A new session, or, with --persistent, the stage2 that is running, at the rate
\* the caller knows it has; then no rate is switched.  Before the first command
\* persistent_session sleeps 0.2 s and reads for another 0.5 s, in which stage2
\* takes what was still in flight, and what it had said is dropped.
Attach(ph, fresh) ==
    \/ fresh /\ Program(ph)
    \/ /\ ~fresh /\ rx = <<>> /\ h_baud' = s_baud /\ tx' = <<>>
       /\ todo' = IF Head(ph) = "speed" THEN Tail(ph) ELSE ph
       /\ UNCHANGED <<modeVars, rx, flaws>>

Start(tool, sel, verify, fresh) ==
    /\ h_pc = "idle" /\ runs < MAX_RUNS /\ runs' = runs + 1
    /\ tool = "pack" => Fit(files)
    /\ tool = "bootup" => "initrd" \in sel /\ (fresh \/ s_baud = "fast")
    /\ fresh \/ (Persistent /\ tool # "wtest" /\ s_pc \notin {"uboot", "halt", "linux"})
    /\ Attach(Phases(tool, verify), fresh)
    /\ h_pc' = "next" /\ h_files' = files /\ slots' = sel
    /\ tag' = "none" /\ claim' = IF tool \in {"boot", "wtest"} THEN claim ELSE NoClaim
    /\ queue' = <<>> /\ at' = 1 /\ UNCHANGED <<card, files, edits>>

\* Files that do not fit: sd_pack ends before it does anything.
PackRefused ==
    /\ h_pc = "idle" /\ runs < MAX_RUNS /\ runs' = runs + 1
    /\ "pack" \in Tools /\ ~Fit(files)
    /\ UNCHANGED <<card, modeVars, lineVars, h_baud, files, edits, h_pc, todo,
                   h_files, slots, queue, at, tag, claim>>

Starts ==
    \E tool \in Tools, fresh \in BOOLEAN :
      \E sel \in IF tool = "pack" THEN {Files}
                 ELSE IF tool \in {"update", "bootup"} THEN SUBSET Files \ {{}}
                 ELSE {{}} :
      \E verify \in IF sel = {} \/ tool = "pack" THEN {<<>>} ELSE {<<>>, <<"verify">>} :
        Start(tool, sel, verify, fresh)

-----------------------------------------------------------------------------
(* Steps of a script.                                                      *)

\* It sends an item and waits.
SendThen(item, pc) ==
    /\ \/ /\ rx' = Append(rx, IF h_baud = s_baud THEN item ELSE Noise)
          /\ UNCHANGED flaws
       \/ MayFail("item") /\ flaws' = flaws + 1 /\ UNCHANGED rx
    /\ h_pc' = pc

Keep == UNCHANGED <<card, modeVars, files, edits, runs, h_files, slots>>
Quiet == Keep /\ UNCHANGED <<queue, at, tag, claim>>

Stop == /\ h_pc' = "idle" /\ todo' = <<>> /\ queue' = <<>> /\ at' = 1
        /\ Keep /\ UNCHANGED <<rx, tx, flaws, h_baud, tag, claim>>

Rate(ph) == IF ph = "speed" THEN "fast" ELSE "app"

\* The segments of sd_pack and update_sd: the header, then the slots.
SegmentsOf(sel, ver) ==
    LET one(c) == IF c \in sel
                  THEN <<[lba |-> SlotLba[c], data |-> Contents(c, ver[c])]>>
                  ELSE <<>>
    IN  <<[lba |-> HDR_LBA, data |-> <<Header(SizesOf(ver))>>]>>
        \o one("Image") \o one("DTB") \o one("initrd")

BeginSwitch ==
    /\ h_pc = "next" /\ todo # <<>> /\ Head(todo) \in {"speed", "drop"}
    /\ \/ h_baud # Rate(Head(todo)) /\ SendThen(Baud(Rate(Head(todo))), "b1")
          /\ tx' = <<>> /\ UNCHANGED todo
       \/ h_baud = Rate(Head(todo)) /\ todo' = Tail(todo)
          /\ UNCHANGED <<h_pc, rx, tx, flaws>>
    /\ Quiet /\ UNCHANGED h_baud
BeginRead ==
    /\ h_pc = "next" /\ todo # <<>>
    /\ \/ Head(todo) = "verify" /\ UNCHANGED h_files
       \/ Head(todo) = "check" /\ h_files' = files
       \/ Head(todo) = "rd" /\ Fit(files) /\ h_files' = files
    /\ SendThen(Cmd("R"), "rd")
    /\ UNCHANGED <<card, modeVars, files, edits, runs, slots, queue, at, tag, claim,
                   h_baud, todo, tx>>
UpdateRefused ==
    /\ h_pc = "next" /\ todo # <<>> /\ Head(todo) = "rd" /\ ~Fit(files) /\ Stop
BeginWrite ==
    /\ h_pc = "next" /\ todo # <<>> /\ Head(todo) = "write"
    /\ SendThen(Cmd("W"), "mw_ready")
    /\ queue' = SegmentsOf(slots, h_files) /\ at' = 1
    /\ Keep /\ UNCHANGED <<h_baud, todo, tx, tag, claim>>
BeginTest ==
    /\ h_pc = "next" /\ todo # <<>> /\ Head(todo) = "w"
    /\ SendThen(Cmd("w"), "w1") /\ Quiet /\ UNCHANGED <<h_baud, todo, tx>>
BeginBoot ==
    /\ h_pc = "next" /\ todo # <<>> /\ Head(todo) = "b"
    /\ SendThen(Cmd("b"), "idle") /\ todo' = <<>> /\ Quiet /\ UNCHANGED <<h_baud, tx>>

\* The next item that has come from stage2; wait_for skips what it does not want.
Got(pc, k) == h_pc = pc /\ tx # <<>> /\ Head(tx).k = k /\ tx' = Tail(tx)

Switched ==
    /\ Got("b1", "BAUD_SWITCH") /\ h_baud' = Rate(Head(todo))
    /\ \/ /\ rx' = Append(rx, IF h_baud' = s_baud THEN Probe ELSE Noise)
          /\ UNCHANGED flaws
       \/ MayFail("item") /\ flaws' = flaws + 1 /\ UNCHANGED rx
    /\ h_pc' = "b2" /\ Quiet /\ UNCHANGED todo
SwitchOk ==
    /\ Got("b2", "BAUD_OK") /\ h_pc' = "next" /\ todo' = Tail(todo)
    /\ Quiet /\ UNCHANGED <<rx, flaws, h_baud>>

\* update_sd has returned, or sd_pack is at its end.
ClaimOf(rest) ==
    claim' = IF slots # {} /\ (rest = <<>> \/ Head(rest) = "drop")
             THEN [slots |-> slots, files |-> h_files] ELSE claim

\* The header: update_sd gives up when it is not one (or, after the write, not
\* the one written); the build-tag check only says so.
HeaderRead ==
    /\ Got("rd", "RD_READY") /\ Keep /\ UNCHANGED <<rx, flaws, h_baud>>
    /\ LET d == Head(tx).data
           ph == Head(todo)
       IN  \/ /\ ph = "check" /\ h_pc' = "next" /\ todo' = Tail(todo)
              /\ tag' = IF IsHeader(d) /\ d.sizes = SizesOf(h_files)
                        THEN "match" ELSE "stale"
              /\ UNCHANGED <<queue, at, claim>>
           \/ /\ ph # "check" /\ IsHeader(d)
              /\ ph = "verify" => d = Header(SizesOf(h_files))
              /\ h_pc' = "next" /\ todo' = Tail(todo)
              /\ ClaimOf(Tail(todo))
              /\ UNCHANGED <<queue, at, tag>>
           \/ /\ \/ ph = "rd" /\ ~IsHeader(d)
                 \/ ph = "verify" /\ d # Header(SizesOf(h_files))
              /\ h_pc' = "idle" /\ todo' = <<>> /\ queue' = <<>> /\ at' = 1
              /\ UNCHANGED <<tag, claim>>

GotReady ==
    /\ Got("mw_ready", "MW_READY") /\ SendThen(Count(Len(queue)), "mw_go")
    /\ Quiet /\ UNCHANGED <<h_baud, todo>>
GotGo ==
    /\ Got("mw_go", "MW_GO") /\ h_pc' = "seg"
    /\ Quiet /\ UNCHANGED <<rx, flaws, h_baud, todo>>

SendSegment ==
    /\ h_pc = "seg" /\ queue # <<>>
    /\ SendThen(Segment(Head(queue).lba, Len(Head(queue).data)), "sector")
    /\ at' = 1 /\ Keep /\ UNCHANGED <<tx, h_baud, todo, queue, tag, claim>>
SendSector ==
    /\ h_pc = "sector" /\ at <= Len(Head(queue).data) /\ h_pc' = "ack"
    /\ \/ rx' = Append(rx, Sector(Head(queue).data[at], FALSE)) /\ UNCHANGED flaws
       \/ /\ MayFail("short") /\ flaws' = flaws + 1
          /\ rx' = Append(rx, Sector(Head(queue).data[at], TRUE))
    /\ Quiet /\ UNCHANGED <<tx, h_baud, todo>>
SectorAcked ==
    /\ Got("ack", "K") /\ at' = at + 1 /\ h_pc' = "sector"
    /\ Keep /\ UNCHANGED <<rx, flaws, h_baud, todo, queue, tag, claim>>
SectorRefused ==
    /\ h_pc = "ack" /\ tx # <<>> /\ Head(tx).k # "K" /\ Stop
EndOfSegment ==
    /\ h_pc = "sector" /\ at > Len(Head(queue).data)
    /\ queue' = Tail(queue) /\ at' = 1
    /\ h_pc' = IF Tail(queue) = <<>> THEN "mw_done" ELSE "seg"
    /\ Keep /\ UNCHANGED <<rx, tx, flaws, h_baud, todo, tag, claim>>
WriteDone ==
    /\ Got("mw_done", "MW_DONE") /\ h_pc' = "next" /\ todo' = Tail(todo)
    /\ ClaimOf(Tail(todo))
    /\ Keep /\ UNCHANGED <<rx, flaws, h_baud, queue, at, tag>>
WriteFailed == h_pc = "mw_done" /\ tx # <<>> /\ Head(tx).k = "MW_FAIL" /\ Stop

TestReady ==
    /\ Got("w1", "SEND_512")
    /\ rx' = Append(rx, Sector(TestData, FALSE)) /\ h_pc' = "w2"
    /\ Quiet /\ UNCHANGED <<flaws, h_baud, todo>>
TestDone == h_pc = "w2" /\ tx # <<>> /\ Head(tx).k \in {"WRITE_OK", "text"} /\ Stop

AtEnd == h_pc = "next" /\ todo = <<>> /\ Stop

Wanted == [rd |-> {"RD_READY"}, mw_ready |-> {"MW_READY"}, mw_go |-> {"MW_GO"},
           mw_done |-> {"MW_DONE", "MW_FAIL"}, b1 |-> {"BAUD_SWITCH"},
           b2 |-> {"BAUD_OK"}, w1 |-> {"SEND_512"}, w2 |-> {"WRITE_OK", "text"}]
SkipReply ==
    /\ h_pc \in DOMAIN Wanted /\ tx # <<>> /\ Head(tx).k \notin Wanted[h_pc]
    /\ tx' = Tail(tx) /\ Quiet /\ UNCHANGED <<rx, flaws, h_baud, h_pc, todo>>

\* The wait runs out: the fallback of setup_session, which programs the FPGA
\* again and stays at 115200; a check that goes on without an answer; or the end.
Waiting == h_pc \in DOMAIN Wanted \cup {"ack"} /\ tx = <<>>
\* Mutant: the old port is used again, and stage2 is not started anew.
FallBackAttached ==
    /\ h_pc \in {"b1", "b2"} /\ Head(todo) = "speed" /\ Waiting
    /\ h_baud' = "app" /\ h_pc' = "next" /\ todo' = Tail(todo)
    /\ Quiet /\ UNCHANGED lineVars
FallBack ==
    /\ h_pc \in {"b1", "b2"} /\ Head(todo) = "speed" /\ Waiting
    /\ Program(Tail(todo)) /\ h_pc' = "next"
    /\ UNCHANGED <<card, files, edits, runs, h_files, slots, queue,
                   at, tag, claim>>
CheckTimeout ==
    /\ h_pc = "rd" /\ Head(todo) = "check" /\ Waiting
    /\ h_pc' = "next" /\ todo' = Tail(todo) /\ tag' = "stale"
    /\ Keep /\ UNCHANGED <<rx, tx, flaws, h_baud, queue, at, claim>>
\* Mutant: a sector that is not acknowledged is sent again, as often as needed.
WaitTimeoutRetries ==
    /\ Waiting /\ Head(todo) \notin {"speed", "check"}
    /\ \/ h_pc # "ack" /\ Stop
       \/ /\ h_pc = "ack" /\ h_pc' = "sector"
          /\ Quiet /\ UNCHANGED <<lineVars, h_baud, todo>>
WaitTimeout ==
    /\ Waiting /\ Head(todo) \notin {"speed", "check"} /\ Stop

\* Control-C, or the host's end.
Killed ==
    /\ h_pc # "idle" /\ MayFail("kill") /\ flaws' = flaws + 1
    /\ h_pc' = "idle" /\ todo' = <<>> /\ queue' = <<>> /\ at' = 1
    /\ Keep /\ UNCHANGED <<rx, tx, h_baud, tag, claim>>

HostStep == \/ BeginSwitch \/ BeginRead \/ UpdateRefused \/ BeginWrite
            \/ BeginTest \/ BeginBoot
            \/ Switched \/ SwitchOk \/ HeaderRead \/ GotReady \/ GotGo
            \/ SendSegment \/ SendSector \/ SectorAcked \/ SectorRefused
            \/ EndOfSegment \/ WriteDone \/ WriteFailed \/ TestReady \/ TestDone
            \/ AtEnd \/ SkipReply
HostTimeout == FallBack \/ CheckTimeout \/ WaitTimeout
=============================================================================
