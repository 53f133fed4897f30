------------------------------ MODULE SdSystem ------------------------------
(***************************************************************************)
(* The SD tools, stage2 and the card together, with lost and short data,   *)
(* lost answers, SD operations that fail and scripts that are killed.      *)
(*                                                                         *)
(* A wait of the host is seconds and an answer milliseconds: it runs out   *)
(* only when stage2 has taken all that was sent and has not answered.      *)
(***************************************************************************)
EXTENDS SdTools

vars == <<card, modeVars, lineVars, h_baud, hostVars>>

Init == CardInit /\ Stage2Init /\ ToolsInit

Stage2Acts == Stage2Step /\ UNCHANGED <<h_baud, hostVars>>
HostActs == HostStep
HostExpires == HostTimeout /\ rx = <<>>
\* The first command comes within a second, unless it is lost or never sent.
Stage2Expires == /\ FirstTimeout /\ (h_pc = "idle" \/ Waiting)
                 /\ UNCHANGED <<h_baud, hostVars>>
Rest == h_pc = "idle" /\ rx = <<>> /\ UNCHANGED vars

Next == \/ Stage2Acts \/ HostActs \/ HostExpires \/ Stage2Expires \/ Killed
        \/ Starts \/ PackRefused
        \/ (\E c \in Files, v \in Versions : Build(c, v)) \/ Rest

Spec == /\ Init /\ [][Next]_vars
        /\ WF_vars(Stage2Acts) /\ WF_vars(HostActs) /\ WF_vars(HostExpires)

-----------------------------------------------------------------------------
\* Whatever is lost, killed or completed by the bytes of a later script, a slot
\* never holds a sector of another file, and nothing is written past the last.
SlotsKeepApart ==
    /\ \A c \in Files : \A l \in SlotLba[c] .. SlotLba[c] + MAX_SEC[c] - 1 :
           card[l].of \in {c, "blank", "test", "torn"}
    /\ card[END_LBA] = Blank

\* When a script has said OK, the header on the card gives the sizes of the
\* files it read and the slots it wrote hold them, sector by sector.
ClaimHolds ==
    claim.slots # {} =>
        /\ card[HDR_LBA] = Header(SizesOf(claim.files))
        /\ \A c \in claim.slots : LET f == Contents(c, claim.files[c])
                                  IN  Stored(SlotLba[c], Len(f)) = f

\* A kernel started from the card after such a script has in memory the files
\* the script wrote, whole.
BootsWhatWasWritten ==
    s_pc = "linux" =>
        \A c \in claim.slots : loaded[c] = Contents(c, claim.files[c])

\* A session is usable when the script sends its first command: stage2 is in its
\* command loop and listens at the host's rate.
SessionUsable ==
    h_pc = "next" /\ todo # <<>> /\ Head(todo) \in {"rd", "check", "w", "write"} =>
        s_pc = "cmd" /\ s_baud = h_baud

\* README.md:236, the build-tag check "catches a stale SD": when all sizes match,
\* what is booted are the files that were compared.
TagIsHonest ==
    s_pc = "linux" /\ tag = "match" =>
        \A c \in Files : loaded[c] = Contents(c, h_files[c])

\* Every script comes to an end.
ToolsEnd == []<>(h_pc = "idle")
=============================================================================
