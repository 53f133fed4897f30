----------------------------- MODULE SdramDevice -----------------------------
(***************************************************************************)
(* The HY57V2562GTR chip, as sim/sdram_model.v describes it: per-bank      *)
(* state, storage by bank, row and column, and the read pipeline that      *)
(* drives DQ CL device cycles after the READ was sampled.                  *)
(*                                                                         *)
(* The device samples on the falling edge of clk, half a cycle after the   *)
(* controller has put a command on the pins, so the pins it samples are    *)
(* its parameters and the composing module passes the controller's new     *)
(* ones.  What the model reports as an error and stops at (READ or WRITE   *)
(* to an idle bank, REFRESH with an open bank) is not a guard here: the    *)
(* device does something anyway, and SdramSystem states that it never      *)
(* happens.  Storage is not folded as mem_idx folds it.                    *)
(***************************************************************************)
EXTENDS SdramCtrl

CONSTANT CL         \* CAS latency, in device cycles
ASSUME CLAssumption == CL \in 0 .. 4

VARIABLES
    mem,            \* 16-bit cells
    bank_active, bank_row,
    rd_data, rd_valid,  \* read pipeline; position 0 drives DQ
    lmr_done,       \* history: the mode register has been loaded
    since           \* history: cycles since the last command of each kind

devVars == <<mem, bank_active, bank_row, rd_data, rd_valid, lmr_done, since>>

Cells == Bank \X Row \X Col
Slots == 0 .. 4

\* The commands whose spacing the data sheet limits, and a count that is
\* past every limit.
Spaced == {"ACT", "WRITE", "PRECHARGE", "REFRESH", "LMR"}
LONG_AGO == 7

DevInit ==
    /\ mem = [c \in Cells |-> ZeroHalf]
    /\ bank_active = [b \in Bank |-> FALSE] /\ bank_row = [b \in Bank |-> 0]
    /\ rd_data = [i \in Slots |-> ZeroHalf] /\ rd_valid = [i \in Slots |-> FALSE]
    /\ lmr_done = FALSE /\ since = [k \in Spaced |-> LONG_AGO]

\* What the controller may sample from the bus: the driven half, or anything
\* when nobody drives it.
DqSample == IF rd_valid[0] THEN {rd_data[0]} ELSE Half

\* Bytes of a written half whose lane is not masked.
Masked(old, new, dqm) == [i \in 0 .. 1 |-> IF i \in dqm THEN old[i] ELSE new[i]]

\* The pipeline moves one place; a READ sampled now enters at place CL.
Shifted == [i \in Slots |-> IF i < 4 THEN rd_data[i + 1] ELSE ZeroHalf]
ShiftedValid == [i \in Slots |-> IF i < 4 THEN rd_valid[i + 1] ELSE FALSE]

DevPipeline(c, ba, col) ==
    \/ /\ c = "READ"
       /\ rd_data' = [Shifted EXCEPT ![CL] = mem[<<ba, bank_row[ba], col>>]]
       /\ rd_valid' = [ShiftedValid EXCEPT ![CL] = TRUE]
    \/ /\ c # "READ"
       /\ rd_data' = Shifted /\ rd_valid' = ShiftedValid

DevBanks(c, ba, row, a10) ==
    \/ /\ c = "ACT"
       /\ bank_active' = [bank_active EXCEPT ![ba] = TRUE]
       /\ bank_row' = [bank_row EXCEPT ![ba] = row]
    \/ /\ c = "PRECHARGE"
       /\ bank_active' = [b \in Bank |-> bank_active[b] /\ ~a10 /\ b # ba]
       /\ UNCHANGED bank_row
    \/ /\ c \in {"READ", "WRITE"}      \* auto-precharge when A10 is high
       /\ bank_active' = [bank_active EXCEPT ![ba] = @ /\ ~a10]
       /\ UNCHANGED bank_row
    \/ /\ c \notin {"ACT", "PRECHARGE", "READ", "WRITE"}
       /\ UNCHANGED <<bank_active, bank_row>>

DevStore(c, ba, col, dqm, dq) ==
    \/ /\ c = "WRITE"
       /\ \E h \in dq :
            mem' = [mem EXCEPT ![<<ba, bank_row[ba], col>>] = Masked(@, h, dqm)]
    \/ c # "WRITE" /\ UNCHANGED mem

DevHistory(c) ==
    /\ lmr_done' = (lmr_done \/ c = "LMR")
    /\ since' = [k \in Spaced |-> IF c = k THEN 0
                    ELSE IF since[k] < LONG_AGO THEN since[k] + 1 ELSE LONG_AGO]

\* One falling edge: c, ba, a, a10, dqm are the pins it samples, dq
\* what the data bus may show.
DevClock(c, ba, a, a10, dqm, dq) ==
    /\ DevPipeline(c, ba, a)
    /\ DevBanks(c, ba, a, a10)
    /\ DevStore(c, ba, a, dqm, dq)
    /\ DevHistory(c)

DevTypeOK ==
    /\ mem \in [Cells -> Half]
    /\ bank_active \in [Bank -> BOOLEAN] /\ bank_row \in [Bank -> Row]
    /\ rd_data \in [Slots -> Half] /\ rd_valid \in [Slots -> BOOLEAN]
    /\ lmr_done \in BOOLEAN /\ since \in [Spaced -> 0 .. LONG_AGO]
=============================================================================
