------------------------------ MODULE SdramCtrl ------------------------------
(***************************************************************************)
(* The SDRAM controller of rtl/sdram_ctrl.v: the main FSM, the refresh     *)
(* counter that runs beside it, and the open-row tracking.                 *)
(*                                                                         *)
(* One step is one rising edge of clk.  Every register of the module is a  *)
(* variable, with its name in the source, except that sdram_addr is split  *)
(* into A10 (precharge all banks) and the row, column or mode number the   *)
(* other lines carry, and that a command is named instead of coded on four *)
(* pins.  A half is what the 16-bit data bus carries, a word two halves.   *)
(* Byte lanes are kept (wstrb and dqm act on them); what a byte may be is  *)
(* the parameter Byte.                                                     *)
(***************************************************************************)
EXTENDS Integers

CONSTANTS
    INIT_CYCLES,    \* power-up wait, in cycles
    TRP,            \* precharge to ready
    TRC,            \* refresh cycle
    TRCD,           \* ACT to READ or WRITE
    TWR,            \* write recovery
    TMRD,           \* mode register set delay
    REF_INTERVAL,   \* cycles between refresh requests (less one)
    NBANKS, NROWS,  \* geometry: banks, rows of a bank,
    NCOLS,          \* and 32-bit words of a row (two columns each)
    Byte            \* what a byte lane carries

ASSUME GeometryAssumption ==
    /\ NBANKS \in Nat \ {0}
    /\ NROWS \in Nat \ {0}
    /\ NCOLS \in Nat \ {0}
    /\ 0 \in Byte

\* The comparisons of the wait states are on a 3-bit counter, the others on
\* 14 and 10 bits: a parameter that did not fit would never be reached.
ASSUME TimingAssumption ==
    /\ INIT_CYCLES \in 0 .. 16383
    /\ REF_INTERVAL \in 0 .. 1023
    /\ TRP \in 0 .. 7 /\ TRC \in 0 .. 7 /\ TRCD \in 0 .. 7
    /\ TWR \in 0 .. 7 /\ TMRD \in 0 .. 7
    /\ TWR + TRP \in 0 .. 7

VARIABLES
    state, init_cnt, cnt, initialized,          \* FSM
    ref_cnt, ref_req,                           \* refresh counter
    addr_lat, wdata_lat, wstrb_lat, is_write,   \* the latched request
    row_open, open_ba, open_row,                \* open-row tracking
    cmd, sdram_ba, sdram_a, sdram_a10, sdram_dqm,  \* command pins
    dq_oe, dq_out,                              \* data pins, when driven
    data_lo, rdata, ready                       \* answer

latched  == <<addr_lat, wdata_lat, wstrb_lat, is_write>>
tracking == <<row_open, open_ba, open_row>>
addrpins == <<sdram_ba, sdram_a, sdram_a10, sdram_dqm>>
datapins == <<dq_oe, dq_out>>
answer   == <<data_lo, rdata>>
refvars  == <<ref_cnt, ref_req>>
fsmvars  == <<init_cnt, cnt, initialized>>
ctrlVars == <<state, fsmvars, refvars, latched, tracking, cmd, addrpins,
              datapins, answer, ready>>

Bank == 0 .. NBANKS - 1
Row  == 0 .. NROWS - 1
Col  == 0 .. 2 * NCOLS - 1          \* 16-bit columns
Lane == 0 .. 3                      \* byte lanes of a word
Half == [0 .. 1 -> Byte]
Word == [Lane -> Byte]
SDRAM_SIZE == 4 * NCOLS * NROWS * NBANKS    \* bytes: addr has this range

LoHalf(w) == [i \in 0 .. 1 |-> w[i]]
HiHalf(w) == [i \in 0 .. 1 |-> w[i + 2]]
Joined(lo, hi) == [i \in Lane |-> IF i < 2 THEN lo[i] ELSE hi[i - 2]]
ZeroHalf == [i \in 0 .. 1 |-> 0]
ZeroWord == [i \in Lane |-> 0]

\* The slices of a byte address: bank, row, column pair; addr[1:0] is unused.
BaOf(a)  == (a \div (4 * NCOLS * NROWS)) % NBANKS
RowOf(a) == (a \div (4 * NCOLS)) % NROWS
ColLo(a) == 2 * ((a \div 4) % NCOLS)
ColHi(a) == 2 * ((a \div 4) % NCOLS) + 1

lat_ba     == BaOf(addr_lat)
lat_row    == RowOf(addr_lat)
lat_col_lo == ColLo(addr_lat)
lat_col_hi == ColHi(addr_lat)

\* sdram_dqm masks the byte lanes that are not strobed.
DqmLo(wstrb) == {i \in 0 .. 1 : i \notin wstrb}
DqmHi(wstrb) == {i \in 0 .. 1 : i + 2 \notin wstrb}

MODE_REG == 48      \* BL=1, sequential, CL=3, single write

Commands == {"INHIBIT", "NOP", "ACT", "READ", "WRITE", "PRECHARGE",
             "REFRESH", "LMR"}

States == {"S_INIT_WAIT", "S_INIT_PRE", "S_INIT_PRE_W", "S_INIT_AR1",
    "S_INIT_AR1_W", "S_INIT_AR2", "S_INIT_AR2_W", "S_INIT_LMR",
    "S_INIT_LMR_W", "S_IDLE", "S_REF_PRE", "S_REF_PRE_W", "S_REF_AR",
    "S_REF_AR_W", "S_ACT", "S_ACT_W", "S_RD_CMD0", "S_RD_NOP1",
    "S_RD_CMD1", "S_RD_WAIT", "S_RD_CAP0", "S_RD_GAP", "S_RD_CAP1",
    "S_RD_PRE_W", "S_WR_CMD0", "S_WR_CMD1", "S_WR_REC", "S_DONE",
    "S_DONE_W", "S_PRE_OLD", "S_PRE_OLD_W"}

-----------------------------------------------------------------------------
(* Reset.                                                                  *)

CtrlInit ==
    /\ state = "S_INIT_WAIT" /\ init_cnt = 0 /\ cnt = 0 /\ initialized = FALSE
    /\ ref_cnt = 0 /\ ref_req = FALSE
    /\ addr_lat = 0 /\ wdata_lat = ZeroWord /\ wstrb_lat = {}
    /\ is_write = FALSE
    /\ row_open = FALSE /\ open_ba = 0 /\ open_row = 0
    /\ cmd = "INHIBIT" /\ sdram_ba = 0 /\ sdram_a = 0 /\ sdram_a10 = FALSE
    /\ sdram_dqm = {} /\ dq_oe = FALSE /\ dq_out = ZeroHalf
    /\ data_lo = ZeroHalf /\ rdata = ZeroWord /\ ready = FALSE

\* if (!rst_n): asynchronous, from any state.
CtrlReset ==
    /\ state' = "S_INIT_WAIT" /\ init_cnt' = 0 /\ cnt' = 0
    /\ initialized' = FALSE
    /\ ref_cnt' = 0 /\ ref_req' = FALSE
    /\ addr_lat' = 0 /\ wdata_lat' = ZeroWord /\ wstrb_lat' = {}
    /\ is_write' = FALSE
    /\ row_open' = FALSE /\ open_ba' = 0 /\ open_row' = 0
    /\ cmd' = "INHIBIT" /\ sdram_ba' = 0 /\ sdram_a' = 0
    /\ sdram_a10' = FALSE /\ sdram_dqm' = {}
    /\ dq_oe' = FALSE /\ dq_out' = ZeroHalf
    /\ data_lo' = ZeroHalf /\ rdata' = ZeroWord /\ ready' = FALSE

-----------------------------------------------------------------------------
(* The refresh counter, an always block of its own.  Clearing ref_req in   *)
(* S_REF_AR is the later assignment and wins over setting it.              *)

\* Mutant: the clear in S_REF_AR is missing.
RefreshNeverCleared ==
    /\ ref_cnt' = IF ~initialized THEN ref_cnt
                  ELSE IF ref_cnt >= REF_INTERVAL THEN 0 ELSE ref_cnt + 1
    /\ ref_req' = (ref_req \/ (initialized /\ ref_cnt >= REF_INTERVAL))

\* Mutant: the expiry is noticed in S_IDLE only.
RefreshOnlyInIdle ==
    /\ ref_cnt' = IF ~initialized THEN ref_cnt
                  ELSE IF ref_cnt >= REF_INTERVAL THEN 0 ELSE ref_cnt + 1
    /\ ref_req' = /\ state # "S_REF_AR"
                  /\ ref_req \/ (ref_cnt >= REF_INTERVAL /\ state = "S_IDLE")

RefreshCounter ==
    \/ /\ ~initialized
       /\ UNCHANGED refvars
    \/ /\ initialized
       /\ ref_cnt' = IF ref_cnt >= REF_INTERVAL THEN 0 ELSE (ref_cnt + 1) % 1024
       /\ ref_req' = /\ state # "S_REF_AR"
                     /\ ref_cnt >= REF_INTERVAL \/ ref_req

-----------------------------------------------------------------------------
(* The FSM, one action for each state.                                     *)

Goto(next) == state' = next

\* A wait state stays until cnt reaches t; some leave cnt at t, some clear it.
WaitKeep(t, next) ==
    \/ cnt >= t /\ Goto(next) /\ UNCHANGED cnt
    \/ cnt < t /\ cnt' = (cnt + 1) % 8 /\ UNCHANGED state
WaitClear(t, next) ==
    \/ cnt >= t /\ Goto(next) /\ cnt' = 0
    \/ cnt < t /\ cnt' = (cnt + 1) % 8 /\ UNCHANGED state

\* Mutant: > for >=.
InitWaitOneMore ==
    /\ state = "S_INIT_WAIT"
    /\ cmd' = "INHIBIT" /\ dq_oe' = FALSE
    /\ \/ /\ init_cnt > INIT_CYCLES
          /\ cnt' = 0 /\ Goto("S_INIT_PRE") /\ UNCHANGED init_cnt
       \/ /\ init_cnt <= INIT_CYCLES
          /\ init_cnt' = (init_cnt + 1) % 16384 /\ UNCHANGED <<cnt, state>>
    /\ UNCHANGED <<initialized, latched, tracking, addrpins, dq_out, answer>>

InitWait ==
    /\ state = "S_INIT_WAIT"
    /\ cmd' = "INHIBIT" /\ dq_oe' = FALSE
    /\ \/ /\ init_cnt >= INIT_CYCLES
          /\ cnt' = 0 /\ Goto("S_INIT_PRE") /\ UNCHANGED init_cnt
       \/ /\ init_cnt < INIT_CYCLES
          /\ init_cnt' = (init_cnt + 1) % 16384 /\ UNCHANGED <<cnt, state>>
    /\ UNCHANGED <<initialized, latched, tracking, addrpins, dq_out, answer>>

\* The states that issue PRECHARGE-ALL: once in the initialisation, and before
\* every refresh, where the open row is forgotten.
PrechargeAll(next) ==
    /\ cmd' = "PRECHARGE" /\ sdram_a10' = TRUE /\ cnt' = 0 /\ Goto(next)
    /\ UNCHANGED <<sdram_ba, sdram_a, sdram_dqm, init_cnt, initialized,
                   latched, datapins, answer, open_ba, open_row>>

\* Mutant: the open row is kept over a refresh.
RefPreKeepsRow == state = "S_REF_PRE" /\ PrechargeAll("S_REF_PRE_W")
                  /\ UNCHANGED row_open

InitPre == state = "S_INIT_PRE" /\ PrechargeAll("S_INIT_PRE_W")
           /\ UNCHANGED row_open
RefPre  == state = "S_REF_PRE" /\ PrechargeAll("S_REF_PRE_W")
           /\ row_open' = FALSE

\* The states that issue AUTO REFRESH.
Refresh(next) ==
    /\ cmd' = "REFRESH" /\ cnt' = 0 /\ Goto(next)
    /\ UNCHANGED <<init_cnt, initialized, latched, tracking, addrpins,
                   datapins, answer>>

InitAr1 == state = "S_INIT_AR1" /\ Refresh("S_INIT_AR1_W")
InitAr2 == state = "S_INIT_AR2" /\ Refresh("S_INIT_AR2_W")
RefAr   == state = "S_REF_AR" /\ Refresh("S_REF_AR_W")

\* What every NOP-issuing wait state leaves alone.
QuietNop ==
    /\ cmd' = "NOP"
    /\ UNCHANGED <<init_cnt, latched, addrpins, dq_out, answer>>

\* Mutant: tRP waited where tRC is due.
InitAr1WShort == /\ state = "S_INIT_AR1_W" /\ QuietNop
                 /\ WaitClear(TRP, "S_INIT_AR2")
                 /\ UNCHANGED <<initialized, tracking, dq_oe>>

InitPreW == /\ state = "S_INIT_PRE_W" /\ QuietNop
            /\ WaitClear(TRP, "S_INIT_AR1")
            /\ UNCHANGED <<initialized, tracking, dq_oe>>
InitAr1W == /\ state = "S_INIT_AR1_W" /\ QuietNop
            /\ WaitClear(TRC, "S_INIT_AR2")
            /\ UNCHANGED <<initialized, tracking, dq_oe>>
InitAr2W == /\ state = "S_INIT_AR2_W" /\ QuietNop
            /\ WaitClear(TRC, "S_INIT_LMR")
            /\ UNCHANGED <<initialized, tracking, dq_oe>>
RefPreW  == /\ state = "S_REF_PRE_W" /\ QuietNop
            /\ WaitClear(TRP, "S_REF_AR")
            /\ UNCHANGED <<initialized, tracking, dq_oe>>
RefArW   == /\ state = "S_REF_AR_W" /\ QuietNop
            /\ WaitKeep(TRC, "S_IDLE")
            /\ UNCHANGED <<initialized, tracking, dq_oe>>
PreOldW  == /\ state = "S_PRE_OLD_W" /\ QuietNop
            /\ WaitClear(TRP, "S_ACT")
            /\ UNCHANGED <<initialized, tracking, dq_oe>>
RdPreW   == /\ state = "S_RD_PRE_W" /\ QuietNop
            /\ WaitKeep(TRP, "S_DONE")
            /\ UNCHANGED <<initialized, tracking, dq_oe>>
WrRec    == /\ state = "S_WR_REC" /\ QuietNop /\ dq_oe' = FALSE
            /\ WaitKeep((TWR + TRP) % 8, "S_DONE")
            /\ UNCHANGED <<initialized, tracking>>

InitLmr ==
    /\ state = "S_INIT_LMR"
    /\ cmd' = "LMR" /\ sdram_ba' = 0 /\ sdram_a' = MODE_REG /\ sdram_a10' = FALSE
    /\ cnt' = 0 /\ Goto("S_INIT_LMR_W")
    /\ UNCHANGED <<sdram_dqm, init_cnt, initialized, latched, tracking,
                   datapins, answer>>

InitLmrW ==
    /\ state = "S_INIT_LMR_W" /\ QuietNop /\ WaitKeep(TMRD, "S_IDLE")
    /\ initialized' = (initialized \/ cnt >= TMRD)
    /\ UNCHANGED <<tracking, dq_oe>>

\* Mutants: the bank, or the row, is not compared.
RowHitAnyBank(addr) == row_open /\ RowOf(addr) = open_row
RowHitAnyRow(addr) == row_open /\ BaOf(addr) = open_ba

\* The page-mode hit: the open row is that of the address.
RowHit(addr) == row_open /\ BaOf(addr) = open_ba /\ RowOf(addr) = open_row

\* S_IDLE: a refresh request goes before a bus request.  A request is latched
\* and dispatched on whether it hits the open row, misses it, or none is open.
Idle(sel, addr, wdata, wstrb) ==
    /\ state = "S_IDLE" /\ cmd' = "NOP" /\ dq_oe' = FALSE
    /\ \/ /\ ref_req
          /\ Goto("S_REF_PRE") /\ UNCHANGED latched
       \/ /\ ~ref_req /\ sel
          /\ addr_lat' = addr /\ wdata_lat' = wdata /\ wstrb_lat' = wstrb
          /\ is_write' = (wstrb # {})
          /\ Goto(CASE RowHit(addr) -> IF wstrb # {} THEN "S_WR_CMD0"
                                                    ELSE "S_RD_CMD0"
                    [] row_open /\ ~RowHit(addr) -> "S_PRE_OLD"
                    [] ~row_open -> "S_ACT")
       \/ /\ ~ref_req /\ ~sel
          /\ UNCHANGED <<state, latched>>
    /\ UNCHANGED <<fsmvars, tracking, addrpins, dq_out, answer>>

\* The row number overwrites A10 too; nothing reads it before it is set again.
Act ==
    /\ state = "S_ACT"
    /\ cmd' = "ACT" /\ sdram_ba' = lat_ba /\ sdram_a' = lat_row
    /\ sdram_a10' \in BOOLEAN
    /\ cnt' = 0 /\ Goto("S_ACT_W")
    /\ UNCHANGED <<sdram_dqm, init_cnt, initialized, latched, tracking,
                   datapins, answer>>

ActW ==
    /\ state = "S_ACT_W" /\ QuietNop
    /\ WaitClear(TRCD, IF is_write THEN "S_WR_CMD0" ELSE "S_RD_CMD0")
    /\ \/ cnt >= TRCD /\ row_open' = TRUE /\ open_ba' = lat_ba
                      /\ open_row' = lat_row
       \/ cnt < TRCD /\ UNCHANGED tracking
    /\ UNCHANGED <<initialized, dq_oe>>

\* READ and WRITE keep the row open: A10 is low.
Column(c, col, dqm) ==
    /\ cmd' = c /\ sdram_ba' = lat_ba /\ sdram_a' = col /\ sdram_a10' = FALSE
    /\ sdram_dqm' = dqm
    /\ UNCHANGED <<init_cnt, initialized, latched, tracking, answer>>

\* Mutants: the read drives the bus; the high half is masked like the low one.
RdCmd0Drives == /\ state = "S_RD_CMD0" /\ Column("READ", lat_col_lo, {})
                /\ dq_oe' = TRUE
                /\ Goto("S_RD_NOP1") /\ UNCHANGED <<cnt, dq_out>>
WrCmd1LowMask == /\ state = "S_WR_CMD1"
                 /\ Column("WRITE", lat_col_hi, DqmLo(wstrb_lat))
                 /\ dq_out' = HiHalf(wdata_lat)
                 /\ cnt' = 0 /\ Goto("S_WR_REC") /\ UNCHANGED dq_oe

RdCmd0 == /\ state = "S_RD_CMD0" /\ Column("READ", lat_col_lo, {})
          /\ Goto("S_RD_NOP1") /\ UNCHANGED <<cnt, datapins>>
RdCmd1 == /\ state = "S_RD_CMD1" /\ Column("READ", lat_col_hi, {})
          /\ Goto("S_RD_WAIT") /\ UNCHANGED <<cnt, datapins>>
WrCmd0 == /\ state = "S_WR_CMD0"
          /\ Column("WRITE", lat_col_lo, DqmLo(wstrb_lat))
          /\ dq_oe' = TRUE /\ dq_out' = LoHalf(wdata_lat)
          /\ Goto("S_WR_CMD1") /\ UNCHANGED cnt
WrCmd1 == /\ state = "S_WR_CMD1"
          /\ Column("WRITE", lat_col_hi, DqmHi(wstrb_lat))
          /\ dq_out' = HiHalf(wdata_lat)
          /\ cnt' = 0 /\ Goto("S_WR_REC") /\ UNCHANGED dq_oe

\* The states that only let a cycle pass.
Pass(from, to) ==
    /\ state = from /\ QuietNop /\ Goto(to)
    /\ UNCHANGED <<cnt, initialized, tracking, dq_oe>>
RdNop1 == Pass("S_RD_NOP1", "S_RD_CMD1")
RdWait == Pass("S_RD_WAIT", "S_RD_CAP0")
RdGap  == Pass("S_RD_GAP", "S_RD_CAP1")
DoneAtOnce == Pass("S_DONE", "S_IDLE")      \* mutant: no S_DONE_W
Done   == Pass("S_DONE", "S_DONE_W")
DoneW  == Pass("S_DONE_W", "S_IDLE")

RdCap0(dq) ==
    /\ state = "S_RD_CAP0" /\ cmd' = "NOP"
    /\ data_lo' \in dq /\ Goto("S_RD_GAP")
    /\ UNCHANGED <<fsmvars, latched, tracking, addrpins, datapins, rdata>>

RdCap1(dq) ==
    /\ state = "S_RD_CAP1" /\ cmd' = "NOP"
    /\ rdata' \in {Joined(data_lo, h) : h \in dq} /\ cnt' = 0 /\ Goto("S_RD_PRE_W")
    /\ UNCHANGED <<init_cnt, initialized, latched, tracking, addrpins, datapins,
                   data_lo>>

\* A miss closes the open row, in its own bank only.
PreOld ==
    /\ state = "S_PRE_OLD"
    /\ cmd' = "PRECHARGE" /\ sdram_ba' = open_ba /\ sdram_a10' = FALSE
    /\ cnt' = 0 /\ row_open' = FALSE /\ Goto("S_PRE_OLD_W")
    /\ UNCHANGED <<sdram_a, sdram_dqm, init_cnt, initialized, latched, open_ba,
                   open_row, datapins, answer>>

Initialise == \/ InitWait \/ InitPre \/ InitPreW \/ InitAr1 \/ InitAr1W
              \/ InitAr2 \/ InitAr2W \/ InitLmr \/ InitLmrW
RefreshRow == RefPre \/ RefPreW \/ RefAr \/ RefArW
OpenRow    == PreOld \/ PreOldW \/ Act \/ ActW
Read(dq)   == \/ RdCmd0 \/ RdNop1 \/ RdCmd1 \/ RdWait \/ RdCap0(dq)
              \/ RdGap \/ RdCap1(dq) \/ RdPreW
Write      == WrCmd0 \/ WrCmd1 \/ WrRec
Finish     == Done \/ DoneW

\* One rising edge, with the inputs it samples; dq is the set of values the
\* data bus may show.
CtrlClock(sel, addr, wdata, wstrb, dq) ==
    /\ RefreshCounter
    /\ ready' = (state = "S_DONE")
    /\ \/ Initialise \/ Idle(sel, addr, wdata, wstrb) \/ RefreshRow
       \/ OpenRow \/ Read(dq) \/ Write \/ Finish

FsmTypeOK ==
    /\ state \in States /\ init_cnt \in 0 .. INIT_CYCLES /\ cnt \in 0 .. 7
    /\ initialized \in BOOLEAN
RefreshTypeOK ==
    /\ ref_cnt \in 0 .. REF_INTERVAL /\ ref_req \in BOOLEAN
LatchTypeOK ==
    /\ addr_lat \in 0 .. SDRAM_SIZE - 1 /\ wdata_lat \in Word
    /\ wstrb_lat \in SUBSET Lane /\ is_write \in BOOLEAN
RowTypeOK ==
    /\ row_open \in BOOLEAN /\ open_ba \in Bank /\ open_row \in Row
PinTypeOK ==
    /\ cmd \in Commands /\ sdram_ba \in Bank /\ sdram_a \in Nat
    /\ cmd = "ACT" => sdram_a \in Row
    /\ cmd \in {"READ", "WRITE"} => sdram_a \in Col
    /\ sdram_a10 \in BOOLEAN /\ sdram_dqm \in SUBSET (0 .. 1)
    /\ dq_oe \in BOOLEAN /\ dq_out \in Half
AnswerTypeOK ==
    /\ data_lo \in Half /\ rdata \in Word /\ ready \in BOOLEAN

CtrlTypeOK == /\ FsmTypeOK /\ RefreshTypeOK /\ LatchTypeOK /\ RowTypeOK
              /\ PinTypeOK /\ AnswerTypeOK
=============================================================================
