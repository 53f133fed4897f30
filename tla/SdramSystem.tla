----------------------------- MODULE SdramSystem -----------------------------
(***************************************************************************)
(* CPU bus master, bridge, controller and SDRAM chip on one clock, with    *)
(* the power-on reset of rtl/ax301_top.vhd.                                *)
(*                                                                         *)
(* A step Tick is one clock cycle: on the rising edge the master, the      *)
(* bridge and the controller read each other's old registers, and half a   *)
(* cycle later the chip samples the pins the controller has just set.      *)
(*                                                                         *)
(* The master is the XBUS port of the NEORV32, which is not part of the    *)
(* repository: it strobes a request for one cycle, holds it until the      *)
(* acknowledge, and gives up after XBUS_TIMEOUT cycles.                    *)
(***************************************************************************)
EXTENDS WbSdram

CONSTANTS
    Requests,       \* requests the CPU makes: [adr, we, sel, dat]
    XBUS_TIMEOUT,   \* cycles the CPU waits for an acknowledge
    EARLY_ACCESS,   \* whether the CPU may use the SDRAM before it is initialised
    POR_CYCLES,     \* reset is held this long after KEY2 is released
    MAX_KEYS,       \* bound: how often KEY2 is pressed
    NoRequest       \* what XbusMemory shows on an idle bus

RequestType == [adr : Nat, we : BOOLEAN, sel : SUBSET Lane, dat : Word]
ASSUME RequestAssumption ==
    Requests \subseteq RequestType /\ NoRequest \notin RequestType
ASSUME BoardAssumption ==
    /\ EARLY_ACCESS \in BOOLEAN /\ XBUS_TIMEOUT \in Nat
    /\ POR_CYCLES \in Nat /\ MAX_KEYS \in Nat

VARIABLES
    m_wait,         \* cycles since the strobe of the request on the bus
    por_cnt,        \* power-on reset counter
    keys,           \* history: KEY2 presses
    ref_gap         \* history: cycles since the last REFRESH once initialised

boardVars == <<m_wait, por_cnt, keys, ref_gap>>
vars == <<ctrlVars, devVars, xbusVars, bridgeVars, boardVars>>

rst_n == por_cnt = POR_CYCLES

\* Far above the interval at which the refresh counter asks for a refresh.
GAP_MAX == 2 * (REF_INTERVAL + 1) + 64

-----------------------------------------------------------------------------
(* The XBUS master.                                                        *)

MasterFree == ~xbus_cyc \/ xbus_ack

MasterStart ==
    /\ MasterFree
    /\ EARLY_ACCESS \/ initialized
    /\ \E r \in Requests :
         /\ xbus_adr' = r.adr /\ xbus_we' = r.we /\ xbus_sel' = r.sel
         /\ xbus_dat_w' = r.dat
    /\ xbus_cyc' = TRUE /\ xbus_stb' = TRUE /\ m_wait' = 0

MasterIdle ==
    /\ MasterFree
    /\ xbus_cyc' = FALSE /\ xbus_stb' = FALSE /\ m_wait' = 0
    /\ UNCHANGED <<xbus_adr, xbus_we, xbus_sel, xbus_dat_w>>

MasterHold ==
    /\ ~MasterFree /\ m_wait < XBUS_TIMEOUT
    /\ xbus_stb' = FALSE /\ m_wait' = m_wait + 1
    /\ UNCHANGED <<xbus_cyc, xbus_adr, xbus_we, xbus_sel, xbus_dat_w>>

MasterTimeout ==
    /\ ~MasterFree /\ m_wait >= XBUS_TIMEOUT
    /\ xbus_cyc' = FALSE /\ xbus_stb' = FALSE /\ m_wait' = 0
    /\ UNCHANGED <<xbus_adr, xbus_we, xbus_sel, xbus_dat_w>>

MasterClock == MasterStart \/ MasterIdle \/ MasterHold \/ MasterTimeout

-----------------------------------------------------------------------------
(* The composition.                                                        *)

Init ==
    /\ CtrlInit /\ DevInit /\ BridgeInit
    /\ xbus_cyc = FALSE /\ xbus_stb = FALSE /\ xbus_adr = 0 /\ xbus_we = FALSE
    /\ xbus_sel = {} /\ xbus_dat_w = ZeroWord
    /\ m_wait = 0 /\ por_cnt = 0 /\ keys = 0 /\ ref_gap = 0

\* The falling edge, on the controller's new pins.
FallingEdge ==
    DevClock(cmd', sdram_ba', sdram_a', sdram_a10', sdram_dqm',
             IF dq_oe' THEN {dq_out'} ELSE Half)

RefreshGap ==
    ref_gap' = IF cmd' = "REFRESH" \/ ~initialized THEN 0
               ELSE IF ref_gap < GAP_MAX THEN ref_gap + 1 ELSE GAP_MAX

Tick ==
    /\ rst_n
    /\ MasterClock
    /\ BridgeClock
    /\ CtrlClock(pending, SdramAddr(xbus_adr), xbus_dat_w, CtrlStrobes, DqSample)
    /\ FallingEdge
    /\ RefreshGap
    /\ UNCHANGED <<por_cnt, keys>>

\* A cycle in reset: only the counter and the chip move.
PorTick ==
    /\ ~rst_n
    /\ por_cnt' = por_cnt + 1
    /\ DevClock(cmd, sdram_ba, sdram_a, sdram_a10, sdram_dqm, Half)
    /\ UNCHANGED <<ctrlVars, xbusVars, bridgeVars, m_wait, keys, ref_gap>>

\* KEY2 resets the FPGA at any time; the chip keeps its state.
KeyReset ==
    /\ keys < MAX_KEYS
    /\ keys' = keys + 1 /\ por_cnt' = 0 /\ m_wait' = 0 /\ ref_gap' = 0
    /\ CtrlReset /\ BridgeReset
    /\ xbus_cyc' = FALSE /\ xbus_stb' = FALSE /\ xbus_adr' = 0
    /\ xbus_we' = FALSE /\ xbus_sel' = {} /\ xbus_dat_w' = ZeroWord
    /\ UNCHANGED devVars

Next == Tick \/ PorTick \/ KeyReset

\* The clock never stops; nobody has to press the key.
Spec == Init /\ [][Next]_vars /\ WF_vars(Tick) /\ WF_vars(PorTick)

-----------------------------------------------------------------------------
TypeOK ==
    /\ CtrlTypeOK /\ DevTypeOK /\ BridgeTypeOK
    /\ xbus_cyc \in BOOLEAN /\ xbus_stb \in BOOLEAN /\ xbus_adr \in Nat
    /\ xbus_we \in BOOLEAN /\ xbus_sel \in SUBSET Lane /\ xbus_dat_w \in Word
    /\ m_wait \in 0 .. XBUS_TIMEOUT /\ por_cnt \in 0 .. POR_CYCLES
    /\ keys \in 0 .. MAX_KEYS /\ ref_gap \in 0 .. GAP_MAX

-----------------------------------------------------------------------------
(* What the chip requires of its commands.                                 *)

\* While the reset is held the controller sends no command.
ResetInv == ~rst_n => state = "S_INIT_WAIT" /\ cmd = "INHIBIT"

\* Every command is one the chip accepts in the state its banks are in when it
\* samples it: ACT to an idle bank, READ and WRITE to an open bank whose row is
\* that of the request and only once the mode register is loaded, REFRESH and
\* LMR with all banks idle (the ERROR and WARN checks of sim/sdram_model.v).
LegalCommand ==
    /\ cmd' = "ACT" => ~bank_active[sdram_ba']
    /\ cmd' \in {"READ", "WRITE"} =>
         lmr_done /\ bank_active[sdram_ba'] /\ bank_row[sdram_ba'] = lat_row
    /\ cmd' \in {"REFRESH", "LMR"} => \A b \in Bank : ~bank_active[b]
CommandLegal == [][LegalCommand]_vars

\* Between two commands whose spacing the data sheet limits lie at least as
\* many cycles as the timing parameters of sdram_ctrl.v say, whatever request,
\* refresh or reset comes between them.
LegalSpacing ==
    /\ cmd' = "ACT" => /\ since["PRECHARGE"] >= TRP /\ since["REFRESH"] >= TRC
                       /\ since["LMR"] >= TMRD
    /\ cmd' \in {"READ", "WRITE"} => since["ACT"] >= TRCD
    /\ cmd' = "PRECHARGE" => since["WRITE"] >= TWR
    /\ cmd' \in {"REFRESH", "LMR"} =>
         since["PRECHARGE"] >= TRP /\ since["REFRESH"] >= TRC
SpacingLegal == [][LegalSpacing]_vars

\* The states in which the row tracking must be exact.
AccessStates == {"S_RD_CMD0", "S_RD_NOP1", "S_RD_CMD1", "S_RD_WAIT",
    "S_RD_CAP0", "S_RD_GAP", "S_RD_CAP1", "S_RD_PRE_W", "S_WR_CMD0",
    "S_WR_CMD1", "S_WR_REC", "S_DONE", "S_DONE_W"}
InitStates == {"S_INIT_WAIT", "S_INIT_PRE", "S_INIT_PRE_W", "S_INIT_AR1",
    "S_INIT_AR1_W", "S_INIT_AR2", "S_INIT_AR2_W", "S_INIT_LMR", "S_INIT_LMR_W"}

\* What the controller believes of the open row is what the chip holds, from
\* the precharge of the initialisation on: the tracked bank is open at the
\* tracked row and no other bank is open; in S_ACT_W the row being opened is
\* the only one, before the controller has noted it.  A stale belief would
\* send a READ or a WRITE to the wrong row (page-mode hits skip ACT).
RowTracking ==
    state \notin {"S_INIT_WAIT", "S_INIT_PRE"} =>
        \A b \in Bank :
            /\ bank_active[b] <=> \/ row_open /\ b = open_ba
                                  \/ state = "S_ACT_W" /\ b = lat_ba
            /\ row_open /\ b = open_ba => bank_row[b] = open_row
            /\ state = "S_ACT_W" /\ b = lat_ba => bank_row[b] = lat_row

\* What makes RowTracking inductive: where a row may be open, that an access
\* works on the open row, and what the initialisation has done.
ClosedStates == InitStates \cup {"S_REF_PRE_W", "S_REF_AR", "S_REF_AR_W",
                                 "S_PRE_OLD_W", "S_ACT", "S_ACT_W"}
RowInv ==
    /\ RowTracking
    /\ state \in ClosedStates => ~row_open
    /\ state \in AccessStates => /\ row_open /\ open_ba = lat_ba
                                 /\ open_row = lat_row
    /\ initialized <=> state \notin InitStates
    /\ state \notin InitStates \ {"S_INIT_LMR_W"} => lmr_done

\* The controller and the chip never drive the data bus in the same cycle.
NoContention == ~(dq_oe /\ rd_valid[0])

\* What makes NoContention inductive: the last place of the read pipeline that
\* may still hold a word, in each state (-1: the pipeline is empty).  A reset
\* in mid-read leaves words in it, which drain during the initialisation.
PipeTop ==
    CASE state \in {"S_INIT_WAIT", "S_RD_NOP1", "S_RD_WAIT"} -> 4
      [] state \in {"S_INIT_PRE", "S_RD_CMD1", "S_RD_CAP0"}  -> 3
      [] state \in {"S_INIT_PRE_W", "S_RD_GAP"}              -> 2
      [] state \in {"S_INIT_AR1", "S_RD_CAP1"}               -> 1
      [] state = "S_INIT_AR1_W"                              -> 0
      [] state = "S_RD_PRE_W" /\ cnt = 0                     -> 0
      [] OTHER -> -1
PipeInv ==
    /\ \A i \in Slots : rd_valid[i] => i <= PipeTop
    /\ dq_oe => state \in {"S_WR_CMD1", "S_WR_REC"}

-----------------------------------------------------------------------------
(* Spacing of the commands.                                                *)

\* The power-up wait is long enough to let what a reset interrupted finish in
\* the chip, which the reset does not reach (10000 cycles on the board).
ASSUME PowerUpAssumption ==
    TWR <= INIT_CYCLES + 1 /\ TRC <= INIT_CYCLES + TRP + 3

\* A command of kind k lies n cycles back, as far as the history counts.
Ago(k, n) == since[k] >= n \/ since[k] = LONG_AGO

\* What makes SpacingLegal inductive: in the state that waits after a command
\* its age is at least the wait counter, and in every other state it is past
\* its limit, up to the initialisation that a reset has started.
SpaceInv ==
    /\ state = "S_INIT_WAIT" => \A k \in Spaced : Ago(k, init_cnt)
    /\ state = "S_INIT_PRE" => \A k \in Spaced : Ago(k, INIT_CYCLES + 1)
    /\ state = "S_INIT_PRE_W" => Ago("REFRESH", INIT_CYCLES + 2 + cnt)
    /\ state \in {"S_INIT_PRE_W", "S_REF_PRE_W", "S_PRE_OLD_W"} =>
         since["PRECHARGE"] >= cnt
    /\ state \in {"S_INIT_AR1_W", "S_INIT_AR2_W", "S_REF_AR_W"} =>
         since["REFRESH"] >= cnt
    /\ state = "S_INIT_LMR_W" => since["LMR"] >= cnt
    /\ state = "S_ACT_W" => since["ACT"] >= cnt
    /\ state = "S_WR_REC" => since["WRITE"] >= cnt
    /\ state \notin {"S_INIT_WAIT", "S_INIT_PRE", "S_INIT_PRE_W", "S_REF_PRE_W",
                    "S_PRE_OLD_W"} => since["PRECHARGE"] >= TRP
    /\ state \notin {"S_INIT_WAIT", "S_INIT_PRE", "S_INIT_PRE_W", "S_INIT_AR1_W",
                    "S_INIT_AR2_W", "S_REF_AR_W"} => since["REFRESH"] >= TRC
    /\ state \notin InitStates => since["LMR"] >= TMRD
    /\ row_open => since["ACT"] >= TRCD
    /\ state \notin {"S_INIT_WAIT", "S_WR_CMD1", "S_WR_REC"} =>
         since["WRITE"] >= TWR

-----------------------------------------------------------------------------
(* Refresh.                                                                *)

\* The most cycles until S_REF_AR is reached from each state, when a refresh
\* has been requested: what is in progress is finished first.
AfterDone == TRP + 5
AfterRead == TRP + 1 + AfterDone
AfterWrite == TWR + TRP + 1 + AfterDone
AfterAct == IF AfterRead + 7 > AfterWrite + 2 THEN AfterRead + 7
                                              ELSE AfterWrite + 2
MAX_DUE == AfterAct + TRCD + TRP + 4
RefreshDue ==
    CASE state = "S_REF_AR"    -> 0
      [] state = "S_REF_PRE_W" -> TRP + 1 - cnt
      [] state = "S_REF_PRE"   -> TRP + 2
      [] state = "S_IDLE"      -> TRP + 3
      [] state = "S_DONE_W"    -> TRP + 4
      [] state = "S_DONE"      -> AfterDone
      [] state = "S_RD_PRE_W"  -> AfterRead - cnt
      [] state = "S_RD_CAP1"   -> AfterRead + 1
      [] state = "S_RD_GAP"    -> AfterRead + 2
      [] state = "S_RD_CAP0"   -> AfterRead + 3
      [] state = "S_RD_WAIT"   -> AfterRead + 4
      [] state = "S_RD_CMD1"   -> AfterRead + 5
      [] state = "S_RD_NOP1"   -> AfterRead + 6
      [] state = "S_RD_CMD0"   -> AfterRead + 7
      [] state = "S_WR_REC"    -> AfterWrite - cnt
      [] state = "S_WR_CMD1"   -> AfterWrite + 1
      [] state = "S_WR_CMD0"   -> AfterWrite + 2
      [] state = "S_ACT_W"     -> AfterAct + TRCD + 1 - cnt
      [] state = "S_ACT"       -> AfterAct + TRCD + 2
      [] state = "S_PRE_OLD_W" -> AfterAct + TRCD + TRP + 3 - cnt
      [] state = "S_PRE_OLD"   -> MAX_DUE
      [] state = "S_REF_AR_W"  -> TRC + 1 - cnt + TRP + 3
      [] OTHER -> 0

\* One access and one refresh fit into the interval (21 < 380 on the board).
ASSUME RefreshAssumption == MAX_DUE < REF_INTERVAL

\* A requested refresh is on time in every state: the cycles since the request
\* and the most that are still to come are never more than MAX_DUE.
RefreshOnTime == ref_req => ref_cnt + RefreshDue <= MAX_DUE

\* What makes RefreshOnTime inductive.
WaitBound ==
    /\ state \in {"S_REF_PRE_W", "S_RD_PRE_W", "S_PRE_OLD_W"} => cnt <= TRP
    /\ state = "S_WR_REC" => cnt <= TWR + TRP
    /\ state = "S_ACT_W" => cnt <= TRCD
    /\ state = "S_REF_AR_W" => cnt <= TRC
RefreshInv ==
    /\ RefreshOnTime
    /\ WaitBound
    /\ initialized <=> state \notin InitStates
    /\ ~initialized => ref_cnt = 0 /\ ~ref_req
    /\ state \in {"S_REF_PRE", "S_REF_PRE_W", "S_REF_AR"} => ref_req
    /\ ref_gap <= IF ref_req THEN ref_cnt + REF_INTERVAL + 1 ELSE ref_cnt

\* No refresh is ever lost: when the interval counter expires, the previous
\* request has been served, so that neither setting ref_req twice nor clearing
\* it in the cycle that sets it (S_REF_AR) can swallow one.  The chip gets one
\* AUTO REFRESH for every expiry, that is one in REF_INTERVAL + 1 cycles.
RefreshNotLost ==
    initialized /\ ref_cnt >= REF_INTERVAL => ~ref_req /\ state # "S_REF_AR"

\* Two refreshes are never further apart than one interval and the longest
\* access that can be in progress when the counter expires.
RefreshGapBounded == ref_gap <= REF_INTERVAL + 1 + MAX_DUE

-----------------------------------------------------------------------------
(* The bus.                                                                *)

\* While the controller works on an access, it is for the request that is on
\* the bus and was accepted: nothing of it changed between the strobe and the
\* moment the controller latched it (the bridge latches nothing), and no
\* access is started for a request already answered (S_DONE_W).
ServesTheRequest ==
    state \in AccessStates \cup {"S_ACT", "S_ACT_W", "S_PRE_OLD", "S_PRE_OLD_W"} =>
        /\ pending /\ xbus_cyc /\ InSdram(xbus_adr)
        /\ addr_lat = SdramAddr(xbus_adr)
        /\ wstrb_lat = CtrlStrobes /\ is_write = (CtrlStrobes # {})
        /\ wdata_lat = xbus_dat_w

\* The longest a request made after the initialisation waits: the bridge takes
\* it, the controller grants a refresh first, after which no row is open; then
\* the row is opened, the access made, and the answer passed on.
MAX_LATENCY == 2 + (TRP + TRC + 5) + (TRCD + 2) + (AfterAct - AfterDone) + 2

\* The bus never times out on an SDRAM that has been initialised: every
\* acknowledge comes within MAX_LATENCY cycles of the strobe, well below
\* XBUS_TIMEOUT, even when a refresh is due first.  As the clock does not stop,
\* every request is answered: refreshes cannot starve the CPU.
AckInTime == xbus_cyc => m_wait <= MAX_LATENCY

-----------------------------------------------------------------------------
(* What makes the two properties of the bus inductive.                     *)

\* The CPU uses the SDRAM when it is initialised, waits long enough, and one
\* refresh is over before the next is asked for (26 < 380 on the board).
BusAssumptions ==
    /\ ~EARLY_ACCESS /\ MAX_LATENCY <= XBUS_TIMEOUT
    /\ MAX_DUE + TRC + 1 < REF_INTERVAL

ServingStates ==
    AccessStates \cup {"S_ACT", "S_ACT_W", "S_PRE_OLD", "S_PRE_OLD_W"}

\* The most cycles until the acknowledge of a pending request.
FromColumn == AfterAct - AfterDone + 2
FromAct == TRCD + 2 + FromColumn
AnswerDue ==
    CASE state = "S_DONE_W"    -> 1
      [] state = "S_DONE"      -> 2
      [] state = "S_RD_PRE_W"  -> TRP + 3 - cnt
      [] state = "S_RD_CAP1"   -> TRP + 4
      [] state = "S_RD_GAP"    -> TRP + 5
      [] state = "S_RD_CAP0"   -> TRP + 6
      [] state = "S_RD_WAIT"   -> TRP + 7
      [] state = "S_RD_CMD1"   -> TRP + 8
      [] state = "S_RD_NOP1"   -> TRP + 9
      [] state = "S_RD_CMD0"   -> TRP + 10
      [] state = "S_WR_REC"    -> TWR + TRP + 3 - cnt
      [] state = "S_WR_CMD1"   -> TWR + TRP + 4
      [] state = "S_WR_CMD0"   -> TWR + TRP + 5
      [] state = "S_ACT_W"     -> TRCD + 1 - cnt + FromColumn
      [] state = "S_ACT"       -> FromAct
      [] state = "S_PRE_OLD_W" -> TRP + 1 - cnt + FromAct
      [] state = "S_PRE_OLD"   -> TRP + 2 + FromAct
      [] state = "S_REF_AR_W"  -> TRC + 2 - cnt + FromAct
      [] state = "S_REF_AR"    -> TRC + 3 + FromAct
      [] state = "S_REF_PRE_W" -> TRP + 1 - cnt + TRC + 3 + FromAct
      [] state = "S_REF_PRE"   -> TRP + TRC + 5 + FromAct
      [] state = "S_IDLE" /\ ref_req -> TRP + TRC + 6 + FromAct
      [] state = "S_IDLE" /\ ~ref_req /\ row_open -> TRP + 3 + FromAct
      [] state = "S_IDLE" /\ ~ref_req /\ ~row_open -> 1 + FromAct
      [] OTHER -> 0

\* The handshake: a request is strobed, then pending, then acknowledged.
BusInv ==
    /\ ready <=> state = "S_DONE_W"
    /\ xbus_stb => xbus_cyc /\ ~pending /\ ~xbus_ack
    /\ xbus_ack => xbus_cyc /\ ~pending
    /\ pending => xbus_cyc /\ InSdram(xbus_adr)
    /\ xbus_cyc => initialized /\ (xbus_stb \/ xbus_ack \/ pending)
    /\ ServesTheRequest

\* The request in its time, which a refresh can delay once: when it is over
\* the counter is still far from expiring again.
LatencyInv ==
    /\ xbus_stb => m_wait = 0
    /\ xbus_ack => m_wait <= MAX_LATENCY
    /\ pending => m_wait + AnswerDue <= MAX_LATENCY
    /\ state = "S_REF_AR_W" => ~ref_req /\ ref_cnt <= MAX_DUE + 1 + cnt

-----------------------------------------------------------------------------
(* SdramSystem implements XbusMemory.  The abstract memory is what the     *)
(* chip stores, word by word; a half counts as written from the cycle in   *)
(* which the chip samples its WRITE.                                       *)

CellLo(a) == <<BaOf(a), RowOf(a), ColLo(a)>>
CellHi(a) == <<BaOf(a), RowOf(a), ColHi(a)>>
WordStore == [w \in 0 .. (SDRAM_SIZE \div 4) - 1 |->
                Joined(mem[CellLo(4 * w)], mem[CellHi(4 * w)])]

OnBus == IF xbus_cyc
         THEN [adr |-> xbus_adr, we |-> xbus_we, sel |-> xbus_sel,
               dat |-> xbus_dat_w]
         ELSE NoRequest

HiWritten == is_write /\ state \in {"S_WR_REC", "S_DONE", "S_DONE_W"}
LoWritten == HiWritten \/ state = "S_WR_CMD1"

Memory == INSTANCE XbusMemory WITH
    Size <- SDRAM_SIZE, Tag <- SDRAM_TAG, store <- WordStore, req <- OnBus,
    lo <- LoWritten, hi <- HiWritten, ack <- xbus_ack, dat <- xbus_dat_r

\* Through the bridge, the page-mode controller, its refreshes and the read
\* pipeline of the chip, the CPU sees a plain memory: every acknowledged read
\* returns the last bytes written to that word, whatever rows and banks were
\* opened, refreshed or reset in between, and no other word changes.
ImplementsMemory == Memory!Spec

\* What the refinement needs beside BusInv: where the two halves of a read are
\* on their way from the latched word to rdata, with a CAS latency of 3, and
\* that the FSM branch is that of the request.
Flies(i, cell) == rd_valid[i] /\ rd_data[i] = mem[cell]
DataInv ==
    /\ state \in {"S_RD_CMD0", "S_RD_NOP1", "S_RD_CMD1", "S_RD_WAIT", "S_RD_CAP0",
                  "S_RD_GAP", "S_RD_CAP1", "S_RD_PRE_W"} => ~is_write
    /\ state \in {"S_WR_CMD0", "S_WR_CMD1", "S_WR_REC"} => is_write
    /\ state = "S_WR_CMD1" => dq_oe
    /\ state = "S_RD_NOP1" => Flies(3, CellLo(addr_lat))
    /\ state = "S_RD_CMD1" => Flies(2, CellLo(addr_lat))
    /\ state = "S_RD_WAIT" => Flies(1, CellLo(addr_lat)) /\ Flies(3, CellHi(addr_lat))
    /\ state = "S_RD_CAP0" => Flies(0, CellLo(addr_lat)) /\ Flies(2, CellHi(addr_lat))
    /\ state = "S_RD_GAP" => Flies(1, CellHi(addr_lat))
    /\ state = "S_RD_CAP1" => Flies(0, CellHi(addr_lat))
    /\ state \in {"S_RD_GAP", "S_RD_CAP1"} => data_lo = mem[CellLo(addr_lat)]
    /\ state \in {"S_RD_PRE_W", "S_DONE", "S_DONE_W"} /\ ~is_write =>
         rdata = Joined(mem[CellLo(addr_lat)], mem[CellHi(addr_lat)])
=============================================================================

