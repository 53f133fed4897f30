------------------------------- MODULE WbSdram -------------------------------
(***************************************************************************)
(* The bridge of rtl/wb_sdram_ctrl.v between the NEORV32 XBUS (Wishbone)   *)
(* and the SDRAM controller.  It keeps one flag, pending, and latches      *)
(* nothing of the request: the controller reads xbus_adr, xbus_dat_w,      *)
(* xbus_we and xbus_sel when its FSM gets to S_IDLE, which may be long     *)
(* after the strobe.                                                       *)
(***************************************************************************)
EXTENDS SdramDevice

\* xbus_adr[31:25] of the SDRAM window (7'b010_0000 on the board).
CONSTANT SDRAM_TAG
ASSUME TagAssumption == SDRAM_TAG \in Nat

VARIABLES
    xbus_cyc, xbus_stb, xbus_adr, xbus_we, xbus_sel, xbus_dat_w, \* from the CPU
    pending, xbus_ack, xbus_dat_r,
    dbg_any_req, dbg_sdram_req, dbg_sdram_ack       \* sticky debug LEDs

xbusVars   == <<xbus_cyc, xbus_stb, xbus_adr, xbus_we, xbus_sel, xbus_dat_w>>
bridgeVars == <<pending, xbus_ack, xbus_dat_r, dbg_any_req, dbg_sdram_req,
                dbg_sdram_ack>>

\* The address decoder, and the address and strobes that reach the controller.
InSdram(a)   == a \div SDRAM_SIZE = SDRAM_TAG
SdramAddr(a) == a % SDRAM_SIZE
CtrlStrobes  == IF xbus_we THEN xbus_sel ELSE {}

BridgeInit ==
    /\ pending = FALSE /\ xbus_ack = FALSE /\ xbus_dat_r = ZeroWord
    /\ dbg_any_req = FALSE /\ dbg_sdram_req = FALSE /\ dbg_sdram_ack = FALSE

BridgeReset ==
    /\ pending' = FALSE /\ xbus_ack' = FALSE /\ xbus_dat_r' = ZeroWord
    /\ dbg_any_req' = FALSE /\ dbg_sdram_req' = FALSE /\ dbg_sdram_ack' = FALSE

Strobe == xbus_cyc /\ xbus_stb

\* The two ifs of the clocked block: they exclude each other on pending.
BridgeAccept ==
    /\ Strobe /\ ~pending /\ InSdram(xbus_adr)
    /\ pending' = TRUE /\ xbus_ack' = FALSE /\ UNCHANGED xbus_dat_r
BridgeReject ==
    /\ Strobe /\ ~pending /\ ~InSdram(xbus_adr)
    /\ xbus_dat_r' = ZeroWord /\ xbus_ack' = TRUE /\ UNCHANGED pending
BridgeAnswer ==
    /\ pending /\ ready
    /\ xbus_dat_r' = rdata /\ xbus_ack' = TRUE /\ pending' = FALSE
BridgeQuiet ==
    /\ IF pending THEN ~ready ELSE ~Strobe
    /\ xbus_ack' = FALSE /\ UNCHANGED <<pending, xbus_dat_r>>

BridgeDebug ==
    /\ dbg_any_req' = (dbg_any_req \/ Strobe)
    /\ dbg_sdram_req' = (dbg_sdram_req \/ (Strobe /\ InSdram(xbus_adr)))
    /\ dbg_sdram_ack' = (dbg_sdram_ack \/ (pending /\ ready))

BridgeClock ==
    /\ BridgeAccept \/ BridgeReject \/ BridgeAnswer \/ BridgeQuiet
    /\ BridgeDebug

BridgeTypeOK ==
    /\ pending \in BOOLEAN /\ xbus_ack \in BOOLEAN /\ xbus_dat_r \in Word
    /\ dbg_any_req \in BOOLEAN /\ dbg_sdram_req \in BOOLEAN
    /\ dbg_sdram_ack \in BOOLEAN
=============================================================================
