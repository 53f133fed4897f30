---------------------------- MODULE SdramProofs -----------------------------
(***************************************************************************)
(* Type correctness and timing of SdramSystem.  The type invariant is      *)
(* inductive as it stands: each component keeps its own part               *)
(* (CtrlTypeStep, DevTypeStep, BridgeTypeStep), and the chip's part needs  *)
(* the pins the controller has just set to carry a row with ACT and a      *)
(* column with READ and WRITE.  Refreshes and requests follow it.          *)
(***************************************************************************)
EXTENDS SdramSystem, TLAPS

\* A remainder lies below its divisor: the slices of an address are in range.
LEMMA ModRange ==
  ASSUME NEW n \in Nat \ {0}, NEW x \in Int
  PROVE  x % n \in 0 .. n - 1
  OBVIOUS

\* The quotient in BaOf, RowOf and ColLo is a natural number.
LEMMA DivNat ==
  ASSUME NEW n \in Nat \ {0}, NEW x \in Nat
  PROVE  x \div n \in Nat
  OBVIOUS

\* The sizes the slices divide by, products of the geometry, are not zero.
LEMMA MulPos ==
  ASSUME NEW n \in Nat \ {0}, NEW x \in Nat \ {0}
  PROVE  x * n \in Nat \ {0}
  OBVIOUS

\* A counter whose value fits its register keeps it (cnt, init_cnt, ref_cnt).
LEMMA ModSmall ==
  ASSUME NEW n \in Nat \ {0}, NEW x \in 0 .. n - 1
  PROVE  x % n = x
  OBVIOUS

\* The bank, row and column sdram_ctrl.v:116-119 cuts out of a latched address
\* exist in the chip, whatever its geometry.
LEMMA Slices ==
  ASSUME NEW a \in Nat
  PROVE  BaOf(a) \in Bank /\ RowOf(a) \in Row /\ ColLo(a) \in Col /\ ColHi(a) \in Col
<1>1. 4 * NCOLS \in Nat \ {0} /\ 4 * NCOLS * NROWS \in Nat \ {0}
  BY MulPos, GeometryAssumption
<1>2. BaOf(a) \in Bank
  BY <1>1, DivNat, ModRange, GeometryAssumption DEF BaOf, Bank
<1>3. RowOf(a) \in Row
  BY <1>1, DivNat, ModRange, GeometryAssumption DEF RowOf, Row
<1>4. (a \div 4) % NCOLS \in 0 .. NCOLS - 1
  BY DivNat, ModRange, GeometryAssumption
<1>5. QED BY <1>2, <1>3, <1>4, GeometryAssumption DEF ColLo, ColHi, Col

\* The SDRAM is not empty, so the address offset of the bridge is defined.
LEMMA SizePositive == SDRAM_SIZE \in Nat \ {0}
  BY MulPos, GeometryAssumption DEF SDRAM_SIZE

\* The 16-bit halves of a 32-bit word and the word two halves make, as the
\* controller splits a write and joins a read.
LEMMA Halves ==
  /\ ZeroHalf \in Half /\ ZeroWord \in Word
  /\ \A w \in Word : LoHalf(w) \in Half /\ HiHalf(w) \in Half
  /\ \A l \in Half, h \in Half : Joined(l, h) \in Word
  BY GeometryAssumption DEF ZeroHalf, ZeroWord, Half, Word, Lane, LoHalf, HiHalf,
     Joined

\* Every value a reset writes is one its register can hold.
LEMMA ResetValues ==
  /\ 0 \in Bank /\ 0 \in Row /\ 0 \in 0 .. SDRAM_SIZE - 1
  /\ 0 \in 0 .. INIT_CYCLES /\ 0 \in 0 .. REF_INTERVAL
  /\ ZeroHalf \in Half /\ ZeroWord \in Word
<1>1. 0 \in Bank /\ 0 \in Row
  BY GeometryAssumption DEF Bank, Row
<1>2. 0 \in 0 .. INIT_CYCLES /\ 0 \in 0 .. REF_INTERVAL
  BY TimingAssumption
<1>3. 0 \in 0 .. SDRAM_SIZE - 1
  BY SizePositive
<1>4. QED BY <1>1, <1>2, <1>3, Halves

\* A clock of the controller keeps every register in its type: one step for
\* each FSM state, one for the refresh counter (<1>r) that runs beside them.
LEMMA CtrlTypeStep ==
  ASSUME CtrlTypeOK,
         NEW sel, NEW addr \in 0 .. SDRAM_SIZE - 1, NEW wdata \in Word,
         NEW wstrb \in SUBSET Lane, NEW dq \in SUBSET Half,
         CtrlClock(sel, addr, wdata, wstrb, dq)
  PROVE  CtrlTypeOK'
<1> USE DEF CtrlTypeOK, latched, tracking, addrpins, datapins, answer, fsmvars, Goto,
            States, Commands
<1>r. RefreshTypeOK' /\ ready' \in BOOLEAN
  <2>1. ref_cnt < REF_INTERVAL => (ref_cnt + 1) % 1024 = ref_cnt + 1
    BY TimingAssumption, ModSmall DEF RefreshTypeOK
  <2>2. ref_cnt \in 0 .. REF_INTERVAL /\ REF_INTERVAL \in 0 .. 1023
    BY TimingAssumption DEF RefreshTypeOK
  <2>3. \/ ref_cnt' = ref_cnt
        \/ ref_cnt' = (IF ref_cnt >= REF_INTERVAL THEN 0 ELSE (ref_cnt + 1) % 1024)
    BY DEF CtrlClock, RefreshCounter, refvars
  <2>4. ref_req' \in BOOLEAN /\ ready' \in BOOLEAN
    BY DEF RefreshTypeOK, AnswerTypeOK, CtrlClock, RefreshCounter, refvars
  <2>5. QED BY <2>1, <2>2, <2>3, <2>4 DEF RefreshTypeOK
<1>m. init_cnt < INIT_CYCLES => (init_cnt + 1) % 16384 \in 0 .. INIT_CYCLES
  BY TimingAssumption, ModSmall DEF FsmTypeOK
<1>c. (cnt + 1) % 8 \in 0 .. 7
  BY DEF FsmTypeOK
<1>s. /\ lat_ba \in Bank /\ lat_row \in Row
      /\ lat_row \in Nat /\ lat_col_lo \in Nat /\ lat_col_hi \in Nat
      /\ lat_col_lo \in Col /\ lat_col_hi \in Col
  BY Slices, SizePositive, GeometryAssumption
     DEF LatchTypeOK, lat_ba, lat_row, lat_col_lo, lat_col_hi, Row, Col
<1>z. 0 \in Bank
  BY GeometryAssumption DEF Bank
<1>1. CASE InitWait
  <2>1. FsmTypeOK'
    BY <1>1, <1>m DEF InitWait, FsmTypeOK
  <2>2. LatchTypeOK' /\ RowTypeOK'
    BY <1>1 DEF InitWait, LatchTypeOK, RowTypeOK
  <2>3. /\ cmd' = "INHIBIT" /\ dq_oe' = FALSE
        /\ UNCHANGED <<sdram_ba, sdram_a, sdram_a10, sdram_dqm, dq_out>>
    BY <1>1 DEF InitWait
  <2>4. PinTypeOK'
    BY <2>3 DEF PinTypeOK
  <2>5. data_lo' \in Half /\ rdata' \in Word
    BY <1>1 DEF InitWait, AnswerTypeOK
  <2>6. QED BY <2>1, <2>2, <2>4, <2>5, <1>r DEF AnswerTypeOK
<1>2. CASE InitPre
  BY <1>2, <1>r
     DEF InitPre, PrechargeAll,
         FsmTypeOK, LatchTypeOK, RowTypeOK, PinTypeOK, AnswerTypeOK
<1>3. CASE InitPreW
  BY <1>3, <1>r, <1>c
     DEF InitPreW, QuietNop, WaitClear,
         FsmTypeOK, LatchTypeOK, RowTypeOK, PinTypeOK, AnswerTypeOK
<1>4. CASE InitAr1
  BY <1>4, <1>r
     DEF InitAr1, Refresh,
         FsmTypeOK, LatchTypeOK, RowTypeOK, PinTypeOK, AnswerTypeOK
<1>5. CASE InitAr1W
  BY <1>5, <1>r, <1>c
     DEF InitAr1W, QuietNop, WaitClear,
         FsmTypeOK, LatchTypeOK, RowTypeOK, PinTypeOK, AnswerTypeOK
<1>6. CASE InitAr2
  BY <1>6, <1>r
     DEF InitAr2, Refresh,
         FsmTypeOK, LatchTypeOK, RowTypeOK, PinTypeOK, AnswerTypeOK
<1>7. CASE InitAr2W
  BY <1>7, <1>r, <1>c
     DEF InitAr2W, QuietNop, WaitClear,
         FsmTypeOK, LatchTypeOK, RowTypeOK, PinTypeOK, AnswerTypeOK
<1>8. CASE InitLmr
  <2> USE <1>8 DEF InitLmr, MODE_REG
  <2>1. FsmTypeOK'
    BY DEF FsmTypeOK
  <2>2. LatchTypeOK' /\ RowTypeOK'
    BY DEF LatchTypeOK, RowTypeOK
  <2>4. PinTypeOK'
    BY <1>z DEF PinTypeOK
  <2>5. data_lo' \in Half /\ rdata' \in Word
    BY DEF AnswerTypeOK
  <2>6. QED BY <2>1, <2>2, <2>4, <2>5, <1>r DEF AnswerTypeOK
<1>9. CASE InitLmrW
  BY <1>9, <1>r, <1>c
     DEF InitLmrW, QuietNop, WaitKeep,
         FsmTypeOK, LatchTypeOK, RowTypeOK, PinTypeOK, AnswerTypeOK
<1>10. CASE Idle(sel, addr, wdata, wstrb)
  BY <1>10, <1>r
     DEF Idle, RowHit,
         FsmTypeOK, LatchTypeOK, RowTypeOK, PinTypeOK, AnswerTypeOK
<1>11. CASE RefPre
  <2> USE <1>11 DEF RefPre, PrechargeAll
  <2>1. FsmTypeOK'
    BY DEF FsmTypeOK
  <2>2. LatchTypeOK' /\ RowTypeOK'
    BY DEF LatchTypeOK, RowTypeOK
  <2>4. PinTypeOK'
    BY DEF PinTypeOK
  <2>5. data_lo' \in Half /\ rdata' \in Word
    BY DEF AnswerTypeOK
  <2>6. QED BY <2>1, <2>2, <2>4, <2>5, <1>r DEF AnswerTypeOK
<1>12. CASE RefPreW
  BY <1>12, <1>r, <1>c
     DEF RefPreW, QuietNop, WaitClear,
         FsmTypeOK, LatchTypeOK, RowTypeOK, PinTypeOK, AnswerTypeOK
<1>13. CASE RefAr
  BY <1>13, <1>r
     DEF RefAr, Refresh,
         FsmTypeOK, LatchTypeOK, RowTypeOK, PinTypeOK, AnswerTypeOK
<1>14. CASE RefArW
  BY <1>14, <1>r, <1>c
     DEF RefArW, QuietNop, WaitKeep,
         FsmTypeOK, LatchTypeOK, RowTypeOK, PinTypeOK, AnswerTypeOK
<1>15. CASE PreOld
  <2> USE <1>15 DEF PreOld
  <2>1. FsmTypeOK'
    BY DEF FsmTypeOK
  <2>2. LatchTypeOK' /\ RowTypeOK'
    BY DEF LatchTypeOK, RowTypeOK
  <2>3. dq_oe' \in BOOLEAN /\ sdram_a10' \in BOOLEAN
    BY DEF PinTypeOK
  <2>4. PinTypeOK'
    BY <2>3 DEF PinTypeOK, RowTypeOK
  <2>5. data_lo' \in Half /\ rdata' \in Word
    BY DEF AnswerTypeOK
  <2>6. QED BY <2>1, <2>2, <2>4, <2>5, <1>r DEF AnswerTypeOK
<1>16. CASE PreOldW
  BY <1>16, <1>r, <1>c
     DEF PreOldW, QuietNop, WaitClear,
         FsmTypeOK, LatchTypeOK, RowTypeOK, PinTypeOK, AnswerTypeOK
<1>17. CASE Act
  BY <1>17, <1>r, <1>s
     DEF Act,
         FsmTypeOK, LatchTypeOK, RowTypeOK, PinTypeOK, AnswerTypeOK
<1>18. CASE ActW
  <2> USE <1>18 DEF ActW, QuietNop, WaitClear
  <2>1. FsmTypeOK'
    BY <1>c DEF FsmTypeOK
  <2>2. LatchTypeOK' /\ RowTypeOK'
    BY <1>s DEF LatchTypeOK, RowTypeOK
  <2>4. PinTypeOK'
    BY <1>s DEF PinTypeOK
  <2>5. data_lo' \in Half /\ rdata' \in Word
    BY DEF AnswerTypeOK
  <2>6. QED BY <2>1, <2>2, <2>4, <2>5, <1>r DEF AnswerTypeOK
<1>19. CASE RdCmd0
  BY <1>19, <1>r, <1>s
     DEF RdCmd0, Column,
         FsmTypeOK, LatchTypeOK, RowTypeOK, PinTypeOK, AnswerTypeOK
<1>20. CASE RdNop1
  BY <1>20, <1>r
     DEF RdNop1, Pass, QuietNop,
         FsmTypeOK, LatchTypeOK, RowTypeOK, PinTypeOK, AnswerTypeOK
<1>21. CASE RdCmd1
  BY <1>21, <1>r, <1>s
     DEF RdCmd1, Column,
         FsmTypeOK, LatchTypeOK, RowTypeOK, PinTypeOK, AnswerTypeOK
<1>22. CASE RdWait
  BY <1>22, <1>r
     DEF RdWait, Pass, QuietNop,
         FsmTypeOK, LatchTypeOK, RowTypeOK, PinTypeOK, AnswerTypeOK
<1>23. CASE RdCap0(dq)
  BY <1>23, <1>r
     DEF RdCap0,
         FsmTypeOK, LatchTypeOK, RowTypeOK, PinTypeOK, AnswerTypeOK
<1>24. CASE RdGap
  BY <1>24, <1>r
     DEF RdGap, Pass, QuietNop,
         FsmTypeOK, LatchTypeOK, RowTypeOK, PinTypeOK, AnswerTypeOK
<1>25. CASE RdCap1(dq)
  <2> USE <1>25 DEF RdCap1
  <2>1. FsmTypeOK'
    BY DEF FsmTypeOK
  <2>2. LatchTypeOK' /\ RowTypeOK'
    BY DEF LatchTypeOK, RowTypeOK
  <2>4. PinTypeOK'
    BY Halves DEF PinTypeOK
  <2>5. data_lo' \in Half /\ rdata' \in Word
    BY Halves DEF AnswerTypeOK
  <2>6. QED BY <2>1, <2>2, <2>4, <2>5, <1>r DEF AnswerTypeOK
<1>26. CASE RdPreW
  BY <1>26, <1>r, <1>c
     DEF RdPreW, QuietNop, WaitKeep,
         FsmTypeOK, LatchTypeOK, RowTypeOK, PinTypeOK, AnswerTypeOK
<1>27. CASE WrCmd0
  BY <1>27, <1>r, <1>s, Halves
     DEF WrCmd0, Column, DqmLo,
         FsmTypeOK, LatchTypeOK, RowTypeOK, PinTypeOK, AnswerTypeOK
<1>28. CASE WrCmd1
  <2> USE <1>28 DEF WrCmd1, Column, DqmHi
  <2>1. FsmTypeOK'
    BY DEF FsmTypeOK
  <2>2. LatchTypeOK' /\ RowTypeOK'
    BY <1>s DEF LatchTypeOK, RowTypeOK
  <2>4. PinTypeOK'
    BY <1>s, Halves DEF PinTypeOK, LatchTypeOK
  <2>5. data_lo' \in Half /\ rdata' \in Word
    BY Halves DEF AnswerTypeOK
  <2>6. QED BY <2>1, <2>2, <2>4, <2>5, <1>r DEF AnswerTypeOK
<1>29. CASE WrRec
  BY <1>29, <1>r, <1>c
     DEF WrRec, QuietNop, WaitKeep,
         FsmTypeOK, LatchTypeOK, RowTypeOK, PinTypeOK, AnswerTypeOK
<1>30. CASE Done
  BY <1>30, <1>r
     DEF Done, Pass, QuietNop,
         FsmTypeOK, LatchTypeOK, RowTypeOK, PinTypeOK, AnswerTypeOK
<1>31. CASE DoneW
  BY <1>31, <1>r
     DEF DoneW, Pass, QuietNop,
         FsmTypeOK, LatchTypeOK, RowTypeOK, PinTypeOK, AnswerTypeOK
<1>q. QED
  BY <1>1, <1>2, <1>3, <1>4, <1>5, <1>6, <1>7, <1>8, <1>9, <1>10, <1>11, <1>12,
     <1>13, <1>14, <1>15, <1>16, <1>17, <1>18, <1>19, <1>20, <1>21, <1>22, <1>23,
     <1>24, <1>25, <1>26, <1>27, <1>28, <1>29, <1>30, <1>31
     DEF CtrlClock, Initialise, RefreshRow, OpenRow, Read, Write, Finish

\* A clock of the chip keeps its banks, rows, cells and read pipeline in their
\* types, if ACT comes with a row and READ and WRITE with a column.
LEMMA DevTypeStep ==
  ASSUME DevTypeOK, NEW c, NEW ba \in Bank, NEW a, NEW a10 \in BOOLEAN, NEW dqm,
         NEW dq \in SUBSET Half,
         c = "ACT" => a \in Row,
         c \in {"READ", "WRITE"} => a \in Col,
         DevClock(c, ba, a, a10, dqm, dq)
  PROVE  DevTypeOK'
<1>1. \A l \in Half, h \in Half : Masked(l, h, dqm) \in Half
  BY DEF Masked, Half
<1>2. c \in {"READ", "WRITE"} => <<ba, bank_row[ba], a>> \in Cells
  BY DEF DevTypeOK, Cells
<1>3. Shifted \in [Slots -> Half] /\ ShiftedValid \in [Slots -> BOOLEAN]
  BY Halves DEF DevTypeOK, Shifted, ShiftedValid, Slots
<1>4. rd_data' \in [Slots -> Half] /\ rd_valid' \in [Slots -> BOOLEAN]
  BY <1>2, <1>3 DEF DevTypeOK, DevClock, DevPipeline
<1>5. bank_active' \in [Bank -> BOOLEAN] /\ bank_row' \in [Bank -> Row]
  BY DEF DevTypeOK, DevClock, DevBanks
<1>6. mem' \in [Cells -> Half]
  BY <1>1, <1>2 DEF DevTypeOK, DevClock, DevStore
<1>7. lmr_done' \in BOOLEAN /\ since' \in [Spaced -> 0 .. LONG_AGO]
  BY DEF DevTypeOK, DevClock, DevHistory, LONG_AGO
<1>8. QED BY <1>4, <1>5, <1>6, <1>7 DEF DevTypeOK

\* A clock of the bridge keeps its registers in their types.
LEMMA BridgeTypeStep ==
  ASSUME BridgeTypeOK, BridgeClock, rdata \in Word
  PROVE  BridgeTypeOK'
  BY Halves DEF BridgeTypeOK, BridgeClock, BridgeAccept, BridgeReject, BridgeAnswer,
     BridgeQuiet, BridgeDebug

-----------------------------------------------------------------------------

\* The registers have their types when the configuration is loaded.
LEMMA TypeInit == Init => TypeOK
<1> SUFFICES ASSUME Init PROVE TypeOK
  OBVIOUS
<1>1. CtrlTypeOK
  <2>1. FsmTypeOK /\ RefreshTypeOK
    <3>1. state \in States /\ initialized \in BOOLEAN /\ ref_req \in BOOLEAN
      BY DEF Init, CtrlInit, States
    <3>2. init_cnt = 0 /\ cnt = 0 /\ ref_cnt = 0
      BY DEF Init, CtrlInit
    <3>3. QED BY <3>1, <3>2, ResetValues DEF FsmTypeOK, RefreshTypeOK
  <2>2. LatchTypeOK /\ RowTypeOK
    BY ResetValues DEF Init, CtrlInit, LatchTypeOK, RowTypeOK
  <2>3. PinTypeOK /\ AnswerTypeOK
    BY ResetValues DEF Init, CtrlInit, PinTypeOK, AnswerTypeOK, Commands
  <2>4. QED BY <2>1, <2>2, <2>3 DEF CtrlTypeOK
<1>2. DevTypeOK
  <2>1. mem \in [Cells -> Half] /\ bank_row \in [Bank -> Row]
    BY ResetValues DEF Init, DevInit
  <2>2. /\ bank_active \in [Bank -> BOOLEAN] /\ rd_valid \in [Slots -> BOOLEAN]
        /\ lmr_done \in BOOLEAN
    BY DEF Init, DevInit
  <2>3. rd_data \in [Slots -> Half] /\ since \in [Spaced -> 0 .. LONG_AGO]
    BY ResetValues DEF Init, DevInit, LONG_AGO
  <2>4. QED BY <2>1, <2>2, <2>3 DEF DevTypeOK
<1>3. BridgeTypeOK
  BY ResetValues DEF Init, BridgeInit, BridgeTypeOK
<1>4. /\ xbus_adr \in Nat /\ m_wait \in 0 .. XBUS_TIMEOUT
      /\ por_cnt \in 0 .. POR_CYCLES /\ keys \in 0 .. MAX_KEYS
      /\ ref_gap \in 0 .. GAP_MAX
  BY BoardAssumption, TimingAssumption DEF Init, GAP_MAX
<1>5. /\ xbus_cyc \in BOOLEAN /\ xbus_stb \in BOOLEAN /\ xbus_we \in BOOLEAN
      /\ xbus_sel \in SUBSET Lane /\ xbus_dat_w \in Word
  BY ResetValues DEF Init
<1>6. QED
  BY <1>1, <1>2, <1>3, <1>4, <1>5 DEF TypeOK

\* A clock cycle, a cycle of the power-on reset and KEY2 keep every type.
LEMMA TypeStep == TypeOK /\ [Next]_vars => TypeOK'
<1> SUFFICES ASSUME TypeOK, [Next]_vars PROVE TypeOK'
  OBVIOUS
<1> USE DEF TypeOK
<1>1. CASE Tick
  <2>1. /\ SdramAddr(xbus_adr) \in 0 .. SDRAM_SIZE - 1
        /\ CtrlStrobes \in SUBSET Lane
    BY SizePositive, ModRange DEF SdramAddr, CtrlStrobes
  <2>2. DqSample \in SUBSET Half
    BY DEF DqSample, DevTypeOK, Slots
  <2>3. CtrlTypeOK'
    BY <1>1, <2>1, <2>2, CtrlTypeStep DEF Tick
  <2>4. DevTypeOK'
    BY <1>1, <2>3, DevTypeStep DEF Tick, FallingEdge, CtrlTypeOK, PinTypeOK
  <2>5. BridgeTypeOK'
    BY <1>1, BridgeTypeStep DEF Tick, CtrlTypeOK, AnswerTypeOK
  <2>6. /\ xbus_cyc' \in BOOLEAN /\ xbus_stb' \in BOOLEAN /\ xbus_adr' \in Nat
        /\ xbus_we' \in BOOLEAN /\ xbus_sel' \in SUBSET Lane
        /\ xbus_dat_w' \in Word /\ m_wait' \in 0 .. XBUS_TIMEOUT
    <3>1. CASE MasterStart
      BY <3>1, RequestAssumption, BoardAssumption DEF MasterStart, RequestType
    <3>2. ASSUME MasterIdle \/ MasterHold \/ MasterTimeout
          PROVE  UNCHANGED <<xbus_adr, xbus_we, xbus_sel, xbus_dat_w>>
      BY <3>2 DEF MasterIdle, MasterHold, MasterTimeout
    <3>3. ASSUME MasterIdle \/ MasterHold \/ MasterTimeout
          PROVE  xbus_cyc' \in BOOLEAN /\ xbus_stb' \in BOOLEAN
      BY <3>3 DEF MasterIdle, MasterHold, MasterTimeout
    <3>4. ASSUME MasterIdle \/ MasterHold \/ MasterTimeout
          PROVE  m_wait' \in 0 .. XBUS_TIMEOUT
      BY <3>4, BoardAssumption DEF MasterIdle, MasterHold, MasterTimeout
    <3>5. QED BY <1>1, <3>1, <3>2, <3>3, <3>4 DEF Tick, MasterClock
  <2>7. ref_gap' \in 0 .. GAP_MAX
    BY <1>1, TimingAssumption DEF Tick, RefreshGap, GAP_MAX
  <2>8. QED
    BY <1>1, <2>3, <2>4, <2>5, <2>6, <2>7 DEF Tick
<1>2. CASE PorTick
  <2>1. DevTypeOK'
    BY <1>2, DevTypeStep DEF PorTick, CtrlTypeOK, PinTypeOK
  <2>2. UNCHANGED <<ctrlVars, xbusVars, bridgeVars, m_wait, keys, ref_gap>>
    BY <1>2 DEF PorTick
  <2>3. CtrlTypeOK' /\ BridgeTypeOK'
    BY <2>2 DEF CtrlTypeOK, FsmTypeOK, RefreshTypeOK, LatchTypeOK, RowTypeOK,
       PinTypeOK, AnswerTypeOK, BridgeTypeOK, ctrlVars, bridgeVars, fsmvars, refvars,
       latched, tracking, addrpins, datapins, answer
  <2>4. por_cnt' \in 0 .. POR_CYCLES
    BY <1>2, BoardAssumption DEF PorTick, rst_n
  <2>5. QED
    BY <2>1, <2>2, <2>3, <2>4 DEF xbusVars
<1>3. CASE KeyReset
  <2>1. FsmTypeOK' /\ RefreshTypeOK'
    <3>1. state' \in States /\ initialized' \in BOOLEAN /\ ref_req' \in BOOLEAN
      BY <1>3 DEF KeyReset, CtrlReset, States
    <3>2. init_cnt' = 0 /\ cnt' = 0 /\ ref_cnt' = 0
      BY <1>3 DEF KeyReset, CtrlReset
    <3>3. QED BY <3>1, <3>2, ResetValues DEF FsmTypeOK, RefreshTypeOK
  <2>2. LatchTypeOK' /\ RowTypeOK'
    BY <1>3, ResetValues DEF KeyReset, CtrlReset, LatchTypeOK, RowTypeOK
  <2>3. PinTypeOK' /\ AnswerTypeOK'
    BY <1>3, ResetValues DEF KeyReset, CtrlReset, PinTypeOK, AnswerTypeOK, Commands
  <2>4. BridgeTypeOK' /\ DevTypeOK'
    BY <1>3, ResetValues DEF KeyReset, BridgeReset, BridgeTypeOK, DevTypeOK, devVars
  <2>5. /\ keys' \in 0 .. MAX_KEYS /\ por_cnt' \in 0 .. POR_CYCLES
        /\ m_wait' \in 0 .. XBUS_TIMEOUT /\ ref_gap' \in 0 .. GAP_MAX
    BY <1>3, BoardAssumption, TimingAssumption DEF KeyReset, GAP_MAX
  <2>6. QED
    BY <1>3, <2>1, <2>2, <2>3, <2>4, <2>5, ResetValues DEF KeyReset, CtrlTypeOK
<1>4. CASE UNCHANGED vars
  BY <1>4 DEF vars, ctrlVars, devVars, xbusVars, bridgeVars, boardVars,
     fsmvars, refvars, latched, tracking, addrpins, datapins, answer,
     CtrlTypeOK, FsmTypeOK, RefreshTypeOK, LatchTypeOK, RowTypeOK, PinTypeOK,
     AnswerTypeOK, DevTypeOK, BridgeTypeOK
<1>5. QED
  BY <1>1, <1>2, <1>3, <1>4 DEF Next

\* Every register keeps its type, for every geometry, timing and set of
\* requests: in particular no wait counter, address or strobe leaves its width.
THEOREM TypeCorrect == Spec => []TypeOK
  BY TypeInit, TypeStep, PTL DEF Spec

-----------------------------------------------------------------------------
(***************************************************************************)
(* The row tracking of the controller and the legality of its commands.    *)
(* RowTracking is not inductive: that a READ goes to the tracked row needs *)
(* an access to work on the row it latched, and that ACT finds a closed    *)
(* bank needs the states in which no row is open.  RowInv adds both, and   *)
(* what the initialisation has done when it is over.                       *)
(***************************************************************************)

\* The chip opens and closes no bank on a command other than ACT and PRECHARGE
\* (READ and WRITE without auto-precharge).
LEMMA BanksUntouched ==
  ASSUME DevTypeOK, sdram_ba' \in Bank, FallingEdge,
         cmd' \notin {"ACT", "PRECHARGE"},
         cmd' \in {"READ", "WRITE"} => ~sdram_a10'
  PROVE  UNCHANGED <<bank_active, bank_row>>
  BY DEF DevTypeOK, FallingEdge, DevClock, DevBanks

\* PRECHARGE closes the addressed bank, or every bank when A10 is high.
LEMMA BanksPrecharged ==
  ASSUME DevTypeOK, sdram_ba' \in Bank, FallingEdge, cmd' = "PRECHARGE"
  PROVE  /\ bank_row' = bank_row
         /\ \A b \in Bank :
              bank_active'[b] = (bank_active[b] /\ ~sdram_a10' /\ b # sdram_ba')
  BY DEF DevTypeOK, FallingEdge, DevClock, DevBanks

\* ACT opens the addressed bank at the row on the pins and no other.
LEMMA BanksActivated ==
  ASSUME DevTypeOK, sdram_ba' \in Bank, FallingEdge, cmd' = "ACT"
  PROVE  \A b \in Bank :
           /\ bank_active'[b] = (IF b = sdram_ba' THEN TRUE ELSE bank_active[b])
           /\ bank_row'[b] = (IF b = sdram_ba' THEN sdram_a' ELSE bank_row[b])
  BY DEF DevTypeOK, FallingEdge, DevClock, DevBanks

\* A clock cycle keeps RowInv: one step for each FSM state, with what the chip
\* does on the command that the state sends.
LEMMA RowStep ==
  ASSUME TypeOK, TypeOK', RowInv, FallingEdge,
         NEW sel, NEW addr, NEW wdata, NEW wstrb, NEW dq,
         CtrlClock(sel, addr, wdata, wstrb, dq)
  PROVE  RowInv'
<1> USE DEF latched, tracking, addrpins, datapins, answer, fsmvars, Goto,
            RowInv, RowTracking, ClosedStates, AccessStates, InitStates, lat_ba, lat_row
<1>t. /\ DevTypeOK /\ state \in States
      /\ sdram_ba' \in Bank /\ lat_ba \in Bank /\ open_ba \in Bank
      /\ initialized \in BOOLEAN /\ row_open \in BOOLEAN
  BY Slices, SizePositive DEF TypeOK, CtrlTypeOK, FsmTypeOK, PinTypeOK, RowTypeOK,
     LatchTypeOK, lat_ba
<1>c. cnt \in Int /\ TMRD \in Int /\ TRCD \in Int
  BY SMTT(30), TimingAssumption DEF TypeOK, CtrlTypeOK, FsmTypeOK
<1>l. lmr_done' = (lmr_done \/ cmd' = "LMR")
  BY DEF FallingEdge, DevClock, DevHistory
<1>1. CASE InitWait
  BY <1>1, <1>t, <1>l, BanksUntouched DEF InitWait
<1>2. CASE InitPre
  BY <1>2, <1>t, <1>l, BanksPrecharged DEF InitPre, PrechargeAll
<1>3. CASE InitPreW
  BY <1>3, <1>t, <1>l, BanksUntouched DEF InitPreW, QuietNop, WaitClear
<1>4. CASE InitAr1
  BY <1>4, <1>t, <1>l, BanksUntouched DEF InitAr1, Refresh
<1>5. CASE InitAr1W
  BY <1>5, <1>t, <1>l, BanksUntouched DEF InitAr1W, QuietNop, WaitClear
<1>6. CASE InitAr2
  BY <1>6, <1>t, <1>l, BanksUntouched DEF InitAr2, Refresh
<1>7. CASE InitAr2W
  BY <1>7, <1>t, <1>l, BanksUntouched DEF InitAr2W, QuietNop, WaitClear
<1>8. CASE InitLmr
  BY <1>8, <1>t, <1>l, BanksUntouched DEF InitLmr
<1>9. CASE InitLmrW
  <2>1. UNCHANGED <<bank_active, bank_row>>
    BY <1>9, <1>t, BanksUntouched DEF InitLmrW, QuietNop
  <2>2. state = "S_INIT_LMR_W" /\ UNCHANGED <<tracking, addr_lat>> /\ cmd' = "NOP"
    BY <1>9 DEF InitLmrW, QuietNop
  <2>3. ASSUME cnt >= TMRD PROVE RowInv'
    <3>1. state' = "S_IDLE"
      BY <1>9, <1>c, <2>3 DEF InitLmrW, WaitKeep
    <3>2. initialized'
      BY <1>9, <2>3, Zenon DEF InitLmrW
    <3>3. QED
      BY <2>1, <2>2, <3>1, <3>2, <1>t, <1>l
  <2>4. ASSUME ~(cnt >= TMRD) PROVE RowInv'
    <3>1. state' = state
      BY <1>9, <1>c, <2>4 DEF InitLmrW, WaitKeep
    <3>2. initialized' = initialized
      BY <1>9, <1>t, <2>4 DEF InitLmrW
    <3>3. QED
      BY <2>1, <2>2, <3>1, <3>2, <1>t, <1>l
  <2>5. QED BY <2>3, <2>4
<1>10. CASE Idle(sel, addr, wdata, wstrb)
  BY <1>10, <1>t, <1>l, BanksUntouched DEF Idle, RowHit
<1>11. CASE RefPre
  BY <1>11, <1>t, <1>l, BanksPrecharged DEF RefPre, PrechargeAll
<1>12. CASE RefPreW
  BY <1>12, <1>t, <1>l, BanksUntouched DEF RefPreW, QuietNop, WaitClear
<1>13. CASE RefAr
  BY <1>13, <1>t, <1>l, BanksUntouched DEF RefAr, Refresh
<1>14. CASE RefArW
  BY <1>14, <1>t, <1>l, BanksUntouched DEF RefArW, QuietNop, WaitKeep
<1>15. CASE PreOld
  BY <1>15, <1>t, <1>l, BanksPrecharged DEF PreOld
<1>16. CASE PreOldW
  BY <1>16, <1>t, <1>l, BanksUntouched DEF PreOldW, QuietNop, WaitClear
<1>17. CASE Act
  BY <1>17, <1>t, <1>l, BanksActivated DEF Act
<1>18. CASE ActW
  <2>1. UNCHANGED <<bank_active, bank_row>>
    BY <1>18, <1>t, BanksUntouched DEF ActW, QuietNop
  <2>2. state = "S_ACT_W" /\ UNCHANGED <<addr_lat, initialized>>
    BY <1>18 DEF ActW, QuietNop
  <2>3. ASSUME cnt >= TRCD PROVE RowInv'
    <3>1. /\ state' \in {"S_WR_CMD0", "S_RD_CMD0"}
          /\ row_open' /\ open_ba' = lat_ba /\ open_row' = lat_row
      BY <1>18, <1>c, <2>3 DEF ActW, WaitClear
    <3>2. QED
      BY <2>1, <2>2, <3>1, <1>t, <1>l
  <2>4. ASSUME ~(cnt >= TRCD) PROVE RowInv'
    <3>1. state' = state /\ UNCHANGED tracking
      BY <1>18, <1>c, <2>4 DEF ActW, WaitClear
    <3>2. QED
      BY <2>1, <2>2, <3>1, <1>t, <1>l
  <2>5. QED BY <2>3, <2>4
<1>19. CASE RdCmd0
  BY <1>19, <1>t, <1>l, BanksUntouched DEF RdCmd0, Column
<1>20. CASE RdNop1
  BY <1>20, <1>t, <1>l, BanksUntouched DEF RdNop1, Pass, QuietNop
<1>21. CASE RdCmd1
  BY <1>21, <1>t, <1>l, BanksUntouched DEF RdCmd1, Column
<1>22. CASE RdWait
  BY <1>22, <1>t, <1>l, BanksUntouched DEF RdWait, Pass, QuietNop
<1>23. CASE RdCap0(dq)
  BY <1>23, <1>t, <1>l, BanksUntouched DEF RdCap0
<1>24. CASE RdGap
  BY <1>24, <1>t, <1>l, BanksUntouched DEF RdGap, Pass, QuietNop
<1>25. CASE RdCap1(dq)
  BY <1>25, <1>t, <1>l, BanksUntouched DEF RdCap1
<1>26. CASE RdPreW
  BY <1>26, <1>t, <1>l, BanksUntouched DEF RdPreW, QuietNop, WaitKeep
<1>27. CASE WrCmd0
  BY <1>27, <1>t, <1>l, BanksUntouched DEF WrCmd0, Column
<1>28. CASE WrCmd1
  BY <1>28, <1>t, <1>l, BanksUntouched DEF WrCmd1, Column
<1>29. CASE WrRec
  BY <1>29, <1>t, <1>l, BanksUntouched DEF WrRec, QuietNop, WaitKeep
<1>30. CASE Done
  BY <1>30, <1>t, <1>l, BanksUntouched DEF Done, Pass, QuietNop
<1>31. CASE DoneW
  BY <1>31, <1>t, <1>l, BanksUntouched DEF DoneW, Pass, QuietNop
<1>q. QED
  BY <1>1, <1>2, <1>3, <1>4, <1>5, <1>6, <1>7, <1>8, <1>9, <1>10, <1>11, <1>12,
     <1>13, <1>14, <1>15, <1>16, <1>17, <1>18, <1>19, <1>20, <1>21, <1>22, <1>23,
     <1>24, <1>25, <1>26, <1>27, <1>28, <1>29, <1>30, <1>31
     DEF CtrlClock, Initialise, RefreshRow, OpenRow, Read, Write, Finish

\* While the power-on reset is held the controller waits in its first state
\* with the command pins inhibited.
LEMMA ResetStep == TypeOK /\ ResetInv /\ [Next]_vars => ResetInv'
  BY DEF ResetInv, Next, Tick, PorTick, KeyReset, CtrlReset, rst_n, vars, ctrlVars,
     boardVars

\* RowInv holds always: the inductive strengthening of RowTracking.
LEMMA RowInvariant == Spec => [](TypeOK /\ ResetInv /\ RowInv)
<1>1. Init => ResetInv /\ RowInv
  BY DEF Init, CtrlInit, DevInit, ResetInv, RowInv, RowTracking, ClosedStates,
     AccessStates,
     InitStates
<1>2. TypeOK /\ TypeOK' /\ ResetInv /\ RowInv /\ [Next]_vars => RowInv'
  <2> SUFFICES ASSUME TypeOK, TypeOK', ResetInv, RowInv, [Next]_vars PROVE RowInv'
    OBVIOUS
  <2>1. CASE Tick
    BY <2>1, RowStep DEF Tick
  <2>2. CASE PorTick
    <3>1. state = "S_INIT_WAIT" /\ UNCHANGED ctrlVars /\ (lmr_done => lmr_done')
      BY <2>2 DEF PorTick, ResetInv, DevClock, DevHistory
    <3>2. QED
      BY <3>1 DEF RowInv, RowTracking, ClosedStates, AccessStates, InitStates,
         ctrlVars,
         fsmvars, tracking, latched, lat_ba, lat_row
  <2>3. CASE KeyReset
    BY <2>3 DEF KeyReset, CtrlReset, RowInv, RowTracking, ClosedStates,
       AccessStates, InitStates
  <2>4. CASE UNCHANGED vars
    BY <2>4 DEF vars, ctrlVars, devVars, fsmvars, tracking, latched, RowInv,
       RowTracking, ClosedStates, AccessStates, InitStates, lat_ba, lat_row
  <2>5. QED BY <2>1, <2>2, <2>3, <2>4 DEF Next
<1>3. QED
  BY <1>1, <1>2, TypeInit, TypeStep, ResetStep, PTL DEF Spec

\* What the controller believes of the open row is what the chip holds, through
\* accesses, page-mode hits, misses, refreshes and resets in mid-access.
THEOREM RowTracked == Spec => []RowTracking
<1>1. RowInv => RowTracking
  BY DEF RowInv
<1>2. QED BY <1>1, RowInvariant, PTL

\* In a state that satisfies RowInv the command the controller sends next is
\* one the chip accepts: only four groups of states send more than NOP,
\* INHIBIT or PRECHARGE.
LEMMA LegalStep ==
  ASSUME TypeOK, RowInv, NEW sel, NEW addr, NEW wdata, NEW wstrb, NEW dq,
         CtrlClock(sel, addr, wdata, wstrb, dq)
  PROVE  LegalCommand
<1> USE DEF RowInv, RowTracking, AccessStates, InitStates, ClosedStates, LegalCommand
<1>1. lat_ba \in Bank
  BY Slices, SizePositive DEF TypeOK, CtrlTypeOK, LatchTypeOK, lat_ba
<1>2. CASE Act
  BY <1>1, <1>2 DEF Act
<1>3. CASE RdCmd0 \/ RdCmd1 \/ WrCmd0 \/ WrCmd1
  BY <1>1, <1>3 DEF RdCmd0, RdCmd1, WrCmd0, WrCmd1, Column
<1>4. CASE InitAr1 \/ InitAr2 \/ InitLmr \/ RefAr
  BY <1>4 DEF InitAr1, InitAr2, InitLmr, RefAr, Refresh
<1>5. CASE cmd' \in {"NOP", "INHIBIT", "PRECHARGE"}
  BY <1>5
<1>6. QED
  BY <1>2, <1>3, <1>4, <1>5
     DEF CtrlClock, Initialise, RefreshRow, OpenRow, Read, Write, Finish,
         InitWait, InitPre, InitPreW, InitAr1W, InitAr2W, InitLmrW, Idle, RowHit,
         RefPre, RefPreW, RefArW, PreOld, PreOldW, ActW, RdNop1, RdWait, RdCap0,
         RdGap, RdCap1, RdPreW, WrRec, Done, DoneW, QuietNop, PrechargeAll, Pass

\* The chip accepts every command the controller sends it: no ACT to an open
\* bank, no READ or WRITE to a closed bank, the wrong row or before the mode
\* register is loaded, no REFRESH or LMR while a bank is open.
THEOREM CommandsLegal == Spec => CommandLegal
<1>1. TypeOK /\ ResetInv /\ RowInv /\ [Next]_vars => [LegalCommand]_vars
  <2> SUFFICES ASSUME TypeOK, ResetInv, RowInv, Next PROVE LegalCommand
    OBVIOUS
  <2>1. CASE Tick
    BY <2>1, LegalStep DEF Tick
  <2>2. CASE PorTick
    BY <2>2 DEF PorTick, ResetInv, LegalCommand, ctrlVars
  <2>3. CASE KeyReset
    BY <2>3 DEF KeyReset, CtrlReset, LegalCommand
  <2>4. QED BY <2>1, <2>2, <2>3 DEF Next
<1>2. QED BY <1>1, RowInvariant, PTL DEF Spec, CommandLegal

\* The read pipeline moves one place with every clock of the chip, and only a
\* READ puts a word into it.
LEMMA PipelineMoves ==
  ASSUME DevTypeOK, NEW c, NEW ba, NEW a, NEW a10, NEW dqm, NEW dq,
         DevClock(c, ba, a, a10, dqm, dq)
  PROVE  \A i \in Slots :
           rd_valid'[i] => c = "READ" \/ (i + 1 \in Slots /\ rd_valid[i + 1])
<1>1. CASE c = "READ"
  BY <1>1
<1>2. CASE c # "READ"
  <2>1. rd_valid' = ShiftedValid
    BY <1>2 DEF DevClock, DevPipeline
  <2>2. QED BY <2>1 DEF ShiftedValid, Slots
<1>3. QED BY <1>1, <1>2

\* A clock cycle keeps PipeInv: the words of a read have left the pipeline
\* before the next access can drive the bus.
LEMMA PipeStep ==
  ASSUME TypeOK, PipeInv, FallingEdge,
         NEW sel, NEW addr, NEW wdata, NEW wstrb, NEW dq,
         CtrlClock(sel, addr, wdata, wstrb, dq)
  PROVE  PipeInv'
<1> USE DEF latched, tracking, addrpins, datapins, answer, fsmvars, Goto,
            PipeInv, PipeTop, Slots
<1>t. state \in States /\ cnt \in 0 .. 7 /\ dq_oe \in BOOLEAN
  BY DEF TypeOK, CtrlTypeOK, FsmTypeOK, PinTypeOK
<1>c. (cnt + 1) % 8 = cnt + 1 \/ cnt = 7
  BY <1>t, ModSmall
<1>d. TRP \in 0 .. 7 /\ TRC \in 0 .. 7 /\ TRCD \in 0 .. 7 /\ TMRD \in 0 .. 7
      /\ (TWR + TRP) % 8 \in 0 .. 7
  BY TimingAssumption
<1>p. \A i \in Slots :
        rd_valid'[i] => cmd' = "READ" \/ (i + 1 \in Slots /\ rd_valid[i + 1])
  BY PipelineMoves DEF FallingEdge, TypeOK
<1>1. CASE InitWait
  BY <1>1, <1>t, <1>c, <1>d, <1>p DEF InitWait
<1>2. CASE InitPre
  BY <1>2, <1>t, <1>c, <1>d, <1>p DEF InitPre, PrechargeAll
<1>3. CASE InitPreW
  BY <1>3, <1>t, <1>c, <1>d, <1>p DEF InitPreW, QuietNop, WaitClear
<1>4. CASE InitAr1
  BY <1>4, <1>t, <1>c, <1>d, <1>p DEF InitAr1, Refresh
<1>5. CASE InitAr1W
  BY <1>5, <1>t, <1>c, <1>d, <1>p DEF InitAr1W, QuietNop, WaitClear
<1>6. CASE InitAr2
  BY <1>6, <1>t, <1>c, <1>d, <1>p DEF InitAr2, Refresh
<1>7. CASE InitAr2W
  BY <1>7, <1>t, <1>c, <1>d, <1>p DEF InitAr2W, QuietNop, WaitClear
<1>8. CASE InitLmr
  BY <1>8, <1>t, <1>c, <1>d, <1>p DEF InitLmr
<1>9. CASE InitLmrW
  BY <1>9, <1>t, <1>c, <1>d, <1>p DEF InitLmrW, QuietNop, WaitKeep
<1>10. CASE Idle(sel, addr, wdata, wstrb)
  BY <1>10, <1>t, <1>c, <1>d, <1>p DEF Idle, RowHit
<1>11. CASE RefPre
  BY <1>11, <1>t, <1>c, <1>d, <1>p DEF RefPre, PrechargeAll
<1>12. CASE RefPreW
  BY <1>12, <1>t, <1>c, <1>d, <1>p DEF RefPreW, QuietNop, WaitClear
<1>13. CASE RefAr
  BY <1>13, <1>t, <1>c, <1>d, <1>p DEF RefAr, Refresh
<1>14. CASE RefArW
  BY <1>14, <1>t, <1>c, <1>d, <1>p DEF RefArW, QuietNop, WaitKeep
<1>15. CASE PreOld
  BY <1>15, <1>t, <1>c, <1>d, <1>p DEF PreOld
<1>16. CASE PreOldW
  BY <1>16, <1>t, <1>c, <1>d, <1>p DEF PreOldW, QuietNop, WaitClear
<1>17. CASE Act
  BY <1>17, <1>t, <1>c, <1>d, <1>p DEF Act
<1>18. CASE ActW
  BY <1>18, <1>t, <1>c, <1>d, <1>p DEF ActW, QuietNop, WaitClear
<1>19. CASE RdCmd0
  BY <1>19, <1>t, <1>c, <1>d, <1>p DEF RdCmd0, Column
<1>20. CASE RdNop1
  BY <1>20, <1>t, <1>c, <1>d, <1>p DEF RdNop1, Pass, QuietNop
<1>21. CASE RdCmd1
  BY <1>21, <1>t, <1>c, <1>d, <1>p DEF RdCmd1, Column
<1>22. CASE RdWait
  BY <1>22, <1>t, <1>c, <1>d, <1>p DEF RdWait, Pass, QuietNop
<1>23. CASE RdCap0(dq)
  BY <1>23, <1>t, <1>c, <1>d, <1>p DEF RdCap0
<1>24. CASE RdGap
  BY <1>24, <1>t, <1>c, <1>d, <1>p DEF RdGap, Pass, QuietNop
<1>25. CASE RdCap1(dq)
  BY <1>25, <1>t, <1>c, <1>d, <1>p DEF RdCap1
<1>26. CASE RdPreW
  BY <1>26, <1>t, <1>c, <1>d, <1>p DEF RdPreW, QuietNop, WaitKeep
<1>27. CASE WrCmd0
  BY <1>27, <1>t, <1>c, <1>d, <1>p DEF WrCmd0, Column
<1>28. CASE WrCmd1
  BY <1>28, <1>t, <1>c, <1>d, <1>p DEF WrCmd1, Column
<1>29. CASE WrRec
  <2>1. /\ state = "S_WR_REC" /\ cmd' = "NOP" /\ dq_oe' = FALSE
        /\ state' \in {"S_WR_REC", "S_DONE"}
    BY <1>29, <1>t, <1>d DEF WrRec, QuietNop, WaitKeep
  <2>2. QED BY <2>1, <1>t, <1>p
<1>30. CASE Done
  BY <1>30, <1>t, <1>c, <1>d, <1>p DEF Done, Pass, QuietNop
<1>31. CASE DoneW
  BY <1>31, <1>t, <1>c, <1>d, <1>p DEF DoneW, Pass, QuietNop
<1>q. QED
  BY <1>1, <1>2, <1>3, <1>4, <1>5, <1>6, <1>7, <1>8, <1>9, <1>10, <1>11, <1>12,
     <1>13, <1>14, <1>15, <1>16, <1>17, <1>18, <1>19, <1>20, <1>21, <1>22, <1>23,
     <1>24, <1>25, <1>26, <1>27, <1>28, <1>29, <1>30, <1>31
     DEF CtrlClock, Initialise, RefreshRow, OpenRow, Read, Write, Finish

\* PipeInv holds always, also through a reset in mid-read.
LEMMA PipeInvariant == Spec => [](TypeOK /\ PipeInv)
<1>1. Init => PipeInv
  BY DEF Init, CtrlInit, DevInit, PipeInv, PipeTop, Slots
<1>2. TypeOK /\ ResetInv /\ PipeInv /\ [Next]_vars => PipeInv'
  <2> SUFFICES ASSUME TypeOK, ResetInv, PipeInv, [Next]_vars PROVE PipeInv'
    OBVIOUS
  <2>1. CASE Tick
    BY <2>1, PipeStep DEF Tick
  <2>2. CASE PorTick
    <3>1. state = "S_INIT_WAIT" /\ UNCHANGED <<state, dq_oe>>
      BY <2>2 DEF PorTick, ResetInv, ctrlVars, datapins
    <3>2. QED BY <3>1 DEF PipeInv, PipeTop, Slots
  <2>3. CASE KeyReset
    <3>1. state' = "S_INIT_WAIT" /\ dq_oe' = FALSE
      BY <2>3 DEF KeyReset, CtrlReset
    <3>2. QED BY <3>1 DEF PipeInv, PipeTop, Slots
  <2>4. CASE UNCHANGED vars
    <3>1. UNCHANGED <<state, cnt, dq_oe, rd_valid>>
      BY <2>4 DEF vars, ctrlVars, devVars, fsmvars, datapins
    <3>2. QED BY <3>1 DEF PipeInv, PipeTop
  <2>5. QED BY <2>1, <2>2, <2>3, <2>4 DEF Next
<1>3. QED BY <1>1, <1>2, RowInvariant, PTL DEF Spec

\* The controller and the chip never drive the data bus in the same cycle, for
\* every timing and CAS latency and wherever a reset falls.
THEOREM BusNotContended == Spec => []NoContention
<1>1. PipeInv => NoContention
  BY DEF PipeInv, PipeTop, NoContention, Slots
<1>2. QED BY <1>1, PipeInvariant, PTL

\* The age of a command grows by one with every clock of the chip, up to
\* LONG_AGO, unless the chip samples that command.
LEMMA AgeGrows ==
  ASSUME DevTypeOK, NEW c, NEW ba, NEW a, NEW a10, NEW dqm, NEW dq,
         DevClock(c, ba, a, a10, dqm, dq)
  PROVE  \A k \in Spaced :
           /\ since[k] \in 0 .. 7 /\ since'[k] \in 0 .. 7
           /\ c # k => \/ since[k] < 7 /\ since'[k] = since[k] + 1
                       \/ since[k] = 7 /\ since'[k] = 7
  BY DEF DevTypeOK, DevClock, DevHistory, LONG_AGO

\* A clock cycle keeps SpaceInv.
LEMMA SpaceStep ==
  ASSUME TypeOK, TypeOK', RowInv, SpaceInv, FallingEdge,
         NEW sel, NEW addr, NEW wdata, NEW wstrb, NEW dq,
         CtrlClock(sel, addr, wdata, wstrb, dq)
  PROVE  SpaceInv'
<1> USE DEF latched, tracking, addrpins, datapins, answer, fsmvars, Goto,
            SpaceInv, Ago, LONG_AGO, InitStates, Spaced
<1>t. /\ state \in States /\ cnt \in 0 .. 7 /\ row_open \in BOOLEAN
      /\ init_cnt \in 0 .. INIT_CYCLES
  BY DEF TypeOK, CtrlTypeOK, FsmTypeOK, RowTypeOK
<1>c. cnt < 7 => (cnt + 1) % 8 = cnt + 1
  BY <1>t, ModSmall
<1>d. /\ TRP \in 0 .. 7 /\ TRC \in 0 .. 7 /\ TRCD \in 0 .. 7 /\ TMRD \in 0 .. 7
      /\ TWR \in 0 .. 7 /\ (TWR + TRP) % 8 = TWR + TRP /\ TWR + TRP <= 7
      /\ INIT_CYCLES \in Nat /\ INIT_CYCLES <= 16383
      /\ TWR <= INIT_CYCLES + 1 /\ TRC <= INIT_CYCLES + TRP + 3
  BY SMTT(30), TimingAssumption, PowerUpAssumption, ModSmall
<1>i. init_cnt < INIT_CYCLES => (init_cnt + 1) % 16384 = init_cnt + 1
  BY <1>t, <1>d, ModSmall
<1>s. \A k \in Spaced :
           /\ since[k] \in 0 .. 7 /\ since'[k] \in 0 .. 7
           /\ cmd' # k => \/ since[k] < 7 /\ since'[k] = since[k] + 1
                          \/ since[k] = 7 /\ since'[k] = 7
  BY AgeGrows DEF FallingEdge, TypeOK
<1>o. /\ state \in InitStates \cup {"S_REF_PRE_W", "S_REF_AR", "S_REF_AR_W",
                                    "S_PRE_OLD_W", "S_ACT", "S_ACT_W"} => ~row_open
      /\ state \in {"S_WR_CMD0", "S_RD_CMD0", "S_RD_CMD1"} => row_open
  BY DEF RowInv, ClosedStates, AccessStates
<1>1. CASE InitWait
  BY <1>1, <1>t, <1>d, <1>i, <1>s, <1>o DEF InitWait
<1>2. CASE InitPre
  BY <1>2, <1>t, <1>c, <1>d, <1>s, <1>o DEF InitPre, PrechargeAll
<1>3. CASE InitPreW
  BY <1>3, <1>t, <1>c, <1>d, <1>s, <1>o DEF InitPreW, QuietNop, WaitClear
<1>4. CASE InitAr1
  BY <1>4, <1>t, <1>c, <1>d, <1>s, <1>o DEF InitAr1, Refresh
<1>5. CASE InitAr1W
  BY <1>5, <1>t, <1>c, <1>d, <1>s, <1>o DEF InitAr1W, QuietNop, WaitClear
<1>6. CASE InitAr2
  BY <1>6, <1>t, <1>c, <1>d, <1>s, <1>o DEF InitAr2, Refresh
<1>7. CASE InitAr2W
  BY <1>7, <1>t, <1>c, <1>d, <1>s, <1>o DEF InitAr2W, QuietNop, WaitClear
<1>8. CASE InitLmr
  BY <1>8, <1>t, <1>c, <1>d, <1>s, <1>o DEF InitLmr
<1>9. CASE InitLmrW
  BY <1>9, <1>t, <1>c, <1>d, <1>s, <1>o DEF InitLmrW, QuietNop, WaitKeep
<1>10. CASE Idle(sel, addr, wdata, wstrb)
  BY <1>10, <1>t, <1>c, <1>d, <1>s, <1>o DEF Idle, RowHit
<1>11. CASE RefPre
  BY <1>11, <1>t, <1>c, <1>d, <1>s, <1>o DEF RefPre, PrechargeAll
<1>12. CASE RefPreW
  BY <1>12, <1>t, <1>c, <1>d, <1>s, <1>o DEF RefPreW, QuietNop, WaitClear
<1>13. CASE RefAr
  BY <1>13, <1>t, <1>c, <1>d, <1>s, <1>o DEF RefAr, Refresh
<1>14. CASE RefArW
  BY <1>14, <1>t, <1>c, <1>d, <1>s, <1>o DEF RefArW, QuietNop, WaitKeep
<1>15. CASE PreOld
  BY <1>15, <1>t, <1>c, <1>d, <1>s, <1>o DEF PreOld
<1>16. CASE PreOldW
  BY <1>16, <1>t, <1>c, <1>d, <1>s, <1>o DEF PreOldW, QuietNop, WaitClear
<1>17. CASE Act
  BY <1>17, <1>t, <1>c, <1>d, <1>s, <1>o DEF Act
<1>18. CASE ActW
  BY <1>18, <1>t, <1>c, <1>d, <1>s, <1>o DEF ActW, QuietNop, WaitClear
<1>19. CASE RdCmd0
  BY <1>19, <1>t, <1>c, <1>d, <1>s, <1>o DEF RdCmd0, Column
<1>20. CASE RdNop1
  BY <1>20, <1>t, <1>c, <1>d, <1>s, <1>o DEF RdNop1, Pass, QuietNop
<1>21. CASE RdCmd1
  BY <1>21, <1>t, <1>c, <1>d, <1>s, <1>o DEF RdCmd1, Column
<1>22. CASE RdWait
  BY <1>22, <1>t, <1>c, <1>d, <1>s, <1>o DEF RdWait, Pass, QuietNop
<1>23. CASE RdCap0(dq)
  BY <1>23, <1>t, <1>c, <1>d, <1>s, <1>o DEF RdCap0
<1>24. CASE RdGap
  BY <1>24, <1>t, <1>c, <1>d, <1>s, <1>o DEF RdGap, Pass, QuietNop
<1>25. CASE RdCap1(dq)
  BY <1>25, <1>t, <1>c, <1>d, <1>s, <1>o DEF RdCap1
<1>26. CASE RdPreW
  BY <1>26, <1>t, <1>c, <1>d, <1>s, <1>o DEF RdPreW, QuietNop, WaitKeep
<1>27. CASE WrCmd0
  BY <1>27, <1>t, <1>c, <1>d, <1>s, <1>o DEF WrCmd0, Column
<1>28. CASE WrCmd1
  BY <1>28, <1>t, <1>c, <1>d, <1>s, <1>o DEF WrCmd1, Column
<1>29. CASE WrRec
  BY <1>29, <1>t, <1>c, <1>d, <1>s, <1>o DEF WrRec, QuietNop, WaitKeep
<1>30. CASE Done
  BY <1>30, <1>t, <1>c, <1>d, <1>s, <1>o DEF Done, Pass, QuietNop
<1>31. CASE DoneW
  BY <1>31, <1>t, <1>c, <1>d, <1>s, <1>o DEF DoneW, Pass, QuietNop
<1>q. QED
  BY <1>1, <1>2, <1>3, <1>4, <1>5, <1>6, <1>7, <1>8, <1>9, <1>10, <1>11, <1>12,
     <1>13, <1>14, <1>15, <1>16, <1>17, <1>18, <1>19, <1>20, <1>21, <1>22, <1>23,
     <1>24, <1>25, <1>26, <1>27, <1>28, <1>29, <1>30, <1>31
     DEF CtrlClock, Initialise, RefreshRow, OpenRow, Read, Write, Finish

\* SpaceInv holds always.
LEMMA SpaceInvariant == Spec => [](TypeOK /\ RowInv /\ SpaceInv)
<1>1. Init => SpaceInv
  BY SMTT(30), TimingAssumption DEF Init, CtrlInit, DevInit, SpaceInv, Ago, Spaced, LONG_AGO,
     InitStates
<1>2. TypeOK /\ TypeOK' /\ ResetInv /\ RowInv /\ SpaceInv /\ [Next]_vars => SpaceInv'
  <2> SUFFICES ASSUME TypeOK, TypeOK', ResetInv, RowInv, SpaceInv, [Next]_vars
               PROVE  SpaceInv'
    OBVIOUS
  <2>1. CASE Tick
    BY <2>1, SpaceStep DEF Tick
  <2>2. CASE PorTick
    <3>1. /\ state = "S_INIT_WAIT" /\ cmd = "INHIBIT"
          /\ UNCHANGED <<state, init_cnt, row_open>> /\ init_cnt \in Nat
      BY <2>2 DEF PorTick, ResetInv, ctrlVars, fsmvars, tracking, TypeOK, CtrlTypeOK,
         FsmTypeOK
    <3>2. \A k \in Spaced : since[k] \in 0 .. 7 /\ since'[k] \in 0 .. 7
                            /\ (since'[k] = since[k] + 1 \/ since'[k] = 7)
      BY <2>2, <3>1, AgeGrows DEF PorTick, TypeOK, Spaced
    <3>3. \A k \in Spaced : Ago(k, init_cnt)'
      BY <3>1, <3>2 DEF SpaceInv, Ago, LONG_AGO
    <3>4. ~row_open
      BY <3>1 DEF RowInv, ClosedStates, InitStates
    <3>5. QED BY <3>1, <3>3, <3>4 DEF SpaceInv, InitStates
  <2>3. CASE KeyReset
    <3>1. /\ state' = "S_INIT_WAIT" /\ row_open' = FALSE /\ init_cnt' = 0
          /\ since' = since
      BY <2>3 DEF KeyReset, CtrlReset, devVars
    <3>2. QED BY <3>1 DEF SpaceInv, Ago, InitStates, TypeOK, DevTypeOK, LONG_AGO
  <2>4. CASE UNCHANGED vars
    <3>1. UNCHANGED <<state, cnt, init_cnt, row_open, since>>
      BY <2>4 DEF vars, ctrlVars, devVars, fsmvars, tracking
    <3>2. QED BY <3>1 DEF SpaceInv, Ago
  <2>5. QED BY <2>1, <2>2, <2>3, <2>4 DEF Next
<1>3. QED BY <1>1, <1>2, RowInvariant, PTL DEF Spec

\* In a state that satisfies SpaceInv every command comes late enough.
LEMMA SpacingStep ==
  ASSUME TypeOK, RowInv, SpaceInv, NEW sel, NEW addr, NEW wdata, NEW wstrb, NEW dq,
         CtrlClock(sel, addr, wdata, wstrb, dq)
  PROVE  LegalSpacing
<1> USE DEF SpaceInv, Ago, LONG_AGO, Spaced, InitStates, LegalSpacing
<1>d. /\ \A k \in Spaced : since[k] \in 0 .. 7
      /\ TRP \in 0 .. 7 /\ TWR \in 0 .. 7 /\ INIT_CYCLES \in Nat
      /\ TWR <= INIT_CYCLES + 1
  BY SMTT(30), TimingAssumption, PowerUpAssumption DEF TypeOK, DevTypeOK
<1>1. CASE Act
  BY <1>1 DEF Act
<1>2. CASE RdCmd0 \/ RdCmd1 \/ WrCmd0 \/ WrCmd1
  <2>1. CASE state = "S_WR_CMD1"
    BY <1>2, <2>1 DEF RdCmd0, RdCmd1, WrCmd0, WrCmd1, Column, RowInv, AccessStates
  <2>2. CASE state # "S_WR_CMD1"
    BY <1>2, <2>2 DEF RdCmd0, RdCmd1, WrCmd0, WrCmd1, Column, RowInv, AccessStates
  <2>3. QED BY <2>1, <2>2
<1>3. CASE InitAr1 \/ InitAr2 \/ InitLmr \/ RefAr
  BY <1>3 DEF InitAr1, InitAr2, InitLmr, RefAr, Refresh
<1>4. CASE InitPre \/ RefPre \/ PreOld
  BY <1>4, <1>d DEF InitPre, RefPre, PreOld, PrechargeAll
<1>5. CASE cmd' \in {"NOP", "INHIBIT"}
  BY <1>5
<1>6. QED
  BY <1>1, <1>2, <1>3, <1>4, <1>5
     DEF CtrlClock, Initialise, RefreshRow, OpenRow, Read, Write, Finish,
         InitWait, InitPreW, InitAr1W, InitAr2W, InitLmrW, Idle, RowHit,
         RefPreW, RefArW, PreOldW, ActW, RdNop1, RdWait, RdCap0,
         RdGap, RdCap1, RdPreW, WrRec, Done, DoneW, QuietNop, Pass

\* No two commands come closer than the timing parameters allow, whatever
\* request, refresh or reset lies between them.
THEOREM SpacingIsLegal == Spec => SpacingLegal
<1>1. TypeOK /\ ResetInv /\ RowInv /\ SpaceInv /\ [Next]_vars => [LegalSpacing]_vars
  <2> SUFFICES ASSUME TypeOK, ResetInv, RowInv, SpaceInv, Next PROVE LegalSpacing
    OBVIOUS
  <2>1. CASE Tick
    BY <2>1, SpacingStep DEF Tick
  <2>2. CASE PorTick
    BY <2>2 DEF PorTick, ResetInv, LegalSpacing, ctrlVars
  <2>3. CASE KeyReset
    BY <2>3 DEF KeyReset, CtrlReset, LegalSpacing
  <2>4. QED BY <2>1, <2>2, <2>3 DEF Next
<1>2. QED BY <1>1, RowInvariant, SpaceInvariant, PTL DEF Spec, SpacingLegal

-----------------------------------------------------------------------------
(* Refresh.  Both theorems are about the distance between an expiry of the   *)
(* interval counter and the REFRESH it asks for, of which the counter and    *)
(* the FSM state each know a part: RefreshDue bounds, per state, the cycles  *)
(* still to come, and RefreshOnTime says that together with those already    *)
(* counted they never exceed MAX_DUE.                                        *)


\* The arithmetic consequences of the timing assumptions that the steps need.
LEMMA DueRange ==
  /\ TRP \in Nat /\ TRC \in Nat /\ TRCD \in Nat /\ TWR \in Nat /\ TMRD \in Nat
  /\ TRP <= 7 /\ TRC <= 7 /\ TRCD <= 7 /\ TWR + TRP <= 7
  /\ (TWR + TRP) % 8 = TWR + TRP
  /\ REF_INTERVAL \in Nat /\ REF_INTERVAL <= 1023 /\ MAX_DUE < REF_INTERVAL
  BY TimingAssumption, RefreshAssumption, ModSmall

\* The refresh cycle itself fits into the bound on a request.
LEMMA RefreshCycleFits == MAX_DUE \in Nat /\ TRC + TRP + 4 <= MAX_DUE
  BY DueRange DEF MAX_DUE, AfterAct, AfterRead, AfterWrite, AfterDone

\* What the always block at sdram_ctrl.v:139 does in one clock: nothing before
\* the initialisation, count, or expire; S_REF_AR clears the request last.
LEMMA RefreshCounterStep ==
  ASSUME RefreshCounter, ref_cnt \in Nat, ref_cnt <= REF_INTERVAL
  PROVE  \/ /\ ~initialized /\ UNCHANGED <<ref_cnt, ref_req>>
         \/ /\ initialized /\ ref_cnt < REF_INTERVAL /\ ref_cnt' = ref_cnt + 1
            /\ ref_req' <=> state # "S_REF_AR" /\ ref_req
         \/ /\ initialized /\ ref_cnt = REF_INTERVAL /\ ref_cnt' = 0
            /\ ref_req' <=> state # "S_REF_AR"
<1>1. ref_cnt < REF_INTERVAL => (ref_cnt + 1) % 1024 = ref_cnt + 1
  BY DueRange, ModSmall
<1>2. CASE ~initialized
  BY <1>2 DEF RefreshCounter, refvars
<1>3. CASE initialized /\ ref_cnt < REF_INTERVAL
  <2>1. ref_cnt' = ref_cnt + 1
    BY <1>1, <1>3, DueRange DEF RefreshCounter
  <2>2. ~(ref_cnt >= REF_INTERVAL)
    BY <1>3, DueRange
  <2>3. ref_req' <=> state # "S_REF_AR" /\ ref_req
    BY <1>3, <2>2, Z3 DEF RefreshCounter
  <2>4. QED BY <1>3, <2>1, <2>3
<1>4. CASE initialized /\ ref_cnt = REF_INTERVAL
  <2>1. ref_cnt >= REF_INTERVAL
    BY <1>4, DueRange
  <2>2. ref_cnt' = 0 /\ (ref_req' <=> state # "S_REF_AR")
    BY <1>4, <2>1, Zenon DEF RefreshCounter
  <2>3. QED BY <1>4, <2>2
<1>5. QED BY <1>2, <1>3, <1>4, DueRange

\* A clock of the controller keeps the refresh on time: in every FSM state one
\* cycle passes and at least one of those still to come is used up.
LEMMA RefreshStep ==
  ASSUME TypeOK, RefreshInv, NEW sel, NEW addr, NEW wdata, NEW wstrb, NEW dq,
         CtrlClock(sel, addr, wdata, wstrb, dq)
  PROVE  /\ RefreshOnTime' /\ WaitBound' /\ (initialized <=> state \notin InitStates)'
         /\ (state \in {"S_REF_PRE", "S_REF_PRE_W", "S_REF_AR"} => ref_req)'
<1> USE DEF latched, tracking, addrpins, datapins, answer, fsmvars, Goto
<1>t. /\ state \in States /\ cnt \in 0 .. 7
      /\ ref_cnt \in Nat /\ ref_cnt <= REF_INTERVAL
      /\ initialized \in BOOLEAN /\ ref_req \in BOOLEAN
  BY DEF TypeOK, CtrlTypeOK, FsmTypeOK, RefreshTypeOK
<1>c. cnt < 7 => (cnt + 1) % 8 = cnt + 1
  BY <1>t, ModSmall
<1>r. \/ /\ ~initialized /\ UNCHANGED <<ref_cnt, ref_req>>
      \/ /\ initialized /\ ref_cnt < REF_INTERVAL /\ ref_cnt' = ref_cnt + 1
         /\ ref_req' <=> state # "S_REF_AR" /\ ref_req
      \/ /\ initialized /\ ref_cnt = REF_INTERVAL /\ ref_cnt' = 0
         /\ ref_req' <=> state # "S_REF_AR"
  BY <1>t, RefreshCounterStep DEF CtrlClock
<1> USE DEF RefreshInv, RefreshOnTime, RefreshDue, WaitBound, InitStates, MAX_DUE,
            AfterAct, AfterRead, AfterWrite, AfterDone
<1>1. CASE InitWait
  BY <1>1, <1>t, <1>c, <1>r, DueRange DEF InitWait
<1>2. CASE InitPre
  BY <1>2, <1>t, <1>c, <1>r, DueRange DEF InitPre, PrechargeAll
<1>3. CASE InitPreW
  BY <1>3, <1>t, <1>c, <1>r, DueRange DEF InitPreW, QuietNop, WaitClear
<1>4. CASE InitAr1
  BY <1>4, <1>t, <1>c, <1>r, DueRange DEF InitAr1, Refresh
<1>5. CASE InitAr1W
  BY <1>5, <1>t, <1>c, <1>r, DueRange DEF InitAr1W, QuietNop, WaitClear
<1>6. CASE InitAr2
  BY <1>6, <1>t, <1>c, <1>r, DueRange DEF InitAr2, Refresh
<1>7. CASE InitAr2W
  BY <1>7, <1>t, <1>c, <1>r, DueRange DEF InitAr2W, QuietNop, WaitClear
<1>8. CASE InitLmr
  BY <1>8, <1>t, <1>c, <1>r, DueRange DEF InitLmr
<1>9. CASE InitLmrW
  <2>1. /\ state = "S_INIT_LMR_W" /\ ~initialized /\ ~ref_req
    BY <1>9, <1>t DEF InitLmrW, RefreshInv, InitStates
  <2>2. \/ cnt >= TMRD /\ state' = "S_IDLE"
        \/ ~(cnt >= TMRD) /\ state' = state
    BY <1>9, <1>t, DueRange DEF InitLmrW, WaitKeep
  <2>3. initialized' <=> cnt >= TMRD
    BY <1>9, <2>1, Zenon DEF InitLmrW
  <2>4. QED
    BY <2>1, <2>2, <2>3, <1>r DEF RefreshOnTime, WaitBound, InitStates
<1>10. CASE Idle(sel, addr, wdata, wstrb)
  BY <1>10, <1>t, <1>c, <1>r, DueRange DEF Idle, RowHit
<1>11. CASE RefPre
  BY <1>11, <1>t, <1>c, <1>r, DueRange DEF RefPre, PrechargeAll
<1>12. CASE RefPreW
  BY <1>12, <1>t, <1>c, <1>r, DueRange DEF RefPreW, QuietNop, WaitClear
<1>13. CASE RefAr
  BY <1>13, <1>t, <1>c, <1>r, DueRange DEF RefAr, Refresh
<1>14. CASE RefArW
  <2>1. state = "S_REF_AR_W" /\ initialized' = initialized
    BY <1>14 DEF RefArW
  <2>2. \/ cnt >= TRC /\ state' = "S_IDLE" /\ cnt' = cnt
        \/ cnt < TRC /\ state' = state /\ cnt' = cnt + 1
    BY <1>14, <1>t, <1>c, DueRange DEF RefArW, WaitKeep
  <2>3. CASE cnt >= TRC
    <3>1. state' = "S_IDLE" /\ cnt' = cnt
      BY <2>2, <2>3, <1>t, DueRange
    <3>2. QED
      BY <2>1, <2>3, <3>1, <1>t, <1>r, DueRange
  <2>4. CASE cnt < TRC
    <3>1. state' = state /\ cnt' = cnt + 1
      BY <2>2, <2>4, <1>t, DueRange
    <3>2. RefreshDue = TRC - cnt + TRP + 4 /\ RefreshDue' = TRC - cnt + TRP + 3
      BY <2>1, <3>1, <1>t, DueRange DEF RefreshDue
    <3>3. RefreshOnTime'
      <4>1. RefreshOnTime /\ (ref_req => initialized)
        BY DEF RefreshInv
      <4>2. \/ ref_req' = FALSE
            \/ ref_cnt' = 0
            \/ ref_req /\ ref_cnt' = ref_cnt + 1
        BY <2>1, <1>t, <1>r, <4>1
      <4>3. QED
        BY <2>4, <3>2, <4>1, <4>2, <1>t, DueRange, RefreshCycleFits DEF
           RefreshOnTime
    <3>4. QED
      BY <2>1, <2>4, <3>1, <3>3, <1>t, DueRange DEF RefreshInv, WaitBound,
         InitStates
  <2>5. QED BY <2>3, <2>4, <1>t, DueRange
<1>15. CASE PreOld
  BY <1>15, <1>t, <1>c, <1>r, DueRange DEF PreOld
<1>16. CASE PreOldW
  BY <1>16, <1>t, <1>c, <1>r, DueRange DEF PreOldW, QuietNop, WaitClear
<1>17. CASE Act
  BY <1>17, <1>t, <1>c, <1>r, DueRange DEF Act
<1>18. CASE ActW
  BY <1>18, <1>t, <1>c, <1>r, DueRange DEF ActW, QuietNop, WaitClear
<1>19. CASE RdCmd0
  BY <1>19, <1>t, <1>c, <1>r, DueRange DEF RdCmd0, Column
<1>20. CASE RdNop1
  BY <1>20, <1>t, <1>c, <1>r, DueRange DEF RdNop1, Pass, QuietNop
<1>21. CASE RdCmd1
  BY <1>21, <1>t, <1>c, <1>r, DueRange DEF RdCmd1, Column
<1>22. CASE RdWait
  BY <1>22, <1>t, <1>c, <1>r, DueRange DEF RdWait, Pass, QuietNop
<1>23. CASE RdCap0(dq)
  BY <1>23, <1>t, <1>c, <1>r, DueRange DEF RdCap0
<1>24. CASE RdGap
  BY <1>24, <1>t, <1>c, <1>r, DueRange DEF RdGap, Pass, QuietNop
<1>25. CASE RdCap1(dq)
  BY <1>25, <1>t, <1>c, <1>r, DueRange DEF RdCap1
<1>26. CASE RdPreW
  BY <1>26, <1>t, <1>c, <1>r, DueRange DEF RdPreW, QuietNop, WaitKeep
<1>27. CASE WrCmd0
  BY <1>27, <1>t, <1>c, <1>r, DueRange DEF WrCmd0, Column
<1>28. CASE WrCmd1
  BY <1>28, <1>t, <1>c, <1>r, DueRange DEF WrCmd1, Column
<1>29. CASE WrRec
  <2>1. state = "S_WR_REC" /\ initialized' = initialized
    BY <1>29 DEF WrRec
  <2>2. \/ cnt >= TWR + TRP /\ state' = "S_DONE" /\ cnt' = cnt
        \/ cnt < TWR + TRP /\ state' = state /\ cnt' = cnt + 1
    BY <1>29, <1>t, <1>c, DueRange DEF WrRec, WaitKeep
  <2>3. QED
    BY <2>1, <2>2, <1>t, <1>r, DueRange
<1>30. CASE Done
  BY <1>30, <1>t, <1>c, <1>r, DueRange DEF Done, Pass, QuietNop
<1>31. CASE DoneW
  BY <1>31, <1>t, <1>c, <1>r, DueRange DEF DoneW, Pass, QuietNop
<1>q. QED
  BY <1>1, <1>2, <1>3, <1>4, <1>5, <1>6, <1>7, <1>8, <1>9, <1>10, <1>11, <1>12,
     <1>13, <1>14, <1>15, <1>16, <1>17, <1>18, <1>19, <1>20, <1>21, <1>22, <1>23,
     <1>24, <1>25, <1>26, <1>27, <1>28, <1>29, <1>30, <1>31
     DEF CtrlClock, Initialise, RefreshRow, OpenRow, Read, Write, Finish

\* The cycles still to come are never negative: no wait counter overshoots.
LEMMA DueNat ==
  ASSUME TypeOK, WaitBound
  PROVE  RefreshDue \in Nat
<1>1. cnt \in 0 .. 7
  BY DEF TypeOK, CtrlTypeOK, FsmTypeOK
<1>2. QED
  BY <1>1, DueRange DEF RefreshDue, WaitBound, MAX_DUE, AfterAct, AfterRead,
                        AfterWrite, AfterDone

\* Only a reset clears the flag initialized.
LEMMA InitialisedStays ==
  ASSUME initialized, NEW sel, NEW addr, NEW wdata, NEW wstrb, NEW dq,
         CtrlClock(sel, addr, wdata, wstrb, dq)
  PROVE  initialized'
<1>1. CASE InitLmrW
  <2>1. initialized' <=> (initialized \/ cnt >= TMRD)
    BY <1>1, Zenon DEF InitLmrW
  <2>2. QED BY <2>1
<1>2. CASE InitPre \/ InitPreW \/ InitAr1 \/ InitAr1W
  BY <1>2 DEF InitPre, InitPreW, InitAr1, InitAr1W, PrechargeAll, Refresh
<1>2b. CASE InitWait
  <2>1. UNCHANGED <<initialized, latched, tracking, addrpins, dq_out, answer>>
    BY <1>2b DEF InitWait
  <2>2. initialized' = initialized
    BY <2>1
  <2>3. QED BY <2>2
<1>2a. CASE InitAr2 \/ InitAr2W \/ InitLmr
  BY <1>2a DEF InitAr2, InitAr2W, InitLmr, Refresh
<1>3. CASE Idle(sel, addr, wdata, wstrb)
  BY <1>3 DEF Idle, RowHit, fsmvars
<1>4. CASE RefreshRow \/ OpenRow
  BY <1>4 DEF RefreshRow, OpenRow, RefPre, RefPreW, RefAr, RefArW, PreOld,
              PreOldW, Act, ActW, PrechargeAll, Refresh
<1>5. CASE Read(dq)
  BY <1>5 DEF Read, RdCmd0, RdNop1, RdCmd1, RdWait, RdCap0, RdGap, RdCap1, RdPreW,
              Column, Pass, fsmvars
<1>6. CASE Write \/ Finish
  BY <1>6 DEF Write, Finish, WrCmd0, WrCmd1, WrRec, Done, DoneW, Column, Pass
<1>7. QED BY <1>1, <1>2, <1>2a, <1>2b, <1>3, <1>4, <1>5, <1>6 DEF CtrlClock, Initialise

\* The cycle that clears ref_req sends the REFRESH command.
LEMMA RefreshIssued ==
  ASSUME state = "S_REF_AR", NEW sel, NEW addr, NEW wdata, NEW wstrb, NEW dq,
         CtrlClock(sel, addr, wdata, wstrb, dq)
  PROVE  cmd' = "REFRESH"
BY DEF CtrlClock, Initialise, RefreshRow, OpenRow, Read, Write, Finish,
     InitWait, InitPre, InitPreW, InitAr1, InitAr1W, InitAr2, InitAr2W,
     InitLmr, InitLmrW, Idle, RowHit, RefPre, RefPreW, RefAr, RefArW, PreOld, PreOldW,
     Act, ActW, RdCmd0, RdNop1, RdCmd1, RdWait, RdCap0, RdGap, RdCap1, RdPreW,
     WrCmd0, WrCmd1, WrRec, Done, DoneW, Pass, Refresh

\* The cycles since the last REFRESH never exceed those since the last expiry,
\* plus one interval while the request is open.
LEMMA GapStep ==
  ASSUME TypeOK, RefreshInv, NEW sel, NEW addr, NEW wdata, NEW wstrb, NEW dq,
         CtrlClock(sel, addr, wdata, wstrb, dq), RefreshGap
  PROVE  /\ (~initialized => ref_cnt = 0 /\ ~ref_req)'
         /\ (ref_gap <= IF ref_req THEN ref_cnt + REF_INTERVAL + 1 ELSE ref_cnt)'
<1>t. /\ ref_cnt \in Nat /\ ref_cnt <= REF_INTERVAL /\ ref_gap \in 0 .. GAP_MAX
      /\ initialized \in BOOLEAN /\ ref_req \in BOOLEAN
  BY DEF TypeOK, CtrlTypeOK, FsmTypeOK, RefreshTypeOK
<1>i. REF_INTERVAL \in Nat
  BY DueRange
<1>m. GAP_MAX \in Nat
  BY DueRange DEF GAP_MAX
<1>r. \/ /\ ~initialized /\ UNCHANGED <<ref_cnt, ref_req>>
      \/ /\ initialized /\ ref_cnt < REF_INTERVAL /\ ref_cnt' = ref_cnt + 1
         /\ ref_req' <=> state # "S_REF_AR" /\ ref_req
      \/ /\ initialized /\ ref_cnt = REF_INTERVAL /\ ref_cnt' = 0
         /\ ref_req' <=> state # "S_REF_AR"
  BY <1>t, RefreshCounterStep DEF CtrlClock
<1>n. ref_cnt' \in Nat
  BY <1>r, <1>t
<1>1. CASE ~initialized
  <2>1. ref_gap' = 0 /\ ref_cnt' = 0 /\ ~ref_req'
    BY <1>1, <1>r DEF RefreshGap, RefreshInv
  <2>2. QED BY <2>1, DueRange
<1>2. CASE initialized /\ state = "S_REF_AR"
  <2>1. cmd' = "REFRESH" /\ initialized'
    BY <1>2, RefreshIssued, InitialisedStays
  <2>2. ref_gap' = 0
    BY <2>1 DEF RefreshGap
  <2>3. ref_cnt' = 0 \/ ref_cnt' = ref_cnt + 1
    BY <1>2, <1>r
  <2>4. QED BY <2>1, <2>2, <2>3, <1>t, <1>i
<1>3. CASE initialized /\ state # "S_REF_AR"
  <2>1. initialized'
    BY <1>3, InitialisedStays
  <2>2. ref_gap' <= ref_gap + 1
    BY <1>t, <1>m DEF RefreshGap
  <2>2a. ref_gap' \in Nat
    BY <1>t, <1>m DEF RefreshGap
  <2>3. RefreshDue \in Nat
    BY DueNat DEF RefreshInv
  <2>4. CASE ref_req
    <3>1. ref_cnt < REF_INTERVAL /\ ref_gap <= ref_cnt + REF_INTERVAL + 1
      BY <2>3, <2>4, <1>t, DueRange, RefreshCycleFits DEF RefreshInv, RefreshOnTime
    <3>2. ref_cnt' = ref_cnt + 1 /\ ref_req'
      BY <3>1, <2>4, <1>3, <1>r, <1>t, DueRange
    <3>3. QED BY <2>1, <2>2, <2>2a, <3>1, <3>2, <1>t, DueRange
  <2>5. CASE ~ref_req
    <3>1. ref_gap <= ref_cnt
      BY <2>5 DEF RefreshInv
    <3>2. \/ ref_cnt' = ref_cnt + 1 /\ ~ref_req'
          \/ ref_cnt = REF_INTERVAL /\ ref_cnt' = 0 /\ ref_req'
      BY <2>5, <1>3, <1>r
    <3>3. QED BY <2>1, <2>2, <2>2a, <3>1, <3>2, <1>t, DueRange
  <2>6. QED BY <2>4, <2>5
<1>4. QED BY <1>1, <1>2, <1>3

\* RefreshInv holds after the configuration.
LEMMA RefreshInitial == Init => RefreshInv
<1> SUFFICES ASSUME Init PROVE RefreshInv
  OBVIOUS
<1>1. /\ state = "S_INIT_WAIT" /\ initialized = FALSE /\ ref_cnt = 0
      /\ ref_req = FALSE /\ ref_gap = 0
  BY DEF Init, CtrlInit
<1>2. QED BY <1>1 DEF RefreshInv, RefreshOnTime, WaitBound, InitStates

\* Every step of the system keeps RefreshInv.
LEMMA RefreshNext ==
  ASSUME TypeOK, RefreshInv, [Next]_vars
  PROVE  RefreshInv'
<1>1. CASE Tick
  <2>1. CtrlClock(pending, SdramAddr(xbus_adr), xbus_dat_w, CtrlStrobes, DqSample)
        /\ RefreshGap
    BY <1>1 DEF Tick
  <2>2. QED BY <2>1, RefreshStep, GapStep DEF RefreshInv
<1>2. CASE KeyReset
  <2>1. /\ state' = "S_INIT_WAIT" /\ initialized' = FALSE /\ ref_cnt' = 0
        /\ ref_req' = FALSE /\ ref_gap' = 0
    BY <1>2 DEF KeyReset, CtrlReset
  <2>2. QED BY <2>1 DEF RefreshInv, RefreshOnTime, WaitBound, InitStates
<1>3. CASE PorTick \/ UNCHANGED vars
  <2>1. UNCHANGED <<state, cnt, initialized, ref_cnt, ref_req, ref_gap>>
    BY <1>3 DEF PorTick, vars, ctrlVars, boardVars, fsmvars, refvars
  <2>2. QED BY <2>1 DEF RefreshInv, RefreshOnTime, WaitBound, RefreshDue
<1>4. QED BY <1>1, <1>2, <1>3 DEF Next

\* RefreshInv holds always: the inductive strengthening of both theorems below.
LEMMA RefreshInvariant == Spec => [](TypeOK /\ RefreshInv)
<1>1. Init => RefreshInv
  BY RefreshInitial
<1>2. TypeOK /\ RefreshInv /\ [Next]_vars => RefreshInv'
  BY RefreshNext
<1>3. QED BY <1>1, <1>2, TypeCorrect, PTL DEF Spec

\* No expiry of the refresh counter falls into the time a request is still
\* open, for every timing in which an access and a refresh fit the interval, so
\* the chip gets one REFRESH for each expiry.
THEOREM RefreshesNotLost == Spec => []RefreshNotLost
<1>1. TypeOK /\ RefreshInv => RefreshNotLost
  <2> SUFFICES ASSUME TypeOK, RefreshInv, initialized, ref_cnt >= REF_INTERVAL
               PROVE  ~ref_req /\ state # "S_REF_AR"
    BY DEF RefreshNotLost
  <2>1. ref_cnt \in Nat /\ RefreshDue \in Nat
    BY DueNat DEF RefreshInv, TypeOK, CtrlTypeOK, RefreshTypeOK
  <2>2. ~ref_req
    BY <2>1, DueRange, RefreshCycleFits DEF RefreshInv, RefreshOnTime
  <2>3. QED BY <2>2 DEF RefreshInv
<1>2. QED BY <1>1, RefreshInvariant, PTL

\* Two REFRESH commands are never further apart than one interval and the
\* longest access that can be in progress when the counter expires.
THEOREM RefreshGapIsBounded == Spec => []RefreshGapBounded
<1>1. TypeOK /\ RefreshInv => RefreshGapBounded
  <2> SUFFICES ASSUME TypeOK, RefreshInv PROVE RefreshGapBounded
    OBVIOUS
  <2>1. /\ ref_cnt \in Nat /\ ref_cnt <= REF_INTERVAL /\ RefreshDue \in Nat
        /\ ref_gap \in 0 .. GAP_MAX /\ GAP_MAX \in Nat
    BY DueNat, DueRange DEF RefreshInv, TypeOK, CtrlTypeOK, RefreshTypeOK, GAP_MAX
  <2>2. CASE ref_req
    BY <2>1, <2>2, DueRange, RefreshCycleFits
       DEF RefreshInv, RefreshOnTime, RefreshGapBounded
  <2>3. CASE ~ref_req
    BY <2>1, <2>3, DueRange, RefreshCycleFits DEF RefreshInv, RefreshGapBounded
  <2>4. QED BY <2>2, <2>3
<1>2. QED BY <1>1, RefreshInvariant, PTL

-----------------------------------------------------------------------------
(***************************************************************************)
(* The bus: the controller works on the request that is on the bus, and    *)
(* every request is acknowledged within MAX_LATENCY cycles.  Each of the   *)
(* two needs the other: a request that is given up while it is pending     *)
(* leaves the controller at work on nothing, and nothing is given up only  *)
(* because the answer comes in time.  BusInv says how the handshake stands *)
(* in each phase, LatencyInv how long a request has waited and how long it *)
(* may still have to.                                                      *)
(***************************************************************************)

\* The arithmetic the steps need, and that a request is answered after the
\* time a refresh takes it.
LEMMA LatencyRange ==
  /\ FromAct \in Nat /\ TRP + 10 <= FromColumn /\ TWR + TRP + 5 <= FromColumn
  /\ FromColumn \in Nat /\ FromAct = TRCD + 2 + FromColumn
  /\ MAX_LATENCY = TRP + TRC + 7 + FromAct /\ MAX_LATENCY \in Nat
  BY DueRange DEF FromAct, FromColumn, MAX_LATENCY, AfterAct, AfterRead, AfterWrite,
                  AfterDone

\* One clock of master and bridge: a strobed request becomes pending or is
\* refused, a pending one waits for ready, and a free bus takes a new one.  The
\* master does not give up.
LEMMA HandshakeStep ==
  ASSUME TypeOK, BusInv, LatencyInv, BusAssumptions, AnswerDue \in Nat, pending =>
         AnswerDue > 0, MasterClock, BridgeClock
  PROVE  \/ /\ xbus_cyc /\ xbus_stb /\ ~pending /\ xbus_cyc' /\ ~xbus_stb' /\ m_wait' = 1
            /\ UNCHANGED <<xbus_adr, xbus_we, xbus_sel, xbus_dat_w>>
            /\ \/ InSdram(xbus_adr) /\ pending' /\ ~xbus_ack'
               \/ ~pending' /\ xbus_ack'
         \/ /\ pending /\ xbus_cyc' /\ ~xbus_stb' /\ m_wait' = m_wait + 1
            /\ UNCHANGED <<xbus_adr, xbus_we, xbus_sel, xbus_dat_w>>
            /\ \/ ~ready /\ pending' /\ ~xbus_ack'
               \/ ready /\ ~pending' /\ xbus_ack'
         \/ /\ ~pending /\ ~pending' /\ ~xbus_ack' /\ m_wait' = 0
            /\ \/ ~xbus_cyc' /\ ~xbus_stb'
               \/ xbus_cyc' /\ xbus_stb' /\ initialized
<1>t. /\ pending \in BOOLEAN /\ xbus_ack \in BOOLEAN /\ xbus_cyc \in BOOLEAN
      /\ xbus_stb \in BOOLEAN /\ ready \in BOOLEAN
      /\ m_wait \in Nat /\ XBUS_TIMEOUT \in Nat
  BY BoardAssumption DEF TypeOK, BridgeTypeOK, CtrlTypeOK, AnswerTypeOK
<1>1. CASE xbus_cyc /\ xbus_stb
  <2>1. ~pending /\ ~xbus_ack /\ m_wait = 0
    BY <1>1 DEF BusInv, LatencyInv
  <2>2. m_wait < XBUS_TIMEOUT
    BY <2>1, <1>t, LatencyRange, DueRange DEF BusAssumptions
  <2>3. MasterHold
    <3>1. ~MasterFree /\ ~(m_wait >= XBUS_TIMEOUT)
      BY <1>1, <2>1, <2>2, <1>t DEF MasterFree
    <3>2. QED BY <3>1 DEF MasterClock, MasterStart, MasterIdle, MasterTimeout
  <2>4. BridgeAccept \/ BridgeReject
    BY <1>1, <2>1 DEF BridgeClock, BridgeAccept, BridgeReject, BridgeAnswer,
       BridgeQuiet, Strobe
  <2>5. /\ xbus_cyc' /\ ~xbus_stb' /\ m_wait' = 1
        /\ UNCHANGED <<xbus_adr, xbus_we, xbus_sel, xbus_dat_w>>
    BY <1>1, <2>1, <2>3 DEF MasterHold
  <2>6. \/ InSdram(xbus_adr) /\ pending' /\ ~xbus_ack'
        \/ ~pending' /\ xbus_ack'
    BY <2>1, <2>4 DEF BridgeAccept, BridgeReject
  <2>7. QED BY <1>1, <2>1, <2>5, <2>6
<1>2. CASE pending
  <2>1. xbus_cyc /\ ~xbus_stb /\ ~xbus_ack
    BY <1>2 DEF BusInv
  <2>2. m_wait < XBUS_TIMEOUT
    BY <1>2, <1>t, LatencyRange DEF BusAssumptions, LatencyInv
  <2>3. MasterHold
    <3>1. ~MasterFree /\ ~(m_wait >= XBUS_TIMEOUT)
      BY <2>1, <2>2, <1>t DEF MasterFree
    <3>2. QED BY <3>1 DEF MasterClock, MasterStart, MasterIdle, MasterTimeout
  <2>4. BridgeAnswer \/ BridgeQuiet
    BY <1>2 DEF BridgeClock, BridgeAccept, BridgeReject
  <2>5. /\ xbus_cyc' /\ ~xbus_stb' /\ m_wait' = m_wait + 1
        /\ UNCHANGED <<xbus_adr, xbus_we, xbus_sel, xbus_dat_w>>
    BY <2>1, <2>3 DEF MasterHold
  <2>6. \/ ~ready /\ pending' /\ ~xbus_ack'
        \/ ready /\ ~pending' /\ xbus_ack'
    BY <1>2, <2>4, <1>t DEF BridgeAnswer, BridgeQuiet
  <2>7. QED BY <1>2, <2>5, <2>6
<1>3. CASE ~pending /\ ~(xbus_cyc /\ xbus_stb)
  <2>1. MasterFree
    BY <1>3 DEF BusInv, MasterFree
  <2>2. MasterStart \/ MasterIdle
    BY <2>1 DEF MasterClock, MasterHold, MasterTimeout
  <2>3. BridgeQuiet
    BY <1>3 DEF BridgeClock, BridgeAccept, BridgeReject, BridgeAnswer, Strobe
  <2>4. ~pending' /\ ~xbus_ack'
    BY <1>3, <2>3 DEF BridgeQuiet
  <2>5. /\ m_wait' = 0
        /\ \/ ~xbus_cyc' /\ ~xbus_stb'
           \/ xbus_cyc' /\ xbus_stb' /\ initialized
    BY <2>2 DEF MasterStart, MasterIdle, BusAssumptions
  <2>6. QED BY <1>3, <2>4, <2>5
<1>4. QED BY <1>1, <1>2, <1>3, <1>t

\* The FSM comes to serve a request only from S_IDLE, where it latches what is
\* on its inputs, and keeps what it has latched until S_DONE_W.
LEMMA ServingStep ==
  ASSUME TypeOK, NEW sel, NEW addr, NEW wdata, NEW wstrb, NEW dq,
         CtrlClock(sel, addr, wdata, wstrb, dq)
  PROVE  state' \in ServingStates =>
           \/ state \in ServingStates /\ state # "S_DONE_W" /\ UNCHANGED latched
           \/ /\ state = "S_IDLE" /\ sel /\ addr_lat' = addr /\ wdata_lat' = wdata
              /\ wstrb_lat' = wstrb /\ is_write' = (wstrb # {})
<1> USE DEF latched, tracking, addrpins, datapins, answer, fsmvars, Goto,
            ServingStates, AccessStates
<1>1. CASE InitWait
  BY <1>1 DEF InitWait
<1>2. CASE InitPre
  BY <1>2 DEF InitPre, PrechargeAll
<1>3. CASE InitPreW
  BY <1>3 DEF InitPreW, QuietNop, WaitClear
<1>4. CASE InitAr1
  BY <1>4 DEF InitAr1, Refresh
<1>5. CASE InitAr1W
  BY <1>5 DEF InitAr1W, QuietNop, WaitClear
<1>6. CASE InitAr2
  BY <1>6 DEF InitAr2, Refresh
<1>7. CASE InitAr2W
  BY <1>7 DEF InitAr2W, QuietNop, WaitClear
<1>8. CASE InitLmr
  BY <1>8 DEF InitLmr
<1>9. CASE InitLmrW
  BY <1>9 DEF InitLmrW, QuietNop, WaitKeep
<1>10. CASE Idle(sel, addr, wdata, wstrb)
  BY <1>10 DEF Idle, RowHit
<1>11. CASE RefPre
  BY <1>11 DEF RefPre, PrechargeAll
<1>12. CASE RefPreW
  BY <1>12 DEF RefPreW, QuietNop, WaitClear
<1>13. CASE RefAr
  BY <1>13 DEF RefAr, Refresh
<1>14. CASE RefArW
  BY <1>14 DEF RefArW, QuietNop, WaitKeep
<1>15. CASE PreOld
  BY <1>15 DEF PreOld
<1>16. CASE PreOldW
  BY <1>16 DEF PreOldW, QuietNop, WaitClear
<1>17. CASE Act
  BY <1>17 DEF Act
<1>18. CASE ActW
  BY <1>18 DEF ActW, QuietNop, WaitClear
<1>19. CASE RdCmd0
  BY <1>19 DEF RdCmd0, Column
<1>20. CASE RdNop1
  BY <1>20 DEF RdNop1, Pass, QuietNop
<1>21. CASE RdCmd1
  BY <1>21 DEF RdCmd1, Column
<1>22. CASE RdWait
  BY <1>22 DEF RdWait, Pass, QuietNop
<1>23. CASE RdCap0(dq)
  BY <1>23 DEF RdCap0
<1>24. CASE RdGap
  BY <1>24 DEF RdGap, Pass, QuietNop
<1>25. CASE RdCap1(dq)
  BY <1>25 DEF RdCap1
<1>26. CASE RdPreW
  BY <1>26 DEF RdPreW, QuietNop, WaitKeep
<1>27. CASE WrCmd0
  BY <1>27 DEF WrCmd0, Column
<1>28. CASE WrCmd1
  BY <1>28 DEF WrCmd1, Column
<1>29. CASE WrRec
  BY <1>29 DEF WrRec, QuietNop, WaitKeep
<1>30. CASE Done
  BY <1>30 DEF Done, Pass, QuietNop
<1>31. CASE DoneW
  BY <1>31 DEF DoneW, Pass, QuietNop
<1>q. QED
  BY <1>1, <1>2, <1>3, <1>4, <1>5, <1>6, <1>7, <1>8, <1>9, <1>10, <1>11, <1>12,
     <1>13, <1>14, <1>15, <1>16, <1>17, <1>18, <1>19, <1>20, <1>21, <1>22, <1>23,
     <1>24, <1>25, <1>26, <1>27, <1>28, <1>29, <1>30, <1>31
     DEF CtrlClock, Initialise, RefreshRow, OpenRow, Read, Write, Finish

\* With every clock a request that is pending comes one cycle nearer to its
\* acknowledge; one that is just strobed finds the FSM idle or refreshing.
LEMMA DueStep ==
  ASSUME TypeOK, RefreshInv, RowInv, LatencyInv, BusAssumptions, initialized,
         NEW sel, NEW addr, NEW wdata, NEW wstrb, NEW dq,
         CtrlClock(sel, addr, wdata, wstrb, dq)
  PROVE  /\ state # "S_DONE_W" /\ (state = "S_IDLE" => sel) => AnswerDue' < AnswerDue
         /\ state \notin ServingStates => AnswerDue' < MAX_LATENCY
         /\ (state = "S_REF_AR_W" => ~ref_req /\ ref_cnt <= MAX_DUE + 1 + cnt)'
<1> USE DEF latched, tracking, addrpins, datapins, answer, fsmvars, Goto
<1>t. /\ state \in States /\ cnt \in 0 .. 7
      /\ ref_cnt \in Nat /\ ref_cnt <= REF_INTERVAL
      /\ row_open \in BOOLEAN /\ ref_req \in BOOLEAN
  BY DEF TypeOK, CtrlTypeOK, FsmTypeOK, RefreshTypeOK, RowTypeOK
<1>c. cnt < 7 => (cnt + 1) % 8 = cnt + 1
  BY <1>t, ModSmall
<1>r. /\ state \notin InitStates
      /\ \/ /\ ref_cnt < REF_INTERVAL /\ ref_cnt' = ref_cnt + 1
            /\ ref_req' <=> state # "S_REF_AR" /\ ref_req
         \/ /\ ref_cnt = REF_INTERVAL /\ ref_cnt' = 0
            /\ ref_req' <=> state # "S_REF_AR"
  BY <1>t, RefreshCounterStep DEF CtrlClock, RefreshInv
<1>m. /\ MAX_DUE \in Nat /\ MAX_DUE + TRC + 1 < REF_INTERVAL
      /\ state = "S_REF_AR" => ref_req /\ ref_cnt <= MAX_DUE
      /\ state = "S_REF_AR_W" => ~ref_req /\ ref_cnt <= MAX_DUE + 1 + cnt
      /\ state \in {"S_REF_PRE", "S_REF_PRE_W"} => ref_req
  BY <1>t, RefreshCycleFits DEF RefreshInv, RefreshOnTime, RefreshDue, LatencyInv,
     BusAssumptions
<1>o. state \in {"S_REF_PRE_W", "S_REF_AR", "S_REF_AR_W"} => ~row_open
  BY DEF RowInv, ClosedStates
<1>w. WaitBound
  BY DEF RefreshInv
<1> USE DEF WaitBound, AnswerDue, InitStates, ServingStates, AccessStates
<1>1. CASE InitWait
  BY <1>1, <1>t, <1>c, <1>r, <1>m, <1>o, <1>w, DueRange, LatencyRange DEF InitWait
<1>2. CASE InitPre
  BY <1>2, <1>t, <1>c, <1>r, <1>m, <1>o, <1>w, DueRange, LatencyRange DEF InitPre, PrechargeAll
<1>3. CASE InitPreW
  BY <1>3, <1>t, <1>c, <1>r, <1>m, <1>o, <1>w, DueRange, LatencyRange DEF InitPreW, QuietNop, WaitClear
<1>4. CASE InitAr1
  BY <1>4, <1>t, <1>c, <1>r, <1>m, <1>o, <1>w, DueRange, LatencyRange DEF InitAr1, Refresh
<1>5. CASE InitAr1W
  BY <1>5, <1>t, <1>c, <1>r, <1>m, <1>o, <1>w, DueRange, LatencyRange DEF InitAr1W, QuietNop, WaitClear
<1>6. CASE InitAr2
  BY <1>6, <1>t, <1>c, <1>r, <1>m, <1>o, <1>w, DueRange, LatencyRange DEF InitAr2, Refresh
<1>7. CASE InitAr2W
  BY <1>7, <1>t, <1>c, <1>r, <1>m, <1>o, <1>w, DueRange, LatencyRange DEF InitAr2W, QuietNop, WaitClear
<1>8. CASE InitLmr
  BY <1>8, <1>t, <1>c, <1>r, <1>m, <1>o, <1>w, DueRange, LatencyRange DEF InitLmr
<1>9. CASE InitLmrW
  BY <1>9, <1>t, <1>c, <1>r, <1>m, <1>o, <1>w, DueRange, LatencyRange DEF InitLmrW, QuietNop, WaitKeep
<1>10. CASE Idle(sel, addr, wdata, wstrb)
  BY <1>10, <1>t, <1>c, <1>r, <1>m, <1>o, <1>w, DueRange, LatencyRange DEF Idle, RowHit
<1>11. CASE RefPre
  BY <1>11, <1>t, <1>c, <1>r, <1>m, <1>o, <1>w, DueRange, LatencyRange DEF RefPre, PrechargeAll
<1>12. CASE RefPreW
  BY <1>12, <1>t, <1>c, <1>r, <1>m, <1>o, <1>w, DueRange, LatencyRange DEF RefPreW, QuietNop, WaitClear
<1>13. CASE RefAr
  BY <1>13, <1>t, <1>c, <1>r, <1>m, <1>o, <1>w, DueRange, LatencyRange DEF RefAr, Refresh
<1>14. CASE RefArW
  BY <1>14, <1>t, <1>c, <1>r, <1>m, <1>o, <1>w, DueRange, LatencyRange DEF RefArW, QuietNop, WaitKeep
<1>15. CASE PreOld
  BY <1>15, <1>t, <1>c, <1>r, <1>m, <1>o, <1>w, DueRange, LatencyRange DEF PreOld
<1>16. CASE PreOldW
  BY <1>16, <1>t, <1>c, <1>r, <1>m, <1>o, <1>w, DueRange, LatencyRange DEF PreOldW, QuietNop, WaitClear
<1>17. CASE Act
  BY <1>17, <1>t, <1>c, <1>r, <1>m, <1>o, <1>w, DueRange, LatencyRange DEF Act
<1>18. CASE ActW
  BY <1>18, <1>t, <1>c, <1>r, <1>m, <1>o, <1>w, DueRange, LatencyRange DEF ActW, QuietNop, WaitClear
<1>19. CASE RdCmd0
  BY <1>19, <1>t, <1>c, <1>r, <1>m, <1>o, <1>w, DueRange, LatencyRange DEF RdCmd0, Column
<1>20. CASE RdNop1
  BY <1>20, <1>t, <1>c, <1>r, <1>m, <1>o, <1>w, DueRange, LatencyRange DEF RdNop1, Pass, QuietNop
<1>21. CASE RdCmd1
  BY <1>21, <1>t, <1>c, <1>r, <1>m, <1>o, <1>w, DueRange, LatencyRange DEF RdCmd1, Column
<1>22. CASE RdWait
  BY <1>22, <1>t, <1>c, <1>r, <1>m, <1>o, <1>w, DueRange, LatencyRange DEF RdWait, Pass, QuietNop
<1>23. CASE RdCap0(dq)
  BY <1>23, <1>t, <1>c, <1>r, <1>m, <1>o, <1>w, DueRange, LatencyRange DEF RdCap0
<1>24. CASE RdGap
  BY <1>24, <1>t, <1>c, <1>r, <1>m, <1>o, <1>w, DueRange, LatencyRange DEF RdGap, Pass, QuietNop
<1>25. CASE RdCap1(dq)
  BY <1>25, <1>t, <1>c, <1>r, <1>m, <1>o, <1>w, DueRange, LatencyRange DEF RdCap1
<1>26. CASE RdPreW
  BY <1>26, <1>t, <1>c, <1>r, <1>m, <1>o, <1>w, DueRange, LatencyRange DEF RdPreW, QuietNop, WaitKeep
<1>27. CASE WrCmd0
  BY <1>27, <1>t, <1>c, <1>r, <1>m, <1>o, <1>w, DueRange, LatencyRange DEF WrCmd0, Column
<1>28. CASE WrCmd1
  BY <1>28, <1>t, <1>c, <1>r, <1>m, <1>o, <1>w, DueRange, LatencyRange DEF WrCmd1, Column
<1>29. CASE WrRec
  BY <1>29, <1>t, <1>c, <1>r, <1>m, <1>o, <1>w, DueRange, LatencyRange DEF WrRec, QuietNop, WaitKeep
<1>30. CASE Done
  BY <1>30, <1>t, <1>c, <1>r, <1>m, <1>o, <1>w, DueRange, LatencyRange DEF Done, Pass, QuietNop
<1>31. CASE DoneW
  BY <1>31, <1>t, <1>c, <1>r, <1>m, <1>o, <1>w, DueRange, LatencyRange DEF DoneW, Pass, QuietNop
<1>q. QED
  BY <1>1, <1>2, <1>3, <1>4, <1>5, <1>6, <1>7, <1>8, <1>9, <1>10, <1>11, <1>12,
     <1>13, <1>14, <1>15, <1>16, <1>17, <1>18, <1>19, <1>20, <1>21, <1>22, <1>23,
     <1>24, <1>25, <1>26, <1>27, <1>28, <1>29, <1>30, <1>31
     DEF CtrlClock, Initialise, RefreshRow, OpenRow, Read, Write, Finish

\* The cycles to the acknowledge are never negative, and after the
\* initialisation there is at least one.
LEMMA AnswerDueNat ==
  ASSUME TypeOK, WaitBound
  PROVE  AnswerDue \in Nat /\ (state \notin InitStates => AnswerDue > 0)
<1>1. cnt \in 0 .. 7 /\ state \in States /\ ref_req \in BOOLEAN /\ row_open \in BOOLEAN
  BY DEF TypeOK, CtrlTypeOK, FsmTypeOK, RefreshTypeOK, RowTypeOK
<1>2. QED
  BY <1>1, DueRange, LatencyRange DEF AnswerDue, WaitBound, InitStates, States

\* A clock cycle keeps the handshake and its latency.
LEMMA BusTick ==
  ASSUME BusAssumptions, TypeOK, RowInv, RefreshInv, BusInv, LatencyInv, Tick
  PROVE  BusInv' /\ LatencyInv'
<1>t. /\ state \in States /\ m_wait \in Nat /\ pending \in BOOLEAN
      /\ (initialized <=> state \notin InitStates) /\ WaitBound
  BY DEF TypeOK, CtrlTypeOK, FsmTypeOK, RefreshInv, BridgeTypeOK
<1>a. AnswerDue \in Nat /\ (pending => AnswerDue > 0)
  BY <1>t, AnswerDueNat DEF BusInv
<1>c. CtrlClock(pending, SdramAddr(xbus_adr), xbus_dat_w, CtrlStrobes, DqSample)
      /\ MasterClock /\ BridgeClock
  BY DEF Tick
<1>n. AnswerDue' \in Nat /\ WaitBound'
  <2>1. WaitBound' /\ TypeOK'
    BY <1>c, RefreshStep, TypeStep DEF Next
  <2>2. /\ cnt' \in 0 .. 7 /\ state' \in States /\ ref_req' \in BOOLEAN
        /\ row_open' \in BOOLEAN
    BY <2>1 DEF TypeOK, CtrlTypeOK, FsmTypeOK, RefreshTypeOK, RowTypeOK
  <2>3. QED
    BY <2>1, <2>2, DueRange, LatencyRange DEF AnswerDue, WaitBound
<1>h. \/ /\ xbus_cyc /\ xbus_stb /\ ~pending /\ xbus_cyc' /\ ~xbus_stb' /\ m_wait' = 1
         /\ UNCHANGED <<xbus_adr, xbus_we, xbus_sel, xbus_dat_w>>
         /\ \/ InSdram(xbus_adr) /\ pending' /\ ~xbus_ack'
            \/ ~pending' /\ xbus_ack'
      \/ /\ pending /\ xbus_cyc' /\ ~xbus_stb' /\ m_wait' = m_wait + 1
         /\ UNCHANGED <<xbus_adr, xbus_we, xbus_sel, xbus_dat_w>>
         /\ \/ ~ready /\ pending' /\ ~xbus_ack'
            \/ ready /\ ~pending' /\ xbus_ack'
      \/ /\ ~pending /\ ~pending' /\ ~xbus_ack' /\ m_wait' = 0
         /\ \/ ~xbus_cyc' /\ ~xbus_stb'
            \/ xbus_cyc' /\ xbus_stb' /\ initialized
  BY <1>a, <1>c, HandshakeStep
<1>s. state' \in ServingStates =>
        \/ state \in ServingStates /\ state # "S_DONE_W" /\ UNCHANGED latched
        \/ /\ state = "S_IDLE" /\ pending /\ addr_lat' = SdramAddr(xbus_adr)
           /\ wdata_lat' = xbus_dat_w
           /\ wstrb_lat' = CtrlStrobes /\ is_write' = (CtrlStrobes # {})
  BY <1>c, ServingStep
<1>y. ready' <=> state = "S_DONE"
  BY <1>c DEF CtrlClock
<1>1. ServesTheRequest'
  <2> SUFFICES ASSUME state' \in ServingStates
               PROVE  /\ pending' /\ xbus_cyc' /\ InSdram(xbus_adr')
                      /\ addr_lat' = SdramAddr(xbus_adr')
                      /\ wstrb_lat' = CtrlStrobes' /\ is_write' = (CtrlStrobes' # {})
                      /\ wdata_lat' = xbus_dat_w'
    BY DEF ServesTheRequest, ServingStates, InSdram, SdramAddr
  <2>1. pending /\ ~ready /\ InSdram(xbus_adr)
    BY <1>s DEF BusInv, ServesTheRequest, ServingStates
  <2>2. pending' /\ xbus_cyc' /\ UNCHANGED <<xbus_adr, xbus_we, xbus_sel, xbus_dat_w>>
    BY <2>1, <1>h
  <2>3. CtrlStrobes' = CtrlStrobes
    BY <2>2 DEF CtrlStrobes
  <2>4. /\ addr_lat' = SdramAddr(xbus_adr) /\ wdata_lat' = xbus_dat_w
        /\ wstrb_lat' = CtrlStrobes /\ is_write' = (CtrlStrobes # {})
    BY <1>s DEF BusInv, ServesTheRequest, ServingStates, latched
  <2>5. QED BY <2>1, <2>2, <2>3, <2>4
<1>2. initialized => initialized'
  BY <1>c, InitialisedStays
<1>3. ready' <=> state' = "S_DONE_W"
  BY <1>c, <1>y DEF CtrlClock, Initialise, RefreshRow, OpenRow, Read, Write, Finish,
     InitWait, InitPre, InitPreW, InitAr1, InitAr1W, InitAr2, InitAr2W,
     InitLmr, InitLmrW, Idle, RowHit, RefPre, RefPreW, RefAr, RefArW, PreOld, PreOldW,
     Act, ActW, RdCmd0, RdNop1, RdCmd1, RdWait, RdCap0, RdGap, RdCap1, RdPreW,
     WrCmd0, WrCmd1, WrRec, Done, DoneW, Pass, Refresh, PrechargeAll, WaitKeep,
     WaitClear, Goto
<1>4. BusInv'
  <2>1. /\ xbus_stb' => xbus_cyc' /\ ~pending' /\ ~xbus_ack'
        /\ xbus_ack' => xbus_cyc' /\ ~pending'
        /\ pending' => xbus_cyc' /\ InSdram(xbus_adr')
        /\ xbus_cyc' => xbus_stb' \/ xbus_ack' \/ pending'
    BY <1>h DEF BusInv
  <2>2. xbus_cyc' => initialized'
    BY <1>h, <1>2 DEF BusInv
  <2>3. QED BY <1>1, <1>3, <2>1, <2>2 DEF BusInv, InSdram
<1>5. LatencyInv'
  <2>1. CASE initialized
    <3>1. /\ state # "S_DONE_W" /\ (state = "S_IDLE" => pending) => AnswerDue' < AnswerDue
          /\ state \notin ServingStates => AnswerDue' < MAX_LATENCY
          /\ (state = "S_REF_AR_W" => ~ref_req /\ ref_cnt <= MAX_DUE + 1 + cnt)'
      BY <2>1, <1>c, DueStep
    <3>2. xbus_stb' => m_wait' = 0
      BY <1>h
    <3>3. pending' => m_wait' + AnswerDue' <= MAX_LATENCY
      <4>1. CASE pending
        <5>1. ASSUME pending' PROVE state # "S_DONE_W" /\ m_wait' = m_wait + 1
          BY <4>1, <5>1, <1>h DEF BusInv
        <5>2. m_wait + AnswerDue <= MAX_LATENCY
          BY <4>1 DEF LatencyInv
        <5>3. QED BY <4>1, <5>1, <5>2, <3>1, <1>t, <1>a, <1>n, LatencyRange
      <4>2. CASE ~pending
        <5>1. state \notin ServingStates
          BY <4>2 DEF BusInv, ServesTheRequest, ServingStates
        <5>2. pending' => m_wait' = 1
          BY <4>2, <1>h
        <5>3. QED BY <5>1, <5>2, <3>1, <1>n, LatencyRange
      <4>3. QED BY <4>1, <4>2
    <3>4. xbus_ack' => m_wait' <= MAX_LATENCY
      <4>1. CASE pending
        BY <4>1, <1>h, <1>t, <1>a, LatencyRange DEF LatencyInv
      <4>2. CASE ~pending
        <5>1. xbus_ack' => m_wait' = 1
          BY <4>2, <1>h
        <5>2. 1 <= MAX_LATENCY
          BY LatencyRange, DueRange
        <5>3. QED BY <5>1, <5>2
      <4>3. QED BY <4>1, <4>2
    <3>5. QED BY <3>1, <3>2, <3>3, <3>4 DEF LatencyInv
  <2>2. CASE ~initialized
    <3>1. ~pending /\ ~xbus_cyc
      BY <2>2 DEF BusInv
    <3>2. ~pending' /\ ~xbus_ack' /\ (xbus_stb' => m_wait' = 0)
      BY <3>1, <1>h
    <3>3. state' # "S_REF_AR_W"
      <4>1. state \in InitStates
        BY <2>2, <1>t
      <4>2. QED
        BY <4>1, <1>c DEF CtrlClock, Initialise, RefreshRow, OpenRow, Read, Write, Finish,
           InitWait, InitPre, InitPreW, InitAr1, InitAr1W, InitAr2, InitAr2W, InitLmr,
           InitLmrW, Idle, RowHit, RefPre, RefPreW, RefAr, RefArW, PreOld, PreOldW,
           Act, ActW, RdCmd0, RdNop1, RdCmd1, RdWait, RdCap0, RdGap, RdCap1, RdPreW,
           WrCmd0, WrCmd1, WrRec, Done, DoneW, Pass, Refresh, PrechargeAll, WaitKeep,
           WaitClear, Goto, InitStates
    <3>4. QED BY <3>2, <3>3 DEF LatencyInv
  <2>3. QED BY <2>1, <2>2
<1>6. QED BY <1>4, <1>5

\* Both invariants hold always, when the CPU waits for the initialisation and
\* for the longest answer.
LEMMA BusInvariant ==
  ASSUME BusAssumptions
  PROVE  Spec => [](TypeOK /\ BusInv /\ LatencyInv)
<1>1. Init => BusInv /\ LatencyInv
  BY DEF Init, CtrlInit, BridgeInit, BusInv, LatencyInv, ServesTheRequest, AccessStates
<1>2. TypeOK /\ RowInv /\ RefreshInv /\ BusInv /\ LatencyInv /\ [Next]_vars =>
        BusInv' /\ LatencyInv'
  <2> SUFFICES ASSUME TypeOK, RowInv, RefreshInv, BusInv, LatencyInv, [Next]_vars
               PROVE  BusInv' /\ LatencyInv'
    OBVIOUS
  <2>1. CASE Tick
    BY <2>1, BusTick
  <2>2. CASE KeyReset
    <3>1. /\ state' = "S_INIT_WAIT" /\ ready' = FALSE /\ xbus_stb' = FALSE
          /\ xbus_cyc' = FALSE /\ xbus_ack' = FALSE /\ pending' = FALSE
      BY <2>2 DEF KeyReset, CtrlReset, BridgeReset
    <3>2. QED BY <3>1 DEF BusInv, LatencyInv, ServesTheRequest, AccessStates
  <2>3. CASE PorTick \/ UNCHANGED vars
    <3>1. UNCHANGED <<state, cnt, initialized, ref_cnt, ref_req, row_open, ready, pending,
                      xbus_ack, m_wait, addr_lat, wdata_lat, wstrb_lat, is_write,
                      xbus_cyc, xbus_stb, xbus_adr, xbus_we, xbus_sel, xbus_dat_w>>
      BY <2>3 DEF PorTick, vars, ctrlVars, xbusVars, bridgeVars, boardVars, fsmvars,
         refvars, tracking, latched
    <3>2. AnswerDue' = AnswerDue /\ CtrlStrobes' = CtrlStrobes
      BY <3>1 DEF AnswerDue, CtrlStrobes
    <3>3. BusInv'
      BY <3>1, <3>2 DEF BusInv, ServesTheRequest, InSdram, SdramAddr
    <3>4. LatencyInv'
      BY <3>1, <3>2 DEF LatencyInv
    <3>5. QED BY <3>3, <3>4
  <2>4. QED BY <2>1, <2>2, <2>3 DEF Next
<1>3. QED BY <1>1, <1>2, RowInvariant, RefreshInvariant, PTL DEF Spec

\* The controller works only on the request that is on the bus, as it was
\* strobed, and never a second time on one that is answered.
THEOREM RequestIsServed ==
  ASSUME BusAssumptions
  PROVE  Spec => []ServesTheRequest
<1>1. BusInv => ServesTheRequest
  BY DEF BusInv
<1>2. QED BY <1>1, BusInvariant, PTL

\* The acknowledge comes within MAX_LATENCY cycles of the strobe, refreshes
\* included, so the CPU never gives up on an initialised SDRAM.
THEOREM AckIsInTime ==
  ASSUME BusAssumptions
  PROVE  Spec => []AckInTime
<1>1. TypeOK /\ RefreshInv /\ BusInv /\ LatencyInv => AckInTime
  <2> SUFFICES ASSUME TypeOK, RefreshInv, BusInv, LatencyInv, xbus_cyc
               PROVE  m_wait <= MAX_LATENCY
    BY DEF AckInTime
  <2>1. AnswerDue \in Nat /\ m_wait \in Nat
    BY AnswerDueNat DEF RefreshInv, TypeOK
  <2>2. CASE pending
    BY <2>1, <2>2, LatencyRange DEF LatencyInv
  <2>3. CASE xbus_stb
    BY <2>3, LatencyRange DEF LatencyInv
  <2>4. QED BY <2>2, <2>3 DEF BusInv, LatencyInv
<1>2. QED BY <1>1, BusInvariant, RefreshInvariant, PTL
=============================================================================
