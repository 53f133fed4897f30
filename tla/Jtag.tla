-------------------------------- MODULE Jtag --------------------------------
(* Class Jtag of openFPGALoader (jtag.cpp): the methods the device drivers   *)
(* call, as the sequence of JtagInterface calls each one makes and the value *)
(* it leaves in _state.  A bit of TDI is a number: the padding for the other *)
(* devices of the chain is Pad, the caller's bits are numbers above it, so   *)
(* that a lost, doubled or displaced bit can be told.  The queue of TMS      *)
(* levels (_tms_buffer, 1024 levels) is empty between methods, because each  *)
(* one ends in flushTMS, and no walk between two states fills it.            *)
EXTENDS JtagTap, SequencesExt

Pad == 1
Pads(n) == [i \in 1..n |-> Pad]

\* The calls of JtagInterface.
CallTMS(tms, now)    == [op |-> "writeTMS", tms |-> tms, now |-> now]
CallTDI(tdi, rd, end) == [op |-> "writeTDI", tdi |-> tdi, rd |-> rd, end |-> end]
CallClk(tms, n)      == [op |-> "toggleClk", tms |-> tms, n |-> n]
CallFlush            == [op |-> "flush"]

----------------------------------------------------------------------------
(* The object: _state, the irlengths of the chain (index 1 is the device     *)
(* next to TDI) and the bits of padding before and after the selected device.*)
NewJtag == [state |-> "RUN_TEST_IDLE", irs |-> <<>>,
            drBefore |-> 0, drAfter |-> 0, irBefore |-> 0, irAfter |-> 0]

Total(s) == Fold(LAMBDA a, b : a + b, 0, s)

\* A mutant: the selected device itself is counted as one before it.
DeviceSelectInclusive(j, index) ==
    [j EXCEPT !.drBefore = Len(j.irs) - index,
              !.drAfter  = index,
              !.irAfter  = Total(SubSeq(j.irs, 1, index)),
              !.irBefore = Total(SubSeq(j.irs, index + 2, Len(j.irs)))]

\* device_select; main.cpp has checked the index against the chain.
DeviceSelect(j, index) ==
    [j EXCEPT !.drBefore = Len(j.irs) - index - 1,
              !.drAfter  = index,
              !.irAfter  = Total(SubSeq(j.irs, 1, index)),
              !.irBefore = Total(SubSeq(j.irs, index + 2, Len(j.irs)))]

\* setTMS for each level, then flushTMS, which sends nothing when nothing is queued.
Levels(tms, now) == IF tms # <<>> THEN <<CallTMS(tms, now)>>
                    ELSE IF now THEN <<CallFlush>> ELSE <<>>

SetState(j, goal) ==
    [calls |-> Levels(Walk(j.state, goal), FALSE), j |-> [j EXCEPT !.state = goal]]

\* Mutants: one level too few to reset from every state; the state is forgotten.
GoTestLogicResetShort(j) ==
    [calls |-> Levels([i \in 1..4 |-> 1], FALSE),
     j     |-> [j EXCEPT !.state = "TEST_LOGIC_RESET"]]

GoTestLogicReset(j) ==
    [calls |-> Levels([i \in 1..6 |-> 1], FALSE),
     j     |-> [j EXCEPT !.state = "TEST_LOGIC_RESET"]]

ToggleClk(j, n) ==
    [calls |-> <<CallClk(IF j.state = "TEST_LOGIC_RESET" THEN 1 ELSE 0, n)>>, j |-> j]

\* shiftDR and shiftIR: padding is shifted in front of the caller's bits when
\* the shift state is entered, and behind them when it is left.
Shift(j, sh, exit, before, after, tdi, rd, goal) ==
    LET enter == IF j.state = sh THEN <<>>
                 ELSE Levels(Walk(j.state, sh), FALSE) \o
                      (IF before > 0 THEN <<CallTDI(Pads(before), FALSE, FALSE)>> ELSE <<>>)
        data  == <<CallTDI(tdi, rd, after = 0 /\ goal # sh)>>
        leave == IF goal = sh THEN <<>>
                 ELSE (IF after > 0 THEN <<CallTDI(Pads(after), FALSE, TRUE)>> ELSE <<>>) \o
                      Levels(Walk(exit, goal), FALSE)
    IN  [calls |-> enter \o data \o leave, j |-> [j EXCEPT !.state = goal]]

ShiftDR(j, tdi, rd, goal) ==
    Shift(j, "SHIFT_DR", "EXIT1_DR", j.drBefore, j.drAfter, tdi, rd, goal)

ShiftIR(j, tdi, goal) ==
    Shift(j, "SHIFT_IR", "EXIT1_IR", j.irBefore, j.irAfter, tdi, FALSE, goal)

\* detectChain reads one identification word (of idlen bits) per device until
\* the all-ones of TDI come back, or max_dev of them.  The words are given from
\* TDO to TDI as irlengths; a word no table knows (0 here) ends in an exception,
\* and so does a TDO stuck at zero, which reads as an unknown word too.
DetectChain(j, words, idlen, max) ==
    LET known == \A i \in 1..Len(words) : words[i] > 0
        reads == IF Len(words) < max THEN Len(words) + 1 ELSE max
        word  == CallTDI([i \in 1..idlen |-> Pad], TRUE, FALSE)
    IN  [ok    |-> known,
         calls |-> GoTestLogicReset(j).calls
                   \o Levels(Walk("TEST_LOGIC_RESET", "SHIFT_DR"), FALSE)
                   \o [i \in 1..reads |-> word]
                   \o Levels(Walk("SHIFT_DR", "TEST_LOGIC_RESET"), FALSE) \o <<CallFlush>>,
         j     |-> [NewJtag EXCEPT !.state = "TEST_LOGIC_RESET", !.irs = Reverse(words)]]
=============================================================================
