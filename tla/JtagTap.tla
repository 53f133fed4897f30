------------------------------ MODULE JtagTap ------------------------------
(* The sixteen states of a JTAG test access port and the walk between them  *)
(* that Jtag::set_state of openFPGALoader plans (jtag.cpp).  Step stands    *)
(* for one turn of its loop: the level of TMS it queues and the state it    *)
(* assigns to _state.  TapNext is the port itself (IEEE 1149.1), which the  *)
(* repository does not contain: it only sees the levels of TMS.             *)
EXTENDS Integers, Sequences

\* A fold from the left that takes linear time, and concatenation by it.
Fold(op(_, _), base, s) ==
    LET f[i \in 0..Len(s)] == IF i = 0 THEN base ELSE op(f[i - 1], s[i]) IN f[Len(s)]
Concat(ss) == Fold(LAMBDA a, b : a \o b, <<>>, ss)

DrPause == {"SHIFT_DR", "EXIT1_DR", "PAUSE_DR", "EXIT2_DR"}
IrPause == {"SHIFT_IR", "EXIT1_IR", "PAUSE_IR", "EXIT2_IR"}
DrColumn == DrPause \cup {"CAPTURE_DR", "UPDATE_DR"}
IrColumn == IrPause \cup {"CAPTURE_IR", "UPDATE_IR"}

\* Jtag::tapState_t without UNKNOWN, which set_state rejects with an exception.
TapState == DrColumn \cup IrColumn \cup
    {"TEST_LOGIC_RESET", "RUN_TEST_IDLE", "SELECT_DR_SCAN", "SELECT_IR_SCAN"}

----------------------------------------------------------------------------
\* The port: its next state on a rising edge of TCK with TMS at level t.
TapNext(s, t) ==
    CASE s = "TEST_LOGIC_RESET" -> IF t = 1 THEN s ELSE "RUN_TEST_IDLE"
      [] s = "RUN_TEST_IDLE"    -> IF t = 1 THEN "SELECT_DR_SCAN" ELSE s
      [] s = "SELECT_DR_SCAN"   -> IF t = 1 THEN "SELECT_IR_SCAN" ELSE "CAPTURE_DR"
      [] s = "SELECT_IR_SCAN"   -> IF t = 1 THEN "TEST_LOGIC_RESET" ELSE "CAPTURE_IR"
      [] s = "CAPTURE_DR"       -> IF t = 1 THEN "EXIT1_DR" ELSE "SHIFT_DR"
      [] s = "SHIFT_DR"         -> IF t = 1 THEN "EXIT1_DR" ELSE s
      [] s = "EXIT1_DR"         -> IF t = 1 THEN "UPDATE_DR" ELSE "PAUSE_DR"
      [] s = "PAUSE_DR"         -> IF t = 1 THEN "EXIT2_DR" ELSE s
      [] s = "EXIT2_DR"         -> IF t = 1 THEN "UPDATE_DR" ELSE "SHIFT_DR"
      [] s = "CAPTURE_IR"       -> IF t = 1 THEN "EXIT1_IR" ELSE "SHIFT_IR"
      [] s = "SHIFT_IR"         -> IF t = 1 THEN "EXIT1_IR" ELSE s
      [] s = "EXIT1_IR"         -> IF t = 1 THEN "UPDATE_IR" ELSE "PAUSE_IR"
      [] s = "PAUSE_IR"         -> IF t = 1 THEN "EXIT2_IR" ELSE s
      [] s = "EXIT2_IR"         -> IF t = 1 THEN "UPDATE_IR" ELSE "SHIFT_IR"
      [] OTHER                  -> IF t = 1 THEN "SELECT_DR_SCAN" ELSE "RUN_TEST_IDLE"

----------------------------------------------------------------------------
\* One turn of the loop of set_state, taken while the goal g is not s.
Step(s, g) ==
    LET Go(t, n) == [tms |-> t, state |-> n] IN
    CASE s = "TEST_LOGIC_RESET" -> Go(0, "RUN_TEST_IDLE")
      [] s = "RUN_TEST_IDLE"    -> Go(1, "SELECT_DR_SCAN")
      [] s = "SELECT_DR_SCAN"   -> IF g \in DrColumn THEN Go(0, "CAPTURE_DR")
                                                     ELSE Go(1, "SELECT_IR_SCAN")
      [] s = "SELECT_IR_SCAN"   -> IF g \in IrColumn THEN Go(0, "CAPTURE_IR")
                                                     ELSE Go(1, "TEST_LOGIC_RESET")
      [] s = "CAPTURE_DR"       -> IF g = "SHIFT_DR" THEN Go(0, "SHIFT_DR")
                                                     ELSE Go(1, "EXIT1_DR")
      [] s = "SHIFT_DR"         -> Go(1, "EXIT1_DR")
      [] s = "EXIT1_DR"         -> IF g \in DrPause THEN Go(0, "PAUSE_DR")
                                                    ELSE Go(1, "UPDATE_DR")
      [] s = "PAUSE_DR"         -> Go(1, "EXIT2_DR")
      [] s = "EXIT2_DR"         -> IF g \in DrPause THEN Go(0, "SHIFT_DR")
                                                    ELSE Go(1, "UPDATE_DR")
      [] s = "CAPTURE_IR"       -> IF g = "SHIFT_IR" THEN Go(0, "SHIFT_IR")
                                                     ELSE Go(1, "EXIT1_IR")
      [] s = "SHIFT_IR"         -> Go(1, "EXIT1_IR")
      [] s = "EXIT1_IR"         -> IF g \in IrPause THEN Go(0, "PAUSE_IR")
                                                    ELSE Go(1, "UPDATE_IR")
      [] s = "PAUSE_IR"         -> Go(1, "EXIT2_IR")
      [] s = "EXIT2_IR"         -> IF g \in IrPause THEN Go(0, "SHIFT_IR")
                                                    ELSE Go(1, "UPDATE_IR")
      [] OTHER                  -> IF g = "RUN_TEST_IDLE" THEN Go(0, "RUN_TEST_IDLE")
                                                          ELSE Go(1, "SELECT_DR_SCAN")

\* The levels of TMS that take set_state from s to g.
Walk(s, g) ==
    LET walk[x \in TapState] ==
            IF x = g THEN <<>>
            ELSE <<Step(x, g).tms>> \o walk[Step(x, g).state]
    IN  walk[s]
============================================================================
