------------------------------- MODULE MCDfu -------------------------------
(* Small instances of Dfu. *)
EXTENDS Dfu, TLC

Alt(dfu, desc) == [dfu |-> dfu, desc |-> desc]
TwoAlts == (0 :> Alt(TRUE, TRUE)) @@ (1 :> Alt(TRUE, FALSE))
MCKinds == {[ends |-> e, strict |-> s, alts |-> TwoAlts] : e \in {"tolerant", "waits", "drops"}, s \in BOOLEAN}

\* Beside the target: nothing, or another DFU device.
MCBuses == {{}, {[id |-> 2, alts |-> TwoAlts]}}
MCWanted == {[file |-> 1, arg |-> 0, alt |-> 0], [file |-> 2, arg |-> 1, alt |-> 1], [file |-> 0, arg |-> 0, alt |-> 0]}
=============================================================================
