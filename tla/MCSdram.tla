------------------------------- MODULE MCSdram -------------------------------
(***************************************************************************)
(* Instances of SdramSystem for TLC: two banks of one or two rows of one   *)
(* or two words, so that hits, misses in the same bank and in another, and *)
(* two words of one row all happen.                                        *)
(***************************************************************************)
EXTENDS SdramSystem

Val(lo, hi) == [i \in Lane |-> IF i < 2 THEN lo ELSE hi]
Rd(a) == [adr |-> a, we |-> FALSE, sel |-> Lane, dat |-> ZeroWord]
Wr(a, s, d) == [adr |-> a, we |-> TRUE, sel |-> s, dat |-> d]

\* Protocol instances: no data.  With SDRAM_TAG = 1 and 16 bytes of SDRAM:
\* bank 0 row 0, bank 0 row 1, bank 1 row 0, and one outside the window.
NoData == {0}
ProtocolRequests ==
    {Rd(a) : a \in {16, 20, 24, 4}} \cup {Wr(a, Lane, ZeroWord) : a \in {16, 20}}

\* Two rows of one bank: a miss, a hit or a closed row.
ReadWriteRequests == {Rd(16), Wr(20, Lane, ZeroWord)}

\* Data instance, two banks of one row of two words: word 0 and word 1 share a row,
\* word 2 is in the other bank.
TwoBytes == {0, 1}
Ones == [i \in Lane |-> 1]
HighOnes == [i \in Lane |-> IF i = 2 THEN 1 ELSE 0]
DataRequests ==
    {Rd(16), Rd(24), Wr(16, {0, 3}, Ones), Wr(21, Lane, HighOnes)}
=============================================================================
