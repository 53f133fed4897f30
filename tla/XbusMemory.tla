----------------------------- MODULE XbusMemory -----------------------------
(***************************************************************************)
(* What the CPU may rely on when it uses the SDRAM: a memory of 32-bit     *)
(* words.  A request stays on the bus until it is acknowledged.  A write   *)
(* stores the strobed bytes, low half and high half, before it is          *)
(* acknowledged, and touches nothing else; a read is acknowledged with the *)
(* word the memory holds.  Outside the SDRAM window reads give zero and    *)
(* writes do nothing.  A reset forgets the request but not the memory: a   *)
(* write it interrupts may leave one half written.                         *)
(***************************************************************************)
EXTENDS Integers

CONSTANTS Requests, Byte, Size, Tag, NoRequest

VARIABLES store, req, lo, hi, ack, dat
vars == <<store, req, lo, hi, ack, dat>>

WordType == [0 .. 3 -> Byte]
Zero == [i \in 0 .. 3 |-> 0]
Words == 0 .. (Size \div 4) - 1

Inside(r) == r.adr \div Size = Tag
WordOf(r) == (r.adr % Size) \div 4
IsWrite(r) == r.we /\ r.sel # {}

Init ==
    /\ store = [w \in Words |-> Zero] /\ req = NoRequest
    /\ lo = FALSE /\ hi = FALSE /\ ack = FALSE /\ dat = Zero

\* The bus is free, or the CPU takes the answer of the request before.
Request ==
    /\ req = NoRequest \/ ack
    /\ req' \in Requests \cup {NoRequest} /\ ack' = FALSE
    /\ UNCHANGED <<store, lo, hi, dat>>

StoreLanes(lanes) ==
    store' = [store EXCEPT ![WordOf(req)] =
        [i \in 0 .. 3 |-> IF i \in req.sel \cap lanes THEN req.dat[i] ELSE @[i]]]

Serving == req # NoRequest /\ ~ack /\ Inside(req)

WriteLo ==
    /\ Serving /\ IsWrite(req) /\ ~lo
    /\ StoreLanes({0, 1}) /\ lo' = TRUE /\ UNCHANGED <<req, hi, ack, dat>>
WriteHi ==
    /\ Serving /\ IsWrite(req) /\ lo /\ ~hi
    /\ StoreLanes({2, 3}) /\ hi' = TRUE /\ UNCHANGED <<req, lo, ack, dat>>

AnswerWrite ==
    /\ Serving /\ IsWrite(req) /\ lo /\ hi
    /\ ack' = TRUE /\ dat' \in WordType /\ lo' = FALSE /\ hi' = FALSE
    /\ UNCHANGED <<store, req>>
AnswerRead ==
    /\ Serving /\ ~IsWrite(req)
    /\ ack' = TRUE /\ dat' = store[WordOf(req)]
    /\ UNCHANGED <<store, req, lo, hi>>
AnswerOutside ==
    /\ req # NoRequest /\ ~ack /\ ~Inside(req)
    /\ ack' = TRUE /\ dat' = Zero /\ UNCHANGED <<store, req, lo, hi>>

Reset ==
    /\ req' = NoRequest /\ lo' = FALSE /\ hi' = FALSE /\ ack' = FALSE
    /\ dat' = Zero /\ UNCHANGED store

Next == \/ Request \/ WriteLo \/ WriteHi \/ AnswerWrite \/ AnswerRead
        \/ AnswerOutside \/ Reset

Spec == Init /\ [][Next]_vars
=============================================================================
