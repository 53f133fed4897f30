------------------------------ MODULE JtagSystem ------------------------------
(* A device driver on top of class Jtag, a cable driver under it, and the chain  *)
(* of devices at the end of the wire.  The driver of the cable is chosen once,   *)
(* as the constructor of Jtag does.  wrong remembers what a call got wrong, so   *)
(* that no history of the wire has to be kept.                                   *)
EXTENDS Jtag, JtagCable

CONSTANTS
    Cables,     \* the cable drivers that may be chosen
    Send(_, _, _), \* the virtual methods of JtagInterface (Run of CableDrivers)
    Chains,     \* chains of devices: their irlengths from TDI to TDO
    Lens,       \* lengths of the shifts that callers ask for, in bits
    Clks,       \* numbers of idle clock cycles that callers ask for
    Goals,      \* states in which callers leave a shift
    Pauses,     \* states callers go to with set_state
    MaxScan,    \* bound on the bits of a shift that takes several calls
    Careful,    \* callers keep to what the driver of the cable can do
    Faults      \* numbers of transfers that succeed in a call before one fails

\* The devices are ones whose irlength a table knows, no more than detectChain
\* reads; callers shift at least a bit, and leave for states of the ports.
ASSUME ChainAssumption == \A s \in Chains : s \in Seq(Nat \ {0}) /\ Len(s) \in 1 .. 32
ASSUME CallerAssumption ==
    /\ Lens \subseteq Nat \ {0} /\ Clks \subseteq Nat
    /\ Goals \subseteq TapState /\ Pauses \subseteq TapState

VARIABLES
    cable,      \* the driver in use
    chain, sel, \* the devices, and the one that is addressed
    j,          \* class Jtag
    c,          \* the cable driver and its buffer
    tap,        \* the state of the ports once the buffer has been sent
    scan, mine, \* bits shifted in this stay in a shift state; those of the caller
    wrong       \* what has gone wrong: "wire", "read" or "load"

vars == <<cable, chain, sel, j, c, tap, scan, mine, wrong>>

-------------------------------------------------------------------------------
Shifts == {"SHIFT_DR", "SHIFT_IR"}

\* One clock pulse at the devices.
Tick(t, p) == [state |-> TapNext(t.state, p[1]),
               scan  |-> IF t.state \in Shifts THEN Append(t.scan, p[2]) ELSE t.scan]

\* The pulses a call of JtagInterface asks for (jtagInterface.hpp).
Meant(k) ==
    CASE k.op = "writeTMS"  -> TmsPulses(k.tms)
      [] k.op = "writeTDI"  -> [i \in DOMAIN k.tdi |->
                                <<IF k.end /\ i = Len(k.tdi) THEN 1 ELSE 0, k.tdi[i]>>]
      [] k.op = "toggleClk" -> ClkPulses(k.tms, k.n)
      [] k.op = "flush"     -> <<>>

(* What each driver cannot do.  Reads: the bit that leaves the shift state is    *)
(* or'ed into a byte of the caller, or lost, unless it stands at a certain place *)
(* in its byte; bits that do not fill a byte are misplaced.  Writes: MPSSE loses *)
(* the last of nine bits, AnlogicCable does not leave the shift state after a    *)
(* full transfer.  Clocks: FT232R may make one too few, RemoteBitbang moves TMS  *)
(* to TDI and writes behind its buffer.                                          *)
SoundCall(k) ==
    CASE k.op = "writeTDI" /\ cable = "anlogic" ->
            /\ k.rd => Len(k.tdi) % Octet = 0
            /\ k.end => Len(k.tdi) % AnlogicSize # 0
      [] k.op = "writeTDI" /\ cable \in {"ft232RL", "libgpiod-1", "libgpiod-2"} ->
            k.rd => Len(k.tdi) % Octet = 0
      [] k.op = "writeTDI" /\ cable = "ch552" -> k.rd /\ k.end => Len(k.tdi) % Octet = 0
      [] k.op = "writeTDI" /\ cable \in {"usb-blaster", "dirtyJtag-1", "dirtyJtag-2"} ->
            k.rd /\ k.end => Len(k.tdi) % Octet # 1
      [] k.op = "writeTDI" /\ cable \in {"ftdi", "ftdi-H"} ->
            k.end => Len(k.tdi) # Octet + 1 /\ (k.rd => Len(k.tdi) % Octet # 1)
      [] k.op = "toggleClk" /\ cable = "ft232RL" -> c.tck = 0
      [] k.op = "toggleClk" /\ cable = "remote" -> k.tms = 0 /\ 2 * k.n <= RemoteSize
      [] OTHER -> TRUE

\* The registers of the devices as a shift is left: those nearer to TDO and
\* those nearer to TDI hold padding, the selected one the caller's bits.
Loaded(column, bits) ==
    LET near == IF column = "IR" THEN Total(Upto(chain, sel)) ELSE sel
        far  == IF column = "IR" THEN Total(From(chain, sel + 2)) ELSE Len(chain) - sel - 1
    IN  Pads(far) \o bits \o Pads(near)

\* The commands a buffer keeps after a call: no driver looks at them again, so
\* that the pulses in them are told from those of later calls and no more.
Kept(q) == [i \in DOMAIN q |-> [q[i] EXCEPT !.p = [k \in DOMAIN @ |-> <<2, 0>>]]]

\* A method of Jtag: its calls run one after the other.  column is the register
\* column it shifts, bits the bits of the caller in it, read what it is to read.
Method(m, column, bits, read) ==
    LET meant == Concat([i \in DOMAIN m.calls |-> Meant(m.calls[i])])
        t     == Fold(Tick, [state |-> tap, scan |-> scan], meant)
        stay  == m.j.state \in Shifts
    IN  /\ Careful => \A i \in DOMAIN m.calls : SoundCall(m.calls[i])
        /\ \E x \in Faults :
              LET after == Fold(LAMBDA s, k : Send(cable, s, k), BeginCall(c, x), m.calls)
                  went  == after.out \o Pulses(after.q)
              IN  /\ c' = [after EXCEPT !.q = Kept(@), !.out = <<>>, !.rx = <<>>, !.xfers = 0]
                  /\ wrong' = wrong
                        \cup (IF went # Pulses(c.q) \o meant THEN {"wire"} ELSE {})
                        \cup (IF after.rx # read THEN {"read"} ELSE {})
                        \cup (IF column # "" /\ ~stay /\ t.scan # Loaded(column, mine \o bits)
                              THEN {"load"} ELSE {})
        /\ tap' = t.state
        /\ j' = m.j
        /\ scan' = IF stay THEN t.scan ELSE <<>>
        /\ mine' = IF stay THEN mine \o bits ELSE <<>>
        /\ UNCHANGED <<cable, chain, sel>>

-------------------------------------------------------------------------------
Init ==
    /\ cable \in Cables
    /\ chain \in Chains
    /\ sel \in 0 .. Len(chain) - 1
    /\ j = NewJtag
    /\ c = NewCable
    /\ tap \in {"RUN_TEST_IDLE", "SHIFT_DR"}       \* wherever the last user left it
    /\ scan = <<>> /\ mine = <<>>
    /\ wrong = {}

\* The constructor ends in detectChain; main.cpp then selects the device.
Open ==
    /\ j = NewJtag
    /\ LET m == DetectChain(j, Reverse(chain), Octet, 32)
       IN  Method([m EXCEPT !.j = DeviceSelect(m.j, sel)], "", <<>>,
                  Concat([i \in 1..(Len(chain) + 1) |-> Pads(Octet)]))

Ready == j.irs # <<>>
Data(n) == [i \in 1..n |-> Pad + i]

DoShiftDR(n, rd, goal) ==
    /\ Ready /\ j.state # "SHIFT_IR"
    /\ scan = <<>> \/ Len(scan) + n <= MaxScan
    /\ Method(ShiftDR(j, Data(n), rd, goal), "DR", Data(n), IF rd THEN Data(n) ELSE <<>>)

DoShiftIR(n, goal) ==
    /\ Ready /\ j.state # "SHIFT_DR"
    /\ scan = <<>> \/ Len(scan) + n <= MaxScan
    /\ Method(ShiftIR(j, Data(n), goal), "IR", Data(n), <<>>)

\* Callers leave a shift state through shiftDR or shiftIR only.
DoSetState(goal) ==
    /\ Ready /\ j.state \notin Shifts
    /\ Method(SetState(j, goal), "", <<>>, <<>>)

DoReset ==
    /\ Ready /\ j.state \notin Shifts
    /\ Method(GoTestLogicReset(j), "", <<>>, <<>>)

\* Callers clock in states in which a low TMS changes nothing.
DoToggleClk(n) ==
    /\ Ready /\ j.state \in {"TEST_LOGIC_RESET", "RUN_TEST_IDLE", "PAUSE_DR", "PAUSE_IR"}
    /\ Method(ToggleClk(j, n), "", <<>>, <<>>)

DoFlush ==
    /\ Ready /\ c.q # <<>>
    /\ Method([calls |-> <<CallFlush>>, j |-> j], "", <<>>, <<>>)

Next ==
    \/ Open
    \/ \E n \in Lens, rd \in BOOLEAN, goal \in Goals \cup {"SHIFT_DR"} : DoShiftDR(n, rd, goal)
    \/ \E n \in Lens, goal \in Goals \cup {"SHIFT_IR"} : DoShiftIR(n, goal)
    \/ \E goal \in Pauses : DoSetState(goal)
    \/ DoReset
    \/ \E n \in Clks : DoToggleClk(n)
    \/ DoFlush

Spec == Init /\ [][Next]_vars

-------------------------------------------------------------------------------
\* What reached the wire and what the buffer of the cable still holds are exactly
\* the pulses of the calls made so far: none is lost, doubled or overtaken.
WireCarriesTheCalls == "wire" \notin wrong

\* The state that class Jtag believes the devices are in is the one they are in,
\* so that the next walk starts from the right place.
StateIsTracked == Ready => tap = j.state

\* No driver writes behind the end of its buffer, over any sequence of calls.
BufferFits == ~c.ovf

\* A read stores for the caller the bit that was on TDO with each of its bits,
\* in their order, and leaves no answer behind for the next read.
ReadsWhatItShifted == "read" \notin wrong /\ c.fifo = <<>>

\* When a shift is left, the register of the selected device holds the caller's
\* bits, whatever the number of calls it took, and the others the padding.
SelectedDeviceLoaded == "load" \notin wrong
===============================================================================
