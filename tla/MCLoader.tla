------------------------------ MODULE MCLoader ------------------------------
(* Small instances of Loader: boards, flash chips and command lines. *)
EXTENDS Loader

CONSTANTS Offsets, Sizes, BoardSet

\* (With LET, action coverage counts the call and not every step of the driver.)
MCDrive(b, s, cmd) == LET after == Do(b, s, cmd) IN after

\* The regions of the flashes inside FPGAs.
AllRegions == {"UFM1", "UFM0", "CFM2", "CFM1", "CFM0", "ICB", "DONE", "main", "mcu", "user", "prom",
               "cfg", "ufm", "feature", "feabits", "key", "CFG0", "CFG1", "UFM2", "UFM3"}

\* Boards: vendor, family and wiring.
B(vendor, fam) ==
    [vendor |-> vendor, fam |-> fam, bus |-> "jtag", pins |-> "none", max10 |-> FALSE, bpi |-> FALSE,
     twin |-> FALSE, late |-> -62]
AllBoards ==
    {[B("altera", "cyclone") EXCEPT !.late = -1], [B("altera", "max10") EXCEPT !.late = -1, !.max10 = TRUE],
     B("gowin", "gw1n"), B("gowin", "gw2a"), [B("gowin", "gw5a") EXCEPT !.late = -1],
     [B("efinix", "trion") EXCEPT !.pins = TRUE], [B("efinix", "titanium") EXCEPT !.pins = FALSE],
     [B("efinix", "trion") EXCEPT !.pins = TRUE, !.bus = "spi"],
     B("anlogic", "eg4"), [B("colognechip", "gatemate") EXCEPT !.pins = "ftdi"],
     [B("colognechip", "gatemate") EXCEPT !.pins = "spi", !.bus = "spi"],
     [B("ice40", "ice40") EXCEPT !.bus = "spi"], [B("latticesspi", "nexus") EXCEPT !.bus = "spi"],
     [B("none", "none") EXCEPT !.bus = "spi"],
     B("xilinx", "7series"), [B("xilinx", "7series") EXCEPT !.bpi = TRUE],
     [B("xilinx", "7series") EXCEPT !.twin = TRUE], B("xilinx", "spartan3"), B("xilinx", "zynqmp"),
     B("xilinx", "spartanusp"), B("xilinx", "xcf"), B("xilinx", "xc95"), B("xilinx", "xc2c"),
     B("lattice", "xo2"), B("lattice", "xo3"), B("lattice", "xo3d"), B("lattice", "ecp3"),
     B("lattice", "ecp5"), B("lattice", "nexus")}
Named(names) == {b \in AllBoards : b.vendor \in names}
MCBoards == IF BoardSet = {} THEN AllBoards ELSE Named(BoardSet)

\* Flash chips: the usual one, and those that differ from it.
Chip == [known |-> TRUE, mute |-> FALSE, global |-> FALSE, tb |-> "STATR", quad |-> "NONER", bpLen |-> 3,
         otp |-> FALSE, spansion |-> FALSE, sector |-> TRUE, sub |-> TRUE, bytewise |-> FALSE, topOnly |-> FALSE]
ManyChips == {Chip, [Chip EXCEPT !.known = FALSE, !.tb = "NONER", !.sub = FALSE], [Chip EXCEPT !.sub = FALSE],
              [Chip EXCEPT !.sector = FALSE], [Chip EXCEPT !.bytewise = TRUE], [Chip EXCEPT !.tb = "NONER"],
              [Chip EXCEPT !.tb = "FUNCR", !.otp = TRUE], [Chip EXCEPT !.quad = "STATR"],
              [Chip EXCEPT !.global = TRUE, !.bpLen = 0]}

\* A command line: what it leaves out, and what is in it.
Base == [ext |-> "", prg |-> "sram", verify |-> FALSE, unprotect |-> FALSE, confirm |-> FALSE, bridge |-> TRUE,
         skipBridge |-> FALSE, skipReset |-> FALSE, offset |-> 0, file |-> <<1, 2, 3>>, sectors |-> {},
         sector |-> "CFG0", jed |-> <<>>, external |-> FALSE, match |-> TRUE, mcufw |-> FALSE,
         userflash |-> FALSE, package |-> TRUE, parses |-> TRUE, target |-> "primary", stray |-> TRUE,
         area |-> Block, vld |-> TRUE]
Sram(e) == [ext |-> e, prg |-> "sram"]
Flash(e) == [ext |-> e, prg |-> "flash"]
Section(n, o, l) == [note |-> n, off |-> o, lines |-> l]
Bits(n) == [i \in 1..n |-> i]
Jed == <<Section("cfg", 0, 2), Section("end", 1, 1), Section("ebr", 0, 1), Section("tag", 1, 1)>>

Files(b) ==
    CASE b.vendor = "altera" /\ b.max10 ->
            {[sectors |-> x] @@ Flash("pof") : x \in {{}, {"CFM0"}, {"UFM1", "UFM0"}, {"UFM0"}, {"UFM1", "CFM0", "CFM2"}}}
            \cup {[sectors |-> x, file |-> Bits(n)] @@ Flash("bin") : x \in {{}, {"UFM0"}, {"UFM1", "CFM2"}}, n \in 1..3}
      [] b.vendor = "altera" /\ ~b.max10 -> {Sram("rbf"), Flash("rpd")}
      [] b.vendor = "gowin" -> IF b.fam = "gw1n" THEN {Sram("fs"), Flash("fs"), [mcufw |-> TRUE] @@ Flash("fs"),
                                                       [mcufw |-> TRUE] @@ Flash(""), [vld |-> FALSE] @@ Flash("fs"),
                                                       [userflash |-> TRUE] @@ Flash("fs")}
                               ELSE {Sram("fs"), [external |-> TRUE] @@ Flash("fs")}
      [] b.vendor = "efinix" -> IF b.bus = "spi" THEN {Flash("hex")}
                                ELSE {Sram("bit"), Flash("hex")}
      [] b.vendor = "anlogic" -> {Sram("bit"), Flash("bit")}
      [] b.vendor = "colognechip" -> {Sram("bit"), Flash("bit")}
      [] b.vendor = "ice40" -> {Sram("bin"), Flash("bin")}
      [] b.vendor = "latticesspi" -> {Sram("bit")}
      [] b.vendor = "none" -> {Flash("bin")}
      [] b.vendor = "lattice" ->
            (CASE b.fam \in {"xo2", "xo3"} -> {[jed |-> Jed] @@ Flash("jed"), Sram("bit")}
               [] b.fam = "xo3d" -> {[jed |-> Jed] @@ Flash("jed"), [sector |-> "FEA"] @@ Flash("fea"),
                                     [sector |-> "PKEY"] @@ Flash("pub")}
               [] OTHER -> {Sram("bit"), Flash("bit"), Flash("mcs")})
      [] b.vendor = "xilinx" ->
            CASE b.fam \in {"xc95", "xc2c"} -> {Flash("jed")}
              [] b.fam = "xcf" -> {Flash("mcs")}
              [] b.fam = "zynqmp" -> {Sram("bit")}
              [] b.fam = "spartanusp" -> {Sram("pdi")}
              [] OTHER -> IF b.twin THEN {[target |-> "both"] @@ Flash("bit"), [target |-> "secondary"] @@ Flash("bit")}
                          ELSE {Sram("bit"), Flash("bit"), Flash("mcs")}

Toggles == {<<>>} \cup {[x \in {n} |-> ~Base[n]] :
                n \in {"verify", "unprotect", "skipBridge", "skipReset", "parses", "match", "bridge", "package", "stray"}}
Writes(b) ==
    {[cmds |-> c, opt |-> t @@ f @@ Base] : c \in {{"program"}, {"program", "protect", "reset"}}, f \in Files(b), t \in Toggles}
Others(b) ==
    {[cmds |-> c, opt |-> Flash("") @@ Base] : c \in {{"erase"}, {"protect"}, {"unprotect", "erase"}, {"quad"}, {"detect"}, {"reset"}}}
    \cup {[cmds |-> {"dump"}, opt |-> [prg |-> "dump"] @@ Base]}

\* Command lines about the flash alone: sizes, offsets and locks.
FlashWork(b) ==
    {[cmds |-> {"program"}, opt |-> t @@ f @@ [offset |-> o, file |-> Bits(n)] @@ Base] :
        f \in {x \in Files(b) : x.prg = "flash"}, o \in Offsets, n \in Sizes,
        t \in {[verify |-> v, unprotect |-> u] : v \in BOOLEAN, u \in BOOLEAN}}
    \cup {[cmds |-> {"protect"}, opt |-> [area |-> a, confirm |-> c] @@ Flash("") @@ Base] :
            a \in {Block, 2 * Block}, c \in BOOLEAN}
    \cup {[cmds |-> {"unprotect"}, opt |-> Flash("") @@ Base]}

\* The boards that are tried with all chips: one that hands failures on, two that do not.
ForFlash(b) == b.vendor \in {"none", "ice40"} \/ b.fam = "cyclone"
MCChips(b) == IF ForFlash(b) THEN ManyChips ELSE {Chip}
MCRequests(b) == Writes(b) \cup Others(b) \cup (IF ForFlash(b) THEN FlashWork(b) ELSE {})
=============================================================================
