---------------------------- MODULE UartDriver ----------------------------
(* The Linux driver of the UART (board/neorv32_uart.c): no interrupts, but a   *)
(* kernel thread that polls both FIFOs once per tick.  The serial core, the     *)
(* tty layer and the UART are external, modelled from how the driver uses them. *)
(* A section under port->lock is one step, except that the console waits for    *)
(* the hardware with the lock in its hands.  neo_uart_dbg takes no lock: what   *)
(* it has read may be stale when it writes.                                     *)
EXTENDS Integers, Sequences, FiniteSets

CONSTANTS
    RxDepth, TxDepth,   \* IO_UART0_RX_FIFO, IO_UART0_TX_FIFO
    BufSize,            \* sizeof(rxbuf)
    XmitSize,           \* the transmit buffer of the serial core
    LdiscSize,          \* the buffer of the line discipline
    MaxIn, MaxOut,      \* bounds on the bytes received, and written to the tty
    MaxLines, LineLen,  \* console messages and their length
    MaxOpens            \* bound on the times the port is opened

ASSUME UartSizes == {RxDepth, TxDepth, BufSize, XmitSize, LdiscSize, LineLen} \subseteq Nat \ {0}

VARIABLES
    rx, tx,             \* the FIFOs of the UART, which the boot loader has enabled
    wire,               \* what was sent: the bytes of the tty and of the console, and the last one
    arrived,            \* bytes that have come in
    got, unread,        \* bytes the line discipline has accepted, how many wait there to be read
    lost, refused,      \* bytes dropped, and those of them that a line discipline had no room for
    xmit, written, shed,  \* the buffer of the serial core, bytes put into it and discarded by a close
    thread,             \* the polling thread: where it is, the bytes it holds, to stop
    port,               \* "none", "added", "dbg", "open", "closing"
    polled,             \* poll_thread is not NULL
    tty, ldisc,         \* port->state->port.tty exists; its line discipline can be used
    con, lines,         \* the console message being written, messages so far
    dbg,                \* the debug output: what it waits for
    opens

hardware == <<rx, tx, wire, arrived>>
core == <<got, unread, lost, refused, xmit, written, shed, tty, ldisc>>
driver == <<thread, port, polled, con, lines, dbg, opens>>
vars == <<hardware, core, driver>>

Locked == con # <<>>            \* the console holds port->lock
TxNFull == Len(tx) < TxDepth
Bytes(seq) == {seq[i] : i \in DOMAIN seq}
NewThread == [pc |-> "none", buf |-> <<>>, stop |-> FALSE]

-----------------------------------------------------------------------------
\* The UART: a byte arrives, or is lost in a full FIFO; a byte leaves.
Arrives ==
    /\ arrived < MaxIn
    /\ arrived' = arrived + 1
    /\ IF Len(rx) < RxDepth THEN rx' = Append(rx, arrived + 1) /\ UNCHANGED lost
       ELSE rx' = rx /\ lost' = lost \cup {arrived + 1}
    /\ UNCHANGED <<tx, wire, got, unread, refused, xmit, written, shed, tty, ldisc, driver>>

Shifts ==
    /\ tx # <<>>
    /\ wire' = LET c == Head(tx) IN
               IF c.from = "dbg" THEN wire
               ELSE [wire EXCEPT !.last = c, !.sent[c.from] = @ \cup {c.nr}]
    /\ tx' = Tail(tx)
    /\ UNCHANGED <<rx, arrived, core, driver>>

\* A write to DATA: a full FIFO ignores it.
Put(fifo, c) == IF Len(fifo) < TxDepth THEN Append(fifo, c) ELSE fifo

\* neorv32_tx_chars: as many as fit.
TxChars(fifo, buf) ==
    LET room == TxDepth - Len(fifo)
        n    == IF Len(buf) < room THEN Len(buf) ELSE room
    IN  [tx |-> fifo \o SubSeq(buf, 1, n), xmit |-> SubSeq(buf, n + 1, Len(buf))]

-----------------------------------------------------------------------------
\* neorv32_poll_thread, step by step.
ThreadTop ==
    /\ thread.pc = "top"
    /\ thread' = [thread EXCEPT !.pc = IF thread.stop THEN "exited" ELSE "rx"]
    /\ UNCHANGED <<hardware, core, port, polled, con, lines, dbg, opens>>

\* A mutant: without input the turn is over.
ThreadRxOnly ==
    LET n == IF Len(rx) < BufSize THEN Len(rx) ELSE BufSize IN
    /\ thread.pc = "rx" /\ ~Locked
    /\ rx' = SubSeq(rx, n + 1, Len(rx))
    /\ thread' = [thread EXCEPT !.buf = SubSeq(rx, 1, n), !.pc = IF n > 0 THEN "look" ELSE "sleep"]
    /\ UNCHANGED <<tx, wire, arrived, core, port, polled, con, lines, dbg, opens>>

\* neorv32_rx_direct under the lock.
ThreadRx ==
    LET n == IF Len(rx) < BufSize THEN Len(rx) ELSE BufSize IN
    /\ thread.pc = "rx" /\ ~Locked
    /\ rx' = SubSeq(rx, n + 1, Len(rx))
    /\ thread' = [thread EXCEPT !.buf = SubSeq(rx, 1, n), !.pc = IF n > 0 THEN "look" ELSE "tx"]
    /\ UNCHANGED <<tx, wire, arrived, core, port, polled, con, lines, dbg, opens>>

\* It reads the tty pointer; without a tty the bytes are dropped.
ThreadLook ==
    /\ thread.pc = "look"
    /\ IF tty THEN thread' = [thread EXCEPT !.pc = "ref"] /\ lost' = lost
       ELSE /\ thread' = [thread EXCEPT !.pc = "tx", !.buf = <<>>]
            /\ lost' = lost \cup Bytes(thread.buf)
    /\ UNCHANGED <<hardware, got, unread, refused, xmit, written, shed, tty, ldisc, port, polled, con, lines, dbg, opens>>

\* The line discipline accepts what it has room for and returns how much that was; the
\* driver does not look at the number.
Receives(buf) ==
    LET room == LdiscSize - unread
        n    == IF Len(buf) < room THEN Len(buf) ELSE room
        rest == Bytes(SubSeq(buf, n + 1, Len(buf)))
    IN  /\ got' = got \o SubSeq(buf, 1, n) /\ unread' = unread + n
        /\ lost' = lost \cup rest /\ refused' = refused \cup rest

\* A mutant: the bytes are handed over and stay in the buffer.
ThreadDeliverTwice ==
    /\ thread.pc = "ref"
    /\ thread' = [thread EXCEPT !.pc = "tx"]
    /\ IF ldisc THEN Receives(thread.buf)
       ELSE lost' = lost \cup Bytes(thread.buf) /\ UNCHANGED <<got, unread, refused>>
    /\ UNCHANGED <<hardware, xmit, written, shed, tty, ldisc, port, polled, con, lines, dbg, opens>>

\* tty_ldisc_ref and tty_ldisc_receive_buf on the tty that it has read: whatever is not
\* accepted is gone, for the thread's buffer is on its stack and is filled anew.
ThreadDeliver ==
    /\ thread.pc = "ref"
    /\ thread' = [thread EXCEPT !.pc = "tx", !.buf = <<>>]
    /\ IF ldisc THEN Receives(thread.buf)
       ELSE lost' = lost \cup Bytes(thread.buf) /\ UNCHANGED <<got, unread, refused>>
    /\ UNCHANGED <<hardware, xmit, written, shed, tty, ldisc, port, polled, con, lines, dbg, opens>>

ThreadTx ==
    /\ thread.pc = "tx" /\ ~Locked
    /\ LET t == TxChars(tx, xmit) IN tx' = t.tx /\ xmit' = t.xmit
    /\ thread' = [thread EXCEPT !.pc = "sleep"]
    /\ UNCHANGED <<rx, wire, arrived, got, unread, lost, refused, written, shed, tty, ldisc, port, polled, con, lines, dbg, opens>>

\* The tick is over, or kthread_stop wakes it.
ThreadWakes ==
    /\ thread.pc = "sleep"
    /\ thread' = [thread EXCEPT !.pc = "top"]
    /\ UNCHANGED <<hardware, core, port, polled, con, lines, dbg, opens>>

-----------------------------------------------------------------------------
\* neorv32_uart_init and neorv32_probe; neorv32_remove, of a port that is closed.
Probe ==
    /\ port = "none" /\ port' = "added"
    /\ UNCHANGED <<hardware, core, thread, polled, con, lines, dbg, opens>>
Remove ==
    /\ port = "added" /\ opens > 0 /\ dbg = "" /\ port' = "none"
    /\ UNCHANGED <<hardware, core, thread, polled, con, lines, dbg, opens>>

\* neo_uart_dbg: it waits for room, then writes.
DbgSees ==
    /\ dbg = "waits" /\ TxNFull /\ dbg' = "writes"
    /\ UNCHANGED <<hardware, core, thread, port, polled, con, lines, opens>>
DbgPuts ==
    /\ dbg = "writes" /\ dbg' = ""
    /\ tx' = Put(tx, [from |-> "dbg", nr |-> opens, end |-> TRUE])
    /\ UNCHANGED <<rx, wire, arrived, core, thread, port, polled, con, lines, opens>>

\* neorv32_startup: the core has made the tty.  When the thread cannot be made the
\* pointer is cleared and PTR_ERR of it is 0: the core takes the port as open.
StartupEnters ==
    /\ port = "added" /\ dbg = "" /\ opens < MaxOpens
    /\ opens' = opens + 1 /\ port' = "dbg" /\ dbg' = "waits"
    /\ tty' = TRUE /\ ldisc' = TRUE
    /\ UNCHANGED <<hardware, got, unread, lost, refused, xmit, written, shed, thread, polled, con, lines>>
StartupEnds ==
    /\ port = "dbg" /\ dbg = ""
    /\ port' = "open" /\ dbg' = "waits"
    /\ \E made \in BOOLEAN :
        /\ polled' = made
        /\ thread' = IF made THEN [NewThread EXCEPT !.pc = "top"] ELSE NewThread
    /\ UNCHANGED <<rx, tx, wire, arrived, core, con, lines, opens>>

\* Mutants: the thread is not asked to stop; the port closes before the thread has ended.
ShutdownSilent ==
    /\ port = "open" /\ dbg = ""
    /\ port' = "closing"
    /\ UNCHANGED <<hardware, core, thread, polled, con, lines, dbg, opens>>
ShutdownEndsAtOnce ==
    /\ port = "closing"
    /\ port' = "added" /\ polled' = FALSE /\ UNCHANGED thread
    /\ tty' = FALSE /\ ldisc' = FALSE /\ unread' = 0 /\ xmit' = <<>>
    /\ shed' = shed \cup {xmit[i].nr : i \in DOMAIN xmit}
    /\ UNCHANGED <<hardware, got, lost, refused, written, con, lines, dbg, opens>>

\* The core closes: neorv32_shutdown asks the thread to stop, waits until it has, and
\* only then the tty goes away, with what is left to send.
Shutdown ==
    /\ port = "open" /\ dbg = ""
    /\ port' = "closing"
    /\ thread' = [thread EXCEPT !.stop = polled]
    /\ UNCHANGED <<hardware, core, polled, con, lines, dbg, opens>>
ShutdownEnds ==
    /\ port = "closing" /\ (polled => thread.pc = "exited")
    /\ port' = "added" /\ polled' = FALSE /\ thread' = NewThread
    /\ tty' = FALSE /\ ldisc' = FALSE /\ unread' = 0 /\ xmit' = <<>>
    /\ shed' = shed \cup {xmit[i].nr : i \in DOMAIN xmit}
    /\ UNCHANGED <<hardware, got, lost, refused, written, con, lines, dbg, opens>>

\* The line discipline is changed: for a while none can be had, and its buffer goes with it.
LdiscChanges ==
    /\ tty /\ port = "open" /\ ldisc' = ~ldisc /\ unread' = 0
    /\ UNCHANGED <<hardware, got, lost, refused, xmit, written, shed, tty, driver>>

\* A program reads: the line discipline has room again.
TtyRead ==
    /\ port = "open" /\ ldisc /\ unread > 0
    /\ unread' \in 0 .. unread - 1
    /\ UNCHANGED <<hardware, got, lost, refused, xmit, written, shed, tty, ldisc, driver>>

\* A mutant: without the lock.
TtyWriteUnlocked ==
    /\ port = "open" /\ Len(xmit) < XmitSize /\ written < MaxOut
    /\ written' = written + 1
    /\ LET t == TxChars(tx, Append(xmit, [from |-> "tty", nr |-> written + 1, end |-> TRUE]))
       IN  tx' = t.tx /\ xmit' = t.xmit
    /\ UNCHANGED <<rx, wire, arrived, got, unread, lost, refused, shed, tty, ldisc, driver>>

\* A program writes a byte; the core calls start_tx under the lock.
TtyWrite ==
    /\ port = "open" /\ ~Locked /\ Len(xmit) < XmitSize /\ written < MaxOut
    /\ written' = written + 1
    /\ LET t == TxChars(tx, Append(xmit, [from |-> "tty", nr |-> written + 1, end |-> TRUE]))
       IN  tx' = t.tx /\ xmit' = t.xmit
    /\ UNCHANGED <<rx, wire, arrived, got, unread, lost, refused, shed, tty, ldisc, driver>>

\* neorv32_console_write: neorv32_putchar waits for room, all under the lock.  It comes
\* at any time, from an interrupt as well.
ConsoleBegins ==
    /\ port # "none" /\ ~Locked /\ lines < MaxLines
    /\ lines' = lines + 1
    /\ con' = [i \in 1..LineLen |-> [from |-> "con", nr |-> LineLen * lines + i, end |-> i = LineLen]]
    /\ UNCHANGED <<hardware, core, thread, port, polled, dbg, opens>>
\* A mutant: it does not wait for room.
ConsolePutsAtOnce ==
    /\ Locked
    /\ tx' = Put(tx, Head(con)) /\ con' = Tail(con)
    /\ UNCHANGED <<rx, wire, arrived, core, thread, port, polled, lines, dbg, opens>>

ConsolePuts ==
    /\ Locked /\ TxNFull
    /\ tx' = Append(tx, Head(con)) /\ con' = Tail(con)
    /\ UNCHANGED <<rx, wire, arrived, core, thread, port, polled, lines, dbg, opens>>

-----------------------------------------------------------------------------
Init ==
    /\ rx = <<>> /\ tx = <<>> /\ arrived = 0
    /\ wire = [sent |-> [who \in {"tty", "con"} |-> {}], last |-> [from |-> "tty", nr |-> 0, end |-> TRUE]]
    /\ got = <<>> /\ unread = 0 /\ lost = {} /\ refused = {} /\ xmit = <<>> /\ written = 0 /\ shed = {}
    /\ thread = NewThread /\ port = "none" /\ polled = FALSE /\ tty = FALSE /\ ldisc = FALSE
    /\ con = <<>> /\ lines = 0 /\ dbg = "" /\ opens = 0

ThreadSteps == ThreadTop \/ ThreadRx \/ ThreadLook \/ ThreadDeliver \/ ThreadTx \/ ThreadWakes
OpenSteps == DbgSees \/ DbgPuts \/ StartupEnds \/ ShutdownEnds
Next == \/ Arrives \/ Shifts \/ ThreadSteps \/ OpenSteps \/ ConsolePuts
        \/ Probe \/ Remove \/ StartupEnters \/ Shutdown \/ LdiscChanges \/ TtyRead \/ TtyWrite \/ ConsoleBegins

\* The UART sends, the scheduler runs the thread, the caller of open and close and the
\* console go on.
Fairness == WF_vars(Shifts) /\ WF_vars(ThreadSteps) /\ WF_vars(OpenSteps) /\ WF_vars(ConsolePuts)
Spec == Init /\ [][Next]_vars /\ Fairness

-----------------------------------------------------------------------------
From(seq, who) == {i \in DOMAIN seq : seq[i].from = who}
Nrs(seq, who) == {seq[i].nr : i \in From(seq, who)}
Rising(seq) == \A i, j \in DOMAIN seq : i < j => seq[i] < seq[j]

\* Received bytes reach the line discipline in order and once each; one that does not is
\* known to be lost: to a full FIFO, for want of a line discipline, or because the line
\* discipline was full (the driver ignores how much it took).  The last happens only
\* behind a buffer full of bytes that did arrive, and what was refused never comes later.
RxAccounted ==
    /\ Rising(got \o thread.buf \o rx)
    /\ Bytes(got \o thread.buf \o rx) \cap lost = {}
    /\ Bytes(got \o thread.buf \o rx) \cup lost = 1..arrived
    /\ \A x \in refused : LdiscSize <= Len(got) /\ got[LdiscSize] < x

\* The tty that the thread has read without a lock is still there when it is used, whoever
\* closes the port meanwhile, and no thread outlives its port.
TtyAlive == (thread.pc = "ref" => tty) /\ (thread.pc \notin {"none", "exited"} => polled /\ port \in {"open", "closing"})

\* Of n bytes that someone has written, those of sent have left, in order, those in the
\* sequence seq will leave after them, in order, and those of gone were discarded.
Flows(n, sent, seq, who, gone) ==
    /\ \A i, j \in From(seq, who) : i < j => seq[i].nr < seq[j].nr
    /\ \A x \in sent, y \in Nrs(seq, who) : x < y
    /\ (sent \cup Nrs(seq, who)) \cap gone = {}
    /\ sent \cup Nrs(seq, who) \cup gone = 1..n

\* What programs write is sent in order, once each, without a gap but for what a close
\* discards; and no byte of the console is lost, whatever neo_uart_dbg writes between.
TxAccounted ==
    /\ Flows(written, wire.sent["tty"], tx \o xmit, "tty", shed)
    /\ Flows(LineLen * lines, wire.sent["con"], tx \o con, "con", {})

\* After a byte that is not the end of its message comes the next one of the message.
Untorn(seq) ==
    \A i, j \in DOMAIN seq :
        i < j /\ seq[i].from # "dbg" /\ seq[j].from # "dbg" /\ (\A k \in i + 1 .. j - 1 : seq[k].from = "dbg") =>
            seq[i].end \/ (seq[j].from = seq[i].from /\ seq[j].nr = seq[i].nr + 1)

\* A message of the console is not torn by what programs write.
ConsoleLineWhole == Untorn(<<wire.last>> \o tx)

\* While the thread polls, what start_tx found no room for goes out, whoever else fills the
\* FIFO (the driver has no interrupt that would send it), and what came in is taken out of
\* the FIFO, also while the console holds the lock again and again.
FifosServed ==
    /\ polled /\ port = "open" /\ xmit # <<>> ~> xmit = <<>>
    /\ polled /\ rx # <<>> ~> rx = <<>> \/ ~polled

\* Opening and closing come to an end: the thread is always there to be stopped, and the
\* debug output always finds room.
OpenAndCloseEnd == port \in {"dbg", "closing"} ~> port \in {"added", "open"}
=============================================================================
