---------------------------- MODULE UartProofs ----------------------------
(* Proofs about the Linux driver of the UART, for FIFOs and buffers of every   *)
(* size and any number of bytes, messages and opens: the thread never outlives  *)
(* its port nor uses a tty that is gone, every byte received or written is      *)
(* accounted for, and no message of the console is torn.                        *)
EXTENDS UartDriver, SequenceTheorems, TLAPS

Places == {"none", "top", "rx", "look", "ref", "tx", "sleep", "exited"}

\* The types that the proofs need.
Types ==
    /\ thread \in [pc : Places, buf : Seq(Nat), stop : BOOLEAN]
    /\ rx \in Seq(Nat) /\ got \in Seq(Nat) /\ arrived \in Nat /\ polled \in BOOLEAN
    /\ unread \in 0..LdiscSize /\ unread <= Len(got)

\* Who is there when: a thread belongs to a port that is open or closing, and such a port
\* has a tty.
Belongs ==
    /\ thread.pc \notin {"none", "exited"} => polled
    /\ polled => port \in {"open", "closing"}
    /\ port \in {"dbg", "open", "closing"} => tty

\* The thread holds bytes only between taking them and handing them over.
Holds == thread.pc \notin {"look", "ref"} => thread.buf = <<>>

Inv == Types /\ Belongs /\ Holds

-----------------------------------------------------------------------------
\* What thread' holds after each of the ways in which steps change it.
LEMMA NewPc ==
    ASSUME Types, NEW p \in Places, thread' = [thread EXCEPT !.pc = p]
    PROVE  thread' \in [pc : Places, buf : Seq(Nat), stop : BOOLEAN] /\ thread'.pc = p /\ thread'.buf = thread.buf
BY DEF Types

\* ... with new bytes in its hands as well.
LEMMA NewPcAndBuf ==
    ASSUME Types, NEW p \in Places, NEW b \in Seq(Nat), thread' = [thread EXCEPT !.buf = b, !.pc = p]
    PROVE  thread' \in [pc : Places, buf : Seq(Nat), stop : BOOLEAN] /\ thread'.pc = p /\ thread'.buf = b
BY DEF Types

\* ... when it is asked to stop.
LEMMA NewStop ==
    ASSUME Types, NEW b \in BOOLEAN, thread' = [thread EXCEPT !.stop = b]
    PROVE  thread' \in [pc : Places, buf : Seq(Nat), stop : BOOLEAN] /\ thread'.pc = thread.pc /\ thread'.buf = thread.buf
BY DEF Types

-----------------------------------------------------------------------------
\* Sequences of bytes: a sequence that is cut in two loses and gains nothing, and what
\* Bytes and Rising say of a concatenation.
LEMMA Cut ==
    ASSUME NEW S, NEW s \in Seq(S), NEW n \in 0..Len(s)
    PROVE  /\ SubSeq(s, 1, n) \in Seq(S) /\ SubSeq(s, n + 1, Len(s)) \in Seq(S)
           /\ Len(SubSeq(s, 1, n)) = n
           /\ SubSeq(s, 1, n) \o SubSeq(s, n + 1, Len(s)) = s
           /\ n = 0 => SubSeq(s, 1, n) = <<>>
<1>1. Len(s) \in Nat /\ \A i \in 1..Len(s) : s[i] \in S
  BY LenProperties, ElementOfSeq
<1>2. SubSeq(s, 1, n) \in Seq(S) /\ Len(SubSeq(s, 1, n)) = n
  BY <1>1, SubSeqProperties
<1>3. SubSeq(s, n + 1, Len(s)) \in Seq(S)
  <2>1. n + 1 \in Int /\ Len(s) \in Int /\ \A i \in n + 1 .. Len(s) : s[i] \in S
    BY <1>1
  <2>2. QED BY <2>1, SubSeqProperties
<1>4. SubSeq(s, 1, n) \o SubSeq(s, n + 1, Len(s)) = SubSeq(s, 1, Len(s))
  <2>1. 1 \in 1 .. Len(s) + 1 /\ n \in 1 - 1 .. Len(s) /\ Len(s) \in n .. Len(s)
    BY <1>1
  <2>2. QED BY <2>1, ConcatAdjacentSubSeq
<1>5. n = 0 => SubSeq(s, 1, n) = <<>>
  BY SubSeqEmpty
<1>6. QED BY <1>2, <1>3, <1>4, <1>5, SubSeqFull

\* The bytes of a concatenation are those of both.
LEMMA BytesOfConcat ==
    ASSUME NEW a \in Seq(Nat), NEW b \in Seq(Nat)
    PROVE  Bytes(a \o b) = Bytes(a) \cup Bytes(b)
<1>1. /\ Len(a) \in Nat /\ DOMAIN a = 1..Len(a)
      /\ Len(b) \in Nat /\ DOMAIN b = 1..Len(b)
      /\ DOMAIN (a \o b) = 1 .. Len(a) + Len(b)
      /\ \A i \in 1 .. Len(a) + Len(b) : (a \o b)[i] = IF i <= Len(a) THEN a[i] ELSE b[i - Len(a)]
  BY ConcatProperties, LenProperties
<1>2. ASSUME NEW x \in Bytes(a \o b) PROVE x \in Bytes(a) \cup Bytes(b)
  <2>1. PICK i \in 1 .. Len(a) + Len(b) : x = (a \o b)[i]
    BY <1>1, <1>2 DEF Bytes
  <2>2. CASE i <= Len(a)
    BY <1>1, <2>1, <2>2 DEF Bytes
  <2>3. CASE ~(i <= Len(a))
    <3>1. i - Len(a) \in DOMAIN b /\ x = b[i - Len(a)]
      BY <1>1, <2>1, <2>3
    <3>2. QED BY <3>1 DEF Bytes
  <2>4. QED BY <2>2, <2>3
<1>3. ASSUME NEW x \in Bytes(a) PROVE x \in Bytes(a \o b)
  <2>1. PICK i \in 1..Len(a) : x = a[i]
    BY <1>1, <1>3 DEF Bytes
  <2>2. i \in DOMAIN (a \o b) /\ x = (a \o b)[i]
    BY <1>1, <2>1
  <2>3. QED BY <2>2 DEF Bytes
<1>4. ASSUME NEW x \in Bytes(b) PROVE x \in Bytes(a \o b)
  <2>1. PICK i \in 1..Len(b) : x = b[i]
    BY <1>1, <1>4 DEF Bytes
  <2>2. Len(a) + i \in DOMAIN (a \o b) /\ x = (a \o b)[Len(a) + i]
    BY <1>1, <2>1
  <2>3. QED BY <2>2 DEF Bytes
<1>5. QED BY <1>2, <1>3, <1>4

\* A concatenation rises when both parts do and all of the first lie below all of the second.
LEMMA RisingOfConcat ==
    ASSUME NEW a \in Seq(Nat), NEW b \in Seq(Nat)
    PROVE  Rising(a \o b) <=> Rising(a) /\ Rising(b) /\ \A x \in Bytes(a), y \in Bytes(b) : x < y
<1>1. /\ Len(a) \in Nat /\ DOMAIN a = 1..Len(a)
      /\ Len(b) \in Nat /\ DOMAIN b = 1..Len(b)
      /\ DOMAIN (a \o b) = 1 .. Len(a) + Len(b)
      /\ \A i \in 1 .. Len(a) + Len(b) : (a \o b)[i] = IF i <= Len(a) THEN a[i] ELSE b[i - Len(a)]
  BY ConcatProperties, LenProperties
<1>2. ASSUME Rising(a \o b) PROVE Rising(a)
  <2>1. ASSUME NEW i \in 1..Len(a), NEW j \in 1..Len(a), i < j PROVE a[i] < a[j]
    <3>1. i \in DOMAIN (a \o b) /\ j \in DOMAIN (a \o b)
      BY <1>1
    <3>2. (a \o b)[i] < (a \o b)[j]
      BY <1>2, <2>1, <3>1 DEF Rising
    <3>3. QED BY <1>1, <3>2
  <2>2. QED BY <1>1, <2>1 DEF Rising
<1>3. ASSUME Rising(a \o b) PROVE Rising(b)
  <2>1. ASSUME NEW i \in 1..Len(b), NEW j \in 1..Len(b), i < j PROVE b[i] < b[j]
    <3>1. Len(a) + i \in DOMAIN (a \o b) /\ Len(a) + j \in DOMAIN (a \o b) /\ Len(a) + i < Len(a) + j
      BY <1>1, <2>1
    <3>2. (a \o b)[Len(a) + i] < (a \o b)[Len(a) + j]
      BY <1>3, <3>1 DEF Rising
    <3>3. (a \o b)[Len(a) + i] = b[i] /\ (a \o b)[Len(a) + j] = b[j]
      BY <1>1
    <3>4. QED BY <3>2, <3>3
  <2>2. QED BY <1>1, <2>1 DEF Rising
<1>4. ASSUME Rising(a \o b), NEW x \in Bytes(a), NEW y \in Bytes(b) PROVE x < y
  <2>1. PICK i \in 1..Len(a), j \in 1..Len(b) : x = a[i] /\ y = b[j]
    BY <1>1, <1>4 DEF Bytes
  <2>2. i \in DOMAIN (a \o b) /\ Len(a) + j \in DOMAIN (a \o b) /\ i < Len(a) + j
    BY <1>1
  <2>3. (a \o b)[i] < (a \o b)[Len(a) + j]
    BY <1>4, <2>2 DEF Rising
  <2>4. (a \o b)[i] = a[i] /\ (a \o b)[Len(a) + j] = b[j]
    BY <1>1
  <2>5. QED BY <2>1, <2>3, <2>4
<1>5. ASSUME Rising(a), Rising(b), \A x \in Bytes(a), y \in Bytes(b) : x < y,
             NEW i \in 1 .. Len(a) + Len(b), NEW j \in 1 .. Len(a) + Len(b), i < j
      PROVE  (a \o b)[i] < (a \o b)[j]
  <2>1. CASE j <= Len(a)
    <3>1. i \in DOMAIN a /\ j \in DOMAIN a
      BY <1>1, <1>5, <2>1
    <3>2. a[i] < a[j]
      BY <1>5, <3>1 DEF Rising
    <3>3. QED BY <1>1, <1>5, <2>1, <3>2
  <2>2. CASE ~(i <= Len(a))
    <3>1. i - Len(a) \in DOMAIN b /\ j - Len(a) \in DOMAIN b /\ i - Len(a) < j - Len(a)
      BY <1>1, <1>5, <2>2
    <3>2. b[i - Len(a)] < b[j - Len(a)]
      BY <1>5, <3>1 DEF Rising
    <3>3. QED BY <1>1, <1>5, <2>2, <3>2
  <2>3. CASE i <= Len(a) /\ ~(j <= Len(a))
    <3>1. i \in DOMAIN a /\ j - Len(a) \in DOMAIN b
      BY <1>1, <1>5, <2>3
    <3>2. a[i] < b[j - Len(a)]
      BY <1>5, <3>1 DEF Bytes
    <3>3. QED BY <1>1, <1>5, <2>3, <3>2
  <2>4. QED BY <1>1, <1>5, <2>1, <2>2, <2>3
<1>6. (Rising(a) /\ Rising(b) /\ \A x \in Bytes(a), y \in Bytes(b) : x < y) => Rising(a \o b)
  BY <1>1, <1>5 DEF Rising
<1>7. QED BY <1>2, <1>3, <1>4, <1>6

\* What the line discipline accepts of the bytes b: the first Room(b) of them.
Room(b) == IF Len(b) < LdiscSize - unread THEN Len(b) ELSE LdiscSize - unread
Accepted(b) == SubSeq(b, 1, Room(b))
Left(b) == SubSeq(b, Room(b) + 1, Len(b))

\* Receives, in these words: the two parts are all of b, and when something is left the
\* buffer is full.
LEMMA WhatIsReceived ==
    ASSUME Types, NEW b \in Seq(Nat), Receives(b)
    PROVE  /\ got' = got \o Accepted(b) /\ lost' = lost \cup Bytes(Left(b)) /\ refused' = refused \cup Bytes(Left(b))
           /\ Accepted(b) \in Seq(Nat) /\ Left(b) \in Seq(Nat) /\ Accepted(b) \o Left(b) = b
           /\ got' \in Seq(Nat) /\ unread' \in 0..LdiscSize /\ unread' <= Len(got')
           /\ Bytes(Left(b)) # {} => unread' = LdiscSize
<1>1. LdiscSize \in Nat /\ unread \in 0..LdiscSize /\ Len(b) \in Nat /\ got \in Seq(Nat) /\ Len(got) \in Nat /\ unread <= Len(got)
  BY UartSizes, LenProperties DEF Types
<1>2. Room(b) \in 0..Len(b) /\ unread + Room(b) \in 0..LdiscSize /\ (Room(b) # Len(b) => unread + Room(b) = LdiscSize)
  BY <1>1 DEF Room
<1>3. /\ got' = got \o Accepted(b) /\ unread' = unread + Room(b)
      /\ lost' = lost \cup Bytes(Left(b)) /\ refused' = refused \cup Bytes(Left(b))
  BY DEF Receives, Room, Accepted, Left
<1>4. Accepted(b) \in Seq(Nat) /\ Left(b) \in Seq(Nat) /\ Len(Accepted(b)) = Room(b) /\ Accepted(b) \o Left(b) = b
  BY <1>2, Cut DEF Accepted, Left
<1>5. got' \in Seq(Nat) /\ Len(got') = Len(got) + Room(b)
  BY <1>1, <1>3, <1>4, ConcatProperties
<1>6. unread' <= Len(got')
  BY <1>1, <1>2, <1>3, <1>5
<1>7. ASSUME Bytes(Left(b)) # {} PROVE unread' = LdiscSize
  <2>1. CASE Room(b) = Len(b)
    <3>1. Left(b) = <<>>
      BY <1>1, <2>1, SubSeqEmpty DEF Left
    <3>2. QED BY <1>7, <3>1 DEF Bytes
  <2>2. QED BY <1>2, <1>3, <2>1
<1>8. QED BY <1>2, <1>3, <1>4, <1>5, <1>6, <1>7

-----------------------------------------------------------------------------
\* Inv holds at the start, and every step keeps it: only a close lets a tty go, and it waits
\* until the thread, if there is one, has ended.
LEMMA Starts == Init => Inv
<1>1. SUFFICES ASSUME Init PROVE Inv
  OBVIOUS
<1>2. thread.pc = "none" /\ thread.buf = <<>> /\ thread \in [pc : Places, buf : Seq(Nat), stop : BOOLEAN]
  BY <1>1, EmptySeq DEF Init, NewThread, Places
<1>3. Types
  <2>1. rx = <<>> /\ got = <<>> /\ arrived = 0 /\ polled = FALSE /\ unread = 0
    BY <1>1 DEF Init
  <2>2. Len(<<>>) = 0 /\ LdiscSize \in Nat
    BY EmptySeq, UartSizes
  <2>3. unread \in 0..LdiscSize /\ unread <= Len(got)
    BY <2>1, <2>2
  <2>4. QED BY <1>2, <2>1, <2>3, EmptySeq DEF Types
<1>4. Belongs /\ Holds
  BY <1>1, <1>2 DEF Init, Belongs, Holds
<1>5. QED BY <1>3, <1>4 DEF Inv

\* The steps, one by one.
LEMMA Kept == Inv /\ [Next]_vars => Inv'
<1> SUFFICES ASSUME Inv, [Next]_vars PROVE Inv'
  OBVIOUS
<1> USE DEF Inv
<1>1. CASE Arrives
  <2>1. arrived' \in Nat /\ arrived + 1 \in Nat /\ rx' \in {rx, Append(rx, arrived + 1)}
    BY <1>1 DEF Arrives, Types
  <2>2. rx \in Seq(Nat) /\ Append(rx, arrived + 1) \in Seq(Nat)
    BY <2>1, AppendProperties DEF Types
  <2>3. Types'
    BY <1>1, <2>1, <2>2 DEF Arrives, Types, driver
  <2>4. QED BY <1>1, <2>3 DEF Arrives, driver, Belongs, Holds
<1>2. CASE ThreadTop
  <2>1. PICK p \in {"exited", "rx"} : thread' = [thread EXCEPT !.pc = p]
    BY <1>2 DEF ThreadTop
  <2>2. thread' \in [pc : Places, buf : Seq(Nat), stop : BOOLEAN] /\ thread'.pc = p /\ thread'.buf = thread.buf
    BY <2>1, NewPc DEF Places
  <2>3. Types'
    BY <1>2, <2>2 DEF ThreadTop, Types, hardware, core
  <2>4. QED BY <1>2, <2>2, <2>3 DEF ThreadTop, hardware, core, Belongs, Holds
<1>3. CASE ThreadRx
  <2> DEFINE n == IF Len(rx) < BufSize THEN Len(rx) ELSE BufSize
  <2>1. n \in 0..Len(rx) /\ rx \in Seq(Nat)
    BY LenProperties, UartSizes DEF Types
  <2>2. /\ rx' = SubSeq(rx, n + 1, Len(rx)) /\ thread.pc = "rx"
        /\ thread' = [thread EXCEPT !.buf = SubSeq(rx, 1, n), !.pc = IF n > 0 THEN "look" ELSE "tx"]
    BY <1>3 DEF ThreadRx
  <2> HIDE DEF n
  <2>3. rx' \in Seq(Nat) /\ SubSeq(rx, 1, n) \in Seq(Nat) /\ (n = 0 => SubSeq(rx, 1, n) = <<>>)
    BY <2>1, <2>2, Cut
  <2>4. (IF n > 0 THEN "look" ELSE "tx") \in Places
    BY DEF Places
  <2>5. /\ thread' \in [pc : Places, buf : Seq(Nat), stop : BOOLEAN]
        /\ thread'.pc = (IF n > 0 THEN "look" ELSE "tx") /\ thread'.buf = SubSeq(rx, 1, n)
    BY <2>2, <2>3, <2>4, NewPcAndBuf
  <2>6. Types'
    BY <1>3, <2>3, <2>5 DEF ThreadRx, Types, core
  <2>7. Holds'
    BY <2>1, <2>3, <2>5 DEF Holds
  <2>8. Belongs'
    BY <1>3, <2>5 DEF ThreadRx, core, Belongs
  <2>9. QED BY <2>6, <2>7, <2>8
<1>4. CASE ThreadLook
  <2>1. CASE tty
    <3>1. thread' \in [pc : Places, buf : Seq(Nat), stop : BOOLEAN] /\ thread'.pc = "ref" /\ thread'.buf = thread.buf
      BY <1>4, <2>1, NewPc DEF ThreadLook, Places
    <3>2. Types'
      BY <1>4, <3>1 DEF ThreadLook, Types, hardware
    <3>3. QED BY <1>4, <3>1, <3>2 DEF ThreadLook, hardware, Belongs, Holds
  <2>2. CASE ~tty
    BY <1>4, <2>2 DEF ThreadLook, Belongs
  <2>3. QED BY <2>1, <2>2
<1>5. CASE ThreadDeliver
  <2>1. thread' \in [pc : Places, buf : Seq(Nat), stop : BOOLEAN] /\ thread'.pc = "tx" /\ thread'.buf = <<>>
    <3>1. thread' = [thread EXCEPT !.pc = "tx", !.buf = <<>>]
      BY <1>5 DEF ThreadDeliver
    <3>2. QED BY <3>1, EmptySeq DEF Places, Types
  <2>2. got' \in Seq(Nat) /\ unread' \in 0..LdiscSize /\ unread' <= Len(got')
    <3>1. thread.buf \in Seq(Nat)
      BY DEF Types
    <3>2. CASE ldisc
      BY <1>5, <3>1, <3>2, WhatIsReceived DEF ThreadDeliver
    <3>3. CASE ~ldisc
      BY <1>5, <3>3 DEF ThreadDeliver, Types
    <3>4. QED BY <3>2, <3>3
  <2>3. Types'
    BY <1>5, <2>1, <2>2 DEF ThreadDeliver, Types, hardware
  <2>4. QED BY <1>5, <2>1, <2>3 DEF ThreadDeliver, hardware, Belongs, Holds
<1>6. CASE ThreadTx
  <2>1. thread' \in [pc : Places, buf : Seq(Nat), stop : BOOLEAN] /\ thread'.pc = "sleep" /\ thread'.buf = thread.buf
    BY <1>6, NewPc DEF ThreadTx, Places
  <2>2. Types'
    BY <1>6, <2>1 DEF ThreadTx, Types
  <2>3. QED BY <1>6, <2>1, <2>2 DEF ThreadTx, Belongs, Holds
<1>7. CASE ThreadWakes
  <2>1. thread' \in [pc : Places, buf : Seq(Nat), stop : BOOLEAN] /\ thread'.pc = "top" /\ thread'.buf = thread.buf
    BY <1>7, NewPc DEF ThreadWakes, Places
  <2>2. Types'
    BY <1>7, <2>1 DEF ThreadWakes, Types, hardware, core
  <2>3. QED BY <1>7, <2>1, <2>2 DEF ThreadWakes, hardware, core, Belongs, Holds
<1>8. CASE Probe \/ Remove
  <2>1. Types'
    BY <1>8 DEF Probe, Remove, Types, hardware, core
  <2>2. ~polled /\ port' \in {"none", "added"} /\ UNCHANGED <<thread, polled>>
    BY <1>8 DEF Probe, Remove, Belongs
  <2>3. QED BY <2>1, <2>2 DEF Belongs, Holds
<1>9. CASE StartupEnters
  <2>1. Types'
    BY <1>9 DEF StartupEnters, Types, hardware
  <2>2. Belongs' /\ Holds'
    BY <1>9 DEF StartupEnters, Belongs, Holds, hardware
  <2>3. QED BY <2>1, <2>2
<1>10. CASE StartupEnds
  <2>1. PICK made \in BOOLEAN : /\ polled' = made
                                /\ thread' = IF made THEN [NewThread EXCEPT !.pc = "top"] ELSE NewThread
    BY <1>10 DEF StartupEnds
  <2>2. /\ thread' \in [pc : Places, buf : Seq(Nat), stop : BOOLEAN]
        /\ thread'.pc = (IF made THEN "top" ELSE "none") /\ thread'.buf = <<>>
    BY <2>1, EmptySeq DEF NewThread, Places
  <2>3. Types'
    BY <1>10, <2>1, <2>2 DEF StartupEnds, Types, core
  <2>4. QED BY <1>10, <2>1, <2>2, <2>3 DEF StartupEnds, core, Belongs, Holds
<1>11. CASE Shutdown
  <2>1. thread' \in [pc : Places, buf : Seq(Nat), stop : BOOLEAN] /\ thread'.pc = thread.pc /\ thread'.buf = thread.buf
    BY <1>11, NewStop DEF Shutdown, Types
  <2>2. Types'
    BY <1>11, <2>1 DEF Shutdown, Types, hardware, core
  <2>3. QED BY <1>11, <2>1, <2>2 DEF Shutdown, hardware, core, Belongs, Holds
<1>12. CASE ShutdownEnds
  <2>1. thread' \in [pc : Places, buf : Seq(Nat), stop : BOOLEAN] /\ thread'.pc = "none" /\ thread'.buf = <<>>
    BY <1>12, EmptySeq DEF ShutdownEnds, NewThread, Places
  <2>2. UNCHANGED <<rx, got, arrived>> /\ polled' \in BOOLEAN /\ unread' = 0
    BY <1>12 DEF ShutdownEnds, hardware
  <2>3. 0 \in 0..LdiscSize /\ 0 <= Len(got)
    BY UartSizes, LenProperties DEF Types
  <2>4. Types'
    BY <2>1, <2>2, <2>3 DEF Types
  <2>5. QED BY <1>12, <2>1, <2>4 DEF ShutdownEnds, hardware, Belongs, Holds
<1>13. CASE LdiscChanges \/ TtyRead
  <2>1. UNCHANGED <<thread, rx, got, arrived, polled, port, tty>>
    BY <1>13 DEF LdiscChanges, TtyRead, hardware, driver
  <2>2. unread' \in 0..LdiscSize /\ unread' <= Len(got)
    BY <1>13, UartSizes, LenProperties DEF LdiscChanges, TtyRead, Types
  <2>3. QED BY <2>1, <2>2 DEF Types, Belongs, Holds
<1>14. CASE Shifts \/ DbgSees \/ DbgPuts \/ TtyWrite \/ ConsoleBegins \/ ConsolePuts \/ UNCHANGED vars
  <2>1. UNCHANGED <<thread, rx, got, unread, arrived, polled, port, tty>>
    BY <1>14 DEF Shifts, DbgSees, DbgPuts, TtyWrite, ConsoleBegins, ConsolePuts, vars, hardware, core, driver
  <2>2. QED BY <2>1 DEF Types, Belongs, Holds
<1>15. QED
  BY <1>1, <1>2, <1>3, <1>4, <1>5, <1>6, <1>7, <1>8, <1>9, <1>10, <1>11, <1>12, <1>13, <1>14
     DEF Next, ThreadSteps, OpenSteps

\* However opens, closes and the thread interleave, the tty that the thread has read is there
\* when it is used, and no thread outlives the port (neorv32_shutdown stops it first).
THEOREM ThreadKeepsItsTty == Spec => []TtyAlive
<1>1. Inv => TtyAlive
  BY DEF Inv, Belongs, TtyAlive, Types, Places
<1>2. QED BY <1>1, Starts, Kept, PTL DEF Spec

-----------------------------------------------------------------------------
\* RxAccounted but for its last part, of what the line discipline, the thread and the FIFO
\* hold, what was lost and how much came in.
Accounted(g, b, r, gone, n) ==
    /\ Rising(g \o b \o r)
    /\ Bytes(g \o b \o r) \cap gone = {}
    /\ Bytes(g \o b \o r) \cup gone = 1..n

\* Part by part: each rises, and what was handed over came before what the thread holds, and
\* that before what is in the FIFO.
InParts(g, b, r, gone, n) ==
    /\ Rising(g) /\ Rising(b) /\ Rising(r)
    /\ \A x \in Bytes(g), y \in Bytes(b) : x < y
    /\ \A x \in Bytes(g) \cup Bytes(b), y \in Bytes(r) : x < y
    /\ (Bytes(g) \cup Bytes(b) \cup Bytes(r)) \cap gone = {}
    /\ Bytes(g) \cup Bytes(b) \cup Bytes(r) \cup gone = 1..n

\* Both say the same.
LEMMA PartByPart ==
    ASSUME NEW g \in Seq(Nat), NEW b \in Seq(Nat), NEW r \in Seq(Nat), NEW gone, NEW n
    PROVE  Accounted(g, b, r, gone, n) <=> InParts(g, b, r, gone, n)
<1>1. g \o b \in Seq(Nat)
  BY ConcatProperties
<1>2. Bytes(g \o b \o r) = Bytes(g) \cup Bytes(b) \cup Bytes(r) /\ Bytes(g \o b) = Bytes(g) \cup Bytes(b)
  BY <1>1, BytesOfConcat
<1>3. Rising(g \o b \o r) <=> Rising(g \o b) /\ Rising(r) /\ \A x \in Bytes(g \o b), y \in Bytes(r) : x < y
  BY <1>1, RisingOfConcat
<1>4. Rising(g \o b) <=> Rising(g) /\ Rising(b) /\ \A x \in Bytes(g), y \in Bytes(b) : x < y
  BY RisingOfConcat
<1>5. QED BY <1>2, <1>3, <1>4 DEF Accounted, InParts

\* A byte larger than all others may be appended.
LEMMA OneByte ==
    ASSUME NEW s \in Seq(Nat), NEW c \in Nat, Rising(s), \A x \in Bytes(s) : x < c
    PROVE  Append(s, c) \in Seq(Nat) /\ Rising(Append(s, c)) /\ Bytes(Append(s, c)) = Bytes(s) \cup {c}
<1>1. <<c>> \in Seq(Nat) /\ Len(<<c>>) = 1 /\ DOMAIN <<c>> = 1..1 /\ <<c>>[1] = c
  OBVIOUS
<1>2. Bytes(<<c>>) = {c} /\ Rising(<<c>>)
  BY <1>1 DEF Bytes, Rising
<1>3. Append(s, c) = s \o <<c>>
  BY AppendIsConcat
<1>4. s \o <<c>> \in Seq(Nat)
  BY <1>1, ConcatProperties
<1>5. Bytes(s \o <<c>>) = Bytes(s) \cup {c}
  BY <1>1, <1>2, BytesOfConcat
<1>6. Rising(s \o <<c>>)
  <2>1. \A x \in Bytes(s), y \in Bytes(<<c>>) : x < y
    BY <1>2
  <2>2. QED BY <1>1, <1>2, <2>1, RisingOfConcat, Zenon
<1>7. QED BY <1>3, <1>4, <1>5, <1>6

\* The empty sequence.
LEMMA BytesOfNone == Bytes(<<>>) = {} /\ Rising(<<>>)
BY DEF Bytes, Rising

\* What the steps do keeps it: a byte comes in or is lost, the thread takes some, hands them
\* over, or drops them.
LEMMA AByteArrives ==
    ASSUME NEW g \in Seq(Nat), NEW b \in Seq(Nat), NEW r \in Seq(Nat), NEW gone, NEW n \in Nat,
           Accounted(g, b, r, gone, n)
    PROVE  /\ Accounted(g, b, Append(r, n + 1), gone, n + 1)
           /\ Accounted(g, b, r, gone \cup {n + 1}, n + 1)
<1>1. InParts(g, b, r, gone, n)
  BY PartByPart
<1>2. n + 1 \in Nat /\ 1 .. n + 1 = (1..n) \cup {n + 1} /\ \A x \in 1..n : x < n + 1 /\ x # n + 1
  OBVIOUS
<1>3. \A x \in Bytes(g) \cup Bytes(b) \cup Bytes(r) \cup gone : x < n + 1 /\ x # n + 1
  BY <1>1, <1>2 DEF InParts
<1>4. Append(r, n + 1) \in Seq(Nat) /\ Rising(Append(r, n + 1)) /\ Bytes(Append(r, n + 1)) = Bytes(r) \cup {n + 1}
  BY <1>1, <1>2, <1>3, OneByte DEF InParts
<1>5. InParts(g, b, Append(r, n + 1), gone, n + 1)
  BY <1>1, <1>2, <1>3, <1>4 DEF InParts
<1>6. InParts(g, b, r, gone \cup {n + 1}, n + 1)
  BY <1>1, <1>2, <1>3 DEF InParts
<1>7. QED BY <1>4, <1>5, <1>6, PartByPart

\* neorv32_rx_direct: the thread takes the first k bytes of the FIFO.
LEMMA Taken ==
    ASSUME NEW g \in Seq(Nat), NEW r \in Seq(Nat), NEW gone, NEW n, NEW k \in 0..Len(r), Accounted(g, <<>>, r, gone, n)
    PROVE  Accounted(g, SubSeq(r, 1, k), SubSeq(r, k + 1, Len(r)), gone, n)
<1> DEFINE a == SubSeq(r, 1, k)
           z == SubSeq(r, k + 1, Len(r))
<1>1. a \in Seq(Nat) /\ z \in Seq(Nat) /\ a \o z = r
  BY Cut
<1> HIDE DEF a, z
<1>2. InParts(g, <<>>, r, gone, n)
  BY PartByPart, EmptySeq
<1>3. /\ Bytes(r) = Bytes(a) \cup Bytes(z)
      /\ Rising(r) <=> Rising(a) /\ Rising(z) /\ \A x \in Bytes(a), y \in Bytes(z) : x < y
  BY <1>1, BytesOfConcat, RisingOfConcat
<1>4. Accounted(g, a, z, gone, n)
  <2>1. InParts(g, a, z, gone, n)
    BY <1>2, <1>3, BytesOfNone DEF InParts
  <2>2. QED BY <1>1, <2>1, PartByPart
<1>5. QED BY <1>4 DEF a, z

\* Without a line discipline what the thread holds is lost.
LEMMA Dropped ==
    ASSUME NEW g \in Seq(Nat), NEW b \in Seq(Nat), NEW r \in Seq(Nat), NEW gone, NEW n, Accounted(g, b, r, gone, n)
    PROVE  Accounted(g, <<>>, r, gone \cup Bytes(b), n)
<1>1. InParts(g, b, r, gone, n)
  BY PartByPart
<1>2. \A x \in Nat : ~(x < x)
  OBVIOUS
<1>3. \A s \in Seq(Nat) : \A x \in Bytes(s) : x \in Nat
  BY LenProperties, ElementOfSeq DEF Bytes
<1>4. Bytes(b) \cap (Bytes(g) \cup Bytes(r)) = {}
  BY <1>1, <1>2, <1>3 DEF InParts
<1>5. InParts(g, <<>>, r, gone \cup Bytes(b), n)
  BY <1>1, <1>4, BytesOfNone DEF InParts
<1>6. QED BY <1>5, PartByPart, EmptySeq

\* Three parts, grouped in two ways.
LEMMA Associative == \A S : \A a, b, c \in Seq(S) : (a \o b) \o c = a \o (b \o c)
  BY ConcatAssociative
LEMMA NatAssociative == \A a, b, c \in Seq(Nat) : (a \o b) \o c = a \o (b \o c)
  BY Associative, SMTT(30)

\* tty_ldisc_receive_buf: the line discipline gets a, the first part of what the thread
\* holds, and the rest is lost; all of it comes after what was got.
LEMMA HandedOver ==
    ASSUME NEW g \in Seq(Nat), NEW a \in Seq(Nat), NEW z \in Seq(Nat), NEW r \in Seq(Nat), NEW gone, NEW n,
           Accounted(g, a \o z, r, gone, n)
    PROVE  /\ Accounted(g \o a, <<>>, r, gone \cup Bytes(z), n)
           /\ \A x \in Bytes(z), y \in Bytes(g \o a) : y < x
<1>1. g \o a \in Seq(Nat) /\ g \o (a \o z) = (g \o a) \o z
  <2>1. g \o a \in Seq(Nat)
    BY ConcatProperties
  <2>2. (g \o a) \o z = g \o (a \o z)
    BY NatAssociative
  <2>3. QED BY <2>1, <2>2
<1>2. Accounted(g \o a, z, r, gone, n)
  BY <1>1 DEF Accounted
<1>3. InParts(g \o a, z, r, gone, n)
  BY <1>1, <1>2, PartByPart
<1>4. QED BY <1>1, <1>2, <1>3, Dropped DEF InParts

\* The last part: what was refused came after a buffer full of bytes.
Behind(g, no) == \A x \in no : LdiscSize <= Len(g) /\ g[LdiscSize] < x

\* It stays so when more is got, and when more is refused that comes after all that was got.
LEMMA StaysBehind ==
    ASSUME NEW g \in Seq(Nat), NEW a \in Seq(Nat), NEW no, NEW more, Behind(g, no),
           more # {} => LdiscSize <= Len(g \o a),
           \A x \in more, y \in Bytes(g \o a) : y < x
    PROVE  Behind(g \o a, no \cup more)
<1>1. LdiscSize \in Nat \ {0} /\ Len(g) \in Nat /\ Len(a) \in Nat
  BY UartSizes, LenProperties
<1>2. /\ Len(g \o a) = Len(g) + Len(a) /\ DOMAIN (g \o a) = 1 .. Len(g) + Len(a)
      /\ \A i \in 1..Len(g) : (g \o a)[i] = g[i]
  BY <1>1, ConcatProperties, LenProperties
<1>3. ASSUME NEW x \in no PROVE LdiscSize <= Len(g \o a) /\ (g \o a)[LdiscSize] < x
  <2>1. LdiscSize <= Len(g) /\ g[LdiscSize] < x
    BY <1>3 DEF Behind
  <2>2. (g \o a)[LdiscSize] = g[LdiscSize]
    BY <1>1, <1>2, <2>1
  <2>3. QED BY <1>1, <1>2, <2>1, <2>2
<1>4. ASSUME NEW x \in more PROVE LdiscSize <= Len(g \o a) /\ (g \o a)[LdiscSize] < x
  <2>1. LdiscSize <= Len(g \o a)
    BY <1>4
  <2>2. (g \o a)[LdiscSize] \in Bytes(g \o a)
    BY <1>1, <1>2, <2>1 DEF Bytes
  <2>3. QED BY <1>4, <2>1, <2>2
<1>5. QED BY <1>3, <1>4 DEF Behind

\* Every step keeps the account.
LEMMA AccountKept == Inv /\ RxAccounted /\ [Next]_vars => RxAccounted'
<1> SUFFICES ASSUME Inv, RxAccounted, [Next]_vars PROVE RxAccounted'
  OBVIOUS
<1>0. /\ got \in Seq(Nat) /\ rx \in Seq(Nat) /\ arrived \in Nat
      /\ thread \in [pc : Places, buf : Seq(Nat), stop : BOOLEAN] /\ thread.buf \in Seq(Nat)
      /\ Accounted(got, thread.buf, rx, lost, arrived) /\ Behind(got, refused)
  BY DEF Inv, Types, RxAccounted, Accounted, Behind
<1>00. Accounted(got', thread'.buf, rx', lost', arrived') /\ Behind(got', refused') => RxAccounted'
  BY DEF RxAccounted, Accounted, Behind
<1>1. CASE Arrives
  <2>1. UNCHANGED <<got, refused, thread>> /\ arrived' = arrived + 1
    BY <1>1 DEF Arrives, driver
  <2>2. CASE Len(rx) < RxDepth
    BY <1>0, <1>00, <1>1, <2>1, <2>2, AByteArrives DEF Arrives
  <2>3. CASE ~(Len(rx) < RxDepth)
    BY <1>0, <1>00, <1>1, <2>1, <2>3, AByteArrives DEF Arrives
  <2>4. QED BY <2>2, <2>3
<1>2. CASE ThreadRx
  <2> DEFINE n == IF Len(rx) < BufSize THEN Len(rx) ELSE BufSize
  <2>1. n \in 0..Len(rx)
    BY <1>0, LenProperties, UartSizes
  <2>2. /\ rx' = SubSeq(rx, n + 1, Len(rx)) /\ thread.pc = "rx" /\ UNCHANGED <<got, lost, refused, arrived>>
        /\ thread' = [thread EXCEPT !.buf = SubSeq(rx, 1, n), !.pc = IF n > 0 THEN "look" ELSE "tx"]
    BY <1>2 DEF ThreadRx, core
  <2> HIDE DEF n
  <2>3. thread'.buf = SubSeq(rx, 1, n) /\ thread.buf = <<>>
    BY <1>0, <2>2 DEF Inv, Holds
  <2>4. QED BY <1>0, <1>00, <2>1, <2>2, <2>3, Taken
<1>3. CASE ThreadDeliver
  <2>1. thread'.buf = <<>> /\ UNCHANGED <<rx, arrived>>
    BY <1>0, <1>3 DEF ThreadDeliver, hardware
  <2>2. CASE ldisc
    <3> DEFINE a == Accepted(thread.buf)
               z == Left(thread.buf)
    <3>1. Receives(thread.buf) /\ Types
      BY <1>3, <2>2 DEF ThreadDeliver, Inv
    <3>2. /\ got' = got \o a /\ lost' = lost \cup Bytes(z) /\ refused' = refused \cup Bytes(z)
          /\ a \in Seq(Nat) /\ z \in Seq(Nat) /\ a \o z = thread.buf
          /\ unread' \in 0..LdiscSize /\ unread' <= Len(got') /\ (Bytes(z) # {} => unread' = LdiscSize)
      BY <1>0, <3>1, WhatIsReceived
    <3> HIDE DEF a, z
    <3>3. /\ Accounted(got \o a, <<>>, rx, lost \cup Bytes(z), arrived)
          /\ \A x \in Bytes(z), y \in Bytes(got \o a) : y < x
      <4>1. Accounted(got, a \o z, rx, lost, arrived)
        BY <1>0, <3>2
      <4>2. got \in Seq(Nat) /\ rx \in Seq(Nat) /\ a \in Seq(Nat) /\ z \in Seq(Nat)
        BY <1>0, <3>2
      <4>3. QED BY <4>1, <4>2, HandedOver
    <3>4. Bytes(z) # {} => LdiscSize <= Len(got \o a)
      BY <3>2
    <3>5. Behind(got \o a, refused \cup Bytes(z))
      BY <1>0, <3>2, <3>3, <3>4, StaysBehind
    <3>6. QED BY <1>00, <2>1, <3>2, <3>3, <3>5
  <2>3. CASE ~ldisc
    <3>1. lost' = lost \cup Bytes(thread.buf) /\ UNCHANGED <<got, refused>>
      BY <1>3, <2>3 DEF ThreadDeliver
    <3>2. QED BY <1>0, <1>00, <2>1, <3>1, Dropped
  <2>4. QED BY <2>2, <2>3
<1>4. CASE ThreadLook
  <2>1. tty
    BY <1>4 DEF ThreadLook, Inv, Belongs
  <2>2. thread'.buf = thread.buf /\ UNCHANGED <<rx, arrived, got, lost, refused>>
    BY <1>0, <1>4, <2>1 DEF ThreadLook, hardware
  <2>3. QED BY <1>0, <1>00, <2>2
<1>5. CASE ThreadTop \/ ThreadTx \/ ThreadWakes \/ Shutdown
  <2>1. thread'.buf = thread.buf
    BY <1>0, <1>5 DEF ThreadTop, ThreadTx, ThreadWakes, Shutdown
  <2>2. UNCHANGED <<rx, arrived, got, lost, refused>>
    BY <1>5 DEF ThreadTop, ThreadTx, ThreadWakes, Shutdown, hardware, core
  <2>3. QED BY <1>0, <1>00, <2>1, <2>2
<1>6. CASE StartupEnds
  <2>1. thread.buf = <<>>
    BY <1>6 DEF StartupEnds, Inv, Belongs, Holds
  <2>2. thread'.buf = <<>>
    <3>1. PICK made \in BOOLEAN : thread' = IF made THEN [NewThread EXCEPT !.pc = "top"] ELSE NewThread
      BY <1>6 DEF StartupEnds
    <3>2. QED BY <3>1 DEF NewThread
  <2>3. UNCHANGED <<rx, arrived, got, lost, refused>>
    BY <1>6 DEF StartupEnds, core
  <2>4. QED BY <1>0, <1>00, <2>1, <2>2, <2>3
<1>7. CASE ShutdownEnds
  <2>1. thread.buf = <<>>
    BY <1>7 DEF ShutdownEnds, Inv, Belongs, Holds
  <2>2. thread'.buf = <<>> /\ UNCHANGED <<rx, arrived, got, lost, refused>>
    BY <1>7 DEF ShutdownEnds, NewThread, hardware
  <2>3. QED BY <1>0, <1>00, <2>1, <2>2
<1>8. CASE Probe \/ Remove \/ StartupEnters \/ Shifts \/ DbgSees \/ DbgPuts \/ LdiscChanges \/ TtyRead \/ TtyWrite
           \/ ConsoleBegins \/ ConsolePuts \/ UNCHANGED vars
  <2>1. UNCHANGED <<thread, rx, got, lost, refused, arrived>>
    BY <1>8 DEF Probe, Remove, StartupEnters, Shifts, DbgSees, DbgPuts, LdiscChanges, TtyRead, TtyWrite, ConsoleBegins,
                ConsolePuts, vars, hardware, core, driver
  <2>2. QED BY <1>0, <1>00, <2>1
<1>9. QED
  BY <1>1, <1>2, <1>3, <1>4, <1>5, <1>6, <1>7, <1>8 DEF Next, ThreadSteps, OpenSteps

\* Whatever overruns the FIFO, closes the port, fills the line discipline or takes it away, a
\* received byte is handed over once and in order, or is known to be lost to one of the three:
\* a full FIFO, no line discipline, or a full one (neorv32_poll_thread ignores how much
\* tty_ldisc_receive_buf took), and the last only behind a buffer full of bytes handed over.
THEOREM ReceivedIsAccounted == Spec => []RxAccounted
<1>1. Init => RxAccounted
  <2>1. SUFFICES ASSUME Init PROVE RxAccounted
    OBVIOUS
  <2>2. got = <<>> /\ thread.buf = <<>> /\ rx = <<>> /\ lost = {} /\ refused = {} /\ arrived = 0
    BY <2>1 DEF Init, NewThread
  <2>3. <<>> \o <<>> \o <<>> = <<>>
    BY EmptySeq, ConcatEmptySeq
  <2>4. 1..0 = {}
    OBVIOUS
  <2>5. QED BY <2>2, <2>3, <2>4, BytesOfNone DEF RxAccounted
<1>2. QED BY <1>1, Starts, Kept, AccountKept, PTL DEF Spec

-----------------------------------------------------------------------------
(* What is sent.                                                             *)
\* The bytes, by who wrote them, and the types that the proofs about sending need.
Char == [from : {"tty", "con", "dbg"}, nr : Nat, end : BOOLEAN]
TtyChar == [from : {"tty"}, nr : Nat, end : {TRUE}]
ConChar == [from : {"con"}, nr : Nat, end : BOOLEAN]
SendTypes ==
    /\ tx \in Seq(Char) /\ Len(tx) <= TxDepth /\ xmit \in Seq(TtyChar) /\ con \in Seq(ConChar)
    /\ wire \in [sent : [{"tty", "con"} -> SUBSET Nat], last : Char] /\ wire.last.from # "dbg"
    /\ written \in Nat /\ lines \in Nat /\ opens \in Nat

\* The order of the bytes someone has in a sequence.
Ordered(seq, who) == \A i, j \in From(seq, who) : i < j => seq[i].nr < seq[j].nr

\* A concatenation, place by place.
LEMMA Places2 ==
    ASSUME NEW a \in Seq(Char), NEW b \in Seq(Char)
    PROVE  /\ Len(a) \in Nat /\ DOMAIN a = 1..Len(a)
           /\ Len(b) \in Nat /\ DOMAIN b = 1..Len(b)
           /\ a \o b \in Seq(Char) /\ DOMAIN (a \o b) = 1 .. Len(a) + Len(b)
           /\ \A i \in 1..Len(a) : (a \o b)[i] = a[i]
           /\ \A i \in 1..Len(b) : (a \o b)[Len(a) + i] = b[i]
           /\ \A i \in 1 .. Len(a) + Len(b) : i > Len(a) => i - Len(a) \in 1..Len(b) /\ (a \o b)[i] = b[i - Len(a)]
<1>1. /\ Len(a) \in Nat /\ DOMAIN a = 1..Len(a)
      /\ Len(b) \in Nat /\ DOMAIN b = 1..Len(b)
  BY LenProperties
<1>2. /\ a \o b \in Seq(Char) /\ Len(a \o b) = Len(a) + Len(b)
      /\ \A i \in 1 .. Len(a) + Len(b) : (a \o b)[i] = IF i <= Len(a) THEN a[i] ELSE b[i - Len(a)]
  BY ConcatProperties
<1>3. DOMAIN (a \o b) = 1 .. Len(a) + Len(b)
  BY <1>2, LenProperties
<1>4. \A i \in 1..Len(b) : Len(a) + i \in 1 .. Len(a) + Len(b) /\ ~(Len(a) + i <= Len(a)) /\ Len(a) + i - Len(a) = i
  BY <1>1
<1>5. \A i \in 1..Len(b) : (a \o b)[Len(a) + i] = b[i]
  <2>1. SUFFICES ASSUME NEW i \in 1..Len(b) PROVE (a \o b)[Len(a) + i] = b[i]
    OBVIOUS
  <2>2. (a \o b)[Len(a) + i] = b[Len(a) + i - Len(a)]
    BY <1>2, <1>4
  <2>3. QED BY <1>4, <2>2
<1>6. \A i \in 1..Len(a) : (a \o b)[i] = a[i]
  BY <1>1, <1>2
<1>7. \A i \in 1 .. Len(a) + Len(b) : i > Len(a) => i - Len(a) \in 1..Len(b) /\ (a \o b)[i] = b[i - Len(a)]
  BY <1>1, <1>2
<1>8. QED BY <1>1, <1>2, <1>3, <1>5, <1>6, <1>7

\* Its bytes are those of both parts.
LEMMA NrsOfConcat ==
    ASSUME NEW a \in Seq(Char), NEW b \in Seq(Char), NEW who
    PROVE  Nrs(a \o b, who) = Nrs(a, who) \cup Nrs(b, who)
<1>1. ASSUME NEW x \in Nrs(a \o b, who) PROVE x \in Nrs(a, who) \cup Nrs(b, who)
  <2>1. PICK i \in DOMAIN (a \o b) : (a \o b)[i].from = who /\ x = (a \o b)[i].nr
    BY <1>1 DEF Nrs, From
  <2>2. CASE i <= Len(a)
    <3>1. i \in DOMAIN a /\ (a \o b)[i] = a[i]
      BY <2>1, <2>2, Places2
    <3>2. QED BY <2>1, <3>1 DEF Nrs, From
  <2>3. CASE i > Len(a)
    <3>1. i - Len(a) \in DOMAIN b /\ (a \o b)[i] = b[i - Len(a)]
      BY <2>1, <2>3, Places2
    <3>2. QED BY <2>1, <3>1 DEF Nrs, From
  <2>4. QED BY <2>1, <2>2, <2>3, Places2
<1>2. ASSUME NEW x \in Nrs(a, who) PROVE x \in Nrs(a \o b, who)
  <2>1. PICK i \in DOMAIN a : a[i].from = who /\ x = a[i].nr
    BY <1>2 DEF Nrs, From
  <2>2. i \in DOMAIN (a \o b) /\ (a \o b)[i] = a[i]
    BY Places2
  <2>3. QED BY <2>1, <2>2 DEF Nrs, From
<1>3. ASSUME NEW x \in Nrs(b, who) PROVE x \in Nrs(a \o b, who)
  <2>1. PICK i \in DOMAIN b : b[i].from = who /\ x = b[i].nr
    BY <1>3 DEF Nrs, From
  <2>2. Len(a) + i \in DOMAIN (a \o b) /\ (a \o b)[Len(a) + i] = b[i]
    BY Places2
  <2>3. QED BY <2>1, <2>2 DEF Nrs, From
<1>4. QED BY <1>1, <1>2, <1>3

\* It is in order when both parts are and the first lies below the second.
LEMMA OrderOfConcat ==
    ASSUME NEW a \in Seq(Char), NEW b \in Seq(Char), NEW who
    PROVE  Ordered(a \o b, who) <=>
               Ordered(a, who) /\ Ordered(b, who) /\ \A x \in Nrs(a, who), y \in Nrs(b, who) : x < y
<1> DEFINE s == a \o b
<1>1. /\ Len(a) \in Nat /\ DOMAIN a = 1..Len(a) /\ Len(b) \in Nat /\ DOMAIN b = 1..Len(b)
      /\ DOMAIN s = 1 .. Len(a) + Len(b)
      /\ \A i \in 1..Len(a) : s[i] = a[i]
      /\ \A i \in 1..Len(b) : s[Len(a) + i] = b[i]
      /\ \A i \in 1 .. Len(a) + Len(b) : i > Len(a) => i - Len(a) \in 1..Len(b) /\ s[i] = b[i - Len(a)]
  BY Places2
<1> HIDE DEF s
<1>2. ASSUME Ordered(s, who) PROVE Ordered(a, who)
  <2>1. SUFFICES ASSUME NEW i \in From(a, who), NEW j \in From(a, who), i < j PROVE a[i].nr < a[j].nr
    BY DEF Ordered
  <2>2. i \in 1..Len(a) /\ j \in 1..Len(a) /\ a[i].from = who /\ a[j].from = who
    BY <1>1, <2>1 DEF From
  <2>3. i \in From(s, who) /\ j \in From(s, who) /\ s[i] = a[i] /\ s[j] = a[j]
    BY <1>1, <2>2 DEF From
  <2>4. QED BY <1>2, <2>1, <2>3 DEF Ordered
<1>3. ASSUME Ordered(s, who) PROVE Ordered(b, who)
  <2>1. SUFFICES ASSUME NEW i \in From(b, who), NEW j \in From(b, who), i < j PROVE b[i].nr < b[j].nr
    BY DEF Ordered
  <2>2. i \in 1..Len(b) /\ j \in 1..Len(b) /\ b[i].from = who /\ b[j].from = who
    BY <1>1, <2>1 DEF From
  <2>3. Len(a) + i \in 1 .. Len(a) + Len(b) /\ Len(a) + j \in 1 .. Len(a) + Len(b) /\ Len(a) + i < Len(a) + j
    BY <1>1, <2>1, <2>2
  <2>4. s[Len(a) + i] = b[i] /\ s[Len(a) + j] = b[j]
    BY <1>1, <2>2
  <2>5. Len(a) + i \in From(s, who) /\ Len(a) + j \in From(s, who)
    BY <1>1, <2>2, <2>3, <2>4 DEF From
  <2>6. QED BY <1>3, <2>3, <2>4, <2>5 DEF Ordered
<1>4. ASSUME Ordered(s, who), NEW x \in Nrs(a, who), NEW y \in Nrs(b, who) PROVE x < y
  <2>1. PICK i \in 1..Len(a) : a[i].from = who /\ x = a[i].nr
    BY <1>1, <1>4 DEF Nrs, From
  <2>2. PICK j \in 1..Len(b) : b[j].from = who /\ y = b[j].nr
    BY <1>1, <1>4 DEF Nrs, From
  <2>3. i \in 1 .. Len(a) + Len(b) /\ Len(a) + j \in 1 .. Len(a) + Len(b) /\ i < Len(a) + j
    BY <1>1
  <2>4. s[i] = a[i] /\ s[Len(a) + j] = b[j]
    BY <1>1
  <2>5. i \in From(s, who) /\ Len(a) + j \in From(s, who)
    BY <1>1, <2>1, <2>2, <2>3, <2>4 DEF From
  <2>6. QED BY <1>4, <2>1, <2>2, <2>3, <2>4, <2>5 DEF Ordered
<1>5. ASSUME Ordered(a, who), Ordered(b, who), \A x \in Nrs(a, who), y \in Nrs(b, who) : x < y
      PROVE  Ordered(s, who)
  <2>1. SUFFICES ASSUME NEW i \in From(s, who), NEW j \in From(s, who), i < j PROVE s[i].nr < s[j].nr
    BY DEF Ordered
  <2>2. i \in 1 .. Len(a) + Len(b) /\ j \in 1 .. Len(a) + Len(b) /\ s[i].from = who /\ s[j].from = who
    BY <1>1, <2>1 DEF From
  <2>3. CASE j <= Len(a)
    <3>1. i \in 1..Len(a) /\ j \in 1..Len(a)
      BY <1>1, <2>1, <2>2, <2>3
    <3>2. i \in From(a, who) /\ j \in From(a, who) /\ s[i] = a[i] /\ s[j] = a[j]
      BY <1>1, <2>2, <3>1 DEF From
    <3>3. QED BY <1>5, <2>1, <3>2 DEF Ordered
  <2>4. CASE i > Len(a)
    <3>1. j > Len(a) /\ i - Len(a) < j - Len(a)
      BY <1>1, <2>1, <2>2, <2>4
    <3>2. /\ i - Len(a) \in From(b, who) /\ j - Len(a) \in From(b, who)
          /\ s[i] = b[i - Len(a)] /\ s[j] = b[j - Len(a)]
      BY <1>1, <2>2, <2>4, <3>1 DEF From
    <3>3. QED BY <1>5, <3>1, <3>2 DEF Ordered
  <2>5. CASE i <= Len(a) /\ j > Len(a)
    <3>1. i \in 1..Len(a) /\ s[i] = a[i] /\ j - Len(a) \in 1..Len(b) /\ s[j] = b[j - Len(a)]
      BY <1>1, <2>2, <2>5
    <3>2. s[i].nr \in Nrs(a, who) /\ s[j].nr \in Nrs(b, who)
      BY <1>1, <2>2, <3>1 DEF Nrs, From
    <3>3. QED BY <1>5, <3>2
  <2>6. QED BY <1>1, <2>1, <2>2, <2>3, <2>4, <2>5
<1>6. QED BY <1>2, <1>3, <1>4, <1>5 DEF s

\* Flows of a concatenation, part by part.
LEMMA FlowsInParts ==
    ASSUME NEW a \in Seq(Char), NEW b \in Seq(Char), NEW who, NEW n, NEW sent, NEW gone
    PROVE  Flows(n, sent, a \o b, who, gone) <=>
               /\ Ordered(a, who) /\ Ordered(b, who)
               /\ \A x \in Nrs(a, who), y \in Nrs(b, who) : x < y
               /\ \A x \in sent, y \in Nrs(a, who) \cup Nrs(b, who) : x < y
               /\ (sent \cup Nrs(a, who) \cup Nrs(b, who)) \cap gone = {}
               /\ sent \cup Nrs(a, who) \cup Nrs(b, who) \cup gone = 1..n
<1>1. Flows(n, sent, a \o b, who, gone) <=>
          /\ Ordered(a \o b, who)
          /\ \A x \in sent, y \in Nrs(a \o b, who) : x < y
          /\ (sent \cup Nrs(a \o b, who)) \cap gone = {}
          /\ sent \cup Nrs(a \o b, who) \cup gone = 1..n
  BY DEF Flows, Ordered
<1>2. Nrs(a \o b, who) = Nrs(a, who) \cup Nrs(b, who)
  BY NrsOfConcat
<1>3. QED BY <1>1, <1>2, OrderOfConcat

\* A sequence with nothing of somebody.
LEMMA NothingOf ==
    ASSUME NEW p, NEW who, \A i \in DOMAIN p : p[i].from # who
    PROVE  Nrs(p, who) = {} /\ Ordered(p, who)
BY DEF Nrs, From, Ordered

\* One byte alone.
LEMMA OneOf ==
    ASSUME NEW c \in Char
    PROVE  /\ <<c>> \in Seq(Char) /\ DOMAIN <<c>> = {1} /\ <<c>>[1] = c
           /\ \A who : Ordered(<<c>>, who) /\ Nrs(<<c>>, who) = IF c.from = who THEN {c.nr} ELSE {}
<1>1. <<c>> \in Seq(Char) /\ DOMAIN <<c>> = {1} /\ <<c>>[1] = c
  OBVIOUS
<1>2. ASSUME NEW who PROVE Ordered(<<c>>, who) /\ Nrs(<<c>>, who) = IF c.from = who THEN {c.nr} ELSE {}
  <2>1. From(<<c>>, who) = IF c.from = who THEN {1} ELSE {}
    BY <1>1 DEF From
  <2>2. Ordered(<<c>>, who)
    <3>1. \A i, j \in From(<<c>>, who) : ~(i < j)
      BY <2>1
    <3>2. QED BY <3>1 DEF Ordered
  <2>3. Nrs(<<c>>, who) = IF c.from = who THEN {c.nr} ELSE {}
    BY <1>1, <2>1 DEF Nrs
  <2>4. QED BY <2>2, <2>3
<1>3. QED BY <1>1, <1>2

\* Bytes of others in between change nothing.
LEMMA Insert ==
    ASSUME NEW a \in Seq(Char), NEW p \in Seq(Char), NEW b \in Seq(Char), NEW who, NEW n, NEW sent, NEW gone,
           \A i \in DOMAIN p : p[i].from # who, Flows(n, sent, a \o b, who, gone)
    PROVE  Flows(n, sent, (a \o p) \o b, who, gone)
<1>1. Nrs(p, who) = {} /\ Ordered(p, who)
  BY NothingOf
<1>2. a \o p \in Seq(Char)
  BY Places2
<1>3. Nrs(a \o p, who) = Nrs(a, who)
  <2>1. Nrs(a \o p, who) = Nrs(a, who) \cup Nrs(p, who)
    BY NrsOfConcat
  <2>2. Nrs(p, who) = {}
    BY <1>1
  <2>3. QED BY <2>1, <2>2
<1>4. Ordered(a, who) => Ordered(a \o p, who)
  <2>1. \A x \in Nrs(a, who), y \in Nrs(p, who) : x < y
    BY <1>1
  <2>2. QED BY <1>1, <2>1, OrderOfConcat, Zenon
<1>5. /\ Ordered(a, who) /\ Ordered(b, who)
      /\ \A x \in Nrs(a, who), y \in Nrs(b, who) : x < y
      /\ \A x \in sent, y \in Nrs(a, who) \cup Nrs(b, who) : x < y
      /\ (sent \cup Nrs(a, who) \cup Nrs(b, who)) \cap gone = {}
      /\ sent \cup Nrs(a, who) \cup Nrs(b, who) \cup gone = 1..n
  BY FlowsInParts
<1>6. /\ Ordered(a \o p, who) /\ Ordered(b, who)
      /\ \A x \in Nrs(a \o p, who), y \in Nrs(b, who) : x < y
      /\ \A x \in sent, y \in Nrs(a \o p, who) \cup Nrs(b, who) : x < y
      /\ (sent \cup Nrs(a \o p, who) \cup Nrs(b, who)) \cap gone = {}
      /\ sent \cup Nrs(a \o p, who) \cup Nrs(b, who) \cup gone = 1..n
  BY <1>3, <1>4, <1>5
<1>7. QED BY <1>2, <1>6, FlowsInParts

\* The next bytes of somebody come last.
LEMMA NewBytes ==
    ASSUME NEW s \in Seq(Char), NEW p \in Seq(Char), NEW who, NEW n \in Nat, NEW sent, NEW gone,
           \A i \in DOMAIN p : p[i].from = who /\ p[i].nr = n + i, Flows(n, sent, s, who, gone)
    PROVE  Flows(n + Len(p), sent, s \o p, who, gone)
<1>1. Len(p) \in Nat /\ DOMAIN p = 1..Len(p)
  BY Places2
<1>2. From(p, who) = 1..Len(p)
  BY <1>1 DEF From
<1>3. Nrs(p, who) = n + 1 .. n + Len(p)
  <2>1. ASSUME NEW x \in n + 1 .. n + Len(p) PROVE x \in Nrs(p, who)
    <3>1. x - n \in 1..Len(p) /\ n + (x - n) = x
      BY <1>1
    <3>2. p[x - n].nr = x
      BY <1>1, <3>1
    <3>3. QED BY <1>2, <3>1, <3>2 DEF Nrs
  <2>2. ASSUME NEW x \in Nrs(p, who) PROVE x \in n + 1 .. n + Len(p)
    <3>1. PICK i \in 1..Len(p) : x = p[i].nr
      BY <1>2 DEF Nrs
    <3>2. QED BY <1>1, <3>1
  <2>3. QED BY <2>1, <2>2
<1>4. Ordered(p, who)
  <2>1. \A i, j \in 1..Len(p) : i < j => n + i < n + j
    BY <1>1
  <2>2. QED BY <1>1, <1>2, <2>1 DEF Ordered
<1>5. /\ Ordered(s, who) /\ \A x \in sent, y \in Nrs(s, who) : x < y
      /\ (sent \cup Nrs(s, who)) \cap gone = {} /\ sent \cup Nrs(s, who) \cup gone = 1..n
  BY DEF Flows, Ordered
<1>6. /\ \A x \in 1..n, y \in n + 1 .. n + Len(p) : x < y /\ x # y
      /\ (1..n) \cup (n + 1 .. n + Len(p)) = 1 .. n + Len(p)
  BY <1>1
<1>7. sent \subseteq 1..n /\ Nrs(s, who) \subseteq 1..n /\ gone \subseteq 1..n
  BY <1>5
<1>8. \A x \in Nrs(s, who), y \in Nrs(p, who) : x < y
  BY <1>3, <1>6, <1>7
<1>9. \A x \in sent, y \in Nrs(s, who) \cup Nrs(p, who) : x < y
  BY <1>3, <1>5, <1>6, <1>7
<1>10. (sent \cup Nrs(s, who) \cup Nrs(p, who)) \cap gone = {}
  BY <1>3, <1>5, <1>6, <1>7
<1>11. sent \cup Nrs(s, who) \cup Nrs(p, who) \cup gone = 1 .. n + Len(p)
  BY <1>3, <1>5, <1>6
<1>12. QED BY <1>4, <1>5, <1>8, <1>9, <1>10, <1>11, FlowsInParts

\* The first byte leaves.
LEMMA Leaves ==
    ASSUME NEW c \in Char, NEW r \in Seq(Char), NEW who, NEW n, NEW sent, NEW gone, Flows(n, sent, <<c>> \o r, who, gone)
    PROVE  Flows(n, IF c.from = who THEN sent \cup {c.nr} ELSE sent, r, who, gone)
<1> DEFINE a == <<c>>
<1>0. a \in Seq(Char) /\ Flows(n, sent, a \o r, who, gone)
  BY OneOf
<1>1. Nrs(a, who) = IF c.from = who THEN {c.nr} ELSE {}
  BY OneOf
<1> HIDE DEF a
<1>2. /\ Ordered(r, who)
      /\ \A x \in Nrs(a, who), y \in Nrs(r, who) : x < y
      /\ \A x \in sent, y \in Nrs(a, who) \cup Nrs(r, who) : x < y
      /\ (sent \cup Nrs(a, who) \cup Nrs(r, who)) \cap gone = {}
      /\ sent \cup Nrs(a, who) \cup Nrs(r, who) \cup gone = 1..n
  BY <1>0, FlowsInParts
<1>3. (IF c.from = who THEN sent \cup {c.nr} ELSE sent) = sent \cup Nrs(a, who)
  <2>1. CASE c.from = who
    BY <1>1, <2>1
  <2>2. CASE c.from # who
    <3>1. Nrs(a, who) = {}
      BY <1>1, <2>2
    <3>2. QED BY <2>2, <3>1
  <2>3. QED BY <2>1, <2>2
<1>4. Flows(n, sent \cup Nrs(a, who), r, who, gone)
  BY <1>2 DEF Flows, Ordered
<1>5. QED BY <1>3, <1>4

\* What was to follow is discarded.
LEMMA Discarded ==
    ASSUME NEW a \in Seq(Char), NEW b \in Seq(Char), NEW who, NEW n, NEW sent, NEW gone, Flows(n, sent, a \o b, who, gone)
    PROVE  Flows(n, sent, a, who, gone \cup Nrs(b, who))
<1>1. /\ Ordered(a, who)
      /\ \A x \in Nrs(a, who), y \in Nrs(b, who) : x < y
      /\ \A x \in sent, y \in Nrs(a, who) \cup Nrs(b, who) : x < y
      /\ (sent \cup Nrs(a, who) \cup Nrs(b, who)) \cap gone = {}
      /\ sent \cup Nrs(a, who) \cup Nrs(b, who) \cup gone = 1..n
  BY FlowsInParts
<1>2. \A x \in 1..n : ~(x < x)
  OBVIOUS
<1>3. Nrs(b, who) \subseteq 1..n
  BY <1>1
<1>4. (sent \cup Nrs(a, who)) \cap Nrs(b, who) = {}
  BY <1>1, <1>2, <1>3
<1>5. QED BY <1>1, <1>4 DEF Flows, Ordered

\* The same of what is sent.
LEMMA Assoc == \A a, b, c \in Seq(Char) : (a \o b) \o c = a \o (b \o c)
  BY Associative

\* The first of a sequence and the rest.
LEMMA HeadAndTail ==
    ASSUME NEW T, NEW s \in Seq(T), s # <<>>
    PROVE  Head(s) \in T /\ Tail(s) \in Seq(T) /\ s = <<Head(s)>> \o Tail(s) /\ Len(s) = Len(Tail(s)) + 1
<1>1. Head(s) \in T /\ Tail(s) \in Seq(T) /\ Len(Tail(s)) = Len(s) - 1 /\ Len(s) \in Nat
  BY HeadTailProperties, LenProperties
<1>2. \A i \in 1..Len(Tail(s)) : Tail(s)[i] = s[i + 1]
  BY HeadTailProperties
<1>3. <<Head(s)>> \in Seq(T) /\ Len(<<Head(s)>>) = 1 /\ <<Head(s)>>[1] = s[1]
  BY <1>1 
<1>4. <<Head(s)>> \o Tail(s) \in Seq(T) /\ Len(<<Head(s)>> \o Tail(s)) = 1 + Len(Tail(s))
      /\ \A i \in 1 .. 1 + Len(Tail(s)) : (<<Head(s)>> \o Tail(s))[i] = IF i <= 1 THEN <<Head(s)>>[i] ELSE Tail(s)[i - 1]
  BY <1>1, <1>3, ConcatProperties
<1>5. \A i \in 1..Len(s) : s[i] = (<<Head(s)>> \o Tail(s))[i]
  BY <1>1, <1>2, <1>3, <1>4
<1>6. s = <<Head(s)>> \o Tail(s)
  BY <1>1, <1>4, <1>5, SeqEqual
<1>7. QED BY <1>1, <1>6

\* A sequence of bytes of one source is a sequence of bytes.
LEMMA CharsOf ==
    /\ Seq(TtyChar) \subseteq Seq(Char) /\ Seq(ConChar) \subseteq Seq(Char)
    /\ \A s \in Seq(TtyChar) : \A i \in DOMAIN s : s[i].from = "tty" /\ s[i].end
    /\ \A s \in Seq(ConChar) : \A i \in DOMAIN s : s[i].from = "con"
<1>1. TtyChar \subseteq Char /\ ConChar \subseteq Char
  BY DEF TtyChar, ConChar, Char
<1>2. Seq(TtyChar) \subseteq Seq(Char) /\ Seq(ConChar) \subseteq Seq(Char)
  BY <1>1, SeqMonotonic
<1>3. ASSUME NEW s \in Seq(TtyChar), NEW i \in DOMAIN s PROVE s[i].from = "tty" /\ s[i].end
  <2>1. s[i] \in TtyChar
    BY ElementOfSeq, LenProperties
  <2>2. QED BY <2>1, Zenon DEF TtyChar
<1>4. ASSUME NEW s \in Seq(ConChar), NEW i \in DOMAIN s PROVE s[i].from = "con"
  <2>1. s[i] \in ConChar
    BY ElementOfSeq, LenProperties
  <2>2. QED BY <2>1 DEF ConChar
<1>5. QED BY <1>2, <1>3, <1>4

\* neorv32_tx_chars moves the first bytes of the buffer to the end of the FIFO, as many as fit.
LEMMA TxCharsMoves ==
    ASSUME NEW fifo \in Seq(Char), Len(fifo) <= TxDepth, NEW buf \in Seq(TtyChar)
    PROVE  \E p \in Seq(TtyChar) :
               /\ TxChars(fifo, buf).tx = fifo \o p /\ TxChars(fifo, buf).xmit \in Seq(TtyChar)
               /\ p \o TxChars(fifo, buf).xmit = buf /\ fifo \o p \in Seq(Char) /\ Len(fifo \o p) <= TxDepth
<1> DEFINE room == TxDepth - Len(fifo)
           n == IF Len(buf) < room THEN Len(buf) ELSE room
           p == SubSeq(buf, 1, n)
           z == SubSeq(buf, n + 1, Len(buf))
<1>1. TxChars(fifo, buf) = [tx |-> fifo \o p, xmit |-> z]
  BY DEF TxChars
<1>2. Len(buf) \in Nat /\ Len(fifo) \in Nat /\ TxDepth \in Nat
  BY LenProperties, UartSizes
<1>3. n \in 0..Len(buf) /\ Len(fifo) + n <= TxDepth
  BY <1>2
<1> HIDE DEF n
<1>4. p \in Seq(TtyChar) /\ z \in Seq(TtyChar) /\ Len(p) = n /\ p \o z = buf
  BY <1>3, Cut
<1> HIDE DEF p, z
<1>5. p \in Seq(Char)
  BY <1>4, CharsOf
<1>6. fifo \o p \in Seq(Char) /\ Len(fifo \o p) = Len(fifo) + Len(p)
  BY <1>5, ConcatProperties
<1>7. Len(fifo \o p) <= TxDepth
  BY <1>3, <1>4, <1>6
<1>8. TxChars(fifo, buf).tx = fifo \o p /\ TxChars(fifo, buf).xmit = z
  BY <1>1
<1>9. QED BY <1>4, <1>6, <1>7, <1>8

\* What the two steps that call it leave.
LEMMA ThreadTxIs ==
    ASSUME SendTypes, ThreadTx
    PROVE  /\ con = <<>>
           /\ \E p \in Seq(TtyChar) : /\ tx' = tx \o p /\ xmit' \in Seq(TtyChar) /\ xmit = p \o xmit'
                                      /\ tx' \in Seq(Char) /\ Len(tx') <= TxDepth
<1>1. con = <<>> /\ tx' = TxChars(tx, xmit).tx /\ xmit' = TxChars(tx, xmit).xmit
  BY DEF ThreadTx, Locked
<1>2. tx \in Seq(Char) /\ Len(tx) <= TxDepth /\ xmit \in Seq(TtyChar)
  BY DEF SendTypes
<1>3. PICK p \in Seq(TtyChar) :
               /\ TxChars(tx, xmit).tx = tx \o p /\ TxChars(tx, xmit).xmit \in Seq(TtyChar)
               /\ p \o TxChars(tx, xmit).xmit = xmit /\ tx \o p \in Seq(Char) /\ Len(tx \o p) <= TxDepth
  BY <1>2, TxCharsMoves, Zenon
<1>4. tx' = tx \o p /\ xmit' \in Seq(TtyChar) /\ xmit = p \o xmit' /\ tx' \in Seq(Char) /\ Len(tx') <= TxDepth
  BY <1>1, <1>3, Zenon
<1>5. QED BY <1>1, <1>4

\* ... with the byte that a program has written.
LEMMA TtyWriteIs ==
    ASSUME SendTypes, TtyWrite
    PROVE  /\ con = <<>>
           /\ \E c \in TtyChar, p \in Seq(TtyChar) :
                 /\ c.nr = written + 1 /\ tx' = tx \o p /\ xmit' \in Seq(TtyChar) /\ xmit \o <<c>> = p \o xmit'
                 /\ tx' \in Seq(Char) /\ Len(tx') <= TxDepth
<1> DEFINE c == [from |-> "tty", nr |-> written + 1, end |-> TRUE]
           buf == Append(xmit, c)
<1>1. con = <<>> /\ tx' = TxChars(tx, buf).tx /\ xmit' = TxChars(tx, buf).xmit
  BY DEF TtyWrite, Locked
<1>2. tx \in Seq(Char) /\ Len(tx) <= TxDepth /\ xmit \in Seq(TtyChar) /\ written + 1 \in Nat
  BY DEF SendTypes
<1>3. c \in TtyChar /\ c.nr = written + 1
  BY <1>2, Zenon DEF TtyChar
<1> HIDE DEF c
<1>4. buf \in Seq(TtyChar) /\ buf = xmit \o <<c>>
  BY <1>2, <1>3, AppendProperties, AppendIsConcat
<1> HIDE DEF buf
<1>9. buf \in Seq(TtyChar) /\ tx \in Seq(Char) /\ Len(tx) <= TxDepth
  BY <1>2, <1>4
<1>5. PICK p \in Seq(TtyChar) :
               /\ TxChars(tx, buf).tx = tx \o p /\ TxChars(tx, buf).xmit \in Seq(TtyChar)
               /\ p \o TxChars(tx, buf).xmit = buf /\ tx \o p \in Seq(Char) /\ Len(tx \o p) <= TxDepth
  BY <1>9, TxCharsMoves, Zenon
<1>6. tx' = tx \o p /\ xmit' \in Seq(TtyChar) /\ xmit \o <<c>> = p \o xmit' /\ tx' \in Seq(Char) /\ Len(tx') <= TxDepth
  BY <1>1, <1>4, <1>5, Zenon
<1>7. \E q \in Seq(TtyChar) :
                 /\ c.nr = written + 1 /\ tx' = tx \o q /\ xmit' \in Seq(TtyChar) /\ xmit \o <<c>> = q \o xmit'
                 /\ tx' \in Seq(Char) /\ Len(tx') <= TxDepth
  BY <1>3, <1>5, <1>6, Zenon
<1>8. QED BY <1>1, <1>3, <1>7, Zenon

\* The message that the console starts.
Message(n) == [i \in 1..LineLen |-> [from |-> "con", nr |-> LineLen * n + i, end |-> i = LineLen]]
LEMMA MessageIs ==
    ASSUME NEW n \in Nat
    PROVE  /\ Message(n) \in Seq(ConChar) /\ Len(Message(n)) = LineLen /\ DOMAIN Message(n) = 1..LineLen
           /\ \A i \in 1..LineLen : /\ Message(n)[i].from = "con" /\ Message(n)[i].nr = LineLen * n + i
                                    /\ (Message(n)[i].end <=> i = LineLen)
<1>1. LineLen \in Nat /\ \A i \in 1..LineLen : LineLen * n + i \in Nat
  BY UartSizes
<1>2. ASSUME NEW i \in 1..LineLen
      PROVE  /\ Message(n)[i].from = "con" /\ Message(n)[i].nr = LineLen * n + i
             /\ Message(n)[i].end <=> i = LineLen
             /\ Message(n)[i] \in ConChar
  <2> DEFINE x == LineLen * n + i
             e == (i = LineLen)
  <2>1. Message(n)[i] = [from |-> "con", nr |-> x, end |-> e] /\ x \in Nat /\ e \in BOOLEAN
    BY <1>1 DEF Message
  <2> HIDE DEF x, e
  <2>2. Message(n)[i].from = "con" /\ Message(n)[i].nr = x /\ Message(n)[i].end = e
    <3>1. Message(n)[i] = [from |-> "con", nr |-> x, end |-> e]
      BY <2>1
    <3>2. QED BY <3>1
  <2>4. Message(n)[i] \in ConChar
    <3>1. [from |-> "con", nr |-> x, end |-> e] \in [from : {"con"}, nr : Nat, end : BOOLEAN]
      BY <2>1
    <3>2. QED BY <2>1, <3>1, Zenon DEF ConChar
  <2>3. QED BY <2>2, <2>4 DEF x, e
<1>3. Message(n) \in Seq(ConChar) /\ Len(Message(n)) = LineLen /\ DOMAIN Message(n) = 1..LineLen
  <2>1. Message(n) \in [1..LineLen -> ConChar]
    BY <1>2 DEF Message
  <2>2. QED BY <1>1, <2>1, SeqDef, LenProperties
<1>4. QED BY <1>2, <1>3

\* The steps that send nothing.
Quiet == \/ Arrives \/ ThreadTop \/ ThreadRx \/ ThreadLook \/ ThreadDeliver \/ ThreadWakes
         \/ Probe \/ Remove \/ DbgSees \/ StartupEnters \/ StartupEnds \/ Shutdown \/ LdiscChanges \/ TtyRead
         \/ UNCHANGED vars
LEMMA QuietIs == ASSUME SendTypes, Quiet PROVE UNCHANGED <<tx, wire, xmit, written, shed, con, lines>> /\ opens' \in Nat
<1>1. opens \in Nat
  BY DEF SendTypes
<1>9. CASE Arrives
  BY <1>1, <1>9 DEF Arrives, driver
<1>2. CASE ThreadTop \/ ThreadWakes \/ Probe \/ Remove
  BY <1>1, <1>2 DEF ThreadTop, ThreadWakes, Probe, Remove, hardware, core, driver
<1>5. CASE ThreadRx
  BY <1>1, <1>5 DEF ThreadRx, core
<1>6. CASE ThreadLook
  BY <1>1, <1>6 DEF ThreadLook, hardware
<1>7. CASE ThreadDeliver
  BY <1>1, <1>7 DEF ThreadDeliver, hardware
<1>3. CASE DbgSees \/ StartupEnds \/ Shutdown \/ LdiscChanges \/ TtyRead \/ UNCHANGED vars
  BY <1>1, <1>3 DEF DbgSees, StartupEnds, Shutdown, LdiscChanges, TtyRead, vars, hardware, core, driver
<1>8. CASE StartupEnters
  <2>1. opens' = opens + 1 /\ UNCHANGED <<tx, wire, xmit, written, shed, con, lines>>
    BY <1>8 DEF StartupEnters, hardware
  <2>2. QED BY <1>1, <2>1
<1>4. QED BY <1>2, <1>3, <1>5, <1>6, <1>7, <1>8, <1>9 DEF Quiet

\* What leaves the FIFO: the first byte, which is counted and remembered unless neo_uart_dbg wrote it.
LEMMA ShiftsIs ==
    ASSUME SendTypes, Shifts
    PROVE  /\ Head(tx) \in Char /\ tx' \in Seq(Char) /\ Len(tx') <= TxDepth /\ tx = <<Head(tx)>> \o tx'
           /\ UNCHANGED <<xmit, written, shed, con, lines, opens>>
           /\ \A who \in {"tty", "con"} : wire'.sent[who] = IF Head(tx).from = who THEN wire.sent[who] \cup {Head(tx).nr}
                                                            ELSE wire.sent[who]
           /\ wire'.last = IF Head(tx).from = "dbg" THEN wire.last ELSE Head(tx)
           /\ wire' \in [sent : [{"tty", "con"} -> SUBSET Nat], last : Char] /\ wire'.last.from # "dbg"
<1> DEFINE c == Head(tx)
<1>1. tx \in Seq(Char) /\ tx # <<>> /\ Len(tx) <= TxDepth /\ tx' = Tail(tx)
  BY DEF SendTypes, Shifts
<1>2. c \in Char /\ tx' \in Seq(Char) /\ tx = <<c>> \o tx' /\ Len(tx) = Len(tx') + 1
  BY <1>1, HeadAndTail
<1>3. Len(tx') <= TxDepth
  BY <1>1, <1>2, LenProperties, UartSizes
<1>4. UNCHANGED <<xmit, written, shed, con, lines, opens>>
  BY DEF Shifts, core, driver
<1>5. wire' = IF c.from = "dbg" THEN wire ELSE [wire EXCEPT !.last = c, !.sent[c.from] = @ \cup {c.nr}]
  BY DEF Shifts
<1>6. /\ wire \in [sent : [{"tty", "con"} -> SUBSET Nat], last : Char] /\ wire.last.from # "dbg"
  BY DEF SendTypes
<1>7. c.from \in {"tty", "con", "dbg"} /\ c.nr \in Nat
  BY <1>2 DEF Char
<1> HIDE DEF c
<1>8. CASE c.from = "dbg"
  <2>1. wire' = wire
    BY <1>5, <1>8
  <2>2. \A who \in {"tty", "con"} : wire'.sent[who] = IF c.from = who THEN wire.sent[who] \cup {c.nr} ELSE wire.sent[who]
    BY <1>8, <2>1
  <2>3. QED BY <1>2, <1>3, <1>4, <1>6, <1>8, <2>1, <2>2 DEF c
<1>9. CASE c.from # "dbg"
  <2>1. wire' = [wire EXCEPT !.last = c, !.sent[c.from] = @ \cup {c.nr}] /\ c.from \in {"tty", "con"}
    BY <1>5, <1>7, <1>9
  <2>2. wire.sent \in [{"tty", "con"} -> SUBSET Nat] /\ wire'.last = c
        /\ wire'.sent = [wire.sent EXCEPT ![c.from] = @ \cup {c.nr}]
        /\ wire' = [sent |-> wire'.sent, last |-> wire'.last]
    BY <1>6, <2>1
  <2>3. wire'.sent \in [{"tty", "con"} -> SUBSET Nat]
    <3>1. wire.sent[c.from] \cup {c.nr} \in SUBSET Nat
      BY <1>7, <2>1, <2>2
    <3>2. QED BY <2>1, <2>2, <3>1
  <2>4. wire' \in [sent : [{"tty", "con"} -> SUBSET Nat], last : Char]
    BY <1>2, <2>2, <2>3 DEF c
  <2>5. \A who \in {"tty", "con"} : wire'.sent[who] = IF c.from = who THEN wire.sent[who] \cup {c.nr} ELSE wire.sent[who]
    BY <2>1, <2>2
  <2>6. QED BY <1>2, <1>3, <1>4, <1>9, <2>2, <2>4, <2>5 DEF c
<1>10. QED BY <1>8, <1>9

\* neo_uart_dbg writes a byte of its own, or none when the FIFO has filled up since it looked.
LEMMA DbgPutsIs ==
    ASSUME SendTypes, DbgPuts
    PROVE  /\ \E d \in Char : d.from = "dbg" /\ tx' \in {tx, tx \o <<d>>}
           /\ tx' \in Seq(Char) /\ Len(tx') <= TxDepth
           /\ UNCHANGED <<wire, xmit, written, shed, con, lines, opens>>
<1> DEFINE d == [from |-> "dbg", nr |-> opens, end |-> TRUE]
<1>1. d \in Char /\ d.from = "dbg" /\ tx \in Seq(Char) /\ Len(tx) <= TxDepth /\ Len(tx) \in Nat /\ TxDepth \in Nat
  BY LenProperties, UartSizes DEF SendTypes, Char
<1>2. tx' = IF Len(tx) < TxDepth THEN Append(tx, d) ELSE tx
  BY DEF DbgPuts, Put
<1> HIDE DEF d
<1>3. Append(tx, d) = tx \o <<d>> /\ Append(tx, d) \in Seq(Char) /\ Len(Append(tx, d)) = Len(tx) + 1
  BY <1>1, AppendProperties, AppendIsConcat
<1>4. tx' \in {tx, tx \o <<d>>} /\ tx' \in Seq(Char) /\ Len(tx') <= TxDepth
  <2>1. CASE Len(tx) < TxDepth
    BY <1>1, <1>2, <1>3, <2>1
  <2>2. CASE ~(Len(tx) < TxDepth)
    BY <1>1, <1>2, <2>2
  <2>3. QED BY <2>1, <2>2
<1>5. UNCHANGED <<wire, xmit, written, shed, con, lines, opens>>
  BY DEF DbgPuts, core
<1>6. QED BY <1>1, <1>4, <1>5, Zenon

\* The console moves the first byte of its message to the end of the FIFO.
LEMMA ConsolePutsIs ==
    ASSUME SendTypes, ConsolePuts
    PROVE  /\ Head(con) \in ConChar /\ con' \in Seq(ConChar) /\ con = <<Head(con)>> \o con'
           /\ tx' = tx \o <<Head(con)>> /\ tx' \in Seq(Char) /\ Len(tx') <= TxDepth
           /\ UNCHANGED <<wire, xmit, written, shed, lines, opens>>
<1>1. con \in Seq(ConChar) /\ con # <<>> /\ con' = Tail(con) /\ tx \in Seq(Char) /\ Len(tx) < TxDepth /\ tx' = Append(tx, Head(con))
  BY DEF SendTypes, ConsolePuts, Locked, TxNFull
<1>2. Head(con) \in ConChar /\ con' \in Seq(ConChar) /\ con = <<Head(con)>> \o con'
  BY <1>1, HeadAndTail
<1>3. Head(con) \in Char
  BY <1>2 DEF ConChar, Char
<1>4. tx' = tx \o <<Head(con)>> /\ tx' \in Seq(Char) /\ Len(tx') = Len(tx) + 1
  BY <1>1, <1>3, AppendProperties, AppendIsConcat
<1>5. Len(tx') <= TxDepth
  BY <1>1, <1>4, LenProperties, UartSizes
<1>6. UNCHANGED <<wire, xmit, written, shed, lines, opens>>
  BY DEF ConsolePuts, core
<1>7. QED BY <1>2, <1>4, <1>5, <1>6

\* The types are kept.
LEMMA SendTypesKept == ASSUME SendTypes, [Next]_vars PROVE SendTypes'
<1>1. CASE Quiet
  <2>1. UNCHANGED <<tx, wire, xmit, written, shed, con, lines>> /\ opens' \in Nat
    BY <1>1, QuietIs
  <2>2. QED BY <2>1 DEF SendTypes
<1>2. CASE Shifts
  <2>1. /\ tx' \in Seq(Char) /\ Len(tx') <= TxDepth /\ UNCHANGED <<xmit, written, shed, con, lines, opens>>
        /\ wire' \in [sent : [{"tty", "con"} -> SUBSET Nat], last : Char] /\ wire'.last.from # "dbg"
    BY <1>2, ShiftsIs
  <2>2. QED BY <2>1 DEF SendTypes
<1>3. CASE DbgPuts
  <2>1. /\ tx' \in Seq(Char) /\ Len(tx') <= TxDepth /\ UNCHANGED <<wire, xmit, written, shed, con, lines, opens>>
    BY <1>3, DbgPutsIs
  <2>2. QED BY <2>1 DEF SendTypes
<1>4. CASE ThreadTx
  <2>1. xmit' \in Seq(TtyChar) /\ tx' \in Seq(Char) /\ Len(tx') <= TxDepth
    BY <1>4, ThreadTxIs, Zenon
  <2>2. UNCHANGED <<wire, written, con, lines, opens>>
    BY <1>4 DEF ThreadTx
  <2>3. QED BY <2>1, <2>2 DEF SendTypes
<1>5. CASE TtyWrite
  <2>1. xmit' \in Seq(TtyChar) /\ tx' \in Seq(Char) /\ Len(tx') <= TxDepth
    BY <1>5, TtyWriteIs, Zenon
  <2>2. UNCHANGED <<wire, con, lines, opens>> /\ written' = written + 1
    BY <1>5 DEF TtyWrite, driver
  <2>3. QED BY <2>1, <2>2 DEF SendTypes
<1>6. CASE ConsoleBegins
  <2>1. con' = Message(lines) /\ lines' = lines + 1 /\ UNCHANGED <<tx, wire, xmit, written, opens>> /\ lines \in Nat
    BY <1>6 DEF ConsoleBegins, Message, hardware, core, SendTypes
  <2>2. con' \in Seq(ConChar)
    BY <2>1, MessageIs
  <2>3. QED BY <2>1, <2>2 DEF SendTypes
<1>7. CASE ConsolePuts
  <2>1. con' \in Seq(ConChar) /\ tx' \in Seq(Char) /\ Len(tx') <= TxDepth /\ UNCHANGED <<wire, xmit, written, lines, opens>>
    BY <1>7, ConsolePutsIs
  <2>2. QED BY <2>1 DEF SendTypes
<1>8. CASE ShutdownEnds
  <2>1. xmit' = <<>> /\ UNCHANGED <<tx, wire, written, con, lines, opens>>
    BY <1>8 DEF ShutdownEnds, hardware
  <2>2. QED BY <2>1, EmptySeq DEF SendTypes
<1>9. QED
  BY <1>1, <1>2, <1>3, <1>4, <1>5, <1>6, <1>7, <1>8, Zenon DEF Next, ThreadSteps, OpenSteps, Quiet

\* Every step keeps the account of what is sent.
LEMMA FlowKept == ASSUME SendTypes, TxAccounted, [Next]_vars PROVE TxAccounted'
<1> DEFINE S == wire.sent["tty"]
           T == wire.sent["con"]
<1>1. /\ tx \in Seq(Char) /\ xmit \in Seq(TtyChar) /\ con \in Seq(ConChar) /\ xmit \in Seq(Char) /\ con \in Seq(Char)
      /\ Flows(written, S, tx \o xmit, "tty", shed)
      /\ Flows(LineLen * lines, T, tx \o con, "con", {})
      /\ written \in Nat /\ lines \in Nat /\ LineLen \in Nat /\ LineLen * lines \in Nat
  BY CharsOf, UartSizes DEF SendTypes, TxAccounted
<1>2. ASSUME Flows(written', wire'.sent["tty"], tx' \o xmit', "tty", shed'),
             Flows(LineLen * lines', wire'.sent["con"], tx' \o con', "con", {})
      PROVE  TxAccounted'
  BY <1>2 DEF TxAccounted
<1>3. ASSUME NEW p \in Seq(TtyChar), tx' = tx \o p, con = <<>>, con' = <<>>, lines' = lines, wire' = wire
      PROVE  Flows(LineLen * lines', wire'.sent["con"], tx' \o con', "con", {})
  <2>1. p \in Seq(Char) /\ (\A i \in DOMAIN p : p[i].from # "con") /\ con \in Seq(Char)
    BY <1>1, CharsOf
  <2>2. Flows(LineLen * lines, T, (tx \o p) \o con, "con", {})
    BY <1>1, <2>1, Insert
  <2>3. QED BY <1>3, <2>2
<1>4. CASE Quiet
  <2>1. UNCHANGED <<tx, wire, xmit, written, shed, con, lines>>
    BY <1>4, QuietIs
  <2>2. QED BY <2>1 DEF TxAccounted
<1>5. CASE Shifts
  <2> DEFINE c == Head(tx)
  <2>1. /\ c \in Char /\ tx' \in Seq(Char) /\ tx = <<c>> \o tx' /\ UNCHANGED <<xmit, written, shed, con, lines>>
        /\ \A who \in {"tty", "con"} : wire'.sent[who] = IF c.from = who THEN wire.sent[who] \cup {c.nr} ELSE wire.sent[who]
    BY <1>5, ShiftsIs
  <2> HIDE DEF c
  <2>2. ASSUME NEW who \in {"tty", "con"}, NEW n, NEW b \in Seq(Char), NEW gone, Flows(n, wire.sent[who], tx \o b, who, gone)
        PROVE  Flows(n, wire'.sent[who], tx' \o b, who, gone)
    <3>1. <<c>> \in Seq(Char)
      BY <2>1, OneOf
    <3>2. tx \o b = <<c>> \o (tx' \o b) /\ tx' \o b \in Seq(Char)
      <4>1. tx' \in Seq(Char) /\ tx = <<c>> \o tx'
        BY <2>1
      <4>2. (<<c>> \o tx') \o b = <<c>> \o (tx' \o b)
        BY <3>1, <4>1, Assoc, Zenon
      <4>3. QED BY <4>1, <4>2, ConcatProperties
    <3>3. Flows(n, wire.sent[who], <<c>> \o (tx' \o b), who, gone)
      BY <2>2, <3>2
    <3>4. Flows(n, IF c.from = who THEN wire.sent[who] \cup {c.nr} ELSE wire.sent[who], tx' \o b, who, gone)
      BY <2>1, <3>2, <3>3, Leaves
    <3>5. QED BY <2>1, <3>4
  <2>3. Flows(written, wire'.sent["tty"], tx' \o xmit, "tty", shed)
    BY <1>1, <2>2
  <2>4. Flows(LineLen * lines, wire'.sent["con"], tx' \o con, "con", {})
    BY <1>1, <2>2
  <2>5. QED BY <1>2, <2>1, <2>3, <2>4
<1>6. CASE DbgPuts
  <2>1. UNCHANGED <<wire, xmit, written, shed, con, lines>> /\ \E d \in Char : d.from = "dbg" /\ tx' \in {tx, tx \o <<d>>}
    BY <1>6, DbgPutsIs
  <2>2. PICK d \in Char : d.from = "dbg" /\ tx' \in {tx, tx \o <<d>>}
    BY <2>1
  <2>3. CASE tx' = tx
    BY <1>1, <1>2, <2>1, <2>3
  <2>4. CASE tx' = tx \o <<d>>
    <3>1. <<d>> \in Seq(Char) /\ \A i \in DOMAIN <<d>> : <<d>>[i].from # "tty" /\ <<d>>[i].from # "con"
      BY <2>2, OneOf
    <3>2. Flows(written, S, (tx \o <<d>>) \o xmit, "tty", shed)
      BY <1>1, <3>1, Insert
    <3>3. Flows(LineLen * lines, T, (tx \o <<d>>) \o con, "con", {})
      BY <1>1, <3>1, Insert
    <3>4. QED BY <1>2, <2>1, <2>4, <3>2, <3>3
  <2>5. QED BY <2>2, <2>3, <2>4
<1>7. CASE ThreadTx
  <2>1. con = <<>> /\ UNCHANGED <<wire, written, shed, con, lines>>
    BY <1>7, ThreadTxIs DEF ThreadTx
  <2>2. PICK p \in Seq(TtyChar) : tx' = tx \o p /\ xmit' \in Seq(TtyChar) /\ xmit = p \o xmit'
    BY <1>7, ThreadTxIs, Zenon
  <2>3. tx' \o xmit' = tx \o xmit
    <3>1. p \in Seq(Char) /\ xmit' \in Seq(Char)
      BY <2>2, CharsOf
    <3>2. tx \in Seq(Char)
      BY <1>1
    <3>3. (tx \o p) \o xmit' = tx \o (p \o xmit')
      BY <3>1, <3>2, Assoc, Zenon
    <3>4. QED BY <2>2, <3>3
  <2>4. QED BY <1>1, <1>2, <1>3, <2>1, <2>2, <2>3
<1>8. CASE TtyWrite
  <2>1. con = <<>> /\ UNCHANGED <<wire, shed, con, lines>> /\ written' = written + 1
    BY <1>8, TtyWriteIs DEF TtyWrite, driver
  <2>2. PICK c \in TtyChar, p \in Seq(TtyChar) :
             c.nr = written + 1 /\ tx' = tx \o p /\ xmit' \in Seq(TtyChar) /\ xmit \o <<c>> = p \o xmit'
    BY <1>8, TtyWriteIs, Zenon
  <2>3. /\ p \in Seq(Char) /\ xmit' \in Seq(Char) /\ c \in Char /\ <<c>> \in Seq(Char)
        /\ DOMAIN <<c>> = {1} /\ <<c>>[1] = c /\ c.from = "tty" /\ Len(<<c>>) = 1
    <3>1. c \in Char /\ c.from = "tty"
      BY <2>2 DEF TtyChar, Char
    <3>2. QED BY <2>2, <3>1, CharsOf, OneOf
  <2>4. tx' \o xmit' = (tx \o xmit) \o <<c>> /\ tx \o xmit \in Seq(Char)
    <3>0. tx \in Seq(Char) /\ xmit \in Seq(Char) /\ p \in Seq(Char) /\ xmit' \in Seq(Char) /\ <<c>> \in Seq(Char)
      BY <1>1, <2>3
    <3>1. (tx \o p) \o xmit' = tx \o (p \o xmit')
      BY <3>0, Assoc, ZenonT(40)
    <3>2. (tx \o xmit) \o <<c>> = tx \o (xmit \o <<c>>)
      BY <3>0, Assoc, ZenonT(40)
    <3>3. tx \o xmit \in Seq(Char)
      BY <3>0, ConcatProperties
    <3>4. QED BY <2>2, <3>1, <3>2, <3>3
  <2>5. Flows(written + 1, S, (tx \o xmit) \o <<c>>, "tty", shed)
    <3>1. \A i \in DOMAIN <<c>> : <<c>>[i].from = "tty" /\ <<c>>[i].nr = written + i
      BY <2>2, <2>3
    <3>2. Flows(written + Len(<<c>>), S, (tx \o xmit) \o <<c>>, "tty", shed)
      BY <1>1, <2>3, <2>4, <3>1, NewBytes
    <3>3. QED BY <2>3, <3>2
  <2>6. QED BY <1>2, <1>3, <2>1, <2>2, <2>4, <2>5
<1>9. CASE ConsoleBegins
  <2>1. con = <<>> /\ con' = Message(lines) /\ lines' = lines + 1 /\ UNCHANGED <<tx, wire, xmit, written, shed>>
    BY <1>9 DEF ConsoleBegins, Message, Locked, hardware, core
  <2>2. /\ con' \in Seq(Char) /\ Len(con') = LineLen
        /\ \A i \in DOMAIN con' : con'[i].from = "con" /\ con'[i].nr = LineLen * lines + i
    <3>1. /\ Message(lines) \in Seq(ConChar) /\ Len(Message(lines)) = LineLen /\ DOMAIN Message(lines) = 1..LineLen
          /\ \A i \in 1..LineLen : Message(lines)[i].from = "con" /\ Message(lines)[i].nr = LineLen * lines + i
      BY <1>1, MessageIs
    <3>2. Message(lines) \in Seq(Char)
      BY <3>1, CharsOf
    <3>3. QED BY <2>1, <3>1, <3>2
  <2>3. Flows(LineLen * lines, T, tx, "con", {})
    BY <1>1, <2>1, ConcatEmptySeq
  <2>4. Flows(LineLen * lines + LineLen, T, tx \o con', "con", {})
    <3>1. Flows(LineLen * lines + Len(con'), T, tx \o con', "con", {})
      BY <1>1, <2>2, <2>3, NewBytes
    <3>2. QED BY <2>2, <3>1
  <2>5. LineLen * lines' = LineLen * lines + LineLen
    BY <1>1, <2>1
  <2>6. QED BY <1>1, <1>2, <2>1, <2>4, <2>5
<1>10. CASE ConsolePuts
  <2> DEFINE c == Head(con)
  <2>1. /\ c \in ConChar /\ con' \in Seq(ConChar) /\ con = <<c>> \o con' /\ tx' = tx \o <<c>>
        /\ UNCHANGED <<wire, xmit, written, shed, lines>>
    BY <1>10, ConsolePutsIs
  <2> HIDE DEF c
  <2>2. c \in Char /\ c.from = "con"
    BY <2>1 DEF ConChar, Char
  <2>3. <<c>> \in Seq(Char) /\ con' \in Seq(Char) /\ \A i \in DOMAIN <<c>> : <<c>>[i].from # "tty"
    BY <2>1, <2>2, OneOf, CharsOf
  <2>4. tx' \o con' = tx \o con
    BY <1>1, <2>1, <2>3, Assoc, ZenonT(40)
  <2>5. Flows(written, S, (tx \o <<c>>) \o xmit, "tty", shed)
    BY <1>1, <2>3, Insert
  <2>6. QED BY <1>1, <1>2, <2>1, <2>4, <2>5
<1>11. CASE ShutdownEnds
  <2>1. /\ xmit' = <<>> /\ shed' = shed \cup {xmit[i].nr : i \in DOMAIN xmit} /\ UNCHANGED <<tx, wire, written, con, lines>>
    BY <1>11 DEF ShutdownEnds, hardware
  <2>2. {xmit[i].nr : i \in DOMAIN xmit} = Nrs(xmit, "tty")
    <3>1. From(xmit, "tty") = DOMAIN xmit
      BY <1>1, CharsOf DEF From
    <3>2. QED BY <3>1 DEF Nrs
  <2>3. Flows(written, S, tx, "tty", shed \cup Nrs(xmit, "tty"))
    BY <1>1, Discarded
  <2>4. tx \o <<>> = tx
    BY <1>1, ConcatEmptySeq
  <2>5. QED BY <1>1, <1>2, <2>1, <2>2, <2>3, <2>4
<1>12. QED
  BY <1>4, <1>5, <1>6, <1>7, <1>8, <1>9, <1>10, <1>11, Zenon DEF Next, ThreadSteps, OpenSteps, Quiet

\* The start.
LEMMA SendStarts == Init => SendTypes /\ TxAccounted
<1>1. SUFFICES ASSUME Init PROVE SendTypes /\ TxAccounted
  OBVIOUS
<1>2. /\ tx = <<>> /\ xmit = <<>> /\ con = <<>> /\ shed = {} /\ written = 0 /\ lines = 0 /\ opens = 0
      /\ wire = [sent |-> [who \in {"tty", "con"} |-> {}], last |-> [from |-> "tty", nr |-> 0, end |-> TRUE]]
  BY <1>1 DEF Init
<1>3. wire.sent["tty"] = {} /\ wire.sent["con"] = {} /\ wire.sent \in [{"tty", "con"} -> SUBSET Nat]
  BY <1>2
<1>4. wire.last \in Char /\ wire.last.from # "dbg"
  BY <1>2 DEF Char
<1>5. Len(tx) <= TxDepth
  BY <1>2, EmptySeq, UartSizes
<1>6. SendTypes
  BY <1>2, <1>3, <1>4, <1>5, EmptySeq DEF SendTypes
<1>7. <<>> \o <<>> = <<>> /\ LineLen * 0 = 0 /\ 1..0 = {}
  BY EmptySeq, ConcatEmptySeq, UartSizes
<1>8. \A who : Flows(0, {}, <<>>, who, {})
  <2>1. SUFFICES ASSUME NEW who PROVE Flows(0, {}, <<>>, who, {})
    OBVIOUS
  <2>2. From(<<>>, who) = {}
    BY DEF From
  <2>3. Nrs(<<>>, who) = {}
    BY <2>2 DEF Nrs
  <2>4. QED BY <1>7, <2>2, <2>3 DEF Flows
<1>9. TxAccounted
  BY <1>2, <1>3, <1>7, <1>8 DEF TxAccounted
<1>10. QED BY <1>6, <1>9

\* Whatever the thread, programs, the console and neo_uart_dbg put into the FIFO, the bytes that
\* programs write leave in order, once each, all but those that a close discards, and no byte of
\* the console is lost.
THEOREM SentIsAccounted == Spec => []TxAccounted
<1>1. SendTypes /\ TxAccounted /\ [Next]_vars => (SendTypes /\ TxAccounted)'
  BY SendTypesKept, FlowKept
<1>2. QED BY <1>1, SendStarts, PTL DEF Spec

-----------------------------------------------------------------------------
(* Messages that stay whole.                                                 *)
\* Two bytes with none but those of neo_uart_dbg between them, and what Untorn asks of them.
Neighbours(seq, i, j) ==
    i < j /\ seq[i].from # "dbg" /\ seq[j].from # "dbg" /\ (\A k \in i + 1 .. j - 1 : seq[k].from = "dbg")
Follows(c, d) == c.end \/ (d.from = c.from /\ d.nr = c.nr + 1)

\* Untorn in these words.
LEMMA UntornIs ==
    ASSUME NEW s PROVE Untorn(s) <=> \A i, j \in DOMAIN s : Neighbours(s, i, j) => Follows(s[i], s[j])
BY DEF Untorn, Neighbours, Follows

\* The last byte, but for those of neo_uart_dbg, ends its message.
EndsWell(seq) ==
    \E i \in DOMAIN seq : seq[i].from # "dbg" /\ seq[i].end /\ \A k \in DOMAIN seq : k > i => seq[k].from = "dbg"

\* Parts of an untorn sequence are untorn.
LEMMA PartsUntorn ==
    ASSUME NEW a \in Seq(Char), NEW b \in Seq(Char), Untorn(a \o b)
    PROVE  Untorn(a) /\ Untorn(b)
<1> DEFINE s == a \o b
<1>1. /\ Len(a) \in Nat /\ DOMAIN a = 1..Len(a) /\ Len(b) \in Nat /\ DOMAIN b = 1..Len(b)
      /\ DOMAIN s = 1 .. Len(a) + Len(b)
      /\ \A i \in 1..Len(a) : s[i] = a[i]
      /\ \A i \in 1..Len(b) : s[Len(a) + i] = b[i]
      /\ \A i \in 1 .. Len(a) + Len(b) : i > Len(a) => i - Len(a) \in 1..Len(b) /\ s[i] = b[i - Len(a)]
  BY Places2
<1>2. \A i, j \in DOMAIN s : Neighbours(s, i, j) => Follows(s[i], s[j])
  BY UntornIs
<1> HIDE DEF s
<1>3. ASSUME NEW i \in 1..Len(a), NEW j \in 1..Len(a), Neighbours(a, i, j) PROVE Follows(a[i], a[j])
  <2>1. i \in DOMAIN s /\ j \in DOMAIN s /\ s[i] = a[i] /\ s[j] = a[j]
    BY <1>1
  <2>2. \A k \in i + 1 .. j - 1 : k \in 1..Len(a) /\ s[k] = a[k]
    BY <1>1
  <2>3. Neighbours(s, i, j)
    BY <1>3, <2>1, <2>2 DEF Neighbours
  <2>4. QED BY <1>2, <2>1, <2>3
<1>4. ASSUME NEW i \in 1..Len(b), NEW j \in 1..Len(b), Neighbours(b, i, j) PROVE Follows(b[i], b[j])
  <2> DEFINE m == Len(a) + i
             n == Len(a) + j
  <2>1. m \in DOMAIN s /\ n \in DOMAIN s /\ s[m] = b[i] /\ s[n] = b[j]
    BY <1>1
  <2>2. ASSUME NEW k \in m + 1 .. n - 1 PROVE s[k].from = "dbg"
    <3>1. k - Len(a) \in i + 1 .. j - 1 /\ k \in 1 .. Len(a) + Len(b) /\ k > Len(a)
      BY <1>1
    <3>2. s[k] = b[k - Len(a)] /\ b[k - Len(a)].from = "dbg"
      BY <1>1, <1>4, <3>1 DEF Neighbours
    <3>3. QED BY <3>2
  <2>3. m < n
    BY <1>1, <1>4 DEF Neighbours
  <2>4. s[m].from # "dbg" /\ s[n].from # "dbg"
    BY <1>4, <2>1 DEF Neighbours
  <2> HIDE DEF m, n
  <2>5. Neighbours(s, m, n)
    BY <2>2, <2>3, <2>4 DEF Neighbours
  <2>6. Follows(s[m], s[n])
    BY <1>2, <2>1, <2>5
  <2>7. QED BY <2>1, <2>6
<1>5. Untorn(a)
  BY <1>1, <1>3, UntornIs
<1>6. Untorn(b)
  BY <1>1, <1>4, UntornIs
<1>7. QED BY <1>5, <1>6

\* After a sequence that ends well another may follow.
LEMMA JoinUntorn ==
    ASSUME NEW a \in Seq(Char), NEW b \in Seq(Char), Untorn(a), EndsWell(a), Untorn(b)
    PROVE  Untorn(a \o b) /\ (EndsWell(b) => EndsWell(a \o b))
<1> DEFINE s == a \o b
<1>1. /\ Len(a) \in Nat /\ DOMAIN a = 1..Len(a) /\ Len(b) \in Nat /\ DOMAIN b = 1..Len(b)
      /\ DOMAIN s = 1 .. Len(a) + Len(b)
      /\ \A i \in 1..Len(a) : s[i] = a[i]
      /\ \A i \in 1..Len(b) : s[Len(a) + i] = b[i]
      /\ \A i \in 1 .. Len(a) + Len(b) : i > Len(a) => i - Len(a) \in 1..Len(b) /\ s[i] = b[i - Len(a)]
  BY Places2
<1>2. /\ \A i, j \in DOMAIN a : Neighbours(a, i, j) => Follows(a[i], a[j])
      /\ \A i, j \in DOMAIN b : Neighbours(b, i, j) => Follows(b[i], b[j])
  BY UntornIs
<1>3. PICK e \in DOMAIN a : a[e].from # "dbg" /\ a[e].end /\ \A k \in DOMAIN a : k > e => a[k].from = "dbg"
  BY DEF EndsWell
<1> HIDE DEF s
<1>4. ASSUME NEW i \in DOMAIN s, NEW j \in DOMAIN s, Neighbours(s, i, j) PROVE Follows(s[i], s[j])
  <2>0. i \in 1 .. Len(a) + Len(b) /\ j \in 1 .. Len(a) + Len(b) /\ i < j
    BY <1>1, <1>4 DEF Neighbours
  <2>1. CASE j <= Len(a)
    <3>1. i \in 1..Len(a) /\ j \in 1..Len(a)
      BY <1>1, <2>0, <2>1
    <3>2. s[i] = a[i] /\ s[j] = a[j] /\ \A k \in i + 1 .. j - 1 : s[k] = a[k]
      BY <1>1, <3>1
    <3>3. Neighbours(a, i, j)
      BY <1>4, <3>2 DEF Neighbours
    <3>4. QED BY <1>1, <1>2, <3>1, <3>2, <3>3
  <2>2. CASE i > Len(a)
    <3> DEFINE m == i - Len(a)
               n == j - Len(a)
    <3>1. m \in 1..Len(b) /\ n \in 1..Len(b) /\ m < n /\ s[i] = b[m] /\ s[j] = b[n]
      BY <1>1, <2>0, <2>2
    <3>2. ASSUME NEW k \in m + 1 .. n - 1 PROVE b[k].from = "dbg"
      <4>1. k \in 1..Len(b) /\ Len(a) + k \in i + 1 .. j - 1
        BY SMTT(30), <1>1, <2>0, <3>1
      <4>2. s[Len(a) + k] = b[k] /\ s[Len(a) + k].from = "dbg"
        BY <1>1, <1>4, <4>1 DEF Neighbours
      <4>3. QED BY <4>2
    <3>3. b[m].from # "dbg" /\ b[n].from # "dbg"
      BY <1>4, <3>1 DEF Neighbours
    <3> HIDE DEF m, n
    <3>4. Neighbours(b, m, n)
      BY <3>1, <3>2, <3>3 DEF Neighbours
    <3>5. QED BY <1>1, <1>2, <3>1, <3>4
  <2>3. CASE i <= Len(a) /\ j > Len(a)
    <3>1. i \in DOMAIN a /\ s[i] = a[i] /\ a[i].from # "dbg"
      BY <1>1, <1>4, <2>0, <2>3 DEF Neighbours
    <3>2. ~(i > e)
      BY <1>3, <3>1
    <3>3. ~(i < e)
      <4>1. SUFFICES ASSUME i < e PROVE FALSE
        OBVIOUS
      <4>2. e \in i + 1 .. j - 1 /\ s[e] = a[e]
        BY <1>1, <1>3, <2>0, <2>3, <4>1
      <4>3. s[e].from = "dbg"
        BY <1>4, <4>2 DEF Neighbours
      <4>4. QED BY <1>3, <4>2, <4>3
    <3>4. i = e
      BY <1>1, <3>1, <3>2, <3>3
    <3>5. QED BY <1>3, <3>1, <3>4, Zenon DEF Follows
  <2>4. QED BY <1>1, <2>0, <2>1, <2>2, <2>3
<1>5. Untorn(s)
  BY <1>4, UntornIs
<1>6. ASSUME EndsWell(b) PROVE EndsWell(s)
  <2>1. PICK i \in DOMAIN b : b[i].from # "dbg" /\ b[i].end /\ \A k \in DOMAIN b : k > i => b[k].from = "dbg"
    BY <1>6 DEF EndsWell
  <2> DEFINE m == Len(a) + i
  <2>2. m \in DOMAIN s /\ s[m] = b[i]
    BY <1>1
  <2>3. ASSUME NEW k \in DOMAIN s, k > m PROVE s[k].from = "dbg"
    <3>1. k - Len(a) \in DOMAIN b /\ k - Len(a) > i /\ s[k] = b[k - Len(a)]
      BY <1>1, <2>3
    <3>2. QED BY <2>1, <3>1
  <2> HIDE DEF m
  <2>4. s[m].from # "dbg" /\ s[m].end
    <3>1. s[m] = b[i]
      BY <2>2
    <3>2. b[i].from # "dbg" /\ b[i].end
      BY <2>1, Zenon
    <3>3. s[m].end
      BY <3>1, <3>2, Zenon
    <3>4. QED BY <3>1, <3>2, <3>3
  <2>5. QED BY <2>2, <2>3, <2>4, Zenon DEF EndsWell
<1>7. QED BY <1>5, <1>6 DEF s

\* What is left of a sequence that ends well does so too, when it begins with a byte of a message.
LEMMA RestEndsWell ==
    ASSUME NEW a \in Seq(Char), NEW b \in Seq(Char), EndsWell(a \o b), Len(b) > 0, b[1].from # "dbg"
    PROVE  EndsWell(b)
<1> DEFINE s == a \o b
<1>1. /\ Len(a) \in Nat /\ DOMAIN a = 1..Len(a) /\ Len(b) \in Nat /\ DOMAIN b = 1..Len(b)
      /\ DOMAIN s = 1 .. Len(a) + Len(b)
      /\ \A i \in 1..Len(b) : s[Len(a) + i] = b[i]
      /\ \A i \in 1 .. Len(a) + Len(b) : i > Len(a) => i - Len(a) \in 1..Len(b) /\ s[i] = b[i - Len(a)]
  BY Places2
<1>2. PICK i \in DOMAIN s : s[i].from # "dbg" /\ s[i].end /\ \A k \in DOMAIN s : k > i => s[k].from = "dbg"
  BY DEF EndsWell
<1> HIDE DEF s
<1>3. i > Len(a)
  <2>1. Len(a) + 1 \in DOMAIN s /\ s[Len(a) + 1] = b[1]
    BY <1>1
  <2>2. ~(Len(a) + 1 > i)
    BY <1>2, <2>1
  <2>3. QED BY <1>1, <1>2, <2>2
<1> DEFINE m == i - Len(a)
<1>4. m \in DOMAIN b /\ s[i] = b[m]
  BY <1>1, <1>2, <1>3
<1>5. ASSUME NEW k \in DOMAIN b, k > m PROVE b[k].from = "dbg"
  <2>1. Len(a) + k \in DOMAIN s /\ Len(a) + k > i /\ s[Len(a) + k] = b[k]
    BY <1>1, <1>2, <1>5
  <2>2. QED BY <1>2, <2>1
<1> HIDE DEF m
<1>6. b[m].from # "dbg" /\ b[m].end
  BY <1>2, <1>4, Zenon
<1>7. QED BY <1>4, <1>5, <1>6, Zenon DEF EndsWell

\* Bytes of neo_uart_dbg in between change nothing.
LEMMA DbgBetween ==
    ASSUME NEW a \in Seq(Char), NEW b \in Seq(Char), NEW d \in Char, d.from = "dbg"
    PROVE  /\ Untorn((a \o <<d>>) \o b) <=> Untorn(a \o b)
           /\ EndsWell((a \o <<d>>) \o b) <=> EndsWell(a \o b)
<1> DEFINE s == a \o b
           ad == a \o <<d>>
           t == ad \o b
           m == Len(a)
           up(i) == IF i <= m THEN i ELSE i + 1
<1>1. /\ m \in Nat /\ Len(b) \in Nat /\ DOMAIN s = 1 .. m + Len(b)
      /\ \A i \in 1..m : s[i] = a[i]
      /\ \A i \in 1 .. m + Len(b) : i > m => i - m \in 1..Len(b) /\ s[i] = b[i - m]
  BY Places2
<1>2. <<d>> \in Seq(Char) /\ Len(<<d>>) = 1 /\ <<d>>[1] = d
  BY OneOf
<1>3. /\ ad \in Seq(Char) /\ Len(ad) = m + 1
      /\ \A i \in 1..m : ad[i] = a[i]
      /\ ad[m + 1] = d
  <2>1. /\ ad \in Seq(Char) /\ Len(ad) = m + 1
        /\ \A i \in 1 .. m + 1 : ad[i] = IF i <= m THEN a[i] ELSE <<d>>[i - m]
    BY <1>1, <1>2, ConcatProperties
  <2>2. ad[m + 1] = <<d>>[m + 1 - m] /\ m + 1 - m = 1
    BY <1>1, <2>1
  <2>3. ad[m + 1] = d
    BY <1>2, <2>2
  <2>4. QED BY <1>1, <2>1, <2>3
<1> HIDE DEF ad
<1>4. /\ DOMAIN t = 1 .. m + 1 + Len(b)
      /\ \A i \in 1 .. m + 1 : t[i] = ad[i]
      /\ \A i \in 1 .. m + 1 + Len(b) : i > m + 1 => i - (m + 1) \in 1..Len(b) /\ t[i] = b[i - (m + 1)]
  <2>1. /\ DOMAIN t = 1 .. Len(ad) + Len(b)
        /\ \A i \in 1..Len(ad) : t[i] = ad[i]
        /\ \A i \in 1 .. Len(ad) + Len(b) : i > Len(ad) => i - Len(ad) \in 1..Len(b) /\ t[i] = b[i - Len(ad)]
    BY <1>3, Places2
  <2>2. Len(ad) = m + 1
    BY <1>3
  <2>3. QED BY <2>1, <2>2
<1> HIDE DEF s, t, m
<1>5. t[m + 1] = d /\ \A i \in DOMAIN s : up(i) \in DOMAIN t /\ t[up(i)] = s[i]
  <2>1. t[m + 1] = d
    BY <1>1, <1>3, <1>4
  <2>2. ASSUME NEW i \in DOMAIN s PROVE up(i) \in DOMAIN t /\ t[up(i)] = s[i]
    <3>1. CASE i <= m
      BY <1>1, <1>3, <1>4, <3>1
    <3>2. CASE i > m
      <4>1. up(i) = i + 1 /\ i + 1 \in 1 .. m + 1 + Len(b) /\ i + 1 > m + 1 /\ i + 1 - (m + 1) = i - m
        BY <1>1, <3>2
      <4>2. t[i + 1] = b[i + 1 - (m + 1)] /\ s[i] = b[i - m]
        BY <1>1, <1>4, <3>2, <4>1
      <4>3. t[i + 1] = s[i]
        BY <4>1, <4>2
      <4>4. QED BY <1>4, <4>1, <4>3
    <3>3. QED BY <1>1, <3>1, <3>2
  <2>3. QED BY <2>1, <2>2
<1>6. \A k \in DOMAIN t : k = m + 1 \/ \E i \in DOMAIN s : k = up(i)
  <2>1. SUFFICES ASSUME NEW k \in DOMAIN t, k # m + 1 PROVE \E i \in DOMAIN s : k = up(i)
    OBVIOUS
  <2>2. CASE k <= m
    <3>1. k \in DOMAIN s /\ k = up(k)
      BY <1>1, <1>4, <2>2
    <3>2. QED BY <3>1
  <2>3. CASE ~(k <= m)
    <3>1. k - 1 \in DOMAIN s /\ k = up(k - 1)
      BY <1>1, <1>4, <2>1, <2>3
    <3>2. QED BY <3>1
  <2>4. QED BY <2>2, <2>3
<1>7. \A i, j \in DOMAIN s : (i < j <=> up(i) < up(j)) /\ up(i) # m + 1
  BY <1>1
<1>8. DOMAIN s \subseteq Int /\ DOMAIN t \subseteq Int /\ DOMAIN s = 1 .. m + Len(b) /\ DOMAIN t = 1 .. m + 1 + Len(b)
  BY <1>1, <1>4
<1> HIDE DEF up
<1>9. ASSUME NEW i \in DOMAIN s, NEW j \in DOMAIN s PROVE Neighbours(s, i, j) <=> Neighbours(t, up(i), up(j))
  <2>1. t[up(i)] = s[i] /\ t[up(j)] = s[j] /\ (i < j <=> up(i) < up(j)) /\ up(i) \in DOMAIN t /\ up(j) \in DOMAIN t
    BY <1>5, <1>7
  <2>2. ASSUME Neighbours(s, i, j), NEW k \in up(i) + 1 .. up(j) - 1 PROVE t[k].from = "dbg"
    <3>1. k \in DOMAIN t /\ up(i) < k /\ k < up(j)
      BY <1>1, <1>8, <2>1
    <3>2. CASE k = m + 1
      BY <1>5, <3>2
    <3>3. CASE k # m + 1
      <4>1. PICK h \in DOMAIN s : k = up(h)
        BY <1>6, <3>1, <3>3
      <4>2. i < h /\ h < j
        BY <1>7, <3>1, <4>1
      <4>3. h \in i + 1 .. j - 1
        BY <1>8, <4>2
      <4>4. s[h].from = "dbg"
        BY <2>2, <4>3 DEF Neighbours
      <4>5. QED BY <1>5, <4>1, <4>4
    <3>4. QED BY <3>2, <3>3
  <2>3. ASSUME Neighbours(t, up(i), up(j)), NEW h \in i + 1 .. j - 1 PROVE s[h].from = "dbg"
    <3>1. h \in DOMAIN s /\ i < h /\ h < j
      BY <1>1, <1>8
    <3>2. up(i) < up(h) /\ up(h) < up(j) /\ up(h) \in DOMAIN t
      BY <1>5, <1>7, <3>1
    <3>3. up(h) \in up(i) + 1 .. up(j) - 1
      BY <1>8, <2>1, <3>2
    <3>4. t[up(h)].from = "dbg"
      BY <2>3, <3>3 DEF Neighbours
    <3>5. QED BY <1>5, <3>1, <3>4
  <2>4. ASSUME Neighbours(s, i, j) PROVE Neighbours(t, up(i), up(j))
    BY <2>1, <2>2, <2>4 DEF Neighbours
  <2>5. ASSUME Neighbours(t, up(i), up(j)) PROVE Neighbours(s, i, j)
    BY <2>1, <2>3, <2>5 DEF Neighbours
  <2>6. QED BY <2>4, <2>5
<1>10. ASSUME Untorn(s) PROVE Untorn(t)
  <2>1. ASSUME NEW x \in DOMAIN t, NEW y \in DOMAIN t, Neighbours(t, x, y) PROVE Follows(t[x], t[y])
    <3>1. t[x].from # "dbg" /\ t[y].from # "dbg"
      BY <2>1 DEF Neighbours
    <3>2. x # m + 1 /\ y # m + 1
      BY <1>5, <3>1
    <3>3. PICK i \in DOMAIN s : x = up(i)
      BY <1>6, <3>2
    <3>4. PICK j \in DOMAIN s : y = up(j)
      BY <1>6, <3>2
    <3>5. Neighbours(s, i, j)
      BY <1>9, <2>1, <3>3, <3>4
    <3>6. Follows(s[i], s[j])
      BY <1>10, <3>5, UntornIs
    <3>7. t[x] = s[i] /\ t[y] = s[j]
      BY <1>5, <3>3, <3>4
    <3>8. QED BY <3>6, <3>7
  <2>2. QED BY <2>1, UntornIs
<1>11. ASSUME Untorn(t) PROVE Untorn(s)
  <2>1. ASSUME NEW i \in DOMAIN s, NEW j \in DOMAIN s, Neighbours(s, i, j) PROVE Follows(s[i], s[j])
    <3>1. Neighbours(t, up(i), up(j)) /\ up(i) \in DOMAIN t /\ up(j) \in DOMAIN t
      BY <1>5, <1>9, <2>1
    <3>2. Follows(t[up(i)], t[up(j)])
      BY <1>11, <3>1, UntornIs
    <3>3. t[up(i)] = s[i] /\ t[up(j)] = s[j]
      BY <1>5
    <3>4. QED BY <3>2, <3>3
  <2>2. QED BY <2>1, UntornIs
<1>12. ASSUME EndsWell(s) PROVE EndsWell(t)
  <2>1. PICK i \in DOMAIN s : s[i].from # "dbg" /\ s[i].end /\ \A k \in DOMAIN s : k > i => s[k].from = "dbg"
    BY <1>12 DEF EndsWell
  <2>2. up(i) \in DOMAIN t
    BY <1>5
  <2>3. t[up(i)].from # "dbg" /\ t[up(i)].end
    <3>1. t[up(i)] = s[i]
      BY <1>5
    <3>2. QED BY <2>1, <3>1, Zenon
  <2>4. ASSUME NEW k \in DOMAIN t, k > up(i) PROVE t[k].from = "dbg"
    <3>1. CASE k = m + 1
      BY <1>5, <3>1
    <3>2. CASE k # m + 1
      <4>1. PICK h \in DOMAIN s : k = up(h)
        BY <1>6, <3>2
      <4>2. up(i) < up(h)
        BY <1>8, <2>2, <2>4, <4>1
      <4>3. i < h
        BY <1>7, <4>2
      <4>4. h > i
        BY <1>8, <4>3
      <4>5. s[h].from = "dbg"
        BY <2>1, <4>4
      <4>6. QED BY <1>5, <4>1, <4>5
    <3>3. QED BY <3>1, <3>2
  <2>5. QED BY <2>2, <2>3, <2>4, Zenon DEF EndsWell
<1>13. ASSUME EndsWell(t) PROVE EndsWell(s)
  <2>1. PICK x \in DOMAIN t : t[x].from # "dbg" /\ t[x].end /\ \A k \in DOMAIN t : k > x => t[k].from = "dbg"
    BY <1>13 DEF EndsWell
  <2>2. x # m + 1
    BY <1>5, <2>1
  <2>3. PICK i \in DOMAIN s : x = up(i)
    BY <1>6, <2>2
  <2>4. s[i].from # "dbg" /\ s[i].end
    <3>1. t[x] = s[i]
      BY <1>5, <2>3
    <3>2. QED BY <2>1, <3>1, Zenon
  <2>5. ASSUME NEW k \in DOMAIN s, k > i PROVE s[k].from = "dbg"
    <3>1. i < k
      BY <1>8, <2>5
    <3>2. up(i) < up(k) /\ up(k) \in DOMAIN t
      BY <1>5, <1>7, <3>1
    <3>3. up(k) > x
      BY <1>8, <2>3, <3>2
    <3>4. t[up(k)].from = "dbg"
      BY <2>1, <3>2, <3>3
    <3>5. QED BY <1>5, <3>4
  <2>6. QED BY <2>4, <2>5, Zenon DEF EndsWell
<1>14. QED BY <1>10, <1>11, <1>12, <1>13 DEF s, t, ad

\* Four parts, grouped in another way.
LEMMA InMiddle ==
    ASSUME NEW a \in Seq(Char), NEW b \in Seq(Char), NEW c \in Seq(Char), NEW d \in Seq(Char)
    PROVE  (a \o (b \o c)) \o d = ((a \o b) \o c) \o d
<1>1. (a \o b) \o c = a \o (b \o c)
  BY Assoc, Zenon
<1>2. QED BY <1>1

\* Bytes that programs wrote each end well.
LEMMA TtyBytesEnd ==
    ASSUME NEW p \in Seq(TtyChar)
    PROVE  Untorn(p) /\ (p # <<>> => EndsWell(p))
<1>1. Len(p) \in Nat /\ DOMAIN p = 1..Len(p)
  BY LenProperties
<1>2. \A i \in DOMAIN p : p[i].from = "tty" /\ p[i].end
  BY CharsOf, Zenon
<1>3. Untorn(p)
  <2>1. \A i, j \in DOMAIN p : Follows(p[i], p[j])
    BY <1>2, Zenon DEF Follows
  <2>2. QED BY <2>1, UntornIs, Zenon
<1>4. ASSUME p # <<>> PROVE EndsWell(p)
  <2>1. Len(p) # 0
    BY <1>4, EmptySeq
  <2>2. Len(p) \in DOMAIN p /\ \A k \in DOMAIN p : ~(k > Len(p))
    BY <1>1, <2>1
  <2>3. p[Len(p)].from = "tty" /\ p[Len(p)].end
    BY <1>2, <2>2, Zenon
  <2>4. p[Len(p)].from # "dbg"
    BY <2>3
  <2>5. QED BY <2>2, <2>3, <2>4, Zenon DEF EndsWell
<1>5. QED BY <1>3, <1>4

\* A message of the console is whole.
LEMMA MessageWhole ==
    ASSUME NEW n \in Nat
    PROVE  Untorn(Message(n)) /\ EndsWell(Message(n))
<1> DEFINE s == Message(n)
<1>1. /\ DOMAIN s = 1..LineLen
      /\ \A i \in 1..LineLen : /\ s[i].from = "con" /\ s[i].nr = LineLen * n + i
                               /\ (s[i].end <=> i = LineLen)
  BY MessageIs
<1>2. LineLen \in Nat \ {0} /\ LineLen * n \in Nat
  BY UartSizes
<1> HIDE DEF s
<1>3. ASSUME NEW i \in DOMAIN s, NEW j \in DOMAIN s, Neighbours(s, i, j) PROVE Follows(s[i], s[j])
  <2>1. i < j /\ i \in 1..LineLen /\ j \in 1..LineLen
    BY <1>1, <1>3 DEF Neighbours
  <2>2. j = i + 1
    <3>1. SUFFICES ASSUME j # i + 1 PROVE FALSE
      OBVIOUS
    <3>2. i + 1 \in i + 1 .. j - 1 /\ i + 1 \in 1..LineLen
      BY <1>2, <2>1, <3>1
    <3>3. s[i + 1].from = "dbg"
      BY <1>3, <3>2 DEF Neighbours
    <3>4. QED BY <1>1, <3>2, <3>3
  <2>3. s[j].from = s[i].from /\ s[j].nr = s[i].nr + 1
    BY <1>1, <1>2, <2>1, <2>2
  <2>4. QED BY <2>3, Zenon DEF Follows
<1>4. Untorn(s)
  BY <1>3, UntornIs
<1>5. EndsWell(s)
  <2>1. LineLen \in DOMAIN s /\ \A k \in DOMAIN s : ~(k > LineLen)
    BY <1>1, <1>2
  <2>2. s[LineLen].from # "dbg"
    BY <1>1, <2>1
  <2>3. s[LineLen].end
    BY <1>1, <2>1, Zenon
  <2>4. QED BY <2>1, <2>2, <2>3, Zenon DEF EndsWell
<1>6. QED BY <1>4, <1>5 DEF s

\* What was sent last, what waits in the FIFO and what the console still has to write: in this
\* order no message is torn, and the last one ends.
Line == (<<wire.last>> \o tx) \o con
LineInv == Untorn(Line) /\ EndsWell(Line)

\* Every step keeps it.
LEMMA LineKept == ASSUME SendTypes, LineInv, [Next]_vars PROVE LineInv'
<1> DEFINE l == <<wire.last>>
<1>1. /\ tx \in Seq(Char) /\ con \in Seq(ConChar) /\ con \in Seq(Char) /\ l \in Seq(Char) /\ lines \in Nat
      /\ Untorn((l \o tx) \o con) /\ EndsWell((l \o tx) \o con)
  <2>1. wire.last \in Char
    BY DEF SendTypes
  <2>2. l \in Seq(Char)
    BY <2>1, OneOf
  <2>3. QED BY <2>2, CharsOf DEF SendTypes, LineInv, Line
<1>2. LineInv' <=> Untorn((<<wire'.last>> \o tx') \o con') /\ EndsWell((<<wire'.last>> \o tx') \o con')
  BY DEF LineInv, Line
<1> HIDE DEF l
<1>3. ASSUME NEW p \in Seq(TtyChar), tx' = tx \o p, con = <<>>, con' = <<>>, wire' = wire PROVE LineInv'
  <2>1. p \in Seq(Char) /\ l \o tx \in Seq(Char) /\ tx \o p \in Seq(Char)
    BY <1>1, CharsOf, ConcatProperties
  <2>2. (l \o tx) \o <<>> = l \o tx /\ l \o (tx \o p) = (l \o tx) \o p
    <3>1. l \in Seq(Char) /\ tx \in Seq(Char)
      BY <1>1
    <3>2. l \o (tx \o p) = (l \o tx) \o p
      BY <2>1, <3>1, Assoc, ZenonT(40)
    <3>3. QED BY <2>1, <3>2, ConcatEmptySeq
  <2>3. Untorn(l \o tx) /\ EndsWell(l \o tx)
    BY <1>1, <1>3, <2>2
  <2>4. (l \o tx) \o p \in Seq(Char)
    BY <2>1, ConcatProperties
  <2>5. ((l \o tx) \o p) \o <<>> = (l \o tx) \o p
    BY <2>4, ConcatEmptySeq
  <2>6. <<wire'.last>> = l
    BY <1>3 DEF l
  <2>7. (<<wire'.last>> \o tx') \o con' = (l \o tx) \o p
    BY <1>3, <2>2, <2>5, <2>6
  <2>8. Untorn((l \o tx) \o p) /\ EndsWell((l \o tx) \o p)
    <3>1. CASE p = <<>>
      BY <2>1, <2>3, <3>1, ConcatEmptySeq
    <3>2. CASE p # <<>>
      BY <2>1, <2>3, <3>2, TtyBytesEnd, JoinUntorn
    <3>3. QED BY <3>1, <3>2
  <2>9. QED BY <1>2, <2>7, <2>8
<1>4. CASE Quiet \/ ShutdownEnds
  <2>1. UNCHANGED <<tx, wire, con>>
    BY <1>4, QuietIs DEF ShutdownEnds, hardware
  <2>2. QED BY <2>1 DEF LineInv, Line
<1>5. CASE Shifts
  <2> DEFINE c == Head(tx)
             r == tx' \o con
  <2>1. /\ c \in Char /\ tx' \in Seq(Char) /\ tx = <<c>> \o tx' /\ con' = con
        /\ wire'.last = IF c.from = "dbg" THEN wire.last ELSE c
    BY <1>5, ShiftsIs
  <2> HIDE DEF c
  <2>2. <<c>> \in Seq(Char) /\ <<c>>[1] = c /\ Len(<<c>>) = 1
    BY <2>1, OneOf
  <2>3. /\ (l \o tx) \o con = (l \o <<c>>) \o r /\ (l \o <<c>>) \o r = l \o (<<c>> \o r)
        /\ r \in Seq(Char)
    <3>1. l \in Seq(Char) /\ <<c>> \in Seq(Char) /\ tx' \in Seq(Char) /\ con \in Seq(Char)
      BY <1>1, <2>1, <2>2
    <3>2. (l \o (<<c>> \o tx')) \o con = (l \o <<c>>) \o r
      <4>1. (l \o (<<c>> \o tx')) \o con = ((l \o <<c>>) \o tx') \o con
        BY <3>1, InMiddle
      <4>2. l \o <<c>> \in Seq(Char)
        BY <3>1, ConcatProperties
      <4>3. ((l \o <<c>>) \o tx') \o con = (l \o <<c>>) \o (tx' \o con)
        BY <3>1, <4>2, Assoc, Zenon
      <4>4. QED BY <4>1, <4>3
    <3>4. r \in Seq(Char)
      BY <3>1, ConcatProperties
    <3>3. (l \o <<c>>) \o r = l \o (<<c>> \o r)
      BY <3>1, <3>4, Assoc, ZenonT(40)
    <3>5. QED BY <2>1, <3>2, <3>3, <3>4
  <2>4. /\ <<c>> \o r \in Seq(Char) /\ (<<c>> \o tx') \o con = <<c>> \o r /\ (l \o tx') \o con = l \o r
    <3>1. l \in Seq(Char) /\ <<c>> \in Seq(Char) /\ tx' \in Seq(Char) /\ con \in Seq(Char) /\ r \in Seq(Char)
      BY <1>1, <2>1, <2>2, <2>3
    <3>2. <<c>> \o r \in Seq(Char)
      BY <3>1, ConcatProperties
    <3>3. (<<c>> \o tx') \o con = <<c>> \o r
      BY <3>1, Assoc, ZenonT(40)
    <3>4. (l \o tx') \o con = l \o r
      BY <3>1, Assoc, ZenonT(40)
    <3>5. QED BY <3>2, <3>3, <3>4
  <2> HIDE DEF r
  <2>5. CASE c.from = "dbg"
    <3>1. Untorn(l \o r) /\ EndsWell(l \o r)
      BY <1>1, <2>1, <2>3, <2>5, DbgBetween
    <3>2. (<<wire'.last>> \o tx') \o con' = l \o r
      BY <2>1, <2>4, <2>5 DEF l
    <3>3. QED BY <1>2, <3>1, <3>2
  <2>6. CASE c.from # "dbg"
    <3>1. Untorn(l \o (<<c>> \o r)) /\ EndsWell(l \o (<<c>> \o r))
      BY <1>1, <2>3
    <3>2. Len(<<c>> \o r) > 0 /\ (<<c>> \o r)[1] = c
      <4>1. /\ Len(<<c>> \o r) = Len(<<c>>) + Len(r) /\ Len(r) \in Nat
            /\ \A i \in 1 .. Len(<<c>>) + Len(r) : (<<c>> \o r)[i] = IF i <= Len(<<c>>) THEN <<c>>[i] ELSE r[i - Len(<<c>>)]
        BY <2>2, <2>3, ConcatProperties, LenProperties
      <4>2. QED BY <2>2, <4>1
    <3>3. Untorn(<<c>> \o r)
      BY <1>1, <2>4, <3>1, PartsUntorn
    <3>4. EndsWell(<<c>> \o r)
      BY <1>1, <2>4, <2>6, <3>1, <3>2, RestEndsWell
    <3>5. (<<wire'.last>> \o tx') \o con' = <<c>> \o r
      BY <2>1, <2>4, <2>6
    <3>6. QED BY <1>2, <3>3, <3>4, <3>5
  <2>7. QED BY <2>5, <2>6
<1>6. CASE DbgPuts
  <2>1. UNCHANGED <<wire, con>> /\ \E d \in Char : d.from = "dbg" /\ tx' \in {tx, tx \o <<d>>}
    BY <1>6, DbgPutsIs
  <2>2. PICK d \in Char : d.from = "dbg" /\ tx' \in {tx, tx \o <<d>>}
    BY <2>1
  <2>3. CASE tx' = tx
    BY <2>1, <2>3 DEF LineInv, Line
  <2>4. CASE tx' = tx \o <<d>>
    <3>1. <<d>> \in Seq(Char)
      BY OneOf
    <3>2. (l \o (tx \o <<d>>)) \o con = ((l \o tx) \o <<d>>) \o con /\ l \o tx \in Seq(Char)
      <4>1. l \in Seq(Char) /\ tx \in Seq(Char) /\ <<d>> \in Seq(Char) /\ con \in Seq(Char)
        BY <1>1, <3>1
      <4>2. (l \o (tx \o <<d>>)) \o con = ((l \o tx) \o <<d>>) \o con
        BY <4>1, InMiddle
      <4>3. l \o tx \in Seq(Char)
        BY <4>1, ConcatProperties
      <4>4. QED BY <4>2, <4>3
    <3>3. Untorn(((l \o tx) \o <<d>>) \o con) /\ EndsWell(((l \o tx) \o <<d>>) \o con)
      BY <1>1, <2>2, <3>2, DbgBetween
    <3>4. (<<wire'.last>> \o tx') \o con' = (l \o (tx \o <<d>>)) \o con
      BY <2>1, <2>4 DEF l
    <3>5. QED BY <1>2, <3>2, <3>3, <3>4
  <2>5. QED BY <2>2, <2>3, <2>4
<1>7. CASE ThreadTx
  <2>1. con = <<>> /\ UNCHANGED <<wire, con>>
    BY <1>7, ThreadTxIs DEF ThreadTx
  <2>2. PICK p \in Seq(TtyChar) : tx' = tx \o p
    BY <1>7, ThreadTxIs, Zenon
  <2>3. QED BY <1>3, <2>1, <2>2
<1>8. CASE TtyWrite
  <2>1. con = <<>> /\ UNCHANGED <<wire, con>>
    BY <1>8, TtyWriteIs DEF TtyWrite, driver
  <2>2. PICK p \in Seq(TtyChar) : tx' = tx \o p
    BY <1>8, TtyWriteIs, Zenon
  <2>3. QED BY <1>3, <2>1, <2>2
<1>9. CASE ConsoleBegins
  <2>1. con = <<>> /\ con' = Message(lines) /\ UNCHANGED <<tx, wire>>
    BY <1>9 DEF ConsoleBegins, Message, Locked, hardware
  <2>2. con' \in Seq(Char) /\ Untorn(con') /\ EndsWell(con')
    <3>1. Message(lines) \in Seq(ConChar) /\ Untorn(Message(lines)) /\ EndsWell(Message(lines))
      BY <1>1, MessageIs, MessageWhole
    <3>2. QED BY <2>1, <3>1, CharsOf
  <2>3. l \o tx \in Seq(Char)
    BY <1>1, ConcatProperties
  <2>4. Untorn(l \o tx) /\ EndsWell(l \o tx)
    BY <1>1, <2>1, <2>3, ConcatEmptySeq
  <2>5. Untorn((l \o tx) \o con') /\ EndsWell((l \o tx) \o con')
    BY <2>2, <2>3, <2>4, JoinUntorn
  <2>6. QED BY <1>2, <2>1, <2>5 DEF l
<1>10. CASE ConsolePuts
  <2> DEFINE c == Head(con)
  <2>1. /\ c \in ConChar /\ con' \in Seq(ConChar) /\ con = <<c>> \o con' /\ tx' = tx \o <<c>> /\ wire' = wire
    BY <1>10, ConsolePutsIs
  <2> HIDE DEF c
  <2>2. c \in Char
    BY <2>1 DEF ConChar, Char
  <2>3. <<c>> \in Seq(Char) /\ con' \in Seq(Char)
    BY <2>1, <2>2, OneOf, CharsOf
  <2>4. (l \o (tx \o <<c>>)) \o con' = (l \o tx) \o (<<c>> \o con')
    <3>1. l \in Seq(Char) /\ tx \in Seq(Char) /\ <<c>> \in Seq(Char) /\ con' \in Seq(Char)
      BY <1>1, <2>3
    <3>2. (l \o (tx \o <<c>>)) \o con' = ((l \o tx) \o <<c>>) \o con'
      BY <3>1, InMiddle
    <3>3. l \o tx \in Seq(Char)
      BY <3>1, ConcatProperties
    <3>4. ((l \o tx) \o <<c>>) \o con' = (l \o tx) \o (<<c>> \o con')
      BY <3>1, <3>3, Assoc, Zenon
    <3>5. QED BY <3>2, <3>4
  <2>5. (<<wire'.last>> \o tx') \o con' = (l \o tx) \o con
    BY <2>1, <2>4 DEF l
  <2>6. QED BY <1>1, <1>2, <2>5
<1>11. QED
  BY <1>4, <1>5, <1>6, <1>7, <1>8, <1>9, <1>10, Zenon DEF Next, ThreadSteps, OpenSteps, Quiet

\* The start.
LEMMA LineStarts == Init => LineInv
<1>1. SUFFICES ASSUME Init PROVE LineInv
  OBVIOUS
<1> DEFINE c == [from |-> "tty", nr |-> 0, end |-> TRUE]
<1>2. tx = <<>> /\ con = <<>> /\ wire.last = c
  BY <1>1 DEF Init
<1>3. c \in TtyChar
  BY DEF TtyChar
<1> HIDE DEF c
<1>4. <<c>> \in Seq(TtyChar) /\ <<c>> # <<>>
  BY <1>3
<1>5. Untorn(<<c>>) /\ EndsWell(<<c>>)
  BY <1>4, TtyBytesEnd
<1>6. (<<c>> \o <<>>) \o <<>> = <<c>>
  BY <1>4, ConcatEmptySeq
<1>7. QED BY <1>2, <1>5, <1>6 DEF LineInv, Line

\* However the thread, programs and neo_uart_dbg write while a message of the console waits for
\* room, the bytes of the message are sent one after the other: neorv32_console_write keeps the
\* lock from the first to the last.
THEOREM LinesAreWhole == Spec => []ConsoleLineWhole
<1>1. SendTypes /\ LineInv => ConsoleLineWhole
  <2>1. SUFFICES ASSUME SendTypes, LineInv PROVE ConsoleLineWhole
    OBVIOUS
  <2>2. wire.last \in Char /\ tx \in Seq(Char) /\ con \in Seq(Char)
    BY <2>1, CharsOf DEF SendTypes
  <2>3. <<wire.last>> \in Seq(Char)
    BY <2>2, OneOf
  <2>4. <<wire.last>> \o tx \in Seq(Char) /\ Untorn((<<wire.last>> \o tx) \o con)
    BY <2>1, <2>2, <2>3, ConcatProperties DEF LineInv, Line
  <2>5. QED BY <2>2, <2>4, PartsUntorn DEF ConsoleLineWhole
<1>2. SendTypes /\ LineInv /\ [Next]_vars => (SendTypes /\ LineInv)'
  BY SendTypesKept, LineKept
<1>3. Init => SendTypes /\ LineInv
  BY SendStarts, LineStarts
<1>4. QED BY <1>1, <1>2, <1>3, PTL DEF Spec
=============================================================================
