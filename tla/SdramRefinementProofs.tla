----------------------- MODULE SdramRefinementProofs -----------------------
(***************************************************************************)
(* SdramSystem implements XbusMemory, for every geometry, timing and set   *)
(* of requests.  Three things meet here: that the bank, row and column cut *)
(* out of an address name each word once (the first section), that a read  *)
(* captures the two halves in the cycles in which the chip drives them     *)
(* (DataInv), and that each clock cycle is a step of the memory or none.   *)
(***************************************************************************)
EXTENDS SdramProofs

(* The slices of an address.                                               *)

\* Division with remainder.
LEMMA DivMod ==
  ASSUME NEW n \in Nat \ {0}, NEW x \in Nat
  PROVE  x = n * (x \div n) + (x % n) /\ x \div n \in Nat /\ x % n \in 0 .. n - 1
  OBVIOUS

\* The quotient of a division is unique.
LEMMA DivUnique ==
  ASSUME NEW n \in Nat \ {0}, NEW q \in Nat, NEW r \in 0 .. n - 1
  PROVE  (n * q + r) \div n = q
  OBVIOUS

\* Multiplication keeps the order.
LEMMA MulMono ==
  ASSUME NEW n \in Nat, NEW x \in Nat, NEW y \in Nat, x <= y
  PROVE  n * x <= n * y
  OBVIOUS

\* Cutting m off an address and then n is cutting off m * n: the row lies above
\* the column and the bank above the row.
LEMMA DivDiv ==
  ASSUME NEW m \in Nat \ {0}, NEW n \in Nat \ {0}, NEW x \in Nat
  PROVE  (x \div m) \div n = x \div (m * n)
<1> DEFINE q == x \div m
           r == x % m
           k == q \div n
           l == q % n
<1>1. x = m * q + r /\ q \in Nat /\ r \in 0 .. m - 1
  BY DivMod
<1>2. q = n * k + l /\ k \in Nat /\ l \in 0 .. n - 1
  BY <1>1, DivMod
<1>3. m * n \in Nat \ {0} /\ m * l \in Nat
  BY <1>2
<1> HIDE DEF q, r, k, l
<1>4. x = (m * n) * k + (m * l + r)
  <2>1. m * (n * k + l) = m * (n * k) + m * l
    BY <1>2
  <2>2. m * (n * k) = (m * n) * k
    BY <1>2
  <2>3. QED BY <1>1, <1>2, <1>3, <2>1, <2>2
<1>5. m * l + r \in 0 .. m * n - 1
  <2>1. m * (l + 1) <= m * n
    BY <1>2, MulMono
  <2>2. m * (l + 1) = m * l + m
    BY <1>2
  <2>3. QED BY <1>1, <1>2, <1>3, <2>1, <2>2
<1>6. x \div (m * n) = k
  <2> DEFINE p == m * n
             s == m * l + r
  <2>1. p \in Nat \ {0} /\ s \in 0 .. p - 1 /\ x = p * k + s
    BY <1>3, <1>4, <1>5
  <2> HIDE DEF p, s
  <2>2. x \div p = k
    BY <2>1, <1>2, DivUnique
  <2>3. QED BY <2>2 DEF p
<1>7. QED BY <1>6 DEF k, q

\* A number below m * n has a quotient below n.
LEMMA DivBound ==
  ASSUME NEW m \in Nat \ {0}, NEW n \in Nat \ {0}, NEW x \in 0 .. m * n - 1
  PROVE  x \div m \in 0 .. n - 1
<1>1. m * n \in Nat
  OBVIOUS
<1>2. x \in Nat /\ x < m * n
  BY <1>1
<1>3. x \div m \in Nat /\ x = m * (x \div m) + (x % m) /\ x % m \in 0 .. m - 1
  BY <1>2, DivMod
<1>4. ASSUME n <= x \div m PROVE FALSE
  <2>1. m * n <= m * (x \div m)
    BY <1>3, <1>4, MulMono
  <2>2. m * (x \div m) \in Nat
    BY <1>3
  <2>3. QED BY <2>1, <2>2, <1>1, <1>2, <1>3
<1>5. QED BY <1>3, <1>4

\* The words of the SDRAM, and their number.
Words == 0 .. (SDRAM_SIZE \div 4) - 1
NWORDS == (NCOLS * NROWS) * NBANKS

\* Every address of the SDRAM lies in one of them.
LEMMA WordCount ==
  /\ NCOLS * NROWS \in Nat \ {0} /\ NWORDS \in Nat \ {0}
  /\ Words = 0 .. NWORDS - 1
  /\ \A a \in 0 .. SDRAM_SIZE - 1 : a \div 4 \in Words
<1>1. NCOLS * NROWS \in Nat \ {0}
  BY MulPos, GeometryAssumption
<1>2. NWORDS \in Nat \ {0}
  BY <1>1, MulPos, GeometryAssumption DEF NWORDS
<1>3. SDRAM_SIZE = 4 * NWORDS
  BY GeometryAssumption, <1>1 DEF SDRAM_SIZE, NWORDS
<1>4. SDRAM_SIZE \div 4 = NWORDS
  BY <1>2, <1>3
<1>5. Words = 0 .. NWORDS - 1
  BY <1>4 DEF Words
<1>6. ASSUME NEW a \in 0 .. SDRAM_SIZE - 1 PROVE a \div 4 \in 0 .. NWORDS - 1
  BY <1>2, <1>3, DivBound
<1>7. QED BY <1>1, <1>2, <1>5, <1>6

\* Bank, row and column are functions of the word an address lies in: addr[1:0]
\* is unused.
LEMMA SlicesOfWord ==
  ASSUME NEW a \in Nat
  PROVE  /\ BaOf(a) = ((a \div 4) \div (NCOLS * NROWS)) % NBANKS
         /\ RowOf(a) = ((a \div 4) \div NCOLS) % NROWS
<1>1. (a \div 4) \div (NCOLS * NROWS) = a \div (4 * (NCOLS * NROWS))
  BY DivDiv, WordCount
<1>2. 4 * (NCOLS * NROWS) = 4 * NCOLS * NROWS
  BY GeometryAssumption
<1>3. (a \div 4) \div NCOLS = a \div (4 * NCOLS)
  BY DivDiv, GeometryAssumption
<1>4. QED BY <1>1, <1>2, <1>3 DEF BaOf, RowOf

\* So the cells of an address are those of its word.
LEMMA CellsOfWord ==
  ASSUME NEW a \in Nat
  PROVE  CellLo(4 * (a \div 4)) = CellLo(a) /\ CellHi(4 * (a \div 4)) = CellHi(a)
<1>1. a \div 4 \in Nat /\ 4 * (a \div 4) \in Nat /\ (4 * (a \div 4)) \div 4 = a \div 4
  OBVIOUS
<1>2. BaOf(4 * (a \div 4)) = BaOf(a) /\ RowOf(4 * (a \div 4)) = RowOf(a)
  BY <1>1, SlicesOfWord
<1>3. QED BY <1>1, <1>2 DEF CellLo, CellHi, ColLo, ColHi

\* Two words of the SDRAM have no cell in common: bank, row and column together
\* name a word once.
LEMMA CellsDiffer ==
  ASSUME NEW v \in Words, NEW w \in Words
  PROVE  /\ CellLo(4 * v) = CellLo(4 * w) => v = w
         /\ CellHi(4 * v) = CellHi(4 * w) => v = w
         /\ CellLo(4 * v) # CellHi(4 * w)
         /\ CellLo(4 * v) \in Cells /\ CellHi(4 * v) \in Cells
<1>1. v \in 0 .. NWORDS - 1 /\ w \in 0 .. NWORDS - 1 /\ v \in Nat /\ w \in Nat
  BY WordCount
<1>2. (4 * v) \div 4 = v /\ (4 * w) \div 4 = w /\ 4 * v \in Nat /\ 4 * w \in Nat
  BY <1>1
<1>3. v % NCOLS \in Nat /\ w % NCOLS \in Nat
  BY <1>1, ModRange, GeometryAssumption
<1>4. /\ ColLo(4 * v) = 2 * (v % NCOLS) /\ ColHi(4 * v) = 2 * (v % NCOLS) + 1
      /\ ColLo(4 * w) = 2 * (w % NCOLS) /\ ColHi(4 * w) = 2 * (w % NCOLS) + 1
  BY <1>2 DEF ColLo, ColHi
<1>5. CellLo(4 * v) # CellHi(4 * w)
  BY <1>3, <1>4 DEF CellLo, CellHi
<1>6. CellLo(4 * v) \in Cells /\ CellHi(4 * v) \in Cells
  BY <1>2, Slices DEF CellLo, CellHi, Cells
<1>7. ASSUME BaOf(4 * v) = BaOf(4 * w), RowOf(4 * v) = RowOf(4 * w),
             v % NCOLS = w % NCOLS
      PROVE  v = w
  <2>1. /\ BaOf(4 * v) = (v \div (NCOLS * NROWS)) % NBANKS
        /\ BaOf(4 * w) = (w \div (NCOLS * NROWS)) % NBANKS
        /\ RowOf(4 * v) = (v \div NCOLS) % NROWS
        /\ RowOf(4 * w) = (w \div NCOLS) % NROWS
    BY <1>2, SlicesOfWord
  <2>2. /\ v \div (NCOLS * NROWS) \in 0 .. NBANKS - 1
        /\ w \div (NCOLS * NROWS) \in 0 .. NBANKS - 1
    BY <1>1, DivBound, WordCount, GeometryAssumption DEF NWORDS
  <2>3. v \div (NCOLS * NROWS) = w \div (NCOLS * NROWS)
    <3>1. /\ (v \div (NCOLS * NROWS)) % NBANKS = v \div (NCOLS * NROWS)
          /\ (w \div (NCOLS * NROWS)) % NBANKS = w \div (NCOLS * NROWS)
      BY <2>2, ModSmall, GeometryAssumption
    <3>2. QED BY <3>1, <2>1, <1>7
  <2>4. (v \div NCOLS) \div NROWS = (w \div NCOLS) \div NROWS
    BY <2>3, <1>1, DivDiv, GeometryAssumption
  <2>5. v \div NCOLS \in Nat /\ w \div NCOLS \in Nat
    BY <1>1, DivNat, GeometryAssumption
  <2>6. v \div NCOLS = w \div NCOLS
    <3>1. /\ v \div NCOLS = NROWS * ((v \div NCOLS) \div NROWS) + ((v \div NCOLS) % NROWS)
          /\ w \div NCOLS = NROWS * ((w \div NCOLS) \div NROWS) + ((w \div NCOLS) % NROWS)
      BY <2>5, DivMod, GeometryAssumption
    <3>2. QED BY <3>1, <2>1, <2>4, <1>7
  <2>7. /\ v = NCOLS * (v \div NCOLS) + (v % NCOLS)
        /\ w = NCOLS * (w \div NCOLS) + (w % NCOLS)
    BY <1>1, DivMod, GeometryAssumption
  <2>8. QED BY <2>6, <2>7, <1>7
<1>8. QED
  BY <1>3, <1>4, <1>5, <1>6, <1>7 DEF CellLo, CellHi

-----------------------------------------------------------------------------
(* What a WRITE does to the memory the CPU sees.                           *)

\* Masking a half by dqm and joining it is writing the strobed bytes of it.
LEMMA MaskedLo ==
  ASSUME NEW l \in Half, NEW h \in Half, NEW d \in Word, NEW strb \in SUBSET Lane
  PROVE  Joined(Masked(l, LoHalf(d), DqmLo(strb)), h) =
           [i \in 0 .. 3 |-> IF i \in strb \cap {0, 1} THEN d[i] ELSE Joined(l, h)[i]]
<1> DEFINE m == Masked(l, LoHalf(d), DqmLo(strb))
<1>1. ASSUME NEW i \in 0 .. 1 PROVE m[i] = IF i \in strb THEN d[i] ELSE l[i]
  BY DEF Masked, LoHalf, DqmLo
<1> HIDE DEF m
<1>2. ASSUME NEW i \in 0 .. 3
      PROVE  (IF i < 2 THEN m[i] ELSE h[i - 2]) =
               IF i \in strb \cap {0, 1} THEN d[i] ELSE Joined(l, h)[i]
  <2>1. Joined(l, h)[i] = IF i < 2 THEN l[i] ELSE h[i - 2]
    BY DEF Joined, Lane
  <2>2. CASE i < 2
    BY <2>1, <2>2, <1>1
  <2>3. CASE ~(i < 2)
    BY <2>1, <2>3
  <2>4. QED BY <2>2, <2>3
<1>3. Joined(m, h) = [i \in 0 .. 3 |-> IF i < 2 THEN m[i] ELSE h[i - 2]]
  BY DEF Joined, Lane
<1>4. QED BY <1>2, <1>3 DEF m

\* The same for the other half word and lanes 2 and 3.
LEMMA MaskedHi ==
  ASSUME NEW l \in Half, NEW h \in Half, NEW d \in Word, NEW strb \in SUBSET Lane
  PROVE  Joined(l, Masked(h, HiHalf(d), DqmHi(strb))) =
           [i \in 0 .. 3 |-> IF i \in strb \cap {2, 3} THEN d[i] ELSE Joined(l, h)[i]]
<1> DEFINE m == Masked(h, HiHalf(d), DqmHi(strb))
<1>1. ASSUME NEW i \in 0 .. 1 PROVE m[i] = IF i + 2 \in strb THEN d[i + 2] ELSE h[i]
  BY DEF Masked, HiHalf, DqmHi
<1> HIDE DEF m
<1>2. ASSUME NEW i \in 0 .. 3
      PROVE  (IF i < 2 THEN l[i] ELSE m[i - 2]) =
               IF i \in strb \cap {2, 3} THEN d[i] ELSE Joined(l, h)[i]
  <2>1. Joined(l, h)[i] = IF i < 2 THEN l[i] ELSE h[i - 2]
    BY DEF Joined, Lane
  <2>2. CASE i < 2
    BY <2>1, <2>2
  <2>3. CASE ~(i < 2)
    <3>1. i - 2 \in 0 .. 1 /\ (i - 2) + 2 = i
      BY <2>3
    <3>2. m[i - 2] = IF i \in strb THEN d[i] ELSE h[i - 2]
      BY <3>1, <1>1
    <3>3. QED BY <2>1, <2>3, <3>1, <3>2
  <2>4. QED BY <2>2, <2>3
<1>3. Joined(l, m) = [i \in 0 .. 3 |-> IF i < 2 THEN l[i] ELSE m[i - 2]]
  BY DEF Joined, Lane
<1>4. QED BY <1>2, <1>3 DEF m

\* A WRITE to the low cell of a word stores the strobed low bytes of that word
\* and touches no other word; and the same for the high cell.
LEMMA StoreLo ==
  ASSUME mem \in [Cells -> Half], NEW w \in Words, NEW d \in Word,
         NEW strb \in SUBSET Lane,
         mem' = [mem EXCEPT ![CellLo(4 * w)] = Masked(@, LoHalf(d), DqmLo(strb))]
  PROVE  WordStore' = [WordStore EXCEPT ![w] =
           [i \in 0 .. 3 |-> IF i \in strb \cap {0, 1} THEN d[i] ELSE @[i]]]
<1> DEFINE W(v) == Joined(mem[CellLo(4 * v)], mem[CellHi(4 * v)])
           V(v) == Joined(mem'[CellLo(4 * v)], mem'[CellHi(4 * v)])
<1>1. WordStore = [v \in Words |-> W(v)] /\ WordStore' = [v \in Words |-> V(v)]
  BY DEF WordStore, Words
<1>2. CellLo(4 * w) \in Cells /\ CellHi(4 * w) \in Cells
  BY CellsDiffer
<1>3. ASSUME NEW v \in Words, v # w PROVE V(v) = W(v)
  <2>1. /\ CellLo(4 * v) # CellLo(4 * w) /\ CellHi(4 * v) # CellLo(4 * w)
        /\ CellLo(4 * v) \in Cells /\ CellHi(4 * v) \in Cells
    BY <1>3, CellsDiffer
  <2>2. /\ mem'[CellLo(4 * v)] = mem[CellLo(4 * v)]
        /\ mem'[CellHi(4 * v)] = mem[CellHi(4 * v)]
    BY <2>1
  <2>3. QED BY <2>2
<1>4. V(w) = [i \in 0 .. 3 |-> IF i \in strb \cap {0, 1} THEN d[i] ELSE W(w)[i]]
  <2>1. mem[CellLo(4 * w)] \in Half /\ mem[CellHi(4 * w)] \in Half
    BY <1>2
  <2>2. CellHi(4 * w) # CellLo(4 * w)
    BY CellsDiffer
  <2>3. /\ mem'[CellLo(4 * w)] = Masked(mem[CellLo(4 * w)], LoHalf(d), DqmLo(strb))
        /\ mem'[CellHi(4 * w)] = mem[CellHi(4 * w)]
    BY <1>2, <2>2
  <2> DEFINE l == mem[CellLo(4 * w)]
             h == mem[CellHi(4 * w)]
  <2>4. l \in Half /\ h \in Half
    BY <2>1
  <2> HIDE DEF l, h
  <2>5. Joined(Masked(l, LoHalf(d), DqmLo(strb)), h) =
          [i \in 0 .. 3 |-> IF i \in strb \cap {0, 1} THEN d[i] ELSE Joined(l, h)[i]]
    BY <2>4, MaskedLo
  <2>6. QED BY <2>3, <2>5, Zenon DEF l, h
<1> HIDE DEF W, V
<1>5. WordStore[w] = W(w)
  BY <1>1
<1>6. WordStore' = [WordStore EXCEPT ![w] = V(w)]
  BY <1>1, <1>3
<1>7. V(w) = [i \in 0 .. 3 |-> IF i \in strb \cap {0, 1} THEN d[i] ELSE WordStore[w][i]]
  BY <1>4, <1>5
<1>8. QED BY <1>6, <1>7, Zenon

\* A WRITE of the second half word stores lanes 2 and 3 of the addressed word.
LEMMA StoreHi ==
  ASSUME mem \in [Cells -> Half], NEW w \in Words, NEW d \in Word,
         NEW strb \in SUBSET Lane,
         mem' = [mem EXCEPT ![CellHi(4 * w)] = Masked(@, HiHalf(d), DqmHi(strb))]
  PROVE  WordStore' = [WordStore EXCEPT ![w] =
           [i \in 0 .. 3 |-> IF i \in strb \cap {2, 3} THEN d[i] ELSE @[i]]]
<1> DEFINE W(v) == Joined(mem[CellLo(4 * v)], mem[CellHi(4 * v)])
           V(v) == Joined(mem'[CellLo(4 * v)], mem'[CellHi(4 * v)])
<1>1. WordStore = [v \in Words |-> W(v)] /\ WordStore' = [v \in Words |-> V(v)]
  BY DEF WordStore, Words
<1>2. CellLo(4 * w) \in Cells /\ CellHi(4 * w) \in Cells
  BY CellsDiffer
<1>3. ASSUME NEW v \in Words, v # w PROVE V(v) = W(v)
  <2>1. /\ CellLo(4 * v) # CellHi(4 * w) /\ CellHi(4 * v) # CellHi(4 * w)
        /\ CellLo(4 * v) \in Cells /\ CellHi(4 * v) \in Cells
    BY <1>3, CellsDiffer
  <2>2. /\ mem'[CellLo(4 * v)] = mem[CellLo(4 * v)]
        /\ mem'[CellHi(4 * v)] = mem[CellHi(4 * v)]
    BY <2>1
  <2>3. QED BY <2>2
<1>4. V(w) = [i \in 0 .. 3 |-> IF i \in strb \cap {2, 3} THEN d[i] ELSE W(w)[i]]
  <2>1. mem[CellLo(4 * w)] \in Half /\ mem[CellHi(4 * w)] \in Half
    BY <1>2
  <2>2. CellLo(4 * w) # CellHi(4 * w)
    BY CellsDiffer
  <2>3. /\ mem'[CellHi(4 * w)] = Masked(mem[CellHi(4 * w)], HiHalf(d), DqmHi(strb))
        /\ mem'[CellLo(4 * w)] = mem[CellLo(4 * w)]
    BY <1>2, <2>2
  <2> DEFINE l == mem[CellLo(4 * w)]
             h == mem[CellHi(4 * w)]
  <2>4. l \in Half /\ h \in Half
    BY <2>1
  <2> HIDE DEF l, h
  <2>5. Joined(l, Masked(h, HiHalf(d), DqmHi(strb))) =
          [i \in 0 .. 3 |-> IF i \in strb \cap {2, 3} THEN d[i] ELSE Joined(l, h)[i]]
    BY <2>4, MaskedHi
  <2>6. QED BY <2>3, <2>5, Zenon DEF l, h
<1> HIDE DEF W, V
<1>5. WordStore[w] = W(w)
  BY <1>1
<1>6. WordStore' = [WordStore EXCEPT ![w] = V(w)]
  BY <1>1, <1>3
<1>7. V(w) = [i \in 0 .. 3 |-> IF i \in strb \cap {2, 3} THEN d[i] ELSE WordStore[w][i]]
  BY <1>4, <1>5
<1>8. QED BY <1>6, <1>7, Zenon

-----------------------------------------------------------------------------
(* The way of a word from the chip to rdata.                               *)

\* One clock of the pipeline, place by place, with a CAS latency of 3.
LEMMA PipelineShift ==
  ASSUME CL = 3, DevTypeOK, NEW c, NEW ba, NEW a, NEW a10, NEW dqm, NEW dq,
         DevClock(c, ba, a, a10, dqm, dq)
  PROVE  /\ rd_valid'[0] = rd_valid[1] /\ rd_data'[0] = rd_data[1]
         /\ rd_valid'[1] = rd_valid[2] /\ rd_data'[1] = rd_data[2]
         /\ rd_valid'[2] = rd_valid[3] /\ rd_data'[2] = rd_data[3]
         /\ c = "READ" => rd_valid'[3] /\ rd_data'[3] = mem[<<ba, bank_row[ba], a>>]
         /\ c # "WRITE" => mem' = mem
<1>1. /\ Shifted[0] = rd_data[1] /\ Shifted[1] = rd_data[2] /\ Shifted[2] = rd_data[3]
      /\ ShiftedValid[0] = rd_valid[1] /\ ShiftedValid[1] = rd_valid[2]
      /\ ShiftedValid[2] = rd_valid[3]
      /\ DOMAIN Shifted = Slots /\ DOMAIN ShiftedValid = Slots
  BY DEF Shifted, ShiftedValid, Slots
<1>2. CASE c = "READ"
  <2>1. /\ rd_data' = [Shifted EXCEPT ![3] = mem[<<ba, bank_row[ba], a>>]]
        /\ rd_valid' = [ShiftedValid EXCEPT ![3] = TRUE]
    BY <1>2 DEF DevClock, DevPipeline
  <2>2. mem' = mem
    BY <1>2 DEF DevClock, DevStore
  <2>3. QED BY <1>1, <2>1, <2>2 DEF Slots
<1>3. CASE c # "READ"
  <2>1. rd_data' = Shifted /\ rd_valid' = ShiftedValid
    BY <1>3 DEF DevClock, DevPipeline
  <2>2. c # "WRITE" => mem' = mem
    BY DEF DevClock, DevStore
  <2>3. QED BY <1>1, <1>3, <2>1, <2>2
<1>4. QED BY <1>2, <1>3

\* A clock cycle keeps DataInv: the controller captures each half in the cycle
\* in which the chip drives it.
LEMMA DataStep ==
  ASSUME CL = 3, TypeOK, RowInv, DataInv, FallingEdge,
         NEW sel, NEW addr, NEW wdata, NEW wstrb,
         CtrlClock(sel, addr, wdata, wstrb, DqSample)
  PROVE  DataInv'
<1> USE DEF latched, tracking, addrpins, datapins, answer, fsmvars, Goto, DataInv, Flies
<1>t. state \in States /\ is_write \in BOOLEAN /\ cnt \in 0 .. 7
  BY DEF TypeOK, CtrlTypeOK, FsmTypeOK, LatchTypeOK
<1>p. /\ rd_valid'[0] = rd_valid[1] /\ rd_data'[0] = rd_data[1]
      /\ rd_valid'[1] = rd_valid[2] /\ rd_data'[1] = rd_data[2]
      /\ rd_valid'[2] = rd_valid[3] /\ rd_data'[2] = rd_data[3]
      /\ cmd' = "READ" => /\ rd_valid'[3]
                          /\ rd_data'[3] = mem[<<sdram_ba', bank_row[sdram_ba'], sdram_a'>>]
      /\ cmd' # "WRITE" => mem' = mem
  BY PipelineShift DEF FallingEdge, TypeOK
<1>e. state \in {"S_RD_CMD0", "S_RD_CMD1"} =>
        /\ <<lat_ba, bank_row[lat_ba], lat_col_lo>> = CellLo(addr_lat)
        /\ <<lat_ba, bank_row[lat_ba], lat_col_hi>> = CellHi(addr_lat)
  <2>1. lat_ba \in Bank
    BY Slices, SizePositive DEF TypeOK, CtrlTypeOK, LatchTypeOK, lat_ba
  <2>2. state \in {"S_RD_CMD0", "S_RD_CMD1"} => bank_row[lat_ba] = lat_row
    BY <2>1 DEF RowInv, RowTracking, AccessStates
  <2>3. QED BY <2>2 DEF CellLo, CellHi, lat_ba, lat_row, lat_col_lo, lat_col_hi
<1>a. UNCHANGED addr_lat => /\ CellLo(addr_lat)' = CellLo(addr_lat)
                            /\ CellHi(addr_lat)' = CellHi(addr_lat)
  BY DEF CellLo, CellHi, BaOf, RowOf, ColLo, ColHi
<1>d. TRP \in 0 .. 7 /\ TRCD \in 0 .. 7 /\ (TWR + TRP) % 8 \in 0 .. 7
  BY TimingAssumption
<1>1. CASE InitWait
  BY <1>1, <1>t, <1>p, <1>a, <1>e, <1>d DEF InitWait
<1>2. CASE InitPre
  BY <1>2, <1>t, <1>p, <1>a, <1>e, <1>d DEF InitPre, PrechargeAll
<1>3. CASE InitPreW
  BY <1>3, <1>t, <1>p, <1>a, <1>e, <1>d DEF InitPreW, QuietNop, WaitClear
<1>4. CASE InitAr1
  BY <1>4, <1>t, <1>p, <1>a, <1>e, <1>d DEF InitAr1, Refresh
<1>5. CASE InitAr1W
  BY <1>5, <1>t, <1>p, <1>a, <1>e, <1>d DEF InitAr1W, QuietNop, WaitClear
<1>6. CASE InitAr2
  BY <1>6, <1>t, <1>p, <1>a, <1>e, <1>d DEF InitAr2, Refresh
<1>7. CASE InitAr2W
  BY <1>7, <1>t, <1>p, <1>a, <1>e, <1>d DEF InitAr2W, QuietNop, WaitClear
<1>8. CASE InitLmr
  BY <1>8, <1>t, <1>p, <1>a, <1>e, <1>d DEF InitLmr
<1>9. CASE InitLmrW
  BY <1>9, <1>t, <1>p, <1>a, <1>e, <1>d DEF InitLmrW, QuietNop, WaitKeep
<1>10. CASE Idle(sel, addr, wdata, wstrb)
  BY <1>10, <1>t, <1>p, <1>a, <1>e, <1>d DEF Idle, RowHit
<1>11. CASE RefPre
  BY <1>11, <1>t, <1>p, <1>a, <1>e, <1>d DEF RefPre, PrechargeAll
<1>12. CASE RefPreW
  BY <1>12, <1>t, <1>p, <1>a, <1>e, <1>d DEF RefPreW, QuietNop, WaitClear
<1>13. CASE RefAr
  BY <1>13, <1>t, <1>p, <1>a, <1>e, <1>d DEF RefAr, Refresh
<1>14. CASE RefArW
  BY <1>14, <1>t, <1>p, <1>a, <1>e, <1>d DEF RefArW, QuietNop, WaitKeep
<1>15. CASE PreOld
  BY <1>15, <1>t, <1>p, <1>a, <1>e, <1>d DEF PreOld
<1>16. CASE PreOldW
  BY <1>16, <1>t, <1>p, <1>a, <1>e, <1>d DEF PreOldW, QuietNop, WaitClear
<1>17. CASE Act
  BY <1>17, <1>t, <1>p, <1>a, <1>e, <1>d DEF Act
<1>18. CASE ActW
  BY <1>18, <1>t, <1>p, <1>a, <1>e, <1>d DEF ActW, QuietNop, WaitClear
<1>19. CASE RdCmd0
  BY <1>19, <1>t, <1>p, <1>a, <1>e, <1>d DEF RdCmd0, Column
<1>20. CASE RdNop1
  BY <1>20, <1>t, <1>p, <1>a, <1>e, <1>d DEF RdNop1, Pass, QuietNop
<1>21. CASE RdCmd1
  BY <1>21, <1>t, <1>p, <1>a, <1>e, <1>d DEF RdCmd1, Column
<1>22. CASE RdWait
  BY <1>22, <1>t, <1>p, <1>a, <1>e, <1>d DEF RdWait, Pass, QuietNop
<1>23. CASE RdCap0(DqSample)
  <2>1. state = "S_RD_CAP0" => DqSample = {rd_data[0]}
    BY DEF DqSample
  <2>2. data_lo' = mem[CellLo(addr_lat)] /\ state' = "S_RD_GAP" /\ cmd' = "NOP"
        /\ UNCHANGED <<addr_lat, is_write>>
    BY <1>23, <2>1 DEF RdCap0
  <2>3. Flies(2, CellHi(addr_lat)) /\ ~is_write
    BY <1>23 DEF RdCap0
  <2>4. QED BY <2>2, <2>3, <1>p, <1>a
<1>24. CASE RdGap
  BY <1>24, <1>t, <1>p, <1>a, <1>e, <1>d DEF RdGap, Pass, QuietNop
<1>25. CASE RdCap1(DqSample)
  <2>1. state = "S_RD_CAP1" => DqSample = {rd_data[0]}
    BY DEF DqSample
  <2>2. /\ rdata' = Joined(mem[CellLo(addr_lat)], mem[CellHi(addr_lat)])
        /\ state' = "S_RD_PRE_W" /\ cmd' = "NOP" /\ UNCHANGED <<addr_lat, is_write>>
    BY <1>25, <2>1 DEF RdCap1
  <2>3. ~is_write
    BY <1>25 DEF RdCap1
  <2>4. QED BY <2>2, <2>3, <1>p, <1>a
<1>26. CASE RdPreW
  BY <1>26, <1>t, <1>p, <1>a, <1>e, <1>d DEF RdPreW, QuietNop, WaitKeep
<1>27. CASE WrCmd0
  BY <1>27, <1>t, <1>p, <1>a, <1>e, <1>d DEF WrCmd0, Column
<1>28. CASE WrCmd1
  BY <1>28, <1>t, <1>p, <1>a, <1>e, <1>d DEF WrCmd1, Column
<1>29. CASE WrRec
  BY <1>29, <1>t, <1>p, <1>a, <1>e, <1>d DEF WrRec, QuietNop, WaitKeep
<1>30. CASE Done
  BY <1>30, <1>t, <1>p, <1>a, <1>e, <1>d DEF Done, Pass, QuietNop
<1>31. CASE DoneW
  BY <1>31, <1>t, <1>p, <1>a, <1>e, <1>d DEF DoneW, Pass, QuietNop
<1>q. QED
  BY <1>1, <1>2, <1>3, <1>4, <1>5, <1>6, <1>7, <1>8, <1>9, <1>10, <1>11, <1>12,
     <1>13, <1>14, <1>15, <1>16, <1>17, <1>18, <1>19, <1>20, <1>21, <1>22, <1>23,
     <1>24, <1>25, <1>26, <1>27, <1>28, <1>29, <1>30, <1>31
     DEF CtrlClock, Initialise, RefreshRow, OpenRow, Read, Write, Finish

\* DataInv holds always.
LEMMA DataInvariant ==
  ASSUME CL = 3
  PROVE  Spec => []DataInv
<1>1. Init => DataInv
  BY DEF Init, CtrlInit, DataInv
<1>2. TypeOK /\ ResetInv /\ RowInv /\ DataInv /\ [Next]_vars => DataInv'
  <2> SUFFICES ASSUME TypeOK, ResetInv, RowInv, DataInv, [Next]_vars PROVE DataInv'
    OBVIOUS
  <2>1. CASE Tick
    BY <2>1, DataStep DEF Tick
  <2>2. CASE PorTick
    <3>1. state' = "S_INIT_WAIT"
      BY <2>2 DEF PorTick, ResetInv, ctrlVars
    <3>2. QED BY <3>1 DEF DataInv
  <2>3. CASE KeyReset
    <3>1. state' = "S_INIT_WAIT"
      BY <2>3 DEF KeyReset, CtrlReset
    <3>2. QED BY <3>1 DEF DataInv
  <2>4. CASE UNCHANGED vars
    <3>1. UNCHANGED <<state, is_write, dq_oe, addr_lat, rd_valid, rd_data, mem, data_lo,
                      rdata>>
      BY <2>4 DEF vars, ctrlVars, devVars, latched, datapins, answer
    <3>2. CellLo(addr_lat)' = CellLo(addr_lat) /\ CellHi(addr_lat)' = CellHi(addr_lat)
      BY <3>1 DEF CellLo, CellHi, BaOf, RowOf, ColLo, ColHi
    <3>3. QED BY <3>1, <3>2 DEF DataInv, Flies
  <2>5. QED BY <2>1, <2>2, <2>3, <2>4 DEF Next
<1>3. QED BY <1>1, <1>2, RowInvariant, PTL DEF Spec

-----------------------------------------------------------------------------
(* The steps of the memory.                                                *)

\* What a clock cycle does to the chip's cells and to the halves counted as
\* written: one half in S_WR_CMD0, the other in S_WR_CMD1, both are over after
\* S_DONE_W, and nothing else changes them.
LEMMA WriteStep ==
  ASSUME TypeOK, RowInv, DataInv, FallingEdge,
         NEW sel, NEW addr, NEW wdata, NEW wstrb, NEW dq,
         CtrlClock(sel, addr, wdata, wstrb, dq)
  PROVE  \/ /\ state = "S_WR_CMD0" /\ is_write
            /\ ~LoWritten /\ ~HiWritten /\ LoWritten' /\ ~HiWritten'
            /\ mem' = [mem EXCEPT ![CellLo(addr_lat)] =
                         Masked(@, LoHalf(wdata_lat), DqmLo(wstrb_lat))]
         \/ /\ state = "S_WR_CMD1" /\ is_write
            /\ LoWritten /\ ~HiWritten /\ LoWritten' /\ HiWritten'
            /\ mem' = [mem EXCEPT ![CellHi(addr_lat)] =
                         Masked(@, HiHalf(wdata_lat), DqmHi(wstrb_lat))]
         \/ /\ state = "S_DONE_W" /\ ~LoWritten' /\ ~HiWritten' /\ mem' = mem
            /\ (LoWritten <=> is_write) /\ (HiWritten <=> is_write)
         \/ /\ state \notin {"S_WR_CMD0", "S_WR_CMD1", "S_DONE_W"} /\ mem' = mem
            /\ (LoWritten' <=> LoWritten) /\ (HiWritten' <=> HiWritten)
<1> USE DEF latched, tracking, addrpins, datapins, answer, fsmvars, Goto
<1>t. state \in States /\ is_write \in BOOLEAN /\ cnt \in 0 .. 7
  BY DEF TypeOK, CtrlTypeOK, FsmTypeOK, LatchTypeOK
<1>m. cmd' # "WRITE" => mem' = mem
  BY DEF FallingEdge, DevClock, DevStore
<1>d. TRP \in 0 .. 7 /\ TRCD \in 0 .. 7 /\ (TWR + TRP) % 8 \in 0 .. 7
  BY TimingAssumption
<1>w. ASSUME cmd' = "WRITE", dq_oe'
      PROVE  mem' = [mem EXCEPT ![<<sdram_ba', bank_row[sdram_ba'], sdram_a'>>] =
                       Masked(@, dq_out', sdram_dqm')]
  <2>1. DevStore(cmd', sdram_ba', sdram_a', sdram_dqm', {dq_out'})
    BY <1>w DEF FallingEdge, DevClock
  <2>2. \E h \in {dq_out'} :
          mem' = [mem EXCEPT ![<<sdram_ba', bank_row[sdram_ba'], sdram_a'>>] =
                    Masked(@, h, sdram_dqm')]
    BY <1>w, <2>1 DEF DevStore
  <2>3. QED BY <2>2
<1>e. state \in {"S_WR_CMD0", "S_WR_CMD1"} =>
        /\ <<lat_ba, bank_row[lat_ba], lat_col_lo>> = CellLo(addr_lat)
        /\ <<lat_ba, bank_row[lat_ba], lat_col_hi>> = CellHi(addr_lat)
  <2>1. lat_ba \in Bank
    BY Slices, SizePositive DEF TypeOK, CtrlTypeOK, LatchTypeOK, lat_ba
  <2>2. state \in {"S_WR_CMD0", "S_WR_CMD1"} => bank_row[lat_ba] = lat_row
    BY <2>1 DEF RowInv, RowTracking, AccessStates
  <2>3. QED BY <2>2 DEF CellLo, CellHi, lat_ba, lat_row, lat_col_lo, lat_col_hi
<1> USE DEF LoWritten, HiWritten
<1>1. CASE InitWait
  BY <1>1, <1>t, <1>m, <1>d DEF InitWait
<1>2. CASE InitPre
  BY <1>2, <1>t, <1>m, <1>d DEF InitPre, PrechargeAll
<1>3. CASE InitPreW
  BY <1>3, <1>t, <1>m, <1>d DEF InitPreW, QuietNop, WaitClear
<1>4. CASE InitAr1
  BY <1>4, <1>t, <1>m, <1>d DEF InitAr1, Refresh
<1>5. CASE InitAr1W
  BY <1>5, <1>t, <1>m, <1>d DEF InitAr1W, QuietNop, WaitClear
<1>6. CASE InitAr2
  BY <1>6, <1>t, <1>m, <1>d DEF InitAr2, Refresh
<1>7. CASE InitAr2W
  BY <1>7, <1>t, <1>m, <1>d DEF InitAr2W, QuietNop, WaitClear
<1>8. CASE InitLmr
  BY <1>8, <1>t, <1>m, <1>d DEF InitLmr
<1>9. CASE InitLmrW
  BY <1>9, <1>t, <1>m, <1>d DEF InitLmrW, QuietNop, WaitKeep
<1>10. CASE Idle(sel, addr, wdata, wstrb)
  BY <1>10, <1>t, <1>m, <1>d DEF Idle, RowHit
<1>11. CASE RefPre
  BY <1>11, <1>t, <1>m, <1>d DEF RefPre, PrechargeAll
<1>12. CASE RefPreW
  BY <1>12, <1>t, <1>m, <1>d DEF RefPreW, QuietNop, WaitClear
<1>13. CASE RefAr
  BY <1>13, <1>t, <1>m, <1>d DEF RefAr, Refresh
<1>14. CASE RefArW
  BY <1>14, <1>t, <1>m, <1>d DEF RefArW, QuietNop, WaitKeep
<1>15. CASE PreOld
  BY <1>15, <1>t, <1>m, <1>d DEF PreOld
<1>16. CASE PreOldW
  BY <1>16, <1>t, <1>m, <1>d DEF PreOldW, QuietNop, WaitClear
<1>17. CASE Act
  BY <1>17, <1>t, <1>m, <1>d DEF Act
<1>18. CASE ActW
  BY <1>18, <1>t, <1>m, <1>d DEF ActW, QuietNop, WaitClear
<1>19. CASE RdCmd0
  BY <1>19, <1>t, <1>m, <1>d DEF RdCmd0, Column
<1>20. CASE RdNop1
  BY <1>20, <1>t, <1>m, <1>d DEF RdNop1, Pass, QuietNop
<1>21. CASE RdCmd1
  BY <1>21, <1>t, <1>m, <1>d DEF RdCmd1, Column
<1>22. CASE RdWait
  BY <1>22, <1>t, <1>m, <1>d DEF RdWait, Pass, QuietNop
<1>23. CASE RdCap0(dq)
  BY <1>23, <1>t, <1>m, <1>d DEF RdCap0
<1>24. CASE RdGap
  BY <1>24, <1>t, <1>m, <1>d DEF RdGap, Pass, QuietNop
<1>25. CASE RdCap1(dq)
  BY <1>25, <1>t, <1>m, <1>d DEF RdCap1
<1>26. CASE RdPreW
  <2>1. ~is_write /\ state = "S_RD_PRE_W"
    BY <1>26 DEF RdPreW, DataInv
  <2>2. QED BY <1>26, <2>1, <1>t, <1>m, <1>d DEF RdPreW, QuietNop, WaitKeep
<1>27. CASE WrCmd0
  <2>1. /\ state = "S_WR_CMD0" /\ state' = "S_WR_CMD1" /\ is_write' = is_write
        /\ cmd' = "WRITE" /\ dq_oe' /\ sdram_ba' = lat_ba /\ sdram_a' = lat_col_lo
        /\ dq_out' = LoHalf(wdata_lat) /\ sdram_dqm' = DqmLo(wstrb_lat)
    BY <1>27 DEF WrCmd0, Column
  <2>2. is_write
    BY <2>1 DEF DataInv
  <2>3. QED BY <2>1, <2>2, <1>w, <1>e
<1>28. CASE WrCmd1
  <2>1. /\ state = "S_WR_CMD1" /\ state' = "S_WR_REC" /\ is_write' = is_write
        /\ cmd' = "WRITE" /\ dq_oe' = dq_oe /\ sdram_ba' = lat_ba
        /\ sdram_a' = lat_col_hi
        /\ dq_out' = HiHalf(wdata_lat) /\ sdram_dqm' = DqmHi(wstrb_lat)
    BY <1>28 DEF WrCmd1, Column
  <2>2. is_write /\ dq_oe
    BY <2>1 DEF DataInv
  <2>3. QED BY <2>1, <2>2, <1>w, <1>e
<1>29. CASE WrRec
  BY <1>29, <1>t, <1>m, <1>d DEF WrRec, QuietNop, WaitKeep
<1>30. CASE Done
  BY <1>30, <1>t, <1>m, <1>d DEF Done, Pass, QuietNop
<1>31. CASE DoneW
  BY <1>31, <1>t, <1>m, <1>d DEF DoneW, Pass, QuietNop
<1>q. QED
  BY <1>1, <1>2, <1>3, <1>4, <1>5, <1>6, <1>7, <1>8, <1>9, <1>10, <1>11, <1>12,
     <1>13, <1>14, <1>15, <1>16, <1>17, <1>18, <1>19, <1>20, <1>21, <1>22, <1>23,
     <1>24, <1>25, <1>26, <1>27, <1>28, <1>29, <1>30, <1>31
     DEF CtrlClock, Initialise, RefreshRow, OpenRow, Read, Write, Finish

\* What the bridge shows as read data.
LEMMA ReadDataStep ==
  ASSUME BridgeClock
  PROVE  /\ pending /\ ready => xbus_dat_r' = rdata
         /\ pending /\ ~ready => xbus_dat_r' = xbus_dat_r
         /\ ~pending /\ Strobe /\ ~InSdram(xbus_adr) => xbus_dat_r' = ZeroWord
         /\ ~pending /\ Strobe /\ InSdram(xbus_adr) => xbus_dat_r' = xbus_dat_r /\ pending'
         /\ ~pending /\ ~Strobe => xbus_dat_r' = xbus_dat_r
  BY DEF BridgeClock, BridgeAccept, BridgeReject, BridgeAnswer, BridgeQuiet

\* What the master puts on the bus is one of the requests.
LEMMA NewOnBus ==
  ASSUME MasterClock, xbus_cyc', xbus_stb'
  PROVE  OnBus' \in Requests
<1>1. MasterStart
  BY DEF MasterClock, MasterIdle, MasterHold, MasterTimeout
<1>2. PICK r \in Requests : /\ xbus_adr' = r.adr /\ xbus_we' = r.we
                            /\ xbus_sel' = r.sel /\ xbus_dat_w' = r.dat
  BY <1>1 DEF MasterStart
<1>3. OnBus' = [adr |-> r.adr, we |-> r.we, sel |-> r.sel, dat |-> r.dat]
  BY <1>2 DEF OnBus
<1>4. r = [adr |-> r.adr, we |-> r.we, sel |-> r.sel, dat |-> r.dat]
  BY RequestAssumption DEF RequestType
<1>5. QED BY <1>3, <1>4

\* A request on the bus is none of the values that stand for an idle bus.
LEMMA OnBusRequest ==
  ASSUME TypeOK, xbus_cyc
  PROVE  /\ OnBus # NoRequest
         /\ OnBus = [adr |-> xbus_adr, we |-> xbus_we, sel |-> xbus_sel,
                     dat |-> xbus_dat_w]
<1>1. OnBus = [adr |-> xbus_adr, we |-> xbus_we, sel |-> xbus_sel, dat |-> xbus_dat_w]
  BY DEF OnBus
<1>2. OnBus \in RequestType
  BY <1>1 DEF TypeOK, RequestType
<1>3. QED BY <1>1, <1>2, RequestAssumption

\* While the controller serves a request, the latched address, data and strobes
\* are those of the request as the memory sees it.
LEMMA ServedRequest ==
  ASSUME TypeOK, BusInv, state \in ServingStates
  PROVE  /\ pending /\ xbus_cyc /\ ~xbus_ack /\ InSdram(xbus_adr)
         /\ addr_lat \div 4 \in Words /\ addr_lat \in Nat
         /\ Memory!WordOf(OnBus) = addr_lat \div 4
         /\ Memory!Inside(OnBus) /\ Memory!Serving
         /\ Memory!IsWrite(OnBus) <=> is_write
         /\ is_write => OnBus.sel = wstrb_lat /\ OnBus.dat = wdata_lat
<1>1. /\ pending /\ xbus_cyc /\ ~xbus_ack /\ InSdram(xbus_adr)
      /\ addr_lat = SdramAddr(xbus_adr) /\ wdata_lat = xbus_dat_w
      /\ wstrb_lat = CtrlStrobes /\ is_write = (CtrlStrobes # {})
  BY DEF BusInv, ServesTheRequest, ServingStates
<1>2. addr_lat \in 0 .. SDRAM_SIZE - 1 /\ addr_lat \in Nat /\ addr_lat \div 4 \in Words
  BY WordCount, SizePositive DEF TypeOK, CtrlTypeOK, LatchTypeOK
<1>3. /\ OnBus # NoRequest
      /\ OnBus = [adr |-> xbus_adr, we |-> xbus_we, sel |-> xbus_sel, dat |-> xbus_dat_w]
  BY <1>1, OnBusRequest
<1>4. OnBus.adr = xbus_adr /\ OnBus.we = xbus_we /\ OnBus.sel = xbus_sel
      /\ OnBus.dat = xbus_dat_w
  BY <1>3
<1>5. Memory!WordOf(OnBus) = addr_lat \div 4
  BY <1>1, <1>4 DEF Memory!WordOf, SdramAddr
<1>6. Memory!Inside(OnBus)
  BY <1>1, <1>4 DEF Memory!Inside, InSdram
<1>7. Memory!IsWrite(OnBus) <=> is_write
  <2>1. is_write <=> xbus_we /\ xbus_sel # {}
    BY <1>1 DEF CtrlStrobes, TypeOK
  <2>2. QED BY <2>1, <1>4 DEF Memory!IsWrite
<1>8. is_write => OnBus.sel = wstrb_lat /\ OnBus.dat = wdata_lat
  BY <1>1, <1>4 DEF CtrlStrobes
<1>9. Memory!Serving
  BY <1>1, <1>3, <1>6 DEF Memory!Serving
<1>10. QED BY <1>1, <1>2, <1>5, <1>6, <1>7, <1>8, <1>9

\* A cycle that sends no WRITE and whose flags stay leaves the stored words.
LEMMA StoreUnchanged == ASSUME mem' = mem PROVE WordStore' = WordStore
  BY DEF WordStore

\* Every clock cycle is a step of the memory or changes nothing of it.
LEMMA TickImplements ==
  ASSUME BusAssumptions, CL = 3, TypeOK, RowInv, RefreshInv, BusInv, LatencyInv, DataInv,
         Tick
  PROVE  [Memory!Next]_(Memory!vars)
<1>t. /\ state \in States /\ pending \in BOOLEAN /\ xbus_ack \in BOOLEAN
      /\ mem \in [Cells -> Half] /\ wdata_lat \in Word /\ wstrb_lat \in SUBSET Lane
      /\ rdata \in Word /\ is_write \in BOOLEAN /\ ready \in BOOLEAN
  BY DEF TypeOK, CtrlTypeOK, FsmTypeOK, LatchTypeOK, AnswerTypeOK, BridgeTypeOK, DevTypeOK
<1>c. /\ CtrlClock(pending, SdramAddr(xbus_adr), xbus_dat_w, CtrlStrobes, DqSample)
      /\ MasterClock /\ BridgeClock /\ FallingEdge
  BY DEF Tick
<1>a. AnswerDue \in Nat /\ (pending => AnswerDue > 0)
  BY AnswerDueNat DEF BusInv, RefreshInv
<1>h. \/ /\ xbus_cyc /\ xbus_stb /\ ~pending /\ xbus_cyc' /\ ~xbus_stb' /\ m_wait' = 1
         /\ UNCHANGED <<xbus_adr, xbus_we, xbus_sel, xbus_dat_w>>
         /\ \/ InSdram(xbus_adr) /\ pending' /\ ~xbus_ack'
            \/ ~pending' /\ xbus_ack'
      \/ /\ pending /\ xbus_cyc' /\ ~xbus_stb' /\ m_wait' = m_wait + 1
         /\ UNCHANGED <<xbus_adr, xbus_we, xbus_sel, xbus_dat_w>>
         /\ \/ ~ready /\ pending' /\ ~xbus_ack'
            \/ ready /\ ~pending' /\ xbus_ack'
      \/ /\ ~pending /\ ~pending' /\ ~xbus_ack' /\ m_wait' = 0
         /\ \/ ~xbus_cyc' /\ ~xbus_stb'
            \/ xbus_cyc' /\ xbus_stb' /\ initialized
  BY <1>a, <1>c, HandshakeStep
<1>w. \/ /\ state = "S_WR_CMD0" /\ is_write
         /\ ~LoWritten /\ ~HiWritten /\ LoWritten' /\ ~HiWritten'
         /\ mem' = [mem EXCEPT ![CellLo(addr_lat)] =
                      Masked(@, LoHalf(wdata_lat), DqmLo(wstrb_lat))]
      \/ /\ state = "S_WR_CMD1" /\ is_write
         /\ LoWritten /\ ~HiWritten /\ LoWritten' /\ HiWritten'
         /\ mem' = [mem EXCEPT ![CellHi(addr_lat)] =
                      Masked(@, HiHalf(wdata_lat), DqmHi(wstrb_lat))]
      \/ /\ state = "S_DONE_W" /\ ~LoWritten' /\ ~HiWritten' /\ mem' = mem
         /\ (LoWritten <=> is_write) /\ (HiWritten <=> is_write)
      \/ /\ state \notin {"S_WR_CMD0", "S_WR_CMD1", "S_DONE_W"} /\ mem' = mem
         /\ (LoWritten' <=> LoWritten) /\ (HiWritten' <=> HiWritten)
  BY <1>c, WriteStep
<1>d. /\ pending /\ ready => xbus_dat_r' = rdata
      /\ pending /\ ~ready => xbus_dat_r' = xbus_dat_r
      /\ ~pending /\ Strobe /\ ~InSdram(xbus_adr) => xbus_dat_r' = ZeroWord
      /\ ~pending /\ Strobe /\ InSdram(xbus_adr) => xbus_dat_r' = xbus_dat_r /\ pending'
      /\ ~pending /\ ~Strobe => xbus_dat_r' = xbus_dat_r
  BY <1>c, ReadDataStep
<1>y. ready <=> state = "S_DONE_W"
  BY DEF BusInv
<1>s. state \in ServingStates => pending
  BY DEF BusInv, ServesTheRequest, ServingStates
<1>b. LoWritten \in BOOLEAN /\ HiWritten \in BOOLEAN /\ LoWritten' \in BOOLEAN
      /\ HiWritten' \in BOOLEAN
  <2>1. is_write' \in BOOLEAN
    BY TypeStep DEF Next, TypeOK, CtrlTypeOK, LatchTypeOK
  <2>2. QED BY <2>1, <1>t DEF LoWritten, HiWritten
<1>z. Memory!Zero = ZeroWord /\ Memory!WordType = Word
  BY DEF Memory!Zero, Memory!WordType, ZeroWord, Word, Lane
<1>1. CASE state \in {"S_WR_CMD0", "S_WR_CMD1"}
  <2>1. state \in ServingStates
    BY <1>1 DEF ServingStates, AccessStates
  <2>2. /\ pending /\ xbus_cyc /\ ~xbus_ack
        /\ addr_lat \div 4 \in Words /\ addr_lat \in Nat
        /\ Memory!WordOf(OnBus) = addr_lat \div 4 /\ Memory!Serving
        /\ Memory!IsWrite(OnBus) <=> is_write
        /\ is_write => OnBus.sel = wstrb_lat /\ OnBus.dat = wdata_lat
    BY <2>1, ServedRequest
  <2>3. ~ready
    BY <1>1, <1>y
  <2>4. /\ xbus_cyc' /\ ~xbus_ack' /\ UNCHANGED <<xbus_adr, xbus_we, xbus_sel, xbus_dat_w>>
        /\ xbus_dat_r' = xbus_dat_r
    BY <2>2, <2>3, <1>h, <1>d
  <2>5. OnBus' = OnBus /\ xbus_ack' = xbus_ack
    <3>1. xbus_ack' \in BOOLEAN
      BY TypeStep DEF Next, TypeOK, BridgeTypeOK
    <3>2. QED BY <2>2, <2>4, <3>1, <1>t DEF OnBus
  <2>6. /\ CellLo(4 * (addr_lat \div 4)) = CellLo(addr_lat)
        /\ CellHi(4 * (addr_lat \div 4)) = CellHi(addr_lat)
    BY <2>2, CellsOfWord
  <2>7. CASE state = "S_WR_CMD0"
    <3>1. /\ ~LoWritten /\ ~HiWritten /\ LoWritten' /\ ~HiWritten' /\ is_write
          /\ mem' = [mem EXCEPT ![CellLo(4 * (addr_lat \div 4))] =
                       Masked(@, LoHalf(wdata_lat), DqmLo(wstrb_lat))]
      BY <2>6, <2>7, <1>w
    <3>2. WordStore' = [WordStore EXCEPT ![addr_lat \div 4] =
            [i \in 0 .. 3 |-> IF i \in wstrb_lat \cap {0, 1} THEN wdata_lat[i] ELSE @[i]]]
      BY <3>1, <2>2, <1>t, StoreLo
    <3>3. Memory!StoreLanes({0, 1})
      BY <3>1, <3>2, <2>2, Zenon DEF Memory!StoreLanes
    <3>4. Memory!WriteLo
      BY <3>1, <3>3, <2>2, <2>4, <2>5, <1>b DEF Memory!WriteLo
    <3>5. QED BY <3>4 DEF Memory!Next
  <2>8. CASE state = "S_WR_CMD1"
    <3>1. /\ LoWritten /\ ~HiWritten /\ LoWritten' /\ HiWritten' /\ is_write
          /\ mem' = [mem EXCEPT ![CellHi(4 * (addr_lat \div 4))] =
                       Masked(@, HiHalf(wdata_lat), DqmHi(wstrb_lat))]
      BY <2>6, <2>8, <1>w
    <3>2. WordStore' = [WordStore EXCEPT ![addr_lat \div 4] =
            [i \in 0 .. 3 |-> IF i \in wstrb_lat \cap {2, 3} THEN wdata_lat[i] ELSE @[i]]]
      BY <3>1, <2>2, <1>t, StoreHi
    <3>3. Memory!StoreLanes({2, 3})
      BY <3>1, <3>2, <2>2, Zenon DEF Memory!StoreLanes
    <3>4. Memory!WriteHi
      BY <3>1, <3>3, <2>2, <2>4, <2>5, <1>b DEF Memory!WriteHi
    <3>5. QED BY <3>4 DEF Memory!Next
  <2>9. QED BY <1>1, <2>7, <2>8
<1>2. CASE state = "S_DONE_W"
  <2>1. state \in ServingStates
    BY <1>2 DEF ServingStates, AccessStates
  <2>2. /\ pending /\ xbus_cyc /\ ~xbus_ack
        /\ addr_lat \div 4 \in Words /\ addr_lat \in Nat
        /\ Memory!WordOf(OnBus) = addr_lat \div 4 /\ Memory!Serving
        /\ Memory!IsWrite(OnBus) <=> is_write
    BY <2>1, ServedRequest
  <2>3. /\ xbus_cyc' /\ xbus_ack' /\ UNCHANGED <<xbus_adr, xbus_we, xbus_sel, xbus_dat_w>>
        /\ xbus_dat_r' = rdata
    BY <1>2, <2>2, <1>y, <1>h, <1>d
  <2>4. OnBus' = OnBus
    BY <2>2, <2>3 DEF OnBus
  <2>5. /\ ~LoWritten' /\ ~HiWritten' /\ WordStore' = WordStore
        /\ (LoWritten <=> is_write) /\ (HiWritten <=> is_write)
    BY <1>2, <1>w, StoreUnchanged
  <2>6. xbus_ack' = TRUE
    BY <2>3, TypeStep DEF Next, TypeOK, BridgeTypeOK
  <2>7. CASE is_write
    <3>1. Memory!AnswerWrite
      BY <2>2, <2>3, <2>4, <2>5, <2>6, <2>7, <1>b, <1>t, <1>z DEF Memory!AnswerWrite
    <3>2. QED BY <3>1 DEF Memory!Next
  <2>8. CASE ~is_write
    <3>1. rdata = Joined(mem[CellLo(addr_lat)], mem[CellHi(addr_lat)])
      BY <1>2, <2>8 DEF DataInv
    <3>2. rdata = WordStore[addr_lat \div 4]
      BY <3>1, <2>2, CellsOfWord DEF WordStore, Words
    <3>3. Memory!AnswerRead
      BY <3>2, <2>2, <2>3, <2>4, <2>5, <2>6, <2>8, <1>b DEF Memory!AnswerRead
    <3>4. QED BY <3>3 DEF Memory!Next
  <2>9. QED BY <2>7, <2>8
<1>3. CASE state \notin {"S_WR_CMD0", "S_WR_CMD1", "S_DONE_W"}
  <2>1. /\ WordStore' = WordStore /\ LoWritten' = LoWritten /\ HiWritten' = HiWritten
        /\ ~ready
    BY <1>3, <1>w, <1>b, <1>y, StoreUnchanged
  <2>2. CASE pending
    <3>1. xbus_cyc /\ ~xbus_ack
      BY <2>2 DEF BusInv
    <3>2. /\ xbus_cyc' /\ ~xbus_ack' /\ xbus_dat_r' = xbus_dat_r
          /\ UNCHANGED <<xbus_adr, xbus_we, xbus_sel, xbus_dat_w>>
      BY <2>1, <2>2, <1>h, <1>d
    <3>3. OnBus' = OnBus /\ xbus_ack' = xbus_ack
      <4>1. xbus_ack' \in BOOLEAN
        BY TypeStep DEF Next, TypeOK, BridgeTypeOK
      <4>2. QED BY <3>1, <3>2, <4>1, <1>t DEF OnBus
    <3>4. QED BY <2>1, <3>2, <3>3 DEF Memory!vars
  <2>3. CASE ~pending /\ xbus_cyc /\ xbus_stb
    <3>1. ~xbus_ack /\ Strobe
      BY <2>3 DEF BusInv, Strobe
    <3>2. xbus_cyc' /\ UNCHANGED <<xbus_adr, xbus_we, xbus_sel, xbus_dat_w>>
      <4>1. pending' \/ xbus_ack'
        BY <2>3, <3>1, <1>c DEF BridgeClock, BridgeAccept, BridgeReject, BridgeAnswer,
           BridgeQuiet
      <4>2. QED BY <2>3, <4>1, <1>h
    <3>3. OnBus' = OnBus
      BY <2>3, <3>2 DEF OnBus
    <3>4. xbus_ack' \in BOOLEAN /\ pending' \in BOOLEAN
      BY TypeStep DEF Next, TypeOK, BridgeTypeOK
    <3>5. CASE InSdram(xbus_adr)
      <4>1. xbus_dat_r' = xbus_dat_r /\ pending'
        BY <2>3, <3>1, <3>5, <1>d
      <4>2. ~xbus_ack'
        BY <4>1, <1>h
      <4>3. QED BY <2>1, <3>1, <3>3, <3>4, <4>1, <4>2, <1>t DEF Memory!vars
    <3>6. CASE ~InSdram(xbus_adr)
      <4>1. xbus_dat_r' = ZeroWord
        BY <2>3, <3>1, <3>6, <1>d
      <4>2. xbus_ack'
        BY <2>3, <3>1, <3>2, <3>6, <1>c DEF BridgeClock, BridgeAccept, BridgeReject,
           BridgeAnswer, BridgeQuiet
      <4>3. OnBus # NoRequest /\ OnBus.adr = xbus_adr
        BY <2>3, OnBusRequest
      <4>4. ~Memory!Inside(OnBus)
        BY <4>3, <3>6 DEF Memory!Inside, InSdram
      <4>5. Memory!AnswerOutside
        BY <2>1, <3>1, <3>3, <3>4, <4>1, <4>2, <4>3, <4>4, <1>z
           DEF Memory!AnswerOutside
      <4>6. QED BY <4>5 DEF Memory!Next
    <3>7. QED BY <3>5, <3>6
  <2>4. CASE ~pending /\ ~(xbus_cyc /\ xbus_stb)
    <3>1. /\ ~xbus_ack' /\ xbus_dat_r' = xbus_dat_r
          /\ \/ ~xbus_cyc' /\ ~xbus_stb'
             \/ xbus_cyc' /\ xbus_stb'
      BY <2>4, <1>h, <1>d DEF Strobe
    <3>2. OnBus = NoRequest \/ xbus_ack
      BY <2>4 DEF BusInv, OnBus
    <3>3. OnBus' \in Requests \cup {NoRequest}
      <4>1. CASE xbus_cyc' /\ xbus_stb'
        BY <4>1, <1>c, NewOnBus
      <4>2. CASE ~xbus_cyc'
        BY <4>2 DEF OnBus
      <4>3. QED BY <3>1, <4>1, <4>2
    <3>4. xbus_ack' = FALSE
      BY <3>1, TypeStep DEF Next, TypeOK, BridgeTypeOK
    <3>5. Memory!Request
      BY <2>1, <3>1, <3>2, <3>3, <3>4 DEF Memory!Request
    <3>6. QED BY <3>5 DEF Memory!Next
  <2>5. QED BY <2>2, <2>3, <2>4, <1>t
<1>4. QED BY <1>1, <1>2, <1>3

\* So is every other step: KEY2 is a reset of the memory's interface, and the
\* cycles in reset change nothing.
LEMMA StepImplements ==
  ASSUME BusAssumptions, CL = 3, TypeOK, ResetInv, RowInv, RefreshInv, BusInv, LatencyInv,
         DataInv, [Next]_vars
  PROVE  [Memory!Next]_(Memory!vars)
<1>1. CASE Tick
  BY <1>1, TickImplements
<1>2. CASE PorTick
  <2>1. cmd = "INHIBIT"
    BY <1>2 DEF PorTick, ResetInv
  <2>2. mem' = mem
    BY <1>2, <2>1 DEF PorTick, DevClock, DevStore
  <2>3. UNCHANGED <<xbus_cyc, xbus_adr, xbus_we, xbus_sel, xbus_dat_w, xbus_ack,
                    xbus_dat_r, state, is_write>>
    BY <1>2 DEF PorTick, ctrlVars, latched, xbusVars, bridgeVars
  <2>4. OnBus' = OnBus /\ LoWritten' = LoWritten /\ HiWritten' = HiWritten
    BY <2>3 DEF OnBus, LoWritten, HiWritten
  <2>5. QED BY <2>2, <2>3, <2>4, StoreUnchanged DEF Memory!vars
<1>3. CASE KeyReset
  <2>1. /\ state' = "S_INIT_WAIT" /\ is_write' = FALSE /\ xbus_cyc' = FALSE
        /\ xbus_ack' = FALSE /\ xbus_dat_r' = ZeroWord /\ mem' = mem
    BY <1>3 DEF KeyReset, CtrlReset, BridgeReset, devVars
  <2>2. OnBus' = NoRequest /\ LoWritten' = FALSE /\ HiWritten' = FALSE
    BY <2>1 DEF OnBus, LoWritten, HiWritten
  <2>3. Memory!Zero = ZeroWord
    BY DEF Memory!Zero, ZeroWord, Lane
  <2>4. Memory!Reset
    BY <2>1, <2>2, <2>3, StoreUnchanged DEF Memory!Reset
  <2>5. QED BY <2>4 DEF Memory!Next
<1>4. CASE UNCHANGED vars
  <2>1. UNCHANGED <<xbus_cyc, xbus_adr, xbus_we, xbus_sel, xbus_dat_w, xbus_ack,
                    xbus_dat_r, state, is_write, mem>>
    BY <1>4 DEF vars, ctrlVars, devVars, latched, xbusVars, bridgeVars
  <2>2. OnBus' = OnBus /\ LoWritten' = LoWritten /\ HiWritten' = HiWritten
    BY <2>1 DEF OnBus, LoWritten, HiWritten
  <2>3. QED BY <2>1, <2>2, StoreUnchanged DEF Memory!vars
<1>5. QED BY <1>1, <1>2, <1>3, <1>4 DEF Next

\* The memory starts as XbusMemory says.
LEMMA InitImplements == Init => Memory!Init
<1> SUFFICES ASSUME Init PROVE Memory!Init
  OBVIOUS
<1>1. /\ mem = [c \in Cells |-> ZeroHalf] /\ xbus_cyc = FALSE /\ xbus_ack = FALSE
      /\ xbus_dat_r = ZeroWord /\ is_write = FALSE /\ state = "S_INIT_WAIT"
  BY DEF Init, DevInit, CtrlInit, BridgeInit
<1>2. OnBus = NoRequest /\ LoWritten = FALSE /\ HiWritten = FALSE
  BY <1>1 DEF OnBus, LoWritten, HiWritten
<1>3. Joined(ZeroHalf, ZeroHalf) = Memory!Zero /\ ZeroWord = Memory!Zero
  BY DEF Joined, ZeroHalf, ZeroWord, Memory!Zero, Lane
<1>4. WordStore = [w \in Memory!Words |-> Memory!Zero]
  <2>1. ASSUME NEW w \in Words
        PROVE  Joined(mem[CellLo(4 * w)], mem[CellHi(4 * w)]) = Memory!Zero
    BY <1>1, <1>3, CellsDiffer
  <2>2. Memory!Words = Words
    BY DEF Memory!Words, Words
  <2>3. QED BY <2>1, <2>2 DEF WordStore, Words
<1>5. QED BY <1>1, <1>2, <1>3, <1>4 DEF Memory!Init

\* For every geometry, timing and set of requests, the bridge, the page-mode
\* controller and the chip are the plain memory of XbusMemory, if the CPU uses
\* it after the initialisation, waits for the answer, and the chip has the CAS
\* latency of 3 the controller captures at.
THEOREM MemoryIsImplemented ==
  ASSUME BusAssumptions, CL = 3
  PROVE  Spec => ImplementsMemory
<1>1. Init => Memory!Init
  BY InitImplements
<1>2. TypeOK /\ ResetInv /\ RowInv /\ RefreshInv /\ BusInv /\ LatencyInv /\ DataInv
        /\ [Next]_vars => [Memory!Next]_(Memory!vars)
  BY StepImplements
<1>3. QED
  BY <1>1, <1>2, RowInvariant, RefreshInvariant, BusInvariant, DataInvariant, PTL
     DEF Spec, ImplementsMemory, Memory!Spec
=============================================================================
