----------------------------- MODULE JtagProofs -----------------------------
(* Proofs about class Jtag on a chain of devices: whatever the lengths of    *)
(* the shifts and the chain, the state it tracks is the state of the ports,  *)
(* and a shift loads the register of the selected device.  No theorem of     *)
(* induction can be cited for a property, so that induction is over sets of  *)
(* numbers, and the folds are shown to satisfy their equations by it.        *)
EXTENDS JtagSystem, SequenceTheorems, WellFoundedInduction, TLAPS

\* Induction: a set that holds 0 and with a number the next one holds all.
LEMMA Induction ==
    ASSUME NEW S, 0 \in S, \A n \in Nat : n \in S => n + 1 \in S
    PROVE  \A n \in Nat : n \in S
<1>1. SUFFICES ASSUME Nat \ S # {} PROVE FALSE OBVIOUS
<1> DEFINE R == OpToRel(<, Nat)
<1>2. IsWellFoundedOn(R, Nat) BY NatLessThanWellFounded
<1>3. PICK x \in Nat \ S : \A y \in Nat \ S : <<y, x>> \notin R
  <2> HIDE DEF R
  <2> QED BY <1>1, <1>2, WFMin
<1>4. x \in Nat /\ x \notin S BY <1>3
<1>5. x # 0 /\ x - 1 \in Nat BY <1>4
<1>6. <<x - 1, x>> \in R BY <1>4, <1>5 DEF OpToRel
<1>7. x - 1 \in S BY <1>3, <1>5, <1>6
<1>8. x - 1 + 1 \in S BY <1>7, <1>5
<1>9. x - 1 + 1 = x BY <1>4
<1>10. QED BY <1>8, <1>9, <1>4

\* Two functions that begin alike and go on alike.
LEMMA Agree ==
    ASSUME NEW n \in Nat, NEW f, NEW h, f[0] = h[0],
           \A i \in 1 .. n : f[i - 1] = h[i - 1] => f[i] = h[i]
    PROVE  \A i \in 0 .. n : f[i] = h[i]
<1> DEFINE S == {i \in Nat : i <= n => f[i] = h[i]}
<1>1. 0 \in S OBVIOUS
<1>2. ASSUME NEW i \in Nat, i \in S PROVE i + 1 \in S
  <2>1. CASE i + 1 <= n
    <3>1. f[i] = h[i] BY <2>1, <1>2
    <3>2. i + 1 \in 1 .. n /\ i + 1 - 1 = i BY <2>1
    <3>3. f[i + 1] = h[i + 1] BY <3>1, <3>2
    <3>4. QED BY <3>3
  <2>2. CASE ~(i + 1 <= n) BY <2>2
  <2>3. QED BY <2>1, <2>2
<1>3. \A i \in Nat : i \in S
  <2> HIDE DEF S
  <2> QED BY <1>1, <1>2, Induction
<1>4. QED BY <1>3

-----------------------------------------------------------------------------
(* Folds.                                                                    *)

\* The partial results of a fold.
LEMMA FoldExists ==
    ASSUME NEW A, NEW B, NEW g \in [A \X B -> A], NEW base \in A, NEW s \in Seq(B)
    PROVE  \E f \in [0 .. Len(s) -> A] :
               f[0] = base /\ \A i \in 1 .. Len(s) : f[i] = g[<<f[i - 1], s[i]>>]
<1> DEFINE Good(n, f) == f[0] = base /\ \A i \in 1 .. n : f[i] = g[<<f[i - 1], s[i]>>]
           S == {n \in Nat : n <= Len(s) => \E f \in [0 .. n -> A] : Good(n, f)}
<1>1. 0 \in S
  <2>1. [i \in 0 .. 0 |-> base] \in [0 .. 0 -> A] OBVIOUS
  <2>2. Good(0, [i \in 0 .. 0 |-> base]) OBVIOUS
  <2>3. QED BY <2>1, <2>2
<1>2. ASSUME NEW n \in Nat, n \in S PROVE n + 1 \in S
  <2> SUFFICES ASSUME n + 1 <= Len(s) PROVE \E f \in [0 .. n + 1 -> A] : Good(n + 1, f)
      OBVIOUS
  <2>1. PICK f \in [0 .. n -> A] : Good(n, f) BY <1>2, LenProperties
  <2>2. n + 1 \in 1 .. Len(s) /\ s[n + 1] \in B BY LenProperties
  <2>3. f[n] \in A BY <2>1
  <2>4. g[<<f[n], s[n + 1]>>] \in A BY <2>2, <2>3
  <2> DEFINE h == [i \in 0 .. n + 1 |-> IF i = n + 1 THEN g[<<f[n], s[n + 1]>>] ELSE f[i]]
  <2>5. h \in [0 .. n + 1 -> A]
    <3>1. ASSUME NEW i \in 0 .. n + 1, i # n + 1 PROVE f[i] \in A
      <4>1. i \in 0 .. n BY <3>1
      <4>2. QED BY <4>1, <2>1
    <3>2. QED BY <3>1, <2>4
  <2>6. ASSUME NEW i \in 1 .. n + 1 PROVE h[i] = g[<<h[i - 1], s[i]>>]
    <3>1. i - 1 \in 0 .. n + 1 /\ i - 1 # n + 1 BY <2>6
    <3>2. h[i - 1] = f[i - 1] BY <3>1
    <3>3. CASE i = n + 1
      <4>1. i - 1 = n BY <3>3
      <4>2. h[i] = g[<<f[n], s[n + 1]>>] BY <3>3
      <4>3. h[i - 1] = f[n] /\ s[i] = s[n + 1] BY <3>2, <4>1, <3>3
      <4>4. QED BY ONLY <4>2, <4>3
    <3>4. CASE i # n + 1
      <4>1. i \in 1 .. n BY <3>4
      <4>2. h[i] = f[i] BY <3>4
      <4>3. QED BY <4>1, <4>2, <3>2, <2>1
    <3>5. QED BY <3>3, <3>4
  <2>7. h[0] = base BY <2>1
  <2>8. Good(n + 1, h) BY <2>6, <2>7
  <2>9. QED BY <2>5, <2>8
<1>3. Len(s) \in S
  <2>1. \A n \in Nat : n \in S
    <3> HIDE DEF S
    <3> QED BY <1>1, <1>2, Induction
  <2>2. QED BY <2>1, LenProperties
<1>4. QED BY <1>3, LenProperties

\* The equation of the partial results of Concat.
Joins(s, f) == [i \in 0 .. Len(s) |-> IF i = 0 THEN <<>> ELSE f[i - 1] \o s[i]]

\* The partial results of Concat satisfy the equation of its fold, and no others do.
LEMMA ConcatFold ==
    ASSUME NEW X, NEW ss \in Seq(Seq(X)),
           NEW f, f = Joins(ss, f)
    PROVE  Concat(ss) = f[Len(ss)]
<1>1. PICK h : h = Joins(ss, h) /\ Concat(ss) = h[Len(ss)]
  <2>1. \E h : h = Joins(ss, h) BY Zenon
  <2>2. Concat(ss) = (CHOOSE h : h = Joins(ss, h))[Len(ss)] BY DEF Concat, Fold, Joins
  <2>3. QED BY <2>1, <2>2
<1>2. Len(ss) \in Nat BY LenProperties
<1>3. h[0] = <<>> /\ f[0] = <<>> 
  <2>1. 0 \in 0 .. Len(ss) BY <1>2
  <2>2. Joins(ss, h)[0] = <<>> /\ Joins(ss, f)[0] = <<>> BY <2>1 DEF Joins
  <2>3. QED BY <2>2, <1>1
<1>4. ASSUME NEW i \in 1 .. Len(ss), h[i - 1] = f[i - 1] PROVE h[i] = f[i]
  <2>1. i \in 0 .. Len(ss) /\ i # 0 BY <1>2, <1>4
  <2>2. Joins(ss, h)[i] = h[i - 1] \o ss[i] /\ Joins(ss, f)[i] = f[i - 1] \o ss[i] BY <2>1 DEF Joins
  <2>3. h[i] = Joins(ss, h)[i] /\ f[i] = Joins(ss, f)[i] BY <1>1
  <2>4. QED BY <2>2, <2>3, <1>4
<1>5. \A i \in 0 .. Len(ss) : h[i] = f[i]
  <2>1. h[0] = f[0] BY <1>3
  <2>2. \A i \in 1 .. Len(ss) : h[i - 1] = f[i - 1] => h[i] = f[i] BY <1>4
  <2>3. QED BY ONLY <1>2, <2>1, <2>2, Agree, ZenonT(60)
<1>6. QED BY <1>5, <1>1, <1>2

\* Concat joins sequences of any number.
LEMMA ConcatStep ==
    ASSUME NEW X, NEW ss \in Seq(Seq(X))
    PROVE  /\ Concat(<<>>) = <<>>
           /\ Concat(ss) \in Seq(X)
           /\ \A t \in Seq(X) : Concat(ss \o <<t>>) = Concat(ss) \o t
<1> DEFINE g == [p \in Seq(X) \X Seq(X) |-> p[1] \o p[2]]
<1>1. \A s \in Seq(Seq(X)) : \E f \in [0 .. Len(s) -> Seq(X)] : f = Joins(s, f)
  <2> SUFFICES ASSUME NEW s \in Seq(Seq(X))
               PROVE  \E f \in [0 .. Len(s) -> Seq(X)] : f = Joins(s, f) OBVIOUS
  <2>1. g \in [Seq(X) \X Seq(X) -> Seq(X)] BY ConcatProperties
  <2>2. <<>> \in Seq(X) BY EmptySeq
  <2>3. PICK f \in [0 .. Len(s) -> Seq(X)] :
            f[0] = <<>> /\ \A i \in 1 .. Len(s) : f[i] = g[<<f[i - 1], s[i]>>]
    <3> DEFINE Good(A, B, h, b, t) ==
                 \E f \in [0 .. Len(t) -> A] :
                     f[0] = b /\ \A i \in 1 .. Len(t) : f[i] = h[<<f[i - 1], t[i]>>]
    <3>1. \A A, B : \A h \in [A \X B -> A], b \in A, t \in Seq(B) : Good(A, B, h, b, t)
      BY FoldExists
    <3>2. Good(Seq(X), Seq(X), g, <<>>, s)
      <4> HIDE DEF g, Good
      <4> QED BY <2>1, <2>2, <3>1, Zenon
    <3>3. QED BY <3>2
  <2>4. Len(s) \in Nat BY LenProperties
  <2>5. ASSUME NEW i \in 0 .. Len(s) PROVE f[i] = Joins(s, f)[i]
    <3>1. CASE i = 0 BY <3>1, <2>3 DEF Joins
    <3>2. CASE i # 0
      <4>1. i \in 1 .. Len(s) /\ i - 1 \in 0 .. Len(s) BY <3>2, <2>4
      <4>2. f[i - 1] \in Seq(X) /\ s[i] \in Seq(X) BY <4>1, LenProperties
      <4>3. g[<<f[i - 1], s[i]>>] = f[i - 1] \o s[i] BY <4>2
      <4>4. QED BY <4>1, <4>3, <2>3, <3>2 DEF Joins
    <3>3. QED BY <3>1, <3>2
  <2>6. f = Joins(s, f) BY <2>5 DEF Joins
  <2>7. QED BY <2>6
<1>2. Concat(<<>>) = <<>>
  <2>1. <<>> \in Seq(Seq(X)) /\ Len(<<>>) = 0 BY EmptySeq
  <2>2. PICK f : f = Joins(<<>>, f) BY <2>1, <1>1
  <2>3. Concat(<<>>) = f[0] BY <2>1, <2>2, ConcatFold
  <2>4. Joins(<<>>, f)[0] = <<>> BY <2>1 DEF Joins
  <2>5. QED BY <2>2, <2>3, <2>4
<1>3. Concat(ss) \in Seq(X)
  <2>1. PICK f \in [0 .. Len(ss) -> Seq(X)] : f = Joins(ss, f) BY <1>1
  <2>2. Concat(ss) = f[Len(ss)] BY <2>1, ConcatFold
  <2>3. QED BY <2>1, <2>2, LenProperties
<1>4. ASSUME NEW t \in Seq(X) PROVE Concat(ss \o <<t>>) = Concat(ss) \o t
  <2> DEFINE s == ss \o <<t>>
  <2>1. <<t>> \in Seq(Seq(X)) /\ Len(<<t>>) = 1 /\ <<t>>[1] = t OBVIOUS
  <2>2. s \in Seq(Seq(X)) /\ Len(s) = Len(ss) + 1 /\ Len(ss) \in Nat
    BY <2>1, ConcatProperties, LenProperties
  <2>3. s[Len(ss) + 1] = t /\ \A i \in 1 .. Len(ss) : s[i] = ss[i]
    BY <2>1, <2>2, ConcatProperties
  <2> HIDE DEF s
  <2>4. PICK f : f = Joins(ss, f) BY <1>1
  <2>5. PICK h : h = Joins(s, h) BY <1>1, <2>2
  <2>6. Concat(ss) = f[Len(ss)] /\ Concat(s) = h[Len(s)] BY <2>2, <2>4, <2>5, ConcatFold
  <2>7. f[0] = h[0]
    <3>1. Joins(ss, f)[0] = <<>> /\ Joins(s, h)[0] = <<>> BY <2>2 DEF Joins
    <3>2. QED BY <3>1, <2>4, <2>5
  <2>8. ASSUME NEW i \in 1 .. Len(ss), f[i - 1] = h[i - 1] PROVE f[i] = h[i]
    <3>1. i \in 0 .. Len(ss) /\ i \in 0 .. Len(s) /\ i # 0 BY <2>2
    <3>2. Joins(ss, f)[i] = f[i - 1] \o ss[i] /\ Joins(s, h)[i] = h[i - 1] \o s[i] BY <3>1 DEF Joins
    <3>3. s[i] = ss[i] BY <2>3
    <3>4. f[i] = Joins(ss, f)[i] /\ h[i] = Joins(s, h)[i] BY <2>4, <2>5
    <3>5. QED BY <3>2, <3>3, <3>4, <2>8
  <2>9. f[Len(ss)] = h[Len(ss)]
    <3>1. \A i \in 1 .. Len(ss) : f[i - 1] = h[i - 1] => f[i] = h[i] BY <2>8
    <3>2. Len(ss) \in Nat BY <2>2
    <3>3. \A i \in 0 .. Len(ss) : f[i] = h[i] BY <3>1, <3>2, <2>7, Agree, ZenonT(60)
    <3>4. Len(ss) \in 0 .. Len(ss) BY <3>2
    <3>5. QED BY <3>3, <3>4
  <2>10. h[Len(s)] = h[Len(ss)] \o t
    <3>1. Len(s) \in 0 .. Len(s) /\ Len(s) # 0 /\ Len(s) - 1 = Len(ss) BY <2>2
    <3>2. Joins(s, h)[Len(s)] = h[Len(s) - 1] \o s[Len(s)] BY <3>1 DEF Joins
    <3>3. s[Len(s)] = t BY <2>2, <2>3
    <3>4. h[Len(s)] = Joins(s, h)[Len(s)] BY <2>5
    <3>5. QED BY <3>1, <3>2, <3>3, <3>4
  <2>11. QED BY <2>6, <2>9, <2>10 DEF s
<1>5. QED BY <1>2, <1>3, <1>4

-----------------------------------------------------------------------------
(* Clock pulses at the ports.                                                *)

Clocked == (0 .. 1) \X Nat
Taps == [state : TapState, scan : Seq(Nat)]
Ticks(t, p) == Fold(Tick, t, p)
Passes(t, p, f) == [i \in 0 .. Len(p) |-> IF i = 0 THEN t ELSE Tick(f[i - 1], p[i])]

\* A pulse leaves the ports in one of their states.
LEMMA TickType ==
    ASSUME NEW t \in Taps, NEW p \in Clocked
    PROVE  /\ Tick(t, p) \in Taps
           /\ Tick(t, p).state = TapNext(t.state, p[1])
           /\ Tick(t, p).scan = IF t.state \in Shifts THEN t.scan \o <<p[2]>> ELSE t.scan
<1>1. t.state \in TapState /\ t.scan \in Seq(Nat) BY DEF Taps
<1>2. p[1] \in 0 .. 1 /\ p[2] \in Nat BY DEF Clocked
<1>3. TapNext(t.state, p[1]) \in TapState
  BY <1>1 DEF TapNext, TapState, DrColumn, IrColumn, DrPause, IrPause
<1>4. Append(t.scan, p[2]) = t.scan \o <<p[2]>> /\ Append(t.scan, p[2]) \in Seq(Nat)
  BY <1>1, <1>2
<1>5. QED BY <1>1, <1>3, <1>4 DEF Tick, Taps

\* The partial results of Ticks satisfy its equation, and no others do.
LEMMA TicksFold ==
    ASSUME NEW t, NEW p \in Seq(Clocked), NEW f, f = Passes(t, p, f)
    PROVE  Ticks(t, p) = f[Len(p)]
<1>1. PICK h : h = Passes(t, p, h) /\ Ticks(t, p) = h[Len(p)]
  <2>1. \E h : h = Passes(t, p, h) BY Zenon
  <2>2. Ticks(t, p) = (CHOOSE h : h = Passes(t, p, h))[Len(p)] BY DEF Ticks, Fold, Passes
  <2>3. QED BY <2>1, <2>2
<1>2. Len(p) \in Nat BY LenProperties
<1>3. h[0] = f[0]
  <2>1. 0 \in 0 .. Len(p) BY <1>2
  <2>2. Passes(t, p, h)[0] = t /\ Passes(t, p, f)[0] = t BY <2>1 DEF Passes
  <2>3. QED BY <2>2, <1>1
<1>4. ASSUME NEW i \in 1 .. Len(p), h[i - 1] = f[i - 1] PROVE h[i] = f[i]
  <2>1. i \in 0 .. Len(p) /\ i # 0 BY <1>2, <1>4
  <2>2. /\ Passes(t, p, h)[i] = Tick(h[i - 1], p[i])
        /\ Passes(t, p, f)[i] = Tick(f[i - 1], p[i])
    BY <2>1 DEF Passes
  <2>3. h[i] = Passes(t, p, h)[i] /\ f[i] = Passes(t, p, f)[i] BY <1>1
  <2>4. QED BY <2>2, <2>3, <1>4
<1>5. \A i \in 1 .. Len(p) : h[i - 1] = f[i - 1] => h[i] = f[i] BY <1>4
<1>6. \A i \in 0 .. Len(p) : h[i] = f[i] BY <1>2, <1>3, <1>5, Agree, ZenonT(60)
<1>7. QED BY <1>6, <1>1, <1>2

\* Pulses one by one.
LEMMA TicksStep ==
    ASSUME NEW t \in Taps, NEW p \in Seq(Clocked)
    PROVE  /\ Ticks(t, <<>>) = t
           /\ Ticks(t, p) \in Taps
           /\ \A x \in Clocked : Ticks(t, p \o <<x>>) = Tick(Ticks(t, p), x)
<1> DEFINE g == [y \in Taps \X Clocked |-> Tick(y[1], y[2])]
<1>1. ASSUME NEW s \in Seq(Clocked) PROVE \E f \in [0 .. Len(s) -> Taps] : f = Passes(t, s, f)
  <2>1. g \in [Taps \X Clocked -> Taps] BY TickType
  <2>2. PICK f \in [0 .. Len(s) -> Taps] :
            f[0] = t /\ \A i \in 1 .. Len(s) : f[i] = g[<<f[i - 1], s[i]>>]
    <3> DEFINE Good(A, B, h, b, u) ==
                 \E f \in [0 .. Len(u) -> A] :
                     f[0] = b /\ \A i \in 1 .. Len(u) : f[i] = h[<<f[i - 1], u[i]>>]
    <3>1. \A A, B : \A h \in [A \X B -> A], b \in A, u \in Seq(B) : Good(A, B, h, b, u)
      BY FoldExists
    <3>2. Good(Taps, Clocked, g, t, s)
      <4> HIDE DEF g, Good
      <4> QED BY <2>1, <3>1, Zenon
    <3>3. QED BY <3>2
  <2>3. Len(s) \in Nat BY LenProperties
  <2>4. ASSUME NEW i \in 0 .. Len(s) PROVE f[i] = Passes(t, s, f)[i]
    <3>1. CASE i = 0 BY <3>1, <2>2 DEF Passes
    <3>2. CASE i # 0
      <4>1. i \in 1 .. Len(s) /\ i - 1 \in 0 .. Len(s) BY <3>2, <2>3
      <4>2. f[i - 1] \in Taps /\ s[i] \in Clocked BY <4>1, LenProperties
      <4>3. g[<<f[i - 1], s[i]>>] = Tick(f[i - 1], s[i]) BY <4>2
      <4>4. QED BY <4>1, <4>3, <2>2, <3>2 DEF Passes
    <3>3. QED BY <3>1, <3>2
  <2>5. f = Passes(t, s, f) BY <2>4 DEF Passes
  <2>6. QED BY <2>5
<1>2. Ticks(t, <<>>) = t
  <2>1. <<>> \in Seq(Clocked) /\ Len(<<>>) = 0 BY EmptySeq
  <2>2. PICK f : f = Passes(t, <<>>, f) BY <2>1, <1>1
  <2>3. Ticks(t, <<>>) = f[0] BY <2>1, <2>2, TicksFold
  <2>4. Passes(t, <<>>, f)[0] = t BY <2>1 DEF Passes
  <2>5. QED BY <2>2, <2>3, <2>4
<1>3. Ticks(t, p) \in Taps
  <2>1. PICK f \in [0 .. Len(p) -> Taps] : f = Passes(t, p, f) BY <1>1
  <2>2. Ticks(t, p) = f[Len(p)] BY <2>1, TicksFold
  <2>3. Len(p) \in 0 .. Len(p) BY LenProperties
  <2>4. QED BY <2>1, <2>2, <2>3
<1>4. ASSUME NEW x \in Clocked PROVE Ticks(t, p \o <<x>>) = Tick(Ticks(t, p), x)
  <2> DEFINE s == p \o <<x>>
  <2>1. <<x>> \in Seq(Clocked) /\ Len(<<x>>) = 1 /\ <<x>>[1] = x OBVIOUS
  <2>2. s \in Seq(Clocked) /\ Len(s) = Len(p) + 1 /\ Len(p) \in Nat
    BY <2>1, ConcatProperties, LenProperties
  <2>3. s[Len(p) + 1] = x /\ \A i \in 1 .. Len(p) : s[i] = p[i]
    BY <2>1, <2>2, ConcatProperties
  <2> HIDE DEF s
  <2>4. PICK f : f = Passes(t, p, f) BY <1>1
  <2>5. PICK h : h = Passes(t, s, h) BY <1>1, <2>2
  <2>6. Ticks(t, p) = f[Len(p)] /\ Ticks(t, s) = h[Len(s)] BY <2>2, <2>4, <2>5, TicksFold
  <2>7. f[0] = h[0]
    <3>1. Passes(t, p, f)[0] = t /\ Passes(t, s, h)[0] = t BY <2>2 DEF Passes
    <3>2. QED BY <3>1, <2>4, <2>5
  <2>8. ASSUME NEW i \in 1 .. Len(p), f[i - 1] = h[i - 1] PROVE f[i] = h[i]
    <3>1. i \in 0 .. Len(p) /\ i \in 0 .. Len(s) /\ i # 0 BY <2>2
    <3>2. /\ Passes(t, p, f)[i] = Tick(f[i - 1], p[i])
          /\ Passes(t, s, h)[i] = Tick(h[i - 1], s[i])
      BY <3>1 DEF Passes
    <3>3. s[i] = p[i] BY <2>3
    <3>4. f[i] = Passes(t, p, f)[i] /\ h[i] = Passes(t, s, h)[i] BY <2>4, <2>5
    <3>5. QED BY <3>2, <3>3, <3>4, <2>8
  <2>9. f[Len(p)] = h[Len(p)]
    <3>1. \A i \in 1 .. Len(p) : f[i - 1] = h[i - 1] => f[i] = h[i] BY <2>8
    <3>2. Len(p) \in Nat BY <2>2
    <3>3. \A i \in 0 .. Len(p) : f[i] = h[i] BY <3>1, <3>2, <2>7, Agree, ZenonT(60)
    <3>4. Len(p) \in 0 .. Len(p) BY <3>2
    <3>5. QED BY <3>3, <3>4
  <2>10. h[Len(s)] = Tick(h[Len(p)], x)
    <3>1. Len(s) \in 0 .. Len(s) /\ Len(s) # 0 /\ Len(s) - 1 = Len(p) BY <2>2
    <3>2. Passes(t, s, h)[Len(s)] = Tick(h[Len(s) - 1], s[Len(s)]) BY <3>1 DEF Passes
    <3>3. s[Len(s)] = x BY <2>2, <2>3
    <3>4. h[Len(s)] = Passes(t, s, h)[Len(s)] BY <2>5
    <3>5. QED BY <3>1, <3>2, <3>3, <3>4
  <2>11. QED BY <2>6, <2>9, <2>10 DEF s
<1>5. QED BY <1>2, <1>3, <1>4

\* The same, as facts of their own.
LEMMA TicksNone == ASSUME NEW t \in Taps PROVE Ticks(t, <<>>) = t
<1>1. <<>> \in Seq(Clocked) BY EmptySeq
<1>2. QED BY <1>1, TicksStep, Zenon

\* Pulses leave the ports in one of their states.
LEMMA TicksType == ASSUME NEW t \in Taps, NEW p \in Seq(Clocked) PROVE Ticks(t, p) \in Taps
BY TicksStep, Zenon

\* One more pulse.
LEMMA TicksMore ==
    ASSUME NEW t \in Taps, NEW p \in Seq(Clocked), NEW x \in Clocked
    PROVE  Ticks(t, p \o <<x>>) = Tick(Ticks(t, p), x)
BY TicksStep, Zenon
First(s, n) == [i \in 1 .. n |-> s[i]]

\* A sequence that is not empty is one with an element behind it.
LEMMA SplitLast ==
    ASSUME NEW X, NEW n \in Nat, NEW s \in Seq(X), Len(s) = n + 1
    PROVE  /\ First(s, n) \in Seq(X) /\ Len(First(s, n)) = n /\ s[n + 1] \in X
           /\ s = First(s, n) \o <<s[n + 1]>>
<1> DEFINE r == First(s, n)
<1>1. n + 1 \in 1 .. Len(s) /\ s[n + 1] \in X /\ \A i \in 1 .. n : s[i] \in X
  BY LenProperties
<1>2. r \in Seq(X) /\ Len(r) = n /\ \A i \in 1 .. n : r[i] = s[i]
  BY <1>1, LenProperties DEF First
<1>3. <<s[n + 1]>> \in Seq(X) /\ Len(<<s[n + 1]>>) = 1 /\ <<s[n + 1]>>[1] = s[n + 1] BY <1>1
<1> DEFINE u == r \o <<s[n + 1]>>
<1>4. u \in Seq(X) /\ Len(u) = n + 1 /\ \A i \in 1 .. n + 1 : u[i] = s[i]
  <2>1. u \in Seq(X) /\ Len(u) = n + 1 BY <1>2, <1>3, ConcatProperties
  <2>2. ASSUME NEW i \in 1 .. n + 1 PROVE u[i] = s[i]
    <3> DEFINE e == <<s[n + 1]>>
    <3>0. e \in Seq(X) /\ Len(e) = 1 /\ e[1] = s[n + 1] BY <1>3
    <3> HIDE DEF r, e
    <3>1. (r \o e)[i] = IF i <= Len(r) THEN r[i] ELSE e[i - Len(r)]
      <4>1. i \in 1 .. Len(r) + Len(e) BY <1>2, <3>0
      <4>2. QED BY <1>2, <3>0, <4>1, ConcatProperties
    <3>2. CASE i <= n
      <4>1. (r \o e)[i] = r[i] /\ r[i] = s[i] BY <1>2, <3>1, <3>2
      <4>2. QED BY <4>1 DEF e
    <3>3. CASE ~(i <= n)
      <4>1. i = n + 1 BY <3>3
      <4>2. (r \o e)[i] = e[1] BY <1>2, <3>1, <3>3, <4>1
      <4>3. QED BY <3>0, <4>1, <4>2 DEF e
    <3>4. QED BY <3>2, <3>3
  <2>3. QED BY <2>1, <2>2
<1>5. u = s
  <2> HIDE DEF u
  <2> QED BY <1>4, SeqEqual
<1>6. QED BY <1>1, <1>2, <1>5

\* The pulses of one sequence and then of another.
LEMMA TicksCat ==
    ASSUME NEW t \in Taps, NEW p \in Seq(Clocked), NEW q \in Seq(Clocked)
    PROVE  Ticks(t, p \o q) = Ticks(Ticks(t, p), q)
<1> DEFINE S == {n \in Nat : \A r \in Seq(Clocked) :
                     Len(r) = n => Ticks(t, p \o r) = Ticks(Ticks(t, p), r)}
<1>1. Ticks(t, p) \in Taps BY TicksType
<1>2. 0 \in S
  <2> SUFFICES ASSUME NEW r \in Seq(Clocked), Len(r) = 0
               PROVE  Ticks(t, p \o r) = Ticks(Ticks(t, p), r) OBVIOUS
  <2>1. r = <<>> BY EmptySeq
  <2>2. p \o r = p BY <2>1, ConcatEmptySeq
  <2>3. QED BY <1>1, <2>1, <2>2, TicksNone
<1>3. ASSUME NEW n \in Nat, n \in S PROVE n + 1 \in S
  <2> SUFFICES ASSUME NEW s \in Seq(Clocked), Len(s) = n + 1
               PROVE  Ticks(t, p \o s) = Ticks(Ticks(t, p), s) OBVIOUS
  <2> DEFINE r == First(s, n)
             x == s[n + 1]
  <2>1. r \in Seq(Clocked) /\ x \in Clocked /\ Len(r) = n /\ s = r \o <<x>>
    BY SplitLast, Zenon
  <2> HIDE DEF r, x
  <2>2. <<x>> \in Seq(Clocked) BY <2>1
  <2>3. p \o s = (p \o r) \o <<x>> BY <2>1, <2>2, ConcatAssociative
  <2>4. p \o r \in Seq(Clocked) BY <2>1, ConcatProperties
  <2>5. Ticks(t, p \o s) = Tick(Ticks(t, p \o r), x)
    <3>1. Ticks(t, (p \o r) \o <<x>>) = Tick(Ticks(t, p \o r), x)
      BY <2>1, <2>4, TicksMore, Zenon
    <3>2. QED BY <3>1, <2>3, Zenon
  <2>6. Ticks(Ticks(t, p), s) = Tick(Ticks(Ticks(t, p), r), x)
    <3>1. Ticks(Ticks(t, p), r \o <<x>>) = Tick(Ticks(Ticks(t, p), r), x)
      BY <1>1, <2>1, TicksMore, Zenon
    <3>2. QED BY <3>1, <2>1, Zenon
  <2>7. Ticks(t, p \o r) = Ticks(Ticks(t, p), r) BY <1>3, <2>1
  <2>8. QED BY <2>5, <2>6, <2>7
<1>4. \A n \in Nat : n \in S
  <2> HIDE DEF S
  <2> QED BY <1>2, <1>3, Induction
<1>5. Len(q) \in S BY <1>4, LenProperties
<1>6. QED BY <1>5

\* One pulse.
LEMMA TicksOne ==
    ASSUME NEW t \in Taps, NEW x \in Clocked
    PROVE  Ticks(t, <<x>>) = Tick(t, x)
<1>1. <<>> \in Seq(Clocked) /\ <<x>> \in Seq(Clocked) BY EmptySeq
<1>2. <<>> \o <<x>> = <<x>> BY <1>1, ConcatEmptySeq
<1>3. Ticks(t, <<>> \o <<x>>) = Tick(Ticks(t, <<>>), x) BY <1>1, TicksMore, Zenon
<1>4. QED BY <1>2, <1>3, TicksNone, Zenon

-----------------------------------------------------------------------------
(* The calls of a method.                                                    *)

Calls == [op : {"writeTMS"}, tms : Seq(0 .. 1), now : BOOLEAN]
         \cup [op : {"writeTDI"}, tdi : Seq(Nat), rd : BOOLEAN, end : BOOLEAN]
         \cup [op : {"toggleClk"}, tms : 0 .. 1, n : Nat]
         \cup [op : {"flush"}]
Wire(calls) == Concat([i \in DOMAIN calls |-> Meant(calls[i])])
After(t, calls) == Ticks(t, Wire(calls))

\* Levels of TMS are pulses.
LEMMA TmsType ==
    ASSUME NEW w \in Seq(0 .. 1)
    PROVE  TmsPulses(w) \in Seq(Clocked) /\ Len(TmsPulses(w)) = Len(w)
<1>1. DOMAIN w = 1 .. Len(w) /\ Len(w) \in Nat BY LenProperties
<1>2. \A i \in DOMAIN w : w[i] \in 0 .. 1 /\ <<w[i], 0>> \in Clocked
  BY LenProperties DEF Clocked
<1>3. TmsPulses(w) \in [DOMAIN w -> Clocked] BY <1>2 DEF TmsPulses
<1>4. TmsPulses(w) \in [1 .. Len(w) -> Clocked] BY <1>1, <1>3
<1>5. QED BY <1>1, <1>4

\* So are idle cycles.
LEMMA ClkType ==
    ASSUME NEW l \in 0 .. 1, NEW n \in Nat
    PROVE  ClkPulses(l, n) \in Seq(Clocked) /\ Len(ClkPulses(l, n)) = n
<1>1. <<l, 0>> \in Clocked BY DEF Clocked
<1>2. ClkPulses(l, n) \in [1 .. n -> Clocked] BY <1>1 DEF ClkPulses
<1>3. QED BY <1>2

\* What a call means is a sequence of pulses.
LEMMA MeantType ==
    ASSUME NEW k \in Calls PROVE Meant(k) \in Seq(Clocked)
<1>1. CASE k \in [op : {"writeTMS"}, tms : Seq(0 .. 1), now : BOOLEAN]
  <2>1. Meant(k) = TmsPulses(k.tms) /\ k.tms \in Seq(0 .. 1) BY <1>1 DEF Meant
  <2>4. TmsPulses(k.tms) \in Seq(Clocked) BY <2>1, TmsType
  <2>5. QED BY <2>1, <2>4
<1>2. CASE k \in [op : {"writeTDI"}, tdi : Seq(Nat), rd : BOOLEAN, end : BOOLEAN]
  <2> DEFINE e(i) == <<IF k.end /\ i = Len(k.tdi) THEN 1 ELSE 0, k.tdi[i]>>
  <2>1. Meant(k) = [i \in DOMAIN k.tdi |-> e(i)] /\ k.tdi \in Seq(Nat) BY <1>2 DEF Meant
  <2>2. DOMAIN k.tdi = 1 .. Len(k.tdi) /\ Len(k.tdi) \in Nat BY <2>1, LenProperties
  <2>3. \A i \in 1 .. Len(k.tdi) : e(i) \in Clocked BY <2>1, LenProperties DEF Clocked
  <2>4. [i \in 1 .. Len(k.tdi) |-> e(i)] \in Seq(Clocked)
    <3> HIDE DEF e
    <3> QED BY <2>2, <2>3
  <2>5. QED BY <2>1, <2>2, <2>4
<1>3. CASE k \in [op : {"toggleClk"}, tms : 0 .. 1, n : Nat]
  <2>1. Meant(k) = ClkPulses(k.tms, k.n) /\ k.n \in Nat /\ k.tms \in 0 .. 1
    BY <1>3 DEF Meant
  <2>2. ClkPulses(k.tms, k.n) \in Seq(Clocked) BY <2>1, ClkType
  <2>3. QED BY <2>1, <2>2
<1>4. CASE k \in [op : {"flush"}]
  <2>1. Meant(k) = <<>> BY <1>4 DEF Meant
  <2>2. QED BY <2>1, EmptySeq
<1>5. QED BY <1>1, <1>2, <1>3, <1>4 DEF Calls

\* The pulses of calls, call by call.
LEMMA WireStep ==
    ASSUME NEW cs \in Seq(Calls)
    PROVE  /\ Wire(<<>>) = <<>>
           /\ Wire(cs) \in Seq(Clocked)
           /\ \A k \in Calls : Wire(cs \o <<k>>) = Wire(cs) \o Meant(k)
<1> DEFINE M(ds) == [i \in DOMAIN ds |-> Meant(ds[i])]
<1>1. ASSUME NEW ds \in Seq(Calls)
      PROVE  M(ds) \in Seq(Seq(Clocked)) /\ Len(M(ds)) = Len(ds)
  <2>1. DOMAIN ds = 1 .. Len(ds) /\ Len(ds) \in Nat BY LenProperties
  <2>2. \A i \in 1 .. Len(ds) : Meant(ds[i]) \in Seq(Clocked) BY LenProperties, MeantType
  <2>3. [i \in 1 .. Len(ds) |-> Meant(ds[i])] \in Seq(Seq(Clocked)) BY <2>1, <2>2
  <2>4. QED BY <2>1, <2>3
<1>2. Wire(<<>>) = <<>>
  <2>1. <<>> \in Seq(Seq(Clocked)) /\ M(<<>>) = <<>> BY EmptySeq
  <2>2. QED BY <2>1, ConcatStep DEF Wire
<1>3. Wire(cs) \in Seq(Clocked) BY <1>1, ConcatStep DEF Wire
<1>4. ASSUME NEW k \in Calls PROVE Wire(cs \o <<k>>) = Wire(cs) \o Meant(k)
  <2>1. <<k>> \in Seq(Calls) /\ Len(<<k>>) = 1 /\ <<k>>[1] = k OBVIOUS
  <2>2. /\ cs \o <<k>> \in Seq(Calls) /\ Len(cs \o <<k>>) = Len(cs) + 1 /\ Len(cs) \in Nat
        /\ \A i \in 1 .. Len(cs) : (cs \o <<k>>)[i] = cs[i]
        /\ (cs \o <<k>>)[Len(cs) + 1] = k
    BY <2>1, ConcatProperties, LenProperties
  <2>3. M(cs \o <<k>>) = M(cs) \o <<Meant(k)>>
    <3> DEFINE u == M(cs \o <<k>>)
               v == M(cs) \o <<Meant(k)>>
    <3>1. Meant(k) \in Seq(Clocked) BY MeantType
    <3>2. <<Meant(k)>> \in Seq(Seq(Clocked)) /\ Len(<<Meant(k)>>) = 1 BY <3>1
    <3>3. u \in Seq(Seq(Clocked)) /\ Len(u) = Len(cs) + 1 BY <1>1, <2>2
    <3>4. M(cs) \in Seq(Seq(Clocked)) /\ Len(M(cs)) = Len(cs) BY <1>1
    <3>5. v \in Seq(Seq(Clocked)) /\ Len(v) = Len(cs) + 1
      <4> HIDE DEF M
      <4> QED BY <3>2, <3>4, ConcatProperties
    <3>6. ASSUME NEW i \in 1 .. Len(cs) + 1 PROVE u[i] = v[i]
      <4>1. DOMAIN (cs \o <<k>>) = 1 .. Len(cs) + 1 BY <2>2, LenProperties
      <4>2. u[i] = Meant((cs \o <<k>>)[i]) BY <4>1
      <4>3. CASE i \in 1 .. Len(cs)
        <5>1. v[i] = M(cs)[i]
          <6> HIDE DEF M
          <6> QED BY <2>2, <3>2, <3>4, <4>3, ConcatProperties
        <5>2. M(cs)[i] = Meant(cs[i]) BY <4>3, LenProperties
        <5>3. QED BY <4>2, <4>3, <5>1, <5>2, <2>2
      <4>4. CASE i = Len(cs) + 1
        <5>1. v[i] = <<Meant(k)>>[1]
          <6> HIDE DEF M
          <6> QED BY <2>2, <3>2, <3>4, <4>4, ConcatProperties
        <5>2. QED BY <4>2, <4>4, <5>1, <2>2
      <4>5. QED BY <4>3, <4>4, <2>2
    <3>7. QED
      <4> HIDE DEF u, v
      <4>1. u = v BY <3>3, <3>5, <3>6, SeqEqual
      <4>2. QED BY <4>1 DEF u, v
  <2>4. M(cs) \in Seq(Seq(Clocked)) /\ Meant(k) \in Seq(Clocked) BY <1>1, MeantType
  <2>5. Concat(M(cs) \o <<Meant(k)>>) = Concat(M(cs)) \o Meant(k)
    <3> HIDE DEF M
    <3> QED BY <2>4, ConcatStep
  <2>6. Wire(cs) = Concat(M(cs)) /\ Wire(cs \o <<k>>) = Concat(M(cs \o <<k>>)) BY DEF Wire
  <2>7. QED BY <2>3, <2>5, <2>6
<1>5. QED BY <1>2, <1>3, <1>4

\* The ports after calls and one more.
LEMMA AfterStep ==
    ASSUME NEW t \in Taps, NEW cs \in Seq(Calls)
    PROVE  /\ After(t, <<>>) = t
           /\ After(t, cs) \in Taps
           /\ \A k \in Calls : After(t, cs \o <<k>>) = Ticks(After(t, cs), Meant(k))
<1>1. After(t, <<>>) = t BY WireStep, TicksStep DEF After
<1>2. Wire(cs) \in Seq(Clocked) BY WireStep
<1>3. After(t, cs) \in Taps BY <1>2, TicksStep DEF After
<1>4. ASSUME NEW k \in Calls PROVE After(t, cs \o <<k>>) = Ticks(After(t, cs), Meant(k))
  <2>1. Wire(cs \o <<k>>) = Wire(cs) \o Meant(k) BY WireStep
  <2>2. Meant(k) \in Seq(Clocked) BY MeantType
  <2>3. Ticks(t, Wire(cs) \o Meant(k)) = Ticks(Ticks(t, Wire(cs)), Meant(k))
    BY <1>2, <2>2, TicksCat, Zenon
  <2>4. QED BY <2>1, <2>3 DEF After
<1>5. QED BY <1>1, <1>3, <1>4

\* The same, as facts of their own.
LEMMA AfterMore ==
    ASSUME NEW t \in Taps, NEW cs \in Seq(Calls), NEW k \in Calls
    PROVE  After(t, cs \o <<k>>) = Ticks(After(t, cs), Meant(k))
BY AfterStep, Zenon

\* No call, and calls leave the ports in one of their states.
LEMMA AfterType ==
    ASSUME NEW t \in Taps, NEW cs \in Seq(Calls)
    PROVE  After(t, <<>>) = t /\ After(t, cs) \in Taps
BY AfterStep, Zenon

\* The ports after one call.
LEMMA AfterOne ==
    ASSUME NEW t \in Taps, NEW k \in Calls
    PROVE  After(t, <<k>>) = Ticks(t, Meant(k))
<1>1. <<>> \in Seq(Calls) /\ <<k>> \in Seq(Calls) BY EmptySeq
<1>2. <<>> \o <<k>> = <<k>> BY <1>1, ConcatEmptySeq
<1>3. After(t, <<>> \o <<k>>) = Ticks(After(t, <<>>), Meant(k)) BY <1>1, AfterMore, Zenon
<1>4. After(t, <<>>) = t BY <1>1, AfterStep, Zenon
<1>5. QED BY <1>2, <1>3, <1>4, Zenon

\* The ports after some calls and then others.
LEMMA AfterCat ==
    ASSUME NEW t \in Taps, NEW cs \in Seq(Calls), NEW ds \in Seq(Calls)
    PROVE  After(t, cs \o ds) = After(After(t, cs), ds)
<1> DEFINE S == {n \in Nat : \A es \in Seq(Calls) :
                     Len(es) = n => After(t, cs \o es) = After(After(t, cs), es)}
<1>1. After(t, cs) \in Taps BY AfterType
<1>2. 0 \in S
  <2> SUFFICES ASSUME NEW es \in Seq(Calls), Len(es) = 0
               PROVE  After(t, cs \o es) = After(After(t, cs), es) OBVIOUS
  <2>1. es = <<>> BY EmptySeq
  <2>2. cs \o es = cs BY <2>1, ConcatEmptySeq
  <2>3. QED BY <1>1, <2>1, <2>2, AfterType
<1>3. ASSUME NEW n \in Nat, n \in S PROVE n + 1 \in S
  <2> SUFFICES ASSUME NEW es \in Seq(Calls), Len(es) = n + 1
               PROVE  After(t, cs \o es) = After(After(t, cs), es) OBVIOUS
  <2> DEFINE r == First(es, n)
             k == es[n + 1]
  <2>1. r \in Seq(Calls) /\ k \in Calls /\ Len(r) = n /\ es = r \o <<k>>
    BY SplitLast, Zenon
  <2> HIDE DEF r, k
  <2>2. <<k>> \in Seq(Calls) BY <2>1
  <2>3. cs \o es = (cs \o r) \o <<k>> BY <2>1, <2>2, ConcatAssociative
  <2>4. cs \o r \in Seq(Calls) BY <2>1, ConcatProperties
  <2>5. After(t, cs \o es) = Ticks(After(t, cs \o r), Meant(k))
    <3>1. After(t, (cs \o r) \o <<k>>) = Ticks(After(t, cs \o r), Meant(k))
      BY <2>1, <2>4, AfterMore, Zenon
    <3>2. QED BY <3>1, <2>3, Zenon
  <2>6. After(After(t, cs), es) = Ticks(After(After(t, cs), r), Meant(k))
    <3>1. After(After(t, cs), r \o <<k>>) = Ticks(After(After(t, cs), r), Meant(k))
      BY <1>1, <2>1, AfterMore, Zenon
    <3>2. QED BY <3>1, <2>1, Zenon
  <2>7. After(t, cs \o r) = After(After(t, cs), r) BY <1>3, <2>1
  <2>8. QED BY <2>5, <2>6, <2>7
<1>4. \A n \in Nat : n \in S
  <2> HIDE DEF S
  <2> QED BY <1>2, <1>3, Induction
<1>5. Len(ds) \in S BY <1>4, LenProperties
<1>6. QED BY <1>5


-----------------------------------------------------------------------------
(* The walk of set_state.                                                    *)

\* How many turns of its loop are left at most: the places in the ring of the states
\* between the columns and in that around a pause, the turns until a column is left.
Place(x) == CASE x \in {"RUN_TEST_IDLE", "SHIFT_DR", "SHIFT_IR"} -> 0
              [] x \in {"SELECT_DR_SCAN", "EXIT1_DR", "EXIT1_IR"} -> 1
              [] x \in {"SELECT_IR_SCAN", "PAUSE_DR", "PAUSE_IR"} -> 2
              [] OTHER -> 3
Around(x, g) == IF Place(x) <= Place(g) THEN Place(g) - Place(x) ELSE 4 + Place(g) - Place(x)
Entry(g) == IF g \in DrColumn THEN "SELECT_DR_SCAN"
            ELSE IF g \in IrColumn THEN "SELECT_IR_SCAN" ELSE g
Leave(x) == CASE x \in {"UPDATE_DR", "UPDATE_IR"} -> 1
              [] x \in {"EXIT1_DR", "EXIT2_DR", "EXIT1_IR", "EXIT2_IR"} -> 2
              [] x \in {"CAPTURE_DR", "CAPTURE_IR"} -> 4
              [] OTHER -> 3
Pausing(x, g) == (x \in DrPause /\ g \in DrPause) \/ (x \in IrPause /\ g \in IrPause)
Dist(x, g) ==
    CASE x = g -> 0
      [] x # g /\ Pausing(x, g) -> Around(x, g)
      [] (x = "CAPTURE_DR" /\ g \in DrPause) \/ (x = "CAPTURE_IR" /\ g \in IrPause) -> 9
      [] x # g /\ x \notin DrColumn \cup IrColumn -> 10 + Around(x, Entry(g))
      [] x # g /\ ((x \in DrColumn /\ g = "UPDATE_DR") \/ (x \in IrColumn /\ g = "UPDATE_IR")) -> Leave(x)
      [] OTHER -> 20 + Leave(x)
\* On the way from x to g nothing is shifted.
Clear(x, g) ==
    \/ x = g
    \/ /\ x \notin Shifts
       /\ g \in Shifts \/ ~Pausing(x, g) \/ x \in {"EXIT1_DR", "EXIT1_IR"} \/ g \in {"EXIT2_DR", "EXIT2_IR"}

\* The port takes the level that set_state queues to the state it assigns.
LEMMA StepIsTap ==
    ASSUME NEW x \in TapState, NEW g \in TapState, x # g
    PROVE  /\ Step(x, g).tms \in 0 .. 1 /\ Step(x, g).state \in TapState
           /\ TapNext(x, Step(x, g).tms) = Step(x, g).state
<1> USE DEF TapState, DrColumn, IrColumn, DrPause, IrPause
<1>1. CASE x = "TEST_LOGIC_RESET" BY <1>1 DEF Step, TapNext
<1>2. CASE x = "RUN_TEST_IDLE" BY <1>2 DEF Step, TapNext
<1>3. CASE x = "SELECT_DR_SCAN" BY <1>3 DEF Step, TapNext
<1>4. CASE x = "SELECT_IR_SCAN" BY <1>4 DEF Step, TapNext
<1>5. CASE x = "CAPTURE_DR" BY <1>5 DEF Step, TapNext
<1>6. CASE x = "SHIFT_DR" BY <1>6 DEF Step, TapNext
<1>7. CASE x = "EXIT1_DR" BY <1>7 DEF Step, TapNext
<1>8. CASE x = "PAUSE_DR" BY <1>8 DEF Step, TapNext
<1>9. CASE x = "EXIT2_DR" BY <1>9 DEF Step, TapNext
<1>10. CASE x = "UPDATE_DR" BY <1>10 DEF Step, TapNext
<1>11. CASE x = "CAPTURE_IR" BY <1>11 DEF Step, TapNext
<1>12. CASE x = "SHIFT_IR" BY <1>12 DEF Step, TapNext
<1>13. CASE x = "EXIT1_IR" BY <1>13 DEF Step, TapNext
<1>14. CASE x = "PAUSE_IR" BY <1>14 DEF Step, TapNext
<1>15. CASE x = "EXIT2_IR" BY <1>15 DEF Step, TapNext
<1>16. CASE x = "UPDATE_IR" BY <1>16 DEF Step, TapNext
<1>17. QED BY <1>1, <1>2, <1>3, <1>4, <1>5, <1>6, <1>7, <1>8, <1>9, <1>10, <1>11, <1>12, <1>13, <1>14, <1>15, <1>16

\* A turn of the loop leaves fewer.
LEMMA StepDown ==
    ASSUME NEW x \in TapState, NEW g \in TapState, x # g
    PROVE  Dist(x, g) \in 1 .. 24 /\ Dist(Step(x, g).state, g) \in 0 .. Dist(x, g) - 1
<1> USE DEF TapState, DrColumn, IrColumn, DrPause, IrPause
<1>1. CASE x = "TEST_LOGIC_RESET" BY <1>1 DEF Step, Dist, Pausing, Around, Place, Entry, Leave
<1>2. CASE x = "RUN_TEST_IDLE" BY <1>2 DEF Step, Dist, Pausing, Around, Place, Entry, Leave
<1>3. CASE x = "SELECT_DR_SCAN" BY <1>3 DEF Step, Dist, Pausing, Around, Place, Entry, Leave
<1>4. CASE x = "SELECT_IR_SCAN" BY <1>4 DEF Step, Dist, Pausing, Around, Place, Entry, Leave
<1>5. CASE x = "CAPTURE_DR" BY <1>5 DEF Step, Dist, Pausing, Around, Place, Entry, Leave
<1>6. CASE x = "SHIFT_DR" BY <1>6 DEF Step, Dist, Pausing, Around, Place, Entry, Leave
<1>7. CASE x = "EXIT1_DR" BY <1>7 DEF Step, Dist, Pausing, Around, Place, Entry, Leave
<1>8. CASE x = "PAUSE_DR" BY <1>8 DEF Step, Dist, Pausing, Around, Place, Entry, Leave
<1>9. CASE x = "EXIT2_DR" BY <1>9 DEF Step, Dist, Pausing, Around, Place, Entry, Leave
<1>10. CASE x = "UPDATE_DR" BY <1>10 DEF Step, Dist, Pausing, Around, Place, Entry, Leave
<1>11. CASE x = "CAPTURE_IR" BY <1>11 DEF Step, Dist, Pausing, Around, Place, Entry, Leave
<1>12. CASE x = "SHIFT_IR" BY <1>12, SMTT(30) DEF Step, Dist, Pausing, Around, Place, Entry, Leave
<1>13. CASE x = "EXIT1_IR" BY <1>13 DEF Step, Dist, Pausing, Around, Place, Entry, Leave
<1>14. CASE x = "PAUSE_IR" BY <1>14, SMTT(30) DEF Step, Dist, Pausing, Around, Place, Entry, Leave
<1>15. CASE x = "EXIT2_IR" BY <1>15 DEF Step, Dist, Pausing, Around, Place, Entry, Leave
<1>16. CASE x = "UPDATE_IR" BY <1>16 DEF Step, Dist, Pausing, Around, Place, Entry, Leave
<1>17. QED BY <1>1, <1>2, <1>3, <1>4, <1>5, <1>6, <1>7, <1>8, <1>9, <1>10, <1>11, <1>12, <1>13, <1>14, <1>15, <1>16

\* A walk on which nothing is to be shifted stays one.
LEMMA StepClear ==
    ASSUME NEW x \in TapState, NEW g \in TapState, x # g, Clear(x, g)
    PROVE  x \notin Shifts /\ Clear(Step(x, g).state, g)
<1> USE DEF TapState, DrColumn, IrColumn, DrPause, IrPause
<1>1. CASE x = "TEST_LOGIC_RESET" BY <1>1 DEF Step, Clear, Pausing, Shifts
<1>2. CASE x = "RUN_TEST_IDLE" BY <1>2 DEF Step, Clear, Pausing, Shifts
<1>3. CASE x = "SELECT_DR_SCAN" BY <1>3 DEF Step, Clear, Pausing, Shifts
<1>4. CASE x = "SELECT_IR_SCAN" BY <1>4 DEF Step, Clear, Pausing, Shifts
<1>5. CASE x = "CAPTURE_DR" BY <1>5 DEF Step, Clear, Pausing, Shifts
<1>6. CASE x = "SHIFT_DR" BY <1>6 DEF Step, Clear, Pausing, Shifts
<1>7. CASE x = "EXIT1_DR" BY <1>7 DEF Step, Clear, Pausing, Shifts
<1>8. CASE x = "PAUSE_DR" BY <1>8 DEF Step, Clear, Pausing, Shifts
<1>9. CASE x = "EXIT2_DR" BY <1>9 DEF Step, Clear, Pausing, Shifts
<1>10. CASE x = "UPDATE_DR" BY <1>10 DEF Step, Clear, Pausing, Shifts
<1>11. CASE x = "CAPTURE_IR" BY <1>11 DEF Step, Clear, Pausing, Shifts
<1>12. CASE x = "SHIFT_IR" BY <1>12 DEF Step, Clear, Pausing, Shifts
<1>13. CASE x = "EXIT1_IR" BY <1>13 DEF Step, Clear, Pausing, Shifts
<1>14. CASE x = "PAUSE_IR" BY <1>14 DEF Step, Clear, Pausing, Shifts
<1>15. CASE x = "EXIT2_IR" BY <1>15 DEF Step, Clear, Pausing, Shifts
<1>16. CASE x = "UPDATE_IR" BY <1>16 DEF Step, Clear, Pausing, Shifts
<1>17. QED BY <1>1, <1>2, <1>3, <1>4, <1>5, <1>6, <1>7, <1>8, <1>9, <1>10, <1>11, <1>12, <1>13, <1>14, <1>15, <1>16

\* The equation of Walk.
Walks(g, w) == [x \in TapState |-> IF x = g THEN <<>>
                                   ELSE <<Step(x, g).tms>> \o w[Step(x, g).state]]

\* It has a solution: after as many turns as a walk can take, none is left.
LEMMA WalkExists ==
    ASSUME NEW g \in TapState
    PROVE  \E w \in [TapState -> Seq(0 .. 1)] : w = Walks(g, w)
<1> DEFINE F(w) == Walks(g, w)
           Good(n, w) == \A x \in TapState : Dist(x, g) <= n => w[x] = F(w)[x]
           S == {n \in Nat : \E w \in [TapState -> Seq(0 .. 1)] : Good(n, w)}
<1>1. ASSUME NEW w \in [TapState -> Seq(0 .. 1)] PROVE F(w) \in [TapState -> Seq(0 .. 1)]
  <2>1. ASSUME NEW x \in TapState, x # g
        PROVE  <<Step(x, g).tms>> \o w[Step(x, g).state] \in Seq(0 .. 1)
    <3>1. Step(x, g).tms \in 0 .. 1 /\ Step(x, g).state \in TapState BY <2>1, StepIsTap
    <3>2. <<Step(x, g).tms>> \in Seq(0 .. 1) /\ w[Step(x, g).state] \in Seq(0 .. 1) BY <3>1
    <3>3. QED BY <3>2, ConcatProperties
  <2>2. <<>> \in Seq(0 .. 1) BY EmptySeq
  <2>3. QED BY <2>1, <2>2 DEF Walks
<1>2. 0 \in S
  <2> DEFINE w == [x \in TapState |-> <<>>]
  <2>1. w \in [TapState -> Seq(0 .. 1)] BY EmptySeq
  <2>2. ASSUME NEW x \in TapState, Dist(x, g) <= 0 PROVE w[x] = F(w)[x]
    <3>1. x = g
      <4>1. x # g => Dist(x, g) \in 1 .. 24 BY StepDown
      <4>2. QED BY <4>1, <2>2
    <3>2. QED BY <3>1 DEF Walks
  <2>3. Good(0, w) BY <2>2
  <2>4. QED
    <3> HIDE DEF w, Good
    <3> QED BY <2>1, <2>3
<1>3. ASSUME NEW n \in Nat, n \in S PROVE n + 1 \in S
  <2>1. PICK w \in [TapState -> Seq(0 .. 1)] : Good(n, w) BY <1>3
  <2>2. F(w) \in [TapState -> Seq(0 .. 1)] BY <1>1
  <2>3. ASSUME NEW x \in TapState, Dist(x, g) <= n + 1 PROVE F(w)[x] = F(F(w))[x]
    <3>1. CASE x = g BY <3>1 DEF Walks
    <3>2. CASE x # g
      <4> DEFINE y == Step(x, g).state
      <4>1. y \in TapState /\ Dist(y, g) <= n
        <5>1. Dist(x, g) \in 1 .. 24 /\ Dist(y, g) \in 0 .. Dist(x, g) - 1 BY <3>2, StepDown
        <5>2. y \in TapState BY <3>2, StepIsTap
        <5>3. \A a, b : a \in 1 .. 24 /\ b \in 0 .. a - 1 /\ a <= n + 1 => b <= n OBVIOUS
        <5> HIDE DEF y
        <5>4. QED BY <5>1, <5>2, <5>3, <2>3
      <4>2. w[y] = F(w)[y]
        <5> HIDE DEF y, F
        <5> QED BY <2>1, <4>1
      <4>3. F(w)[x] = <<Step(x, g).tms>> \o w[y] BY <3>2 DEF Walks
      <4>4. F(F(w))[x] = <<Step(x, g).tms>> \o F(w)[y]
        <5> DEFINE v == F(w)
        <5> HIDE DEF v
        <5>1. F(v)[x] = <<Step(x, g).tms>> \o v[y] BY <3>2 DEF Walks
        <5>2. QED BY <5>1 DEF v
      <4>5. QED BY <4>2, <4>3, <4>4
    <3>3. QED BY <3>1, <3>2
  <2>4. Good(n + 1, F(w)) BY <2>3
  <2>5. QED
    <3> HIDE DEF F, Good
    <3> QED BY <2>2, <2>4
<1>4. \A n \in Nat : n \in S
  <2> HIDE DEF S
  <2> QED BY <1>2, <1>3, Induction
<1>5. 24 \in S BY <1>4
<1>6. PICK w \in [TapState -> Seq(0 .. 1)] : Good(24, w)
  <2> HIDE DEF Good
  <2> QED BY <1>5
<1>7. ASSUME NEW x \in TapState PROVE w[x] = F(w)[x]
  <2>1. CASE x = g
    <3>1. Dist(x, g) = 0 BY <2>1 DEF Dist, DrPause, IrPause
    <3>2. QED BY <3>1, <1>6
  <2>2. CASE x # g
    <3>1. Dist(x, g) \in 1 .. 24 BY <2>2, StepDown
    <3>2. Dist(x, g) <= 24 BY ONLY <3>1, SMTT(40)
    <3>3. QED BY <3>2, <1>6
  <2>3. QED BY <2>1, <2>2
<1>8. w = F(w)
  <2>1. F(w) \in [TapState -> Seq(0 .. 1)] BY <1>1
  <2> HIDE DEF F
  <2>2. QED BY <1>7, <2>1
<1>9. QED BY <1>8

\* Walk, unfolded once.
LEMMA WalkUnfold ==
    ASSUME NEW g \in TapState, NEW x \in TapState
    PROVE  /\ Walk(x, g) \in Seq(0 .. 1)
           /\ Walk(x, g) = IF x = g THEN <<>>
                           ELSE <<Step(x, g).tms>> \o Walk(Step(x, g).state, g)
<1>1. PICK w : w = Walks(g, w) /\ \A y : Walk(y, g) = w[y]
  <2> DEFINE v == CHOOSE v : v = Walks(g, v)
  <2>1. v = Walks(g, v)
    <3>1. \E u : u = Walks(g, u) BY WalkExists
    <3>2. QED BY <3>1
  <2>2. \A y : Walk(y, g) = v[y] BY DEF Walk, Walks
  <2>3. QED BY <2>1, <2>2
<1>2. ASSUME NEW y \in TapState
      PROVE  Walk(y, g) = IF y = g THEN <<>>
                          ELSE <<Step(y, g).tms>> \o Walk(Step(y, g).state, g)
  <2>1. w[y] = IF y = g THEN <<>> ELSE <<Step(y, g).tms>> \o w[Step(y, g).state]
    <3>1. Walks(g, w)[y] = IF y = g THEN <<>> ELSE <<Step(y, g).tms>> \o w[Step(y, g).state]
      BY DEF Walks
    <3>2. QED BY <3>1, <1>1
  <2>2. QED BY <2>1, <1>1
<1> DEFINE S == {n \in Nat : \A y \in TapState : Dist(y, g) <= n => Walk(y, g) \in Seq(0 .. 1)}
<1>3. 0 \in S
  <2> SUFFICES ASSUME NEW y \in TapState, Dist(y, g) <= 0 PROVE Walk(y, g) \in Seq(0 .. 1)
    OBVIOUS
  <2>1. y # g => Dist(y, g) \in 1 .. 24 BY StepDown
  <2>2. y = g BY <2>1
  <2>3. Walk(y, g) = <<>> BY <1>2, <2>2
  <2>4. QED BY <2>3, EmptySeq
<1>4. ASSUME NEW n \in Nat, n \in S PROVE n + 1 \in S
  <2> SUFFICES ASSUME NEW y \in TapState, Dist(y, g) <= n + 1 PROVE Walk(y, g) \in Seq(0 .. 1)
    OBVIOUS
  <2>1. CASE y = g
    <3>1. Walk(y, g) = <<>> BY <1>2, <2>1
    <3>2. QED BY <3>1, EmptySeq
  <2>2. CASE y # g
    <3>1. Dist(y, g) \in 1 .. 24 /\ Dist(Step(y, g).state, g) \in 0 .. Dist(y, g) - 1
      BY <2>2, StepDown
    <3>2. /\ Step(y, g).tms \in 0 .. 1 /\ Step(y, g).state \in TapState
          /\ Dist(Step(y, g).state, g) <= n
      BY <2>2, <3>1, StepIsTap
    <3>3. Walk(Step(y, g).state, g) \in Seq(0 .. 1) BY <1>4, <3>2
    <3>4. <<Step(y, g).tms>> \in Seq(0 .. 1) BY <3>2
    <3>5. Walk(y, g) = <<Step(y, g).tms>> \o Walk(Step(y, g).state, g) BY <1>2, <2>2
    <3>6. QED BY <3>3, <3>4, <3>5, ConcatProperties
  <2>3. QED BY <2>1, <2>2
<1>5. Walk(x, g) \in Seq(0 .. 1)
  <2>1. \A n \in Nat : n \in S
    <3> HIDE DEF S
    <3> QED BY <1>3, <1>4, Induction
  <2>2. Dist(x, g) \in 0 .. 24
    <3>1. x # g => Dist(x, g) \in 1 .. 24 BY StepDown
    <3>2. x = g => Dist(x, g) = 0 BY DEF Dist, DrPause, IrPause
    <3>3. QED BY <3>1, <3>2
  <2>3. Dist(x, g) \in S BY <2>1, <2>2, SMTT(40)
  <2>4. QED BY <2>2, <2>3
<1>6. QED BY <1>2, <1>5

\* Levels of TMS one by one.
LEMMA TmsCons ==
    ASSUME NEW a \in 0 .. 1, NEW w \in Seq(0 .. 1)
    PROVE  TmsPulses(<<a>> \o w) = << <<a, 0>> >> \o TmsPulses(w)
<1> DEFINE u == TmsPulses(<<a>> \o w)
           h == << <<a, 0>> >>
           v == h \o TmsPulses(w)
           b == <<a>>
<1>1. b \in Seq(0 .. 1) /\ Len(b) = 1 /\ b[1] = a OBVIOUS
<1>2. h \in Seq(Clocked) /\ Len(h) = 1 /\ h[1] = <<a, 0>> BY DEF Clocked
<1>3. /\ TmsPulses(w) \in Seq(Clocked) /\ Len(TmsPulses(w)) = Len(w) /\ Len(w) \in Nat
      /\ \A i \in 1 .. Len(w) : TmsPulses(w)[i] = <<w[i], 0>>
  <2>1. TmsPulses(w) \in Seq(Clocked) /\ Len(TmsPulses(w)) = Len(w) BY TmsType
  <2>2. DOMAIN w = 1 .. Len(w) /\ Len(w) \in Nat BY LenProperties
  <2>3. \A i \in 1 .. Len(w) : TmsPulses(w)[i] = <<w[i], 0>> BY <2>2 DEF TmsPulses
  <2>4. QED BY <2>1, <2>2, <2>3
<1>4. /\ b \o w \in Seq(0 .. 1) /\ Len(b \o w) = Len(w) + 1
      /\ \A i \in 1 .. Len(w) + 1 : (b \o w)[i] = IF i <= 1 THEN b[i] ELSE w[i - 1]
  <2> HIDE DEF b
  <2> QED BY <1>1, <1>3, ConcatProperties
<1>5. /\ u \in Seq(Clocked) /\ Len(u) = Len(w) + 1
      /\ \A i \in 1 .. Len(w) + 1 : u[i] = <<(b \o w)[i], 0>>
  <2>1. u \in Seq(Clocked) /\ Len(u) = Len(w) + 1 BY <1>4, TmsType
  <2>2. DOMAIN (b \o w) = 1 .. Len(w) + 1 BY <1>4, LenProperties
  <2>3. \A i \in 1 .. Len(w) + 1 : u[i] = <<(b \o w)[i], 0>> BY <2>2 DEF TmsPulses
  <2>4. QED BY <2>1, <2>3
<1>6. /\ v \in Seq(Clocked) /\ Len(v) = Len(w) + 1
      /\ \A i \in 1 .. Len(w) + 1 : v[i] = IF i <= 1 THEN h[i] ELSE TmsPulses(w)[i - 1]
  <2> DEFINE q == TmsPulses(w)
  <2>1. q \in Seq(Clocked) /\ Len(q) = Len(w) /\ Len(w) \in Nat BY <1>3
  <2> HIDE DEF h, q
  <2>2. /\ h \o q \in Seq(Clocked) /\ Len(h \o q) = Len(h) + Len(q)
        /\ \A i \in 1 .. Len(h) + Len(q) :
              (h \o q)[i] = IF i <= Len(h) THEN h[i] ELSE q[i - Len(h)]
    BY <1>2, <2>1, ConcatProperties, Zenon
  <2>3. Len(h) + Len(q) = Len(w) + 1 BY <1>2, <2>1
  <2>4. QED BY <1>2, <2>2, <2>3 DEF q
<1>7. ASSUME NEW i \in 1 .. Len(w) + 1 PROVE u[i] = v[i]
  <2> HIDE DEF u, v, h, b
  <2>1. CASE i = 1
    <3>1. u[1] = <<b[1], 0>> BY <1>4, <1>5, <2>1
    <3>2. v[1] = h[1] BY <1>6, <2>1
    <3>3. QED BY <3>1, <3>2, <1>1, <1>2, <2>1
  <2>2. CASE i # 1
    <3>1. i - 1 \in 1 .. Len(w) /\ ~(i <= 1) BY <2>2, <1>3
    <3>2. u[i] = <<w[i - 1], 0>> BY <1>4, <1>5, <3>1
    <3>3. v[i] = TmsPulses(w)[i - 1] BY <1>6, <3>1
    <3>4. QED BY <3>1, <3>2, <3>3, <1>3
  <2>3. QED BY <2>1, <2>2
<1>8. u = v
  <2> HIDE DEF u, v
  <2> QED BY <1>5, <1>6, <1>7, SeqEqual
<1>9. QED BY <1>8

Takes(t, g) ==
    LET u == Ticks(t, TmsPulses(Walk(t.state, g)))
    IN  u \in Taps /\ u.state = g /\ (Clear(t.state, g) => u.scan = t.scan)

\* A walk takes the ports to its goal, and on a clear one nothing is shifted.
LEMMA WalkTakes ==
    ASSUME NEW g \in TapState, NEW t \in Taps PROVE Takes(t, g)
<1> DEFINE S == {n \in Nat : \A u \in Taps : Dist(u.state, g) <= n => Takes(u, g)}
<1>1. ASSUME NEW u \in Taps, u.state = g PROVE Takes(u, g)
  <2>1. Walk(u.state, g) = <<>> BY <1>1, WalkUnfold
  <2>2. TmsPulses(<<>>) = <<>> BY DEF TmsPulses
  <2>3. Ticks(u, TmsPulses(Walk(u.state, g))) = u BY <2>1, <2>2, TicksNone
  <2>4. QED BY <2>3, <1>1 DEF Takes
<1>2. 0 \in S
  <2> SUFFICES ASSUME NEW u \in Taps, Dist(u.state, g) <= 0 PROVE Takes(u, g) OBVIOUS
  <2>1. u.state \in TapState BY DEF Taps
  <2>2. u.state # g => Dist(u.state, g) \in 1 .. 24 BY <2>1, StepDown
  <2>3. u.state = g BY <2>2
  <2>4. QED BY <2>3, <1>1
<1>3. ASSUME NEW n \in Nat, n \in S PROVE n + 1 \in S
  <2> SUFFICES ASSUME NEW u \in Taps, Dist(u.state, g) <= n + 1 PROVE Takes(u, g) OBVIOUS
  <2>1. CASE u.state = g BY <2>1, <1>1
  <2>2. CASE u.state # g
    <3> DEFINE x == u.state
               a == Step(x, g).tms
               y == Step(x, g).state
               p == <<a, 0>>
               v == Tick(u, p)
    <3>1. x \in TapState /\ x # g BY <2>2 DEF Taps
    <3>2. a \in 0 .. 1 /\ y \in TapState /\ TapNext(x, a) = y BY <3>1, StepIsTap
    <3>3. Dist(y, g) <= n
      <4>1. Dist(x, g) \in 1 .. 24 /\ Dist(y, g) \in 0 .. Dist(x, g) - 1 BY <3>1, StepDown
      <4>2. \A i, k : i \in 1 .. 24 /\ k \in 0 .. i - 1 /\ i <= n + 1 => k <= n OBVIOUS
      <4>3. Dist(x, g) <= n + 1 OBVIOUS
      <4> HIDE DEF x, y
      <4>4. QED BY <4>1, <4>2, <4>3
    <3>4. p \in Clocked /\ p[1] = a /\ p \in Seq(Nat) BY <3>2 DEF Clocked
    <3>5. v \in Taps /\ v.state = y /\ (x \notin Shifts => v.scan = u.scan)
      <4>1. v \in Taps /\ v.state = TapNext(x, p[1])
            /\ v.scan = IF x \in Shifts THEN u.scan \o <<p[2]>> ELSE u.scan
        <5> HIDE DEF p
        <5> QED BY <3>4, TickType
      <4>2. QED BY <4>1, <3>2, <3>4
    <3>6. Takes(v, g)
      <4> HIDE DEF v, y
      <4> QED BY <1>3, <3>3, <3>5
    <3>7. Walk(y, g) \in Seq(0 .. 1) /\ Walk(x, g) = <<a>> \o Walk(y, g)
      BY <3>1, <3>2, WalkUnfold
    <3>8. TmsPulses(Walk(x, g)) = <<p>> \o TmsPulses(Walk(y, g))
      <4> HIDE DEF a, x, y
      <4> QED BY <3>2, <3>7, TmsCons
    <3>9. Ticks(u, TmsPulses(Walk(x, g))) = Ticks(v, TmsPulses(Walk(y, g)))
      <4> HIDE DEF p, y, x, a
      <4>1. <<p>> \in Seq(Clocked) /\ TmsPulses(Walk(y, g)) \in Seq(Clocked)
        BY <3>4, <3>7, TmsType
      <4>2. Ticks(u, <<p>> \o TmsPulses(Walk(y, g))) = Ticks(Ticks(u, <<p>>), TmsPulses(Walk(y, g)))
        BY <4>1, TicksCat, Zenon
      <4>3. Ticks(u, <<p>>) = v BY <3>4, TicksOne
      <4>4. QED BY <3>8, <4>2, <4>3, Zenon
    <3>10. Clear(x, g) => x \notin Shifts /\ Clear(y, g) BY <3>1, StepClear
    <3>11. QED
      <4> HIDE DEF v, y, a, p
      <4> QED BY <3>5, <3>6, <3>9, <3>10 DEF Takes
  <2>3. QED BY <2>1, <2>2
<1>4. \A n \in Nat : n \in S
  <2> HIDE DEF S
  <2> QED BY <1>2, <1>3, Induction
<1>5. t.state \in TapState BY DEF Taps
<1>6. CASE t.state = g BY <1>1, <1>6
<1>7. CASE t.state # g
  <2>1. Dist(t.state, g) \in 1 .. 24 BY <1>5, <1>7, StepDown
  <2>2. Dist(t.state, g) \in S BY <1>4, <2>1
  <2>3. QED BY <2>1, <2>2
<1>8. QED BY <1>6, <1>7

-----------------------------------------------------------------------------
(* What the calls do to the ports.                                           *)

\* Joining sequences of bits.
LEMMA Assoc == \A a, b, d \in Seq(Nat) : (a \o b) \o d = a \o (b \o d)
<1> DEFINE N == Nat
<1>1. \A a, b, d \in Seq(N) : (a \o b) \o d = a \o (b \o d)
  <2> HIDE DEF N
  <2> QED BY ConcatAssociative
<1>2. QED BY <1>1

Bits(d, end) == [i \in DOMAIN d |-> <<IF end /\ i = Len(d) THEN 1 ELSE 0, d[i]>>]
ExitOf(sh) == IF sh = "SHIFT_DR" THEN "EXIT1_DR" ELSE "EXIT1_IR"

\* Bits of TDI are pulses.
LEMMA BitsType ==
    ASSUME NEW d \in Seq(Nat), NEW end \in BOOLEAN
    PROVE  /\ Bits(d, end) \in Seq(Clocked) /\ Len(Bits(d, end)) = Len(d) /\ Len(d) \in Nat
           /\ \A i \in 1 .. Len(d) : Bits(d, end)[i] = <<IF end /\ i = Len(d) THEN 1 ELSE 0, d[i]>>
<1>1. DOMAIN d = 1 .. Len(d) /\ Len(d) \in Nat BY LenProperties
<1>2. \A i \in DOMAIN d : d[i] \in Nat /\ <<IF end /\ i = Len(d) THEN 1 ELSE 0, d[i]>> \in Clocked
  BY LenProperties DEF Clocked
<1>3. Bits(d, end) \in [DOMAIN d -> Clocked] BY <1>2 DEF Bits
<1>4. Bits(d, end) \in [1 .. Len(d) -> Clocked] BY <1>1, <1>3
<1>5. \A i \in 1 .. Len(d) : Bits(d, end)[i] = <<IF end /\ i = Len(d) THEN 1 ELSE 0, d[i]>>
  BY <1>1 DEF Bits
<1>6. Bits(d, end) \in Seq(Clocked) /\ Len(Bits(d, end)) = Len(d) BY <1>1, <1>4
<1>7. QED BY <1>1, <1>5, <1>6

\* One more bit: only the last one may leave the shift state.
LEMMA BitsMore ==
    ASSUME NEW d \in Seq(Nat), NEW x \in Nat, NEW end \in BOOLEAN
    PROVE  Bits(d \o <<x>>, end) = Bits(d, FALSE) \o << <<IF end THEN 1 ELSE 0, x>> >>
<1> DEFINE b == <<x>>
           e == d \o b
           h == << <<IF end THEN 1 ELSE 0, x>> >>
           q == Bits(d, FALSE)
           u == Bits(e, end)
<1>1. b \in Seq(Nat) /\ Len(b) = 1 /\ b[1] = x OBVIOUS
<1>2. h \in Seq(Clocked) /\ Len(h) = 1 /\ h[1] = <<IF end THEN 1 ELSE 0, x>> BY DEF Clocked
<1>3. /\ q \in Seq(Clocked) /\ Len(q) = Len(d) /\ Len(d) \in Nat
      /\ \A i \in 1 .. Len(d) : q[i] = <<0, d[i]>>
  BY BitsType
<1>4. /\ e \in Seq(Nat) /\ Len(e) = Len(d) + 1
      /\ \A i \in 1 .. Len(d) : e[i] = d[i]
      /\ e[Len(d) + 1] = x
  <2> HIDE DEF b
  <2>1. /\ e \in Seq(Nat) /\ Len(e) = Len(d) + Len(b)
        /\ \A i \in 1 .. Len(d) + Len(b) : e[i] = IF i <= Len(d) THEN d[i] ELSE b[i - Len(d)]
    BY <1>1, ConcatProperties, Zenon
  <2>2. Len(e) = Len(d) + 1 BY <1>1, <2>1
  <2>3. ASSUME NEW i \in 1 .. Len(d) PROVE e[i] = d[i]
    <3>1. i \in 1 .. Len(d) + Len(b) /\ i <= Len(d) BY <1>1, <1>3
    <3>2. QED BY <2>1, <3>1
  <2>4. e[Len(d) + 1] = x
    <3>1. /\ Len(d) + 1 \in 1 .. Len(d) + Len(b) /\ ~(Len(d) + 1 <= Len(d))
          /\ Len(d) + 1 - Len(d) = 1
      BY <1>1, <1>3
    <3>2. e[Len(d) + 1] = b[1] BY <2>1, <3>1
    <3>3. QED BY <3>2, <1>1
  <2>5. QED BY <2>1, <2>2, <2>3, <2>4
<1>5. /\ u \in Seq(Clocked) /\ Len(u) = Len(e)
      /\ \A i \in 1 .. Len(e) : u[i] = <<IF end /\ i = Len(e) THEN 1 ELSE 0, e[i]>>
  <2> HIDE DEF e
  <2> QED BY <1>4, BitsType
<1> HIDE DEF b, e, h, q, u
<1>6. /\ q \o h \in Seq(Clocked) /\ Len(q \o h) = Len(q) + Len(h)
      /\ \A i \in 1 .. Len(q) + Len(h) : (q \o h)[i] = IF i <= Len(q) THEN q[i] ELSE h[i - Len(q)]
  <2>1. q \in Seq(Clocked) /\ h \in Seq(Clocked) BY <1>2, <1>3
  <2>2. QED BY <2>1, ConcatProperties, Zenon
<1>7. ASSUME NEW i \in 1 .. Len(d) + 1 PROVE u[i] = (q \o h)[i]
  <2>1. CASE i = Len(d) + 1
    <3>1. u[i] = <<IF end THEN 1 ELSE 0, x>> BY <1>4, <1>5, <2>1
    <3>2. i \in 1 .. Len(q) + Len(h) /\ ~(i <= Len(q)) /\ i - Len(q) = 1 BY <1>2, <1>3, <2>1
    <3>3. (q \o h)[i] = h[1] BY <1>6, <3>2
    <3>4. QED BY <3>1, <3>3, <1>2
  <2>2. CASE i # Len(d) + 1
    <3>1. i \in 1 .. Len(d) /\ i # Len(e) /\ i \in 1 .. Len(e) BY <1>3, <1>4, <2>2
    <3>2. u[i] = <<0, d[i]>> BY <1>4, <1>5, <3>1
    <3>3. i \in 1 .. Len(q) + Len(h) /\ i <= Len(q) BY <1>2, <1>3, <3>1
    <3>4. (q \o h)[i] = q[i] BY <1>6, <3>3
    <3>5. QED BY <1>3, <3>1, <3>2, <3>4
  <2>3. QED BY <2>1, <2>2
<1>8. Len(u) = Len(d) + 1 /\ Len(q \o h) = Len(d) + 1 BY <1>2, <1>3, <1>4, <1>5, <1>6
<1>9. u = q \o h BY <1>5, <1>6, <1>7, <1>8, SeqEqual
<1>10. QED BY <1>9 DEF u, e, b, q, h

\* A bit in a shift state.
LEMMA ShiftPulse ==
    ASSUME NEW t \in Taps, t.state \in Shifts, NEW x \in Nat, NEW end \in BOOLEAN
    PROVE  Tick(t, <<IF end THEN 1 ELSE 0, x>>) =
              [state |-> IF end THEN ExitOf(t.state) ELSE t.state, scan |-> t.scan \o <<x>>]
<1> DEFINE l == IF end THEN 1 ELSE 0
<1>1. TapNext(t.state, l) = IF end THEN ExitOf(t.state) ELSE t.state BY DEF TapNext, Shifts, ExitOf
<1>2. t.scan \in Seq(Nat) BY DEF Taps
<1>3. Append(t.scan, x) = t.scan \o <<x>> BY ONLY <1>2, x \in Nat, SMTT(40)
<1>4. QED BY <1>1, <1>3 DEF Tick

\* Bits that do not leave the shift state, whatever their number.
LEMMA Shifted ==
    ASSUME NEW t \in Taps, t.state \in Shifts, NEW d \in Seq(Nat)
    PROVE  Ticks(t, Bits(d, FALSE)) = [state |-> t.state, scan |-> t.scan \o d]
<1> DEFINE Good(n) == \A e \in Seq(Nat) : Len(e) = n =>
                         Ticks(t, Bits(e, FALSE)) = [state |-> t.state, scan |-> t.scan \o e]
           S == {n \in Nat : Good(n)}
<1>1. t.scan \in Seq(Nat) /\ t.state \in TapState BY DEF Taps
<1>2. 0 \in S
  <2> SUFFICES ASSUME NEW e \in Seq(Nat), Len(e) = 0
               PROVE  Ticks(t, Bits(e, FALSE)) = [state |-> t.state, scan |-> t.scan \o e]
    OBVIOUS
  <2>1. e = <<>> BY EmptySeq
  <2>2. t.scan \o e = t.scan BY <1>1, <2>1, ConcatEmptySeq
  <2>3. Bits(<<>>, FALSE) = <<>> BY DEF Bits
  <2>4. Ticks(t, Bits(e, FALSE)) = t BY <2>1, <2>3, TicksNone
  <2>5. t = [state |-> t.state, scan |-> t.scan] BY DEF Taps
  <2>6. QED BY <2>2, <2>4, <2>5
<1>3. ASSUME NEW n \in Nat, n \in S PROVE n + 1 \in S
  <2>a. Good(n)
    <3> HIDE DEF Good
    <3> QED BY <1>3
  <2>b. SUFFICES Good(n + 1)
    <3> HIDE DEF Good
    <3> QED OBVIOUS
  <2> SUFFICES ASSUME NEW e \in Seq(Nat), Len(e) = n + 1
               PROVE  Ticks(t, Bits(e, FALSE)) = [state |-> t.state, scan |-> t.scan \o e]
    BY Zenon
  <2> DEFINE r == First(e, n)
             x == e[n + 1]
  <2>1. r \in Seq(Nat) /\ x \in Nat /\ Len(r) = n /\ e = r \o <<x>> BY SplitLast, Zenon
  <2> HIDE DEF r, x
  <2>2. Ticks(t, Bits(r, FALSE)) = [state |-> t.state, scan |-> t.scan \o r] BY <2>a, <2>1, Zenon
  <2> DEFINE u == [state |-> t.state, scan |-> t.scan \o r]
             p == <<0, x>>
  <2>3. u \in Taps /\ u.state \in Shifts /\ u.state = t.state /\ u.scan = t.scan \o r
    BY <1>1, <2>1, ConcatProperties DEF Taps
  <2>4. p \in Clocked BY <2>1 DEF Clocked
  <2>5. Bits(e, FALSE) = Bits(r, FALSE) \o <<p>> BY <2>1, BitsMore
  <2>6. Tick(u, p) = [state |-> u.state, scan |-> u.scan \o <<x>>]
    <3> HIDE DEF u
    <3>1. Tick(u, <<IF FALSE THEN 1 ELSE 0, x>>) =
              [state |-> IF FALSE THEN ExitOf(u.state) ELSE u.state, scan |-> u.scan \o <<x>>]
      BY <2>1, <2>3, ShiftPulse
    <3>2. QED BY <3>1
  <2>7. Ticks(t, Bits(e, FALSE)) = Tick(u, p)
    <3> HIDE DEF u, p
    <3>1. Bits(r, FALSE) \in Seq(Clocked) BY <2>1, BitsType
    <3>2. Ticks(t, Bits(r, FALSE) \o <<p>>) = Tick(Ticks(t, Bits(r, FALSE)), p)
      BY <2>4, <3>1, TicksMore, Zenon
    <3>3. QED BY <2>2, <2>5, <3>2 DEF u
  <2>8. (t.scan \o r) \o <<x>> = t.scan \o e
    <3>1. <<x>> \in Seq(Nat) BY <2>1
    <3> DEFINE a == t.scan
               b == <<x>>
    <3>2. a \in Seq(Nat) /\ b \in Seq(Nat) /\ r \in Seq(Nat) BY <1>1, <2>1, <3>1
    <3> HIDE DEF a, b
    <3>3. (a \o r) \o b = a \o (r \o b) BY ONLY <3>2, Assoc, ZenonT(60)
    <3>4. e = r \o b BY <2>1 DEF b
    <3>5. QED BY <3>3, <3>4 DEF a, b
  <2>9. QED BY <2>3, <2>6, <2>7, <2>8
<1>4. \A n \in Nat : n \in S
  <2> HIDE DEF S
  <2> QED BY <1>2, <1>3, Induction
<1>5. Good(Len(d))
  <2> HIDE DEF Good
  <2> QED BY <1>4, LenProperties
<1>6. QED BY <1>5, Zenon

\* Bits of which the last one leaves it.
LEMMA ShiftedOut ==
    ASSUME NEW t \in Taps, t.state \in Shifts, NEW d \in Seq(Nat), d # <<>>
    PROVE  Ticks(t, Bits(d, TRUE)) = [state |-> ExitOf(t.state), scan |-> t.scan \o d]
<1>0. Len(d) - 1 \in Nat BY EmptySeq, LenProperties
<1> DEFINE n == Len(d) - 1
           r == First(d, n)
           x == d[n + 1]
<1>1. n \in Nat /\ Len(d) = n + 1 BY <1>0
<1>2. r \in Seq(Nat) /\ x \in Nat /\ d = r \o <<x>>
  <2> HIDE DEF n
  <2> QED BY <1>1, SplitLast, Zenon
<1> HIDE DEF n, r, x
<1>3. t.scan \in Seq(Nat) /\ t.state \in TapState BY DEF Taps
<1> DEFINE u == [state |-> t.state, scan |-> t.scan \o r]
           p == <<1, x>>
<1>4. Ticks(t, Bits(r, FALSE)) = u BY <1>2, Shifted
<1>5. u \in Taps /\ u.state \in Shifts /\ u.state = t.state /\ u.scan = t.scan \o r
  BY <1>2, <1>3, ConcatProperties DEF Taps
<1>6. p \in Clocked BY <1>2 DEF Clocked
<1>7. Bits(d, TRUE) = Bits(r, FALSE) \o <<p>> BY <1>2, BitsMore
<1>8. Tick(u, p) = [state |-> ExitOf(u.state), scan |-> u.scan \o <<x>>]
  <2> HIDE DEF u
  <2>1. Tick(u, <<IF TRUE THEN 1 ELSE 0, x>>) =
            [state |-> IF TRUE THEN ExitOf(u.state) ELSE u.state, scan |-> u.scan \o <<x>>]
    BY <1>2, <1>5, ShiftPulse
  <2>2. QED BY <2>1
<1>9. Ticks(t, Bits(d, TRUE)) = Tick(u, p)
  <2> HIDE DEF u, p
  <2>1. Bits(r, FALSE) \in Seq(Clocked) BY <1>2, BitsType
  <2>2. Ticks(t, Bits(r, FALSE) \o <<p>>) = Tick(Ticks(t, Bits(r, FALSE)), p)
    BY <1>6, <2>1, TicksMore, Zenon
  <2>3. QED BY <1>4, <1>7, <2>2
<1>10. (t.scan \o r) \o <<x>> = t.scan \o d
  <2>1. <<x>> \in Seq(Nat) BY <1>2
  <2>2. (t.scan \o r) \o <<x>> = t.scan \o (r \o <<x>>)
    BY <1>2, <1>3, <2>1, Assoc, ZenonT(60)
  <2>3. QED BY <1>2, <2>2, Zenon
<1>11. QED BY <1>5, <1>8, <1>9, <1>10

\* No idle cycle.
LEMMA ClkNone == ASSUME NEW t \in Taps, NEW l \in 0 .. 1 PROVE Ticks(t, ClkPulses(l, 0)) = t
<1>1. ClkPulses(l, 0) = <<>> BY DEF ClkPulses
<1>2. QED BY <1>1, TicksNone

\* One more idle cycle.
LEMMA ClkMore ==
    ASSUME NEW t \in Taps, NEW l \in 0 .. 1, NEW n \in Nat
    PROVE  /\ Ticks(t, ClkPulses(l, n)) \in Taps
           /\ Ticks(t, ClkPulses(l, n + 1)) = Tick(Ticks(t, ClkPulses(l, n)), <<l, 0>>)
<1> DEFINE p == <<l, 0>>
           q == ClkPulses(l, n)
           u == ClkPulses(l, n + 1)
           h == <<p>>
<1>1. p \in Clocked /\ h \in Seq(Clocked) /\ Len(h) = 1 /\ h[1] = p BY DEF Clocked
<1>2. /\ q \in Seq(Clocked) /\ Len(q) = n /\ u \in Seq(Clocked) /\ Len(u) = n + 1
      /\ \A i \in 1 .. n : q[i] = p
      /\ \A i \in 1 .. n + 1 : u[i] = p
  <2>0. n + 1 \in Nat OBVIOUS
  <2>1. q \in Seq(Clocked) /\ Len(q) = n /\ u \in Seq(Clocked) /\ Len(u) = n + 1
    BY <2>0, ClkType
  <2>2. \A i \in 1 .. n : q[i] = p BY DEF ClkPulses
  <2>3. \A i \in 1 .. n + 1 : u[i] = p BY DEF ClkPulses
  <2>4. QED BY <2>1, <2>2, <2>3
<1> HIDE DEF p, q, u, h
<1>4. /\ q \o h \in Seq(Clocked) /\ Len(q \o h) = Len(q) + Len(h)
      /\ \A i \in 1 .. Len(q) + Len(h) : (q \o h)[i] = IF i <= Len(q) THEN q[i] ELSE h[i - Len(q)]
  BY <1>1, <1>2, ConcatProperties, Zenon
<1>5. ASSUME NEW i \in 1 .. n + 1 PROVE u[i] = (q \o h)[i]
  <2>1. CASE i = n + 1
    <3>1. i \in 1 .. Len(q) + Len(h) /\ ~(i <= Len(q)) /\ i - Len(q) = 1 BY <1>1, <1>2, <2>1
    <3>2. (q \o h)[i] = h[1] BY <1>4, <3>1
    <3>3. QED BY <3>2, <1>1, <1>2
  <2>2. CASE i # n + 1
    <3>1. i \in 1 .. n /\ i \in 1 .. Len(q) + Len(h) /\ i <= Len(q) BY <1>1, <1>2, <2>2
    <3>2. (q \o h)[i] = q[i] BY <1>4, <3>1
    <3>3. QED BY <3>1, <3>2, <1>2
  <2>3. QED BY <2>1, <2>2
<1>6. u = q \o h
  <2>1. Len(u) = Len(q \o h) /\ Len(u) = n + 1 BY <1>1, <1>2, <1>4
  <2>2. QED BY <1>2, <1>4, <1>5, <2>1, SeqEqual
<1>7. Ticks(t, q \o h) = Tick(Ticks(t, q), p) BY <1>1, <1>2, TicksMore, Zenon DEF h
<1>8. Ticks(t, u) = Tick(Ticks(t, q), p) BY <1>6, <1>7
<1>9. Ticks(t, q) \in Taps BY <1>2, TicksType
<1>10. QED BY <1>8, <1>9 DEF p, q, u

\* Idle cycles change nothing in a state that a level of TMS keeps, outside of shifts.
LEMMA IdleTakes ==
    ASSUME NEW t \in Taps, NEW l \in 0 .. 1, NEW n \in Nat,
           t.state \notin Shifts, TapNext(t.state, l) = t.state
    PROVE  Ticks(t, ClkPulses(l, n)) = t
<1> DEFINE S == {k \in Nat : Ticks(t, ClkPulses(l, k)) = t}
<1>1. 0 \in S BY ClkNone
<1>2. ASSUME NEW k \in Nat, k \in S PROVE k + 1 \in S
  <2>1. Ticks(t, ClkPulses(l, k + 1)) = Tick(t, <<l, 0>>)
    <3>1. k \in Nat /\ Ticks(t, ClkPulses(l, k)) = t BY <1>2
    <3>2. Ticks(t, ClkPulses(l, k + 1)) = Tick(Ticks(t, ClkPulses(l, k)), <<l, 0>>)
      BY <3>1, ClkMore, Zenon
    <3>3. QED BY <3>1, <3>2, Zenon
  <2>2. Tick(t, <<l, 0>>) = [state |-> t.state, scan |-> t.scan] BY DEF Tick
  <2>3. t = [state |-> t.state, scan |-> t.scan] BY DEF Taps
  <2>4. QED BY <2>1, <2>2, <2>3
<1>3. \A k \in Nat : k \in S
  <2> HIDE DEF S
  <2> QED BY <1>1, <1>2, Induction
<1>4. QED BY <1>3

\* Six high levels reset the ports in whatever state they are.
LEMMA ResetTakes ==
    ASSUME NEW t \in Taps
    PROVE  LET u == Ticks(t, TmsPulses([i \in 1 .. 6 |-> 1]))
           IN  u \in Taps /\ u.state = "TEST_LOGIC_RESET"
<1> DEFINE R(n) == Ticks(t, ClkPulses(1, n))
           s0 == {"TEST_LOGIC_RESET"}
           s1 == s0 \cup {"SELECT_IR_SCAN"}
           s2 == s1 \cup {"SELECT_DR_SCAN"}
           s3 == s2 \cup {"UPDATE_DR", "UPDATE_IR", "RUN_TEST_IDLE"}
           s4 == s3 \cup {"EXIT1_DR", "EXIT1_IR", "EXIT2_DR", "EXIT2_IR"}
<1>1. TmsPulses([i \in 1 .. 6 |-> 1]) = ClkPulses(1, 6) BY DEF TmsPulses, ClkPulses
<1>2. ASSUME NEW n \in Nat
      PROVE  R(n) \in Taps /\ R(n + 1).state = TapNext(R(n).state, 1)
  <2>0. 1 \in 0 .. 1 OBVIOUS
  <2>1. R(n) \in Taps /\ R(n + 1) = Tick(R(n), <<1, 0>>) BY <2>0, ClkMore, Zenon
  <2>2. QED BY <2>1 DEF Tick
<1>3. /\ R(1).state = TapNext(R(0).state, 1) /\ R(2).state = TapNext(R(1).state, 1)
      /\ R(3).state = TapNext(R(2).state, 1) /\ R(4).state = TapNext(R(3).state, 1)
      /\ R(5).state = TapNext(R(4).state, 1) /\ R(6).state = TapNext(R(5).state, 1)
  <2>1. R(0 + 1).state = TapNext(R(0).state, 1) BY <1>2
  <2>2. R(1 + 1).state = TapNext(R(1).state, 1) BY <1>2
  <2>3. R(2 + 1).state = TapNext(R(2).state, 1) BY <1>2
  <2>4. R(3 + 1).state = TapNext(R(3).state, 1) BY <1>2
  <2>5. R(4 + 1).state = TapNext(R(4).state, 1) BY <1>2
  <2>6. R(5 + 1).state = TapNext(R(5).state, 1) BY <1>2
  <2>7. QED BY <2>1, <2>2, <2>3, <2>4, <2>5, <2>6
<1>4. R(0).state \in TapState
  <2>1. R(0) \in Taps BY <1>2
  <2>2. QED BY <2>1 DEF Taps
<1>5. R(6) \in Taps BY <1>2
<1>6. /\ \A s \in TapState : TapNext(s, 1) \in s4
      /\ \A s \in s4 : TapNext(s, 1) \in s3
      /\ \A s \in s3 : TapNext(s, 1) \in s2
      /\ \A s \in s2 : TapNext(s, 1) \in s1
      /\ \A s \in s1 : TapNext(s, 1) \in s0
      /\ \A s \in s0 : TapNext(s, 1) \in s0
  BY DEF TapNext, TapState, DrColumn, IrColumn, DrPause, IrPause
<1>7. R(6).state = "TEST_LOGIC_RESET"
  <2> HIDE DEF R
  <2>1. R(6).state \in s0
    <3> HIDE DEF s0, s1, s2, s3, s4
    <3> QED BY <1>3, <1>4, <1>6
  <2>2. QED BY <2>1
<1>8. QED BY <1>1, <1>5, <1>7

\* Padding is a sequence of bits.
LEMMA PadsType ==
    ASSUME NEW n \in Nat
    PROVE  /\ Pads(n) \in Seq(Nat) /\ Len(Pads(n)) = n
           /\ n = 0 => Pads(n) = <<>>
           /\ n > 0 => Pads(n) # <<>>
<1>1. Pads(n) \in [1 .. n -> Nat] BY DEF Pads, Pad
<1>2. Pads(n) \in Seq(Nat) /\ Len(Pads(n)) = n BY <1>1
<1>3. n = 0 => Pads(n) = <<>> BY <1>2, EmptySeq
<1>4. QED BY <1>2, <1>3, EmptySeq

\* The levels of TMS of a method.
LEMMA LevelsTake ==
    ASSUME NEW t \in Taps, NEW w \in Seq(0 .. 1)
    PROVE  /\ Levels(w, FALSE) \in Seq(Calls)
           /\ After(t, Levels(w, FALSE)) = Ticks(t, TmsPulses(w))
<1>1. CASE w = <<>>
  <2>1. Levels(w, FALSE) = <<>> BY <1>1 DEF Levels
  <2>2. <<>> \in Seq(Calls) BY EmptySeq
  <2>3. After(t, <<>>) = t BY <2>2, AfterType
  <2>4. TmsPulses(w) = <<>> BY <1>1 DEF TmsPulses
  <2>5. QED BY <2>1, <2>2, <2>3, <2>4, TicksNone
<1>2. CASE w # <<>>
  <2> DEFINE k == CallTMS(w, FALSE)
  <2>1. Levels(w, FALSE) = <<k>> BY <1>2 DEF Levels
  <2>2. k \in Calls BY DEF CallTMS, Calls
  <2>3. Meant(k) = TmsPulses(w) BY DEF CallTMS, Meant
  <2> HIDE DEF k
  <2>4. After(t, <<k>>) = Ticks(t, Meant(k)) BY <2>2, AfterOne
  <2>5. <<k>> \in Seq(Calls) BY <2>2
  <2>6. After(t, Levels(w, FALSE)) = Ticks(t, TmsPulses(w)) BY <2>1, <2>3, <2>4
  <2>7. Levels(w, FALSE) \in Seq(Calls) BY <2>1, <2>5
  <2>8. QED BY <2>6, <2>7
<1>3. QED BY <1>1, <1>2

\* A walk of a method.
LEMMA GotoTakes ==
    ASSUME NEW t \in Taps, NEW g \in TapState
    PROVE  LET cs == Levels(Walk(t.state, g), FALSE)
               u  == After(t, cs)
           IN  /\ cs \in Seq(Calls) /\ u \in Taps /\ u.state = g
               /\ Clear(t.state, g) => u.scan = t.scan
<1> DEFINE w == Walk(t.state, g)
<1>1. t.state \in TapState BY DEF Taps
<1>2. w \in Seq(0 .. 1) BY <1>1, WalkUnfold
<1>3. Levels(w, FALSE) \in Seq(Calls) /\ After(t, Levels(w, FALSE)) = Ticks(t, TmsPulses(w))
  <2> HIDE DEF w
  <2> QED BY <1>2, LevelsTake
<1>4. Takes(t, g) BY WalkTakes
<1>5. QED BY <1>3, <1>4 DEF Takes

\* Bits of a method.
LEMMA TdiTakes ==
    ASSUME NEW t \in Taps, t.state \in Shifts, NEW d \in Seq(Nat), d # <<>>,
           NEW rd \in BOOLEAN, NEW end \in BOOLEAN
    PROVE  /\ <<CallTDI(d, rd, end)>> \in Seq(Calls)
           /\ After(t, <<CallTDI(d, rd, end)>>) =
                  [state |-> IF end THEN ExitOf(t.state) ELSE t.state, scan |-> t.scan \o d]
<1> DEFINE k == CallTDI(d, rd, end)
<1>1. k \in Calls BY DEF CallTDI, Calls
<1>2. Meant(k) = Bits(d, end) BY DEF CallTDI, Meant, Bits
<1> HIDE DEF k
<1>3. After(t, <<k>>) = Ticks(t, Meant(k)) BY <1>1, AfterOne
<1>4. Ticks(t, Bits(d, end)) = [state |-> IF end THEN ExitOf(t.state) ELSE t.state, scan |-> t.scan \o d]
  <2>1. CASE end = TRUE BY <2>1, ShiftedOut
  <2>2. CASE end = FALSE BY <2>2, Shifted
  <2>3. QED BY <2>1, <2>2
<1>5. <<k>> \in Seq(Calls) BY <1>1
<1>6. QED BY <1>2, <1>3, <1>4, <1>5 DEF k

\* The part of a shift before the caller's bits.
Entered(t, sh, before) ==
    IF t.state = sh THEN <<>>
    ELSE Levels(Walk(t.state, sh), FALSE) \o
         (IF before > 0 THEN <<CallTDI(Pads(before), FALSE, FALSE)>> ELSE <<>>)

\* It ends in the shift state, with the padding in front unless the ports were there.
LEMMA EnterTakes ==
    ASSUME NEW t \in Taps, NEW sh \in Shifts, NEW before \in Nat
    PROVE  LET u == After(t, Entered(t, sh, before))
           IN  /\ Entered(t, sh, before) \in Seq(Calls) /\ u \in Taps /\ u.state = sh
               /\ t.state = sh => u.scan = t.scan
               /\ t.state \notin Shifts => u.scan = t.scan \o Pads(before)
<1> DEFINE a == Levels(Walk(t.state, sh), FALSE)
           b == IF before > 0 THEN <<CallTDI(Pads(before), FALSE, FALSE)>> ELSE <<>>
           v == After(t, a)
<1>1. sh \in TapState BY DEF Shifts, TapState, DrColumn, DrPause, IrColumn, IrPause
<1>2. CASE t.state = sh
  <2>1. Entered(t, sh, before) = <<>> /\ <<>> \in Seq(Calls) BY <1>2, EmptySeq DEF Entered
  <2>2. After(t, <<>>) = t BY <2>1, AfterType
  <2>3. QED BY <1>2, <2>1, <2>2
<1>3. CASE t.state # sh
  <2>1. Entered(t, sh, before) = a \o b BY <1>3 DEF Entered
  <2>2. a \in Seq(Calls) /\ v \in Taps /\ v.state = sh /\ (Clear(t.state, sh) => v.scan = t.scan)
    BY <1>1, GotoTakes
  <2>3. t.state \notin Shifts => Clear(t.state, sh) BY DEF Clear
  <2>4. v.scan \in Seq(Nat) BY <2>2 DEF Taps
  <2>5. /\ b \in Seq(Calls) /\ After(v, b) \in Taps /\ After(v, b).state = sh
        /\ After(v, b).scan = v.scan \o Pads(before)
    <3> HIDE DEF v
    <3>1. CASE before > 0
      <4>1. Pads(before) \in Seq(Nat) /\ Pads(before) # <<>> BY <3>1, PadsType
      <4>2. /\ b \in Seq(Calls)
            /\ After(v, b) = [state |-> v.state, scan |-> v.scan \o Pads(before)]
        <5>1. b = <<CallTDI(Pads(before), FALSE, FALSE)>> BY <3>1
        <5> HIDE DEF b
        <5>2. /\ <<CallTDI(Pads(before), FALSE, FALSE)>> \in Seq(Calls)
              /\ After(v, <<CallTDI(Pads(before), FALSE, FALSE)>>) =
                     [state |-> IF FALSE THEN ExitOf(v.state) ELSE v.state,
                      scan |-> v.scan \o Pads(before)]
          BY <2>2, <4>1, TdiTakes
        <5>3. QED BY <5>1, <5>2
      <4> HIDE DEF b
      <4>3. After(v, b) \in Taps BY <2>2, <4>2, AfterType
      <4>4. QED BY <2>2, <4>2, <4>3
    <3>2. CASE ~(before > 0)
      <4>1. b = <<>> /\ <<>> \in Seq(Calls) BY <3>2, EmptySeq
      <4>2. After(v, <<>>) = v BY <2>2, <4>1, AfterType
      <4>3. before = 0 BY <3>2
      <4>4. v.scan \o Pads(before) = v.scan BY <2>4, <4>3, PadsType, ConcatEmptySeq
      <4> HIDE DEF b
      <4>5. QED BY <2>2, <4>1, <4>2, <4>4
    <3>3. QED BY <3>1, <3>2
  <2>6. After(t, a \o b) = After(v, b)
    <3>1. b \in Seq(Calls) BY <2>5
    <3> HIDE DEF a, b
    <3>2. QED BY <2>2, <3>1, AfterCat
  <2>7. a \o b \in Seq(Calls)
    <3> HIDE DEF a, b
    <3> QED BY <2>2, <2>5, ConcatProperties
  <2>8. QED
    <3> HIDE DEF a, b, v
    <3> QED BY <1>3, <2>1, <2>2, <2>3, <2>5, <2>6, <2>7
<1>4. QED BY <1>2, <1>3

\* The part of a shift behind the caller's bits.
Left(sh, exit, after, goal) ==
    IF goal = sh THEN <<>>
    ELSE (IF after > 0 THEN <<CallTDI(Pads(after), FALSE, TRUE)>> ELSE <<>>) \o
         Levels(Walk(exit, goal), FALSE)

\* Where the caller's bits leave the ports.
Behind(sh, after) == IF after > 0 THEN sh ELSE ExitOf(sh)
Leaves(t, sh, after, goal) ==
    LET cs == Left(sh, ExitOf(sh), after, goal)
        u  == After(t, cs)
    IN  /\ cs \in Seq(Calls) /\ u \in Taps /\ u.state = goal
        /\ goal \notin Shifts => u.scan = t.scan \o Pads(after)

\* It ends in the goal: with padding from the shift state, without from the state behind.
LEMMA LeaveTakes ==
    ASSUME NEW t \in Taps, NEW sh \in Shifts, NEW after \in Nat, NEW goal \in TapState, goal # sh,
           t.state = Behind(sh, after)
    PROVE  Leaves(t, sh, after, goal)
<1> DEFINE x == ExitOf(sh)
           a == IF after > 0 THEN <<CallTDI(Pads(after), FALSE, TRUE)>> ELSE <<>>
           b == Levels(Walk(x, goal), FALSE)
           v == After(t, a)
<1>1. x \in TapState /\ x \in {"EXIT1_DR", "EXIT1_IR"}
  BY DEF ExitOf, TapState, DrColumn, DrPause, IrColumn, IrPause
<1>2. t.scan \in Seq(Nat) BY DEF Taps
<1>3. /\ a \in Seq(Calls) /\ v \in Taps /\ v.state = x /\ v.scan = t.scan \o Pads(after)
  <2>1. CASE after > 0
    <3>1. Pads(after) \in Seq(Nat) /\ Pads(after) # <<>> BY <2>1, PadsType
    <3>2. a = <<CallTDI(Pads(after), FALSE, TRUE)>> BY <2>1
    <3> HIDE DEF a
    <3>3. t.state = sh /\ t.state \in Shifts BY <2>1 DEF Behind
    <3>4. /\ <<CallTDI(Pads(after), FALSE, TRUE)>> \in Seq(Calls)
          /\ After(t, <<CallTDI(Pads(after), FALSE, TRUE)>>) =
                 [state |-> IF TRUE THEN ExitOf(t.state) ELSE t.state,
                  scan |-> t.scan \o Pads(after)]
      BY <3>1, <3>3, TdiTakes
    <3>5. a \in Seq(Calls) /\ v = [state |-> x, scan |-> t.scan \o Pads(after)]
      BY <3>2, <3>3, <3>4
    <3>6. v \in Taps BY <3>5, AfterType
    <3> HIDE DEF v
    <3>7. QED BY <3>5, <3>6
  <2>2. CASE ~(after > 0)
    <3>1. a = <<>> /\ <<>> \in Seq(Calls) BY <2>2, EmptySeq
    <3>2. After(t, <<>>) = t BY <3>1, AfterType
    <3>3. after = 0 BY <2>2
    <3>4. t.scan \o Pads(after) = t.scan BY <1>2, <3>3, PadsType, ConcatEmptySeq
    <3>5. QED BY <2>2, <3>1, <3>2, <3>4 DEF Behind
  <2>3. QED BY <2>1, <2>2
<1>4. /\ b \in Seq(Calls) /\ After(v, b) \in Taps /\ After(v, b).state = goal
      /\ Clear(x, goal) => After(v, b).scan = v.scan
  <2> HIDE DEF v, x
  <2> QED BY <1>3, GotoTakes
<1>5. goal \notin Shifts => Clear(x, goal) BY <1>1 DEF Clear, Shifts
<1>6. Left(sh, x, after, goal) = a \o b BY DEF Left
<1>7. After(t, a \o b) = After(v, b)
  <2> HIDE DEF a, b
  <2> QED BY <1>3, <1>4, AfterCat
<1>8. a \o b \in Seq(Calls)
  <2> HIDE DEF a, b, v
  <2> QED BY <1>3, <1>4, ConcatProperties
<1>9. QED
  <2> DEFINE u == After(v, b)
  <2>1. /\ a \o b \in Seq(Calls) /\ u \in Taps /\ u.state = goal
        /\ goal \notin Shifts => u.scan = t.scan \o Pads(after)
    <3> HIDE DEF a, b, v
    <3> QED BY <1>3, <1>4, <1>5, <1>8
  <2> HIDE DEF a, b, v, u
  <2>2. After(t, Left(sh, x, after, goal)) = u BY <1>6, <1>7 DEF u
  <2>3. QED BY <1>6, <2>1, <2>2 DEF Leaves

Shifting(t, o, sh, before, after, d, rd, goal) ==
    LET m == Shift(o, sh, ExitOf(sh), before, after, d, rd, goal)
        u == After(t, m.calls)
        f == IF t.state = sh THEN t.scan ELSE t.scan \o Pads(before)
    IN  /\ m.calls \in Seq(Calls) /\ u \in Taps /\ u.state = goal
        /\ goal = sh => u.scan = f \o d
        /\ goal \notin Shifts => u.scan = (f \o d) \o Pads(after)

\* A shift ends in its goal; what was shifted are the padding and the caller's bits.
LEMMA ShiftTakes ==
    ASSUME NEW t \in Taps, NEW sh \in Shifts, t.state = sh \/ t.state \notin Shifts,
           NEW before \in Nat, NEW after \in Nat, NEW d \in Seq(Nat), d # <<>>,
           NEW rd \in BOOLEAN, NEW goal \in TapState, NEW o, o.state = t.state
    PROVE  Shifting(t, o, sh, before, after, d, rd, goal)
<1> DEFINE end == after = 0 /\ goal # sh
           a == Entered(t, sh, before)
           b == <<CallTDI(d, rd, end)>>
           e == Left(sh, ExitOf(sh), after, goal)
           v == After(t, a)
           w == After(v, b)
           m == Shift(o, sh, ExitOf(sh), before, after, d, rd, goal)
           f == IF t.state = sh THEN t.scan ELSE t.scan \o Pads(before)
<1>1. m.calls = (a \o b) \o e BY DEF Shift, Entered, Left
<1>2. a \in Seq(Calls) /\ v \in Taps /\ v.state = sh /\ v.scan = f BY EnterTakes
<1>3. end \in BOOLEAN OBVIOUS
<1>4. b \in Seq(Calls) /\ w \in Taps
      /\ w.state = (IF end THEN ExitOf(sh) ELSE sh) /\ w.scan = f \o d
  <2> HIDE DEF v, end, f
  <2>1. b \in Seq(Calls) /\ w = [state |-> IF end THEN ExitOf(v.state) ELSE v.state, scan |-> v.scan \o d]
    BY <1>2, <1>3, TdiTakes
  <2> HIDE DEF b
  <2>2. w \in Taps BY <1>2, <2>1, AfterType
  <2> HIDE DEF w
  <2>3. QED BY <1>2, <2>1, <2>2
<1> HIDE DEF a, b, v, f
<1>5. /\ e \in Seq(Calls) /\ After(w, e) \in Taps /\ After(w, e).state = goal
      /\ goal = sh => After(w, e).scan = w.scan
      /\ goal \notin Shifts => After(w, e).scan = w.scan \o Pads(after)
  <2> HIDE DEF w
  <2>1. CASE goal = sh
    <3>1. e = <<>> /\ <<>> \in Seq(Calls) BY <2>1, EmptySeq DEF Left
    <3>2. After(w, <<>>) = w BY <1>4, <3>1, AfterType
    <3>3. w.state = sh BY <1>4, <2>1
    <3>4. QED BY <1>4, <2>1, <3>1, <3>2, <3>3
  <2>2. CASE goal # sh
    <3>1. w.state = Behind(sh, after) BY <1>4, <2>2 DEF Behind
    <3>2. w \in Taps BY <1>4
    <3> HIDE DEF e
    <3>3. Leaves(w, sh, after, goal) BY <2>2, <3>1, <3>2, LeaveTakes
    <3>4. QED BY <2>2, <3>3 DEF e, Leaves
  <2>3. QED BY <2>1, <2>2
<1> HIDE DEF e
<1>6. a \o b \in Seq(Calls) BY <1>2, <1>4, ConcatProperties
<1>7. (a \o b) \o e \in Seq(Calls) BY <1>5, <1>6, ConcatProperties
<1>8. After(t, a \o b) = w BY <1>2, <1>4, AfterCat DEF v, w
<1>9. After(t, (a \o b) \o e) = After(w, e)
  <2> HIDE DEF w
  <2> QED BY <1>5, <1>6, <1>8, AfterCat
<1>10. QED
  <2> HIDE DEF w
  <2>1. /\ m.calls \in Seq(Calls) /\ After(t, m.calls) = After(w, e)
        /\ After(t, m.calls) \in Taps
    <3>1. m.calls \in Seq(Calls) /\ After(t, m.calls) = After(w, e) BY <1>1, <1>7, <1>9
    <3> HIDE DEF m
    <3>2. QED BY <3>1, AfterType
  <2> HIDE DEF m
  <2>2. QED BY <1>4, <1>5, <2>1 DEF f, m, Shifting

\* Some calls and then others.
LEMMA AfterThen ==
    ASSUME NEW t \in Taps, NEW cs \in Seq(Calls), NEW ds \in Seq(Calls)
    PROVE  /\ cs \o ds \in Seq(Calls) /\ After(t, cs) \in Taps
           /\ After(t, cs \o ds) = After(After(t, cs), ds)
<1>1. cs \o ds \in Seq(Calls) BY ConcatProperties
<1>2. After(t, cs) \in Taps BY AfterType
<1>3. QED BY <1>1, <1>2, AfterCat

\* A flush is no pulse.
LEMMA FlushTakes ==
    ASSUME NEW t \in Taps
    PROVE  <<CallFlush>> \in Seq(Calls) /\ After(t, <<CallFlush>>) = t
<1> DEFINE k == CallFlush
<1>1. k \in Calls BY DEF CallFlush, Calls
<1>2. Meant(k) = <<>> BY DEF CallFlush, Meant
<1> HIDE DEF k
<1>3. After(t, <<k>>) = Ticks(t, Meant(k)) BY <1>1, AfterOne
<1>4. <<k>> \in Seq(Calls) BY <1>1
<1>5. QED BY <1>2, <1>3, <1>4, TicksNone DEF k

\* Clocking in a state that stays changes nothing.
LEMMA ClkTakes ==
    ASSUME NEW t \in Taps, NEW n \in Nat,
           t.state \in {"TEST_LOGIC_RESET", "RUN_TEST_IDLE", "PAUSE_DR", "PAUSE_IR"}
    PROVE  LET k == CallClk(IF t.state = "TEST_LOGIC_RESET" THEN 1 ELSE 0, n)
           IN  <<k>> \in Seq(Calls) /\ After(t, <<k>>) = t
<1> DEFINE l == IF t.state = "TEST_LOGIC_RESET" THEN 1 ELSE 0
           k == CallClk(l, n)
<1>1. l \in 0 .. 1 OBVIOUS
<1>2. TapNext(t.state, l) = t.state BY DEF TapNext
<1>3. t.state \notin Shifts BY DEF Shifts
<1> HIDE DEF l
<1>4. k \in Calls BY <1>1 DEF CallClk, Calls
<1>5. Meant(k) = ClkPulses(l, n) BY DEF CallClk, Meant
<1> HIDE DEF k
<1>6. After(t, <<k>>) = Ticks(t, Meant(k)) BY <1>4, AfterOne
<1>7. Ticks(t, ClkPulses(l, n)) = t BY <1>1, <1>2, <1>3, IdleTakes
<1>8. <<k>> \in Seq(Calls) BY <1>4
<1>9. QED BY <1>5, <1>6, <1>7, <1>8 DEF k, l

Words(d, rd, n) == [i \in 1 .. n |-> CallTDI(d, rd, FALSE)]

\* Words that are read one after the other.
LEMMA WordsTake ==
    ASSUME NEW t \in Taps, t.state \in Shifts, NEW d \in Seq(Nat), d # <<>>,
           NEW rd \in BOOLEAN, NEW n \in Nat
    PROVE  Words(d, rd, n) \in Seq(Calls) /\ After(t, Words(d, rd, n)).state = t.state
<1> DEFINE k == CallTDI(d, rd, FALSE)
           W(i) == Words(d, rd, i)
           S == {i \in Nat : After(t, W(i)).state = t.state}
<1>1. k \in Calls BY DEF CallTDI, Calls
<1>2. ASSUME NEW i \in Nat
      PROVE  W(i) \in Seq(Calls) /\ Len(W(i)) = i /\ \A x \in 1 .. i : W(i)[x] = k
  <2>1. W(i) = [x \in 1 .. i |-> k] BY DEF Words
  <2> HIDE DEF k
  <2>2. W(i) \in [1 .. i -> Calls] BY <1>1, <2>1
  <2>3. QED BY <2>1, <2>2
<1>3. 0 \in S
  <2>1. W(0) = <<>> BY <1>2, EmptySeq
  <2>2. After(t, <<>>) = t BY EmptySeq, AfterType
  <2>3. QED BY <2>1, <2>2
<1>4. ASSUME NEW i \in Nat, i \in S PROVE i + 1 \in S
  <2> DEFINE q == W(i)
             u == W(i + 1)
             h == <<k>>
             v == After(t, q)
  <2>1. /\ q \in Seq(Calls) /\ Len(q) = i /\ \A x \in 1 .. i : q[x] = k
        /\ u \in Seq(Calls) /\ Len(u) = i + 1 /\ \A x \in 1 .. i + 1 : u[x] = k
    <3> HIDE DEF S, W, k
    <3>1. i + 1 \in Nat OBVIOUS
    <3>2. W(i) \in Seq(Calls) /\ Len(W(i)) = i /\ \A x \in 1 .. i : W(i)[x] = k BY <1>2
    <3>3. /\ W(i + 1) \in Seq(Calls) /\ Len(W(i + 1)) = i + 1
          /\ \A x \in 1 .. i + 1 : W(i + 1)[x] = k
      BY <3>1, <1>2
    <3>4. QED BY <3>2, <3>3
  <2>2. h \in Seq(Calls) /\ Len(h) = 1 /\ h[1] = k
    <3> HIDE DEF k
    <3> QED BY <1>1
  <2> HIDE DEF q, u, h, k
  <2>3. /\ q \o h \in Seq(Calls) /\ Len(q \o h) = Len(q) + Len(h)
        /\ \A x \in 1 .. Len(q) + Len(h) : (q \o h)[x] = IF x <= Len(q) THEN q[x] ELSE h[x - Len(q)]
    BY <2>1, <2>2, ConcatProperties, Zenon
  <2>4. u = q \o h
    <3> HIDE DEF S
    <3>1. Len(q \o h) = i + 1 BY <2>1, <2>2, <2>3
    <3>2. ASSUME NEW x \in Nat, x \in 1 .. i + 1 PROVE (q \o h)[x] = u[x]
      <4>1. CASE x <= i BY <3>2, <4>1, <2>1, <2>2, <2>3
      <4>2. CASE ~(x <= i)
        <5>1. x = i + 1 /\ x - i = 1 BY <3>2, <4>2
        <5>2. (q \o h)[x] = h[1] BY <5>1, <4>2, <3>2, <2>1, <2>2, <2>3
        <5>3. QED BY <5>1, <5>2, <2>1, <2>2
      <4>3. QED BY <4>1, <4>2
    <3>3. \A x \in 1 .. i + 1 : x \in Nat OBVIOUS
    <3>4. \A x \in 1 .. Len(q \o h) : (q \o h)[x] = u[x] BY <3>1, <3>2, <3>3, Zenon
    <3>5. QED BY <2>1, <2>3, <3>1, <3>4, SeqEqual
  <2>5. v \in Taps /\ v.state = t.state
    <3>1. v \in Taps BY <2>1, AfterType
    <3>2. v.state = t.state BY <1>4 DEF q
    <3>3. QED BY <3>1, <3>2
  <2>6. After(t, u) = After(v, h) BY <2>1, <2>2, <2>4, AfterThen
  <2>7. After(v, h) = [state |-> IF FALSE THEN ExitOf(v.state) ELSE v.state, scan |-> v.scan \o d]
    <3> HIDE DEF v
    <3>1. After(v, <<CallTDI(d, rd, FALSE)>>) =
              [state |-> IF FALSE THEN ExitOf(v.state) ELSE v.state, scan |-> v.scan \o d]
      BY <2>5, TdiTakes
    <3>2. QED BY <3>1 DEF h, k
  <2>8. After(t, u).state = t.state
    <3> HIDE DEF v
    <3> QED BY <2>5, <2>6, <2>7
  <2>9. QED BY <2>8 DEF u
<1>5. \A i \in Nat : i \in S
  <2> HIDE DEF S
  <2> QED BY <1>3, <1>4, Induction
<1>6. QED BY <1>2, <1>5

\* A reset of the ports.
LEMMA GoResetTakes ==
    ASSUME NEW t \in Taps, NEW o
    PROVE  LET m == GoTestLogicReset(o)
               u == After(t, m.calls)
           IN  m.calls \in Seq(Calls) /\ u \in Taps /\ u.state = "TEST_LOGIC_RESET"
<1> DEFINE w == [i \in 1 .. 6 |-> 1]
<1>1. w \in Seq(0 .. 1) BY SMT
<1>2. GoTestLogicReset(o).calls = Levels(w, FALSE) BY DEF GoTestLogicReset
<1>3. LET u == Ticks(t, TmsPulses(w)) IN u \in Taps /\ u.state = "TEST_LOGIC_RESET"
  BY ResetTakes
<1> HIDE DEF w
<1>4. Levels(w, FALSE) \in Seq(Calls) /\ After(t, Levels(w, FALSE)) = Ticks(t, TmsPulses(w))
  BY <1>1, LevelsTake
<1>5. QED BY <1>2, <1>3, <1>4

-----------------------------------------------------------------------------
(* The chain and the padding.                                                *)

\* The equation of the partial results of Total.
Sums(s, f) == [i \in 0 .. Len(s) |-> IF i = 0 THEN 0 ELSE f[i - 1] + s[i]]

\* A sum of lengths is a length.
LEMMA TotalType == ASSUME NEW s \in Seq(Nat) PROVE Total(s) \in Nat
<1> DEFINE g == [y \in Nat \X Nat |-> y[1] + y[2]]
<1>1. \E h : h = Sums(s, h)
  <2>1. g \in [Nat \X Nat -> Nat] OBVIOUS
  <2>2. PICK f \in [0 .. Len(s) -> Nat] :
            f[0] = 0 /\ \A i \in 1 .. Len(s) : f[i] = g[<<f[i - 1], s[i]>>]
    <3> DEFINE Good(A, B, h, b, u) ==
                 \E f \in [0 .. Len(u) -> A] :
                     f[0] = b /\ \A i \in 1 .. Len(u) : f[i] = h[<<f[i - 1], u[i]>>]
    <3>1. \A A, B : \A h \in [A \X B -> A], b \in A, u \in Seq(B) : Good(A, B, h, b, u)
      BY FoldExists
    <3>2. Good(Nat, Nat, g, 0, s)
      <4>1. 0 \in Nat OBVIOUS
      <4> DEFINE N == Nat
      <4>2. g \in [N \X N -> N] /\ 0 \in N /\ s \in Seq(N) BY <2>1, <4>1
      <4> HIDE DEF g, Good, N
      <4>3. Good(N, N, g, 0, s) BY <4>2, <3>1, Zenon
      <4>4. QED BY <4>3 DEF N
    <3>3. QED BY <3>2
  <2>3. Len(s) \in Nat BY LenProperties
  <2>4. ASSUME NEW i \in 0 .. Len(s) PROVE f[i] = Sums(s, f)[i]
    <3>1. CASE i = 0 BY <3>1, <2>2 DEF Sums
    <3>2. CASE i # 0
      <4>1. i \in 1 .. Len(s) /\ i - 1 \in 0 .. Len(s) BY <3>2, <2>3
      <4>2. f[i - 1] \in Nat /\ s[i] \in Nat BY <4>1, LenProperties
      <4>3. g[<<f[i - 1], s[i]>>] = f[i - 1] + s[i] BY <4>2
      <4>4. QED BY <4>1, <4>3, <2>2, <3>2 DEF Sums
    <3>3. QED BY <3>1, <3>2
  <2>5. f = Sums(s, f) BY <2>4 DEF Sums
  <2>6. QED BY <2>5
<1>2. PICK h : h = Sums(s, h) /\ Total(s) = h[Len(s)]
  <2>1. Total(s) = (CHOOSE h : h = Sums(s, h))[Len(s)] BY DEF Total, Fold, Sums
  <2>2. QED BY <1>1, <2>1
<1>3. Len(s) \in Nat /\ \A i \in 1 .. Len(s) : s[i] \in Nat BY LenProperties
<1> DEFINE S == {n \in Nat : n <= Len(s) => h[n] \in Nat}
<1>4. 0 \in S
  <2>1. Sums(s, h)[0] = 0 BY <1>3 DEF Sums
  <2>2. QED BY <1>2, <2>1
<1>5. ASSUME NEW n \in Nat, n \in S PROVE n + 1 \in S
  <2> SUFFICES ASSUME n + 1 <= Len(s) PROVE h[n + 1] \in Nat OBVIOUS
  <2>1. n + 1 \in 0 .. Len(s) /\ n + 1 # 0 /\ n + 1 - 1 = n /\ n + 1 \in 1 .. Len(s)
    BY <1>3
  <2>2. Sums(s, h)[n + 1] = h[n + 1 - 1] + s[n + 1] BY <2>1 DEF Sums
  <2>3. h[n] \in Nat /\ s[n + 1] \in Nat BY <1>3, <1>5, <2>1
  <2>4. h[n + 1] = Sums(s, h)[n + 1] BY <1>2
  <2>5. QED BY <2>1, <2>2, <2>3, <2>4
<1>6. \A n \in Nat : n \in S
  <2> HIDE DEF S
  <2> QED BY <1>4, <1>5, Induction
<1>7. QED BY <1>6, <1>2, <1>3

\* A chain read from the other end, twice.
LEMMA ReverseTwice ==
    ASSUME NEW s \in Seq(Nat)
    PROVE  Reverse(s) \in Seq(Nat) /\ Len(Reverse(s)) = Len(s) /\ Reverse(Reverse(s)) = s
<1> DEFINE r == Reverse(s)
           n == Len(s)
<1>1. n \in Nat /\ \A i \in 1 .. n : s[i] \in Nat BY LenProperties
<1>2. \A i \in 1 .. n : (n - i) + 1 \in 1 .. n /\ (n - ((n - i) + 1)) + 1 = i BY <1>1
<1>3. r = [i \in 1 .. n |-> s[(n - i) + 1]] BY DEF Reverse
<1>4. r \in [1 .. n -> Nat] BY <1>1, <1>2, <1>3
<1>5. r \in Seq(Nat) /\ Len(r) = n BY <1>1, <1>4
<1>6. Reverse(r) = [i \in 1 .. n |-> r[(n - i) + 1]] BY <1>5 DEF Reverse
<1>7. \A i \in 1 .. n : r[(n - i) + 1] = s[i] BY <1>2, <1>3
<1>8. Reverse(r) \in [1 .. n -> Nat] BY <1>1, <1>6, <1>7
<1>9. Reverse(r) \in Seq(Nat) /\ Len(Reverse(r)) = n BY <1>1, <1>8
<1>10. \A i \in 1 .. Len(Reverse(r)) : Reverse(r)[i] = s[i] BY <1>6, <1>7, <1>9
<1>11. Reverse(r) = s
  <2> HIDE DEF r
  <2> QED BY <1>9, <1>10, SeqEqual
<1>12. QED BY <1>5, <1>11

\* What detectChain asks for ends in a reset, whatever the words it reads.
LEMMA DetectTakes ==
    ASSUME NEW t \in Taps, NEW o, NEW words \in Seq(Nat)
    PROVE  LET m == DetectChain(o, words, Octet, 32)
               u == After(t, m.calls)
           IN  m.calls \in Seq(Calls) /\ u \in Taps /\ u.state = "TEST_LOGIC_RESET"
<1> DEFINE reads == IF Len(words) < 32 THEN Len(words) + 1 ELSE 32
           d == [i \in 1 .. Octet |-> Pad]
           A == GoTestLogicReset(o).calls
           B == Levels(Walk("TEST_LOGIC_RESET", "SHIFT_DR"), FALSE)
           C == Words(d, TRUE, reads)
           D == Levels(Walk("SHIFT_DR", "TEST_LOGIC_RESET"), FALSE)
           E == <<CallFlush>>
           m == DetectChain(o, words, Octet, 32)
           tA == After(t, A)
           tB == After(tA, B)
           tC == After(tB, C)
           tD == After(tC, D)
<1>1. m.calls = (((A \o B) \o C) \o D) \o E BY DEF DetectChain, Words
<1>2. reads \in Nat BY LenProperties
<1>3. d \in Seq(Nat) /\ d # <<>>
  <2>1. Octet \in Nat /\ Octet > 0 BY BufferSizes
  <2>2. d = Pads(Octet) BY DEF Pads
  <2>3. QED BY <2>1, <2>2, PadsType
<1>4. A \in Seq(Calls) /\ tA \in Taps /\ tA.state = "TEST_LOGIC_RESET" BY GoResetTakes
<1>5. "SHIFT_DR" \in TapState /\ "TEST_LOGIC_RESET" \in TapState
  BY DEF TapState, DrColumn, IrColumn, DrPause, IrPause
<1>6. B \in Seq(Calls) /\ tB \in Taps /\ tB.state = "SHIFT_DR"
  <2> HIDE DEF tA
  <2>1. LET cs == Levels(Walk(tA.state, "SHIFT_DR"), FALSE)
            u  == After(tA, cs)
        IN  cs \in Seq(Calls) /\ u \in Taps /\ u.state = "SHIFT_DR"
    BY <1>4, <1>5, GotoTakes
  <2>2. QED BY <1>4, <2>1
<1>7. C \in Seq(Calls) /\ tC \in Taps /\ tC.state = "SHIFT_DR"
  <2> HIDE DEF tB, d, reads
  <2>1. tB.state \in Shifts BY <1>6 DEF Shifts
  <2>2. C \in Seq(Calls) /\ tC.state = tB.state BY <1>2, <1>3, <1>6, <2>1, WordsTake
  <2>3. tC \in Taps BY <1>6, <2>2, AfterType
  <2>4. QED BY <1>6, <2>2, <2>3
<1>8. D \in Seq(Calls) /\ tD \in Taps /\ tD.state = "TEST_LOGIC_RESET"
  <2> HIDE DEF tC
  <2>1. LET cs == Levels(Walk(tC.state, "TEST_LOGIC_RESET"), FALSE)
            u  == After(tC, cs)
        IN  cs \in Seq(Calls) /\ u \in Taps /\ u.state = "TEST_LOGIC_RESET"
    BY <1>5, <1>7, GotoTakes
  <2>2. QED BY <1>7, <2>1
<1>9. E \in Seq(Calls) /\ After(tD, E) = tD
  <2> HIDE DEF tD
  <2> QED BY <1>8, FlushTakes
<1> HIDE DEF A, B, C, D, E, m, tA, tB, tC, tD
<1>10. A \o B \in Seq(Calls) /\ After(t, A \o B) = tB BY <1>4, <1>6, AfterThen DEF tA, tB
<1>11. (A \o B) \o C \in Seq(Calls) /\ After(t, (A \o B) \o C) = tC
  BY <1>7, <1>10, AfterThen DEF tC
<1>12. ((A \o B) \o C) \o D \in Seq(Calls) /\ After(t, ((A \o B) \o C) \o D) = tD
  BY <1>8, <1>11, AfterThen DEF tD
<1>13. /\ (((A \o B) \o C) \o D) \o E \in Seq(Calls)
       /\ After(t, (((A \o B) \o C) \o D) \o E) = tD
  BY <1>9, <1>12, AfterThen
<1>14. m.calls \in Seq(Calls) /\ After(t, m.calls) = tD BY <1>1, <1>13
<1>15. QED BY <1>8, <1>14 DEF m

-----------------------------------------------------------------------------
(* The methods of class Jtag on the chain.                                   *)

At == [state |-> tap, scan |-> scan]
Follows(m, column, bits) ==
    LET u    == After(At, m.calls)
        stay == m.j.state \in Shifts
    IN  /\ tap' = u.state /\ j' = m.j /\ chain' = chain /\ sel' = sel
        /\ scan' = IF stay THEN u.scan ELSE <<>>
        /\ mine' = IF stay THEN mine \o bits ELSE <<>>
        /\ "load" \in wrong' =>
              \/ "load" \in wrong
              \/ column # "" /\ ~stay /\ u.scan # Loaded(column, mine \o bits)

\* What the ports make of the pulses of a method, whatever the cable does.
LEMMA MethodTakes ==
    ASSUME NEW m, NEW column, NEW bits, NEW read, Method(m, column, bits, read)
    PROVE  Follows(m, column, bits)
<1> DEFINE u == After(At, m.calls)
           stay == m.j.state \in Shifts
<1>1. /\ tap' = u.state /\ j' = m.j /\ chain' = chain /\ sel' = sel
      /\ scan' = IF stay THEN u.scan ELSE <<>>
      /\ mine' = IF stay THEN mine \o bits ELSE <<>>
  BY DEF Method, After, Ticks, Wire, At
<1>2. "load" \in wrong' =>
              \/ "load" \in wrong
              \/ column # "" /\ ~stay /\ u.scan # Loaded(column, mine \o bits)
  BY DEF Method, After, Ticks, Wire, At
<1>3. QED BY <1>1, <1>2 DEF Follows

\* The device that is addressed, in terms of the chain and the state of the ports.
BeforeDR == Len(chain) - sel - 1
BeforeIR == Total(SubSeq(chain, sel + 2, Len(chain)))
AfterIR == Total(SubSeq(chain, 1, sel))
Selected == [state |-> tap, irs |-> chain, drBefore |-> BeforeDR, drAfter |-> sel,
             irBefore |-> BeforeIR, irAfter |-> AfterIR]

\* What class Jtag knows of the chain and the ports.
Tracked ==
    /\ chain \in Chains /\ sel \in 0 .. Len(chain) - 1
    /\ tap \in TapState /\ scan \in Seq(Nat) /\ mine \in Seq(Nat)
    /\ j = NewJtag \/ j = Selected

\* The paddings are numbers of bits.
LEMMA Paddings ==
    ASSUME Tracked
    PROVE  /\ chain \in Seq(Nat) /\ chain # <<>> /\ sel \in Nat
           /\ BeforeDR \in Nat /\ BeforeIR \in Nat /\ AfterIR \in Nat
<1>1. chain \in Seq(Nat) /\ Len(chain) \in Nat /\ Len(chain) > 0
  <2>1. chain \in Seq(Nat \ {0}) /\ Len(chain) \in 1 .. 32 BY ChainAssumption DEF Tracked
  <2>2. chain \in Seq(Nat) BY <2>1, SeqMonotonic
  <2>3. Len(chain) \in 1 .. 32 BY <2>1
  <2>4. Len(chain) \in Nat /\ Len(chain) > 0 BY ONLY <2>3
  <2>5. QED BY <2>2, <2>4
<1>2. sel \in Nat /\ sel <= Len(chain) - 1 BY <1>1 DEF Tracked
<1>3. BeforeDR \in Nat BY <1>1, <1>2 DEF BeforeDR
<1>4. chain # <<>> BY <1>1, EmptySeq
<1>5. \A i \in 1 .. Len(chain) : chain[i] \in Nat BY <1>1, LenProperties
<1>6. \A a \in Nat \ {0} : \A b \in 0 .. Len(chain) : SubSeq(chain, a, b) \in Seq(Nat)
  <2> SUFFICES ASSUME NEW a \in Nat \ {0}, NEW b \in 0 .. Len(chain)
               PROVE  SubSeq(chain, a, b) \in Seq(Nat) OBVIOUS
  <2>1. a \in Int /\ b \in Int BY <1>1
  <2>2. \A i \in a .. b : i \in 1 .. Len(chain) BY <1>1
  <2>3. \A i \in a .. b : chain[i] \in Nat BY <2>2, <1>5
  <2> DEFINE N == Nat
  <2>4. \A i \in a .. b : chain[i] \in N BY <2>3
  <2> HIDE DEF N
  <2>5. SubSeq(chain, a, b) \in Seq(N) BY <2>1, <2>4, SubSeqProperties, Zenon
  <2>6. QED BY <2>5 DEF N
<1>7. BeforeIR \in Nat
  <2>1. sel + 2 \in Nat \ {0} /\ Len(chain) \in 0 .. Len(chain) BY <1>1, <1>2
  <2>2. SubSeq(chain, sel + 2, Len(chain)) \in Seq(Nat) BY <1>6, <2>1
  <2>3. QED BY <2>2, TotalType DEF BeforeIR
<1>8. AfterIR \in Nat
  <2>1. 1 \in Nat \ {0} /\ sel \in 0 .. Len(chain) BY <1>1, <1>2
  <2>2. SubSeq(chain, 1, sel) \in Seq(Nat) BY <1>6, <2>1
  <2>3. QED BY <2>2, TotalType DEF AfterIR
<1>9. QED BY <1>1, <1>2, <1>3, <1>4, <1>7, <1>8

\* The ports of the model.
LEMMA AtType ==
    ASSUME Tracked
    PROVE  At \in Taps /\ At.state = tap /\ At.scan = scan /\ tap \in TapState
BY DEF Tracked, At, Taps

\* The devices that are driven have been detected.
LEMMA ReadySelected ==
    ASSUME Tracked, Ready
    PROVE  j = Selected /\ j.state = tap
BY DEF Tracked, Ready, NewJtag, Selected

\* The caller's bits.
LEMMA DataType ==
    ASSUME NEW n \in Nat, n > 0
    PROVE  Data(n) \in Seq(Nat) /\ Data(n) # <<>>
<1>1. Data(n) \in [1 .. n -> Nat] BY DEF Data, Pad
<1>2. Data(n) \in Seq(Nat) /\ Len(Data(n)) = n BY <1>1
<1>3. QED BY <1>2, EmptySeq

\* A method of the selected device that ends in a state and says so.
Ends(m, bits, goal) ==
    /\ m.calls \in Seq(Calls) /\ After(At, m.calls).state = goal
    /\ m.j = [Selected EXCEPT !.state = goal] /\ m.j.state = goal
    /\ goal \in Shifts => mine \o bits \in Seq(Nat)

\* A method that says where it ends keeps the two in step.
LEMMA StepTracked ==
    ASSUME Tracked, NEW m, NEW column, NEW bits, NEW goal,
           Follows(m, column, bits), Ends(m, bits, goal)
    PROVE  Tracked' /\ Ready' /\ tap' = goal
<1> DEFINE u == After(At, m.calls)
<1>1. u \in Taps BY AtType, AfterType DEF Ends
<1>2. u.state = goal /\ m.j = [Selected EXCEPT !.state = goal] /\ m.j.state = goal BY DEF Ends
<1> HIDE DEF u
<1>3. u.state \in TapState /\ u.scan \in Seq(Nat) BY <1>1 DEF Taps
<1>4. tap' = u.state /\ j' = m.j /\ chain' = chain /\ sel' = sel BY DEF Follows, u
<1>5. scan' \in Seq(Nat)
  <2>1. scan' = IF m.j.state \in Shifts THEN u.scan ELSE <<>> BY DEF Follows, u
  <2>2. QED BY <1>3, <2>1, EmptySeq
<1>6. mine' \in Seq(Nat)
  <2>1. mine' = IF m.j.state \in Shifts THEN mine \o bits ELSE <<>> BY DEF Follows
  <2>2. goal \in Shifts => mine \o bits \in Seq(Nat) BY DEF Ends
  <2>3. QED BY <1>2, <2>1, <2>2, EmptySeq
<1>7. j' = Selected'
  <2>1. goal = tap' BY <1>2, <1>4
  <2>2. BeforeDR' = BeforeDR /\ BeforeIR' = BeforeIR /\ AfterIR' = AfterIR
    BY <1>4 DEF BeforeDR, BeforeIR, AfterIR
  <2>3. QED BY <1>2, <1>4, <2>1, <2>2 DEF Selected
<1>8. Tracked' BY <1>3, <1>4, <1>5, <1>6, <1>7 DEF Tracked
<1>9. Ready'
  <2>1. j'.irs = chain BY <1>4, <1>7 DEF Selected
  <2>2. chain # <<>> BY Paddings
  <2>3. QED BY <2>1, <2>2 DEF Ready
<1>10. QED BY <1>2, <1>4, <1>8, <1>9

ShiftOfIt(sh, before, after, d, rd, goal) ==
    LET m == Shift(j, sh, ExitOf(sh), before, after, d, rd, goal)
        u == After(At, m.calls)
        f == IF tap = sh THEN scan ELSE scan \o Pads(before)
    IN  /\ Ends(m, d, goal)
        /\ goal = sh => u.scan = f \o d
        /\ goal \notin Shifts => u.scan = (f \o d) \o Pads(after)

\* A shift of the selected device.
LEMMA ShiftEnds ==
    ASSUME Tracked, Ready, NEW sh \in Shifts, tap = sh \/ tap \notin Shifts,
           NEW before \in Nat, NEW after \in Nat, NEW d \in Seq(Nat), d # <<>>,
           NEW rd \in BOOLEAN, NEW goal \in TapState
    PROVE  ShiftOfIt(sh, before, after, d, rd, goal)
<1> DEFINE m == Shift(j, sh, ExitOf(sh), before, after, d, rd, goal)
           u == After(At, m.calls)
           f == IF tap = sh THEN scan ELSE scan \o Pads(before)
           t == At
<1>1. t \in Taps /\ t.state = tap /\ t.scan = scan BY AtType
<1>2. j = Selected /\ j.state = tap BY ReadySelected
<1>3. /\ m.calls \in Seq(Calls) /\ u \in Taps /\ u.state = goal
      /\ goal = sh => u.scan = f \o d
      /\ goal \notin Shifts => u.scan = (f \o d) \o Pads(after)
  <2> HIDE DEF t
  <2>1. j.state = t.state /\ (t.state = sh \/ t.state \notin Shifts) BY <1>1, <1>2
  <2>2. Shifting(t, j, sh, before, after, d, rd, goal) BY <1>1, <2>1, ShiftTakes
  <2>3. QED BY <1>1, <2>2 DEF Shifting, t
<1>4. m.j = [Selected EXCEPT !.state = goal] BY <1>2 DEF Shift
<1>5. [Selected EXCEPT !.state = goal].state = goal BY DEF Selected
<1>6. mine \o d \in Seq(Nat)
  <2>1. mine \in Seq(Nat) BY DEF Tracked
  <2>2. QED BY <2>1, ConcatProperties
<1>7. QED
  <2> HIDE DEF m, u, f, t
  <2>1. u.state = goal BY <1>3
  <2>2. Ends(m, d, goal) BY <1>3, <1>4, <1>5, <1>6 DEF Ends, u
  <2>3. QED BY <1>3, <2>2 DEF m, u, f, ShiftOfIt

\* set_state.
LEMMA SetStateEnds ==
    ASSUME Tracked, Ready, NEW goal \in TapState
    PROVE  Ends(SetState(j, goal), <<>>, goal)
<1> DEFINE m == SetState(j, goal)
           t == At
<1>1. t \in Taps /\ t.state = tap BY AtType
<1>2. j = Selected /\ j.state = tap BY ReadySelected
<1>3. m.calls \in Seq(Calls) /\ After(t, m.calls).state = goal
  <2>1. m.calls = Levels(Walk(t.state, goal), FALSE) BY <1>1, <1>2 DEF SetState
  <2> HIDE DEF t, m
  <2>2. LET cs == Levels(Walk(t.state, goal), FALSE)
            u  == After(t, cs)
        IN  cs \in Seq(Calls) /\ u \in Taps /\ u.state = goal
    BY <1>1, GotoTakes
  <2>3. QED BY <2>1, <2>2
<1>4. m.j = [Selected EXCEPT !.state = goal] BY <1>2 DEF SetState
<1>5. [Selected EXCEPT !.state = goal].state = goal BY DEF Selected
<1>6. mine \o <<>> \in Seq(Nat) BY ConcatEmptySeq DEF Tracked
<1>7. QED
  <2> HIDE DEF m
  <2> QED BY <1>3, <1>4, <1>5, <1>6 DEF Ends, m

\* go_test_logic_reset.
LEMMA ResetEnds ==
    ASSUME Tracked, Ready
    PROVE  Ends(GoTestLogicReset(j), <<>>, "TEST_LOGIC_RESET")
<1> DEFINE m == GoTestLogicReset(j)
           t == At
<1>1. t \in Taps BY AtType
<1>2. j = Selected BY ReadySelected
<1>3. m.calls \in Seq(Calls) /\ After(t, m.calls).state = "TEST_LOGIC_RESET"
  <2> HIDE DEF t
  <2>1. LET n == GoTestLogicReset(j)
            u == After(t, n.calls)
        IN  n.calls \in Seq(Calls) /\ u \in Taps /\ u.state = "TEST_LOGIC_RESET"
    BY <1>1, GoResetTakes
  <2>2. QED BY <2>1
<1>4. m.j = [Selected EXCEPT !.state = "TEST_LOGIC_RESET"] BY <1>2 DEF GoTestLogicReset
<1>5. [Selected EXCEPT !.state = "TEST_LOGIC_RESET"].state = "TEST_LOGIC_RESET" BY DEF Selected
<1>6. "TEST_LOGIC_RESET" \notin Shifts BY DEF Shifts
<1>7. QED
  <2> HIDE DEF m
  <2> QED BY <1>3, <1>4, <1>5, <1>6 DEF Ends, m

\* toggleClk, in a state in which callers clock.
LEMMA ClkEnds ==
    ASSUME Tracked, Ready, NEW n \in Nat,
           j.state \in {"TEST_LOGIC_RESET", "RUN_TEST_IDLE", "PAUSE_DR", "PAUSE_IR"}
    PROVE  Ends(ToggleClk(j, n), <<>>, tap) /\ tap \notin Shifts
<1> DEFINE m == ToggleClk(j, n)
           t == At
<1>1. t \in Taps /\ t.state = tap BY AtType
<1>2. j = Selected /\ j.state = tap BY ReadySelected
<1>3. m.calls \in Seq(Calls) /\ After(t, m.calls).state = tap
  <2> DEFINE k == CallClk(IF t.state = "TEST_LOGIC_RESET" THEN 1 ELSE 0, n)
  <2>1. m.calls = <<k>> BY <1>1, <1>2 DEF ToggleClk
  <2> HIDE DEF t, m
  <2>2. t.state \in {"TEST_LOGIC_RESET", "RUN_TEST_IDLE", "PAUSE_DR", "PAUSE_IR"} BY <1>1, <1>2
  <2>3. <<k>> \in Seq(Calls) /\ After(t, <<k>>) = t BY <1>1, <2>2, ClkTakes
  <2> HIDE DEF k
  <2>4. QED BY <1>1, <2>1, <2>3
<1>4. m.j = Selected BY <1>2 DEF ToggleClk
<1>5. Selected = [Selected EXCEPT !.state = tap] /\ Selected.state = tap BY DEF Selected
<1>6. tap \notin Shifts BY <1>2 DEF Shifts
<1>7. QED
  <2> HIDE DEF m
  <2> QED BY <1>3, <1>4, <1>5, <1>6 DEF Ends, m

\* flush.
LEMMA FlushEnds ==
    ASSUME Tracked, j = Selected
    PROVE  LET m == [calls |-> <<CallFlush>>, j |-> j]
           IN  Ends(m, <<>>, tap) /\ After(At, m.calls).scan = scan
<1> DEFINE m == [calls |-> <<CallFlush>>, j |-> j]
           t == At
<1>1. t \in Taps /\ t.state = tap /\ t.scan = scan BY AtType
<1>2. m.calls \in Seq(Calls) /\ After(t, m.calls) = t
  <2>1. m.calls = <<CallFlush>> OBVIOUS
  <2> HIDE DEF t, m
  <2>2. QED BY <1>1, <2>1, FlushTakes
<1>3. m.j = Selected OBVIOUS
<1>4. Selected = [Selected EXCEPT !.state = tap] /\ Selected.state = tap BY DEF Selected
<1>5. mine \o <<>> \in Seq(Nat) BY ConcatEmptySeq DEF Tracked
<1>6. QED
  <2> HIDE DEF m
  <2>1. Ends(m, <<>>, tap) BY <1>1, <1>2, <1>3, <1>4, <1>5 DEF Ends
  <2>2. After(At, m.calls).scan = scan BY <1>1, <1>2
  <2>3. QED BY <2>1, <2>2 DEF m

Opened(o) ==
    LET m == DetectChain(o, Reverse(chain), Octet, 32)
    IN  [m EXCEPT !.j = DeviceSelect(m.j, sel)]

\* The constructor and the selection of the device.
LEMMA OpenEnds ==
    ASSUME Tracked
    PROVE  Ends(Opened(j), <<>>, "TEST_LOGIC_RESET")
<1> DEFINE words == Reverse(chain)
           d == DetectChain(j, words, Octet, 32)
           m == Opened(j)
           t == At
<1>1. t \in Taps BY AtType
<1>2. chain \in Seq(Nat) BY Paddings
<1>3. words \in Seq(Nat) /\ Reverse(words) = chain BY <1>2, ReverseTwice
<1>4. d.calls \in Seq(Calls) /\ After(t, d.calls).state = "TEST_LOGIC_RESET"
  <2> HIDE DEF t, words
  <2>1. LET n == DetectChain(j, words, Octet, 32)
            u == After(t, n.calls)
        IN  n.calls \in Seq(Calls) /\ u \in Taps /\ u.state = "TEST_LOGIC_RESET"
    BY <1>1, <1>3, DetectTakes
  <2>2. QED BY <2>1
<1>5. d.j = [NewJtag EXCEPT !.state = "TEST_LOGIC_RESET", !.irs = chain]
  <2> HIDE DEF words
  <2> QED BY <1>3 DEF DetectChain
<1>6. m.calls = d.calls /\ m.j = DeviceSelect(d.j, sel)
  <2> HIDE DEF words
  <2>1. DOMAIN d = {"ok", "calls", "j"} BY DEF DetectChain
  <2>2. m = [d EXCEPT !.j = DeviceSelect(d.j, sel)] BY DEF Opened, words
  <2> HIDE DEF d, m
  <2>3. QED BY <2>1, <2>2
<1> HIDE DEF d, words
<1>7. m.j = [Selected EXCEPT !.state = "TEST_LOGIC_RESET"]
  <2> HIDE DEF m
  <2> DEFINE x == [state |-> "TEST_LOGIC_RESET", irs |-> chain,
                   drBefore |-> 0, drAfter |-> 0, irBefore |-> 0, irAfter |-> 0]
             y == [state |-> "TEST_LOGIC_RESET", irs |-> chain, drBefore |-> BeforeDR,
                   drAfter |-> sel, irBefore |-> BeforeIR, irAfter |-> AfterIR]
  <2>1. d.j = x BY <1>5 DEF NewJtag
  <2>2. x.irs = chain OBVIOUS
  <2>3. DeviceSelect(x, sel) = [x EXCEPT !.drBefore = BeforeDR, !.drAfter = sel,
                                         !.irAfter = AfterIR, !.irBefore = BeforeIR]
    <3> HIDE DEF x
    <3> QED BY <2>2 DEF DeviceSelect, BeforeDR, BeforeIR, AfterIR
  <2>4. [x EXCEPT !.drBefore = BeforeDR, !.drAfter = sel,
                  !.irAfter = AfterIR, !.irBefore = BeforeIR] = y
    <3> DEFINE R(a, b, e, f) == [state |-> "TEST_LOGIC_RESET", irs |-> chain,
                                 drBefore |-> a, drAfter |-> b, irBefore |-> e, irAfter |-> f]
    <3>1. \A z, a, b, e, f :
              [z EXCEPT !.drBefore = a, !.drAfter = b, !.irAfter = f, !.irBefore = e]
              = [[[[z EXCEPT !.drBefore = a] EXCEPT !.drAfter = b]
                     EXCEPT !.irAfter = f] EXCEPT !.irBefore = e]
      OBVIOUS
    <3>2. \A a, b, e, f, g : [R(a, b, e, f) EXCEPT !.drBefore = g] = R(g, b, e, f) OBVIOUS
    <3>3. \A a, b, e, f, g : [R(a, b, e, f) EXCEPT !.drAfter = g] = R(a, g, e, f) OBVIOUS
    <3>4. \A a, b, e, f, g : [R(a, b, e, f) EXCEPT !.irAfter = g] = R(a, b, e, g) OBVIOUS
    <3>5. \A a, b, e, f, g : [R(a, b, e, f) EXCEPT !.irBefore = g] = R(a, b, g, f) OBVIOUS
    <3>6. x = R(0, 0, 0, 0) /\ y = R(BeforeDR, sel, BeforeIR, AfterIR) OBVIOUS
    <3> HIDE DEF x, y, R
    <3>7. [x EXCEPT !.drBefore = BeforeDR] = R(BeforeDR, 0, 0, 0) BY <3>2, <3>6
    <3>8. [R(BeforeDR, 0, 0, 0) EXCEPT !.drAfter = sel] = R(BeforeDR, sel, 0, 0) BY <3>3
    <3>9. [R(BeforeDR, sel, 0, 0) EXCEPT !.irAfter = AfterIR] = R(BeforeDR, sel, 0, AfterIR)
      BY <3>4
    <3>10. [R(BeforeDR, sel, 0, AfterIR) EXCEPT !.irBefore = BeforeIR] = y BY <3>5, <3>6
    <3>11. QED BY <3>1, <3>7, <3>8, <3>9, <3>10
  <2>5. [Selected EXCEPT !.state = "TEST_LOGIC_RESET"] = y BY DEF Selected
  <2>6. QED
    <3> HIDE DEF x, y
    <3> QED BY <1>6, <2>1, <2>3, <2>4, <2>5
<1>8. [Selected EXCEPT !.state = "TEST_LOGIC_RESET"].state = "TEST_LOGIC_RESET" BY DEF Selected
<1>9. "TEST_LOGIC_RESET" \notin Shifts BY DEF Shifts
<1>10. QED
  <2> HIDE DEF m
  <2> QED BY <1>4, <1>6, <1>7, <1>8, <1>9 DEF Ends, m

-----------------------------------------------------------------------------
(* The steps of the system.                                                  *)

ShiftsDR(n, rd, goal) == Ends(ShiftDR(j, Data(n), rd, goal), Data(n), goal)
ShiftsIR(n, goal) == Ends(ShiftIR(j, Data(n), goal), Data(n), goal)

\* shiftDR of the selected device ends where it says.
LEMMA DoShiftDREnds ==
    ASSUME Tracked, NEW n \in Lens, NEW rd \in BOOLEAN, NEW goal \in TapState,
           DoShiftDR(n, rd, goal)
    PROVE  LET u == After(At, ShiftDR(j, Data(n), rd, goal).calls)
               f == IF tap = "SHIFT_DR" THEN scan ELSE scan \o Pads(BeforeDR)
           IN  /\ ShiftsDR(n, rd, goal)
               /\ goal = "SHIFT_DR" => u.scan = f \o Data(n)
               /\ goal \notin Shifts => u.scan = (f \o Data(n)) \o Pads(sel)
<1> DEFINE sh == "SHIFT_DR"
           m == Shift(j, sh, ExitOf(sh), BeforeDR, sel, Data(n), rd, goal)
           u == After(At, m.calls)
           f == IF tap = sh THEN scan ELSE scan \o Pads(BeforeDR)
<1>1. Ready /\ j.state # "SHIFT_IR" BY DEF DoShiftDR
<1>2. j = Selected /\ j.state = tap BY <1>1, ReadySelected
<1>3. n \in Nat /\ n > 0 BY CallerAssumption
<1>4. Data(n) \in Seq(Nat) /\ Data(n) # <<>> BY <1>3, DataType
<1>5. sh \in Shifts /\ (tap = sh \/ tap \notin Shifts) BY <1>1, <1>2 DEF Shifts
<1>6. BeforeDR \in Nat /\ sel \in Nat BY Paddings
<1>7. ShiftDR(j, Data(n), rd, goal) = m
  <2>1. j.drBefore = BeforeDR /\ j.drAfter = sel BY <1>2 DEF Selected
  <2>2. ExitOf(sh) = "EXIT1_DR" BY DEF ExitOf
  <2>3. QED BY <2>1, <2>2 DEF ShiftDR
<1>8. /\ Ends(m, Data(n), goal)
      /\ goal = sh => u.scan = f \o Data(n)
      /\ goal \notin Shifts => u.scan = (f \o Data(n)) \o Pads(sel)
  <2> DEFINE d == Data(n)
  <2>1. d \in Seq(Nat) /\ d # <<>> BY <1>4
  <2> HIDE DEF d, sh
  <2>2. ShiftOfIt(sh, BeforeDR, sel, d, rd, goal)
    BY <1>1, <1>5, <1>6, <2>1, ShiftEnds
  <2>3. QED BY <2>2 DEF d, ShiftOfIt
<1>9. QED BY <1>7, <1>8 DEF ShiftsDR

\* shiftIR of the selected device ends where it says.
LEMMA DoShiftIREnds ==
    ASSUME Tracked, NEW n \in Lens, NEW goal \in TapState, DoShiftIR(n, goal)
    PROVE  LET u == After(At, ShiftIR(j, Data(n), goal).calls)
               f == IF tap = "SHIFT_IR" THEN scan ELSE scan \o Pads(BeforeIR)
           IN  /\ ShiftsIR(n, goal)
               /\ goal = "SHIFT_IR" => u.scan = f \o Data(n)
               /\ goal \notin Shifts => u.scan = (f \o Data(n)) \o Pads(AfterIR)
<1> DEFINE sh == "SHIFT_IR"
           m == Shift(j, sh, ExitOf(sh), BeforeIR, AfterIR, Data(n), FALSE, goal)
           u == After(At, m.calls)
           f == IF tap = sh THEN scan ELSE scan \o Pads(BeforeIR)
<1>1. Ready /\ j.state # "SHIFT_DR" BY DEF DoShiftIR
<1>2. j = Selected /\ j.state = tap BY <1>1, ReadySelected
<1>3. n \in Nat /\ n > 0 BY CallerAssumption
<1>4. Data(n) \in Seq(Nat) /\ Data(n) # <<>> BY <1>3, DataType
<1>5. sh \in Shifts /\ (tap = sh \/ tap \notin Shifts) BY <1>1, <1>2 DEF Shifts
<1>6. BeforeIR \in Nat /\ AfterIR \in Nat BY Paddings
<1>7. ShiftIR(j, Data(n), goal) = m
  <2>1. j.irBefore = BeforeIR /\ j.irAfter = AfterIR BY <1>2 DEF Selected
  <2>2. ExitOf(sh) = "EXIT1_IR" BY DEF ExitOf
  <2>3. QED BY <2>1, <2>2 DEF ShiftIR
<1>8. /\ Ends(m, Data(n), goal)
      /\ goal = sh => u.scan = f \o Data(n)
      /\ goal \notin Shifts => u.scan = (f \o Data(n)) \o Pads(AfterIR)
  <2> DEFINE d == Data(n)
             rd == FALSE
  <2>1. d \in Seq(Nat) /\ d # <<>> /\ rd \in BOOLEAN BY <1>4
  <2> HIDE DEF d, sh, rd
  <2>2. ShiftOfIt(sh, BeforeIR, AfterIR, d, rd, goal)
    BY <1>1, <1>5, <1>6, <2>1, ShiftEnds
  <2>3. QED BY <2>2 DEF d, rd, ShiftOfIt
<1>9. QED BY <1>7, <1>8 DEF ShiftsIR

\* Where a shift may end.
LEMMA GoalsAreStates ==
    /\ \A goal \in Goals \cup {"SHIFT_DR", "SHIFT_IR"} \cup Pauses : goal \in TapState
BY CallerAssumption DEF TapState, DrColumn, DrPause, IrColumn, IrPause

\* At first nothing has been detected.
LEMMA InitTracked == Init => Tracked
<1> SUFFICES ASSUME Init PROVE Tracked OBVIOUS
<1>1. tap \in TapState BY DEF Init, TapState, DrColumn, IrColumn, DrPause, IrPause
<1>2. scan \in Seq(Nat) /\ mine \in Seq(Nat) BY EmptySeq DEF Init
<1>3. chain \in Chains /\ sel \in 0 .. Len(chain) - 1 /\ j = NewJtag BY DEF Init
<1>4. QED BY <1>1, <1>2, <1>3 DEF Tracked

\* Every step keeps class Jtag and the ports in step.
LEMMA NextTracked == Tracked /\ [Next]_vars => Tracked'
<1> SUFFICES ASSUME Tracked, [Next]_vars PROVE Tracked' OBVIOUS
<1>1. CASE Open
  <2> DEFINE m == Opened(j)
             goal == "TEST_LOGIC_RESET"
  <2>1. \E read : Method(m, "", <<>>, read) BY <1>1 DEF Open, Opened
  <2> HIDE DEF m
  <2>2. Follows(m, "", <<>>) BY <2>1, MethodTakes
  <2>3. Ends(m, <<>>, goal) BY OpenEnds DEF m
  <2>4. QED BY <2>2, <2>3, StepTracked
<1>2. ASSUME NEW n \in Lens, NEW rd \in BOOLEAN, NEW goal \in Goals \cup {"SHIFT_DR"},
             DoShiftDR(n, rd, goal)
      PROVE  Tracked'
  <2> DEFINE m == ShiftDR(j, Data(n), rd, goal)
  <2>1. Follows(m, "DR", Data(n))
    <3>1. \E read : Method(m, "DR", Data(n), read) BY <1>2 DEF DoShiftDR
    <3> HIDE DEF m
    <3>2. QED BY <3>1, MethodTakes
  <2>2. goal \in TapState BY GoalsAreStates
  <2>3. Ends(m, Data(n), goal) BY <1>2, <2>2, DoShiftDREnds DEF ShiftsDR
  <2> HIDE DEF m
  <2>4. QED BY <2>1, <2>3, StepTracked
<1>3. ASSUME NEW n \in Lens, NEW goal \in Goals \cup {"SHIFT_IR"}, DoShiftIR(n, goal)
      PROVE  Tracked'
  <2> DEFINE m == ShiftIR(j, Data(n), goal)
  <2>1. Follows(m, "IR", Data(n))
    <3>1. \E read : Method(m, "IR", Data(n), read) BY <1>3 DEF DoShiftIR
    <3> HIDE DEF m
    <3>2. QED BY <3>1, MethodTakes
  <2>2. goal \in TapState BY GoalsAreStates
  <2>3. Ends(m, Data(n), goal) BY <1>3, <2>2, DoShiftIREnds DEF ShiftsIR
  <2> HIDE DEF m
  <2>4. QED BY <2>1, <2>3, StepTracked
<1>4. ASSUME NEW goal \in Pauses, DoSetState(goal) PROVE Tracked'
  <2> DEFINE m == SetState(j, goal)
  <2>1. Ready /\ Follows(m, "", <<>>) BY <1>4, MethodTakes DEF DoSetState
  <2>2. Ends(m, <<>>, goal) BY <2>1, GoalsAreStates, SetStateEnds
  <2> HIDE DEF m
  <2>3. QED BY <2>1, <2>2, StepTracked
<1>5. CASE DoReset
  <2> DEFINE m == GoTestLogicReset(j)
             goal == "TEST_LOGIC_RESET"
  <2>1. Ready /\ Follows(m, "", <<>>) BY <1>5, MethodTakes DEF DoReset
  <2>2. Ends(m, <<>>, goal) BY <2>1, ResetEnds
  <2> HIDE DEF m, goal
  <2>3. QED BY <2>1, <2>2, StepTracked
<1>6. ASSUME NEW n \in Clks, DoToggleClk(n) PROVE Tracked'
  <2> DEFINE m == ToggleClk(j, n)
  <2>1. Ready /\ Follows(m, "", <<>>) BY <1>6, MethodTakes DEF DoToggleClk
  <2>2. n \in Nat BY CallerAssumption
  <2>3. Ends(m, <<>>, tap) BY <1>6, <2>1, <2>2, ClkEnds DEF DoToggleClk
  <2> HIDE DEF m
  <2>4. QED BY <2>1, <2>3, StepTracked
<1>7. CASE DoFlush
  <2> DEFINE m == [calls |-> <<CallFlush>>, j |-> j]
  <2>1. Ready /\ Follows(m, "", <<>>) BY <1>7, MethodTakes DEF DoFlush
  <2>2. j = Selected BY <2>1, ReadySelected
  <2>3. Ends(m, <<>>, tap) BY <2>2, FlushEnds
  <2> HIDE DEF m
  <2>4. QED BY <2>1, <2>3, StepTracked
<1>8. CASE UNCHANGED vars
  BY <1>8 DEF vars, Tracked, Selected, BeforeDR, BeforeIR, AfterIR
<1>9. QED BY <1>1, <1>2, <1>3, <1>4, <1>5, <1>6, <1>7, <1>8 DEF Next

\* The state that class Jtag keeps is the state of the ports, for chains, shifts and
\* numbers of idle cycles of any length, over every driver of a cable.
THEOREM StateTracked == Spec => []StateIsTracked
<1>1. Tracked => StateIsTracked
  <2> SUFFICES ASSUME Tracked, Ready PROVE tap = j.state BY DEF StateIsTracked
  <2>1. QED BY ReadySelected
<1>2. QED BY <1>1, InitTracked, NextTracked, PTL DEF Spec

-----------------------------------------------------------------------------
(* What the registers of the devices hold.                                   *)

Padded(sh) == Pads(IF sh = "SHIFT_DR" THEN BeforeDR ELSE BeforeIR)

\* In a shift state the padding and the bits of the caller have been shifted in.
Unspoilt ==
    /\ "load" \notin wrong
    /\ IF Ready /\ tap \in Shifts THEN scan = Padded(tap) \o mine
       ELSE scan = <<>> /\ mine = <<>>

\* A method that ends outside of the shift states starts anew.
LEMMA QuitsUnspoilt ==
    ASSUME Tracked, Unspoilt, NEW m, NEW goal, goal \notin Shifts,
           Follows(m, "", <<>>), Ends(m, <<>>, goal)
    PROVE  Unspoilt'
<1>1. tap' = goal BY StepTracked
<1>2. m.j.state \notin Shifts BY DEF Ends
<1>3. scan' = <<>> /\ mine' = <<>> BY <1>2 DEF Follows
<1>4. "load" \notin wrong' BY DEF Follows, Unspoilt
<1>5. tap' \notin Shifts BY <1>1
<1>6. QED BY <1>3, <1>4, <1>5 DEF Unspoilt, Shifts

\* What has been shifted in before the caller's bits, and with them.
Ahead(sh) == IF tap = sh THEN scan ELSE scan \o Padded(sh)
Adds(m, sh, d, after, goal) ==
    /\ goal = sh => After(At, m.calls).scan = Ahead(sh) \o d
    /\ goal \notin Shifts => After(At, m.calls).scan = (Ahead(sh) \o d) \o Pads(after)
Loads(column, sh, d, after) ==
    Loaded(column, mine \o d) = (Padded(sh) \o (mine \o d)) \o Pads(after)

\* A shift that stays adds the caller's bits, one that leaves has loaded them.
LEMMA ShiftUnspoilt ==
    ASSUME Tracked, Unspoilt, Ready, NEW sh \in Shifts, tap = sh \/ tap \notin Shifts,
           NEW m, NEW column, NEW d \in Seq(Nat), NEW after \in Nat,
           NEW goal, goal = sh \/ goal \notin Shifts,
           Follows(m, column, d), Ends(m, d, goal),
           Adds(m, sh, d, after, goal), Loads(column, sh, d, after)
    PROVE  Unspoilt'
<1> DEFINE P == Padded(sh)
           f == Ahead(sh)
<1>1. P \in Seq(Nat) BY Paddings, PadsType DEF Padded
<1>2. mine \in Seq(Nat) BY DEF Tracked
<1>3. f = P \o mine
  <2>1. CASE tap = sh BY <2>1 DEF Unspoilt, Ahead
  <2>2. CASE tap # sh
    <3>1. scan = <<>> /\ mine = <<>> BY <2>2 DEF Unspoilt
    <3>2. f = <<>> \o P BY <2>2, <3>1 DEF Ahead
    <3> HIDE DEF P
    <3>3. <<>> \o P = P /\ P \o <<>> = P BY <1>1, ConcatEmptySeq
    <3>4. QED BY <3>1, <3>2, <3>3
  <2>3. QED BY <2>1, <2>2
<1>4. f \o d = P \o (mine \o d)
  <2> HIDE DEF P, f
  <2>1. (P \o mine) \o d = P \o (mine \o d) BY <1>1, <1>2, Assoc
  <2>2. QED BY <1>3, <2>1
<1> HIDE DEF P, f
<1>5. m.j.state = goal /\ tap' = goal /\ Ready' BY StepTracked DEF Ends
<1>6. CASE goal = sh
  <2>1. scan' = P \o mine'
    <3>1. scan' = After(At, m.calls).scan /\ mine' = mine \o d
      BY <1>5, <1>6 DEF Follows
    <3>2. QED BY <1>4, <1>6, <3>1 DEF Adds, f
  <2>2. "load" \notin wrong'
    <3>1. m.j.state \in Shifts BY <1>5, <1>6
    <3>2. QED BY <3>1 DEF Follows, Unspoilt
  <2>3. Padded(sh)' = Padded(sh)
    BY DEF Follows, Padded, BeforeDR, BeforeIR
  <2>4. Padded(tap)' = P
    <3>1. BeforeDR' = BeforeDR /\ BeforeIR' = BeforeIR BY DEF Follows, BeforeDR, BeforeIR
    <3>2. QED BY <1>5, <1>6, <3>1 DEF P, Padded
  <2>5. tap' \in Shifts /\ Shifts' = Shifts BY <1>5, <1>6 DEF Shifts
  <2>6. QED BY <1>5, <2>1, <2>2, <2>4, <2>5 DEF Unspoilt
<1>7. CASE goal \notin Shifts
  <2>1. m.j.state \notin Shifts BY <1>5, <1>7
  <2>2. After(At, m.calls).scan = Loaded(column, mine \o d) BY <1>4, <1>7 DEF P, f, Adds, Loads
  <2>3. scan' = <<>> /\ mine' = <<>> BY <2>1 DEF Follows
  <2>4. "load" \notin wrong' BY <2>2 DEF Follows, Unspoilt
  <2>5. tap' \notin Shifts BY <1>5, <1>7
  <2>6. QED BY <2>3, <2>4, <2>5 DEF Unspoilt, Shifts
<1>8. QED BY <1>6, <1>7

\* What a shift of the data registers is to load.
LEMMA LoadedDR ==
    ASSUME NEW bits
    PROVE  Loaded("DR", bits) = (Padded("SHIFT_DR") \o bits) \o Pads(sel)
BY DEF Loaded, Padded, BeforeDR

\* What a shift of the instruction registers is to load.
LEMMA LoadedIR ==
    ASSUME NEW bits
    PROVE  Loaded("IR", bits) = (Padded("SHIFT_IR") \o bits) \o Pads(AfterIR)
BY DEF Loaded, Padded, BeforeIR, AfterIR, From, Upto

\* At first nothing has been shifted.
LEMMA InitUnspoilt == Init => Unspoilt
BY DEF Init, Unspoilt, Ready, NewJtag

\* Every step of callers that enter a shift state by a shift only.
LEMMA NextUnspoilt ==
    ASSUME (Goals \cup Pauses) \cap Shifts = {}
    PROVE  Tracked /\ Unspoilt /\ [Next]_vars => Unspoilt'
<1> SUFFICES ASSUME Tracked, Unspoilt, [Next]_vars PROVE Unspoilt' OBVIOUS
<1>1. CASE Open
  <2> DEFINE m == Opened(j)
             goal == "TEST_LOGIC_RESET"
  <2>1. \E read : Method(m, "", <<>>, read) BY <1>1 DEF Open, Opened
  <2> HIDE DEF m
  <2>2. Follows(m, "", <<>>) BY <2>1, MethodTakes
  <2>3. Ends(m, <<>>, goal) BY OpenEnds DEF m
  <2>4. goal \notin Shifts BY DEF Shifts
  <2> HIDE DEF goal
  <2>5. QED BY <2>2, <2>3, <2>4, QuitsUnspoilt
<1>2. ASSUME NEW n \in Lens, NEW rd \in BOOLEAN, NEW goal \in Goals \cup {"SHIFT_DR"},
             DoShiftDR(n, rd, goal)
      PROVE  Unspoilt'
  <2> DEFINE m == ShiftDR(j, Data(n), rd, goal)
             d == Data(n)
             u == After(At, m.calls)
             sh == "SHIFT_DR"
             f == IF tap = sh THEN scan ELSE scan \o Padded(sh)
  <2>1. Follows(m, "DR", d)
    <3>1. \E read : Method(m, "DR", Data(n), read) BY <1>2 DEF DoShiftDR
    <3> HIDE DEF m
    <3>2. QED BY <3>1, MethodTakes
  <2>2. goal \in TapState BY GoalsAreStates
  <2>3. Padded(sh) = Pads(BeforeDR) BY DEF Padded
  <2>4. /\ Ends(m, d, goal)
        /\ goal = sh => u.scan = f \o d
        /\ goal \notin Shifts => u.scan = (f \o d) \o Pads(sel)
    BY <1>2, <2>2, <2>3, DoShiftDREnds DEF ShiftsDR
  <2>5. Ready /\ (tap = sh \/ tap \notin Shifts)
    <3>1. Ready /\ j.state # "SHIFT_IR" BY <1>2 DEF DoShiftDR
    <3>2. QED BY <3>1, ReadySelected DEF Shifts
  <2>6. sh \in Shifts /\ (goal = sh \/ goal \notin Shifts) BY DEF Shifts
  <2>7. d \in Seq(Nat) BY CallerAssumption, DataType
  <2>8. sel \in Nat BY Paddings
  <2>9. Loads("DR", sh, d, sel) BY LoadedDR DEF Loads
  <2>10. Adds(m, sh, d, sel, goal) BY <2>4 DEF Adds, Ahead
  <2> HIDE DEF m, d, sh, f, u
  <2>11. Ends(m, d, goal) BY <2>4
  <2>12. QED BY <2>1, <2>5, <2>6, <2>7, <2>8, <2>9, <2>10, <2>11, ShiftUnspoilt
<1>3. ASSUME NEW n \in Lens, NEW goal \in Goals \cup {"SHIFT_IR"}, DoShiftIR(n, goal)
      PROVE  Unspoilt'
  <2> DEFINE m == ShiftIR(j, Data(n), goal)
             d == Data(n)
             u == After(At, m.calls)
             sh == "SHIFT_IR"
             f == IF tap = sh THEN scan ELSE scan \o Padded(sh)
  <2>1. Follows(m, "IR", d)
    <3>1. \E read : Method(m, "IR", Data(n), read) BY <1>3 DEF DoShiftIR
    <3> HIDE DEF m
    <3>2. QED BY <3>1, MethodTakes
  <2>2. goal \in TapState BY GoalsAreStates
  <2>3. Padded(sh) = Pads(BeforeIR) BY DEF Padded
  <2>4. /\ Ends(m, d, goal)
        /\ goal = sh => u.scan = f \o d
        /\ goal \notin Shifts => u.scan = (f \o d) \o Pads(AfterIR)
    BY <1>3, <2>2, <2>3, DoShiftIREnds DEF ShiftsIR
  <2>5. Ready /\ (tap = sh \/ tap \notin Shifts)
    <3>1. Ready /\ j.state # "SHIFT_DR" BY <1>3 DEF DoShiftIR
    <3>2. QED BY <3>1, ReadySelected DEF Shifts
  <2>6. sh \in Shifts /\ (goal = sh \/ goal \notin Shifts) BY DEF Shifts
  <2>7. d \in Seq(Nat) BY CallerAssumption, DataType
  <2>8. AfterIR \in Nat BY Paddings
  <2>9. Loads("IR", sh, d, AfterIR) BY LoadedIR DEF Loads
  <2>10. Adds(m, sh, d, AfterIR, goal) BY <2>4 DEF Adds, Ahead
  <2> HIDE DEF m, d, sh, f, u
  <2>11. Ends(m, d, goal) BY <2>4
  <2>12. QED BY <2>1, <2>5, <2>6, <2>7, <2>8, <2>9, <2>10, <2>11, ShiftUnspoilt
<1>4. ASSUME NEW goal \in Pauses, DoSetState(goal) PROVE Unspoilt'
  <2> DEFINE m == SetState(j, goal)
  <2>1. Ready /\ Follows(m, "", <<>>) BY <1>4, MethodTakes DEF DoSetState
  <2>2. Ends(m, <<>>, goal) BY <2>1, GoalsAreStates, SetStateEnds
  <2>3. goal \notin Shifts OBVIOUS
  <2> HIDE DEF m
  <2>4. QED BY <2>1, <2>2, <2>3, QuitsUnspoilt
<1>5. CASE DoReset
  <2> DEFINE m == GoTestLogicReset(j)
             goal == "TEST_LOGIC_RESET"
  <2>1. Ready /\ Follows(m, "", <<>>) BY <1>5, MethodTakes DEF DoReset
  <2>2. Ends(m, <<>>, goal) BY <2>1, ResetEnds
  <2>3. goal \notin Shifts BY DEF Shifts
  <2> HIDE DEF m, goal
  <2>4. QED BY <2>1, <2>2, <2>3, QuitsUnspoilt
<1>6. ASSUME NEW n \in Clks, DoToggleClk(n) PROVE Unspoilt'
  <2> DEFINE m == ToggleClk(j, n)
  <2>1. Ready /\ Follows(m, "", <<>>) BY <1>6, MethodTakes DEF DoToggleClk
  <2>2. n \in Nat BY CallerAssumption
  <2>3. Ends(m, <<>>, tap) /\ tap \notin Shifts BY <1>6, <2>1, <2>2, ClkEnds DEF DoToggleClk
  <2> HIDE DEF m
  <2>4. QED BY <2>1, <2>3, QuitsUnspoilt
<1>7. CASE DoFlush
  <2> DEFINE m == [calls |-> <<CallFlush>>, j |-> j]
             u == After(At, m.calls)
  <2>1. Ready /\ Follows(m, "", <<>>) BY <1>7, MethodTakes DEF DoFlush
  <2>2. j = Selected BY <2>1, ReadySelected
  <2>3. Ends(m, <<>>, tap) /\ u.scan = scan BY <2>2, FlushEnds
  <2> HIDE DEF m
  <2>4. m.j.state = tap /\ tap' = tap /\ Ready' BY <2>1, <2>3, StepTracked DEF Ends
  <2>5. CASE tap \in Shifts
    <3>1. scan' = scan /\ mine' = mine \o <<>> BY <2>1, <2>3, <2>4, <2>5 DEF Follows
    <3>2. mine \o <<>> = mine BY ConcatEmptySeq DEF Tracked
    <3>3. "load" \notin wrong' BY <2>1 DEF Follows, Unspoilt
    <3>4. Padded(tap)' = Padded(tap)
      <4>1. BeforeDR' = BeforeDR /\ BeforeIR' = BeforeIR
        BY <2>1 DEF Follows, BeforeDR, BeforeIR
      <4>2. QED BY <2>4, <4>1 DEF Padded
    <3>5. scan = Padded(tap) \o mine BY <2>1, <2>5 DEF Unspoilt
    <3>6. QED BY <2>4, <2>5, <3>1, <3>2, <3>3, <3>4, <3>5 DEF Unspoilt, Shifts
  <2>6. CASE tap \notin Shifts BY <2>1, <2>3, <2>6, QuitsUnspoilt
  <2>7. QED BY <2>5, <2>6
<1>8. CASE UNCHANGED vars
  BY <1>8 DEF vars, Unspoilt, Ready, Shifts, Padded, BeforeDR, BeforeIR
<1>9. QED BY <1>1, <1>2, <1>3, <1>4, <1>5, <1>6, <1>7, <1>8 DEF Next

\* When a shift is left, the selected device holds the caller's bits and the others
\* hold the padding, whatever the chain and however many shifts of any length it took,
\* for callers that enter and leave the shift states by shifts only.
THEOREM SelectedIsLoaded ==
    ASSUME (Goals \cup Pauses) \cap Shifts = {}
    PROVE  Spec => []SelectedDeviceLoaded
<1>1. Tracked /\ Unspoilt /\ [Next]_vars => (Tracked /\ Unspoilt)'
  BY NextTracked, NextUnspoilt
<1>2. Init => Tracked /\ Unspoilt BY InitTracked, InitUnspoilt
<1>3. Tracked /\ Unspoilt => SelectedDeviceLoaded BY DEF Unspoilt, SelectedDeviceLoaded
<1>4. QED BY <1>1, <1>2, <1>3, PTL DEF Spec
=============================================================================
