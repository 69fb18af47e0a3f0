-------------------------- MODULE SseStreamProofs --------------------------
(***************************************************************************)
(* However the network cuts a reply, and wherever it ends or is cancelled, *)
(* SseStream implements SseLines, and the tools that run are those the     *)
(* server called.                                                          *)
(***************************************************************************)
EXTENDS SseStream, SequenceTheorems, FiniteSetTheorems, WellFoundedInduction, TLAPS

-----------------------------------------------------------------------------
(***************************************************************************)
(* Steps.                                                                  *)
(***************************************************************************)

\* What holds for 0, and for n + 1 when it holds for n, holds for all.
LEMMA StepByStep ==
    ASSUME NEW Good, NEW last \in Nat, 0 \in Good,
           \A n \in 0..last - 1 : n \in Good => n + 1 \in Good
    PROVE  0..last \subseteq Good
<1> DEFINE Bad == {n \in 0..last : n \notin Good}
           R == OpToRel(<, Nat)
<1>1. CASE Bad = {}
  BY <1>1
<1>2. CASE Bad # {}
  <2>1. Bad \subseteq Nat
    OBVIOUS
  <2>2. \A a, b \in Nat : a < b => <<a, b>> \in R
    BY DEF OpToRel
  <2>3. IsWellFoundedOn(R, Nat)
    BY NatLessThanWellFounded
  <2>4. PICK x \in Bad : \A y \in Bad : <<y, x>> \notin R
    <3> HIDE DEF Bad, R
    <3> QED
      BY <1>2, <2>1, <2>3, WFMin
  <2> HIDE DEF R
  <2>5. x \in 0..last /\ x \notin Good /\ x # 0
    OBVIOUS
  <2>6. x - 1 \in 0..last - 1 /\ x - 1 + 1 = x /\ x - 1 < x /\ x - 1 \in Nat /\ x \in Nat
    BY <2>5
  <2>7. x - 1 \notin Bad
    <3> HIDE DEF Bad
    <3> QED
      BY <2>2, <2>4, <2>6
  <2>8. x - 1 \in Good
    BY <2>6, <2>7
  <2> QED
    BY <2>5, <2>6, <2>8
<1> QED
  BY <1>1, <1>2

\* Functions that begin alike and go on alike are the same.
Alike(f, g, last) ==
    /\ f[0] = g[0]
    /\ \A n \in 1..last : f[n - 1] = g[n - 1] => f[n] = g[n]

LEMMA SameSteps ==
    ASSUME NEW last \in Nat, NEW f, NEW g, Alike(f, g, last)
    PROVE  \A n \in 0..last : f[n] = g[n]
<1> DEFINE Good == {n \in 0..last : f[n] = g[n]}
<1>1. 0 \in Good
  BY DEF Alike
<1>2. \A n \in 0..last - 1 : n \in Good => n + 1 \in Good
  <2> TAKE n \in 0..last - 1
  <2>1. n + 1 \in 1..last /\ n + 1 - 1 = n /\ n + 1 \in 0..last
    OBVIOUS
  <2> QED
    BY <2>1 DEF Alike
<1>3. 0..last \subseteq Good
  <2> HIDE DEF Good
  <2> QED
    BY <1>1, <1>2, StepByStep
<1> QED
  BY <1>3

-----------------------------------------------------------------------------
(***************************************************************************)
(* The bytes of the reply.                                                 *)
(***************************************************************************)

\* Bytes of a line with its newline.
Width == LineLength + 1
Byte  == (Nat \X Nat) \cup {Newline}

LEMMA Widths ==
    /\ LineLength \in Nat \ {0} /\ Width \in Nat /\ Width = LineLength + 1
    /\ \A a \in Nat : a * Width \in Nat /\ (a + 1) * Width = a * Width + Width
    /\ \A a, b \in Nat : a < b => a * Width + Width <= b * Width
    /\ \A a, b \in Nat : (a + b) * Width = a * Width + b * Width
    /\ 0 * Width = 0
<1>1. LineLength \in Nat \ {0} /\ Width \in Nat /\ Width = LineLength + 1
  BY StreamAssumption DEF Width
<1> HIDE DEF Width
<1>2. \A a \in Nat : a * Width \in Nat /\ (a + 1) * Width = a * Width + Width
  BY <1>1
<1>3. \A a, b \in Nat : (a + b) * Width = a * Width + b * Width
  BY <1>1
<1>4. 0 * Width = 0
  BY <1>1
<1>5. ASSUME NEW a \in Nat, NEW b \in Nat, a < b
      PROVE  a * Width + Width <= b * Width
  <2>1. PICK d \in Nat : b = (a + 1) + d
    <3>1. b - (a + 1) \in Nat /\ b = (a + 1) + (b - (a + 1))
      BY <1>5
    <3> QED
      BY <3>1
  <2>2. b * Width = (a * Width + Width) + d * Width
    BY <1>2, <1>3, <2>1
  <2>3. d * Width \in Nat /\ a * Width \in Nat /\ b * Width \in Nat
    BY <1>2, <2>1
  <2> HIDE DEF Width
  <2> QED
    BY <1>1, <2>2, <2>3
<1> QED
  BY <1>1, <1>2, <1>3, <1>4, <1>5

\* Every place is within some line, or at its newline.
LEMMA InSomeLine ==
    ASSUME NEW p \in Nat
    PROVE  \E a \in Nat, i \in 0..LineLength : p = a * Width + i
<1> DEFINE Good == {n \in Nat : \E a \in Nat, i \in 0..LineLength : n = a * Width + i}
<1>1. 0 \in Good
  <2>1. 0 \in 0..LineLength /\ 0 = 0 * Width + 0
    BY Widths
  <2> QED
    BY <2>1
<1>2. ASSUME NEW n \in 0..p - 1, n \in Good PROVE n + 1 \in Good
  <2>1. PICK a \in Nat, i \in 0..LineLength : n = a * Width + i
    BY <1>2
  <2>2. CASE i < LineLength
    <3>1. i + 1 \in 0..LineLength /\ n + 1 = a * Width + (i + 1)
      BY <2>1, <2>2, Widths
    <3> QED
      BY <3>1
  <2>3. CASE i = LineLength
    <3>1. n + 1 = (a + 1) * Width + 0
      BY <2>1, <2>3, Widths
    <3>2. 0 \in 0..LineLength /\ a + 1 \in Nat
      BY Widths
    <3> QED
      BY <3>1, <3>2
  <2> QED
    BY <2>2, <2>3, Widths
<1>3. 0..p \subseteq Good
  <2> HIDE DEF Good
  <2> QED
    BY <1>1, <1>2, StepByStep
<1>4. p \in Good
  <2> HIDE DEF Good
  <2> QED
    BY <1>3
<1> QED
  BY <1>4

\* From any beginning, steps lead on: a function defined by them exists.
Leads(f, b, F, last) == f[0] = b /\ \A n \in 1..last : f[n] = F[<<f[n - 1], n>>]

LEMMA StepsLead ==
    ASSUME NEW last \in Nat, NEW S, NEW b \in S, NEW F \in [S \X (1..last) -> S]
    PROVE  \E f \in [0..last -> S] : Leads(f, b, F, last)
<1> DEFINE Good == {m \in 0..last : \E f \in [0..m -> S] : Leads(f, b, F, m)}
<1>1. 0 \in Good
  <2>1. [n \in 0..0 |-> b] \in [0..0 -> S] /\ Leads([n \in 0..0 |-> b], b, F, 0)
    BY DEF Leads
  <2>2. 0 \in 0..last
    OBVIOUS
  <2> QED
    BY <2>1, <2>2
<1>2. ASSUME NEW m \in 0..last - 1, m \in Good PROVE m + 1 \in Good
  <2>1. PICK f \in [0..m -> S] : Leads(f, b, F, m)
    BY <1>2
  <2> DEFINE x == F[<<f[m], m + 1>>]
             g == [n \in 0..m + 1 |-> IF n = m + 1 THEN x ELSE f[n]]
  <2>2. x \in S
    <3>1. m \in 0..m /\ m + 1 \in 1..last
      OBVIOUS
    <3>2. f[m] \in S
      BY <3>1
    <3> QED
      BY <3>1, <3>2
  <2> HIDE DEF x
  <2>3. \A n \in 0..m + 1 : n = m + 1 \/ (n \in 0..m /\ n # m + 1)
    OBVIOUS
  <2>4. g \in [0..m + 1 -> S]
    BY <2>2, <2>3
  <2>5. Leads(g, b, F, m + 1)
    <3>1. g[0] = b
      <4>1. 0 \in 0..m + 1 /\ 0 # m + 1
        OBVIOUS
      <4> QED
        BY <2>1, <4>1 DEF Leads
    <3>2. ASSUME NEW n \in 1..m + 1 PROVE g[n] = F[<<g[n - 1], n>>]
      <4>1. n \in 0..m + 1 /\ n - 1 \in 0..m + 1 /\ n - 1 # m + 1
        OBVIOUS
      <4>2. g[n - 1] = f[n - 1]
        BY <4>1
      <4>3. CASE n = m + 1
        <5>1. g[n] = x /\ n - 1 = m
          BY <4>1, <4>3
        <5> QED
          BY <4>2, <4>3, <5>1 DEF x
      <4>4. CASE n # m + 1
        <5>1. n \in 1..m /\ g[n] = f[n]
          BY <4>1, <4>4
        <5> QED
          BY <2>1, <4>2, <5>1 DEF Leads
      <4> QED
        BY <4>3, <4>4
    <3> HIDE DEF g
    <3> QED
      BY <3>1, <3>2 DEF Leads
  <2>6. m + 1 \in 0..last
    OBVIOUS
  <2> HIDE DEF g
  <2> QED
    BY <2>4, <2>5, <2>6
<1>3. 0..last \subseteq Good
  <2> HIDE DEF Good
  <2> QED
    BY <1>1, <1>2, StepByStep
<1>4. last \in Good
  <2> HIDE DEF Good
  <2> QED
    BY <1>3
<1> QED
  BY <1>4

\* The i-th byte of the line that follows n others.
Shown(n, i) == IF i = Width THEN Newline ELSE <<n + 1, i>>

\* u are bytes of the first lines, in order.
OfLines(u) ==
    /\ u \in Seq(Byte)
    /\ \A n \in Nat, i \in 1..Width : n * Width + i \in 1..Len(u) => u[n * Width + i] = Shown(n, i)

\* The bytes of one more line, with or without its newline, follow.
LEMMA LineFollows ==
    ASSUME NEW u, OfLines(u), NEW m \in Nat, Len(u) = m * Width,
           NEW v \in Seq(Byte), Len(v) <= Width, \A i \in 1..Len(v) : v[i] = Shown(m, i)
    PROVE  OfLines(u \o v) /\ Len(u \o v) = m * Width + Len(v)
<1>1. /\ u \o v \in Seq(Byte) /\ Len(u \o v) = Len(u) + Len(v)
      /\ \A i \in 1..Len(u) + Len(v) : (u \o v)[i] = IF i <= Len(u) THEN u[i] ELSE v[i - Len(u)]
      /\ Len(v) \in Nat
  BY ConcatProperties, LenProperties DEF OfLines
<1>2. m * Width \in Nat /\ Width \in Nat /\ \A a \in Nat : a * Width \in Nat
  BY Widths
<1>3. ASSUME NEW n \in Nat, NEW i \in 1..Width, n * Width + i \in 1..Len(u \o v)
      PROVE  (u \o v)[n * Width + i] = Shown(n, i)
  <2> DEFINE p == n * Width + i
  <2>1. n * Width \in Nat /\ i \in Nat
    BY <1>2
  <2>2. CASE p <= m * Width
    <3>1. p \in 1..Len(u) /\ p \in 1..Len(u) + Len(v)
      BY <1>1, <1>2, <1>3, <2>1, <2>2
    <3>2. (u \o v)[p] = u[p]
      BY <1>1, <3>1
    <3> QED
      BY <3>1, <3>2 DEF OfLines
  <2>3. CASE ~(p <= m * Width)
    <3>1. ~(n < m)
      <4>1. n < m => n * Width + Width <= m * Width
        BY Widths
      <4>2. n * Width + Width <= m * Width => n * Width + i <= m * Width
        BY <1>2, <2>1
      <4> QED
        BY <2>3, <4>1, <4>2
    <3>2. ~(m < n)
      <4>1. m < n => m * Width + Width <= n * Width
        BY Widths
      <4>2. m * Width + Width <= n * Width => ~(n * Width + i <= m * Width + Len(v))
        <5>1. \A a, b, c, d, w \in Nat : a + w <= b /\ d >= 1 /\ c <= w => ~(b + d <= a + c)
          OBVIOUS
        <5>2. i >= 1 /\ Len(v) \in Nat /\ m * Width \in Nat
          BY <1>1, <1>2
        <5> QED
          BY <1>2, <2>1, <5>1, <5>2
      <4>3. n * Width + i <= m * Width + Len(v)
        BY <1>1, <1>3
      <4> QED
        BY <4>1, <4>2, <4>3
    <3>3. n = m
      BY <3>1, <3>2
    <3>4. i \in 1..Len(v) /\ p \in 1..Len(u) + Len(v) /\ p - Len(u) = i
      BY <1>1, <1>2, <1>3, <2>1, <3>3
    <3>5. (u \o v)[p] = v[i]
      BY <1>1, <2>3, <3>4
    <3> QED
      BY <3>3, <3>4, <3>5
  <2> QED
    BY <2>2, <2>3
<1> QED
  BY <1>1, <1>3 DEF OfLines

\* The bytes of the n-th line, and what ends it on the wire.
LEMMA OneLine ==
    ASSUME NEW n \in Nat \ {0}, NEW t, t = <<>> \/ t = <<Newline>>
    PROVE  /\ LineBytes(n) \in Seq(Byte) /\ t \in Seq(Byte)
           /\ LineBytes(n) \o t \in Seq(Byte)
           /\ Len(LineBytes(n) \o t) = LineLength + Len(t)
           /\ Len(LineBytes(n) \o t) <= Width
           /\ \A i \in 1..Len(LineBytes(n) \o t) : (LineBytes(n) \o t)[i] = Shown(n - 1, i)
<1> DEFINE l == LineBytes(n)
           v == l \o t
<1>1. l \in Seq(Byte) /\ Len(l) = LineLength /\ \A i \in 1..LineLength : l[i] = <<n, i>>
  <2>1. \A i \in 1..LineLength : <<n, i>> \in Byte
    BY Widths DEF Byte
  <2>2. l \in [1..LineLength -> Byte]
    BY <2>1 DEF LineBytes
  <2>3. l \in Seq(Byte)
    BY <2>2, Widths, IsASeq
  <2>4. Len(l) = LineLength
    BY <2>2, <2>3, LenProperties, Widths
  <2> QED
    BY <2>3, <2>4 DEF LineBytes
<1>2. t \in Seq(Byte) /\ Len(t) \in 0..1 /\ \A i \in 1..Len(t) : t[i] = Newline
  <2>1. Newline \in Byte
    BY DEF Byte
  <2>2. CASE t = <<>>
    BY <2>2
  <2>3. CASE t = <<Newline>>
    BY <2>1, <2>3
  <2> QED
    BY <2>2, <2>3
<1> HIDE DEF l
<1>3. /\ v \in Seq(Byte) /\ Len(v) = LineLength + Len(t)
      /\ \A i \in 1..LineLength + Len(t) :
            v[i] = IF i <= LineLength THEN l[i] ELSE t[i - LineLength]
  <2>1. l \in Seq(Byte) /\ t \in Seq(Byte) /\ Len(l) = LineLength
    BY <1>1, <1>2
  <2>2. /\ l \o t \in Seq(Byte) /\ Len(l \o t) = Len(l) + Len(t)
        /\ \A i \in 1..Len(l) + Len(t) :
                (l \o t)[i] = IF i <= Len(l) THEN l[i] ELSE t[i - Len(l)]
    BY ONLY <2>1, ConcatProperties
  <2> QED
    BY <2>1, <2>2
<1> HIDE DEF v
<1>4. \A i \in 1..LineLength + Len(t) : v[i] = Shown(n - 1, i)
  <2> TAKE i \in 1..LineLength + Len(t)
  <2>1. CASE i <= LineLength
    <3>1. i \in 1..LineLength /\ i # Width
      BY <1>2, <2>1, Widths
    <3> QED
      BY <1>1, <1>3, <2>1, <3>1 DEF Shown
  <2>2. CASE ~(i <= LineLength)
    <3>1. i - LineLength \in 1..Len(t) /\ i = Width
      BY <1>2, <2>2, Widths
    <3> QED
      BY <1>2, <1>3, <2>2, <3>1 DEF Shown
  <2> QED
    BY <2>1, <2>2
<1>5. Len(v) <= Width
  BY <1>2, <1>3, Widths
<1> QED
  BY <1>1, <1>2, <1>3, <1>4, <1>5 DEF v, l

\* The reply on the wire: its lines in order, each of its width, the last one
\* with or without its newline.
LEMMA WireIs ==
    ASSUME Len(lines) \in Nat
    PROVE  OfLines(Wire) /\ Len(Wire) \in Nat /\ Len(Wire) <= Len(lines) * Width
<1> DEFINE N == Len(lines)
           F == [x \in Seq(Byte) \X (1..N) |-> x[1] \o OnWire(x[2])]
<1>0. N \in Nat
  OBVIOUS
<1>1. ASSUME NEW n \in 1..N
      PROVE  /\ OnWire(n) \in Seq(Byte) /\ Len(OnWire(n)) <= Width
             /\ n < N => Len(OnWire(n)) = Width
             /\ \A i \in 1..Len(OnWire(n)) : OnWire(n)[i] = Shown(n - 1, i)
  <2> DEFINE t == IF n < N \/ ended THEN <<Newline>> ELSE <<>>
  <2>1. t = <<>> \/ t = <<Newline>>
    OBVIOUS
  <2>2. n < N => Len(t) = 1
    OBVIOUS
  <2>3. OnWire(n) = LineBytes(n) \o t /\ n \in Nat \ {0}
    BY DEF OnWire
  <2> HIDE DEF t
  <2>4. /\ OnWire(n) \in Seq(Byte) /\ Len(OnWire(n)) = LineLength + Len(t)
        /\ Len(OnWire(n)) <= Width
        /\ \A i \in 1..Len(OnWire(n)) : OnWire(n)[i] = Shown(n - 1, i)
    <3> DEFINE v == LineBytes(n) \o t
    <3>1. /\ v \in Seq(Byte) /\ Len(v) = LineLength + Len(t) /\ Len(v) <= Width
          /\ \A i \in 1..Len(v) : v[i] = Shown(n - 1, i)
      BY <2>1, <2>3, OneLine
    <3> HIDE DEF v
    <3>2. OnWire(n) = v
      BY <2>3 DEF v
    <3> QED
      BY <3>1, <3>2
  <2> QED
    BY <2>2, <2>4, Widths
<1>2. F \in [Seq(Byte) \X (1..N) -> Seq(Byte)]
  <2>1. ASSUME NEW x \in Seq(Byte) \X (1..N)
        PROVE  x[1] \o OnWire(x[2]) \in Seq(Byte)
    <3>1. x[1] \in Seq(Byte) /\ OnWire(x[2]) \in Seq(Byte)
      BY <1>1
    <3> QED
      BY <3>1, ConcatProperties
  <2> QED
    BY <2>1
<1>3. PICK f \in [0..N -> Seq(Byte)] : Leads(f, <<>>, F, N)
  <2>1. <<>> \in Seq(Byte)
    OBVIOUS
  <2> HIDE DEF F, N
  <2> QED
    BY <1>0, <1>2, <2>1, StepsLead
<1>4. f[0] = <<>> /\ \A n \in 1..N : f[n] = f[n - 1] \o OnWire(n)
  <2>1. \A n \in 1..N : f[n] = F[<<f[n - 1], n>>]
    BY <1>3 DEF Leads
  <2>2. ASSUME NEW n \in 1..N PROVE f[n] = f[n - 1] \o OnWire(n)
    <3>1. n - 1 \in 0..N
      OBVIOUS
    <3>2. <<f[n - 1], n>> \in Seq(Byte) \X (1..N)
      BY <3>1
    <3>3. F[<<f[n - 1], n>>] = f[n - 1] \o OnWire(n)
      BY <3>2
    <3> QED
      BY <2>1, <3>3
  <2> QED
    BY <1>3, <2>2 DEF Leads
<1> HIDE DEF F
<1>5. Wire = f[N]
  <2>1. f = [n \in 0..N |-> IF n = 0 THEN <<>> ELSE f[n - 1] \o OnWire(n)]
    <3>1. \A n \in 0..N : n = 0 \/ n \in 1..N
      OBVIOUS
    <3> QED
      BY <1>4, <3>1
  <2>2. \E g : g = [n \in 0..N |-> IF n = 0 THEN <<>> ELSE g[n - 1] \o OnWire(n)]
    BY <2>1
  <2>3. PICK g : /\ g = [n \in 0..N |-> IF n = 0 THEN <<>> ELSE g[n - 1] \o OnWire(n)]
                 /\ Wire = g[N]
    BY <2>2 DEF Wire
  <2>4. g[0] = <<>> /\ \A n \in 1..N : g[n] = g[n - 1] \o OnWire(n)
    <3>1. 0 \in 0..N /\ \A n \in 1..N : n \in 0..N /\ n # 0
      OBVIOUS
    <3> QED
      BY <2>3, <3>1
  <2>5. Alike(g, f, N)
    BY <1>4, <2>4 DEF Alike
  <2>6. \A n \in 0..N : g[n] = f[n]
    <3> HIDE DEF N
    <3> QED
      BY <1>0, <2>5, SameSteps
  <2> QED
    BY <2>3, <2>6
<1> DEFINE Good == {n \in 0..N : /\ OfLines(f[n]) /\ Len(f[n]) <= n * Width
                                 /\ n < N => Len(f[n]) = n * Width}
<1>7. 0 \in Good
  <2>1. 0 \in 0..N /\ <<>> \in Seq(Byte) /\ Len(<<>>) = 0 /\ 1..0 = {}
    OBVIOUS
  <2>2. OfLines(<<>>)
    BY <2>1 DEF OfLines
  <2> QED
    BY <1>4, <2>1, <2>2, Widths
<1>8. ASSUME NEW n \in 0..N - 1, n \in Good PROVE n + 1 \in Good
  <2>1. OfLines(f[n]) /\ Len(f[n]) = n * Width /\ n \in Nat
    BY <1>8
  <2>2. n + 1 \in 1..N /\ n + 1 - 1 = n /\ n + 1 \in 0..N
    OBVIOUS
  <2> DEFINE v == OnWire(n + 1)
  <2>3. /\ v \in Seq(Byte) /\ Len(v) <= Width /\ (n + 1 < N => Len(v) = Width)
        /\ \A i \in 1..Len(v) : v[i] = Shown(n, i)
    BY <1>1, <2>2
  <2>4. f[n + 1] = f[n] \o v
    <3>1. f[n + 1] = f[(n + 1) - 1] \o v
      <4> HIDE DEF N
      <4> QED
        BY <1>4, <2>2
    <3>2. f[(n + 1) - 1] = f[n]
      BY <2>2
    <3> HIDE DEF v
    <3> QED
      BY <3>1, <3>2
  <2> HIDE DEF v
  <2>5. OfLines(f[n] \o v) /\ Len(f[n] \o v) = n * Width + Len(v)
    BY <2>1, <2>3, LineFollows
  <2>6. (n + 1) * Width = n * Width + Width /\ n * Width \in Nat /\ Width \in Nat
        /\ Len(v) \in Nat
    BY <2>1, <2>3, Widths, LenProperties
  <2>7. n * Width + Len(v) <= (n + 1) * Width
    BY <2>3, <2>6
  <2> QED
    BY <2>2, <2>3, <2>4, <2>5, <2>6, <2>7
<1>9. 0..N \subseteq Good
  <2> HIDE DEF Good, N
  <2> QED
    BY <1>0, <1>7, <1>8, StepByStep
<1>10. N \in Good
  <2> HIDE DEF Good, N
  <2> QED
    BY <1>0, <1>9
<1> QED
  BY <1>5, <1>10, LenProperties DEF OfLines

-----------------------------------------------------------------------------
(***************************************************************************)
(* The buffer.                                                             *)
(***************************************************************************)

Multiples(K) == {k * Width : k \in 1..K}

LEMMA CountMultiples ==
    ASSUME NEW K \in Nat
    PROVE  IsFiniteSet(Multiples(K)) /\ Cardinality(Multiples(K)) = K
<1> DEFINE Good == {k \in 0..K : IsFiniteSet(Multiples(k)) /\ Cardinality(Multiples(k)) = k}
<1>1. 0 \in Good
  <2>1. Multiples(0) = {}
    BY DEF Multiples
  <2> QED
    BY <2>1, FS_EmptySet
<1>2. ASSUME NEW k \in 0..K - 1, k \in Good PROVE k + 1 \in Good
  <2>1. Multiples(k + 1) = Multiples(k) \cup {(k + 1) * Width}
    <3>1. 1..k + 1 = (1..k) \cup {k + 1}
      OBVIOUS
    <3> QED
      BY <3>1 DEF Multiples
  <2>2. (k + 1) * Width \notin Multiples(k)
    <3>1. ASSUME NEW j \in 1..k PROVE j * Width # (k + 1) * Width
      <4>1. j * Width + Width <= (k + 1) * Width
        BY Widths
      <4>2. j * Width \in Nat /\ (k + 1) * Width \in Nat /\ Width \in Nat /\ Width >= 1
        BY Widths
      <4> QED
        BY <4>1, <4>2
    <3> QED
      BY <3>1 DEF Multiples
  <2>3. IsFiniteSet(Multiples(k)) /\ Cardinality(Multiples(k)) = k
    BY <1>2
  <2>4. /\ IsFiniteSet(Multiples(k + 1))
        /\ Cardinality(Multiples(k + 1)) = k + 1
    BY <2>1, <2>2, <2>3, FS_AddElement
  <2>5. k + 1 \in 0..K
    OBVIOUS
  <2> QED
    BY <2>4, <2>5
<1>3. 0..K \subseteq Good
  <2> HIDE DEF Good
  <2> QED
    BY <1>1, <1>2, StepByStep
<1>4. K \in Good
  <2> HIDE DEF Good
  <2> QED
    BY <1>3
<1> QED
  BY <1>4

Newlines(X) == {i \in 1..Len(X) : X[i] = Newline}

\* The newlines of whole lines are a width apart.
LEMMA EndsAre ==
    ASSUME NEW X, NEW K \in Nat, Newlines(X) = Multiples(K)
    PROVE  Ends(X) = [k \in 1..K |-> k * Width]
<1> DEFINE ends == {i \in 1..Len(X) : X[i] = Newline}
           rank(k, i) == Cardinality({j \in ends : j <= i}) = k
<1>1. ends = Multiples(K) /\ Cardinality(ends) = K
  BY CountMultiples DEF Newlines
<1>2. ASSUME NEW k \in 1..K PROVE Cardinality({j \in Multiples(K) : j <= k * Width}) = k
  <2>1. {j \in Multiples(K) : j <= k * Width} = Multiples(k)
    <3>1. ASSUME NEW j \in 1..K PROVE j * Width <= k * Width <=> j \in 1..k
      <4>1. j < k => j * Width + Width <= k * Width
        BY Widths
      <4>2. k < j => k * Width + Width <= j * Width
        BY Widths
      <4>3. j * Width \in Nat /\ k * Width \in Nat /\ Width \in Nat /\ Width >= 1
        BY Widths
      <4> QED
        BY <4>1, <4>2, <4>3
    <3> QED
      BY <3>1 DEF Multiples
  <2>2. k \in Nat /\ Cardinality(Multiples(k)) = k
    BY CountMultiples
  <2> QED
    BY <2>1, <2>2
<1>3. ASSUME NEW k \in 1..K
      PROVE  (CHOOSE i \in ends : rank(k, i)) = k * Width
  <2>1. k * Width \in ends /\ rank(k, k * Width)
    BY <1>1, <1>2 DEF Multiples
  <2>2. ASSUME NEW i \in ends, rank(k, i) PROVE i = k * Width
    <3>1. PICK j \in 1..K : i = j * Width
      BY <1>1 DEF Multiples
    <3> QED
      BY <1>1, <1>2, <2>2, <3>1
  <2> HIDE DEF ends, rank
  <2> QED
    BY <2>1, <2>2
<1>4. Ends(X) = [k \in 1..K |-> CHOOSE i \in ends : rank(k, i)]
  BY <1>1 DEF Ends
<1> HIDE DEF ends, rank
<1> QED
  BY <1>3, <1>4

\* A part of a sequence.
LEMMA Part ==
    ASSUME NEW S, NEW s \in Seq(S), NEW a \in Nat, NEW n \in Nat, a + n <= Len(s)
    PROVE  /\ SubSeq(s, a + 1, a + n) \in Seq(S) /\ Len(SubSeq(s, a + 1, a + n)) = n
           /\ \A i \in 1..n : SubSeq(s, a + 1, a + n)[i] = s[a + i]
<1>1. \A i \in a + 1..a + n : s[i] \in S
  BY LenProperties
<1>2. a + 1 \in Int /\ a + n \in Int /\ a + n - (a + 1) + 1 = n
      /\ (IF a + 1 <= a + n THEN a + n - (a + 1) + 1 ELSE 0) = n
      /\ \A i \in 1..n : a + 1 + i - 1 = a + i
  OBVIOUS
<1>3. /\ SubSeq(s, a + 1, a + n) \in Seq(S)
      /\ Len(SubSeq(s, a + 1, a + n)) =
            IF a + 1 <= a + n THEN a + n - (a + 1) + 1 ELSE 0
      /\ \A i \in 1..a + n - (a + 1) + 1 : SubSeq(s, a + 1, a + n)[i] = s[a + 1 + i - 1]
  BY <1>1, <1>2, SubSeqProperties
<1> QED
  BY <1>2, <1>3

\* What the buffer may hold: the reply from the beginning of the line that
\* follows t others on, with K newlines and m bytes after the last of them.
IsCut(W, t, K, m, X) ==
    /\ OfLines(W) /\ t \in Nat /\ K \in Nat /\ m \in 0..LineLength
    /\ (t + K) * Width + m <= Len(W)
    /\ X = SubSeq(W, t * Width + 1, (t + K) * Width + m)

LEMMA CutIs ==
    ASSUME NEW W, NEW t, NEW K, NEW m, NEW X, IsCut(W, t, K, m, X)
    PROVE  /\ X \in Seq(Byte) /\ Len(X) = K * Width + m
           /\ \A p \in 1..Len(X) : X[p] = W[t * Width + p]
           /\ \A k \in Nat, i \in 1..Width :
                k * Width + i \in 1..Len(X) => X[k * Width + i] = Shown(t + k, i)
<1> USE DEF IsCut
<1> DEFINE a == t * Width
           e == (t + K) * Width + m
<1>1. a \in Nat /\ K * Width \in Nat /\ m \in Nat /\ e = a + K * Width + m /\ e \in Nat
  BY Widths
<1>2. W \in Seq(Byte) /\ Len(W) \in Nat /\ \A p \in 1..Len(W) : W[p] \in Byte
  BY LenProperties DEF OfLines
<1> DEFINE w == K * Width
<1>3. X = SubSeq(W, a + 1, a + (w + m)) /\ a + (w + m) <= Len(W) /\ w + m \in Nat
  <2>1. a + (w + m) = e /\ w + m \in Nat /\ e <= Len(W) /\ X = SubSeq(W, a + 1, e)
    BY <1>1
  <2> HIDE DEF a, w, e
  <2> QED
    BY <2>1
<1> HIDE DEF a, e, w
<1>4. X \in Seq(Byte) /\ Len(X) = w + m /\ \A p \in 1..w + m : X[p] = W[a + p]
  <2> DEFINE n == w + m
  <2>1. n \in Nat /\ a + n <= Len(W) /\ X = SubSeq(W, a + 1, a + n)
    BY <1>3
  <2> HIDE DEF n
  <2> DEFINE Y == SubSeq(W, a + 1, a + n)
  <2>2. Y \in Seq(Byte) /\ Len(Y) = n /\ \A p \in 1..n : Y[p] = W[a + p]
    <3>1. W \in Seq(Byte) /\ a \in Nat /\ n \in Nat /\ a + n <= Len(W)
      BY <1>1, <1>2, <2>1
    <3> QED
      BY ONLY <3>1, Part
  <2> QED
    BY <2>1, <2>2 DEF n
<1>5. \A p \in 1..Len(X) : X[p] = W[a + p]
  BY <1>4
<1>6. ASSUME NEW k \in Nat, NEW i \in 1..Width, k * Width + i \in 1..Len(X)
      PROVE  X[k * Width + i] = Shown(t + k, i)
  <2>1. X[k * Width + i] = W[a + (k * Width + i)]
    BY <1>5, <1>6
  <2>2. k * Width \in Nat /\ i \in Nat /\ (t + k) * Width = a + k * Width /\ t + k \in Nat
    BY Widths DEF a
  <2>3. a + (k * Width + i) = (t + k) * Width + i
    BY <1>1, <2>2
  <2>4. (t + k) * Width + i \in 1..Len(W)
    <3>1. e <= Len(W)
      BY DEF e
    <3> DEFINE v == k * Width
    <3>2. v + i \in 1..w + m /\ v \in Nat /\ w \in Nat /\ e = a + w + m
      BY <1>1, <1>4, <1>6, <2>2 DEF w
    <3>3. (t + k) * Width = a + v
      BY <2>2
    <3>4. a \in Nat /\ m \in Nat /\ i \in Nat /\ i >= 1 /\ Len(W) \in Nat
      BY <1>1, <1>2
    <3> HIDE DEF v, w
    <3>5. a + v + i \in 1..Len(W)
      BY <3>1, <3>2, <3>4
    <3> QED
      BY <3>3, <3>5
  <2> QED
    BY <2>1, <2>2, <2>3, <2>4 DEF OfLines
<1> QED
  BY <1>4, <1>5, <1>6 DEF a, w

\* It has a newline at the end of each whole line and nowhere else.
LEMMA NewlinesOf ==
    ASSUME NEW W, NEW t, NEW K, NEW m, NEW X, IsCut(W, t, K, m, X)
    PROVE  Newlines(X) = Multiples(K)
<1>0. /\ t \in Nat /\ K \in Nat /\ m \in 0..LineLength /\ Len(X) = K * Width + m
      /\ \A k \in Nat, i \in 1..Width :
            k * Width + i \in 1..Len(X) => X[k * Width + i] = Shown(t + k, i)
  <2>1. t \in Nat /\ K \in Nat /\ m \in 0..LineLength
    BY DEF IsCut
  <2> QED
    BY <2>1, CutIs
<1>1. ASSUME NEW p \in 1..Len(X), X[p] = Newline PROVE p \in Multiples(K)
  <2>1. p - 1 \in Nat
    OBVIOUS
  <2>2. PICK a \in Nat, i \in 0..LineLength : p - 1 = a * Width + i
    BY <2>1, InSomeLine
  <2>3. i + 1 \in 1..Width /\ a * Width \in Nat /\ p = a * Width + (i + 1)
    BY <2>2, Widths
  <2>4. X[p] = Shown(t + a, i + 1)
    BY <1>0, <2>3
  <2>5. i + 1 = Width
    <3>1. t + a + 1 \in Nat /\ i + 1 \in Nat
      BY <1>0
    <3>2. <<t + a + 1, i + 1>> # Newline
      BY <3>1, StreamAssumption
    <3> QED
      BY <1>1, <2>4, <3>2 DEF Shown
  <2>6. p = (a + 1) * Width
    BY <2>3, <2>5, Widths
  <2>7. a + 1 \in 1..K
    <3>1. K < a + 1 => K * Width + Width <= (a + 1) * Width
      BY <1>0, Widths
    <3>2. p <= K * Width + m /\ K * Width \in Nat /\ m < Width /\ m \in Nat /\ Width \in Nat
      BY <1>0, Widths
    <3>3. ~(K * Width + Width <= p)
      <4> HIDE DEF Width
      <4> QED
        BY <3>2
    <3> QED
      BY <1>0, <2>6, <3>1, <3>3
  <2> QED
    BY <2>6, <2>7 DEF Multiples
<1>2. ASSUME NEW k \in 1..K PROVE k * Width \in 1..Len(X) /\ X[k * Width] = Newline
  <2>1. k - 1 \in Nat /\ k = k - 1 + 1 /\ k \in Nat
    BY <1>0
  <2>2. k * Width = (k - 1) * Width + Width /\ k * Width \in Nat /\ (k - 1) * Width \in Nat
    BY <1>0, <2>1, Widths
  <2>3. k < K => k * Width + Width <= K * Width
    BY <1>0, <2>1, Widths
  <2>4. K * Width \in Nat /\ m \in Nat /\ Width \in 1..Width
    BY <1>0, Widths
  <2>5. k * Width \in 1..Len(X)
    <3>1. k = K \/ k < K
      BY <1>0
    <3> HIDE DEF Width
    <3>2. k * Width <= K * Width
      BY <1>0, <2>2, <2>3, <2>4, <3>1
    <3> QED
      BY <1>0, <2>2, <2>4, <3>2
  <2>6. X[k * Width] = Shown(t + (k - 1), Width)
    BY <1>0, <2>1, <2>2, <2>4, <2>5
  <2> QED
    BY <2>5, <2>6 DEF Shown
<1> QED
  BY <1>1, <1>2 DEF Multiples, Newlines

\* So the buffer is cut into the lines, and the part of one that is left.
LEMMA Cuts ==
    ASSUME NEW W, NEW t, NEW K, NEW m, NEW X, IsCut(W, t, K, m, X)
    PROVE  /\ Len(Complete(X)) = K /\ \A k \in 1..K : Complete(X)[k] = LineBytes(t + k)
           /\ Rest(X) = SubSeq(W, (t + K) * Width + 1, (t + K) * Width + m)
<1>0. /\ OfLines(W) /\ t \in Nat /\ K \in Nat /\ m \in 0..LineLength
      /\ (t + K) * Width + m <= Len(W)
  BY DEF IsCut
<1> DEFINE w == K * Width
           a == t * Width
           e == (t + K) * Width + m
<1>1. X \in Seq(Byte) /\ Len(X) = w + m /\ \A p \in 1..Len(X) : X[p] = W[a + p]
  BY CutIs
<1>2. \A k \in Nat, i \in 1..Width :
            k * Width + i \in 1..Len(X) => X[k * Width + i] = Shown(t + k, i)
  BY CutIs
<1>3. Ends(X) = [k \in 1..K |-> k * Width] /\ Len(Ends(X)) = K
  <2>1. Newlines(X) = Multiples(K)
    BY NewlinesOf
  <2>2. Ends(X) = [k \in 1..K |-> k * Width]
    BY <1>0, <2>1, EndsAre
  <2>3. [k \in 1..K |-> k * Width] \in [1..K -> Nat]
    BY Widths
  <2>4. [k \in 1..K |-> k * Width] \in Seq(Nat)
    BY <1>0, <2>3, IsASeq
  <2>5. Len([k \in 1..K |-> k * Width]) = K
    BY <1>0, <2>3, <2>4, LenProperties
  <2> QED
    BY <2>2, <2>5
<1>4. \A k \in 1..K + 1 : Begin(X, k) = (k - 1) * Width + 1
  <2> TAKE k \in 1..K + 1
  <2>1. CASE k = 1
    BY <2>1, Widths DEF Begin
  <2>2. CASE k # 1
    <3>1. k - 1 \in 1..K
      BY <1>0, <2>2
    <3> QED
      BY <1>3, <2>2, <3>1 DEF Begin
  <2> QED
    BY <2>1, <2>2
<1>5. w \in Nat /\ a \in Nat /\ m \in Nat /\ e = a + w + m /\ (t + K) * Width = a + w
  BY <1>0, Widths
<1>6. ASSUME NEW k \in 1..K PROVE Complete(X)[k] = LineBytes(t + k)
  <2> DEFINE b == (k - 1) * Width
  <2>1. k * Width = b + Width /\ b \in Nat /\ k - 1 \in Nat /\ k - 1 + 1 = k
        /\ k \in Nat /\ k * Width \in Nat
    <3>1. k - 1 \in Nat /\ k - 1 + 1 = k /\ k \in Nat
      BY <1>0
    <3>2. ((k - 1) + 1) * Width = (k - 1) * Width + Width
      BY <3>1, Widths
    <3>3. k * Width \in Nat /\ b \in Nat
      BY <3>1, Widths
    <3>4. k * Width = (k - 1) * Width + Width
      BY <3>1, <3>2
    <3> QED
      BY <3>1, <3>3, <3>4
  <2>2. k * Width <= w
    <3>1. k < K => k * Width + Width <= w
      BY <1>0, <2>1, Widths
    <3>2. w \in Nat /\ k * Width \in Nat /\ Width \in Nat /\ (k < K \/ k = K)
      BY <1>0, <1>5, <2>1, Widths
    <3>3. CASE k = K
      BY <3>2, <3>3
    <3>4. CASE k < K
      <4> DEFINE kw == k * Width
      <4>1. kw + Width <= w /\ w \in Nat /\ kw \in Nat /\ Width \in Nat
        BY <3>1, <3>2, <3>4
      <4> HIDE DEF kw, w
      <4>2. kw <= w
        BY <4>1
      <4> QED
        BY <4>2 DEF kw
    <3> QED
      BY <3>2, <3>3, <3>4
  <2>3. Complete(X)[k] = SubSeq(X, b + 1, b + LineLength)
    <3>1. Complete(X)[k] = SubSeq(X, Begin(X, k), Ends(X)[k] - 1)
      BY <1>3 DEF Complete
    <3>2. Ends(X)[k] - 1 = b + LineLength
      <4>1. Ends(X)[k] = b + Width
        BY <1>3, <2>1
      <4> HIDE DEF b
      <4> QED
        BY <2>1, <4>1, Widths
    <3>3. k \in 1..K + 1
      BY <1>0
    <3> QED
      BY <1>4, <3>1, <3>2, <3>3
  <2> DEFINE c == SubSeq(X, b + 1, b + LineLength)
  <2>4. /\ c \in Seq(Byte) /\ Len(c) = LineLength
        /\ \A i \in 1..LineLength : c[i] = X[b + i]
    <3>1. b + LineLength <= Len(X) /\ LineLength \in Nat \ {0} /\ b \in Nat
      <4> HIDE DEF b, w
      <4> QED
        BY <1>1, <1>5, <2>1, <2>2, Widths
    <3> HIDE DEF b
    <3> QED
      BY <1>1, <3>1, Part
  <2>5. ASSUME NEW i \in 1..LineLength PROVE c[i] = <<t + k, i>>
    <3>1. i \in 1..Width /\ i # Width /\ b + i \in 1..Len(X)
      <4> HIDE DEF b, w
      <4> QED
        BY <1>1, <1>5, <2>1, <2>2, Widths
    <3>2. X[b + i] = Shown(t + (k - 1), i)
      BY <1>2, <2>1, <3>1
    <3>3. t + (k - 1) + 1 = t + k
      BY <1>0
    <3> HIDE DEF c
    <3> QED
      BY <2>4, <3>1, <3>2, <3>3 DEF Shown
  <2>6. c = LineBytes(t + k)
    <3>1. DOMAIN c = 1..LineLength /\ c = [i \in DOMAIN c |-> c[i]]
      <4> HIDE DEF c
      <4> QED
        BY <2>4, LenProperties
    <3> HIDE DEF c
    <3> QED
      BY <2>5, <3>1 DEF LineBytes
  <2> QED
    BY <2>3, <2>6
<1>7. Len(Complete(X)) = K
  <2>1. Complete(X) = [k \in 1..K |-> SubSeq(X, Begin(X, k), Ends(X)[k] - 1)]
    BY <1>3 DEF Complete
  <2> DEFINE C == [k \in 1..K |-> SubSeq(X, Begin(X, k), Ends(X)[k] - 1)]
             S == {SubSeq(X, Begin(X, k), Ends(X)[k] - 1) : k \in 1..K}
  <2>2. C \in [1..K -> S]
    OBVIOUS
  <2> HIDE DEF C, S
  <2>3. C \in Seq(S)
    BY <1>0, <2>2, IsASeq
  <2>4. Len(C) = K
    BY <1>0, <2>2, <2>3, LenProperties
  <2> QED
    BY <2>1, <2>4 DEF C
<1>8. Rest(X) = SubSeq(W, a + w + 1, a + w + m)
  <2>1. Rest(X) = SubSeq(X, w + 1, w + m)
    <3>1. Begin(X, Len(Ends(X)) + 1) = w + 1
      <4> DEFINE n == K + 1
      <4>1. n \in 1..K + 1 /\ n - 1 = K
        BY <1>0
      <4> HIDE DEF n
      <4>2. Begin(X, n) = (n - 1) * Width + 1
        BY <1>4, <4>1
      <4>3. Begin(X, n) = w + 1
        BY <4>1, <4>2 DEF w
      <4> QED
        BY <1>3, <4>3 DEF n
    <3> QED
      BY <1>1, <3>1 DEF Rest
  <2> HIDE DEF w, a
  <2> DEFINE r == SubSeq(X, w + 1, w + m)
             u == SubSeq(W, a + w + 1, a + w + m)
  <2>4. /\ r \in Seq(Byte) /\ Len(r) = m /\ \A i \in 1..m : r[i] = X[w + i]
    BY <1>1, <1>5, Part
  <2>5. /\ u \in Seq(Byte) /\ Len(u) = m /\ \A i \in 1..m : u[i] = W[a + w + i]
    <3>1. a + w + m <= Len(W) /\ a + w \in Nat
      BY <1>0, <1>5 DEF w, a
    <3>2. W \in Seq(Byte)
      BY <1>0 DEF OfLines
    <3> QED
      BY <1>5, <3>1, <3>2, Part
  <2>6. \A i \in 1..m : r[i] = u[i]
    <3> TAKE i \in 1..m
    <3>1. w + i \in 1..Len(X) /\ a + (w + i) = a + w + i
      BY <1>1, <1>5
    <3> HIDE DEF r, u
    <3> QED
      BY <1>1, <2>4, <2>5, <3>1
  <2>7. r = u
    <3> HIDE DEF r, u
    <3> QED
      BY <2>4, <2>5, <2>6, SeqEqual
  <2> QED
    BY <2>1, <2>7
<1> QED
  BY <1>5, <1>6, <1>7, <1>8

-----------------------------------------------------------------------------
(***************************************************************************)
(* What is processed.                                                      *)
(***************************************************************************)

\* The bytes of a line are that line, other bytes are none.
LEMMA BytesAreTheLine ==
    ASSUME Len(lines) \in Nat
    PROVE  /\ \A n \in 1..Len(lines) : WholeLines(LineBytes(n)) = {n}
           /\ \A r : \A n \in 1..Len(lines) :
                Processed(r, LineBytes(n)) = Lines!Processed(r, lines[n])
           /\ \A x : Len(x) # LineLength => WholeLines(x) = {}
<1>1. ASSUME NEW n \in 1..Len(lines), NEW m \in 1..Len(lines), LineBytes(n) = LineBytes(m)
      PROVE  n = m
  <2>1. 1 \in 1..LineLength
    BY Widths
  <2>2. LineBytes(n)[1] = <<n, 1>> /\ LineBytes(m)[1] = <<m, 1>>
    BY <2>1 DEF LineBytes
  <2> QED
    BY <1>1, <2>2
<1>2. \A n \in 1..Len(lines) : WholeLines(LineBytes(n)) = {n}
  BY <1>1 DEF WholeLines
<1>3. ASSUME NEW r, NEW n \in 1..Len(lines)
      PROVE  Processed(r, LineBytes(n)) = Lines!Processed(r, lines[n])
  <2>1. WholeLines(LineBytes(n)) = {n}
    BY <1>2
  <2>2. (CHOOSE m \in WholeLines(LineBytes(n)) : TRUE) = n
    BY <2>1
  <2> QED
    BY <2>1, <2>2 DEF Processed
<1>4. ASSUME NEW x, Len(x) # LineLength PROVE WholeLines(x) = {}
  <2>1. \A n \in 1..Len(lines) : Len(LineBytes(n)) = LineLength
    <3> TAKE n \in 1..Len(lines)
    <3>1. /\ <<>> \o LineBytes(n) = LineBytes(n) /\ LineBytes(n) \o <<>> = LineBytes(n)
          /\ Len(LineBytes(n) \o <<>>) = LineLength + Len(<<>>)
      BY OneLine, ConcatEmptySeq
    <3> QED
      BY <3>1, Widths
  <2> QED
    BY <1>4, <2>1 DEF WholeLines
<1> QED
  BY <1>2, <1>3, <1>4

\* What is gathered after each line follows from what was before it.
LEMMA GatheredIs ==
    ASSUME Len(lines) \in Nat
    PROVE  /\ Lines!Gathered(lines)[0] = Lines!Nothing
           /\ \A n \in 1..Len(lines) :
                Lines!Gathered(lines)[n] = Lines!Processed(Lines!Gathered(lines)[n - 1], lines[n])
<1> DEFINE N == Len(lines)
           Is(f, m) == f = [n \in 0..m |-> IF n = 0 THEN Lines!Nothing
                                           ELSE Lines!Processed(f[n - 1], lines[n])]
           Good == {m \in 0..N : \E f : Is(f, m)}
<1>0. N \in Nat
  OBVIOUS
<1> HIDE DEF N
<1>1. 0 \in Good
  <2>1. Is([n \in 0..0 |-> Lines!Nothing], 0)
    OBVIOUS
  <2>2. 0 \in 0..N
    BY <1>0
  <2> HIDE DEF Is
  <2> QED
    BY <2>1, <2>2
<1>2. ASSUME NEW m \in 0..N - 1, m \in Good PROVE m + 1 \in Good
  <2>0. m \in Nat /\ m + 1 \in 0..N
    BY <1>0
  <2>1. PICK f : Is(f, m)
    BY <1>2
  <2> DEFINE x == Lines!Processed(f[m], lines[m + 1])
             g == [n \in 0..m + 1 |-> IF n = m + 1 THEN x ELSE f[n]]
  <2>2. ASSUME NEW n \in 0..m + 1
        PROVE  g[n] = IF n = 0 THEN Lines!Nothing ELSE Lines!Processed(g[n - 1], lines[n])
    <3>1. CASE n = m + 1
      <4>1. n # 0 /\ n - 1 = m /\ n - 1 \in 0..m + 1 /\ n - 1 # m + 1
        BY <2>0, <3>1
      <4>2. g[n] = x /\ g[n - 1] = f[m]
        <5> HIDE DEF x
        <5> QED
          BY <3>1, <4>1
      <4> HIDE DEF g
      <4> QED
        BY <3>1, <4>1, <4>2
    <3>2. CASE n # m + 1 /\ n # 0
      <4>1. n \in 0..m /\ n - 1 \in 0..m + 1 /\ n - 1 # m + 1
        BY <2>0, <3>2
      <4>2. g[n] = f[n] /\ g[n - 1] = f[n - 1]
        <5> HIDE DEF x
        <5> QED
          BY <3>2, <4>1
      <4>3. f[n] = Lines!Processed(f[n - 1], lines[n])
        BY <2>1, <3>2, <4>1
      <4> HIDE DEF g
      <4> QED
        BY <3>2, <4>2, <4>3
    <3>3. CASE n = 0
      <4>1. 0 \in 0..m /\ 0 # m + 1 /\ 0 \in 0..m + 1
        BY <2>0
      <4>2. g[0] = f[0]
        <5> HIDE DEF x
        <5> QED
          BY <4>1
      <4>3. f[0] = Lines!Nothing
        BY <2>1, <4>1
      <4> HIDE DEF g
      <4> QED
        BY <3>3, <4>2, <4>3
    <3> QED
      BY <3>1, <3>2, <3>3
  <2>3. Is(g, m + 1)
    <3>1. g = [n \in 0..m + 1 |-> g[n]]
      OBVIOUS
    <3> HIDE DEF g
    <3> QED
      BY <2>2, <3>1
  <2> HIDE DEF Is
  <2> QED
    BY <2>0, <2>3
<1>3. 0..N \subseteq Good
  <2> HIDE DEF Good
  <2> QED
    BY <1>0, <1>1, <1>2, StepByStep
<1>4. N \in Good
  <2> HIDE DEF Good
  <2> QED
    BY <1>0, <1>3
<1>5. Is(Lines!Gathered(lines), N)
  <2>1. \E f : Is(f, N)
    BY <1>4
  <2> QED
    BY <2>1 DEF Lines!Gathered, N
<1> DEFINE G == Lines!Gathered(lines)
<1>6. 0 \in 0..N /\ \A n \in 1..N : n \in 0..N /\ n # 0
  BY <1>0
<1>7. G[0] = Lines!Nothing /\ \A n \in 1..N : G[n] = Lines!Processed(G[n - 1], lines[n])
  BY <1>5, <1>6
<1> QED
  BY <1>7 DEF N

\* The chunks are the next K lines.
NextLines(chunks, K) ==
    /\ K \in Nat /\ Len(chunks) = K /\ taken + K <= Len(lines)
    /\ \A k \in 1..K : chunks[k] = LineBytes(taken + k)

LEMMA Processing ==
    ASSUME Len(lines) \in Nat, taken \in Nat, reply = Lines!Gathered(lines)[taken],
           NEW chunks, NEW K, NextLines(chunks, K), ProcessAll(chunks)
    PROVE  taken' = taken + K /\ reply' = Lines!Gathered(lines)[taken + K]
<1> DEFINE G == Lines!Gathered(lines)
           Is(f) == f = [k \in 0..K |-> IF k = 0 THEN reply
                                        ELSE Processed(f[k - 1], chunks[k])]
           h == [k \in 0..K |-> G[taken + k]]
<1>1. /\ K \in Nat /\ Len(chunks) = K /\ taken + K <= Len(lines)
      /\ \A k \in 1..K : chunks[k] = LineBytes(taken + k)
  BY DEF NextLines
<1>2. \A n \in 1..Len(lines) : /\ WholeLines(LineBytes(n)) = {n}
                               /\ G[n] = Processed(G[n - 1], LineBytes(n))
  BY BytesAreTheLine, GatheredIs
<1> HIDE DEF G
<1>3. \A k \in 1..K : /\ taken + k \in 1..Len(lines) /\ k \in 0..K /\ k - 1 \in 0..K /\ k # 0
                      /\ taken + k - 1 = taken + (k - 1)
  BY <1>1
<1>4. taken' = taken + K
  <2>1. \A k \in 1..K : WholeLines(chunks[k]) # {}
    BY <1>1, <1>2, <1>3
  <2>2. {k \in 1..Len(chunks) : WholeLines(chunks[k]) # {}} = 1..K
    BY <1>1, <2>1
  <2>3. Cardinality(1..K) = K
    BY <1>1, FS_Interval
  <2> QED
    BY <2>2, <2>3 DEF ProcessAll
<1>5. h[0] = reply /\ \A k \in 1..K : h[k] = Processed(h[k - 1], chunks[k])
  <2>1. 0 \in 0..K /\ taken + 0 = taken
    BY <1>1
  <2>2. h[0] = reply
    BY <2>1 DEF G
  <2>3. ASSUME NEW k \in 1..K PROVE h[k] = Processed(h[k - 1], chunks[k])
    <3>1. h[k] = G[taken + k] /\ h[k - 1] = G[taken + k - 1]
      BY <1>3
    <3> HIDE DEF h
    <3> QED
      BY <1>1, <1>2, <1>3, <3>1
  <2> HIDE DEF h
  <2> QED
    BY <2>2, <2>3
<1>6. Is(h)
  <2>1. \A k \in 0..K : h[k] = IF k = 0 THEN reply ELSE Processed(h[k - 1], chunks[k])
    <3>1. \A k \in 0..K : k = 0 \/ k \in 1..K
      OBVIOUS
    <3> HIDE DEF h
    <3> QED
      BY <1>5, <3>1
  <2>2. h = [k \in 0..K |-> h[k]]
    OBVIOUS
  <2> HIDE DEF h
  <2> QED
    BY <2>1, <2>2
<1>7. PICK g : Is(g) /\ reply' = g[K]
  <2>1. \E f : Is(f)
    BY <1>6
  <2> QED
    BY <1>1, <2>1 DEF ProcessAll
<1>8. g[0] = reply /\ \A k \in 1..K : g[k] = Processed(g[k - 1], chunks[k])
  <2>1. 0 \in 0..K
    BY <1>1
  <2> QED
    BY <1>3, <1>7, <2>1
<1>9. \A k \in 0..K : g[k] = h[k]
  <2>1. Alike(g, h, K)
    <3> HIDE DEF h
    <3> QED
      BY <1>5, <1>8 DEF Alike
  <2> HIDE DEF h
  <2> QED
    BY <1>1, <2>1, SameSteps
<1>10. reply' = G[taken + K]
  <2>1. K \in 0..K
    BY <1>1
  <2> QED
    BY <1>7, <1>9, <2>1
<1> QED
  BY <1>4, <1>10 DEF G

\* Bytes that are no line change nothing.
LEMMA Skipped ==
    ASSUME Len(lines) \in Nat, taken \in Nat,
           NEW chunks, chunks = <<>> \/ \E x : chunks = <<x>> /\ WholeLines(x) = {},
           ProcessAll(chunks)
    PROVE  taken' = taken /\ reply' = reply
<1> DEFINE K == Len(chunks)
           Is(f) == f = [k \in 0..K |-> IF k = 0 THEN reply
                                        ELSE Processed(f[k - 1], chunks[k])]
           h == [k \in 0..K |-> reply]
<1>1. K \in 0..1 /\ \A k \in 1..K : WholeLines(chunks[k]) = {}
  OBVIOUS
<1> HIDE DEF K
<1>2. taken' = taken
  <2>1. {k \in 1..K : WholeLines(chunks[k]) # {}} = {}
    BY <1>1
  <2>2. taken' = taken + 0
    BY <2>1, FS_EmptySet DEF ProcessAll, K
  <2> QED
    BY <2>2
<1>3. \A k \in 0..K : h[k] = IF k = 0 THEN reply ELSE Processed(h[k - 1], chunks[k])
  <2> TAKE k \in 0..K
  <2>1. CASE k = 0
    BY <2>1
  <2>2. CASE k # 0
    <3>1. k \in 1..K /\ k - 1 \in 0..K
      BY <1>1, <2>2
    <3>2. h[k] = reply /\ h[k - 1] = reply
      BY <3>1
    <3> QED
      BY <1>1, <2>2, <3>1, <3>2 DEF Processed
  <2> QED
    BY <2>1, <2>2
<1>4. PICK g : Is(g) /\ reply' = g[K]
  <2>1. h = [k \in 0..K |-> h[k]]
    OBVIOUS
  <2>2. Is(h)
    <3> HIDE DEF h
    <3> QED
      BY <1>3, <2>1
  <2>3. \E f : Is(f)
    BY <2>2
  <2> QED
    BY <2>3 DEF ProcessAll, K
<1>5. \A k \in 0..K : g[k] = reply
  <2>1. Alike(g, h, K)
    <3>1. 0 \in 0..K /\ \A k \in 1..K : k \in 0..K /\ k - 1 \in 0..K /\ k # 0
      BY <1>1
    <3>2. g[0] = reply /\ \A k \in 1..K : g[k] = Processed(g[k - 1], chunks[k])
      BY <1>4, <3>1
    <3>3. \A k \in 0..K : h[k] = reply
      OBVIOUS
    <3> HIDE DEF h
    <3>4. \A k \in 1..K : Processed(g[k - 1], chunks[k]) = g[k - 1]
      BY <1>1 DEF Processed
    <3>5. g[0] = h[0]
      BY <3>1, <3>2, <3>3
    <3>6. \A k \in 1..K : h[k - 1] = h[k]
      BY <3>1, <3>3
    <3> QED
      BY <3>2, <3>4, <3>5, <3>6 DEF Alike
  <2>2. K \in Nat
    BY <1>1
  <2> HIDE DEF h
  <2>3. \A k \in 0..K : g[k] = h[k]
    BY <2>1, <2>2, SameSteps
  <2> QED
    BY <2>3 DEF h
<1>6. K \in 0..K
  BY <1>1
<1> QED
  BY <1>2, <1>4, <1>5, <1>6

-----------------------------------------------------------------------------
(***************************************************************************)
(* The invariant: all whole lines received were processed, and the buffer  *)
(* holds what was received of the next one.                                *)
(***************************************************************************)

BufferIsTheRest ==
    /\ sent - taken * Width \in 0..LineLength
    /\ buffer = SubSeq(Wire, taken * Width + 1, sent)

StreamInv ==
    /\ lines \in Replies
    /\ sent \in 0..Len(Wire)
    /\ taken \in 0..Len(lines)
    /\ reply = Lines!Gathered(lines)[taken]
    /\ transfer # "flushed" => BufferIsTheRest

\* What a step is to the processor.
TakesOrNot == Lines!Take \/ UNCHANGED <<lines, taken, reply>>

LEMMA InvFacts ==
    ASSUME StreamInv
    PROVE  /\ Len(lines) \in Nat /\ OfLines(Wire) /\ Wire \in Seq(Byte) /\ Len(Wire) \in Nat
           /\ Len(Wire) <= Len(lines) * Width /\ sent \in Nat /\ sent <= Len(Wire)
           /\ taken \in Nat /\ taken <= Len(lines) /\ taken * Width \in Nat
<1>1. Len(lines) \in Nat
  BY StreamAssumption, LenProperties DEF StreamInv
<1>2. OfLines(Wire) /\ Len(Wire) \in Nat /\ Len(Wire) <= Len(lines) * Width
  BY <1>1, WireIs
<1>3. Wire \in Seq(Byte)
  BY <1>2 DEF OfLines
<1>4. taken \in Nat /\ taken <= Len(lines) /\ sent \in Nat /\ sent <= Len(Wire)
  BY <1>1, <1>2 DEF StreamInv
<1>5. taken * Width \in Nat
  BY <1>4, Widths
<1> QED
  BY <1>1, <1>2, <1>3, <1>4, <1>5

LEMMA InvInit == Init => StreamInv /\ Lines!Init
<1> SUFFICES ASSUME Init PROVE StreamInv /\ Lines!Init
  OBVIOUS
<1>1. Len(lines) \in Nat
  BY StreamAssumption, LenProperties DEF Init
<1>2. Lines!Gathered(lines)[0] = Lines!Nothing
  BY <1>1, GatheredIs
<1>3. Len(Wire) \in Nat
  BY <1>1, WireIs
<1>4. SubSeq(Wire, 1, 0) = <<>>
  BY SubSeqEmpty
<1>5. 0 * Width = 0 /\ LineLength \in Nat
  BY Widths
<1>6. BufferIsTheRest
  <2>1. sent = 0 /\ taken = 0 /\ buffer = <<>>
    BY DEF Init
  <2> QED
    BY <1>4, <1>5, <2>1 DEF BufferIsTheRest
<1> QED
  BY <1>1, <1>2, <1>3, <1>6 DEF Init, StreamInv, Lines!Init

\* As many lines as the reply has.
LEMMA NoMoreLines ==
    ASSUME NEW a \in Nat, NEW m \in Nat, NEW l \in Nat, NEW w \in Nat,
           a * Width + m <= w, w <= l * Width
    PROVE  a <= l /\ (m > 0 => a < l)
<1>1. a * Width \in Nat /\ l * Width \in Nat /\ Width \in Nat /\ Width >= 1
  BY Widths
<1>2. l < a => l * Width + Width <= a * Width
  BY Widths
<1>3. ~(l < a)
  <2> DEFINE x == a * Width
             y == l * Width
  <2>1. x \in Nat /\ y \in Nat /\ Width \in Nat /\ Width >= 1 /\ x + m <= w /\ w <= y
    BY <1>1
  <2>2. l < a => y + Width <= x
    BY <1>2
  <2> HIDE DEF x, y
  <2> QED
    BY <2>1, <2>2
<1>4. m > 0 => a # l
  <2> DEFINE x == l * Width
  <2>1. a = l => x + m <= w /\ w <= x
    OBVIOUS
  <2>2. x \in Nat
    BY <1>1
  <2> HIDE DEF x
  <2> QED
    BY <2>1, <2>2
<1> QED
  BY <1>3, <1>4

LEMMA InvReceive ==
    ASSUME StreamInv, Receive PROVE StreamInv' /\ TakesOrNot
<1> DEFINE W == Wire
           T == taken * Width
<1>1. /\ Len(lines) \in Nat /\ OfLines(W) /\ W \in Seq(Byte) /\ Len(W) \in Nat
      /\ Len(W) <= Len(lines) * Width /\ sent \in Nat /\ sent <= Len(W)
      /\ taken \in Nat /\ taken <= Len(lines) /\ T \in Nat
  BY InvFacts
<1>2. PICK n \in 1..(Len(W) - sent) : Feed(SubSeq(W, sent + 1, sent + n)) /\ sent' = sent + n
  BY DEF Receive
<1>3. W' = W /\ lines' = lines
  <2>1. lines' = lines /\ ended' = ended
    BY DEF Receive
  <2> QED
    BY <2>1 DEF Wire, OnWire
<1>4. sent - T \in 0..LineLength /\ buffer = SubSeq(W, T + 1, sent)
  BY DEF Receive, StreamInv, BufferIsTheRest
<1> HIDE DEF W, T
<1> DEFINE X == buffer \o SubSeq(W, sent + 1, sent + n)
<1>5. X = SubSeq(W, T + 1, sent + n)
  <2>1. T + 1 \in 1..Len(W) + 1 /\ sent \in T + 1 - 1..Len(W) /\ sent + n \in sent..Len(W)
    BY <1>1, <1>4
  <2> DEFINE i == T + 1
             e == sent + n
  <2>2. i \in 1..Len(W) + 1 /\ sent \in i - 1..Len(W) /\ e \in sent..Len(W)
    BY <1>1, <1>4, <2>1
  <2> HIDE DEF i, e
  <2>3. SubSeq(W, i, sent) \o SubSeq(W, sent + 1, e) = SubSeq(W, i, e)
    BY <1>1, <2>2, ConcatAdjacentSubSeq
  <2> QED
    BY <1>4, <2>3 DEF i, e
<1>6. PICK K \in Nat, m \in 0..LineLength : sent + n - T = K * Width + m
  <2>1. sent + n - T \in Nat
    BY <1>1, <1>4
  <2> DEFINE p == sent + n - T
  <2>2. p \in Nat
    BY <2>1
  <2> HIDE DEF p
  <2>3. \E a \in Nat, i \in 0..LineLength : p = a * Width + i
    BY <2>2, InSomeLine
  <2> QED
    BY <2>3 DEF p
<1>7. (taken + K) * Width + m = sent + n /\ sent + n <= Len(W) /\ taken + K \in Nat
  <2>1. (taken + K) * Width = T + K * Width /\ K * Width \in Nat
    BY <1>1, Widths DEF T
  <2> DEFINE w == K * Width
  <2>2. w \in Nat /\ sent + n - T = w + m /\ (taken + K) * Width = T + w
    BY <1>6, <2>1
  <2> HIDE DEF w
  <2> QED
    BY <1>1, <2>2
<1>8. IsCut(W, taken, K, m, X)
  <2>1. OfLines(W) /\ taken \in Nat /\ K \in Nat /\ m \in 0..LineLength
    BY <1>1
  <2>2. (taken + K) * Width + m <= Len(W)
    BY <1>7
  <2>3. X = SubSeq(W, taken * Width + 1, (taken + K) * Width + m)
    BY <1>5, <1>7 DEF T
  <2> HIDE DEF X
  <2> QED
    BY <2>1, <2>2, <2>3 DEF IsCut
<1>9. ProcessAll(Complete(X)) /\ buffer' = Rest(X)
  BY <1>2 DEF Feed
<1> HIDE DEF X
<1>10. /\ Len(Complete(X)) = K /\ \A k \in 1..K : Complete(X)[k] = LineBytes(taken + k)
       /\ Rest(X) = SubSeq(W, (taken + K) * Width + 1, (taken + K) * Width + m)
  BY <1>8, Cuts
<1>11. taken + K <= Len(lines)
  <2> DEFINE a == taken + K
  <2>1. a \in Nat /\ m \in Nat /\ a * Width + m <= Len(W)
    BY <1>7
  <2> HIDE DEF a
  <2>2. a <= Len(lines)
    BY <1>1, <2>1, NoMoreLines
  <2> QED
    BY <2>2 DEF a
<1>12. taken' = taken + K /\ reply' = Lines!Gathered(lines)[taken + K]
  <2>1. NextLines(Complete(X), K)
    BY <1>10, <1>11 DEF NextLines
  <2> QED
    BY <1>1, <1>9, <2>1, Processing DEF StreamInv
<1>13. BufferIsTheRest'
  <2>1. buffer' = SubSeq(W, taken' * Width + 1, sent')
    BY <1>2, <1>7, <1>9, <1>10, <1>12
  <2>2. sent' - taken' * Width \in 0..LineLength
    <3> DEFINE x == (taken + K) * Width
    <3>1. x + m = sent' /\ x \in Nat /\ x = taken' * Width
      BY <1>2, <1>7, <1>12, Widths
    <3> HIDE DEF x
    <3>2. sent' - x \in 0..LineLength
      BY <3>1, Widths
    <3> QED
      BY <3>1, <3>2
  <2> QED
    BY <1>3, <2>1, <2>2 DEF BufferIsTheRest, W
<1>14. StreamInv'
  <2>1. lines' \in Replies
    BY <1>3 DEF StreamInv
  <2>2. sent' \in 0..Len(Wire')
    BY <1>1, <1>2, <1>3 DEF W
  <2>3. taken' \in 0..Len(lines') /\ reply' = Lines!Gathered(lines')[taken']
    BY <1>1, <1>3, <1>11, <1>12
  <2> QED
    BY <1>13, <2>1, <2>2, <2>3 DEF StreamInv
<1>15. Lines!Take
  <2>1. taken' \in taken..Len(lines)
    BY <1>1, <1>11, <1>12
  <2> QED
    BY <1>3, <1>12, <2>1 DEF Lines!Take
<1> QED
  BY <1>14, <1>15 DEF TakesOrNot

\* The tail is a whole line without its newline, or nothing comes of it.
LEMMA InvFlush ==
    ASSUME StreamInv, Flush PROVE StreamInv' /\ TakesOrNot
<1> DEFINE W == Wire
           T == taken * Width
           m == sent - T
           chunks == IF buffer = <<>> THEN <<>> ELSE <<buffer>>
<1>1. /\ Len(lines) \in Nat /\ OfLines(W) /\ W \in Seq(Byte) /\ Len(W) \in Nat
      /\ Len(W) <= Len(lines) * Width /\ sent \in Nat /\ sent <= Len(W)
      /\ taken \in Nat /\ taken <= Len(lines) /\ T \in Nat
  BY InvFacts
<1>2. /\ lines' = lines /\ ended' = ended /\ sent' = sent /\ transfer' = "flushed"
      /\ ProcessAll(chunks)
  BY DEF Flush
<1>3. W' = W
  BY <1>2 DEF Wire, OnWire
<1>4. m \in 0..LineLength /\ buffer = SubSeq(W, T + 1, sent)
  BY DEF Flush, StreamInv, BufferIsTheRest
<1>5. IsCut(W, taken, 0, m, buffer)
  <2>1. (taken + 0) * Width + m = sent /\ taken + 0 = taken
    <3>1. taken + 0 = taken
      BY <1>1
    <3>2. T + m = sent
      <4> HIDE DEF T
      <4> QED
        BY <1>1
    <3> QED
      BY <3>1, <3>2
  <2> QED
    BY <1>1, <1>4, <2>1 DEF IsCut
<1> HIDE DEF W, chunks
<1>6. /\ buffer \in Seq(Byte) /\ Len(buffer) = m
      /\ \A i \in 1..Width : i \in 1..m => buffer[i] = <<taken + 1, i>>
  <2>1. /\ buffer \in Seq(Byte) /\ Len(buffer) = 0 * Width + m
        /\ \A k \in Nat, i \in 1..Width :
            k * Width + i \in 1..Len(buffer) => buffer[k * Width + i] = Shown(taken + k, i)
    BY <1>5, CutIs
  <2>2. 0 * Width = 0 /\ 0 \in Nat /\ Width \in Nat /\ LineLength < Width
    BY Widths
  <2> HIDE DEF m
  <2>3. Len(buffer) = m
    BY <1>4, <2>1, <2>2
  <2>4. ASSUME NEW i \in 1..Width, i \in 1..m PROVE buffer[i] = <<taken + 1, i>>
    <3>1. 0 * Width + i = i /\ taken + 0 = taken /\ i # Width
      <4>1. i <= m /\ i \in Nat /\ m \in Nat /\ m <= LineLength /\ LineLength \in Nat
        BY <1>4, <2>4, Widths
      <4>2. i # Width
        BY <2>2, <4>1
      <4>3. 0 * Width + i = i
        BY <2>2, <4>1
      <4> QED
        BY <1>1, <4>2, <4>3
    <3>2. buffer[0 * Width + i] = Shown(taken + 0, i)
      BY <2>1, <2>2, <2>3, <2>4, <3>1
    <3> QED
      BY <3>1, <3>2 DEF Shown
  <2> QED
    BY <2>1, <2>3, <2>4
<1>7. CASE m # LineLength
  <2>1. WholeLines(buffer) = {}
    BY <1>1, <1>6, <1>7, BytesAreTheLine
  <2>2. chunks = <<>> \/ \E x : chunks = <<x>> /\ WholeLines(x) = {}
    BY <2>1 DEF chunks
  <2>3. taken' = taken /\ reply' = reply
    BY <1>1, <1>2, <2>2, Skipped
  <2>4. StreamInv'
    BY <1>2, <1>3, <2>3 DEF StreamInv, W
  <2> QED
    BY <1>2, <2>3, <2>4 DEF TakesOrNot
<1>8. CASE m = LineLength
  <2>1. taken + 1 <= Len(lines)
    <3>1. m \in Nat /\ m > 0
      BY <1>8, Widths
    <3>2. taken * Width + m <= Len(W)
      <4>1. T + m = sent
        <5> HIDE DEF T
        <5> QED
          BY <1>1
      <4> QED
        BY <1>1, <4>1
    <3> HIDE DEF m
    <3>3. taken < Len(lines)
      BY <1>1, <3>1, <3>2, NoMoreLines
    <3> QED
      BY <1>1, <3>3
  <2>2. buffer = LineBytes(taken + 1) /\ buffer # <<>>
    <3> HIDE DEF m
    <3>1. DOMAIN buffer = 1..LineLength /\ buffer = [i \in DOMAIN buffer |-> buffer[i]]
      BY <1>6, <1>8, LenProperties
    <3>2. \A i \in 1..LineLength : buffer[i] = <<taken + 1, i>>
      BY <1>6, <1>8, Widths
    <3>3. buffer # <<>>
      BY <1>6, <1>8, Widths
    <3> QED
      BY <3>1, <3>2, <3>3 DEF LineBytes
  <2>3. NextLines(chunks, 1)
    <3>1. chunks = <<buffer>>
      BY <2>2 DEF chunks
    <3>2. Len(<<buffer>>) = 1 /\ \A k \in 1..1 : <<buffer>>[k] = buffer /\ k = 1
      OBVIOUS
    <3> QED
      BY <2>1, <2>2, <3>1, <3>2 DEF NextLines
  <2>4. taken' = taken + 1 /\ reply' = Lines!Gathered(lines)[taken + 1]
    BY <1>1, <1>2, <2>3, Processing DEF StreamInv
  <2>5. taken' \in 0..Len(lines) /\ taken' \in taken..Len(lines)
    BY <1>1, <2>1, <2>4
  <2>6. StreamInv'
    BY <1>2, <1>3, <2>4, <2>5 DEF StreamInv, W
  <2>7. Lines!Take
    BY <1>2, <2>4, <2>5 DEF Lines!Take
  <2> QED
    BY <2>6, <2>7 DEF TakesOrNot
<1> QED
  BY <1>7, <1>8

\* The other steps leave the bytes and the lines alone.
LEMMA InvAlone ==
    ASSUME StreamInv, UNCHANGED <<lines, ended, sent, buffer, taken, reply>>,
           transfer = "flushed" => transfer' = "flushed"
    PROVE  StreamInv' /\ TakesOrNot
<1>1. Wire' = Wire
  BY DEF Wire, OnWire
<1>2. BufferIsTheRest => BufferIsTheRest'
  BY <1>1 DEF BufferIsTheRest
<1> QED
  BY <1>1, <1>2 DEF StreamInv, TakesOrNot

LEMMA InvNext == StreamInv /\ [Next]_vars => StreamInv' /\ TakesOrNot
<1> SUFFICES ASSUME StreamInv, [Next]_vars PROVE StreamInv' /\ TakesOrNot
  OBVIOUS
<1>1. CASE Receive
  BY <1>1, InvReceive
<1>2. CASE Fed
  BY <1>2, InvAlone DEF Fed
<1>3. CASE Abort
  BY <1>3, InvAlone DEF Abort
<1>4. CASE End
  BY <1>4, InvAlone DEF End
<1>5. CASE Flush
  BY <1>5, InvFlush
<1>6. CASE Cancel
  BY <1>6, InvAlone DEF Cancel
<1>7. CASE UNCHANGED vars
  BY <1>7, InvAlone DEF vars
<1> QED
  BY <1>1, <1>2, <1>3, <1>4, <1>5, <1>6, <1>7 DEF Next

-----------------------------------------------------------------------------
\* However the network cuts the reply, and wherever it ends or is cancelled,
\* ChunkCompletionProcessor has seen whole lines, each once and in order
\* (ChunkProcessor::Feed and Flush): SseStream implements SseLines.
THEOREM StreamImplementsLines == Spec => WholeLinesInOrder
<1>1. Init => StreamInv /\ Lines!Init
  BY InvInit
<1>2. StreamInv /\ [Next]_vars => StreamInv'
  BY InvNext
<1>3. StreamInv /\ [Next]_vars => [Lines!Take]_<<lines, taken, reply>>
  BY InvNext DEF TakesOrNot
<1> QED
  BY <1>1, <1>2, <1>3, PTL DEF Spec, WholeLinesInOrder, Lines!Spec

-----------------------------------------------------------------------------
(***************************************************************************)
(* Deltas and calls, one more at a time.                                   *)
(***************************************************************************)

Piece == (DOMAIN CallLength) \X Nat
Call  == [name : DOMAIN CallLength \cup {NoName}, args : Seq(Piece)]

CallsOf(line) == IF line.kind = "data" THEN line.calls ELSE <<>>
ArgsOf(c, i)  == IF c.index = i THEN c.args ELSE <<>>

\* f joins the pieces of g, from the first on.
Joins(f, g, last) == f[0] = <<>> /\ \A n \in 1..last : f[n] = f[n - 1] \o g[n]

LEMMA JoinExists ==
    ASSUME NEW last \in Nat, NEW S, NEW g \in [1..last -> Seq(S)]
    PROVE  \E f \in [0..last -> Seq(S)] : Joins(f, g, last)
<1> DEFINE F == [x \in Seq(S) \X (1..last) |-> x[1] \o g[x[2]]]
<1>1. F \in [Seq(S) \X (1..last) -> Seq(S)]
  <2>1. ASSUME NEW x \in Seq(S) \X (1..last)
        PROVE  x[1] \o g[x[2]] \in Seq(S)
    <3>1. x[1] \in Seq(S) /\ g[x[2]] \in Seq(S)
      OBVIOUS
    <3> QED
      BY <3>1, ConcatProperties
  <2> QED
    BY <2>1
<1>2. PICK f \in [0..last -> Seq(S)] : Leads(f, <<>>, F, last)
  <2>1. <<>> \in Seq(S)
    OBVIOUS
  <2> HIDE DEF F
  <2> QED
    BY <1>1, <2>1, StepsLead
<1>3. ASSUME NEW n \in 1..last PROVE f[n] = f[n - 1] \o g[n]
  <2>1. n - 1 \in 0..last
    OBVIOUS
  <2>2. f[n - 1] \in Seq(S)
    BY <2>1
  <2>3. F[<<f[n - 1], n>>] = f[n - 1] \o g[n]
    BY <2>2
  <2> HIDE DEF F
  <2> QED
    BY <1>2, <2>3 DEF Leads
<1> QED
  BY <1>2, <1>3 DEF Leads, Joins

\* As f joins the pieces of g, k joins the same first of all.
JoinsOn(f, g, last, k, h, e) ==
    /\ last \in Nat /\ e \in Nat /\ last <= e
    /\ Joins(f, g, last) /\ Joins(k, h, e)
    /\ \A n \in 1..last : h[n] = g[n]

LEMMA JoinsAlike ==
    ASSUME NEW last, NEW e, NEW f, NEW g, NEW k, NEW h, JoinsOn(f, g, last, k, h, e)
    PROVE  k[last] = f[last]
<1>1. last \in Nat /\ last \in 0..last
  BY DEF JoinsOn
<1>2. Alike(k, f, last)
  <2>1. \A n \in 1..last : n \in 1..e /\ h[n] = g[n]
    BY DEF JoinsOn
  <2>2. k[0] = f[0]
    BY DEF Joins, JoinsOn
  <2>3. \A n \in 1..last : k[n] = k[n - 1] \o g[n] /\ f[n] = f[n - 1] \o g[n]
    BY <2>1 DEF Joins, JoinsOn
  <2> QED
    BY <2>2, <2>3 DEF Alike
<1> QED
  BY <1>1, <1>2, SameSteps

\* A call's arguments in all deltas.
LEMMA ArgsJoin ==
    ASSUME NEW ds \in Seq(CallDelta), NEW i
    PROVE  \E f : /\ Joins(f, [n \in 1..Len(ds) |-> ArgsOf(ds[n], i)], Len(ds))
                  /\ Args(ds, i) = f[Len(ds)] /\ Args(ds, i) \in Seq(Piece)
<1> DEFINE N == Len(ds)
           g == [n \in 1..N |-> ArgsOf(ds[n], i)]
           Is(f) == f = [n \in 0..N |-> IF n = 0 THEN <<>>
                            ELSE f[n - 1] \o (IF ds[n].index = i THEN ds[n].args ELSE <<>>)]
<1>1. N \in Nat /\ \A n \in 1..N : ds[n] \in CallDelta
  BY LenProperties
<1>2. g \in [1..N -> Seq(Piece)]
  <2>1. \A c \in CallDelta : ArgsOf(c, i) \in Seq(Piece)
    BY DEF ArgsOf, CallDelta, Piece
  <2> QED
    BY <1>1, <2>1
<1> HIDE DEF N
<1>3. PICK f \in [0..N -> Seq(Piece)] : Joins(f, g, N)
  <2> HIDE DEF g
  <2> QED
    BY <1>1, <1>2, JoinExists
<1>4. \A n \in 1..N : g[n] = (IF ds[n].index = i THEN ds[n].args ELSE <<>>)
  BY DEF ArgsOf
<1> HIDE DEF g
<1>5. 0 \in 0..N /\ N \in 0..N /\ \A n \in 1..N : n \in 0..N /\ n # 0
  BY <1>1
<1>6. Is(f)
  <2>1. \A n \in 0..N : n = 0 \/ n \in 1..N
    BY <1>1
  <2> QED
    BY <1>3, <1>4, <2>1 DEF Joins
<1>7. PICK k : Is(k) /\ Args(ds, i) = k[N]
  <2>1. \E k : Is(k)
    BY <1>6
  <2> QED
    BY <2>1 DEF Args, N
<1>8. Joins(k, g, N)
  BY <1>4, <1>5, <1>7 DEF Joins
<1>9. k[N] = f[N]
  <2>1. JoinsOn(f, g, N, k, g, N)
    BY <1>1, <1>3, <1>8 DEF JoinsOn
  <2> QED
    BY <2>1, JoinsAlike
<1>10. f[N] \in Seq(Piece)
  BY <1>3, <1>5
<1> QED
  BY <1>7, <1>8, <1>9, <1>10 DEF g, N

LEMMA ArgsOfOneMore ==
    ASSUME NEW ds \in Seq(CallDelta), NEW c \in CallDelta, NEW i
    PROVE  /\ Args(ds, i) \in Seq(Piece)
           /\ Args(Append(ds, c), i) = Args(ds, i) \o ArgsOf(c, i)
<1> DEFINE N == Len(ds)
           es == Append(ds, c)
           g == [n \in 1..N |-> ArgsOf(ds[n], i)]
           h == [n \in 1..N + 1 |-> ArgsOf(es[n], i)]
<1>1. /\ N \in Nat /\ es \in Seq(CallDelta) /\ Len(es) = N + 1 /\ es[N + 1] = c
      /\ \A n \in 1..N : es[n] = ds[n] /\ n \in 1..N + 1
  BY AppendProperties, LenProperties
<1> HIDE DEF es
<1>2. PICK f : Joins(f, g, N) /\ Args(ds, i) = f[N] /\ Args(ds, i) \in Seq(Piece)
  BY ArgsJoin
<1>3. PICK k : Joins(k, h, N + 1) /\ Args(es, i) = k[N + 1]
  BY <1>1, ArgsJoin
<1>4. (\A n \in 1..N : h[n] = g[n]) /\ h[N + 1] = ArgsOf(c, i)
  BY <1>1
<1> HIDE DEF g, h, N
<1>5. k[N + 1] = f[N] \o h[N + 1]
  <2> DEFINE e == N + 1
  <2>1. e \in Nat /\ e \in 1..e /\ e - 1 = N /\ N <= e
    BY <1>1
  <2>2. Joins(k, h, e)
    BY <1>3
  <2> HIDE DEF e
  <2>3. JoinsOn(f, g, N, k, h, e)
    BY <1>1, <1>2, <1>4, <2>1, <2>2 DEF JoinsOn
  <2>4. k[N] = f[N]
    BY <2>3, JoinsAlike
  <2>5. k[e] = k[e - 1] \o h[e]
    BY <2>1, <2>2 DEF Joins
  <2>6. k[e] = f[N] \o h[e]
    BY <2>1, <2>4, <2>5
  <2> QED
    BY <2>6 DEF e
<1> QED
  BY <1>2, <1>3, <1>4, <1>5 DEF es

LEMMA NoArgs == \A i : Args(<<>>, i) = <<>>
<1> TAKE i
<1>1. <<>> \in Seq(CallDelta) /\ Len(<<>>) = 0
  OBVIOUS
<1>2. \E f : Joins(f, [n \in 1..Len(<<>>) |-> ArgsOf(<<>>[n], i)], Len(<<>>)) /\ Args(<<>>, i) = f[Len(<<>>)]
  BY <1>1, ArgsJoin
<1> QED
  BY <1>1, <1>2 DEF Joins

\* The deltas of a reply, line by line.
LEMMA DeltasJoin ==
    ASSUME NEW ls \in Seq(ServerLine)
    PROVE  \E f : /\ Joins(f, [n \in 1..Len(ls) |-> CallsOf(ls[n])], Len(ls))
                  /\ Deltas(ls) = f[Len(ls)] /\ Deltas(ls) \in Seq(CallDelta)
<1> DEFINE N == Len(ls)
           g == [n \in 1..N |-> CallsOf(ls[n])]
           Is(f) == f = [n \in 0..N |-> IF n = 0 THEN <<>>
                            ELSE f[n - 1] \o (IF ls[n].kind = "data" THEN ls[n].calls ELSE <<>>)]
<1>1. N \in Nat /\ \A n \in 1..N : ls[n] \in ServerLine
  BY LenProperties
<1>2. g \in [1..N -> Seq(CallDelta)]
  <2>1. \A l \in ServerLine : CallsOf(l) \in Seq(CallDelta)
    BY DEF CallsOf, ServerLine
  <2> QED
    BY <1>1, <2>1
<1> HIDE DEF N
<1>3. PICK f \in [0..N -> Seq(CallDelta)] : Joins(f, g, N)
  <2> HIDE DEF g
  <2> QED
    BY <1>1, <1>2, JoinExists
<1>4. \A n \in 1..N : g[n] = (IF ls[n].kind = "data" THEN ls[n].calls ELSE <<>>)
  BY DEF CallsOf
<1> HIDE DEF g
<1>5. 0 \in 0..N /\ N \in 0..N /\ \A n \in 1..N : n \in 0..N /\ n # 0
  BY <1>1
<1>6. Is(f)
  <2>1. \A n \in 0..N : n = 0 \/ n \in 1..N
    BY <1>1
  <2> QED
    BY <1>3, <1>4, <2>1 DEF Joins
<1>7. PICK k : Is(k) /\ Deltas(ls) = k[N]
  <2>1. \E k : Is(k)
    BY <1>6
  <2> QED
    BY <2>1 DEF Deltas, N
<1>8. Joins(k, g, N)
  BY <1>4, <1>5, <1>7 DEF Joins
<1>9. k[N] = f[N]
  <2>1. JoinsOn(f, g, N, k, g, N)
    BY <1>1, <1>3, <1>8 DEF JoinsOn
  <2> QED
    BY <2>1, JoinsAlike
<1>10. f[N] \in Seq(CallDelta)
  BY <1>3, <1>5
<1> QED
  BY <1>7, <1>8, <1>9, <1>10 DEF g, N

LEMMA DeltasOfOneMore ==
    ASSUME NEW ls \in Seq(ServerLine), NEW l \in ServerLine
    PROVE  /\ Deltas(ls) \in Seq(CallDelta)
           /\ Deltas(Append(ls, l)) = Deltas(ls) \o CallsOf(l)
<1> DEFINE N == Len(ls)
           es == Append(ls, l)
           g == [n \in 1..N |-> CallsOf(ls[n])]
           h == [n \in 1..N + 1 |-> CallsOf(es[n])]
<1>1. /\ N \in Nat /\ es \in Seq(ServerLine) /\ Len(es) = N + 1 /\ es[N + 1] = l
      /\ \A n \in 1..N : es[n] = ls[n] /\ n \in 1..N + 1
  BY AppendProperties, LenProperties
<1> HIDE DEF es
<1>2. PICK f : Joins(f, g, N) /\ Deltas(ls) = f[N] /\ Deltas(ls) \in Seq(CallDelta)
  BY DeltasJoin
<1>3. PICK k : Joins(k, h, N + 1) /\ Deltas(es) = k[N + 1]
  BY <1>1, DeltasJoin
<1>4. (\A n \in 1..N : h[n] = g[n]) /\ h[N + 1] = CallsOf(l)
  BY <1>1
<1> HIDE DEF g, h, N
<1>5. k[N + 1] = f[N] \o h[N + 1]
  <2> DEFINE e == N + 1
  <2>1. e \in Nat /\ e \in 1..e /\ e - 1 = N /\ N <= e
    BY <1>1
  <2>2. Joins(k, h, e)
    BY <1>3
  <2> HIDE DEF e
  <2>3. JoinsOn(f, g, N, k, h, e)
    BY <1>1, <1>2, <1>4, <2>1, <2>2 DEF JoinsOn
  <2>4. k[N] = f[N]
    BY <2>3, JoinsAlike
  <2>5. k[e] = k[e - 1] \o h[e]
    BY <2>1, <2>2 DEF Joins
  <2>6. k[e] = f[N] \o h[e]
    BY <2>1, <2>4, <2>5
  <2> QED
    BY <2>6 DEF e
<1> QED
  BY <1>2, <1>3, <1>4, <1>5 DEF es

LEMMA NoDeltas == Deltas(<<>>) = <<>>
<1>1. <<>> \in Seq(ServerLine) /\ Len(<<>>) = 0
  OBVIOUS
<1>2. \E f : /\ Joins(f, [n \in 1..Len(<<>>) |-> CallsOf(<<>>[n])], Len(<<>>))
             /\ Deltas(<<>>) = f[Len(<<>>)]
  BY <1>1, DeltasJoin
<1> QED
  BY <1>1, <1>2 DEF Joins

\* Calls that have begun.
LEMMA NamedSoFar ==
    ASSUME NEW ds \in Seq(CallDelta)
    PROVE  \A n \in 0..Len(ds) :
                /\ Named(ds, n) \in Nat /\ Named(ds, n) <= Named(ds, Len(ds))
                /\ IsFiniteSet({m \in 1..n : ds[m].name # NoName})
<1> DEFINE named(n) == {m \in 1..n : ds[m].name # NoName}
<1>1. Len(ds) \in Nat
  BY LenProperties
<1>2. ASSUME NEW n \in 0..Len(ds) PROVE IsFiniteSet(named(n)) /\ Cardinality(named(n)) \in Nat
  <2>1. IsFiniteSet(1..n)
    BY <1>1, FS_Interval
  <2>2. named(n) \subseteq 1..n
    OBVIOUS
  <2> HIDE DEF named
  <2> QED
    BY <2>1, <2>2, FS_Subset, FS_CardinalityType
<1>3. ASSUME NEW n \in 0..Len(ds)
      PROVE  Cardinality(named(n)) <= Cardinality(named(Len(ds)))
  <2>1. named(n) \subseteq named(Len(ds))
    BY <1>1
  <2>2. Len(ds) \in 0..Len(ds)
    BY <1>1
  <2>3. IsFiniteSet(named(Len(ds)))
    BY <1>2, <2>2
  <2> HIDE DEF named
  <2> QED
    BY <2>1, <2>3, FS_Subset
<1> QED
  BY <1>2, <1>3 DEF Named

LEMMA NamedInOneMore ==
    ASSUME NEW ds \in Seq(CallDelta), NEW c \in CallDelta
    PROVE  /\ \A n \in 0..Len(ds) : Named(Append(ds, c), n) = Named(ds, n)
           /\ Named(Append(ds, c), Len(ds) + 1) =
                Named(ds, Len(ds)) + (IF c.name = NoName THEN 0 ELSE 1)
<1> DEFINE N == Len(ds)
           es == Append(ds, c)
           before == {m \in 1..N : ds[m].name # NoName}
           after == {m \in 1..N + 1 : es[m].name # NoName}
<1>1. N \in Nat /\ es[N + 1] = c /\ \A n \in 1..N : es[n] = ds[n]
  BY AppendProperties, LenProperties
<1> HIDE DEF es
<1>2. ASSUME NEW n \in 0..N PROVE Named(es, n) = Named(ds, n)
  <2>1. \A m \in 1..n : es[m] = ds[m]
    BY <1>1
  <2>2. {m \in 1..n : es[m].name # NoName} = {m \in 1..n : ds[m].name # NoName}
    BY <2>1
  <2> QED
    BY <2>2 DEF Named
<1>3. IsFiniteSet(before) /\ Cardinality(before) = Named(ds, N) /\ Named(ds, N) \in Nat
  <2>1. N \in 0..N
    BY <1>1
  <2> QED
    BY <2>1, NamedSoFar DEF Named
<1>4. 1..N + 1 = (1..N) \cup {N + 1} /\ N + 1 \notin 1..N
  BY <1>1
<1>5. after = IF c.name = NoName THEN before ELSE before \cup {N + 1}
  <2>1. \A m \in 1..N : m \in after <=> m \in before
    BY <1>1, <1>4
  <2>2. N + 1 \in after <=> c.name # NoName
    BY <1>1, <1>4
  <2>3. before \subseteq 1..N /\ after \subseteq (1..N) \cup {N + 1}
    BY <1>4
  <2> HIDE DEF before, after
  <2>4. \A m : m \in after <=> m \in before \/ (m = N + 1 /\ c.name # NoName)
    BY <1>4, <2>1, <2>2, <2>3
  <2>5. CASE c.name = NoName
    BY <2>4, <2>5
  <2>6. CASE c.name # NoName
    <3> DEFINE last == N + 1
    <3>1. \A m : m \in after <=> m \in before \/ m = last
      BY <2>4, <2>6
    <3> HIDE DEF last
    <3>2. after = before \cup {last}
      BY <3>1
    <3> QED
      BY <2>6, <3>2 DEF last
  <2> QED
    BY <2>5, <2>6
<1>6. N + 1 \notin before
  BY <1>4
<1>7. Named(es, N + 1) = Cardinality(after)
  BY DEF Named
<1> HIDE DEF before, after, N
<1>8. Cardinality(after) = Named(ds, N) + (IF c.name = NoName THEN 0 ELSE 1)
  <2>1. CASE c.name = NoName
    BY <1>3, <1>5, <2>1
  <2>2. CASE c.name # NoName
    <3> DEFINE last == N + 1
    <3>1. after = before \cup {last} /\ last \notin before
      BY <1>5, <1>6, <2>2
    <3> HIDE DEF last
    <3>2. Cardinality(after) = Cardinality(before) + 1
      BY <1>3, <3>1, FS_AddElement
    <3> QED
      BY <1>3, <2>2, <3>2
  <2> QED
    BY <2>1, <2>2
<1> QED
  BY <1>2, <1>7, <1>8 DEF N, es

-----------------------------------------------------------------------------
(***************************************************************************)
(* The calls of a server that finishes one before it begins the next.      *)
(***************************************************************************)

ReplyOf == [thinking : BOOLEAN, reasoning : Seq(STRING), message : Seq(STRING),
            tools : Seq(Call), current : Call, failed : BOOLEAN]

FirstOf(ds, i) == CHOOSE n \in 1..Len(ds) : IsFirst(ds, n, i)
Told(ds, i)    == [name |-> ds[FirstOf(ds, i)].name, args |-> Args(ds, i)]

\* The calls begun are those announced, each with its own arguments so far.
Announces(r, ds) ==
    /\ Lines!Begun(r) = Announced(ds)
    /\ r.current.name = NoName <=> Named(ds, Len(ds)) = 0
    /\ \A i \in 1..Named(ds, Len(ds)) : \E n \in 1..Len(ds) : IsFirst(ds, n, i)
    /\ \A i \in Nat : i > Named(ds, Len(ds)) => Args(ds, i) = <<>>

LEMMA FirstIs ==
    ASSUME NEW ds \in Seq(CallDelta), NEW i, NEW n \in 1..Len(ds), IsFirst(ds, n, i)
    PROVE  FirstOf(ds, i) = n
<1>1. ASSUME NEW m \in 1..Len(ds), IsFirst(ds, m, i) PROVE m = n
  <2>1. m < n => m \in 1..n - 1
    OBVIOUS
  <2>2. n < m => n \in 1..m - 1
    OBVIOUS
  <2> QED
    BY <1>1, <2>1, <2>2 DEF IsFirst
<1> QED
  BY <1>1 DEF FirstOf

\* With one more delta, what was in order was so before.
LEMMA OneMoreInOrder ==
    ASSUME NEW ds \in Seq(CallDelta), NEW c \in CallDelta, InOrder(Append(ds, c))
    PROVE  /\ InOrder(ds)
           /\ c.index = Named(ds, Len(ds)) + (IF c.name = NoName THEN 0 ELSE 1)
           /\ \A n \in 1..Len(ds) : ds[n].index <= Named(ds, Len(ds))
<1> DEFINE N == Len(ds)
           es == Append(ds, c)
<1>1. /\ N \in Nat /\ es \in Seq(CallDelta) /\ Len(es) = N + 1 /\ es[N + 1] = c
      /\ \A n \in 1..N : es[n] = ds[n]
  BY AppendProperties, LenProperties
<1>2. /\ \A n \in 0..N : Named(es, n) = Named(ds, n)
      /\ Named(es, N + 1) = Named(ds, N) + (IF c.name = NoName THEN 0 ELSE 1)
  BY NamedInOneMore
<1>3. \A n \in 1..N + 1 : es[n].index = Named(es, n)
  BY <1>1 DEF InOrder
<1>4. \A n \in 0..N : Named(ds, n) <= Named(ds, N)
  BY NamedSoFar
<1> HIDE DEF N, es
<1>5. \A n \in 1..N : n \in 0..N /\ n \in 1..N + 1
  BY <1>1
<1>6. \A n \in 1..N : ds[n].index = Named(ds, n) /\ ds[n].index <= Named(ds, N)
  BY <1>1, <1>2, <1>3, <1>4, <1>5
<1>7. es[N + 1].index = Named(es, N + 1)
  BY <1>1, <1>3
<1> QED
  BY <1>1, <1>2, <1>6, <1>7 DEF InOrder, N

\* The name of a call stays, its arguments grow.
LEMMA ToldInOneMore ==
    ASSUME NEW ds \in Seq(CallDelta), NEW c \in CallDelta, NEW i, NEW n \in 1..Len(ds),
           IsFirst(ds, n, i)
    PROVE  /\ IsFirst(Append(ds, c), n, i)
           /\ Told(Append(ds, c), i).name = Told(ds, i).name
<1> DEFINE N == Len(ds)
           es == Append(ds, c)
<1>1. /\ N \in Nat /\ es \in Seq(CallDelta) /\ Len(es) = N + 1
      /\ \A k \in 1..N : es[k] = ds[k]
  BY AppendProperties, LenProperties
<1> HIDE DEF es
<1>2. IsFirst(es, n, i)
  <2>1. \A m \in 1..n - 1 : m \in 1..N
    BY <1>1
  <2> QED
    BY <1>1, <2>1 DEF IsFirst
<1>3. FirstOf(ds, i) = n
  BY FirstIs
<1>4. FirstOf(es, i) = n
  <2>1. n \in 1..Len(es)
    BY <1>1
  <2> QED
    BY <1>1, <1>2, <2>1, FirstIs
<1>5. Told(es, i).name = Told(ds, i).name
  BY <1>1, <1>3, <1>4 DEF Told
<1> QED
  BY <1>2, <1>5 DEF es

\* CheckTools keeps a reply what it is.
LEMMA WithCallIs ==
    ASSUME NEW r \in ReplyOf, NEW c \in CallDelta
    PROVE  /\ Lines!WithCall(r, c) \in ReplyOf /\ Lines!Begun(r) \in Seq(Call)
           /\ c.name = NoName =>
                /\ Lines!WithCall(r, c).tools = r.tools
                /\ Lines!WithCall(r, c).current.name = r.current.name
                /\ Lines!WithCall(r, c).current.args = r.current.args \o c.args
           /\ c.name # NoName =>
                /\ Lines!WithCall(r, c).tools = Lines!Begun(r)
                /\ Lines!WithCall(r, c).current.name = c.name
                /\ Lines!WithCall(r, c).current.args = c.args
<1>1. /\ r.tools \in Seq(Call) /\ r.current \in Call /\ r.current.args \in Seq(Piece)
      /\ c.args \in Seq(Piece) /\ c.name \in DOMAIN CallLength \cup {NoName}
  BY DEF ReplyOf, Call, CallDelta, Piece
<1>2. Lines!Begun(r) \in Seq(Call)
  BY <1>1, AppendProperties DEF Lines!Begun
<1>3. CASE c.name = NoName
  <2> DEFINE a == r.current.args \o c.args
             q == [r EXCEPT !.current.args = a]
  <2>1. Lines!WithCall(r, c) = q
    BY <1>3 DEF Lines!WithCall
  <2>2. a \in Seq(Piece)
    BY <1>1, ConcatProperties
  <2> HIDE DEF a
  <2>3. q \in ReplyOf /\ q.tools = r.tools /\ q.current.name = r.current.name /\ q.current.args = a
    BY <1>1, <2>2 DEF ReplyOf, Call
  <2> QED
    BY <1>2, <1>3, <2>1, <2>3 DEF a
<1>4. CASE c.name # NoName
  <2> DEFINE b == Lines!Begun(r)
             d == [name |-> c.name, args |-> c.args]
             q == [r EXCEPT !.tools = b, !.current = d]
  <2>1. Lines!WithCall(r, c) = q
    BY <1>4 DEF Lines!WithCall
  <2>2. d \in Call /\ d.name = c.name /\ d.args = c.args /\ b \in Seq(Call)
    BY <1>1, <1>2 DEF Call
  <2> HIDE DEF b, d
  <2>3. q \in ReplyOf /\ q.tools = b /\ q.current = d
    BY <2>2 DEF ReplyOf
  <2> QED
    BY <1>2, <1>4, <2>1, <2>2, <2>3 DEF b
<1> QED
  BY <1>3, <1>4

\* A delta that is in order goes to the call that it is for.
LEMMA OneMoreDelta ==
    ASSUME NEW r \in ReplyOf, NEW ds \in Seq(CallDelta), NEW c \in CallDelta,
           Announces(r, ds), InOrder(Append(ds, c))
    PROVE  Announces(Lines!WithCall(r, c), Append(ds, c))
<1> DEFINE N == Len(ds)
           M == Named(ds, N)
           es == Append(ds, c)
           E == Named(es, N + 1)
           s == Lines!WithCall(r, c)
           B == Lines!Begun(r)
           D == Lines!Begun(s)
<1>1. /\ N \in Nat /\ es \in Seq(CallDelta) /\ Len(es) = N + 1 /\ es[N + 1] = c
      /\ \A n \in 1..N : es[n] = ds[n]
  BY AppendProperties, LenProperties
<1>2. /\ B = Announced(ds) /\ (r.current.name = NoName <=> M = 0)
      /\ \A i \in 1..M : \E n \in 1..N : IsFirst(ds, n, i)
      /\ \A i \in Nat : i > M => Args(ds, i) = <<>>
  BY DEF Announces
<1>3. M \in Nat /\ E = M + (IF c.name = NoName THEN 0 ELSE 1)
  <2>1. N \in 0..N
    BY <1>1
  <2> QED
    BY <2>1, NamedSoFar, NamedInOneMore
<1>4. c.index = E /\ \A n \in 1..N : ds[n].index <= M
  BY <1>3, OneMoreInOrder
<1>5. /\ s \in ReplyOf /\ B \in Seq(Call) /\ D \in Seq(Call)
      /\ c.name = NoName => s.tools = r.tools /\ s.current.name = r.current.name
      /\ c.name # NoName => s.tools = B /\ s.current.name = c.name
      /\ s.current \in Call /\ r.current \in Call /\ r.tools \in Seq(Call)
  <2>1. /\ s \in ReplyOf /\ B \in Seq(Call)
        /\ c.name = NoName => s.tools = r.tools /\ s.current.name = r.current.name
        /\ c.name # NoName => s.tools = B /\ s.current.name = c.name
    BY WithCallIs
  <2> HIDE DEF s, B
  <2>2. D \in Seq(Call)
    BY <2>1, WithCallIs
  <2> QED
    BY <2>1, <2>2 DEF ReplyOf
<1>6. \A i : /\ Args(ds, i) \in Seq(Piece) /\ Args(es, i) \in Seq(Piece)
             /\ i # c.index => Args(es, i) = Args(ds, i)
  <2> TAKE i
  <2>1. Args(ds, i) \in Seq(Piece) /\ Args(es, i) = Args(ds, i) \o ArgsOf(c, i)
    BY ArgsOfOneMore
  <2>2. Args(es, i) \in Seq(Piece)
    BY <1>1, ArgsOfOneMore
  <2>3. i # c.index => ArgsOf(c, i) = <<>>
    BY DEF ArgsOf
  <2>4. Args(ds, i) \o <<>> = Args(ds, i)
    BY <2>1, ConcatEmptySeq
  <2> QED
    BY <2>1, <2>2, <2>3, <2>4
<1>7. c.args \in Seq(Piece)
  BY DEF CallDelta, Piece
<1>8. Announced(ds) = [i \in 1..M |-> Told(ds, i)] /\ Announced(es) = [i \in 1..E |-> Told(es, i)]
  BY <1>1 DEF Announced, Told, FirstOf
<1>9. \A i \in 1..M : /\ \E n \in 1..N + 1 : IsFirst(es, n, i)
                      /\ Told(es, i).name = Told(ds, i).name
  <2> TAKE i \in 1..M
  <2>1. PICK n \in 1..N : IsFirst(ds, n, i)
    BY <1>2
  <2>2. IsFirst(es, n, i) /\ Told(es, i).name = Told(ds, i).name
    BY <2>1, ToldInOneMore
  <2>3. n \in 1..N + 1
    BY <1>1
  <2> QED
    BY <2>2, <2>3
<1>10. Len(B) = M /\ \A i \in 1..M : B[i] = Told(ds, i)
  <2>1. DOMAIN B = 1..M
    BY <1>2, <1>8
  <2> HIDE DEF B, M
  <2>2. Len(B) = M
    BY <1>3, <1>5, <2>1, LenProperties
  <2> QED
    BY <1>2, <1>8, <2>2
<1>11. \A i \in Nat : i > E => Args(es, i) = <<>>
  BY <1>2, <1>3, <1>4, <1>6
<1> HIDE DEF N, M, es, E, s, B, D
<1>12. \A i, q : Told(q, i) = [name |-> Told(q, i).name, args |-> Args(q, i)]
  BY DEF Told
<1>13. CASE c.name = NoName
  <2>1. E = M /\ c.index = M
    BY <1>3, <1>4, <1>13
  <2>2. CASE M = 0
    <3>1. D = s.tools /\ B = r.tools
      BY <1>2, <1>5, <1>13, <2>2 DEF D, B, Lines!Begun
    <3>2. Announced(es) = Announced(ds)
      <4>1. 1..M = {}
        BY <2>2
      <4> QED
        BY <1>8, <2>1, <4>1
    <3>3. D = Announced(es)
      BY <1>2, <1>5, <1>13, <3>1, <3>2
    <3> QED
      BY <1>1, <1>2, <1>5, <1>9, <1>11, <1>13, <2>1, <2>2, <3>3 DEF Announces, D, E, es, s
  <2>3. CASE M # 0
    <3>1. s.current.args = r.current.args \o c.args
      BY <1>13, WithCallIs DEF s
    <3>2. B = Append(r.tools, r.current) /\ D = Append(r.tools, s.current)
      BY <1>2, <1>5, <1>13, <2>3 DEF D, B, Lines!Begun
    <3>3. /\ Len(r.tools) + 1 = M /\ Len(D) = M /\ Len(r.tools) \in Nat
          /\ r.current = B[M] /\ s.current = D[M]
          /\ \A i \in 1..Len(r.tools) : D[i] = r.tools[i] /\ B[i] = r.tools[i]
      <4> DEFINE t == Len(r.tools)
      <4>1. /\ Len(B) = t + 1 /\ Len(D) = t + 1 /\ t \in Nat
            /\ B[t + 1] = r.current /\ D[t + 1] = s.current
            /\ \A i \in 1..t : D[i] = r.tools[i] /\ B[i] = r.tools[i]
        BY <1>5, <3>2, AppendProperties, LenProperties
      <4> HIDE DEF t
      <4>2. t + 1 = M
        BY <1>10, <4>1
      <4> QED
        BY <4>1, <4>2 DEF t
    <3>4. ASSUME NEW i \in 1..M PROVE D[i] = Told(es, i)
      <4>1. CASE i # M
        <5>1. i \in 1..Len(r.tools)
          BY <1>3, <3>3, <4>1
        <5>2. D[i] = Told(ds, i)
          BY <1>10, <3>3, <5>1
        <5>3. Args(es, i) = Args(ds, i)
          BY <1>6, <2>1, <4>1
        <5>4. Told(es, i).name = Told(ds, i).name
          BY <1>9
        <5> QED
          BY <1>12, <5>2, <5>3, <5>4
      <4>2. CASE i = M
        <5>1. r.current = Told(ds, M)
          BY <1>10, <3>3, <4>2
        <5>2. r.current.args = Args(ds, M)
          BY <5>1 DEF Told
        <5>3. Args(es, M) = Args(ds, M) \o ArgsOf(c, M) /\ ArgsOf(c, M) = c.args
          <6>1. ArgsOf(c, M) = c.args
            BY <2>1 DEF ArgsOf
          <6> QED
            BY <6>1, ArgsOfOneMore DEF es
        <5>4. s.current.args = Args(es, M)
          BY <3>1, <5>2, <5>3
        <5>5. s.current.name = Told(es, M).name
          BY <1>5, <1>9, <1>13, <4>2, <5>1
        <5>6. s.current = [name |-> s.current.name, args |-> s.current.args]
          BY <1>5 DEF Call
        <5> QED
          BY <1>12, <3>3, <4>2, <5>4, <5>5, <5>6
      <4> QED
        BY <4>1, <4>2
    <3>5. D = Announced(es)
      <4>1. D = [i \in 1..M |-> D[i]]
        BY <1>5, <3>3, LenProperties
      <4> QED
        BY <1>8, <2>1, <3>4, <4>1
    <3> QED
      BY <1>1, <1>2, <1>5, <1>9, <1>11, <1>13, <2>1, <3>5 DEF Announces, D, E, es, s
  <2> QED
    BY <2>2, <2>3
<1>14. CASE c.name # NoName
  <2>1. E = M + 1 /\ c.index = E /\ E # 0 /\ E \in Nat
    BY <1>3, <1>4, <1>14
  <2>2. D = Append(B, s.current) /\ s.current.args = c.args /\ s.current.name = c.name
    <3>1. s.current.args = c.args
      BY <1>14, WithCallIs DEF s
    <3> QED
      BY <1>5, <1>14, <3>1 DEF D, Lines!Begun
  <2>3. /\ Len(D) = E /\ D[E] = s.current /\ \A i \in 1..M : D[i] = B[i]
    BY <1>5, <1>10, <2>1, <2>2, AppendProperties
  <2>4. IsFirst(es, N + 1, E) /\ N + 1 \in 1..N + 1 /\ FirstOf(es, E) = N + 1
    <3>1. es[N + 1].index = E
      BY <1>1, <2>1
    <3>2. \A m \in 1..N : es[m].index # E
      <4>1. \A m \in 1..N : ds[m].index \in Nat
        <5>1. \A m \in 1..N : ds[m] \in CallDelta
          BY DEF N
        <5>2. \A d \in CallDelta : d.index \in Nat
          BY DEF CallDelta
        <5> QED
          BY <5>1, <5>2
      <4> QED
        BY <1>1, <1>3, <1>4, <2>1, <4>1
    <3>3. IsFirst(es, N + 1, E) /\ N + 1 \in 1..N + 1
      BY <1>1, <3>1, <3>2 DEF IsFirst
    <3> DEFINE last == N + 1
    <3>4. IsFirst(es, last, E) /\ last \in 1..Len(es)
      BY <1>1, <3>3
    <3> HIDE DEF last
    <3>5. FirstOf(es, E) = last
      BY <1>1, <3>4, FirstIs
    <3> QED
      BY <3>3, <3>5 DEF last
  <2>5. ASSUME NEW i \in 1..E PROVE D[i] = Told(es, i)
    <3>1. CASE i # E
      <4>1. i \in 1..M
        BY <1>3, <2>1, <3>1
      <4>2. D[i] = Told(ds, i)
        BY <1>10, <2>3, <4>1
      <4>3. Args(es, i) = Args(ds, i)
        BY <1>6, <2>1, <3>1
      <4>4. Told(es, i).name = Told(ds, i).name
        BY <1>9, <4>1
      <4> QED
        BY <1>12, <4>2, <4>3, <4>4
    <3>2. CASE i = E
      <4>1. Args(ds, E) = <<>>
        BY <1>2, <1>3, <2>1
      <4>2. Args(es, E) = Args(ds, E) \o ArgsOf(c, E) /\ ArgsOf(c, E) = c.args
        <5>1. ArgsOf(c, E) = c.args
          BY <2>1 DEF ArgsOf
        <5> QED
          BY <5>1, ArgsOfOneMore DEF es
      <4>3. <<>> \o c.args = c.args
        BY <1>7, ConcatEmptySeq
      <4>4. s.current.args = Args(es, E)
        BY <2>2, <4>1, <4>2, <4>3
      <4>5. Told(es, E).name = c.name
        BY <1>1, <2>4 DEF Told
      <4>6. s.current = [name |-> s.current.name, args |-> s.current.args]
        BY <1>5 DEF Call
      <4> QED
        BY <1>12, <2>2, <2>3, <3>2, <4>4, <4>5, <4>6
    <3> QED
      BY <3>1, <3>2
  <2>6. D = Announced(es)
    <3>1. D = [i \in 1..E |-> D[i]]
      BY <1>5, <2>3, LenProperties
    <3> QED
      BY <1>8, <2>5, <3>1
  <2>7. \A i \in 1..E : \E n \in 1..N + 1 : IsFirst(es, n, i)
    <3>1. \A i \in 1..E : i = E \/ i \in 1..M
      BY <1>3, <2>1
    <3> QED
      BY <1>9, <2>4, <3>1
  <2> QED
    BY <1>1, <1>11, <1>14, <2>1, <2>2, <2>6, <2>7 DEF Announces, D, E, es, s
<1> QED
  BY <1>13, <1>14

LEMMA OneMoreOfSequence ==
    ASSUME NEW S, NEW s \in Seq(S), NEW k \in 0..Len(s) - 1
    PROVE  /\ SubSeq(s, 1, k) \in Seq(S) /\ s[k + 1] \in S
           /\ SubSeq(s, 1, k + 1) = Append(SubSeq(s, 1, k), s[k + 1])
<1> DEFINE n == k + 1
<1>1. n \in 1..Len(s) /\ n - 1 = k /\ 1 \in 1..Len(s)
  BY LenProperties
<1> HIDE DEF n
<1>2. s[n] \in S /\ SubSeq(s, 1, k) \in Seq(S)
  <2>1. \A i \in 1..k : s[i] \in S
    BY <1>1, LenProperties
  <2> QED
    BY <1>1, <2>1, SubSeqProperties
<1>3. SubSeq(s, 1, n) = SubSeq(s, 1, n - 1) \o <<s[n]>>
  BY <1>1, SubSeqRecursiveSecond
<1>4. SubSeq(s, 1, n) = Append(SubSeq(s, 1, k), s[n])
  BY <1>1, <1>2, <1>3, AppendIsConcat
<1> QED
  BY <1>2, <1>4 DEF n

\* What was gathered from a server whose deltas, so far, are ds.
Gathers(r, ds) ==
    /\ r \in ReplyOf /\ ds \in Seq(CallDelta)
    /\ InOrder(ds) => Announces(r, ds)

LEMMA SameCalls ==
    ASSUME NEW r, NEW ds, Gathers(r, ds),
           NEW s \in ReplyOf, s.tools = r.tools, s.current = r.current
    PROVE  Gathers(s, ds)
BY DEF Gathers, Announces, Lines!Begun

\* CheckTools takes the deltas of a line one after the other.
LEMMA OneMoreLineOfCalls ==
    ASSUME NEW r, NEW ds, Gathers(r, ds), NEW l, l.calls \in Seq(CallDelta)
    PROVE  Gathers(Lines!WithCalls(r, l), ds \o l.calls)
<1> DEFINE calls == l.calls
           K == Len(calls)
           F == [x \in ReplyOf \X (1..K) |-> Lines!WithCall(x[1], calls[x[2]])]
           Is(f) == f = [n \in 0..K |-> IF n = 0 THEN r
                                        ELSE Lines!WithCall(f[n - 1], calls[n])]
<1>1. K \in Nat /\ calls \in Seq(CallDelta) /\ \A n \in 1..K : calls[n] \in CallDelta
  BY LenProperties
<1>2. r \in ReplyOf /\ ds \in Seq(CallDelta)
  BY DEF Gathers
<1> HIDE DEF calls, K
<1>3. F \in [ReplyOf \X (1..K) -> ReplyOf]
  <2>1. ASSUME NEW x \in ReplyOf \X (1..K)
        PROVE  Lines!WithCall(x[1], calls[x[2]]) \in ReplyOf
    <3>1. x[1] \in ReplyOf /\ calls[x[2]] \in CallDelta
      BY <1>1
    <3> QED
      BY <3>1, WithCallIs
  <2> QED
    BY <2>1
<1>4. PICK f \in [0..K -> ReplyOf] : Leads(f, r, F, K)
  <2> HIDE DEF F
  <2> QED
    BY <1>1, <1>2, <1>3, StepsLead
<1>5. f[0] = r /\ \A n \in 1..K : f[n] = Lines!WithCall(f[n - 1], calls[n])
  <2>1. ASSUME NEW n \in 1..K PROVE f[n] = Lines!WithCall(f[n - 1], calls[n])
    <3>1. n - 1 \in 0..K
      BY <1>1
    <3>2. f[n - 1] \in ReplyOf
      BY <3>1
    <3>3. F[<<f[n - 1], n>>] = Lines!WithCall(f[n - 1], calls[n])
      BY <3>2
    <3> HIDE DEF F
    <3> QED
      BY <1>4, <3>3 DEF Leads
  <2> QED
    BY <1>4, <2>1 DEF Leads
<1> HIDE DEF F
<1>6. Lines!WithCalls(r, l) = f[K]
  <2>1. Is(f)
    <3>1. \A n \in 0..K : n = 0 \/ n \in 1..K
      BY <1>1
    <3> QED
      BY <1>5, <3>1
  <2>2. \E k : Is(k)
    BY <2>1
  <2>3. PICK k : Is(k) /\ Lines!WithCalls(r, l) = k[K]
    BY <2>2 DEF Lines!WithCalls, K, calls
  <2>4. k[0] = r /\ \A n \in 1..K : k[n] = Lines!WithCall(k[n - 1], calls[n])
    <3>1. 0 \in 0..K /\ \A n \in 1..K : n \in 0..K /\ n # 0
      BY <1>1
    <3> QED
      BY <2>3, <3>1
  <2>5. Alike(k, f, K)
    BY <1>5, <2>4 DEF Alike
  <2>6. K \in 0..K
    BY <1>1
  <2> QED
    BY <1>1, <2>3, <2>5, <2>6, SameSteps
<1> DEFINE Good == {k \in 0..K : Gathers(f[k], ds \o SubSeq(calls, 1, k))}
<1>7. 0 \in Good
  <2>1. SubSeq(calls, 1, 0) = <<>>
    BY SubSeqEmpty
  <2>2. ds \o <<>> = ds
    BY <1>2, ConcatEmptySeq
  <2>3. 0 \in 0..K
    BY <1>1
  <2> QED
    BY <1>5, <2>1, <2>2, <2>3
<1>8. ASSUME NEW k \in 0..K - 1, k \in Good PROVE k + 1 \in Good
  <2> DEFINE n == k + 1
             p == SubSeq(calls, 1, k)
             e == ds \o p
  <2>1. n \in 1..K /\ n - 1 = k /\ k \in 0..K /\ n \in 0..K
    BY <1>1
  <2>2. p \in Seq(CallDelta) /\ calls[n] \in CallDelta /\ SubSeq(calls, 1, n) = Append(p, calls[n])
    BY <1>1, OneMoreOfSequence DEF K
  <2>3. Gathers(f[k], e)
    BY <1>8
  <2> HIDE DEF n, p
  <2>4. e \in Seq(CallDelta)
    BY <1>2, <2>2, ConcatProperties
  <2>5. ds \o SubSeq(calls, 1, n) = Append(e, calls[n])
    <3>1. <<calls[n]>> \in Seq(CallDelta)
      BY <2>2
    <3>2. Append(p, calls[n]) = p \o <<calls[n]>>
      BY <2>2, AppendIsConcat
    <3>3. Append(e, calls[n]) = e \o <<calls[n]>>
      BY <2>2, <2>4, AppendIsConcat
    <3>4. (ds \o p) \o <<calls[n]>> = ds \o (p \o <<calls[n]>>)
      BY <1>2, <2>2, <3>1, ConcatAssociative
    <3> QED
      BY <2>2, <3>2, <3>3, <3>4
  <2> HIDE DEF e
  <2>6. f[n] = Lines!WithCall(f[k], calls[n])
    BY <1>5, <2>1
  <2>7. Gathers(f[n], Append(e, calls[n]))
    <3>1. f[k] \in ReplyOf
      BY <2>1
    <3>2. f[n] \in ReplyOf
      BY <2>1
    <3>3. Append(e, calls[n]) \in Seq(CallDelta)
      BY <2>2, <2>4, AppendProperties
    <3>4. ASSUME InOrder(Append(e, calls[n])) PROVE Announces(f[n], Append(e, calls[n]))
      <4>1. InOrder(e)
        BY <2>2, <2>4, <3>4, OneMoreInOrder
      <4>2. Announces(f[k], e)
        BY <2>3, <4>1 DEF Gathers
      <4> QED
        BY <2>2, <2>4, <2>6, <3>1, <3>4, <4>2, OneMoreDelta
    <3> QED
      BY <3>2, <3>3, <3>4 DEF Gathers
  <2>8. n \in Good
    BY <2>1, <2>5, <2>7
  <2> HIDE DEF Good
  <2> QED
    BY <2>8 DEF n
<1>9. 0..K \subseteq Good
  <2> HIDE DEF Good
  <2> QED
    BY <1>1, <1>7, <1>8, StepByStep
<1>10. K \in Good
  <2> HIDE DEF Good
  <2> QED
    BY <1>1, <1>9
<1>11. SubSeq(calls, 1, K) = calls
  BY <1>1, SubSeqFull DEF K
<1> QED
  BY <1>6, <1>10, <1>11 DEF calls

\* ProcessChunk takes the calls of a line, whatever else the line has.
LEMMA OneMoreLine ==
    ASSUME NEW r, NEW ds, Gathers(r, ds), NEW l \in ServerLine
    PROVE  Gathers(Lines!Processed(r, l), ds \o CallsOf(l))
<1>1. r \in ReplyOf /\ ds \in Seq(CallDelta) /\ ds \o <<>> = ds
  BY ConcatEmptySeq DEF Gathers
<1>2. CASE l.kind = "data"
  <2>1. l.think \in Seq(STRING) /\ l.text \in Seq(STRING) /\ l.calls \in Seq(CallDelta)
    BY <1>2 DEF ServerLine
  <2> DEFINE t == Lines!WithReasoning(r, l)
             s == Lines!WithMessage(t, l)
  <2>2. t \in ReplyOf /\ t.tools = r.tools /\ t.current = r.current
    <3> DEFINE a == r.reasoning \o l.think
    <3>1. a \in Seq(STRING)
      BY <1>1, <2>1, ConcatProperties DEF ReplyOf
    <3>2. t = IF r.thinking THEN [r EXCEPT !.reasoning = a] ELSE r
      BY DEF Lines!WithReasoning
    <3> HIDE DEF a, t
    <3> QED
      BY <1>1, <3>1, <3>2 DEF ReplyOf
  <2> HIDE DEF t
  <2>3. s \in ReplyOf /\ s.tools = t.tools /\ s.current = t.current
    <3> DEFINE a == t.message \o l.text
               b == t.thinking /\ l.text = <<>>
    <3>1. a \in Seq(STRING)
      BY <2>1, <2>2, ConcatProperties DEF ReplyOf
    <3>2. b \in BOOLEAN
      OBVIOUS
    <3>3. s = [t EXCEPT !.message = a, !.thinking = b]
      BY DEF Lines!WithMessage
    <3> HIDE DEF a, b, s
    <3> QED
      BY <2>2, <3>1, <3>2, <3>3 DEF ReplyOf
  <2> HIDE DEF s
  <2>4. Gathers(s, ds)
    BY <2>2, <2>3, SameCalls
  <2>5. Lines!Processed(r, l) = Lines!WithCalls(s, l) /\ CallsOf(l) = l.calls
    BY <1>2 DEF Lines!Processed, CallsOf, s, t
  <2> QED
    BY <2>1, <2>4, <2>5, OneMoreLineOfCalls
<1>3. CASE l.kind # "data"
  <2> DEFINE s == Lines!Processed(r, l)
  <2>1. s = [r EXCEPT !.failed = TRUE] \/ s = r
    BY <1>3 DEF Lines!Processed
  <2>2. CallsOf(l) = <<>>
    BY <1>3 DEF CallsOf
  <2> HIDE DEF s
  <2>3. s \in ReplyOf /\ s.tools = r.tools /\ s.current = r.current
    BY <1>1, <2>1 DEF ReplyOf
  <2>4. Gathers(s, ds)
    BY <2>3, SameCalls
  <2> QED
    BY <1>1, <2>2, <2>4 DEF s
<1> QED
  BY <1>2, <1>3

LEMMA NothingGathered == Gathers(Lines!Nothing, <<>>)
<1> DEFINE r == Lines!Nothing
<1>1. /\ r \in ReplyOf /\ r.current.name = NoName /\ r.tools = <<>>
  BY DEF Lines!Nothing, Lines!NoCall, ReplyOf, Call
<1>2. Lines!Begun(r) = <<>>
  BY <1>1 DEF Lines!Begun
<1>3. Len(<<>>) = 0 /\ <<>> \in Seq(CallDelta)
  OBVIOUS
<1>4. Named(<<>>, 0) = 0
  BY FS_EmptySet DEF Named
<1>5. Announced(<<>>) = <<>>
  BY <1>3, <1>4 DEF Announced
<1> HIDE DEF r
<1>6. Announces(r, <<>>)
  BY <1>1, <1>2, <1>3, <1>4, <1>5, NoArgs DEF Announces
<1> QED
  BY <1>1, <1>3, <1>6 DEF Gathers, r

\* After every line the calls gathered are those of its deltas.
LEMMA GatheredCalls ==
    ASSUME lines \in Seq(ServerLine)
    PROVE  \A n \in 0..Len(lines) :
                Gathers(Lines!Gathered(lines)[n], Deltas(SubSeq(lines, 1, n)))
<1> DEFINE N == Len(lines)
           G == Lines!Gathered(lines)
           Good == {n \in 0..N : Gathers(G[n], Deltas(SubSeq(lines, 1, n)))}
<1>1. N \in Nat
  BY LenProperties
<1>2. G[0] = Lines!Nothing /\ \A n \in 1..N : G[n] = Lines!Processed(G[n - 1], lines[n])
  BY <1>1, GatheredIs
<1> HIDE DEF N, G
<1>3. 0 \in Good
  <2>1. SubSeq(lines, 1, 0) = <<>>
    BY SubSeqEmpty
  <2>2. 0 \in 0..N
    BY <1>1
  <2> QED
    BY <1>2, <2>1, <2>2, NoDeltas, NothingGathered
<1>4. ASSUME NEW n \in 0..N - 1, n \in Good PROVE n + 1 \in Good
  <2> DEFINE k == n + 1
             p == SubSeq(lines, 1, n)
  <2>1. k \in 1..N /\ k - 1 = n /\ k \in 0..N
    BY <1>1
  <2>2. /\ p \in Seq(ServerLine) /\ lines[k] \in ServerLine
        /\ SubSeq(lines, 1, k) = Append(p, lines[k])
    BY <1>1, OneMoreOfSequence DEF N
  <2>3. Gathers(G[n], Deltas(p))
    BY <1>4
  <2> HIDE DEF k, p
  <2>4. G[k] = Lines!Processed(G[n], lines[k])
    BY <1>2, <2>1
  <2>5. Deltas(SubSeq(lines, 1, k)) = Deltas(p) \o CallsOf(lines[k])
    BY <2>2, DeltasOfOneMore
  <2>6. Gathers(G[k], Deltas(SubSeq(lines, 1, k)))
    BY <2>2, <2>3, <2>4, <2>5, OneMoreLine
  <2>7. k \in Good
    BY <2>1, <2>6
  <2> HIDE DEF Good
  <2> QED
    BY <2>7 DEF k
<1>5. 0..N \subseteq Good
  <2> HIDE DEF Good
  <2> QED
    BY <1>1, <1>3, <1>4, StepByStep
<1> QED
  BY <1>5 DEF N, G

\* For a server that finishes a call before it begins the next, the tools that
\* run are those it called, with their own and whole arguments, wherever the
\* reply was cut off (ChunkCompletionProcessor::CheckTools, GetResponseTools).
THEOREM ToolsAreTheServers == Spec => []CallsAreTheServers
<1>1. Init => StreamInv
  BY InvInit
<1>2. StreamInv /\ [Next]_vars => StreamInv'
  BY InvNext
<1>3. StreamInv => CallsAreTheServers
  <2> SUFFICES ASSUME StreamInv PROVE CallsAreTheServers
    OBVIOUS
  <2> DEFINE seen == Deltas(SubSeq(lines, 1, taken))
  <2>1. lines \in Seq(ServerLine)
    BY StreamAssumption DEF StreamInv
  <2>2. taken \in 0..Len(lines) /\ reply = Lines!Gathered(lines)[taken]
    BY DEF StreamInv
  <2>3. Gathers(reply, seen)
    BY <2>1, <2>2, GatheredCalls
  <2> HIDE DEF seen
  <2>4. InOrder(seen) => Lines!Begun(reply) = Announced(seen)
    BY <2>3 DEF Gathers, Announces
  <2>5. InOrder(seen) => Handed(reply) = SelectSeq(Announced(seen), IsWhole)
    BY <2>4 DEF Handed
  <2> QED
    BY <2>5 DEF CallsAreTheServers, seen
<1> QED
  BY <1>1, <1>2, <1>3, PTL DEF Spec

=============================================================================
