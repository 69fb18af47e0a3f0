-------------------------- MODULE TranscriptProofs --------------------------
(***************************************************************************)
(* For texts of any characters and length, any windows and any number of   *)
(* operations: rendering what changed gives what rendering everything      *)
(* would, hidden reasoning is not shown, and the newest text is in view.   *)
(***************************************************************************)
EXTENDS Transcript, SequenceTheorems, WellFoundedInduction, TLAPS

-----------------------------------------------------------------------------
(***************************************************************************)
(* Smallest and largest elements.                                          *)
(***************************************************************************)

LEMMA SmallestNat ==
    ASSUME NEW T, T \subseteq Nat, T # {}
    PROVE  \E x \in T : \A y \in T : x <= y
<1> DEFINE R == OpToRel(<, Nat)
<1>1. IsWellFoundedOn(R, Nat)
  BY NatLessThanWellFounded
<1>2. \A x, y \in Nat : <<x, y>> \in R <=> x < y
  BY DEF OpToRel
<1> HIDE DEF R
<1>3. PICK x \in T : \A y \in T : ~(<<y, x>> \in R)
  BY <1>1, WFMin
<1>4. \A y \in T : ~(y < x)
  BY <1>2, <1>3
<1> QED
  BY <1>4

\* What holds for 0, and for n + 1 when it holds for n, holds for all.
LEMMA StepByStep ==
    ASSUME NEW Good, NEW last \in Nat, 0 \in Good,
           \A n \in 0..last - 1 : n \in Good => n + 1 \in Good
    PROVE  0..last \subseteq Good
<1> DEFINE Bad == {n \in Nat : n <= last /\ n \notin Good}
<1>1. CASE Bad = {}
  BY <1>1
<1>2. CASE Bad # {}
  <2>1. Bad \subseteq Nat
    OBVIOUS
  <2>2. PICK x \in Bad : \A y \in Bad : x <= y
    <3> HIDE DEF Bad
    <3> QED
      BY <1>2, <2>1, SmallestNat
  <2>3. x \in Nat /\ x <= last /\ x \notin Good /\ x # 0
    OBVIOUS
  <2>4. x - 1 \in 0..last - 1 /\ x - 1 + 1 = x /\ x - 1 \notin Bad
    BY <2>2, <2>3
  <2>5. x - 1 \in Good
    BY <2>4
  <2> QED
    BY <2>3, <2>4, <2>5
<1> QED
  BY <1>1, <1>2

LEMMA LargestIsMax ==
    ASSUME NEW T, T \subseteq Nat, T # {}, NEW n \in Nat, \A x \in T : x <= n
    PROVE  Max(T) \in T /\ \A y \in T : Max(T) >= y
<1> DEFINE D == {n - x : x \in T}
<1>1. D \subseteq Nat /\ D # {}
  <2>1. \A x \in T : n - x \in Nat
    OBVIOUS
  <2>2. \E x \in T : n - x \in D
    OBVIOUS
  <2> QED
    BY <2>1, <2>2
<1>2. PICK d \in D : \A y \in D : d <= y
  <2> HIDE DEF D
  <2> QED
    BY <1>1, SmallestNat
<1>3. PICK x \in T : d = n - x
  OBVIOUS
<1>4. \A y \in T : x >= y
  <2> TAKE y \in T
  <2>1. n - y \in D
    OBVIOUS
  <2>2. n - x <= n - y
    BY <1>2, <1>3, <2>1
  <2> QED
    BY <2>2
<1> QED
  BY <1>4 DEF Max

LEMMA LargerOfTwo ==
    ASSUME NEW a \in Int, NEW b \in Int
    PROVE  /\ Max({a, b}) = IF a >= b THEN a ELSE b
           /\ Min({a, b}) = IF a <= b THEN a ELSE b
BY DEF Max, Min

-----------------------------------------------------------------------------
(***************************************************************************)
(* FlattenSeq.                                                             *)
(***************************************************************************)

\* f are the concatenations of the first sequences of s, up to n.
Gathers(f, s, n) == \A i \in 1..n : f[i] = IF i = 1 THEN s[i] ELSE f[i - 1] \o s[i]

LEMMA GathersOnce ==
    ASSUME NEW s, NEW f, NEW g, NEW last \in Nat, Gathers(f, s, last), Gathers(g, s, last)
    PROVE  \A n \in 1..last : f[n] = g[n]
<1> DEFINE Good == {n \in Nat : n = 0 \/ f[n] = g[n]}
<1>1. ASSUME NEW n \in 0..last - 1, n \in Good PROVE n + 1 \in Good
  <2>1. /\ n + 1 \in 1..last /\ n + 1 - 1 = n /\ n + 1 # 0
        /\ n + 1 # 1 => n # 0
    OBVIOUS
  <2>2. /\ f[n + 1] = IF n + 1 = 1 THEN s[n + 1] ELSE f[n] \o s[n + 1]
        /\ g[n + 1] = IF n + 1 = 1 THEN s[n + 1] ELSE g[n] \o s[n + 1]
    BY <2>1 DEF Gathers
  <2>3. n + 1 # 1 => f[n] = g[n]
    BY <1>1, <2>1
  <2>4. f[n + 1] = g[n + 1]
    BY <2>2, <2>3
  <2> QED
    BY <2>1, <2>4
<1>2. 0 \in Good
  OBVIOUS
<1> HIDE DEF Good
<1>3. 0..last \subseteq Good
  BY <1>1, <1>2, StepByStep
<1>4. \A n \in 1..last : n \in Good /\ n # 0
  BY <1>3
<1> QED
  BY <1>4 DEF Good

LEMMA SomeGathers ==
    ASSUME NEW T, NEW s \in Seq(Seq(T))
    PROVE  \E f \in [1..Len(s) -> Seq(T)] : Gathers(f, s, Len(s))
<1> DEFINE G(n) == {f \in [1..n -> Seq(T)] : Gathers(f, s, n)}
           Good == {n \in Nat : G(n) # {}}
<1>0. Len(s) \in Nat /\ \A i \in 1..Len(s) : s[i] \in Seq(T)
  BY LenProperties, ElementOfSeq
<1>1. 0 \in Good
  <2>1. [i \in 1..0 |-> <<>>] \in G(0)
    BY DEF Gathers
  <2> QED
    BY <2>1
<1>2. ASSUME NEW n \in 0..Len(s) - 1, n \in Good PROVE n + 1 \in Good
  <2>1. PICK f \in [1..n -> Seq(T)] : Gathers(f, s, n)
    BY <1>2
  <2> DEFINE g == [i \in 1..n + 1 |-> IF i <= n THEN f[i]
                                      ELSE IF n = 0 THEN s[1] ELSE f[n] \o s[n + 1]]
  <2>2. n + 1 \in 1..Len(s) /\ 1 \in 1..Len(s) /\ n \in Nat
    BY <1>0, <1>2
  <2>3. s[1] \in Seq(T) /\ s[n + 1] \in Seq(T)
    BY <1>0, <2>2
  <2>4. n # 0 => f[n] \in Seq(T)
    BY <2>2
  <2>5. n # 0 => f[n] \o s[n + 1] \in Seq(T)
    BY <2>3, <2>4, ConcatProperties
  <2>6. g \in [1..n + 1 -> Seq(T)]
    BY <2>2, <2>3, <2>5
  <2>7. Gathers(g, s, n + 1)
    <3> SUFFICES ASSUME NEW i \in 1..n + 1
                 PROVE  g[i] = IF i = 1 THEN s[i] ELSE g[i - 1] \o s[i]
      BY DEF Gathers
    <3>1. CASE i \in 1..n
      <4>1. f[i] = IF i = 1 THEN s[i] ELSE f[i - 1] \o s[i]
        BY <2>1, <3>1 DEF Gathers
      <4>2. g[i] = f[i] /\ (i # 1 => g[i - 1] = f[i - 1])
        BY <2>2, <3>1
      <4> QED
        BY <4>1, <4>2
    <3>2. CASE i = n + 1
      <4>1. g[i] = IF n = 0 THEN s[1] ELSE f[n] \o s[n + 1]
        BY <2>2, <3>2
      <4>2. n # 0 => g[n] = f[n]
        BY <2>2
      <4>3. i - 1 = n /\ (i = 1 <=> n = 0)
        BY <2>2, <3>2
      <4> QED
        BY <3>2, <4>1, <4>2, <4>3
    <3> QED
      BY <2>2, <3>1, <3>2
  <2>8. g \in G(n + 1)
    BY <2>6, <2>7
  <2>9. n + 1 \in Nat /\ G(n + 1) # {}
    <3> HIDE DEF g, G
    <3> QED
      BY <2>2, <2>8
  <2> QED
    <3> HIDE DEF G
    <3> QED
      BY <2>9
<1> HIDE DEF Good
<1>3. 0..Len(s) \subseteq Good
  BY <1>0, <1>1, <1>2, StepByStep
<1>4. Len(s) \in Good
  BY <1>0, <1>3
<1> QED
  BY <1>4 DEF Good

\* What FlattenSeq returns is the last of these concatenations.
LEMMA FlattenGathers ==
    ASSUME NEW T, NEW s \in Seq(Seq(T)), NEW g, Gathers(g, s, Len(s))
    PROVE  /\ Len(s) = 0 => FlattenSeq(s) = <<>>
           /\ Len(s) # 0 => FlattenSeq(s) = g[Len(s)] /\ FlattenSeq(s) \in Seq(T)
<1>1. Len(s) \in Nat /\ (Len(s) = 0 => s = <<>>)
  BY LenProperties, EmptySeq
<1>2. PICK h \in [1..Len(s) -> Seq(T)] : Gathers(h, s, Len(s))
  BY SomeGathers
<1>3. h = [i \in 1..Len(s) |-> IF i = 1 THEN s[i] ELSE h[i - 1] \o s[i]]
  BY <1>2 DEF Gathers
<1>4. \E f : f = [i \in 1..Len(s) |-> IF i = 1 THEN s[i] ELSE f[i - 1] \o s[i]]
  BY <1>3
<1>5. PICK f : /\ f = [i \in 1..Len(s) |-> IF i = 1 THEN s[i] ELSE f[i - 1] \o s[i]]
               /\ FlattenSeq(s) = IF Len(s) = 0 THEN s ELSE f[Len(s)]
  BY <1>4 DEF FlattenSeq
<1>6. Gathers(f, s, Len(s))
  BY <1>5 DEF Gathers
<1>7. \A n \in 1..Len(s) : f[n] = g[n] /\ f[n] = h[n]
  BY <1>1, <1>2, <1>6, GathersOnce
<1>8. Len(s) # 0 => Len(s) \in 1..Len(s) /\ h[Len(s)] \in Seq(T)
  <2>1. Len(s) # 0 => Len(s) \in 1..Len(s)
    BY <1>1
  <2>2. \A i \in 1..Len(s) : h[i] \in Seq(T)
    BY <1>2
  <2> QED
    BY <2>1, <2>2
<1>9. Len(s) # 0 => f[Len(s)] = g[Len(s)] /\ f[Len(s)] = h[Len(s)]
  BY <1>7, <1>8
<1> QED
  BY <1>1, <1>5, <1>8, <1>9

LEMMA FlattenIsSeq ==
    ASSUME NEW T, NEW s \in Seq(Seq(T))
    PROVE  FlattenSeq(s) \in Seq(T)
<1>1. PICK f \in [1..Len(s) -> Seq(T)] : Gathers(f, s, Len(s))
  BY SomeGathers
<1>2. <<>> \in Seq(T)
  BY EmptySeq
<1> QED
  BY <1>1, <1>2, FlattenGathers

LEMMA FlattenAppend ==
    ASSUME NEW T, NEW s \in Seq(Seq(T)), NEW x \in Seq(T)
    PROVE  FlattenSeq(Append(s, x)) = FlattenSeq(s) \o x
<1> DEFINE n == Len(s)
           t == Append(s, x)
<1>1. /\ n \in Nat /\ t \in Seq(Seq(T)) /\ Len(t) = n + 1
      /\ \A i \in 1..n : t[i] = s[i]
      /\ t[n + 1] = x
  BY AppendProperties, LenProperties
<1> HIDE DEF t
<1>2. PICK g : Gathers(g, t, n + 1)
  BY <1>1, SomeGathers
<1>3. Gathers(g, s, n)
  <2>1. \A i \in 1..n : i \in 1..n + 1
    BY <1>1
  <2> QED
    BY <1>1, <1>2, <2>1 DEF Gathers
<1>4. n + 1 \in 1..n + 1 /\ n + 1 - 1 = n /\ n + 1 # 0 /\ (n # 0 => n + 1 # 1)
  BY <1>1
<1>5. g[n + 1] = IF n + 1 = 1 THEN t[n + 1] ELSE g[n] \o t[n + 1]
  <2>0. n \in Nat
    BY <1>1
  <2> HIDE DEF n
  <2>1. PICK i \in 1..n + 1 : i = n + 1 /\ i - 1 = n
    BY <2>0
  <2>2. g[i] = IF i = 1 THEN t[i] ELSE g[i - 1] \o t[i]
    BY <1>2 DEF Gathers
  <2> QED
    BY <2>1, <2>2, Zenon
<1>6. FlattenSeq(t) = g[n + 1]
  <2>1. t \in Seq(Seq(T)) /\ Gathers(g, t, Len(t)) /\ Len(t) # 0 /\ Len(t) = n + 1
    BY <1>1, <1>2, <1>4
  <2> HIDE DEF n
  <2> QED
    BY <2>1, FlattenGathers
<1>7. CASE n = 0
  <2>1. FlattenSeq(s) = <<>>
    BY <1>3, <1>7, FlattenGathers
  <2>2. FlattenSeq(t) = x
    BY <1>1, <1>5, <1>6, <1>7
  <2> QED
    BY <2>1, <2>2, ConcatEmptySeq DEF t
<1>8. CASE n # 0
  <2>1. FlattenSeq(s) = g[n]
    BY <1>3, <1>8, FlattenGathers
  <2> QED
    BY <1>1, <1>4, <1>5, <1>6, <1>8, <2>1 DEF t
<1> QED
  BY <1>7, <1>8

-----------------------------------------------------------------------------
(***************************************************************************)
(* SplitText.                                                              *)
(***************************************************************************)

\* A line ends where it begins, or later, and within the text.
LEMMA LineEndsInText ==
    ASSUME NEW T, NEW txt \in Seq(T), NEW i \in 1..Len(txt), NEW width \in Nat \ {0},
           txt[i] # "nl"
    PROVE  LineEnd(txt, i, width) \in i..Len(txt)
<1> DEFINE reach  == {j \in i..Len(txt) : j < i + width /\ \A k \in i..j : txt[k] # "nl"}
           breaks == {k \in reach : txt[k] \in BreakChars}
<1>1. Len(txt) \in Nat
  BY LenProperties
<1>2. reach \subseteq i..Len(txt) /\ breaks \subseteq reach
  OBVIOUS
<1>3. i \in reach
  BY <1>1
<1>4. \A T1 \in SUBSET reach : T1 # {} => Max(T1) \in T1
  <2> TAKE T1 \in SUBSET reach
  <2> HAVE T1 # {}
  <2>1. T1 \subseteq Nat /\ \A x \in T1 : x <= Len(txt)
    BY <1>1, <1>2
  <2> HIDE DEF reach
  <2> QED
    BY <1>1, <2>1, LargestIsMax
<1>5. LineEnd(txt, i, width) =
        IF (Max(reach) = Len(txt) \/ Max(reach) < i + width - 1) \/ breaks = {}
        THEN Max(reach) ELSE Max(breaks)
  BY DEF LineEnd
<1> HIDE DEF reach, breaks
<1>6. Max(reach) \in reach /\ (breaks # {} => Max(breaks) \in breaks)
  BY <1>2, <1>3, <1>4
<1> QED
  BY <1>2, <1>5, <1>6

\* What begins at i is split into lines, and what follows the line as well.
Splits(f, txt, width, i) ==
    f[i] = IF i > Len(txt) THEN <<>>
           ELSE IF txt[i] = "nl" THEN f[i + 1]
           ELSE <<SubSeq(txt, i, LineEnd(txt, i, width))>> \o f[LineEnd(txt, i, width) + 1]

\* Where what follows i is split, what begins at i can be.
LEMMA SplitBefore ==
    ASSUME NEW T, NEW txt \in Seq(T), NEW width \in Nat \ {0}, NEW i \in 1..Len(txt), NEW f,
           \A j \in i + 1..Len(txt) + 1 : f[j] \in Seq(Seq(T))
    PROVE  (IF txt[i] = "nl" THEN f[i + 1]
            ELSE <<SubSeq(txt, i, LineEnd(txt, i, width))>> \o f[LineEnd(txt, i, width) + 1])
               \in Seq(Seq(T))
<1>1. Len(txt) \in Nat /\ i \in Nat
  BY LenProperties
<1>2. CASE txt[i] = "nl"
  <2>1. i + 1 \in i + 1..Len(txt) + 1
    BY <1>1
  <2> QED
    BY <1>2, <2>1
<1>3. CASE txt[i] # "nl"
  <2> DEFINE end == LineEnd(txt, i, width)
  <2>1. end \in i..Len(txt)
    BY <1>3, LineEndsInText
  <2> HIDE DEF end
  <2>2. end + 1 \in i + 1..Len(txt) + 1
    BY <1>1, <2>1
  <2>3. f[end + 1] \in Seq(Seq(T))
    BY <2>2
  <2>4. SubSeq(txt, i, end) \in Seq(T)
    <3>1. \A j \in i..end : txt[j] \in T
      BY <1>1, <2>1, ElementOfSeq
    <3> QED
      BY <1>1, <2>1, <3>1, SubSeqProperties
  <2>5. <<SubSeq(txt, i, end)>> \in Seq(Seq(T))
    <3> DEFINE u == SubSeq(txt, i, end)
    <3> HIDE DEF u
    <3>1. \A S : u \in S => <<u>> \in Seq(S)
      OBVIOUS
    <3> QED
      BY <2>4, <3>1 DEF u
  <2>6. <<SubSeq(txt, i, end)>> \o f[end + 1] \in Seq(Seq(T))
    BY <2>3, <2>5, ConcatProperties
  <2> QED
    BY <1>3, <2>6 DEF end
<1> QED
  BY <1>2, <1>3

\* There is such a split.
LEMMA SomeSplit ==
    ASSUME NEW T, NEW txt \in Seq(T), NEW width \in Nat \ {0}
    PROVE  \E f \in [1..Len(txt) + 1 -> Seq(Seq(T))] :
               \A i \in 1..Len(txt) + 1 : Splits(f, txt, width, i)
<1> DEFINE n == Len(txt)
           G(k) == {f \in [n + 1 - k..n + 1 -> Seq(Seq(T))] :
                        \A i \in n + 1 - k..n + 1 : Splits(f, txt, width, i)}
           Good == {k \in Nat : G(k) # {}}
<1>1. n \in Nat
  BY LenProperties
<1>2. <<>> \in Seq(Seq(T))
  BY EmptySeq
<1> HIDE DEF n
<1>3. 0 \in Good
  <2> DEFINE f == [i \in n + 1..n + 1 |-> <<>>]
  <2>1. n + 1 - 0 = n + 1 /\ \A i \in n + 1..n + 1 : i > n
    BY <1>1
  <2>2. f \in [n + 1..n + 1 -> Seq(Seq(T))]
    BY <1>2
  <2>3. \A i \in n + 1..n + 1 : f[i] = <<>>
    OBVIOUS
  <2> HIDE DEF f
  <2>4. \A i \in n + 1..n + 1 : Splits(f, txt, width, i)
    BY <2>1, <2>3 DEF Splits, n
  <2>5. f \in G(0)
    BY <2>1, <2>2, <2>4
  <2> HIDE DEF G
  <2> QED
    BY <2>5
<1>4. ASSUME NEW k \in 0..n - 1, k \in Good PROVE k + 1 \in Good
  <2> DEFINE m == n - k
  <2>1. /\ m \in 1..n /\ n + 1 - k = m + 1 /\ n + 1 - (k + 1) = m /\ k + 1 \in Nat
        /\ \A j \in m..n + 1 : j = m \/ j \in m + 1..n + 1
        /\ \A j \in m + 1..n + 1 : j \in m..n + 1 /\ j # m /\ j \in Int
        /\ \A j \in m + 1..n : j + 1 \in m + 1..n + 1
    BY <1>1
  <2> HIDE DEF m
  <2>2. PICK f : f \in G(k)
    <3> HIDE DEF G
    <3> QED
      BY <1>4
  <2>3. /\ f \in [m + 1..n + 1 -> Seq(Seq(T))]
        /\ \A i \in m + 1..n + 1 : Splits(f, txt, width, i)
    BY <2>1, <2>2
  <2> DEFINE here == IF txt[m] = "nl" THEN f[m + 1]
                     ELSE <<SubSeq(txt, m, LineEnd(txt, m, width))>>
                              \o f[LineEnd(txt, m, width) + 1]
             g == [i \in m..n + 1 |-> IF i = m THEN here ELSE f[i]]
  <2>4. here \in Seq(Seq(T))
    <3>1. \A j \in m + 1..n + 1 : f[j] \in Seq(Seq(T))
      BY <2>3
    <3> QED
      BY <2>1, <3>1, SplitBefore DEF n
  <2>5. g \in [m..n + 1 -> Seq(Seq(T))]
    <3> HIDE DEF here
    <3> QED
      BY <2>1, <2>3, <2>4
  <2>6. g[m] = here /\ \A j \in m + 1..n + 1 : g[j] = f[j]
    <3>1. m \in m..n + 1
      BY <1>1, <2>1
    <3> HIDE DEF here
    <3> QED
      BY <2>1, <3>1
  <2> HIDE DEF g
  <2>7. \A i \in 1..n : i >= m /\ txt[i] # "nl"
                            => LineEnd(txt, i, width) + 1 \in m + 1..n + 1
    <3> TAKE i \in 1..n
    <3> HAVE i >= m /\ txt[i] # "nl"
    <3>1. LineEnd(txt, i, width) \in i..n
      BY LineEndsInText DEF n
    <3> QED
      BY <1>1, <2>1, <3>1
  <2>8. \A i \in m..n + 1 : Splits(g, txt, width, i)
    <3> TAKE i \in m..n + 1
    <3>1. CASE i = m
      <4>1. ~(m > n) /\ m + 1 \in m + 1..n + 1 /\ m >= m
        BY <1>1, <2>1
      <4>2. g[m + 1] = f[m + 1]
        BY <2>6, <4>1
      <4>3. txt[m] # "nl" => g[LineEnd(txt, m, width) + 1] = f[LineEnd(txt, m, width) + 1]
        BY <2>1, <2>6, <2>7, <4>1
      <4> QED
        BY <2>6, <3>1, <4>1, <4>2, <4>3 DEF Splits, n
    <3>2. CASE i \in m + 1..n + 1
      <4>1. Splits(f, txt, width, i) /\ g[i] = f[i]
        BY <2>3, <2>6, <3>2
      <4>2. i > n \/ (i \in 1..n /\ i >= m /\ i + 1 \in m + 1..n + 1)
        BY <1>1, <2>1, <3>2
      <4>3. CASE i > n
        BY <4>1, <4>3 DEF Splits, n
      <4>4. CASE ~(i > n)
        <5>1. g[i + 1] = f[i + 1]
          BY <2>6, <4>2, <4>4
        <5>2. txt[i] # "nl" => g[LineEnd(txt, i, width) + 1] = f[LineEnd(txt, i, width) + 1]
          BY <2>6, <2>7, <4>2, <4>4
        <5> QED
          BY <4>1, <4>4, <5>1, <5>2 DEF Splits, n
      <4> QED
        BY <4>3, <4>4
    <3> QED
      BY <2>1, <3>1, <3>2
  <2>9. g \in G(k + 1)
    BY <2>1, <2>5, <2>8
  <2> HIDE DEF G
  <2> QED
    BY <2>1, <2>9
<1>5. n \in Good
  <2> HIDE DEF Good
  <2>1. 0..n \subseteq Good
    BY <1>1, <1>3, <1>4, StepByStep
  <2> QED
    BY <1>1, <2>1
<1>6. n + 1 - n = 1
  BY <1>1
<1>7. PICK f : f \in G(n)
  <2> HIDE DEF G
  <2> QED
    BY <1>5
<1> QED
  BY <1>6, <1>7 DEF n

\* The lines of a text are sequences of its characters.
LEMMA SplitTextIsLines ==
    ASSUME NEW T, NEW txt \in Seq(T), NEW width \in Nat
    PROVE  SplitText(txt, width) \in Seq(Seq(T))
<1> DEFINE n == Len(txt)
<1>1. n \in Nat
  BY LenProperties
<1>2. CASE width <= 0 \/ txt = <<>>
  <2>1. SplitText(txt, width) = <<txt>>
    BY <1>2 DEF SplitText
  <2>2. \A S : txt \in S => <<txt>> \in Seq(S)
    OBVIOUS
  <2> QED
    BY <2>1, <2>2
<1>3. CASE ~(width <= 0 \/ txt = <<>>)
  <2>1. width \in Nat \ {0}
    BY <1>3
  <2>2. PICK h \in [1..n + 1 -> Seq(Seq(T))] : \A i \in 1..n + 1 : Splits(h, txt, width, i)
    BY <2>1, SomeSplit
  <2>3. h = [i \in 1..n + 1 |->
               IF i > Len(txt) THEN <<>>
               ELSE IF txt[i] = "nl" THEN h[i + 1]
               ELSE <<SubSeq(txt, i, LineEnd(txt, i, width))>> \o h[LineEnd(txt, i, width) + 1]]
    BY <2>2 DEF Splits
  <2>4. \E f : f = [i \in 1..n + 1 |->
               IF i > Len(txt) THEN <<>>
               ELSE IF txt[i] = "nl" THEN f[i + 1]
               ELSE <<SubSeq(txt, i, LineEnd(txt, i, width))>> \o f[LineEnd(txt, i, width) + 1]]
    BY <2>3
  <2>5. PICK f : /\ f = [i \in 1..n + 1 |->
                       IF i > Len(txt) THEN <<>>
                       ELSE IF txt[i] = "nl" THEN f[i + 1]
                       ELSE <<SubSeq(txt, i, LineEnd(txt, i, width))>>
                                \o f[LineEnd(txt, i, width) + 1]]
                 /\ SplitText(txt, width) = f[1]
    BY <1>3, <2>4 DEF SplitText
  <2>6. \A i \in 1..n + 1 : Splits(f, txt, width, i)
    BY <2>5 DEF Splits
  <2> DEFINE Good == {k \in Nat : \A j \in n + 1 - k..n + 1 : f[j] \in Seq(Seq(T))}
  <2> HIDE DEF n
  <2>7. 0 \in Good
    <3>1. n + 1 \in 1..n + 1 /\ n + 1 > n /\ \A j \in n + 1 - 0..n + 1 : j = n + 1
      BY <1>1
    <3>2. f[n + 1] = <<>>
      BY <2>6, <3>1 DEF Splits, n
    <3>3. <<>> \in Seq(Seq(T))
      BY EmptySeq
    <3> QED
      BY <3>1, <3>2, <3>3
  <2>8. ASSUME NEW k \in 0..n - 1, k \in Good PROVE k + 1 \in Good
    <3> DEFINE m == n - k
    <3>1. /\ m \in 1..n /\ m \in 1..n + 1 /\ ~(m > n) /\ k + 1 \in Nat
          /\ n + 1 - k = m + 1 /\ n + 1 - (k + 1) = m
          /\ \A j \in m..n + 1 : j = m \/ j \in m + 1..n + 1
      BY <1>1
    <3> HIDE DEF m
    <3>2. \A j \in m + 1..n + 1 : f[j] \in Seq(Seq(T))
      BY <2>8, <3>1
    <3>3. f[m] = IF txt[m] = "nl" THEN f[m + 1]
                 ELSE <<SubSeq(txt, m, LineEnd(txt, m, width))>>
                          \o f[LineEnd(txt, m, width) + 1]
      BY <2>6, <3>1 DEF Splits, n
    <3>4. f[m] \in Seq(Seq(T))
      BY <2>1, <3>1, <3>2, <3>3, SplitBefore DEF n
    <3> QED
      BY <3>1, <3>2, <3>4
  <2>9. n \in Good
    <3> HIDE DEF Good
    <3>1. 0..n \subseteq Good
      BY <1>1, <2>7, <2>8, StepByStep
    <3> QED
      BY <1>1, <3>1
  <2>10. 1 \in n + 1 - n..n + 1
    BY <1>1
  <2> QED
    BY <2>5, <2>9, <2>10
<1> QED
  BY <1>2, <1>3
-----------------------------------------------------------------------------
(***************************************************************************)
(* The lines rendered.                                                     *)
(***************************************************************************)

Texts == Seq(Chars)

\* Saved text and the buffer; the lines of the screen.
Saids == [txt : Texts, origin : Origins, dirty : BOOLEAN]
ScreenLines == [txt : Texts \cup {Marker}, origin : Origins, dirty : BOOLEAN]

\* The lines of the screen a line may be among.
Fit(shown, dirty) ==
    {l \in ScreenLines : l.dirty = dirty /\ (Hidden(l.origin, shown) => l.txt = Marker)}

\* What a text is shown in has its origin, and is hidden when that is.
LEMMA LinesFit ==
    ASSUME NEW l \in Saids, NEW width \in Nat, NEW shown \in BOOLEAN, NEW dirty \in BOOLEAN
    PROVE  LinesOf(l, width, shown, dirty) \in Seq(Fit(shown, dirty))
<1> DEFINE lines == IF Hidden(l.origin, shown) THEN <<Marker>> ELSE SplitText(l.txt, width)
<1>1. l.txt \in Seq(Chars) /\ l.origin \in Origins
  BY DEF Saids, Texts
<1>2. /\ lines \in Seq(Texts \cup {Marker})
      /\ Hidden(l.origin, shown) => \A i \in 1..Len(lines) : lines[i] = Marker
  <2>1. CASE Hidden(l.origin, shown)
    <3>1. lines = <<Marker>>
      BY <2>1
    <3>2. \A S, m : m \in S => <<m>> \in Seq(S) /\ \A i \in 1..Len(<<m>>) : <<m>>[i] = m
      OBVIOUS
    <3> HIDE DEF lines
    <3>3. Marker \in Texts \cup {Marker}
      OBVIOUS
    <3>4. <<Marker>> \in Seq(Texts \cup {Marker}) /\ \A i \in 1..Len(<<Marker>>) : <<Marker>>[i] = Marker
      BY <3>2, <3>3, Zenon
    <3> QED
      BY <3>1, <3>4, Zenon
  <2>2. CASE ~Hidden(l.origin, shown)
    <3>1. lines = SplitText(l.txt, width)
      BY <2>2
    <3>2. SplitText(l.txt, width) \in Seq(Texts)
      BY <1>1, SplitTextIsLines DEF Texts
    <3> HIDE DEF lines
    <3>3. lines \in Seq(Texts \cup {Marker})
      BY <3>1, <3>2, SeqMonotonic
    <3> QED
      BY <2>2, <3>3
  <2> QED
    BY <2>1, <2>2
<1>3. LinesOf(l, width, shown, dirty) = [i \in DOMAIN lines |-> Line(lines[i], l.origin, dirty)]
  BY DEF LinesOf
<1> HIDE DEF lines
<1>4. Len(lines) \in Nat /\ DOMAIN lines = 1..Len(lines)
  BY <1>2, LenProperties
<1>5. \A i \in 1..Len(lines) : Line(lines[i], l.origin, dirty) \in Fit(shown, dirty)
  <2> TAKE i \in 1..Len(lines)
  <2>1. lines[i] \in Texts \cup {Marker}
    BY <1>2, ElementOfSeq
  <2>2. Line(lines[i], l.origin, dirty) \in ScreenLines
    BY <1>1, <2>1 DEF Line, ScreenLines
  <2>3. /\ Line(lines[i], l.origin, dirty).dirty = dirty
        /\ Line(lines[i], l.origin, dirty).origin = l.origin
        /\ Line(lines[i], l.origin, dirty).txt = lines[i]
    BY DEF Line
  <2> QED
    BY <1>2, <2>2, <2>3 DEF Fit
<1>6. LinesOf(l, width, shown, dirty) \in [1..Len(lines) -> Fit(shown, dirty)]
  BY <1>3, <1>4, <1>5
<1> QED
  BY <1>4, <1>6

LEMMA PartsFit ==
    ASSUME NEW lines \in Seq(Saids), NEW width \in Nat, NEW shown \in BOOLEAN
    PROVE  [i \in DOMAIN lines |-> LinesOf(lines[i], width, shown, FALSE)]
               \in Seq(Seq(Fit(shown, FALSE)))
<1>1. Len(lines) \in Nat /\ DOMAIN lines = 1..Len(lines)
  BY LenProperties
<1>2. \A i \in 1..Len(lines) : LinesOf(lines[i], width, shown, FALSE) \in Seq(Fit(shown, FALSE))
  BY ElementOfSeq, LinesFit
<1> DEFINE S     == Seq(Fit(shown, FALSE))
           parts == [i \in DOMAIN lines |-> LinesOf(lines[i], width, shown, FALSE)]
<1> HIDE DEF S
<1>3. parts \in [1..Len(lines) -> S]
  BY <1>1, <1>2 DEF S
<1> HIDE DEF parts
<1>4. parts \in Seq(S)
  BY <1>1, <1>3
<1> QED
  BY <1>4 DEF S, parts

LEMMA SavedFits ==
    ASSUME NEW lines \in Seq(Saids), NEW width \in Nat, NEW shown \in BOOLEAN
    PROVE  Saved(lines, width, shown) \in Seq(Fit(shown, FALSE))
BY PartsFit, FlattenIsSeq DEF Saved

LEMMA SavedOfNone ==
    ASSUME NEW width \in Nat, NEW shown \in BOOLEAN
    PROVE  Saved(<<>>, width, shown) = <<>>
<1> DEFINE s == [i \in DOMAIN <<>> |-> LinesOf(<<>>[i], width, shown, FALSE)]
<1>1. s = <<>>
  OBVIOUS
<1>2. <<>> \in Seq(Seq({})) /\ Len(<<>>) = 0
  BY EmptySeq
<1>3. Gathers(<<>>, <<>>, Len(<<>>))
  BY <1>2 DEF Gathers
<1>4. FlattenSeq(<<>>) = <<>>
  BY <1>2, <1>3, FlattenGathers
<1> QED
  BY <1>1, <1>4 DEF Saved

\* One more saved text adds its lines behind the others'.
LEMMA SavedAppend ==
    ASSUME NEW lines \in Seq(Saids), NEW l \in Saids, NEW width \in Nat, NEW shown \in BOOLEAN
    PROVE  Saved(Append(lines, l), width, shown) =
             Saved(lines, width, shown) \o LinesOf(l, width, shown, FALSE)
<1> DEFINE more == Append(lines, l)
           n    == Len(lines)
           s    == [i \in DOMAIN lines |-> LinesOf(lines[i], width, shown, FALSE)]
           t    == [i \in DOMAIN more |-> LinesOf(more[i], width, shown, FALSE)]
           x    == LinesOf(l, width, shown, FALSE)
           S    == Seq(Fit(shown, FALSE))
<1>1. /\ n \in Nat /\ more \in Seq(Saids) /\ Len(more) = n + 1
      /\ \A i \in 1..n : more[i] = lines[i]
      /\ more[n + 1] = l
      /\ DOMAIN lines = 1..n /\ DOMAIN more = 1..n + 1
  <2>1. n \in Nat /\ DOMAIN lines = 1..n
    BY LenProperties
  <2>2. /\ more \in Seq(Saids) /\ Len(more) = n + 1
        /\ \A i \in 1..n : more[i] = lines[i]
        /\ more[n + 1] = l
    BY AppendProperties
  <2>3. DOMAIN more = 1..Len(more)
    BY <2>2, LenProperties
  <2> QED
    BY <2>1, <2>2, <2>3
<1>2. s \in Seq(S) /\ t \in Seq(S) /\ x \in S
  BY <1>1, PartsFit, LinesFit
<1>3. t = Append(s, x)
  <2>1. s \in [1..n -> S] /\ t \in [1..n + 1 -> S]
    <3>1. \A i \in 1..n : LinesOf(lines[i], width, shown, FALSE) \in S
      BY ElementOfSeq, LinesFit
    <3>2. \A i \in 1..n + 1 : LinesOf(more[i], width, shown, FALSE) \in S
      BY <1>1, ElementOfSeq, LinesFit
    <3> HIDE DEF S, more, n
    <3> QED
      BY <1>1, <3>1, <3>2
  <2>2. /\ \A i \in 1..n : t[i] = s[i]
        /\ t[n + 1] = x
    <3>1. \A i \in 1..n : i \in 1..n + 1
      BY <1>1
    <3>2. n + 1 \in 1..n + 1
      BY <1>1
    <3> HIDE DEF more, n, S
    <3> QED
      BY <1>1, <3>1, <3>2
  <2> HIDE DEF s, t, x, S, n
  <2>3. Len(s) = n /\ Len(t) = n + 1
    BY <1>1, <2>1
  <2>4. /\ Append(s, x) \in Seq(S) /\ Len(Append(s, x)) = n + 1
        /\ \A i \in 1..n : Append(s, x)[i] = s[i]
        /\ Append(s, x)[n + 1] = x
    BY <1>2, <2>3, AppendProperties
  <2>5. \A i \in 1..Len(t) : t[i] = Append(s, x)[i]
    <3>1. \A i \in 1..n + 1 : i \in 1..n \/ i = n + 1
      BY <1>1
    <3> QED
      BY <2>2, <2>3, <2>4, <3>1
  <2> QED
    BY <1>2, <2>3, <2>4, <2>5, SeqEqual
<1>4. FlattenSeq(t) = FlattenSeq(s) \o x
  <2> HIDE DEF s, t, x
  <2> QED
    BY <1>2, <1>3, FlattenAppend
<1> QED
  BY <1>4 DEF Saved

\* That a text is dirty does not change its lines.
LEMMA SavedOfClean ==
    ASSUME NEW lines \in Seq(Saids), NEW width \in Nat, NEW shown \in BOOLEAN
    PROVE  /\ Clean(lines) \in Seq(Saids) /\ Len(Clean(lines)) = Len(lines)
           /\ \A i \in 1..Len(lines) : ~Clean(lines)[i].dirty
           /\ Saved(Clean(lines), width, shown) = Saved(lines, width, shown)
<1> DEFINE n == Len(lines)
<1>1. n \in Nat /\ DOMAIN lines = 1..n /\ \A i \in 1..n : lines[i] \in Saids
  BY LenProperties, ElementOfSeq
<1>2. Clean(lines) = [i \in 1..n |-> [lines[i] EXCEPT !.dirty = FALSE]]
  BY <1>1 DEF Clean
<1>3. \A i \in 1..n : /\ [lines[i] EXCEPT !.dirty = FALSE] \in Saids
                      /\ ~[lines[i] EXCEPT !.dirty = FALSE].dirty
                      /\ [lines[i] EXCEPT !.dirty = FALSE].txt = lines[i].txt
                      /\ [lines[i] EXCEPT !.dirty = FALSE].origin = lines[i].origin
  BY <1>1 DEF Saids
<1> HIDE DEF n
<1>4. Clean(lines) \in [1..n -> Saids]
  BY <1>2, <1>3
<1>5. Clean(lines) \in Seq(Saids) /\ Len(Clean(lines)) = n
  BY <1>1, <1>4
<1>6. \A i \in 1..n : LinesOf(Clean(lines)[i], width, shown, FALSE)
                        = LinesOf(lines[i], width, shown, FALSE)
  BY <1>2, <1>3 DEF LinesOf
<1>7. DOMAIN Clean(lines) = 1..n
  BY <1>4
<1>8. [i \in DOMAIN Clean(lines) |-> LinesOf(Clean(lines)[i], width, shown, FALSE)]
        = [i \in DOMAIN lines |-> LinesOf(lines[i], width, shown, FALSE)]
  BY <1>1, <1>6, <1>7
<1> QED
  BY <1>2, <1>3, <1>5, <1>8 DEF Saved, n

-----------------------------------------------------------------------------
(***************************************************************************)
(* The lines that are dirty, and those that are not.                       *)
(***************************************************************************)

\* Lines of which the first are as wanted and the others not leave the first.
LEMMA OnlyTheFirst ==
    ASSUME NEW T, NEW p \in Seq(T), NEW q \in Seq(T), NEW dirty,
           \A i \in 1..Len(p) : p[i].dirty = dirty,
           \A i \in 1..Len(q) : q[i].dirty # dirty
    PROVE  Only(p \o q, dirty) = p
<1> DEFINE m == Len(p)
           n == Len(p) + Len(q)
           u == p \o q
           s == [i \in DOMAIN u |-> IF u[i].dirty = dirty THEN <<u[i]>> ELSE <<>>]
           g == [i \in 1..n |-> SubSeq(p, 1, IF i <= m THEN i ELSE m)]
<1>1. /\ m \in Nat /\ n \in Nat /\ m <= n /\ Len(q) \in Nat
      /\ u \in Seq(T) /\ Len(u) = n /\ DOMAIN u = 1..n
      /\ \A i \in 1..m : u[i] = p[i]
  <2>1. m \in Nat /\ Len(q) \in Nat
    BY LenProperties
  <2>2. /\ u \in Seq(T) /\ Len(u) = n
        /\ \A i \in 1..n : u[i] = IF i <= m THEN p[i] ELSE q[i - m]
    BY ConcatProperties
  <2>3. DOMAIN u = 1..n
    BY <2>2, LenProperties
  <2> HIDE DEF u
  <2> QED
    BY <2>1, <2>2, <2>3
<1>2. \A i \in 1..n : u[i].dirty = dirty <=> i <= m
  <2> TAKE i \in 1..n
  <2>1. u[i] = IF i <= m THEN p[i] ELSE q[i - m]
    BY ConcatProperties
  <2>2. (i <= m => i \in 1..m) /\ (~(i <= m) => i - m \in 1..Len(q))
    BY <1>1
  <2> QED
    BY <2>1, <2>2
<1>3. s \in Seq(Seq(T)) /\ Len(s) = n
  <2> DEFINE S == Seq(T)
  <2>1. \A i \in 1..n : (IF u[i].dirty = dirty THEN <<u[i]>> ELSE <<>>) \in S
    <3> TAKE i \in 1..n
    <3>1. u[i] \in T
      BY <1>1, ElementOfSeq
    <3> HIDE DEF u
    <3>2. <<u[i]>> \in Seq(T) /\ <<>> \in Seq(T)
      BY <3>1
    <3> QED
      BY <3>2
  <2> HIDE DEF u, S, n
  <2>2. s \in [1..n -> S]
    BY <1>1, <2>1
  <2> HIDE DEF s
  <2>3. s \in Seq(S) /\ Len(s) = n
    BY <1>1, <2>2
  <2> QED
    BY <2>3 DEF S
<1>4. \A i \in 1..m : SubSeq(p, 1, i) = SubSeq(p, 1, i - 1) \o <<p[i]>>
  <2> TAKE i \in 1..m
  <2>1. 1 \in 1..Len(p) /\ i \in 1..Len(p)
    BY <1>1
  <2> QED
    BY <2>1, SubSeqRecursiveSecond
<1>5. SubSeq(p, 1, m) = p /\ SubSeq(p, 1, 0) = <<>>
  BY SubSeqFull, SubSeqEmpty
<1>6. \A i \in 1..n : g[i] = IF i = 1 THEN s[i] ELSE g[i - 1] \o s[i]
  <2> TAKE i \in 1..n
  <2>1. s[i] = IF i <= m THEN <<u[i]>> ELSE <<>>
    <3> HIDE DEF u, n, m
    <3> QED
      BY <1>1, <1>2
  <2>2. i # 1 => g[i - 1] = SubSeq(p, 1, IF i - 1 <= m THEN i - 1 ELSE m)
    <3>1. i # 1 => i - 1 \in 1..n
      BY <1>1
    <3> QED
      BY <3>1
  <2>3. g[i] = SubSeq(p, 1, IF i <= m THEN i ELSE m)
    OBVIOUS
  <2>4. CASE i <= m
    <3>1. i \in 1..m /\ i - 1 <= m
      BY <1>1, <2>4
    <3>2. u[i] = p[i]
      BY <1>1, <3>1
    <3>3. g[i] = SubSeq(p, 1, i - 1) \o s[i]
      BY <1>4, <2>1, <2>3, <2>4, <3>1, <3>2
    <3>4. CASE i = 1
      <4>1. i - 1 = 0
        BY <3>4
      <4>2. g[i] = <<>> \o s[i]
        BY <1>5, <3>3, <4>1
      <4>3. s[i] \in Seq(T)
        <5>1. s[i] = <<p[i]>> /\ p[i] \in T
          BY <2>1, <2>4, <3>1, <3>2, ElementOfSeq
        <5> HIDE DEF s
        <5> QED
          BY <5>1
      <4> HIDE DEF g, s
      <4>4. <<>> \o s[i] = s[i]
        BY <4>3, ConcatEmptySeq
      <4> QED
        BY <3>4, <4>2, <4>4
    <3>5. CASE i # 1
      BY <2>2, <3>1, <3>3, <3>5
    <3> QED
      BY <3>4, <3>5
  <2>5. CASE ~(i <= m)
    <3>1. g[i] = p
      BY <1>5, <2>3, <2>5
    <3>2. s[i] = <<>>
      BY <2>1, <2>5
    <3>3. CASE i = 1
      <4>1. m = 0
        BY <1>1, <2>5, <3>3
      <4>2. p = <<>>
        BY <4>1, EmptySeq
      <4> QED
        BY <3>1, <3>2, <3>3, <4>2
    <3>4. CASE i # 1
      <4>1. i - 1 <= m => i - 1 = m
        BY <1>1, <2>5
      <4>2. g[i - 1] = p
        BY <1>5, <2>2, <3>4, <4>1
      <4>3. p \o <<>> = p
        BY ConcatEmptySeq
      <4> HIDE DEF g, s
      <4> QED
        BY <3>1, <3>2, <3>4, <4>2, <4>3
    <3> QED
      BY <3>3, <3>4
  <2> QED
    BY <2>4, <2>5
<1>7. Only(u, dirty) = FlattenSeq(s)
  BY DEF Only
<1>8. n # 0 => g[n] = p
  <2>1. n # 0 => n \in 1..n /\ (n <= m => n = m)
    BY <1>1
  <2> QED
    BY <1>5, <2>1
<1>9. n = 0 => p = <<>>
  <2>1. n = 0 => m = 0
    BY <1>1
  <2> QED
    BY <2>1, EmptySeq
<1>10. Gathers(g, s, Len(s))
  <2> HIDE DEF g, s, n
  <2> QED
    BY <1>3, <1>6 DEF Gathers
<1>11. FlattenSeq(s) = p
  <2> HIDE DEF g, s, n
  <2>1. (Len(s) = 0 => FlattenSeq(s) = <<>>) /\ (Len(s) # 0 => FlattenSeq(s) = g[Len(s)])
    BY <1>3, <1>10, FlattenGathers
  <2> QED
    BY <1>3, <1>8, <1>9, <2>1
<1> QED
  BY <1>7, <1>11

\* Among clean lines none is dirty; one that is saved is the only dirty one.
LEMMA OnlyDirty ==
    ASSUME NEW lines \in Seq(Saids), \A i \in 1..Len(lines) : ~lines[i].dirty,
           NEW l \in Saids, l.dirty
    PROVE  /\ Only(lines, TRUE) = <<>>
           /\ Only(Append(lines, l), TRUE) = <<l>>
<1> DEFINE more == Append(lines, l)
           n    == Len(lines)
           s    == [i \in DOMAIN lines |-> IF lines[i].dirty = TRUE THEN <<lines[i]>> ELSE <<>>]
           t    == [i \in DOMAIN more |-> IF more[i].dirty = TRUE THEN <<more[i]>> ELSE <<>>]
           S    == Seq(Saids)
<1>1. <<>> \in Seq(Saids) /\ <<l>> \in Seq(Saids) /\ Len(<<>>) = 0
  OBVIOUS
<1>2. \A i \in 1..n : lines[i] \in Saids /\ lines[i].dirty \in BOOLEAN
  <2>1. \A i \in 1..n : lines[i] \in Saids
    BY ElementOfSeq
  <2>2. \A x \in Saids : x.dirty \in BOOLEAN
    BY DEF Saids
  <2> QED
    BY <2>1, <2>2
<1>3. Only(lines, TRUE) = <<>>
  <2>1. <<>> \o lines = lines
    BY ConcatEmptySeq
  <2>2. \A i \in 1..Len(lines) : lines[i].dirty # TRUE
    OBVIOUS
  <2>3. PICK none \in Seq(Saids) : none = <<>>
    BY <1>1
  <2>4. \A i \in 1..Len(none) : none[i].dirty = TRUE
    <3>1. 1..Len(none) = {}
      BY <1>1, <2>3
    <3> QED
      BY <3>1
  <2>5. Only(none \o lines, TRUE) = none
    <3> HIDE DEF n
    <3> QED
      BY <2>2, <2>4, OnlyTheFirst
  <2> QED
    BY <2>1, <2>3, <2>5
<1>4. /\ n \in Nat /\ more \in Seq(Saids) /\ Len(more) = n + 1
      /\ \A i \in 1..n : more[i] = lines[i]
      /\ more[n + 1] = l
      /\ DOMAIN lines = 1..n /\ DOMAIN more = 1..n + 1
  <2>1. n \in Nat /\ DOMAIN lines = 1..n
    BY LenProperties
  <2>2. /\ more \in Seq(Saids) /\ Len(more) = n + 1
        /\ \A i \in 1..n : more[i] = lines[i]
        /\ more[n + 1] = l
    BY AppendProperties
  <2>3. DOMAIN more = 1..Len(more)
    BY <2>2, LenProperties
  <2> QED
    BY <2>1, <2>2, <2>3
<1>5. s \in [1..n -> S] /\ t \in [1..n + 1 -> S]
  <2>1. s = [i \in 1..n |-> <<>>]
    BY <1>4
  <2>2. t = [i \in 1..n + 1 |-> IF i = n + 1 THEN <<l>> ELSE <<>>]
    <3>1. \A i \in 1..n + 1 : (i # n + 1 => i \in 1..n) /\ (i \in 1..n => i # n + 1)
      BY <1>4
    <3>2. l.dirty = TRUE
      BY DEF Saids
    <3>3. \A i \in 1..n + 1 : (more[i].dirty = TRUE) <=> i = n + 1
      BY <1>2, <1>4, <3>1, <3>2
    <3> HIDE DEF more, n
    <3>4. \A i \in 1..n + 1 : (IF more[i].dirty = TRUE THEN <<more[i]>> ELSE <<>>)
                              = IF i = n + 1 THEN <<l>> ELSE <<>>
      BY <1>4, <3>3
    <3> QED
      BY <1>4, <3>4
  <2> HIDE DEF s, t
  <2> QED
    BY <1>1, <2>1, <2>2
<1>6. (\A i \in 1..n : t[i] = s[i]) /\ t[n + 1] = <<l>>
  <2>1. \A i \in 1..n : i \in 1..n + 1
    BY <1>4
  <2>2. n + 1 \in 1..n + 1 /\ l.dirty = TRUE
    BY <1>4 DEF Saids
  <2> HIDE DEF more, n
  <2> QED
    BY <1>4, <2>1, <2>2
<1> HIDE DEF s, t, S, n
<1>7. s \in Seq(S) /\ t \in Seq(S) /\ Len(s) = n /\ Len(t) = n + 1
  BY <1>4, <1>5
<1>8. t = Append(s, <<l>>)
  <2>1. <<l>> \in S
    BY <1>1 DEF S
  <2>2. /\ Append(s, <<l>>) \in Seq(S) /\ Len(Append(s, <<l>>)) = n + 1
        /\ \A i \in 1..n : Append(s, <<l>>)[i] = s[i]
        /\ Append(s, <<l>>)[n + 1] = <<l>>
    BY <1>7, <2>1, AppendProperties
  <2>3. \A i \in 1..Len(t) : t[i] = Append(s, <<l>>)[i]
    <3>1. \A i \in 1..n + 1 : i \in 1..n \/ i = n + 1
      BY <1>4
    <3> QED
      BY <1>6, <1>7, <2>2, <3>1
  <2> QED
    BY <1>7, <2>2, <2>3, SeqEqual
<1>9. FlattenSeq(t) = FlattenSeq(s) \o <<l>>
  BY <1>1, <1>7, <1>8, FlattenAppend DEF S
<1>10. FlattenSeq(s) = <<>>
  BY <1>3 DEF Only, s
<1> QED
  BY <1>1, <1>3, <1>9, <1>10, ConcatEmptySeq DEF Only, t
-----------------------------------------------------------------------------
(***************************************************************************)
(* The invariant: saved text is clean, the buffer is dirty, and the lines  *)
(* shown are those of both at the width of the window.                     *)
(***************************************************************************)

Sizes == /\ window \in Windows /\ input \in Nat /\ height \in Nat
         /\ length = LineLength /\ show \in BOOLEAN /\ shift \in Nat

Text == /\ text \in Seq(Saids) /\ \A i \in 1..Len(text) : ~text[i].dirty
        /\ buffer \in Saids /\ buffer.dirty

TranscriptInv == Sizes /\ Text /\ LinesAreTheText

LEMMA WindowSizes ==
    ASSUME window \in Windows
    PROVE  Rows \in Nat /\ Columns \in Nat /\ LineLength \in Nat
<1>1. window \in (Nat \ {0}) \X (Nat \ (0..3))
  BY TranscriptAssumption
<1>2. window[1] \in Nat /\ window[2] \in Nat
  BY <1>1
<1> DEFINE fits == window[1] - 4
<1>3. Max({fits, 1}) \in Nat
  <2>1. fits \in Int
    BY <1>2
  <2> HIDE DEF fits
  <2>2. Max({fits, 1}) = IF fits >= 1 THEN fits ELSE 1
    BY <2>1, LargerOfTwo
  <2> QED
    BY <2>1, <2>2
<1> QED
  BY <1>2, <1>3 DEF Rows, Columns, LineLength

LEMMA FramedIsNat ==
    ASSUME NEW rows \in Nat, NEW lines \in Nat, NEW old \in Nat
    PROVE  Framed(rows, lines, old) \in Nat
BY DEF Framed

\* Keeping the saved lines of the screen keeps the lines of the saved text.
LEMMA KeepsSaved ==
    ASSUME TranscriptInv
    PROVE  Only(rendered, FALSE) = Saved(text, length, show)
<1>1. length \in Nat /\ show \in BOOLEAN /\ text \in Seq(Saids) /\ buffer \in Saids
  BY WindowSizes DEF TranscriptInv, Sizes, Text
<1> DEFINE p == Saved(text, length, show)
           q == LinesOf(buffer, length, show, TRUE)
           none == <<>>
<1>2. p \in Seq(Fit(show, FALSE)) /\ q \in Seq(Fit(show, TRUE))
  BY <1>1, SavedFits, LinesFit
<1>3. /\ \A i \in 1..Len(p) : p[i] \in Fit(show, FALSE)
      /\ \A i \in 1..Len(q) : q[i] \in Fit(show, TRUE)
  <2> HIDE DEF p, q
  <2> QED
    BY <1>2, ElementOfSeq
<1>4. /\ \A i \in 1..Len(p) : p[i].dirty = FALSE
      /\ \A i \in 1..Len(q) : q[i].dirty # FALSE
  <2> HIDE DEF p, q
  <2> QED
    BY <1>3 DEF Fit
<1>5. p \in Seq(ScreenLines) /\ q \in Seq(ScreenLines)
  <2> HIDE DEF p, q
  <2>1. Fit(show, FALSE) \subseteq ScreenLines /\ Fit(show, TRUE) \subseteq ScreenLines
    BY DEF Fit
  <2> QED
    BY <1>2, <2>1, SeqMonotonic
<1>6. CASE rendered = Full(text, buffer, LineLength, show)
  <2>1. rendered = p \o q
    BY <1>6 DEF Full, TranscriptInv, Sizes
  <2> HIDE DEF p, q
  <2>2. Only(p \o q, FALSE) = p
    BY <1>4, <1>5, OnlyTheFirst
  <2> QED
    BY <2>1, <2>2 DEF p
<1>7. CASE rendered = none /\ text = none
  <2>1. p = <<>>
    BY <1>1, <1>7, SavedOfNone
  <2>2. p \o <<>> = <<>> /\ <<>> \in Seq(ScreenLines) /\ Len(<<>>) = 0
    BY <2>1
  <2>3. PICK nothing \in Seq(ScreenLines) : nothing = <<>>
    BY <2>2
  <2>4. \A i \in 1..Len(nothing) : nothing[i].dirty # FALSE
    <3>1. 1..Len(nothing) = {}
      BY <2>2, <2>3
    <3> QED
      BY <3>1
  <2> HIDE DEF p, q
  <2>5. Only(p \o nothing, FALSE) = p
    BY <1>4, <1>5, <2>4, OnlyTheFirst
  <2> QED
    BY <1>7, <2>2, <2>3, <2>5 DEF p
<1> QED
  BY <1>6, <1>7 DEF TranscriptInv, LinesAreTheText

LEMMA TranscriptInit == Init => TranscriptInv
<1> SUFFICES ASSUME Init PROVE TranscriptInv
  OBVIOUS
<1>1. Rows \in Nat /\ LineLength \in Nat
  BY WindowSizes DEF Init
<1>2. Sizes
  BY <1>1, FramedIsNat DEF Init, Sizes
<1>3. Empty \in Saids /\ Empty.dirty /\ <<>> \in Seq(Saids)
  BY TranscriptAssumption DEF Empty, Line, Saids, Texts
<1>4. Text
  <2>1. text = <<>> /\ buffer = Empty /\ 1..Len(<<>>) = {}
    BY DEF Init
  <2> QED
    BY <1>3, <2>1 DEF Text
<1>5. LinesAreTheText
  <2>1. Saved(<<>>, length, show) = <<>>
    BY <1>1, SavedOfNone DEF Init
  <2>2. LinesOf(Empty, length, show, TRUE) \in Seq(Fit(show, TRUE))
    BY <1>1, <1>3, LinesFit DEF Init
  <2>3. <<>> \o LinesOf(Empty, length, show, TRUE) = LinesOf(Empty, length, show, TRUE)
    BY <2>2, ConcatEmptySeq
  <2> QED
    BY <2>1, <2>3 DEF Init, LinesAreTheText, Full
<1> QED
  BY <1>2, <1>4, <1>5 DEF TranscriptInv

\* Rendering what changed, after text was added, renders everything.
LEMMA AddingText ==
    ASSUME TranscriptInv, AddText
    PROVE  TranscriptInv'
<1>1. PICK piece \in Pieces, origin \in Origins :
        LET flushed == Flushed(origin)
            last    == [flushed.last EXCEPT !.txt = @ \o piece]
        IN  /\ text' = Clean(flushed.lines)
            /\ buffer' = last
            /\ rendered' = Refresh(flushed.lines, last)
            /\ shift' = 0
            /\ UNCHANGED <<window, input, height, length, show>>
  BY DEF AddText
<1>2. length \in Nat /\ show \in BOOLEAN /\ text \in Seq(Saids) /\ buffer \in Saids
      /\ buffer.dirty /\ \A i \in 1..Len(text) : ~text[i].dirty
  BY WindowSizes DEF TranscriptInv, Sizes, Text
<1> DEFINE lines == Flushed(origin).lines
           last  == [Flushed(origin).last EXCEPT !.txt = @ \o piece]
<1>3. piece \in Seq(Chars) /\ buffer.txt \in Seq(Chars) /\ <<>> \in Seq(Chars)
  BY <1>2, TranscriptAssumption DEF Saids, Texts
<1>4. last \in Saids /\ last.dirty
  <2>1. Flushed(origin).last \in Saids /\ Flushed(origin).last.dirty
    BY <1>2, <1>3 DEF Flushed, Line, Saids, Texts
  <2>2. Flushed(origin).last.txt \o piece \in Seq(Chars)
    <3>1. Flushed(origin).last.txt \in Seq(Chars)
      BY <2>1 DEF Saids, Texts
    <3> QED
      BY <1>3, <3>1, ConcatProperties
  <2> QED
    BY <2>1, <2>2 DEF Saids, Texts
<1> DEFINE said1 == Line(buffer.txt, buffer.origin, TRUE)
<1>5. said1 \in Saids /\ said1.dirty
  BY <1>2 DEF Line, Saids
<1>6. \/ lines = text
      \/ lines = Append(text, said1)
  BY DEF Flushed
<1>7. lines \in Seq(Saids)
  BY <1>2, <1>5, <1>6, AppendProperties
<1>8. Saved(text, length, show) \o Saved(Only(lines, TRUE), length, show)
        = Saved(lines, length, show)
  <2>1. Saved(text, length, show) \in Seq(Fit(show, FALSE))
    BY <1>2, SavedFits
  <2>2. Saved(<<>>, length, show) = <<>>
    BY <1>2, SavedOfNone
  <2>3. CASE lines = text
    <3>1. Only(lines, TRUE) = <<>>
      BY <1>2, <1>5, <2>3, OnlyDirty
    <3> QED
      BY <2>1, <2>2, <2>3, <3>1, ConcatEmptySeq
  <2>4. CASE lines = Append(text, said1)
    <3> DEFINE x == LinesOf(said1, length, show, FALSE)
    <3> HIDE DEF said1
    <3>1. Only(lines, TRUE) = <<said1>>
      BY <1>2, <1>5, <2>4, OnlyDirty
    <3>2. Saved(lines, length, show) = Saved(text, length, show) \o x
      BY <1>2, <1>5, <2>4, SavedAppend
    <3>3. PICK none \in Seq(Saids) : none = <<>> /\ Append(none, said1) = <<said1>>
      <4>1. <<>> \in Seq(Saids)
        BY EmptySeq
      <4>2. Append(<<>>, said1) = <<said1>>
        OBVIOUS
      <4> QED
        BY <4>1, <4>2, Zenon
    <3>4. Saved(<<said1>>, length, show) = <<>> \o x
      <4>1. Saved(Append(none, said1), length, show) = Saved(none, length, show) \o x
        BY <1>2, <1>5, SavedAppend
      <4> QED
        BY <2>2, <3>3, <4>1
    <3>5. <<>> \o x = x
      <4>1. x \in Seq(Fit(show, FALSE))
        BY <1>2, <1>5, LinesFit
      <4> QED
        BY <4>1, ConcatEmptySeq
    <3> QED
      BY <3>1, <3>2, <3>4, <3>5
  <2> QED
    BY <1>6, <2>3, <2>4
<1>9. rendered' = Saved(lines, length, show) \o LinesOf(last, length, show, TRUE)
  <2>1. Only(rendered, FALSE) = Saved(text, length, show)
    BY KeepsSaved
  <2>2. rendered' = Refresh(lines, last)
    BY <1>1
  <2> DEFINE z == LinesOf(last, length, show, TRUE)
  <2>3. rendered' = Only(rendered, FALSE) \o Saved(Only(lines, TRUE), length, show) \o z
    BY <2>2 DEF Refresh
  <2> HIDE DEF z, lines, last
  <2> QED
    BY <1>8, <2>1, <2>3 DEF z
<1>10. /\ text' = Clean(lines) /\ buffer' = last /\ shift' = 0
       /\ UNCHANGED <<window, input, height, length, show>>
  BY <1>1
<1> HIDE DEF lines, last
<1>11. /\ text' \in Seq(Saids) /\ \A i \in 1..Len(text') : ~text'[i].dirty
       /\ Saved(text', length, show) = Saved(lines, length, show)
  BY <1>2, <1>7, <1>10, SavedOfClean
<1>12. Text'
  BY <1>4, <1>10, <1>11 DEF Text
<1>13. Sizes'
  BY <1>10 DEF TranscriptInv, Sizes, LineLength, Columns
<1>14. rendered' = Full(text', buffer', length, show)
  BY <1>9, <1>10, <1>11 DEF Full
<1>15. LineLength' = length /\ show' = show
  BY <1>10 DEF TranscriptInv, Sizes, LineLength, Columns
<1>16. LinesAreTheText'
  BY <1>14, <1>15 DEF LinesAreTheText
<1> QED
  BY <1>12, <1>13, <1>16 DEF TranscriptInv

LEMMA RenderedIsSeq ==
    ASSUME TranscriptInv
    PROVE  /\ Len(rendered) \in Nat /\ (rendered # <<>> => Len(rendered) # 0)
           /\ \A i \in 1..Len(rendered) : rendered[i] \in Fit(show, FALSE) \cup Fit(show, TRUE)
           /\ DOMAIN rendered = 1..Len(rendered)
<1>1. length \in Nat /\ show \in BOOLEAN /\ text \in Seq(Saids) /\ buffer \in Saids
  BY WindowSizes DEF TranscriptInv, Sizes, Text
<1> DEFINE p == Saved(text, length, show)
           q == LinesOf(buffer, length, show, TRUE)
           T == Fit(show, FALSE) \cup Fit(show, TRUE)
<1>2. p \in Seq(Fit(show, FALSE)) /\ q \in Seq(Fit(show, TRUE))
  BY <1>1, SavedFits, LinesFit
<1>3. rendered = p \o q \/ rendered = <<>>
  BY DEF TranscriptInv, LinesAreTheText, Full, Sizes
<1> HIDE DEF p, q
<1>4. p \in Seq(T) /\ q \in Seq(T)
  BY <1>2, SeqMonotonic
<1> HIDE DEF T
<1>5. rendered \in Seq(T)
  BY <1>3, <1>4, ConcatProperties, EmptySeq
<1>6. /\ Len(rendered) \in Nat /\ DOMAIN rendered = 1..Len(rendered)
      /\ \A i \in 1..Len(rendered) : rendered[i] \in T
      /\ rendered # <<>> => Len(rendered) # 0
  BY <1>5, LenProperties, ElementOfSeq, EmptySeq
<1> QED
  BY <1>6 DEF T
LEMMA OtherSteps ==
    ASSUME TranscriptInv, [Next]_vars, ~AddText
    PROVE  TranscriptInv'
<1>0. /\ window \in Windows /\ input \in Nat /\ height \in Nat /\ length = LineLength
      /\ show \in BOOLEAN /\ shift \in Nat /\ buffer \in Saids
  BY DEF TranscriptInv, Sizes, Text
<1>1. Rows \in Nat /\ LineLength \in Nat
  BY <1>0, WindowSizes
<1>2. Len(rendered) \in Nat
  BY RenderedIsSeq
<1>3. CASE Clear
  <2>1. Sizes'
    BY <1>3 DEF Clear, TranscriptInv, Sizes, LineLength, Columns
  <2>2. Text'
    <3>1. <<>> \in Seq(Saids) /\ 1..Len(<<>>) = {} /\ <<>> \in Seq(Chars)
      OBVIOUS
    <3>2. [buffer EXCEPT !.txt = <<>>] \in Saids /\ [buffer EXCEPT !.txt = <<>>].dirty
      BY <3>1 DEF TranscriptInv, Text, Saids, Texts
    <3> QED
      BY <1>3, <3>1, <3>2 DEF Clear, Text
  <2>3. LinesAreTheText'
    <3>1. buffer'.txt = <<>>
      BY <1>0, <1>3 DEF Clear, Saids
    <3> QED
      BY <1>3, <3>1 DEF Clear, LinesAreTheText
  <2> QED
    BY <2>1, <2>2, <2>3 DEF TranscriptInv
<1>4. CASE SetShowReasoning
  <2>1. Framed(Rows, input, height) \in Nat
    BY <1>0, <1>1, FramedIsNat
  <2>2. Sizes'
    BY <1>4, <2>1 DEF SetShowReasoning, TranscriptInv, Sizes, LineLength, Columns
  <2>3. Text'
    BY <1>4 DEF SetShowReasoning, TranscriptInv, Text, said
  <2>4. LinesAreTheText'
    BY <1>0, <1>4 DEF SetShowReasoning, LinesAreTheText, said, LineLength, Columns
  <2> QED
    BY <2>2, <2>3, <2>4 DEF TranscriptInv
<1>5. CASE InputChanges
  <2>1. input' \in Nat
    BY <1>5, TranscriptAssumption DEF InputChanges
  <2>2. Framed(Rows, input', height) \in Nat
    BY <1>0, <1>1, <2>1, FramedIsNat
  <2>3. Sizes'
    BY <1>5, <2>1, <2>2 DEF InputChanges, TranscriptInv, Sizes, LineLength, Columns
  <2>4. Text'
    BY <1>5 DEF InputChanges, TranscriptInv, Text, said
  <2>5. LinesAreTheText'
    BY <1>5 DEF InputChanges, TranscriptInv, LinesAreTheText, said, LineLength, Columns
  <2> QED
    BY <2>3, <2>4, <2>5 DEF TranscriptInv
<1>6. CASE Resize
  <2>1. window' \in Windows /\ length' = LineLength' /\ text' = text /\ buffer' = buffer
        /\ show' = show /\ input' = input
    BY <1>6 DEF Resize, said
  <2>2. Rows' \in Nat /\ LineLength' \in Nat
    <3>1. (window \in Windows)'
      BY <2>1
    <3>2. (Rows \in Nat /\ Columns \in Nat /\ LineLength \in Nat)'
      BY <3>1, WindowSizes, PTL
    <3> QED
      BY <3>2
  <2>3. Framed(Rows', input, Rows') \in Nat
    BY <1>0, <2>2, FramedIsNat
  <2>4. Text'
    BY <2>1 DEF TranscriptInv, Text
  <2>5. LinesAreTheText'
    <3>1. CASE length' = length
      <4>1. rendered' = rendered
        BY <1>6, <3>1 DEF Resize
      <4>2. LineLength' = LineLength
        BY <1>0, <2>1, <3>1
      <4> QED
        BY <2>1, <4>1, <4>2 DEF TranscriptInv, LinesAreTheText
    <3>2. CASE length' # length
      <4>1. rendered' = Full(text, buffer, length', show)
        BY <1>6, <3>2 DEF Resize
      <4> QED
        BY <2>1, <4>1 DEF LinesAreTheText
    <3> QED
      BY <3>1, <3>2
  <2>6. Len(rendered') \in Nat
    <3>1. text \in Seq(Saids)
      BY DEF TranscriptInv, Text
    <3>2. CASE length' = length
      BY <1>2, <1>6, <3>2 DEF Resize
    <3>3. CASE length' # length
      <4> DEFINE p == Saved(text, length', show)
                 q == LinesOf(buffer, length', show, TRUE)
      <4>1. p \in Seq(Fit(show, FALSE)) /\ q \in Seq(Fit(show, TRUE))
        BY <1>0, <2>1, <2>2, <3>1, SavedFits, LinesFit
      <4>2. rendered' = p \o q
        BY <1>6, <3>3 DEF Resize, Full
      <4> HIDE DEF p, q
      <4>3. p \in Seq(ScreenLines) /\ q \in Seq(ScreenLines)
        <5>1. Fit(show, FALSE) \subseteq ScreenLines /\ Fit(show, TRUE) \subseteq ScreenLines
          BY DEF Fit
        <5> QED
          BY <4>1, <5>1, SeqMonotonic
      <4>4. p \o q \in Seq(ScreenLines)
        BY <4>3, ConcatProperties
      <4> QED
        BY <4>2, <4>4, LenProperties
    <3> QED
      BY <3>2, <3>3
  <2>7. shift' \in Nat
    <3> DEFINE most  == Max({1, Rows' - 2})
               limit == Max({0, Len(rendered') - most + 1})
    <3>1. shift' = Min({shift, limit})
      BY <1>6 DEF Resize
    <3>2. Rows' - 2 \in Int
      BY <2>2
    <3>3. most \in Int
      BY <3>2, LargerOfTwo
    <3> HIDE DEF most
    <3> DEFINE left == Len(rendered') - most + 1
    <3>4. left \in Int
      BY <2>6, <3>3
    <3> HIDE DEF left
    <3>5. Max({0, left}) = IF 0 >= left THEN 0 ELSE left
      BY <3>4, LargerOfTwo
    <3>6. limit \in Nat
      BY <3>4, <3>5 DEF left
    <3> HIDE DEF limit
    <3>7. Min({shift, limit}) = IF shift <= limit THEN shift ELSE limit
      BY <1>0, <3>6, LargerOfTwo
    <3> QED
      BY <1>0, <3>1, <3>6, <3>7
  <2>8. height' \in Nat
    BY <1>6, <2>3 DEF Resize
  <2>9. Sizes'
    BY <1>0, <2>1, <2>7, <2>8 DEF Sizes
  <2> QED
    BY <2>4, <2>5, <2>9 DEF TranscriptInv
<1>7. ASSUME NEW lines \in Int, lines >= 0, ScrollUp(lines) \/ ScrollDown(lines)
      PROVE  TranscriptInv'
  <2>1. UNCHANGED <<window, input, height, said, rendered, length, show>>
    BY <1>7 DEF ScrollUp, ScrollDown
  <2>2. shift' \in Nat
    <3>1. CASE ScrollUp(lines)
      <4> DEFINE more == shift + lines
      <4>1. more \in Nat
        BY <1>0, <1>7
      <4> HIDE DEF more
      <4>2. MaxShift \in Nat
        <5>1. TextHeight \in Int
          BY <1>0 DEF TextHeight
        <5> DEFINE left == Len(rendered) - TextHeight + 1
        <5>2. left \in Int
          BY <1>2, <5>1
        <5> HIDE DEF left
        <5>3. Max({0, left}) = IF 0 >= left THEN 0 ELSE left
          BY <5>2, LargerOfTwo
        <5> QED
          BY <5>2, <5>3 DEF MaxShift, left
      <4>3. Min({more, MaxShift}) = IF more <= MaxShift THEN more ELSE MaxShift
        BY <4>1, <4>2, LargerOfTwo
      <4>4. shift' = shift \/ shift' = Min({more, MaxShift})
        BY <3>1 DEF ScrollUp, more
      <4> QED
        BY <1>0, <4>1, <4>2, <4>3, <4>4
    <3>2. CASE ScrollDown(lines)
      <4> DEFINE less == shift - lines
      <4>1. less \in Int
        BY <1>0, <1>7
      <4> HIDE DEF less
      <4>2. Max({0, less}) = IF 0 >= less THEN 0 ELSE less
        BY <4>1, LargerOfTwo
      <4>3. shift' = Max({0, less})
        BY <3>2 DEF ScrollDown, less
      <4> QED
        BY <4>1, <4>2, <4>3
    <3> QED
      BY <1>7, <3>1, <3>2
  <2>3. Sizes'
    BY <2>1, <2>2 DEF TranscriptInv, Sizes, LineLength, Columns
  <2>4. Text' /\ LinesAreTheText'
    BY <2>1 DEF TranscriptInv, Text, LinesAreTheText, said, LineLength, Columns
  <2> QED
    BY <2>3, <2>4 DEF TranscriptInv
<1>8. TextHeight \in Int /\ TextHeight >= 0
  BY <1>0 DEF TextHeight
<1>9. CASE Up \/ Down
  BY <1>7, <1>9 DEF Up, Down
<1>10. CASE PageUp \/ PageDown
  BY <1>7, <1>8, <1>10 DEF PageUp, PageDown
<1>11. CASE UNCHANGED vars
  <2>1. UNCHANGED <<window, input, height, text, buffer, rendered, length, show, shift>>
    BY <1>11 DEF vars, said
  <2> QED
    BY <2>1 DEF TranscriptInv, Sizes, Text, LinesAreTheText, LineLength, Columns
<1> QED
  BY <1>3, <1>4, <1>5, <1>6, <1>9, <1>10, <1>11 DEF Next

-----------------------------------------------------------------------------
THEOREM TranscriptCorrect == Spec => []TranscriptInv
<1>1. TranscriptInv /\ [Next]_vars => TranscriptInv'
  BY AddingText, OtherSteps
<1> QED
  BY <1>1, TranscriptInit, PTL DEF Spec

\* Whatever was said, at whatever width, the lines kept are those that rendering
\* everything would give.
THEOREM LinesStayTheText == Spec => []LinesAreTheText
<1>1. TranscriptInv => LinesAreTheText
  BY DEF TranscriptInv
<1> QED
  BY <1>1, TranscriptCorrect, PTL

\* Hidden reasoning is not on the screen.
THEOREM ReasoningStaysHidden == Spec => []ReasoningHidden
<1>1. TranscriptInv => ReasoningHidden
  <2> SUFFICES ASSUME TranscriptInv, ~show, NEW i \in DOMAIN rendered,
                      rendered[i].origin = "reasoning"
               PROVE  rendered[i].txt = Marker
    BY DEF ReasoningHidden
  <2>1. rendered[i] \in Fit(show, FALSE) \cup Fit(show, TRUE)
    BY RenderedIsSeq
  <2>2. Hidden(rendered[i].origin, show)
    BY DEF Hidden
  <2> QED
    BY <2>1, <2>2 DEF Fit
<1> QED
  BY <1>1, TranscriptCorrect, PTL

\* Of n lines a panel of h lines shows one or more, and the last when nothing
\* is scrolled.
LEMMA PanelShowsLines ==
    ASSUME NEW n \in Nat, n # 0, NEW h \in Nat, h >= 2, NEW scrolled \in Nat
    PROVE  LET last == n - Min({scrolled, Max({0, n - h + 1})})
           IN  /\ last \in Max({1, last - h + 1})..last
               /\ scrolled = 0 => last = n
<1> DEFINE left == n - h + 1
           most == Max({0, left})
           back == Min({scrolled, most})
           last == n - back
           low  == last - h + 1
<1>1. left \in Int /\ left <= n - 1
  OBVIOUS
<1>2. most \in Nat /\ most <= n - 1
  <2> HIDE DEF left
  <2>1. most = IF 0 >= left THEN 0 ELSE left
    BY <1>1, LargerOfTwo
  <2> HIDE DEF most
  <2> QED
    BY <1>1, <2>1
<1>3. back \in Nat /\ back <= n - 1 /\ (scrolled = 0 => back = 0)
  <2> HIDE DEF most
  <2>0. scrolled \in Int /\ most \in Int
    BY <1>2
  <2>1. back = IF scrolled <= most THEN scrolled ELSE most
    BY <2>0, LargerOfTwo
  <2> HIDE DEF back
  <2> QED
    BY <1>2, <2>1
<1> HIDE DEF back
<1>4. last \in 1..n /\ (scrolled = 0 => last = n)
  BY <1>3
<1>5. low \in Int /\ low <= last
  BY <1>4
<1>6. last \in Max({1, low})..last
  <2> HIDE DEF low, last
  <2>1. Max({1, low}) = IF 1 >= low THEN 1 ELSE low
    BY <1>5, LargerOfTwo
  <2> QED
    BY <1>4, <1>5, <2>1
<1> QED
  BY <1>4, <1>6 DEF back

LEMMA RoomForTwo ==
    ASSUME height \in Nat, height > 3
    PROVE  TextHeight \in Nat /\ TextHeight >= 2
BY DEF TextHeight

\* What arrives is shown, and scrolling never leaves an empty panel.
THEOREM NewestStaysInView == Spec => NewestInView
<1> DEFINE Step == height' > 3 /\ rendered' # <<>> =>
                       /\ Shown' # {}
                       /\ said' # said => Len(rendered') \in Shown'
<1>1. ASSUME TranscriptInv', [Next]_vars PROVE [Step]_vars
  <2> SUFFICES ASSUME Next, height' > 3, rendered' # <<>>
               PROVE  /\ Shown' # {}
                      /\ said' # said => Len(rendered') \in Shown'
    BY <1>1
  <2> DEFINE n    == Len(rendered')
             h    == TextHeight'
             last == n - Min({shift', Max({0, n - h + 1})})
  <2>1. height' \in Nat /\ shift' \in Nat
    BY <1>1 DEF TranscriptInv, Sizes
  <2>2. n \in Nat /\ n # 0
    <3>1. (Len(rendered) \in Nat /\ (rendered # <<>> => Len(rendered) # 0))'
      BY <1>1, RenderedIsSeq, PTL
    <3> QED
      BY <3>1
  <2>3. h \in Nat /\ h >= 2
    <3>1. (height \in Nat /\ height > 3)'
      BY <2>1
    <3>2. (TextHeight \in Nat /\ TextHeight >= 2)'
      BY <3>1, RoomForTwo, PTL
    <3> QED
      BY <3>2
  <2>4. Shown' = Max({1, last - h + 1})..last
    BY DEF Shown, MaxShift
  <2>5. last \in Shown' /\ (shift' = 0 => last = n)
    <3> HIDE DEF n, h
    <3> QED
      BY <2>1, <2>2, <2>3, <2>4, PanelShowsLines
  <2>6. ASSUME said' # said PROVE shift' = 0
    <3>1. AddText \/ Clear
      BY <2>6 DEF Next, SetShowReasoning, InputChanges, Resize, Up, Down, PageUp, PageDown,
                  ScrollUp, ScrollDown
    <3> QED
      BY <3>1 DEF AddText, Clear
  <2> QED
    BY <2>5, <2>6
<1>2. TranscriptInv' /\ [Next]_vars => [Step]_vars
  BY <1>1
<1> QED
  BY <1>2, TranscriptCorrect, PTL DEF Spec, NewestInView
=============================================================================
