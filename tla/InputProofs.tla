----------------------------- MODULE InputProofs -----------------------------
(***************************************************************************)
(* What the keys that Terminal delivers go to.  The message being written: *)
(* for any characters, commands, files and sizes of the window the editor  *)
(* implements one text with a cursor, shows it as typed and offers what    *)
(* fits.  The confirm box: for any number of boxes, no lost wake-up, and   *)
(* no consent left over from an earlier box.                               *)
(***************************************************************************)
EXTENDS InputEditor, ConfirmDialogue, SequenceTheorems, WellFoundedInduction, TLAPS


-----------------------------------------------------------------------------
(***************************************************************************)
(* Smallest and largest elements.                                          *)
(***************************************************************************)

LEMMA SmallestNat ==
    ASSUME NEW T, T \subseteq Nat, T # {}
    PROVE  \E x \in T : \A y \in T : x <= y
<1> DEFINE R == OpToRel(<, Nat)
<1>1. IsWellFoundedOn(R, Nat)
  BY NatLessThanWellFounded
<1>2. \A x, y \in Nat : <<x, y>> \in R <=> x < y
  BY DEF OpToRel
<1> HIDE DEF R
<1>3. PICK x \in T : \A y \in T : ~(<<y, x>> \in R)
  BY <1>1, WFMin
<1>4. \A y \in T : ~(y < x)
  BY <1>2, <1>3
<1> QED
  BY <1>4

\* What holds for 0, and for n + 1 when it holds for n, holds for all.
LEMMA StepByStep ==
    ASSUME NEW Good, NEW last \in Nat, 0 \in Good,
           \A n \in 0..last - 1 : n \in Good => n + 1 \in Good
    PROVE  0..last \subseteq Good
<1> DEFINE Bad == {n \in Nat : n <= last /\ n \notin Good}
<1>1. CASE Bad = {}
  BY <1>1
<1>2. CASE Bad # {}
  <2>1. Bad \subseteq Nat
    OBVIOUS
  <2>2. PICK x \in Bad : \A y \in Bad : x <= y
    <3> HIDE DEF Bad
    <3> QED
      BY <1>2, <2>1, SmallestNat
  <2>3. x \in Nat /\ x <= last /\ x \notin Good /\ x # 0
    OBVIOUS
  <2>4. x - 1 \in 0..last - 1 /\ x - 1 + 1 = x /\ x - 1 \notin Bad
    BY <2>2, <2>3
  <2>5. x - 1 \in Good
    BY <2>4
  <2> QED
    BY <2>3, <2>4, <2>5
<1> QED
  BY <1>1, <1>2

LEMMA LargestIsMax ==
    ASSUME NEW T, T \subseteq Nat, T # {}, NEW n \in Nat, \A x \in T : x <= n
    PROVE  Max(T) \in T /\ \A y \in T : Max(T) >= y
<1> DEFINE D == {n - x : x \in T}
<1>1. D \subseteq Nat /\ D # {}
  <2>1. \A x \in T : n - x \in Nat
    OBVIOUS
  <2>2. \E x \in T : n - x \in D
    OBVIOUS
  <2> QED
    BY <2>1, <2>2
<1>2. PICK d \in D : \A y \in D : d <= y
  <2> HIDE DEF D
  <2> QED
    BY <1>1, SmallestNat
<1>3. PICK x \in T : d = n - x
  OBVIOUS
<1>4. \A y \in T : x >= y
  <2> TAKE y \in T
  <2>1. n - y \in D
    OBVIOUS
  <2>2. n - x <= n - y
    BY <1>2, <1>3, <2>1
  <2> QED
    BY <2>2
<1> QED
  BY <1>4 DEF Max

LEMMA LargerOfTwo ==
    ASSUME NEW a \in Int, NEW b \in Int
    PROVE  /\ Max({a, b}) = IF a >= b THEN a ELSE b
           /\ Min({a, b}) = IF a <= b THEN a ELSE b
BY DEF Max, Min

-----------------------------------------------------------------------------
(***************************************************************************)
(* FlattenSeq.                                                             *)
(***************************************************************************)

\* f are the concatenations of the first sequences of s, up to n.
Gathers(f, s, n) == \A i \in 1..n : f[i] = IF i = 1 THEN s[i] ELSE f[i - 1] \o s[i]

LEMMA GathersOnce ==
    ASSUME NEW s, NEW f, NEW g, NEW last \in Nat, Gathers(f, s, last), Gathers(g, s, last)
    PROVE  \A n \in 1..last : f[n] = g[n]
<1> DEFINE Good == {n \in Nat : n = 0 \/ f[n] = g[n]}
<1>1. ASSUME NEW n \in 0..last - 1, n \in Good PROVE n + 1 \in Good
  <2>1. /\ n + 1 \in 1..last /\ n + 1 - 1 = n /\ n + 1 # 0
        /\ n + 1 # 1 => n # 0
    OBVIOUS
  <2>2. /\ f[n + 1] = IF n + 1 = 1 THEN s[n + 1] ELSE f[n] \o s[n + 1]
        /\ g[n + 1] = IF n + 1 = 1 THEN s[n + 1] ELSE g[n] \o s[n + 1]
    BY <2>1 DEF Gathers
  <2>3. n + 1 # 1 => f[n] = g[n]
    BY <1>1, <2>1
  <2>4. f[n + 1] = g[n + 1]
    BY <2>2, <2>3
  <2> QED
    BY <2>1, <2>4
<1>2. 0 \in Good
  OBVIOUS
<1> HIDE DEF Good
<1>3. 0..last \subseteq Good
  BY <1>1, <1>2, StepByStep
<1>4. \A n \in 1..last : n \in Good /\ n # 0
  BY <1>3
<1> QED
  BY <1>4 DEF Good

LEMMA SomeGathers ==
    ASSUME NEW T, NEW s \in Seq(Seq(T))
    PROVE  \E f \in [1..Len(s) -> Seq(T)] : Gathers(f, s, Len(s))
<1> DEFINE G(n) == {f \in [1..n -> Seq(T)] : Gathers(f, s, n)}
           Good == {n \in Nat : G(n) # {}}
<1>0. Len(s) \in Nat /\ \A i \in 1..Len(s) : s[i] \in Seq(T)
  BY LenProperties, ElementOfSeq
<1>1. 0 \in Good
  <2>1. [i \in 1..0 |-> <<>>] \in G(0)
    BY DEF Gathers
  <2> QED
    BY <2>1
<1>2. ASSUME NEW n \in 0..Len(s) - 1, n \in Good PROVE n + 1 \in Good
  <2>1. PICK f \in [1..n -> Seq(T)] : Gathers(f, s, n)
    BY <1>2
  <2> DEFINE g == [i \in 1..n + 1 |-> IF i <= n THEN f[i]
                                      ELSE IF n = 0 THEN s[1] ELSE f[n] \o s[n + 1]]
  <2>2. n + 1 \in 1..Len(s) /\ 1 \in 1..Len(s) /\ n \in Nat
    BY <1>0, <1>2
  <2>3. s[1] \in Seq(T) /\ s[n + 1] \in Seq(T)
    BY <1>0, <2>2
  <2>4. n # 0 => f[n] \in Seq(T)
    BY <2>2
  <2>5. n # 0 => f[n] \o s[n + 1] \in Seq(T)
    BY <2>3, <2>4, ConcatProperties
  <2>6. g \in [1..n + 1 -> Seq(T)]
    BY <2>2, <2>3, <2>5
  <2>7. Gathers(g, s, n + 1)
    <3> SUFFICES ASSUME NEW i \in 1..n + 1
                 PROVE  g[i] = IF i = 1 THEN s[i] ELSE g[i - 1] \o s[i]
      BY DEF Gathers
    <3>1. CASE i \in 1..n
      <4>1. f[i] = IF i = 1 THEN s[i] ELSE f[i - 1] \o s[i]
        BY <2>1, <3>1 DEF Gathers
      <4>2. g[i] = f[i] /\ (i # 1 => g[i - 1] = f[i - 1])
        BY <2>2, <3>1
      <4> QED
        BY <4>1, <4>2
    <3>2. CASE i = n + 1
      <4>1. g[i] = IF n = 0 THEN s[1] ELSE f[n] \o s[n + 1]
        BY <2>2, <3>2
      <4>2. n # 0 => g[n] = f[n]
        BY <2>2
      <4>3. i - 1 = n /\ (i = 1 <=> n = 0)
        BY <2>2, <3>2
      <4> QED
        BY <3>2, <4>1, <4>2, <4>3
    <3> QED
      BY <2>2, <3>1, <3>2
  <2>8. g \in G(n + 1)
    BY <2>6, <2>7
  <2>9. n + 1 \in Nat /\ G(n + 1) # {}
    <3> HIDE DEF g, G
    <3> QED
      BY <2>2, <2>8
  <2> QED
    <3> HIDE DEF G
    <3> QED
      BY <2>9
<1> HIDE DEF Good
<1>3. 0..Len(s) \subseteq Good
  BY <1>0, <1>1, <1>2, StepByStep
<1>4. Len(s) \in Good
  BY <1>0, <1>3
<1> QED
  BY <1>4 DEF Good

\* What FlattenSeq returns is the last of these concatenations.
LEMMA FlattenGathers ==
    ASSUME NEW T, NEW s \in Seq(Seq(T)), NEW g, Gathers(g, s, Len(s))
    PROVE  /\ Len(s) = 0 => FlattenSeq(s) = <<>>
           /\ Len(s) # 0 => FlattenSeq(s) = g[Len(s)] /\ FlattenSeq(s) \in Seq(T)
<1>1. Len(s) \in Nat /\ (Len(s) = 0 => s = <<>>)
  BY LenProperties, EmptySeq
<1>2. PICK h \in [1..Len(s) -> Seq(T)] : Gathers(h, s, Len(s))
  BY SomeGathers
<1>3. h = [i \in 1..Len(s) |-> IF i = 1 THEN s[i] ELSE h[i - 1] \o s[i]]
  BY <1>2 DEF Gathers
<1>4. \E f : f = [i \in 1..Len(s) |-> IF i = 1 THEN s[i] ELSE f[i - 1] \o s[i]]
  BY <1>3
<1>5. PICK f : /\ f = [i \in 1..Len(s) |-> IF i = 1 THEN s[i] ELSE f[i - 1] \o s[i]]
               /\ FlattenSeq(s) = IF Len(s) = 0 THEN s ELSE f[Len(s)]
  BY <1>4 DEF FlattenSeq
<1>6. Gathers(f, s, Len(s))
  BY <1>5 DEF Gathers
<1>7. \A n \in 1..Len(s) : f[n] = g[n] /\ f[n] = h[n]
  BY <1>1, <1>2, <1>6, GathersOnce
<1>8. Len(s) # 0 => Len(s) \in 1..Len(s) /\ h[Len(s)] \in Seq(T)
  <2>1. Len(s) # 0 => Len(s) \in 1..Len(s)
    BY <1>1
  <2>2. \A i \in 1..Len(s) : h[i] \in Seq(T)
    BY <1>2
  <2> QED
    BY <2>1, <2>2
<1>9. Len(s) # 0 => f[Len(s)] = g[Len(s)] /\ f[Len(s)] = h[Len(s)]
  BY <1>7, <1>8
<1> QED
  BY <1>1, <1>5, <1>8, <1>9

LEMMA FlattenIsSeq ==
    ASSUME NEW T, NEW s \in Seq(Seq(T))
    PROVE  FlattenSeq(s) \in Seq(T)
<1>1. PICK f \in [1..Len(s) -> Seq(T)] : Gathers(f, s, Len(s))
  BY SomeGathers
<1>2. <<>> \in Seq(T)
  BY EmptySeq
<1> QED
  BY <1>1, <1>2, FlattenGathers

LEMMA FlattenAppend ==
    ASSUME NEW T, NEW s \in Seq(Seq(T)), NEW x \in Seq(T)
    PROVE  FlattenSeq(Append(s, x)) = FlattenSeq(s) \o x
<1> DEFINE n == Len(s)
           t == Append(s, x)
<1>1. /\ n \in Nat /\ t \in Seq(Seq(T)) /\ Len(t) = n + 1
      /\ \A i \in 1..n : t[i] = s[i]
      /\ t[n + 1] = x
  BY AppendProperties, LenProperties
<1> HIDE DEF t
<1>2. PICK g : Gathers(g, t, n + 1)
  BY <1>1, SomeGathers
<1>3. Gathers(g, s, n)
  <2>1. \A i \in 1..n : i \in 1..n + 1
    BY <1>1
  <2> QED
    BY <1>1, <1>2, <2>1 DEF Gathers
<1>4. n + 1 \in 1..n + 1 /\ n + 1 - 1 = n /\ n + 1 # 0 /\ (n # 0 => n + 1 # 1)
  BY <1>1
<1>5. g[n + 1] = IF n + 1 = 1 THEN t[n + 1] ELSE g[n] \o t[n + 1]
  <2>0. n \in Nat
    BY <1>1
  <2> HIDE DEF n
  <2>1. PICK i \in 1..n + 1 : i = n + 1 /\ i - 1 = n
    BY <2>0
  <2>2. g[i] = IF i = 1 THEN t[i] ELSE g[i - 1] \o t[i]
    BY <1>2 DEF Gathers
  <2> QED
    BY <2>1, <2>2, Zenon
<1>6. FlattenSeq(t) = g[n + 1]
  <2>1. t \in Seq(Seq(T)) /\ Gathers(g, t, Len(t)) /\ Len(t) # 0 /\ Len(t) = n + 1
    BY <1>1, <1>2, <1>4
  <2> HIDE DEF n
  <2> QED
    BY <2>1, FlattenGathers
<1>7. CASE n = 0
  <2>1. FlattenSeq(s) = <<>>
    BY <1>3, <1>7, FlattenGathers
  <2>2. FlattenSeq(t) = x
    BY <1>1, <1>5, <1>6, <1>7
  <2> QED
    BY <2>1, <2>2, ConcatEmptySeq DEF t
<1>8. CASE n # 0
  <2>1. FlattenSeq(s) = g[n]
    BY <1>3, <1>8, FlattenGathers
  <2> QED
    BY <1>1, <1>4, <1>5, <1>6, <1>8, <2>1 DEF t
<1> QED
  BY <1>7, <1>8

LEMMA FlattenNone == FlattenSeq(<<>>) = <<>>
<1>1. <<>> \in Seq(Seq({})) /\ Len(<<>>) = 0
  BY EmptySeq
<1>2. Gathers(<<>>, <<>>, Len(<<>>))
  BY <1>1 DEF Gathers
<1> QED
  BY <1>1, <1>2, FlattenGathers

LEMMA FlattenOne ==
    ASSUME NEW T, NEW x \in Seq(T)
    PROVE  <<x>> \in Seq(Seq(T)) /\ FlattenSeq(<<x>>) = x
<1>1. <<>> \in Seq(Seq(T)) /\ Append(<<>>, x) = <<x>>
  BY EmptySeq
<1>2. FlattenSeq(Append(<<>>, x)) = FlattenSeq(<<>>) \o x
  BY <1>1, FlattenAppend
<1>3. <<>> \o x = x
  BY ConcatEmptySeq
<1>4. \A S : x \in S => <<x>> \in Seq(S)
  OBVIOUS
<1> QED
  BY <1>1, <1>2, <1>3, <1>4, FlattenNone

\* Joining sequences can be regrouped.
Regrouped(a, b, x) == (a \o b) \o x = a \o (b \o x)

LEMMA Regroup ==
    ASSUME NEW T, NEW a, NEW b, NEW x, a \in Seq(T), b \in Seq(T), x \in Seq(T)
    PROVE  Regrouped(a, b, x)
BY ConcatAssociative DEF Regrouped

LEMMA FlattenJoin ==
    ASSUME NEW T, NEW s \in Seq(Seq(T)), NEW t \in Seq(Seq(T))
    PROVE  FlattenSeq(s \o t) = FlattenSeq(s) \o FlattenSeq(t)
<1> DEFINE Good == {k \in Nat : \A u \in Seq(Seq(T)) :
                        Len(u) = k => FlattenSeq(s \o u) = FlattenSeq(s) \o FlattenSeq(u)}
<1>1. FlattenSeq(s) \in Seq(T)
  BY FlattenIsSeq
<1>2. 0 \in Good
  <2> SUFFICES ASSUME NEW u \in Seq(Seq(T)), Len(u) = 0
               PROVE  FlattenSeq(s \o u) = FlattenSeq(s) \o FlattenSeq(u)
    OBVIOUS
  <2>1. u = <<>>
    BY EmptySeq
  <2>2. s \o u = s /\ FlattenSeq(u) = <<>>
    BY <2>1, ConcatEmptySeq, FlattenNone
  <2> QED
    BY <1>1, <2>2, ConcatEmptySeq
<1>3. ASSUME NEW k \in 0..Len(t) - 1, k \in Good PROVE k + 1 \in Good
  <2>1. k \in Nat /\ k + 1 \in Nat /\ k + 1 # 0
    BY LenProperties
  <2> SUFFICES ASSUME NEW u \in Seq(Seq(T)), Len(u) = k + 1
               PROVE  FlattenSeq(s \o u) = FlattenSeq(s) \o FlattenSeq(u)
    BY <2>1
  <2>2. u # <<>>
    BY <2>1, EmptySeq
  <2>3. PICK v \in Seq(Seq(T)), x \in Seq(T) : u = Append(v, x)
    BY <2>2, SequenceEmptyOrAppend
  <2>4. Len(v) = k
    <3>1. Len(Append(v, x)) = Len(v) + 1 /\ Len(v) \in Nat
      BY AppendProperties, LenProperties
    <3> QED
      BY <2>1, <2>3, <3>1
  <2>5. FlattenSeq(s \o v) = FlattenSeq(s) \o FlattenSeq(v)
    BY <1>3, <2>4
  <2>6. s \o u = Append(s \o v, x) /\ s \o v \in Seq(Seq(T))
    <3>1. <<x>> \in Seq(Seq(T))
      BY FlattenOne
    <3>2. u = v \o <<x>> /\ s \o v \in Seq(Seq(T))
      BY <2>3, AppendIsConcat, ConcatProperties
    <3>3. Append(s \o v, x) = (s \o v) \o <<x>>
      BY <3>2, AppendIsConcat
    <3> DEFINE y == <<x>>
    <3>4. y \in Seq(Seq(T))
      BY <3>1
    <3> HIDE DEF y
    <3>5. Regrouped(s, v, y)
      BY <2>3, <3>4, Regroup
    <3>6. (s \o v) \o <<x>> = s \o (v \o <<x>>)
      BY <3>5 DEF Regrouped, y
    <3> QED
      BY <3>2, <3>3, <3>6
  <2>7. FlattenSeq(s \o u) = (FlattenSeq(s) \o FlattenSeq(v)) \o x
    BY <2>5, <2>6, FlattenAppend
  <2>8. FlattenSeq(u) = FlattenSeq(v) \o x /\ FlattenSeq(v) \in Seq(T)
    BY <2>3, FlattenAppend, FlattenIsSeq
  <2> DEFINE a == FlattenSeq(s)
             b == FlattenSeq(v)
  <2>9. a \in Seq(T) /\ b \in Seq(T)
    BY <1>1, <2>8
  <2> HIDE DEF a, b
  <2>10. Regrouped(a, b, x)
    BY <2>3, <2>9, Regroup
  <2>11. (a \o b) \o x = a \o (b \o x)
    BY <2>10 DEF Regrouped
  <2> QED
    BY <2>7, <2>8, <2>11 DEF a, b
<1>4. Len(t) \in Nat
  BY LenProperties
<1> HIDE DEF Good
<1>5. 0..Len(t) \subseteq Good
  BY <1>2, <1>3, <1>4, StepByStep
<1>6. Len(t) \in Good
  BY <1>4, <1>5
<1> QED
  BY <1>6 DEF Good

-----------------------------------------------------------------------------
(***************************************************************************)
(* SplitText.                                                              *)
(***************************************************************************)

\* A line ends where it begins, or later, and within the text.
LEMMA LineEndsInText ==
    ASSUME NEW T, NEW txt \in Seq(T), NEW i \in 1..Len(txt), NEW width \in Nat \ {0},
           txt[i] # "nl"
    PROVE  LineEnd(txt, i, width) \in i..Len(txt)
<1> DEFINE reach  == {j \in i..Len(txt) : j < i + width /\ \A k \in i..j : txt[k] # "nl"}
           breaks == {k \in reach : txt[k] \in BreakChars}
<1>1. Len(txt) \in Nat
  BY LenProperties
<1>2. reach \subseteq i..Len(txt) /\ breaks \subseteq reach
  OBVIOUS
<1>3. i \in reach
  BY <1>1
<1>4. \A T1 \in SUBSET reach : T1 # {} => Max(T1) \in T1
  <2> TAKE T1 \in SUBSET reach
  <2> HAVE T1 # {}
  <2>1. T1 \subseteq Nat /\ \A x \in T1 : x <= Len(txt)
    BY <1>1, <1>2
  <2> HIDE DEF reach
  <2> QED
    BY <1>1, <2>1, LargestIsMax
<1>5. LineEnd(txt, i, width) =
        IF (Max(reach) = Len(txt) \/ Max(reach) < i + width - 1) \/ breaks = {}
        THEN Max(reach) ELSE Max(breaks)
  BY DEF LineEnd
<1> HIDE DEF reach, breaks
<1>6. Max(reach) \in reach /\ (breaks # {} => Max(breaks) \in breaks)
  BY <1>2, <1>3, <1>4
<1> QED
  BY <1>2, <1>5, <1>6

\* What begins at i is split into lines, and what follows the line as well.
Splits(f, txt, width, i) ==
    f[i] = IF i > Len(txt) THEN <<>>
           ELSE IF txt[i] = "nl" THEN f[i + 1]
           ELSE <<SubSeq(txt, i, LineEnd(txt, i, width))>> \o f[LineEnd(txt, i, width) + 1]

\* Where what follows i is split, what begins at i can be.
LEMMA SplitBefore ==
    ASSUME NEW T, NEW txt \in Seq(T), NEW width \in Nat \ {0}, NEW i \in 1..Len(txt), NEW f,
           \A j \in i + 1..Len(txt) + 1 : f[j] \in Seq(Seq(T))
    PROVE  (IF txt[i] = "nl" THEN f[i + 1]
            ELSE <<SubSeq(txt, i, LineEnd(txt, i, width))>> \o f[LineEnd(txt, i, width) + 1])
               \in Seq(Seq(T))
<1>1. Len(txt) \in Nat /\ i \in Nat
  BY LenProperties
<1>2. CASE txt[i] = "nl"
  <2>1. i + 1 \in i + 1..Len(txt) + 1
    BY <1>1
  <2> QED
    BY <1>2, <2>1
<1>3. CASE txt[i] # "nl"
  <2> DEFINE end == LineEnd(txt, i, width)
  <2>1. end \in i..Len(txt)
    BY <1>3, LineEndsInText
  <2> HIDE DEF end
  <2>2. end + 1 \in i + 1..Len(txt) + 1
    BY <1>1, <2>1
  <2>3. f[end + 1] \in Seq(Seq(T))
    BY <2>2
  <2>4. SubSeq(txt, i, end) \in Seq(T)
    <3>1. \A j \in i..end : txt[j] \in T
      BY <1>1, <2>1, ElementOfSeq
    <3> QED
      BY <1>1, <2>1, <3>1, SubSeqProperties
  <2>5. <<SubSeq(txt, i, end)>> \in Seq(Seq(T))
    <3> DEFINE u == SubSeq(txt, i, end)
    <3> HIDE DEF u
    <3>1. \A S : u \in S => <<u>> \in Seq(S)
      OBVIOUS
    <3> QED
      BY <2>4, <3>1 DEF u
  <2>6. <<SubSeq(txt, i, end)>> \o f[end + 1] \in Seq(Seq(T))
    BY <2>3, <2>5, ConcatProperties
  <2> QED
    BY <1>3, <2>6 DEF end
<1> QED
  BY <1>2, <1>3

\* There is such a split.
LEMMA SomeSplit ==
    ASSUME NEW T, NEW txt \in Seq(T), NEW width \in Nat \ {0}
    PROVE  \E f \in [1..Len(txt) + 1 -> Seq(Seq(T))] :
               \A i \in 1..Len(txt) + 1 : Splits(f, txt, width, i)
<1> DEFINE n == Len(txt)
           G(k) == {f \in [n + 1 - k..n + 1 -> Seq(Seq(T))] :
                        \A i \in n + 1 - k..n + 1 : Splits(f, txt, width, i)}
           Good == {k \in Nat : G(k) # {}}
<1>1. n \in Nat
  BY LenProperties
<1>2. <<>> \in Seq(Seq(T))
  BY EmptySeq
<1> HIDE DEF n
<1>3. 0 \in Good
  <2> DEFINE f == [i \in n + 1..n + 1 |-> <<>>]
  <2>1. n + 1 - 0 = n + 1 /\ \A i \in n + 1..n + 1 : i > n
    BY <1>1
  <2>2. f \in [n + 1..n + 1 -> Seq(Seq(T))]
    BY <1>2
  <2>3. \A i \in n + 1..n + 1 : f[i] = <<>>
    OBVIOUS
  <2> HIDE DEF f
  <2>4. \A i \in n + 1..n + 1 : Splits(f, txt, width, i)
    BY <2>1, <2>3 DEF Splits, n
  <2>5. f \in G(0)
    BY <2>1, <2>2, <2>4
  <2> HIDE DEF G
  <2> QED
    BY <2>5
<1>4. ASSUME NEW k \in 0..n - 1, k \in Good PROVE k + 1 \in Good
  <2> DEFINE m == n - k
  <2>1. /\ m \in 1..n /\ n + 1 - k = m + 1 /\ n + 1 - (k + 1) = m /\ k + 1 \in Nat
        /\ \A j \in m..n + 1 : j = m \/ j \in m + 1..n + 1
        /\ \A j \in m + 1..n + 1 : j \in m..n + 1 /\ j # m /\ j \in Int
        /\ \A j \in m + 1..n : j + 1 \in m + 1..n + 1
    BY <1>1
  <2> HIDE DEF m
  <2>2. PICK f : f \in G(k)
    <3> HIDE DEF G
    <3> QED
      BY <1>4
  <2>3. /\ f \in [m + 1..n + 1 -> Seq(Seq(T))]
        /\ \A i \in m + 1..n + 1 : Splits(f, txt, width, i)
    BY <2>1, <2>2
  <2> DEFINE here == IF txt[m] = "nl" THEN f[m + 1]
                     ELSE <<SubSeq(txt, m, LineEnd(txt, m, width))>>
                              \o f[LineEnd(txt, m, width) + 1]
             g == [i \in m..n + 1 |-> IF i = m THEN here ELSE f[i]]
  <2>4. here \in Seq(Seq(T))
    <3>1. \A j \in m + 1..n + 1 : f[j] \in Seq(Seq(T))
      BY <2>3
    <3> QED
      BY <2>1, <3>1, SplitBefore DEF n
  <2>5. g \in [m..n + 1 -> Seq(Seq(T))]
    <3> HIDE DEF here
    <3> QED
      BY <2>1, <2>3, <2>4
  <2>6. g[m] = here /\ \A j \in m + 1..n + 1 : g[j] = f[j]
    <3>1. m \in m..n + 1
      BY <1>1, <2>1
    <3> HIDE DEF here
    <3> QED
      BY <2>1, <3>1
  <2> HIDE DEF g
  <2>7. \A i \in 1..n : i >= m /\ txt[i] # "nl"
                            => LineEnd(txt, i, width) + 1 \in m + 1..n + 1
    <3> TAKE i \in 1..n
    <3> HAVE i >= m /\ txt[i] # "nl"
    <3>1. LineEnd(txt, i, width) \in i..n
      BY LineEndsInText DEF n
    <3> QED
      BY <1>1, <2>1, <3>1
  <2>8. \A i \in m..n + 1 : Splits(g, txt, width, i)
    <3> TAKE i \in m..n + 1
    <3>1. CASE i = m
      <4>1. ~(m > n) /\ m + 1 \in m + 1..n + 1 /\ m >= m
        BY <1>1, <2>1
      <4>2. g[m + 1] = f[m + 1]
        BY <2>6, <4>1
      <4>3. txt[m] # "nl" => g[LineEnd(txt, m, width) + 1] = f[LineEnd(txt, m, width) + 1]
        BY <2>1, <2>6, <2>7, <4>1
      <4> QED
        BY <2>6, <3>1, <4>1, <4>2, <4>3 DEF Splits, n
    <3>2. CASE i \in m + 1..n + 1
      <4>1. Splits(f, txt, width, i) /\ g[i] = f[i]
        BY <2>3, <2>6, <3>2
      <4>2. i > n \/ (i \in 1..n /\ i >= m /\ i + 1 \in m + 1..n + 1)
        BY <1>1, <2>1, <3>2
      <4>3. CASE i > n
        BY <4>1, <4>3 DEF Splits, n
      <4>4. CASE ~(i > n)
        <5>1. g[i + 1] = f[i + 1]
          BY <2>6, <4>2, <4>4
        <5>2. txt[i] # "nl" => g[LineEnd(txt, i, width) + 1] = f[LineEnd(txt, i, width) + 1]
          BY <2>6, <2>7, <4>2, <4>4
        <5> QED
          BY <4>1, <4>4, <5>1, <5>2 DEF Splits, n
      <4> QED
        BY <4>3, <4>4
    <3> QED
      BY <2>1, <3>1, <3>2
  <2>9. g \in G(k + 1)
    BY <2>1, <2>5, <2>8
  <2> HIDE DEF G
  <2> QED
    BY <2>1, <2>9
<1>5. n \in Good
  <2> HIDE DEF Good
  <2>1. 0..n \subseteq Good
    BY <1>1, <1>3, <1>4, StepByStep
  <2> QED
    BY <1>1, <2>1
<1>6. n + 1 - n = 1
  BY <1>1
<1>7. PICK f : f \in G(n)
  <2> HIDE DEF G
  <2> QED
    BY <1>5
<1> QED
  BY <1>6, <1>7 DEF n

\* A split of what begins at i: lines that are not empty and, joined, are the
\* text from there on.
Covers(s, txt, i, T) ==
    /\ s \in Seq(Seq(T)) /\ FlattenSeq(s) = SubSeq(txt, i, Len(txt))
    /\ \A k \in 1..Len(s) : s[k] # <<>>

LEMMA CoversMore ==
    ASSUME NEW T, NEW txt \in Seq(T), NEW i \in 1..Len(txt), NEW end \in i..Len(txt), NEW s,
           Covers(s, txt, end + 1, T)
    PROVE  Covers(<<SubSeq(txt, i, end)>> \o s, txt, i, T)
<1> DEFINE x == SubSeq(txt, i, end)
           n == Len(txt)
<1>1. /\ n \in Nat /\ i \in 1..n + 1 /\ i \in Int /\ end \in Int /\ i <= end
      /\ end \in i - 1..n /\ n \in end..n
  BY LenProperties
<1>2. x \in Seq(T) /\ x # <<>>
  <2>1. \A j \in i..end : txt[j] \in T
    BY <1>1, ElementOfSeq
  <2>2. x \in Seq(T) /\ Len(x) = end - i + 1
    BY <1>1, <2>1, SubSeqProperties
  <2> QED
    BY <1>1, <2>2, EmptySeq
<1>3. s \in Seq(Seq(T)) /\ FlattenSeq(s) = SubSeq(txt, end + 1, n)
  BY DEF Covers
<1>4. x \o SubSeq(txt, end + 1, n) = SubSeq(txt, i, n)
  BY <1>1, ConcatAdjacentSubSeq
<1> HIDE DEF x, n
<1>5. <<x>> \in Seq(Seq(T)) /\ Len(<<x>>) = 1 /\ <<x>>[1] = x /\ FlattenSeq(<<x>>) = x
  BY <1>2, FlattenOne
<1>6. /\ <<x>> \o s \in Seq(Seq(T))
      /\ FlattenSeq(<<x>> \o s) = SubSeq(txt, i, n)
  <2>1. <<x>> \o s \in Seq(Seq(T))
    BY <1>3, <1>5, ConcatProperties
  <2>2. FlattenSeq(<<x>> \o s) = FlattenSeq(<<x>>) \o FlattenSeq(s)
    BY <1>3, <1>5, FlattenJoin
  <2> QED
    BY <1>3, <1>4, <1>5, <2>1, <2>2
<1>7. ASSUME NEW k \in 1..Len(<<x>> \o s) PROVE (<<x>> \o s)[k] # <<>>
  <2>1. /\ Len(<<x>> \o s) = 1 + Len(s) /\ Len(s) \in Nat
        /\ (<<x>> \o s)[k] = IF k <= 1 THEN <<x>>[k] ELSE s[k - 1]
    BY <1>3, <1>5, ConcatProperties, LenProperties
  <2>2. k = 1 \/ (~(k <= 1) /\ k - 1 \in 1..Len(s))
    BY <2>1
  <2> QED
    BY <1>2, <1>5, <2>1, <2>2 DEF Covers
<1> QED
  BY <1>6, <1>7 DEF Covers, x, n

\* A text without newlines, split into lines at any width, is what the lines
\* are when they are joined; and only the empty text has an empty line.
LEMMA SplitIsText ==
    ASSUME NEW T, "nl" \notin T, NEW txt \in Seq(T), NEW width \in Int
    PROVE  /\ SplitText(txt, width) \in Seq(Seq(T)) /\ SplitText(txt, width) # <<>>
           /\ FlattenSeq(SplitText(txt, width)) = txt
           /\ txt # <<>> => \A k \in 1..Len(SplitText(txt, width)) : SplitText(txt, width)[k] # <<>>
<1> DEFINE n == Len(txt)
<1>1. n \in Nat /\ \A i \in 1..n : txt[i] \in T /\ txt[i] # "nl"
  BY LenProperties, ElementOfSeq
<1>2. CASE width <= 0 \/ txt = <<>>
  <2>1. SplitText(txt, width) = <<txt>>
    BY <1>2 DEF SplitText
  <2>2. <<txt>> \in Seq(Seq(T)) /\ FlattenSeq(<<txt>>) = txt
    BY FlattenOne
  <2>3. <<txt>> # <<>> /\ \A k \in 1..Len(<<txt>>) : <<txt>>[k] = txt
    OBVIOUS
  <2> QED
    BY <2>1, <2>2, <2>3
<1>3. CASE ~(width <= 0 \/ txt = <<>>)
  <2>1. width \in Nat \ {0} /\ n # 0
    BY <1>3, EmptySeq
  <2>2. PICK h \in [1..n + 1 -> Seq(Seq(T))] : \A i \in 1..n + 1 : Splits(h, txt, width, i)
    BY <2>1, SomeSplit
  <2>3. h = [i \in 1..n + 1 |->
               IF i > Len(txt) THEN <<>>
               ELSE IF txt[i] = "nl" THEN h[i + 1]
               ELSE <<SubSeq(txt, i, LineEnd(txt, i, width))>> \o h[LineEnd(txt, i, width) + 1]]
    BY <2>2 DEF Splits
  <2>4. \E f : f = [i \in 1..n + 1 |->
               IF i > Len(txt) THEN <<>>
               ELSE IF txt[i] = "nl" THEN f[i + 1]
               ELSE <<SubSeq(txt, i, LineEnd(txt, i, width))>> \o f[LineEnd(txt, i, width) + 1]]
    BY <2>3
  <2>5. PICK f : /\ f = [i \in 1..n + 1 |->
                       IF i > Len(txt) THEN <<>>
                       ELSE IF txt[i] = "nl" THEN f[i + 1]
                       ELSE <<SubSeq(txt, i, LineEnd(txt, i, width))>>
                                \o f[LineEnd(txt, i, width) + 1]]
                 /\ SplitText(txt, width) = f[1]
    BY <1>3, <2>4 DEF SplitText
  <2>6. \A i \in 1..n + 1 : Splits(f, txt, width, i)
    BY <2>5 DEF Splits
  <2> DEFINE Good == {k \in Nat : \A j \in n + 1 - k..n + 1 : Covers(f[j], txt, j, T)}
  <2> HIDE DEF n
  <2>7. 0 \in Good
    <3>1. n + 1 \in 1..n + 1 /\ n + 1 > n /\ \A j \in n + 1 - 0..n + 1 : j = n + 1
      BY <1>1
    <3>2. f[n + 1] = <<>>
      BY <2>6, <3>1 DEF Splits, n
    <3>3. Covers(<<>>, txt, n + 1, T)
      <4>1. <<>> \in Seq(Seq(T)) /\ Len(<<>>) = 0 /\ 1..0 = {}
        BY EmptySeq
      <4>2. FlattenSeq(<<>>) = <<>>
        BY FlattenNone
      <4>3. SubSeq(txt, n + 1, n) = <<>>
        BY <1>1, SubSeqEmpty
      <4> QED
        BY <4>1, <4>2, <4>3 DEF Covers, n
    <3> QED
      BY <3>1, <3>2, <3>3
  <2>8. ASSUME NEW k \in 0..n - 1, k \in Good PROVE k + 1 \in Good
    <3> DEFINE m == n - k
    <3>1. /\ m \in 1..n /\ m \in 1..n + 1 /\ ~(m > n) /\ k + 1 \in Nat
          /\ n + 1 - k = m + 1 /\ n + 1 - (k + 1) = m
          /\ \A j \in m..n + 1 : j = m \/ j \in m + 1..n + 1
      BY <1>1
    <3> HIDE DEF m
    <3>2. \A j \in m + 1..n + 1 : Covers(f[j], txt, j, T)
      BY <2>8, <3>1
    <3> DEFINE end == LineEnd(txt, m, width)
    <3>3. f[m] = <<SubSeq(txt, m, end)>> \o f[end + 1]
      BY <1>1, <2>6, <3>1 DEF Splits, n
    <3>4. end \in m..n
      BY <1>1, <2>1, <3>1, LineEndsInText DEF n
    <3> HIDE DEF end
    <3>5. end + 1 \in m + 1..n + 1
      BY <1>1, <3>1, <3>4
    <3>6. Covers(f[end + 1], txt, end + 1, T)
      BY <3>2, <3>5
    <3>7. Covers(f[m], txt, m, T)
      <4>1. m \in 1..Len(txt) /\ end \in m..Len(txt)
        BY <3>1, <3>4 DEF n
      <4>2. Covers(<<SubSeq(txt, m, end)>> \o f[end + 1], txt, m, T)
        BY <3>6, <4>1, CoversMore
      <4> QED
        BY <3>3, <4>2
    <3> QED
      BY <3>1, <3>2, <3>7
  <2>9. n \in Good
    <3> HIDE DEF Good
    <3>1. 0..n \subseteq Good
      BY <1>1, <2>7, <2>8, StepByStep
    <3> QED
      BY <1>1, <3>1
  <2>10. 1 \in n + 1 - n..n + 1
    BY <1>1
  <2>11. Covers(f[1], txt, 1, T)
    BY <2>9, <2>10
  <2>12. SubSeq(txt, 1, n) = txt
    BY SubSeqFull DEF n
  <2>13. f[1] # <<>>
    BY <2>1, <2>11, <2>12, FlattenNone, EmptySeq DEF Covers, n
  <2> QED
    BY <2>5, <2>11, <2>12, <2>13 DEF Covers, n
<1> QED
  BY <1>2, <1>3
-----------------------------------------------------------------------------
(***************************************************************************)
(* The entered lines as they are shown.                                    *)
(***************************************************************************)

\* The lines make this text when they are joined.
Makes(lines, txt, T) == lines \in Seq(Seq(T)) /\ FlattenSeq(lines) = txt

LEMMA RenderNone ==
    ASSUME NEW width
    PROVE  Render(<<>>, width) = <<>>
<1>1. [i \in 1..Len(<<>>) |-> SplitText(<<>>[i], width)] = <<>>
  OBVIOUS
<1> QED
  BY <1>1, FlattenNone DEF Render

LEMMA RenderAppend ==
    ASSUME NEW T, "nl" \notin T, NEW width \in Int,
           NEW lines \in Seq(Seq(T)), NEW x \in Seq(T)
    PROVE  Render(Append(lines, x), width) = Render(lines, width) \o SplitText(x, width)
<1> DEFINE s == [i \in 1..Len(lines) |-> SplitText(lines[i], width)]
           y == SplitText(x, width)
           longer == Append(lines, x)
           t == [i \in 1..Len(longer) |-> SplitText(longer[i], width)]
<1>1. Len(lines) \in Nat /\ \A i \in 1..Len(lines) : lines[i] \in Seq(T)
  BY LenProperties, ElementOfSeq
<1>2. y \in Seq(Seq(T)) /\ \A i \in 1..Len(lines) : SplitText(lines[i], width) \in Seq(Seq(T))
  BY <1>1, SplitIsText
<1>3. s \in Seq(Seq(Seq(T))) /\ Len(s) = Len(lines)
  BY <1>1, <1>2
<1>4. /\ Len(longer) = Len(lines) + 1
      /\ \A i \in 1..Len(lines) : longer[i] = lines[i]
      /\ longer[Len(lines) + 1] = x
  BY AppendProperties
<1>5. t = Append(s, y)
  BY <1>1, <1>4
<1>6. FlattenSeq(Append(s, y)) = FlattenSeq(s) \o y
  <2> HIDE DEF s, y
  <2> QED
    BY <1>2, <1>3, FlattenAppend
<1> QED
  BY <1>5, <1>6 DEF Render

\* Cutting lines does not change the text they make.
LEMMA RenderIsText ==
    ASSUME NEW T, "nl" \notin T, NEW width \in Int, NEW lines \in Seq(Seq(T))
    PROVE  /\ Render(lines, width) \in Seq(Seq(T))
           /\ FlattenSeq(Render(lines, width)) = FlattenSeq(lines)
           /\ Render(lines, width) = <<>> <=> lines = <<>>
<1> DEFINE Same(l) == /\ Makes(Render(l, width), FlattenSeq(l), T)
                      /\ Render(l, width) = <<>> <=> l = <<>>
           Good == {k \in Nat : \A l \in Seq(Seq(T)) : Len(l) = k => Same(l)}
<1>1. 0 \in Good
  <2> SUFFICES ASSUME NEW l \in Seq(Seq(T)), Len(l) = 0 PROVE Same(l)
    OBVIOUS
  <2>1. l = <<>> /\ <<>> \in Seq(Seq(T))
    BY EmptySeq
  <2> QED
    BY <2>1, RenderNone DEF Makes
<1>2. Len(lines) \in Nat
  BY LenProperties
<1>3. ASSUME NEW k \in 0..Len(lines) - 1, k \in Good PROVE k + 1 \in Good
  <2>1. k \in Nat /\ k + 1 \in Nat /\ k + 1 # 0
    BY <1>2
  <2> SUFFICES ASSUME NEW l \in Seq(Seq(T)), Len(l) = k + 1 PROVE Same(l)
    BY <2>1
  <2>2. l # <<>>
    BY <2>1, EmptySeq
  <2>3. PICK v \in Seq(Seq(T)), x \in Seq(T) : l = Append(v, x)
    BY <2>2, SequenceEmptyOrAppend
  <2>4. Len(v) = k
    <3>1. Len(Append(v, x)) = Len(v) + 1 /\ Len(v) \in Nat
      BY AppendProperties, LenProperties
    <3> QED
      BY <2>1, <2>3, <3>1
  <2>5. Same(v)
    BY <1>3, <2>4
  <2> DEFINE a == Render(v, width)
             b == SplitText(x, width)
  <2>6. /\ a \in Seq(Seq(T)) /\ FlattenSeq(a) = FlattenSeq(v)
        /\ b \in Seq(Seq(T)) /\ FlattenSeq(b) = x /\ b # <<>>
    BY <2>5, SplitIsText DEF Makes
  <2>7. Render(l, width) = a \o b /\ FlattenSeq(l) = FlattenSeq(v) \o x
    BY <2>3, RenderAppend, FlattenAppend
  <2> HIDE DEF a, b
  <2>8. a \o b \in Seq(Seq(T)) /\ (a \o b) # <<>>
    BY <2>6, ConcatProperties, ConcatEqualIffEmpty
  <2>9. FlattenSeq(a \o b) = FlattenSeq(a) \o FlattenSeq(b)
    BY <2>6, FlattenJoin
  <2> QED
    BY <2>2, <2>6, <2>7, <2>8, <2>9 DEF Makes
<1>4. Len(lines) \in Good
  <2> HIDE DEF Good
  <2>1. 0..Len(lines) \subseteq Good
    BY <1>1, <1>2, <1>3, StepByStep
  <2> QED
    BY <1>2, <2>1
<1> QED
  BY <1>4 DEF Makes
LEMMA LastAppended ==
    ASSUME NEW T, NEW s \in Seq(T), NEW x \in T
    PROVE  Last(Append(s, x)) = x /\ Front(Append(s, x)) = s
<1> DEFINE n == Len(s)
           t == Append(s, x)
<1>1. /\ t \in Seq(T) /\ Len(t) = n + 1 /\ t[n + 1] = x
      /\ \A i \in 1..n : t[i] = s[i]
      /\ n \in Nat /\ \A i \in 1..n : s[i] \in T
  BY AppendProperties, LenProperties, ElementOfSeq
<1> HIDE DEF t
<1>2. Last(t) = x
  BY <1>1 DEF Last
<1>3. Front(t) = s
  <2>1. Front(t) = SubSeq(t, 1, n)
    BY <1>1 DEF Front
  <2>2. /\ SubSeq(t, 1, n) \in Seq(T) /\ Len(SubSeq(t, 1, n)) = n
        /\ \A i \in 1..n : SubSeq(t, 1, n)[i] = s[i]
    <3> HIDE DEF n
    <3>1. \A i \in 1..n : t[i] \in T
      BY <1>1
    <3>2. SubSeq(t, 1, n) \in Seq(T)
      BY <1>1, <3>1, SubSeqProperties
    <3>3. Len(SubSeq(t, 1, n)) = IF 1 <= n THEN n - 1 + 1 ELSE 0
      BY <1>1, <3>1, SubSeqProperties
    <3>4. \A i \in 1..n - 1 + 1 : SubSeq(t, 1, n)[i] = t[1 + i - 1]
      BY <1>1, <3>1, SubSeqProperties
    <3> QED
      BY <1>1, <3>2, <3>3, <3>4
  <2> QED
    BY <2>1, <2>2, SeqEqual DEF n
<1> QED
  BY <1>2, <1>3 DEF t

LEMMA LastJoined ==
    ASSUME NEW T, NEW s \in Seq(T), NEW t \in Seq(T), t # <<>>
    PROVE  Last(s \o t) = Last(t)
<1>1. Len(s) \in Nat /\ Len(t) \in Nat \ {0}
  BY LenProperties, EmptySeq
<1>2. /\ Len(s \o t) = Len(s) + Len(t)
      /\ \A i \in 1..Len(s) + Len(t) : (s \o t)[i] = IF i <= Len(s) THEN s[i] ELSE t[i - Len(s)]
  BY ConcatProperties
<1> DEFINE n == Len(s) + Len(t)
<1>3. n \in 1..Len(s) + Len(t) /\ ~(n <= Len(s)) /\ n - Len(s) = Len(t)
  BY <1>1
<1>4. (s \o t)[n] = t[n - Len(s)]
  <2> HIDE DEF n
  <2> QED
    BY <1>2, <1>3
<1> QED
  BY <1>2, <1>3, <1>4 DEF Last

\* The two halves of a text.
LEMMA Halves ==
    ASSUME NEW T, NEW u \in Seq(T), NEW v \in Seq(T)
    PROVE  /\ SubSeq(u \o v, 1, Len(u)) = u
           /\ SubSeq(u \o v, Len(u) + 1, Len(u) + Len(v)) = v
<1> DEFINE m == Len(u)
           n == Len(v)
           t == u \o v
<1>1. /\ m \in Nat /\ n \in Nat /\ t \in Seq(T) /\ Len(t) = m + n
      /\ \A i \in 1..m : u[i] \in T
      /\ \A i \in 1..n : v[i] \in T
      /\ \A i \in 1..m + n : t[i] = IF i <= m THEN u[i] ELSE v[i - m]
  BY LenProperties, ElementOfSeq, ConcatProperties
<1>2. SubSeq(t, 1, m) = u
  <2>1. /\ SubSeq(t, 1, m) \in Seq(T) /\ Len(SubSeq(t, 1, m)) = Len(u)
        /\ \A i \in 1..Len(SubSeq(t, 1, m)) : SubSeq(t, 1, m)[i] = u[i]
    <3>0. m = Len(u)
      OBVIOUS
    <3> HIDE DEF m, n, t
    <3>1. \A i \in 1..m : t[i] \in T
      BY <1>1
    <3>2. /\ SubSeq(t, 1, m) \in Seq(T)
          /\ Len(SubSeq(t, 1, m)) = IF 1 <= m THEN m - 1 + 1 ELSE 0
      BY <1>1, <3>1, SubSeqProperties
    <3>3. \A i \in 1..m - 1 + 1 : SubSeq(t, 1, m)[i] = t[1 + i - 1]
      BY <1>1, <3>1, SubSeqProperties
    <3> QED
      BY <1>1, <3>0, <3>2, <3>3
  <2> HIDE DEF m, n, t
  <2> QED
    BY <2>1, SeqEqual
<1>3. SubSeq(t, m + 1, m + n) = v
  <2>1. /\ SubSeq(t, m + 1, m + n) \in Seq(T) /\ Len(SubSeq(t, m + 1, m + n)) = Len(v)
        /\ \A i \in 1..Len(SubSeq(t, m + 1, m + n)) : SubSeq(t, m + 1, m + n)[i] = v[i]
    <3>0. n = Len(v)
      OBVIOUS
    <3> HIDE DEF m, n, t
    <3> DEFINE first == m + 1
               last  == m + n
    <3>1. first \in Int /\ last \in Int /\ \A i \in first..last : t[i] \in T
      BY <1>1
    <3>2. /\ SubSeq(t, first, last) \in Seq(T)
          /\ Len(SubSeq(t, first, last)) = IF first <= last THEN last - first + 1 ELSE 0
      <4> HIDE DEF first, last
      <4> QED
        BY <3>1, SubSeqProperties
    <3>3. \A i \in 1..last - first + 1 : SubSeq(t, first, last)[i] = t[first + i - 1]
      <4> HIDE DEF first, last
      <4> QED
        BY <3>1, SubSeqProperties
    <3>4. Len(SubSeq(t, m + 1, m + n)) = n /\ m + n - (m + 1) + 1 = n
      BY <1>1, <3>2
    <3>5. ASSUME NEW i \in 1..n PROVE SubSeq(t, m + 1, m + n)[i] = v[i]
      <4>1. m + 1 + i - 1 = m + i /\ m + i \in 1..m + n /\ ~(m + i <= m) /\ m + i - m = i
        BY <1>1
      <4>2. i \in 1..last - first + 1 /\ first + i - 1 = m + i
        BY <1>1
      <4>3. SubSeq(t, first, last)[i] = t[m + i]
        <5> HIDE DEF first, last
        <5> QED
          BY <3>3, <4>2
      <4>4. SubSeq(t, first, last)[i] = v[i]
        <5> HIDE DEF first, last
        <5> QED
          BY <1>1, <4>1, <4>3
      <4> QED
        BY <4>4
    <3> QED
      BY <3>0, <3>2, <3>4, <3>5
  <2> HIDE DEF m, n, t
  <2> QED
    BY <2>1, SeqEqual
<1> QED
  BY <1>2, <1>3

LEMMA EndIsSuffix ==
    ASSUME NEW T, NEW u \in Seq(T), NEW v \in Seq(T)
    PROVE  IsSuffix(v, u \o v)
<1> DEFINE m == Len(u)
           n == Len(v)
           t == u \o v
           a == Reverse(v)
           b == Reverse(t)
<1>1. /\ m \in Nat /\ n \in Nat /\ t \in Seq(T) /\ Len(t) = m + n
      /\ \A i \in 1..m : u[i] \in T
      /\ \A i \in 1..n : v[i] \in T
      /\ \A i \in 1..m + n : t[i] = IF i <= m THEN u[i] ELSE v[i - m]
  BY LenProperties, ElementOfSeq, ConcatProperties
<1>2. a = [i \in 1..n |-> v[n - i + 1]] /\ b = [i \in 1..m + n |-> t[m + n - i + 1]]
  BY <1>1 DEF Reverse
<1> HIDE DEF m, n, t, a, b
<1>3. Len(a) = n /\ Len(b) = m + n /\ m + n \in Nat
  BY <1>1, <1>2
<1>4. ASSUME NEW i \in 1..n PROVE a[i] = b[i] /\ a[i] \in T
  <2> DEFINE j == n - i + 1
             k == m + n - i + 1
  <2>1. j \in 1..n /\ k \in 1..m + n /\ ~(k <= m) /\ k - m = j /\ i \in 1..m + n
    BY <1>1
  <2>2. a[i] = v[j] /\ b[i] = t[k]
    BY <1>2, <2>1
  <2> HIDE DEF j, k
  <2> QED
    BY <1>1, <2>1, <2>2
<1>5. SubSeq(a, 1, n) = SubSeq(b, 1, n)
  <2>1. \A i \in 1..n : a[i] \in T /\ b[i] \in T
    BY <1>4
  <2>2. /\ SubSeq(a, 1, n) \in Seq(T)
        /\ Len(SubSeq(a, 1, n)) = IF 1 <= n THEN n - 1 + 1 ELSE 0
    BY <1>1, <2>1, SubSeqProperties
  <2>3. /\ SubSeq(b, 1, n) \in Seq(T)
        /\ Len(SubSeq(b, 1, n)) = IF 1 <= n THEN n - 1 + 1 ELSE 0
    BY <1>1, <2>1, SubSeqProperties
  <2>4. \A i \in 1..n - 1 + 1 : SubSeq(a, 1, n)[i] = a[1 + i - 1]
    BY <1>1, <2>1, SubSeqProperties
  <2>5. \A i \in 1..n - 1 + 1 : SubSeq(b, 1, n)[i] = b[1 + i - 1]
    BY <1>1, <2>1, SubSeqProperties
  <2>6. Len(SubSeq(a, 1, n)) = n /\ Len(SubSeq(b, 1, n)) = n
    BY <1>1, <2>2, <2>3
  <2>7. \A i \in 1..n : SubSeq(a, 1, n)[i] = SubSeq(b, 1, n)[i]
    BY <1>1, <1>4, <2>4, <2>5
  <2> QED
    BY <2>2, <2>3, <2>6, <2>7, SeqEqual
<1>6. n <= m + n
  BY <1>1
<1> QED
  BY <1>3, <1>5, <1>6 DEF IsSuffix, IsPrefix, a, b, t
\* The last line shown is y, the end of the last line typed; u is the rest of
\* that line and v are the lines before it.
EndsIn(lines, shownLines, v, u, y) ==
    /\ lines = Append(v, u \o y)
    /\ shownLines # <<>> /\ Last(shownLines) = y /\ y # <<>>

LEMMA LastShown ==
    ASSUME NEW T, "nl" \notin T, NEW width \in Int, NEW lines \in Seq(Seq(T)),
           lines # <<>>, \A k \in 1..Len(lines) : lines[k] # <<>>
    PROVE  \E v \in Seq(Seq(T)), u \in Seq(T), y \in Seq(T) :
               EndsIn(lines, Render(lines, width), v, u, y)
<1>1. PICK v \in Seq(Seq(T)), x \in Seq(T) : lines = Append(v, x)
  BY SequenceEmptyOrAppend
<1>2. x # <<>>
  <2>1. Len(Append(v, x)) = Len(v) + 1 /\ Append(v, x)[Len(v) + 1] = x /\ Len(v) \in Nat
    BY AppendProperties, LenProperties
  <2>2. Len(lines) \in 1..Len(lines) /\ lines[Len(lines)] = x
    BY <1>1, <2>1
  <2> QED
    BY <2>2
<1> DEFINE a == Render(v, width)
           b == SplitText(x, width)
<1>3. /\ a \in Seq(Seq(T))
      /\ b \in Seq(Seq(T)) /\ FlattenSeq(b) = x /\ b # <<>>
      /\ \A k \in 1..Len(b) : b[k] # <<>>
  BY <1>2, RenderIsText, SplitIsText
<1>4. Render(lines, width) = a \o b
  BY <1>1, RenderAppend
<1> HIDE DEF a, b
<1>5. PICK p \in Seq(Seq(T)), y \in Seq(T) : b = Append(p, y)
  BY <1>3, SequenceEmptyOrAppend
<1>6. y # <<>>
  <2>1. Len(Append(p, y)) = Len(p) + 1 /\ Append(p, y)[Len(p) + 1] = y /\ Len(p) \in Nat
    BY <1>5, AppendProperties, LenProperties
  <2>2. Len(b) \in 1..Len(b) /\ b[Len(b)] = y
    BY <1>5, <2>1
  <2> QED
    BY <1>3, <2>2
<1>7. Last(b) = y
  BY <1>5, LastAppended
<1>8. (a \o b) # <<>> /\ Last(a \o b) = Last(b)
  BY <1>3, ConcatEqualIffEmpty, LastJoined
<1>9. FlattenSeq(b) = FlattenSeq(p) \o y /\ FlattenSeq(p) \in Seq(T)
  BY <1>5, FlattenAppend, FlattenIsSeq
<1>10. lines = Append(v, FlattenSeq(p) \o y)
  BY <1>1, <1>3, <1>9
<1>11. EndsIn(lines, Render(lines, width), v, FlattenSeq(p), y)
  BY <1>4, <1>6, <1>7, <1>8, <1>10 DEF EndsIn
<1> QED
  BY <1>1, <1>5, <1>9, <1>11

\* What is left of such a line when its last piece is taken.
LeftOver(lines, shownLines, v, u, y) ==
    /\ Front(lines) = v /\ Last(lines) = u \o y
    /\ SubSeq(Last(lines), 1, Max({0, Len(Last(lines)) - Len(Last(shownLines))})) = u
    /\ FlattenSeq(lines) = FlattenSeq(v) \o (u \o y)

LEMMA RestOfLine ==
    ASSUME NEW T, NEW v \in Seq(Seq(T)), NEW u \in Seq(T), NEW y \in Seq(T), NEW lines, NEW shownLines,
           EndsIn(lines, shownLines, v, u, y)
    PROVE  LeftOver(lines, shownLines, v, u, y)
<1>1. u \o y \in Seq(T) /\ Len(u \o y) = Len(u) + Len(y) /\ Len(u) \in Nat /\ Len(y) \in Nat
  BY ConcatProperties, LenProperties
<1> DEFINE x == u \o y
<1>2. lines = Append(v, x) /\ x \in Seq(T)
  BY <1>1 DEF EndsIn
<1>3. Front(lines) = v /\ Last(lines) = x /\ FlattenSeq(lines) = FlattenSeq(v) \o x
  <2> HIDE DEF x
  <2> QED
    BY <1>2, LastAppended, FlattenAppend
<1>4. Len(Last(lines)) - Len(Last(shownLines)) = Len(u)
  BY <1>1, <1>3 DEF EndsIn
<1>5. Max({0, Len(u)}) = Len(u)
  <2> DEFINE n == Len(u)
  <2>1. n \in Nat /\ 0 \in Int
    BY <1>1
  <2> HIDE DEF n
  <2>2. Max({0, n}) = n
    BY <2>1, LargerOfTwo
  <2> QED
    BY <2>2 DEF n
<1> QED
  BY <1>3, <1>4, <1>5, Halves DEF LeftOver
-----------------------------------------------------------------------------
(***************************************************************************)
(* Suggestions.                                                            *)
(***************************************************************************)

CommandWords == {Commands[i] : i \in DOMAIN Commands}
FileNames    == {Files[i].name : i \in DOMAIN Files}
FilePaths    == {Files[i].path : i \in DOMAIN Files}

LEMMA CompletionsAreWords ==
    ASSUME NEW T, NEW words \in Seq(T), NEW start
    PROVE  Completions(words, start) \in Seq({words[i] : i \in DOMAIN words})
<1> DEFINE S == {words[i] : i \in DOMAIN words}
           s == [i \in DOMAIN words |-> IF IsPrefix(start, words[i]) THEN <<words[i]>> ELSE <<>>]
<1>1. Len(words) \in Nat /\ DOMAIN words = 1..Len(words)
  BY LenProperties
<1>2. ASSUME NEW i \in 1..Len(words)
      PROVE  (IF IsPrefix(start, words[i]) THEN <<words[i]>> ELSE <<>>) \in Seq(S)
  <2>1. words[i] \in S
    BY <1>1
  <2> HIDE DEF S
  <2>2. <<words[i]>> \in Seq(S) /\ <<>> \in Seq(S)
    BY <2>1
  <2> QED
    BY <2>2
<1>3. s \in Seq(Seq(S))
  <2> DEFINE n == Len(words)
  <2>1. n \in Nat /\ s \in [1..n -> Seq(S)]
    <3> HIDE DEF S
    <3> QED
      BY <1>1, <1>2
  <2> HIDE DEF s, S, n
  <2> QED
    BY <2>1
<1> HIDE DEF s, S
<1>4. FlattenSeq(s) \in Seq(S)
  BY <1>3, FlattenIsSeq
<1> QED
  BY <1>4 DEF Completions, s, S

LEMMA NamesOfFiles ==
    /\ Len(Files) \in Nat /\ DOMAIN Files = 1..Len(Files)
    /\ \A i \in DOMAIN Files : Files[i].name \in Seq(Chars) /\ Files[i].path \in Seq(Chars)
    /\ Names \in Seq(Seq(Chars))
    /\ {Names[i] : i \in DOMAIN Names} = FileNames
<1>1. /\ Len(Files) \in Nat /\ DOMAIN Files = 1..Len(Files)
      /\ \A i \in DOMAIN Files : Files[i] \in [name : Seq(Chars), path : Seq(Chars)]
  BY EditorAssumption, LenProperties, ElementOfSeq
<1>2. \A i \in DOMAIN Files : Files[i].name \in Seq(Chars) /\ Files[i].path \in Seq(Chars)
  BY <1>1
<1>3. Names \in [1..Len(Files) -> Seq(Chars)]
  BY <1>1, <1>2 DEF Names
<1>4. Names \in Seq(Seq(Chars))
  BY <1>1, <1>3
<1>5. {Names[i] : i \in DOMAIN Names} = FileNames
  BY DEF Names, FileNames
<1> QED
  BY <1>1, <1>2, <1>4, <1>5

\* What is offered, and when.
LEMMA Offered ==
    ASSUME NEW lines, NEW text
    PROVE  /\ Suggestions(lines, text) \in Seq(Seq(Chars))
           /\ InCommand(lines, text) => Suggestions(lines, text) \in Seq(CommandWords)
           /\ ~InCommand(lines, text) => Suggestions(lines, text) \in Seq(FileNames)
           /\ ~InCommand(lines, text) /\ Suggestions(lines, text) # <<>> => HasQuery(text)
<1>1. Commands \in Seq(Seq(Chars)) /\ CommandWords \subseteq Seq(Chars)
  <2>1. \A i \in DOMAIN Commands : Commands[i] \in Seq(Chars)
    BY EditorAssumption, LenProperties, ElementOfSeq
  <2> QED
    BY <2>1, EditorAssumption DEF CommandWords
<1>2. \A start : Completions(Commands, start) \in Seq(CommandWords)
  BY <1>1, CompletionsAreWords DEF CommandWords
<1>3. \A start : Completions(Names, start) \in Seq(FileNames)
  <2> TAKE start
  <2>1. Completions(Names, start) \in Seq({Names[i] : i \in DOMAIN Names})
    BY NamesOfFiles, CompletionsAreWords
  <2> QED
    BY <2>1, NamesOfFiles
<1>4. FileNames \subseteq Seq(Chars)
  BY NamesOfFiles DEF FileNames
<1>5. <<>> \in Seq(FileNames) /\ <<>> \in Seq(Seq(Chars))
  BY EmptySeq
<1>6. InCommand(lines, text) => Suggestions(lines, text) \in Seq(CommandWords)
  BY <1>2 DEF Suggestions
<1>7. ~InCommand(lines, text) => Suggestions(lines, text) \in Seq(FileNames)
  BY <1>3, <1>5 DEF Suggestions
<1>8. Suggestions(lines, text) \in Seq(Seq(Chars))
  BY <1>1, <1>4, <1>6, <1>7, SeqMonotonic
<1>9. ~InCommand(lines, text) /\ Suggestions(lines, text) # <<>> => HasQuery(text)
  BY DEF Suggestions
<1> QED
  BY <1>6, <1>7, <1>8, <1>9

\* The "@" of the query is the last one and a blank is before it.
LEMMA AtTheQuery ==
    ASSUME NEW text \in Seq(Chars), HasQuery(text)
    PROVE  At(text) \in 2..Len(text) /\ text[At(text) - 1] = " "
<1>1. Len(text) \in Nat /\ DOMAIN text = 1..Len(text)
  BY LenProperties
<1>2. PICK at \in 2..Len(text) :
          /\ text[at] = "@" /\ text[at - 1] = " "
          /\ \A i \in at + 1..Len(text) : text[i] \notin {"@", " "}
  BY DEF HasQuery
<1> DEFINE ats == {i \in DOMAIN text : text[i] = "@"}
<1>3. at \in ats /\ \A i \in ats : i <= at
  <2>1. at \in 1..Len(text) /\ at \in Nat
    BY <1>1
  <2>2. ASSUME NEW i \in 1..Len(text), text[i] = "@" PROVE i <= at
    <3>1. CASE i > at
      <4>1. i \in at + 1..Len(text)
        BY <2>1, <3>1, <1>1
      <4> QED
        BY <1>2, <2>2, <4>1
    <3> QED
      BY <2>1, <3>1, <1>1
  <2> QED
    BY <1>1, <1>2, <2>1, <2>2
<1>4. ats \subseteq Nat
  BY <1>1
<1>5. at \in Nat
  BY <1>1
<1>6. Max(ats) \in ats /\ Max(ats) >= at
  <2> HIDE DEF ats
  <2> QED
    BY <1>3, <1>4, <1>5, LargestIsMax
<1>7. Max(ats) = at
  <2>1. Max(ats) \in Nat /\ Max(ats) <= at
    BY <1>3, <1>4, <1>6
  <2> QED
    BY <1>5, <1>6, <2>1
<1> QED
  BY <1>2, <1>7 DEF At

LEMMA PathOfFile ==
    ASSUME NEW name \in FileNames
    PROVE  PathOf(name) \in FilePaths /\ PathOf(name) \in Seq(Chars)
<1> DEFINE same == {i \in DOMAIN Files : Files[i].name = name}
<1>1. same # {}
  BY DEF FileNames
<1>2. same \subseteq Nat
  BY NamesOfFiles
<1>3. Min(same) \in same
  <2> HIDE DEF same
  <2>1. \E x \in same : \A y \in same : x <= y
    BY <1>1, <1>2, SmallestNat
  <2> QED
    BY <2>1 DEF Min
<1>4. PathOf(name) = Files[Min(same)].path
  BY <1>1 DEF PathOf
<1>5. Min(same) \in DOMAIN Files
  BY <1>3
<1> HIDE DEF same
<1> QED
  BY <1>4, <1>5, NamesOfFiles DEF FilePaths
-----------------------------------------------------------------------------
(***************************************************************************)
(* The inductive invariant of the editor.                                  *)
(***************************************************************************)

\* No entered line is empty, and what is shown are the entered lines, cut to
\* the width of the window.
LinesGood ==
    /\ raw \in Seq(Seq(Chars)) /\ rendered \in Seq(Seq(Chars)) /\ length \in Int
    /\ \A k \in 1..Len(raw) : raw[k] # <<>>
    /\ rendered = Render(raw, length)
    /\ raw # <<>> => length = columns - Padding

LineGood == line \in Seq(Chars) /\ cursor \in 1..Len(line) + 1

\* The list was made for the line as it is, and it is known for which kind.
ListGood ==
    /\ active = (items # <<>>)
    /\ selected \in 0..Len(items) /\ (active => selected < Len(items))
    /\ fileMode \in BOOLEAN
    /\ active => /\ items = Suggestions(rendered, line)
                 /\ fileMode <=> ~InCommand(rendered, line)

ResponseGood == response.result \in Results /\ response.text \in Seq(Seq(Chars))

EditorInv == columns \in Columns /\ LinesGood /\ LineGood /\ ListGood /\ ResponseGood

LEMMA OkIsGood == Ok.result \in Results /\ Ok.text \in Seq(Seq(Chars)) /\ Ok.text = <<>>
<1>1. Ok.result = "ok" /\ Ok.text = <<>>
  BY DEF Ok
<1> QED
  BY <1>1, EmptySeq DEF Results

LEMMA WidthIsInt == ASSUME NEW c \in Columns PROVE c \in Nat /\ c - Padding \in Int
BY EditorAssumption DEF Padding

LEMMA ListUpdated ==
    ASSUME NEW lines, NEW text, UpdatedList(lines, text), rendered' = lines, line' = text
    PROVE  ListGood'
<1> DEFINE now == Suggestions(lines, text)
<1>1. /\ items' = now /\ active' = (items' # <<>>) /\ selected' = 0
      /\ fileMode' = (active' /\ ~InCommand(lines, text))
  BY DEF UpdatedList
<1>2. now \in Seq(Seq(Chars))
  BY Offered
<1> HIDE DEF now
<1>3. Len(now) \in Nat /\ (now # <<>> => 0 < Len(now))
  BY <1>2, EmptySeq, LenProperties
<1>4. selected' \in 0..Len(items') /\ (active' => selected' < Len(items'))
  <2>1. items' = now /\ selected' = 0 /\ (active' => now # <<>>)
    BY <1>1, Zenon
  <2>2. 0 \in 0..Len(now)
    BY <1>3
  <2>3. active' => 0 < Len(now)
    BY <1>3, <2>1, Zenon
  <2> QED
    BY <2>1, <2>2, <2>3, Zenon
<1>5. fileMode' \in BOOLEAN /\ (active' => (fileMode' <=> ~InCommand(lines, text)))
  BY <1>1, Zenon
<1> QED
  BY <1>1, <1>4, <1>5 DEF ListGood, now

LEMMA ListClosed == ASSUME ListGood, ResetList PROVE ListGood'
<1>1. items' = <<>> /\ active' = FALSE /\ selected' = 0 /\ fileMode' = fileMode
  BY DEF ResetList
<1>2. 0 \in 0..Len(<<>>)
  OBVIOUS
<1>3. active' = (items' # <<>>)
  BY <1>1
<1> QED
  BY <1>1, <1>2, <1>3, Zenon DEF ListGood

\* What is offered depends on the lines only by whether there are any.
LEMMA ListStays ==
    ASSUME ListGood, UNCHANGED <<items, active, fileMode, line>>,
           rendered' = <<>> <=> rendered = <<>>,
           selected' \in 0..Len(items), active => selected' < Len(items)
    PROVE  ListGood'
<1>1. InCommand(rendered', line) <=> InCommand(rendered, line)
  BY DEF InCommand
<1>2. Suggestions(rendered', line) = Suggestions(rendered, line)
  BY <1>1 DEF Suggestions
<1> QED
  BY <1>1, <1>2 DEF ListGood

LEMMA LinesHeld ==
    ASSUME NEW lines \in Seq(Seq(Chars)), NEW width \in Int, HoldLines(lines, width),
           \A k \in 1..Len(lines) : lines[k] # <<>>,
           lines # <<>> => width = columns' - Padding
    PROVE  LinesGood'
<1>1. raw' = lines /\ length' = width /\ rendered' = Render(lines, width)
  BY DEF HoldLines
<1>2. Render(lines, width) \in Seq(Seq(Chars))
  BY EditorAssumption, RenderIsText
<1> QED
  BY <1>1, <1>2 DEF LinesGood

LEMMA LinesStay == ASSUME LinesGood, UNCHANGED <<columns, content>> PROVE LinesGood'
BY DEF LinesGood, content

\* In every state the cursor is in the line already.
LEMMA CursorInLine == ASSUME LineGood PROVE Cursor = cursor /\ Len(line) \in Nat /\ cursor \in Nat
<1>1. Len(line) \in Nat
  BY LenProperties DEF LineGood
<1>2. Max({cursor, 1}) = cursor
  BY <1>1, LargerOfTwo DEF LineGood
<1>3. Min({cursor, Len(line) + 1}) = cursor
  <2> DEFINE n == Len(line) + 1
             c == cursor
  <2>1. n \in Int /\ c \in Int /\ c <= n
    BY <1>1 DEF LineGood
  <2> HIDE DEF n, c
  <2>2. Min({c, n}) = IF c <= n THEN c ELSE n
    BY <2>1, LargerOfTwo
  <2>3. Min({c, n}) = c
    BY <2>1, <2>2
  <2> QED
    BY <2>3 DEF c, n
<1>4. Cursor = cursor
  BY <1>2, <1>3, Zenon DEF Cursor
<1> QED
  BY <1>1, <1>4 DEF LineGood

LEMMA ShownTogether == ASSUME LinesGood PROVE raw = <<>> <=> rendered = <<>>
BY EditorAssumption, RenderIsText DEF LinesGood

-----------------------------------------------------------------------------
(* What a line is when one character is put into it or taken out of it. *)

\* f \o l, cut after the first k characters of l.
CutAt(f, l, k, T) ==
    /\ SubSeq(l, 1, k) \in Seq(T) /\ Len(SubSeq(l, 1, k)) = k
    /\ SubSeq(l, k + 1, Len(l)) \in Seq(T) /\ Len(SubSeq(l, k + 1, Len(l))) = Len(l) - k
    /\ SubSeq(f \o l, 1, Len(f) + k) = f \o SubSeq(l, 1, k)
    /\ SubSeq(f \o l, Len(f) + k + 1, Len(f \o l)) = SubSeq(l, k + 1, Len(l))

LEMMA CutsAt ==
    ASSUME NEW T, NEW f \in Seq(T), NEW l \in Seq(T), NEW k \in 0..Len(l)
    PROVE  CutAt(f, l, k, T)
<1> DEFINE m == Len(f)
           n == Len(l)
           p == SubSeq(l, 1, k)
           q == SubSeq(l, k + 1, n)
<1>1. m \in Nat /\ n \in Nat /\ k \in Nat /\ k <= n /\ \A i \in 1..n : l[i] \in T
  BY LenProperties, ElementOfSeq
<1>2. p \in Seq(T) /\ Len(p) = k
  <2>1. n = Len(l)
    OBVIOUS
  <2> HIDE DEF n
  <2>2. \A i \in 1..k : l[i] \in T
    BY <1>1
  <2>3. p \in Seq(T) /\ Len(p) = IF 1 <= k THEN k - 1 + 1 ELSE 0
    BY <1>1, <2>2, SubSeqProperties
  <2> QED
    BY <1>1, <2>3
<1>3. q \in Seq(T) /\ Len(q) = n - k
  <2> DEFINE j == k + 1
  <2>1. j \in Int /\ \A i \in j..n : l[i] \in T
    BY <1>1
  <2>2. SubSeq(l, j, n) \in Seq(T) /\ Len(SubSeq(l, j, n)) = IF j <= n THEN n - j + 1 ELSE 0
    <3> HIDE DEF j, n
    <3> QED
      BY <1>1, <2>1, SubSeqProperties
  <2> QED
    BY <1>1, <2>2
<1>4. l = p \o q
  <2>1. 1 \in 1..Len(l) + 1 /\ k \in 1 - 1..Len(l) /\ n \in k..Len(l)
    BY <1>1
  <2>2. p \o q = SubSeq(l, 1, n)
    BY <2>1, ConcatAdjacentSubSeq
  <2> QED
    BY <2>2, SubSeqFull
<1> HIDE DEF p, q
<1>5. f \o l = (f \o p) \o q
  <2>1. Regrouped(f, p, q)
    BY <1>2, <1>3, Regroup
  <2> QED
    BY <1>4, <2>1 DEF Regrouped
<1> DEFINE u == f \o p
<1>6. u \in Seq(T) /\ Len(u) = m + k
  BY <1>2, ConcatProperties
<1>7. f \o l = u \o q
  BY <1>5
<1>8. Len(f \o l) = m + n
  BY ConcatProperties
<1>9. /\ SubSeq(u \o q, 1, Len(u)) = u
      /\ SubSeq(u \o q, Len(u) + 1, Len(u) + Len(q)) = q
  <2> HIDE DEF u
  <2> QED
    BY <1>3, <1>6, Halves
<1>10. Len(u) + Len(q) = m + n
  BY <1>1, <1>3, <1>6
<1>11. SubSeq(f \o l, 1, m + k) = u /\ SubSeq(f \o l, m + k + 1, Len(f \o l)) = q
  BY <1>6, <1>7, <1>8, <1>9, <1>10
<1> QED
  BY <1>2, <1>3, <1>11 DEF CutAt, p, q
LEMMA InsertedAt ==
    ASSUME NEW T, NEW f \in Seq(T), NEW l \in Seq(T), NEW c \in T, NEW i \in 1..Len(l) + 1
    PROVE  /\ InsertAt(l, i, c) \in Seq(T) /\ Len(InsertAt(l, i, c)) = Len(l) + 1
           /\ f \o InsertAt(l, i, c) =
                  SubSeq(f \o l, 1, Len(f) + i - 1) \o <<c>>
                      \o SubSeq(f \o l, Len(f) + i - 1 + 1, Len(f \o l))
<1> DEFINE k == i - 1
           x == <<c>>
           p == SubSeq(l, 1, k)
           q == SubSeq(l, k + 1, Len(l))
<1>1. /\ Len(l) \in Nat /\ Len(f) \in Nat /\ i \in Nat /\ k \in 0..Len(l) /\ k + 1 = i
      /\ Len(f) + i - 1 = Len(f) + k
  BY LenProperties
<1>2. InsertAt(l, i, c) = (p \o x) \o q
  BY <1>1 DEF InsertAt
<1>3. x \in Seq(T) /\ Len(x) = 1
  OBVIOUS
<1>4. CutAt(f, l, k, T)
  <2> HIDE DEF k
  <2> QED
    BY <1>1, CutsAt
<1>5. /\ p \in Seq(T) /\ Len(p) = k /\ q \in Seq(T) /\ Len(q) = Len(l) - k
      /\ SubSeq(f \o l, 1, Len(f) + k) = f \o p
      /\ SubSeq(f \o l, Len(f) + k + 1, Len(f \o l)) = q
  BY <1>4 DEF CutAt
<1> HIDE DEF k, p, q, x
<1>6. p \o x \in Seq(T) /\ Len(p \o x) = k + 1
  <2>1. x \in Seq(T) /\ Len(x) = 1
    BY <1>3 DEF x
  <2>2. p \o x \in Seq(T) /\ Len(p \o x) = Len(p) + Len(x)
    BY <1>5, <2>1, ConcatProperties
  <2> QED
    BY <1>5, <2>1, <2>2
<1> DEFINE px == p \o x
           fp == f \o p
<1>7. px \in Seq(T) /\ Len(px) = k + 1 /\ fp \in Seq(T)
  BY <1>5, <1>6, ConcatProperties
<1>8. px \o q \in Seq(T) /\ Len(px \o q) = Len(l) + 1
  <2> HIDE DEF px
  <2>1. px \o q \in Seq(T) /\ Len(px \o q) = Len(px) + Len(q)
    BY <1>5, <1>7, ConcatProperties
  <2> QED
    BY <1>1, <1>5, <1>7, <2>1
<1>9. f \o (px \o q) = (fp \o x) \o q
  <2>1. Regrouped(f, p, x)
    <3>1. x \in Seq(T)
      BY <1>3 DEF x
    <3> QED
      BY <1>5, <3>1, Regroup
  <2>2. f \o px = fp \o x
    BY <2>1 DEF Regrouped
  <2>3. Regrouped(f, px, q)
    <3> HIDE DEF px
    <3> QED
      BY <1>5, <1>7, Regroup
  <2>4. f \o (px \o q) = (f \o px) \o q
    BY <2>3 DEF Regrouped
  <2> QED
    BY <2>2, <2>4
<1>10. InsertAt(l, i, c) = px \o q
  BY <1>2
<1>11. fp = SubSeq(f \o l, 1, Len(f) + i - 1) /\ q = SubSeq(f \o l, Len(f) + i - 1 + 1, Len(f \o l))
  BY <1>1, <1>5
<1> HIDE DEF px, fp
<1>12. f \o InsertAt(l, i, c) = (fp \o x) \o q
  BY <1>9, <1>10
<1> QED
  BY <1>8, <1>10, <1>11, <1>12 DEF x

LEMMA RemovedAt ==
    ASSUME NEW T, NEW f \in Seq(T), NEW l \in Seq(T), NEW i \in 1..Len(l)
    PROVE  /\ RemoveAt(l, i) \in Seq(T) /\ Len(RemoveAt(l, i)) = Len(l) - 1
           /\ f \o RemoveAt(l, i) =
                  SubSeq(f \o l, 1, Len(f) + i - 1) \o SubSeq(f \o l, Len(f) + i + 1, Len(f \o l))
<1> DEFINE k == i - 1
           p == SubSeq(l, 1, k)
           q == SubSeq(l, i + 1, Len(l))
<1>1. /\ Len(l) \in Nat /\ Len(f) \in Nat /\ i \in Nat /\ i \in 0..Len(l) /\ k \in 0..Len(l)
      /\ Len(f) + i - 1 = Len(f) + k
  BY LenProperties
<1>2. RemoveAt(l, i) = p \o q
  BY DEF RemoveAt
<1>3. CutAt(f, l, k, T) /\ CutAt(f, l, i, T)
  <2> HIDE DEF k
  <2> QED
    BY <1>1, CutsAt
<1>4. /\ p \in Seq(T) /\ Len(p) = k
      /\ q \in Seq(T) /\ Len(q) = Len(l) - i
      /\ SubSeq(f \o l, 1, Len(f) + k) = f \o p
      /\ SubSeq(f \o l, Len(f) + i + 1, Len(f \o l)) = q
  BY <1>3 DEF CutAt
<1>5. k + (Len(l) - i) = Len(l) - 1
  BY <1>1
<1> HIDE DEF k, p, q
<1>6. p \o q \in Seq(T) /\ Len(p \o q) = Len(l) - 1
  <2>1. p \o q \in Seq(T) /\ Len(p \o q) = Len(p) + Len(q)
    BY <1>4, ConcatProperties
  <2> QED
    BY <1>4, <1>5, <2>1
<1>7. Regrouped(f, p, q)
  BY <1>4, Regroup
<1>8. f \o (p \o q) = (f \o p) \o q
  BY <1>7 DEF Regrouped
<1>9. f \o p = SubSeq(f \o l, 1, Len(f) + i - 1)
  BY <1>1, <1>4
<1> QED
  BY <1>2, <1>4, <1>6, <1>8, <1>9
-----------------------------------------------------------------------------
(***************************************************************************)
(* Keys that leave the entered lines alone: each keeps the invariant, and  *)
(* is one step on the text.                                                *)
(***************************************************************************)

LEMMA LineInText ==
    ASSUME EditorInv
    PROVE  /\ FlattenSeq(raw) \in Seq(Chars) /\ Len(FlattenSeq(raw)) \in Nat
           /\ line \in Seq(Chars) /\ Len(line) \in Nat
           /\ Cursor = cursor /\ cursor \in 1..Len(line) + 1
           /\ Len(FlattenSeq(raw) \o line) = Len(FlattenSeq(raw)) + Len(line)
<1>1. LineGood /\ raw \in Seq(Seq(Chars))
  BY DEF EditorInv, LinesGood
<1>2. FlattenSeq(raw) \in Seq(Chars)
  BY <1>1, FlattenIsSeq
<1> DEFINE f == FlattenSeq(raw)
<1> HIDE DEF f
<1>3. Len(f) \in Nat /\ Len(f \o line) = Len(f) + Len(line)
  BY <1>1, <1>2, LenProperties, ConcatProperties DEF LineGood, f
<1> QED
  BY <1>1, <1>2, <1>3, CursorInLine DEF LineGood, f

LEMMA LineEdited ==
    ASSUME EditorInv, UNCHANGED <<columns, content>>, response' = Ok, LineGood', ListGood'
    PROVE  EditorInv'
BY LinesStay, OkIsGood DEF EditorInv, ResponseGood

\* How an action writes the text.
LEMMA Writes ==
    ASSUME NEW f, NEW b, FlattenSeq(raw') = f, Len(f) + cursor' - 1 = b,
           response'.text = <<>>
    PROVE  Text!Edit(f \o line', b)
BY DEF Text!Edit

\* How an action moves the cursor in the line.
LEMMA Moves ==
    ASSUME EditorInv, UNCHANGED <<raw, line>>, response'.text = <<>>,
           cursor' \in {cursor - 1, cursor, cursor + 1}, cursor' \in 1..Len(line) + 1
    PROVE  Text!Move
<1> DEFINE f == FlattenSeq(raw)
           b == Len(f) + cursor - 1
           n == Len(f) + cursor' - 1
<1>1. /\ Len(f) \in Nat /\ Len(line) \in Nat /\ cursor \in 1..Len(line) + 1
      /\ Len(f \o line) = Len(f) + Len(line)
  BY LineInText
<1>2. FlattenSeq(raw') = f
  OBVIOUS
<1> HIDE DEF f
<1>3. Text!Edit(f \o line', n)
  BY <1>2, Writes
<1>4. Text!Edit(f \o line, n)
  BY <1>3
<1>5. n \in {b - 1, b, b + 1, Len(f \o line)} /\ n \in 0..Len(f \o line)
  BY <1>1
<1> QED
  BY <1>4, <1>5 DEF Text!Move, f

LEMMA TypeStep ==
    ASSUME EditorInv, NEW c \in Chars, Type(c)
    PROVE  EditorInv' /\ Text!Insert
<1> DEFINE f == FlattenSeq(raw)
           b == Len(f) + cursor - 1
           text == f \o line
<1>1. /\ f \in Seq(Chars) /\ Len(f) \in Nat
      /\ line \in Seq(Chars) /\ Len(line) \in Nat
      /\ Cursor = cursor /\ cursor \in 1..Len(line) + 1
  BY LineInText
<1>2. /\ line' = InsertAt(line, cursor, c) /\ cursor' = cursor + 1
      /\ UpdatedList(rendered, line') /\ response' = Ok /\ UNCHANGED <<columns, content>>
  BY <1>1 DEF Type
<1>3. raw' = raw /\ rendered' = rendered
  BY <1>2 DEF content
<1>4. /\ line' \in Seq(Chars) /\ Len(line') = Len(line) + 1
  BY <1>1, <1>2, InsertedAt
<1>5. LineGood'
  BY <1>1, <1>2, <1>4 DEF LineGood
<1>6. ListGood'
  BY <1>2, <1>3, ListUpdated
<1>7. EditorInv'
  BY <1>2, <1>5, <1>6, LineEdited
<1>8. f \o line' = SubSeq(text, 1, b) \o <<c>> \o SubSeq(text, b + 1, Len(text))
  <2> HIDE DEF f
  <2> QED
    BY <1>1, <1>2, InsertedAt
<1>9. FlattenSeq(raw') = f /\ Len(f) + cursor' - 1 = b + 1 /\ response'.text = <<>>
  BY <1>1, <1>2, <1>3, OkIsGood
<1>10. Text!Edit(f \o line', b + 1)
  <2> DEFINE n == b + 1
  <2> HIDE DEF f, n
  <2> QED
    BY <1>9, Writes DEF n
<1>11. Text!Insert
  <2>1. Text!Edit(SubSeq(text, 1, b) \o <<c>> \o SubSeq(text, b + 1, Len(text)), b + 1)
    BY <1>8, <1>10
  <2> QED
    BY <2>1 DEF Text!Insert, Text!Start, Text!Rest
<1> QED
  BY <1>7, <1>11

LEMMA BackspaceInLineStep ==
    ASSUME EditorInv, BackspaceInLine
    PROVE  EditorInv' /\ (Text!DeleteBefore \/ Text!Move)
<1> DEFINE f == FlattenSeq(raw)
           b == Len(f) + cursor - 1
           text == f \o line
<1>1. /\ f \in Seq(Chars) /\ Len(f) \in Nat
      /\ line \in Seq(Chars) /\ Len(line) \in Nat
      /\ Cursor = cursor /\ cursor \in 1..Len(line) + 1
  BY LineInText
<1>2. UpdatedList(rendered, line') /\ response' = Ok /\ UNCHANGED <<columns, content>>
  BY DEF BackspaceInLine
<1>3. raw' = raw /\ rendered' = rendered /\ response'.text = <<>>
  BY <1>2, OkIsGood DEF content
<1>4. ListGood'
  BY <1>2, <1>3, ListUpdated
<1>5. CASE cursor >= 2
  <2> DEFINE i == cursor - 1
  <2>1. line' = RemoveAt(line, i) /\ cursor' = i
    BY <1>1, <1>5 DEF BackspaceInLine, Without
  <2>2. i \in 1..Len(line) /\ i + 1 = cursor
    BY <1>1, <1>5
  <2> HIDE DEF i
  <2>3. /\ line' \in Seq(Chars) /\ Len(line') = Len(line) - 1
        /\ f \o line' = SubSeq(text, 1, Len(f) + i - 1) \o SubSeq(text, Len(f) + i + 1, Len(text))
    <3> HIDE DEF f
    <3> QED
      BY <1>1, <2>1, <2>2, RemovedAt
  <2>4. LineGood'
    BY <1>1, <2>1, <2>2, <2>3 DEF LineGood
  <2>5. EditorInv'
    BY <1>2, <1>4, <2>4, LineEdited
  <2>6. /\ Len(f) + i - 1 = b - 1 /\ Len(f) + i + 1 = b + 1 /\ b > 0
        /\ Len(f) + cursor' - 1 = b - 1
    BY <1>1, <2>1, <2>2
  <2>7. Text!Edit(f \o line', b - 1)
    <3> DEFINE n == b - 1
    <3> HIDE DEF f, n
    <3> QED
      BY <1>3, <2>6, Writes DEF f, n
  <2>8. Text!Edit(SubSeq(text, 1, b - 1) \o SubSeq(text, b + 1, Len(text)), b - 1)
    BY <2>3, <2>6, <2>7
  <2>9. Text!DeleteBefore
    BY <2>6, <2>8 DEF Text!DeleteBefore, Text!Start, Text!Rest
  <2> QED
    BY <2>5, <2>9
<1>6. CASE ~(cursor >= 2)
  <2>1. line' = line /\ cursor' = cursor
    BY <1>1, <1>6 DEF BackspaceInLine
  <2>2. LineGood'
    BY <1>1, <2>1 DEF LineGood
  <2>3. EditorInv'
    BY <1>2, <1>4, <2>2, LineEdited
  <2>4. Text!Move
    BY <1>1, <1>3, <2>1, Moves
  <2> QED
    BY <2>3, <2>4
<1> QED
  BY <1>5, <1>6

LEMMA DeleteStep ==
    ASSUME EditorInv, Delete
    PROVE  EditorInv' /\ (Text!DeleteAfter \/ Text!Move)
<1> DEFINE f == FlattenSeq(raw)
           b == Len(f) + cursor - 1
           text == f \o line
<1>1. /\ f \in Seq(Chars) /\ Len(f) \in Nat
      /\ line \in Seq(Chars) /\ Len(line) \in Nat
      /\ Cursor = cursor /\ cursor \in 1..Len(line) + 1
      /\ Len(text) = Len(f) + Len(line)
  BY LineInText
<1>2. /\ UpdatedList(rendered, line') /\ response' = Ok /\ UNCHANGED <<columns, content>>
      /\ cursor' = cursor
  BY <1>1 DEF Delete
<1>3. raw' = raw /\ rendered' = rendered /\ response'.text = <<>>
  BY <1>2, OkIsGood DEF content
<1>4. ListGood'
  BY <1>2, <1>3, ListUpdated
<1>5. CASE cursor <= Len(line)
  <2>1. line' = RemoveAt(line, cursor)
    BY <1>1, <1>5 DEF Delete, Without
  <2>2. cursor \in 1..Len(line)
    BY <1>1, <1>5
  <2>3. /\ line' \in Seq(Chars) /\ Len(line') = Len(line) - 1
        /\ f \o line' =
               SubSeq(text, 1, Len(f) + cursor - 1) \o SubSeq(text, Len(f) + cursor + 1, Len(text))
    <3> HIDE DEF f
    <3> QED
      BY <1>1, <2>1, <2>2, RemovedAt
  <2>4. LineGood'
    BY <1>1, <1>2, <2>2, <2>3 DEF LineGood
  <2>5. EditorInv'
    BY <1>2, <1>4, <2>4, LineEdited
  <2>6. Len(f) + cursor + 1 = b + 1 + 1 /\ b < Len(text) /\ Len(f) + cursor' - 1 = b
    BY <1>1, <1>2, <2>2
  <2>7. Text!Edit(f \o line', b)
    <3> DEFINE n == b
    <3> HIDE DEF f, n
    <3> QED
      BY <1>3, <2>6, Writes DEF f, n
  <2>8. Text!Edit(SubSeq(text, 1, b) \o SubSeq(text, b + 1 + 1, Len(text)), b)
    BY <2>3, <2>6, <2>7
  <2>9. Text!DeleteAfter
    BY <2>6, <2>8 DEF Text!DeleteAfter, Text!Start, Text!Rest
  <2> QED
    BY <2>5, <2>9
<1>6. CASE ~(cursor <= Len(line))
  <2>1. line' = line
    BY <1>1, <1>6 DEF Delete
  <2>2. LineGood'
    BY <1>1, <1>2, <2>1 DEF LineGood
  <2>3. EditorInv'
    BY <1>2, <1>4, <2>2, LineEdited
  <2>4. Text!Move
    BY <1>1, <1>2, <1>3, <2>1, Moves
  <2> QED
    BY <2>3, <2>4
<1> QED
  BY <1>5, <1>6
\* Keys that leave the text alone keep the invariant when the list does.
LEMMA CursorMoved ==
    ASSUME EditorInv, UNCHANGED <<columns, content, line>>, ListGood', ResponseGood',
           response'.text = <<>>,
           cursor' \in {cursor - 1, cursor, cursor + 1}, cursor' \in 1..Len(line) + 1
    PROVE  EditorInv' /\ Text!Move
<1>1. LinesGood'
  BY LinesStay DEF EditorInv
<1>2. LineGood'
  BY DEF EditorInv, LineGood
<1>3. raw' = raw
  BY DEF content
<1>4. Text!Move
  BY <1>3, Moves
<1>5. EditorInv'
  BY <1>1, <1>2 DEF EditorInv
<1> QED
  BY <1>4, <1>5

LEMMA ArrowStep ==
    ASSUME EditorInv, Left \/ Right
    PROVE  EditorInv' /\ Text!Move
<1>1. /\ Len(line) \in Nat
      /\ Cursor = cursor /\ cursor \in 1..Len(line) + 1
  BY LineInText
<1>2. /\ response' = Ok /\ UNCHANGED <<columns, content, line, list>>
  BY DEF Left, Right
<1>3. cursor' \in {cursor - 1, cursor, cursor + 1} /\ cursor' \in 1..Len(line) + 1
  <2>1. CASE Left
    <3> DEFINE a == cursor - 1
    <3>1. a \in Int /\ cursor' = Max({a, 1})
      BY <1>1, <2>1 DEF Left
    <3> HIDE DEF a
    <3>2. cursor' = IF a >= 1 THEN a ELSE 1
      BY <3>1, LargerOfTwo
    <3> QED
      BY <1>1, <3>2 DEF a
  <2>2. CASE Right
    <3> DEFINE a == cursor + 1
               b == Len(line) + 1
    <3>1. a \in Int /\ b \in Int /\ cursor' = Min({a, b})
      BY <1>1, <2>2 DEF Right
    <3> HIDE DEF a, b
    <3>2. cursor' = IF a <= b THEN a ELSE b
      BY <3>1, LargerOfTwo
    <3> QED
      BY <1>1, <3>2 DEF a, b
  <2> QED
    BY <2>1, <2>2
<1>4. ListGood'
  <2>1. ListGood /\ rendered' = rendered
    BY <1>2 DEF EditorInv, content
  <2> QED
    BY <1>2, <2>1 DEF ListGood, list
<1>5. ResponseGood' /\ response'.text = <<>>
  BY <1>2, OkIsGood DEF ResponseGood
<1> QED
  BY <1>2, <1>3, <1>4, <1>5, CursorMoved

LEMMA ListLength ==
    ASSUME EditorInv, active
    PROVE  /\ items = Suggestions(rendered, line) /\ items \in Seq(Seq(Chars))
           /\ Len(items) \in Nat \ {0} /\ selected \in 0..Len(items) - 1
<1>1. /\ active = (items # <<>>) /\ items = Suggestions(rendered, line)
      /\ selected \in 0..Len(items) /\ selected < Len(items)
  BY DEF EditorInv, ListGood
<1>2. items \in Seq(Seq(Chars)) /\ items # <<>>
  BY <1>1, Offered, Zenon
<1>3. Len(items) \in Nat \ {0}
  BY <1>2, EmptySeq
<1> QED
  BY <1>1, <1>2, <1>3

\* The arrows go round the list, ESC closes it; the other two do nothing.
LEMMA ListStep ==
    ASSUME EditorInv, Up \/ Down \/ EscapeList \/ EnterNothing \/ EscapeProgram
    PROVE  EditorInv' /\ Text!Move
<1>1. /\ Len(line) \in Nat
      /\ Cursor = cursor /\ cursor \in 1..Len(line) + 1
  BY LineInText
<1>2. UNCHANGED <<columns, content, line>> /\ cursor' = cursor
  BY <1>1 DEF Up, Down, EscapeList, EnterNothing, EscapeProgram, content
<1>3. ResponseGood' /\ response'.text = <<>>
  <2>1. CASE Up \/ Down \/ EscapeList \/ EnterNothing
    <3>1. response' = Ok
      BY <2>1 DEF Up, Down, EscapeList, EnterNothing
    <3> QED
      BY <3>1, OkIsGood DEF ResponseGood
  <2>2. CASE EscapeProgram
    <3>1. response' = [Ok EXCEPT !.result = "escape"]
      BY <2>2 DEF EscapeProgram
    <3>2. response'.result = "escape" /\ response'.text = <<>>
      BY <3>1 DEF Ok
    <3> QED
      BY <3>2, EmptySeq, FlattenNone DEF ResponseGood, Results
  <2> QED
    BY <2>1, <2>2
<1>4. ListGood'
  <2>0. ListGood /\ (rendered' = <<>> <=> rendered = <<>>)
    BY <1>2 DEF EditorInv, content
  <2>1. CASE Up
    <3>1. /\ active /\ UNCHANGED <<items, active, fileMode, line>>
          /\ selected' = IF selected > 0 THEN selected - 1 ELSE Len(items) - 1
      BY <2>1 DEF Up
    <3>2. selected' \in 0..Len(items) /\ selected' < Len(items)
      BY <3>1, ListLength
    <3> QED
      BY <2>0, <3>1, <3>2, ListStays
  <2>2. CASE Down
    <3>1. /\ active /\ UNCHANGED <<items, active, fileMode, line>>
          /\ selected' = (selected + 1) % Len(items)
      BY <2>2 DEF Down
    <3>2. selected' \in 0..Len(items) /\ selected' < Len(items)
      <4> DEFINE n == Len(items)
                 s == selected
      <4>1. n \in Nat \ {0} /\ s \in 0..n - 1
        BY <3>1, ListLength
      <4> HIDE DEF n, s
      <4>2. (s + 1) % n \in 0..n /\ (s + 1) % n < n
        BY <4>1
      <4> QED
        BY <3>1, <4>2 DEF n, s
    <3> QED
      BY <2>0, <3>1, <3>2, ListStays
  <2>3. CASE EscapeList \/ EnterNothing
    BY <2>0, <2>3, ListClosed DEF EscapeList, EnterNothing
  <2>4. CASE EscapeProgram
    <3>1. UNCHANGED list /\ UNCHANGED <<line, rendered>>
      BY <1>2, <2>4 DEF EscapeProgram, content
    <3> QED
      BY <2>0, <3>1 DEF ListGood, list
  <2> QED
    BY <2>1, <2>2, <2>3, <2>4
<1> QED
  BY <1>1, <1>2, <1>3, <1>4, CursorMoved
LEMMA EmptyLine == ASSUME line' = <<>>, cursor' = 1 PROVE LineGood' /\ Len(line') = 0
<1>1. <<>> \in Seq(Chars) /\ Len(<<>>) = 0 /\ 1 \in 1..Len(<<>>) + 1
  BY EmptySeq
<1> QED
  BY <1>1 DEF LineGood

LEMMA ListShut == ASSUME ListGood, ~active, UNCHANGED list PROVE ListGood'
BY DEF ListGood, list

LEMMA EscapeLineStep ==
    ASSUME EditorInv, EscapeLine
    PROVE  EditorInv' /\ Text!DropEnd
<1> DEFINE f == FlattenSeq(raw)
           text == f \o line
           n == Len(f)
<1>1. /\ f \in Seq(Chars) /\ Len(f) \in Nat
      /\ line \in Seq(Chars) /\ Len(line) \in Nat
      /\ Len(text) = Len(f) + Len(line)
  BY LineInText
<1>2. /\ ~active /\ line # <<>> /\ line' = <<>> /\ cursor' = 1
      /\ response' = Ok /\ UNCHANGED <<columns, content, list>>
  BY DEF EscapeLine
<1>3. ListGood'
  BY <1>2, ListShut DEF EditorInv
<1>4. EditorInv'
  BY <1>2, <1>3, EmptyLine, LineEdited
<1>5. Len(line) \in Nat \ {0}
  BY <1>1, <1>2, EmptySeq
<1>6. n \in 0..Len(text) - 1
  BY <1>1, <1>5
<1>7. SubSeq(text, 1, n) = f /\ f \o line' = f
  <2> HIDE DEF f
  <2> QED
    BY <1>1, <1>2, Halves, ConcatEmptySeq DEF f
<1>8. FlattenSeq(raw') = f /\ response'.text = <<>> /\ Len(f) + cursor' - 1 = n
  BY <1>1, <1>2, OkIsGood DEF content
<1>9. Text!Edit(f \o line', n)
  <2> HIDE DEF f, n
  <2> QED
    BY <1>8, Writes
<1>10. Text!Edit(SubSeq(text, 1, n), n)
  BY <1>7, <1>9
<1> QED
  BY <1>4, <1>6, <1>10 DEF Text!DropEnd, Text!Start

\* The text field joins lines as the editor does.
LEMMA SameJoin == ASSUME NEW s PROVE Text!FlattenSeq(s) = FlattenSeq(s)
BY DEF FlattenSeq, Text!FlattenSeq

LEMMA SendCommandStep ==
    ASSUME EditorInv, SendCommand
    PROVE  EditorInv' /\ Text!Send
<1>1. /\ ~active /\ rendered = <<>> /\ line # <<>> /\ line' = <<>> /\ cursor' = 1
      /\ response' = [result |-> "command", text |-> <<line>>]
      /\ UNCHANGED <<columns, content, list>>
  BY DEF SendCommand, InCommand
<1>2. raw = <<>> /\ raw' = <<>>
  BY <1>1, ShownTogether DEF EditorInv, content
<1>3. line \in Seq(Chars)
  BY LineInText
<1>4. <<line>> \in Seq(Seq(Chars)) /\ FlattenSeq(<<line>>) = line
  BY <1>3, FlattenOne
<1>5. response'.result = "command" /\ response'.text = <<line>>
  BY <1>1
<1>6. EditorInv'
  <2>1. ListGood' /\ LinesGood' /\ LineGood'
    BY <1>1, ListShut, LinesStay, EmptyLine DEF EditorInv
  <2>2. ResponseGood'
    BY <1>4, <1>5 DEF ResponseGood, Results
  <2> QED
    BY <1>1, <2>1, <2>2 DEF EditorInv
<1>7. FlattenSeq(raw) \o line = line /\ FlattenSeq(raw') \o line' = <<>>
  BY <1>1, <1>2, <1>3, FlattenNone, ConcatEmptySeq, EmptySeq
<1>8. Len(FlattenSeq(raw')) + cursor' - 1 = 0
  BY <1>1, <1>2, FlattenNone
<1>9. FlattenSeq(response'.text) = line
  BY <1>4, <1>5
<1> QED
  BY <1>1, <1>6, <1>7, <1>8, <1>9, SameJoin DEF Text!Send

\* An accepted command replaces the text, an accepted file the end of it.
LEMMA AcceptStep ==
    ASSUME EditorInv, Accept
    PROVE  EditorInv' /\ Text!Complete
<1> DEFINE f == FlattenSeq(raw)
           text == f \o line
<1>1. /\ f \in Seq(Chars) /\ Len(f) \in Nat
      /\ line \in Seq(Chars) /\ Len(line) \in Nat
      /\ Len(text) = Len(f) + Len(line)
  BY LineInText
<1>2. /\ active /\ line' = Accepted /\ cursor' = Len(Accepted) + 1 /\ ResetList
      /\ response' = Ok /\ UNCHANGED <<columns, content>>
  BY DEF Accept
<1>3. /\ items = Suggestions(rendered, line) /\ items # <<>>
      /\ selected + 1 \in 1..Len(items)
      /\ fileMode <=> ~InCommand(rendered, line)
  <2>1. /\ items = Suggestions(rendered, line)
        /\ Len(items) \in Nat \ {0} /\ selected \in 0..Len(items) - 1
    BY <1>2, ListLength
  <2>2. active = (items # <<>>) /\ (fileMode <=> ~InCommand(rendered, line))
    BY <1>2 DEF EditorInv, ListGood
  <2>3. items # <<>>
    BY <1>2, <2>2
  <2> QED
    BY <2>1, <2>2, <2>3
<1>4. FlattenSeq(raw') = f /\ response'.text = <<>>
  BY <1>2, OkIsGood DEF content
\* What remains to be shown of the line the suggestion makes.
<1>5. ASSUME NEW n \in 0..Len(text), NEW w \in Words, Accepted \in Seq(Chars),
             f \o Accepted = SubSeq(text, 1, n) \o w,
             Len(f) + Len(Accepted) = n + Len(w)
      PROVE  EditorInv' /\ Text!Complete
  <2>1. Len(Accepted) \in Nat
    BY <1>5, LenProperties
  <2>2. LineGood'
    BY <1>2, <1>5, <2>1 DEF LineGood
  <2>3. ListGood'
    BY <1>2, ListClosed DEF EditorInv
  <2>4. EditorInv'
    BY <1>2, <2>2, <2>3, LineEdited
  <2>5. Len(f) + cursor' - 1 = n + Len(w)
    BY <1>1, <1>2, <1>5, <2>1
  <2>6. Text!Edit(f \o line', n + Len(w))
    <3> DEFINE b == n + Len(w)
    <3> HIDE DEF f, b
    <3> QED
      BY <1>4, <2>5, Writes DEF b
  <2>7. Text!Edit(SubSeq(text, 1, n) \o w, n + Len(w))
    BY <1>2, <1>5, <2>6
  <2> QED
    BY <2>4, <2>7 DEF Text!Complete, Text!Start
<1>6. CASE InCommand(rendered, line)
  <2>1. items \in Seq(CommandWords)
    BY <1>3, <1>6, Offered
  <2>2. Highlighted \in CommandWords
    BY <1>3, <2>1, ElementOfSeq DEF Highlighted
  <2>3. Accepted = Highlighted
    BY <1>3, <1>6 DEF Accepted
  <2>4. Accepted \in Words /\ Accepted \in Seq(Chars)
    <3>1. \A i \in DOMAIN Commands : Commands[i] \in Seq(Chars)
      BY EditorAssumption, LenProperties, ElementOfSeq
    <3> QED
      BY <2>2, <2>3, <3>1 DEF Words, CommandWords
  <2>5. f = <<>>
    BY <1>6, ShownTogether, FlattenNone DEF InCommand, EditorInv
  <2>6. SubSeq(text, 1, 0) = <<>>
    BY SubSeqEmpty
  <2>7. f \o Accepted = SubSeq(text, 1, 0) \o Accepted
    BY <2>5, <2>6
  <2>8. 0 \in 0..Len(text) /\ Len(f) + Len(Accepted) = 0 + Len(Accepted)
    BY <1>1, <2>5
  <2> QED
    BY <1>5, <2>4, <2>7, <2>8
<1>7. CASE ~InCommand(rendered, line)
  <2> DEFINE k == At(line) - 2
             p == SubSeq(line, 1, k)
             x == <<" ">>
             path == PathOf(Highlighted)
  <2>1. items \in Seq(FileNames) /\ HasQuery(line)
    BY <1>3, <1>7, Offered
  <2>2. Highlighted \in FileNames
    BY <1>3, <2>1, ElementOfSeq DEF Highlighted
  <2>3. path \in FilePaths /\ path \in Seq(Chars)
    BY <2>2, PathOfFile
  <2>4. Accepted = (p \o x) \o path
    BY <1>3, <1>7 DEF Accepted
  <2>5. At(line) \in 2..Len(line) /\ line[At(line) - 1] = " "
    BY <1>1, <2>1, AtTheQuery
  <2>6. /\ k \in 0..Len(line) /\ Len(f) + k \in 0..Len(text)
        /\ At(line) - 1 \in 1..Len(line)
    <3> DEFINE a == At(line)
               m == Len(f)
               n == Len(line)
    <3>1. m \in Nat /\ n \in Nat /\ a \in 2..n /\ Len(text) = m + n
      BY <1>1, <2>5
    <3> HIDE DEF a, m, n
    <3>2. a - 2 \in 0..n /\ m + (a - 2) \in 0..m + n /\ a - 1 \in 1..n
      BY <3>1
    <3> QED
      BY <3>1, <3>2 DEF a, m, n
  <2>7. " " \in Chars
    BY <1>1, <2>5, <2>6, ElementOfSeq
  <2>8. x \in Seq(Chars) /\ Len(x) = 1
    <3>1. \A S, e : e \in S => <<e>> \in Seq(S) /\ Len(<<e>>) = 1
      OBVIOUS
    <3> QED
      BY <2>7, <3>1
  <2>9. CutAt(f, line, k, Chars)
    <3> HIDE DEF f, k
    <3> QED
      BY <1>1, <2>6, CutsAt
  <2>10. p \in Seq(Chars) /\ Len(p) = k /\ SubSeq(text, 1, Len(f) + k) = f \o p
    BY <2>9 DEF CutAt
  <2> DEFINE w == x \o path
  <2>11. w \in Words
    BY <2>3 DEF Words, FilePaths
  <2>12. w \in Seq(Chars) /\ Regrouped(p, x, path) /\ Regrouped(f, p, w)
    <3> HIDE DEF f, p, x, path
    <3>1. w \in Seq(Chars)
      BY <2>3, <2>8, ConcatProperties
    <3>2. Regrouped(p, x, path)
      BY <2>3, <2>8, <2>10, Regroup
    <3> HIDE DEF w
    <3>3. Regrouped(f, p, w)
      BY <1>1, <2>10, <3>1, Regroup
    <3> QED
      BY <3>1, <3>2, <3>3
  <2>13. Accepted = p \o w /\ f \o (p \o w) = (f \o p) \o w
    BY <2>4, <2>12 DEF Regrouped
  <2> HIDE DEF f, p, w, k
  <2>14. Accepted \in Seq(Chars) /\ Len(Accepted) = k + Len(w) /\ Len(w) \in Nat
    BY <2>10, <2>12, <2>13, ConcatProperties, LenProperties
  <2>15. f \o Accepted = SubSeq(text, 1, Len(f) + k) \o w
    BY <2>10, <2>13
  <2>16. Len(f) + Len(Accepted) = Len(f) + k + Len(w)
    BY <1>1, <2>6, <2>14
  <2> DEFINE n == Len(f) + k
  <2>17. n \in 0..Len(text)
    BY <2>6
  <2>18. f \o Accepted = SubSeq(text, 1, n) \o w /\ Len(f) + Len(Accepted) = n + Len(w)
    BY <2>15, <2>16
  <2> HIDE DEF n
  <2> QED
    BY <1>5, <2>11, <2>14, <2>17, <2>18
<1> QED
  BY <1>6, <1>7
-----------------------------------------------------------------------------
(***************************************************************************)
(* Keys that add, take back and send lines, and resizing.                  *)
(***************************************************************************)

LEMMA LastOfRaw ==
    ASSUME EditorInv, raw # <<>>
    PROVE  \E v \in Seq(Seq(Chars)), u \in Seq(Chars), y \in Seq(Chars) :
               EndsIn(raw, rendered, v, u, y)
<1>1. /\ raw \in Seq(Seq(Chars)) /\ length \in Int /\ rendered = Render(raw, length)
      /\ \A k \in 1..Len(raw) : raw[k] # <<>>
  BY DEF EditorInv, LinesGood
<1> QED
  BY <1>1, LastShown, EditorAssumption

LEMMA SomeText == ASSUME EditorInv, raw # <<>> PROVE FlattenSeq(raw) # <<>>
<1>1. PICK v \in Seq(Seq(Chars)), u \in Seq(Chars), y \in Seq(Chars) :
          EndsIn(raw, rendered, v, u, y)
  BY LastOfRaw
<1>2. y # <<>> /\ FlattenSeq(raw) = FlattenSeq(v) \o (u \o y)
  <2>1. LeftOver(raw, rendered, v, u, y)
    BY <1>1, RestOfLine
  <2> QED
    BY <1>1, <2>1 DEF EndsIn, LeftOver
<1>3. FlattenSeq(v) \in Seq(Chars)
  BY <1>1, FlattenIsSeq
<1> DEFINE f == FlattenSeq(v)
           x == u \o y
<1>4. x \in Seq(Chars) /\ x # <<>>
  BY <1>1, <1>2, ConcatProperties, ConcatEqualIffEmpty
<1> HIDE DEF f, x
<1>5. f \o x # <<>>
  <2>1. f \in Seq(Chars)
    BY <1>3 DEF f
  <2> QED
    BY <1>4, <2>1, ConcatEqualIffEmpty
<1> QED
  BY <1>2, <1>5 DEF f, x

\* The last line shown leaves the entered lines, and nothing else does.
LEMMA LastTaken ==
    ASSUME EditorInv, raw # <<>>, PoppedLine, columns' = columns
    PROVE  /\ LinesGood' /\ FlattenSeq(raw') \in Seq(Chars)
           /\ Last(rendered) \in Seq(Chars) /\ Last(rendered) # <<>>
           /\ FlattenSeq(raw) = FlattenSeq(raw') \o Last(rendered)
<1>1. /\ raw \in Seq(Seq(Chars)) /\ length \in Int
      /\ \A k \in 1..Len(raw) : raw[k] # <<>>
      /\ length = columns - Padding
  BY DEF EditorInv, LinesGood
<1>2. PICK v \in Seq(Seq(Chars)), u \in Seq(Chars), y \in Seq(Chars) :
          EndsIn(raw, rendered, v, u, y)
  BY LastOfRaw
<1>3. /\ Front(raw) = v /\ Remainder = u
      /\ FlattenSeq(raw) = FlattenSeq(v) \o (u \o y)
      /\ Last(rendered) = y /\ y # <<>>
  <2>1. LeftOver(raw, rendered, v, u, y)
    BY <1>2, RestOfLine
  <2> QED
    BY <1>2, <2>1 DEF EndsIn, LeftOver, Remainder
<1> DEFINE left == IF u = <<>> THEN v ELSE Append(v, u)
<1>4. HoldLines(left, length)
  BY <1>3 DEF PoppedLine
<1>5. left \in Seq(Seq(Chars))
  BY <1>2, AppendProperties
<1>6. \A k \in 1..Len(v) : v[k] # <<>>
  <2>1. /\ raw = Append(v, u \o y) /\ u \o y \in Seq(Chars)
    BY <1>2, ConcatProperties DEF EndsIn
  <2> DEFINE x == u \o y
  <2>2. raw = Append(v, x) /\ x \in Seq(Chars)
    BY <2>1
  <2> HIDE DEF x
  <2>3. /\ Len(Append(v, x)) = Len(v) + 1 /\ Len(v) \in Nat
        /\ \A i \in 1..Len(v) : Append(v, x)[i] = v[i]
    BY <1>2, <2>2, AppendProperties, LenProperties
  <2> QED
    BY <1>1, <2>2, <2>3
<1>7. \A k \in 1..Len(left) : left[k] # <<>>
  <2>1. CASE u = <<>>
    BY <1>6, <2>1
  <2>2. CASE u # <<>>
    <3>1. /\ Len(Append(v, u)) = Len(v) + 1 /\ Len(v) \in Nat
          /\ \A i \in 1..Len(v) : Append(v, u)[i] = v[i]
          /\ Append(v, u)[Len(v) + 1] = u
      BY <1>2, AppendProperties, LenProperties
    <3>2. \A k \in 1..Len(v) + 1 : k \in 1..Len(v) \/ k = Len(v) + 1
      BY <3>1
    <3>3. left = Append(v, u)
      BY <2>2
    <3> HIDE DEF left
    <3> QED
      BY <1>6, <2>2, <3>1, <3>2, <3>3
  <2> QED
    BY <2>1, <2>2
<1>8. FlattenSeq(left) = FlattenSeq(v) \o u
  <2>1. CASE u = <<>>
    <3>1. FlattenSeq(v) \in Seq(Chars)
      BY <1>2, FlattenIsSeq
    <3> QED
      BY <2>1, <3>1, ConcatEmptySeq
  <2>2. CASE u # <<>>
    BY <1>2, <2>2, FlattenAppend
  <2> QED
    BY <2>1, <2>2
<1> HIDE DEF left
<1>9. LinesGood'
  BY <1>1, <1>4, <1>5, <1>7, LinesHeld
<1>10. raw' = left
  BY <1>4 DEF HoldLines
<1>11. FlattenSeq(left) \in Seq(Chars)
  BY <1>5, FlattenIsSeq
<1>12. FlattenSeq(raw) = FlattenSeq(left) \o y
  <2> DEFINE f == FlattenSeq(v)
  <2>1. f \in Seq(Chars)
    BY <1>2, FlattenIsSeq
  <2> HIDE DEF f
  <2>2. Regrouped(f, u, y)
    BY <1>2, <2>1, Regroup
  <2>3. f \o (u \o y) = (f \o u) \o y
    BY <2>2 DEF Regrouped
  <2> QED
    BY <1>3, <1>8, <2>3 DEF f
<1> QED
  BY <1>2, <1>3, <1>9, <1>10, <1>11, <1>12

LEMMA SendMessageStep ==
    ASSUME EditorInv, SendMessage
    PROVE  EditorInv' /\ Text!Send
<1>1. /\ ~active /\ rendered # <<>> /\ line = <<>>
      /\ response' = [result |-> "enter", text |-> rendered]
      /\ raw' = <<>> /\ rendered' = <<>> /\ cursor' = Cursor
      /\ UNCHANGED <<columns, length, line, list>>
  BY DEF SendMessage
<1>2. /\ raw \in Seq(Seq(Chars)) /\ length \in Int /\ rendered \in Seq(Seq(Chars))
      /\ rendered = Render(raw, length)
  BY DEF EditorInv, LinesGood
<1>3. FlattenSeq(rendered) = FlattenSeq(raw) /\ raw # <<>>
  BY <1>1, <1>2, RenderIsText, EditorAssumption
<1>4. response'.result = "enter" /\ response'.text = rendered
  BY <1>1
<1>5. cursor' = 1
  <2>1. Cursor = cursor /\ cursor \in 1..Len(line) + 1
    BY LineInText
  <2>2. Len(line) = 0
    BY <1>1, EmptySeq
  <2> QED
    BY <1>1, <2>1, <2>2
<1>6. EditorInv'
  <2>1. ListGood' /\ LineGood'
    BY <1>1, <1>5, ListShut, EmptyLine DEF EditorInv
  <2>2. LinesGood'
    <3>1. /\ <<>> \in Seq(Seq(Chars)) /\ Len(<<>>) = 0 /\ Render(<<>>, length) = <<>>
          /\ \A k \in 1..0 : FALSE
      BY EmptySeq, RenderNone
    <3>2. raw' = <<>> /\ rendered' = <<>> /\ length' = length
      BY <1>1
    <3> QED
      BY <1>2, <3>1, <3>2 DEF LinesGood
  <2>3. ResponseGood'
    BY <1>2, <1>4 DEF ResponseGood, Results
  <2> QED
    BY <1>1, <2>1, <2>2, <2>3 DEF EditorInv
<1>7. FlattenSeq(raw) \o line = FlattenSeq(raw) /\ FlattenSeq(raw') \o line' = <<>>
  <2>1. FlattenSeq(raw) \in Seq(Chars)
    BY LineInText
  <2> QED
    BY <1>1, <2>1, FlattenNone, ConcatEmptySeq, EmptySeq
<1>8. Len(FlattenSeq(raw')) + cursor' - 1 = 0
  BY <1>1, <1>5, FlattenNone
<1>9. FlattenSeq(response'.text) = FlattenSeq(raw) /\ FlattenSeq(raw) # <<>>
  BY <1>3, <1>4, SomeText
<1> QED
  BY <1>6, <1>7, <1>8, <1>9, SameJoin DEF Text!Send

LEMMA EnterLineStep ==
    ASSUME EditorInv, EnterLine
    PROVE  EditorInv' /\ Text!Move
<1> DEFINE f == FlattenSeq(raw)
           text == f \o line
<1>1. /\ f \in Seq(Chars) /\ Len(f) \in Nat
      /\ line \in Seq(Chars) /\ Len(line) \in Nat
      /\ Len(text) = Len(f) + Len(line)
  BY LineInText
<1>2. /\ line # <<>> /\ ResetList /\ HoldLines(Append(raw, line), columns - Padding)
      /\ line' = <<>> /\ cursor' = 1 /\ response' = Ok /\ columns' = columns
  BY DEF EnterLine, AddedLine
<1>3. /\ columns \in Columns /\ raw \in Seq(Seq(Chars))
      /\ \A k \in 1..Len(raw) : raw[k] # <<>>
  BY DEF EditorInv, LinesGood
<1>4. /\ Append(raw, line) \in Seq(Seq(Chars))
      /\ \A k \in 1..Len(Append(raw, line)) : Append(raw, line)[k] # <<>>
  <2>1. /\ Len(Append(raw, line)) = Len(raw) + 1 /\ Len(raw) \in Nat
        /\ \A i \in 1..Len(raw) : Append(raw, line)[i] = raw[i]
        /\ Append(raw, line)[Len(raw) + 1] = line
        /\ Append(raw, line) \in Seq(Seq(Chars))
    BY <1>1, <1>3, AppendProperties, LenProperties
  <2>2. \A k \in 1..Len(raw) + 1 : k \in 1..Len(raw) \/ k = Len(raw) + 1
    BY <2>1
  <2> QED
    BY <1>2, <1>3, <2>1, <2>2
<1>5. EditorInv'
  <2>1. columns - Padding \in Int
    BY <1>3, WidthIsInt
  <2>2. LinesGood'
    BY <1>2, <1>4, <2>1, LinesHeld
  <2>3. ListGood' /\ LineGood'
    BY <1>2, ListClosed, EmptyLine DEF EditorInv
  <2>4. ResponseGood'
    BY <1>2, OkIsGood DEF ResponseGood
  <2> QED
    BY <1>2, <1>3, <2>2, <2>3, <2>4 DEF EditorInv
<1>6. raw' = Append(raw, line)
  BY <1>2 DEF HoldLines
<1>7. FlattenSeq(raw') = text
  BY <1>1, <1>3, <1>6, FlattenAppend
<1> DEFINE n == Len(text)
<1>8. response'.text = <<>> /\ Len(text) + cursor' - 1 = n /\ n \in 0..n
  BY <1>1, <1>2, OkIsGood
<1>9. text \in Seq(Chars)
  <2> HIDE DEF f
  <2> QED
    BY <1>1, ConcatProperties
<1> HIDE DEF text, n
<1>10. Text!Edit(text \o line', n)
  BY <1>7, <1>8, Writes
<1>11. text \o line' = text
  BY <1>2, <1>9, ConcatEmptySeq
<1>12. Text!Edit(text, n)
  BY <1>10, <1>11
<1> QED
  BY <1>5, <1>8, <1>12 DEF Text!Move, text, n

LEMMA BackspaceToLineStep ==
    ASSUME EditorInv, BackspaceToLine
    PROVE  EditorInv' /\ Text!Move
<1> DEFINE y == Last(rendered)
           f == FlattenSeq(raw')
           text == FlattenSeq(raw) \o line
           n == Len(text)
<1>1. /\ line = <<>> /\ rendered # <<>> /\ line' = y /\ cursor' = Len(y) + 1
      /\ PoppedLine /\ UpdatedList(rendered', line') /\ response' = Ok /\ columns' = columns
  BY DEF BackspaceToLine
<1>2. raw # <<>>
  BY <1>1, ShownTogether DEF EditorInv
<1>3. LinesGood' /\ f \in Seq(Chars) /\ y \in Seq(Chars) /\ FlattenSeq(raw) = f \o y
  BY <1>1, <1>2, LastTaken
<1>4. Len(f) \in Nat /\ Len(y) \in Nat /\ Len(f \o y) = Len(f) + Len(y) /\ f \o y \in Seq(Chars)
  <2> HIDE DEF f, y
  <2> QED
    BY <1>3, LenProperties, ConcatProperties
<1>5. EditorInv'
  <2>1. LineGood'
    BY <1>1, <1>3, <1>4 DEF LineGood
  <2>2. ListGood'
    BY <1>1, ListUpdated
  <2>3. ResponseGood'
    BY <1>1, OkIsGood DEF ResponseGood
  <2> QED
    BY <1>1, <1>3, <2>1, <2>2, <2>3 DEF EditorInv
<1>6. text = f \o y
  BY <1>1, <1>3, <1>4, ConcatEmptySeq
<1>7. response'.text = <<>> /\ Len(f) + cursor' - 1 = n /\ n \in 0..n
  BY <1>1, <1>4, <1>6, OkIsGood
<1>8. Text!Edit(f \o line', n)
  <2> DEFINE m == n
  <2>1. FlattenSeq(raw') = f
    OBVIOUS
  <2> HIDE DEF f, m
  <2> QED
    BY <1>7, <2>1, Writes DEF m
<1>9. Text!Edit(text, n)
  BY <1>1, <1>6, <1>8
<1> QED
  BY <1>5, <1>7, <1>9 DEF Text!Move

LEMMA EscapeLastLineStep ==
    ASSUME EditorInv, EscapeLastLine
    PROVE  EditorInv' /\ Text!DropEnd
<1> DEFINE y == Last(rendered)
           f == FlattenSeq(raw')
           text == FlattenSeq(raw) \o line
           n == Len(f)
<1>1. /\ ~active /\ line = <<>> /\ raw # <<>> /\ PoppedLine /\ cursor' = 1
      /\ response' = Ok /\ UNCHANGED <<columns, line, list>>
  BY DEF EscapeLastLine
<1>2. LinesGood' /\ f \in Seq(Chars) /\ y \in Seq(Chars) /\ y # <<>> /\ FlattenSeq(raw) = f \o y
  BY <1>1, LastTaken
<1>3. EditorInv'
  <2>1. ListGood' /\ LineGood'
    BY <1>1, ListShut, EmptyLine DEF EditorInv
  <2>2. ResponseGood'
    BY <1>1, OkIsGood DEF ResponseGood
  <2> QED
    BY <1>1, <1>2, <2>1, <2>2 DEF EditorInv
<1>4. /\ Len(f) \in Nat /\ Len(y) \in Nat \ {0}
      /\ Len(f \o y) = Len(f) + Len(y) /\ f \o y \in Seq(Chars)
      /\ SubSeq(f \o y, 1, Len(f)) = f
      /\ f \o <<>> = f
  <2> HIDE DEF f, y
  <2> QED
    BY <1>2, EmptySeq, LenProperties, ConcatProperties, Halves, ConcatEmptySeq
<1>5. text = f \o y
  BY <1>1, <1>2, <1>4, ConcatEmptySeq
<1>6. /\ response'.text = <<>> /\ Len(f) + cursor' - 1 = n
      /\ n \in 0..Len(text) - 1
  BY <1>1, <1>4, <1>5, OkIsGood
<1>7. Text!Edit(f \o line', n)
  <2> DEFINE m == n
  <2>1. FlattenSeq(raw') = f
    OBVIOUS
  <2> HIDE DEF f, m
  <2> QED
    BY <1>6, <2>1, Writes DEF m
<1>8. Text!Edit(SubSeq(text, 1, n), n)
  BY <1>1, <1>4, <1>5, <1>7
<1> QED
  BY <1>3, <1>6, <1>8 DEF Text!DropEnd, Text!Start

LEMMA ResizeStep ==
    ASSUME EditorInv, Resize
    PROVE  EditorInv' /\ Text!Move
<1>1. /\ columns' \in Columns /\ response' = Ok /\ UNCHANGED <<line, cursor, list>>
      /\ IF length # columns' - Padding THEN HoldLines(raw, columns' - Padding)
                                        ELSE UNCHANGED content
  BY DEF Resize
<1>2. LinesGood /\ LineGood /\ ListGood
  BY DEF EditorInv
<1>3. columns' - Padding \in Int
  BY <1>1, WidthIsInt
<1>4. LinesGood' /\ raw' = raw
  <2>1. CASE length # columns' - Padding
    <3>1. HoldLines(raw, columns' - Padding)
      BY <1>1, <2>1
    <3> QED
      BY <1>2, <1>3, <3>1, LinesHeld DEF LinesGood, HoldLines
  <2>2. CASE length = columns' - Padding
    BY <1>1, <1>2, <2>2 DEF LinesGood, content
  <2> QED
    BY <2>1, <2>2
<1>5. rendered' = <<>> <=> rendered = <<>>
  <2>1. /\ raw \in Seq(Seq(Chars)) /\ length \in Int /\ rendered = Render(raw, length)
        /\ length' \in Int /\ rendered' = Render(raw, length')
    BY <1>2, <1>4 DEF LinesGood
  <2> QED
    BY <2>1, RenderIsText, EditorAssumption
<1>6. ListGood'
  <2>1. /\ UNCHANGED <<items, active, fileMode, line>>
        /\ selected' \in 0..Len(items) /\ (active => selected' < Len(items))
    BY <1>1, <1>2 DEF ListGood, list
  <2> QED
    BY <1>2, <1>5, <2>1, ListStays
<1>7. LineGood' /\ ResponseGood' /\ response'.text = <<>>
  BY <1>1, <1>2, OkIsGood DEF LineGood, ResponseGood
<1>8. Text!Move
  <2>1. cursor' \in {cursor - 1, cursor, cursor + 1} /\ cursor' \in 1..Len(line) + 1
    BY <1>1, <1>2 DEF LineGood
  <2> QED
    BY <1>1, <1>4, <1>7, <2>1, Moves
<1> QED
  BY <1>1, <1>4, <1>6, <1>7, <1>8 DEF EditorInv
-----------------------------------------------------------------------------
(***************************************************************************)
(* What holds of every run of the editor.                                  *)
(***************************************************************************)

LEMMA EditorBegins == Init => EditorInv /\ Text!Init
<1> SUFFICES ASSUME Init PROVE EditorInv /\ Text!Init
  OBVIOUS
<1>1. /\ columns \in Columns
      /\ raw = <<>> /\ rendered = <<>> /\ length = 10
      /\ line = <<>> /\ cursor = 1
      /\ items = <<>> /\ active = FALSE /\ fileMode = FALSE /\ selected = 0
      /\ response = Ok
  BY DEF Init
<1>2. LinesGood
  <2>1. /\ <<>> \in Seq(Seq(Chars)) /\ Len(<<>>) = 0 /\ Render(<<>>, 10) = <<>>
        /\ \A k \in 1..0 : FALSE
    BY EmptySeq, RenderNone
  <2> QED
    BY <1>1, <2>1 DEF LinesGood
<1>3. LineGood /\ ResponseGood
  <2>1. <<>> \in Seq(Chars) /\ 1 \in 1..Len(<<>>) + 1
    BY EmptySeq
  <2> QED
    BY <1>1, <2>1, OkIsGood DEF LineGood, ResponseGood
<1>4. ListGood
  <2>1. 0 \in 0..Len(<<>>)
    OBVIOUS
  <2> QED
    BY <1>1, <2>1 DEF ListGood
<1>5. /\ FlattenSeq(raw) \o line = <<>> /\ Len(FlattenSeq(raw)) + cursor - 1 = 0
      /\ response.text = <<>>
  <2>1. <<>> \o <<>> = <<>> /\ Len(<<>>) = 0
    OBVIOUS
  <2> QED
    BY <1>1, <2>1, FlattenNone, OkIsGood
<1> QED
  BY <1>1, <1>2, <1>3, <1>4, <1>5 DEF EditorInv, Text!Init

\* Every key keeps the invariant and is a step on the text, or no step.
LEMMA EditorStep ==
    ASSUME EditorInv, [Next]_vars
    PROVE  EditorInv' /\ [Text!Next]_(Text!vars)
<1>1. ASSUME NEW c \in Chars, Type(c) PROVE EditorInv' /\ Text!Next
  BY <1>1, TypeStep DEF Text!Next
<1>2. CASE Enter
  BY <1>2, AcceptStep, SendMessageStep, SendCommandStep, EnterLineStep, ListStep
     DEF Enter, Text!Next
<1>3. CASE BackspaceInLine
  BY <1>3, BackspaceInLineStep DEF Text!Next
<1>4. CASE BackspaceToLine
  BY <1>4, BackspaceToLineStep DEF Text!Next
<1>5. CASE Delete
  BY <1>5, DeleteStep DEF Text!Next
<1>6. CASE Left \/ Right
  BY <1>6, ArrowStep DEF Text!Next
<1>7. CASE Up \/ Down
  BY <1>7, ListStep DEF Text!Next
<1>8. CASE Escape
  BY <1>8, ListStep, EscapeLineStep, EscapeLastLineStep DEF Escape, Text!Next
<1>9. CASE Resize
  BY <1>9, ResizeStep DEF Text!Next
<1>10. CASE UNCHANGED vars
  <2>1. UNCHANGED <<columns, raw, rendered, length, line, cursor, items, active, fileMode, selected,
                    response>>
    BY <1>10 DEF vars, content, list
  <2>2. EditorInv'
    BY <2>1 DEF EditorInv, LinesGood, LineGood, ListGood, ResponseGood
  <2>3. UNCHANGED Text!vars
    BY <2>1 DEF Text!vars
  <2> QED
    BY <2>2, <2>3
<1> QED
  BY <1>1, <1>2, <1>3, <1>4, <1>5, <1>6, <1>7, <1>8, <1>9, <1>10 DEF Next

LEMMA EditorInvariance == Spec => []EditorInv
<1>1. EditorInv /\ [Next]_vars => EditorInv'
  BY EditorStep
<1> QED
  BY <1>1, EditorBegins, PTL DEF Spec

\* Whatever keys come in whatever order, the cursor is in the line and the
\* selection in the list, and every line has only characters that were typed or
\* suggested.
THEOREM EditorTypes == Spec => []TypeOK
<1>1. EditorInv => TypeOK
  BY DEF EditorInv, LinesGood, LineGood, ListGood, ResponseGood, TypeOK
<1> QED
  BY <1>1, EditorInvariance, PTL

\* AddInputLine, PopBackInputLine and SetLineLength in any order keep what is
\* shown the entered lines cut to the width of the window, so that the line
\* taken back is always the end of a line that was typed.
THEOREM TextShownAsTyped == Spec => []ShownAsTyped
<1>1. ASSUME EditorInv PROVE ShownAsTyped
  <2>1. rendered = Render(raw, length) /\ (raw # <<>> => length = columns - Padding)
    BY <1>1 DEF EditorInv, LinesGood
  <2>2. ASSUME raw # <<>> PROVE IsSuffix(Last(rendered), Last(raw))
    <3>1. PICK v \in Seq(Seq(Chars)), u \in Seq(Chars), y \in Seq(Chars) :
              EndsIn(raw, rendered, v, u, y)
      BY <1>1, <2>2, LastOfRaw
    <3>2. LeftOver(raw, rendered, v, u, y)
      BY <3>1, RestOfLine
    <3>3. Last(rendered) = y /\ Last(raw) = u \o y
      BY <3>1, <3>2 DEF EndsIn, LeftOver
    <3>4. IsSuffix(y, u \o y)
      BY <3>1, EndIsSuffix
    <3> QED
      BY <3>3, <3>4
  <2> QED
    BY <2>1, <2>2 DEF ShownAsTyped
<1> QED
  BY <1>1, EditorInvariance, PTL

\* After every key an open list has what fits the line as it is then: an
\* accepted suggestion never replaces something else.
THEOREM OfferFitsLine == Spec => []ListFitsLine
<1>1. EditorInv => ListFitsLine
  BY DEF EditorInv, ListGood, ListFitsLine
<1> QED
  BY <1>1, EditorInvariance, PTL

LEMMA SmallestOfThree ==
    ASSUME NEW a \in Int, NEW b \in Int, NEW c \in Int, b <= c
    PROVE  Min({a, b, c}) = IF a <= b THEN a ELSE b
BY DEF Min

\* The rows DrawAutocompleteList shows follow the selection round the list, for
\* any number of suggestions, when there is room above the input.
THEOREM HighlightIsDrawn == Spec => []HighlightDrawn
<1>1. ASSUME EditorInv, active, AnchorY >= MaxVisible
      PROVE  selected \in FirstShown..FirstShown + Shown - 1
  <2> DEFINE n == Len(items)
             s == selected
             anchor == AnchorY
             most == MaxVisible
             first == IF s >= most THEN s - most + 1 ELSE 0
             m == IF n <= most THEN n ELSE most
  <2>1. n \in Nat \ {0} /\ s \in 0..n - 1 /\ most \in Nat \ {0} /\ anchor \in Int /\ most <= anchor
    <3>1. Len(rendered) \in Nat
      BY <1>1, LenProperties DEF EditorInv, LinesGood
    <3>2. n \in Nat \ {0} /\ s \in 0..n - 1
      BY <1>1, ListLength
    <3> QED
      BY <1>1, <3>1, <3>2, EditorAssumption DEF AnchorY
  <2>2. Shown = m
    <3>1. Shown = Min({n, most, anchor})
      BY DEF Shown
    <3> HIDE DEF n, most, anchor
    <3> QED
      BY <2>1, <3>1, SmallestOfThree
  <2>3. FirstShown = Max({0, Min({first, n - m})})
    BY <2>2 DEF FirstShown
  <2>4. first \in Nat /\ n - m \in Nat
    <3> HIDE DEF n, s, most
    <3> QED
      BY <2>1
  <2>5. FirstShown = IF first <= n - m THEN first ELSE n - m
    <3> DEFINE rest == n - m
               top == IF first <= rest THEN first ELSE rest
    <3>1. Min({first, rest}) = top /\ top \in Nat
      <4>1. first \in Nat /\ rest \in Nat /\ first \in Int /\ rest \in Int
        BY <2>4
      <4> HIDE DEF first, rest, top
      <4>2. Min({first, rest}) = IF first <= rest THEN first ELSE rest
        BY <4>1, LargerOfTwo
      <4> QED
        BY <4>1, <4>2 DEF top
    <3>2. Max({0, top}) = top
      <4> HIDE DEF top
      <4> QED
        BY <3>1, LargerOfTwo
    <3> HIDE DEF first, m, n
    <3> QED
      BY <2>3, <3>1, <3>2
  <2>6. s \in FirstShown..FirstShown + m - 1
    <3> HIDE DEF n, s, most
    <3> QED
      BY <2>1, <2>5
  <2> QED
    BY <2>2, <2>6
<1> QED
  BY <1>1, EditorInvariance, PTL DEF HighlightDrawn

\* The editor implements the text field: cutting lines, taking them back and
\* resizing never change the characters written, a key changes them at the cursor only,
\* and all of them are sent, in lines that need not be those entered.
THEOREM EditorIsTextField == Spec => OneText
<1>1. Init => Text!Init
  BY EditorBegins
<1>2. EditorInv /\ [Next]_vars => [Text!Next]_(Text!vars)
  BY EditorStep
<1> QED
  BY <1>1, <1>2, EditorInvariance, PTL DEF Spec, OneText, Text!Spec
-----------------------------------------------------------------------------
(***************************************************************************)
(* The confirm box.                                                        *)
(***************************************************************************)

\* The worker's steps keep the invariant: the key is forgotten before the wait
\* begins, and the wait only goes on when the stored key is no answer.
LEMMA WorkerStep ==
    ASSUME BoxInv, Worker
    PROVE  BoxInv'
<1> USE BoxesAssumption DEF BoxInv, BoxTypes, NoLostWakeup, ConsentIsFresh, KeyIsOfThisBox,
        confirm, main, history, Typed, Answers, Deciding
<1>1. CASE Ask
  <2>1. boxes' \in 0..MaxBoxes
    BY <1>1 DEF Ask
  <2>2. BoxTypes'
    BY <1>1, <2>1 DEF Ask
  <2>3. NoLostWakeup' /\ ConsentIsFresh' /\ KeyIsOfThisBox'
    BY <1>1 DEF Ask
  <2> QED
    BY <2>2, <2>3
<1>2. CASE Open
  BY <1>2 DEF Open
<1>3. CASE WakeUp
  BY <1>3 DEF WakeUp
<1>4. CASE Expire
  BY <1>4 DEF Expire
<1>5. CASE Decide
  BY <1>5 DEF Decide
<1>6. CASE WaitOn
  BY <1>6 DEF WaitOn
<1>7. CASE Return
  BY <1>7 DEF Return
<1> QED
  BY <1>1, <1>2, <1>3, <1>4, <1>5, <1>6, <1>7 DEF Worker

\* The UI thread's steps keep it: the key is stored before the notification,
\* which is under way until a sleeping worker has been woken.
LEMMA UiStep ==
    ASSUME BoxInv, Ui
    PROVE  BoxInv'
<1> USE BoxesAssumption DEF BoxInv, BoxTypes, NoLostWakeup, ConsentIsFresh, KeyIsOfThisBox,
        confirm, main, history, Typed, Answers, Deciding
<1>1. ASSUME NEW k \in Typed, TypeKey(k)
      PROVE  BoxInv'
  BY <1>1 DEF TypeKey
<1>2. CASE Route
  BY <1>2 DEF Route
<1>3. CASE Leave
  BY <1>3 DEF Leave
<1>4. CASE Put
  BY <1>4 DEF Put, StoreKey
<1>5. CASE Notify
  BY <1>5 DEF Notify
<1> QED
  BY <1>1, <1>2, <1>3, <1>4, <1>5 DEF Ui

\* BoxInv is an invariant.
LEMMA BoxInvariance == BoxSpec => []BoxInv
<1>1. BoxInit => BoxInv
  <2>1. BoxInit => BoxTypes
    <3>1. 0 \in 0..MaxBoxes
      BY BoxesAssumption
    <3> QED
      BY <3>1 DEF BoxInit, BoxTypes, Typed
  <2>2. BoxInit => NoLostWakeup /\ ConsentIsFresh /\ KeyIsOfThisBox
    BY DEF BoxInit, NoLostWakeup, ConsentIsFresh, KeyIsOfThisBox, Answers
  <2> QED
    BY <2>1, <2>2 DEF BoxInv
<1>2. BoxInv /\ [BoxNext]_boxVars => BoxInv'
  <2>1. ASSUME BoxInv, UNCHANGED boxVars
        PROVE  BoxInv'
    BY <2>1 DEF BoxInv, BoxTypes, NoLostWakeup, ConsentIsFresh, KeyIsOfThisBox,
       boxVars, confirm, main, history
  <2> QED
    BY <2>1, WorkerStep, UiStep DEF BoxNext
<1> QED
  BY <1>1, <1>2, PTL DEF BoxSpec

\* However notifications, keys, timeouts and spurious wake-ups interleave, an
\* answer never waits for the timeout.
THEOREM AnswerWakesWorker == BoxSpec => []NoLostWakeup
<1>1. BoxInv => NoLostWakeup
  BY DEF BoxInv
<1> QED
  BY <1>1, BoxInvariance, PTL

\* In any number of boxes, none is approved by a key stored before it was shown.
THEOREM NoStaleConsent == BoxSpec => []ConsentIsFresh
<1>1. BoxInv => ConsentIsFresh
  BY DEF BoxInv
<1> QED
  BY <1>1, BoxInvariance, PTL

=============================================================================
