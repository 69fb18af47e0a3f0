------------------------- MODULE ToolHistoryProofs -------------------------
(***************************************************************************)
(* For any paths, trees and texts and a history of any length: the files   *)
(* stay a tree, the history implements the line of revisions (Revisions),  *)
(* on such a line no object on a stack throws, and whatever others did to  *)
(* the files in between, /undo and /redo leave alone what does not lie at, *)
(* or in, the paths of the call they take back.                            *)
(***************************************************************************)
EXTENDS ToolHistory, SequenceTheorems, WellFoundedInduction, TLAPS

-----------------------------------------------------------------------------
(***************************************************************************)
(* The calls of std::filesystem.                                           *)
(***************************************************************************)

LEMMA WritesOneFile ==
    ASSUME NEW t \in Trees, NEW p \in Paths, NEW c \in Contents
    PROVE  Written(t, p, c) \in Trees /\ \A q \in Paths : q # p => Written(t, p, c)[q] = t[q]
BY DEF Written, Trees, Nodes

LEMMA RemovesOnePath ==
    ASSUME NEW t \in Trees, NEW p \in Paths
    PROVE  Removed(t, p) \in Trees /\ \A q \in Paths : q # p => Removed(t, p)[q] = t[q]
BY DEF Removed, Trees, Nodes

LEMMA CopiesToOneFile ==
    ASSUME NEW t \in Trees, NEW p \in Paths, NEW r \in Paths
    PROVE  Copied(t, p, r) \in Trees /\ \A q \in Paths : q # r => Copied(t, p, r)[q] = t[q]
BY DEF Copied, Trees, Nodes

\* Directories are made only where nothing is.
LEMMA MakesWhatIsMissing ==
    ASSUME NEW t \in Trees, NEW ps, CanMakeDirs(t, ps)
    PROVE  /\ MadeDirs(t, ps) \in Trees
           /\ \A q \in Paths : Exists(t, q) => MadeDirs(t, ps)[q] = t[q]
BY DEF MadeDirs, CanMakeDirs, IsFile, IsDir, Trees, Nodes

\* A rename disturbs what lies at or in its two paths.
LEMMA RenamesTwoPaths ==
    ASSUME NEW t \in Trees, NEW p \in Paths, NEW r \in Paths
    PROVE  /\ Renamed(t, p, r) \in Trees
           /\ \A q \in Paths : q \notin {p, r} \cup Under[p] \cup Under[r] => Renamed(t, p, r)[q] = t[q]
<1>1. CASE r = p \/ ~CanRename(t, p, r)
  BY <1>1 DEF Renamed
<1>2. CASE ~(r = p \/ ~CanRename(t, p, r))
  <2>1. Renamed(t, p, r) =
            [q \in Paths |->
                IF q = r \/ q \in Under[r]
                THEN IF Moved(q, r, p) \in Paths THEN t[Moved(q, r, p)] ELSE Nothing
                ELSE IF q = p \/ q \in Under[p] THEN Nothing ELSE t[q]]
    BY <1>2 DEF Renamed
  <2> QED
    BY <2>1 DEF Trees, Nodes
<1> QED
  BY <1>1, <1>2

-----------------------------------------------------------------------------
(***************************************************************************)
(* Paths: prefixes, and what becomes of a path when a directory moves.     *)
(***************************************************************************)

LEMMA PathIsSeq ==
    ASSUME NEW p \in Paths
    PROVE  p \in Seq(Names) /\ Len(p) \in Nat /\ Len(p) > 0
BY PathsAssumption, LenProperties

\* The start of a sequence, element by element.
LEMMA StartOf ==
    ASSUME NEW q \in Seq(Names), NEW n \in 0..Len(q)
    PROVE  /\ SubSeq(q, 1, n) \in Seq(Names) /\ Len(SubSeq(q, 1, n)) = n
           /\ \A i \in 1..n : SubSeq(q, 1, n)[i] = q[i]
<1>1. Len(q) \in Nat
  BY LenProperties
<1>2. \A i \in 1..n : q[i] \in Names
  BY <1>1, ElementOfSeq
<1>3. /\ SubSeq(q, 1, n) \in Seq(Names)
      /\ Len(SubSeq(q, 1, n)) = IF 1 <= n THEN n - 1 + 1 ELSE 0
      /\ \A i \in 1..(n - 1 + 1) : SubSeq(q, 1, n)[i] = q[1 + i - 1]
  BY <1>1, <1>2, SubSeqProperties
<1>4. n \in Nat /\ n - 1 + 1 = n
  BY <1>1
<1>5. (IF 1 <= n THEN n - 1 + 1 ELSE 0) = n
  BY <1>4
<1>6. \A i \in 1..n : 1 + i - 1 = i
  OBVIOUS
<1> QED
  BY <1>3, <1>4, <1>5, <1>6

\* What lies under a path, element by element.
LEMMA UnderIsLonger ==
    ASSUME NEW p \in Paths, NEW q \in Paths
    PROVE  /\ q \in Under[p] <=> Len(q) > Len(p) /\ \A i \in 1..Len(p) : q[i] = p[i]
           /\ p \in Above[q] <=> q \in Under[p]
<1>1. /\ p \in Seq(Names) /\ q \in Seq(Names)
      /\ Len(p) \in Nat /\ Len(q) \in Nat
  BY PathIsSeq
<1>2. q \in Under[p] <=> Len(q) > Len(p) /\ SubSeq(q, 1, Len(p)) = p
  BY DEF Under
<1>3. ASSUME Len(q) > Len(p)
      PROVE  SubSeq(q, 1, Len(p)) = p <=> \A i \in 1..Len(p) : q[i] = p[i]
  <2>1. /\ SubSeq(q, 1, Len(p)) \in Seq(Names) /\ Len(SubSeq(q, 1, Len(p))) = Len(p)
        /\ \A i \in 1..Len(p) : SubSeq(q, 1, Len(p))[i] = q[i]
    <3>1. Len(p) \in 0..Len(q)
      BY <1>1, <1>3
    <3> QED
      BY <1>1, <3>1, StartOf
  <2>2. ASSUME \A i \in 1..Len(p) : q[i] = p[i] PROVE SubSeq(q, 1, Len(p)) = p
    <3>1. /\ SubSeq(q, 1, Len(p)) \in Seq(Names) /\ p \in Seq(Names)
          /\ Len(SubSeq(q, 1, Len(p))) = Len(p)
          /\ \A i \in 1..Len(SubSeq(q, 1, Len(p))) : SubSeq(q, 1, Len(p))[i] = p[i]
      BY <1>1, <2>1, <2>2
    <3> QED
      BY <3>1, SeqEqual
  <2> QED
    BY <2>1, <2>2
<1>4. p \in Above[q] <=> q \in Under[p]
  BY DEF Above
<1> QED
  BY <1>2, <1>3, <1>4

\* Nothing lies under itself, and under is transitive.
LEMMA UnderIsOrder ==
    ASSUME NEW p \in Paths, NEW q \in Paths, q \in Under[p]
    PROVE  p \notin Under[p] /\ q # p /\ \A s \in Under[q] : s \in Under[p]
<1>1. Len(p) \in Nat /\ Len(q) \in Nat
  BY PathIsSeq
<1>2. Len(q) > Len(p) /\ \A i \in 1..Len(p) : q[i] = p[i]
  BY UnderIsLonger
<1>3. p \notin Under[p] /\ q # p
  BY <1>1, <1>2, UnderIsLonger
<1>4. ASSUME NEW s \in Under[q] PROVE s \in Under[p]
  <2>1. s \in Paths
    BY DEF Under
  <2>2. Len(s) \in Nat /\ Len(s) > Len(q) /\ \A i \in 1..Len(q) : s[i] = q[i]
    BY <1>4, <2>1, PathIsSeq, UnderIsLonger
  <2>3. Len(s) > Len(p) /\ \A i \in 1..Len(p) : s[i] = p[i]
    BY <1>1, <1>2, <2>2
  <2> QED
    BY <2>1, <2>3, UnderIsLonger
<1> QED
  BY <1>3, <1>4

\* Of two paths above a third, one is above the other.
LEMMA AboveIsChain ==
    ASSUME NEW q \in Paths, NEW a \in Above[q], NEW b \in Above[q]
    PROVE  a \in Paths /\ b \in Paths /\ (a = b \/ a \in Under[b] \/ b \in Under[a])
<1>1. a \in Paths /\ b \in Paths
  BY DEF Above
<1>2. /\ a \in Seq(Names) /\ b \in Seq(Names) /\ Len(a) \in Nat /\ Len(b) \in Nat
      /\ \A i \in 1..Len(a) : q[i] = a[i]
      /\ \A i \in 1..Len(b) : q[i] = b[i]
  BY <1>1, PathIsSeq, UnderIsLonger
<1>3. CASE Len(a) = Len(b)
  <2>1. \A i \in 1..Len(a) : a[i] = b[i]
    BY <1>2, <1>3
  <2>2. a = b
    BY <1>2, <1>3, <2>1, SeqEqual
  <2> QED
    BY <1>1, <2>2
<1>4. CASE Len(a) > Len(b)
  BY <1>1, <1>2, <1>4, UnderIsLonger
<1>5. CASE Len(b) > Len(a)
  BY <1>1, <1>2, <1>5, UnderIsLonger
<1> QED
  BY <1>2, <1>3, <1>4, <1>5

\* The path q becomes when p becomes r, element by element.
LEMMA MovedPlace ==
    ASSUME NEW p \in Seq(Names), NEW q \in Seq(Names), NEW r \in Seq(Names), Len(p) <= Len(q)
    PROVE  LET m == Moved(q, p, r)
           IN  /\ m \in Seq(Names)
               /\ Len(m) = Len(r) + Len(q) - Len(p)
               /\ \A i \in 1..Len(r) : m[i] = r[i]
               /\ \A i \in (Len(p) + 1)..Len(q) : m[i - Len(p) + Len(r)] = q[i]
<1> DEFINE tail == SubSeq(q, Len(p) + 1, Len(q))
           m    == Moved(q, p, r)
<1>1. Len(p) \in Nat /\ Len(q) \in Nat /\ Len(r) \in Nat
  BY LenProperties
<1>2. /\ tail \in Seq(Names)
      /\ Len(tail) = Len(q) - Len(p)
      /\ \A i \in 1..(Len(q) - Len(p)) : tail[i] = q[Len(p) + i]
  <2>1. \A i \in (Len(p) + 1)..Len(q) : q[i] \in Names
    BY <1>1, ElementOfSeq
  <2>2. /\ tail \in Seq(Names)
        /\ Len(tail) = IF Len(p) + 1 <= Len(q) THEN Len(q) - (Len(p) + 1) + 1 ELSE 0
        /\ \A i \in 1..(Len(q) - (Len(p) + 1) + 1) : tail[i] = q[(Len(p) + 1) + i - 1]
    BY <1>1, <2>1, SubSeqProperties
  <2>3. /\ (IF Len(p) + 1 <= Len(q) THEN Len(q) - (Len(p) + 1) + 1 ELSE 0) = Len(q) - Len(p)
        /\ Len(q) - (Len(p) + 1) + 1 = Len(q) - Len(p)
    BY <1>1
  <2>4. \A i \in 1..(Len(q) - Len(p)) : (Len(p) + 1) + i - 1 = Len(p) + i
    BY <1>1
  <2> HIDE DEF tail
  <2> QED
    BY <2>2, <2>3, <2>4
<1>3. m = r \o tail
  BY DEF Moved
<1> HIDE DEF tail, m
<1>4. /\ m \in Seq(Names)
      /\ Len(m) = Len(r) + Len(tail)
      /\ \A i \in 1..Len(r) + Len(tail) : m[i] = IF i <= Len(r) THEN r[i] ELSE tail[i - Len(r)]
  BY <1>2, <1>3, ConcatProperties
<1>5. ASSUME NEW i \in 1..Len(r) PROVE m[i] = r[i]
  <2>1. i \in 1..Len(r) + Len(tail) /\ i <= Len(r)
    <3>1. Len(tail) \in Nat
      BY <1>1, <1>2
    <3> QED
      BY <1>1, <3>1
  <2> QED
    BY <1>4, <2>1
<1>6. ASSUME NEW i \in (Len(p) + 1)..Len(q) PROVE m[i - Len(p) + Len(r)] = q[i]
  <2>1. /\ i - Len(p) + Len(r) \in 1..Len(r) + Len(tail)
        /\ ~(i - Len(p) + Len(r) <= Len(r))
        /\ (i - Len(p) + Len(r)) - Len(r) = i - Len(p)
        /\ i - Len(p) \in 1..(Len(q) - Len(p)) /\ Len(p) + (i - Len(p)) = i
    BY <1>1, <1>2
  <2>2. m[i - Len(p) + Len(r)] = tail[i - Len(p)]
    BY <1>4, <2>1
  <2> QED
    BY <1>2, <2>1, <2>2
<1> QED
  BY <1>1, <1>2, <1>4, <1>5, <1>6 DEF m

\* What was at or under p is then at or under r, and comes back when r becomes p.
LEMMA MovedBack ==
    ASSUME NEW p \in Paths, NEW r \in Paths, NEW q \in {p} \cup Under[p]
    PROVE  /\ q \in Paths
           /\ q = p => Moved(q, p, r) = r
           /\ q \in Under[p] /\ Moved(q, p, r) \in Paths => Moved(q, p, r) \in Under[r]
           /\ Moved(Moved(q, p, r), r, p) = q
<1> DEFINE m == Moved(q, p, r)
           b == Moved(m, r, p)
<1>1. /\ q \in Paths /\ p \in Seq(Names) /\ q \in Seq(Names) /\ r \in Seq(Names)
      /\ Len(p) \in Nat /\ Len(q) \in Nat /\ Len(r) \in Nat
  BY PathIsSeq DEF Under
<1>2. Len(p) <= Len(q) /\ \A i \in 1..Len(p) : q[i] = p[i]
  BY <1>1, UnderIsLonger
<1>3. /\ m \in Seq(Names)
      /\ Len(m) = Len(r) + Len(q) - Len(p)
      /\ \A i \in 1..Len(r) : m[i] = r[i]
      /\ \A i \in (Len(p) + 1)..Len(q) : m[i - Len(p) + Len(r)] = q[i]
  BY <1>1, <1>2, MovedPlace
<1>4. Len(r) <= Len(m) /\ Len(m) \in Nat
  BY <1>1, <1>2, <1>3
<1> HIDE DEF m
<1>5. /\ b \in Seq(Names)
      /\ Len(b) = Len(p) + Len(m) - Len(r)
      /\ \A i \in 1..Len(p) : b[i] = p[i]
      /\ \A i \in (Len(r) + 1)..Len(m) : b[i - Len(r) + Len(p)] = m[i]
  BY <1>1, <1>3, <1>4, MovedPlace
<1> HIDE DEF b
<1>6. b = q
  <2>1. Len(b) = Len(q)
    BY <1>1, <1>3, <1>5
  <2>2. ASSUME NEW i \in 1..Len(b) PROVE b[i] = q[i]
    <3>1. CASE i <= Len(p)
      BY <1>1, <1>2, <1>5, <3>1, <2>1
    <3>2. CASE i > Len(p)
      <4> DEFINE j == i - Len(p) + Len(r)
      <4>1. /\ i \in (Len(p) + 1)..Len(q)
            /\ j \in (Len(r) + 1)..Len(m)
            /\ j - Len(r) + Len(p) = i
        BY <1>1, <1>3, <2>1, <3>2
      <4>2. m[j] = q[i]
        BY <1>3, <4>1
      <4>3. b[i] = m[j]
        <5> HIDE DEF j
        <5> QED
          BY <1>5, <4>1
      <4> QED
        BY <4>2, <4>3
    <3> QED
      BY <1>1, <2>1, <3>1, <3>2
  <2> QED
    BY <1>1, <1>5, <2>1, <2>2, SeqEqual
<1>7. ASSUME q = p PROVE m = r
  <2>1. Len(m) = Len(r) /\ \A i \in 1..Len(m) : m[i] = r[i]
    BY <1>1, <1>3, <1>7
  <2> QED
    BY <1>1, <1>3, <2>1, SeqEqual
<1>8. ASSUME q \in Under[p], m \in Paths PROVE m \in Under[r]
  <2>1. Len(q) > Len(p)
    BY <1>1, <1>8, UnderIsLonger
  <2>2. Len(m) > Len(r) /\ \A i \in 1..Len(r) : m[i] = r[i]
    BY <1>1, <1>3, <2>1
  <2> QED
    BY <1>8, <2>2, UnderIsLonger
<1> QED
  BY <1>1, <1>6, <1>7, <1>8 DEF m, b

\* What lies under another path still does after both have moved.
LEMMA MovedTogether ==
    ASSUME NEW p \in Paths, NEW r \in Paths, NEW a \in {p} \cup Under[p], NEW q \in Under[a],
           Moved(q, p, r) \in Paths
    PROVE  /\ Moved(a, p, r) \in Paths
           /\ Moved(q, p, r) \in Under[Moved(a, p, r)]
<1> DEFINE m == Moved(q, p, r)
           n == Moved(a, p, r)
<1>1. /\ a \in Paths /\ q \in Paths
      /\ p \in Seq(Names) /\ a \in Seq(Names) /\ q \in Seq(Names) /\ r \in Seq(Names)
      /\ Len(p) \in Nat /\ Len(a) \in Nat /\ Len(q) \in Nat /\ Len(r) \in Nat
      /\ Len(r) > 0
  BY PathIsSeq DEF Under
<1>2. /\ Len(p) <= Len(a) /\ Len(a) < Len(q) /\ Len(p) <= Len(q)
      /\ \A i \in 1..Len(a) : q[i] = a[i]
  BY <1>1, UnderIsLonger
<1>3. /\ n \in Seq(Names)
      /\ Len(n) = Len(r) + Len(a) - Len(p)
      /\ \A i \in 1..Len(r) : n[i] = r[i]
      /\ \A i \in (Len(p) + 1)..Len(a) : n[i - Len(p) + Len(r)] = a[i]
  BY <1>1, <1>2, MovedPlace
<1>4. /\ Len(m) = Len(r) + Len(q) - Len(p)
      /\ \A i \in 1..Len(r) : m[i] = r[i]
      /\ \A i \in (Len(p) + 1)..Len(q) : m[i - Len(p) + Len(r)] = q[i]
  BY <1>1, <1>2, MovedPlace
<1>5. m \in Paths
  OBVIOUS
<1> HIDE DEF m, n
<1>6. Len(n) \in Nat /\ Len(m) \in Nat /\ Len(n) > 0 /\ Len(n) < Len(m)
  BY <1>1, <1>2, <1>3, <1>4
<1>7. ASSUME NEW i \in 1..Len(n) PROVE m[i] = n[i]
  <2>1. CASE i <= Len(r)
    BY <1>1, <1>3, <1>4, <1>6, <2>1
  <2>2. CASE i > Len(r)
    <3> DEFINE j == i - Len(r) + Len(p)
    <3>1. /\ j \in (Len(p) + 1)..Len(a) /\ j \in (Len(p) + 1)..Len(q) /\ j \in 1..Len(a)
          /\ j - Len(p) + Len(r) = i
      BY <1>1, <1>2, <1>3, <1>6, <2>2
    <3> HIDE DEF j
    <3>2. n[i] = a[j] /\ m[i] = q[j]
      BY <1>3, <1>4, <3>1
    <3> QED
      BY <1>2, <3>1, <3>2
  <2> QED
    BY <1>1, <1>6, <2>1, <2>2
<1>8. n = SubSeq(m, 1, Len(n))
  <2>1. m \in Seq(Names) /\ Len(n) \in 0..Len(m)
    BY <1>5, <1>6, PathIsSeq
  <2>2. /\ SubSeq(m, 1, Len(n)) \in Seq(Names) /\ Len(SubSeq(m, 1, Len(n))) = Len(n)
        /\ \A i \in 1..Len(n) : SubSeq(m, 1, Len(n))[i] = m[i]
    BY <2>1, StartOf
  <2>3. \A i \in 1..Len(n) : n[i] = SubSeq(m, 1, Len(n))[i]
    BY <2>2, <1>7
  <2> QED
    BY <2>2, <2>3, <1>3, SeqEqual
<1>9. n \in Paths
  <2>1. Len(n) \in 1..Len(m)
    BY <1>6
  <2> QED
    BY <2>1, <1>5, <1>8, PathsAssumption
<1>10. m \in Under[n]
  BY <1>5, <1>6, <1>7, <1>9, UnderIsLonger
<1> QED
  BY <1>9, <1>10 DEF m, n

-----------------------------------------------------------------------------
(***************************************************************************)
(* A tree stays a tree, whatever is done to it.                            *)
(***************************************************************************)

\* Only a directory has entries.
LEMMA OnlyDirsHaveEntries ==
    ASSUME NEW t, IsTree(t), NEW p \in Paths, ~IsDir(t, p)
    PROVE  ~HasEntries(t, p)
<1> SUFFICES ASSUME NEW q \in Under[p], Exists(t, q) PROVE FALSE
  BY DEF HasEntries
<1>1. q \in Paths
  BY DEF Under
<1>2. p \in Above[q]
  BY <1>1, UnderIsLonger
<1> QED
  BY <1>1, <1>2 DEF IsTree

\* Another node where no entries are.
LEMMA PutKeepsTree ==
    ASSUME NEW t \in Trees, IsTree(t), NEW p \in Paths, NEW n \in Nodes, ~HasEntries(t, p),
           n # Nothing => \A q \in Above[p] : IsDir(t, q)
    PROVE  IsTree([t EXCEPT ![p] = n])
<1> DEFINE s == [t EXCEPT ![p] = n]
<1> SUFFICES ASSUME NEW q \in Paths, Exists(s, q), NEW a \in Above[q] PROVE IsDir(s, a)
  BY DEF IsTree
<1>1. a \in Paths /\ q \in Under[a]
  BY DEF Above
<1>2. a # q
  BY <1>1, UnderIsOrder
<1>3. /\ s[p] = n
      /\ \A x \in Paths : x # p => s[x] = t[x]
  BY DEF Trees
<1> HIDE DEF s
<1>4. CASE q = p
  BY <1>1, <1>2, <1>3, <1>4 DEF Exists, IsDir
<1>5. CASE q # p
  <2>1. Exists(t, q) /\ IsDir(t, a)
    BY <1>3, <1>5 DEF Exists, IsTree
  <2>2. a # p
    BY <1>1, <2>1 DEF HasEntries
  <2> QED
    BY <1>1, <1>3, <2>1, <2>2 DEF IsDir
<1> QED
  BY <1>4, <1>5

LEMMA WritesKeepTree ==
    ASSUME NEW t \in Trees, IsTree(t), NEW p \in Paths, NEW c \in Contents
    PROVE  IsTree(Written(t, p, c))
<1>1. c \in Nodes
  BY DEF Nodes
<1>2. CanWrite(t, p) => ~HasEntries(t, p)
  BY OnlyDirsHaveEntries DEF CanWrite
<1> QED
  BY <1>1, <1>2, PutKeepsTree DEF Written, CanWrite

LEMMA RemovesKeepTree ==
    ASSUME NEW t \in Trees, IsTree(t), NEW p \in Paths
    PROVE  IsTree(Removed(t, p))
BY PutKeepsTree DEF Removed, CanRemove, Nodes

LEMMA CopiesKeepTree ==
    ASSUME NEW t \in Trees, IsTree(t), NEW p \in Paths, NEW r \in Paths
    PROVE  IsTree(Copied(t, p, r))
<1>1. t[p] \in Nodes
  BY DEF Trees
<1>2. CanCopy(t, p, r) => ~HasEntries(t, r)
  BY OnlyDirsHaveEntries DEF CanCopy, CanWrite
<1> QED
  BY <1>1, <1>2, PutKeepsTree DEF Copied, CanCopy, CanWrite

\* Directories made with all that lie above them.
LEMMA MakesKeepTree ==
    ASSUME NEW t \in Trees, IsTree(t), NEW p \in Paths, NEW ps \in {Above[p], Above[p] \cup {p}},
           CanMakeDirs(t, ps)
    PROVE  IsTree(MadeDirs(t, ps))
<1> DEFINE s == MadeDirs(t, ps)
<1> SUFFICES ASSUME NEW q \in Paths, Exists(s, q), NEW a \in Above[q] PROVE IsDir(s, a)
  BY DEF IsTree
<1>1. a \in Paths /\ q \in Under[a]
  BY DEF Above
<1>2. \A x \in Paths : s[x] = IF x \in ps THEN Directory ELSE t[x]
  BY DEF MadeDirs
<1> HIDE DEF s
<1>3. CASE q \in ps
  <2>1. a \in Above[p]
    <3>1. CASE q = p
      BY <3>1
    <3>2. CASE q # p
      <4>1. q \in Above[p] /\ p \in Under[q]
        BY <1>3, <3>2, UnderIsLonger
      <4>2. p \in Under[a]
        BY <1>1, <4>1, UnderIsOrder
      <4> QED
        BY <1>1, <4>2, UnderIsLonger
    <3> QED
      BY <3>1, <3>2
  <2> QED
    BY <1>1, <1>2, <2>1 DEF IsDir
<1>4. CASE q \notin ps
  <2>1. IsDir(t, a)
    BY <1>2, <1>4 DEF IsTree, Exists
  <2> QED
    BY <1>1, <1>2, <2>1 DEF IsDir
<1> QED
  BY <1>3, <1>4

\* What a rename makes of the tree, path by path.
LEMMA RenamedPlace ==
    ASSUME NEW t \in Trees, NEW p \in Paths, NEW r \in Paths, r # p, CanRename(t, p, r),
           NEW q \in Paths
    PROVE  /\ q \in {r} \cup Under[r] =>
                 Renamed(t, p, r)[q] = IF Moved(q, r, p) \in Paths THEN t[Moved(q, r, p)] ELSE Nothing
           /\ q \notin {r} \cup Under[r] /\ q \in {p} \cup Under[p] => Renamed(t, p, r)[q] = Nothing
           /\ q \notin {r} \cup Under[r] /\ q \notin {p} \cup Under[p] => Renamed(t, p, r)[q] = t[q]
BY DEF Renamed

\* The directories above the new place stay where they are.
LEMMA RenamesLeaveAbove ==
    ASSUME NEW t \in Trees, NEW p \in Paths, NEW r \in Paths, r # p, CanRename(t, p, r),
           NEW a \in Above[r]
    PROVE  /\ a \in Paths /\ a \notin {r} \cup Under[r] /\ a \notin {p} \cup Under[p]
           /\ IsDir(t, a) /\ IsDir(Renamed(t, p, r), a)
<1>1. a \in Paths /\ r \in Under[a]
  BY DEF Above
<1>2. a \notin {r} \cup Under[r]
  <2>1. a # r
    BY <1>1, UnderIsOrder
  <2>2. a \in Under[r] => r \in Under[r]
    BY <1>1, UnderIsOrder
  <2>3. a \in Under[r] => r \notin Under[r]
    BY <1>1, UnderIsOrder
  <2> QED
    BY <2>1, <2>2, <2>3
<1>3. a \notin {p} \cup Under[p]
  <2>1. r \notin Under[p]
    BY DEF CanRename
  <2>2. a \in Under[p] => r \in Under[p]
    BY <1>1, UnderIsOrder
  <2> QED
    BY <1>1, <2>1, <2>2
<1>4. IsDir(t, a)
  BY DEF CanRename
<1>5. Renamed(t, p, r)[a] = t[a]
  BY <1>1, <1>2, <1>3, RenamedPlace
<1> QED
  BY <1>1, <1>2, <1>3, <1>4, <1>5 DEF IsDir

LEMMA RenamesKeepTree ==
    ASSUME NEW t \in Trees, IsTree(t), NEW p \in Paths, NEW r \in Paths
    PROVE  IsTree(Renamed(t, p, r))
<1>1. CASE r = p \/ ~CanRename(t, p, r)
  BY <1>1 DEF Renamed
<1>2. CASE r # p /\ CanRename(t, p, r)
  <2> DEFINE s == Renamed(t, p, r)
  <2> SUFFICES ASSUME NEW q \in Paths, Exists(s, q), NEW a \in Above[q] PROVE IsDir(s, a)
    BY DEF IsTree
  <2>1. a \in Paths /\ q \in Under[a]
    BY DEF Above
  <2> HIDE DEF s
  <2>2. CASE q \in {r} \cup Under[r]
    <3>1. a \in Above[r] \/ a \in {r} \cup Under[r]
      <4>1. CASE q = r
        BY <4>1
      <4>2. CASE q \in Under[r]
        <5>1. r \in Above[q]
          BY <4>2, UnderIsLonger
        <5>2. a = r \/ a \in Under[r] \/ r \in Under[a]
          BY <5>1, AboveIsChain
        <5> QED
          BY <2>1, <5>2, UnderIsLonger
      <4> QED
        BY <2>2, <4>1, <4>2
    <3>2. CASE a \in Above[r]
      BY <1>2, <3>2, RenamesLeaveAbove DEF s
    <3>3. CASE a \in {r} \cup Under[r]
      <4>1. Moved(q, r, p) \in Paths /\ Exists(t, Moved(q, r, p))
        BY <1>2, <2>2, RenamedPlace DEF Exists, s
      <4>2. Moved(a, r, p) \in Paths /\ Moved(q, r, p) \in Under[Moved(a, r, p)]
        BY <2>1, <3>3, <4>1, MovedTogether
      <4>3. Moved(a, r, p) \in Above[Moved(q, r, p)]
        BY <4>1, <4>2, UnderIsLonger
      <4>4. IsDir(t, Moved(a, r, p))
        BY <4>1, <4>3 DEF IsTree
      <4>5. s[a] = t[Moved(a, r, p)]
        BY <1>2, <2>1, <3>3, <4>2, RenamedPlace DEF s
      <4> QED
        BY <4>4, <4>5 DEF IsDir
    <3> QED
      BY <3>1, <3>2, <3>3
  <2>3. CASE q \notin {r} \cup Under[r]
    <3>1. q \notin {p} \cup Under[p] /\ s[q] = t[q]
      BY <1>2, <2>3, RenamedPlace DEF Exists, s
    <3>2. IsDir(t, a)
      BY <3>1 DEF IsTree, Exists
    <3>3. a \notin {r} \cup Under[r] /\ a \notin {p} \cup Under[p]
      BY <2>1, <2>3, <3>1, UnderIsOrder
    <3>4. s[a] = t[a]
      BY <1>2, <2>1, <3>3, RenamedPlace DEF s
    <3> QED
      BY <3>2, <3>4 DEF IsDir
  <2> QED
    BY <2>2, <2>3
<1> QED
  BY <1>1, <1>2

\* A rename to a free place is taken back by the rename the other way.
LEMMA RenamesBack ==
    ASSUME NEW t \in Trees, IsTree(t), NEW p \in Paths, NEW r \in Paths,
           CanRename(t, p, r), Fits(t, p, r), r = p \/ ~Exists(t, r)
    PROVE  Renamed(Renamed(t, p, r), r, p) = t
<1>1. CASE r = p
  BY <1>1 DEF Renamed
<1>2. CASE r # p
  <2> DEFINE s == Renamed(t, p, r)
             b == Renamed(s, r, p)
  <2>1. s \in Trees
    BY RenamesTwoPaths
  <2>2. ~Exists(t, r) /\ Exists(t, p) /\ r \notin Under[p]
    BY <1>2 DEF CanRename
  <2>3. p \notin Under[r]
    <3>1. p \in Under[r] => r \in Above[p]
      BY UnderIsLonger
    <3>2. Nothing # Directory
      BY NodesAssumption
    <3> QED
      BY <2>2, <3>1, <3>2 DEF IsTree, Exists, IsDir
  <2>4. ~HasEntries(t, r)
    <3>1. ~IsDir(t, r)
      BY <2>2, NodesAssumption DEF Exists, IsDir
    <3> QED
      BY <3>1, OnlyDirsHaveEntries
  <2>5. s[r] = t[p]
    <3>1. Moved(r, r, p) = p
      BY MovedBack
    <3> QED
      BY <1>2, <3>1, RenamedPlace
  <2>6. s[p] = Nothing
    BY <1>2, <2>3, RenamedPlace
  <2> HIDE DEF s
  <2>7. \A a \in Above[p] : IsDir(s, a)
    <3> SUFFICES ASSUME NEW a \in Above[p] PROVE IsDir(s, a)
      OBVIOUS
    <3>1. a \in Paths /\ p \in Under[a]
      BY DEF Above
    <3>2. IsDir(t, a)
      BY <2>2 DEF IsTree
    <3>3. a \notin {p} \cup Under[p]
      <4>1. a # p /\ (a \in Under[p] => p \in Under[p])
        BY <3>1, UnderIsOrder
      <4>2. p \notin Under[p]
        BY <3>1, UnderIsOrder, UnderIsLonger, PathIsSeq
      <4> QED
        BY <4>1, <4>2
    <3>4. a \notin {r} \cup Under[r]
      <4>1. a # r
        BY <2>2, <3>2, NodesAssumption DEF Exists, IsDir
      <4>2. a \in Under[r] => Exists(t, a)
        BY <3>2, NodesAssumption DEF Exists, IsDir
      <4> QED
        BY <2>4, <4>1, <4>2 DEF HasEntries
    <3>5. s[a] = t[a]
      BY <1>2, <3>1, <3>3, <3>4, RenamedPlace DEF s
    <3> QED
      BY <3>2, <3>5 DEF IsDir
  <2>8. CanRename(s, r, p)
    BY <2>2, <2>3, <2>5, <2>6, <2>7 DEF CanRename, Exists
  <2>9. ASSUME NEW q \in Paths PROVE b[q] = t[q]
    <3>1. CASE q \in {p} \cup Under[p]
      <4> DEFINE m == Moved(q, p, r)
      <4>1. b[q] = IF m \in Paths THEN s[m] ELSE Nothing
        BY <1>2, <2>1, <2>8, <3>1, RenamedPlace
      <4>2. /\ q = p => m = r
            /\ q \in Under[p] /\ m \in Paths => m \in Under[r]
            /\ Moved(m, r, p) = q
        BY <3>1, MovedBack
      <4> HIDE DEF m, b
      <4>3. CASE m \in Paths
        <5>1. m \in {r} \cup Under[r]
          BY <3>1, <4>2, <4>3
        <5>2. s[m] = t[q]
          BY <1>2, <4>2, <4>3, <5>1, RenamedPlace DEF s
        <5> QED
          BY <4>1, <4>3, <5>2
      <4>4. CASE m \notin Paths
        <5>1. q \in Under[p]
          BY <3>1, <4>2, <4>4
        <5>2. ~Exists(t, q)
          BY <4>4, <5>1 DEF Fits, m
        <5> QED
          BY <4>1, <4>4, <5>2 DEF Exists
      <4> QED
        BY <4>3, <4>4
    <3>2. CASE q \notin {p} \cup Under[p] /\ q \in {r} \cup Under[r]
      <4>1. b[q] = Nothing
        BY <1>2, <2>1, <2>8, <3>2, RenamedPlace
      <4>2. t[q] = Nothing
        BY <2>2, <2>4, <3>2 DEF HasEntries, Exists
      <4> QED
        BY <4>1, <4>2
    <3>3. CASE q \notin {p} \cup Under[p] /\ q \notin {r} \cup Under[r]
      <4>1. b[q] = s[q]
        BY <1>2, <2>1, <2>8, <3>3, RenamedPlace
      <4>2. s[q] = t[q]
        BY <1>2, <3>3, RenamedPlace DEF s
      <4> QED
        BY <4>1, <4>2
    <3> QED
      BY <3>1, <3>2, <3>3
  <2>10. b \in Trees
    BY <2>1, RenamesTwoPaths
  <2> HIDE DEF b
  <2>11. b = t
    BY <2>9, <2>10 DEF Trees
  <2> QED
    BY <2>11 DEF b, s
<1> QED
  BY <1>1, <1>2

-----------------------------------------------------------------------------
(***************************************************************************)
(* The texts, and the objects on the stacks.                               *)
(***************************************************************************)

\* Numbers, if there are any, have a smallest.
LEMMA SmallestNat ==
    ASSUME NEW S, S \subseteq Nat, S # {}
    PROVE  \E j \in S : \A k \in S : j <= k
<1> DEFINE R == OpToRel(<, Nat)
<1>1. \E j \in S : \A k \in S : <<k, j>> \notin R
  <2>1. IsWellFoundedOn(R, Nat)
    BY NatLessThanWellFounded
  <2> HIDE DEF R
  <2> QED
    BY <2>1, WFMin
<1>2. \A j, k \in S : <<k, j>> \notin R => j <= k
  BY DEF OpToRel
<1> QED
  BY <1>1, <1>2

LEMMA ContentIsText ==
    ASSUME NEW t \in Trees, NEW p \in Paths
    PROVE  Content(t, p) \in Contents
<1>1. <<>> \in Contents
  BY DEF Contents
<1> QED
  BY <1>1 DEF Content, IsFile, IsDir, Exists, Trees, Nodes

LEMMA TextsAreContents == Texts \subseteq Contents
BY HistoryAssumption, SeqDef DEF Texts, Contents

\* A part of a text.
LEMMA PartIsText ==
    ASSUME NEW c \in Contents, NEW m \in Nat \ {0}, NEW n \in 0..Len(c)
    PROVE  SubSeq(c, m, n) \in Contents
BY SubSeqProperties, LenProperties DEF Contents

\* modify_file makes a text of a text, wherever from and to lie.
LEMMA EditsAreTexts ==
    ASSUME NEW old \in Contents, NEW new \in Edits(old, Texts)
    PROVE  new \in Contents
<1>1. PICK e \in Modes \X Texts \X (0..Len(old) + 1) \X (0..Len(old) + 1) :
          new = Edited(old, e[1], e[2], e[3], e[4])
  BY DEF Edits
<1> DEFINE a == Least(e[3], Len(old))
           b == Least(e[4], Len(old))
           lo == Least(a, b)
           hi == a + b - lo
<1>2. Len(old) \in Nat /\ e[3] \in Nat /\ e[4] \in Nat /\ e[1] \in Modes /\ e[2] \in Contents
  BY TextsAreContents, LenProperties DEF Contents
<1>3. a \in 0..Len(old) /\ b \in 0..Len(old)
  BY <1>2 DEF Least
<1>4. lo \in 0..Len(old) /\ hi \in 0..Len(old)
  BY <1>2, <1>3 DEF Least
<1>5. /\ SubSeq(old, 1, a) \in Contents /\ SubSeq(old, a + 1, Len(old)) \in Contents
      /\ SubSeq(old, 1, lo) \in Contents /\ SubSeq(old, hi + 1, Len(old)) \in Contents
  <2>1. a + 1 \in Nat \ {0} /\ hi + 1 \in Nat \ {0} /\ 1 \in Nat \ {0} /\ Len(old) \in 0..Len(old)
    BY <1>2, <1>3, <1>4
  <2> HIDE DEF a, b, lo, hi
  <2> QED
    BY <2>1, <1>3, <1>4, PartIsText
<1>6. /\ old \o e[2] \in Contents
      /\ SubSeq(old, 1, a) \o e[2] \o SubSeq(old, a + 1, Len(old)) \in Contents
      /\ SubSeq(old, 1, lo) \o e[2] \o SubSeq(old, hi + 1, Len(old)) \in Contents
  BY <1>2, <1>5, ConcatProperties DEF Contents
<1>7. Edited(old, e[1], e[2], e[3], e[4]) =
          CASE e[1] = "overwrite" -> e[2]
            [] e[1] = "append" -> old \o e[2]
            [] e[1] = "insert" -> SubSeq(old, 1, a) \o e[2] \o SubSeq(old, a + 1, Len(old))
            [] e[1] = "replace_range" ->
                  SubSeq(old, 1, lo) \o e[2] \o SubSeq(old, hi + 1, Len(old))
  BY DEF Edited
<1> HIDE DEF a, b, lo, hi
<1> QED
  BY <1>1, <1>2, <1>6, <1>7 DEF Modes

\* So does file_content_modify, for a part that occurs.
LEMMA ReplacementsAreTexts ==
    ASSUME NEW old \in Contents, NEW new \in Replacements(old, Texts)
    PROVE  new \in Contents
<1>1. PICK e \in Texts \X Texts :
          Occurrences(old, e[1]) # {} /\ new = Replaced(old, e[1], e[2])
  BY DEF Replacements, Once
<1>2. e[1] \in Contents /\ e[2] \in Contents /\ Len(old) \in Nat /\ Len(e[1]) \in Nat
  BY TextsAreContents, LenProperties DEF Contents
<1> DEFINE i == CHOOSE i \in Occurrences(old, e[1]) :
                    \A k \in Occurrences(old, e[1]) : i <= k
<1>3. i \in Occurrences(old, e[1])
  <2>1. \E j \in Occurrences(old, e[1]) : \A k \in Occurrences(old, e[1]) : j <= k
    <3>1. Occurrences(old, e[1]) \subseteq Nat
      BY <1>2 DEF Occurrences
    <3> QED
      BY <1>1, <3>1, SmallestNat
  <2> QED
    BY <2>1
<1>4. i \in 1..Len(old) - Len(e[1]) + 1
  BY <1>3 DEF Occurrences
<1>5. new = SubSeq(old, 1, i - 1) \o e[2] \o SubSeq(old, i + Len(e[1]), Len(old))
  BY <1>1 DEF Replaced
<1> HIDE DEF i
<1>6. /\ i - 1 \in 0..Len(old) /\ 1 \in Nat \ {0}
      /\ i + Len(e[1]) \in Nat \ {0} /\ Len(old) \in 0..Len(old)
  BY <1>2, <1>4
<1>7. SubSeq(old, 1, i - 1) \in Contents /\ SubSeq(old, i + Len(e[1]), Len(old)) \in Contents
  BY <1>6, PartIsText
<1> QED
  BY <1>2, <1>5, <1>7, ConcatProperties DEF Contents

\* A stack without its top.
LEMMA FrontOfStack ==
    ASSUME NEW S, NEW s \in Seq(S), s # <<>>
    PROVE  /\ Len(s) \in Nat \ {0} /\ DOMAIN s = 1..Len(s)
           /\ Top(s) \in S /\ Top(s) = s[Len(s)]
           /\ Front(s) \in Seq(S) /\ Len(Front(s)) = Len(s) - 1
           /\ DOMAIN Front(s) = 1..(Len(s) - 1)
           /\ \A i \in 1..(Len(s) - 1) : Front(s)[i] = s[i]
<1> DEFINE n == Len(s) - 1
<1>1. Len(s) \in Nat \ {0} /\ DOMAIN s = 1..Len(s)
  BY EmptySeq, LenProperties
<1>2. n \in Nat /\ \A i \in 1..n : s[i] \in S
  BY <1>1, ElementOfSeq
<1>3. s[Len(s)] \in S
  BY <1>1, ElementOfSeq
<1> HIDE DEF n
<1>4. /\ SubSeq(s, 1, n) \in Seq(S)
      /\ Len(SubSeq(s, 1, n)) = IF 1 <= n THEN n - 1 + 1 ELSE 0
      /\ \A i \in 1..(n - 1 + 1) : SubSeq(s, 1, n)[i] = s[1 + i - 1]
  BY <1>2, SubSeqProperties
<1>5. /\ (IF 1 <= n THEN n - 1 + 1 ELSE 0) = n /\ n - 1 + 1 = n
      /\ \A i \in 1..n : 1 + i - 1 = i
  BY <1>2
<1>6. /\ SubSeq(s, 1, n) \in Seq(S) /\ Len(SubSeq(s, 1, n)) = n
      /\ \A i \in 1..n : SubSeq(s, 1, n)[i] = s[i]
  BY <1>4, <1>5
<1>7. DOMAIN SubSeq(s, 1, n) = 1..n
  BY <1>6, LenProperties
<1> QED
  BY <1>1, <1>3, <1>6, <1>7 DEF Front, Top, n

LEMMA ObjectIsObject ==
    ASSUME NEW tool \in Tools, NEW p \in Paths, NEW r \in Paths, NEW c \in Contents,
           NEW d \in Contents, NEW e \in BOOLEAN
    PROVE  Object(tool, p, r, c, d, e) \in Objects
BY DEF Object, Objects

-----------------------------------------------------------------------------
(***************************************************************************)
(* Undo and Redo of every tool.                                            *)
(***************************************************************************)

LEMMA UndoneIsLocal ==
    ASSUME NEW t \in Trees, NEW o \in Objects, ~UndoThrows(t, o)
    PROVE  /\ Undone(t, o) \in Trees
           /\ \A q \in Paths \ Named(o) : Exists(t, q) => Undone(t, o)[q] = t[q]
<1>1. CASE o = Refused
  BY <1>1 DEF Undone, Refused
<1>2. CASE o # Refused
  <2>1. /\ o.tool \in Tools /\ o.path \in Paths /\ o.to \in Paths
        /\ o.old \in Contents /\ o.new \in Contents /\ o.existed \in BOOLEAN
    BY <1>2 DEF Objects
  <2>2. \A q \in Paths \ Named(o) :
            q \notin {o.path, o.to} \cup Under[o.path] \cup Under[o.to]
    BY <1>2 DEF Named
  <2>3. /\ Written(t, o.path, o.old) \in Trees
        /\ \A q \in Paths \ Named(o) : Written(t, o.path, o.old)[q] = t[q]
    BY <2>1, <2>2, WritesOneFile
  <2>4. /\ Removed(t, o.path) \in Trees
        /\ \A q \in Paths \ Named(o) : Removed(t, o.path)[q] = t[q]
    BY <2>1, <2>2, RemovesOnePath
  <2>5. CASE o.tool \in {"modify_file", "file_content_modify"}
    <3>1. Undone(t, o) = Written(t, o.path, o.old)
      BY <2>5 DEF Undone, UndoneEdit
    <3> QED
      BY <2>3, <3>1
  <2>6. CASE o.tool = "remove_file"
    <3>1. Undone(t, o) = Written(t, o.path, o.old)
      BY <2>6 DEF Undone, UndoneRemoval
    <3> QED
      BY <2>3, <3>1
  <2>7. CASE o.tool = "create"
    <3>1. Undone(t, o) \in {Written(t, o.path, o.old), Removed(t, o.path)}
      BY <2>7 DEF Undone, UndoneCreation
    <3> QED
      BY <2>3, <2>4, <3>1
  <2>8. CASE o.tool = "copy_file"
    <3>1. Undone(t, o) \in {Written(t, o.to, o.old), Removed(t, o.to)}
      BY <2>8 DEF Undone, UndoneCopy
    <3>2. /\ Written(t, o.to, o.old) \in Trees
          /\ \A q \in Paths : q # o.to => Written(t, o.to, o.old)[q] = t[q]
      BY <2>1, WritesOneFile
    <3>3. /\ Removed(t, o.to) \in Trees
          /\ \A q \in Paths : q # o.to => Removed(t, o.to)[q] = t[q]
      BY <2>1, RemovesOnePath
    <3> QED
      BY <2>2, <3>1, <3>2, <3>3
  <2>9. CASE o.tool = "move_file"
    <3>1. Undone(t, o) = Renamed(t, o.to, o.path)
      BY <2>9 DEF Undone, UndoneMove
    <3>2. /\ Renamed(t, o.to, o.path) \in Trees
          /\ \A q \in Paths : q \notin {o.to, o.path} \cup Under[o.to] \cup Under[o.path]
                => Renamed(t, o.to, o.path)[q] = t[q]
      BY <2>1, RenamesTwoPaths
    <3> QED
      BY <2>2, <3>1, <3>2
  <2>10. CASE o.tool = "create_directory"
    <3>1. Undone(t, o) \in {t, Removed(t, o.path)}
      BY <2>10 DEF Undone, UndoneDirectory
    <3> QED
      BY <2>4, <3>1
  <2>11. CASE o.tool = "delete_directory"
    <3>1. Undone(t, o) = MadeDirs(t, Above[o.path] \cup {o.path})
      BY <2>11 DEF Undone, UndoneDirectoryRemoval
    <3>2. CanMakeDirs(t, Above[o.path] \cup {o.path})
      BY <2>11 DEF UndoThrows
    <3> QED
      BY <3>1, <3>2, MakesWhatIsMissing
  <2> QED
    BY <2>1, <2>5, <2>6, <2>7, <2>8, <2>9, <2>10, <2>11 DEF Tools, Editors
<1> QED
  BY <1>1, <1>2

LEMMA RedoneIsLocal ==
    ASSUME NEW t \in Trees, NEW o \in Objects, ~RedoThrows(t, o)
    PROVE  /\ Redone(t, o) \in Trees
           /\ \A q \in Paths \ Named(o) : Exists(t, q) => Redone(t, o)[q] = t[q]
<1>1. CASE o = Refused
  BY <1>1 DEF Redone, Refused
<1>2. CASE o # Refused
  <2>1. /\ o.tool \in Tools /\ o.path \in Paths /\ o.to \in Paths
        /\ o.old \in Contents /\ o.new \in Contents /\ o.existed \in BOOLEAN
    BY <1>2 DEF Objects
  <2>2. \A q \in Paths \ Named(o) :
            q \notin {o.path, o.to} \cup Under[o.path] \cup Under[o.to]
    BY <1>2 DEF Named
  <2>3. /\ Written(t, o.path, o.new) \in Trees
        /\ \A q \in Paths \ Named(o) : Written(t, o.path, o.new)[q] = t[q]
    BY <2>1, <2>2, WritesOneFile
  <2>4. /\ Removed(t, o.path) \in Trees
        /\ \A q \in Paths \ Named(o) : Removed(t, o.path)[q] = t[q]
    BY <2>1, <2>2, RemovesOnePath
  <2>5. CASE o.tool \in {"modify_file", "file_content_modify", "create"}
    <3>1. Redone(t, o) = Written(t, o.path, o.new)
      BY <2>5 DEF Redone, RedoneEdit, RedoneReplacement, RedoneCreation
    <3> QED
      BY <2>3, <3>1
  <2>6. CASE o.tool \in {"remove_file", "delete_directory"}
    <3>1. Redone(t, o) = Removed(t, o.path)
      BY <2>6 DEF Redone, RedoneRemoval, RedoneDirectoryRemoval
    <3> QED
      BY <2>4, <3>1
  <2>7. CASE o.tool = "copy_file"
    <3>1. Redone(t, o) = Copied(t, o.path, o.to)
      BY <2>7 DEF Redone, RedoneCopy
    <3>2. /\ Copied(t, o.path, o.to) \in Trees
          /\ \A q \in Paths : q # o.to => Copied(t, o.path, o.to)[q] = t[q]
      BY <2>1, CopiesToOneFile
    <3> QED
      BY <2>2, <3>1, <3>2
  <2>8. CASE o.tool = "move_file"
    <3>1. Redone(t, o) = Renamed(t, o.path, o.to)
      BY <2>8 DEF Redone, RedoneMove
    <3>2. /\ Renamed(t, o.path, o.to) \in Trees
          /\ \A q \in Paths : q \notin {o.path, o.to} \cup Under[o.path] \cup Under[o.to]
                => Renamed(t, o.path, o.to)[q] = t[q]
      BY <2>1, RenamesTwoPaths
    <3> QED
      BY <2>2, <3>1, <3>2
  <2>9. CASE o.tool = "create_directory"
    <3>1. CASE o.existed
      BY <2>9, <3>1 DEF Redone, RedoneDirectory
    <3>2. CASE ~o.existed
      <4>1. Redone(t, o) = MadeDirs(t, Above[o.path] \cup {o.path})
        BY <2>9, <3>2 DEF Redone, RedoneDirectory
      <4>2. CanMakeDirs(t, Above[o.path] \cup {o.path})
        BY <2>9, <3>2 DEF RedoThrows
      <4> QED
        BY <4>1, <4>2, MakesWhatIsMissing
    <3> QED
      BY <3>1, <3>2
  <2> QED
    BY <2>1, <2>5, <2>6, <2>7, <2>8, <2>9 DEF Tools, Editors
<1> QED
  BY <1>1, <1>2

\* A tree that was one stays one when a call is taken back or repeated.
LEMMA UndoneIsTree ==
    ASSUME NEW t \in Trees, IsTree(t), NEW o \in Objects, ~UndoThrows(t, o)
    PROVE  IsTree(Undone(t, o))
<1>1. CASE o = Refused
  BY <1>1 DEF Undone, Refused
<1>2. CASE o # Refused
  <2>1. /\ o.tool \in Tools /\ o.path \in Paths /\ o.to \in Paths
        /\ o.old \in Contents /\ o.new \in Contents /\ o.existed \in BOOLEAN
    BY <1>2 DEF Objects
  <2>2. /\ IsTree(Written(t, o.path, o.old)) /\ IsTree(Written(t, o.to, o.old))
        /\ IsTree(Removed(t, o.path)) /\ IsTree(Removed(t, o.to))
        /\ IsTree(Renamed(t, o.to, o.path))
    BY <2>1, WritesKeepTree, RemovesKeepTree, RenamesKeepTree
  <2>3. CASE o.tool = "delete_directory"
    <3>1. CanMakeDirs(t, Above[o.path] \cup {o.path})
      BY <2>3 DEF UndoThrows
    <3>2. IsTree(MadeDirs(t, Above[o.path] \cup {o.path}))
      BY <2>1, <3>1, MakesKeepTree
    <3> QED
      BY <2>3, <3>2 DEF Undone, UndoneDirectoryRemoval
  <2>4. CASE o.tool # "delete_directory"
    <3>1. Undone(t, o) \in {t, Written(t, o.path, o.old), Written(t, o.to, o.old),
                            Removed(t, o.path), Removed(t, o.to), Renamed(t, o.to, o.path)}
      BY <2>1, <2>4 DEF Undone, UndoneEdit, UndoneRemoval, UndoneCreation, UndoneCopy,
         UndoneMove, UndoneDirectory, Tools, Editors
    <3> QED
      BY <2>2, <3>1
  <2> QED
    BY <2>3, <2>4
<1> QED
  BY <1>1, <1>2

LEMMA RedoneIsTree ==
    ASSUME NEW t \in Trees, IsTree(t), NEW o \in Objects, ~RedoThrows(t, o)
    PROVE  IsTree(Redone(t, o))
<1>1. CASE o = Refused
  BY <1>1 DEF Redone, Refused
<1>2. CASE o # Refused
  <2>1. /\ o.tool \in Tools /\ o.path \in Paths /\ o.to \in Paths
        /\ o.old \in Contents /\ o.new \in Contents /\ o.existed \in BOOLEAN
    BY <1>2 DEF Objects
  <2>2. /\ IsTree(Written(t, o.path, o.new)) /\ IsTree(Removed(t, o.path))
        /\ IsTree(Copied(t, o.path, o.to)) /\ IsTree(Renamed(t, o.path, o.to))
    BY <2>1, WritesKeepTree, RemovesKeepTree, CopiesKeepTree, RenamesKeepTree
  <2>3. CASE o.tool = "create_directory" /\ ~o.existed
    <3>1. CanMakeDirs(t, Above[o.path] \cup {o.path})
      BY <2>3 DEF RedoThrows
    <3>2. IsTree(MadeDirs(t, Above[o.path] \cup {o.path}))
      BY <2>1, <3>1, MakesKeepTree
    <3> QED
      BY <2>3, <3>2 DEF Redone, RedoneDirectory
  <2>4. CASE ~(o.tool = "create_directory" /\ ~o.existed)
    <3>1. Redone(t, o) \in {t, Written(t, o.path, o.new), Removed(t, o.path),
                            Copied(t, o.path, o.to), Renamed(t, o.path, o.to)}
      BY <2>1, <2>4 DEF Redone, RedoneEdit, RedoneReplacement, RedoneCreation, RedoneRemoval,
         RedoneCopy, RedoneMove, RedoneDirectory, RedoneDirectoryRemoval, Tools, Editors
    <3> QED
      BY <2>2, <3>1
  <2> QED
    BY <2>3, <2>4
<1> QED
  BY <1>1, <1>2

-----------------------------------------------------------------------------
(***************************************************************************)
(* The way back and forth of every call that its tool can take back.       *)
(***************************************************************************)

\* Two changes of one path, the second to what was there.
LEMMA PutBack ==
    ASSUME NEW t \in Trees, NEW p \in Paths, NEW n
    PROVE  [[t EXCEPT ![p] = n] EXCEPT ![p] = t[p]] = t
BY DEF Trees

\* A new node at a path leaves the directories above it.
LEMMA PutLeavesAbove ==
    ASSUME NEW t \in Trees, NEW p \in Paths, NEW n, NEW a \in Above[p]
    PROVE  a \in Paths /\ a # p /\ [t EXCEPT ![p] = n][a] = t[a]
<1>1. a \in Paths /\ p \in Under[a]
  BY DEF Above
<1>2. a # p
  BY <1>1, UnderIsOrder
<1> QED
  BY <1>1, <1>2 DEF Trees

\* A file is no directory, whatever it holds, and neither is nothing.
LEMMA TextIsFile ==
    ASSUME NEW t \in Trees, NEW p \in Paths
    PROVE  /\ t[p] \in Contents => IsFile(t, p) /\ ~IsDir(t, p) /\ Exists(t, p) /\ Content(t, p) = t[p]
           /\ IsFile(t, p) => t[p] \in Contents /\ Content(t, p) = t[p]
           /\ ~Exists(t, p) => Content(t, p) = <<>> /\ ~IsDir(t, p) /\ ~IsFile(t, p)
           /\ IsDir(t, p) => Content(t, p) = <<>> /\ Exists(t, p) /\ ~IsFile(t, p)
BY NodesAssumption DEF Trees, Nodes, IsFile, IsDir, Exists, Content

\* Writing a text and writing the old one back.
LEMMA WritesBack ==
    ASSUME NEW t \in Trees, NEW p \in Paths, NEW c \in Contents, CanWrite(t, p), IsFile(t, p)
    PROVE  Written(Written(t, p, c), p, Content(t, p)) = t
<1> DEFINE s == [t EXCEPT ![p] = c]
<1>1. Written(t, p, c) = s
  BY DEF Written
<1>2. s[p] = c
  BY DEF Trees
<1>3. ~IsDir(s, p)
  BY <1>2, NodesAssumption DEF IsDir
<1>4. \A a \in Above[p] : IsDir(s, a)
  BY PutLeavesAbove DEF CanWrite, IsDir
<1>5. CanWrite(s, p)
  BY <1>3, <1>4 DEF CanWrite
<1>6. Written(s, p, Content(t, p)) = [s EXCEPT ![p] = t[p]]
  BY <1>5, TextIsFile DEF Written
<1>7. [s EXCEPT ![p] = t[p]] = t
  BY PutBack
<1> QED
  BY <1>1, <1>6, <1>7

\* What was put where nothing was can be removed again.
LEMMA RemovesBack ==
    ASSUME NEW t \in Trees, IsTree(t), NEW p \in Paths, NEW n, ~Exists(t, p),
           \A q \in Above[p] : IsDir(t, q)
    PROVE  /\ CanRemove([t EXCEPT ![p] = n], p)
           /\ Removed([t EXCEPT ![p] = n], p) = t
<1> DEFINE s == [t EXCEPT ![p] = n]
<1>1. ~HasEntries(t, p)
  BY TextIsFile, OnlyDirsHaveEntries
<1>2. ~HasEntries(s, p)
  <2> SUFFICES ASSUME NEW q \in Under[p] PROVE ~Exists(s, q)
    BY DEF HasEntries
  <2>1. q \in Paths /\ q # p
    BY UnderIsOrder DEF Under
  <2>2. s[q] = t[q]
    BY <2>1 DEF Trees
  <2> QED
    BY <1>1, <2>2 DEF HasEntries, Exists
<1>3. \A q \in Above[p] : ~IsFile(s, q)
  BY PutLeavesAbove DEF IsDir, IsFile
<1>4. CanRemove(s, p)
  BY <1>2, <1>3 DEF CanRemove
<1>5. Removed(s, p) = [s EXCEPT ![p] = t[p]]
  BY <1>4 DEF Removed, Exists
<1> QED
  BY <1>4, <1>5, PutBack

LEMMA LeadsCreate ==
    ASSUME NEW t \in Trees, IsTree(t), NEW p \in Paths, NEW c \in Contents,
           CanWrite(t, p), t[p] # <<>>
    PROVE  Leads(Object("create", p, p, Content(t, p), c, FALSE), t, Written(t, p, c))
<1> DEFINE o == Object("create", p, p, Content(t, p), c, FALSE)
           s == Written(t, p, c)
<1>1. /\ o.tool = "create" /\ o.path = p /\ o.old = Content(t, p) /\ o.new = c
  BY DEF Object
<1>2. s = [t EXCEPT ![p] = c]
  BY DEF Written
<1> HIDE DEF o, s
<1>3. ~RedoThrows(t, o) /\ Redone(t, o) = s
  BY <1>1 DEF RedoThrows, Redone, RedoneCreation, s
<1>4. CASE IsFile(t, p)
  <2>1. o.old # <<>>
    BY <1>1, <1>4, TextIsFile
  <2>2. ~UndoThrows(s, o)
    BY <1>1, <2>1 DEF UndoThrows
  <2>3. Undone(s, o) = Written(s, p, Content(t, p))
    BY <1>1, <2>1 DEF Undone, UndoneCreation
  <2>4. Undone(s, o) = t
    BY <1>4, <2>3, WritesBack DEF s
  <2> QED
    BY <1>3, <2>2, <2>4 DEF Leads, o, s
<1>5. CASE ~IsFile(t, p)
  <2>1. ~Exists(t, p) /\ o.old = <<>>
    BY <1>1, <1>5, TextIsFile DEF CanWrite, IsFile
  <2>2. CanRemove(s, p) /\ Removed(s, p) = t
    BY <1>2, <2>1, RemovesBack DEF CanWrite
  <2>3. ~UndoThrows(s, o)
    BY <1>1, <2>2 DEF UndoThrows
  <2>4. Undone(s, o) = t
    BY <1>1, <2>1, <2>2 DEF Undone, UndoneCreation
  <2> QED
    BY <1>3, <2>3, <2>4 DEF Leads, o, s
<1> QED
  BY <1>4, <1>5

LEMMA LeadsModify ==
    ASSUME NEW t \in Trees, NEW p \in Paths, NEW c \in Contents, CanWrite(t, p), IsFile(t, p)
    PROVE  /\ Leads(Object("modify_file", p, p, Content(t, p), c, FALSE), t, Written(t, p, c))
           /\ Leads(Object("file_content_modify", p, p, Content(t, p), <<>>, FALSE), t, Written(t, p, c))
<1> DEFINE o == Object("modify_file", p, p, Content(t, p), c, FALSE)
           r == Object("file_content_modify", p, p, Content(t, p), <<>>, FALSE)
           s == Written(t, p, c)
<1>1. /\ o.tool = "modify_file" /\ o.path = p /\ o.old = Content(t, p) /\ o.new = c
      /\ r.tool = "file_content_modify" /\ r.path = p /\ r.old = Content(t, p)
  BY DEF Object
<1> HIDE DEF o, r
<1>2. ~RedoThrows(t, o) /\ Redone(t, o) = s /\ ~RedoThrows(t, r)
  BY <1>1 DEF RedoThrows, Redone, RedoneEdit
<1>3. Written(s, p, Content(t, p)) = t
  BY WritesBack
<1>4. /\ ~UndoThrows(s, o) /\ Undone(s, o) = t
      /\ ~UndoThrows(s, r) /\ Undone(s, r) = t
  BY <1>1, <1>3 DEF UndoThrows, Undone, UndoneEdit
<1> QED
  BY <1>1, <1>2, <1>4 DEF Leads, o, r

LEMMA LeadsRemove ==
    ASSUME NEW t \in Trees, IsTree(t), NEW p \in Paths, IsFile(t, p), CanRemove(t, p)
    PROVE  Leads(Object("remove_file", p, p, Content(t, p), <<>>, FALSE), t, Removed(t, p))
<1> DEFINE o == Object("remove_file", p, p, Content(t, p), <<>>, FALSE)
           s == [t EXCEPT ![p] = Nothing]
<1>1. o.tool = "remove_file" /\ o.path = p /\ o.old = Content(t, p)
  BY DEF Object
<1>2. Removed(t, p) = s
  BY DEF Removed
<1> HIDE DEF o
<1>3. ~RedoThrows(t, o) /\ Redone(t, o) = s
  BY <1>1, <1>2 DEF RedoThrows, Redone, RedoneRemoval
<1>4. CanWrite(s, p)
  <2>1. \A a \in Above[p] : IsDir(t, a)
    BY DEF IsTree, IsFile
  <2>2. \A a \in Above[p] : IsDir(s, a)
    BY <2>1, PutLeavesAbove DEF IsDir
  <2>3. s[p] = Nothing
    BY DEF Trees
  <2> QED
    BY <2>2, <2>3, NodesAssumption DEF CanWrite, IsDir
<1>5. Written(s, p, o.old) = [s EXCEPT ![p] = t[p]]
  BY <1>1, <1>4, TextIsFile DEF Written
<1>6. Written(s, p, o.old) = t
  BY <1>5, PutBack
<1> HIDE DEF s
<1>7. ~UndoThrows(s, o) /\ Undone(s, o) = t
  BY <1>1, <1>6 DEF UndoThrows, Undone, UndoneRemoval
<1> QED
  BY <1>2, <1>3, <1>7 DEF Leads, o

LEMMA LeadsCopy ==
    ASSUME NEW t \in Trees, IsTree(t), NEW p \in Paths, NEW r \in Paths, CanCopy(t, p, r)
    PROVE  Leads(Object("copy_file", p, r, Content(t, r), <<>>, Exists(t, r)), t, Copied(t, p, r))
<1> DEFINE o == Object("copy_file", p, r, Content(t, r), <<>>, Exists(t, r))
           s == Copied(t, p, r)
<1>1. /\ o.tool = "copy_file" /\ o.path = p /\ o.to = r /\ o.old = Content(t, r)
      /\ o.existed = Exists(t, r)
  BY DEF Object
<1>2. s = [t EXCEPT ![r] = t[p]] /\ t[p] \in Contents /\ CanWrite(t, r)
  BY TextIsFile DEF Copied, CanCopy
<1> HIDE DEF o, s
<1>3. ~RedoThrows(t, o) /\ Redone(t, o) = s
  BY <1>1 DEF RedoThrows, Redone, RedoneCopy, s
<1>4. CASE Exists(t, r)
  <2>1. IsFile(t, r)
    BY <1>2, <1>4 DEF CanWrite, IsFile
  <2>2. s = Written(t, r, t[p])
    BY <1>2 DEF Written
  <2>3. Written(s, r, Content(t, r)) = t
    BY <1>2, <2>1, <2>2, WritesBack
  <2>4. ~UndoThrows(s, o) /\ Undone(s, o) = t
    BY <1>1, <1>4, <2>3 DEF UndoThrows, Undone, UndoneCopy
  <2> QED
    BY <1>3, <2>4 DEF Leads, o, s
<1>5. CASE ~Exists(t, r)
  <2>1. CanRemove(s, r) /\ Removed(s, r) = t
    BY <1>2, <1>5, RemovesBack DEF CanWrite
  <2>2. ~UndoThrows(s, o) /\ Undone(s, o) = t
    BY <1>1, <1>5, <2>1 DEF UndoThrows, Undone, UndoneCopy
  <2> QED
    BY <1>3, <2>2 DEF Leads, o, s
<1> QED
  BY <1>4, <1>5

LEMMA LeadsMove ==
    ASSUME NEW t \in Trees, IsTree(t), NEW p \in Paths, NEW r \in Paths,
           CanRename(t, p, r), Fits(t, p, r), r = p \/ ~Exists(t, r)
    PROVE  Leads(Object("move_file", p, r, <<>>, <<>>, FALSE), t, Renamed(t, p, r))
<1> DEFINE o == Object("move_file", p, r, <<>>, <<>>, FALSE)
           s == Renamed(t, p, r)
<1>1. o.tool = "move_file" /\ o.path = p /\ o.to = r
  BY DEF Object
<1>2. Renamed(s, r, p) = t
  BY RenamesBack
<1> HIDE DEF o, s
<1>3. ~RedoThrows(t, o) /\ Redone(t, o) = s
  BY <1>1 DEF RedoThrows, Redone, RedoneMove, s
<1>4. ~UndoThrows(s, o) /\ Undone(s, o) = t
  BY <1>1, <1>2 DEF UndoThrows, Undone, UndoneMove
<1> QED
  BY <1>3, <1>4 DEF Leads, o, s

LEMMA LeadsMakeDirectory ==
    ASSUME NEW t \in Trees, IsTree(t), NEW p \in Paths,
           CanMakeDirs(t, Above[p] \cup {p}), \A q \in Above[p] : IsDir(t, q)
    PROVE  Leads(Object("create_directory", p, p, <<>>, <<>>, Exists(t, p)), t,
                 MadeDirs(t, Above[p] \cup {p}))
<1> DEFINE o == Object("create_directory", p, p, <<>>, <<>>, Exists(t, p))
           s == MadeDirs(t, Above[p] \cup {p})
<1>1. o.tool = "create_directory" /\ o.path = p /\ o.existed = Exists(t, p)
  BY DEF Object
<1>2. s = [t EXCEPT ![p] = Directory]
  <2>1. \A q \in Paths : s[q] = IF q = p THEN Directory ELSE t[q]
    BY DEF MadeDirs, IsDir
  <2> QED
    BY <2>1 DEF MadeDirs, Trees
<1>3. s[p] = Directory /\ s \in Trees
  BY <1>2 DEF Trees, Nodes
<1> HIDE DEF o, s
<1>4. CASE Exists(t, p)
  <2>1. t[p] = Directory
    BY <1>4 DEF CanMakeDirs, IsFile, IsDir
  <2>2. s = t
    BY <1>2, <2>1 DEF Trees
  <2>3. ~UndoThrows(s, o) /\ Undone(s, o) = t
    BY <1>1, <1>4, <2>2 DEF UndoThrows, Undone, UndoneDirectory
  <2>4. ~RedoThrows(t, o) /\ Redone(t, o) = s
    BY <1>1, <1>4, <2>2 DEF RedoThrows, Redone, RedoneDirectory
  <2> QED
    BY <2>3, <2>4 DEF Leads, o, s
<1>5. CASE ~Exists(t, p)
  <2>1. Removed(s, p) = t
    BY <1>2, <1>5, RemovesBack
  <2>2. Exists(s, p) /\ Content(s, p) = <<>>
    BY <1>3, TextIsFile DEF IsDir
  <2>3. ~UndoThrows(s, o) /\ Undone(s, o) = t
    BY <1>1, <1>5, <2>1, <2>2 DEF UndoThrows, Undone, UndoneDirectory
  <2>4. ~RedoThrows(t, o) /\ Redone(t, o) = s
    BY <1>1, <1>5 DEF RedoThrows, Redone, RedoneDirectory, s
  <2> QED
    BY <2>3, <2>4 DEF Leads, o, s
<1> QED
  BY <1>4, <1>5

LEMMA LeadsDeleteDirectory ==
    ASSUME NEW t \in Trees, IsTree(t), NEW p \in Paths, IsDir(t, p), ~HasEntries(t, p)
    PROVE  Leads(Object("delete_directory", p, p, <<>>, <<>>, FALSE), t, Removed(t, p))
<1> DEFINE o == Object("delete_directory", p, p, <<>>, <<>>, FALSE)
           s == [t EXCEPT ![p] = Nothing]
<1>1. o.tool = "delete_directory" /\ o.path = p
  BY DEF Object
<1>2. \A q \in Above[p] : IsDir(t, q)
  BY TextIsFile DEF IsTree
<1>3. Removed(t, p) = s
  BY <1>2 DEF Removed, CanRemove, IsFile
<1> HIDE DEF o
<1>4. ~RedoThrows(t, o) /\ Redone(t, o) = s
  BY <1>1, <1>3 DEF RedoThrows, Redone, RedoneDirectoryRemoval
<1>5. s[p] = Nothing /\ \A q \in Paths : q # p => s[q] = t[q]
  BY DEF Trees
<1>6. \A q \in Above[p] : q \in Paths /\ s[q] = Directory /\ t[q] = Directory
  BY <1>2, PutLeavesAbove DEF IsDir
<1>7. CanMakeDirs(s, Above[p] \cup {p})
  BY <1>5, <1>6 DEF CanMakeDirs, IsFile, IsDir, Exists
<1>8. MadeDirs(s, Above[p] \cup {p}) = t
  <2>1. \A q \in Paths : (IF q \in Above[p] \cup {p} THEN Directory ELSE s[q]) = t[q]
    BY <1>5, <1>6 DEF IsDir
  <2> HIDE DEF s
  <2>2. MadeDirs(s, Above[p] \cup {p}) = [q \in Paths |-> t[q]]
    BY <2>1 DEF MadeDirs
  <2> QED
    BY <2>2 DEF Trees
<1> HIDE DEF s
<1>9. ~UndoThrows(s, o) /\ Undone(s, o) = t
  BY <1>1, <1>7, <1>8 DEF UndoThrows, Undone, UndoneDirectoryRemoval
<1> QED
  BY <1>3, <1>4, <1>9 DEF Leads, o

LEMMA LeadsRefused ==
    ASSUME NEW t
    PROVE  Leads(Refused, t, t)
BY DEF Leads, Refused, UndoThrows, RedoThrows, Undone, Redone

-----------------------------------------------------------------------------
(***************************************************************************)
(* What a call does: it leaves a tree and an object, and when its tool can *)
(* take it back the object leads from the one tree to the other.           *)
(***************************************************************************)

LEMMA CallDoes ==
    ASSUME TypeOK, Call
    PROVE  \E t \in Trees, o \in Objects, b \in BOOLEAN :
               IsTree(t) /\ Done(t, o, b) /\ (b => Leads(o, files, t))
<1> DEFINE Does(t, o, b) == IsTree(t) /\ Done(t, o, b) /\ (b => Leads(o, files, t))
           Some == \E t \in Trees, o \in Objects, b \in BOOLEAN : Does(t, o, b)
<1>1. files \in Trees /\ IsTree(files)
  BY DEF TypeOK
<1>2. Refused \in Objects /\ <<>> \in Contents
  BY EmptySeq DEF Objects, Contents
<1>3. ASSUME RefusedCall PROVE Some
  <2>1. Does(files, Refused, TRUE)
    BY <1>1, <1>3, LeadsRefused DEF RefusedCall
  <2> HIDE DEF Does
  <2> QED
    BY <1>1, <1>2, <2>1
<1>4. ASSUME NEW p \in Paths, CreateFileFails(p) PROVE Some
  <2> DEFINE t == MadeDirs(files, Above[p])
             b == t = files
  <2>1. CanMakeDirs(files, Above[p]) /\ Done(t, Refused, b)
    BY <1>4 DEF CreateFileFails
  <2>2. t \in Trees /\ IsTree(t)
    BY <1>1, <2>1, MakesWhatIsMissing, MakesKeepTree
  <2>3. b => Leads(Refused, files, t)
    BY LeadsRefused
  <2>4. b \in BOOLEAN
    OBVIOUS
  <2> HIDE DEF t, b
  <2>5. Does(t, Refused, b)
    BY <2>1, <2>2, <2>3
  <2> HIDE DEF Does
  <2> QED
    BY <1>2, <2>2, <2>4, <2>5
<1>5. ASSUME NEW p \in Paths, RemoveFile(p) PROVE Some
  <2> DEFINE t == Removed(files, p)
             o == Object("remove_file", p, p, Content(files, p), <<>>, FALSE)
             b == IsFile(files, p)
  <2>1. CanRemove(files, p) /\ Done(t, o, b)
    BY <1>5 DEF RemoveFile
  <2>2. t \in Trees /\ IsTree(t)
    BY <1>1, RemovesOnePath, RemovesKeepTree
  <2>3. o \in Objects
    BY <1>1, <1>2, ContentIsText, ObjectIsObject DEF Tools, Editors
  <2>4. b => Leads(o, files, t)
    BY <1>1, <2>1, LeadsRemove
  <2>5. b \in BOOLEAN
    BY DEF IsFile
  <2> HIDE DEF t, o, b
  <2>6. Does(t, o, b)
    BY <2>1, <2>2, <2>4
  <2> HIDE DEF Does
  <2> QED
    BY <2>2, <2>3, <2>5, <2>6
<1>6. ASSUME NEW p \in Paths, CreateDirectory(p) PROVE Some
  <2> DEFINE t == MadeDirs(files, Above[p] \cup {p})
             o == Object("create_directory", p, p, <<>>, <<>>, Exists(files, p))
             b == \A q \in Above[p] : IsDir(files, q)
  <2>1. CanMakeDirs(files, Above[p] \cup {p}) /\ Done(t, o, b)
    BY <1>6 DEF CreateDirectory
  <2>2. t \in Trees /\ IsTree(t)
    BY <1>1, <2>1, MakesWhatIsMissing, MakesKeepTree
  <2>3. o \in Objects
    BY <1>2, ObjectIsObject DEF Tools, Editors, Exists
  <2>4. b => Leads(o, files, t)
    BY <1>1, <2>1, LeadsMakeDirectory
  <2>5. b \in BOOLEAN
    OBVIOUS
  <2> HIDE DEF t, o, b
  <2>6. Does(t, o, b)
    BY <2>1, <2>2, <2>4
  <2> HIDE DEF Does
  <2> QED
    BY <2>2, <2>3, <2>5, <2>6
<1>7. ASSUME NEW p \in Paths, DeleteDirectory(p) PROVE Some
  <2> DEFINE t == Removed(files, p)
             o == Object("delete_directory", p, p, <<>>, <<>>, FALSE)
  <2>1. IsDir(files, p) /\ ~HasEntries(files, p) /\ Done(t, o, TRUE)
    BY <1>7 DEF DeleteDirectory
  <2>2. t \in Trees /\ IsTree(t)
    BY <1>1, RemovesOnePath, RemovesKeepTree
  <2>3. o \in Objects
    BY <1>2, ObjectIsObject DEF Tools, Editors
  <2>4. Leads(o, files, t)
    BY <1>1, <2>1, LeadsDeleteDirectory
  <2> HIDE DEF t, o
  <2>5. Does(t, o, TRUE)
    BY <2>1, <2>2, <2>4
  <2> HIDE DEF Does
  <2> QED
    BY <2>2, <2>3, <2>5
<1>8. ASSUME NEW p \in Paths, NEW r \in Paths, CopyFile(p, r) PROVE Some
  <2> DEFINE t == Copied(files, p, r)
             o == Object("copy_file", p, r, Content(files, r), <<>>, Exists(files, r))
  <2>1. CanCopy(files, p, r) /\ Done(t, o, TRUE)
    BY <1>8 DEF CopyFile
  <2>2. t \in Trees /\ IsTree(t)
    BY <1>1, CopiesToOneFile, CopiesKeepTree
  <2>3. o \in Objects
    BY <1>1, <1>2, ContentIsText, ObjectIsObject DEF Tools, Editors, Exists
  <2>4. Leads(o, files, t)
    BY <1>1, <2>1, LeadsCopy
  <2> HIDE DEF t, o
  <2>5. Does(t, o, TRUE)
    BY <2>1, <2>2, <2>4
  <2> HIDE DEF Does
  <2> QED
    BY <2>2, <2>3, <2>5
<1>9. ASSUME NEW p \in Paths, NEW r \in Paths, MoveFile(p, r) PROVE Some
  <2> DEFINE t == Renamed(files, p, r)
             o == Object("move_file", p, r, <<>>, <<>>, FALSE)
             b == r = p \/ ~Exists(files, r)
  <2>1. CanRename(files, p, r) /\ Fits(files, p, r) /\ Done(t, o, b)
    BY <1>9 DEF MoveFile
  <2>2. t \in Trees /\ IsTree(t)
    BY <1>1, RenamesTwoPaths, RenamesKeepTree
  <2>3. o \in Objects
    BY <1>2, ObjectIsObject DEF Tools, Editors
  <2>4. b => Leads(o, files, t)
    BY <1>1, <2>1, LeadsMove
  <2>5. b \in BOOLEAN
    OBVIOUS
  <2> HIDE DEF t, o, b
  <2>6. Does(t, o, b)
    BY <2>1, <2>2, <2>4
  <2> HIDE DEF Does
  <2> QED
    BY <2>2, <2>3, <2>5, <2>6
<1>10. ASSUME NEW p \in Paths, NEW c \in Texts, CreateFile(p, c) PROVE Some
  <2> DEFINE s == MadeDirs(files, Above[p])
             t == Written(s, p, c)
             o == Object("create", p, p, Content(s, p), c, FALSE)
             b == s = files /\ files[p] # <<>>
  <2>1. CanMakeDirs(files, Above[p]) /\ ~IsDir(files, p) /\ Done(t, o, b)
    BY <1>10 DEF CreateFile
  <2>2. c \in Contents
    BY TextsAreContents
  <2>3. s \in Trees /\ IsTree(s)
    BY <1>1, <2>1, MakesWhatIsMissing, MakesKeepTree
  <2>4. t \in Trees /\ IsTree(t) /\ Content(s, p) \in Contents
    <3> HIDE DEF s
    <3> QED
      BY <2>2, <2>3, WritesOneFile, WritesKeepTree, ContentIsText
  <2>5. o \in Objects
    <3> HIDE DEF s
    <3> QED
      BY <2>2, <2>4, ObjectIsObject DEF Tools, Editors
  <2>6. ASSUME b PROVE Leads(o, files, t)
    <3>1. \A a \in Above[p] : a \in Paths /\ s[a] = Directory
      BY DEF MadeDirs, Above
    <3> HIDE DEF s
    <3>2. s = files /\ files[p] # <<>>
      BY <2>6
    <3>3. CanWrite(files, p)
      BY <2>1, <3>1, <3>2 DEF CanWrite, IsDir
    <3> QED
      BY <1>1, <2>2, <3>2, <3>3, LeadsCreate
  <2>7. b \in BOOLEAN
    OBVIOUS
  <2> HIDE DEF t, o, b
  <2>8. Does(t, o, b)
    BY <2>1, <2>4, <2>6
  <2> HIDE DEF Does
  <2> QED
    BY <2>4, <2>5, <2>7, <2>8
<1>11. ASSUME NEW p \in Paths, NEW c \in Texts, CreateBinary(p, c) PROVE Some
  <2> DEFINE t == Written(files, p, c)
             o == Object("create", p, p, Content(files, p), c, FALSE)
             b == files[p] # <<>>
  <2>1. CanWrite(files, p) /\ Done(t, o, b)
    BY <1>11 DEF CreateBinary
  <2>2. c \in Contents
    BY TextsAreContents
  <2>3. t \in Trees /\ IsTree(t)
    BY <1>1, <2>2, WritesOneFile, WritesKeepTree
  <2>4. o \in Objects
    BY <1>1, <2>2, ContentIsText, ObjectIsObject DEF Tools, Editors
  <2>5. b => Leads(o, files, t)
    BY <1>1, <2>1, <2>2, LeadsCreate
  <2>6. b \in BOOLEAN
    OBVIOUS
  <2> HIDE DEF t, o, b
  <2>7. Does(t, o, b)
    BY <2>1, <2>3, <2>5
  <2> HIDE DEF Does
  <2> QED
    BY <2>3, <2>4, <2>6, <2>7
<1>12. ASSUME NEW p \in Paths, NEW new \in Edits(Content(files, p), Texts), ModifyFile(p, new)
       PROVE  Some
  <2> DEFINE t == Written(files, p, new)
             o == Object("modify_file", p, p, Content(files, p), new, FALSE)
             b == IsFile(files, p)
  <2>1. CanWrite(files, p) /\ Done(t, o, b)
    BY <1>12 DEF ModifyFile
  <2>2. Content(files, p) \in Contents
    BY <1>1, ContentIsText
  <2>3. new \in Contents
    BY <2>2, EditsAreTexts
  <2>4. t \in Trees /\ IsTree(t)
    BY <1>1, <2>3, WritesOneFile, WritesKeepTree
  <2>5. o \in Objects
    BY <2>2, <2>3, ObjectIsObject DEF Tools, Editors
  <2>6. b => Leads(o, files, t)
    BY <1>1, <2>1, <2>3, LeadsModify
  <2>7. b \in BOOLEAN
    BY DEF IsFile
  <2> HIDE DEF t, o, b
  <2>8. Does(t, o, b)
    BY <2>1, <2>4, <2>6
  <2> HIDE DEF Does
  <2> QED
    BY <2>4, <2>5, <2>7, <2>8
<1>13. ASSUME NEW p \in Paths, NEW new \in Replacements(Content(files, p), Texts),
              ReplaceText(p, new)
       PROVE  Some
  <2> DEFINE t == Written(files, p, new)
             o == Object("file_content_modify", p, p, Content(files, p), <<>>, FALSE)
  <2>1. IsFile(files, p) /\ Content(files, p) = files[p]
    BY <1>13 DEF ReplaceText, Content
  <2>2. Done(t, o, TRUE)
    BY <1>13, <2>1 DEF ReplaceText
  <2>3. Content(files, p) \in Contents
    BY <1>1, ContentIsText
  <2>4. new \in Contents
    BY <2>3, ReplacementsAreTexts
  <2>5. t \in Trees /\ IsTree(t)
    BY <1>1, <2>4, WritesOneFile, WritesKeepTree
  <2>6. o \in Objects
    BY <1>2, <2>3, ObjectIsObject DEF Tools, Editors
  <2>7. CanWrite(files, p)
    BY <1>1, <2>1 DEF CanWrite, IsFile, IsTree
  <2>8. Leads(o, files, t)
    BY <1>1, <2>1, <2>4, <2>7, LeadsModify
  <2> HIDE DEF t, o
  <2>9. Does(t, o, TRUE)
    BY <2>2, <2>5, <2>8
  <2> HIDE DEF Does
  <2> QED
    BY <2>5, <2>6, <2>9
<1>14. Some
  <2> HIDE DEF Some
  <2> QED
    BY <1>3, <1>4, <1>5, <1>6, <1>7, <1>8, <1>9, <1>10, <1>11, <1>12, <1>13 DEF Call
<1> QED
  BY <1>14

-----------------------------------------------------------------------------
(***************************************************************************)
(* The invariant: what is on the stacks are objects of calls on paths of   *)
(* the tree, and while every step could be taken back each of them leads   *)
(* from one tree of the line to the next.                                  *)
(***************************************************************************)

HInv == TypeOK /\ OnTheLine

\* A call puts its object on the undo stack, and the tree it found on the line.
LEMMA DoneKeeps ==
    ASSUME HInv, NEW t \in Trees, NEW o \in Objects, NEW b \in BOOLEAN,
           IsTree(t), Done(t, o, b), b => Leads(o, files, t)
    PROVE  HInv'
<1>1. /\ files' = t /\ undo' = Append(undo, o) /\ redo' = <<>> /\ future' = <<>>
      /\ faithful' = (faithful /\ b)
      /\ past' = IF faithful' THEN Append(past, files) ELSE <<>>
      /\ outside' = outside
  BY DEF Done, Pushed
<1>2. /\ files \in Trees /\ undo \in Seq(Objects) /\ past \in Seq(Trees) /\ faithful \in BOOLEAN
      /\ outside \in 0..MaxOutside
      /\ faithful => Len(past) = Len(undo)
  BY DEF HInv, TypeOK
<1>3. /\ undo' \in Seq(Objects) /\ Len(undo') = Len(undo) + 1
      /\ \A i \in 1..Len(undo) : undo'[i] = undo[i]
      /\ undo'[Len(undo) + 1] = o
      /\ Append(past, files) \in Seq(Trees) /\ Len(Append(past, files)) = Len(past) + 1
      /\ \A i \in 1..Len(past) : Append(past, files)[i] = past[i]
      /\ Append(past, files)[Len(past) + 1] = files
  BY <1>1, <1>2, AppendProperties
<1>4. /\ Len(undo) \in Nat /\ DOMAIN undo = 1..Len(undo) /\ DOMAIN undo' = 1..(Len(undo) + 1)
      /\ <<>> \in Seq(Objects) /\ <<>> \in Seq(Trees) /\ Len(<<>>) = 0 /\ DOMAIN <<>> = {}
  BY <1>2, <1>3, LenProperties, EmptySeq
<1>5. TypeOK'
  BY <1>1, <1>2, <1>3, <1>4 DEF TypeOK
<1>6. ASSUME faithful'
      PROVE  \A i \in DOMAIN undo' :
                 Leads(undo'[i], past'[i], IF i = Len(undo') THEN files' ELSE past'[i + 1])
  <2>1. /\ faithful /\ b /\ past' = Append(past, files) /\ Len(past) = Len(undo)
    BY <1>1, <1>2, <1>6
  <2>2. ASSUME NEW i \in 1..Len(undo)
        PROVE  Leads(undo'[i], past'[i], IF i = Len(undo') THEN files' ELSE past'[i + 1])
    <3>1. Leads(undo[i], past[i], IF i = Len(undo) THEN files ELSE past[i + 1])
      BY <1>4, <2>1 DEF HInv, OnTheLine
    <3>2. /\ i # Len(undo')
          /\ i # Len(undo) => i + 1 \in 1..Len(undo)
      BY <1>3, <1>4
    <3>3. undo'[i] = undo[i] /\ past'[i] = past[i] /\ past'[Len(undo) + 1] = files
      BY <1>3, <2>1
    <3>4. past'[i + 1] = IF i = Len(undo) THEN files ELSE past[i + 1]
      BY <1>3, <2>1, <3>2, <3>3
    <3> QED
      BY <3>1, <3>2, <3>3, <3>4
  <2>3. Leads(undo'[Len(undo) + 1], past'[Len(undo) + 1], files')
    BY <1>1, <1>3, <2>1
  <2> QED
    BY <1>3, <1>4, <2>2, <2>3
<1>7. OnTheLine'
  BY <1>1, <1>4, <1>6 DEF OnTheLine
<1> QED
  BY <1>5, <1>7 DEF HInv

LEMMA CallKeeps == HInv /\ Call => HInv'
BY CallDoes, DoneKeeps DEF HInv

\* Undo moves the object from one stack to the other and goes back one tree.
LEMMA UndoKeeps ==
    ASSUME HInv, Undo
    PROVE  /\ HInv' /\ Spares(Top(undo))
           /\ faithful => files' = Top(past) /\ past # <<>>
<1> DEFINE o == Top(undo)
           n == Len(undo)
<1>1. /\ ~UndoThrows(files, o) /\ files' = Undone(files, o)
      /\ undo # <<>> /\ undo' = Front(undo) /\ redo' = Append(redo, o)
      /\ faithful' = faithful /\ outside' = outside
      /\ faithful => past' = Front(past) /\ future' = Append(future, files)
      /\ ~faithful => past' = past /\ future' = future
  BY DEF Undo
<1>2. /\ files \in Trees /\ IsTree(files) /\ undo \in Seq(Objects) /\ redo \in Seq(Objects)
      /\ past \in Seq(Trees) /\ future \in Seq(Trees)
      /\ outside \in 0..MaxOutside /\ faithful \in BOOLEAN
      /\ faithful => Len(past) = n /\ Len(future) = Len(redo)
  BY DEF HInv, TypeOK
<1>3. /\ o \in Objects /\ o = undo[n]
      /\ Front(undo) \in Seq(Objects) /\ Len(Front(undo)) = n - 1
      /\ \A i \in 1..(n - 1) : Front(undo)[i] = undo[i]
      /\ n \in Nat \ {0} /\ DOMAIN undo = 1..n /\ DOMAIN Front(undo) = 1..(n - 1)
  BY <1>1, <1>2, FrontOfStack
<1>4. /\ Len(redo) \in Nat /\ DOMAIN redo = 1..Len(redo)
      /\ redo' \in Seq(Objects) /\ Len(redo') = Len(redo) + 1
      /\ \A i \in 1..Len(redo) : redo'[i] = redo[i]
      /\ redo'[Len(redo) + 1] = o
      /\ DOMAIN redo' = 1..(Len(redo) + 1)
  BY <1>1, <1>2, <1>3, AppendProperties, LenProperties
<1> HIDE DEF o, n
<1>5. /\ files' \in Trees /\ IsTree(files')
      /\ \A q \in Paths \ Named(o) : Exists(files, q) => files'[q] = files[q]
  BY <1>1, <1>2, <1>3, UndoneIsLocal, UndoneIsTree
<1>6. CASE ~faithful
  <2>1. TypeOK'
    BY <1>1, <1>2, <1>3, <1>4, <1>5, <1>6 DEF TypeOK
  <2>2. OnTheLine'
    BY <1>1, <1>6 DEF OnTheLine
  <2> QED
    BY <1>5, <1>6, <2>1, <2>2 DEF HInv, Spares, o
<1>7. CASE faithful
  <2>1. past # <<>> /\ Len(past) = n /\ Len(future) = Len(redo)
    BY <1>2, <1>3, <1>7
  <2>2. /\ past' \in Seq(Trees) /\ Len(past') = n - 1
        /\ \A i \in 1..(n - 1) : past'[i] = past[i]
        /\ Top(past) = past[n]
    BY <1>1, <1>2, <1>7, <2>1, FrontOfStack
  <2>3. /\ future' \in Seq(Trees) /\ Len(future') = Len(redo) + 1
        /\ \A i \in 1..Len(redo) : future'[i] = future[i]
        /\ future'[Len(redo) + 1] = files
    <3>1. future' = Append(future, files)
      BY <1>1, <1>7
    <3>2. future \in Seq(Trees) /\ files \in Trees
      BY <1>2
    <3> QED
      BY <2>1, <3>1, <3>2, AppendProperties
  <2>4. TypeOK'
    BY <1>1, <1>2, <1>3, <1>4, <1>5, <1>7, <2>2, <2>3 DEF TypeOK
  <2>5. /\ \A i \in 1..n : Leads(undo[i], past[i], IF i = n THEN files ELSE past[i + 1])
        /\ \A i \in 1..Len(redo) :
              Leads(redo[i], IF i = Len(redo) THEN files ELSE future[i + 1], future[i])
    BY <1>3, <1>4, <1>7 DEF HInv, OnTheLine, n
  <2>6. Leads(o, past[n], files)
    <3>1. n \in 1..n
      BY <1>3
    <3> QED
      BY <1>3, <2>5, <3>1
  <2>7. files' = past[n]
    BY <1>1, <2>6 DEF Leads
  <2>8. ASSUME NEW i \in 1..(n - 1)
        PROVE  Leads(undo'[i], past'[i], IF i = n - 1 THEN files' ELSE past'[i + 1])
    <3>1. /\ i \in 1..n /\ i # n /\ undo'[i] = undo[i] /\ past'[i] = past[i]
          /\ i = n - 1 => i + 1 = n
          /\ i # n - 1 => i + 1 \in 1..(n - 1)
      BY <1>1, <1>3, <2>2
    <3>2. Leads(undo[i], past[i], past[i + 1])
      BY <2>5, <3>1
    <3>3. (IF i = n - 1 THEN files' ELSE past'[i + 1]) = past[i + 1]
      BY <2>2, <2>7, <3>1
    <3> QED
      BY <3>1, <3>2, <3>3
  <2>9. ASSUME NEW i \in 1..(Len(redo) + 1)
        PROVE  Leads(redo'[i], IF i = Len(redo) + 1 THEN files' ELSE future'[i + 1], future'[i])
    <3>1. CASE i = Len(redo) + 1
      BY <1>4, <2>3, <2>6, <2>7, <3>1
    <3>2. CASE i # Len(redo) + 1
      <4>1. i \in 1..Len(redo) /\ (i # Len(redo) => i + 1 \in 1..Len(redo))
        <5>1. Len(redo) \in Nat
          BY <1>4
        <5> QED
          BY <3>2, <5>1
      <4>2. redo'[i] = redo[i] /\ future'[i] = future[i]
        BY <1>4, <2>3, <4>1
      <4>3. Leads(redo[i], IF i = Len(redo) THEN files ELSE future[i + 1], future[i])
        BY <2>5, <4>1
      <4>4. future'[i + 1] = IF i = Len(redo) THEN files ELSE future[i + 1]
        BY <2>3, <4>1
      <4> QED
        BY <3>2, <4>2, <4>3, <4>4
    <3> QED
      BY <3>1, <3>2
  <2>10. OnTheLine'
    BY <1>1, <1>3, <1>4, <2>8, <2>9 DEF OnTheLine
  <2> QED
    BY <1>5, <1>7, <2>1, <2>2, <2>4, <2>7, <2>10 DEF HInv, Spares, o
<1> QED
  BY <1>6, <1>7

\* Redo moves it back; the redo of file_content_modify leaves the line.
LEMMA RedoKeeps ==
    ASSUME HInv, Redo
    PROVE  /\ HInv' /\ Spares(Top(redo))
           /\ faithful' => files' = Top(future) /\ future # <<>>
<1> DEFINE o == Top(redo)
           m == Len(redo)
<1>1. /\ ~RedoThrows(files, o) /\ files' = Redone(files, o)
      /\ redo # <<>> /\ redo' = Front(redo) /\ undo' = Append(undo, o)
      /\ faithful' = (faithful /\ o.tool # "file_content_modify") /\ outside' = outside
      /\ past' = IF faithful' THEN Append(past, files) ELSE <<>>
      /\ future' = IF faithful' THEN Front(future) ELSE <<>>
  BY DEF Redo
<1>2. /\ files \in Trees /\ IsTree(files) /\ undo \in Seq(Objects) /\ redo \in Seq(Objects)
      /\ past \in Seq(Trees) /\ future \in Seq(Trees)
      /\ outside \in 0..MaxOutside /\ faithful \in BOOLEAN
      /\ faithful => Len(past) = Len(undo) /\ Len(future) = m
      /\ <<>> \in Seq(Trees)
  BY EmptySeq DEF HInv, TypeOK
<1>3. /\ o \in Objects /\ o = redo[m]
      /\ Front(redo) \in Seq(Objects) /\ Len(Front(redo)) = m - 1
      /\ \A i \in 1..(m - 1) : Front(redo)[i] = redo[i]
      /\ m \in Nat \ {0} /\ DOMAIN redo = 1..m /\ DOMAIN Front(redo) = 1..(m - 1)
  BY <1>1, <1>2, FrontOfStack
<1>4. /\ Len(undo) \in Nat /\ DOMAIN undo = 1..Len(undo)
      /\ undo' \in Seq(Objects) /\ Len(undo') = Len(undo) + 1
      /\ \A i \in 1..Len(undo) : undo'[i] = undo[i]
      /\ undo'[Len(undo) + 1] = o
      /\ DOMAIN undo' = 1..(Len(undo) + 1)
  BY <1>1, <1>2, <1>3, AppendProperties, LenProperties
<1> HIDE DEF o, m
<1>5. /\ files' \in Trees /\ IsTree(files')
      /\ \A q \in Paths \ Named(o) : Exists(files, q) => files'[q] = files[q]
  BY <1>1, <1>2, <1>3, RedoneIsLocal, RedoneIsTree
<1>6. CASE ~faithful'
  <2>1. TypeOK'
    BY <1>1, <1>2, <1>3, <1>4, <1>5, <1>6 DEF TypeOK
  <2>2. OnTheLine'
    BY <1>6 DEF OnTheLine
  <2> QED
    BY <1>5, <1>6, <2>1, <2>2 DEF HInv, Spares, o
<1>7. CASE faithful'
  <2>1. /\ faithful /\ o.tool # "file_content_modify"
        /\ future # <<>> /\ Len(past) = Len(undo) /\ Len(future) = m
        /\ past' = Append(past, files) /\ future' = Front(future)
    BY <1>1, <1>2, <1>3, <1>7
  <2>2. /\ future' \in Seq(Trees) /\ Len(future') = m - 1
        /\ \A i \in 1..(m - 1) : future'[i] = future[i]
        /\ Top(future) = future[m]
    BY <1>2, <2>1, FrontOfStack
  <2>3. /\ past' \in Seq(Trees) /\ Len(past') = Len(undo) + 1
        /\ \A i \in 1..Len(undo) : past'[i] = past[i]
        /\ past'[Len(undo) + 1] = files
    BY <1>2, <2>1, AppendProperties
  <2>4. TypeOK'
    BY <1>1, <1>2, <1>3, <1>4, <1>5, <2>2, <2>3 DEF TypeOK
  <2>5. /\ \A i \in 1..Len(undo) :
              Leads(undo[i], past[i], IF i = Len(undo) THEN files ELSE past[i + 1])
        /\ \A i \in 1..m : Leads(redo[i], IF i = m THEN files ELSE future[i + 1], future[i])
    BY <1>3, <1>4, <2>1 DEF HInv, OnTheLine, m
  <2>6. Leads(o, files, future[m])
    <3>1. m \in 1..m
      BY <1>3
    <3> QED
      BY <1>3, <2>5, <3>1
  <2>7. files' = future[m]
    BY <1>1, <2>1, <2>6 DEF Leads
  <2>8. ASSUME NEW i \in 1..(m - 1)
        PROVE  Leads(redo'[i], IF i = m - 1 THEN files' ELSE future'[i + 1], future'[i])
    <3>1. /\ i \in 1..m /\ i # m /\ redo'[i] = redo[i] /\ future'[i] = future[i]
          /\ i = m - 1 => i + 1 = m
          /\ i # m - 1 => i + 1 \in 1..(m - 1)
      BY <1>1, <1>3, <2>2
    <3>2. Leads(redo[i], future[i + 1], future[i])
      BY <2>5, <3>1
    <3>3. (IF i = m - 1 THEN files' ELSE future'[i + 1]) = future[i + 1]
      BY <2>2, <2>7, <3>1
    <3> QED
      BY <3>1, <3>2, <3>3
  <2>9. ASSUME NEW i \in 1..(Len(undo) + 1)
        PROVE  Leads(undo'[i], past'[i], IF i = Len(undo) + 1 THEN files' ELSE past'[i + 1])
    <3>1. CASE i = Len(undo) + 1
      BY <1>4, <2>3, <2>6, <2>7, <3>1
    <3>2. CASE i # Len(undo) + 1
      <4>1. i \in 1..Len(undo) /\ (i # Len(undo) => i + 1 \in 1..Len(undo))
        <5>1. Len(undo) \in Nat
          BY <1>4
        <5> QED
          BY <3>2, <5>1
      <4>2. undo'[i] = undo[i] /\ past'[i] = past[i]
        BY <1>4, <2>3, <4>1
      <4>3. Leads(undo[i], past[i], IF i = Len(undo) THEN files ELSE past[i + 1])
        BY <2>5, <4>1
      <4>4. past'[i + 1] = IF i = Len(undo) THEN files ELSE past[i + 1]
        BY <2>3, <4>1
      <4> QED
        BY <3>2, <4>2, <4>3, <4>4
    <3> QED
      BY <3>1, <3>2
  <2>10. OnTheLine'
    BY <1>1, <1>3, <1>4, <2>8, <2>9 DEF OnTheLine
  <2> QED
    BY <1>5, <2>1, <2>2, <2>4, <2>7, <2>10 DEF HInv, Spares, o
<1> QED
  BY <1>6, <1>7

\* The other steps.
LEMMA OthersKeep ==
    ASSUME HInv, NewClient \/ OutsideChange \/ UNCHANGED vars
    PROVE  HInv'
<1>1. <<>> \in Seq(Objects) /\ <<>> \in Seq(Trees) /\ Len(<<>>) = 0 /\ DOMAIN <<>> = {}
  BY EmptySeq
<1>2. CASE NewClient
  <2>1. TypeOK'
    BY <1>1, <1>2 DEF NewClient, HInv, TypeOK
  <2>2. OnTheLine'
    BY <1>1, <1>2 DEF NewClient, OnTheLine
  <2> QED
    BY <2>1, <2>2 DEF HInv
<1>3. CASE OutsideChange
  <2>1. PICK p \in Paths, n \in Texts \cup {Nothing, Directory} :
            files' = [files EXCEPT ![p] = n] /\ IsTree(files')
    BY <1>3 DEF OutsideChange
  <2>2. n \in Nodes
    BY TextsAreContents DEF Nodes
  <2>3. files' \in Trees
    BY <2>1, <2>2 DEF HInv, TypeOK, Trees
  <2>4. outside' \in 0..MaxOutside
    BY <1>3, HistoryAssumption DEF OutsideChange, HInv, TypeOK
  <2>5. TypeOK'
    BY <1>1, <1>3, <2>1, <2>3, <2>4 DEF OutsideChange, HInv, TypeOK, stacks
  <2> QED
    BY <1>3, <2>5 DEF OutsideChange, HInv, OnTheLine
<1>4. CASE UNCHANGED vars
  BY <1>4 DEF vars, stacks, line, HInv, TypeOK, OnTheLine
<1> QED
  BY <1>2, <1>3, <1>4

LEMMA HInvHolds == Spec => []HInv
<1>1. Init => HInv
  <2>1. <<>> \in Seq(Objects) /\ <<>> \in Seq(Trees) /\ Len(<<>>) = 0 /\ DOMAIN <<>> = {}
    BY EmptySeq
  <2> QED
    BY <2>1, HistoryAssumption DEF Init, HInv, TypeOK, OnTheLine
<1>2. HInv /\ [Next]_vars => HInv'
  BY CallKeeps, UndoKeeps, RedoKeeps, OthersKeep DEF Next
<1> QED
  BY <1>1, <1>2, PTL DEF Spec

\* Type correctness: whatever tools, undo, redo and others do to the files,
\* everything that exists lies in a directory.
THEOREM HistoryTypes == Spec => []TypeOK
<1>1. HInv => TypeOK
  BY DEF HInv
<1> QED
  BY <1>1, HInvHolds, PTL

\* While every call was one its tool can take back, neither undo nor redo finds
\* an object that throws, and is pushed back for ever (history_manager.h:43-54).
THEOREM UndoNeverStuck == Spec => []NeverStuck
<1>1. HInv => NeverStuck
  <2> SUFFICES ASSUME HInv, faithful
               PROVE  /\ undo # <<>> => ~UndoThrows(files, Top(undo))
                      /\ redo # <<>> => ~RedoThrows(files, Top(redo))
    BY DEF NeverStuck
  <2>1. undo \in Seq(Objects) /\ redo \in Seq(Objects)
    BY DEF HInv, TypeOK
  <2>2. /\ undo # <<>> => Len(undo) \in DOMAIN undo
        /\ redo # <<>> => Len(redo) \in DOMAIN redo
    BY <2>1, LenProperties, EmptySeq
  <2>3. undo # <<>> => Leads(undo[Len(undo)], past[Len(undo)], files)
    BY <2>2 DEF HInv, OnTheLine
  <2>4. redo # <<>> => Leads(redo[Len(redo)], files, future[Len(redo)])
    BY <2>2 DEF HInv, OnTheLine
  <2> QED
    BY <2>3, <2>4 DEF Leads, Top
<1> QED
  BY <1>1, HInvHolds, PTL

\* /undo and /redo change nothing that lies elsewhere than at, or in, the
\* paths the call named, whatever was done to the files in between
\* (history_manager.h:42-66 and the Undo and Redo of every tool).
THEOREM UndoStaysLocal == Spec => StaysLocal
<1>1. HInv /\ [Next]_vars =>
          [(Undo => Spares(Top(undo))) /\ (Redo => Spares(Top(redo)))]_vars
  BY UndoKeeps, RedoKeeps
<1> QED
  BY <1>1, HInvHolds, PTL DEF Spec, StaysLocal

-----------------------------------------------------------------------------
(***************************************************************************)
(* The refinement: the trees before the present one, it, and those that    *)
(* redo leads to are the revisions of the abstract specification.          *)
(***************************************************************************)

LineOf(a, t, c) == a \o <<t>> \o Reversed(c)

IsLine(S, u, a, t, c) ==
    /\ u \in Seq(S)
    /\ Len(u) = Len(a) + 1 + Len(c)
    /\ \A i \in 1..Len(a) : u[i] = a[i]
    /\ u[Len(a) + 1] = t
    /\ \A i \in 1..Len(c) : u[Len(a) + 1 + i] = c[Len(c) + 1 - i]

Revs == IF faithful THEN LineOf(past, files, future) ELSE <<>>
Pos  == IF faithful THEN Len(past) + 1 ELSE 0

LEMMA ReversedIsSeq ==
    ASSUME NEW S, NEW c \in Seq(S)
    PROVE  /\ Reversed(c) \in Seq(S) /\ Len(Reversed(c)) = Len(c)
           /\ \A i \in 1..Len(c) : Reversed(c)[i] = c[Len(c) + 1 - i]
<1>1. Len(c) \in Nat /\ \A i \in 1..Len(c) : c[i] \in S
  BY LenProperties, ElementOfSeq
<1>2. \A i \in 1..Len(c) : Len(c) + 1 - i \in 1..Len(c)
  BY <1>1
<1>3. Reversed(c) \in [1..Len(c) -> S]
  BY <1>1, <1>2 DEF Reversed
<1>4. Reversed(c) \in Seq(S)
  BY <1>1, <1>3, SeqDef
<1>5. Len(Reversed(c)) \in Nat /\ 1..Len(Reversed(c)) = 1..Len(c)
  BY <1>3, <1>4, LenProperties
<1> QED
  BY <1>1, <1>4, <1>5 DEF Reversed

\* What lies where on a line.
LEMMA LineIsSeq ==
    ASSUME NEW S, NEW a \in Seq(S), NEW t \in S, NEW c \in Seq(S)
    PROVE  IsLine(S, LineOf(a, t, c), a, t, c)
<1> DEFINE h == a \o <<t>>
           r == Reversed(c)
<1>1. Len(a) \in Nat /\ Len(c) \in Nat
  BY LenProperties
<1>2. <<t>> \in Seq(S) /\ Len(<<t>>) = 1 /\ <<t>>[1] = t
  OBVIOUS
<1>3. /\ h \in Seq(S) /\ Len(h) = Len(a) + 1
      /\ \A i \in 1..Len(a) + 1 : h[i] = IF i <= Len(a) THEN a[i] ELSE <<t>>[i - Len(a)]
  BY <1>2, ConcatProperties
<1>4. h[Len(a) + 1] = t /\ \A i \in 1..Len(a) : h[i] = a[i]
  <2> HIDE DEF h
  <2>1. Len(a) + 1 \in 1..Len(a) + 1 /\ ~(Len(a) + 1 <= Len(a)) /\ Len(a) + 1 - Len(a) = 1
    BY <1>1
  <2> QED
    BY <1>1, <1>2, <1>3, <2>1
<1>5. /\ r \in Seq(S) /\ Len(r) = Len(c)
      /\ \A i \in 1..Len(c) : r[i] = c[Len(c) + 1 - i]
  BY ReversedIsSeq
<1> HIDE DEF h, r
<1>6. /\ h \o r \in Seq(S) /\ Len(h \o r) = Len(a) + 1 + Len(c)
      /\ \A i \in 1..(Len(a) + 1 + Len(c)) :
            (h \o r)[i] = IF i <= Len(a) + 1 THEN h[i] ELSE r[i - (Len(a) + 1)]
  <2>1. h \in Seq(S) /\ r \in Seq(S)
    BY <1>3, <1>5
  <2>2. /\ h \o r \in Seq(S) /\ Len(h \o r) = Len(h) + Len(r)
        /\ \A i \in 1..(Len(h) + Len(r)) :
              (h \o r)[i] = IF i <= Len(h) THEN h[i] ELSE r[i - Len(h)]
    BY <2>1, ConcatProperties
  <2> QED
    BY <1>3, <1>5, <2>2
<1>7. \A i \in 1..(Len(a) + 1) : (h \o r)[i] = h[i]
  BY <1>1, <1>6
<1>8. ASSUME NEW i \in 1..Len(c) PROVE (h \o r)[Len(a) + 1 + i] = r[i]
  <2>1. /\ Len(a) + 1 + i \in 1..(Len(a) + 1 + Len(c)) /\ ~(Len(a) + 1 + i <= Len(a) + 1)
        /\ Len(a) + 1 + i - (Len(a) + 1) = i
    BY <1>1
  <2> QED
    BY <1>6, <2>1
<1>9. LineOf(a, t, c) = h \o r
  BY DEF LineOf, h, r
<1>10. Len(a) + 1 \in 1..(Len(a) + 1) /\ 1..Len(a) \subseteq 1..(Len(a) + 1)
  BY <1>1
<1> QED
  BY <1>4, <1>5, <1>6, <1>7, <1>8, <1>9, <1>10 DEF IsLine

\* Going back by one leaves the line as it is.
LEMMA LineShifts ==
    ASSUME NEW S, NEW a \in Seq(S), NEW t \in S, NEW c \in Seq(S), a # <<>>
    PROVE  LineOf(Front(a), Top(a), Append(c, t)) = LineOf(a, t, c)
<1> DEFINE n == Len(a)
           m == Len(c)
           b == Front(a)
           d == Append(c, t)
           u == LineOf(b, Top(a), d)
           v == LineOf(a, t, c)
<1>1. /\ n \in Nat \ {0} /\ b \in Seq(S) /\ Len(b) = n - 1 /\ Top(a) \in S /\ Top(a) = a[n]
      /\ \A i \in 1..(n - 1) : b[i] = a[i]
  BY FrontOfStack
<1>2. /\ m \in Nat /\ d \in Seq(S) /\ Len(d) = m + 1
      /\ \A i \in 1..m : d[i] = c[i]
      /\ d[m + 1] = t
  BY AppendProperties, LenProperties
<1>3. /\ v \in Seq(S) /\ Len(v) = n + 1 + m
      /\ \A i \in 1..n : v[i] = a[i]
      /\ v[n + 1] = t
      /\ \A i \in 1..m : v[n + 1 + i] = c[m + 1 - i]
  <2>1. IsLine(S, v, a, t, c)
    BY LineIsSeq
  <2> HIDE DEF v
  <2> QED
    BY <2>1 DEF IsLine
<1> HIDE DEF b, d, v
<1>4. /\ u \in Seq(S) /\ Len(u) = Len(b) + 1 + Len(d)
      /\ \A i \in 1..Len(b) : u[i] = b[i]
      /\ u[Len(b) + 1] = Top(a)
      /\ \A i \in 1..Len(d) : u[Len(b) + 1 + i] = d[Len(d) + 1 - i]
  <2>1. IsLine(S, u, b, Top(a), d)
    BY <1>1, <1>2, LineIsSeq
  <2> HIDE DEF u
  <2> QED
    BY <2>1 DEF IsLine
<1> HIDE DEF n, m, u
<1>5. /\ Len(b) + 1 = n /\ Len(d) + 1 = m + 2 /\ Len(b) + 1 + Len(d) = n + 1 + m
  BY <1>1, <1>2
<1>6. /\ \A i \in 1..(n - 1) : u[i] = a[i]
      /\ u[n] = a[n]
      /\ \A i \in 1..(m + 1) : u[n + i] = d[m + 2 - i]
  BY <1>1, <1>2, <1>4, <1>5
<1>7. ASSUME NEW i \in 1..(n + 1 + m) PROVE u[i] = v[i]
  <2>1. CASE i < n
    <3>1. i \in 1..(n - 1) /\ i \in 1..n
      BY <1>1, <1>2, <2>1
    <3> QED
      BY <1>3, <1>6, <3>1
  <2>2. CASE i = n
    <3>1. n \in 1..n
      BY <1>1
    <3> QED
      BY <1>3, <1>6, <2>2, <3>1
  <2>3. CASE i = n + 1
    <3>1. 1 \in 1..(m + 1) /\ m + 2 - 1 = m + 1
      BY <1>2
    <3>2. u[n + 1] = d[m + 1]
      BY <1>6, <3>1
    <3> QED
      BY <1>2, <1>3, <2>3, <3>2
  <2>4. CASE i > n + 1
    <3> DEFINE j == i - (n + 1)
    <3>1. /\ j \in 1..m /\ j + 1 \in 1..(m + 1) /\ i = n + 1 + j /\ i = n + (j + 1)
          /\ m + 2 - (j + 1) = m + 1 - j /\ m + 1 - j \in 1..m
      BY <1>1, <1>2, <2>4
    <3> HIDE DEF j
    <3>2. u[i] = d[m + 2 - (j + 1)]
      BY <1>6, <3>1
    <3>3. v[i] = c[m + 1 - j]
      BY <1>3, <3>1
    <3> QED
      BY <1>2, <3>1, <3>2, <3>3
  <2>5. i < n \/ i = n \/ i = n + 1 \/ i > n + 1
    BY <1>1, <1>2
  <2> QED
    BY <2>1, <2>2, <2>3, <2>4, <2>5
<1>8. u = v
  BY <1>3, <1>4, <1>5, <1>7, SeqEqual
<1> QED
  BY <1>8 DEF u, v, b, d

\* Pushing and popping.
LEMMA StackOfPush ==
    ASSUME NEW S, NEW s \in Seq(S), NEW x \in S
    PROVE  Append(s, x) # <<>> /\ Front(Append(s, x)) = s /\ Top(Append(s, x)) = x
<1> DEFINE p == Append(s, x)
<1>1. /\ Len(s) \in Nat /\ p \in Seq(S) /\ Len(p) = Len(s) + 1
      /\ \A i \in 1..Len(s) : p[i] = s[i]
      /\ p[Len(s) + 1] = x
  BY AppendProperties, LenProperties
<1>2. p # <<>>
  BY <1>1, EmptySeq
<1> HIDE DEF p
<1>3. /\ Top(p) = p[Len(p)] /\ Front(p) \in Seq(S) /\ Len(Front(p)) = Len(p) - 1
      /\ \A i \in 1..(Len(p) - 1) : Front(p)[i] = p[i]
  BY <1>1, <1>2, FrontOfStack
<1>4. Len(p) - 1 = Len(s)
  BY <1>1
<1>5. Len(Front(p)) = Len(s) /\ \A i \in 1..Len(Front(p)) : Front(p)[i] = s[i]
  BY <1>1, <1>3, <1>4
<1>6. Front(p) = s
  BY <1>3, <1>5, SeqEqual
<1> QED
  BY <1>1, <1>2, <1>3, <1>6 DEF p

LEMMA PushOfPop ==
    ASSUME NEW S, NEW s \in Seq(S), s # <<>>
    PROVE  Append(Front(s), Top(s)) = s
<1> DEFINE n == Len(s) - 1
           f == Front(s)
           p == Append(f, Top(s))
<1>1. /\ n \in Nat /\ n + 1 = Len(s) /\ f \in Seq(S) /\ Len(f) = n /\ Top(s) \in S
      /\ Top(s) = s[n + 1]
      /\ \A i \in 1..n : f[i] = s[i]
  BY FrontOfStack
<1> HIDE DEF f
<1>2. /\ p \in Seq(S) /\ Len(p) = Len(f) + 1
      /\ \A i \in 1..Len(f) : p[i] = f[i]
      /\ p[Len(f) + 1] = Top(s)
  <2>1. f \in Seq(S) /\ Top(s) \in S
    BY <1>1
  <2> QED
    BY <2>1, AppendProperties
<1> HIDE DEF n, p
<1>3. ASSUME NEW i \in 1..(n + 1) PROVE p[i] = s[i]
  <2>1. i \in 1..n \/ i = n + 1
    BY <1>1
  <2> QED
    BY <1>1, <1>2, <2>1
<1>4. p = s
  BY <1>1, <1>2, <1>3, SeqEqual
<1> QED
  BY <1>4 DEF p, f

\* A line of which nothing is undone ends with the present.
LEMMA LineEnds ==
    ASSUME NEW S, NEW a \in Seq(S), NEW t \in S
    PROVE  LineOf(a, t, <<>>) = Append(a, t)
<1> DEFINE u == LineOf(a, t, <<>>)
           v == Append(a, t)
<1>1. <<>> \in Seq(S) /\ Len(<<>>) = 0 /\ Len(a) \in Nat
  BY EmptySeq, LenProperties
<1>2. /\ u \in Seq(S) /\ Len(u) = Len(a) + 1 + 0
      /\ \A i \in 1..Len(a) : u[i] = a[i]
      /\ u[Len(a) + 1] = t
  <2>1. IsLine(S, u, a, t, <<>>)
    BY <1>1, LineIsSeq
  <2> HIDE DEF u
  <2> QED
    BY <1>1, <2>1 DEF IsLine
<1>3. /\ v \in Seq(S) /\ Len(v) = Len(a) + 1
      /\ \A i \in 1..Len(a) : v[i] = a[i]
      /\ v[Len(a) + 1] = t
  BY AppendProperties
<1> HIDE DEF u, v
<1>4. Len(u) = Len(v)
  BY <1>1, <1>2, <1>3
<1>5. ASSUME NEW i \in 1..Len(u) PROVE u[i] = v[i]
  <2>1. i \in 1..Len(a) \/ i = Len(a) + 1
    BY <1>1, <1>2
  <2> QED
    BY <1>2, <1>3, <2>1
<1>6. u = v
  BY <1>2, <1>3, <1>4, <1>5, SeqEqual
<1> QED
  BY <1>6 DEF u, v

\* A line keeps its beginning up to the present when the rest is replaced.
LEMMA LineGrows ==
    ASSUME NEW S, NEW a \in Seq(S), NEW t \in S, NEW c \in Seq(S), NEW x \in S
    PROVE  /\ Len(LineOf(Append(a, t), x, <<>>)) = Len(a) + 2
           /\ SubSeq(LineOf(Append(a, t), x, <<>>), 1, Len(a) + 1)
                  = SubSeq(LineOf(a, t, c), 1, Len(a) + 1)
<1> DEFINE n == Len(a) + 1
           u == LineOf(Append(a, t), x, <<>>)
           v == LineOf(a, t, c)
<1>1. /\ <<>> \in Seq(S) /\ Len(<<>>) = 0 /\ Len(a) \in Nat /\ Len(c) \in Nat
      /\ Append(a, t) \in Seq(S) /\ Len(Append(a, t)) = n
      /\ \A i \in 1..Len(a) : Append(a, t)[i] = a[i]
      /\ Append(a, t)[n] = t
  BY EmptySeq, LenProperties, AppendProperties
<1>2. /\ u \in Seq(S) /\ Len(u) = Len(Append(a, t)) + 1 + 0
      /\ \A i \in 1..Len(Append(a, t)) : u[i] = Append(a, t)[i]
  <2>1. IsLine(S, u, Append(a, t), x, <<>>)
    BY <1>1, LineIsSeq
  <2> HIDE DEF u
  <2> QED
    BY <1>1, <2>1 DEF IsLine
<1>3. /\ v \in Seq(S) /\ Len(v) = n + Len(c)
      /\ \A i \in 1..Len(a) : v[i] = a[i]
      /\ v[n] = t
  <2>1. IsLine(S, v, a, t, c)
    BY LineIsSeq
  <2> HIDE DEF v
  <2> QED
    BY <2>1 DEF IsLine
<1> HIDE DEF u, v
<1>4. n \in Nat /\ n = Len(a) + 1 /\ Len(u) = Len(a) + 2
  BY <1>1, <1>2
<1>5. ASSUME NEW i \in 1..n PROVE u[i] = v[i]
  <2>1. i \in 1..Len(a) \/ i = n
    BY <1>4
  <2> QED
    BY <1>1, <1>2, <1>3, <2>1
<1>6. \A i \in 1..n : u[i] \in S /\ v[i] \in S
  <2>1. 1..n \subseteq 1..Len(u) /\ 1..n \subseteq 1..Len(v)
    BY <1>1, <1>3, <1>4
  <2> QED
    BY <1>2, <1>3, <2>1, ElementOfSeq
<1> HIDE DEF n
<1>7. /\ SubSeq(u, 1, n) \in Seq(S) /\ SubSeq(v, 1, n) \in Seq(S)
      /\ Len(SubSeq(u, 1, n)) = (IF 1 <= n THEN n - 1 + 1 ELSE 0)
      /\ Len(SubSeq(v, 1, n)) = (IF 1 <= n THEN n - 1 + 1 ELSE 0)
      /\ \A i \in 1..(n - 1 + 1) : SubSeq(u, 1, n)[i] = u[1 + i - 1]
      /\ \A i \in 1..(n - 1 + 1) : SubSeq(v, 1, n)[i] = v[1 + i - 1]
  BY <1>4, <1>6, SubSeqProperties
<1>8. /\ (IF 1 <= n THEN n - 1 + 1 ELSE 0) = n /\ n - 1 + 1 = n
      /\ \A i \in 1..n : 1 + i - 1 = i
  BY <1>1, <1>4
<1>9. /\ Len(SubSeq(u, 1, n)) = n /\ Len(SubSeq(v, 1, n)) = n
      /\ \A i \in 1..n : SubSeq(u, 1, n)[i] = u[i] /\ SubSeq(v, 1, n)[i] = v[i]
  BY <1>7, <1>8
<1>10. SubSeq(u, 1, n) = SubSeq(v, 1, n)
  BY <1>5, <1>7, <1>9, SeqEqual
<1> QED
  BY <1>4, <1>10 DEF u, v, n

\* What is known of a faithful line.
LEMMA FaithfulLine ==
    ASSUME HInv, faithful
    PROVE  /\ files \in Trees /\ past \in Seq(Trees) /\ future \in Seq(Trees)
           /\ Len(past) \in Nat /\ Len(future) \in Nat
           /\ Revs = LineOf(past, files, future) /\ Pos = Len(past) + 1
           /\ Len(Revs) = Pos + Len(future)
           /\ Revs[Pos] = files
<1>1. files \in Trees /\ past \in Seq(Trees) /\ future \in Seq(Trees)
  BY DEF HInv, TypeOK
<1>2. IsLine(Trees, LineOf(past, files, future), past, files, future)
  BY <1>1, LineIsSeq
<1>3. Len(past) \in Nat /\ Len(future) \in Nat
  BY <1>1, LenProperties
<1> QED
  BY <1>1, <1>2, <1>3 DEF IsLine, Revs, Pos

\* A call brings a new present, or gives up the line.
LEMMA CallChanges ==
    ASSUME HInv, Call
    PROVE  Line!Change \/ Line!Forget \/ UNCHANGED <<Revs, Pos>>
<1>1. PICK t \in Trees, o \in Objects, b \in BOOLEAN :
          IsTree(t) /\ Done(t, o, b) /\ (b => Leads(o, files, t))
  BY CallDoes DEF HInv
<1>2. /\ files' = t /\ faithful' = (faithful /\ b) /\ future' = <<>>
      /\ past' = IF faithful' THEN Append(past, files) ELSE <<>>
  BY <1>1 DEF Done
<1>3. CASE ~faithful
  BY <1>2, <1>3 DEF Revs, Pos
<1>4. CASE faithful /\ ~b
  <2>1. Revs' = <<>> /\ Pos' = 0
    BY <1>2, <1>4 DEF Revs, Pos
  <2> QED
    BY <2>1 DEF Line!Forget, Revs, Pos, LineOf
<1>5. CASE faithful /\ b
  <2>1. /\ past' = Append(past, files) /\ future' = <<>> /\ files' = t /\ faithful'
    BY <1>2, <1>5
  <2>2. /\ files \in Trees /\ past \in Seq(Trees) /\ future \in Seq(Trees) /\ Len(past) \in Nat
        /\ Revs = LineOf(past, files, future) /\ Pos = Len(past) + 1
    BY <1>5, FaithfulLine
  <2>3. Len(Append(past, files)) = Len(past) + 1
    BY <2>2, AppendProperties
  <2>4. Revs' = LineOf(Append(past, files), t, <<>>) /\ Pos' = Len(past) + 1 + 1
    BY <2>1, <2>3 DEF Revs, Pos, LineOf
  <2>5. /\ Len(Revs') = Len(past) + 2
        /\ SubSeq(Revs', 1, Len(past) + 1) = SubSeq(Revs, 1, Len(past) + 1)
    BY <2>2, <2>4, LineGrows
  <2>6. /\ Pos > 0 /\ Pos' = Pos + 1 /\ Len(Revs') = Pos'
        /\ SubSeq(Revs', 1, Pos) = SubSeq(Revs, 1, Pos)
    BY <2>2, <2>4, <2>5
  <2> QED
    BY <2>6 DEF Line!Change, Revs, Pos, LineOf
<1> QED
  BY <1>3, <1>4, <1>5

\* Undo goes back by one.
LEMMA UndoGoesBack ==
    ASSUME HInv, Undo
    PROVE  Line!Undo \/ UNCHANGED <<Revs, Pos>>
<1>1. /\ faithful' = faithful
      /\ faithful => past' = Front(past) /\ future' = Append(future, files)
  BY DEF Undo
<1>2. CASE ~faithful
  BY <1>1, <1>2 DEF Revs, Pos
<1>3. CASE faithful
  <2>1. files' = Top(past) /\ past # <<>>
    BY <1>3, UndoKeeps
  <2>2. /\ files \in Trees /\ past \in Seq(Trees) /\ future \in Seq(Trees)
        /\ Revs = LineOf(past, files, future) /\ Pos = Len(past) + 1
    BY <1>3, FaithfulLine
  <2>3. /\ Len(past) \in Nat \ {0} /\ Len(Front(past)) = Len(past) - 1
    BY <2>1, <2>2, FrontOfStack
  <2>4. /\ Revs' = LineOf(Front(past), Top(past), Append(future, files))
        /\ Pos' = Len(Front(past)) + 1
    BY <1>1, <1>3, <2>1 DEF Revs, Pos, LineOf
  <2>5. Revs' = Revs
    BY <2>1, <2>2, <2>4, LineShifts
  <2>6. Pos > 1 /\ Pos' = Pos - 1
    BY <2>2, <2>3, <2>4
  <2> QED
    BY <2>5, <2>6 DEF Line!Undo, Revs, Pos, LineOf
<1> QED
  BY <1>2, <1>3

\* Redo goes on by one, or leaves the line.
LEMMA RedoGoesOn ==
    ASSUME HInv, Redo
    PROVE  Line!Redo \/ Line!Forget \/ UNCHANGED <<Revs, Pos>>
<1>1. /\ faithful' => faithful
      /\ past' = IF faithful' THEN Append(past, files) ELSE <<>>
      /\ future' = IF faithful' THEN Front(future) ELSE <<>>
  BY DEF Redo
<1>2. CASE ~faithful
  BY <1>1, <1>2 DEF Revs, Pos
<1>3. CASE faithful /\ ~faithful'
  <2>1. Revs' = <<>> /\ Pos' = 0
    BY <1>3 DEF Revs, Pos
  <2> QED
    BY <2>1 DEF Line!Forget, Revs, Pos, LineOf
<1>4. CASE faithful'
  <2>1. faithful /\ files' = Top(future) /\ future # <<>>
    BY <1>1, <1>4, RedoKeeps
  <2>2. /\ files \in Trees /\ past \in Seq(Trees) /\ future \in Seq(Trees)
        /\ Len(past) \in Nat
        /\ Revs = LineOf(past, files, future) /\ Pos = Len(past) + 1
        /\ Len(Revs) = Pos + Len(future)
    BY <2>1, FaithfulLine
  <2>3. /\ Append(past, files) \in Seq(Trees) /\ Len(Append(past, files)) = Len(past) + 1
    BY <2>2, AppendProperties
  <2>4. /\ Append(past, files) # <<>>
        /\ Front(Append(past, files)) = past /\ Top(Append(past, files)) = files
    BY <2>2, StackOfPush
  <2>5. /\ Len(future) \in Nat \ {0} /\ Top(future) \in Trees /\ Front(future) \in Seq(Trees)
        /\ Append(Front(future), Top(future)) = future
    BY <2>1, <2>2, FrontOfStack, PushOfPop
  <2>6. /\ Revs' = LineOf(Append(past, files), Top(future), Front(future))
        /\ Pos' = Len(Append(past, files)) + 1
    BY <1>1, <1>4, <2>1 DEF Revs, Pos, LineOf
  <2>7. LineOf(Front(Append(past, files)), Top(Append(past, files)),
               Append(Front(future), Top(future)))
            = LineOf(Append(past, files), Top(future), Front(future))
    BY <2>3, <2>4, <2>5, LineShifts
  <2>8. Revs' = Revs
    BY <2>2, <2>4, <2>5, <2>6, <2>7
  <2>9. Pos < Len(Revs) /\ Pos' = Pos + 1
    BY <2>2, <2>3, <2>5, <2>6
  <2> QED
    BY <2>8, <2>9 DEF Line!Redo, Revs, Pos, LineOf
<1> QED
  BY <1>2, <1>3, <1>4

\* A new client begins a line, others give it up.
LEMMA OthersForget ==
    ASSUME HInv, NewClient \/ OutsideChange \/ UNCHANGED vars
    PROVE  Line!Forget \/ UNCHANGED <<Revs, Pos>>
<1>1. CASE NewClient /\ faithful
  <2>1. past' = <<>> /\ future' = <<>> /\ files' = files /\ faithful'
    BY <1>1 DEF NewClient
  <2>2. files \in Trees /\ Len(past) \in Nat /\ Pos = Len(past) + 1 /\ Revs[Pos] = files
    BY <1>1, FaithfulLine
  <2>3. <<>> \in Seq(Trees) /\ Len(<<>>) = 0 /\ Append(<<>>, files) = <<files>>
    BY EmptySeq
  <2>4. LineOf(<<>>, files, <<>>) = <<files>>
    BY <2>2, <2>3, LineEnds
  <2>5. Revs' = <<files>> /\ Pos' = 1
    BY <2>1, <2>3, <2>4 DEF Revs, Pos, LineOf
  <2>6. Pos > 0 /\ Revs' = <<Revs[Pos]>> /\ Pos' = 1
    BY <2>2, <2>5
  <2> QED
    BY <2>6 DEF Line!Forget, Revs, Pos, LineOf
<1>2. CASE NewClient /\ ~faithful
  BY <1>2 DEF NewClient, Revs, Pos
<1>3. CASE OutsideChange
  <2>1. Revs' = <<>> /\ Pos' = 0
    BY <1>3 DEF OutsideChange, Revs, Pos
  <2> QED
    BY <2>1 DEF Line!Forget, Revs, Pos, LineOf
<1>4. CASE UNCHANGED vars
  BY <1>4 DEF vars, line, Revs, Pos, LineOf, Reversed
<1> QED
  BY <1>1, <1>2, <1>3, <1>4

\* The history implements the line of revisions: as long as every call was one
\* its tool can take back and nobody else changed a file, undo restores the tree
\* before the call whatever was undone and redone meanwhile, and redo the tree
\* after it (history_manager.h, Undo and Redo of each tool).
THEOREM UndoAlongTheLine == Spec => MovesAlongTheLine
<1>1. Init => Line!Init
  <2> SUFFICES ASSUME Init PROVE Line!Init
    OBVIOUS
  <2>1. /\ files \in Trees /\ faithful = TRUE /\ past = <<>> /\ future = <<>>
        /\ <<>> \in Seq(Trees) /\ Len(<<>>) = 0
    BY HistoryAssumption, EmptySeq DEF Init
  <2>2. IsLine(Trees, LineOf(<<>>, files, <<>>), <<>>, files, <<>>)
    BY <2>1, LineIsSeq
  <2>3. Len(Revs) = 1 /\ Pos = 1
    BY <2>1, <2>2 DEF IsLine, Revs, Pos
  <2> QED
    BY <2>3 DEF Line!Init, Revs, Pos, LineOf
<1>2. HInv /\ [Next]_vars => [Line!Next]_<<Revs, Pos>>
  BY CallChanges, UndoGoesBack, RedoGoesOn, OthersForget DEF Next, Line!Next
<1> QED
  BY <1>1, <1>2, HInvHolds, PTL DEF Spec, MovesAlongTheLine, Line!Spec, Revs, Pos, LineOf

=============================================================================
