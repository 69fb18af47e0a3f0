------------------------- MODULE ReadingToolsProofs -------------------------
(***************************************************************************)
(* For any tree, files of any content and length, any limits and any size  *)
(* of the chunks, while others append to files or delete them: what        *)
(* read_file returns is how the file begins, and all of it unless it says  *)
(* so; what list_files names are the visible entries, in order; what       *)
(* file_search returns are matches, and all of them unless it says so.     *)
(***************************************************************************)
EXTENDS ReadingTools, SequenceTheorems, FiniteSetTheorems, WellFoundedInduction, TLAPS

\* s is how t begins.
Begins(s, t) == Len(s) <= Len(t) /\ \A i \in 1..Len(s) : s[i] = t[i]

LEMMA PrefixIsBeginning ==
    ASSUME NEW S, NEW s \in Seq(S), NEW t \in Seq(S)
    PROVE  IsPrefix(s, t) <=> Begins(s, t)
<1> DEFINE n == Len(s)
           p == SubSeq(t, 1, n)
<1>1. n \in Nat /\ Len(t) \in Nat /\ \A i \in 1..Len(t) : t[i] \in S
  BY LenProperties, ElementOfSeq
<1>2. SubSeq(s, 1, n) = s
  BY SubSeqFull
<1>3. ASSUME n <= Len(t) PROVE s = p <=> \A i \in 1..n : s[i] = t[i]
  <2>1. \A i \in 1..n : t[i] \in S
    BY <1>1, <1>3
  <2> HIDE DEF n
  <2>2. /\ p \in Seq(S) /\ Len(p) = (IF 1 <= n THEN n - 1 + 1 ELSE 0)
        /\ \A i \in 1..(n - 1 + 1) : p[i] = t[1 + i - 1]
    BY <1>1, <2>1, SubSeqProperties
  <2>3. (IF 1 <= n THEN n - 1 + 1 ELSE 0) = n /\ n - 1 + 1 = n /\ \A i \in 1..n : 1 + i - 1 = i
    BY <1>1
  <2>4. Len(p) = n /\ \A i \in 1..n : p[i] = t[i]
    BY <2>2, <2>3
  <2> HIDE DEF p
  <2>5. (\A i \in 1..n : s[i] = t[i]) => s = p
    BY <2>2, <2>4, SeqEqual DEF n
  <2> QED
    BY <2>4, <2>5
<1> HIDE DEF p
<1>4. IsPrefix(s, t) <=> n <= Len(t) /\ s = p
  BY <1>2 DEF IsPrefix, p
<1> QED
  BY <1>3, <1>4 DEF Begins

LEMMA MinOfTwo ==
    ASSUME NEW m \in Nat, NEW n \in Nat
    PROVE  Min({m, n}) = IF m <= n THEN m ELSE n
BY DEF Min

\* The next bytes of a file continue how it begins.
LEMMA NextChunk ==
    ASSUME NEW s \in Seq(Bytes), NEW t \in Seq(Bytes), Begins(s, t),
           NEW m \in Len(s)..Len(t)
    PROVE  /\ SubSeq(t, Len(s) + 1, m) \in Seq(Bytes)
           /\ Len(SubSeq(t, Len(s) + 1, m)) = m - Len(s)
           /\ s \o SubSeq(t, Len(s) + 1, m) \in Seq(Bytes)
           /\ Len(s \o SubSeq(t, Len(s) + 1, m)) = m
           /\ Begins(s \o SubSeq(t, Len(s) + 1, m), t)
<1> DEFINE more == SubSeq(t, Len(s) + 1, m)
<1>1. /\ more \in Seq(Bytes) /\ Len(more) = m - Len(s)
      /\ \A i \in 1..(m - Len(s)) : more[i] = t[Len(s) + i]
  <2>1. \A i \in Len(s) + 1..m : i \in 1..Len(t)
    BY LenProperties
  <2>2. more \in Seq(Bytes)
    BY <2>1, SubSeqProperties
  <2>3. Len(more) = IF Len(s) + 1 <= m THEN m - (Len(s) + 1) + 1 ELSE 0
    BY SubSeqProperties, LenProperties
  <2>4. \A i \in 1..(m - (Len(s) + 1) + 1) : more[i] = t[(Len(s) + 1) + i - 1]
    BY SubSeqProperties, LenProperties
  <2> QED
    BY <2>2, <2>3, <2>4, LenProperties
<1>2. /\ s \o more \in Seq(Bytes) /\ Len(s \o more) = m
      /\ \A i \in 1..m : (s \o more)[i] = IF i <= Len(s) THEN s[i] ELSE more[i - Len(s)]
  BY <1>1, ConcatProperties, LenProperties
<1>3. ASSUME NEW i \in 1..m PROVE (s \o more)[i] = t[i]
  <2>1. CASE i <= Len(s)
    BY <1>2, <2>1, LenProperties DEF Begins
  <2>2. CASE i > Len(s)
    BY <1>1, <1>2, <2>2, LenProperties
  <2> QED
    BY <2>1, <2>2, LenProperties
<1> QED
  BY <1>1, <1>2, <1>3, LenProperties DEF Begins

\* Cut or grown, a file begins as it did.
LEMMA CutBegins ==
    ASSUME NEW s \in Seq(Bytes), NEW t \in Seq(Bytes), Begins(s, t), NEW n \in 0..Len(s)
    PROVE  SubSeq(s, 1, n) \in Seq(Bytes) /\ Len(SubSeq(s, 1, n)) = n /\ Begins(SubSeq(s, 1, n), t)
<1>1. /\ SubSeq(s, 1, n) \in Seq(Bytes) /\ Len(SubSeq(s, 1, n)) = n
      /\ \A i \in 1..n : SubSeq(s, 1, n)[i] = s[i]
  BY SubSeqProperties, LenProperties
<1> QED
  BY <1>1, LenProperties DEF Begins

LEMMA GrownBegins ==
    ASSUME NEW s \in Seq(Bytes), NEW t \in Seq(Bytes), Begins(s, t), NEW b \in Bytes
    PROVE  /\ Append(t, b) \in Seq(Bytes) /\ Len(Append(t, b)) = Len(t) + 1
           /\ Begins(s, Append(t, b))
BY AppendProperties, LenProperties DEF Begins

-----------------------------------------------------------------------------
(***************************************************************************)
(* The inductive invariant: while chunks are read, what was taken is how   *)
(* the file begins, and the file is no shorter than when it was measured.  *)
(***************************************************************************)

Named ==
    /\ tree \in Trees /\ call \in Calls /\ truncated \in BOOLEAN
    /\ content \in [Entries -> Seq(Bytes)]

Started ==
    /\ pc = "begin" => taken = <<>> /\ truncated = FALSE
    /\ pc \in {"walk", "open"} => ~Reads
    /\ pc = "chunks" => Reads /\ truncated = FALSE

Partial ==
    pc \in {"chunks", "done"} /\ Reads =>
        /\ at \in Entries /\ taken \in Seq(Bytes) /\ Begins(taken, content[at])
        /\ size \in Nat /\ size <= Len(content[at])
        /\ call.tool = "read" => Len(taken) <= MaxText

Complete ==
    pc = "done" /\ Reads =>
        /\ truncated = FALSE => Len(taken) >= size
        /\ truncated = TRUE =>
               call.tool = "read" /\ Len(taken) = MaxText /\ Len(content[at]) > MaxText

ReadInv == Named /\ Started /\ Partial /\ Complete

\* The steps of the other tools, and the refusal, leave read_file alone.
LEMMA OtherTools ==
    ASSUME ReadInv, Refuse \/ Search \/ List \/ Walk
    PROVE  ReadInv'
<1> USE DEF ReadInv, Named, Started, Partial, Complete, Entries, Reads, world, others, read
<1>1. CASE Refuse
  BY <1>1 DEF Refuse
<1>2. CASE Search
  <2>1. CASE SearchBegins
    BY <2>1 DEF SearchBegins
  <2>2. CASE Sniff
    BY <2>2 DEF Sniff, Increment
  <2>3. CASE SearchFile
    <3>1. /\ pc = "open" /\ pc' \in {"done", "walk", "broken"} /\ truncated' \in BOOLEAN
          /\ UNCHANGED <<world, others, listed, read>>
      BY <2>3 DEF SearchFile, Increment
    <3> QED
      BY <3>1
  <2> QED
    BY <1>2, <2>1, <2>2, <2>3 DEF Search
<1>3. CASE List
  <2>1. CASE ListBegins
    BY <2>1 DEF ListBegins
  <2>2. CASE Skip
    BY <2>2 DEF Skip
  <2>3. CASE Emit
    <3>1. /\ pc = "walk" /\ pc' \in {"done", "walk", "thrown"}
          /\ UNCHANGED <<world, others, truncated, search, read>>
      BY <2>3 DEF Emit
    <3> QED
      BY <3>1
  <2> QED
    BY <1>3, <2>1, <2>2, <2>3 DEF List
<1>4. CASE Walk
  BY <1>4 DEF Walk, PassOver, WalkEnds
<1> QED
  BY <1>1, <1>2, <1>3, <1>4

\* The end of the next chunk.
ChunkEnd == Min({Len(taken) + ChunkSize, Len(content[at])})

LEMMA ChunkOfFile ==
    ASSUME ReadInv, pc = "chunks"
    PROVE  /\ ChunkEnd \in Len(taken)..Len(content[at])
           /\ Chunk \in Seq(Bytes) /\ Len(Chunk) = ChunkEnd - Len(taken)
           /\ taken \o Chunk \in Seq(Bytes) /\ Len(taken \o Chunk) = ChunkEnd
           /\ Begins(taken \o Chunk, content[at])
           /\ Chunk = <<>> => Len(taken) = Len(content[at])
           /\ Len(Chunk) < ChunkSize => ChunkEnd = Len(content[at])
<1>1. taken \in Seq(Bytes) /\ content[at] \in Seq(Bytes) /\ Begins(taken, content[at])
  BY DEF ReadInv, Named, Started, Partial, Entries
<1>2. Len(taken) \in Nat /\ Len(content[at]) \in Nat /\ Len(taken) <= Len(content[at])
  BY <1>1, LenProperties DEF Begins
<1>3. ChunkEnd = IF Len(taken) + ChunkSize <= Len(content[at])
                 THEN Len(taken) + ChunkSize ELSE Len(content[at])
  BY <1>2, MinOfTwo, ReadingAssumption DEF ChunkEnd
<1>4. ChunkEnd \in Len(taken)..Len(content[at])
  BY <1>2, <1>3, ReadingAssumption
<1>5. /\ Chunk \in Seq(Bytes) /\ Len(Chunk) = ChunkEnd - Len(taken)
      /\ taken \o Chunk \in Seq(Bytes) /\ Len(taken \o Chunk) = ChunkEnd
      /\ Begins(taken \o Chunk, content[at])
  BY <1>1, <1>4, NextChunk DEF Chunk, ChunkEnd
<1>6. Chunk = <<>> => Len(taken) = Len(content[at])
  <2>1. Chunk = <<>> => ChunkEnd - Len(taken) = 0
    BY <1>5, EmptySeq
  <2> QED
    BY <1>2, <1>3, <2>1, ReadingAssumption
<1>7. Len(Chunk) < ChunkSize => ChunkEnd = Len(content[at])
  BY <1>2, <1>3, <1>5, ReadingAssumption
<1> QED
  BY <1>4, <1>5, <1>6, <1>7

\* The steps of read_file.
LEMMA ReadStep ==
    ASSUME ReadInv, Read
    PROVE  ReadInv'
<1> USE ReadingAssumption DEF Entries, world, others, search, read
<1>1. CASE Measure
  <2>1. /\ call.target \in Entries /\ content[call.target] \in Seq(Bytes)
        /\ taken = <<>> /\ truncated = FALSE /\ Reads
    BY <1>1 DEF Measure, ReadInv, Named, Started, Reads
  <2>2. Len(content[call.target]) \in Nat /\ Begins(<<>>, content[call.target]) /\ <<>> \in Seq(Bytes)
    BY <2>1, LenProperties, EmptySeq DEF Begins
  <2>3. /\ at' = call.target /\ size' = Len(content[call.target]) /\ pc' \in {"refused", "chunks"}
        /\ UNCHANGED <<call, tree, content, taken, truncated>>
    BY <1>1 DEF Measure
  <2>4. Named' /\ Started' /\ Complete'
    BY <2>1, <2>3 DEF ReadInv, Named, Started, Complete, Reads
  <2>5. Partial'
    BY <2>1, <2>2, <2>3, EmptySeq DEF Partial
  <2> QED
    BY <2>4, <2>5 DEF ReadInv
<1>2. CASE ReadEnds
  <2>1. /\ pc = "chunks" /\ Chunk = <<>> /\ pc' = "done"
        /\ UNCHANGED <<call, tree, content, at, taken, size, truncated>>
    BY <1>2 DEF ReadEnds
  <2>2. Len(taken) = Len(content[at])
    BY <2>1, ChunkOfFile
  <2>3. Named' /\ Started' /\ Partial'
    BY <2>1 DEF ReadInv, Named, Started, Partial, Reads
  <2>4. Complete'
    BY <2>1, <2>2 DEF ReadInv, Started, Partial, Complete, Reads
  <2> QED
    BY <2>3, <2>4 DEF ReadInv
<1>3. CASE ReadText
  <2>1. /\ call.tool = "read" /\ pc = "chunks"
        /\ taken' = SubSeq(taken \o Chunk, 1, Min({Len(taken) + Len(Chunk), MaxText}))
        /\ IF Len(taken) + Len(Chunk) > MaxText
           THEN truncated' = TRUE /\ pc' = "done" ELSE UNCHANGED truncated /\ pc' = AfterChunk
        /\ pc' \in {"done", "chunks"}
        /\ UNCHANGED <<call, tree, content, at, size>>
    BY <1>3 DEF ReadText, AfterChunk
  <2>2. /\ taken \in Seq(Bytes) /\ content[at] \in Seq(Bytes) /\ truncated = FALSE /\ Reads
        /\ at \in Entries /\ size \in Nat /\ size <= Len(content[at])
    BY <2>1 DEF ReadInv, Named, Started, Partial
  <2>3. /\ taken \o Chunk \in Seq(Bytes) /\ Len(taken \o Chunk) = Len(taken) + Len(Chunk)
        /\ Len(taken) + Len(Chunk) \in Nat /\ Len(taken) + Len(Chunk) <= Len(content[at])
        /\ Begins(taken \o Chunk, content[at])
        /\ Len(Chunk) < ChunkSize => Len(taken) + Len(Chunk) = Len(content[at])
    BY <2>1, <2>2, ChunkOfFile, LenProperties
  <2> DEFINE n == Min({Len(taken) + Len(Chunk), MaxText})
  <2>4. /\ n \in 0..Len(taken \o Chunk) /\ n <= MaxText
        /\ n = IF Len(taken) + Len(Chunk) > MaxText THEN MaxText ELSE Len(taken) + Len(Chunk)
    BY <2>3, MinOfTwo
  <2>5. taken' \in Seq(Bytes) /\ Len(taken') = n /\ Begins(taken', content[at])
    BY <2>1, <2>2, <2>3, <2>4, CutBegins
  <2>6. Named' /\ Started'
    BY <2>1, <2>2 DEF ReadInv, Named, Started, Reads
  <2>7. Partial'
    BY <2>1, <2>2, <2>4, <2>5 DEF Partial, Reads
  <2>8. Complete'
    <3>1. CASE Len(taken) + Len(Chunk) > MaxText
      <4>1. Len(content[at]) \in Nat /\ Len(content[at]) > MaxText
        BY <2>2, <2>3, <3>1, LenProperties
      <4> QED
        BY <2>1, <2>4, <2>5, <3>1, <4>1 DEF Complete
    <3>2. CASE ~(Len(taken) + Len(Chunk) > MaxText)
      <4>1. pc' = "done" => Len(Chunk) < ChunkSize
        BY <2>1, <3>2 DEF AfterChunk
      <4>2. Len(Chunk) < ChunkSize => Len(taken') >= size
        BY <2>2, <2>3, <2>4, <2>5, <3>2
      <4> QED
        BY <2>1, <2>2, <3>2, <4>1, <4>2 DEF Complete
    <3> QED
      BY <3>1, <3>2
  <2> QED
    BY <2>6, <2>7, <2>8 DEF ReadInv
<1>4. CASE ReadBinary
  <2>1. /\ call.tool = "read_binary" /\ pc = "chunks" /\ pc' \in {"refused", "done", "chunks"}
        /\ pc' # "refused" => taken' = taken \o Chunk
        /\ pc' = "done" => Len(Chunk) < ChunkSize
        /\ UNCHANGED <<call, tree, content, at, size, truncated>>
    BY <1>4 DEF ReadBinary, AfterChunk
  <2>2. /\ taken \o Chunk \in Seq(Bytes) /\ Begins(taken \o Chunk, content[at])
        /\ Len(taken \o Chunk) = ChunkEnd
        /\ Len(Chunk) < ChunkSize => ChunkEnd = Len(content[at])
    BY <2>1, ChunkOfFile
  <2>3. Named' /\ Started' /\ Complete'
    <3>1. Named' /\ Started'
      BY <2>1 DEF ReadInv, Named, Started, Reads
    <3>2. size \in Nat /\ size <= Len(content[at]) /\ truncated = FALSE
      BY <2>1 DEF ReadInv, Started, Partial, Reads
    <3>3. pc' = "done" => Len(taken') >= size
      BY <2>1, <2>2, <3>2, LenProperties
    <3> QED
      BY <2>1, <3>1, <3>2, <3>3 DEF Complete
  <2>4. Partial'
    BY <2>1, <2>2 DEF ReadInv, Started, Partial, Reads
  <2> QED
    BY <2>3, <2>4 DEF ReadInv
<1> QED
  BY <1>1, <1>2, <1>3, <1>4 DEF Read

\* Others: a file that grows begins as it did; deleted, it stays readable.
LEMMA OthersStep ==
    ASSUME ReadInv, \E i \in Entries : Append1(i) \/ Vanish(i)
    PROVE  ReadInv'
<1>1. ASSUME NEW i \in Entries, Append1(i)
      PROVE  ReadInv'
  <2>1. PICK b \in {"x", "cont"} : content' = [content EXCEPT ![i] = Append(content[i], b)]
    BY <1>1 DEF Append1
  <2>2. /\ pc # "done" /\ UNCHANGED <<call, tree, pc, at, taken, size, truncated>>
    BY <1>1 DEF Append1, Running, world, search, read
  <2>3. content[i] \in Seq(Bytes) /\ b \in Bytes
    BY DEF ReadInv, Named, Bytes
  <2>4. Append(content[i], b) \in Seq(Bytes) /\ Len(Append(content[i], b)) = Len(content[i]) + 1
    BY <2>3, AppendProperties
  <2>5. Named' /\ Started' /\ Complete'
    BY <2>1, <2>2, <2>4 DEF ReadInv, Named, Started, Complete, Reads, Entries
  <2>6. Partial'
    <3> SUFFICES ASSUME pc = "chunks", Reads
                 PROVE  Partial'
      BY <2>2 DEF Partial, Reads
    <3>1. /\ at \in Entries /\ taken \in Seq(Bytes) /\ Begins(taken, content[at])
          /\ size \in Nat /\ size <= Len(content[at]) /\ content[at] \in Seq(Bytes)
          /\ call.tool = "read" => Len(taken) <= MaxText
      BY DEF ReadInv, Named, Partial
    <3>2. Begins(taken, content'[at]) /\ size <= Len(content'[at])
      <4>1. CASE at = i
        <5>1. content'[at] = Append(content[at], b)
          BY <2>1, <3>1, <4>1 DEF ReadInv, Named
        <5> QED
          BY <2>3, <3>1, <5>1, GrownBegins, LenProperties
      <4>2. CASE at # i
        BY <2>1, <3>1, <4>2 DEF ReadInv, Named
      <4> QED
        BY <4>1, <4>2
    <3> QED
      BY <2>2, <3>1, <3>2 DEF Partial, Entries, Reads
  <2> QED
    BY <2>5, <2>6 DEF ReadInv
<1>2. ASSUME NEW i \in Entries, Vanish(i)
      PROVE  ReadInv'
  <2>1. UNCHANGED <<call, tree, content, pc, at, taken, size, truncated>>
    BY <1>2 DEF Vanish, world, search, read
  <2> QED
    BY <2>1 DEF ReadInv, Named, Started, Partial, Complete, Entries, Reads
<1> QED
  BY <1>1, <1>2

LEMMA ReadInvariance == Spec => []ReadInv
<1>1. Init => ReadInv
  <2>1. Init => Named
    BY ReadingAssumption DEF Init, Named, Entries
  <2>2. Init => Started /\ Partial /\ Complete
    BY DEF Init, Started, Partial, Complete
  <2> QED
    BY <2>1, <2>2 DEF ReadInv
<1>2. ReadInv /\ [Next]_vars => ReadInv'
  <2> SUFFICES ASSUME ReadInv, [Next]_vars
               PROVE  ReadInv'
    OBVIOUS
  <2>1. CASE UNCHANGED vars
    BY <2>1 DEF vars, world, others, search, read, ReadInv, Named, Started, Partial, Complete,
       Entries, Reads
  <2> QED
    BY <2>1, OtherTools, ReadStep, OthersStep DEF Next
<1> QED
  BY <1>1, <1>2, PTL DEF Spec

\* What read_file returns is how the file begins, and all it held when it was
\* measured, or it says that it was cut and the file holds more than the limit.
THEOREM ReadIsWholeOrFlagged == Spec => []ReadAllOrFlagged
<1>1. ReadInv => ReadAllOrFlagged
  <2> SUFFICES ASSUME ReadInv, pc = "done", Reads
               PROVE  /\ IsPrefix(taken, content[at])
                      /\ ~truncated => Len(taken) >= size
                      /\ truncated => call.tool = "read" /\ Len(taken) = MaxText
                                          /\ Len(content[at]) > MaxText
    BY DEF ReadAllOrFlagged, Done
  <2>1. taken \in Seq(Bytes) /\ content[at] \in Seq(Bytes) /\ Begins(taken, content[at])
    BY DEF ReadInv, Named, Partial
  <2>2. IsPrefix(taken, content[at])
    BY <2>1, PrefixIsBeginning
  <2>3. truncated \in BOOLEAN /\ Complete
    BY DEF ReadInv, Named
  <2> QED
    BY <2>2, <2>3 DEF Complete
<1> QED
  BY <1>1, ReadInvariance, PTL

-----------------------------------------------------------------------------
(***************************************************************************)
(* list_files: what the iterators visit.                                   *)
(***************************************************************************)

LEMMA SmallestNat ==
    ASSUME NEW T, T \subseteq Nat, T # {}
    PROVE  \E x \in T : \A y \in T : x <= y
<1> DEFINE R == OpToRel(<, Nat)
<1>1. IsWellFoundedOn(R, Nat)
  BY NatLessThanWellFounded
<1>2. \A x, y \in Nat : <<x, y>> \in R <=> x < y
  BY DEF OpToRel
<1> HIDE DEF R
<1>3. PICK x \in T : \A y \in T : ~(<<y, x>> \in R)
  BY <1>1, WFMin
<1>4. \A y \in T : ~(y < x)
  BY <1>2, <1>3
<1> QED
  BY <1>4

LEMMA LeastIsMin ==
    ASSUME NEW T, T \subseteq Nat, T # {}
    PROVE  Min(T) \in T /\ \A y \in T : Min(T) <= y
BY SmallestNat DEF Min

LEMMA PathsOfTrees ==
    ASSUME NEW t \in Trees, NEW k \in DOMAIN t
    PROVE  t[k].path \in Seq(Names) /\ t[k].path # <<>>
<1> DEFINE Kind == [path : Seq(Names) \ {<<>>},
                    kind : {"text", "binary", "locked", "dir", "sealed"}]
<1>1. t \in Seq(Kind)
  BY TreesAssumption DEF IsWalk
<1>2. DOMAIN t = 1..Len(t)
  BY <1>1, LenProperties
<1>3. t[k] \in Kind
  <2> HIDE DEF Kind
  <2> QED
    BY <1>1, <1>2, ElementOfSeq
<1> QED
  BY <1>3

\* What lies below lies deeper, and below all that the directory lies below.
LEMMA BelowIsDeeper ==
    ASSUME NEW t \in Trees, NEW i \in DOMAIN t, NEW k \in DOMAIN t
    PROVE  /\ Depth(t[k]) \in Nat
           /\ Below(t[k], t[i]) => Depth(t[i]) < Depth(t[k])
<1>1. t[i].path \in Seq(Names) /\ t[k].path \in Seq(Names) /\ t[k].path # <<>>
  BY PathsOfTrees
<1>2. Len(t[i].path) \in Nat /\ Len(t[k].path) \in Nat \ {0}
  BY <1>1, LenProperties, EmptySeq
<1>3. ASSUME Below(t[k], t[i]) PROVE Len(t[i].path) < Len(t[k].path)
  <2>1. /\ Len(t[i].path) <= Len(t[k].path) /\ t[i].path # t[k].path
        /\ SubSeq(t[i].path, 1, Len(t[i].path)) = SubSeq(t[k].path, 1, Len(t[i].path))
    BY <1>3 DEF Below, IsStrictPrefix, IsPrefix
  <2>2. SubSeq(t[i].path, 1, Len(t[i].path)) = t[i].path
    BY <1>1, SubSeqFull
  <2>3. SubSeq(t[k].path, 1, Len(t[k].path)) = t[k].path
    BY <1>1, SubSeqFull
  <2> QED
    BY <1>2, <2>1, <2>2, <2>3
<1> QED
  BY <1>2, <1>3 DEF Depth

LEMMA BelowTheBelow ==
    ASSUME NEW t \in Trees, NEW i \in DOMAIN t, NEW j \in DOMAIN t, NEW k \in DOMAIN t,
           Below(t[k], t[j]), Below(t[j], t[i])
    PROVE  Below(t[k], t[i])
<1>1. /\ t[i].path \in Seq(Names) /\ t[j].path \in Seq(Names) /\ t[k].path \in Seq(Names)
  BY PathsOfTrees
<1>2. /\ Len(t[i].path) \in Nat /\ Len(t[j].path) \in Nat /\ Len(t[k].path) \in Nat
  BY <1>1, LenProperties
<1>3. Begins(t[k].path, t[k].path) /\ Begins(t[j].path, t[k].path) /\ Begins(t[i].path, t[j].path)
  BY <1>1, PrefixIsBeginning DEF Below, IsStrictPrefix, Begins
<1>4. Begins(t[i].path, t[k].path)
  BY <1>2, <1>3 DEF Begins
<1>5. Depth(t[i]) < Depth(t[j]) /\ Depth(t[j]) < Depth(t[k]) /\ t[i].path # t[k].path
  <2>1. Depth(t[i]) < Depth(t[j]) /\ Depth(t[j]) < Depth(t[k])
    BY BelowIsDeeper
  <2> QED
    BY <1>2, <2>1 DEF Depth
<1> QED
  BY <1>1, <1>4, <1>5, PrefixIsBeginning DEF Below, IsStrictPrefix

\* How the entries lie.
LEMMA WalkOrder ==
    ASSUME NEW t \in Trees
    PROVE  /\ Len(t) \in Nat /\ DOMAIN t = 1..Len(t)
           /\ \A i, k \in DOMAIN t : Below(t[k], t[i]) =>
                 /\ i < k /\ IsDir(t[i]) /\ Depth(t[i]) < Depth(t[k])
                 /\ \A j \in i + 1..k : Below(t[j], t[i])
           /\ \A k \in DOMAIN t : /\ Depth(t[k]) \in Nat
                                  /\ Depth(t[k]) > 0 => \E i \in DOMAIN t : Below(t[k], t[i])
<1>1. Len(t) \in Nat /\ DOMAIN t = 1..Len(t)
  BY TreesAssumption, LenProperties DEF IsWalk
<1>2. /\ \A i, k \in DOMAIN t : Below(t[k], t[i]) =>
            i < k /\ IsDir(t[i]) /\ \A j \in i + 1..k : Below(t[j], t[i])
      /\ \A k \in DOMAIN t : Depth(t[k]) > 0 => \E i \in DOMAIN t : Below(t[k], t[i])
  BY TreesAssumption DEF IsWalk
<1> QED
  BY <1>1, <1>2, BelowIsDeeper

\* Past is the next entry that does not lie below the one the iterator is at.
LEMMA PastIsNext ==
    ASSUME tree \in Trees, at \in Entries
    PROVE  /\ Past \in at + 1..Len(tree) + 1
           /\ Past \in Entries => ~Below(tree[Past], Entry)
           /\ \A j \in at + 1..Past - 1 : j \in Entries /\ Below(tree[j], Entry)
<1> DEFINE T == {j \in at + 1..Len(tree) + 1 : j > Len(tree) \/ ~Below(tree[j], Entry)}
<1>1. Len(tree) \in Nat /\ Entries = 1..Len(tree) /\ at \in Nat
  BY WalkOrder DEF Entries
<1>2. Len(tree) + 1 \in T /\ T \subseteq Nat
  BY <1>1 DEF Entries
<1>3. Min(T) \in T /\ \A y \in T : Min(T) <= y
  <2> HIDE DEF T
  <2> QED
    BY <1>2, LeastIsMin
<1>4. Past = Min(T)
  BY DEF Past
<1>5. ASSUME NEW j \in at + 1..Past - 1 PROVE j \in Entries /\ Below(tree[j], Entry)
  <2>1. Past \in at + 1..Len(tree) + 1 /\ (j \in T => Past <= j)
    BY <1>3, <1>4
  <2> HIDE DEF T
  <2>2. j \notin T /\ j \in at + 1..Len(tree)
    BY <1>1, <2>1
  <2> QED
    BY <1>1, <2>2 DEF T
<1> QED
  BY <1>1, <1>3, <1>4, <1>5

-----------------------------------------------------------------------------
(***************************************************************************)
(* The inductive invariant of a listing: what lies before the iterator has *)
(* been listed if it is visible, and the iterator is nowhere below what is *)
(* skipped.                                                                *)
(***************************************************************************)

Lists == call.tool \in {"list", "summary"}

LeftOut(j) == \/ ~call.hidden /\ IsDir(tree[j]) /\ IsHidden(tree[j])
              \/ Depth(tree[j]) > MaxDepth

Places ==
    /\ tree \in Trees /\ gone \subseteq Entries /\ changes \in Nat
    /\ Undisturbed => gone = {}
    /\ Lists =>
         /\ pc \in {"begin", "walk", "done", "thrown", "refused"}
         /\ at \in 1..Len(tree) + 1 /\ listed \in Seq(Nat)
         /\ pc = "begin" => at = 1 /\ listed = <<>>

\* What a listing holds when the iterator is at place k.
Holds(l, k) ==
    /\ l \in Seq(Nat)
    /\ \A m, n \in DOMAIN l : m < n => l[m] < l[n]
    /\ \A m \in DOMAIN l : l[m] \in 1..k - 1 /\ Visible(l[m])
    /\ \A i \in 1..k - 1 : Visible(i) => \E m \in DOMAIN l : l[m] = i

Reached(k) ==
    k \in Entries =>
        IF Recursive THEN \A j \in 1..k - 1 : LeftOut(j) => ~Below(tree[k], tree[j])
        ELSE Depth(tree[k]) = 0

NotFull == call.tool = "list" => Len(listed) < MaxEntries
Full    == call.tool = "list" /\ (Len(listed) = MaxEntries \/ used > MaxListing)

ListedSoFar ==
    Lists /\ Undisturbed /\ pc \in {"begin", "walk", "done"} =>
        /\ Holds(listed, at)
        /\ pc # "done" => Reached(at) /\ NotFull
        /\ pc = "done" => at = Len(tree) + 1 \/ Full

ListInv == Places /\ ListedSoFar

LEMMA VisibleIs ==
    ASSUME NEW i \in Entries
    PROVE  Visible(i) <=> /\ Depth(tree[i]) <= IF Recursive THEN MaxDepth ELSE 0
                          /\ \/ call.hidden
                             \/ \A j \in Entries : tree[j] = tree[i] \/ Below(tree[i], tree[j])
                                                       => ~IsHidden(tree[j])
BY DEF Visible, Ancestors

\* Nothing below what is left out is visible, nor is that itself.
LEMMA LeftOutIsInvisible ==
    ASSUME tree \in Trees, Recursive, NEW i \in Entries, LeftOut(i), NEW k \in Entries,
           k = i \/ Below(tree[k], tree[i])
    PROVE  ~Visible(k)
<1>1. Depth(tree[i]) \in Nat /\ Depth(tree[k]) \in Nat /\ Depth(tree[i]) <= Depth(tree[k])
  BY WalkOrder DEF Entries
<1>2. CASE ~call.hidden /\ IsHidden(tree[i])
  BY <1>2, VisibleIs
<1>3. CASE Depth(tree[i]) > MaxDepth
  <2>1. ~(Depth(tree[k]) <= MaxDepth)
    BY <1>1, <1>3, ReadingAssumption
  <2> QED
    BY <2>1, VisibleIs
<1> QED
  BY <1>2, <1>3 DEF LeftOut

\* An entry the iterator reaches, and that is not skipped, is visible unless it
\* is hidden itself.
LEMMA ReachedIsVisible ==
    ASSUME tree \in Trees, at \in Entries, Reached(at), Recursive => ~Skipped
    PROVE  Visible(at) <=> ~HiddenAway
<1>1. Depth(Entry) \in Nat
  BY WalkOrder DEF Entries, Entry
<1>2. ASSUME HiddenAway PROVE ~Visible(at)
  BY <1>2, VisibleIs DEF HiddenAway, Entry
<1>3. ASSUME ~HiddenAway PROVE Visible(at)
  <2>1. Depth(Entry) <= IF Recursive THEN MaxDepth ELSE 0
    BY <1>1, ReadingAssumption DEF Reached, Skipped, Entry
  <2>2. ASSUME ~call.hidden, NEW j \in Entries, tree[j] = Entry \/ Below(Entry, tree[j])
        PROVE  ~IsHidden(tree[j])
    <3>1. CASE tree[j] = Entry
      BY <1>3, <2>2, <3>1 DEF HiddenAway
    <3>2. CASE Below(Entry, tree[j])
      <4>1. j < at /\ IsDir(tree[j]) /\ Depth(tree[j]) \in Nat /\ Depth(tree[j]) < Depth(Entry)
        BY <3>2, WalkOrder DEF Entries, Entry
      <4>2. Recursive
        BY <1>1, <4>1 DEF Reached, Entry
      <4>3. j \in 1..at - 1
        BY <4>1, WalkOrder DEF Entries
      <4>4. ~LeftOut(j)
        BY <3>2, <4>2, <4>3 DEF Reached, Entry
      <4> QED
        BY <2>2, <4>1, <4>4 DEF LeftOut
    <3> QED
      BY <2>2, <3>1, <3>2
  <2> QED
    BY <2>1, <2>2, VisibleIs DEF Entry
<1> QED
  BY <1>2, <1>3

\* Where the iterator goes it is nowhere below what is left out.
LEMMA InsideIsReached ==
    ASSUME tree \in Trees, at \in Entries, Reached(at), Recursive, ~Skipped
    PROVE  Reached(Inside)
<1>1. at \in Nat /\ Entries = 1..Len(tree) /\ Len(tree) \in Nat
  BY WalkOrder DEF Entries
<1>2. ASSUME Inside \in Entries, NEW j \in 1..Inside - 1, LeftOut(j), Below(tree[Inside], tree[j])
      PROVE  FALSE
  <2>1. j # at
    BY <1>2 DEF LeftOut, Skipped, Entry
  <2>2. j \in 1..at - 1 /\ j \in Entries /\ at \in j + 1..Inside
    BY <1>1, <1>2, <2>1 DEF Inside
  <2>3. Below(tree[at], tree[j])
    BY <1>2, <2>2, WalkOrder DEF Entries
  <2> QED
    BY <1>2, <2>2, <2>3 DEF Reached
<1> QED
  BY <1>2 DEF Reached

LEMMA PastIsReached ==
    ASSUME tree \in Trees, at \in Entries, Reached(at)
    PROVE  Reached(Past)
<1>1. at \in Nat /\ Entries = 1..Len(tree) /\ Len(tree) \in Nat
  BY WalkOrder DEF Entries
<1>2. /\ Past \in at + 1..Len(tree) + 1
      /\ Past \in Entries => ~Below(tree[Past], Entry)
      /\ \A j \in at + 1..Past - 1 : j \in Entries /\ Below(tree[j], Entry)
  BY PastIsNext
<1> DEFINE p == Past
<1> HIDE DEF p
\* Only what was left behind may be above the next place.
<1>3. ASSUME p \in Entries, NEW j \in Entries, Below(tree[p], tree[j])
      PROVE  j \in 1..at - 1 /\ Below(Entry, tree[j])
  <2>1. j < p
    BY <1>3, WalkOrder DEF Entries
  <2>2. j # at
    BY <1>2, <1>3 DEF p, Entry
  <2>3. j \notin at + 1..p - 1
    <3> SUFFICES ASSUME j \in at + 1..p - 1 PROVE FALSE
      OBVIOUS
    <3>1. Below(tree[j], Entry)
      BY <1>2 DEF p
    <3>2. Below(tree[p], tree[at])
      BY <1>3, <3>1, BelowTheBelow DEF Entries, Entry
    <3> QED
      BY <1>2, <1>3, <3>2 DEF p, Entry
  <2>4. j \in 1..at - 1 /\ at \in j + 1..p
    BY <1>1, <1>2, <1>3, <2>1, <2>2, <2>3 DEF p
  <2> QED
    BY <1>3, <2>4, WalkOrder DEF Entries, Entry
<1>4. CASE Recursive
  <2>1. ASSUME p \in Entries, NEW j \in 1..p - 1, LeftOut(j), Below(tree[p], tree[j])
        PROVE  FALSE
    <3>1. j \in Entries
      BY <1>1, <2>1
    <3>2. j \in 1..at - 1 /\ Below(Entry, tree[j])
      BY <1>3, <2>1, <3>1
    <3> QED
      BY <1>4, <2>1, <3>2 DEF Reached, Entry
  <2> QED
    BY <1>4, <2>1 DEF Reached, p
<1>5. CASE ~Recursive
  <2>1. ASSUME p \in Entries, Depth(tree[p]) # 0
        PROVE  FALSE
    <3>1. PICK j \in Entries : Below(tree[p], tree[j])
      BY <2>1, WalkOrder DEF Entries
    <3>2. Below(Entry, tree[j])
      BY <1>3, <2>1, <3>1
    <3>3. Depth(Entry) = 0 /\ Depth(tree[j]) \in Nat /\ Depth(tree[j]) < Depth(Entry)
      BY <1>5, <3>2, WalkOrder DEF Reached, Entries, Entry
    <3> QED
      BY <3>3
  <2> QED
    BY <1>5, <2>1 DEF Reached, p
<1> QED
  BY <1>4, <1>5

\* A listing that goes on to place k, when nothing in between is visible.
LEMMA GoesOn ==
    ASSUME at \in Nat, NEW l \in Seq(Nat), Holds(l, at), NEW k \in Nat, at < k, at > 0,
           \A j \in at + 1..k - 1 : ~Visible(j)
    PROVE  /\ ~Visible(at) => Holds(l, k)
           /\ Visible(at) => Holds(Append(l, at), k)
<1> DEFINE more == Append(l, at)
<1>1. \A i \in 1..k - 1 : i \in 1..at - 1 \/ i = at \/ i \in at + 1..k - 1
  OBVIOUS
<1>2. 1..at - 1 \subseteq 1..k - 1 /\ at \in 1..k - 1
  OBVIOUS
<1>3. ASSUME ~Visible(at) PROVE Holds(l, k)
  BY <1>1, <1>2, <1>3 DEF Holds
<1>4. ASSUME Visible(at) PROVE Holds(more, k)
  <2>1. /\ Len(l) \in Nat /\ DOMAIN l = 1..Len(l)
        /\ more \in Seq(Nat) /\ DOMAIN more = 1..Len(l) + 1
        /\ \A m \in 1..Len(l) : more[m] = l[m]
        /\ more[Len(l) + 1] = at
    BY AppendProperties, LenProperties
  <2> HIDE DEF more
  <2>2. \A m \in 1..Len(l) + 1 : m \in 1..Len(l) \/ m = Len(l) + 1
    BY <2>1
  <2>3. \A m \in 1..Len(l) : l[m] \in 1..at - 1 /\ Visible(l[m])
    BY <2>1 DEF Holds
  <2>4. \A m, n \in DOMAIN more : m < n => more[m] < more[n]
    <3> SUFFICES ASSUME NEW m \in 1..Len(l) + 1, NEW n \in 1..Len(l) + 1, m < n
                 PROVE  more[m] < more[n]
      BY <2>1
    <3>1. m \in 1..Len(l)
      BY <2>1
    <3>2. CASE n \in 1..Len(l)
      BY <2>1, <3>1, <3>2 DEF Holds
    <3>3. CASE n = Len(l) + 1
      <4>1. l[m] < at
        BY <2>3, <3>1
      <4> QED
        BY <2>1, <3>1, <3>3, <4>1
    <3> QED
      BY <2>2, <3>2, <3>3
  <2>5. \A m \in DOMAIN more : more[m] \in 1..k - 1 /\ Visible(more[m])
    BY <1>2, <1>4, <2>1, <2>2, <2>3
  <2>6. \A i \in 1..k - 1 : Visible(i) => \E m \in DOMAIN more : more[m] = i
    <3> SUFFICES ASSUME NEW i \in 1..k - 1, Visible(i)
                 PROVE  \E m \in DOMAIN more : more[m] = i
      OBVIOUS
    <3>1. CASE i \in 1..at - 1
      <4>1. PICK m \in DOMAIN l : l[m] = i
        BY <3>1 DEF Holds
      <4>2. m \in DOMAIN more /\ more[m] = i
        BY <2>1, <4>1
      <4> QED
        BY <4>2
    <3>2. CASE i = at
      <4>1. Len(l) + 1 \in DOMAIN more
        BY <2>1
      <4> QED
        BY <2>1, <3>2, <4>1
    <3> QED
      BY <1>1, <3>1, <3>2
  <2> QED
    BY <2>1, <2>4, <2>5, <2>6 DEF Holds
<1> QED
  BY <1>3, <1>4

\* The tree and the call stay what they are.
LEMMA SameWorld ==
    ASSUME UNCHANGED world
    PROVE  /\ Lists' = Lists /\ Entries' = Entries /\ Recursive' = Recursive
           /\ Holds(listed', at') => Holds(listed, at)'
           /\ Reached(at') => Reached(at)'
<1>1. call' = call /\ tree' = tree
  BY DEF world
<1>2. Lists' = Lists /\ Entries' = Entries /\ Recursive' = Recursive
  BY <1>1 DEF Lists, Entries, Recursive
<1>3. Holds(listed', at') => Holds(listed, at)'
  BY <1>1 DEF Holds, Visible, Ancestors, Recursive, Entries
<1>4. Reached(at') => Reached(at)'
  BY <1>1 DEF Reached, LeftOut, Recursive, Entries
<1> QED
  BY <1>2, <1>3, <1>4

LEMMA ListBeginsStep ==
    ASSUME ListInv, ListBegins
    PROVE  ListInv'
<1>1. Lists /\ pc = "begin" /\ pc' \in {"walk", "thrown"} /\ UNCHANGED <<world, others, at, listed>>
  BY DEF ListBegins, Lists
<1>2. Places'
  BY <1>1, SameWorld DEF ListInv, Places, Undisturbed, others, world
<1>3. Undisturbed => Holds(listed, at) /\ Reached(at) /\ NotFull
  BY <1>1 DEF ListInv, ListedSoFar
<1>4. ListedSoFar'
  BY <1>1, <1>3, SameWorld DEF ListedSoFar, Undisturbed, NotFull, others, world
<1> QED
  BY <1>2, <1>4 DEF ListInv

\* What is skipped is not visible, nor what lies below it.
LEMMA SkipStep ==
    ASSUME ListInv, Skip
    PROVE  ListInv'
<1>1. /\ Recursive /\ Skipped /\ pc = "walk" /\ at \in Entries /\ at' = Past
      /\ UNCHANGED <<world, others, pc, used, listed>>
  BY DEF Skip
<1>2. Lists /\ tree \in Trees /\ listed \in Seq(Nat)
  BY <1>1 DEF Recursive, Lists, ListInv, Places
<1>3. /\ at \in 1..Len(tree) /\ Len(tree) \in Nat /\ Past \in at + 1..Len(tree) + 1
      /\ \A j \in at + 1..Past - 1 : j \in Entries /\ Below(tree[j], Entry)
  BY <1>1, <1>2, WalkOrder, PastIsNext DEF Entries
<1>4. Past \in 1..Len(tree) + 1 /\ Past \in Nat /\ at < Past /\ at \in Nat /\ at > 0
  BY <1>3
<1>5. Places'
  BY <1>1, <1>2, <1>4, SameWorld DEF ListInv, Places, Undisturbed, others, world
<1>6. ASSUME Undisturbed PROVE Holds(listed, Past) /\ Reached(Past) /\ NotFull
  <2>1. Holds(listed, at) /\ Reached(at) /\ NotFull
    BY <1>1, <1>2, <1>6 DEF ListInv, ListedSoFar
  <2>2. LeftOut(at)
    BY <1>1 DEF LeftOut, Skipped, Entry
  <2>3. ~Visible(at)
    BY <1>1, <1>2, <2>2, LeftOutIsInvisible
  <2>4. \A j \in at + 1..Past - 1 : ~Visible(j)
    BY <1>1, <1>2, <1>3, <2>2, LeftOutIsInvisible DEF Entry
  <2>5. Holds(listed, Past)
    BY <1>2, <1>4, <2>1, <2>3, <2>4, GoesOn
  <2> QED
    BY <1>1, <1>2, <2>1, <2>5, PastIsReached
<1>7. ListedSoFar'
  BY <1>1, <1>6, SameWorld DEF ListedSoFar, Undisturbed, NotFull, others, world
<1> QED
  BY <1>5, <1>7 DEF ListInv

\* What is emitted is visible; what is hidden, or passed over because the
\* listing is not recursive, is not.
LEMMA EmitStep ==
    ASSUME ListInv, Emit
    PROVE  ListInv'
<1> DEFINE k == IF Recursive THEN Inside ELSE Past
<1>1. /\ Lists /\ pc = "walk" /\ at \in Entries /\ (Recursive => ~Skipped)
      /\ HiddenAway => listed' = listed /\ used' = used
      /\ ~HiddenAway => listed' = Append(listed, at)
      /\ at' = k
      /\ pc' = IF ListFull THEN "done" ELSE IF Recursive /\ CannotEnter THEN "thrown" ELSE "walk"
      /\ UNCHANGED <<world, others>>
  BY DEF Emit, Lists
<1>2. tree \in Trees /\ listed \in Seq(Nat)
  BY <1>1 DEF ListInv, Places
<1>3. /\ at \in 1..Len(tree) /\ Len(tree) \in Nat /\ Past \in at + 1..Len(tree) + 1
      /\ \A j \in at + 1..Past - 1 : j \in Entries /\ Below(tree[j], Entry)
  BY <1>1, <1>2, WalkOrder, PastIsNext DEF Entries
<1>4. k \in 1..Len(tree) + 1 /\ k \in Nat /\ at < k /\ at \in Nat /\ at > 0
  BY <1>3 DEF Inside
<1>5. /\ listed' \in Seq(Nat) /\ Len(listed) \in Nat
      /\ Len(listed') = Len(listed) \/ Len(listed') = Len(listed) + 1
  <2>1. /\ Append(listed, at) \in Seq(Nat) /\ Len(Append(listed, at)) = Len(listed) + 1
        /\ Len(listed) \in Nat
    BY <1>2, <1>4, AppendProperties, LenProperties
  <2>2. listed' = listed \/ listed' = Append(listed, at)
    BY <1>1
  <2> QED
    BY <1>2, <2>1, <2>2
<1>6. pc' \in {"done", "thrown", "walk"}
  BY <1>1
<1>7. Places'
  BY <1>1, <1>2, <1>4, <1>5, <1>6, SameWorld DEF ListInv, Places, Undisturbed, others, world
<1>8. ASSUME Undisturbed PROVE Holds(listed', k) /\ Reached(k) /\ NotFull
  <2>1. Holds(listed, at) /\ Reached(at) /\ NotFull
    BY <1>1, <1>8 DEF ListInv, ListedSoFar
  <2>2. Visible(at) <=> ~HiddenAway
    BY <1>1, <1>2, <2>1, ReachedIsVisible
  <2>3. ASSUME NEW j \in at + 1..k - 1 PROVE ~Visible(j)
    <3>1. ~Recursive /\ j \in Entries /\ Below(tree[j], Entry)
      BY <1>3, <2>3 DEF Inside
    <3>2. Depth(tree[j]) \in Nat /\ Depth(Entry) \in Nat /\ Depth(Entry) < Depth(tree[j])
      BY <1>1, <1>2, <3>1, WalkOrder DEF Entries, Entry
    <3> QED
      BY <3>1, <3>2, VisibleIs
  <2>4. Holds(listed', k)
    <3> HIDE DEF k
    <3> QED
      BY <1>1, <1>2, <1>4, <2>1, <2>2, <2>3, GoesOn
  <2>5. Reached(k)
    BY <1>1, <1>2, <2>1, InsideIsReached, PastIsReached
  <2> QED
    BY <2>1, <2>4, <2>5
<1> HIDE DEF k
<1>9. ListedSoFar'
  <2> SUFFICES ASSUME Undisturbed, pc' \in {"done", "walk"}
               PROVE  /\ Holds(listed, at)'
                      /\ pc' # "done" => Reached(at)' /\ NotFull'
                      /\ pc' = "done" => (at = Len(tree) + 1 \/ Full)'
    BY <1>1, <1>6 DEF ListedSoFar, Undisturbed, others
  <2>1. Holds(listed, at)' /\ Reached(at)'
    BY <1>1, <1>8, SameWorld
  <2>2. call' = call /\ (call.tool = "list" => Len(listed) < MaxEntries) /\ MaxEntries \in Nat
    BY <1>1, <1>8, ReadingAssumption DEF world, NotFull
  <2>3. CASE ListFull
    <3>1. call.tool = "list" /\ (Len(listed') >= MaxEntries \/ used' > MaxListing)
      BY <2>3 DEF ListFull
    <3>2. Len(listed') >= MaxEntries => Len(listed') = MaxEntries
      BY <1>5, <2>2, <3>1
    <3> QED
      BY <1>1, <2>1, <2>2, <2>3, <3>1, <3>2 DEF Full
  <2>4. CASE ~ListFull
    <3>1. call.tool = "list" => ~(Len(listed') >= MaxEntries)
      BY <2>4 DEF ListFull
    <3>2. call.tool = "list" => Len(listed') < MaxEntries
      BY <1>5, <2>2, <3>1
    <3>3. pc' = "walk"
      BY <1>1, <2>4
    <3> QED
      BY <2>1, <2>2, <3>2, <3>3 DEF NotFull
  <2> QED
    BY <2>3, <2>4
<1> QED
  BY <1>7, <1>9 DEF ListInv

\* The other tools' steps, and the ends of a walk.
LEMMA WalkStep ==
    ASSUME ListInv, Refuse \/ Search \/ Read \/ Walk
    PROVE  ListInv'
<1> USE DEF ListInv, Places, ListedSoFar
<1>1. CASE Refuse
  <2>1. pc' = "refused" /\ pc = "begin" /\ UNCHANGED <<world, others, at, listed>>
    BY <1>1 DEF Refuse
  <2> QED
    BY <2>1, SameWorld DEF others, Undisturbed, world
<1>2. CASE Search \/ Read
  <2>1. ~Lists
    BY <1>2 DEF Search, SearchBegins, Sniff, SearchFile, Read, Measure, ReadText, ReadBinary,
       ReadEnds, Reads, Lists
  <2>2. UNCHANGED <<world, others>>
    BY <1>2 DEF Search, SearchBegins, Sniff, SearchFile, Read, Measure, ReadText, ReadBinary,
       ReadEnds
  <2> QED
    BY <2>1, <2>2, SameWorld DEF others, Undisturbed, world
<1>3. CASE PassOver
  <2>1. pc = "walk" /\ at \in gone /\ at' = Past /\ UNCHANGED <<world, others, pc, listed>>
    BY <1>3 DEF PassOver
  <2>2. at \in Entries /\ ~Undisturbed
    BY <2>1
  <2>3. Lists => at' \in 1..Len(tree) + 1
    BY <2>1, <2>2, PastIsNext, WalkOrder DEF Entries
  <2> QED
    BY <2>1, <2>2, <2>3, SameWorld DEF others, Undisturbed, world
<1>4. CASE WalkEnds
  <2>1. /\ pc = "walk" /\ pc' = "done" /\ at = Len(tree) + 1
        /\ UNCHANGED <<world, others, at, listed>>
    BY <1>4 DEF WalkEnds
  <2>2. Lists /\ Undisturbed => Holds(listed, at)'
    BY <2>1, SameWorld
  <2> QED
    BY <2>1, <2>2, SameWorld DEF others, Undisturbed, world
<1> QED
  BY <1>1, <1>2, <1>3, <1>4 DEF Walk

LEMMA DisturbedStep ==
    ASSUME ListInv, \E i \in Entries : Append1(i) \/ Vanish(i)
    PROVE  ListInv'
<1>1. PICK i \in Entries : Append1(i) \/ Vanish(i)
  OBVIOUS
<1>2. /\ changes' = changes + 1 /\ UNCHANGED <<world, pc, at, listed>>
      /\ gone' \subseteq Entries
  BY <1>1 DEF Append1, Vanish, ListInv, Places
<1>3. changes \in Nat /\ changes' \in Nat /\ changes' # 0
  BY <1>2 DEF ListInv, Places
<1> QED
  BY <1>2, <1>3, SameWorld DEF ListInv, Places, ListedSoFar, Undisturbed, world

LEMMA ListInvariance == Spec => []ListInv
<1>1. Init => ListInv
  <2> SUFFICES ASSUME Init PROVE ListInv
    OBVIOUS
  <2>1. tree \in Trees /\ gone = {} /\ changes = 0 /\ pc = "begin" /\ at = 1 /\ listed = <<>>
    BY DEF Init
  <2>2. Len(tree) \in Nat /\ Entries = 1..Len(tree)
    BY <2>1, WalkOrder DEF Entries
  <2>3. listed \in Seq(Nat) /\ DOMAIN listed = {} /\ Len(listed) = 0
    BY <2>1
  <2>4. Places
    BY <2>1, <2>2, <2>3 DEF Places
  <2>5. Holds(listed, at)
    BY <2>1, <2>3 DEF Holds
  <2>6. Reached(at)
    <3>1. \A j \in Entries : ~(1 \in Entries /\ Below(tree[1], tree[j]))
      BY <2>1, <2>2, WalkOrder DEF Entries
    <3>2. 1 \in Entries => Depth(tree[1]) = 0
      BY <2>1, <3>1, WalkOrder DEF Entries
    <3>3. 1..1 - 1 = {}
      OBVIOUS
    <3> QED
      BY <2>1, <3>2, <3>3 DEF Reached
  <2>7. NotFull
    BY <2>3, ReadingAssumption DEF NotFull
  <2> QED
    BY <2>1, <2>4, <2>5, <2>6, <2>7 DEF ListInv, ListedSoFar
<1>2. ListInv /\ [Next]_vars => ListInv'
  <2> SUFFICES ASSUME ListInv, [Next]_vars
               PROVE  ListInv'
    OBVIOUS
  <2>1. CASE UNCHANGED vars
    <3>1. UNCHANGED <<world, others, pc, at, listed, used>>
      BY <2>1 DEF vars
    <3> QED
      BY <3>1, SameWorld DEF ListInv, Places, ListedSoFar, Undisturbed, NotFull, Full, others, world
  <2>2. CASE List
    BY <2>2, ListBeginsStep, SkipStep, EmitStep DEF List
  <2> QED
    BY <2>1, <2>2, WalkStep, DisturbedStep DEF Next
<1> QED
  BY <1>1, <1>2, PTL DEF Spec

\* An undisturbed listing that was not stopped by a limit names what is visible,
\* in the order of the walk; a stopped one begins like it
\* (tool_file_list.cpp:179-214).
THEOREM ListingNamesTheTree == Spec => []ListingIsTheTree
<1>1. ListInv => ListingIsTheTree
  <2> SUFFICES ASSUME ListInv, Done, Lists, Undisturbed
               PROVE  ListingIsTheTree
    BY DEF ListingIsTheTree, Lists
  <2>1. /\ tree \in Trees /\ at \in 1..Len(tree) + 1 /\ Holds(listed, at)
        /\ at = Len(tree) + 1 \/ Full
    BY DEF ListInv, Places, ListedSoFar, Done
  <2>2. Len(tree) \in Nat /\ Entries = 1..Len(tree)
    BY <2>1, WalkOrder DEF Entries
  <2>3. \A m \in DOMAIN listed : listed[m] \in 1..at - 1 /\ listed[m] \in Entries
    BY <2>1, <2>2 DEF Holds
  <2>4. ASSUME NEW i \in Entries, Visible(i), i \notin Range(listed)
        PROVE  Full /\ \A m \in DOMAIN listed : listed[m] < i
    <3>1. i \notin 1..at - 1
      BY <2>1, <2>4 DEF Holds, Range
    <3>2. i >= at /\ at # Len(tree) + 1
      BY <2>1, <2>2, <3>1
    <3> QED
      BY <2>1, <2>2, <2>3, <3>2
  <2> QED
    BY <2>1, <2>3, <2>4 DEF ListingIsTheTree, Holds, Full
<1> QED
  BY <1>1, ListInvariance, PTL

-----------------------------------------------------------------------------
(***************************************************************************)
(* Largest elements, and FlattenSeq.                                       *)
(***************************************************************************)

\* What holds for 0, and for n + 1 when it holds for n, holds for all.
LEMMA StepByStep ==
    ASSUME NEW Good, NEW last \in Nat, 0 \in Good,
           \A n \in 0..last - 1 : n \in Good => n + 1 \in Good
    PROVE  0..last \subseteq Good
<1> DEFINE Bad == {n \in Nat : n <= last /\ n \notin Good}
<1>1. CASE Bad = {}
  BY <1>1
<1>2. CASE Bad # {}
  <2>1. Bad \subseteq Nat
    OBVIOUS
  <2>2. PICK x \in Bad : \A y \in Bad : x <= y
    <3> HIDE DEF Bad
    <3> QED
      BY <1>2, <2>1, SmallestNat
  <2>3. x \in Nat /\ x <= last /\ x \notin Good /\ x # 0
    OBVIOUS
  <2>4. x - 1 \in 0..last - 1 /\ x - 1 + 1 = x /\ x - 1 \notin Bad
    BY <2>2, <2>3
  <2>5. x - 1 \in Good
    BY <2>4
  <2> QED
    BY <2>3, <2>4, <2>5
<1> QED
  BY <1>1, <1>2

LEMMA LargestIsMax ==
    ASSUME NEW T, T \subseteq Nat, T # {}, NEW n \in Nat, \A x \in T : x <= n
    PROVE  Max(T) \in T /\ \A y \in T : Max(T) >= y
<1> DEFINE D == {n - x : x \in T}
<1>1. D \subseteq Nat /\ D # {}
  <2>1. \A x \in T : n - x \in Nat
    OBVIOUS
  <2>2. \E x \in T : n - x \in D
    OBVIOUS
  <2> QED
    BY <2>1, <2>2
<1>2. PICK d \in D : \A y \in D : d <= y
  <2> HIDE DEF D
  <2> QED
    BY <1>1, SmallestNat
<1>3. PICK x \in T : d = n - x
  OBVIOUS
<1>4. \A y \in T : x >= y
  <2> TAKE y \in T
  <2>1. n - y \in D
    OBVIOUS
  <2>2. n - x <= n - y
    BY <1>2, <1>3, <2>1
  <2> QED
    BY <2>2
<1> QED
  BY <1>4 DEF Max

LEMMA LargerOfTwo ==
    ASSUME NEW a \in Int, NEW b \in Int
    PROVE  /\ Max({a, b}) = IF a >= b THEN a ELSE b
           /\ Min({a, b}) = IF a <= b THEN a ELSE b
BY DEF Max, Min

-----------------------------------------------------------------------------
(***************************************************************************)
(* FlattenSeq.                                                             *)
(***************************************************************************)

\* f are the concatenations of the first sequences of s, up to n.
Gathers(f, s, n) == \A i \in 1..n : f[i] = IF i = 1 THEN s[i] ELSE f[i - 1] \o s[i]

LEMMA GathersOnce ==
    ASSUME NEW s, NEW f, NEW g, NEW last \in Nat, Gathers(f, s, last), Gathers(g, s, last)
    PROVE  \A n \in 1..last : f[n] = g[n]
<1> DEFINE Good == {n \in Nat : n = 0 \/ f[n] = g[n]}
<1>1. ASSUME NEW n \in 0..last - 1, n \in Good PROVE n + 1 \in Good
  <2>1. /\ n + 1 \in 1..last /\ n + 1 - 1 = n /\ n + 1 # 0
        /\ n + 1 # 1 => n # 0
    OBVIOUS
  <2>2. /\ f[n + 1] = IF n + 1 = 1 THEN s[n + 1] ELSE f[n] \o s[n + 1]
        /\ g[n + 1] = IF n + 1 = 1 THEN s[n + 1] ELSE g[n] \o s[n + 1]
    BY <2>1 DEF Gathers
  <2>3. n + 1 # 1 => f[n] = g[n]
    BY <1>1, <2>1
  <2>4. f[n + 1] = g[n + 1]
    BY <2>2, <2>3
  <2> QED
    BY <2>1, <2>4
<1>2. 0 \in Good
  OBVIOUS
<1> HIDE DEF Good
<1>3. 0..last \subseteq Good
  BY <1>1, <1>2, StepByStep
<1>4. \A n \in 1..last : n \in Good /\ n # 0
  BY <1>3
<1> QED
  BY <1>4 DEF Good

LEMMA SomeGathers ==
    ASSUME NEW T, NEW s \in Seq(Seq(T))
    PROVE  \E f \in [1..Len(s) -> Seq(T)] : Gathers(f, s, Len(s))
<1> DEFINE G(n) == {f \in [1..n -> Seq(T)] : Gathers(f, s, n)}
           Good == {n \in Nat : G(n) # {}}
<1>0. Len(s) \in Nat /\ \A i \in 1..Len(s) : s[i] \in Seq(T)
  BY LenProperties, ElementOfSeq
<1>1. 0 \in Good
  <2>1. [i \in 1..0 |-> <<>>] \in G(0)
    BY DEF Gathers
  <2> QED
    BY <2>1
<1>2. ASSUME NEW n \in 0..Len(s) - 1, n \in Good PROVE n + 1 \in Good
  <2>1. PICK f \in [1..n -> Seq(T)] : Gathers(f, s, n)
    BY <1>2
  <2> DEFINE g == [i \in 1..n + 1 |-> IF i <= n THEN f[i]
                                      ELSE IF n = 0 THEN s[1] ELSE f[n] \o s[n + 1]]
  <2>2. n + 1 \in 1..Len(s) /\ 1 \in 1..Len(s) /\ n \in Nat
    BY <1>0, <1>2
  <2>3. s[1] \in Seq(T) /\ s[n + 1] \in Seq(T)
    BY <1>0, <2>2
  <2>4. n # 0 => f[n] \in Seq(T)
    BY <2>2
  <2>5. n # 0 => f[n] \o s[n + 1] \in Seq(T)
    BY <2>3, <2>4, ConcatProperties
  <2>6. g \in [1..n + 1 -> Seq(T)]
    BY <2>2, <2>3, <2>5
  <2>7. Gathers(g, s, n + 1)
    <3> SUFFICES ASSUME NEW i \in 1..n + 1
                 PROVE  g[i] = IF i = 1 THEN s[i] ELSE g[i - 1] \o s[i]
      BY DEF Gathers
    <3>1. CASE i \in 1..n
      <4>1. f[i] = IF i = 1 THEN s[i] ELSE f[i - 1] \o s[i]
        BY <2>1, <3>1 DEF Gathers
      <4>2. g[i] = f[i] /\ (i # 1 => g[i - 1] = f[i - 1])
        BY <2>2, <3>1
      <4> QED
        BY <4>1, <4>2
    <3>2. CASE i = n + 1
      <4>1. g[i] = IF n = 0 THEN s[1] ELSE f[n] \o s[n + 1]
        BY <2>2, <3>2
      <4>2. n # 0 => g[n] = f[n]
        BY <2>2
      <4>3. i - 1 = n /\ (i = 1 <=> n = 0)
        BY <2>2, <3>2
      <4> QED
        BY <3>2, <4>1, <4>2, <4>3
    <3> QED
      BY <2>2, <3>1, <3>2
  <2>8. g \in G(n + 1)
    BY <2>6, <2>7
  <2>9. n + 1 \in Nat /\ G(n + 1) # {}
    <3> HIDE DEF g, G
    <3> QED
      BY <2>2, <2>8
  <2> QED
    <3> HIDE DEF G
    <3> QED
      BY <2>9
<1> HIDE DEF Good
<1>3. 0..Len(s) \subseteq Good
  BY <1>0, <1>1, <1>2, StepByStep
<1>4. Len(s) \in Good
  BY <1>0, <1>3
<1> QED
  BY <1>4 DEF Good

\* What FlattenSeq returns is the last of these concatenations.
LEMMA FlattenGathers ==
    ASSUME NEW T, NEW s \in Seq(Seq(T)), NEW g, Gathers(g, s, Len(s))
    PROVE  /\ Len(s) = 0 => FlattenSeq(s) = <<>>
           /\ Len(s) # 0 => FlattenSeq(s) = g[Len(s)] /\ FlattenSeq(s) \in Seq(T)
<1>1. Len(s) \in Nat /\ (Len(s) = 0 => s = <<>>)
  BY LenProperties, EmptySeq
<1>2. PICK h \in [1..Len(s) -> Seq(T)] : Gathers(h, s, Len(s))
  BY SomeGathers
<1>3. h = [i \in 1..Len(s) |-> IF i = 1 THEN s[i] ELSE h[i - 1] \o s[i]]
  BY <1>2 DEF Gathers
<1>4. \E f : f = [i \in 1..Len(s) |-> IF i = 1 THEN s[i] ELSE f[i - 1] \o s[i]]
  BY <1>3
<1>5. PICK f : /\ f = [i \in 1..Len(s) |-> IF i = 1 THEN s[i] ELSE f[i - 1] \o s[i]]
               /\ FlattenSeq(s) = IF Len(s) = 0 THEN s ELSE f[Len(s)]
  BY <1>4 DEF FlattenSeq
<1>6. Gathers(f, s, Len(s))
  BY <1>5 DEF Gathers
<1>7. \A n \in 1..Len(s) : f[n] = g[n] /\ f[n] = h[n]
  BY <1>1, <1>2, <1>6, GathersOnce
<1>8. Len(s) # 0 => Len(s) \in 1..Len(s) /\ h[Len(s)] \in Seq(T)
  <2>1. Len(s) # 0 => Len(s) \in 1..Len(s)
    BY <1>1
  <2>2. \A i \in 1..Len(s) : h[i] \in Seq(T)
    BY <1>2
  <2> QED
    BY <2>1, <2>2
<1>9. Len(s) # 0 => f[Len(s)] = g[Len(s)] /\ f[Len(s)] = h[Len(s)]
  BY <1>7, <1>8
<1> QED
  BY <1>1, <1>5, <1>8, <1>9

LEMMA FlattenIsSeq ==
    ASSUME NEW T, NEW s \in Seq(Seq(T))
    PROVE  FlattenSeq(s) \in Seq(T)
<1>1. PICK f \in [1..Len(s) -> Seq(T)] : Gathers(f, s, Len(s))
  BY SomeGathers
<1>2. <<>> \in Seq(T)
  BY EmptySeq
<1> QED
  BY <1>1, <1>2, FlattenGathers

LEMMA FlattenAppend ==
    ASSUME NEW T, NEW s \in Seq(Seq(T)), NEW x \in Seq(T)
    PROVE  FlattenSeq(Append(s, x)) = FlattenSeq(s) \o x
<1> DEFINE n == Len(s)
           t == Append(s, x)
<1>1. /\ n \in Nat /\ t \in Seq(Seq(T)) /\ Len(t) = n + 1
      /\ \A i \in 1..n : t[i] = s[i]
      /\ t[n + 1] = x
  BY AppendProperties, LenProperties
<1> HIDE DEF t
<1>2. PICK g : Gathers(g, t, n + 1)
  BY <1>1, SomeGathers
<1>3. Gathers(g, s, n)
  <2>1. \A i \in 1..n : i \in 1..n + 1
    BY <1>1
  <2> QED
    BY <1>1, <1>2, <2>1 DEF Gathers
<1>4. n + 1 \in 1..n + 1 /\ n + 1 - 1 = n /\ n + 1 # 0 /\ (n # 0 => n + 1 # 1)
  BY <1>1
<1>5. g[n + 1] = IF n + 1 = 1 THEN t[n + 1] ELSE g[n] \o t[n + 1]
  <2>0. n \in Nat
    BY <1>1
  <2> HIDE DEF n
  <2>1. PICK i \in 1..n + 1 : i = n + 1 /\ i - 1 = n
    BY <2>0
  <2>2. g[i] = IF i = 1 THEN t[i] ELSE g[i - 1] \o t[i]
    BY <1>2 DEF Gathers
  <2> QED
    BY <2>1, <2>2, Zenon
<1>6. FlattenSeq(t) = g[n + 1]
  <2>1. t \in Seq(Seq(T)) /\ Gathers(g, t, Len(t)) /\ Len(t) # 0 /\ Len(t) = n + 1
    BY <1>1, <1>2, <1>4
  <2> HIDE DEF n
  <2> QED
    BY <2>1, FlattenGathers
<1>7. CASE n = 0
  <2>1. FlattenSeq(s) = <<>>
    BY <1>3, <1>7, FlattenGathers
  <2>2. FlattenSeq(t) = x
    BY <1>1, <1>5, <1>6, <1>7
  <2> QED
    BY <2>1, <2>2, ConcatEmptySeq DEF t
<1>8. CASE n # 0
  <2>1. FlattenSeq(s) = g[n]
    BY <1>3, <1>8, FlattenGathers
  <2> QED
    BY <1>1, <1>4, <1>5, <1>6, <1>8, <2>1 DEF t
<1> QED
  BY <1>7, <1>8

LEMMA FlattenNone == FlattenSeq(<<>>) = <<>>
<1>1. <<>> \in Seq(Seq({})) /\ Len(<<>>) = 0
  BY EmptySeq
<1>2. Gathers(<<>>, <<>>, Len(<<>>))
  BY <1>1 DEF Gathers
<1> QED
  BY <1>1, <1>2, FlattenGathers

LEMMA FlattenOne ==
    ASSUME NEW T, NEW x \in Seq(T)
    PROVE  <<x>> \in Seq(Seq(T)) /\ FlattenSeq(<<x>>) = x
<1>1. <<>> \in Seq(Seq(T)) /\ Append(<<>>, x) = <<x>>
  BY EmptySeq
<1>2. FlattenSeq(Append(<<>>, x)) = FlattenSeq(<<>>) \o x
  BY <1>1, FlattenAppend
<1>3. <<>> \o x = x
  BY ConcatEmptySeq
<1>4. \A S : x \in S => <<x>> \in Seq(S)
  OBVIOUS
<1> QED
  BY <1>1, <1>2, <1>3, <1>4, FlattenNone

-----------------------------------------------------------------------------
(***************************************************************************)
(* file_search: the lines of a file, and the letters in them.              *)
(***************************************************************************)

\* s are numbers up to n, each larger than the one before.
Rises(s, n) ==
    /\ s \in Seq(Nat)
    /\ \A i \in 1..Len(s) : s[i] \in 1..n
    /\ \A i, j \in 1..Len(s) : i < j => s[i] < s[j]

Those(T, n) == [k \in 1..n |-> IF k \in T THEN <<k>> ELSE <<>>]

LEMMA ChosenRise ==
    ASSUME NEW T, NEW last \in Nat
    PROVE  Rises(FlattenSeq(Those(T, last)), last)
<1> DEFINE Good == {n \in Nat : Rises(FlattenSeq(Those(T, n)), n)}
<1>1. 0 \in Good
  <2>1. Those(T, 0) = <<>>
    BY DEF Those
  <2>2. FlattenSeq(Those(T, 0)) = <<>>
    BY <2>1, FlattenNone
  <2>3. Rises(<<>>, 0)
    BY DEF Rises
  <2> QED
    BY <2>2, <2>3
<1>2. ASSUME NEW n \in 0..last - 1, n \in Good PROVE n + 1 \in Good
  <2> DEFINE x == IF n + 1 \in T THEN <<n + 1>> ELSE <<>>
             s == FlattenSeq(Those(T, n))
  <2>1. n \in Nat /\ Rises(s, n)
    BY <1>2
  <2>2. x \in Seq(Nat) /\ Those(T, n) \in Seq(Seq(Nat))
    BY <2>1 DEF Those
  <2>3. Those(T, n + 1) = Append(Those(T, n), x)
    <3>1. Len(Those(T, n)) = n
      BY <2>1 DEF Those
    <3> QED
      BY <2>1, <3>1 DEF Those
  <2>4. FlattenSeq(Those(T, n + 1)) = s \o x
    <3> HIDE DEF x
    <3> QED
      BY <2>2, <2>3, FlattenAppend
  <2>5. Rises(s \o x, n + 1)
    <3> HIDE DEF s
    <3>1. CASE n + 1 \in T
      <4>1. x = <<n + 1>>
        BY <3>1
      <4>2. s \in Seq(Nat) /\ Len(s) \in Nat /\ x \in Seq(Nat) /\ Len(x) = 1 /\ x[1] = n + 1
        BY <2>1, <4>1, LenProperties DEF Rises
      <4> HIDE DEF x
      <4> DEFINE t == s \o x
      <4>3. /\ t \in Seq(Nat) /\ Len(t) = Len(s) + 1
            /\ \A i \in 1..Len(s) + 1 : t[i] = IF i <= Len(s) THEN s[i] ELSE x[i - Len(s)]
        <5>1. /\ t \in Seq(Nat) /\ Len(t) = Len(s) + Len(x)
              /\ \A i \in 1..Len(s) + Len(x) : t[i] = IF i <= Len(s) THEN s[i] ELSE x[i - Len(s)]
          BY <4>2, ConcatProperties
        <5> QED
          BY <4>2, <5>1
      <4> HIDE DEF t
      <4>4. t[Len(s) + 1] = n + 1 /\ \A i \in 1..Len(s) : t[i] = s[i]
        BY <4>2, <4>3
      <4>5. \A i \in 1..Len(s) + 1 : i \in 1..Len(s) \/ i = Len(s) + 1
        BY <4>2
      <4>6. \A i \in 1..Len(t) : t[i] \in 1..n + 1
        BY <2>1, <4>3, <4>4, <4>5 DEF Rises
      <4>7. \A i, j \in 1..Len(t) : i < j => t[i] < t[j]
        <5> TAKE i, j \in 1..Len(t)
        <5>1. CASE j \in 1..Len(s)
          BY <2>1, <4>2, <4>3, <4>4, <5>1 DEF Rises
        <5>2. CASE j = Len(s) + 1
          <6>1. i < j => i \in 1..Len(s)
            BY <4>2, <4>3, <5>2
          <6>2. i \in 1..Len(s) => s[i] \in 1..n /\ t[i] = s[i]
            BY <2>1, <4>4 DEF Rises
          <6> QED
            BY <2>1, <4>4, <5>2, <6>1, <6>2
        <5> QED
          BY <4>3, <4>5, <5>1, <5>2
      <4>8. Rises(t, n + 1)
        BY <4>3, <4>6, <4>7 DEF Rises
      <4> QED
        BY <4>8 DEF t
    <3>2. CASE n + 1 \notin T
      <4>1. s \o x = s
        BY <2>1, <3>2, ConcatEmptySeq DEF Rises
      <4> QED
        BY <2>1, <4>1 DEF Rises
    <3> QED
      BY <3>1, <3>2
  <2>6. n + 1 \in Nat /\ Rises(FlattenSeq(Those(T, n + 1)), n + 1)
    <3> HIDE DEF s, x
    <3>1. Rises(FlattenSeq(Those(T, n + 1)), n + 1)
      BY <2>4, <2>5, Zenon
    <3> QED
      BY <2>1, <3>1
  <2> QED
    BY <2>6
<1> HIDE DEF Good
<1>3. 0..last \subseteq Good
  BY <1>1, <1>2, StepByStep
<1>4. last \in Good
  BY <1>3
<1> QED
  BY <1>4 DEF Good

LEMMA LinesRise ==
    ASSUME NEW c \in Seq(Bytes), NEW bytes
    PROVE  Rises(LinesWith(c, bytes), Len(c))
<1> DEFINE T == {n \in DOMAIN c : \E i \in DOMAIN c : c[i] \in bytes /\ LineOf(c, i) = n}
<1>1. Len(c) \in Nat /\ DOMAIN c = 1..Len(c)
  BY LenProperties
<1>2. LinesWith(c, bytes) = FlattenSeq(Those(T, Len(c)))
  <2>1. [n \in DOMAIN c |->
            IF \E i \in DOMAIN c : c[i] \in bytes /\ LineOf(c, i) = n THEN <<n>> ELSE <<>>]
        = Those(T, Len(c))
    BY <1>1 DEF Those
  <2> QED
    BY <2>1 DEF LinesWith
<1> QED
  BY <1>1, <1>2, ChosenRise

Breaks(c, i) == {j \in 1..i - 1 : c[j] = "nl"}

LEMMA BreaksAreFinite ==
    ASSUME NEW c, NEW i \in Nat
    PROVE  IsFiniteSet(Breaks(c, i)) /\ Cardinality(Breaks(c, i)) \in Nat
<1>1. IsFiniteSet(1..i - 1) /\ Breaks(c, i) \in SUBSET (1..i - 1)
  BY FS_Interval DEF Breaks
<1> QED
  BY <1>1, FS_Subset, FS_CardinalityType

\* Later bytes lie in later lines, and a line goes on until it breaks.
LEMMA LinesGoOn ==
    ASSUME NEW c, NEW i \in Nat \ {0}, NEW k \in Nat, i <= k
    PROVE  /\ LineOf(c, i) \in Nat /\ LineOf(c, k) \in Nat /\ LineOf(c, i) <= LineOf(c, k)
           /\ c[i] # "nl" => LineOf(c, i + 1) = LineOf(c, i)
<1>1. /\ LineOf(c, i) = 1 + Cardinality(Breaks(c, i))
      /\ LineOf(c, k) = 1 + Cardinality(Breaks(c, k))
      /\ LineOf(c, i + 1) = 1 + Cardinality(Breaks(c, i + 1))
  BY DEF LineOf, Breaks
<1>2. Breaks(c, i) \in SUBSET Breaks(c, k)
  BY DEF Breaks
<1>3. Cardinality(Breaks(c, i)) <= Cardinality(Breaks(c, k))
  BY <1>2, BreaksAreFinite, FS_Subset
<1>4. c[i] # "nl" => Breaks(c, i + 1) = Breaks(c, i)
  BY DEF Breaks
<1> QED
  BY <1>1, <1>3, <1>4, BreaksAreFinite

\* The bytes of a line.
Own(c, n) == {i \in DOMAIN c : LineOf(c, i) = n /\ c[i] # "nl"}

LEMMA LineIs ==
    ASSUME NEW c \in Seq(Bytes), NEW n, Own(c, n) # {}
    PROVE  /\ Min(Own(c, n)) \in Own(c, n) /\ Max(Own(c, n)) \in Own(c, n)
           /\ Own(c, n) \subseteq 1..Len(c) /\ Len(c) \in Nat
           /\ \A i \in Own(c, n) : Min(Own(c, n)) <= i /\ i <= Max(Own(c, n))
           /\ LineText(c, n) = SubSeq(c, Min(Own(c, n)), Max(Own(c, n)))
<1>1. Len(c) \in Nat /\ DOMAIN c = 1..Len(c)
  BY LenProperties
<1>2. Own(c, n) \subseteq 1..Len(c)
  BY <1>1 DEF Own
<1>3. Own(c, n) \subseteq Nat /\ \A x \in Own(c, n) : x <= Len(c)
  BY <1>1, <1>2
<1>4. Min(Own(c, n)) \in Own(c, n) /\ \A y \in Own(c, n) : Min(Own(c, n)) <= y
  BY <1>3, LeastIsMin
<1>5. Max(Own(c, n)) \in Own(c, n) /\ \A y \in Own(c, n) : Max(Own(c, n)) >= y
  BY <1>1, <1>3, LargestIsMax
<1>6. LineText(c, n) = SubSeq(c, Min(Own(c, n)), Max(Own(c, n)))
  BY DEF LineText, Own
<1> QED
  BY <1>1, <1>2, <1>3, <1>4, <1>5, <1>6

LEMMA NoLine ==
    ASSUME NEW c, NEW n, Own(c, n) = {}
    PROVE  LineText(c, n) = <<>>
BY DEF LineText, Own

\* A piece of a file.
LEMMA PieceOf ==
    ASSUME NEW c \in Seq(Bytes), NEW lo \in 1..Len(c), NEW hi \in lo..Len(c)
    PROVE  /\ SubSeq(c, lo, hi) \in Seq(Bytes) /\ Len(SubSeq(c, lo, hi)) = hi - lo + 1
           /\ \A i \in 1..hi - lo + 1 : SubSeq(c, lo, hi)[i] = c[lo + i - 1]
<1>1. Len(c) \in Nat
  BY LenProperties
<1>2. \A i \in lo..hi : c[i] \in Bytes
  BY <1>1, ElementOfSeq
<1> QED
  BY <1>1, <1>2, SubSeqProperties

LEMMA LineOfLetters ==
    ASSUME NEW c \in Seq(Bytes), NEW n
    PROVE  LineText(c, n) \in Seq(Bytes) /\ (Letters(c) => Letters(LineText(c, n)))
<1>1. CASE Own(c, n) = {}
  <2>1. LineText(c, n) = <<>>
    BY <1>1, NoLine
  <2> QED
    BY <2>1 DEF Letters
<1>2. CASE Own(c, n) # {}
  <2> DEFINE lo == Min(Own(c, n))
             hi == Max(Own(c, n))
             text == LineText(c, n)
  <2>1. /\ lo \in Own(c, n) /\ hi \in Own(c, n) /\ Own(c, n) \subseteq 1..Len(c) /\ Len(c) \in Nat
        /\ \A i \in Own(c, n) : lo <= i /\ i <= hi
        /\ text = SubSeq(c, lo, hi)
    BY <1>2, LineIs
  <2> HIDE DEF lo, hi, text
  <2>2. lo \in 1..Len(c) /\ hi \in lo..Len(c) /\ DOMAIN c = 1..Len(c)
    BY <2>1, LenProperties
  <2>3. /\ text \in Seq(Bytes) /\ Len(text) = hi - lo + 1
        /\ \A i \in 1..hi - lo + 1 : text[i] = c[lo + i - 1]
    BY <2>1, <2>2, PieceOf
  <2>4. ASSUME Letters(c), NEW i \in DOMAIN text, text[i] = "lead"
        PROVE  i < Len(text) /\ text[i + 1] = "cont"
    <3> DEFINE p == lo + i - 1
    <3>1. i \in 1..hi - lo + 1 /\ p \in lo..hi /\ p \in 1..Len(c) /\ c[p] = "lead"
      BY <2>2, <2>3, <2>4, LenProperties
    <3> HIDE DEF p
    <3>2. p < Len(c) /\ c[p + 1] = "cont"
      BY <2>2, <2>4, <3>1 DEF Letters
    <3>3. /\ LineOf(c, lo) <= LineOf(c, p) /\ LineOf(c, p) <= LineOf(c, hi)
          /\ LineOf(c, lo) = n /\ LineOf(c, hi) = n
          /\ LineOf(c, p) \in Nat /\ LineOf(c, lo) \in Nat
      <4>1. LineOf(c, lo) = n /\ LineOf(c, hi) = n
        BY <2>1 DEF Own
      <4>2. lo \in Nat \ {0} /\ hi \in Nat /\ p \in Nat \ {0} /\ lo <= p /\ p <= hi
        BY <2>2, <3>1
      <4> QED
        BY <4>1, <4>2, LinesGoOn
    <3>4. LineOf(c, p) = n
      BY <3>3
    <3>5. LineOf(c, p + 1) = n
      <4>1. p \in Nat \ {0} /\ p <= p /\ c[p] # "nl"
        BY <3>1
      <4> QED
        BY <3>4, <4>1, LinesGoOn
    <3>6. p + 1 \in Own(c, n)
      BY <2>2, <3>1, <3>2, <3>5 DEF Own
    <3>7. p + 1 <= hi
      BY <2>1, <3>6
    <3>8. i + 1 \in 1..hi - lo + 1 /\ lo + (i + 1) - 1 = p + 1
      BY <2>2, <3>1, <3>7 DEF p
    <3>9. text[i + 1] = c[p + 1]
      BY <2>3, <3>8
    <3> QED
      BY <2>2, <2>3, <3>1, <3>2, <3>8, <3>9
  <2> QED
    BY <2>3, <2>4 DEF Letters, text
<1> QED
  BY <1>1, <1>2
\* What others append to a file leaves its lines as they begin.
LEMMA LineGrows ==
    ASSUME NEW c \in Seq(Bytes), NEW b \in Bytes, NEW n
    PROVE  Begins(LineText(c, n), LineText(Append(c, b), n))
<1> DEFINE d == Append(c, b)
<1>1. /\ d \in Seq(Bytes) /\ Len(d) = Len(c) + 1 /\ Len(c) \in Nat
      /\ \A i \in 1..Len(c) : d[i] = c[i]
      /\ DOMAIN c = 1..Len(c) /\ DOMAIN d = 1..Len(c) + 1
  BY AppendProperties, LenProperties
<1> HIDE DEF d
<1>2. ASSUME NEW i \in 1..Len(c) PROVE LineOf(d, i) = LineOf(c, i)
  <2>1. {j \in 1..i - 1 : d[j] = "nl"} = {j \in 1..i - 1 : c[j] = "nl"}
    BY <1>1
  <2> QED
    BY <2>1 DEF LineOf
<1>3. Own(c, n) \subseteq Own(d, n) /\ Own(d, n) \subseteq Own(c, n) \cup {Len(c) + 1}
  BY <1>1, <1>2 DEF Own
<1>4. CASE Own(c, n) = {}
  <2>1. LineText(c, n) = <<>>
    BY <1>4, NoLine
  <2>2. Len(LineText(d, n)) \in Nat
    <3>1. CASE Own(d, n) = {}
      <4>1. LineText(d, n) = <<>>
        BY <3>1, NoLine
      <4> QED
        BY <4>1
    <3>2. CASE Own(d, n) # {}
      <4> DEFINE lo == Min(Own(d, n))
                 hi == Max(Own(d, n))
      <4>1. /\ lo \in 1..Len(d) /\ hi \in 1..Len(d) /\ lo <= hi /\ Len(d) \in Nat
            /\ LineText(d, n) = SubSeq(d, lo, hi)
        BY <1>1, <3>2, LineIs
      <4> HIDE DEF lo, hi
      <4>2. hi \in lo..Len(d)
        BY <4>1
      <4>3. SubSeq(d, lo, hi) \in Seq(Bytes)
        BY <1>1, <4>1, <4>2, PieceOf
      <4> QED
        BY <4>1, <4>3, LenProperties
    <3> QED
      BY <3>1, <3>2
  <2> QED
    BY <2>1, <2>2 DEF Begins, d
<1>5. CASE Own(c, n) # {}
  <2> DEFINE lo == Min(Own(c, n))
             hi == Max(Own(c, n))
             lo2 == Min(Own(d, n))
             hi2 == Max(Own(d, n))
  <2>1. /\ lo \in Own(c, n) /\ hi \in Own(c, n) /\ Own(c, n) \subseteq 1..Len(c)
        /\ \A i \in Own(c, n) : lo <= i /\ i <= hi
        /\ LineText(c, n) = SubSeq(c, lo, hi)
    BY <1>5, LineIs
  <2>2. Own(d, n) # {}
    BY <1>3, <1>5
  <2>3. /\ lo2 \in Own(d, n) /\ hi2 \in Own(d, n)
        /\ \A i \in Own(d, n) : lo2 <= i /\ i <= hi2
        /\ LineText(d, n) = SubSeq(d, lo2, hi2)
    BY <1>1, <2>2, LineIs
  <2> HIDE DEF lo, hi, lo2, hi2
  <2>4. lo \in 1..Len(c) /\ hi \in lo..Len(c)
    BY <1>1, <2>1
  <2>5. lo2 = lo /\ hi2 \in lo..Len(d) /\ hi <= hi2
    <3>1. lo \in Own(d, n) /\ hi \in Own(d, n)
      BY <1>3, <2>1
    <3>2. lo2 <= lo /\ hi <= hi2
      BY <2>3, <3>1
    <3>3. lo2 \in Own(c, n) \/ lo2 = Len(c) + 1
      BY <1>3, <2>3
    <3>4. lo2 \in Own(c, n)
      BY <1>1, <2>4, <3>2, <3>3
    <3>5. hi2 \in 1..Len(c) \/ hi2 = Len(c) + 1
      BY <1>3, <2>1, <2>3
    <3> QED
      BY <1>1, <2>1, <2>4, <3>2, <3>4, <3>5
  <2>6. /\ Len(LineText(c, n)) = hi - lo + 1
        /\ \A i \in 1..hi - lo + 1 : LineText(c, n)[i] = c[lo + i - 1]
    BY <2>1, <2>4, PieceOf
  <2>7. /\ Len(LineText(d, n)) = hi2 - lo + 1
        /\ \A i \in 1..hi2 - lo + 1 : LineText(d, n)[i] = d[lo + i - 1]
    <3>1. lo \in 1..Len(d)
      BY <1>1, <2>4
    <3> QED
      BY <1>1, <2>3, <2>5, <3>1, PieceOf
  <2>8. ASSUME NEW i \in 1..hi - lo + 1
        PROVE  LineText(c, n)[i] = LineText(d, n)[i]
    <3>1. i \in 1..hi2 - lo + 1 /\ lo + i - 1 \in 1..Len(c)
      BY <1>1, <2>4, <2>5
    <3> DEFINE p == lo + i - 1
    <3>2. p \in 1..Len(c) /\ LineText(c, n)[i] = c[p] /\ LineText(d, n)[i] = d[p]
      BY <2>6, <2>7, <3>1
    <3> HIDE DEF p
    <3> QED
      BY <1>1, <3>2
  <2> QED
    BY <1>1, <2>4, <2>5, <2>6, <2>7, <2>8 DEF Begins, d
<1> QED
  BY <1>4, <1>5

LEMMA GrownLetters ==
    ASSUME NEW c \in Seq(Bytes), Letters(c), NEW b \in {"x", "cont"}
    PROVE  Letters(Append(c, b))
<1> DEFINE d == Append(c, b)
<1>1. b \in Bytes /\ b # "lead"
  BY DEF Bytes
<1>2. /\ Len(d) = Len(c) + 1 /\ Len(c) \in Nat /\ d[Len(c) + 1] = b
      /\ \A i \in 1..Len(c) : d[i] = c[i]
      /\ DOMAIN c = 1..Len(c) /\ DOMAIN d = 1..Len(c) + 1
  BY <1>1, AppendProperties, LenProperties
<1> HIDE DEF d
<1>3. ASSUME NEW i \in DOMAIN d, d[i] = "lead"
      PROVE  i < Len(d) /\ d[i + 1] = "cont"
  <2>1. i \in 1..Len(c) /\ c[i] = "lead"
    BY <1>1, <1>2, <1>3
  <2>2. i < Len(c) /\ c[i + 1] = "cont"
    BY <1>2, <2>1 DEF Letters
  <2>3. i + 1 \in 1..Len(c)
    BY <1>2, <2>1, <2>2
  <2> QED
    BY <1>2, <2>1, <2>2, <2>3
<1> QED
  BY <1>3 DEF Letters, d

\* A snippet is how its line begins, and not too long.
Clipped(s, text) == s \in Seq(Bytes) /\ Len(s) <= MaxSnippet /\ Begins(s, text)

LEMMA ClipIsWhole ==
    ASSUME NEW text \in Seq(Bytes)
    PROVE  Clipped(Clip(text), text) /\ (Letters(text) => Letters(Clip(text)))
<1>1. Len(text) \in Nat /\ MaxSnippet \in Nat /\ DOMAIN text = 1..Len(text)
  BY LenProperties, ReadingAssumption
<1>2. CASE Len(text) <= MaxSnippet
  BY <1>1, <1>2 DEF Clip, Clipped, Begins
<1>3. CASE ~(Len(text) <= MaxSnippet)
  <2> DEFINE T == {n \in 0..MaxSnippet : n = 0 \/ text[n + 1] # "cont"}
             k == Max(T)
             s == SubSeq(text, 1, k)
  <2>1. k \in T
    <3>1. T \subseteq Nat /\ T # {} /\ \A x \in T : x <= MaxSnippet
      <4>1. 0 \in T
        BY <1>1
      <4> QED
        BY <1>1, <4>1
    <3> HIDE DEF T
    <3> QED
      BY <1>1, <3>1, LargestIsMax
  <2>2. k \in 0..MaxSnippet /\ (k = 0 \/ text[k + 1] # "cont")
    BY <2>1
  <2>3. Clip(text) = s
    BY <1>3 DEF Clip
  <2> HIDE DEF k
  <2>4. k \in 0..Len(text) /\ Begins(text, text)
    BY <1>1, <1>3, <2>2 DEF Begins
  <2>5. s \in Seq(Bytes) /\ Len(s) = k /\ Begins(s, text)
    BY <2>4, CutBegins
  <2> HIDE DEF s
  <2>6. ASSUME Letters(text), NEW i \in DOMAIN s, s[i] = "lead"
        PROVE  i < Len(s) /\ s[i + 1] = "cont"
    <3>1. i \in 1..k /\ text[i] = "lead" /\ i \in 1..Len(text)
      BY <1>1, <2>4, <2>5, <2>6, LenProperties DEF Begins
    <3>2. text[i + 1] = "cont"
      BY <1>1, <2>6, <3>1 DEF Letters
    <3>3. i + 1 \in 1..k
      BY <2>2, <3>1, <3>2
    <3> QED
      BY <2>5, <3>1, <3>2, <3>3 DEF Begins
  <2> QED
    BY <2>2, <2>3, <2>5, <2>6 DEF Clipped, Letters
<1> QED
  BY <1>2, <1>3

Match == [entry : Nat, line : Nat, snippet : Seq(Bytes)]

\* What the matches of a file of content c are.
OfFile(ms, i, c) ==
    /\ ms \in Seq(Match) /\ Len(ms) \in Nat /\ Len(ms) <= MaxPerFile
    /\ \A k \in 1..Len(ms) : ms[k].entry = i /\ Clipped(ms[k].snippet, LineText(c, ms[k].line))
    /\ Letters(c) => \A k \in 1..Len(ms) : Letters(ms[k].snippet)
    /\ \A j, k \in 1..Len(ms) : j < k => ms[j].line < ms[k].line

LEMMA MatchesOfFile ==
    ASSUME NEW i \in Nat, NEW c \in Seq(Bytes)
    PROVE  OfFile(Matches(i, c), i, c)
<1> DEFINE lines == LinesWith(c, Hits)
           n == Min({Len(lines), MaxPerFile})
           ms == Matches(i, c)
<1>1. Rises(lines, Len(c))
  BY LinesRise
<1> HIDE DEF lines
<1>2. Len(lines) \in Nat /\ MaxPerFile \in Nat /\ lines \in Seq(Nat)
  BY <1>1, LenProperties, ReadingAssumption DEF Rises
<1>3. n \in Nat /\ n <= Len(lines) /\ n <= MaxPerFile
  BY <1>2, MinOfTwo
<1>4. ms = [k \in 1..n |-> [entry |-> i, line |-> lines[k], snippet |-> Clip(LineText(c, lines[k]))]]
  BY DEF Matches, MatchesOf, lines
<1> HIDE DEF n, ms
<1>5. \A k \in 1..n : k \in 1..Len(lines) /\ lines[k] \in Nat
  BY <1>2, <1>3, ElementOfSeq
<1>6. ASSUME NEW k \in 1..n
      PROVE  /\ ms[k] = [entry |-> i, line |-> lines[k], snippet |-> Clip(LineText(c, lines[k]))]
             /\ ms[k] \in Match /\ Clipped(ms[k].snippet, LineText(c, ms[k].line))
             /\ ms[k].entry = i /\ ms[k].line = lines[k]
             /\ Letters(c) => Letters(ms[k].snippet)
  <2>1. ms[k] = [entry |-> i, line |-> lines[k], snippet |-> Clip(LineText(c, lines[k]))]
    BY <1>4
  <2>2. /\ Clipped(Clip(LineText(c, lines[k])), LineText(c, lines[k]))
        /\ Letters(c) => Letters(Clip(LineText(c, lines[k])))
    BY LineOfLetters, ClipIsWhole
  <2> QED
    BY <1>5, <2>1, <2>2 DEF Match, Clipped
<1>7. ms \in Seq(Match) /\ Len(ms) = n
  <2>1. ms \in [1..n -> Match]
    BY <1>4, <1>6
  <2> QED
    BY <1>3, <2>1
<1>8. \A j, k \in 1..n : j < k => ms[j].line < ms[k].line
  <2>1. \A j, k \in 1..n : j < k => lines[j] < lines[k]
    BY <1>1, <1>5 DEF Rises
  <2>2. \A k \in 1..n : ms[k].line = lines[k]
    BY <1>6
  <2> QED
    BY <2>1, <2>2
<1>9. \A k \in 1..n : ms[k].entry = i
  BY <1>6
<1> QED
  BY <1>3, <1>6, <1>7, <1>8, <1>9 DEF OfFile, ms
\* f are the costs of the first matches, up to n.
Sums(f, ms, n) == f[0] = 0 /\ \A k \in 1..n : f[k] = f[k - 1] + Cost(ms[k])

LEMMA CostsOfMatches ==
    ASSUME NEW ms \in Seq(Match)
    PROVE  Costs(ms) \in Nat
<1> DEFINE last == Len(ms)
           G(n) == {f \in [0..n -> Nat] : Sums(f, ms, n)}
           Good == {n \in Nat : G(n) # {}}
<1>1. last \in Nat /\ \A k \in 1..last : Cost(ms[k]) \in Nat
  <2>1. last \in Nat
    BY LenProperties
  <2>2. ASSUME NEW k \in 1..last PROVE Cost(ms[k]) \in Nat
    <3>1. ms[k] \in Match
      BY ElementOfSeq
    <3>2. Len(ms[k].snippet) \in Nat
      BY <3>1, LenProperties DEF Match
    <3> QED
      BY <3>2, ReadingAssumption DEF Cost
  <2> QED
    BY <2>1, <2>2
<1> HIDE DEF last
<1>2. 0 \in Good
  <2>1. [k \in 0..0 |-> 0] \in G(0)
    BY DEF Sums
  <2> QED
    BY <2>1
<1>3. ASSUME NEW n \in 0..last - 1, n \in Good PROVE n + 1 \in Good
  <2>1. PICK f \in [0..n -> Nat] : Sums(f, ms, n)
    BY <1>3
  <2> DEFINE cost == Cost(ms[n + 1])
             g == [k \in 0..n + 1 |-> IF k <= n THEN f[k] ELSE f[n] + cost]
  <2>2. n \in Nat /\ n + 1 \in 1..last /\ n \in 0..n
    BY <1>1, <1>3
  <2>3. cost \in Nat
    BY <1>1, <2>2
  <2> HIDE DEF cost
  <2>4. g \in [0..n + 1 -> Nat]
    BY <2>2, <2>3
  <2>5. Sums(g, ms, n + 1)
    <3>1. g[0] = 0
      BY <2>1, <2>2 DEF Sums
    <3>2. ASSUME NEW k \in 1..n + 1 PROVE g[k] = g[k - 1] + Cost(ms[k])
      <4>1. CASE k \in 1..n
        <5>1. f[k] = f[k - 1] + Cost(ms[k])
          BY <2>1, <4>1 DEF Sums
        <5>2. g[k] = f[k] /\ g[k - 1] = f[k - 1]
          BY <2>2, <4>1
        <5> QED
          BY <5>1, <5>2
      <4>2. CASE k = n + 1
        <5>1. g[n + 1] = f[n] + cost /\ g[n] = f[n]
          BY <2>2
        <5>2. k - 1 = n
          BY <2>2, <4>2
        <5> QED
          BY <4>2, <5>1, <5>2 DEF cost
      <4> QED
        BY <2>2, <4>1, <4>2
    <3> HIDE DEF g
    <3> QED
      BY <3>1, <3>2 DEF Sums
  <2> HIDE DEF g
  <2>6. g \in G(n + 1)
    BY <2>4, <2>5
  <2>7. n + 1 \in Nat /\ G(n + 1) # {}
    <3> HIDE DEF G
    <3> QED
      BY <2>2, <2>6
  <2> HIDE DEF G
  <2> QED
    BY <2>7
<1>4. last \in Good
  <2> HIDE DEF Good
  <2>1. 0..last \subseteq Good
    BY <1>1, <1>2, <1>3, StepByStep
  <2> QED
    BY <1>1, <2>1
<1>5. PICK h \in [0..last -> Nat] : Sums(h, ms, last)
  BY <1>4
<1>6. h = [n \in 0..last |-> IF n = 0 THEN 0 ELSE h[n - 1] + Cost(ms[n])]
  BY <1>5 DEF Sums
<1>7. \E f : f = [n \in 0..last |-> IF n = 0 THEN 0 ELSE f[n - 1] + Cost(ms[n])]
  BY <1>6
<1>8. PICK f : /\ f = [n \in 0..last |-> IF n = 0 THEN 0 ELSE f[n - 1] + Cost(ms[n])]
               /\ Costs(ms) = f[last]
  BY <1>7 DEF Costs, last
<1> DEFINE Natural == {n \in Nat : f[n] \in Nat}
<1>9. 0 \in Natural
  <2>1. 0 \in 0..last
    BY <1>1
  <2>2. f[0] = 0
    BY <1>8, <2>1
  <2> QED
    BY <2>2
<1>10. ASSUME NEW n \in 0..last - 1, n \in Natural PROVE n + 1 \in Natural
  <2> DEFINE k == n + 1
  <2>1. n \in Nat /\ k \in 0..last /\ k \in 1..last /\ k - 1 = n /\ k # 0 /\ k \in Nat /\ f[n] \in Nat
    BY <1>1, <1>10
  <2> HIDE DEF k
  <2>2. f[k] = f[k - 1] + Cost(ms[k])
    BY <1>8, <2>1
  <2>3. Cost(ms[k]) \in Nat
    BY <1>1, <2>1
  <2>4. f[k] \in Nat
    BY <2>1, <2>2, <2>3
  <2> QED
    BY <2>1, <2>4 DEF k
<1> HIDE DEF Natural
<1>11. last \in Natural
  <2>1. 0..last \subseteq Natural
    BY <1>1, <1>9, <1>10, StepByStep
  <2> QED
    BY <1>1, <2>1
<1> QED
  BY <1>8, <1>11 DEF Natural

\* The matches that fit are some first ones, and only at a limit not all.
LEMMA WhatFits ==
    ASSUME NEW ms \in Seq(Match), Len(found) \in Nat, Len(found) <= MaxMatches
    PROVE  /\ Fit(ms) \in Nat /\ Fit(ms) <= Len(ms) /\ Len(found) + Fit(ms) <= MaxMatches
           /\ Fit(ms) < Len(ms) => \/ Len(found) + Fit(ms) = MaxMatches
                                   \/ ~(used + Costs(Kept(ms)) < MaxBytes)
           /\ Kept(ms) \in Seq(Match) /\ Len(Kept(ms)) = Fit(ms)
           /\ \A k \in 1..Fit(ms) : Kept(ms)[k] = ms[k]
           /\ Fit(ms) = Len(ms) => Kept(ms) = ms
<1> DEFINE Room(k) == Len(found) + k < MaxMatches /\ used + Costs(SubSeq(ms, 1, k)) < MaxBytes
           T == {n \in 0..Len(ms) : \A k \in 0..n - 1 : Room(k)}
           m == Fit(ms)
<1>1. Len(ms) \in Nat /\ MaxMatches \in Nat
  BY LenProperties, ReadingAssumption
<1>2. m = Max(T)
  BY DEF Fit
<1> HIDE DEF Room
<1>3. T \subseteq Nat /\ T # {} /\ \A x \in T : x <= Len(ms)
  <2>1. 0 \in T
    BY <1>1
  <2> QED
    BY <1>1, <2>1
<1>4. m \in T /\ \A y \in T : m >= y
  <2> HIDE DEF T, m
  <2> QED
    BY <1>1, <1>2, <1>3, LargestIsMax
<1> HIDE DEF m
<1>5. m \in 0..Len(ms) /\ \A k \in 0..m - 1 : Room(k)
  BY <1>4
<1>6. Len(found) + m <= MaxMatches
  <2>1. CASE m = 0
    BY <1>1, <2>1
  <2>2. CASE m # 0
    <3> DEFINE k == m - 1
    <3>1. k \in 0..m - 1 /\ k + 1 = m /\ k \in Nat
      BY <1>5, <2>2
    <3> HIDE DEF k
    <3>2. Len(found) + k < MaxMatches
      BY <1>5, <3>1 DEF Room
    <3> QED
      BY <1>1, <3>1, <3>2
  <2> QED
    BY <2>1, <2>2
<1>7. ASSUME m < Len(ms) PROVE ~Room(m)
  <2> DEFINE n == m + 1
  <2>1. n \in 0..Len(ms) /\ ~(m >= n) /\ \A k \in 0..n - 1 : k \in 0..m - 1 \/ k = m
    BY <1>1, <1>5, <1>7
  <2> HIDE DEF n
  <2>2. n \notin T
    <3> HIDE DEF T
    <3> QED
      BY <1>4, <2>1
  <2> QED
    BY <1>5, <2>1, <2>2
<1>8. /\ SubSeq(ms, 1, m) \in Seq(Match) /\ Len(SubSeq(ms, 1, m)) = m
      /\ \A k \in 1..m : SubSeq(ms, 1, m)[k] = ms[k]
  <2>1. m \in Nat /\ \A k \in 1..m : ms[k] \in Match
    BY <1>1, <1>5, ElementOfSeq
  <2>2. /\ SubSeq(ms, 1, m) \in Seq(Match)
        /\ Len(SubSeq(ms, 1, m)) = (IF 1 <= m THEN m - 1 + 1 ELSE 0)
        /\ \A k \in 1..(m - 1 + 1) : SubSeq(ms, 1, m)[k] = ms[1 + k - 1]
    BY <2>1, SubSeqProperties
  <2>3. (IF 1 <= m THEN m - 1 + 1 ELSE 0) = m /\ m - 1 + 1 = m /\ \A k \in 1..m : 1 + k - 1 = k
    BY <2>1
  <2> QED
    BY <2>2, <2>3
<1>9. Kept(ms) = SubSeq(ms, 1, m)
  BY DEF Kept, m
<1>10. m = Len(ms) => SubSeq(ms, 1, m) = ms
  BY SubSeqFull
<1>11. m < Len(ms) => Len(found) + m = MaxMatches \/ ~(used + Costs(SubSeq(ms, 1, m)) < MaxBytes)
  BY <1>1, <1>5, <1>6, <1>7 DEF Room
<1> QED
  BY <1>5, <1>6, <1>8, <1>9, <1>10, <1>11 DEF m

-----------------------------------------------------------------------------
(***************************************************************************)
(* The inductive invariant of a search.  Besides the types: the entries of *)
(* the results lie before the iterator, their snippets are how the lines   *)
(* begin.                                                                  *)
(***************************************************************************)

Limit == IF call.tool = "read_binary" THEN MaxBinary ELSE MaxText

Typed ==
    /\ changes \in 0..MaxChanges
    /\ pc \in {"begin", "walk", "open", "chunks", "done", "broken", "refused", "thrown"}
    /\ at \in 1..Len(tree) + 1
    /\ pc = "open" => at \in Entries /\ call.tool = "search"
    /\ used \in Nat /\ size \in Nat
    /\ listed \in Seq(Entries)
    /\ taken \in Seq(Bytes) /\ Len(taken) <= Limit

Searching == pc \in {"begin", "walk", "open"}

FromFile(m) == m.entry \in Entries /\ Clipped(m.snippet, LineText(content[m.entry], m.line))

OfEntry(s, i) == {k \in DOMAIN s : s[k].entry = i}

Results ==
    /\ found \in Seq(Match) /\ Len(found) <= MaxMatches
    /\ call.tool # "search" => found = <<>>
    /\ \A k \in 1..Len(found) : FromFile(found[k])
    /\ Searching => \A k \in 1..Len(found) : found[k].entry < at
    /\ \A j, k \in 1..Len(found) : j < k => Before(found[j], found[k])
    /\ \A i \in Entries : Cardinality(OfEntry(found, i)) <= MaxPerFile

\* The matches of the file the search has opened.
Here == IF at \in gone THEN <<>> ELSE Matches(at, content[at])

LEMMA MatchesHere ==
    ASSUME ReadInv, at \in Entries, at \in Nat
    PROVE  OfFile(Here, at, content[at])
<1>1. content[at] \in Seq(Bytes)
  BY DEF ReadInv, Named
<1>2. CASE at \in gone
  <2>1. Here = <<>> /\ MaxPerFile \in Nat
    BY <1>2, ReadingAssumption DEF Here
  <2> QED
    BY <2>1 DEF OfFile
<1>3. CASE at \notin gone
  BY <1>1, <1>3, MatchesOfFile DEF Here
<1> QED
  BY <1>2, <1>3

LEMMA TypedStep ==
    ASSUME ReadInv, ListInv, Typed, Results, Next
    PROVE  Typed'
<1> USE DEF Typed, Limit, world, others, search, read
<1>1. /\ tree \in Trees /\ call \in Calls /\ content \in [Entries -> Seq(Bytes)]
      /\ gone \subseteq Entries /\ Len(tree) \in Nat /\ Entries = 1..Len(tree) /\ at \in Nat
  BY WalkOrder DEF ReadInv, Named, ListInv, Places, Entries
<1>2. ASSUME UNCHANGED tree PROVE Entries' = Entries
  BY <1>2 DEF Entries
<1>3. CASE Refuse
  BY <1>2, <1>3 DEF Refuse
<1>4. CASE SearchBegins \/ ListBegins
  BY <1>2, <1>4 DEF SearchBegins, ListBegins
<1>5. CASE Sniff
  BY <1>1, <1>2, <1>5 DEF Sniff, Increment, Inside
<1>6. CASE SearchFile
  <2>1. /\ used' = used + Costs(Kept(Here)) /\ pc' \in {"done", "walk", "broken"}
        /\ at' = at \/ at' = at + 1
        /\ UNCHANGED <<world, others, listed, read>>
    BY <1>6 DEF SearchFile, Increment, Inside, Here
  <2>2. at \in Entries
    BY <1>6 DEF SearchFile
  <2>3. Here \in Seq(Match) /\ Len(found) \in Nat /\ Len(found) <= MaxMatches
    BY <1>1, <2>2, MatchesHere, LenProperties DEF OfFile, Results
  <2>4. Costs(Kept(Here)) \in Nat
    BY <2>3, WhatFits, CostsOfMatches
  <2> QED
    BY <1>1, <1>2, <2>1, <2>2, <2>4
<1>7. CASE Skip
  BY <1>1, <1>2, <1>7, PastIsNext DEF Skip
<1>8. CASE Emit
  <2>1. /\ at \in Entries /\ (at' = at + 1 \/ at' = Past) /\ pc' \in {"done", "walk", "thrown"}
        /\ \/ UNCHANGED <<listed, used>>
           \/ listed' = Append(listed, at) /\ used' = used + Len(Entry.path)
        /\ UNCHANGED <<world, others, truncated, search, read>>
    BY <1>8 DEF Emit, Inside
  <2>2. at' \in 1..Len(tree) + 1
    BY <1>1, <2>1, PastIsNext
  <2>3. Append(listed, at) \in Seq(Entries) /\ Len(Entry.path) \in Nat
    <3>1. Entry.path \in Seq(Names)
      BY <1>1, <2>1, PathsOfTrees DEF Entry, Entries
    <3> QED
      BY <2>1, <3>1, AppendProperties, LenProperties
  <2>4. listed' \in Seq(Entries) /\ used' \in Nat
    <3>1. CASE UNCHANGED <<listed, used>>
      BY <3>1
    <3>2. CASE listed' = Append(listed, at) /\ used' = used + Len(Entry.path)
      BY <2>3, <3>2
    <3> QED
      BY <2>1, <3>1, <3>2
  <2> QED
    BY <1>2, <2>1, <2>2, <2>4
<1>9. CASE Measure
  <2>1. /\ Reads /\ at' = call.target /\ size' = Len(content[call.target])
        /\ pc' \in {"refused", "chunks"}
        /\ UNCHANGED <<world, others, used, listed, truncated, search, taken>>
    BY <1>9 DEF Measure
  <2>2. call.target \in Entries
    BY <1>1, <2>1, ReadingAssumption DEF Reads, Entries
  <2>3. Len(content[call.target]) \in Nat
    BY <1>1, <2>2, LenProperties
  <2> QED
    BY <1>1, <1>2, <2>1, <2>2, <2>3
<1>10. CASE ReadText
  <2>1. /\ call.tool = "read" /\ pc = "chunks" /\ pc' \in {"done", "chunks"}
        /\ taken' = SubSeq(taken \o Chunk, 1, Min({Len(taken) + Len(Chunk), MaxText}))
        /\ UNCHANGED <<world, others, at, used, listed, search, size>>
    BY <1>10 DEF ReadText, AfterChunk
  <2>2. /\ taken \o Chunk \in Seq(Bytes) /\ Len(taken \o Chunk) = Len(taken) + Len(Chunk)
        /\ Len(taken) + Len(Chunk) \in Nat /\ Begins(taken \o Chunk, content[at])
        /\ at \in Entries
    <3>1. Reads
      BY <2>1 DEF Reads
    <3>2. Len(taken) \in Nat /\ at \in Entries
      BY <2>1, <3>1, LenProperties DEF ReadInv, Partial
    <3>3. /\ taken \o Chunk \in Seq(Bytes) /\ Len(taken \o Chunk) = ChunkEnd
          /\ Len(Chunk) = ChunkEnd - Len(taken) /\ ChunkEnd \in Len(taken)..Len(content[at])
          /\ Begins(taken \o Chunk, content[at])
      BY <2>1, ChunkOfFile
    <3>4. ChunkEnd \in Int /\ ChunkEnd >= Len(taken)
      BY <3>3
    <3> QED
      BY <3>2, <3>3, <3>4
  <2> DEFINE n == Min({Len(taken) + Len(Chunk), MaxText})
  <2>3. n \in 0..Len(taken \o Chunk) /\ n <= MaxText
    BY <2>2, MinOfTwo, ReadingAssumption
  <2>4. taken' \in Seq(Bytes) /\ Len(taken') = n
    <3>1. content[at] \in Seq(Bytes)
      BY <1>1, <2>2
    <3> HIDE DEF n
    <3>2. SubSeq(taken \o Chunk, 1, n) \in Seq(Bytes) /\ Len(SubSeq(taken \o Chunk, 1, n)) = n
      BY <2>2, <2>3, <3>1, CutBegins
    <3> QED
      BY <2>1, <3>2 DEF n
  <2> HIDE DEF n
  <2> QED
    BY <1>2, <2>1, <2>3, <2>4
<1>11. CASE ReadBinary
  <2>1. /\ call.tool = "read_binary" /\ pc = "chunks" /\ pc' \in {"refused", "done", "chunks"}
        /\ \/ UNCHANGED taken
           \/ taken' = taken \o Chunk /\ ~(Len(taken) + Len(Chunk) > MaxBinary)
        /\ UNCHANGED <<world, others, at, used, listed, truncated, search, size>>
    BY <1>11 DEF ReadBinary, AfterChunk
  <2>2. /\ taken \o Chunk \in Seq(Bytes) /\ Len(taken \o Chunk) = Len(taken) + Len(Chunk)
        /\ Len(taken) \in Nat /\ Len(Chunk) \in Nat
    <3>1. Chunk \in Seq(Bytes)
      BY <2>1, ChunkOfFile
    <3> QED
      BY <3>1, ConcatProperties, LenProperties
  <2>3. taken' \in Seq(Bytes) /\ Len(taken') <= MaxBinary
    <3>1. CASE UNCHANGED taken
      BY <2>1, <3>1
    <3>2. CASE taken' = taken \o Chunk /\ ~(Len(taken) + Len(Chunk) > MaxBinary)
      <4>1. Len(taken) + Len(Chunk) <= MaxBinary
        BY <2>2, <3>2, ReadingAssumption
      <4> QED
        BY <2>2, <3>2, <4>1
    <3> QED
      BY <2>1, <3>1, <3>2
  <2> QED
    BY <1>2, <2>1, <2>3
<1>12. CASE ReadEnds
  BY <1>2, <1>12 DEF ReadEnds
<1>13. CASE PassOver
  BY <1>1, <1>2, <1>13, PastIsNext DEF PassOver
<1>14. CASE WalkEnds
  BY <1>2, <1>14 DEF WalkEnds
<1>15. ASSUME NEW i \in Entries, Append1(i) \/ Vanish(i)
       PROVE  Typed'
  <2>1. /\ changes < MaxChanges /\ changes' = changes + 1
        /\ UNCHANGED <<world, pc, at, used, listed, truncated, search, read>>
    BY <1>15 DEF Append1, Vanish, Running
  <2>2. changes' \in 0..MaxChanges
    BY <2>1, ReadingAssumption
  <2> QED
    BY <1>2, <2>1, <2>2
<1> QED
  BY <1>3, <1>4, <1>5, <1>6, <1>7, <1>8, <1>9, <1>10, <1>11, <1>12, <1>13, <1>14, <1>15
  DEF Next, Search, List, Read, Walk
LEMMA ResultsStay ==
    ASSUME Typed, Typed', Results, UNCHANGED <<world, content, found>>,
           Searching' => Searching /\ at <= at'
    PROVE  Results'
<1>1. Entries' = Entries /\ found' = found /\ call' = call
  BY DEF Entries, world
<1>2. \A k \in 1..Len(found) : FromFile(found[k])'
  BY <1>1 DEF Results, FromFile
<1>3. ASSUME Searching' PROVE \A k \in 1..Len(found) : found[k].entry < at'
  <2>1. \A k \in 1..Len(found) : found[k].entry < at
    BY <1>3 DEF Results
  <2>2. ASSUME NEW k \in 1..Len(found) PROVE found[k].entry \in Nat
    <3>1. found[k] \in Match
      BY ElementOfSeq DEF Results
    <3> QED
      BY <3>1 DEF Match
  <2>3. at \in Int /\ at' \in Int /\ at <= at'
    BY <1>3 DEF Typed
  <2> QED
    BY <2>1, <2>2, <2>3
<1> QED
  BY <1>1, <1>2, <1>3 DEF Results, Searching, Before, OfEntry

LEMMA ClippedGrows ==
    ASSUME NEW s, NEW c \in Seq(Bytes), NEW b \in {"x", "cont"}, NEW n,
           Clipped(s, LineText(c, n))
    PROVE  Clipped(s, LineText(Append(c, b), n))
<1>1. b \in Bytes
  BY DEF Bytes
<1>2. Begins(s, LineText(c, n)) /\ Begins(LineText(c, n), LineText(Append(c, b), n))
  BY <1>1, LineGrows DEF Clipped
<1>3. LineText(c, n) \in Seq(Bytes) /\ LineText(Append(c, b), n) \in Seq(Bytes) /\ s \in Seq(Bytes)
  <2>1. Append(c, b) \in Seq(Bytes)
    BY <1>1, AppendProperties
  <2> QED
    BY <2>1, LineOfLetters DEF Clipped
<1>4. /\ Len(s) \in Nat /\ Len(LineText(c, n)) \in Nat /\ Len(LineText(Append(c, b), n)) \in Nat
  BY <1>3, LenProperties
<1>5. Begins(s, LineText(Append(c, b), n))
  <2> DEFINE l == LineText(c, n)
             m == LineText(Append(c, b), n)
  <2> HIDE DEF l, m
  <2> SUFFICES Begins(s, l) /\ Begins(l, m) /\ Len(s) \in Nat /\ Len(l) \in Nat /\ Len(m) \in Nat
                   => Begins(s, m)
    BY <1>2, <1>4 DEF l, m
  <2> QED
    BY DEF Begins
<1> QED
  BY <1>5 DEF Clipped

\* What the search of one file adds.
LEMMA ResultsOfFile ==
    ASSUME ReadInv, ListInv, Typed, Results, SearchFile
    PROVE  Results'
<1> DEFINE K == Kept(Here)
           L == Len(found)
           n == Fit(Here)
<1>1. /\ pc = "open" /\ at \in Entries /\ at \in Nat /\ call.tool = "search" /\ Searching
      /\ found' = found \o K /\ (at' = at \/ at' = at + 1)
      /\ pc' = "done" \/ at' = at + 1
      /\ UNCHANGED <<world, content>> /\ Entries' = Entries
  <2>1. pc = "open" /\ at \in Entries /\ call.tool = "search"
    BY DEF SearchFile, Typed
  <2>2. at \in Nat
    BY <2>1 DEF Typed
  <2> QED
    BY <2>1, <2>2 DEF SearchFile, Increment, Inside, Here, others, Entries, world, Searching
<1>2. OfFile(Here, at, content[at])
  BY <1>1, MatchesHere
<1>3. /\ found \in Seq(Match) /\ L \in Nat /\ L <= MaxMatches /\ DOMAIN found = 1..L
      /\ \A k \in 1..L : /\ FromFile(found[k]) /\ found[k].entry < at
                         /\ found[k].entry \in Nat
      /\ \A j, k \in 1..L : j < k => Before(found[j], found[k])
  <2>1. found \in Seq(Match) /\ L \in Nat /\ L <= MaxMatches /\ DOMAIN found = 1..L
    BY LenProperties DEF Results
  <2>2. ASSUME NEW k \in 1..L PROVE found[k].entry \in Nat
    <3>1. found[k] \in Match
      BY <2>1, ElementOfSeq
    <3> QED
      BY <3>1 DEF Match
  <2> QED
    BY <1>1, <2>1, <2>2 DEF Results
<1>4. /\ n \in Nat /\ n <= Len(Here) /\ L + n <= MaxMatches
      /\ K \in Seq(Match) /\ Len(K) = n
      /\ \A k \in 1..n : K[k] = Here[k]
  BY <1>2, <1>3, WhatFits DEF OfFile
<1> HIDE DEF K, L, n
<1>5. /\ Len(Here) \in Nat /\ Len(Here) <= MaxPerFile
      /\ \A k \in 1..Len(Here) :
            Here[k].entry = at /\ Clipped(Here[k].snippet, LineText(content[at], Here[k].line))
      /\ \A j, k \in 1..Len(Here) : j < k => Here[j].line < Here[k].line
  BY <1>2 DEF OfFile
<1>6. /\ \A k \in 1..n : K[k].entry = at /\ FromFile(K[k])
      /\ \A j, k \in 1..n : j < k => K[j].line < K[k].line
  <2>1. \A k \in 1..n : k \in 1..Len(Here)
    BY <1>4, <1>5
  <2> QED
    BY <1>1, <1>4, <1>5, <2>1 DEF FromFile
<1>7. /\ found' \in Seq(Match) /\ Len(found') = L + n /\ DOMAIN found' = 1..L + n
      /\ \A k \in 1..L : found'[k] = found[k]
      /\ \A k \in 1..n : found'[L + k] = K[k]
  <2>1. /\ found' \in Seq(Match) /\ Len(found') = L + n
        /\ \A k \in 1..L + n : found'[k] = IF k <= L THEN found[k] ELSE K[k - L]
    <3>1. /\ found \o K \in Seq(Match) /\ Len(found \o K) = Len(found) + Len(K)
          /\ \A k \in 1..Len(found) + Len(K) :
                (found \o K)[k] = IF k <= Len(found) THEN found[k] ELSE K[k - Len(found)]
      BY <1>3, <1>4, ConcatProperties
    <3> QED
      BY <1>1, <1>4, <3>1 DEF L
  <2>2. DOMAIN found' = 1..L + n
    BY <2>1, LenProperties
  <2>3. ASSUME NEW k \in 1..L PROVE found'[k] = found[k]
    <3>1. k \in 1..L + n /\ k <= L
      BY <1>3, <1>4
    <3> QED
      BY <2>1, <3>1
  <2>4. ASSUME NEW k \in 1..n PROVE found'[L + k] = K[k]
    <3> DEFINE p == L + k
    <3>1. p \in 1..L + n /\ ~(p <= L) /\ p - L = k
      BY <1>3, <1>4
    <3> HIDE DEF p
    <3>2. found'[p] = K[k]
      BY <2>1, <3>1
    <3> QED
      BY <3>2 DEF p
  <2> QED
    BY <2>1, <2>2, <2>3, <2>4
<1>8. ASSUME NEW k \in 1..L + n
      PROVE  k \in 1..L \/ \E j \in 1..n : k = L + j
  <2>1. CASE k <= L
    BY <1>3, <2>1
  <2>2. CASE ~(k <= L)
    <3>1. k - L \in 1..n /\ k = L + (k - L)
      BY <1>3, <1>4, <2>2
    <3> QED
      BY <3>1
  <2> QED
    BY <2>1, <2>2
<1>9. \A k \in 1..L + n : FromFile(found[k])' /\ found'[k].entry <= at /\ found'[k].entry \in Nat
  <2> TAKE k \in 1..L + n
  <2>1. CASE k \in 1..L
    <3>1. found'[k] = found[k] /\ FromFile(found[k]) /\ found[k].entry < at /\ found[k].entry \in Nat
      BY <1>3, <1>7, <2>1
    <3> QED
      BY <1>1, <3>1 DEF FromFile
  <2>2. ASSUME NEW j \in 1..n, k = L + j
        PROVE  FromFile(found[k])' /\ found'[k].entry <= at /\ found'[k].entry \in Nat
    <3>1. found'[k] = K[j] /\ FromFile(K[j]) /\ K[j].entry = at
      BY <1>6, <1>7, <2>2
    <3> QED
      BY <1>1, <3>1 DEF FromFile
  <2> QED
    BY <1>8, <2>1, <2>2
<1>10. \A j, k \in 1..L + n : j < k => Before(found'[j], found'[k])
  <2> SUFFICES ASSUME NEW j \in 1..L + n, NEW k \in 1..L + n, j < k
               PROVE  Before(found'[j], found'[k])
    OBVIOUS
  <2>1. CASE k \in 1..L
    <3>1. j \in 1..L
      BY <1>3, <2>1
    <3> QED
      BY <1>3, <1>7, <2>1, <3>1
  <2>2. ASSUME NEW q \in 1..n, k = L + q
        PROVE  Before(found'[j], found'[k])
    <3>1. CASE j \in 1..L
      BY <1>1, <1>3, <1>6, <1>7, <2>2, <3>1 DEF Before
    <3>2. ASSUME NEW p \in 1..n, j = L + p
          PROVE  Before(found'[j], found'[k])
      <4>1. p < q
        BY <1>3, <2>2, <3>2
      <4>2. K[p].line < K[q].line /\ K[p].entry = at /\ K[q].entry = at
        BY <1>6, <4>1
      <4> QED
        BY <1>7, <2>2, <3>2, <4>2 DEF Before
    <3> QED
      BY <1>8, <3>1, <3>2
  <2> QED
    BY <1>8, <2>1, <2>2
<1>11. ASSUME NEW i \in Entries
       PROVE  Cardinality(OfEntry(found', i)) <= MaxPerFile
  <2>1. CASE i # at
    <3>1. \A k \in 1..n : found'[L + k].entry # i
      BY <1>6, <1>7, <2>1
    <3>2. \A k \in 1..L + n : found'[k].entry = i => k \in 1..L
      BY <1>8, <3>1
    <3>3. \A k \in 1..L : k \in 1..L + n
      BY <1>3, <1>4
    <3>4. OfEntry(found', i) = OfEntry(found, i)
      BY <1>3, <1>7, <3>2, <3>3 DEF OfEntry
    <3> QED
      BY <3>4 DEF Results
  <2>2. CASE i = at
    <3>1. \A k \in 1..L : found'[k].entry # i
      <4> TAKE k \in 1..L
      <4>1. found[k].entry < at /\ found[k].entry \in Nat
        BY <1>3
      <4>2. found[k].entry # at
        BY <1>1, <4>1
      <4> QED
        BY <1>7, <2>2, <4>2
    <3>2. OfEntry(found', i) \subseteq L + 1..L + n
      <4> SUFFICES ASSUME NEW k \in 1..L + n, found'[k].entry = i
                   PROVE  k \in L + 1..L + n
        BY <1>7 DEF OfEntry
      <4>1. k \notin 1..L
        BY <3>1
      <4> QED
        BY <1>3, <1>4, <4>1
    <3>3. IsFiniteSet(L + 1..L + n) /\ Cardinality(L + 1..L + n) = n
      <4> DEFINE a == L + 1
                 b == L + n
      <4>1. a \in Int /\ b \in Int /\ (IF a > b THEN 0 ELSE b - a + 1) = n
        BY <1>3, <1>4
      <4> HIDE DEF a, b
      <4>2. IsFiniteSet(a..b) /\ Cardinality(a..b) = n
        BY <4>1, FS_Interval
      <4> QED
        BY <4>2 DEF a, b
    <3>4. IsFiniteSet(OfEntry(found', i)) /\ Cardinality(OfEntry(found', i)) <= n
      BY <3>2, <3>3, FS_Subset
    <3>5. Cardinality(OfEntry(found', i)) \in Nat
      BY <3>4, FS_CardinalityType
    <3> QED
      BY <1>4, <1>5, <3>4, <3>5, ReadingAssumption
  <2> QED
    BY <2>1, <2>2
<1>12. Searching' => \A k \in 1..L + n : found'[k].entry < at'
  <2> SUFFICES ASSUME Searching', NEW k \in 1..L + n
               PROVE  found'[k].entry < at'
    OBVIOUS
  <2>1. at' = at + 1
    BY <1>1 DEF Searching
  <2> DEFINE e == found'[k].entry
  <2>2. e <= at /\ e \in Nat
    BY <1>9
  <2> HIDE DEF e
  <2>3. e < at'
    BY <1>1, <2>1, <2>2
  <2> QED
    BY <2>3 DEF e
<1>13. Len(found') <= MaxMatches /\ call'.tool = "search"
  BY <1>1, <1>4, <1>7 DEF world
<1> QED
  BY <1>1, <1>7, <1>9, <1>10, <1>11, <1>12, <1>13 DEF Results, Before, OfEntry

LEMMA ResultsAsFilesGrow ==
    ASSUME ReadInv, ListInv, Typed, Typed', Results, NEW i \in Entries, Append1(i)
    PROVE  Results'
<1>1. PICK b \in {"x", "cont"} : content' = [content EXCEPT ![i] = Append(content[i], b)]
  BY DEF Append1
<1>2. /\ content \in [Entries -> Seq(Bytes)]
      /\ UNCHANGED <<world, pc, at, found>> /\ Entries' = Entries
  BY DEF ReadInv, Named, Append1, search, Entries, world
<1>3. \A j \in Entries : content'[j] = IF j = i THEN Append(content[j], b) ELSE content[j]
  BY <1>1, <1>2
<1>4. ASSUME NEW k \in 1..Len(found) PROVE FromFile(found[k])'
  <2>1. found[k].entry \in Entries /\ Clipped(found[k].snippet, LineText(content[found[k].entry], found[k].line))
    BY DEF Results, FromFile
  <2> DEFINE e == found[k].entry
  <2>2. content[e] \in Seq(Bytes)
    BY <1>2, <2>1
  <2>3. Clipped(found[k].snippet, LineText(content'[e], found[k].line))
    BY <1>3, <2>1, <2>2, ClippedGrows
  <2> QED
    BY <1>2, <2>1, <2>3 DEF FromFile
<1> QED
  BY <1>2, <1>4 DEF Results, Searching, Before, OfEntry, world

LEMMA ResultsStep ==
    ASSUME ReadInv, ListInv, Typed, Typed', Results, Next
    PROVE  Results'
<1>1. /\ at \in Nat /\ at' \in Nat
      /\ tree \in Trees
  BY DEF Typed, ReadInv, Named
<1>2. CASE \E i \in Entries : Append1(i) \/ Vanish(i)
  <2>1. ASSUME NEW i \in Entries, Vanish(i) PROVE Results'
    <3>1. UNCHANGED <<world, content, found, pc, at>>
      BY <2>1 DEF Vanish, search
    <3> QED
      BY <1>1, <3>1, ResultsStay DEF Searching
  <2> QED
    BY <1>2, <2>1, ResultsAsFilesGrow
<1>3. CASE SearchFile
  <2>1. UNCHANGED <<world, content>>
    BY <1>3 DEF SearchFile, others
  <2> QED
    BY <1>3, <2>1, ResultsOfFile
<1>4. CASE Refuse \/ SearchBegins \/ ListBegins \/ ReadEnds \/ WalkEnds \/ ReadText \/ ReadBinary
  <2>1. UNCHANGED <<world, content, found, at>> /\ (Searching' => Searching)
    BY <1>4 DEF Refuse, SearchBegins, ListBegins, ReadEnds, WalkEnds, ReadText, ReadBinary,
       AfterChunk, Searching, others, search
  <2> QED
    BY <1>1, <2>1, ResultsStay
<1>5. CASE Sniff
  <2>1. UNCHANGED <<world, content, found>> /\ Searching /\ (at' = at \/ at' = at + 1)
    BY <1>5 DEF Sniff, Increment, Inside, Searching, others, search
  <2> QED
    BY <1>1, <2>1, ResultsStay
<1>6. CASE Skip \/ Emit \/ PassOver
  <2>1. /\ UNCHANGED <<world, content, found>> /\ Searching /\ at \in Entries
        /\ at' = Past \/ at' = at + 1
    BY <1>6 DEF Skip, Emit, PassOver, Inside, Searching, others, search, ListInv, Places
  <2>2. at <= at'
    BY <1>1, <2>1, PastIsNext
  <2> QED
    BY <2>1, <2>2, ResultsStay
<1>7. CASE Measure
  <2>1. UNCHANGED <<world, content, found>> /\ ~Searching'
    BY <1>7 DEF Measure, Searching, others, search
  <2> QED
    BY <2>1, ResultsStay
<1> QED
  BY <1>2, <1>3, <1>4, <1>5, <1>6, <1>7 DEF Next, Search, List, Read, Walk
SearchInv == Typed /\ Results

LEMMA SearchInvariance == Spec => []SearchInv
<1>1. Init => SearchInv
  <2> SUFFICES ASSUME Init PROVE SearchInv
    OBVIOUS
  <2>1. /\ tree \in Trees /\ content \in [Entries -> Contents] /\ changes = 0 /\ pc = "begin"
        /\ at = 1 /\ used = 0 /\ size = 0 /\ found = <<>> /\ listed = <<>> /\ taken = <<>>
    BY DEF Init
  <2>2. Len(tree) \in Nat
    BY <2>1, WalkOrder
  <2>3. Typed
    BY <2>1, <2>2, ReadingAssumption DEF Typed, Limit
  <2>5. ASSUME NEW i \in Entries PROVE Cardinality(OfEntry(found, i)) <= MaxPerFile
    <3>1. OfEntry(found, i) = {}
      BY <2>1 DEF OfEntry
    <3> QED
      BY <3>1, FS_EmptySet, ReadingAssumption
  <2>6. found \in Seq(Match) /\ Len(found) = 0
    BY <2>1
  <2>7. Results
    BY <2>1, <2>5, <2>6, ReadingAssumption DEF Results
  <2> QED
    BY <2>3, <2>7 DEF SearchInv
<1>2. ReadInv /\ ListInv /\ SearchInv /\ [Next]_vars => SearchInv'
  <2> SUFFICES ASSUME ReadInv, ListInv, SearchInv, [Next]_vars
               PROVE  SearchInv'
    OBVIOUS
  <2>1. CASE UNCHANGED vars
    <3>1. UNCHANGED <<world, others, pc, at, used, listed, found, taken, size>>
      BY <2>1 DEF vars, search, read
    <3>2. Typed'
      BY <3>1 DEF SearchInv, Typed, Limit, Entries, world, others
    <3>3. Results'
      BY <3>1, <3>2, ResultsStay DEF SearchInv, Searching, others, Typed
    <3> QED
      BY <3>2, <3>3 DEF SearchInv
  <2>2. CASE Next
    BY <2>2, TypedStep, ResultsStep DEF SearchInv
  <2> QED
    BY <2>1, <2>2
<1> QED
  BY <1>1, <1>2, ReadInvariance, ListInvariance, PTL DEF Spec

\* The tools stay within their limits, whatever the tree holds and others do to
\* it: the places of the iterators, the results, the bytes taken.
THEOREM ReadingTypes == Spec => []TypeOK
<1>1. ReadInv /\ ListInv /\ SearchInv => TypeOK
  <2> SUFFICES ASSUME ReadInv, ListInv, SearchInv
               PROVE  TypeOK
    OBVIOUS
  <2>1. tree \in Trees /\ truncated \in BOOLEAN /\ gone \subseteq Entries
    BY DEF ReadInv, Named, ListInv, Places
  <2>2. ASSUME NEW i \in DOMAIN found
        PROVE  found[i].entry \in Entries /\ Len(found[i].snippet) <= MaxSnippet
    <3>1. DOMAIN found = 1..Len(found)
      BY LenProperties DEF SearchInv, Results
    <3> QED
      BY <3>1 DEF SearchInv, Results, FromFile, Clipped
  <2>3. \A i \in DOMAIN listed : listed[i] \in Entries
    BY LenProperties, ElementOfSeq DEF SearchInv, Typed
  <2>4. Typed /\ Len(found) <= MaxMatches
    BY DEF SearchInv, Results
  <2> QED
    BY <2>1, <2>2, <2>3, <2>4 DEF TypeOK, Typed, Limit
<1> QED
  BY <1>1, ReadInvariance, ListInvariance, SearchInvariance, PTL

\* Nothing ends inside a letter: no file, and no snippet.
NoHalves ==
    /\ \A i \in Entries : Letters(content[i])
    /\ \A k \in 1..Len(found) : Letters(found[k].snippet)

LEMMA HalvesOfFile ==
    ASSUME ReadInv, SearchInv, NoHalves, SearchFile
    PROVE  NoHalves'
<1> DEFINE K == Kept(Here)
           L == Len(found)
           n == Fit(Here)
<1>1. /\ at \in Entries /\ at \in Nat /\ found' = found \o K /\ UNCHANGED <<world, content>>
      /\ Letters(content[at])
  BY DEF SearchFile, Here, others, SearchInv, Typed, NoHalves
<1>2. OfFile(Here, at, content[at])
  BY <1>1, MatchesHere
<1>3. found \in Seq(Match) /\ L \in Nat /\ L <= MaxMatches
  BY LenProperties DEF SearchInv, Results
<1>4. /\ n \in Nat /\ n <= Len(Here) /\ K \in Seq(Match) /\ Len(K) = n
      /\ \A k \in 1..n : K[k] = Here[k]
  BY <1>2, <1>3, WhatFits DEF OfFile
<1>5. Len(Here) \in Nat /\ \A k \in 1..Len(Here) : Letters(Here[k].snippet)
  BY <1>1, <1>2 DEF OfFile
<1> HIDE DEF K, n
<1>6. /\ Len(found \o K) = L + n
      /\ \A k \in 1..L + n : (found \o K)[k] = IF k <= L THEN found[k] ELSE K[k - L]
  <2>1. /\ Len(found \o K) = L + Len(K)
        /\ \A k \in 1..L + Len(K) : (found \o K)[k] = IF k <= L THEN found[k] ELSE K[k - L]
    BY <1>3, <1>4, ConcatProperties
  <2> QED
    BY <1>4, <2>1
<1> HIDE DEF L
<1>7. ASSUME NEW k \in 1..L + n PROVE Letters(found'[k].snippet)
  <2>1. CASE k <= L
    <3>1. k \in 1..L /\ found'[k] = found[k]
      BY <1>1, <1>3, <1>6, <2>1
    <3> QED
      BY <3>1 DEF NoHalves, L
  <2>2. CASE ~(k <= L)
    <3> DEFINE j == k - L
    <3>1. j \in 1..n /\ j \in 1..Len(Here) /\ found'[k] = K[j]
      BY <1>1, <1>3, <1>4, <1>5, <1>6, <2>2
    <3> HIDE DEF j
    <3>2. found'[k] = Here[j]
      BY <1>4, <3>1
    <3> QED
      BY <1>5, <3>1, <3>2
  <2> QED
    BY <2>1, <2>2
<1>8. \A i \in Entries' : Letters(content'[i])
  BY <1>1 DEF NoHalves, Entries, world
<1> QED
  BY <1>1, <1>6, <1>7, <1>8 DEF NoHalves

LEMMA HalvesStep ==
    ASSUME ReadInv, SearchInv, NoHalves, [Next]_vars
    PROVE  NoHalves'
<1>1. ASSUME UNCHANGED <<world, content, found>> PROVE NoHalves'
  BY <1>1 DEF NoHalves, Entries, world
<1>2. CASE UNCHANGED vars
  BY <1>1, <1>2 DEF vars, others, search
<1>3. CASE SearchFile
  BY <1>3, HalvesOfFile
<1>4. CASE Refuse \/ SearchBegins \/ Sniff \/ List \/ Read \/ Walk
  <2>1. UNCHANGED <<world, content, found>>
    BY <1>4 DEF Refuse, SearchBegins, Sniff, List, ListBegins, Skip, Emit, Read, Measure, ReadText,
       ReadBinary, ReadEnds, Walk, PassOver, WalkEnds, others, search
  <2> QED
    BY <1>1, <2>1
<1>5. ASSUME NEW i \in Entries, Vanish(i) PROVE NoHalves'
  BY <1>1, <1>5 DEF Vanish, search
<1>6. ASSUME NEW i \in Entries, Append1(i) PROVE NoHalves'
  <2>1. PICK b \in {"x", "cont"} : content' = [content EXCEPT ![i] = Append(content[i], b)]
    BY <1>6 DEF Append1
  <2>2. content \in [Entries -> Seq(Bytes)] /\ found' = found /\ Entries' = Entries
    BY <1>6 DEF ReadInv, Named, Append1, search, Entries, world
  <2>3. \A j \in Entries : content'[j] = IF j = i THEN Append(content[j], b) ELSE content[j]
    BY <2>1, <2>2
  <2> QED
    BY <2>2, <2>3, GrownLetters DEF NoHalves
<1> QED
  BY <1>2, <1>3, <1>4, <1>5, <1>6 DEF Next, Search

LEMMA HalvesInvariance == Spec => []NoHalves
<1>1. Init => NoHalves
  BY LettersAssumption DEF Init, NoHalves
<1>2. ReadInv /\ SearchInv /\ NoHalves /\ [Next]_vars => NoHalves'
  BY HalvesStep
<1> QED
  BY <1>1, <1>2, ReadInvariance, SearchInvariance, PTL DEF Spec

\* Whatever others append or delete meanwhile, every result is how a line of
\* its file begins and ends with a whole letter, the results are in the order
\* of the walk, each line once, and no file has more than MaxPerFile
\* (tool_file_search.cpp, ClipUtf8 and SearchFile).
THEOREM ResultsAreReal == Spec => []MatchesAreReal
<1>1. ReadInv /\ SearchInv /\ NoHalves => MatchesAreReal
  <2> SUFFICES ASSUME ReadInv, SearchInv, NoHalves
               PROVE  MatchesAreReal
    OBVIOUS
  <2>1. /\ found \in Seq(Match) /\ DOMAIN found = 1..Len(found)
        /\ content \in [Entries -> Seq(Bytes)]
    BY LenProperties DEF SearchInv, Results, ReadInv, Named
  <2>2. \A i, j \in DOMAIN found : i < j => Before(found[i], found[j])
    BY <2>1 DEF SearchInv, Results
  <2>3. ASSUME NEW i \in DOMAIN found
        PROVE  LET m == found[i]  text == LineText(content[m.entry], m.line)
               IN  IsPrefix(m.snippet, text) /\ (Whole(text) => Whole(m.snippet))
    <3> DEFINE m == found[i]
               text == LineText(content[m.entry], m.line)
    <3>1. m.entry \in Entries /\ Clipped(m.snippet, text) /\ Letters(m.snippet)
      BY <2>1 DEF SearchInv, Results, FromFile, NoHalves
    <3>2. text \in Seq(Bytes)
      BY <2>1, <3>1, LineOfLetters
    <3> HIDE DEF m, text
    <3>3. IsPrefix(m.snippet, text) /\ Whole(m.snippet)
      BY <3>1, <3>2, PrefixIsBeginning DEF Clipped, Whole
    <3> QED
      BY <3>3 DEF m, text
  <2>4. \A i \in Entries : Cardinality({j \in DOMAIN found : found[j].entry = i}) <= MaxPerFile
    BY DEF SearchInv, Results, OfEntry
  <2> QED
    BY <2>2, <2>3, <2>4 DEF MatchesAreReal
<1> QED
  BY <1>1, ReadInvariance, SearchInvariance, HalvesInvariance, PTL

-----------------------------------------------------------------------------
(***************************************************************************)
(* An undisturbed search has found, at any time, all matches of the        *)
(* entries before the iterator.                                            *)
(***************************************************************************)

File(i) == IF tree[i].kind = "text" THEN Matches(i, content[i]) ELSE <<>>
UpTo(k) == FlattenSeq([i \in 1..k |-> File(i)])

\* What the search as it is written would find without its limits.
Findable == FlattenSeq([i \in Entries |-> File(i)])

FoundSoFar ==
    call.tool = "search" /\ Undisturbed =>
        /\ pc # "done" => truncated = FALSE /\ found = UpTo(at - 1)
        /\ pc = "open" => Entry.kind = "text"
        /\ pc = "done" =>
             IF truncated
             THEN /\ Begins(found, Findable) /\ Len(found) < Len(Findable)
                  /\ Len(found) = MaxMatches \/ used >= MaxBytes
             ELSE found = Findable

LEMMA BeginsOn ==
    ASSUME NEW s, NEW t, NEW u, Len(s) \in Nat, Len(t) \in Nat, Len(u) \in Nat,
           Begins(s, t), Begins(t, u)
    PROVE  Begins(s, u)
BY DEF Begins

LEMMA BeginsJoined ==
    ASSUME NEW S, NEW s \in Seq(S), NEW t \in Seq(S), NEW u \in Seq(S), Begins(t, u)
    PROVE  /\ Begins(s \o t, s \o u) /\ Begins(s, s \o u)
           /\ Len(s \o t) = Len(s) + Len(t) /\ Len(s \o u) = Len(s) + Len(u)
           /\ Len(s) \in Nat /\ Len(t) \in Nat /\ Len(u) \in Nat
<1> DEFINE a == s \o t
           b == s \o u
<1>1. Len(s) \in Nat /\ Len(t) \in Nat /\ Len(u) \in Nat
  BY LenProperties
<1>2. /\ Len(a) = Len(s) + Len(t)
      /\ \A i \in 1..Len(s) + Len(t) : a[i] = IF i <= Len(s) THEN s[i] ELSE t[i - Len(s)]
  BY ConcatProperties
<1>3. /\ Len(b) = Len(s) + Len(u)
      /\ \A i \in 1..Len(s) + Len(u) : b[i] = IF i <= Len(s) THEN s[i] ELSE u[i - Len(s)]
  BY ConcatProperties
<1> HIDE DEF a, b
<1>4. Len(t) <= Len(u) /\ \A i \in 1..Len(t) : t[i] = u[i]
  BY DEF Begins
<1>5. ASSUME NEW i \in 1..Len(a) PROVE a[i] = b[i]
  <2>1. i \in 1..Len(s) + Len(t) /\ i \in 1..Len(s) + Len(u)
    BY <1>1, <1>2, <1>4
  <2>2. CASE i <= Len(s)
    BY <1>2, <1>3, <2>1, <2>2
  <2>3. CASE ~(i <= Len(s))
    <3>1. i - Len(s) \in 1..Len(t)
      BY <1>1, <2>1, <2>3
    <3>2. t[i - Len(s)] = u[i - Len(s)]
      BY <1>4, <3>1
    <3> QED
      BY <1>2, <1>3, <2>1, <2>3, <3>2
  <2> QED
    BY <2>2, <2>3
<1>6. ASSUME NEW i \in 1..Len(s) PROVE s[i] = b[i]
  <2>1. i \in 1..Len(s) + Len(u) /\ i <= Len(s)
    BY <1>1
  <2> QED
    BY <1>3, <2>1
<1>7. Begins(a, b)
  BY <1>1, <1>2, <1>3, <1>4, <1>5 DEF Begins
<1>8. Begins(s, b)
  BY <1>1, <1>3, <1>6 DEF Begins
<1> QED
  BY <1>1, <1>2, <1>3, <1>7, <1>8 DEF a, b

LEMMA FilesAreMatches ==
    ASSUME ReadInv, SearchInv, NEW k \in Nat, k <= Len(tree)
    PROVE  /\ \A i \in 1..k : File(i) \in Seq(Match)
           /\ [i \in 1..k |-> File(i)] \in Seq(Seq(Match))
           /\ UpTo(k) \in Seq(Match)
<1>1. tree \in Trees /\ content \in [Entries -> Seq(Bytes)]
  BY DEF ReadInv, Named
<1>2. Len(tree) \in Nat /\ Entries = 1..Len(tree)
  BY <1>1, WalkOrder DEF Entries
<1>3. ASSUME NEW i \in 1..k PROVE File(i) \in Seq(Match)
  <2>1. i \in Nat /\ content[i] \in Seq(Bytes)
    BY <1>1, <1>2
  <2>2. OfFile(Matches(i, content[i]), i, content[i])
    BY <2>1, MatchesOfFile
  <2>3. Matches(i, content[i]) \in Seq(Match)
    BY <2>2 DEF OfFile
  <2>4. <<>> \in Seq(Match)
    BY EmptySeq
  <2> QED
    BY <2>3, <2>4 DEF File
<1>4. [i \in 1..k |-> File(i)] \in Seq(Seq(Match))
  BY <1>3
<1> QED
  BY <1>3, <1>4, FlattenIsSeq DEF UpTo

LEMMA UpToNext ==
    ASSUME ReadInv, SearchInv, NEW k \in Nat, k + 1 <= Len(tree)
    PROVE  UpTo(k + 1) = UpTo(k) \o File(k + 1)
<1> DEFINE s == [i \in 1..k |-> File(i)]
           t == [i \in 1..k + 1 |-> File(i)]
           n == k + 1
           x == File(n)
<1>1. Len(tree) \in Nat
  BY WalkOrder DEF ReadInv, Named
<1>2. n \in Nat /\ n <= Len(tree) /\ k <= Len(tree) /\ n \in 1..n
  BY <1>1
<1>3. s \in Seq(Seq(Match)) /\ x \in Seq(Match)
  <2> HIDE DEF n
  <2>1. s \in Seq(Seq(Match))
    BY <1>2, FilesAreMatches
  <2>2. \A i \in 1..n : File(i) \in Seq(Match)
    BY <1>2, FilesAreMatches
  <2> QED
    BY <1>2, <2>1, <2>2
<1>4. t = Append(s, x)
  <2>1. Len(s) = k
    OBVIOUS
  <2> HIDE DEF x
  <2>2. \A i \in 1..k + 1 : i <= k \/ i = k + 1
    OBVIOUS
  <2>3. Append(s, x) = [i \in 1..k + 1 |-> IF i = k + 1 THEN x ELSE s[i]]
    BY <2>1
  <2>4. ASSUME NEW i \in 1..k + 1 PROVE (IF i = k + 1 THEN x ELSE s[i]) = File(i)
    <3>1. CASE i = k + 1
      BY <3>1 DEF x
    <3>2. CASE i # k + 1
      <4>1. i \in 1..k
        BY <3>2
      <4> QED
        BY <3>2, <4>1
    <3> QED
      BY <3>1, <3>2
  <2> QED
    BY <2>3, <2>4
<1> HIDE DEF x, s, t
<1>5. FlattenSeq(t) = FlattenSeq(s) \o x
  BY <1>3, <1>4, FlattenAppend
<1> QED
  BY <1>5 DEF UpTo, s, t, x

LEMMA FindableIsUpTo ==
    ASSUME tree \in Trees
    PROVE  Findable = UpTo(Len(tree))
<1>1. Entries = 1..Len(tree)
  BY WalkOrder DEF Entries
<1> QED
  BY <1>1 DEF Findable, UpTo

LEMMA UpToBegins ==
    ASSUME ReadInv, SearchInv, NEW k \in Nat, k <= Len(tree)
    PROVE  Begins(UpTo(k), Findable) /\ Len(UpTo(k)) <= Len(Findable) /\ Findable \in Seq(Match)
<1> DEFINE last == Len(tree)
           Good == {d \in Nat : Begins(UpTo(last - d), UpTo(last))}
<1>1. last \in Nat
  BY WalkOrder DEF ReadInv, Named
<1> HIDE DEF last
<1>2. \A n \in Nat : n <= last => UpTo(n) \in Seq(Match) /\ Len(UpTo(n)) \in Nat
  <2> TAKE n \in Nat
  <2>1. n <= last => UpTo(n) \in Seq(Match)
    BY FilesAreMatches DEF last
  <2> QED
    BY <2>1, LenProperties
<1>3. 0 \in Good
  <2>1. last - 0 = last
    BY <1>1
  <2> QED
    BY <2>1, <1>1, <1>2 DEF Begins
<1>4. ASSUME NEW d \in 0..last - 1, d \in Good PROVE d + 1 \in Good
  <2> DEFINE n == last - (d + 1)
             m == n + 1
  <2>1. n \in Nat /\ m \in Nat /\ n <= last /\ m <= last /\ m = last - d /\ d + 1 \in Nat /\ m \in 1..m
    BY <1>1, <1>4
  <2>2. Begins(UpTo(last - d), UpTo(last))
    BY <1>4
  <2> HIDE DEF n
  <2>3. UpTo(m) = UpTo(n) \o File(m)
    BY <2>1, UpToNext DEF last
  <2> HIDE DEF m
  <2>4. UpTo(n) \in Seq(Match) /\ File(m) \in Seq(Match)
    <3>1. m <= Len(tree)
      BY <2>1 DEF last
    <3>2. \A i \in 1..m : File(i) \in Seq(Match)
      BY <2>1, <3>1, FilesAreMatches
    <3> QED
      BY <1>2, <2>1, <3>2
  <2>5. Begins(UpTo(n), UpTo(m))
    <3>1. Begins(File(m), File(m))
      BY <2>4, LenProperties DEF Begins
    <3> QED
      BY <2>3, <2>4, <3>1, BeginsJoined
  <2>6. Begins(UpTo(n), UpTo(last))
    <3>1. Begins(UpTo(m), UpTo(last))
      BY <2>1, <2>2
    <3>2. last \in Nat /\ last <= last
      BY <1>1
    <3>3. Len(UpTo(n)) \in Nat /\ Len(UpTo(m)) \in Nat /\ Len(UpTo(last)) \in Nat
      BY <1>2, <2>1, <3>2
    <3> QED
      BY <2>5, <3>1, <3>3, BeginsOn
  <2> QED
    BY <2>1, <2>6 DEF n
<1>5. last - k \in Good
  <2> HIDE DEF Good
  <2>1. 0..last \subseteq Good
    BY <1>1, <1>3, <1>4, StepByStep
  <2>2. last - k \in 0..last
    BY <1>1 DEF last
  <2> QED
    BY <2>1, <2>2
<1>6. last - (last - k) = k
  BY <1>1
<1>7. Begins(UpTo(k), UpTo(last))
  BY <1>5, <1>6
<1>8. Findable = UpTo(last)
  BY FindableIsUpTo DEF ReadInv, Named, last
<1>9. last \in Nat /\ last <= last
  BY <1>1
<1> QED
  BY <1>2, <1>7, <1>8, <1>9 DEF Begins
LEMMA SameFiles ==
    ASSUME UNCHANGED <<world, content>>
    PROVE  UpTo(at - 1)' = UpTo(at' - 1) /\ Findable' = Findable
<1>1. call' = call /\ tree' = tree /\ content' = content
  BY DEF world
<1>2. Hits' = Hits
  BY <1>1 DEF Hits
<1>3. ASSUME NEW i PROVE Matches(i, content[i])' = Matches(i, content[i])
  BY <1>1, <1>2 DEF Matches, MatchesOf
<1>4. ASSUME NEW i PROVE File(i)' = File(i)
  BY <1>1, <1>3 DEF File
<1>5. UpTo(at - 1)' = UpTo(at' - 1)
  BY <1>4 DEF UpTo
<1>6. Findable' = FlattenSeq([i \in Entries |-> File(i)'])
  BY <1>1 DEF Findable, Entries
<1>7. Findable = FlattenSeq([i \in Entries |-> File(i)])
  BY DEF Findable
<1> QED
  BY <1>4, <1>5, <1>6, <1>7

LEMMA SearchFileFinds ==
    ASSUME ReadInv, ListInv, SearchInv, SearchInv', FoundSoFar, Undisturbed, SearchFile
    PROVE  FoundSoFar'
<1> DEFINE K == Kept(Here)
           n == at - 1
<1>1. /\ pc = "open" /\ at \in Entries /\ call.tool = "search" /\ tree \in Trees
      /\ found' = found \o K /\ used' = used + Costs(K)
      /\ IF Fit(Here) < Len(Here)
         THEN truncated' = TRUE /\ pc' = "done"
         ELSE truncated' = truncated /\ at' = at + 1 /\ pc' \in {"walk", "broken"}
      /\ UNCHANGED <<world, content>>
  BY DEF SearchFile, Increment, Inside, Here, others, SearchInv, Typed, ReadInv, Named
<1>2. /\ Len(tree) \in Nat /\ at \in 1..Len(tree) /\ at \notin gone
  BY <1>1, WalkOrder DEF Entries, ListInv, Places
<1>3. n \in Nat /\ n + 1 = at /\ n + 1 <= Len(tree) /\ n <= Len(tree)
  BY <1>2
<1>4. found = UpTo(n) /\ truncated = FALSE /\ Entry.kind = "text" /\ File(at) = Here
  <2>1. found = UpTo(n) /\ truncated = FALSE /\ Entry.kind = "text"
    BY <1>1 DEF FoundSoFar, Searching
  <2> QED
    BY <1>2, <2>1 DEF File, Here, Entry
<1> HIDE DEF n
<1>5. UpTo(at) = found \o Here
  BY <1>3, <1>4, UpToNext
<1>6. OfFile(Here, at, content[at])
  BY <1>1, <1>2, MatchesHere DEF SearchInv
<1>7. Here \in Seq(Match) /\ Len(Here) \in Nat /\ found \in Seq(Match) /\ Len(found) \in Nat
      /\ Len(found) <= MaxMatches
  BY <1>6, LenProperties DEF OfFile, SearchInv, Results
<1>8. /\ Fit(Here) \in Nat /\ Fit(Here) <= Len(Here)
      /\ Fit(Here) < Len(Here) => \/ Len(found) + Fit(Here) = MaxMatches
                                  \/ ~(used + Costs(K) < MaxBytes)
      /\ K \in Seq(Match) /\ Len(K) = Fit(Here)
      /\ \A k \in 1..Fit(Here) : K[k] = Here[k]
      /\ Fit(Here) = Len(Here) => K = Here
  BY <1>7, WhatFits
<1> HIDE DEF K
<1>9. CASE Fit(Here) < Len(Here)
  <2>1. truncated' = TRUE /\ pc' = "done"
    BY <1>1, <1>9
  <2>2. Begins(K, Here)
    BY <1>7, <1>8, <1>9 DEF Begins
  <2>3. /\ Begins(found', UpTo(at)) /\ Len(found') = Len(found) + Fit(Here)
        /\ Len(UpTo(at)) = Len(found) + Len(Here)
    <3>1. /\ Begins(found \o K, found \o Here) /\ Len(found \o K) = Len(found) + Len(K)
          /\ Len(found \o Here) = Len(found) + Len(Here)
      BY <1>7, <1>8, <2>2, BeginsJoined
    <3> QED
      BY <1>1, <1>5, <1>8, <3>1
  <2>4. Begins(UpTo(at), Findable) /\ Len(UpTo(at)) <= Len(Findable) /\ Len(Findable) \in Nat
    <3>1. at \in Nat /\ at <= Len(tree)
      BY <1>2
    <3> QED
      BY <3>1, UpToBegins, LenProperties
  <2>5. Begins(found', Findable) /\ Len(found') < Len(Findable)
    <3>1. Len(found') \in Nat /\ Len(UpTo(at)) \in Nat /\ Len(found') < Len(UpTo(at))
      BY <1>7, <1>8, <1>9, <2>3
    <3> QED
      BY <2>3, <2>4, <3>1, BeginsOn
  <2>6. Len(found') = MaxMatches \/ used' >= MaxBytes
    <3>1. used' \in Nat /\ MaxBytes \in Nat
      BY ReadingAssumption DEF SearchInv, Typed
    <3> QED
      BY <1>1, <1>8, <1>9, <2>3, <3>1
  <2>7. Findable' = Findable
    BY <1>1, SameFiles
  <2> QED
    BY <2>1, <2>5, <2>6, <2>7 DEF FoundSoFar, Searching
<1>10. CASE ~(Fit(Here) < Len(Here))
  <2>1. truncated' = FALSE /\ at' = at + 1 /\ pc' \in {"walk", "broken"}
    BY <1>1, <1>4, <1>10
  <2>2. K = Here
    BY <1>7, <1>8, <1>10
  <2>3. found' = UpTo(at)
    BY <1>1, <1>5, <2>2
  <2>4. at' - 1 = at
    BY <1>2, <2>1
  <2>5. found' = UpTo(at - 1)'
    BY <1>1, <2>3, <2>4, SameFiles
  <2> QED
    BY <2>1, <2>5 DEF FoundSoFar, Searching
<1> QED
  BY <1>9, <1>10

LEMMA FoundStep ==
    ASSUME ReadInv, ListInv, SearchInv, SearchInv', FoundSoFar, Next
    PROVE  FoundSoFar'
<1> SUFFICES ASSUME call'.tool = "search", Undisturbed'
             PROVE  FoundSoFar'
  BY DEF FoundSoFar
<1>1. /\ at \in Nat /\ Len(tree) \in Nat /\ tree \in Trees /\ Entries = 1..Len(tree)
      /\ changes \in Nat
  BY WalkOrder DEF SearchInv, Typed, ReadInv, Named, Entries, ListInv, Places
<1>2. CASE \E i \in Entries : Append1(i) \/ Vanish(i)
  <2>1. changes' = changes + 1
    BY <1>2 DEF Append1, Vanish
  <2> QED
    BY <1>1, <2>1 DEF Undisturbed
<1>3. CASE Refuse \/ Search \/ List \/ Read \/ Walk
  <2>1. UNCHANGED <<world, others>> /\ call.tool = "search"
    BY <1>3 DEF Refuse, Search, SearchBegins, Sniff, SearchFile, List, ListBegins, Skip, Emit,
       Read, Measure, ReadText, ReadBinary, ReadEnds, Walk, PassOver, WalkEnds, world
  <2>2. Undisturbed /\ gone = {} /\ UNCHANGED <<world, content>>
    BY <2>1 DEF Undisturbed, others, ListInv, Places
  <2>3. ~List /\ ~Read /\ ~PassOver
    <3>1. ~Reads /\ pc # "chunks" /\ ~Recursive
      BY <2>1 DEF ReadInv, Started, Reads, Recursive
    <3> QED
      BY <2>1, <2>2, <3>1 DEF List, ListBegins, Skip, Emit, Read, Measure, ReadText, ReadBinary,
         ReadEnds, PassOver
  <2>4. UpTo(at - 1)' = UpTo(at' - 1) /\ Findable' = Findable
    BY <2>2, SameFiles
  <2>5. pc # "done" => truncated = FALSE /\ found = UpTo(at - 1)
    BY <2>1, <2>2 DEF FoundSoFar
  <2>6. CASE Refuse
    <3>1. pc = "begin" /\ pc' = "refused" /\ UNCHANGED <<truncated, found, at>>
      BY <2>6 DEF Refuse, search
    <3> QED
      BY <2>4, <2>5, <3>1 DEF FoundSoFar
  <2>7. CASE SearchBegins
    <3>1. pc = "begin" /\ pc' \in {"walk", "broken"} /\ UNCHANGED <<truncated, found, at>>
      BY <2>7 DEF SearchBegins, search
    <3> QED
      BY <2>4, <2>5, <3>1 DEF FoundSoFar
  <2>8. CASE Sniff
    <3>1. /\ Searching /\ at \in Entries /\ UNCHANGED <<truncated, found>>
          /\ \/ pc' = "open" /\ at' = at /\ Entry.kind = "text"
             \/ pc' \in {"walk", "broken"} /\ at' = at + 1 /\ Entry.kind # "text"
      BY <2>2, <2>8 DEF Sniff, Increment, Inside, Searching, search
    <3>2. CASE pc' = "open" /\ at' = at /\ Entry.kind = "text"
      <4>1. Entry'.kind = "text"
        BY <2>1, <3>2 DEF Entry, world
      <4> QED
        BY <2>4, <2>5, <3>1, <3>2, <4>1 DEF FoundSoFar, Searching
    <3>3. CASE pc' \in {"walk", "broken"} /\ at' = at + 1 /\ Entry.kind # "text"
      <4> DEFINE n == at - 1
      <4>1. n \in Nat /\ n + 1 = at /\ n + 1 <= Len(tree) /\ n <= Len(tree) /\ at' - 1 = at
        BY <1>1, <3>1, <3>3
      <4>2. found = UpTo(n) /\ truncated = FALSE
        BY <2>5, <3>1 DEF Searching
      <4> HIDE DEF n
      <4>3. File(at) = <<>>
        BY <3>3 DEF File, Entry
      <4>4. UpTo(at) = UpTo(n) \o <<>> /\ UpTo(n) \in Seq(Match)
        BY <4>1, <4>3, UpToNext, FilesAreMatches
      <4>5. UpTo(at) = found
        BY <4>2, <4>4, ConcatEmptySeq
      <4>6. found' = UpTo(at - 1)'
        BY <2>4, <3>1, <4>1, <4>5
      <4> QED
        BY <3>1, <3>3, <4>2, <4>6 DEF FoundSoFar
    <3> QED
      BY <3>1, <3>2, <3>3
  <2>9. CASE SearchFile
    BY <2>2, <2>9, SearchFileFinds
  <2>10. CASE WalkEnds
    <3>1. pc = "walk" /\ pc' = "done" /\ at = Len(tree) + 1 /\ UNCHANGED <<truncated, found>>
      BY <2>10 DEF WalkEnds, search
    <3>2. truncated = FALSE /\ found = UpTo(at - 1) /\ at - 1 = Len(tree)
      BY <1>1, <2>5, <3>1 DEF Searching
    <3>3. found' = Findable'
      BY <1>1, <2>4, <3>1, <3>2, FindableIsUpTo
    <3> QED
      BY <3>1, <3>2, <3>3 DEF FoundSoFar, Searching
  <2> QED
    BY <1>3, <2>3, <2>6, <2>7, <2>8, <2>9, <2>10 DEF Search, Walk
<1> QED
  BY <1>2, <1>3 DEF Next

\* A query that is understood is searched for as it stands.
LEMMA UnderstoodIsFound ==
    ASSUME Understood
    PROVE  Expected = Findable
<1>1. Hits = Wanted
  BY DEF Understood, Hits, Wanted, Lower, Bytes
<1>2. \A i \in Entries :
        File(i) = IF tree[i].kind = "text" THEN MatchesOf(i, content[i], Wanted) ELSE <<>>
  BY <1>1 DEF File, Matches
<1> QED
  BY <1>2 DEF Expected, Findable

\* What a search whose query is understood has found, undisturbed by others, is a
\* beginning of all there is to find, whatever ends it.  When the walk came to its
\* end or to a limit, it is all of it, or the result is truncated and a limit was
\* met with more to find (tool_file_search.cpp:284-293).
THEOREM SearchFindsAllOrSaysSo == Spec => []SearchAllOrFlagged
<1>1. Init => FoundSoFar
  <2> SUFFICES ASSUME Init PROVE FoundSoFar
    OBVIOUS
  <2>1. at - 1 = 0 /\ found = <<>> /\ truncated = FALSE /\ pc = "begin"
    BY DEF Init
  <2>2. [i \in 1..0 |-> File(i)] = <<>>
    OBVIOUS
  <2>3. UpTo(0) = <<>>
    BY <2>2, FlattenNone DEF UpTo
  <2> QED
    BY <2>1, <2>3 DEF FoundSoFar
<1>2. ReadInv /\ ListInv /\ SearchInv /\ SearchInv' /\ FoundSoFar /\ [Next]_vars => FoundSoFar'
  <2> SUFFICES ASSUME ReadInv, ListInv, SearchInv, SearchInv', FoundSoFar, [Next]_vars
               PROVE  FoundSoFar'
    OBVIOUS
  <2>1. CASE UNCHANGED vars
    <3>1. UNCHANGED <<world, content, changes, pc, at, used, found, truncated>>
      BY <2>1 DEF vars, search, others
    <3>2. UpTo(at - 1)' = UpTo(at - 1) /\ Findable' = Findable
      BY <3>1, SameFiles
    <3> QED
      BY <3>1, <3>2 DEF FoundSoFar, Undisturbed, Searching, Entry, world
  <2> QED
    BY <2>1, FoundStep
<1>3. ReadInv /\ SearchInv /\ FoundSoFar => SearchAllOrFlagged
  <2> SUFFICES ASSUME ReadInv, SearchInv, FoundSoFar, call.tool = "search", Undisturbed, Understood
               PROVE  /\ IsPrefix(found, Findable)
                      /\ Done => (truncated <=> found # Findable)
                      /\ truncated => Done /\ (Len(found) = MaxMatches \/ used >= MaxBytes)
    BY UnderstoodIsFound DEF SearchAllOrFlagged
  <2>1. Len(tree) \in Nat /\ at \in 1..Len(tree) + 1
    BY WalkOrder DEF ReadInv, Named, SearchInv, Typed
  <2>2. at - 1 \in Nat /\ at - 1 <= Len(tree)
    BY <2>1
  <2>3. /\ found \in Seq(Match) /\ Findable \in Seq(Match) /\ truncated \in BOOLEAN
        /\ Len(Findable) \in Nat
    BY <2>2, UpToBegins, LenProperties DEF SearchInv, Results, ReadInv, Named
  <2>4. CASE Done
    <3>1. IF truncated
          THEN /\ Begins(found, Findable) /\ Len(found) < Len(Findable)
               /\ Len(found) = MaxMatches \/ used >= MaxBytes
          ELSE found = Findable
      BY <2>4 DEF FoundSoFar, Done
    <3>2. found = Findable => ~(Len(found) < Len(Findable)) /\ Begins(found, Findable)
      BY <2>3 DEF Begins
    <3>3. Begins(found, Findable)
      BY <3>1, <3>2
    <3> QED
      BY <2>3, <2>4, <3>1, <3>2, <3>3, PrefixIsBeginning
  <2>5. CASE ~Done
    <3>1. truncated = FALSE /\ found = UpTo(at - 1)
      BY <2>5 DEF FoundSoFar, Done
    <3>2. Begins(found, Findable)
      BY <2>2, <3>1, UpToBegins
    <3> QED
      BY <2>3, <2>5, <3>1, <3>2, PrefixIsBeginning
  <2> QED
    BY <2>4, <2>5
<1> QED
  BY <1>1, <1>2, <1>3, ReadInvariance, ListInvariance, SearchInvariance, PTL DEF Spec
=============================================================================
