--------------------------- MODULE TerminalProofs ---------------------------
(***************************************************************************)
(* For any keys and any number of changes of the window's size: a change   *)
(* is on the screen or its flag is set, the count of eofs in a row stays   *)
(* within its limit, and keys are received as they were typed.             *)
(***************************************************************************)
EXTENDS Terminal, SequenceTheorems, TLAPS

\* Whichever loop takes the key, ReadKey starts anew or the resize is handled.
LEMMA ReturnKeepsTypes ==
    ASSUME Inv, ui # "over", NEW key, Return(key)
    PROVE  /\ ui' \in {"main", "exit", "over"} /\ selected' \in BOOLEAN
           /\ eofs' \in 0..MaxEofs /\ StreakLeft'
           /\ read' = <<>> /\ pc' \in {"first", "resizing"}
           /\ drawn' = drawn
<1> USE TerminalAssumption DEF Inv, TypeOK, StreakLeft
<1>0. read' = <<>> /\ drawn' = drawn
  BY DEF Return
<1>1. CASE MainLoop(key)
  <2>1. selected' \in BOOLEAN
    BY <1>1 DEF MainLoop
  <2>2. pc' \in {"first", "resizing"}
    BY <1>1 DEF MainLoop
  <2>3. eofs \in Nat /\ eofs < MaxEofs
    OBVIOUS
  <2>4. CASE key = "eof"
    <3>1. eofs' = eofs + 1 /\ ui' = IF eofs' >= MaxEofs THEN "over" ELSE "main"
      BY <1>1, <2>4 DEF MainLoop
    <3>2. eofs' \in 0..MaxEofs
      BY <2>3, <3>1
    <3>3. ui' \in {"main", "over"} /\ (ui' # "over" => eofs' < MaxEofs)
      BY <2>3, <3>1
    <3> QED
      BY <1>0, <2>1, <2>2, <3>2, <3>3
  <2>5. CASE key # "eof"
    <3>1. eofs' = 0
      BY <1>1, <2>5 DEF MainLoop
    <3>2. ui' \in {"main", "exit"}
      BY <1>1, <2>5 DEF MainLoop
    <3> QED
      BY <1>0, <2>1, <2>2, <3>1, <3>2
  <2> QED
    BY <2>4, <2>5
<1>2. CASE ExitDialogue(key)
  <2>1. ui' \in {"main", "exit", "over"}
    BY <1>2 DEF ExitDialogue
  <2>2. selected' \in BOOLEAN
    BY <1>2 DEF ExitDialogue
  <2> QED
    BY <1>2, <2>1, <2>2 DEF ExitDialogue, Return
<1> QED
  BY <1>1, <1>2 DEF Return

\* The UI thread's steps: the flag is cleared before the size is asked for.
LEMMA LoopStep ==
    ASSUME Inv, Loop
    PROVE  Inv'
<1> USE TerminalAssumption DEF Inv, TypeOK, StreakLeft, SizeNotForgotten, user, signal, loop
<1>1. CASE ReadByte
  <2>1. ui # "over" /\ pc \in {"first", "rest", "intro", "params"}
    BY <1>1 DEF ReadByte, Reading
  <2>2. UNCHANGED <<user, signal>>
    BY <1>1 DEF ReadByte
  <2>3. CASE After(Head(queue)) = "done"
    <3>1. Return(Decoded(Append(read, Head(queue))))
      BY <1>1, <2>3 DEF ReadByte
    <3> QED
      BY <2>1, <2>2, <3>1, ReturnKeepsTypes
  <2>4. CASE After(Head(queue)) # "done"
    <3>1. After(Head(queue)) \in {"wait", "rest", "params"}
      BY <2>1, <2>4 DEF After
    <3>2. pc' = After(Head(queue)) /\ read' = Append(read, Head(queue)) /\ UNCHANGED loop
      BY <1>1, <2>4 DEF ReadByte
    <3>3. read' # <<>>
      BY <3>2
    <3> QED
      BY <2>1, <2>2, <3>1, <3>2, <3>3
  <2> QED
    BY <2>3, <2>4
<1>2. CASE ReadEof
  <2>1. ui # "over" /\ pc \in {"first", "rest", "intro", "params"}
            /\ UNCHANGED <<user, queue, signal>>
    BY <1>2 DEF ReadEof, Reading
  <2>2. PICK key : Return(key)
    BY <1>2 DEF ReadEof
  <2> QED
    BY <2>1, <2>2, ReturnKeepsTypes
<1>3. CASE Available
  BY <1>3 DEF Available
<1>4. CASE Timeout
  <2>1. ui # "over" /\ pc = "wait" /\ UNCHANGED <<user, queue, signal>>
    BY <1>4 DEF Timeout
  <2>2. PICK key : Return(key)
    BY <1>4 DEF Timeout
  <2> QED
    BY <2>1, <2>2, ReturnKeepsTypes
<1>5. CASE ClearPending
  BY <1>5 DEF ClearPending
<1>6. CASE UpdateSize
  BY <1>6 DEF UpdateSize
<1>7. CASE Draw
  BY <1>7 DEF Draw
<1> QED
  BY <1>1, <1>2, <1>3, <1>4, <1>5, <1>6, <1>7 DEF Loop

\* The world's steps: a change of size sets the flag, whoever is interrupted.
LEMMA WorldStep ==
    ASSUME Inv, \/ \E k \in Keys : \E n \in 1..Len(Encoding[k]) : Type(k, n)
                \/ Arrive \/ Close \/ ResizeUnnoticed \/ ResizeInterrupts
    PROVE  Inv'
<1> USE TerminalAssumption DEF Inv, TypeOK, StreakLeft, SizeNotForgotten, user, signal, loop
<1>1. ASSUME NEW k \in Keys, NEW n \in 1..Len(Encoding[k]), Type(k, n)
      PROVE  Inv'
  <2>1. typed' \in Seq(Keys) /\ Len(typed') <= MaxTyped
    BY <1>1 DEF Type
  <2>2. clean' \in BOOLEAN
    BY <1>1 DEF Type
  <2> QED
    BY <1>1, <2>1, <2>2 DEF Type
<1>2. CASE Arrive
  BY <1>2 DEF Arrive
<1>3. CASE Close
  BY <1>3 DEF Close
<1>4. CASE ResizeUnnoticed
  BY <1>4 DEF ResizeUnnoticed, Resize
<1>5. CASE ResizeInterrupts
  <2>1. ui # "over" /\ Return("resize") /\ UNCHANGED <<user, queue>> /\ eintr' = TRUE
    BY <1>5 DEF ResizeInterrupts, Reading
  <2>2. size' \in 0..MaxResizes /\ drawn \in 0..size' /\ pending' = TRUE
    BY <1>5 DEF ResizeInterrupts, Resize
  <2> QED
    BY <2>1, <2>2, ReturnKeepsTypes
<1> QED
  BY <1>1, <1>2, <1>3, <1>4, <1>5

\* Inv is an invariant.
LEMMA TerminalInvariance == Spec => []Inv
<1>1. Init => Inv
  <2>1. <<>> \in Seq(Keys) /\ Len(<<>>) = 0
    OBVIOUS
  <2>2. 0 \in 0..MaxResizes /\ 0 \in 0..0 /\ 0 \in 0..MaxEofs /\ 0 <= MaxTyped /\ 0 < MaxEofs
    BY TerminalAssumption
  <2>3. Init => TypeOK
    BY <2>1, <2>2 DEF Init, TypeOK
  <2>4. Init => StreakLeft /\ SizeNotForgotten
    BY <2>2 DEF Init, StreakLeft, SizeNotForgotten
  <2> QED
    BY <2>3, <2>4 DEF Inv
<1>2. Inv /\ [Next]_vars => Inv'
  <2> SUFFICES ASSUME Inv, [Next]_vars
               PROVE  Inv'
    OBVIOUS
  <2>1. CASE UNCHANGED vars
    BY <2>1 DEF vars, user, signal, loop, Inv, TypeOK, StreakLeft, SizeNotForgotten
  <2> QED
    BY <2>1, LoopStep, WorldStep DEF Next
<1> QED
  BY <1>1, <1>2, PTL DEF Spec

\* Every variable has its type: eofs in a row are counted up to their limit
\* only, and no size is drawn that the window never had.
THEOREM TerminalTypes == Spec => []TypeOK
BY TerminalInvariance, PTL DEF Inv

\* A change of size that is not on the screen is announced by its flag or about
\* to be asked for, in every interleaving of signals and HandleResize.
THEOREM NoSizeForgotten == Spec => []SizeNotForgotten
BY TerminalInvariance, PTL DEF Inv

-----------------------------------------------------------------------------
(***************************************************************************)
(* What was received of what was typed.                                    *)
(***************************************************************************)

\* ks are the first n of all, in order, but for some ESC.
Received(ks, all, n) ==
    \E at \in [DOMAIN ks -> 1..n] :
        /\ \A i, j \in DOMAIN ks : i < j => at[i] < at[j]
        /\ \A i \in DOMAIN ks : ks[i] = all[at[i]]
        /\ \A j \in 1..n : all[j] # "esc" => \E i \in DOMAIN ks : at[i] = j

LEMMA ReceivesNext ==
    ASSUME NEW ks \in Seq(Keys), NEW all \in Seq(Keys), NEW n \in 0..Len(all) - 1,
           Received(ks, all, n)
    PROVE  Received(Append(ks, all[n + 1]), all, n + 1)
<1> DEFINE m  == Len(ks)
           k  == all[n + 1]
           more == Append(ks, k)
<1>1. PICK at \in [DOMAIN ks -> 1..n] :
        /\ \A i, j \in DOMAIN ks : i < j => at[i] < at[j]
        /\ \A i \in DOMAIN ks : ks[i] = all[at[i]]
        /\ \A j \in 1..n : all[j] # "esc" => \E i \in DOMAIN ks : at[i] = j
  BY DEF Received
<1>2. /\ m \in Nat /\ n \in Nat /\ k \in Keys
      /\ DOMAIN ks = 1..m /\ DOMAIN more = 1..m + 1
      /\ \A i \in 1..m : more[i] = ks[i]
      /\ more[m + 1] = k
  <2>1. n + 1 \in 1..Len(all)
    OBVIOUS
  <2>2. k \in Keys
    BY <2>1, ElementOfSeq
  <2> HIDE DEF k
  <2> QED
    BY <2>2, AppendProperties, LenProperties
<1> DEFINE new == [i \in 1..m + 1 |-> IF i = m + 1 THEN n + 1 ELSE at[i]]
<1> HIDE DEF k, more, m
<1>3. \A i \in 1..m : at[i] \in 1..n
  BY <1>1, <1>2
<1>4. \A i \in 1..m + 1 : i = m + 1 \/ (i \in 1..m /\ i # m + 1)
  BY <1>2
<1>5. new \in [1..m + 1 -> 1..n + 1]
  <2>1. \A j \in 1..n : j \in 1..n + 1
    BY <1>2
  <2>2. n + 1 \in 1..n + 1
    BY <1>2
  <2> QED
    BY <1>3, <1>4, <2>1, <2>2
<1>6. /\ \A i \in 1..m : new[i] = at[i] /\ i \in 1..m + 1
      /\ new[m + 1] = n + 1 /\ m + 1 \in 1..m + 1
  BY <1>2, <1>4
<1> HIDE DEF new
<1>7. \A i, j \in 1..m + 1 : i < j => new[i] < new[j]
  <2> TAKE i, j \in 1..m + 1
  <2> HAVE i < j
  <2>1. i \in 1..m
    BY <1>2
  <2>2. CASE j = m + 1
    <3>1. at[i] \in 1..n
      BY <1>3, <2>1
    <3> QED
      BY <1>2, <1>6, <2>1, <2>2, <3>1
  <2>3. CASE j \in 1..m
    BY <1>1, <1>2, <1>6, <2>1, <2>3
  <2> QED
    BY <1>4, <2>2, <2>3
<1>8. \A i \in 1..m + 1 : more[i] = all[new[i]]
  <2> TAKE i \in 1..m + 1
  <2>1. CASE i = m + 1
    BY <1>2, <1>6, <2>1 DEF k
  <2>2. CASE i \in 1..m
    BY <1>1, <1>2, <1>6, <2>2
  <2> QED
    BY <1>4, <2>1, <2>2
<1>9. \A j \in 1..n + 1 : all[j] # "esc" => \E i \in 1..m + 1 : new[i] = j
  <2> TAKE j \in 1..n + 1
  <2> HAVE all[j] # "esc"
  <2>1. CASE j = n + 1
    BY <1>6, <2>1
  <2>2. CASE j # n + 1
    <3>1. j \in 1..n
      BY <1>2, <2>2
    <3>2. PICK i \in 1..m : at[i] = j
      BY <1>1, <1>2, <3>1
    <3> QED
      BY <1>6, <3>2
  <2> QED
    BY <2>1, <2>2
<1>10. Received(more, all, n + 1)
  <2>1. DOMAIN more = 1..m + 1
    BY <1>2
  <2>2. /\ new \in [DOMAIN more -> 1..n + 1]
        /\ \A i, j \in DOMAIN more : i < j => new[i] < new[j]
        /\ \A i \in DOMAIN more : more[i] = all[new[i]]
        /\ \A j \in 1..n + 1 : all[j] # "esc" => \E i \in DOMAIN more : new[i] = j
    BY <1>5, <1>7, <1>8, <1>9, <2>1
  <2> QED
    BY <2>2, Zenon DEF Received
<1> QED
  BY <1>10 DEF more, k

LEMMA SkipsEsc ==
    ASSUME NEW ks \in Seq(Keys), NEW all \in Seq(Keys), NEW n \in 0..Len(all) - 1,
           Received(ks, all, n), all[n + 1] = "esc"
    PROVE  Received(ks, all, n + 1)
<1>1. PICK at \in [DOMAIN ks -> 1..n] :
        /\ \A i, j \in DOMAIN ks : i < j => at[i] < at[j]
        /\ \A i \in DOMAIN ks : ks[i] = all[at[i]]
        /\ \A j \in 1..n : all[j] # "esc" => \E i \in DOMAIN ks : at[i] = j
  BY DEF Received
<1>2. at \in [DOMAIN ks -> 1..n + 1]
  <2>1. \A j \in 1..n : j \in 1..n + 1
    OBVIOUS
  <2> QED
    BY <1>1, <2>1
<1>3. \A j \in 1..n + 1 : all[j] # "esc" => \E i \in DOMAIN ks : at[i] = j
  <2>1. \A j \in 1..n + 1 : j = n + 1 \/ j \in 1..n
    OBVIOUS
  <2> QED
    BY <1>1, <2>1
<1> QED
  BY <1>1, <1>2, <1>3 DEF Received

LEMMA MoreTyped ==
    ASSUME NEW ks \in Seq(Keys), NEW all \in Seq(Keys), NEW n \in 0..Len(all), NEW k \in Keys,
           Received(ks, all, n)
    PROVE  Received(ks, Append(all, k), n)
<1>1. \A j \in 1..n : Append(all, k)[j] = all[j]
  <2>1. \A j \in 1..n : j \in 1..Len(all)
    BY LenProperties
  <2> QED
    BY <2>1, AppendProperties
<1>2. PICK at \in [DOMAIN ks -> 1..n] :
        /\ \A i, j \in DOMAIN ks : i < j => at[i] < at[j]
        /\ \A i \in DOMAIN ks : ks[i] = all[at[i]]
        /\ \A j \in 1..n : all[j] # "esc" => \E i \in DOMAIN ks : at[i] = j
  BY DEF Received
<1>3. \A i \in DOMAIN ks : ks[i] = Append(all, k)[at[i]]
  <2>1. \A i \in DOMAIN ks : at[i] \in 1..n
    BY <1>2
  <2> QED
    BY <1>1, <1>2, <2>1
<1> HIDE DEF Received
<1>4. \A j \in 1..n : Append(all, k)[j] # "esc" => \E i \in DOMAIN ks : at[i] = j
  BY <1>1, <1>2
<1> QED
  BY <1>2, <1>3, <1>4 DEF Received

-----------------------------------------------------------------------------
(***************************************************************************)
(* The bytes of keys.                                                      *)
(***************************************************************************)

Bytes == {"y", "n", "enter", "lead", "cont", "esc", "[", "D", "3", "~"}

LEMMA Codes ==
    ASSUME NEW k \in Keys
    PROVE  /\ k \in {"y", "n", "enter", "wide", "esc", "left", "del"}
           /\ k \in {"y", "n", "enter", "esc"} => Encoding[k] = <<k>>
           /\ k = "wide" => Encoding[k] = <<"lead", "cont">>
           /\ k = "left" => Encoding[k] = <<"esc", "[", "D">>
           /\ k = "del" => Encoding[k] = <<"esc", "[", "3", "~">>
BY TerminalAssumption DEF Encoding

LEMMA CodesAreBytes ==
    ASSUME NEW k \in Keys
    PROVE  Encoding[k] \in Seq(Bytes) /\ Len(Encoding[k]) \in Nat \ {0}
<1>1. CASE k \in {"y", "n", "enter", "esc"}
  <2>1. k \in Bytes
    BY <1>1 DEF Bytes
  <2>2. <<k>> \in Seq(Bytes) /\ Len(<<k>>) \in Nat \ {0}
    BY <2>1
  <2> QED
    BY <1>1, <2>2, Codes
<1>2. CASE k = "wide"
  <2>1. <<"lead", "cont">> \in Seq(Bytes) /\ Len(<<"lead", "cont">>) \in Nat \ {0}
    BY DEF Bytes
  <2> QED
    BY <1>2, <2>1, Codes
<1>3. CASE k = "left"
  <2>1. <<"esc", "[", "D">> \in Seq(Bytes) /\ Len(<<"esc", "[", "D">>) \in Nat \ {0}
    BY DEF Bytes
  <2> QED
    BY <1>3, <2>1, Codes
<1>4. CASE k = "del"
  <2>1. <<"esc", "[", "3", "~">> \in Seq(Bytes) /\ Len(<<"esc", "[", "3", "~">>) \in Nat \ {0}
    BY DEF Bytes
  <2> QED
    BY <1>4, <2>1, Codes
<1> QED
  BY <1>1, <1>2, <1>3, <1>4, Codes

LEMMA DecodesKeys ==
    ASSUME NEW k \in Keys
    PROVE  Decoded(Encoding[k]) = k
<1>1. CASE k \in {"y", "n", "enter", "esc"}
  <2>1. Decoded(<<k>>) = k
    BY <1>1 DEF Decoded
  <2> QED
    BY <1>1, <2>1, Codes
<1>2. CASE k = "wide"
  <2>1. Decoded(<<"lead", "cont">>) = "wide"
    BY DEF Decoded, Encoding
  <2> QED
    BY <1>2, <2>1, Codes
<1>3. CASE k = "left"
  <2>1. Decoded(<<"esc", "[", "D">>) = "left"
    BY DEF Decoded, Encoding
  <2> QED
    BY <1>3, <2>1, Codes
<1>4. CASE k = "del"
  <2>1. Decoded(<<"esc", "[", "3", "~">>) = "del"
    BY DEF Decoded, Encoding, OneDigit
  <2> QED
    BY <1>4, <2>1, Codes
<1> QED
  BY <1>1, <1>2, <1>3, <1>4, Codes

\* Where ReadKey is after n bytes of the key k.
Midway(p, n, k) ==
    \/ n = 0 /\ p \in {"first", "resizing", "measuring", "drawing"}
    \/ n = 1 /\ p = "rest" /\ k = "wide"
    \/ n = 1 /\ p = "wait" /\ k \in {"esc", "left", "del"}
    \/ n = 1 /\ p = "intro" /\ k \in {"left", "del"}
    \/ n = 2 /\ p = "params" /\ k \in {"left", "del"}
    \/ n = 3 /\ p = "params" /\ k = "del"

\* The next byte of a key leads on, or ends it.
LEMMA NextByte ==
    ASSUME NEW k \in Keys, NEW n, Midway(pc, n, k),
           pc \in {"first", "rest", "intro", "params"}
    PROVE  /\ n \in Nat /\ n + 1 \in 1..Len(Encoding[k])
           /\ IF After(Encoding[k][n + 1]) = "done" THEN Len(Encoding[k]) = n + 1
              ELSE Midway(After(Encoding[k][n + 1]), n + 1, k)
<1> DEFINE e == Encoding[k]
           x == e[n + 1]
<1>1. CASE n = 0 /\ pc = "first" /\ k \in {"y", "n", "enter"}
  <2>1. Len(e) = 1 /\ x = k
    BY <1>1, Codes
  <2>2. After(x) = "done"
    BY <1>1, <2>1 DEF After
  <2> HIDE DEF x, e
  <2> QED
    BY <1>1, <2>1, <2>2 DEF x, e
<1>2. CASE n = 0 /\ pc = "first" /\ k = "wide"
  <2>1. Len(e) = 2 /\ x = "lead"
    BY <1>2, Codes
  <2>2. After(x) = "rest"
    BY <1>2, <2>1 DEF After
  <2> HIDE DEF x, e
  <2> QED
    BY <1>2, <2>1, <2>2 DEF x, e, Midway
<1>3. CASE n = 0 /\ pc = "first" /\ k \in {"esc", "left", "del"}
  <2>1. Len(e) \in 1..4 /\ x = "esc"
    BY <1>3, Codes
  <2>2. After(x) = "wait"
    BY <1>3, <2>1 DEF After
  <2> HIDE DEF x, e
  <2> QED
    BY <1>3, <2>1, <2>2 DEF x, e, Midway
<1>4. CASE n = 1 /\ pc = "rest" /\ k = "wide"
  <2>1. Len(e) = 2 /\ x = "cont"
    BY <1>4, Codes
  <2>2. After(x) = "done"
    BY <1>4 DEF After
  <2> HIDE DEF x, e
  <2> QED
    BY <1>4, <2>1, <2>2 DEF x, e
<1>5. CASE n = 1 /\ pc = "intro" /\ k \in {"left", "del"}
  <2>1. Len(e) \in 2..4 /\ x = "["
    BY <1>5, Codes
  <2>2. After(x) = "params"
    BY <1>5, <2>1 DEF After
  <2> HIDE DEF x, e
  <2> QED
    BY <1>5, <2>1, <2>2 DEF x, e, Midway
<1>6. CASE n = 2 /\ pc = "params" /\ k = "left"
  <2>1. Len(e) = 3 /\ x = "D"
    BY <1>6, Codes
  <2>2. After(x) = "done"
    BY <1>6, <2>1 DEF After, InSequence
  <2> HIDE DEF x, e
  <2> QED
    BY <1>6, <2>1, <2>2 DEF x, e
<1>7. CASE n = 2 /\ pc = "params" /\ k = "del"
  <2>1. Len(e) = 4 /\ x = "3"
    BY <1>7, Codes
  <2>2. After(x) = "params"
    BY <1>7, <2>1 DEF After, InSequence
  <2> HIDE DEF x, e
  <2> QED
    BY <1>7, <2>1, <2>2 DEF x, e, Midway
<1>8. CASE n = 3 /\ pc = "params" /\ k = "del"
  <2>1. Len(e) = 4 /\ x = "~"
    BY <1>8, Codes
  <2>2. After(x) = "done"
    BY <1>8, <2>1 DEF After, InSequence
  <2> HIDE DEF x, e
  <2> QED
    BY <1>8, <2>1, <2>2 DEF x, e
<1> QED
  BY <1>1, <1>2, <1>3, <1>4, <1>5, <1>6, <1>7, <1>8, Codes DEF Midway
\* A sequence with one element more is the one appended to.
LEMMA AppendIs ==
    ASSUME NEW S, NEW r \in Seq(S), NEW e \in Seq(S), NEW x \in S, Len(e) = Len(r) + 1,
           \A i \in 1..Len(r) : r[i] = e[i], e[Len(e)] = x
    PROVE  Append(r, x) = e
<1>1. /\ Append(r, x) \in Seq(S) /\ Len(Append(r, x)) = Len(r) + 1
      /\ \A i \in 1..Len(r) : Append(r, x)[i] = r[i]
      /\ Append(r, x)[Len(r) + 1] = x
  BY AppendProperties
<1>2. \A i \in 1..Len(e) : Append(r, x)[i] = e[i]
  <2> TAKE i \in 1..Len(e)
  <2>1. i = Len(r) + 1 \/ i \in 1..Len(r)
    BY LenProperties
  <2> QED
    BY <1>1, <2>1
<1> QED
  BY <1>1, <1>2, SeqEqual

-----------------------------------------------------------------------------
(***************************************************************************)
(* Where ReadKey is in the bytes that were sent.                           *)
(***************************************************************************)

\* b are the bytes of the keys ks; key j begins after the first c[j] of them.
Sent(b, c, ks) ==
    /\ b \in Seq(Bytes)
    /\ c \in [1..Len(ks) + 1 -> 0..Len(b)]
    /\ c[1] = 0 /\ c[Len(ks) + 1] = Len(b)
    /\ \A j \in 1..Len(ks) :
          /\ c[j + 1] = c[j] + Len(Encoding[ks[j]])
          /\ \A i \in 1..Len(Encoding[ks[j]]) : b[c[j] + i] = Encoding[ks[j]][i]

\* After the first p bytes of b, r was read, and q is waiting.
Ahead(r, q, b, p) ==
    /\ r \in Seq(Bytes) /\ q \in Seq(Bytes)
    /\ p + Len(r) + Len(q) = Len(b)
    /\ \A i \in 1..Len(r) : r[i] = b[p + i]
    /\ \A i \in 1..Len(q) : q[i] = b[p + Len(r) + i]

\* n keys of ks are behind, got is what came of them, r was read of the next.
Place(ks, r, q, p, got, n, b, c) ==
    /\ n \in 0..Len(ks)
    /\ Sent(b, c, ks)
    /\ Ahead(r, q, b, c[n + 1])
    /\ Received(got, ks, n)
    /\ \A j \in n + 1..Len(ks) - 1 : ks[j] # "esc"
    /\ Midway(p, Len(r), ks[n + 1])

\* The inductive invariant of KeysArriveAsTyped.
OnTheKey ==
    clean /\ ~closed =>
        /\ delayed = <<>>
        /\ keys \in Seq(Keys)
        /\ \E n, b, c : Place(typed, read, queue, pc, keys, n, b, c)

\* With nothing read and nothing waiting, every key is behind.
LEMMA AllBehind ==
    ASSUME NEW ks \in Seq(Keys), NEW r, NEW q, NEW p, NEW got, NEW n, NEW b, NEW c,
           Place(ks, r, q, p, got, n, b, c)
    PROVE  (n = Len(ks)) <=> (Len(r) = 0 /\ Len(q) = 0)
<1>0. n \in 0..Len(ks) /\ Sent(b, c, ks) /\ Ahead(r, q, b, c[n + 1])
  BY DEF Place
<1>1. Len(ks) \in Nat /\ Len(r) \in Nat /\ Len(q) \in Nat /\ Len(b) \in Nat
  BY <1>0, LenProperties DEF Sent, Ahead
<1>2. c[n + 1] \in 0..Len(b) /\ c[n + 1] + Len(r) + Len(q) = Len(b)
  <2>1. n + 1 \in 1..Len(ks) + 1
    BY <1>0, <1>1
  <2> QED
    BY <1>0, <2>1 DEF Sent, Ahead
<1>3. CASE n = Len(ks)
  BY <1>0, <1>1, <1>2, <1>3 DEF Sent
<1>4. CASE n # Len(ks)
  <2>1. n + 1 \in 1..Len(ks) /\ n + 2 \in 1..Len(ks) + 1 /\ n + 2 = (n + 1) + 1
    BY <1>0, <1>1, <1>4
  <2>2. c[n + 2] = c[n + 1] + Len(Encoding[ks[n + 1]]) /\ c[n + 2] \in 0..Len(b)
    BY <1>0, <2>1 DEF Sent
  <2>3. Len(Encoding[ks[n + 1]]) \in Nat \ {0}
    BY <2>1, CodesAreBytes, ElementOfSeq
  <2> QED
    BY <1>0, <1>1, <1>2, <1>4, <2>2, <2>3
<1> QED
  BY <1>3, <1>4

\* The key that is being read: its bytes are in place, and some are left.
LEMMA NextKey ==
    ASSUME NEW ks \in Seq(Keys), NEW r, NEW q, NEW p, NEW got, NEW n, NEW b, NEW c,
           Place(ks, r, q, p, got, n, b, c), n # Len(ks)
    PROVE  /\ n \in 0..Len(ks) - 1 /\ n + 1 \in 0..Len(ks)
           /\ ks[n + 1] \in Keys
           /\ c[n + 1] \in Nat
           /\ c[n + 2] = c[n + 1] + Len(Encoding[ks[n + 1]])
           /\ c[n + 2] <= Len(b)
           /\ \A i \in 1..Len(Encoding[ks[n + 1]]) :
                 b[c[n + 1] + i] = Encoding[ks[n + 1]][i]
<1>0. n \in 0..Len(ks) /\ Sent(b, c, ks) /\ Ahead(r, q, b, c[n + 1])
  BY DEF Place
<1>1. Len(ks) \in Nat /\ Len(b) \in Nat
  BY <1>0, LenProperties DEF Sent
<1>2. /\ n + 1 \in 1..Len(ks) /\ n + 2 \in 1..Len(ks) + 1 /\ n + 1 \in 1..Len(ks) + 1
      /\ n + 2 = (n + 1) + 1
  BY <1>0, <1>1
<1>3. ks[n + 1] \in Keys
  BY <1>2, ElementOfSeq
<1>4. c[n + 1] \in 0..Len(b) /\ c[n + 2] \in 0..Len(b)
  BY <1>0, <1>2 DEF Sent
<1>5. /\ c[n + 2] = c[n + 1] + Len(Encoding[ks[n + 1]])
      /\ \A i \in 1..Len(Encoding[ks[n + 1]]) : b[c[n + 1] + i] = Encoding[ks[n + 1]][i]
  BY <1>0, <1>2 DEF Sent
<1> QED
  BY <1>0, <1>1, <1>2, <1>3, <1>4, <1>5

\* A byte that does not end the key.
LEMMA ByteLeadsOn ==
    ASSUME NEW ks \in Seq(Keys), NEW r, NEW q, NEW got, NEW n, NEW b, NEW c,
           Place(ks, r, q, pc, got, n, b, c), q # <<>>,
           pc \in {"first", "rest", "intro", "params"}, After(Head(q)) # "done"
    PROVE  Place(ks, Append(r, Head(q)), Tail(q), After(Head(q)), got, n, b, c)
<1> DEFINE x == Head(q)
           e == Encoding[ks[n + 1]]
           p == c[n + 1]
<1>0. n \in 0..Len(ks) /\ Sent(b, c, ks) /\ Ahead(r, q, b, c[n + 1])
  BY DEF Place
<1>1. /\ r \in Seq(Bytes) /\ q \in Seq(Bytes) /\ b \in Seq(Bytes)
      /\ p + Len(r) + Len(q) = Len(b)
      /\ \A i \in 1..Len(r) : r[i] = b[p + i]
      /\ \A i \in 1..Len(q) : q[i] = b[p + Len(r) + i]
  BY DEF Place, Ahead, Sent
<1>2. Len(q) \in Nat \ {0} /\ Len(r) \in Nat /\ x = q[1] /\ x \in Bytes
  BY <1>1, LenProperties
<1>3. n # Len(ks)
  <2>1. (n = Len(ks)) <=> (Len(r) = 0 /\ Len(q) = 0)
    BY AllBehind
  <2> QED
    BY <1>2, <2>1
<1>4. /\ ks[n + 1] \in Keys /\ p \in Nat
      /\ \A i \in 1..Len(e) : b[p + i] = e[i]
  BY <1>3, NextKey
<1>5. Midway(pc, Len(r), ks[n + 1])
  BY DEF Place
<1>6. x = b[p + (Len(r) + 1)]
  <2> HIDE DEF x, p, e
  <2>1. 1 \in 1..Len(q) /\ p + Len(r) + 1 = p + (Len(r) + 1)
    BY <1>2, <1>4, SMT
  <2> QED
    BY <1>1, <1>2, <2>1
<1>7. x = e[Len(r) + 1] /\ Midway(After(x), Len(r) + 1, ks[n + 1])
  <2>1. /\ Len(r) + 1 \in 1..Len(e)
        /\ IF After(e[Len(r) + 1]) = "done" THEN Len(e) = Len(r) + 1
           ELSE Midway(After(e[Len(r) + 1]), Len(r) + 1, ks[n + 1])
    BY <1>4, <1>5, NextByte
  <2>2. x = e[Len(r) + 1]
    BY <1>4, <1>6, <2>1
  <2> QED
    BY <2>1, <2>2
<1>8. Ahead(Append(r, x), Tail(q), b, p)
  <2>1. /\ Append(r, x) \in Seq(Bytes) /\ Len(Append(r, x)) = Len(r) + 1
        /\ \A i \in 1..Len(r) : Append(r, x)[i] = r[i]
        /\ Append(r, x)[Len(r) + 1] = x
    BY <1>1, <1>2, AppendProperties
  <2>2. /\ Tail(q) \in Seq(Bytes) /\ Len(Tail(q)) = Len(q) - 1
        /\ \A i \in 1..Len(Tail(q)) : Tail(q)[i] = q[i + 1]
    BY <1>1, <1>2, HeadTailProperties
  <2>3. p + (Len(r) + 1) + (Len(q) - 1) = Len(b)
    BY <1>1, <1>2, <1>4
  <2>4. \A i \in 1..Len(r) + 1 : Append(r, x)[i] = b[p + i]
    <3> TAKE i \in 1..Len(r) + 1
    <3>1. i = Len(r) + 1 \/ i \in 1..Len(r)
      BY <1>2
    <3> QED
      BY <1>1, <1>6, <2>1, <3>1
  <2>5. \A i \in 1..Len(q) - 1 : q[i + 1] = b[p + (Len(r) + 1) + i]
    <3> TAKE i \in 1..Len(q) - 1
    <3>1. i + 1 \in 1..Len(q) /\ p + (Len(r) + 1) + i = p + Len(r) + (i + 1)
      BY <1>2, <1>4
    <3> QED
      BY <1>1, <3>1
  <2> HIDE DEF x, p, e
  <2> QED
    BY <2>1, <2>2, <2>3, <2>4, <2>5 DEF Ahead
<1> QED
  BY <1>2, <1>7, <1>8, AppendProperties, <1>1 DEF Place

\* The last byte of a key: the bytes read are the key, and it is behind.
LEMMA ByteEndsKey ==
    ASSUME NEW ks \in Seq(Keys), NEW r, NEW q, NEW got \in Seq(Keys), NEW n, NEW b, NEW c,
           Place(ks, r, q, pc, got, n, b, c), q # <<>>,
           pc \in {"first", "rest", "intro", "params"}, After(Head(q)) = "done",
           NEW p2 \in {"first", "resizing"}
    PROVE  \E k \in Keys :
              /\ Decoded(Append(r, Head(q))) = k
              /\ Place(ks, <<>>, Tail(q), p2, Append(got, k), n + 1, b, c)
<1> DEFINE x == Head(q)
           k == ks[n + 1]
           e == Encoding[k]
           p == c[n + 1]
<1>0. n \in 0..Len(ks) /\ Sent(b, c, ks) /\ Ahead(r, q, b, c[n + 1])
  BY DEF Place
<1>1. /\ r \in Seq(Bytes) /\ q \in Seq(Bytes) /\ b \in Seq(Bytes)
      /\ p + Len(r) + Len(q) = Len(b)
      /\ \A i \in 1..Len(r) : r[i] = b[p + i]
      /\ \A i \in 1..Len(q) : q[i] = b[p + Len(r) + i]
  BY DEF Place, Ahead, Sent
<1>2. Len(q) \in Nat \ {0} /\ Len(r) \in Nat /\ x = q[1] /\ x \in Bytes
  BY <1>1, LenProperties
<1>3. n # Len(ks)
  <2>1. (n = Len(ks)) <=> (Len(r) = 0 /\ Len(q) = 0)
    BY AllBehind
  <2> QED
    BY <1>2, <2>1
<1>4. /\ n \in 0..Len(ks) - 1 /\ n + 1 \in 0..Len(ks)
      /\ k \in Keys /\ p \in Nat
      /\ c[n + 2] = p + Len(e)
      /\ \A i \in 1..Len(e) : b[p + i] = e[i]
  BY <1>3, NextKey
<1>5. Midway(pc, Len(r), k)
  BY DEF Place
<1>6. x = b[p + (Len(r) + 1)]
  <2> HIDE DEF x, p, e
  <2>1. 1 \in 1..Len(q) /\ p + Len(r) + 1 = p + (Len(r) + 1)
    BY <1>2, <1>4, SMT
  <2> QED
    BY <1>1, <1>2, <2>1
<1>7. Len(e) = Len(r) + 1 /\ x = e[Len(r) + 1]
  <2>1. /\ Len(r) + 1 \in 1..Len(e)
        /\ IF After(e[Len(r) + 1]) = "done" THEN Len(e) = Len(r) + 1
           ELSE Midway(After(e[Len(r) + 1]), Len(r) + 1, k)
    BY <1>4, <1>5, NextByte
  <2>2. x = e[Len(r) + 1]
    BY <1>4, <1>6, <2>1
  <2> QED
    BY <2>1, <2>2
<1>8. Decoded(Append(r, x)) = k
  <2>1. e \in Seq(Bytes)
    BY <1>4, CodesAreBytes
  <2>2. \A i \in 1..Len(r) : r[i] = e[i]
    <3> TAKE i \in 1..Len(r)
    <3>1. i \in 1..Len(e)
      BY <1>2, <1>7
    <3> QED
      BY <1>1, <1>4, <3>1
  <2> HIDE DEF x, e
  <2>3. Append(r, x) = e
    BY <1>1, <1>2, <1>7, <2>1, <2>2, AppendIs
  <2> QED
    BY <1>4, <2>3, DecodesKeys DEF e
<1>9. Ahead(<<>>, Tail(q), b, c[n + 2])
  <2>1. /\ Tail(q) \in Seq(Bytes) /\ Len(Tail(q)) = Len(q) - 1
        /\ \A i \in 1..Len(Tail(q)) : Tail(q)[i] = q[i + 1]
    BY <1>1, <1>2, HeadTailProperties
  <2>2. <<>> \in Seq(Bytes) /\ Len(<<>>) = 0
    OBVIOUS
  <2> HIDE DEF x, p, e, k
  <2>3. c[n + 2] + 0 + (Len(q) - 1) = Len(b) /\ c[n + 2] \in Nat
    <3>1. c[n + 2] = p + (Len(r) + 1)
      BY <1>4, <1>7
    <3> QED
      BY <1>1, <1>2, <1>4, <3>1
  <2>5. \A i \in 1..Len(q) - 1 : q[i + 1] = b[c[n + 2] + 0 + i]
    <3> TAKE i \in 1..Len(q) - 1
    <3>1. i + 1 \in 1..Len(q) /\ c[n + 2] + 0 + i = p + Len(r) + (i + 1)
      BY <1>2, <1>4, <1>7
    <3> QED
      BY <1>1, <3>1
  <2> QED
    BY <2>1, <2>2, <2>3, <2>5 DEF Ahead
<1>10. Place(ks, <<>>, Tail(q), p2, Append(got, k), n + 1, b, c)
  <2>1. Received(Append(got, k), ks, n + 1)
    BY <1>4, ReceivesNext DEF Place
  <2>2. Midway(p2, Len(<<>>), ks[n + 1 + 1])
    BY DEF Midway
  <2>3. Ahead(<<>>, Tail(q), b, c[n + 1 + 1])
    <3>1. n + 1 + 1 = n + 2
      BY <1>4
    <3> QED
      BY <1>9, <3>1
  <2>4. \A j \in (n + 1) + 1..Len(ks) - 1 : ks[j] # "esc"
    <3>1. \A j \in (n + 1) + 1..Len(ks) - 1 : j \in n + 1..Len(ks) - 1
      BY <1>4, LenProperties
    <3> QED
      BY <3>1 DEF Place
  <2>5. Sent(b, c, ks)
    BY DEF Place
  <2> HIDE DEF k
  <2> QED
    BY <1>4, <2>1, <2>2, <2>3, <2>4, <2>5, Zenon DEF Place
<1> QED
  BY <1>4, <1>8, <1>10

\* When all bytes of a key were read and none ended it, it is an ESC.
LEMMA WholeIsEsc ==
    ASSUME NEW k \in Keys, NEW m \in Nat \ {0}, NEW p, Midway(p, m, k),
           Len(Encoding[k]) <= m
    PROVE  k = "esc" /\ Len(Encoding[k]) = 1 /\ m = 1
<1>1. CASE k = "wide"
  <2>1. Encoding[k] = <<"lead", "cont">>
    BY <1>1, Codes
  <2>2. Len(Encoding[k]) = 2
    BY <2>1
  <2> QED
    BY <1>1, <2>2 DEF Midway
<1>2. CASE k = "left"
  <2>1. Encoding[k] = <<"esc", "[", "D">>
    BY <1>2, Codes
  <2>2. Len(Encoding[k]) = 3
    BY <2>1
  <2> QED
    BY <1>2, <2>2 DEF Midway
<1>3. CASE k = "del"
  <2>1. Encoding[k] = <<"esc", "[", "3", "~">>
    BY <1>3, Codes
  <2>2. Len(Encoding[k]) = 4
    BY <2>1
  <2> QED
    BY <1>3, <2>2 DEF Midway
<1>4. CASE k = "esc"
  <2>1. Encoding[k] = <<k>>
    BY <1>4, Codes
  <2>2. Len(Encoding[k]) = 1
    BY <2>1
  <2> QED
    BY <1>4, <2>2 DEF Midway
<1>5. k \in {"wide", "esc", "left", "del"}
  BY DEF Midway
<1> QED
  BY <1>1, <1>2, <1>3, <1>4, <1>5

\* A wait that ends with nothing more to read: only an ESC is behind, and
\* whether it was received or not, the rest is in place.
LEMMA OnlyEscIsCut ==
    ASSUME NEW ks \in Seq(Keys), NEW r, NEW p, NEW got \in Seq(Keys), NEW n, NEW b, NEW c,
           Place(ks, r, <<>>, p, got, n, b, c), r # <<>>,
           NEW p2 \in {"first", "resizing"}
    PROVE  /\ "esc" \in Keys
           /\ Place(ks, <<>>, <<>>, p2, got, n + 1, b, c)
           /\ Place(ks, <<>>, <<>>, p2, Append(got, "esc"), n + 1, b, c)
<1> DEFINE k == ks[n + 1]
           e == Encoding[k]
<1>0. Len(<<>>) = 0 /\ <<>> \in Seq(Bytes)
  OBVIOUS
<1>1. /\ Ahead(r, <<>>, b, c[n + 1]) /\ Sent(b, c, ks) /\ Midway(p, Len(r), k)
      /\ Received(got, ks, n)
  BY DEF Place
<1>2. Len(r) \in Nat \ {0} /\ c[n + 1] + Len(r) = Len(b) /\ Len(b) \in Nat
  <2>1. r \in Seq(Bytes) /\ b \in Seq(Bytes) /\ c[n + 1] + Len(r) + 0 = Len(b)
    BY <1>0, <1>1 DEF Ahead, Sent
  <2>2. Len(r) \in Nat \ {0} /\ Len(b) \in Nat
    BY <2>1, LenProperties, EmptySeq
  <2>3. n # Len(ks)
    BY <2>2, AllBehind
  <2>4. c[n + 1] \in Nat
    BY <2>3, NextKey
  <2> QED
    BY <2>1, <2>2, <2>4
<1>3. n # Len(ks)
  BY <1>2, AllBehind
<1>4. /\ n \in 0..Len(ks) - 1 /\ n + 1 \in 0..Len(ks)
      /\ k \in Keys /\ c[n + 1] \in Nat
      /\ c[n + 2] = c[n + 1] + Len(e)
      /\ c[n + 2] <= Len(b)
  BY <1>3, NextKey
<1>5. k = "esc" /\ Len(e) = 1 /\ Len(r) = 1
  <2>1. Len(e) \in Nat /\ Len(e) <= Len(r)
    <3>1. Len(e) \in Nat
      BY <1>4, CodesAreBytes
    <3> HIDE DEF e, k
    <3> QED
      BY <1>2, <1>4, <3>1
  <2> QED
    BY <1>1, <1>2, <1>4, <2>1, WholeIsEsc
<1>6. Ahead(<<>>, <<>>, b, c[(n + 1) + 1])
  <2>2. c[n + 2] = Len(b) /\ c[n + 2] \in Nat
    <3> HIDE DEF e, k
    <3> QED
      BY <1>2, <1>4, <1>5
  <2>3. (n + 1) + 1 = n + 2
    BY <1>4
  <2> QED
    BY <1>0, <2>2, <2>3 DEF Ahead
<1>7. \A j \in (n + 1) + 1..Len(ks) - 1 : ks[j] # "esc"
  <2>1. \A j \in (n + 1) + 1..Len(ks) - 1 : j \in n + 1..Len(ks) - 1
    BY <1>4, LenProperties
  <2> QED
    BY <2>1 DEF Place
<1>8. Midway(p2, Len(<<>>), ks[(n + 1) + 1])
  BY <1>0 DEF Midway
<1>9. Received(got, ks, n + 1) /\ Received(Append(got, "esc"), ks, n + 1)
  BY <1>1, <1>4, <1>5, SkipsEsc, ReceivesNext
<1> QED
  BY <1>1, <1>4, <1>5, <1>6, <1>7, <1>8, <1>9, Zenon DEF Place

\* One more key is typed, and its bytes arrive together; if the last key was an
\* ESC, it is behind.
LEMMA OneMoreKey ==
    ASSUME NEW ks \in Seq(Keys), NEW r, NEW q, NEW p, NEW got \in Seq(Keys), NEW n, NEW b, NEW c,
           Place(ks, r, q, p, got, n, b, c), NEW k \in Keys,
           ks # <<>> /\ ks[Len(ks)] = "esc" => n = Len(ks)
    PROVE  \E b2, c2 : Place(Append(ks, k), r, q \o Encoding[k], p, got, n, b2, c2)
<1> DEFINE e   == Encoding[k]
           all == Append(ks, k)
           m   == Len(ks)
           b2  == b \o e
           c2  == [i \in 1..m + 2 |-> IF i = m + 2 THEN Len(b) + Len(e) ELSE c[i]]
<1>1. /\ n \in 0..m /\ Sent(b, c, ks) /\ Ahead(r, q, b, c[n + 1]) /\ Received(got, ks, n)
      /\ \A j \in n + 1..m - 1 : ks[j] # "esc"
      /\ Midway(p, Len(r), ks[n + 1])
  BY DEF Place
<1>0. e \in Seq(Bytes) /\ b \in Seq(Bytes) /\ r \in Seq(Bytes) /\ q \in Seq(Bytes)
  BY <1>1, CodesAreBytes DEF Sent, Ahead
<1>2. m \in Nat /\ Len(e) \in Nat /\ Len(b) \in Nat /\ Len(r) \in Nat /\ Len(q) \in Nat
  BY <1>0, LenProperties
<1>3. /\ all \in Seq(Keys) /\ Len(all) = m + 1 /\ all[m + 1] = k
      /\ \A j \in 1..m : all[j] = ks[j]
  BY AppendProperties
<1>4. /\ b2 \in Seq(Bytes) /\ Len(b2) = Len(b) + Len(e)
      /\ \A i \in 1..Len(b) : b2[i] = b[i]
      /\ \A i \in 1..Len(e) : b2[Len(b) + i] = e[i]
  <2> HIDE DEF e
  <2>1. \A i \in 1..Len(e) : Len(b) + i \in 1..Len(b) + Len(e) /\ Len(b) + i > Len(b)
                             /\ (Len(b) + i) - Len(b) = i
    BY <1>2
  <2>2. \A i \in 1..Len(b) : i \in 1..Len(b) + Len(e) /\ i <= Len(b)
    BY <1>2
  <2> QED
    BY <1>0, <2>1, <2>2, ConcatProperties
<1>5. /\ \A i \in 1..m + 1 : c2[i] = c[i] /\ c[i] \in 0..Len(b)
      /\ c2[m + 2] = Len(b) + Len(e)
  <2>1. \A i \in 1..m + 1 : i \in 1..m + 2 /\ i # m + 2
    BY <1>2
  <2>2. m + 2 \in 1..m + 2
    BY <1>2
  <2>3. \A i \in 1..m + 1 : c[i] \in 0..Len(b)
    BY <1>1 DEF Sent
  <2> QED
    BY <2>1, <2>2, <2>3
<1> HIDE DEF e, all, m, b2
<1>6. Sent(b2, c2, all)
  <2>1. c2 \in [1..Len(all) + 1 -> 0..Len(b2)]
    <3>1. \A i \in 1..m + 2 : i = m + 2 \/ i \in 1..m + 1
      BY <1>2
    <3>3. Len(all) + 1 = m + 2
      BY <1>2, <1>3
    <3>4. c2 = [i \in 1..m + 2 |-> c2[i]]
      OBVIOUS
    <3> HIDE DEF c2
    <3>5. 0..Len(b) \subseteq 0..Len(b2) /\ Len(b) + Len(e) \in 0..Len(b2)
      BY <1>2, <1>4
    <3>2. \A i \in 1..m + 2 : c2[i] \in 0..Len(b2)
      BY <1>5, <3>1, <3>5
    <3> QED
      BY <3>2, <3>3, <3>4
  <2> HIDE DEF c2
  <2>2. c2[1] = 0 /\ c2[Len(all) + 1] = Len(b2)
    <3>1. 1 \in 1..m + 1 /\ Len(all) + 1 = m + 2
      BY <1>2, <1>3
    <3> QED
      BY <1>1, <1>4, <1>5, <3>1 DEF Sent
  <2>3. ASSUME NEW j \in 1..m
        PROVE  /\ c2[j + 1] = c2[j] + Len(Encoding[all[j]])
               /\ \A i \in 1..Len(Encoding[all[j]]) : b2[c2[j] + i] = Encoding[all[j]][i]
    <3>1. j \in 1..m + 1 /\ j + 1 \in 1..m + 1 /\ all[j] = ks[j]
      BY <1>2, <1>3
    <3>2. /\ c[j + 1] = c[j] + Len(Encoding[ks[j]])
          /\ \A i \in 1..Len(Encoding[ks[j]]) : b[c[j] + i] = Encoding[ks[j]][i]
      BY <1>1 DEF Sent, m
    <3>3. Len(Encoding[ks[j]]) \in Nat
      <4>1. ks[j] \in Keys
        BY ElementOfSeq DEF m
      <4> QED
        BY <4>1, CodesAreBytes
    <3>4. \A i \in 1..Len(Encoding[ks[j]]) : c[j] + i \in 1..Len(b)
      <4> DEFINE l == Len(Encoding[ks[j]])
      <4>1. /\ c[j] \in Nat /\ c[j + 1] \in Nat /\ c[j + 1] <= Len(b)
            /\ c[j + 1] = c[j] + l /\ l \in Nat
        BY <1>2, <1>5, <3>1, <3>2, <3>3
      <4> HIDE DEF l
      <4>2. \A i \in 1..l : c[j] + i \in 1..Len(b)
        BY <1>2, <4>1
      <4> QED
        BY <4>2 DEF l
    <3> QED
      BY <1>4, <1>5, <3>1, <3>2, <3>4
  <2>4. /\ c2[m + 1 + 1] = c2[m + 1] + Len(Encoding[all[m + 1]])
        /\ \A i \in 1..Len(Encoding[all[m + 1]]) :
              b2[c2[m + 1] + i] = Encoding[all[m + 1]][i]
    <3>1. Encoding[all[m + 1]] = e /\ m + 1 + 1 = m + 2 /\ m + 1 \in 1..m + 1
      BY <1>2, <1>3 DEF e
    <3>2. c2[m + 1] = Len(b)
      BY <1>1, <1>5, <3>1 DEF Sent, m
    <3> QED
      BY <1>4, <1>5, <3>1, <3>2
  <2>5. \A j \in 1..Len(all) : j \in 1..m \/ j = m + 1
    BY <1>2, <1>3
  <2> QED
    BY <1>4, <2>1, <2>2, <2>3, <2>4, <2>5 DEF Sent
<1>7. Ahead(r, q \o e, b2, c2[n + 1])
  <2>1. n + 1 \in 1..m + 1
    BY <1>1, <1>2
  <2> HIDE DEF c2
  <2>2. c2[n + 1] = c[n + 1] /\ c[n + 1] \in Nat
    BY <1>2, <1>5, <2>1
  <2> DEFINE a == c[n + 1]
  <2>3. /\ a + Len(r) + Len(q) = Len(b)
        /\ \A i \in 1..Len(r) : r[i] = b[a + i]
        /\ \A i \in 1..Len(q) : q[i] = b[a + Len(r) + i]
    BY <1>1 DEF Ahead
  <2> HIDE DEF a
  <2>4. a \in Nat /\ c2[n + 1] = a
    BY <2>2 DEF a
  <2>9. a + Len(r) + Len(q) = Len(b)
    BY <2>3
  <2>5. /\ q \o e \in Seq(Bytes) /\ Len(q \o e) = Len(q) + Len(e)
        /\ \A i \in 1..Len(q) + Len(e) :
              (q \o e)[i] = IF i <= Len(q) THEN q[i] ELSE e[i - Len(q)]
    BY <1>0, ConcatProperties
  <2>6. \A i \in 1..Len(r) : r[i] = b2[a + i]
    <3>1. \A i \in 1..Len(r) : a + i \in 1..Len(b)
      BY <1>2, <2>3, <2>4
    <3> QED
      BY <1>4, <2>3, <3>1
  <2>7. \A i \in 1..Len(q) + Len(e) : (q \o e)[i] = b2[a + Len(r) + i]
    <3> TAKE i \in 1..Len(q) + Len(e)
    <3>1. CASE i <= Len(q)
      <4>1. i \in 1..Len(q) /\ a + Len(r) + i \in 1..Len(b)
        BY <1>2, <2>3, <2>4, <3>1
      <4> QED
        BY <1>4, <2>3, <2>5, <3>1, <4>1
    <3>2. CASE ~(i <= Len(q))
      <4>1. i - Len(q) \in 1..Len(e)
        BY <1>2, <3>2
      <4>2. a + Len(r) + i = Len(b) + (i - Len(q))
        <5>1. i \in Nat /\ a \in Nat
          BY <1>2, <2>4
        <5>2. \A x, y, z, s, t \in Nat : s = x + y + z => x + y + t = s + (t - z)
          OBVIOUS
        <5> QED
          BY <1>2, <2>9, <5>1, <5>2
      <4> QED
        BY <1>4, <2>5, <3>2, <4>1, <4>2
    <3> QED
      BY <3>1, <3>2
  <2>8. a + Len(r) + (Len(q) + Len(e)) = Len(b2)
    <3>1. Len(b2) = Len(b) + Len(e)
      BY <1>4
    <3>2. \A x, y, z, s, t \in Nat : s = x + y + z => x + y + (z + t) = s + t
      OBVIOUS
    <3>3. a \in Nat
      BY <2>4
    <3> QED
      BY <1>2, <2>9, <3>1, <3>2, <3>3
  <2> QED
    BY <1>0, <2>4, <2>5, <2>6, <2>7, <2>8 DEF Ahead
<1>8. Received(got, all, n)
  BY <1>1, MoreTyped DEF all, m
<1>9. \A j \in n + 1..Len(all) - 1 : all[j] # "esc"
  <2> TAKE j \in n + 1..Len(all) - 1
  <2>1. j \in 1..m /\ j \in n + 1..m /\ all[j] = ks[j]
    BY <1>1, <1>2, <1>3
  <2>2. CASE j = m
    <3>1. ks # <<>> /\ n # m
      BY <1>1, <1>2, <2>1, <2>2, EmptySeq DEF m
    <3> QED
      BY <2>1, <2>2, <3>1 DEF m
  <2>3. CASE j # m
    <3>1. j \in n + 1..m - 1
      BY <1>1, <1>2, <2>1, <2>3
    <3> QED
      BY <1>1, <2>1, <3>1
  <2> QED
    BY <2>2, <2>3
<1>10. Midway(p, Len(r), all[n + 1])
  <2>1. CASE n = m
    <3>1. Len(r) = 0
      BY <2>1, AllBehind DEF m
    <3> QED
      BY <1>1, <3>1 DEF Midway
  <2>2. CASE n # m
    <3>1. n + 1 \in 1..m
      BY <1>1, <1>2, <2>2
    <3> QED
      BY <1>1, <1>3, <3>1
  <2> QED
    BY <2>1, <2>2
<1>11. Place(all, r, q \o e, p, got, n, b2, c2)
  <2> HIDE DEF c2
  <2>1. n \in 0..Len(all)
    BY <1>1, <1>2, <1>3
  <2> QED
    BY <1>6, <1>7, <1>8, <1>9, <1>10, <2>1, Zenon DEF Place
<1> QED
  BY <1>11, Zenon DEF all, e

-----------------------------------------------------------------------------
(***************************************************************************)
(* OnTheKey is an invariant.                                               *)
(***************************************************************************)

\* A key that is returned is received; "resize" is none.
LEMMA ReturnedKeys ==
    ASSUME Inv, ui # "over", NEW key, Return(key)
    PROVE  /\ read' = <<>> /\ pc' \in {"first", "resizing"}
           /\ key \in Keys => keys' = Append(keys, key)
           /\ key = "resize" => keys' = keys
<1>1. key \in Keys => Real(key)
  BY Codes DEF Real
<1>2. key = "resize" => ~Real(key)
  BY DEF Real
<1>3. keys' = IF Real(key) THEN Append(keys, key) ELSE keys
  BY DEF Return
<1>4. read' = <<>> /\ pc' \in {"first", "resizing"}
  BY ReturnKeepsTypes
<1> QED
  BY <1>1, <1>2, <1>3, <1>4

\* A byte is read.
LEMMA ReadByteKeepsPlace ==
    ASSUME Inv, keys \in Seq(Keys), ReadByte,
           NEW n, NEW b, NEW c, Place(typed, read, queue, pc, keys, n, b, c)
    PROVE  keys' \in Seq(Keys) /\ \E m : Place(typed', read', queue', pc', keys', m, b, c)
<1>1. /\ typed \in Seq(Keys) /\ ui # "over" /\ queue # <<>>
      /\ pc \in {"first", "rest", "intro", "params"}
      /\ queue' = Tail(queue) /\ typed' = typed
  BY DEF ReadByte, Reading, Inv, TypeOK, user
<1>2. CASE After(Head(queue)) = "done"
  <2>1. Return(Decoded(Append(read, Head(queue))))
    BY <1>2 DEF ReadByte
  <2>2. read' = <<>> /\ pc' \in {"first", "resizing"}
    BY <1>1, <2>1, ReturnedKeys
  <2>3. PICK k \in Keys : /\ Decoded(Append(read, Head(queue))) = k
                          /\ Place(typed, <<>>, Tail(queue), pc', Append(keys, k), n + 1, b, c)
    BY <1>1, <1>2, <2>2, ByteEndsKey
  <2>4. keys' = Append(keys, k)
    BY <1>1, <2>1, <2>3, ReturnedKeys
  <2>5. keys' \in Seq(Keys)
    BY <2>4, AppendProperties
  <2> QED
    BY <1>1, <2>2, <2>3, <2>4, <2>5
<1>3. CASE After(Head(queue)) # "done"
  <2>1. /\ pc' = After(Head(queue)) /\ read' = Append(read, Head(queue))
        /\ keys' = keys
    BY <1>3 DEF ReadByte, loop
  <2>2. Place(typed, Append(read, Head(queue)), Tail(queue), After(Head(queue)), keys, n, b, c)
    BY <1>1, <1>3, ByteLeadsOn
  <2> QED
    BY <1>1, <2>1, <2>2
<1> QED
  BY <1>2, <1>3

\* ReadKey returns with nothing more to read: for a resize, or for an ESC.
LEMMA CutKeepsPlace ==
    ASSUME Inv, keys \in Seq(Keys), ui # "over", queue = <<>>, queue' = queue, typed' = typed,
           NEW key, Return(key), key = "resize" \/ (key = "esc" /\ read # <<>>),
           NEW n, NEW b, NEW c, Place(typed, read, queue, pc, keys, n, b, c)
    PROVE  keys' \in Seq(Keys) /\ \E m : Place(typed', read', queue', pc', keys', m, b, c)
<1>1. typed \in Seq(Keys)
  BY DEF Inv, TypeOK
<1>2. read' = <<>> /\ pc' \in {"first", "resizing"}
  BY ReturnedKeys
<1>3. CASE read # <<>>
  <2>1. /\ "esc" \in Keys
        /\ Place(typed, <<>>, <<>>, pc', keys, n + 1, b, c)
        /\ Place(typed, <<>>, <<>>, pc', Append(keys, "esc"), n + 1, b, c)
    BY <1>1, <1>2, <1>3, OnlyEscIsCut
  <2>2. keys' = keys \/ keys' = Append(keys, "esc")
    BY <2>1, ReturnedKeys
  <2>3. keys' \in Seq(Keys)
    BY <2>1, <2>2, AppendProperties
  <2> QED
    BY <1>2, <2>1, <2>2, <2>3
<1>4. CASE read = <<>>
  <2>1. key = "resize"
    BY <1>4
  <2>2. keys' = keys
    BY <2>1, ReturnedKeys
  <2>3. Midway(pc', Len(read'), typed[n + 1])
    BY <1>2 DEF Midway
  <2>4. Place(typed, read', queue, pc', keys, n, b, c)
    BY <1>2, <1>4, <2>3 DEF Place
  <2> QED
    BY <2>2, <2>4
<1> QED
  BY <1>3, <1>4

\* More bytes arrived after an ESC: it begins a sequence.
LEMMA AvailableKeepsPlace ==
    ASSUME Inv, Available, ~closed,
           NEW n, NEW b, NEW c, Place(typed, read, queue, pc, keys, n, b, c)
    PROVE  Place(typed, read, queue, "intro", keys, n, b, c)
<1>1. typed \in Seq(Keys) /\ pc = "wait" /\ queue # <<>>
  BY DEF Available, Inv, TypeOK
<1>2. Midway(pc, Len(read), typed[n + 1])
  BY DEF Place
<1>3. Len(read) = 1 /\ typed[n + 1] \in {"esc", "left", "del"}
  BY <1>1, <1>2 DEF Midway
<1>4. typed[n + 1] # "esc"
  <2>1. Ahead(read, queue, b, c[n + 1])
    BY DEF Place
  <2>2. Len(queue) \in Nat \ {0}
    BY <1>1, <2>1, EmptySeq DEF Ahead
  <2>3. n # Len(typed)
    BY <1>1, <2>2, AllBehind
  <2>4. n \in 0..Len(typed) - 1
    BY <1>1, <2>3, NextKey
  <2>5. CASE n = Len(typed) - 1
    <3>1. ASSUME typed[n + 1] = "esc"
          PROVE  FALSE
      <4>1. Len(read) + Len(queue) = Len(Encoding[typed[n + 1]])
        <5>1. n + 2 = Len(typed) + 1
          BY <2>4, <2>5
        <5>2. c[n + 2] = Len(b)
          BY <5>1 DEF Place, Sent
        <5>3. /\ c[n + 2] = c[n + 1] + Len(Encoding[typed[n + 1]])
              /\ c[n + 1] \in Nat /\ typed[n + 1] \in Keys
          BY <1>1, <2>3, NextKey
        <5>4. c[n + 1] + Len(read) + Len(queue) = Len(b)
          BY <2>1 DEF Ahead
        <5>5. Len(Encoding[typed[n + 1]]) \in Nat
          BY <5>3, CodesAreBytes
        <5> QED
          BY <1>3, <2>2, <5>2, <5>3, <5>4, <5>5
      <4>2. typed[n + 1] \in Keys
        BY <1>1, <2>3, NextKey
      <4>3. Encoding[typed[n + 1]] = <<typed[n + 1]>>
        BY <3>1, <4>2, Codes
      <4>4. Len(Encoding[typed[n + 1]]) = 1
        BY <4>3
      <4> QED
        BY <1>3, <2>2, <4>1, <4>4
    <3> QED
      BY <3>1
  <2>6. CASE n # Len(typed) - 1
    <3>1. n + 1 \in n + 1..Len(typed) - 1
      BY <2>4, <2>6
    <3> QED
      BY <3>1 DEF Place
  <2> QED
    BY <2>5, <2>6
<1>5. Midway("intro", Len(read), typed[n + 1])
  BY <1>3, <1>4 DEF Midway
<1> QED
  BY <1>5 DEF Place

\* A key is typed, and its bytes arrive together.
LEMMA TypeKeepsPlace ==
    ASSUME Inv, keys \in Seq(Keys), NEW k \in Keys, NEW m \in 1..Len(Encoding[k]), Type(k, m),
           clean', NEW n, NEW b, NEW c, Place(typed, read, queue, pc, keys, n, b, c)
    PROVE  delayed' = <<>> /\ \E b2, c2 : Place(typed', read, queue', pc, keys, n, b2, c2)
<1> DEFINE e == Encoding[k]
<1>1. /\ typed \in Seq(Keys) /\ typed' = Append(typed, k) /\ delayed' = <<>> /\ ~Rushed
      /\ queue' = queue \o SubSeq(e, 1, m)
      /\ delayed' = SubSeq(e, m + 1, Len(e))
      /\ read = <<>> <=> pc \notin {"rest", "wait", "intro", "params"}
  BY DEF Type, Inv, TypeOK
<1>2. e \in Seq(Bytes) /\ Len(e) \in Nat
  BY CodesAreBytes
<1> HIDE DEF e
<1>3. m \in 1..Len(e)
  BY DEF e
<1>4. m = Len(e)
  <2>1. \A i \in m + 1..Len(e) : e[i] \in Bytes
    <3>1. \A i \in m + 1..Len(e) : i \in 1..Len(e)
      BY <1>2, <1>3
    <3> QED
      BY <1>2, <3>1, ElementOfSeq
  <2>2. Len(SubSeq(e, m + 1, Len(e))) = IF m + 1 <= Len(e) THEN Len(e) - (m + 1) + 1 ELSE 0
    BY <1>2, <1>3, <2>1, SubSeqProperties
  <2>3. Len(SubSeq(e, m + 1, Len(e))) = 0
    <3>1. Len(<<>>) = 0
      OBVIOUS
    <3> QED
      BY <1>1, <3>1
  <2> QED
    BY <1>2, <1>3, <2>2, <2>3
<1>5. queue' = queue \o e
  BY <1>1, <1>2, <1>4, SubSeqFull
<1>6. typed # <<>> /\ typed[Len(typed)] = "esc" => n = Len(typed)
  <2> HAVE typed # <<>> /\ typed[Len(typed)] = "esc"
  <2>1. queue = <<>> /\ pc = "first"
    BY <1>1 DEF Rushed
  <2>2. Len(read) = 0 /\ Len(queue) = 0
    BY <1>1, <2>1
  <2> QED
    BY <1>1, <2>2, AllBehind
<1>7. \E b2, c2 : Place(Append(typed, k), read, queue \o Encoding[k], pc, keys, n, b2, c2)
  BY <1>1, <1>6, OneMoreKey
<1> QED
  BY <1>1, <1>5, <1>7 DEF e

LEMMA OnTheKeyStep ==
    ASSUME Inv, OnTheKey, [Next]_vars
    PROVE  OnTheKey'
<1> SUFFICES ASSUME clean', ~closed'
             PROVE  /\ delayed' = <<>> /\ keys' \in Seq(Keys)
                    /\ \E n, b, c : Place(typed', read', queue', pc', keys', n, b, c)
  BY DEF OnTheKey
<1> USE DEF user, signal, loop
<1>1. CASE UNCHANGED vars
  BY <1>1 DEF vars, OnTheKey
<1>2. CASE Next
  <2>1. clean /\ ~closed
    <3>1. CASE Loop
      <4>1. UNCHANGED <<clean, closed>>
        BY <3>1, Zenon DEF Loop, ReadByte, ReadEof, Available, Timeout, ClearPending,
                           UpdateSize, Draw
      <4> QED
        BY <4>1, Zenon
    <3>2. ASSUME NEW k \in Keys, NEW m \in 1..Len(Encoding[k]), Type(k, m)
          PROVE  clean /\ ~closed
      BY <3>2 DEF Type
    <3>3. CASE Close
      BY <3>3 DEF Close
    <3>4. CASE Arrive \/ ResizeUnnoticed \/ ResizeInterrupts
      <4>1. UNCHANGED <<clean, closed>>
        BY <3>4, Zenon DEF Arrive, ResizeUnnoticed, ResizeInterrupts
      <4> QED
        BY <4>1, Zenon
    <3> QED
      BY <1>2, <3>1, <3>2, <3>3, <3>4 DEF Next
  <2>2. delayed = <<>> /\ keys \in Seq(Keys)
    BY <2>1 DEF OnTheKey
  <2>3. PICK n, b, c : Place(typed, read, queue, pc, keys, n, b, c)
    BY <2>1 DEF OnTheKey
  <2>4. CASE ReadByte
    BY <2>2, <2>3, <2>4, ReadByteKeepsPlace DEF ReadByte
  <2>5. CASE ReadEof
    BY <2>1, <2>5 DEF ReadEof
  <2>6. CASE Available
    BY <2>1, <2>2, <2>3, <2>6, AvailableKeepsPlace DEF Available
  <2>7. CASE Timeout
    <3>1. /\ ui # "over" /\ queue = <<>> /\ queue' = queue /\ typed' = typed /\ delayed' = delayed
          /\ read # <<>>
      BY <2>7 DEF Timeout, Inv, TypeOK
    <3>2. PICK key : Return(key) /\ key \in {"resize", "esc"}
      BY <2>7 DEF Timeout
    <3> QED
      BY <2>2, <2>3, <3>1, <3>2, CutKeepsPlace
  <2>8. CASE ClearPending \/ UpdateSize \/ Draw
    <3>1. /\ UNCHANGED <<typed, delayed, read, queue, keys>>
          /\ pc \notin {"rest", "wait", "intro", "params"}
          /\ pc' \in {"first", "measuring", "drawing"}
      BY <2>8 DEF ClearPending, UpdateSize, Draw
    <3>2. read = <<>>
      BY <3>1 DEF Inv, TypeOK
    <3>3. Midway(pc', Len(read), typed[n + 1])
      BY <3>1, <3>2 DEF Midway
    <3>4. Place(typed, read, queue, pc', keys, n, b, c)
      BY <2>3, <3>3 DEF Place
    <3> QED
      BY <2>2, <3>1, <3>4
  <2>9. ASSUME NEW k \in Keys, NEW m \in 1..Len(Encoding[k]), Type(k, m)
        PROVE  /\ delayed' = <<>> /\ keys' \in Seq(Keys)
               /\ \E b2, c2 : Place(typed', read', queue', pc', keys', n, b2, c2)
    <3>1. UNCHANGED <<pc, read, keys>>
      BY <2>9 DEF Type
    <3> QED
      BY <2>2, <2>3, <2>9, <3>1, TypeKeepsPlace
  <2>10. CASE Arrive
    BY <2>2, <2>10 DEF Arrive
  <2>11. CASE Close
    BY <2>11 DEF Close
  <2>12. CASE ResizeUnnoticed
    BY <2>2, <2>3, <2>12 DEF ResizeUnnoticed
  <2>13. CASE ResizeInterrupts
    <3>1. /\ ui # "over" /\ queue = <<>> /\ queue' = queue /\ typed' = typed /\ delayed' = delayed
          /\ Return("resize")
      BY <2>13 DEF ResizeInterrupts, Reading
    <3> QED
      BY <2>2, <2>3, <3>1, CutKeepsPlace
  <2> QED
    BY <1>2, <2>4, <2>5, <2>6, <2>7, <2>8, <2>9, <2>10, <2>11, <2>12, <2>13 DEF Next, Loop
<1> QED
  BY <1>1, <1>2

LEMMA OnTheKeyInit == Init => OnTheKey
<1> SUFFICES ASSUME Init
             PROVE  OnTheKey
  OBVIOUS
<1> DEFINE c == [i \in 1..1 |-> 0]
<1>1. typed = <<>> /\ queue = <<>> /\ read = <<>> /\ keys = <<>> /\ delayed = <<>> /\ pc = "first"
  BY DEF Init
<1>2. <<>> \in Seq(Bytes) /\ <<>> \in Seq(Keys) /\ Len(<<>>) = 0
  OBVIOUS
<1>3. c \in [1..0 + 1 -> 0..0] /\ c[1] = 0
  OBVIOUS
<1> HIDE DEF c
<1>4. Sent(<<>>, c, <<>>)
  BY <1>2, <1>3 DEF Sent
<1>5. Ahead(<<>>, <<>>, <<>>, c[0 + 1])
  BY <1>2, <1>3 DEF Ahead
<1>6. Received(<<>>, <<>>, 0)
  <2> DEFINE at == [i \in DOMAIN <<>> |-> 0]
  <2>1. DOMAIN <<>> = {}
    OBVIOUS
  <2>2. at \in [DOMAIN <<>> -> 1..0]
    BY <2>1
  <2>3. 1..0 = {}
    OBVIOUS
  <2> QED
    BY <2>1, <2>2, <2>3 DEF Received
<1>7. Midway("first", 0, <<>>[0 + 1])
  BY DEF Midway
<1>8. 0 \in 0..0 /\ \A j \in 0 + 1..0 - 1 : <<>>[j] # "esc"
  OBVIOUS
<1>9. Place(<<>>, <<>>, <<>>, "first", <<>>, 0, <<>>, c)
  BY <1>2, <1>4, <1>5, <1>6, <1>7, <1>8 DEF Place
<1> QED
  BY <1>1, <1>2, <1>9 DEF OnTheKey

LEMMA OnTheKeyIsEnough ==
    ASSUME Inv, OnTheKey
    PROVE  KeysArriveAsTyped
<1> SUFFICES ASSUME clean, ~closed, pc = "first", queue = <<>>
             PROVE  ButForEsc(keys, typed)
  BY DEF KeysArriveAsTyped
<1>1. typed \in Seq(Keys) /\ read = <<>>
  BY DEF Inv, TypeOK
<1>2. PICK n, b, c : Place(typed, read, queue, pc, keys, n, b, c)
  BY DEF OnTheKey
<1>3. n = Len(typed)
  <2>1. Len(read) = 0 /\ Len(queue) = 0
    BY <1>1
  <2> QED
    BY <1>1, <1>2, <2>1, AllBehind
<1>4. Received(keys, typed, Len(typed)) /\ DOMAIN typed = 1..Len(typed)
  BY <1>1, <1>2, <1>3, LenProperties DEF Place
<1> QED
  BY <1>4 DEF Received, ButForEsc

\* Keys are decoded as typed and in order, whatever bytes are waiting and
\* whenever the window changes, as long as the bytes of a key arrive together
\* and ESC is given its 50 ms; only an ESC may be missing.
THEOREM KeysStayAsTyped == Spec => []KeysArriveAsTyped
<1>1. Inv /\ OnTheKey /\ [Next]_vars => OnTheKey'
  BY OnTheKeyStep
<1>2. Inv /\ OnTheKey => KeysArriveAsTyped
  BY OnTheKeyIsEnough
<1> QED
  BY <1>1, <1>2, TerminalInvariance, OnTheKeyInit, PTL DEF Spec

=============================================================================
