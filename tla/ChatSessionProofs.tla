------------------------- MODULE ChatSessionProofs -------------------------
(***************************************************************************)
(* The safety properties of ChatSession hold for every set of files, every *)
(* limit on tool rounds and every bound: Inv is inductive.                 *)
(*                                                                         *)
(* Three lemmas share the step: what concerns the threads and the loop of  *)
(* the query (ControlStep), the body (BodyStep), and the exchange in       *)
(* progress (ExchangeStep).  They rest on lemmas about what the operators  *)
(* of Dialogue return and preserve, for every sequence of messages.        *)
(***************************************************************************)
EXTENDS ChatSession, SequenceTheorems, FiniteSetTheorems, FunctionTheorems,
        WellFoundedInduction, TLAPS

-----------------------------------------------------------------------------
(***************************************************************************)
(* Choices: each CHOOSE of the module has a witness.                       *)
(***************************************************************************)

\* A non-empty set of naturals has a smallest element.
LEMMA SmallestNat ==
    ASSUME NEW T, T \subseteq Nat, T # {}
    PROVE  \E x \in T : \A y \in T : x <= y
<1> DEFINE R == OpToRel(<, Nat)
<1>1. IsWellFoundedOn(R, Nat)
    BY NatLessThanWellFounded
<1>2. \A a, b \in Nat : a < b => <<a, b>> \in R
    BY DEF OpToRel
<1> HIDE DEF R
<1>3. PICK x \in T : \A y \in T : <<y, x>> \notin R
    BY <1>1, WFMin
<1>4. \A y \in T : ~(y < x)
    BY <1>2, <1>3
<1> QED BY <1>4

\* There is a last user message, or none and the place is 0 (RemoveLastExchange).
LEMMA LastUserPlace ==
    ASSUME NEW ms \in Seq(Message)
    PROVE  /\ LastUser(ms) \in 0..Len(ms)
           /\ LastUser(ms) # 0 => HasRole(ms, LastUser(ms), "user")
           /\ \A j \in (LastUser(ms) + 1)..Len(ms) : ~HasRole(ms, j, "user")
<1> DEFINE Quiet(i) == \A j \in (i + 1)..Len(ms) : ~HasRole(ms, j, "user")
           T == {i \in Nat : i <= Len(ms) /\ Quiet(i)}
<1>1. Len(ms) \in Nat
    BY LenProperties
<1>2. Len(ms) \in T
    BY <1>1
<1>3. PICK x \in T : \A y \in T : x <= y
    <2> HIDE DEF T
    <2>1. T \subseteq Nat
        BY DEF T
    <2> QED BY <1>2, <2>1, SmallestNat
<1>4. x # 0 => HasRole(ms, x, "user")
    <2> SUFFICES ASSUME x # 0, ~HasRole(ms, x, "user") PROVE FALSE
        OBVIOUS
    <2>1. x - 1 \in Nat /\ x - 1 <= Len(ms)
        BY <1>1
    <2>2. Quiet(x - 1)
        BY <1>1
    <2>3. x - 1 \in T
        BY <2>1, <2>2
    <2>4. x <= x - 1
        <3> HIDE DEF T
        <3> QED BY <2>3, <1>3
    <2> QED BY <2>4, <2>1
<1>5. \E i \in 0..Len(ms) : (i # 0 => HasRole(ms, i, "user")) /\ Quiet(i)
    BY <1>1, <1>4
<1> QED BY <1>5 DEF LastUser

-----------------------------------------------------------------------------
(***************************************************************************)
(* Survivors: the k-th message that is not a system message.               *)
(***************************************************************************)

\* No more messages survive than there are, and extending the prefix loses none.
LEMMA SurvivorsMonotone ==
    ASSUME NEW ms, NEW i \in Nat, NEW j \in Nat, i <= j
    PROVE  /\ Survivors(ms, i) \in 0..i
           /\ Survivors(ms, i) <= Survivors(ms, j)
<1> DEFINE Set(n) == {k \in 1..n : ~HasRole(ms, k, "system")}
<1>1. ASSUME NEW n \in Nat PROVE IsFiniteSet(Set(n)) /\ Cardinality(Set(n)) \in 0..n
    <2>1. IsFiniteSet(1..n) /\ Cardinality(1..n) = n
        BY FS_Interval
    <2>2. Set(n) \in SUBSET (1..n)
        OBVIOUS
    <2>3. IsFiniteSet(Set(n)) /\ Cardinality(Set(n)) <= n
        BY <2>1, <2>2, FS_Subset
    <2>4. Cardinality(Set(n)) \in Nat
        BY <2>3, FS_CardinalityType
    <2> QED BY <2>3, <2>4
<1>2. Set(i) \in SUBSET Set(j)
    OBVIOUS
<1>3. Cardinality(Set(i)) <= Cardinality(Set(j))
    <2> HIDE DEF Set
    <2> QED BY <1>1, <1>2, FS_Subset
<1> QED BY <1>1, <1>3 DEF Survivors

\* A run of n messages that all survive moves the count by n.
LEMMA SurvivorsRun ==
    ASSUME NEW ms, NEW i \in Nat, NEW n \in Nat,
           \A j \in (i + 1)..(i + n) : ~HasRole(ms, j, "system")
    PROVE  Survivors(ms, i + n) = Survivors(ms, i) + n
<1> DEFINE Set(m) == {k \in 1..m : ~HasRole(ms, k, "system")}
<1>1. Set(i + n) = Set(i) \cup (i + 1)..(i + n)
    OBVIOUS
<1>2. Set(i) \cap ((i + 1)..(i + n)) = {}
    OBVIOUS
<1>3. IsFiniteSet(Set(i)) /\ Cardinality(Set(i)) \in Nat
    <2>1. IsFiniteSet(1..i)
        BY FS_Interval
    <2>2. Set(i) \in SUBSET (1..i)
        OBVIOUS
    <2>3. IsFiniteSet(Set(i))
        BY <2>1, <2>2, FS_Subset
    <2> QED BY <2>3, FS_CardinalityType
<1>4. IsFiniteSet((i + 1)..(i + n)) /\ Cardinality((i + 1)..(i + n)) = n
    BY FS_Interval
<1>5. Cardinality(Set(i + n)) = Cardinality(Set(i)) + n
    <2> HIDE DEF Set
    <2>1. Cardinality(Set(i + n)) = Cardinality(Set(i)) + n - Cardinality({})
        BY <1>1, <1>2, <1>3, <1>4, FS_Union
    <2> QED BY <2>1, <1>3, FS_EmptySet
<1> QED BY <1>5 DEF Survivors

\* A system message does not move the count.
LEMMA SurvivorsSkip ==
    ASSUME NEW ms, NEW i \in Nat, HasRole(ms, i + 1, "system")
    PROVE  Survivors(ms, i + 1) = Survivors(ms, i)
<1>1. {k \in 1..(i + 1) : ~HasRole(ms, k, "system")} = {k \in 1..i : ~HasRole(ms, k, "system")}
    OBVIOUS
<1> QED BY <1>1 DEF Survivors

\* The count tells the survivors apart.
LEMMA SurvivorsInjective ==
    ASSUME NEW ms, NEW i \in Nat, NEW j \in Nat, i < j, ~HasRole(ms, j, "system")
    PROVE  Survivors(ms, i) < Survivors(ms, j)
<1>1. j - 1 \in Nat /\ i <= j - 1
    OBVIOUS
<1>2. Survivors(ms, i) \in Nat /\ Survivors(ms, i) <= Survivors(ms, j - 1)
    BY <1>1, SurvivorsMonotone
<1>3. Survivors(ms, j - 1) \in Nat
    BY <1>1, SurvivorsMonotone
<1>4. \A k \in ((j - 1) + 1)..((j - 1) + 1) : ~HasRole(ms, k, "system")
    OBVIOUS
<1>5. Survivors(ms, (j - 1) + 1) = Survivors(ms, j - 1) + 1
    BY <1>1, <1>4, SurvivorsRun
<1>6. (j - 1) + 1 = j
    OBVIOUS
<1> QED BY <1>2, <1>3, <1>5, <1>6

\* Survivor(ms, k) is the k-th surviving message.
LEMMA SurvivorPlace ==
    ASSUME NEW ms \in Seq(Message), NEW k \in 1..Survivors(ms, Len(ms))
    PROVE  /\ Survivor(ms, k) \in 1..Len(ms)
           /\ ~HasRole(ms, Survivor(ms, k), "system")
           /\ Survivors(ms, Survivor(ms, k)) = k
<1> DEFINE T == {i \in Nat : i <= Len(ms) /\ k <= Survivors(ms, i)}
<1>0. Len(ms) \in Nat
    BY LenProperties
<1>1. Len(ms) \in T
    BY <1>0
<1>2. PICK i \in T : \A y \in T : i <= y
    <2>1. T \subseteq Nat
        OBVIOUS
    <2> HIDE DEF T
    <2> QED BY <1>1, <2>1, SmallestNat
<1>3. i \in Nat /\ i <= Len(ms) /\ k <= Survivors(ms, i)
    OBVIOUS
<1>4. Survivors(ms, 0) = 0
    <2>1. Survivors(ms, 0) \in 0..0
        BY SurvivorsMonotone
    <2> QED BY <2>1
<1>5. i # 0
    BY <1>3, <1>4
<1>6. i - 1 \in Nat /\ (i - 1) + 1 = i
    BY <1>3, <1>5
<1>7. i - 1 \notin T
    <2>1. i - 1 \in T => i <= i - 1
        <3> HIDE DEF T
        <3> QED BY <1>2
    <2> QED BY <2>1, <1>3
<1>8. Survivors(ms, i - 1) \in Nat /\ Survivors(ms, i - 1) < k
    <2>1. Survivors(ms, i - 1) \in Nat
        BY <1>6, SurvivorsMonotone
    <2>2. ~(k <= Survivors(ms, i - 1))
        BY <1>7, <1>6, <1>3, <1>0
    <2>3. k \in Nat
        OBVIOUS
    <2> QED BY <2>1, <2>2, <2>3
<1>9. ~HasRole(ms, i, "system")
    BY <1>3, <1>6, <1>8, SurvivorsSkip
<1>10. Survivors(ms, i) = Survivors(ms, i - 1) + 1
    <2>1. \A j \in ((i - 1) + 1)..((i - 1) + 1) : ~HasRole(ms, j, "system")
        BY <1>9, <1>6
    <2> QED BY <2>1, <1>6, SurvivorsRun
<1>11. Survivors(ms, i) = k
    BY <1>3, <1>8, <1>10
<1>12. \E m \in 1..Len(ms) : ~HasRole(ms, m, "system") /\ Survivors(ms, m) = k
    BY <1>3, <1>5, <1>9, <1>11, <1>0
<1> QED BY <1>12 DEF Survivor

\* A surviving message is the Survivor of its count.
LEMMA SurvivorOf ==
    ASSUME NEW ms \in Seq(Message), NEW i \in 1..Len(ms), ~HasRole(ms, i, "system")
    PROVE  /\ Survivors(ms, i) \in 1..Survivors(ms, Len(ms))
           /\ Survivor(ms, Survivors(ms, i)) = i
<1>0. Len(ms) \in Nat
    BY LenProperties
<1>1. 0 \in Nat /\ 0 < i /\ i \in Nat
    OBVIOUS
<1>2. Survivors(ms, 0) \in 0..0
    BY SurvivorsMonotone
<1>3. Survivors(ms, 0) < Survivors(ms, i)
    BY <1>1, SurvivorsInjective
<1>4. Survivors(ms, i) \in 0..i /\ Survivors(ms, i) <= Survivors(ms, Len(ms))
    BY <1>0, <1>1, SurvivorsMonotone
<1>5. Survivors(ms, Len(ms)) \in 0..Len(ms)
    BY <1>0, SurvivorsMonotone
<1>6. Survivors(ms, i) \in 1..Survivors(ms, Len(ms))
    BY <1>2, <1>3, <1>4, <1>5
<1> DEFINE m == Survivor(ms, Survivors(ms, i))
<1>7. m \in 1..Len(ms) /\ ~HasRole(ms, m, "system") /\ Survivors(ms, m) = Survivors(ms, i)
    BY <1>6, SurvivorPlace
<1>8. m \in Nat
    BY <1>7, <1>0
<1> HIDE DEF m
<1>9. ~(i < m) /\ ~(m < i)
    <2>1. i < m => Survivors(ms, i) < Survivors(ms, m)
        BY <1>1, <1>7, <1>8, SurvivorsInjective
    <2>2. m < i => Survivors(ms, m) < Survivors(ms, i)
        BY <1>1, <1>7, <1>8, SurvivorsInjective
    <2> QED BY <2>1, <2>2, <1>7, <1>4
<1>10. m = i
    BY <1>9, <1>8, <1>1
<1> QED BY <1>6, <1>10 DEF m

-----------------------------------------------------------------------------
(***************************************************************************)
(* Each operation returns a sequence of messages, keeps it well formed and *)
(* keeps the system message in front.                                      *)
(***************************************************************************)

\* The messages the operations add are messages, with these roles and calls.
LEMMA AddedMessages ==
    /\ SystemMsg \in Message /\ SystemMsg.role = "system" /\ SystemMsg.calls = 0
    /\ UserMsg \in Message /\ UserMsg.role = "user" /\ UserMsg.calls = 0
    /\ ReplyMsg \in Message /\ ReplyMsg.role = "assistant" /\ ReplyMsg.calls = 0
    /\ \A text \in BOOLEAN :
          SummaryMsg(text) \in Message /\ SummaryMsg(text).role = "assistant" /\ SummaryMsg(text).calls = 0
    /\ \A n \in Nat :
          CallsMsg(n) \in Message /\ CallsMsg(n).role = "assistant" /\ CallsMsg(n).calls = n
    /\ \A r \in ToolResponse :
          ResultMsg(r) \in Message /\ ResultMsg(r).role = "tool" /\ ResultMsg(r).calls = 0
BY DEF SystemMsg, UserMsg, ReplyMsg, SummaryMsg, CallsMsg, ResultMsg, Plain, Message,
       Roles, Contents, ToolResponse

\* Every element of a dialogue is a message.
LEMMA MessageAt ==
    ASSUME NEW ms \in Seq(Message), NEW i \in 1..Len(ms)
    PROVE  ms[i] \in Message /\ ms[i].calls \in Nat
<1>1. ms[i] \in Message
    BY ElementOfSeq
<1> QED BY <1>1 DEF Message

\* A message that neither calls tools nor carries a result can follow any dialogue.
LEMMA WellFormedAppend ==
    ASSUME NEW ms \in Seq(Message), WellFormed(ms),
           NEW m \in Message, m.calls = 0, m.role # "tool"
    PROVE  /\ Append(ms, m) \in Seq(Message)
           /\ WellFormed(Append(ms, m))
           /\ SystemFirst(ms) => SystemFirst(Append(ms, m))
<1> DEFINE new == Append(ms, m)
<1>0. Len(ms) \in Nat /\ DOMAIN ms = 1..Len(ms)
    BY LenProperties
<1>1. /\ new \in Seq(Message) /\ Len(new) = Len(ms) + 1
      /\ \A i \in 1..Len(ms) : new[i] = ms[i]
      /\ new[Len(ms) + 1] = m
    BY AppendProperties
<1>2. DOMAIN new = 1..(Len(ms) + 1)
    BY <1>1, LenProperties
<1>3. \A i \in 1..Len(ms) : ms[i].calls \in Nat
    BY MessageAt
<1> HIDE DEF new
<1>4. ASSUME NEW i \in 1..Len(ms)
      PROVE  /\ new[i].calls > 0 => HasRole(new, i, "assistant")
             /\ Answered(new, i)
             /\ HasRole(new, i, "tool") => Announced(new, i)
    <2>1. /\ ms[i].calls > 0 => HasRole(ms, i, "assistant")
          /\ Answered(ms, i)
          /\ HasRole(ms, i, "tool") => Announced(ms, i)
        BY <1>0 DEF WellFormed
    <2>2. Answered(new, i)
        BY <2>1, <1>0, <1>1, <1>3 DEF Answered, HasRole
    <2>3. Announced(ms, i) => Announced(new, i)
        BY <1>0, <1>1 DEF Announced
    <2> QED BY <2>1, <2>2, <2>3, <1>1 DEF HasRole
<1>5. /\ new[Len(ms) + 1].calls > 0 => HasRole(new, Len(ms) + 1, "assistant")
      /\ Answered(new, Len(ms) + 1)
      /\ HasRole(new, Len(ms) + 1, "tool") => Announced(new, Len(ms) + 1)
    BY <1>0, <1>1 DEF Answered, HasRole
<1>6. WellFormed(new)
    BY <1>0, <1>2, <1>4, <1>5 DEF WellFormed
<1>7. SystemFirst(ms) => SystemFirst(new)
    BY <1>0, <1>1 DEF SystemFirst, HasRole
<1> QED BY <1>1, <1>6, <1>7 DEF new

\* Rolling the last exchange back cuts before a user message: no call loses one of
\* its results.  The first message of the dialogue is never cut.
LEMMA WellFormedRemoveLastExchange ==
    ASSUME NEW ms \in Seq(Message), WellFormed(ms)
    PROVE  /\ RemoveLastExchange(ms) \in Seq(Message)
           /\ WellFormed(RemoveLastExchange(ms))
           /\ SystemFirst(ms) => SystemFirst(RemoveLastExchange(ms))
<1> DEFINE p == LastUser(ms)
           new == SubSeq(ms, 1, p - 1)
<1>0. Len(ms) \in Nat /\ DOMAIN ms = 1..Len(ms)
    BY LenProperties
<1>1. CASE p = 0
    BY <1>1 DEF RemoveLastExchange
<1>2. CASE p # 0
    <2>1. p \in 1..Len(ms) /\ HasRole(ms, p, "user")
        BY <1>2, <1>0, LastUserPlace
    <2>2. new = RemoveLastExchange(ms)
        BY <1>2 DEF RemoveLastExchange
    <2> HIDE DEF p
    <2>3. \A i \in 1..(p - 1) : ms[i] \in Message
        BY <2>1, <1>0, ElementOfSeq
    <2>4. /\ new \in Seq(Message)
          /\ Len(new) = p - 1
          /\ \A i \in 1..(p - 1) : new[i] = ms[i]
        <3>1. /\ new \in Seq(Message)
              /\ Len(new) = IF 1 <= p - 1 THEN (p - 1) - 1 + 1 ELSE 0
              /\ \A i \in 1..((p - 1) - 1 + 1) : new[i] = ms[1 + i - 1]
            BY <2>1, <2>3, <1>0, SubSeqProperties
        <3> HIDE DEF new
        <3> QED BY <3>1, <2>1, <1>0
    <2> HIDE DEF new
    <2>5. DOMAIN new = 1..(p - 1)
        BY <2>4, LenProperties
    <2>6. ASSUME NEW i \in 1..(p - 1)
          PROVE  /\ new[i].calls > 0 => HasRole(new, i, "assistant")
                 /\ Answered(new, i)
                 /\ HasRole(new, i, "tool") => Announced(new, i)
        <3>1. /\ ms[i].calls > 0 => HasRole(ms, i, "assistant")
              /\ Answered(ms, i)
              /\ HasRole(ms, i, "tool") => Announced(ms, i)
            BY <1>0, <2>1 DEF WellFormed
        <3>2. ms[i].calls \in Nat
            BY <2>3 DEF Message
        <3>3. i + ms[i].calls <= p - 1
            BY <3>1, <3>2, <2>1, <1>0 DEF Answered, HasRole
        <3>4. Answered(new, i)
            BY <3>1, <3>2, <3>3, <2>4, <2>1, <1>0 DEF Answered, HasRole
        <3>5. Announced(ms, i) => Announced(new, i)
            BY <2>4, <2>1, <1>0 DEF Announced
        <3> QED BY <3>1, <3>4, <3>5, <2>4 DEF HasRole
    <2>7. WellFormed(new)
        BY <2>5, <2>6 DEF WellFormed
    <2>8. SystemFirst(ms) => SystemFirst(new)
        BY <2>1, <2>4, <1>0 DEF SystemFirst, HasRole
    <2> QED BY <2>2, <2>4, <2>7, <2>8
<1> QED BY <1>1, <1>2

\* The new prompt in front, then the surviving messages in their order.
LEMMA AddSystemMessageHolds ==
    ASSUME NEW ms \in Seq(Message)
    PROVE  LET new  == AddSystemMessage(ms)
               size == Survivors(ms, Len(ms))
           IN  /\ size \in Nat
               /\ new \in Seq(Message) /\ Len(new) = 1 + size /\ DOMAIN new = 1..(1 + size)
               /\ new[1] = SystemMsg
               /\ \A k \in 1..size : new[k + 1] = ms[Survivor(ms, k)]
<1> DEFINE rest == WithoutSystem(ms)
           size == Survivors(ms, Len(ms))
           new  == AddSystemMessage(ms)
<1>0. Len(ms) \in Nat /\ DOMAIN ms = 1..Len(ms)
    BY LenProperties
<1>1. size \in Nat
    <2>1. size \in 0..Len(ms)
        BY <1>0, SurvivorsMonotone
    <2> QED BY <2>1, <1>0
<1>2. \A k \in 1..size : ms[Survivor(ms, k)] \in Message
    BY SurvivorPlace, MessageAt
<1>3. /\ rest \in Seq(Message) /\ Len(rest) = size
      /\ \A k \in 1..size : rest[k] = ms[Survivor(ms, k)]
    <2> HIDE DEF size
    <2>1. rest = [k \in 1..size |-> ms[Survivor(ms, k)]]
        BY DEF WithoutSystem, size
    <2>2. rest \in [1..size -> Message]
        BY <2>1, <1>2
    <2>3. rest \in Seq(Message)
        BY <2>2, <1>1, SeqDef
    <2>4. Len(rest) = size
        BY <2>2, <2>3, <1>1, LenProperties
    <2> QED BY <2>1, <2>3, <2>4
<1> HIDE DEF rest, size
<1>4. <<SystemMsg>> \in Seq(Message) /\ Len(<<SystemMsg>>) = 1 /\ <<SystemMsg>>[1] = SystemMsg
    BY AddedMessages
<1>5. /\ new \in Seq(Message) /\ Len(new) = 1 + size
      /\ new[1] = SystemMsg
      /\ \A k \in 1..size : new[k + 1] = ms[Survivor(ms, k)]
    <2>1. new = <<SystemMsg>> \o rest
        BY DEF AddSystemMessage, rest
    <2>2. /\ new \in Seq(Message) /\ Len(new) = 1 + size
          /\ \A i \in 1..(1 + size) : new[i] = IF i <= 1 THEN <<SystemMsg>>[i] ELSE rest[i - 1]
        BY <2>1, <1>3, <1>4, ConcatProperties
    <2>3. new[1] = SystemMsg
        BY <2>2, <1>1, <1>4
    <2>4. ASSUME NEW k \in 1..size PROVE new[k + 1] = ms[Survivor(ms, k)]
        <3>1. k + 1 \in 1..(1 + size) /\ ~(k + 1 <= 1) /\ (k + 1) - 1 = k
            BY <1>1
        <3> QED BY <2>2, <3>1, <1>3
    <2> QED BY <2>2, <2>3, <2>4
<1> HIDE DEF new
<1>6. DOMAIN new = 1..(1 + size)
    BY <1>5, LenProperties
<1> QED BY <1>1, <1>5, <1>6 DEF new, size

\* A new system prompt replaces every old one.  A call and its results stay together
\* because none of them is a system message.
LEMMA WellFormedAddSystemMessage ==
    ASSUME NEW ms \in Seq(Message), WellFormed(ms)
    PROVE  /\ AddSystemMessage(ms) \in Seq(Message)
           /\ WellFormed(AddSystemMessage(ms))
           /\ SystemFirst(AddSystemMessage(ms))
<1> DEFINE size == Survivors(ms, Len(ms))
           new  == AddSystemMessage(ms)
<1>0. Len(ms) \in Nat /\ DOMAIN ms = 1..Len(ms)
    BY LenProperties
<1>1. size \in Nat
    BY AddSystemMessageHolds
<1>5. /\ new \in Seq(Message) /\ Len(new) = 1 + size
      /\ new[1] = SystemMsg
      /\ \A k \in 1..size : new[k + 1] = ms[Survivor(ms, k)]
    BY AddSystemMessageHolds
<1>6. DOMAIN new = 1..(1 + size)
    BY AddSystemMessageHolds
<1> HIDE DEF new, size
\* The surviving message at i stands at Moved(i) in the new dialogue.
<1> DEFINE Moved(i) == Survivors(ms, i) + 1
<1>7. ASSUME NEW i \in 1..Len(ms), ~HasRole(ms, i, "system")
      PROVE  Moved(i) \in 2..(1 + size) /\ new[Moved(i)] = ms[i]
    <2>1. Survivors(ms, i) \in 1..size /\ Survivor(ms, Survivors(ms, i)) = i
        BY <1>7, SurvivorOf DEF size
    <2> QED BY <2>1, <1>5, <1>1
<1>8. ASSUME NEW i \in 1..Len(ms), ms[i].calls > 0
      PROVE  /\ i + ms[i].calls <= Len(ms)
             /\ \A n \in 0..ms[i].calls : ~HasRole(ms, i + n, "system") /\ Moved(i + n) = Moved(i) + n
    <2>1. ms[i].calls \in Nat /\ HasRole(ms, i, "assistant") /\ Answered(ms, i)
        BY <1>0, <1>8, MessageAt DEF WellFormed
    <2>2. \A j \in i..(i + ms[i].calls) : ~HasRole(ms, j, "system")
        BY <2>1 DEF Answered, HasRole
    <2>3. ASSUME NEW n \in 0..ms[i].calls PROVE Survivors(ms, i + n) = Survivors(ms, i) + n
        <3>1. n \in Nat /\ i \in Nat /\ \A j \in (i + 1)..(i + n) : ~HasRole(ms, j, "system")
            BY <2>1, <2>2
        <3> QED BY <3>1, SurvivorsRun
    <2>4. Survivors(ms, i) \in Nat
        <3>1. Survivors(ms, i) \in 0..i
            BY SurvivorsMonotone
        <3> QED BY <3>1
    <2> QED BY <2>1, <2>2, <2>3, <2>4 DEF Answered
<1>9. ASSUME NEW i \in 1..Len(ms), ~HasRole(ms, i, "system")
      PROVE  /\ ms[i].calls > 0 => HasRole(ms, i, "assistant")
             /\ Answered(new, Moved(i))
             /\ HasRole(ms, i, "tool") => Announced(new, Moved(i))
    <2>1. /\ ms[i].calls > 0 => HasRole(ms, i, "assistant")
          /\ Answered(ms, i)
          /\ HasRole(ms, i, "tool") => Announced(ms, i)
        BY <1>0 DEF WellFormed
    <2>2. new[Moved(i)] = ms[i] /\ ms[i].calls \in Nat /\ Moved(i) \in 2..(1 + size)
        BY <1>7, <1>9, MessageAt
    <2>3. Answered(new, Moved(i))
        <3>1. CASE ms[i].calls = 0
            BY <3>1, <2>2, <1>1, <1>5 DEF Answered
        <3>2. CASE ms[i].calls > 0
            <4> DEFINE n == ms[i].calls
            <4>1. i + n \in 1..Len(ms) /\ ~HasRole(ms, i + n, "system") /\ Moved(i + n) = Moved(i) + n
                BY <3>2, <2>2, <1>8
            <4>2. Moved(i) + n \in 2..(1 + size)
                <5>1. Moved(i + n) \in 2..(1 + size)
                    BY <4>1, <1>7
                <5> QED BY <5>1, <4>1
            <4>3. ASSUME NEW j \in (Moved(i) + 1)..(Moved(i) + n) PROVE HasRole(new, j, "tool")
                <5> DEFINE m == j - Moved(i)
                <5>1. m \in 1..n /\ m \in 0..n /\ i + m \in (i + 1)..(i + n) /\ i + m \in 1..Len(ms)
                    <6> HIDE DEF Moved
                    <6>1. Moved(i) \in Nat /\ n \in Nat
                        BY <2>2, <1>1
                    <6>2. m \in 1..n
                        BY <6>1
                    <6> HIDE DEF m, n
                    <6> QED BY <6>1, <6>2, <4>1, <1>0
                <5>2. Moved(i + m) = Moved(i) + m /\ ~HasRole(ms, i + m, "system")
                    BY <3>2, <5>1, <1>8
                <5>3. Moved(i) + m = j
                    BY <2>2, <1>1
                <5>4. new[j] = ms[i + m]
                    BY <5>1, <5>2, <5>3, <1>7
                <5>5. HasRole(ms, i + m, "tool")
                    BY <5>1, <2>1 DEF Answered
                <5> QED BY <5>4, <5>5 DEF HasRole
            <4> QED BY <4>2, <4>3, <2>2, <1>5, <1>1 DEF Answered
        <3> QED BY <3>1, <3>2, <2>2
    <2>4. ASSUME HasRole(ms, i, "tool") PROVE Announced(new, Moved(i))
        <3>1. PICK j \in 1..(i - 1) : ms[j].calls > 0 /\ i <= j + ms[j].calls
            BY <2>1, <2>4 DEF Announced
        <3>2. j \in 1..Len(ms) /\ ms[j].calls \in Nat /\ i - j \in 1..ms[j].calls /\ j + (i - j) = i
            <4>1. j \in 1..Len(ms)
                BY <1>0
            <4>2. ms[j].calls \in Nat
                BY <4>1, MessageAt
            <4>3. i - j \in 1..ms[j].calls /\ j + (i - j) = i
                <5>1. i - j \in Nat /\ i - j >= 1
                    BY <1>0
                <5> QED BY <5>1, <4>1, <4>2, <3>1, <1>0
            <4> QED BY <4>1, <4>2, <4>3
        <3>3. ~HasRole(ms, j, "system") /\ Moved(i) = Moved(j) + (i - j)
            <4>1. \A n \in 0..ms[j].calls : ~HasRole(ms, j + n, "system") /\ Moved(j + n) = Moved(j) + n
                BY <3>1, <3>2, <1>8
            <4>2. 0 \in 0..ms[j].calls /\ i - j \in 0..ms[j].calls /\ j + 0 = j
                BY <3>2
            <4> QED BY <4>1, <4>2, <3>2
        <3>4. new[Moved(j)] = ms[j] /\ Moved(j) \in 2..(1 + size)
            BY <3>2, <3>3, <1>7
        <3> HIDE DEF Moved
        <3>5. Moved(j) \in 1..(Moved(i) - 1) /\ Moved(i) <= Moved(j) + ms[j].calls
            BY <3>2, <3>3, <3>4, <2>2, <1>1
        <3> QED BY <3>1, <3>4, <3>5 DEF Announced
    <2> QED BY <2>1, <2>3, <2>4
<1>10. ASSUME NEW k \in 1..(1 + size)
       PROVE  /\ new[k].calls > 0 => HasRole(new, k, "assistant")
              /\ Answered(new, k)
              /\ HasRole(new, k, "tool") => Announced(new, k)
    <2>1. CASE k = 1
        BY <2>1, <1>1, <1>5, AddedMessages DEF Answered, HasRole
    <2>2. CASE k # 1
        <3> DEFINE i == Survivor(ms, k - 1)
        <3>1. k - 1 \in 1..size
            BY <2>2, <1>1
        <3>2. i \in 1..Len(ms) /\ ~HasRole(ms, i, "system") /\ Survivors(ms, i) = k - 1
            BY <3>1, SurvivorPlace DEF size
        <3> HIDE DEF i
        <3>3. Moved(i) = k
            BY <3>2, <1>1
        <3>4. new[k] = ms[i]
            BY <3>2, <3>3, <1>7
        <3> QED BY <3>2, <3>3, <3>4, <1>9 DEF HasRole
    <2> QED BY <2>1, <2>2
<1>11. WellFormed(new)
    BY <1>6, <1>10 DEF WellFormed
<1>12. SystemFirst(new)
    BY <1>1, <1>5, AddedMessages DEF SystemFirst, HasRole
<1> QED BY <1>5, <1>11, <1>12 DEF new

\* The shape of a dialogue is that of its messages.
LEMMA ShapeAt ==
    ASSUME NEW ms \in Seq(Message)
    PROVE  /\ DOMAIN Shape(ms) = 1..Len(ms)
           /\ \A i \in 1..Len(ms) : Shape(ms)[i] = [ms[i] EXCEPT !.content = "text"]
BY LenProperties DEF Shape

\* Equal messages have equal shapes.
LEMMA ShapeOfSame ==
    ASSUME NEW ms \in Seq(Message), NEW new \in Seq(Message),
           NEW i \in 1..Len(ms), i \in 1..Len(new), new[i] = ms[i]
    PROVE  Shape(new)[i] = Shape(ms)[i]
<1>1. Shape(ms)[i] = [ms[i] EXCEPT !.content = "text"]
    BY ShapeAt
<1>2. Shape(new)[i] = [new[i] EXCEPT !.content = "text"]
    BY ShapeAt
<1> QED BY <1>1, <1>2

\* Purging replaces contents only: everything else stays where it is.
LEMMA PurgeKeepsShape ==
    ASSUME NEW ms \in Seq(Message), NEW rs \in Seq(ToolResponse)
    PROVE  LET new == PurgePreviousFileContents(ms, rs)
           IN  /\ new \in Seq(Message) /\ Len(new) = Len(ms)
               /\ \A i \in 1..Len(ms) :
                     /\ new[i].role = ms[i].role /\ new[i].calls = ms[i].calls
                     /\ Shape(new)[i] = Shape(ms)[i]
<1> DEFINE new == PurgePreviousFileContents(ms, rs)
<1>0. Len(ms) \in Nat
    BY LenProperties
<1>1. ASSUME NEW i \in 1..Len(ms)
      PROVE  new[i] \in Message /\ new[i].role = ms[i].role /\ new[i].calls = ms[i].calls
    <2>1. ms[i] \in Message
        BY MessageAt
    <2>2. new[i] = ms[i] \/ new[i] = [ms[i] EXCEPT !.content = "note"]
        BY DEF PurgePreviousFileContents
    <2> HIDE DEF new
    <2> QED BY <2>1, <2>2 DEF Message, Contents
<1>2. new \in [1..Len(ms) -> Message]
    <2>1. new = [i \in 1..Len(ms) |-> new[i]]
        BY DEF PurgePreviousFileContents
    <2> HIDE DEF new
    <2> QED BY <2>1, <1>1
<1>3. new \in Seq(Message) /\ Len(new) = Len(ms)
    <2> HIDE DEF new
    <2>1. new \in Seq(Message)
        BY <1>2, <1>0, SeqDef
    <2> QED BY <2>1, <1>0, <1>2, LenProperties
<1>4. ASSUME NEW i \in 1..Len(ms) PROVE Shape(new)[i] = Shape(ms)[i]
    <2>1. ms[i] \in Message
        BY MessageAt
    <2>2. new[i] = ms[i] \/ new[i] = [ms[i] EXCEPT !.content = "note"]
        BY DEF PurgePreviousFileContents
    <2> HIDE DEF new
    <2>3. [new[i] EXCEPT !.content = "text"] = [ms[i] EXCEPT !.content = "text"]
        BY <2>1, <2>2 DEF Message
    <2> QED BY <2>3, <1>3, ShapeAt
<1> QED BY <1>1, <1>3, <1>4

\* Well-formedness looks at roles and calls only.
LEMMA WellFormedSameShape ==
    ASSUME NEW ms \in Seq(Message), NEW new \in Seq(Message), Len(new) = Len(ms),
           \A i \in 1..Len(ms) : new[i].role = ms[i].role /\ new[i].calls = ms[i].calls
    PROVE  /\ WellFormed(ms) => WellFormed(new)
           /\ SystemFirst(ms) => SystemFirst(new)
<1>0. Len(ms) \in Nat /\ DOMAIN ms = 1..Len(ms) /\ DOMAIN new = 1..Len(ms)
    BY LenProperties
<1>1. ASSUME NEW i \in 1..Len(ms), WellFormed(ms)
      PROVE  /\ new[i].calls > 0 => HasRole(new, i, "assistant")
             /\ Answered(new, i)
             /\ HasRole(new, i, "tool") => Announced(new, i)
    <2>1. /\ ms[i].calls > 0 => HasRole(ms, i, "assistant")
          /\ Answered(ms, i)
          /\ HasRole(ms, i, "tool") => Announced(ms, i)
        BY <1>0, <1>1 DEF WellFormed
    <2>2. ms[i].calls \in Nat
        BY MessageAt
    <2>3. Answered(new, i)
        BY <2>1, <2>2, <1>0 DEF Answered, HasRole
    <2>4. Announced(ms, i) => Announced(new, i)
        BY <1>0 DEF Announced
    <2> QED BY <2>1, <2>3, <2>4 DEF HasRole
<1>2. WellFormed(ms) => WellFormed(new)
    BY <1>0, <1>1 DEF WellFormed
<1>3. SystemFirst(ms) => SystemFirst(new)
    BY <1>0 DEF SystemFirst, HasRole
<1> QED BY <1>2, <1>3

\* What the new dialogue holds: the old one with some contents purged, the
\* announcement of the calls, and one result for each.
LEMMA AddToolResponsesHolds ==
    ASSUME NEW ms \in Seq(Message), NEW rs \in Seq(ToolResponse)
    PROVE  LET new == AddToolResponses(ms, rs)
               L   == Len(ms)
               n   == Len(rs)
           IN  /\ new \in Seq(Message) /\ Len(new) = L + 1 + n /\ DOMAIN new = 1..(L + 1 + n)
               /\ \A i \in 1..L : /\ new[i].role = ms[i].role /\ new[i].calls = ms[i].calls
                                  /\ Shape(new)[i] = Shape(ms)[i]
               /\ new[L + 1].role = "assistant" /\ new[L + 1].calls = n
               /\ \A i \in (L + 2)..(L + 1 + n) : new[i].role = "tool" /\ new[i].calls = 0
<1> DEFINE n     == Len(rs)
           told  == Append(ms, CallsMsg(n))
           old   == PurgePreviousFileContents(told, rs)
           added == [i \in 1..n |-> ResultMsg(rs[i])]
           new   == AddToolResponses(ms, rs)
           L     == Len(ms)
<1>0. n \in Nat /\ L \in Nat /\ DOMAIN ms = 1..L
    BY LenProperties
<1>1. CallsMsg(n) \in Message /\ CallsMsg(n).role = "assistant" /\ CallsMsg(n).calls = n
    BY <1>0, AddedMessages
<1>2. ASSUME NEW i \in 1..n
      PROVE  added[i] \in Message /\ added[i].role = "tool" /\ added[i].calls = 0
    <2>1. rs[i] \in ToolResponse
        BY ElementOfSeq
    <2> QED BY <2>1, AddedMessages
<1>3. added \in Seq(Message) /\ Len(added) = n
    <2>1. added \in [1..n -> Message]
        BY <1>2
    <2> HIDE DEF added, n
    <2>2. added \in Seq(Message)
        BY <2>1, <1>0, SeqDef
    <2> QED BY <2>1, <2>2, <1>0, LenProperties
<1> HIDE DEF added
<1>4. /\ told \in Seq(Message) /\ Len(told) = L + 1
      /\ \A i \in 1..L : told[i] = ms[i]
      /\ told[L + 1] = CallsMsg(n)
    <2> HIDE DEF n
    <2> QED BY <1>1, AppendProperties
<1> HIDE DEF told
<1>5. /\ old \in Seq(Message) /\ Len(old) = L + 1
      /\ \A i \in 1..(L + 1) : /\ old[i].role = told[i].role /\ old[i].calls = told[i].calls
                               /\ Shape(old)[i] = Shape(told)[i]
    BY <1>4, PurgeKeepsShape
<1> HIDE DEF old
<1>6. /\ new \in Seq(Message) /\ Len(new) = L + 1 + n
      /\ \A i \in 1..(L + 1 + n) : new[i] = IF i <= L + 1 THEN old[i] ELSE added[i - (L + 1)]
    <2>1. new = old \o added
        BY DEF AddToolResponses, old, told, added
    <2> HIDE DEF new, n, L
    <2>2. /\ old \o added \in Seq(Message)
          /\ Len(old \o added) = Len(old) + Len(added)
          /\ \A i \in 1..(Len(old) + Len(added)) :
                (old \o added)[i] = IF i <= Len(old) THEN old[i] ELSE added[i - Len(old)]
        BY <1>3, <1>5, ConcatProperties
    <2> QED BY <2>1, <2>2, <1>3, <1>5
<1> HIDE DEF new, n, L
<1>7. /\ DOMAIN new = 1..(L + 1 + n)
      /\ \A i \in 1..L : new[i].role = ms[i].role /\ new[i].calls = ms[i].calls
      /\ new[L + 1].role = "assistant" /\ new[L + 1].calls = n
      /\ \A i \in (L + 2)..(L + 1 + n) : new[i].role = "tool" /\ new[i].calls = 0
    <2>1. DOMAIN new = 1..(L + 1 + n)
        BY <1>6, LenProperties
    <2>2. \A i \in 1..L : new[i].role = ms[i].role /\ new[i].calls = ms[i].calls
        BY <1>0, <1>4, <1>5, <1>6
    <2>3. new[L + 1].role = "assistant" /\ new[L + 1].calls = n
        BY <1>0, <1>1, <1>4, <1>5, <1>6
    <2>4. ASSUME NEW i \in (L + 2)..(L + 1 + n) PROVE new[i].role = "tool" /\ new[i].calls = 0
        <3>1. i \in 1..(L + 1 + n) /\ ~(i <= L + 1) /\ i - (L + 1) \in 1..n
            BY <1>0
        <3> QED BY <3>1, <1>2, <1>6
    <2> QED BY <2>1, <2>2, <2>3, <2>4
<1>8. ASSUME NEW i \in 1..L PROVE Shape(new)[i] = Shape(ms)[i]
    <2>1. i \in 1..(L + 1) /\ i \in 1..(L + 1 + n) /\ i <= L + 1
        BY <1>0
    <2>2. new[i] = old[i] /\ told[i] = ms[i]
        BY <2>1, <1>4, <1>6
    <2>3. /\ Shape(new)[i] = [new[i] EXCEPT !.content = "text"]
          /\ Shape(old)[i] = [old[i] EXCEPT !.content = "text"]
          /\ Shape(told)[i] = [told[i] EXCEPT !.content = "text"]
          /\ Shape(ms)[i] = [ms[i] EXCEPT !.content = "text"]
        BY <2>1, <1>4, <1>5, <1>6, ShapeAt DEF L
    <2> QED BY <2>1, <2>2, <2>3, <1>5
<1> QED BY <1>6, <1>7, <1>8 DEF new, n, L

\* The calls are announced and answered in one operation.
LEMMA WellFormedAddToolResponses ==
    ASSUME NEW ms \in Seq(Message), WellFormed(ms), NEW rs \in Seq(ToolResponse)
    PROVE  /\ AddToolResponses(ms, rs) \in Seq(Message)
           /\ WellFormed(AddToolResponses(ms, rs))
           /\ SystemFirst(ms) => SystemFirst(AddToolResponses(ms, rs))
<1> DEFINE new == AddToolResponses(ms, rs)
           L   == Len(ms)
           n   == Len(rs)
<1>0. n \in Nat /\ L \in Nat /\ DOMAIN ms = 1..L
    BY LenProperties
<1>6. new \in Seq(Message) /\ Len(new) = L + 1 + n
    BY AddToolResponsesHolds
<1>7. /\ DOMAIN new = 1..(L + 1 + n)
      /\ \A i \in 1..L : new[i].role = ms[i].role /\ new[i].calls = ms[i].calls
      /\ new[L + 1].role = "assistant" /\ new[L + 1].calls = n
      /\ \A i \in (L + 2)..(L + 1 + n) : new[i].role = "tool" /\ new[i].calls = 0
    BY AddToolResponsesHolds
<1> HIDE DEF new, n, L
<1>8. ASSUME NEW i \in 1..(L + 1 + n)
      PROVE  /\ new[i].calls > 0 => HasRole(new, i, "assistant")
             /\ Answered(new, i)
             /\ HasRole(new, i, "tool") => Announced(new, i)
    <2>1. CASE i \in 1..L
        <3>1. /\ ms[i].calls > 0 => HasRole(ms, i, "assistant")
              /\ Answered(ms, i)
              /\ HasRole(ms, i, "tool") => Announced(ms, i)
            BY <1>0, <2>1 DEF WellFormed
        <3>2. ms[i].calls \in Nat
            BY <2>1, MessageAt DEF L
        <3>3. Answered(new, i)
            <4>1. i + ms[i].calls <= L /\ \A j \in (i + 1)..(i + ms[i].calls) : ms[j].role = "tool"
                BY <3>1 DEF Answered, HasRole, L
            <4>2. i + new[i].calls <= Len(new)
                BY <4>1, <3>2, <1>0, <1>6, <1>7, <2>1
            <4>3. \A j \in (i + 1)..(i + new[i].calls) : new[j].role = "tool"
                BY <4>1, <3>2, <1>0, <1>7, <2>1
            <4> QED BY <4>2, <4>3 DEF Answered, HasRole
        <3>4. Announced(ms, i) => Announced(new, i)
            BY <1>0, <1>7, <2>1 DEF Announced
        <3> QED BY <3>1, <3>3, <3>4, <1>7, <2>1 DEF HasRole
    <2>2. CASE i = L + 1
        BY <2>2, <1>0, <1>6, <1>7 DEF Answered, HasRole
    <2>3. CASE i \in (L + 2)..(L + 1 + n)
        <3>1. Answered(new, i)
            BY <2>3, <1>0, <1>6, <1>7 DEF Answered
        <3>2. Announced(new, i)
            <4>1. L + 1 \in 1..(i - 1) /\ new[L + 1].calls > 0 /\ i <= L + 1 + new[L + 1].calls
                BY <2>3, <1>0, <1>7
            <4> QED BY <4>1 DEF Announced
        <3> QED BY <3>1, <3>2, <2>3, <1>7
    <2> QED BY <2>1, <2>2, <2>3, <1>0
<1>9. WellFormed(new)
    BY <1>7, <1>8 DEF WellFormed
<1>10. SystemFirst(ms) => SystemFirst(new)
    BY <1>0, <1>6, <1>7 DEF SystemFirst, HasRole, L
<1> QED BY <1>6, <1>9, <1>10 DEF new

\* Clearing leaves the system prompt alone.
LEMMA WellFormedClearContext ==
    ASSUME NEW ms \in Seq(Message)
    PROVE  /\ ClearContext(ms) \in Seq(Message)
           /\ WellFormed(ClearContext(ms))
           /\ SystemFirst(ms) => SystemFirst(ClearContext(ms))
<1>1. <<>> \in Seq(Message) /\ WellFormed(<<>>)
    BY DEF WellFormed
<1>2. <<SystemMsg>> \in Seq(Message) /\ WellFormed(<<SystemMsg>>) /\ SystemFirst(<<SystemMsg>>)
    BY AddedMessages DEF WellFormed, Answered, SystemFirst, HasRole
<1>3. SystemFirst(ms) => \E i \in DOMAIN ms : HasRole(ms, i, "system")
    BY LenProperties DEF SystemFirst
<1> QED BY <1>1, <1>2, <1>3 DEF ClearContext

\* The kept end of the dialogue does not begin in the middle of a call's results.
LEMMA KeptFromPlace ==
    ASSUME NEW ms \in Seq(Message), Len(ms) > 1
    PROVE  /\ KeptFrom(ms) \in 1..(Len(ms) + 1)
           /\ KeptFrom(ms) <= Len(ms) => ~HasRole(ms, KeptFrom(ms), "tool")
<1> DEFINE L == Len(ms)
           Good(i) == /\ i <= L => ~HasRole(ms, i, "tool")
                      /\ \A j \in (L - MessagesToKeep + 1)..(i - 1) : HasRole(ms, j, "tool")
<1>0. L \in Nat /\ L - MessagesToKeep + 1 = L - 1
    BY LenProperties DEF MessagesToKeep
<1>1. \E i \in (L - MessagesToKeep + 1)..(L + 1) : Good(i)
    <2>1. CASE ~HasRole(ms, L - 1, "tool")
        BY <2>1, <1>0
    <2>2. CASE HasRole(ms, L - 1, "tool") /\ ~HasRole(ms, L, "tool")
        BY <2>2, <1>0
    <2>3. CASE HasRole(ms, L - 1, "tool") /\ HasRole(ms, L, "tool")
        BY <2>3, <1>0
    <2> QED BY <2>1, <2>2, <2>3
<1>2. KeptFrom(ms) \in (L - MessagesToKeep + 1)..(L + 1) /\ Good(KeptFrom(ms))
    BY <1>1 DEF KeptFrom
<1> QED BY <1>0, <1>2

\* The first message, the summary, and the end of the dialogue from KeptFrom on.
LEMMA CompressHolds ==
    ASSUME NEW ms \in Seq(Message), WellFormed(ms), SystemFirst(ms), Len(ms) > 1, NEW text \in BOOLEAN
    PROVE  LET new == Compress(ms, text)
               K   == KeptFrom(ms)
               N   == Len(ms) - K + 1
           IN  /\ new \in Seq(Message) /\ Len(new) = 2 + N /\ DOMAIN new = 1..(2 + N)
               /\ N \in Nat /\ K \in 1..(Len(ms) + 1)
               /\ new[1].role = "system" /\ new[1].calls = 0
               /\ new[2].role = "assistant" /\ new[2].calls = 0
               /\ \A i \in 1..N : new[i + 2] = ms[K + i - 1]
<1> DEFINE L    == Len(ms)
           K    == KeptFrom(ms)
           head == <<ms[1], SummaryMsg(text)>>
           tail == SubSeq(ms, K, L)
           new  == Compress(ms, text)
<1>0. L \in Nat /\ DOMAIN ms = 1..L
    BY LenProperties
<1>a. L > 1
    OBVIOUS
<1>1. K \in 1..(L + 1) /\ (K <= L => ~HasRole(ms, K, "tool"))
    BY <1>a, KeptFromPlace
<1> HIDE DEF K
<1>2. \A i \in 1..L : ms[i] \in Message /\ ms[i].calls \in Nat
    BY MessageAt
<1>3. /\ tail \in Seq(Message) /\ Len(tail) = L - K + 1
      /\ \A i \in 1..(L - K + 1) : tail[i] = ms[K + i - 1]
    <2>1. \A i \in K..L : ms[i] \in Message
        BY <1>1, <1>2, <1>0
    <2>2. /\ tail \in Seq(Message)
          /\ Len(tail) = IF K <= L THEN L - K + 1 ELSE 0
          /\ \A i \in 1..(L - K + 1) : tail[i] = ms[K + i - 1]
        BY <2>1, <1>1, <1>0, SubSeqProperties
    <2>3. (IF K <= L THEN L - K + 1 ELSE 0) = L - K + 1
        BY <1>1, <1>0
    <2> QED BY <2>2, <2>3
<1> HIDE DEF tail
<1>4. ms[1] \in Message /\ ms[1].role = "system" /\ ms[1].calls = 0
    <2>1. ms[1] \in Message /\ ms[1].calls \in Nat /\ 1 \in DOMAIN ms
        BY <1>2, <1>0, <1>a
    <2> QED BY <2>1 DEF SystemFirst, HasRole, WellFormed
<1>5. /\ head \in Seq(Message) /\ Len(head) = 2
      /\ head[1] = ms[1] /\ head[2] = SummaryMsg(text)
    BY <1>4, AddedMessages
<1> HIDE DEF head
<1>6. /\ new \in Seq(Message) /\ Len(new) = 2 + (L - K + 1)
      /\ \A i \in 1..(2 + (L - K + 1)) : new[i] = IF i <= 2 THEN head[i] ELSE tail[i - 2]
    <2>1. new = head \o tail
        <3>1. ~(Len(ms) <= 1)
            BY <1>0, <1>a
        <3> QED BY <3>1 DEF Compress, head, tail, K
    <2> HIDE DEF new, L
    <2>2. /\ head \o tail \in Seq(Message)
          /\ Len(head \o tail) = Len(head) + Len(tail)
          /\ \A i \in 1..(Len(head) + Len(tail)) :
                (head \o tail)[i] = IF i <= Len(head) THEN head[i] ELSE tail[i - Len(head)]
        BY <1>3, <1>5, ConcatProperties
    <2> QED BY <2>1, <2>2, <1>3, <1>5
<1> HIDE DEF new
<1> DEFINE N == L - K + 1
<1>7. /\ DOMAIN new = 1..(2 + N) /\ N \in Nat
      /\ new[1].role = "system" /\ new[1].calls = 0
      /\ new[2].role = "assistant" /\ new[2].calls = 0
      /\ \A i \in 1..N : new[i + 2] = ms[K + i - 1]
    <2>1. DOMAIN new = 1..(2 + N) /\ N \in Nat
        BY <1>1, <1>6, <1>0, LenProperties
    <2> HIDE DEF N
    <2>2. new[1].role = "system" /\ new[1].calls = 0
        BY <2>1, <1>4, <1>5, <1>6 DEF N
    <2>3. new[2].role = "assistant" /\ new[2].calls = 0
        BY <2>1, <1>5, <1>6, AddedMessages DEF N
    <2>4. ASSUME NEW i \in 1..N PROVE new[i + 2] = ms[K + i - 1]
        <3>1. i + 2 \in 1..(2 + N) /\ ~(i + 2 <= 2) /\ (i + 2) - 2 = i
            BY <2>1
        <3> QED BY <3>1, <1>3, <1>6 DEF N
    <2> QED BY <2>1, <2>2, <2>3, <2>4
<1> QED BY <1>1, <1>6, <1>7 DEF new, K

\* Compressing a dialogue that starts with the system prompt splits no call.
LEMMA WellFormedCompress ==
    ASSUME NEW ms \in Seq(Message), WellFormed(ms), SystemFirst(ms), NEW text \in BOOLEAN
    PROVE  /\ Compress(ms, text) \in Seq(Message)
           /\ WellFormed(Compress(ms, text))
           /\ SystemFirst(Compress(ms, text))
<1> DEFINE L    == Len(ms)
           K    == KeptFrom(ms)
           new  == Compress(ms, text)
<1>0. L \in Nat /\ DOMAIN ms = 1..L
    BY LenProperties
<1>1. CASE L <= 1
    BY <1>1 DEF Compress
<1>2. CASE L > 1
    <2> DEFINE N == L - K + 1
    <2>1. K \in 1..(L + 1) /\ (K <= L => ~HasRole(ms, K, "tool"))
        BY <1>2, KeptFromPlace
    <2>2. \A i \in 1..L : ms[i] \in Message /\ ms[i].calls \in Nat
        BY MessageAt
    <2>6. new \in Seq(Message) /\ Len(new) = 2 + N
        BY <1>2, CompressHolds
    <2>7. /\ DOMAIN new = 1..(2 + N) /\ N \in Nat
          /\ new[1].role = "system" /\ new[1].calls = 0
          /\ new[2].role = "assistant" /\ new[2].calls = 0
          /\ \A i \in 1..N : new[i + 2] = ms[K + i - 1]
        BY <1>2, CompressHolds
    <2> HIDE DEF new, K
    <2>8. ASSUME NEW i \in 1..N
          PROVE  /\ new[i + 2].calls > 0 => HasRole(new, i + 2, "assistant")
                 /\ Answered(new, i + 2)
                 /\ HasRole(new, i + 2, "tool") => Announced(new, i + 2)
        <3> DEFINE o == K + i - 1
        <3>1. o \in K..L /\ o \in 1..L /\ new[i + 2] = ms[o] /\ i = o - K + 1
            BY <2>1, <2>7, <1>0
        <3>2. /\ ms[o].calls > 0 => HasRole(ms, o, "assistant")
              /\ Answered(ms, o)
              /\ HasRole(ms, o, "tool") => Announced(ms, o)
              /\ ms[o].calls \in Nat
            BY <3>1, <2>2, <1>0 DEF WellFormed
        <3> HIDE DEF o
        <3>3. Answered(new, i + 2)
            <4>1. o + ms[o].calls <= L
                BY <3>2 DEF Answered
            <4>2. i + 2 + ms[o].calls <= Len(new)
                BY <4>1, <3>1, <3>2, <2>1, <2>6, <1>0
            <4>3. ASSUME NEW j \in (i + 3)..(i + 2 + ms[o].calls) PROVE HasRole(new, j, "tool")
                <5> DEFINE k == j - 2
                <5>1. k \in 1..N /\ j = k + 2 /\ K + k - 1 \in (o + 1)..(o + ms[o].calls)
                    <6>1. PICK c \in Nat : c = ms[o].calls
                        BY <3>2
                    <6>2. K \in Int /\ L \in Int /\ o \in Int /\ i = o - K + 1 /\ o + c <= L
                        BY <3>1, <2>1, <1>0, <4>1, <6>1
                    <6>3. j \in (i + 3)..(i + 2 + c)
                        BY <6>1
                    <6>4. j \in Int /\ k \in 1..N /\ j = k + 2 /\ K + k - 1 \in (o + 1)..(o + c)
                        BY <6>2, <6>3
                    <6> QED BY <6>1, <6>4
                <5>2. new[j] = ms[K + k - 1]
                    BY <5>1, <2>7
                <5>3. HasRole(ms, K + k - 1, "tool")
                    <6>1. \A x \in (o + 1)..(o + ms[o].calls) : HasRole(ms, x, "tool")
                        BY <3>2 DEF Answered
                    <6> HIDE DEF k
                    <6> QED BY <5>1, <6>1
                <5> HIDE DEF k
                <5> QED BY <5>2, <5>3 DEF HasRole
            <4> QED BY <4>2, <4>3, <3>1 DEF Answered
        <3>4. ASSUME HasRole(ms, o, "tool") PROVE Announced(new, i + 2)
            <4>1. PICK j \in 1..(o - 1) : ms[j].calls > 0 /\ o <= j + ms[j].calls
                BY <3>2, <3>4 DEF Announced
            <4>2. j \in 1..L /\ ms[j].calls \in Nat
                BY <3>1, <2>2, <1>0
            <4>3. j >= K
                <5> SUFFICES ASSUME j < K PROVE FALSE
                    BY <4>2, <2>1
                <5>1. Answered(ms, j)
                    BY <4>2, <1>0 DEF WellFormed
                <5>2. K \in (j + 1)..(j + ms[j].calls) /\ K <= L
                    BY <4>1, <4>2, <3>1, <2>1, <1>0
                <5> QED BY <5>1, <5>2, <2>1 DEF Answered
            <4> DEFINE k == j - K + 1
            <4>4. k \in 1..N /\ K + k - 1 = j
                BY <4>2, <4>3, <2>1, <1>0
            <4>5. new[k + 2] = ms[j]
                BY <4>4, <2>7
            <4>6. k + 2 \in 1..((i + 2) - 1) /\ i + 2 <= (k + 2) + ms[j].calls
                <5>1. K \in Nat /\ o \in Nat /\ j \in Nat /\ j < o /\ i = o - K + 1
                    BY <4>2, <3>1, <2>1, <1>0
                <5>2. k \in Nat /\ k >= 1 /\ k < i
                    BY <5>1, <4>3
                <5>3. i + 2 <= (k + 2) + ms[j].calls
                    BY <5>1, <4>1, <4>2
                <5> HIDE DEF k
                <5> QED BY <5>2, <5>3
            <4> QED BY <4>1, <4>5, <4>6 DEF Announced
        <3> QED BY <3>1, <3>2, <3>3, <3>4 DEF HasRole
    <2>9. ASSUME NEW i \in 1..2
          PROVE  /\ new[i].calls > 0 => HasRole(new, i, "assistant")
                 /\ Answered(new, i)
                 /\ HasRole(new, i, "tool") => Announced(new, i)
        BY <2>6, <2>7 DEF Answered, HasRole
    <2>10. WellFormed(new)
        <3> HIDE DEF N
        <3>1. ASSUME NEW i \in 3..(2 + N)
              PROVE  /\ new[i].calls > 0 => HasRole(new, i, "assistant")
                     /\ Answered(new, i)
                     /\ HasRole(new, i, "tool") => Announced(new, i)
            <4>1. i - 2 \in 1..N /\ (i - 2) + 2 = i
                BY <2>7
            <4> QED BY <4>1, <2>8
        <3> QED BY <3>1, <2>7, <2>9 DEF WellFormed
    <2>11. SystemFirst(new)
        BY <2>1, <2>6, <2>7, <1>0 DEF SystemFirst, HasRole
    <2> QED BY <2>6, <2>10, <2>11 DEF new
<1> QED BY <1>0, <1>1, <1>2

-----------------------------------------------------------------------------
(***************************************************************************)
(* A query in progress only adds behind its own user message, and rolling  *)
(* it back leaves the shape of the dialogue it began with.                 *)
(***************************************************************************)

\* The user message opens the exchange.
LEMMA ExtendsAddUserMessage ==
    ASSUME NEW ms \in Seq(Message)
    PROVE  Extends(AddUserMessage(ms), ms)
<1> DEFINE new == Append(ms, UserMsg)
<1>1. Len(ms) \in Nat /\ DOMAIN ms = 1..Len(ms)
    BY LenProperties
<1>2. /\ new \in Seq(Message) /\ Len(new) = Len(ms) + 1 /\ new[Len(ms) + 1] = UserMsg
      /\ \A i \in 1..Len(ms) : new[i] = ms[i]
    BY AddedMessages, AppendProperties
<1> HIDE DEF new
<1>3. ASSUME NEW i \in 1..Len(ms) PROVE Shape(new)[i] = Shape(ms)[i]
    <2>1. i \in 1..Len(new) /\ new[i] = ms[i]
        BY <1>1, <1>2
    <2> QED BY <2>1, <1>2, ShapeOfSame
<1>4. new[Len(ms) + 1].role = "user"
    BY <1>2, AddedMessages
<1>5. Extends(new, ms)
    BY <1>1, <1>2, <1>3, <1>4 DEF Extends, HasRole
<1> QED BY <1>5 DEF AddUserMessage, new

\* A later message that is not the user's stays in the exchange.
LEMMA ExtendsAppend ==
    ASSUME NEW ms \in Seq(Message), NEW old \in Seq(Message), Extends(ms, old),
           NEW m \in Message, m.role # "user"
    PROVE  Extends(Append(ms, m), old)
<1> DEFINE new == Append(ms, m)
<1>1. Len(ms) \in Nat /\ Len(old) \in Nat /\ DOMAIN old = 1..Len(old) /\ Len(ms) > Len(old)
    BY LenProperties DEF Extends
<1>2. /\ new \in Seq(Message) /\ Len(new) = Len(ms) + 1 /\ new[Len(ms) + 1] = m
      /\ \A i \in 1..Len(ms) : new[i] = ms[i]
    BY AppendProperties
<1> HIDE DEF new
<1>3. ASSUME NEW i \in 1..Len(old) PROVE Shape(new)[i] = Shape(ms)[i]
    <2>1. i \in 1..Len(ms) /\ i \in 1..Len(new)
        BY <1>1, <1>2
    <2> QED BY <2>1, <1>2, ShapeOfSame
<1>4. new[Len(old) + 1] = ms[Len(old) + 1]
    BY <1>1, <1>2
<1>5. ASSUME NEW i \in (Len(old) + 2)..Len(new) PROVE new[i].role # "user"
    <2>1. i \in (Len(old) + 2)..Len(ms) \/ i = Len(ms) + 1
        <3>1. i \in (Len(old) + 2)..(Len(ms) + 1)
            BY <1>2
        <3> QED BY <3>1, <1>1
    <2>2. i \in (Len(old) + 2)..Len(ms) => new[i] = ms[i] /\ ms[i].role # "user"
        BY <1>1, <1>2 DEF Extends, HasRole
    <2> QED BY <2>1, <2>2, <1>2
<1>6. Extends(new, old)
    BY <1>1, <1>2, <1>3, <1>4, <1>5 DEF Extends, HasRole
<1> QED BY <1>6 DEF new

\* So do the calls and their results, whatever they purge.
LEMMA ExtendsAddToolResponses ==
    ASSUME NEW ms \in Seq(Message), NEW old \in Seq(Message), Extends(ms, old),
           NEW rs \in Seq(ToolResponse)
    PROVE  Extends(AddToolResponses(ms, rs), old)
<1> DEFINE new == AddToolResponses(ms, rs)
           L   == Len(ms)
           n   == Len(rs)
<1>1. /\ L \in Nat /\ n \in Nat /\ Len(old) \in Nat /\ DOMAIN old = 1..Len(old)
      /\ Len(old) < L
    BY LenProperties DEF Extends
<1>2. /\ new \in Seq(Message) /\ Len(new) = L + 1 + n
      /\ \A i \in 1..L : new[i].role = ms[i].role /\ Shape(new)[i] = Shape(ms)[i]
      /\ new[L + 1].role = "assistant"
      /\ \A i \in (L + 2)..(L + 1 + n) : new[i].role = "tool"
    <2>1. new \in Seq(Message) /\ Len(new) = L + 1 + n
        BY AddToolResponsesHolds
    <2>2. \A i \in 1..L : new[i].role = ms[i].role /\ Shape(new)[i] = Shape(ms)[i]
        BY AddToolResponsesHolds
    <2>3. new[L + 1].role = "assistant"
        BY AddToolResponsesHolds
    <2>4. \A i \in (L + 2)..(L + 1 + n) : new[i].role = "tool" /\ new[i].calls = 0
        BY AddToolResponsesHolds
    <2> QED BY <2>1, <2>2, <2>3, <2>4
<1> HIDE DEF new, L, n
<1>3. ASSUME NEW i \in 1..Len(old) PROVE Shape(new)[i] = Shape(old)[i]
    <2>1. i \in 1..L
        BY <1>1
    <2>2. Shape(ms)[i] = Shape(old)[i]
        BY <1>1 DEF Extends
    <2> QED BY <2>1, <2>2, <1>2
<1>4. new[Len(old) + 1].role = "user"
    <2>1. Len(old) + 1 \in 1..L
        BY <1>1
    <2>2. ms[Len(old) + 1].role = "user"
        BY DEF Extends, HasRole
    <2> QED BY <2>1, <2>2, <1>2
<1>5. ASSUME NEW i \in (Len(old) + 2)..Len(new) PROVE new[i].role # "user"
    <2>1. \/ i \in (Len(old) + 2)..L /\ i \in 1..L
          \/ i = L + 1
          \/ i \in (L + 2)..(L + 1 + n)
        BY <1>1, <1>2
    <2>2. i \in (Len(old) + 2)..L => ms[i].role # "user"
        BY DEF Extends, HasRole, L
    <2> QED BY <2>1, <2>2, <1>2
<1>6. Extends(new, old)
    BY <1>1, <1>2, <1>3, <1>4, <1>5 DEF Extends, HasRole
<1> QED BY <1>6 DEF new

\* The last user message is the one that opened the exchange: what is erased is
\* the exchange and nothing else.
LEMMA RemoveLastExchangeRestores ==
    ASSUME NEW ms \in Seq(Message), NEW old \in Seq(Message), Extends(ms, old)
    PROVE  Shape(RemoveLastExchange(ms)) = Shape(old)
<1> DEFINE B   == Len(old)
           new == RemoveLastExchange(ms)
<1>1. Len(ms) \in Nat /\ B \in Nat /\ DOMAIN old = 1..B /\ B < Len(ms)
    BY LenProperties DEF Extends
<1>2. LastUser(ms) = B + 1
    <2>1. /\ LastUser(ms) \in 0..Len(ms)
          /\ LastUser(ms) # 0 => HasRole(ms, LastUser(ms), "user")
          /\ \A j \in (LastUser(ms) + 1)..Len(ms) : ~HasRole(ms, j, "user")
        BY LastUserPlace
    <2>2. HasRole(ms, B + 1, "user") /\ \A j \in (B + 2)..Len(ms) : ~HasRole(ms, j, "user")
        BY DEF Extends
    <2> QED BY <1>1, <2>1, <2>2
<1>3. new = SubSeq(ms, 1, B)
    BY <1>1, <1>2 DEF RemoveLastExchange
<1>4. /\ new \in Seq(Message) /\ Len(new) = B
      /\ \A i \in 1..B : new[i] = ms[i]
    <2>1. \A i \in 1..B : ms[i] \in Message
        BY <1>1, MessageAt
    <2> HIDE DEF new, B
    <2>2. /\ SubSeq(ms, 1, B) \in Seq(Message)
          /\ Len(SubSeq(ms, 1, B)) = IF 1 <= B THEN B - 1 + 1 ELSE 0
          /\ \A i \in 1..(B - 1 + 1) : SubSeq(ms, 1, B)[i] = ms[1 + i - 1]
        BY <1>1, <2>1, SubSeqProperties
    <2>3. (IF 1 <= B THEN B - 1 + 1 ELSE 0) = B /\ B - 1 + 1 = B /\ \A i \in 1..B : 1 + i - 1 = i
        BY <1>1
    <2> QED BY <1>3, <2>2, <2>3
<1> HIDE DEF new, B
<1>5. \A i \in 1..B : Shape(new)[i] = Shape(old)[i]
    <2>1. \A i \in 1..B : Shape(ms)[i] = Shape(old)[i]
        BY <1>1 DEF Extends
    <2>2. ASSUME NEW i \in 1..B PROVE Shape(new)[i] = Shape(ms)[i]
        <3>1. i \in 1..Len(ms) /\ i \in 1..Len(new)
            BY <1>1, <1>4
        <3> QED BY <3>1, <1>4, ShapeOfSame
    <2> QED BY <2>1, <2>2
<1>6. DOMAIN Shape(new) = 1..B /\ DOMAIN Shape(old) = 1..B
    BY <1>4, ShapeAt DEF B
<1>7. /\ Shape(new) = [i \in 1..B |-> Shape(new)[i]]
      /\ Shape(old) = [i \in 1..B |-> Shape(old)[i]]
    BY <1>6 DEF Shape
<1>8. Shape(new) = Shape(old)
    BY <1>5, <1>7
<1> QED BY <1>8 DEF new

-----------------------------------------------------------------------------
(***************************************************************************)
(* Rounds of tool calls: what the operators do to silent stretches.        *)
(***************************************************************************)

\* The number of rounds in a stretch is a number.
LEMMA RoundsInNat ==
    ASSUME NEW ms, NEW i \in Int, NEW k \in Int
    PROVE  /\ IsFiniteSet({j \in i..k : ms[j].calls > 0})
           /\ RoundsIn(ms, i, k) \in Nat
<1>1. IsFiniteSet(i..k) /\ {j \in i..k : ms[j].calls > 0} \in SUBSET (i..k)
    BY FS_Interval
<1>2. IsFiniteSet({j \in i..k : ms[j].calls > 0})
    BY <1>1, FS_Subset
<1> QED BY <1>2, FS_CardinalityType DEF RoundsIn

\* Equal messages are as many rounds, and as silent.
LEMMA RoundsSame ==
    ASSUME NEW ms, NEW new, NEW i \in Int, NEW k \in Int,
           \A j \in i..k : new[j].role = ms[j].role /\ new[j].calls = ms[j].calls
    PROVE  /\ RoundsIn(new, i, k) = RoundsIn(ms, i, k)
           /\ Silent(new, i, k) <=> Silent(ms, i, k)
<1>1. {j \in i..k : new[j].calls > 0} = {j \in i..k : ms[j].calls > 0}
    OBVIOUS
<1> QED BY <1>1 DEF RoundsIn, Silent

\* Rounds that come from different rounds of another stretch are no more than
\* those.
LEMMA RoundsInjected ==
    ASSUME NEW ms, NEW new, NEW i \in Int, NEW k \in Int, NEW p \in Int, NEW q \in Int,
           NEW f \in [i..k -> p..q],
           \A a, b \in i..k : f[a] = f[b] => a = b,
           \A j \in i..k : new[j].calls > 0 => ms[f[j]].calls > 0
    PROVE  RoundsIn(new, i, k) <= RoundsIn(ms, p, q)
<1> DEFINE S == {j \in i..k : new[j].calls > 0}
           T == {j \in p..q : ms[j].calls > 0}
           g == [j \in S |-> f[j]]
<1>1. g \in [S -> T]
    OBVIOUS
<1>2. \A a, b \in S : g[a] = g[b] => a = b
    OBVIOUS
<1>3. IsFiniteSet(T)
    BY RoundsInNat
<1> HIDE DEF S, T, g
<1>4. g \in Injection(S, T)
    BY <1>1, <1>2, Fun_IsInj
<1>5. Cardinality(S) <= Cardinality(T)
    BY <1>3, <1>4, FS_Injection
<1> QED BY <1>5 DEF RoundsIn, S, T

\* A message by somebody else, after which nothing is silent.
LEMMA FewRoundsAppend ==
    ASSUME NEW ms \in Seq(Message), NEW m \in Message, m.calls = 0, m.role \in {"user", "assistant"},
           NEW n \in Nat, FewRounds(ms, n), NEW l \in Nat
    PROVE  FewRounds(Append(ms, m), n) /\ FewRoundsLast(Append(ms, m), l)
<1> DEFINE new == Append(ms, m)
           L   == Len(ms)
<1>1. /\ L \in Nat /\ DOMAIN ms = 1..L /\ DOMAIN new = 1..(L + 1) /\ Len(new) = L + 1
      /\ \A j \in 1..L : new[j] = ms[j]
      /\ new[L + 1] = m
    BY AppendProperties, LenProperties
<1> HIDE DEF new, L
<1>2. ASSUME NEW i \in 1..(L + 1) PROVE ~Silent(new, i, L + 1)
    <2>1. L + 1 \in i..(L + 1)
        BY <1>1
    <2> QED BY <2>1, <1>1 DEF Silent
<1>3. ASSUME NEW i \in 1..(L + 1), NEW k \in i..(L + 1), Silent(new, i, k)
      PROVE  RoundsIn(new, i, k) <= n
    <2>1. k # L + 1
        BY <1>2, <1>3
    <2>2. i \in 1..L /\ k \in i..L /\ \A j \in i..k : j \in 1..L
        BY <2>1, <1>1
    <2>3. /\ i \in Int /\ k \in Int
          /\ \A j \in i..k : new[j].role = ms[j].role /\ new[j].calls = ms[j].calls
        BY <2>2, <1>1
    <2>4. RoundsIn(new, i, k) = RoundsIn(ms, i, k) /\ (Silent(new, i, k) <=> Silent(ms, i, k))
        BY <2>3, RoundsSame
    <2> QED BY <2>2, <2>4, <1>1, <1>3 DEF FewRounds, L
<1> QED BY <1>1, <1>2, <1>3 DEF FewRounds, FewRoundsLast, new

\* What is left of a dialogue when its end is taken away.
LEMMA FewRoundsRemoveLastExchange ==
    ASSUME NEW ms \in Seq(Message), NEW n \in Nat, FewRounds(ms, n)
    PROVE  FewRounds(RemoveLastExchange(ms), n)
<1> DEFINE p   == LastUser(ms)
           new == SubSeq(ms, 1, p - 1)
           L   == Len(ms)
<1>1. L \in Nat /\ p \in 0..L /\ DOMAIN ms = 1..L
    BY LastUserPlace, LenProperties
<1>2. CASE p = 0
    BY <1>2 DEF RemoveLastExchange
<1>3. CASE p # 0
    <2>1. /\ new \in Seq(Message) /\ Len(new) = p - 1
          /\ \A j \in 1..(p - 1) : new[j] = ms[j]
        <3> HIDE DEF p, L
        <3>1. \A j \in 1..(p - 1) : ms[j] \in Message
            BY <1>1, ElementOfSeq DEF L
        <3>2. /\ SubSeq(ms, 1, p - 1) \in Seq(Message)
              /\ Len(SubSeq(ms, 1, p - 1)) = IF 1 <= p - 1 THEN (p - 1) - 1 + 1 ELSE 0
              /\ \A j \in 1..((p - 1) - 1 + 1) : SubSeq(ms, 1, p - 1)[j] = ms[1 + j - 1]
            BY <3>1, <1>1, SubSeqProperties
        <3> QED BY <3>2, <1>1, <1>3
    <2>2. DOMAIN new = 1..(p - 1) /\ RemoveLastExchange(ms) = new
        BY <2>1, <1>3, LenProperties DEF RemoveLastExchange
    <2> HIDE DEF new, p, L
    <2>3. ASSUME NEW i \in 1..(p - 1), NEW k \in i..(p - 1), Silent(new, i, k)
          PROVE  RoundsIn(new, i, k) <= n
        <3>1. i \in 1..L /\ k \in i..L /\ \A j \in i..k : j \in 1..(p - 1)
            BY <1>1, <1>3
        <3>2. /\ i \in Int /\ k \in Int
              /\ \A j \in i..k : new[j].role = ms[j].role /\ new[j].calls = ms[j].calls
            BY <3>1, <2>1
        <3>3. RoundsIn(new, i, k) = RoundsIn(ms, i, k) /\ (Silent(new, i, k) <=> Silent(ms, i, k))
            BY <3>2, RoundsSame
        <3> QED BY <3>1, <3>3, <1>1, <2>3 DEF FewRounds, L
    <2> QED BY <2>1, <2>2, <2>3 DEF FewRounds
<1> QED BY <1>2, <1>3

\* One more round behind the silent end of a dialogue.
LEMMA FewRoundsAddToolResponses ==
    ASSUME NEW ms \in Seq(Message), NEW rs \in Seq(ToolResponse),
           NEW n \in Nat, FewRounds(ms, n), NEW l \in Nat, l < n, FewRoundsLast(ms, l)
    PROVE  FewRounds(AddToolResponses(ms, rs), n) /\ FewRoundsLast(AddToolResponses(ms, rs), l + 1)
<1> DEFINE new == AddToolResponses(ms, rs)
           L   == Len(ms)
           M   == Len(ms) + 1 + Len(rs)
<1>1. /\ L \in Nat /\ M \in Nat /\ L < M /\ DOMAIN ms = 1..L
      /\ DOMAIN new = 1..M /\ Len(new) = M
      /\ \A j \in 1..L : new[j].role = ms[j].role /\ new[j].calls = ms[j].calls
      /\ \A j \in (L + 2)..M : new[j].calls = 0
    <2>1. L \in Nat /\ Len(rs) \in Nat /\ DOMAIN ms = 1..L
        BY LenProperties
    <2> QED BY <2>1, AddToolResponsesHolds
<1> HIDE DEF new, L, M
<1>2. ASSUME NEW i \in 1..L, NEW k \in i..L, Silent(new, i, k)
      PROVE  RoundsIn(new, i, k) <= n
    <2>1. \A j \in i..k : j \in 1..L
        BY <1>1
    <2>2. /\ i \in Int /\ k \in Int
          /\ \A j \in i..k : new[j].role = ms[j].role /\ new[j].calls = ms[j].calls
        BY <2>1, <1>1
    <2>3. RoundsIn(new, i, k) = RoundsIn(ms, i, k) /\ (Silent(new, i, k) <=> Silent(ms, i, k))
        BY <2>2, RoundsSame
    <2> QED BY <2>3, <1>1, <1>2 DEF FewRounds, L
<1>3. ASSUME NEW i \in 1..M, NEW k \in i..M, k > L, Silent(new, i, k)
      PROVE  RoundsIn(new, i, k) <= l + 1
    <2> DEFINE Old == {j \in i..L : new[j].calls > 0}
               All == {j \in i..k : new[j].calls > 0}
    <2>1. All \in SUBSET (Old \cup {L + 1})
        <3>1. ASSUME NEW j \in i..k, new[j].calls > 0, j # L + 1 PROVE j \in i..L
            <4>1. j \notin (L + 2)..M
                BY <1>1, <3>1
            <4> QED BY <4>1, <3>1, <1>1
        <3> QED BY <3>1
    <2>2. IsFiniteSet(Old) /\ Cardinality(Old) \in Nat /\ Cardinality(Old) = RoundsIn(new, i, L)
        <3>1. i \in Int /\ L \in Int
            BY <1>1
        <3>2. RoundsIn(new, i, L) = Cardinality(Old)
            BY DEF RoundsIn
        <3>3. IsFiniteSet(Old) /\ RoundsIn(new, i, L) \in Nat
            BY <3>1, RoundsInNat
        <3> QED BY <3>2, <3>3
    <2>3. RoundsIn(new, i, L) <= l
        <3>1. CASE i \in 1..L
            <4>1. \A j \in i..L : j \in 1..L /\ j \in i..k
                BY <1>1, <1>3, <3>1
            <4>2. Silent(new, i, L)
                BY <4>1, <1>3 DEF Silent
            <4>3. /\ i \in Int /\ L \in Int
                  /\ \A j \in i..L : new[j].role = ms[j].role /\ new[j].calls = ms[j].calls
                BY <4>1, <1>1
            <4>4. RoundsIn(new, i, L) = RoundsIn(ms, i, L) /\ (Silent(new, i, L) <=> Silent(ms, i, L))
                BY <4>3, RoundsSame
            <4> QED BY <4>2, <4>4, <3>1, <1>1 DEF FewRoundsLast, L
        <3>2. CASE i \notin 1..L
            <4>1. Old = {}
                BY <3>2, <1>1
            <4> QED BY <4>1, <2>2, FS_EmptySet
        <3> QED BY <3>1, <3>2
    <2> HIDE DEF Old, All
    <2>4. IsFiniteSet(Old \cup {L + 1}) /\ Cardinality(Old \cup {L + 1}) <= Cardinality(Old) + 1
        <3>1. /\ IsFiniteSet(Old \cup {L + 1})
              /\ Cardinality(Old \cup {L + 1}) =
                    IF L + 1 \in Old THEN Cardinality(Old) ELSE Cardinality(Old) + 1
            BY <2>2, FS_AddElement
        <3> QED BY <2>2, <3>1
    <2>5. /\ Cardinality(All) <= Cardinality(Old \cup {L + 1})
          /\ Cardinality(All) \in Nat /\ Cardinality(Old \cup {L + 1}) \in Nat
        BY <2>1, <2>4, FS_Subset, FS_CardinalityType
    <2>6. Cardinality(All) <= l + 1
        BY <2>2, <2>3, <2>4, <2>5
    <2> QED BY <2>6 DEF All, RoundsIn
<1>4. ASSUME NEW i \in 1..M, NEW k \in i..M, Silent(new, i, k)
      PROVE  RoundsIn(new, i, k) <= n
    <2>1. CASE k <= L
        BY <2>1, <1>1, <1>2, <1>4
    <2>2. CASE k > L
        <3>1. RoundsIn(new, i, k) <= l + 1
            BY <2>2, <1>3, <1>4
        <3>2. i \in Int /\ k \in Int
            BY <1>1
        <3>3. RoundsIn(new, i, k) \in Nat
            BY <3>2, RoundsInNat
        <3> QED BY <3>1, <3>3
    <2> QED BY <2>1, <2>2, <1>1
<1>5. FewRounds(new, n)
    BY <1>1, <1>4 DEF FewRounds
<1>6. FewRoundsLast(new, l + 1)
    <2>1. ASSUME NEW i \in 1..M PROVE M \in i..M /\ M > L
        BY <1>1
    <2> QED BY <2>1, <1>1, <1>3 DEF FewRoundsLast
<1> QED BY <1>5, <1>6 DEF new

\* A dialogue that was cleared.
LEMMA FewRoundsClearContext ==
    ASSUME NEW ms, NEW n \in Nat
    PROVE  FewRounds(ClearContext(ms), n) /\ FewRounds(<<>>, n) /\ FewRounds(<<SystemMsg>>, n)
<1>1. FewRounds(<<>>, n)
    BY DEF FewRounds
<1>2. FewRounds(<<SystemMsg>>, n)
    <2>1. {j \in 1..1 : <<SystemMsg>>[j].calls > 0} = {}
        BY AddedMessages
    <2>2. RoundsIn(<<SystemMsg>>, 1, 1) = 0
        BY <2>1, FS_EmptySet DEF RoundsIn
    <2>3. DOMAIN <<SystemMsg>> = 1..1 /\ Len(<<SystemMsg>>) = 1
        OBVIOUS
    <2> QED BY <2>2, <2>3 DEF FewRounds
<1> QED BY <1>1, <1>2 DEF ClearContext

\* System prompts are erased: what was silent around them stays silent.
LEMMA FewRoundsAddSystemMessage ==
    ASSUME NEW ms \in Seq(Message), NEW n \in Nat, FewRounds(ms, n)
    PROVE  FewRounds(AddSystemMessage(ms), n)
<1> DEFINE new  == AddSystemMessage(ms)
           size == Survivors(ms, Len(ms))
           L    == Len(ms)
<1>1. /\ L \in Nat /\ DOMAIN ms = 1..L /\ size \in Nat
      /\ DOMAIN new = 1..(1 + size) /\ Len(new) = 1 + size
      /\ new[1].calls = 0
      /\ \A k \in 1..size : new[k + 1] = ms[Survivor(ms, k)]
    BY AddSystemMessageHolds, AddedMessages, LenProperties
<1>2. \A k \in 1..size : /\ Survivor(ms, k) \in 1..L
                         /\ ~HasRole(ms, Survivor(ms, k), "system")
                         /\ Survivors(ms, Survivor(ms, k)) = k
    BY SurvivorPlace
<1>3. \A m \in 1..L : ~HasRole(ms, m, "system") =>
          Survivors(ms, m) \in 1..size /\ Survivor(ms, Survivors(ms, m)) = m
    BY SurvivorOf
<1> HIDE DEF new, size, L
<1>4. ASSUME NEW a \in 1..size, NEW b \in 1..size, a <= b
      PROVE  Survivor(ms, a) <= Survivor(ms, b)
    <2> DEFINE p == Survivor(ms, a)
               q == Survivor(ms, b)
    <2>1. p \in Nat /\ q \in Nat /\ ~HasRole(ms, p, "system")
        BY <1>1, <1>2
    <2>2. Survivors(ms, p) = a /\ Survivors(ms, q) = b
        BY <1>2
    <2>3. q < p => Survivors(ms, q) < Survivors(ms, p)
        <3> HIDE DEF p, q
        <3> QED BY <2>1, SurvivorsInjective
    <2> QED BY <2>1, <2>2, <2>3, <1>1, <1>4
<1>5. ASSUME NEW i \in 2..(1 + size), NEW k \in i..(1 + size), Silent(new, i, k)
      PROVE  RoundsIn(new, i, k) <= n
    <2> DEFINE p == Survivor(ms, i - 1)
               q == Survivor(ms, k - 1)
               f == [j \in i..k |-> Survivor(ms, j - 1)]
    <2>1. /\ i - 1 \in 1..size /\ k - 1 \in 1..size /\ i - 1 <= k - 1
          /\ i \in Int /\ k \in Int /\ size \in Int
        BY <1>1
    <2>2. p \in 1..L /\ q \in p..L
        BY <2>1, <1>1, <1>2, <1>4
    <2>3. ASSUME NEW j \in i..k
          PROVE  /\ j - 1 \in 1..size /\ f[j] = Survivor(ms, j - 1)
                 /\ f[j] \in p..q /\ new[j] = ms[f[j]]
        <3>1. j - 1 \in 1..size /\ i - 1 <= j - 1 /\ j - 1 <= k - 1 /\ (j - 1) + 1 = j
            BY <2>1
        <3>2. p <= Survivor(ms, j - 1) /\ Survivor(ms, j - 1) <= q /\ Survivor(ms, j - 1) \in 1..L
            BY <3>1, <2>1, <1>2, <1>4
        <3>3. new[j] = ms[Survivor(ms, j - 1)]
            BY <3>1, <1>1
        <3> QED BY <3>1, <3>2, <3>3, <2>2, <1>1
    <2>4. \A a, b \in i..k : f[a] = f[b] => a = b
        <3>1. ASSUME NEW a \in i..k, NEW b \in i..k, f[a] = f[b] PROVE a = b
            <4>1. Survivors(ms, f[a]) = a - 1 /\ Survivors(ms, f[b]) = b - 1
                BY <2>3, <1>2
            <4> QED BY <4>1, <3>1, <2>1
        <3> QED BY <3>1
    <2>5. Silent(ms, p, q)
        <3>1. ASSUME NEW m \in p..q, ms[m].role # "system"
              PROVE  ms[m].calls > 0 \/ ms[m].role = "tool"
            <4> DEFINE c == Survivors(ms, m)
            <4>1. m \in 1..L /\ ~HasRole(ms, m, "system") /\ m \in Nat /\ p \in Nat /\ q \in Nat
                BY <3>1, <2>2, <1>1 DEF HasRole
            <4>2. c \in 1..size /\ Survivor(ms, c) = m
                BY <4>1, <1>3
            <4>3. Survivors(ms, p) <= c /\ c <= Survivors(ms, q)
                <5> HIDE DEF p, q
                <5>1. p <= m /\ m <= q
                    BY <4>1, <2>2, <1>1
                <5> QED BY <5>1, <4>1, SurvivorsMonotone
            <4>4. Survivors(ms, p) = i - 1 /\ Survivors(ms, q) = k - 1
                BY <2>1, <1>2
            <4> HIDE DEF c
            <4>5. c + 1 \in i..k /\ (c + 1) - 1 = c
                BY <4>2, <4>3, <4>4, <2>1, <1>1
            <4>6. new[c + 1] = ms[m]
                BY <4>2, <4>5, <2>3
            <4> QED BY <4>5, <4>6, <3>1, <1>5 DEF Silent
        <3> QED BY <3>1 DEF Silent
    <2>6. RoundsIn(ms, p, q) <= n
        BY <2>2, <2>5, <1>1 DEF FewRounds, L
    <2>7. /\ i \in Int /\ k \in Int /\ p \in Int /\ q \in Int
          /\ f \in [i..k -> p..q]
          /\ \A j \in i..k : new[j].calls > 0 => ms[f[j]].calls > 0
        <3>1. p \in Int /\ q \in Int
            BY <2>2, <1>1
        <3>2. f \in [i..k -> p..q]
            BY <2>3
        <3> HIDE DEF p, q, f
        <3> QED BY <3>1, <3>2, <2>1, <2>3
    <2> HIDE DEF p, q, f
    <2>8. RoundsIn(new, i, k) <= RoundsIn(ms, p, q)
        BY <2>4, <2>7, RoundsInjected
    <2>9. RoundsIn(new, i, k) \in Nat /\ RoundsIn(ms, p, q) \in Nat
        BY <2>7, RoundsInNat
    <2> QED BY <2>6, <2>8, <2>9
<1>6. ASSUME NEW i \in 1..(1 + size), NEW k \in i..(1 + size), Silent(new, i, k)
      PROVE  RoundsIn(new, i, k) <= n
    <2>1. CASE i # 1
        BY <2>1, <1>1, <1>5, <1>6
    <2>2. CASE k = 1
        <3>1. {j \in i..k : new[j].calls > 0} = {}
            BY <2>2, <1>1
        <3>2. RoundsIn(new, i, k) = 0
            BY <3>1, FS_EmptySet DEF RoundsIn
        <3> QED BY <3>2
    <2>3. CASE i = 1 /\ k # 1
        <3>1. 2 \in 2..(1 + size) /\ k \in 2..(1 + size)
            BY <2>3, <1>1
        <3>2. {j \in i..k : new[j].calls > 0} = {j \in 2..k : new[j].calls > 0}
            BY <2>3, <3>1, <1>1
        <3>3. Silent(new, 2, k)
            BY <2>3, <3>1, <1>1, <1>6 DEF Silent
        <3>4. RoundsIn(new, 2, k) <= n
            BY <3>1, <3>3, <1>5
        <3> QED BY <3>2, <3>4 DEF RoundsIn
    <2> QED BY <2>1, <2>2, <2>3
<1>7. FewRounds(new, n)
    BY <1>1, <1>6 DEF FewRounds
<1> QED BY <1>7 DEF new

\* The summary is the assistant's: nothing before it joins what is kept behind it.
LEMMA FewRoundsCompress ==
    ASSUME NEW ms \in Seq(Message), WellFormed(ms), SystemFirst(ms), NEW text \in BOOLEAN,
           NEW n \in Nat, FewRounds(ms, n)
    PROVE  FewRounds(Compress(ms, text), n)
<1> DEFINE new == Compress(ms, text)
           L   == Len(ms)
           K   == KeptFrom(ms)
           N   == L - K + 1
<1>1. CASE L <= 1
    BY <1>1 DEF Compress
<1>2. CASE L > 1
    <2>1. /\ Len(new) = 2 + N /\ DOMAIN new = 1..(2 + N)
          /\ N \in Nat /\ K \in 1..(L + 1)
          /\ new[1].calls = 0
          /\ new[2].role = "assistant" /\ new[2].calls = 0
          /\ \A i \in 1..N : new[i + 2] = ms[K + i - 1]
        BY <1>2, CompressHolds
    <2>2. L \in Nat /\ DOMAIN ms = 1..L
        BY LenProperties
    <2> HIDE DEF new, L, K
    <2>3. ASSUME NEW i \in 1..(2 + N), NEW k \in i..(2 + N), Silent(new, i, k)
          PROVE  RoundsIn(new, i, k) <= n
        <3>1. 2 \notin i..k
            BY <2>1, <2>3 DEF Silent
        <3>2. CASE k = 1
            <4>1. {j \in i..k : new[j].calls > 0} = {}
                BY <3>2, <2>1
            <4>2. RoundsIn(new, i, k) = 0
                BY <4>1, FS_EmptySet DEF RoundsIn
            <4> QED BY <4>2
        <3>3. CASE i >= 3
            <4> DEFINE p == K + i - 3
                       q == K + k - 3
                       f == [j \in i..k |-> K + j - 3]
            <4>1. i \in Int /\ k \in Int /\ p \in 1..L /\ q \in p..L /\ q - p = k - i
                BY <3>3, <2>1, <2>2
            <4>2. ASSUME NEW j \in i..k PROVE new[j] = ms[K + j - 3] /\ K + j - 3 \in p..q
                <5>1. j - 2 \in 1..N /\ (j - 2) + 2 = j /\ K + (j - 2) - 1 = K + j - 3
                    BY <3>3, <2>1, <2>2
                <5>2. new[j] = ms[K + j - 3]
                    BY <5>1, <2>1
                <5> QED BY <5>2, <2>1
            <4>3. Silent(ms, p, q)
                <5>1. ASSUME NEW m \in p..q PROVE ms[m].calls > 0 \/ ms[m].role \in {"tool", "system"}
                    <6>1. m - K + 3 \in i..k /\ K + (m - K + 3) - 3 = m
                        BY <2>1, <4>1
                    <6>2. new[m - K + 3] = ms[m]
                        BY <6>1, <4>2
                    <6> QED BY <6>1, <6>2, <2>3 DEF Silent
                <5> QED BY <5>1 DEF Silent
            <4>4. RoundsIn(ms, p, q) <= n
                BY <4>1, <4>3, <2>2 DEF FewRounds, L
            <4>5. /\ i \in Int /\ k \in Int /\ p \in Int /\ q \in Int
                  /\ f \in [i..k -> p..q]
                  /\ \A a, b \in i..k : f[a] = f[b] => a = b
                  /\ \A j \in i..k : new[j].calls > 0 => ms[f[j]].calls > 0
                BY <4>1, <4>2, <2>1, <2>2
            <4> HIDE DEF p, q, f
            <4>6. RoundsIn(new, i, k) <= RoundsIn(ms, p, q)
                BY <4>5, RoundsInjected
            <4>7. RoundsIn(new, i, k) \in Nat /\ RoundsIn(ms, p, q) \in Nat
                BY <4>5, RoundsInNat
            <4> QED BY <4>4, <4>6, <4>7
        <3> QED BY <3>1, <3>2, <3>3, <2>1
    <2>4. FewRounds(new, n)
        BY <2>1, <2>3 DEF FewRounds
    <2> QED BY <2>4 DEF new
<1> QED BY <1>1, <1>2, LenProperties

-----------------------------------------------------------------------------
(***************************************************************************)
(* The invariant.                                                          *)
(***************************************************************************)

ControlTypes ==
    /\ ui \in UiPlaces
    /\ running \in BOOLEAN
    /\ cancelled \in BOOLEAN
    /\ worker \in WorkerPlaces
    /\ first \in BOOLEAN
    /\ round \in 0..(ToolsCallMax + 1)
    /\ reply \in [error : BOOLEAN, text : BOOLEAN, calls : Seq(Files \cup {NoFile})]
    /\ todo \in Seq(Files \cup {NoFile})
    /\ done \in Seq(ToolResponse)
    /\ notice \in Notices
    /\ hasArray \in BOOLEAN
    /\ logOn \in BOOLEAN
    /\ escaped \in BOOLEAN

BodyTypes ==
    /\ messages \in Seq(Message)
    /\ logged \in Seq(Message)
    /\ dumped \in Seq(Message)
    /\ base \in Seq(Message)

Control  == ControlTypes /\ ThreadSlotFree /\ RunningCoversWork /\ CallsLeft /\ RoundLeft
Body     == BodyTypes /\ BodyWellFormed /\ SystemPromptFirst /\ DumpUsable
Exchange == QueryBehindBase /\ InterruptRestoresDialogue

\* The invariant is the three groups.
LEMMA Groups == Inv <=> Control /\ Body /\ Exchange
BY DEF Inv, Control, Body, Exchange, TypeOK, ControlTypes, BodyTypes

\* The values the variables are reset to.
LEMMA EmptyValues ==
    /\ ToolsCallMax \in Nat /\ 0 \in 0..(ToolsCallMax + 1)
    /\ <<>> \in Seq(Message) /\ <<>> \in Seq(ToolResponse) /\ <<>> \in Seq(Files \cup {NoFile})
    /\ NoReply \in [error : BOOLEAN, text : BOOLEAN, calls : Seq(Files \cup {NoFile})]
<1>1. <<>> \in Seq(Files \cup {NoFile})
    OBVIOUS
<1> QED BY <1>1, SessionAssumption DEF NoReply

-----------------------------------------------------------------------------
\* The initial state: an idle session whose body holds the system prompt.
LEMMA InitInv == Init => Inv
<1> SUFFICES ASSUME Init PROVE Control /\ Body /\ Exchange
    BY Groups
<1>1. /\ 0 \in 0..(ToolsCallMax + 1)
      /\ <<>> \in Seq(Message) /\ <<>> \in Seq(ToolResponse) /\ <<>> \in Seq(Files \cup {NoFile})
    BY EmptyValues
<1>2. <<SystemMsg>> \in Seq(Message) /\ WellFormed(<<SystemMsg>>) /\ SystemFirst(<<SystemMsg>>)
    BY AddedMessages DEF WellFormed, Answered, SystemFirst, HasRole
<1>3. WellFormed(<<>>)
    BY DEF WellFormed
<1>4. Control
    BY <1>1, EmptyValues DEF Init, Control, ControlTypes, ThreadSlotFree, RunningCoversWork, CallsLeft, RoundLeft,
       Working, Midway, UiPlaces, WorkerPlaces, Notices
<1>5. Body
    BY <1>1, <1>2, <1>3 DEF Init, Body, BodyTypes, BodyWellFormed, SystemPromptFirst, DumpUsable
<1>6. Exchange
    BY DEF Init, Exchange, QueryBehindBase, InterruptRestoresDialogue, Midway, Working
<1> QED BY <1>4, <1>5, <1>6

-----------------------------------------------------------------------------
\* What a server may answer is a reply.
LEMMA RepliesType ==
    ASSUME NEW r \in Replies
    PROVE  r \in [error : BOOLEAN, text : BOOLEAN, calls : Seq(Files \cup {NoFile})]
<1>1. Calls \subseteq Seq(Files \cup {NoFile})
    BY SessionAssumption, SeqDef DEF Calls
<1>2. <<>> \in Seq(Files \cup {NoFile})
    OBVIOUS
<1>3. CASE r = [error |-> TRUE, text |-> FALSE, calls |-> <<>>]
    BY <1>2, <1>3
<1>4. CASE r \in [error : {FALSE}, text : BOOLEAN, calls : Calls]
    BY <1>1, <1>4
<1> QED BY <1>3, <1>4 DEF Replies

\* The threads, the loop over the tool calls and the loop counter.
LEMMA ControlStep == Inv /\ [Next]_vars => Control'
<1> SUFFICES ASSUME Control, [Next]_vars PROVE Control'
    BY Groups
<1> USE EmptyValues DEF Control, ControlTypes, ThreadSlotFree, RunningCoversWork, CallsLeft,
        RoundLeft, Midway, Working, UiPlaces, WorkerPlaces, Notices, At, Goto, UiAt, UiGoto,
        history, logs, dialogue, query
<1>1. CASE Begin
    <2>1. ControlTypes'
        BY <1>1 DEF Begin
    <2>2. (ThreadSlotFree /\ RunningCoversWork /\ CallsLeft)'
        BY <1>1 DEF Begin
    <2>3. RoundLeft'
        BY <1>1 DEF Begin
    <2> QED BY <2>1, <2>2, <2>3
<1>2. ASSUME NEW r \in Replies, ServerReplies(r) PROVE Control'
    BY <1>2, RepliesType DEF ServerReplies
<1>3. CASE StreamAborts
    BY <1>3 DEF StreamAborts
<1>4. CASE HandleReply
    <2>1. CASE cancelled
        BY <1>4, <2>1 DEF HandleReply, RollBack
    <2>2. CASE ~cancelled /\ reply.error
        BY <1>4, <2>2 DEF HandleReply
    <2>3. CASE ~cancelled /\ ~reply.error
        <3>1. /\ round' \in {0, round} /\ todo' = reply.calls /\ done' = <<>> /\ reply' = NoReply
              /\ worker' \in {"recorded", "finish", "loop"}
              /\ worker' = "loop" => todo' # <<>>
              /\ UNCHANGED <<ui, running, cancelled, first, notice, hasArray, logOn, escaped>>
              /\ worker = "streamed"
            BY <1>4, <2>3 DEF HandleReply, RoundAfter
        <3>2. ControlTypes'
            BY <3>1
        <3> QED BY <3>1, <3>2
    <2> QED BY <2>1, <2>2, <2>3
<1>5. CASE CheckRecorded
    BY <1>5 DEF CheckRecorded, Check, RollBack
<1>6. CASE CheckLoop
    BY <1>6 DEF CheckLoop, Check, RollBack
<1>7. CASE CheckGate
    BY <1>7 DEF CheckGate, Check, RollBack
<1>8. CASE ToolAsks
    BY <1>8 DEF ToolAsks
<1>9. CASE ToolAnswered
    BY <1>9 DEF ToolAnswered
<1>10. CASE ToolReturns
    <2>1. todo # <<>>
        BY <1>10 DEF ToolReturns
    <2>2. Head(todo) \in Files \cup {NoFile} /\ Tail(todo) \in Seq(Files \cup {NoFile})
        BY <2>1, HeadTailProperties
    <2>3. PICK r \in Results(Head(todo)) : done' = Append(done, r)
        BY <1>10 DEF ToolReturns
    <2>4. r \in ToolResponse
        BY <2>2, <2>3, SessionAssumption DEF Results, ToolResponse
    <2>5. done' \in Seq(ToolResponse)
        BY <2>3, <2>4, AppendProperties
    <2>6. /\ todo' = Tail(todo) /\ worker' \in {"loop", "gate", "send"}
          /\ worker' = "loop" => todo' # <<>>
          /\ worker \in {"tool", "acting"}
          /\ UNCHANGED <<ui, running, cancelled, first, round, reply, notice, hasArray, logOn, escaped>>
        BY <1>10 DEF ToolReturns
    <2> QED BY <2>2, <2>5, <2>6
<1>11. CASE ToolThrows
    BY <1>11 DEF ToolThrows
<1>12. CASE Send
    <2>1. CASE worker' = "finish"
        <3>1. /\ round' \in {round, round + 1} /\ notice' \in {notice, "error"} /\ worker = "send"
              /\ UNCHANGED <<ui, running, cancelled, first, reply, todo, done, hasArray, logOn, escaped>>
            BY <1>12, <2>1 DEF Send
        <3>2. ControlTypes'
            BY <2>1, <3>1
        <3> QED BY <2>1, <3>1, <3>2
    <2>2. CASE worker' # "finish"
        <3>0. <<>> \in Seq(ToolResponse)
            BY EmptyValues
        <3>1. /\ worker' = "stream" /\ round' = round + 1 /\ ~TooManyRounds(round')
              /\ first' = FALSE /\ done' = <<>> /\ worker = "send"
              /\ UNCHANGED <<ui, running, cancelled, reply, todo, notice, hasArray, logOn, escaped>>
            BY <1>12, <2>2 DEF Send
        <3>2. round' \in 0..ToolsCallMax /\ round' \in 0..(ToolsCallMax + 1)
            BY <3>1 DEF TooManyRounds
        <3>3. ControlTypes'
            BY <3>0, <3>1, <3>2
        <3> QED BY <3>1, <3>2, <3>3
    <2> QED BY <2>1, <2>2
<1>13. CASE Finish
    BY <1>13 DEF Finish
<1>14. CASE LoopTop
    BY <1>14 DEF LoopTop, Reaped
<1>15. CASE KeyConsumed \/ KeyPassesDialog \/ StdinClosed \/ KeyDropped \/ ExitConfirmed
    BY <1>15 DEF KeyConsumed, KeyPassesDialog, StdinClosed, KeyDropped, ExitConfirmed
<1>16. CASE KeyEscape
    BY <1>16 DEF KeyEscape
<1>17. CASE Submit
    BY <1>17 DEF Submit, Reaped
<1>18. CASE Launch \/ LaunchFails
    BY <1>18 DEF Launch, LaunchFails
<1>19. CASE Commands
    <2>1. /\ UNCHANGED <<running, worker, query, escaped>> /\ ui' = "loop"
          /\ cancelled' \in {FALSE, cancelled} /\ hasArray' \in BOOLEAN /\ logOn' \in BOOLEAN
        BY <1>19 DEF Commands, ClearCommand, CompressCommand, RulesCommand, DumpCommand,
           RestoreCommand, LogCommand, ModelCommand, Command
    <2>2. ControlTypes'
        BY <2>1
    <2> QED BY <2>1, <2>2
<1>20. CASE Leave
    BY <1>20 DEF Leave
<1>21. CASE LeaveAgain
    <2>1. CASE worker = "none"
        BY <1>21, <2>1 DEF LeaveAgain
    <2>2. CASE worker # "none"
        BY <1>21, <2>2 DEF LeaveAgain
    <2> QED BY <2>1, <2>2
<1>22. CASE Join
    BY <1>22 DEF Join
<1>23. CASE UNCHANGED vars
    BY <1>23 DEF vars, threads
<1> QED
    BY <1>1, <1>2, <1>3, <1>4, <1>5, <1>6, <1>7, <1>8, <1>9, <1>10, <1>11, <1>12, <1>13, <1>14,
       <1>15, <1>16, <1>17, <1>18, <1>19, <1>20, <1>21, <1>22, <1>23 DEF Next, Worker, Ui

-----------------------------------------------------------------------------
\* An operation on the body: one that keeps the dialogue well formed, with the
\* system prompt in front, does so whether or not there is an array.
LEMMA SetMessagesKeeps ==
    ASSUME Body, NEW ms, SetMessages(ms), hasArray' = hasArray, hasArray \in BOOLEAN,
           ms \in Seq(Message) /\ WellFormed(ms),
           hasArray /\ SystemFirst(messages) => SystemFirst(ms)
    PROVE  messages' \in Seq(Message) /\ BodyWellFormed' /\ SystemPromptFirst'
<1>1. CASE hasArray
    BY <1>1 DEF SetMessages, Body, BodyTypes, BodyWellFormed, SystemPromptFirst
<1>2. CASE ~hasArray
    BY <1>2 DEF SetMessages, Body, BodyTypes, BodyWellFormed, SystemPromptFirst
<1> QED BY <1>1, <1>2

\* Rolling back keeps the body.
LEMMA RollBackKeepsBody ==
    ASSUME Body, hasArray \in BOOLEAN, RollBack
    PROVE  Body'
<1>1. /\ SetMessages(RemoveLastExchange(messages)) /\ WriteLog
      /\ hasArray' = hasArray /\ dumped' = dumped /\ base' = base
    BY DEF RollBack, history
<1>2. messages' \in Seq(Message) /\ BodyWellFormed' /\ SystemPromptFirst'
    <2>1. /\ RemoveLastExchange(messages) \in Seq(Message)
          /\ WellFormed(RemoveLastExchange(messages))
          /\ SystemFirst(messages) => SystemFirst(RemoveLastExchange(messages))
        BY WellFormedRemoveLastExchange DEF Body, BodyTypes, BodyWellFormed
    <2> QED BY <1>1, <2>1, SetMessagesKeeps
<1>3. logged' \in Seq(Message)
    BY <1>1, <1>2 DEF WriteLog, Body, BodyTypes
<1> QED BY <1>1, <1>2, <1>3 DEF Body, BodyTypes, DumpUsable

\* A step that leaves the body and its copies alone keeps them.
LEMMA BodyUntouched ==
    ASSUME Body, UNCHANGED <<messages, hasArray, logged, dumped>>, base' \in Seq(Message)
    PROVE  Body'
BY DEF Body, BodyTypes, BodyWellFormed, SystemPromptFirst, DumpUsable

\* The dialogue, its copies on disk, and what is sent to the server.
LEMMA BodyStep == Inv /\ [Next]_vars => Body'
<1> SUFFICES ASSUME Inv, [Next]_vars PROVE Body'
    OBVIOUS
<1>0. Control /\ Body
    BY Groups
<1>t. /\ hasArray \in BOOLEAN /\ done \in Seq(ToolResponse)
      /\ messages \in Seq(Message) /\ base \in Seq(Message) /\ logged \in Seq(Message)
      /\ WellFormed(messages) /\ (hasArray => SystemFirst(messages))
    BY <1>0 DEF Control, ControlTypes, Body, BodyTypes, BodyWellFormed, SystemPromptFirst
\* Given the new body, the autosave file and the dump follow.
<1>l. ASSUME messages' \in Seq(Message) /\ BodyWellFormed' /\ SystemPromptFirst',
             logged' \in {messages', logged, <<>>}, dumped' = dumped, base' \in {base, messages}
      PROVE  Body'
    BY <1>0, <1>l, EmptyValues DEF Body, BodyTypes, DumpUsable
<1>1. CASE Begin
    <2>1. /\ SetMessages(AddUserMessage(messages)) /\ hasArray' = hasArray /\ dumped' = dumped
          /\ base' = messages /\ logged' \in {messages', logged}
        BY <1>1 DEF Begin, WriteLog
    <2>2. /\ AddUserMessage(messages) \in Seq(Message)
          /\ WellFormed(AddUserMessage(messages))
          /\ SystemFirst(messages) => SystemFirst(AddUserMessage(messages))
        BY <1>t, AddedMessages, WellFormedAppend DEF AddUserMessage
    <2>3. messages' \in Seq(Message) /\ BodyWellFormed' /\ SystemPromptFirst'
        BY <1>0, <1>t, <2>1, <2>2, SetMessagesKeeps
    <2> QED BY <2>1, <2>3, <1>l
<1>2. CASE HandleReply
    <2>1. CASE cancelled
        BY <1>0, <1>t, <1>2, <2>1, RollBackKeepsBody DEF HandleReply
    <2>2. CASE ~cancelled /\ reply.error
        BY <1>0, <1>t, <1>2, <2>2, BodyUntouched DEF HandleReply, dialogue, logs, history
    <2>3. CASE ~cancelled /\ ~reply.error
        <3> DEFINE ms == AddResponse(messages, reply.text)
        <3>1. /\ SetMessages(ms) /\ hasArray' = hasArray /\ dumped' = dumped
              /\ base' = base /\ logged' \in {messages', logged}
            BY <1>2, <2>3 DEF HandleReply, WriteLog, history
        <3>2. /\ ms \in Seq(Message) /\ WellFormed(ms)
              /\ SystemFirst(messages) => SystemFirst(ms)
            BY <1>t, AddedMessages, WellFormedAppend DEF AddResponse
        <3> HIDE DEF ms
        <3>3. messages' \in Seq(Message) /\ BodyWellFormed' /\ SystemPromptFirst'
            BY <1>0, <1>t, <3>1, <3>2, SetMessagesKeeps
        <3> QED BY <3>1, <3>3, <1>l
    <2> QED BY <2>1, <2>2, <2>3
<1>3. CASE CheckRecorded \/ CheckLoop \/ CheckGate
    <2>1. CASE RollBack
        BY <1>0, <1>t, <2>1, RollBackKeepsBody
    <2>2. CASE ~RollBack
        <3>1. UNCHANGED <<dialogue, logs, history>>
            BY <1>3, <2>2 DEF CheckRecorded, CheckLoop, CheckGate, Check
        <3> QED BY <1>0, <1>t, <3>1, BodyUntouched DEF dialogue, logs, history
    <2> QED BY <2>1, <2>2
<1>4. CASE Send
    <2>1. CASE worker' = "finish"
        <3>1. UNCHANGED <<messages, hasArray, logged, dumped, base>>
            BY <1>4, <2>1 DEF Send, Goto, history
        <3> QED BY <1>0, <1>t, <3>1, BodyUntouched
    <2>2. CASE worker' # "finish"
        <3> DEFINE ms == AddToolResponses(messages, done)
        <3>1. /\ SetMessages(ms) /\ hasArray' = hasArray /\ dumped' = dumped
              /\ base' = base /\ logged' \in {messages', logged}
            BY <1>4, <2>2 DEF Send, Goto, WriteLog, history
        <3>2. /\ ms \in Seq(Message) /\ WellFormed(ms)
              /\ SystemFirst(messages) => SystemFirst(ms)
            BY <1>t, WellFormedAddToolResponses
        <3> HIDE DEF ms
        <3>3. messages' \in Seq(Message) /\ BodyWellFormed' /\ SystemPromptFirst'
            BY <1>0, <1>t, <3>1, <3>2, SetMessagesKeeps
        <3> QED BY <3>1, <3>3, <1>l
    <2> QED BY <2>1, <2>2
<1>5. CASE Finish
    <2>1. UNCHANGED <<messages, hasArray, logged, dumped>> /\ base' = <<>>
        BY <1>5 DEF Finish, dialogue, logs
    <2> QED BY <1>0, <2>1, BodyUntouched, EmptyValues
<1>6. CASE ClearCommand
    <2>1. /\ SetMessages(ClearContext(messages)) /\ hasArray' = hasArray /\ dumped' = dumped
          /\ base' = base /\ logged' \in {messages', <<>>}
        BY <1>6 DEF ClearCommand, Command, ResetLogAndWrite, history
    <2>2. /\ ClearContext(messages) \in Seq(Message) /\ WellFormed(ClearContext(messages))
          /\ SystemFirst(messages) => SystemFirst(ClearContext(messages))
        BY <1>t, WellFormedClearContext
    <2>3. messages' \in Seq(Message) /\ BodyWellFormed' /\ SystemPromptFirst'
        BY <1>0, <1>t, <2>1, <2>2, SetMessagesKeeps
    <2> QED BY <2>1, <2>3, <1>l
<1>7. CASE CompressCommand
    <2>1. CASE UNCHANGED <<messages, logged>>
        <3>1. UNCHANGED <<hasArray, dumped, base>>
            BY <1>7 DEF CompressCommand, Command, history
        <3> QED BY <1>0, <1>t, <2>1, <3>1, BodyUntouched
    <2>2. CASE ~UNCHANGED <<messages, logged>>
        <3>1. PICK text \in BOOLEAN : messages' = Compress(messages, text)
            BY <1>7, <2>2 DEF CompressCommand
        <3>2. /\ hasArray /\ hasArray' = hasArray /\ dumped' = dumped /\ base' = base
              /\ logged' \in {messages', logged}
            BY <1>7, <2>2 DEF CompressCommand, Command, WriteLog, history
        <3>3. /\ messages' \in Seq(Message) /\ WellFormed(messages') /\ SystemFirst(messages')
            BY <1>t, <3>1, <3>2, WellFormedCompress
        <3>4. messages' \in Seq(Message) /\ BodyWellFormed' /\ SystemPromptFirst'
            BY <3>3 DEF BodyWellFormed, SystemPromptFirst
        <3> QED BY <3>2, <3>4, <1>l
    <2> QED BY <2>1, <2>2
<1>8. CASE RulesCommand
    <2>1. /\ SetMessages(AddSystemMessage(messages)) /\ hasArray' = hasArray /\ dumped' = dumped
          /\ base' = base /\ logged' = logged
        BY <1>8 DEF RulesCommand, Command, logs, history
    <2>2. /\ AddSystemMessage(messages) \in Seq(Message) /\ WellFormed(AddSystemMessage(messages))
          /\ SystemFirst(AddSystemMessage(messages))
        BY <1>t, WellFormedAddSystemMessage
    <2>3. messages' \in Seq(Message) /\ BodyWellFormed' /\ SystemPromptFirst'
        BY <1>0, <1>t, <2>1, <2>2, SetMessagesKeeps
    <2> QED BY <2>1, <2>3, <1>l
<1>9. CASE DumpCommand
    <2>1. UNCHANGED <<messages, hasArray, logged, base>> /\ dumped' = messages /\ hasArray
        BY <1>9 DEF DumpCommand, Command, dialogue, history
    <2> QED BY <1>0, <1>t, <2>1 DEF Body, BodyTypes, BodyWellFormed, SystemPromptFirst, DumpUsable
<1>10. CASE RestoreCommand
    <2>1. dumped' = dumped /\ base' = base /\ logged' \in {messages', <<>>}
        BY <1>10 DEF RestoreCommand, Command, ResetLogAndWrite, history
    <2>2. messages' \in Seq(Message) /\ BodyWellFormed' /\ SystemPromptFirst'
        <3>1. CASE dumped # <<>> /\ messages' = dumped /\ hasArray' = TRUE
            BY <1>0, <3>1 DEF Body, BodyTypes, DumpUsable, BodyWellFormed, SystemPromptFirst
        <3>2. CASE SetMessages(ClearContext(messages)) /\ UNCHANGED hasArray
            <4>1. /\ ClearContext(messages) \in Seq(Message) /\ WellFormed(ClearContext(messages))
                  /\ SystemFirst(messages) => SystemFirst(ClearContext(messages))
                BY <1>t, WellFormedClearContext
            <4> QED BY <1>0, <1>t, <3>2, <4>1, SetMessagesKeeps
        <3>3. CASE messages' = <<>> /\ hasArray' = FALSE
            <4>1. WellFormed(<<>>)
                BY DEF WellFormed
            <4> QED BY <3>3, <4>1, EmptyValues DEF BodyWellFormed, SystemPromptFirst
        <3> QED BY <1>10, <3>1, <3>2, <3>3 DEF RestoreCommand
    <2> QED BY <2>1, <2>2, <1>l
<1>11. CASE LogCommand
    <2>1. UNCHANGED <<messages, hasArray, logged, dumped, base>>
        BY <1>11 DEF LogCommand, Command, dialogue, history
    <2> QED BY <1>0, <1>t, <2>1, BodyUntouched
<1>12. CASE ModelCommand
    <2>1. UNCHANGED <<messages, hasArray, dumped, base>> /\ logged' = <<>>
        BY <1>12 DEF ModelCommand, Command, dialogue, history
    <2> QED BY <1>0, <1>t, <2>1, EmptyValues DEF Body, BodyTypes, BodyWellFormed, SystemPromptFirst, DumpUsable
<1>13. CASE UNCHANGED <<messages, hasArray, logged, dumped, base>>
    BY <1>0, <1>t, <1>13, BodyUntouched
<1>14. ASSUME NEW r \in Replies, ServerReplies(r)
       PROVE  UNCHANGED <<messages, hasArray, logged, dumped, base>>
    BY <1>14 DEF ServerReplies, dialogue, logs, history
<1>15. StreamAborts \/ ToolAsks \/ ToolAnswered \/ ToolReturns \/ ToolThrows
           => UNCHANGED <<messages, hasArray, logged, dumped, base>>
    BY DEF StreamAborts, ToolAsks, ToolAnswered, ToolReturns, ToolThrows, dialogue, logs, history
<1>16. LoopTop \/ KeyConsumed \/ KeyPassesDialog \/ StdinClosed \/ KeyEscape \/ KeyDropped
         \/ ExitConfirmed \/ Submit \/ Launch \/ LaunchFails \/ Leave \/ LeaveAgain \/ Join
         \/ UNCHANGED vars
           => UNCHANGED <<messages, hasArray, logged, dumped, base>>
    BY DEF LoopTop, KeyConsumed, KeyPassesDialog, StdinClosed, KeyEscape, KeyDropped, ExitConfirmed,
       Submit, Launch, LaunchFails, Leave, LeaveAgain, Join, vars, dialogue, logs, history
<1>17. CASE Worker
    BY <1>1, <1>2, <1>3, <1>4, <1>5, <1>13, <1>14, <1>15, <1>17 DEF Worker
<1>18. CASE Commands
    BY <1>6, <1>7, <1>8, <1>9, <1>10, <1>11, <1>12, <1>18 DEF Commands
<1>19. CASE Ui \/ UNCHANGED vars
    <2>1. Ui \/ UNCHANGED vars =>
             Commands \/ UNCHANGED <<messages, hasArray, logged, dumped, base>>
        BY <1>16 DEF Ui
    <2> QED BY <2>1, <1>13, <1>18, <1>19
<1> QED BY <1>17, <1>19 DEF Next

-----------------------------------------------------------------------------
\* Outside a query there is nothing to show.
LEMMA NoExchange ==
    ASSUME worker' \in {"none", "exited", "start"}
    PROVE  Exchange'
BY DEF Exchange, QueryBehindBase, InterruptRestoresDialogue, Midway, Working

\* A step of the query that leaves the dialogue alone and does not claim that it
\* was interrupted, and a step of the other thread.
LEMMA ExchangeUntouched ==
    ASSUME Exchange, UNCHANGED <<messages, hasArray, base>>,
           \/ UNCHANGED <<worker, notice>>
           \/ Midway /\ notice' \in {notice, "error"}
    PROVE  Exchange'
<1>1. CASE UNCHANGED <<worker, notice>>
    BY <1>1 DEF Exchange, QueryBehindBase, InterruptRestoresDialogue, Midway, Working
<1>2. CASE Midway /\ notice' \in {notice, "error"}
    BY <1>2 DEF Exchange, QueryBehindBase, InterruptRestoresDialogue
<1> QED BY <1>1, <1>2

\* Rolling back a query in progress restores the shape of the dialogue.
LEMMA RollBackRestores ==
    ASSUME Exchange, Midway, messages \in Seq(Message), base \in Seq(Message), RollBack
    PROVE  Exchange'
<1>1. worker' = "finish" /\ SetMessages(RemoveLastExchange(messages)) /\ base' = base
    BY DEF RollBack, Goto, history
<1>2. Shape(messages') = Shape(base)
    <2>1. CASE hasArray
        <3>1. Extends(messages, base)
            BY <2>1 DEF Exchange, QueryBehindBase
        <3> QED BY <2>1, <3>1, <1>1, RemoveLastExchangeRestores DEF SetMessages
    <2>2. CASE ~hasArray
        BY <2>2, <1>1 DEF SetMessages, Exchange, QueryBehindBase
    <2> QED BY <2>1, <2>2
<1> QED BY <1>1, <1>2 DEF Exchange, QueryBehindBase, InterruptRestoresDialogue, Midway, Working

\* The dialogue grows behind the query's own message only, until the query ends.
LEMMA ExchangeStep == Inv /\ [Next]_vars => Exchange'
<1> SUFFICES ASSUME Inv, [Next]_vars PROVE Exchange'
    OBVIOUS
<1>t. /\ Exchange /\ RunningCoversWork
      /\ running \in BOOLEAN /\ hasArray \in BOOLEAN /\ done \in Seq(ToolResponse)
      /\ messages \in Seq(Message) /\ base \in Seq(Message)
    BY Groups DEF Control, ControlTypes, Body, BodyTypes
<1>1. CASE Begin
    <2>1. /\ worker' = "stream" /\ notice' = "none" /\ base' = messages /\ hasArray' = hasArray
          /\ SetMessages(AddUserMessage(messages))
        BY <1>1 DEF Begin, Goto
    <2>2. IF hasArray' THEN Extends(messages', base') ELSE messages' = base'
        BY <2>1, <1>t, ExtendsAddUserMessage DEF SetMessages
    <2> QED BY <2>1, <2>2 DEF Exchange, QueryBehindBase, InterruptRestoresDialogue
<1>2. CASE HandleReply
    <2>0. Midway
        BY <1>2 DEF HandleReply, At, Midway, Working
    <2>1. CASE cancelled
        BY <1>t, <1>2, <2>0, <2>1, RollBackRestores DEF HandleReply
    <2>2. CASE ~cancelled /\ reply.error
        <3>1. UNCHANGED <<messages, hasArray, base>> /\ notice' = "error"
            BY <1>2, <2>2 DEF HandleReply, dialogue, history
        <3> QED BY <1>t, <2>0, <3>1, ExchangeUntouched
    <2>3. CASE ~cancelled /\ ~reply.error
        <3>1. /\ SetMessages(AddResponse(messages, reply.text))
              /\ UNCHANGED <<hasArray, base, notice>>
            BY <1>2, <2>3 DEF HandleReply, history
        <3>2. notice # "interrupted" /\ IF hasArray THEN Extends(messages, base) ELSE messages = base
            BY <1>t, <2>0 DEF Exchange, QueryBehindBase
        <3>3. hasArray => Extends(AddResponse(messages, reply.text), base)
            BY <1>t, <3>2, AddedMessages, ExtendsAppend DEF AddResponse
        <3>4. IF hasArray' THEN Extends(messages', base') ELSE messages' = base'
            BY <3>1, <3>2, <3>3 DEF SetMessages
        <3> QED BY <3>1, <3>2, <3>4 DEF Exchange, QueryBehindBase, InterruptRestoresDialogue
    <2> QED BY <2>1, <2>2, <2>3
<1>3. CASE CheckRecorded \/ CheckLoop \/ CheckGate
    <2>0. Midway
        BY <1>3 DEF CheckRecorded, CheckLoop, CheckGate, At, Midway, Working
    <2>1. CASE RollBack
        BY <1>t, <2>0, <2>1, RollBackRestores
    <2>2. CASE ~RollBack
        <3>1. UNCHANGED <<messages, hasArray, base, notice>>
            BY <1>3, <2>2 DEF CheckRecorded, CheckLoop, CheckGate, Check, dialogue, history, query
        <3> QED BY <1>t, <2>0, <3>1, ExchangeUntouched
    <2> QED BY <2>1, <2>2
<1>4. CASE Send
    <2>0. Midway
        BY <1>4 DEF Send, At, Midway, Working
    <2>1. CASE worker' = "finish"
        <3>1. UNCHANGED <<messages, hasArray, base>> /\ notice' \in {notice, "error"}
            BY <1>4, <2>1 DEF Send, Goto, history
        <3> QED BY <1>t, <2>0, <3>1, ExchangeUntouched
    <2>2. CASE worker' # "finish"
        <3>1. /\ SetMessages(AddToolResponses(messages, done))
              /\ UNCHANGED <<hasArray, base, notice>>
            BY <1>4, <2>2 DEF Send, Goto, history
        <3>2. notice # "interrupted" /\ IF hasArray THEN Extends(messages, base) ELSE messages = base
            BY <1>t, <2>0 DEF Exchange, QueryBehindBase
        <3>3. hasArray => Extends(AddToolResponses(messages, done), base)
            BY <1>t, <3>2, ExtendsAddToolResponses
        <3>4. IF hasArray' THEN Extends(messages', base') ELSE messages' = base'
            BY <3>1, <3>2, <3>3 DEF SetMessages
        <3> QED BY <3>1, <3>2, <3>4 DEF Exchange, QueryBehindBase, InterruptRestoresDialogue
    <2> QED BY <2>1, <2>2
<1>5. ASSUME NEW r \in Replies, ServerReplies(r) PROVE Exchange'
    <2>1. Midway /\ UNCHANGED <<messages, hasArray, base, notice>>
        BY <1>5 DEF ServerReplies, At, Midway, Working, dialogue, history
    <2> QED BY <1>t, <2>1, ExchangeUntouched
<1>6. CASE StreamAborts \/ ToolAsks \/ ToolAnswered \/ ToolReturns \/ ToolThrows
    <2>1. UNCHANGED <<messages, hasArray, base>> /\ notice' \in {notice, "error"}
        BY <1>6 DEF StreamAborts, ToolAsks, ToolAnswered, ToolReturns, ToolThrows, dialogue, history, query
    <2>2. Midway
        BY <1>6 DEF StreamAborts, ToolAsks, ToolAnswered, ToolReturns, ToolThrows, At, Midway, Working
    <2> QED BY <1>t, <2>1, <2>2, ExchangeUntouched
<1>7. CASE Finish \/ Launch \/ Join
    <2>1. worker' \in {"none", "exited", "start"}
        BY <1>7 DEF Finish, Launch, Join, Goto
    <2> QED BY <2>1, NoExchange
<1>8. CASE LoopTop \/ Submit
    <2>1. worker' \in {worker, "none"} /\ UNCHANGED <<messages, hasArray, base, notice>>
        BY <1>8 DEF LoopTop, Submit, Reaped, dialogue, history, query
    <2> QED BY <1>t, <2>1, ExchangeUntouched, NoExchange
<1>9. CASE Commands
    <2>1. ~running /\ worker' = worker
        BY <1>9 DEF Commands, ClearCommand, CompressCommand, RulesCommand, DumpCommand,
           RestoreCommand, LogCommand, ModelCommand, Command
    <2>2. worker' \in {"none", "exited", "start"}
        BY <1>t, <2>1 DEF RunningCoversWork, Working
    <2> QED BY <2>2, NoExchange
<1>10. CASE KeyConsumed \/ KeyPassesDialog \/ StdinClosed \/ KeyEscape \/ KeyDropped \/ ExitConfirmed
              \/ LaunchFails \/ Leave \/ LeaveAgain \/ UNCHANGED vars
    <2>1. UNCHANGED <<messages, hasArray, base, notice, worker>>
        BY <1>10 DEF KeyConsumed, KeyPassesDialog, StdinClosed, KeyEscape, KeyDropped, ExitConfirmed,
           LaunchFails, Leave, LeaveAgain, vars, threads, dialogue, history, query
    <2> QED BY <1>t, <2>1, ExchangeUntouched
<1>11. CASE Worker
    BY <1>1, <1>2, <1>3, <1>4, <1>5, <1>6, <1>7, <1>11 DEF Worker
<1>12. CASE Ui
    BY <1>7, <1>8, <1>9, <1>10, <1>12 DEF Ui
<1> QED BY <1>10, <1>11, <1>12 DEF Next

-----------------------------------------------------------------------------
\* The inductive invariant holds in every state a session can reach, whatever the
\* files, the limit on tool rounds, the commands typed and the bounds.
THEOREM Invariance == Spec => []Inv
<1>1. Init => Inv
    BY InitInv
<1>2. Inv /\ [Next]_vars => Inv'
    BY ControlStep, BodyStep, ExchangeStep, Groups DEF Inv, Control, Body, Exchange, TypeOK,
       ControlTypes, BodyTypes
<1> QED BY <1>1, <1>2, PTL DEF Spec

\* Type correctness.
THEOREM TypeCorrect == Spec => []TypeOK
<1>1. Inv => TypeOK
    BY DEF Inv
<1> QED BY <1>1, Invariance, PTL

\* ProcessQuery never assigns a thread to m_query_thread while it still owns one.
THEOREM ThreadSlotIsFree == Spec => []ThreadSlotFree
<1>1. Inv => ThreadSlotFree
    BY DEF Inv
<1> QED BY <1>1, Invariance, PTL

\* m_query_running is set from before the worker starts until it is done.
THEOREM RunningFlagCoversWork == Spec => []RunningCoversWork
<1>1. Inv => RunningCoversWork
    BY DEF Inv
<1> QED BY <1>1, Invariance, PTL

\* Every tool call in the body has all its results and every result its call, in
\* whatever order queries, interrupts and commands come.
THEOREM BodyStaysWellFormed == Spec => []BodyWellFormed
<1>1. Inv => BodyWellFormed
    BY DEF Inv
<1> QED BY <1>1, Invariance, PTL

\* No command and no rollback loses the system prompt at the front.
THEOREM SystemPromptStaysFirst == Spec => []SystemPromptFirst
<1>1. Inv => SystemPromptFirst
    BY DEF Inv
<1> QED BY <1>1, Invariance, PTL

\* When the user is told that the query was interrupted, the dialogue holds the
\* messages it held before the query.
THEOREM InterruptRestores == Spec => []InterruptRestoresDialogue
<1>1. Inv => InterruptRestoresDialogue
    BY DEF Inv
<1> QED BY <1>1, Invariance, PTL

\* The UI thread does not change the body or the autosave file under the worker:
\* every command is behind the test of m_query_running.
THEOREM UiLeavesDialogueToWorker == Spec => WorkerOwnsDialogue
<1>1. ASSUME Inv, [Next]_vars
      PROVE  [ui' # ui /\ Working => UNCHANGED <<dialogue, logs>>]_vars
    <2> SUFFICES ASSUME Next, ui' # ui, Working PROVE UNCHANGED <<dialogue, logs>>
        BY <1>1 DEF vars, threads
    <2>1. RunningCoversWork /\ running \in BOOLEAN
        BY <1>1 DEF Inv, TypeOK
    <2>2. running
        BY <2>1 DEF RunningCoversWork
    <2>3. ~Commands
        BY <2>2 DEF Commands, ClearCommand, CompressCommand, RulesCommand, DumpCommand,
           RestoreCommand, LogCommand, ModelCommand, Command
    <2>4. Worker => UNCHANGED ui
        <3>1. \A r \in Replies : ServerReplies(r) => UNCHANGED ui
            BY DEF ServerReplies
        <3>2. RollBack => UNCHANGED ui
            BY DEF RollBack
        <3>3. Begin \/ StreamAborts \/ HandleReply \/ CheckRecorded \/ CheckLoop \/ CheckGate
                \/ ToolAsks \/ ToolAnswered \/ ToolReturns \/ ToolThrows \/ Send \/ Finish => UNCHANGED ui
            BY <3>2 DEF Begin, StreamAborts, HandleReply, CheckRecorded, CheckLoop, CheckGate, Check,
               ToolAsks, ToolAnswered, ToolReturns, ToolThrows, Send, Finish
        <3> QED BY <3>1, <3>3 DEF Worker
    <2>5. LoopTop \/ KeyConsumed \/ KeyPassesDialog \/ StdinClosed \/ KeyEscape \/ KeyDropped
            \/ ExitConfirmed \/ Submit \/ Launch \/ LaunchFails \/ Leave \/ LeaveAgain \/ Join
              => UNCHANGED <<dialogue, logs>>
        BY DEF LoopTop, KeyConsumed, KeyPassesDialog, StdinClosed, KeyEscape, KeyDropped,
           ExitConfirmed, Submit, Launch, LaunchFails, Leave, LeaveAgain, Join
    <2> QED BY <2>3, <2>4, <2>5 DEF Next, Ui
<1> QED BY <1>1, Invariance, PTL DEF Spec, WorkerOwnsDialogue

-----------------------------------------------------------------------------
\* While a query is under way, and when it ends, the autosave is in step.
SavedMidway == Working /\ worker # "start" /\ logOn => logged = messages

\* The worker's steps keep it: each that changes the body writes the autosave.
LEMMA WorkerSaves ==
    ASSUME SavedMidway, Worker
    PROVE  SavedMidway'
<1> USE DEF SavedMidway, Working, At, Goto, dialogue, logs
<1>1. RollBack /\ Working /\ worker # "start" => SavedMidway'
    BY DEF RollBack, WriteLog
<1>2. CASE Begin
    BY <1>2 DEF Begin, WriteLog
<1>3. ASSUME NEW r \in Replies, ServerReplies(r) PROVE SavedMidway'
    BY <1>3 DEF ServerReplies
<1>4. CASE StreamAborts
    BY <1>4 DEF StreamAborts
<1>5. CASE HandleReply
    BY <1>1, <1>5 DEF HandleReply, WriteLog
<1>6. CASE CheckRecorded \/ CheckLoop \/ CheckGate
    BY <1>1, <1>6 DEF CheckRecorded, CheckLoop, CheckGate, Check
<1>7. CASE ToolAsks \/ ToolAnswered \/ ToolReturns \/ ToolThrows
    BY <1>7 DEF ToolAsks, ToolAnswered, ToolReturns, ToolThrows
<1>8. CASE Send
    BY <1>8 DEF Send, WriteLog
<1>9. CASE Finish
    BY <1>9 DEF Finish
<1> QED BY <1>2, <1>3, <1>4, <1>5, <1>6, <1>7, <1>8, <1>9 DEF Worker

\* The UI thread's steps keep it: while a query runs no command is dispatched,
\* and a query begins before its first write.
LEMMA UiKeepsSaved ==
    ASSUME Inv, SavedMidway, Ui
    PROVE  SavedMidway'
<1> USE DEF SavedMidway, Working, dialogue, logs
<1>1. Working => running
    BY DEF Inv, RunningCoversWork
<1>2. CASE Commands
    <2>1. ~running /\ worker' = worker
        BY <1>2 DEF Commands, ClearCommand, CompressCommand, RulesCommand, DumpCommand,
           RestoreCommand, LogCommand, ModelCommand, Command
    <2> QED BY <1>1, <2>1
<1>3. CASE Launch
    BY <1>3 DEF Launch, Goto
<1>4. CASE LoopTop \/ Submit
    BY <1>4 DEF LoopTop, Submit, Reaped
<1>5. CASE Join
    BY <1>5 DEF Join
<1>6. CASE KeyConsumed \/ KeyPassesDialog \/ StdinClosed \/ KeyEscape \/ KeyDropped
             \/ ExitConfirmed \/ LaunchFails \/ Leave \/ LeaveAgain
    BY <1>6 DEF KeyConsumed, KeyPassesDialog, StdinClosed, KeyEscape, KeyDropped,
       ExitConfirmed, LaunchFails, Leave, LeaveAgain
<1> QED BY <1>2, <1>3, <1>4, <1>5, <1>6 DEF Ui

\* When a query ends, however it ends, the autosave holds the dialogue as it is.
THEOREM AutosaveStaysCurrent == Spec => []AutosaveIsCurrent
<1>1. Init => SavedMidway
    BY DEF Init, SavedMidway, Working
<1>2. ASSUME Inv, SavedMidway, [Next]_vars PROVE SavedMidway'
    <2>1. CASE UNCHANGED vars
        BY <1>2, <2>1 DEF SavedMidway, Working, vars, threads, dialogue, logs
    <2> QED BY <1>2, <2>1, WorkerSaves, UiKeepsSaved DEF Next
<1>3. SavedMidway => AutosaveIsCurrent
    BY DEF SavedMidway, AutosaveIsCurrent, Working
<1> QED BY <1>1, <1>2, <1>3, Invariance, PTL DEF Spec

-----------------------------------------------------------------------------
(***************************************************************************)
(* The limit on rounds of tool calls: the counter of the worker knows every*)
(* round behind the last thing somebody else said (RoundsCounted).         *)
(***************************************************************************)

\* What the operations keep of the rounds, applied to the dialogue of a session.
LEMMA OperationsKeepRounds ==
    ASSUME Inv, FewRounds(messages, ToolsCallMax), NEW text \in BOOLEAN
    PROVE  /\ FewRounds(AddUserMessage(messages), ToolsCallMax)
           /\ FewRoundsLast(AddUserMessage(messages), 0)
           /\ FewRounds(Append(messages, ReplyMsg), ToolsCallMax)
           /\ \A l \in Nat : FewRoundsLast(Append(messages, ReplyMsg), l)
           /\ FewRounds(RemoveLastExchange(messages), ToolsCallMax)
           /\ FewRounds(ClearContext(messages), ToolsCallMax)
           /\ FewRounds(AddSystemMessage(messages), ToolsCallMax)
           /\ hasArray => FewRounds(Compress(messages, text), ToolsCallMax)
<1>1. /\ messages \in Seq(Message) /\ ToolsCallMax \in Nat
      /\ WellFormed(messages) /\ (hasArray => SystemFirst(messages))
    BY EmptyValues DEF Inv, TypeOK, BodyWellFormed, SystemPromptFirst
<1>2. /\ FewRounds(AddUserMessage(messages), ToolsCallMax)
      /\ FewRoundsLast(AddUserMessage(messages), 0)
    BY <1>1, AddedMessages, FewRoundsAppend DEF AddUserMessage
<1>3. ASSUME NEW l \in Nat
      PROVE  /\ FewRounds(Append(messages, ReplyMsg), ToolsCallMax)
             /\ FewRoundsLast(Append(messages, ReplyMsg), l)
    BY <1>1, AddedMessages, FewRoundsAppend
<1>4. /\ FewRounds(RemoveLastExchange(messages), ToolsCallMax)
      /\ FewRounds(ClearContext(messages), ToolsCallMax)
      /\ FewRounds(AddSystemMessage(messages), ToolsCallMax)
    BY <1>1, FewRoundsRemoveLastExchange, FewRoundsClearContext, FewRoundsAddSystemMessage
<1>5. hasArray => FewRounds(Compress(messages, text), ToolsCallMax)
    BY <1>1, FewRoundsCompress
<1> QED BY <1>2, <1>3, <1>4, <1>5

\* The worker's steps keep it: a round is counted before its messages are added,
\* and the counter restarts only behind a message of the user or a text reply.
LEMMA WorkerCountsRounds ==
    ASSUME Inv, RoundsCounted, Worker
    PROVE  RoundsCounted'
<1> USE DEF RoundsCounted, Midway, Working, At, Goto
<1>1. /\ messages \in Seq(Message) /\ done \in Seq(ToolResponse) /\ hasArray \in BOOLEAN
      /\ round \in Nat /\ ToolsCallMax \in Nat /\ reply.text \in BOOLEAN
    BY EmptyValues DEF Inv, TypeOK
<1>2. \A l \in Nat :
        /\ FewRounds(AddUserMessage(messages), ToolsCallMax)
        /\ FewRoundsLast(AddUserMessage(messages), 0)
        /\ FewRounds(Append(messages, ReplyMsg), ToolsCallMax)
        /\ FewRoundsLast(Append(messages, ReplyMsg), l)
        /\ FewRounds(RemoveLastExchange(messages), ToolsCallMax)
    BY OperationsKeepRounds
<1>3. CASE RollBack
    <2>1. /\ worker' = "finish" /\ dumped' = dumped
          /\ messages' \in {messages, RemoveLastExchange(messages)}
        BY <1>3 DEF RollBack, SetMessages
    <2> QED BY <1>1, <1>2, <2>1
<1>4. CASE Begin
    <2>1. /\ hasArray' = hasArray /\ dumped' = dumped /\ round' = 0
          /\ messages' = IF hasArray THEN AddUserMessage(messages) ELSE messages
        BY <1>4 DEF Begin, SetMessages
    <2> QED BY <1>1, <1>2, <2>1
<1>5. CASE HandleReply /\ ~RollBack
    <2>1. CASE worker' = "finish" /\ UNCHANGED <<messages, dumped>>
        BY <2>1
    <2>2. CASE ~(worker' = "finish" /\ UNCHANGED <<messages, dumped>>)
        <3>1. /\ worker = "streamed" /\ hasArray' = hasArray /\ dumped' = dumped
              /\ round' = RoundAfter(reply.text)
              /\ SetMessages(AddResponse(messages, reply.text))
            BY <1>5, <2>2 DEF HandleReply, dialogue, logs
        <3>2. CASE hasArray /\ reply.text
            <4>1. messages' = Append(messages, ReplyMsg) /\ round' \in Nat
                BY <3>1, <3>2, <1>1 DEF SetMessages, AddResponse, RoundAfter
            <4> QED BY <4>1, <3>1, <1>2
        <3>3. CASE ~(hasArray /\ reply.text)
            <4>1. messages' = messages
                BY <3>1, <3>3 DEF SetMessages, AddResponse
            <4>2. hasArray' => round' = round
                BY <3>1, <3>3 DEF RoundAfter
            <4> QED BY <4>1, <4>2, <3>1
        <3> QED BY <3>2, <3>3
    <2> QED BY <2>1, <2>2
<1>6. CASE Send
    <2>1. CASE worker' = "finish"
        BY <1>6, <2>1 DEF Send
    <2>2. CASE worker' # "finish"
        <3>1. /\ worker = "send" /\ hasArray' = hasArray /\ dumped' = dumped
              /\ round' = round + 1 /\ ~(round' > ToolsCallMax)
              /\ messages' = IF hasArray THEN AddToolResponses(messages, done) ELSE messages
            BY <1>6, <2>2 DEF Send, SetMessages, TooManyRounds
        <3>2. round < ToolsCallMax
            BY <3>1, <1>1
        <3>3. CASE hasArray
            <4>1. /\ FewRounds(AddToolResponses(messages, done), ToolsCallMax)
                  /\ FewRoundsLast(AddToolResponses(messages, done), round + 1)
                BY <3>1, <3>2, <3>3, <1>1, FewRoundsAddToolResponses
            <4> QED BY <4>1, <3>1, <3>3
        <3>4. CASE ~hasArray
            BY <3>1, <3>4
        <3> QED BY <3>3, <3>4, <1>1
    <2> QED BY <2>1, <2>2
<1>7. CASE Finish
    BY <1>7 DEF Finish, dialogue, logs
<1>8. CASE (CheckRecorded \/ CheckLoop \/ CheckGate) /\ ~RollBack
    <2>1. Midway /\ UNCHANGED <<messages, hasArray, dumped, round>>
        BY <1>8 DEF CheckRecorded, CheckLoop, CheckGate, Check, query, dialogue, logs
    <2> QED BY <2>1
<1>9. CASE \/ \E r \in Replies : ServerReplies(r)
           \/ StreamAborts \/ ToolAsks \/ ToolAnswered \/ ToolReturns \/ ToolThrows
    <2>1. Midway /\ UNCHANGED <<messages, hasArray, dumped, round>>
        BY <1>9 DEF ServerReplies, StreamAborts, ToolAsks, ToolAnswered, ToolReturns, ToolThrows,
           query, dialogue, logs
    <2> QED BY <2>1
<1> QED BY <1>3, <1>4, <1>5, <1>6, <1>7, <1>8, <1>9 DEF Worker

\* The UI thread's steps keep it: a command finds no query under way.
LEMMA UiKeepsRounds ==
    ASSUME Inv, RoundsCounted, Ui
    PROVE  RoundsCounted'
<1> USE DEF RoundsCounted, Midway, Working
<1>1. CASE Commands
    <2>1. ~running /\ worker' = worker
        BY <1>1 DEF Commands, ClearCommand, CompressCommand, RulesCommand, DumpCommand,
           RestoreCommand, LogCommand, ModelCommand, Command
    <2>2. ~Midway'
        BY <2>1 DEF Inv, RunningCoversWork
    <2>3. \A text \in BOOLEAN :
             /\ FewRounds(ClearContext(messages), ToolsCallMax)
             /\ FewRounds(AddSystemMessage(messages), ToolsCallMax)
             /\ hasArray => FewRounds(Compress(messages, text), ToolsCallMax)
        BY OperationsKeepRounds
    <2>4. FewRounds(<<>>, ToolsCallMax)
        BY EmptyValues, FewRoundsClearContext
    <2>5. CASE ClearCommand
        <3>1. messages' \in {messages, ClearContext(messages)} /\ dumped' = dumped
            BY <2>5 DEF ClearCommand, SetMessages
        <3> QED BY <2>2, <2>3, <3>1
    <2>6. CASE CompressCommand
        <3>1. /\ dumped' = dumped
              /\ \/ messages' = messages
                 \/ hasArray /\ \E text \in BOOLEAN : messages' = Compress(messages, text)
            BY <2>6 DEF CompressCommand
        <3> QED BY <2>2, <2>3, <3>1
    <2>7. CASE RulesCommand
        <3>1. messages' \in {messages, AddSystemMessage(messages)} /\ dumped' = dumped
            BY <2>7 DEF RulesCommand, SetMessages, logs
        <3> QED BY <2>2, <2>3, <3>1
    <2>8. CASE DumpCommand
        <3>1. messages' = messages /\ dumped' = messages
            BY <2>8 DEF DumpCommand, dialogue
        <3> QED BY <2>2, <3>1
    <2>9. CASE RestoreCommand
        <3>1. dumped' = dumped /\ messages' \in {dumped, messages, ClearContext(messages), <<>>}
            BY <2>9 DEF RestoreCommand, SetMessages
        <3> QED BY <2>2, <2>3, <2>4, <3>1
    <2>10. CASE LogCommand \/ ModelCommand
        <3>1. UNCHANGED <<messages, dumped>>
            BY <2>10 DEF LogCommand, ModelCommand, dialogue
        <3> QED BY <2>2, <3>1
    <2> QED BY <1>1, <2>5, <2>6, <2>7, <2>8, <2>9, <2>10 DEF Commands
<1>2. CASE ~Commands
    <2>1. /\ UNCHANGED <<messages, hasArray, dumped, round>>
          /\ worker' \in {worker, "none", "start"}
        BY <1>2 DEF Ui, LoopTop, KeyConsumed, KeyPassesDialog, StdinClosed, KeyEscape, KeyDropped,
           ExitConfirmed, Submit, Launch, LaunchFails, Leave, LeaveAgain, Join, Reaped, Goto,
           query, dialogue, logs
    <2> QED BY <2>1
<1> QED BY <1>1, <1>2

\* However queries, interrupts and commands come, the model never makes more than
\* ToolsCallMax rounds of tool calls between two things said by somebody else.
THEOREM RoundsStayBounded == Spec => []RoundsBounded
<1>1. Init => RoundsCounted
    <2> SUFFICES ASSUME Init PROVE RoundsCounted
        OBVIOUS
    <2>1. FewRounds(<<>>, ToolsCallMax) /\ FewRounds(<<SystemMsg>>, ToolsCallMax)
        BY EmptyValues, FewRoundsClearContext
    <2> QED BY <2>1 DEF Init, RoundsCounted, Midway, Working
<1>2. ASSUME Inv, RoundsCounted, [Next]_vars PROVE RoundsCounted'
    <2>1. CASE UNCHANGED vars
        BY <1>2, <2>1 DEF RoundsCounted, Midway, Working, vars, threads, query, dialogue, logs
    <2> QED BY <1>2, <2>1, WorkerCountsRounds, UiKeepsRounds DEF Next
<1>3. Inv /\ RoundsCounted => RoundsBounded
    <2> SUFFICES ASSUME Inv, RoundsCounted,
                        NEW i \in DOMAIN messages, NEW k \in i..Len(messages),
                        \A j \in i..k : ~(messages[j].role # "tool" /\ messages[j].calls = 0)
                 PROVE  ~(Cardinality({j \in i..k : messages[j].calls > 0}) > ToolsCallMax)
        BY DEF RoundsBounded
    <2>1. /\ messages \in Seq(Message) /\ Len(messages) \in Nat /\ DOMAIN messages = 1..Len(messages)
        BY LenProperties DEF Inv, TypeOK
    <2>2. \A j \in i..k : messages[j].calls \in Nat
        <3>1. \A j \in i..k : j \in 1..Len(messages)
            BY <2>1
        <3> QED BY <3>1, <2>1, MessageAt
    <2>3. Silent(messages, i, k)
        BY <2>2 DEF Silent
    <2>4. RoundsIn(messages, i, k) <= ToolsCallMax
        BY <2>3 DEF RoundsCounted, FewRounds
    <2>5. i \in Int /\ k \in Int
        BY <2>1
    <2>6. RoundsIn(messages, i, k) \in Nat
        BY <2>5, RoundsInNat
    <2> QED BY <2>4, <2>6, EmptyValues DEF RoundsIn
<1> QED BY <1>1, <1>2, <1>3, Invariance, PTL DEF Spec

=============================================================================
