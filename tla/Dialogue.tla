------------------------------ MODULE Dialogue ------------------------------
(***************************************************************************)
(* The "messages" array of a chat completion request, as the operations of *)
(* DialogueBody (psittacula-cli/src/dialogue_body.cpp) build and cut it.   *)
(* A message keeps what the operations and the properties tell apart: its  *)
(* role, the number of entries of its "tool_calls" member, the file a      *)
(* read_file result is about, and the kind of its "content".  Names, texts *)
(* and identifiers are left out.                                           *)
(*                                                                         *)
(* The operators are pure: ChatSession applies them to its state.  None of *)
(* them is recursive, so that theorems can be proved about them.           *)
(***************************************************************************)
EXTENDS Integers, Sequences, FiniteSets

CONSTANTS Files,    \* paths a read_file call may name
          NoFile    \* stands for "not about a file": every other tool

ASSUME NoFileAssumption == NoFile \notin Files

MessagesToKeep == 2 \* kMessagesToKeep

Roles    == {"system", "user", "assistant", "tool"}
Contents == {"text",      \* non-empty text
             "empty",     \* the empty string
             "null",      \* JSON null, the content of a tool_calls message
             "full",      \* the result of a text read: the file's content
             "binary",    \* the result of a binary read: the same in base64
             "note"}      \* a "full" result after it was purged

Message == [role : Roles, calls : Nat, file : Files \cup {NoFile}, content : Contents]

\* The result of one tool call: the file it was to read, if it was a read_file
\* call, and what it carries ("text" for an error or another tool's result).
ToolResponse == [file : Files \cup {NoFile}, content : {"full", "binary", "text"}]

Plain(role, content) ==
    [role |-> role, calls |-> 0, file |-> NoFile, content |-> content]

SystemMsg    == Plain("system", "text")
UserMsg      == Plain("user", "text")
ReplyMsg     == Plain("assistant", "text")
SummaryMsg(text) == Plain("assistant", IF text THEN "text" ELSE "empty")
CallsMsg(n)  == [Plain("assistant", "null") EXCEPT !.calls = n]
ResultMsg(r) == [role |-> "tool", calls |-> 0, file |-> r.file, content |-> r.content]

HasRole(ms, i, role) == ms[i].role = role

-----------------------------------------------------------------------------
AddUserMessage(ms) == Append(ms, UserMsg)

\* An empty or all-whitespace response is not added.
AddResponse(ms, text) == IF text THEN Append(ms, ReplyMsg) ELSE ms

\* Mutant: the scan stops at the first user message.
FirstUser(ms) ==
    CHOOSE i \in 0..Len(ms) :
        /\ i # 0 => HasRole(ms, i, "user")
        /\ IF i = 0 THEN \A j \in 1..Len(ms) : ~HasRole(ms, j, "user")
                    ELSE \A j \in 1..(i - 1) : ~HasRole(ms, j, "user")

\* The place of the last user message, or 0.
LastUser(ms) ==
    CHOOSE i \in 0..Len(ms) :
        /\ i # 0 => HasRole(ms, i, "user")
        /\ \A j \in (i + 1)..Len(ms) : ~HasRole(ms, j, "user")

\* Mutant: only the last message is erased.
RemoveLastMessage(ms) == IF LastUser(ms) = 0 THEN ms ELSE SubSeq(ms, 1, Len(ms) - 1)

\* Erases the last user message and everything after it.
RemoveLastExchange(ms) ==
    IF LastUser(ms) = 0 THEN ms ELSE SubSeq(ms, 1, LastUser(ms) - 1)

\* How many of the first i messages are not system messages, and the messages
\* that are left when the system messages are erased.  (SelectSeq, written
\* through the position each survivor moves to: the proofs need that form.)
Survivors(ms, i) == Cardinality({j \in 1..i : ~HasRole(ms, j, "system")})

Survivor(ms, k) ==
    CHOOSE i \in 1..Len(ms) : ~HasRole(ms, i, "system") /\ Survivors(ms, i) = k

WithoutSystem(ms) == [k \in 1..Survivors(ms, Len(ms)) |-> ms[Survivor(ms, k)]]

\* Every old system message is erased, the new one goes to the front.
AddSystemMessage(ms) == <<SystemMsg>> \o WithoutSystem(ms)

\* Earlier results of reading a file are replaced by a short note when the
\* current responses answer a read_file call for the same path, whether or
\* not that call succeeded.
ReadNow(rs) == {rs[i].file : i \in DOMAIN rs} \ {NoFile}

PurgePreviousFileContents(ms, rs) ==
    [i \in 1..Len(ms) |->
        IF ms[i].role = "tool" /\ ms[i].content = "full" /\ ms[i].file \in ReadNow(rs)
        THEN [ms[i] EXCEPT !.content = "note"]
        ELSE ms[i]]

\* One assistant message with the calls, then the result of each of them.
AddToolResponses(ms, rs) ==
    PurgePreviousFileContents(Append(ms, CallsMsg(Len(rs))), rs)
        \o [i \in 1..Len(rs) |-> ResultMsg(rs[i])]

\* Mutant: the system message goes as well.
ClearEverything(ms) == <<>>

\* Keeps the first system message, if there is one.
ClearContext(ms) ==
    IF \E i \in DOMAIN ms : HasRole(ms, i, "system") THEN <<SystemMsg>> ELSE <<>>

\* Mutant: leading tool results are kept.
LastTwo(ms) == Len(ms) - MessagesToKeep + 1

\* The first of the last MessagesToKeep messages that is not a tool result, or
\* the place after the last message.
KeptFrom(ms) ==
    CHOOSE i \in (Len(ms) - MessagesToKeep + 1)..(Len(ms) + 1) :
        /\ i <= Len(ms) => ~HasRole(ms, i, "tool")
        /\ \A j \in (Len(ms) - MessagesToKeep + 1)..(i - 1) : HasRole(ms, j, "tool")

\* The first message, the summary, and the kept end of the dialogue.
Compress(ms, text) ==
    IF Len(ms) <= 1 THEN ms
    ELSE <<ms[1], SummaryMsg(text)>> \o SubSeq(ms, KeptFrom(ms), Len(ms))

-----------------------------------------------------------------------------
(***************************************************************************)
(* What a server may ask of the array.                                     *)
(***************************************************************************)

\* The i-th message announces n tool calls and the n messages after it are
\* their results, and no other tool result follows.
Answered(ms, i) ==
    LET n == ms[i].calls
    IN  /\ i + n <= Len(ms)
        /\ \A j \in (i + 1)..(i + n) : HasRole(ms, j, "tool")

\* The i-th message belongs to the results announced by some message.
Announced(ms, i) ==
    \E j \in 1..(i - 1) : ms[j].calls > 0 /\ i <= j + ms[j].calls

\* Only the assistant calls tools, every announced call is answered and every
\* result was announced.
WellFormed(ms) ==
    \A i \in DOMAIN ms :
        /\ ms[i].calls > 0 => HasRole(ms, i, "assistant")
        /\ Answered(ms, i)
        /\ HasRole(ms, i, "tool") => Announced(ms, i)

SystemFirst(ms) == Len(ms) > 0 /\ HasRole(ms, 1, "system")

\* The array without the contents: which messages there are, in which order.
Shape(ms) == [i \in DOMAIN ms |-> [ms[i] EXCEPT !.content = "text"]]

\* ms has the shape of old, then a user message, then no other user message.
Extends(ms, old) ==
    /\ Len(ms) > Len(old)
    /\ \A i \in DOMAIN old : Shape(ms)[i] = Shape(old)[i]
    /\ HasRole(ms, Len(old) + 1, "user")
    /\ \A i \in (Len(old) + 2)..Len(ms) : ~HasRole(ms, i, "user")

\* From i to k nobody but the model spoke: these are its calls, their results, or
\* system prompts, which may be moved away.
Silent(ms, i, k) == \A j \in i..k : ms[j].calls > 0 \/ ms[j].role \in {"tool", "system"}

\* The rounds of tool calls from i to k.
RoundsIn(ms, i, k) == Cardinality({j \in i..k : ms[j].calls > 0})

\* No silent stretch of the dialogue, or none at its end, has more than n rounds.
FewRounds(ms, n) ==
    \A i \in DOMAIN ms : \A k \in i..Len(ms) : Silent(ms, i, k) => RoundsIn(ms, i, k) <= n
FewRoundsLast(ms, n) ==
    \A i \in DOMAIN ms : Silent(ms, i, Len(ms)) => RoundsIn(ms, i, Len(ms)) <= n

=============================================================================
