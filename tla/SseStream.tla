------------------------------ MODULE SseStream ------------------------------
(***************************************************************************)
(* One streamed request: libcurl's transfer on the worker thread           *)
(* (HttpClient::HttpPostStream), its callbacks                             *)
(* (psittacula-cli/src/response_readers.cpp) with the line buffer of       *)
(* ChunkProcessor, and the UI thread that may cancel at any time.          *)
(*                                                                         *)
(* The bytes of the n-th line are the pairs <<n, 1>> to <<n, LineLength>>, *)
(* a newline is Newline.  What comes out of the buffer is the line whose   *)
(* bytes it has, or something that does not parse.                         *)
(***************************************************************************)
EXTENDS Integers, Sequences, FiniteSets

CONSTANTS
    NoName,
    Newline,
    LineLength,   \* bytes of a line
    Replies,      \* the replies a server may send: sequences of lines
    CallLength    \* by name of a tool: pieces of its complete arguments

\* A piece of a call, and a line of a reply (see SseLines).
CallDelta == [index : Nat, name : DOMAIN CallLength \cup {NoName},
              args : Seq((DOMAIN CallLength) \X Nat)]
ServerLine ==
    [kind : {"error", "other"}] \cup
    [kind : {"data"}, think : Seq(STRING), text : Seq(STRING), calls : Seq(CallDelta)]

ASSUME StreamAssumption ==
    /\ LineLength \in Nat \ {0}
    /\ Newline \notin Nat \X Nat
    /\ Replies \subseteq Seq(ServerLine)

VARIABLES
    lines,      \* the reply of the server
    ended,      \* its last line ends in a newline
    sent,       \* bytes received so far
    buffer,     \* m_line_buffer
    taken,      \* history: lines that were processed whole
    reply,      \* what ChunkCompletionProcessor has gathered
    cancelled,  \* the client's cancel flag
    transfer    \* where curl_easy_perform is

vars == <<lines, ended, sent, buffer, taken, reply, cancelled, transfer>>

Lines == INSTANCE SseLines

-----------------------------------------------------------------------------
(***************************************************************************)
(* Bytes and lines.                                                        *)
(***************************************************************************)

LineBytes(n) == [i \in 1..LineLength |-> <<n, i>>]

\* The reply on the wire: every line but the last ends in a newline.
OnWire(n) == LineBytes(n) \o (IF n < Len(lines) \/ ended THEN <<Newline>> ELSE <<>>)
Wire ==
    LET upTo[n \in 0..Len(lines)] == IF n = 0 THEN <<>> ELSE upTo[n - 1] \o OnWire(n)
    IN  upTo[Len(lines)]

\* The line that these bytes are; other bytes do not parse and are skipped.
WholeLines(bytes) == {n \in 1..Len(lines) : bytes = LineBytes(n)}
Processed(r, bytes) ==
    IF WholeLines(bytes) = {} THEN r
    ELSE Lines!Processed(r, lines[CHOOSE n \in WholeLines(bytes) : TRUE])

\* The newlines of the buffer, in order; each ends a line.
Ends(bytes) ==
    LET ends == {i \in 1..Len(bytes) : bytes[i] = Newline}
    IN  [k \in 1..Cardinality(ends) |->
            CHOOSE i \in ends : Cardinality({j \in ends : j <= i}) = k]
Begin(bytes, k) == IF k = 1 THEN 1 ELSE Ends(bytes)[k - 1] + 1
Complete(bytes) ==
    [k \in 1..Len(Ends(bytes)) |-> SubSeq(bytes, Begin(bytes, k), Ends(bytes)[k] - 1)]
Rest(bytes) == SubSeq(bytes, Begin(bytes, Len(Ends(bytes)) + 1), Len(bytes))

Init ==
    /\ lines \in Replies
    /\ ended \in BOOLEAN
    /\ sent = 0
    /\ buffer = <<>>
    /\ taken = 0
    /\ reply = Lines!Nothing
    /\ cancelled = FALSE
    /\ transfer = "running"

-----------------------------------------------------------------------------
(***************************************************************************)
(* The transfer.                                                           *)
(***************************************************************************)

\* All complete lines of the buffer go to ProcessChunk, the rest waits.
ProcessAll(chunks) ==
    LET upTo[k \in 0..Len(chunks)] ==
            IF k = 0 THEN reply ELSE Processed(upTo[k - 1], chunks[k])
    IN  /\ reply' = upTo[Len(chunks)]
        /\ taken' = taken + Cardinality({k \in 1..Len(chunks) : WholeLines(chunks[k]) # {}})

\* Mutant: what is left of the read is taken for a line.
FeedUnbuffered(data) ==
    /\ ProcessAll(Append(Complete(buffer \o data), Rest(buffer \o data)))
    /\ buffer' = <<>>
Feed(data) ==
    /\ ProcessAll(Complete(buffer \o data))
    /\ buffer' = Rest(buffer \o data)

\* write_callback_stream looks at the flag before and after it feeds the data;
\* before, a cancelled one aborts the transfer.
Receive ==
    /\ transfer = "running"
    /\ ~cancelled
    /\ \E n \in 1..(Len(Wire) - sent) :
        /\ Feed(SubSeq(Wire, sent + 1, sent + n))
        /\ sent' = sent + n
    /\ transfer' = "fed"
    /\ UNCHANGED <<lines, ended, cancelled>>

Fed ==
    /\ transfer = "fed"
    /\ transfer' = IF cancelled THEN "aborted" ELSE "running"
    /\ UNCHANGED <<lines, ended, sent, buffer, taken, reply, cancelled>>

\* Data or, about once a second, the progress callback: the flag is seen.
\* Mutant: only data shows it.
AbortOnData ==
    /\ transfer = "running"
    /\ cancelled
    /\ sent < Len(Wire)
    /\ transfer' = "aborted"
    /\ UNCHANGED <<lines, ended, sent, buffer, taken, reply, cancelled>>
Abort ==
    /\ transfer = "running"
    /\ cancelled
    /\ transfer' = "aborted"
    /\ UNCHANGED <<lines, ended, sent, buffer, taken, reply, cancelled>>

\* The server closes the connection, or it breaks, wherever the reply is.
End ==
    /\ transfer = "running"
    /\ transfer' = "over"
    /\ UNCHANGED <<lines, ended, sent, buffer, taken, reply, cancelled>>

\* Whatever ended the transfer, the tail is processed.
Flush ==
    /\ transfer \in {"aborted", "over"}
    /\ ProcessAll(IF buffer = <<>> THEN <<>> ELSE <<buffer>>)
    /\ buffer' = <<>>
    /\ transfer' = "flushed"
    /\ UNCHANGED <<lines, ended, sent, cancelled>>

\* The UI thread.
Cancel ==
    /\ transfer # "flushed"
    /\ cancelled' = TRUE
    /\ UNCHANGED <<lines, ended, sent, buffer, taken, reply, transfer>>

Next == Receive \/ Fed \/ Abort \/ End \/ Flush \/ Cancel

\* Nothing is assumed of the server.
Spec == Init /\ [][Next]_vars
FairSpec == Spec /\ WF_vars(Fed) /\ WF_vars(Abort) /\ WF_vars(Flush)

-----------------------------------------------------------------------------
(***************************************************************************)
(* Properties.                                                             *)
(***************************************************************************)

\* However the network cuts the reply, and wherever it ends or is cancelled,
\* the processor has seen whole lines, each once and in order (Feed, Flush).
WholeLinesInOrder == Lines!Spec

\* The calls the server announced: their deltas by index.
Deltas(ls) ==
    LET upTo[n \in 0..Len(ls)] ==
            IF n = 0 THEN <<>>
            ELSE upTo[n - 1] \o (IF ls[n].kind = "data" THEN ls[n].calls ELSE <<>>)
    IN  upTo[Len(ls)]

\* The pieces of the i-th call's arguments.
Args(ds, i) ==
    LET upTo[n \in 0..Len(ds)] ==
            IF n = 0 THEN <<>>
            ELSE upTo[n - 1] \o (IF ds[n].index = i THEN ds[n].args ELSE <<>>)
    IN  upTo[Len(ds)]

\* A call begins with its name, its first delta gives it.
Named(ds, n) == Cardinality({m \in 1..n : ds[m].name # NoName})
IsFirst(ds, n, i) == ds[n].index = i /\ \A m \in 1..n - 1 : ds[m].index # i
Announced(ds) ==
    [i \in 1..Named(ds, Len(ds)) |->
        [name |-> ds[CHOOSE n \in 1..Len(ds) : IsFirst(ds, n, i)].name,
         args |-> Args(ds, i)]]

\* A server that finishes a call before it begins the next, and names it at once.
InOrder(ds) == \A n \in 1..Len(ds) : ds[n].index = Named(ds, n)

\* GetResponseTools hands over the calls whose arguments are complete JSON.
IsWhole(call) ==
    call.args # <<>> /\ call.args = [i \in 1..CallLength[call.args[1][1]] |-> <<call.args[1][1], i>>]
Handed(r) == SelectSeq(Lines!Begun(r), IsWhole)

\* For such a server the tools that run are those it called, with their own
\* and whole arguments: neither deltas that share a line, nor text in between,
\* nor a reply cut off inside a call bring others (CheckTools with one
\* m_current_tool for all calls).
CallsAreTheServers ==
    LET seen == Deltas(SubSeq(lines, 1, taken))
    IN  InOrder(seen) => Handed(reply) = SelectSeq(Announced(seen), IsWhole)

\* An interrupt ends the transfer although the server is silent.
InterruptEndsTransfer == cancelled ~> transfer = "flushed"

=============================================================================
