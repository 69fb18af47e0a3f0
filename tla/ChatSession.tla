---------------------------- MODULE ChatSession ----------------------------
(***************************************************************************)
(* One chat session: the UI thread (App::MainLoop and the commands it      *)
(* dispatches, psittacula-tui/src/app.cpp) and the worker thread that runs *)
(* AiClientImpl::SendUserMessage (psittacula-cli/src/ai_client_impl.cpp).  *)
(* They share the flag m_query_running, the flag m_cancelled and the       *)
(* dialogue; the worker also talks to a server that may answer anything,   *)
(* late or never, and runs tools.                                          *)
(*                                                                         *)
(* A step ends where another thread can interfere: each load or store of a *)
(* shared flag is a step, together with the thread-local work up to the    *)
(* next one.                                                               *)
(***************************************************************************)
EXTENDS Dialogue

CONSTANTS ToolsCallMax,  \* kToolsCallMax
          ReadResults,   \* what a read_file call may return: a subset of
                         \* {"full", "binary", "text"}, "text" being an error
          CommandsUsed,  \* bound: the chat commands the user types
          MaxCalls,      \* bound: tool calls in one reply of the server
          MaxMessages    \* bound: user and server add to no longer dialogue

AllCommands == {"clear", "compress", "rules", "dump", "restore", "log", "model"}

ASSUME SessionAssumption ==
    /\ CommandsUsed \subseteq AllCommands
    /\ ToolsCallMax \in Nat \ {0}
    /\ ReadResults \subseteq {"full", "binary", "text"}
    /\ MaxCalls \in Nat
    /\ MaxMessages \in Nat

VARIABLES
    ui,         \* where the UI thread is
    running,    \* App::m_query_running
    cancelled,  \* AiClientImpl::m_cancelled
    worker,     \* where App::m_query_thread is; "none" when not joinable
    first,      \* in SendUserMessage's own round, not in SendToolsResponses
    round,      \* m_tool_loop_counter
    reply,      \* the response the ChunkCompletionProcessor gathered
    todo,       \* its tool calls still to evoke
    done,       \* ToolResponses not yet sent
    notice,     \* how the query told the user it ended
    messages,   \* the "messages" array of m_body_obj
    hasArray,   \* m_body_obj has such an array
    logOn,      \* m_log
    logged,     \* content of the autosave file, <<>> when there is none
    dumped,     \* content of a file written by /dump, <<>> when there is none
    base,       \* history: the dialogue when the query began
    escaped     \* history: an ESC was accepted for this query

threads  == <<ui, running, cancelled, worker>>
query    == <<first, round, reply, todo, done, notice>>
dialogue == <<messages, hasArray>>
logs     == <<logOn, logged, dumped>>
history  == <<base, escaped>>
vars     == <<threads, query, dialogue, logs, history>>

UiPlaces     == {"loop", "key", "route", "launch", "leaving", "cancelling", "joining",
                 "gone"}
WorkerPlaces == {"none", "start", "stream", "streamed", "recorded", "loop", "tool",
                 "asking", "acting", "gate", "send", "finish", "exited"}
Notices      == {"none", "interrupted", "error"}

\* A tool call is the file to read, or NoFile for any other tool.
Calls   == UNION {[1..n -> Files \cup {NoFile}] : n \in 0..MaxCalls}
Replies == {[error |-> TRUE, text |-> FALSE, calls |-> <<>>]}
             \cup [error : {FALSE}, text : BOOLEAN, calls : Calls]
NoReply == [error |-> FALSE, text |-> FALSE, calls |-> <<>>]

\* The worker is inside SendUserMessage.
Working == worker \notin {"none", "exited"}

TypeOK ==
    /\ ui \in UiPlaces
    /\ running \in BOOLEAN
    /\ cancelled \in BOOLEAN
    /\ worker \in WorkerPlaces
    /\ first \in BOOLEAN
    /\ round \in 0..(ToolsCallMax + 1)
    /\ reply \in [error : BOOLEAN, text : BOOLEAN, calls : Seq(Files \cup {NoFile})]
    /\ todo \in Seq(Files \cup {NoFile})
    /\ done \in Seq(ToolResponse)
    /\ notice \in Notices
    /\ messages \in Seq(Message)
    /\ hasArray \in BOOLEAN
    /\ logOn \in BOOLEAN
    /\ logged \in Seq(Message)
    /\ dumped \in Seq(Message)
    /\ base \in Seq(Message)
    /\ escaped \in BOOLEAN

Init ==
    /\ ui = "loop"
    /\ running = FALSE
    /\ cancelled = FALSE
    /\ worker = "none"
    /\ first = TRUE
    /\ round = 0
    /\ reply = NoReply
    /\ todo = <<>>
    /\ done = <<>>
    /\ notice = "none"
    /\ messages = <<SystemMsg>>
    /\ hasArray = TRUE
    /\ logOn = FALSE
    /\ logged = <<>>
    /\ dumped = <<>>
    /\ base = <<>>
    /\ escaped = FALSE

-----------------------------------------------------------------------------
(***************************************************************************)
(* The body and the autosave.                                              *)
(***************************************************************************)

\* Every DialogueBody operation returns at once on a body without the array.
SetMessages(ms) == messages' = IF hasArray THEN ms ELSE messages

\* Mutant: the body is serialised before it is changed.
WriteLogLate == logged' = IF logOn THEN messages ELSE logged

WriteLog == logged' = IF logOn THEN messages' ELSE logged

-----------------------------------------------------------------------------
(***************************************************************************)
(* The worker thread: AiClientImpl::SendUserMessage.                       *)
(***************************************************************************)

At(place)  == worker = place
Goto(place) == worker' = place

\* Entry: the cancel flag and the loop counter are reset, the user's message
\* is added, and the request goes out.
Begin ==
    /\ At("start")
    /\ Goto("stream")
    /\ cancelled' = FALSE
    /\ round' = 0
    /\ first' = TRUE
    /\ done' = <<>>
    /\ notice' = "none"
    /\ base' = messages
    /\ SetMessages(AddUserMessage(messages))
    /\ WriteLog
    /\ UNCHANGED <<ui, running, reply, todo, hasArray, logOn, dumped, escaped>>

\* The transfer ends by itself: a complete or cut response, or an error
\* reported by the server.  Bound: no tool calls once the dialogue is full.
ServerReplies(r) ==
    /\ At("stream")
    /\ Len(messages) >= MaxMessages => r.calls = <<>>
    /\ Goto("streamed")
    /\ reply' = r
    /\ UNCHANGED <<ui, running, cancelled, first, round, todo, done, notice, dialogue, logs, history>>

\* Mutant: SendToolsResponses does not hand the flag to its processor.
StreamAbortsFirstRound ==
    /\ At("stream")
    /\ cancelled
    /\ first
    /\ Goto("streamed")
    /\ reply' = NoReply
    /\ UNCHANGED <<ui, running, cancelled, first, round, todo, done, notice, dialogue, logs, history>>

\* The write and progress callbacks see the cancel flag and abort the transfer.
StreamAborts ==
    /\ At("stream")
    /\ cancelled
    /\ Goto("streamed")
    /\ reply' = NoReply
    /\ UNCHANGED <<ui, running, cancelled, first, round, todo, done, notice, dialogue, logs, history>>

\* "Interrupted by user."
RollBack ==
    /\ Goto("finish")
    /\ notice' = "interrupted"
    /\ SetMessages(RemoveLastExchange(messages))
    /\ WriteLog
    /\ UNCHANGED <<ui, running, cancelled, first, round, reply, todo, done, hasArray, logOn, dumped, history>>

\* Mutant: a reply counts as a round as well.
RoundCountedTwice(text) == IF ~first /\ text THEN 0 ELSE round + 1

\* Mutant: an empty message restarts the counter too.
RoundAfterAnyMessage(text) == IF ~first THEN 0 ELSE round

\* A non-empty message after tool calls shows progress: the counter restarts.
RoundAfter(text) == IF ~first /\ text THEN 0 ELSE round

HandleReply ==
    /\ At("streamed")
    /\ \/ cancelled /\ RollBack
       \/ /\ ~cancelled
          /\ reply.error
          /\ Goto("finish")
          /\ notice' = "error"
          /\ UNCHANGED <<ui, running, cancelled, first, round, reply, todo, done, dialogue, logs, history>>
       \/ /\ ~cancelled
          /\ ~reply.error
          /\ SetMessages(AddResponse(messages, reply.text))
          /\ WriteLog
          /\ round' = RoundAfter(reply.text)
          /\ todo' = reply.calls
          /\ done' = <<>>
          /\ Goto(IF first THEN "recorded" ELSE IF reply.calls = <<>> THEN "finish" ELSE "loop")
          /\ reply' = NoReply
          /\ UNCHANGED <<ui, running, cancelled, first, notice, hasArray, logOn, dumped, history>>

\* A cancel check of the worker with nothing else to do before place.
Check(place) ==
    \/ cancelled /\ RollBack
    \/ ~cancelled /\ Goto(place) /\ UNCHANGED <<ui, running, cancelled, query, dialogue, logs, history>>

CheckRecorded == At("recorded") /\ Check(IF todo = <<>> THEN "gate" ELSE "loop")
CheckLoop     == At("loop") /\ Check("tool")
CheckGate     == At("gate") /\ Check("send")

\* A tool other than a read asks the user; the confirm dialogue is shown until
\* it is answered or denies itself (see ConfirmDialogue).
ToolAsks ==
    /\ At("tool")
    /\ Head(todo) = NoFile
    /\ Goto("asking")
    /\ UNCHANGED <<ui, running, cancelled, query, dialogue, logs, history>>

ToolAnswered ==
    /\ At("asking")
    /\ Goto("acting")
    /\ UNCHANGED <<ui, running, cancelled, query, dialogue, logs, history>>

\* EvokeTool returns a response, to an unknown tool as well.
Results(file) ==
    [file : {file}, content : IF file = NoFile THEN {"text"} ELSE ReadResults]

ToolReturns ==
    /\ worker \in {"tool", "acting"}
    /\ \E r \in Results(Head(todo)) : done' = Append(done, r)
    /\ todo' = Tail(todo)
    /\ Goto(IF Tail(todo) # <<>> THEN "loop" ELSE IF first THEN "gate" ELSE "send")
    /\ UNCHANGED <<ui, running, cancelled, first, round, reply, notice, dialogue, logs, history>>

\* An exception of a tool ends the query in ProcessQueryWorker's handler.
ToolThrows ==
    /\ worker \in {"tool", "acting"}
    /\ Goto("finish")
    /\ notice' = "error"
    /\ UNCHANGED <<ui, running, cancelled, first, round, reply, todo, done, dialogue, logs, history>>

TooManyRounds(n) == n > ToolsCallMax

\* SendToolsResponses: nothing to send or cancelled, too many rounds, or the
\* responses go out with the next request.
Send ==
    /\ At("send")
    /\ \/ /\ done = <<>> \/ cancelled
          /\ Goto("finish")
          /\ UNCHANGED <<first, round, done, notice, messages, logged>>
       \/ /\ done # <<>>
          /\ ~cancelled
          /\ round' = round + 1
          /\ \/ /\ TooManyRounds(round')
                /\ Goto("finish")
                /\ notice' = "error"
                /\ UNCHANGED <<first, done, messages, logged>>
             \/ /\ ~TooManyRounds(round')
                /\ Goto("stream")
                /\ first' = FALSE
                /\ done' = <<>>
                /\ SetMessages(AddToolResponses(messages, done))
                /\ WriteLog
                /\ UNCHANGED notice
    /\ UNCHANGED <<ui, running, cancelled, reply, todo, hasArray, logOn, dumped, history>>

\* ProcessQueryWorker stores the result and, last, clears m_query_running.  The
\* variables of the finished calls are forgotten.
Finish ==
    /\ At("finish")
    /\ Goto("exited")
    /\ running' = FALSE
    /\ first' = TRUE
    /\ reply' = NoReply
    /\ todo' = <<>>
    /\ done' = <<>>
    /\ notice' = "none"
    /\ base' = <<>>
    /\ escaped' = FALSE
    /\ UNCHANGED <<ui, cancelled, round, dialogue, logs>>

Worker ==
    \/ Begin \/ (\E r \in Replies : ServerReplies(r)) \/ StreamAborts \/ HandleReply
    \/ CheckRecorded \/ CheckLoop \/ CheckGate
    \/ ToolAsks \/ ToolAnswered \/ ToolReturns \/ ToolThrows
    \/ Send \/ Finish

-----------------------------------------------------------------------------
(***************************************************************************)
(* The UI thread: App::MainLoop.                                           *)
(***************************************************************************)

UiAt(place) == ui = place
UiGoto(place) == ui' = place

\* Mutant: ProcessQuery leaves the finished worker to the main loop.
ReapedInLoop == IF running \/ UiAt("route") THEN worker ELSE "none"

\* ReapFinishedQuery: joins a worker whose query is over.
Reaped == IF running THEN worker ELSE "none"

LoopTop ==
    /\ UiAt("loop")
    /\ UiGoto("key")
    /\ worker' = Reaped
    /\ UNCHANGED <<running, cancelled, query, dialogue, logs, history>>

\* A timeout, an unknown key, a resize, or a key for the confirm dialogue.
KeyConsumed ==
    /\ UiAt("key")
    /\ UiGoto("loop")
    /\ UNCHANGED <<running, cancelled, worker, query, dialogue, logs, history>>

\* A key that is not for the confirm dialogue goes on to the query check.
KeyPassesDialog ==
    /\ UiAt("key")
    /\ worker # "asking"
    /\ UiGoto("route")
    /\ UNCHANGED <<running, cancelled, worker, query, dialogue, logs, history>>

\* Fifty eofs in a row: stdin is closed.
StdinClosed ==
    /\ UiAt("key")
    /\ UiGoto("leaving")
    /\ UNCHANGED <<running, cancelled, worker, query, dialogue, logs, history>>

\* Mutant: the interrupt also declares the query over.
KeyEscapeEndsQuery ==
    /\ UiAt("route")
    /\ running
    /\ UiGoto("loop")
    /\ cancelled' = TRUE
    /\ running' = FALSE
    /\ escaped' = TRUE
    /\ UNCHANGED <<worker, query, dialogue, logs, base>>

\* ESC, Ctrl+C or Ctrl+D while a query runs: CancelRequest.
KeyEscape ==
    /\ UiAt("route")
    /\ running
    /\ UiGoto("loop")
    /\ cancelled' = TRUE
    /\ escaped' = TRUE
    /\ UNCHANGED <<running, worker, query, dialogue, logs, base>>

\* Any other key while a query runs, or one that only edits the input.
KeyDropped ==
    /\ UiAt("route")
    /\ UiGoto("loop")
    /\ UNCHANGED <<running, cancelled, worker, query, dialogue, logs, history>>

\* ESC while idle, and the exit dialog was confirmed.
ExitConfirmed ==
    /\ UiAt("route")
    /\ ~running
    /\ UiGoto("leaving")
    /\ UNCHANGED <<running, cancelled, worker, query, dialogue, logs, history>>

\* ProcessQuery up to the creation of the thread: a finished worker is reaped,
\* then m_query_running is set.
Submit ==
    /\ UiAt("route")
    /\ ~running
    /\ Len(messages) < MaxMessages
    /\ UiGoto("launch")
    /\ worker' = Reaped
    /\ running' = TRUE
    /\ escaped' = FALSE
    /\ UNCHANGED <<cancelled, query, dialogue, logs, base>>

\* std::thread is created and assigned to m_query_thread.
Launch ==
    /\ UiAt("launch")
    /\ UiGoto("loop")
    /\ Goto("start")
    /\ UNCHANGED <<running, cancelled, query, dialogue, logs, history>>

\* The thread cannot be created: the exception is caught in the main loop, and
\* the flag stays set.
LaunchFails ==
    /\ UiAt("launch")
    /\ UiGoto("loop")
    /\ UNCHANGED <<running, cancelled, worker, query, dialogue, logs, history>>

\* ~App: CancelRequest, the confirm dialogue is cancelled, and with a joinable
\* worker CancelRequest again and join.
Leave ==
    /\ UiAt("leaving")
    /\ UiGoto("cancelling")
    /\ cancelled' = TRUE
    /\ UNCHANGED <<running, worker, query, dialogue, logs, history>>

LeaveAgain ==
    /\ UiAt("cancelling")
    /\ IF worker = "none" THEN UiGoto("gone") /\ UNCHANGED cancelled
                          ELSE UiGoto("joining") /\ cancelled' = TRUE
    /\ UNCHANGED <<running, worker, query, dialogue, logs, history>>

Join ==
    /\ UiAt("joining")
    /\ worker = "exited"
    /\ UiGoto("gone")
    /\ worker' = "none"
    /\ UNCHANGED <<running, cancelled, query, dialogue, logs, history>>

-----------------------------------------------------------------------------
(***************************************************************************)
(* Chat commands that work on the client, on the UI thread while no query  *)
(* runs (App::ProcessCommand).                                             *)
(***************************************************************************)

\* Mutant: commands are dispatched while a query runs.
CommandAnyTime(name) ==
    /\ name \in CommandsUsed
    /\ UiAt("route")
    /\ UiGoto("loop")
    /\ UNCHANGED <<running, worker, query, history>>

Command(name) ==
    /\ name \in CommandsUsed
    /\ UiAt("route")
    /\ ~running
    /\ UiGoto("loop")
    /\ UNCHANGED <<running, worker, query, history>>

\* A new autosave file is begun by the next write.
ResetLogAndWrite == logged' = IF logOn THEN messages' ELSE <<>>

\* /clear
ClearCommand ==
    /\ Command("clear")
    /\ SetMessages(ClearContext(messages))
    /\ ResetLogAndWrite
    /\ UNCHANGED <<cancelled, hasArray, logOn, dumped>>

\* /compress: the summary is whatever text the stream brought, none at all when
\* the transfer failed; only an error reported by the server stops it.
CompressCommand ==
    /\ Command("compress")
    /\ cancelled' = FALSE
    /\ \/ UNCHANGED <<messages, logged>>
       \/ /\ hasArray
          /\ \E text \in BOOLEAN : messages' = Compress(messages, text)
          /\ WriteLog
    /\ UNCHANGED <<hasArray, logOn, dumped>>

\* /rules: a new system prompt.
RulesCommand ==
    /\ Command("rules")
    /\ SetMessages(AddSystemMessage(messages))
    /\ UNCHANGED <<cancelled, hasArray, logs>>

\* /dump
DumpCommand ==
    /\ Command("dump")
    /\ hasArray
    /\ dumped' = messages
    /\ UNCHANGED <<cancelled, dialogue, logOn, logged>>

\* /restore of a readable file: the context is cleared first, then the body is
\* replaced by whatever JSON object the file holds; a file that is no JSON
\* leaves the cleared body.
RestoreCommand ==
    /\ Command("restore")
    /\ \/ /\ dumped # <<>>
          /\ messages' = dumped
          /\ hasArray' = TRUE
       \/ /\ SetMessages(ClearContext(messages))
          /\ UNCHANGED hasArray
       \/ /\ messages' = <<>>
          /\ hasArray' = FALSE
    /\ ResetLogAndWrite
    /\ UNCHANGED <<cancelled, logOn, dumped>>

\* /log true, /log false
LogCommand ==
    /\ Command("log")
    /\ logOn' \in BOOLEAN
    /\ UNCHANGED <<cancelled, dialogue, logged, dumped>>

\* /model: a new client takes the dialogue over; the rest of it is new.
ModelCommand ==
    /\ Command("model")
    /\ cancelled' = FALSE
    /\ logOn' = FALSE
    /\ logged' = <<>>
    /\ UNCHANGED <<dialogue, dumped>>

Commands ==
    \/ ClearCommand \/ CompressCommand \/ RulesCommand \/ DumpCommand
    \/ RestoreCommand \/ LogCommand \/ ModelCommand

Ui ==
    \/ LoopTop \/ KeyConsumed \/ KeyPassesDialog \/ StdinClosed
    \/ KeyEscape \/ KeyDropped \/ ExitConfirmed \/ Submit \/ Launch \/ LaunchFails
    \/ Commands \/ Leave \/ LeaveAgain \/ Join

Next == Worker \/ Ui

Spec == Init /\ [][Next]_vars

\* The worker's own code always goes on: the network layer calls back at least
\* once a second, so that a set flag aborts the transfer, and the confirm dialogue
\* denies itself.  Nothing is assumed of the server's answer, of a tool once it
\* runs, or of the user.  ~App runs to its end.
WorkerGoesOn ==
    \/ Begin \/ StreamAborts \/ HandleReply
    \/ CheckRecorded \/ CheckLoop \/ CheckGate
    \/ ToolAnswered
    \/ Send \/ Finish

Fairness ==
    /\ WF_vars(WorkerGoesOn)
    /\ WF_vars(Launch \/ Leave \/ LeaveAgain \/ Join)

FairSpec == Spec /\ Fairness

-----------------------------------------------------------------------------
(***************************************************************************)
(* Properties.                                                             *)
(***************************************************************************)

\* std::thread's move assignment terminates the program when the target still
\* owns a thread: ProcessQuery must only ever create one over a reaped one.
ThreadSlotFree == ui = "launch" => worker = "none"

\* m_query_running covers the whole life of the worker's work, so that its test
\* by the UI thread excludes a query in progress.
RunningCoversWork == Working \/ ui = "launch" => running

\* The UI thread never changes the body or the autosave file of a client whose
\* worker is inside SendUserMessage ("only the worker thread touches m_client"):
\* neither has a lock.
WorkerOwnsDialogue ==
    [][ui' # ui /\ Working => UNCHANGED <<dialogue, logs>>]_vars

\* Whatever was said, interrupted, compressed or restored, the server never gets
\* a tool result it was not told of, nor a tool call without all its results.
BodyWellFormed == WellFormed(messages)

\* A body that has a messages array starts with a system message.
SystemPromptFirst == hasArray => SystemFirst(messages)

\* The model cannot go on calling tools for ever in one exchange: after a user
\* message or a text reply there are at most ToolsCallMax rounds of tool calls.
RoundsBounded ==
    \A i \in DOMAIN messages : \A k \in i..Len(messages) :
        Cardinality({j \in i..k : messages[j].calls > 0}) > ToolsCallMax =>
            \E j \in i..k : messages[j].role # "tool" /\ messages[j].calls = 0

\* "Interrupted by user." is said only of an exchange that left no message.
InterruptRestoresDialogue ==
    worker = "finish" /\ notice = "interrupted" => Shape(messages) = Shape(base)

\* When a query ends the autosave file holds the dialogue as it is.
AutosaveIsCurrent == worker = "finish" /\ logOn => logged = messages

\* The worker is inside a tool, or about to be.  How long it stays is the tool's
\* affair: run_command looks at its deadline between reads only and nowhere at the
\* cancel flag, so that a command that never pauses in writing keeps it for ever
\* (tool_run_command.cpp 751-867).
InTool == worker \in {"tool", "asking", "acting"}

\* Once the request counter is reset, a set cancel flag ends the query, even if
\* the server never answers: at once, or when the tool that runs has returned.  No
\* further tool is begun, and nothing is promised of one that does not return.
CancelEndsQuery == Working /\ worker # "start" /\ cancelled /\ ~InTool ~> ~Working

-----------------------------------------------------------------------------
(***************************************************************************)
(* The inductive invariant (ChatSessionProofs): what the properties above  *)
(* rest on.                                                                *)
(***************************************************************************)

\* The worker is past SendUserMessage's entry and has not ended the query.
Midway == Working /\ worker \notin {"start", "finish"}

\* Inside the loop over the tool calls there is a call to evoke.
CallsLeft == worker \in {"loop", "tool", "asking", "acting"} => todo # <<>>

\* The limit on rounds is exceeded only when the query ends.
RoundLeft == Midway => round <= ToolsCallMax

\* What /restore may read back is a body the session once had.
DumpUsable == WellFormed(dumped) /\ (dumped # <<>> => SystemFirst(dumped))

\* The query in progress added its user message right behind the dialogue it
\* found and has not touched the shape of what was before.
QueryBehindBase ==
    Midway =>
        /\ notice # "interrupted"
        /\ IF hasArray THEN Extends(messages, base) ELSE messages = base

\* What the model did since somebody else spoke is on the counter, and neither the
\* dialogue nor its dump has a longer stretch than the counter allows.
RoundsCounted ==
    /\ FewRounds(messages, ToolsCallMax)
    /\ FewRounds(dumped, ToolsCallMax)
    /\ Midway /\ hasArray => FewRoundsLast(messages, round)

Inv ==
    /\ TypeOK
    /\ ThreadSlotFree /\ RunningCoversWork
    /\ CallsLeft /\ RoundLeft
    /\ BodyWellFormed /\ SystemPromptFirst /\ DumpUsable
    /\ QueryBehindBase /\ InterruptRestoresDialogue

-----------------------------------------------------------------------------
(***************************************************************************)
(* What the documentation promises and the code does not keep: the run    *)
(* of this property is expected to find a violation.                      *)
(***************************************************************************)

\* ESC while a query runs interrupts it: the request stays set until the query
\* is over.  (SendUserMessage clears the flag after m_query_running was set.)
EscapeNotLost == escaped /\ running => cancelled

=============================================================================
