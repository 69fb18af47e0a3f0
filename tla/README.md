# Psittacula in TLA+

Models of the Psittacula terminal chat client and agent, checked with TLC and, for
the properties that matter most, proved with TLAPS. Paths below are relative to the
repository; `cli` stands for `psittacula-cli/src`, `tui` for `psittacula-tui/src`,
`tools` for `psittacula-tools/src`.

## 1. The system

| Part | State | Operations | Talks to |
|------|-------|------------|----------|
| Dialogue body (`cli/dialogue_body.cpp`) | the `messages` array of the request | add user/assistant/system/tool messages, roll back, purge old file contents, clear, compress, restore | called by the AI client |
| AI client (`cli/ai_client_impl.cpp`) | cancel flag, loop counter, log flag, body, autosave, tool history | `SendUserMessage` (with its recursive `SendToolsResponses`), `CancelRequest`, compress, clear, restore | HTTP client, tools, body; runs on the worker thread |
| UI loop (`tui/app.cpp`) | worker thread, `m_query_running`, screen | read a key, route it, start and reap queries, dispatch commands, shut down | AI client, confirm box, commands |
| Confirm box (`tui/confirm_dialogue.cpp`) | shown flag, pressed key, mutex and condition variable | show and wait (worker), hand a key over, cancel (UI) | tools `run_command` and `web_fetch`, UI loop |
| Chat commands (`tui/command_*.h`) | dump files | `/clear /compress /rules /dump /restore /log /model /undo /redo` change the client or the files; others print | AI client |
| Autosave (`cli/json_dialogue.cpp`) | current file name | write, reset | AI client |
| HTTP and SSE (`cli/http_client.cpp`, `response_readers.cpp`, `chunk_processor.h`, `chunk_completion_processor.cpp`) | line buffer, gathered reply | stream, feed, flush, assemble tool calls | server; polls the cancel flag |
| Tool history (`cli/history_manager.h`) | undo and redo stacks | execute, undo, redo | file tools |
| File tools (`tools/tool_file_*.cpp`, `tool_dir_*.cpp`) | what an undo needs | execute, undo, redo | file system inside the sandbox |
| Reading tools (`tools/tool_file_read.cpp`, `tool_file_search.cpp`, `tool_file_list.cpp`) | results so far, bytes used | read, search, list up to a limit | file system that others change |
| `run_command` (`tools/tool_run_command.cpp`) | process, pipes, pseudo terminal, caps, deadline | start, serve the pipes, time out, cut output, reap | operating system, confirm box |
| `web_fetch` (`tools/tool_web_fetch.cpp`) | one transfer | fetch, cut | network, confirm box |
| Keyboard and resizing (`tui/keyboard.cpp`, `screen.cpp`, `exit_dialogue.cpp`) | bytes of a key, resize flag, streak of eofs | decode, time out, lay out anew | signal handler, UI loop |
| Input editor (`tui/panel_input.cpp`, `input_text_content.cpp`) | entered lines, current line, cursor, suggestions | one operation per key, resize | keyboard, screen |
| Transcript (`tui/screen_text_content.cpp`, `panel_text.cpp`) | text, rendered lines, scroll position | add text, scroll, hide reasoning, resize, clear | query thread, screen |
| Working directory (`cli/working_dir.cpp`) | project directory, cached tree | resolve and check paths, rescan | all file tools |
| Models, settings, text utilities | configuration | read files, probe servers, sanitize UTF-8 | at start-up and in menus |

What is hard here:

* two threads share the cancel flag, the running flag, the dialogue and the confirm
  box, and only the confirm box has a lock;
* a query can be interrupted, fail or end in some fifteen places of two functions
  that call each other, and each of them must leave a dialogue a server accepts;
* the dialogue is also cut by commands (compress, clear, restore, rules) that count
  messages rather than exchanges;
* the server may answer anything, in any number of rounds, cut anywhere, or nothing
  at all;
* undo and redo work on a file system that changes in between, and every tool keeps
  in its own way what they need;
* a command leaves processes behind that hold its pipes; its end, the end of its
  output and the deadline race;
* a signal returns from every read of the terminal, and a second one comes while the
  first is handled;
* editor and transcript keep what they show beside what it is made of, and bring it
  up to date piece by piece.

What makes each part correct:

* dialogue body: every announced tool call is answered, every result was announced,
  the system prompt comes first;
* AI client: an interrupt leaves the dialogue it found and ends the query, rounds are
  bounded, the autosave is current;
* UI loop: one query at a time, nobody else at the dialogue meanwhile, no thread is
  overwritten, the program ends when its input does;
* confirm box: no command runs without consent to it, the box always closes;
* streaming: the tools that run are those the server called, with their own arguments,
  however the reply was cut;
* history and file tools: undo restores, redo repeats, and neither touches other files;
* `run_command`: nothing is lost silently, the shell is reaped, the call ends;
* reading tools: a result is complete or says that it is not;
* terminal, editor, transcript: keys, texts and sizes are neither lost nor invented.

## 2. Modules

| Module | Models |
|--------|--------|
| `Dialogue` | the operations of `DialogueBody` as operators on a sequence of messages, and what a well-formed dialogue is |
| `ChatSession` | UI thread and worker thread around one dialogue: `MainLoop`, `ProcessQuery`, `ReapFinishedQuery`, `~App`; `SendUserMessage` and `SendToolsResponses`; the commands on the client; the autosave |
| `ConfirmDialogue` | the handshake of the confirm box |
| `FileTools` | a small file system, the calls of `std::filesystem`, and Undo and Redo of the ten tools that change files, as operators |
| `ToolHistory` | `HistoryManager`: Execute of the ten tools, undo, redo, a new client, changes by others |
| `Revisions` | abstract: what `/undo` and `/redo` promise |
| `SseLines` | abstract: what is gathered from a reply whose lines arrive whole |
| `SseStream` | the transfer, its callbacks, the line buffer, the interrupt |
| `RunCommand` | `ExecuteProcess` on POSIX with the shell and the processes it starts |
| `ReadingTools` | `file_search`, `list_files`, `read_file` |
| `Terminal` | `ReadKey`, the SIGWINCH handler, `HandleResize`, main loop and exit dialogue |
| `LineSplitter` | `TextSplitter::SplitText` |
| `InputEditor` | `PanelInput::PutChar` with the entered lines and the suggestions |
| `TextField` | abstract: one text with a cursor |
| `Transcript` | `ScreenTextContent` and `PanelText` |
| `MC...` | the instances TLC checks; their `.cfg` files are named `<module>_<run>.cfg` |
| `...Proofs` | lemmas, inductive invariants, theorems; `InputProofs` holds those of `ConfirmDialogue` and `InputEditor` |

`ToolHistory` extends `FileTools`, `ChatSession` extends `Dialogue`, `InputEditor` and
`Transcript` extend `LineSplitter`. Three modules are abstract specifications that a
detailed one implements through a refinement mapping: `ToolHistory` implements
`Revisions` (`MovesAlongTheLine`), `SseStream` implements `SseLines`
(`WholeLinesInOrder`), `InputEditor` implements `TextField` (`OneText`).

Definitions marked *Mutant* or *A plausible mistake* are faulty versions of the
definition that follows, used to confirm that each property notices the fault;
nothing else refers to them.

### Dialogue

A message is a record of its role, the number of its tool calls, the file a read
result is about and the kind of its content; texts, names and identifiers are left
out because no property depends on them. `KeptFrom` and `LastUser` are the loops of
`Compress` and `RemoveLastExchange`, stated by what they find. `WithoutSystem` is the
erase loop of `AddSystemMessage`.

### ChatSession

`ui` and `worker` are the program counters of the two threads. A step ends at each
access to something the other thread uses:

| Code | Actions |
|------|---------|
| `SendUserMessage`: reset, user message, request | `Begin` |
| `HttpPostStream` | `ServerReplies` (any reply), `StreamAborts` (a callback saw the flag) |
| what follows the stream, in both functions | `HandleReply`; `first` tells which function |
| the cancel checks before, between and after tools | `CheckRecorded`, `CheckLoop`, `CheckGate`, all by `Check` and `RollBack` |
| `EvokeTool`, with or without a confirm box | `ToolAsks`, `ToolAnswered`, `ToolReturns`, `ToolThrows` |
| `SendToolsResponses` up to the request | `Send` |
| end of `ProcessQueryWorker` | `Finish` |
| `MainLoop` and what it calls | `LoopTop`, `Key...`, `StdinClosed`, `ExitConfirmed`, `Submit`, `Launch`, `LaunchFails` |
| `~App` | `Leave`, `LeaveAgain`, `Join` |
| commands | `ClearCommand` ... `ModelCommand` |

The recursion of `SendToolsResponses` is in tail position, so that the loop counter
and `first` are all that is left of its stack. `hasArray` says whether the body still
has a `messages` array: after a failed `/restore` it has none and every operation of
the body does nothing. `/restore` reads a file that `/dump` wrote, a JSON object
without messages, or something that is no JSON. A file with messages the program
never had is left out: `FromJsonString` accepts it as it is. `base` and `escaped` are
history variables. `Finish` forgets the local variables of the finished calls.

A client exists from the start; without one, queries and commands only print an
error.

### ConfirmDialogue

`Confirm` is `Ask`, `Open`, the wait (`blocked`, `woken`, `expired`), `Decide` or
`WaitOn`, `Return`. The UI thread is `TypeKey`, `Route` (`IsShown`), `Put` (under the
lock), `Notify`; `Leave` is `~App`'s `Cancel`. A notification wakes only a worker that
sleeps; a wake-up may be spurious; after the timeout the key is looked at once more.
History variables say on which box a key was typed and in which it was stored.
`ChatSession` uses the box as `ToolAsks` and `ToolAnswered`: it is shown, takes its
keys, and ends.

### FileTools, ToolHistory, Revisions

A tree gives every path nothing, a directory, or a text. Each call of
`std::filesystem` is an operator with its condition beside it: `CanWrite`/`Written`,
`CanRename`/`Renamed` and so on; a stream that cannot be opened leaves the tree as it
is, a call that throws is `UndoThrows` or `RedoThrows`. An Execute is one step, because
`ChatSession` shows (`WorkerOwnsDialogue`) that commands and tool calls exclude each
other. `create_file` and `create_binary_file` share their Undo and Redo and are one
tool on the stacks. `Pushed` puts a call on the stack whether it changed anything or
not, as `HistoryManager::Execute` does for every tool that can be reverted.

Not everything can be taken back: the last argument of `Done` says, per tool, when it
can. `past` and `future` are history variables, kept while every call was one of
those and nobody else changed a file (`faithful`); `Line` maps them to a line of
revisions and a position. `StaysLocal` needs no such premise.

### SseLines, SseStream

`Receive` is a write callback with any number of the bytes that are left; `Feed` cuts
them into lines; `Flush` processes the rest. A line is a record of what
`ProcessChunk` looks at; lines that do not parse, comments and `[DONE]` are `other`.
`Gathered` in `SseLines` is the same processor fed with whole lines: the refinement
says that the way the network cuts the reply does not matter. `Abort` is the progress
callback, or a write callback that refuses its data.

### RunCommand

The parent's `pc` follows `ExecuteProcess`: set-up, the loop around `poll`, one stream
served after the other, reaping with its waits of 10 ms, the kill and the last wait.
A pipe is a number of bytes with a capacity and the set of processes that hold its
other end; processes write, read, close, start another and exit at any time, also
between two rounds or two streams. `late` is the deadline. Results of system calls
are actions: `EINTR` and an error of `poll`, failing set-up, an error of `waitpid`
while the shell is waited for (`TryWaitFails`), and a last `waitpid` that returns
without the shell (`WaitFails`), which the code does not look at.

### ReadingTools

A tree is the sequence of entries in the order the iterators visit them. The walk is
one step per entry, because others may append to a file or delete entries in between;
`file_search` looks into a file and opens it again, and `read_file` reads chunk after
chunk, each a step. `Fit` is the loop that copies matches until a limit is reached,
stated by the number it copies. `LinesWith` goes through the lines of a file in order
and takes those that hold one of some bytes: `Hits`, what the code compares with, for
the search itself, and `Wanted`, what the query stands for, for the property. An error
of the walk ends a search in `broken`, a listing in `thrown`.

### Terminal

`ReadKey` is a byte at a time: `ReadByte`, `ReadEof`, the wait after ESC (`Available`,
`Timeout`). A signal either interrupts the call that waits, or is noticed by nobody
but the flag. `HandleResize` is three steps, so that the next signal may come between
clearing the flag, asking for the size, and drawing. The final byte tells sequences
apart; two of them, and a letter of two bytes, stand for the others.

### InputEditor, TextField, LineSplitter

Every key is one action of the editor, with the refresh of the suggestions that ends
`PutChar`. The lines entered are kept as typed (`raw`) and as shown (`rendered`).
`SplitText` is modelled by where it ends each line. Characters are one column wide.
A message is the sequence of the lines that `PutChar` joins with newlines; the text
of `TextField` is the characters of those lines, without line breaks.

### Transcript

The screen's mutex makes each operation one step. `Refresh` is `RefreshText`, which
renders only what is dirty; `Full` renders everything and is what `SetLineLength` and
`SetShowReasoning` do.

## 3. Runs

Every run sets `CHECK_DEADLOCK FALSE`: a session that was left, a call that returned, a
history at its bound has no further step.

### Properties that hold

| Run | Checks | Bounds |
|-----|--------|--------|
| `turns` | `TypeOK`, `ThreadSlotFree`, `RunningCoversWork`, `BodyWellFormed`, `RoundsBounded`, `InterruptRestoresDialogue`, `CancelEndsQuery` | one file, two calls per reply, `kToolsCallMax` 2, seven messages, reads that succeed or fail, no commands; fair |
| `commands` | `SystemPromptFirst`, `AutosaveIsCurrent`, `WorkerOwnsDialogue` | all seven commands, one call per reply, one round, four messages |
| `boxes` | `NoLostWakeup`, `ConsentIsFresh`, `BoxCloses` | three boxes; fair |
| `history` | `TypeOK`, `NeverStuck`, `MovesAlongTheLine`, `StaysLocal` | two names, one of them with a name below, texts of up to one letter, every such tree, two calls on the stack, one change by others |
| `process` | `CutIsFlagged`, `NothingCutShort`, `CleanReturn`, `EndsWhenQuiet` | the shell and one more process, pipes of one or two bytes, reads of two, a cap of one, no or two bytes of input; fair |
| `stream` | `CallsAreTheServers`, `WholeLinesInOrder`, `InterruptEndsTransfer` | replies of one to three of eight kinds of lines, or four beginning with a call; lines of two bytes; fair |
| `keys` | `KeysArriveAsTyped`, `SizeNotForgotten`, `ClosedInputEndsLoop` | three keys of six kinds, two changes of size, two eofs in a row; fair |
| `editor` | `TypeOK`, `ShownAsTyped`, `ListFitsLine`, `HighlightDrawn`, `OneText` | four characters, messages of five and what suggestions add, three commands, two files, lines of 0, 2 and 3 columns |
| `transcript` | `LinesAreTheText`, `ReasoningHidden`, `NewestInView` | three pieces of text, two origins, seven characters, four windows, up to three input lines |
| `reading` | `TypeOK`, `SearchAllOrFlagged`, `MatchesAreReal`, `ListingIsTheTree`, `ReadAllOrFlagged` | five trees of five entries, three contents, every limit between one and five, two changes by others |

Why these bounds are enough to be interesting.

* Chat: with seven messages there are a first exchange, a second one with two calls,
  and a roll-back into the middle; the limit of two rounds is reached, exceeded and
  reset by a text reply; a second file would only add independent copies, as the purge
  compares paths for equality. In `commands` every command meets every dialogue of up
  to four messages plus what a reply in progress adds, among them dialogues that
  compression cuts inside an exchange. `MaxMessages` stops new user messages and tool
  calls, never the code's own steps. `kToolsCallMax` (20) is a constant of the model,
  as only being below or above it matters. Three boxes give a box before and a box
  after the one in question.
* History: with two calls each may depend on the other (a file copied and then
  modified, a directory made and then filled), be undone in the middle of the other
  being redone, and be cut off by a new one; a path below another is needed for
  directories with entries, for moves of directories and for files in the way.
* Processes: one byte of capacity makes every pipe full or empty between any two
  steps; the cap of one is reached exactly, exceeded and missed; a second process is
  what outlives the shell or holds its pipes. `MaxTries` (100) and `BufferSize` (4096)
  are constants.
* Streaming: a line of two bytes is cut in the middle, before and after; four lines
  are a call that is named, given its arguments in two pieces and followed by another
  in the same line.
* Terminal: with three keys one precedes and one follows a sequence; two changes of
  size are the second that comes during the first.
* Editor and transcript: the widths are below, at and above the shortest text that is
  split; the list shows two of three suggestions.
* Reading: the limits are so small that each is reached, just reached and not reached
  by some tree; entries are hidden, below hidden ones, too deep, binary, locked.

### Where the code departs from what it says

These runs expect a violation and TLC finds it.

| Run | Property | What happens |
|-----|----------|--------------|
| `esc_lost` | `EscapeNotLost` | ESC right after sending: `SendUserMessage` clears the flag that `CancelRequest` just set |
| `redo` | `RedoRepeats` | `file_content_modify` never keeps the new content: its redo empties the file |

The source lines and the quoted documentation are in `PROJECT.json` under `findings`.
The other behaviours worth knowing are part of the models, which show what remains
true beside them; a property that excludes one of them says so.

Chat:

* An ESC during the last tool of a later round ends the query without a roll-back and
  without a message; the results are lost (`cli/ai_client_impl.cpp:208`).
* A `read_file` that failed still replaces the earlier content of that file by a note
  that refers to the failed result (`cli/dialogue_body.cpp:594`). `RemoveLastExchange`
  erases the result such a note refers to; the note stays.
* Compressing a dialogue of two messages keeps the system prompt twice
  (`cli/dialogue_body.cpp:717`); a failed transfer of the summary replaces the context
  by an empty message (`cli/ai_client_impl.cpp:382`).
* `/restore` of a JSON object without messages is reported as rejected, but has
  replaced the body (`cli/dialogue_body.cpp:342`).
* In the confirm box an ESC is replaced by a later key before the worker looks
  (`tui/confirm_dialogue.cpp:126`). Between `Route` and `Put` one box may close and the
  next open: the key approves a box it was not typed for. `ConsentIsFresh` does not
  exclude this; it says what is guaranteed: the key was stored while the box was shown.
* `~App` may cancel before a worker that has just started clears the flag; `join` then
  waits for the server. `CancelEndsQuery` is stated for a worker past `Begin`.
* Nothing interrupts a tool. A `run_command` whose command never pauses in writing does
  not return, and neither does the query: `CancelEndsQuery` speaks of a worker outside
  of a tool (`InTool`), which it is again as soon as the tool returns.
* After `LaunchFails` the flag `m_query_running` is never cleared: all keys are dropped.

History:

* A call that failed is pushed like the others and empties the redo stack.
* The undo of `create_file` over an empty file deletes the file; the undo of
  `move_file` over an existing file does not bring that one back; the undo of
  `remove_file` on an empty directory makes a file of it; directories that
  `create_file` and `create_directory` made above their path stay. The last argument
  of `Done` excludes these from a faithful line.
* An object whose Undo throws stays on top of the stack for ever. On a faithful line
  it never happens (`NeverStuck`).
* `file_content_modify` counts two matches next to each other as one.

Streaming:

* `data: {"error": ...}` is not noticed as an error; an error over several lines is lost.
* The index of a delta is ignored: interleaved deltas mix their arguments, which is
  why `CallsAreTheServers` speaks of servers that finish a call before the next. A call
  with empty arguments is dropped.

`run_command`:

* The loop that reads one stream does not look at the deadline: a command that never
  pauses in writing is not stopped; hence the premise of `EndsWhenQuiet`.
* `truncated` is set as soon as a result is full (`tools/tool_run_command.cpp:26`), also
  when the output just fills it and nothing was discarded, against the comment at line
  14 and the parameter's description at line 58. `CutIsFlagged` says what is so: the
  flag is set exactly when the result is full, and nothing is lost without it.
* The `waitpid` after `SIGKILL` (lines 888 and 914) is not looked at. A SIGWINCH, whose
  handler restarts no call (`tui/screen.cpp:127`), may interrupt it, and one that follows a
  failed `waitpid` (line 904) fails as well: the shell is then not reaped, and the call
  reports the exit code 0. `CleanReturn` says that this is the only way to leave it.
* A shell that closes all outputs and works on is killed after about a second, without
  `timed_out`. Only the shell is signalled, not the processes it started.

Terminal:

* A bare ESC while a resize is pending is reported as a resize
  (`tui/keyboard.cpp:230`); an ESC and a key typed within 50 ms are both lost. A signal
  tears a sequence. `KeysArriveAsTyped` therefore lets an ESC be missing and
  asks for keys whose bytes arrive together.
* The exit dialogue ignores eof: with standard input closed it never returns
  (`tui/exit_dialogue.cpp:80`, against the comment at `tui/app.cpp:133`).
* A signal that another thread took leaves the resize pending. Plain keys do not notice
  it; it is acted upon at the next read that a signal interrupts or at a bare ESC.

Editor and transcript:

* A message is not sent as it was typed, although the table of keys in `README.md:167`
  says so: it is joined with newlines from the lines as they are shown
  (`tui/panel_input.cpp:90`), so that a line that was cut is sent with newlines where
  the window's width put them. A piece that Backspace took back becomes a line of its
  own when it is entered again. `OneText` is about the characters typed, all of
  which are sent in their order; of line breaks it says nothing.
* A line that fits exactly and is followed by a newline is cut at its last blank
  (`tui/text_splitter.cpp:62`).
* With two files of one name Enter inserts the first (`tui/panel_input.cpp:447`). With
  fewer rows than the list needs, the highlighted suggestion may not be drawn.
* `m_view_shift` may exceed its maximum after reasoning was hidden; `/clear` keeps the
  origin of the buffer, so that a marker without reasoning may appear. A panel with
  room for one line is empty when scrolled to the top.
* In a narrow window the marker of hidden reasoning takes several lines while it is the
  buffer's and one when it is saved (`tui/screen_text_content.cpp:184`). The model shows
  it in one line always.

Reading tools:

* A case-sensitive search lower-cases its query (`tools/tool_file_search.cpp:185`), so
  that a query with upper-case letters finds none of the lines that hold it, against
  line 110, and reports a complete, empty result. `SearchAllOrFlagged` measures a search
  by what its query stands for (`Wanted`) and leaves these queries out (`Understood`).
* An error of the walk (lines 252, 297), also of its root (line 242), ends the search
  with success and without `truncated`, although the comment at lines 249-251 says that
  the loop continues. Of such a search `SearchAllOrFlagged` promises only that what it
  found is a beginning. The cap of 25 matches per file cuts without `truncated`, too.
* `list_files` says `"complete": true` also when it stopped at a limit, and throws at a
  directory, the root included, that it cannot open.
* `ClipUtf8` in `read_file` never cuts (`tools/tool_file_read.cpp:232`), because the text
  is at the limit already: it may end inside a letter. `read_file` of a directory
  returns success and no content.

### Fairness

`ChatSession!FairSpec`: weak fairness of the worker's own steps and of `~App` and the
thread start. `StreamAborts` is among them because libcurl calls the progress callback
about once a second even without data, `ToolAnswered` because the confirm box ends by
itself (`BoxCloses`). Nothing is assumed of `ServerReplies` (the transfer has no time
limit), of `ToolReturns` (a command that never pauses in writing is not stopped), or
of keys.

`ConfirmDialogue!FairSpec`: weak fairness of `Confirm`'s own steps, strong fairness of
the timeout: `wait_for` with a predicate has one deadline for all its waits, so that
wake-ups do not postpone it. Nothing is assumed of the user or the UI thread.

`RunCommand!FairSpec`: weak fairness of the parent and of the deadline (time passes).
Strong fairness of `PollReturns \/ TimesOut`: signals interrupt `poll` now and then,
not every time. Nothing is assumed of the command and its processes.

`SseStream!FairSpec`: weak fairness of the callbacks' own work and of the progress
callback, as above. Nothing is assumed of the server.

`Terminal!FairSpec`: weak fairness of the thread that reads keys, and the bytes of a
key arrive some time. Nothing is assumed of the user or of signals.

## 4. Proofs

TLAPS proves these for all values of the constants: any files, limits, commands,
numbers of boxes and processes, sizes of pipes, lengths of texts and histories.

| Theorem | States |
|---------|--------|
| `Invariance` | `Spec => []Inv`, the inductive invariant of `ChatSession` |
| `TypeCorrect`, `HistoryTypes`, `CommandTypes`, `TerminalTypes`, `EditorTypes`, `ReadingTypes` | `[]TypeOK` of `ChatSession`, `ToolHistory`, `RunCommand`, `Terminal`, `InputEditor`, `ReadingTools` |
| `ThreadSlotIsFree` | `[]ThreadSlotFree` |
| `RunningFlagCoversWork` | `[]RunningCoversWork` |
| `BodyStaysWellFormed` | `[]BodyWellFormed` |
| `SystemPromptStaysFirst` | `[]SystemPromptFirst` |
| `InterruptRestores` | `[]InterruptRestoresDialogue` |
| `UiLeavesDialogueToWorker` | `WorkerOwnsDialogue`, an action property |
| `AutosaveStaysCurrent` | `[]AutosaveIsCurrent` |
| `RoundsStayBounded` | `[]RoundsBounded` |
| `AnswerWakesWorker` | `[]NoLostWakeup` |
| `NoStaleConsent` | `[]ConsentIsFresh` |
| `UndoStaysLocal` | `StaysLocal`, an action property |
| `UndoNeverStuck` | `[]NeverStuck` |
| `UndoAlongTheLine` | `MovesAlongTheLine`: `ToolHistory` implements `Revisions` |
| `CutOutputIsFlagged` | `[]CutIsFlagged` |
| `NothingIsCutShort` | `[]NothingCutShort` |
| `ReturnIsClean` | `[]CleanReturn` |
| `StreamImplementsLines` | `WholeLinesInOrder`: `SseStream` implements `SseLines` |
| `ToolsAreTheServers` | `[]CallsAreTheServers` |
| `NoSizeForgotten` | `[]SizeNotForgotten` |
| `KeysStayAsTyped` | `[]KeysArriveAsTyped` |
| `ReadIsWholeOrFlagged` | `[]ReadAllOrFlagged` |
| `ListingNamesTheTree` | `[]ListingIsTheTree` |
| `SearchFindsAllOrSaysSo` | `[]SearchAllOrFlagged` |
| `ResultsAreReal` | `[]MatchesAreReal` |
| `EditorIsTextField` | `OneText`: `InputEditor` implements `TextField` |
| `TextShownAsTyped` | `[]ShownAsTyped` |
| `OfferFitsLine` | `[]ListFitsLine` |
| `HighlightIsDrawn` | `[]HighlightDrawn` |
| `LinesStayTheText` | `[]LinesAreTheText` |
| `ReasoningStaysHidden` | `[]ReasoningHidden` |
| `NewestStaysInView` | `NewestInView`, an action property |

Assumptions: the named `ASSUME` of each module only, which give the constants their
types and say what the operating system's data look like: paths are not empty and
closed under prefixes, neither "nothing" nor a directory is a text, the trees a session
begins with are trees, what is read exists in the tree, a walk visits every directory
before what lies below it, which follows at once (`IsWalk`). A newline is no byte of a
line, and a reply is a sequence of lines of the three kinds. `Names` and `Chars` are
the alphabets of paths and texts; the proofs need only that there is one.
`EditorAssumption` keeps the newline out of what is typed and inserted: `PutChar` drops
typed characters below 0x20, and commands and file names are lines. `LettersAssumption`
says that no file holds half a letter when the search begins, as text in UTF-8 does not;
only `ResultsAreReal` uses it, for the end of the snippets. Without it that part is
false: a line that ends in half a letter is shown like that, and may be completed
afterwards.

The argument for `ChatSession`. The invariant has three groups, proved one after the
other, each with the earlier ones (`ControlStep`, `BodyStep`, `ExchangeStep`):

1. control: types, `ThreadSlotFree`, `RunningCoversWork`, and the auxiliary
   `CallsLeft` (inside the tool loop there is a call left, so that `Head(todo)` is
   defined) and `RoundLeft` (the counter exceeds its limit only when the query ends,
   which bounds it);
2. body: `BodyWellFormed` and `SystemPromptFirst` with `DumpUsable`, because
   `/restore` brings back what `/dump` saved. `WellFormed` is kept by each operator of
   `Dialogue`; the lemmas that say so come first in the module. For `RemoveLastExchange`
   it holds because a user message never lies inside a group of results; for
   `Compress` because the kept window starts at no tool result; for `AddSystemMessage`
   because system messages lie outside of the groups, so that erasing them moves a
   group as a whole (hence the formulation of `WithoutSystem` through positions);
3. exchange: `InterruptRestoresDialogue` needs `QueryBehindBase`: during a query the
   dialogue is the old one, a user message, and no user message after it. Only then
   does "the last user message and everything after it" mean the current exchange.
   Contents are compared without the purge's notes (`Shape`): a roll-back does not
   restore purged contents.

`AutosaveStaysCurrent` adds `SavedMidway` to this invariant: inside a query the file is
current at the places where a roll-back or an end may leave it as it is.

`RoundsStayBounded` adds `RoundsCounted`: no stretch of the dialogue in which only the
model, its tools and system messages speak has more rounds than the limit, and none at
its end more than the counter has counted; the same for the dump. `FewRounds` is stated
for every stretch, wherever it begins, so that what compression, roll-back and
`/restore` keep of a dialogue has it too.

The argument for `ConfirmDialogue`: `NoLostWakeup` is inductive, because the worker
looks at the key under the lock before it sleeps and the notification follows the
store. `ConsentIsFresh` needs `KeyIsOfThisBox`: after the reset the stored key belongs
to the current box.

The argument for `RunCommand`: `Inv` adds what the loop knows. `ClosedAfter`,
`ReapedAtReturn` and `KilledFirst` (the last `waitpid` waits for a shell that was killed)
give `CleanReturn`; `NothingMissedBefore` says that inside the loop a
stream is closed only when nothing is left in it, so that only the way out of the loop
can miss something, and without a timeout or an error of `poll` no output is open then;
`InputServed` is the same for `stdin_data` (holders are only inherited: who is gone
cannot read again). `CutIsFlagged` is inductive: `AppendCapped` is the only step that
touches a result or its flag, and sets one with the other.

The argument for `SseStream`: `StreamInv` says that all whole lines received were
processed (`reply` is what `SseLines` gathers from the first `taken` lines) and that the
buffer holds what was received of the next one (`BufferIsTheRest`). With more data the
buffer is a part of the wire that begins where a line does (`IsCut`); its newlines are a
line's width apart (`NewlinesOf`), so that `Ends`, `Complete` and `Rest` cut it into the
next lines and the beginning of another (`Cuts`). At the end the tail is a whole line or
no line. `ToolsAreTheServers` follows from the same invariant and what one more delta
does (`OneMoreDelta`): as long as the deltas are in order, the calls that were begun are
those announced, the last one, `m_current_tool`, is the one the next delta is for
unless it begins a call, and no argument has arrived for a call not begun (`Announces`).

The argument for `Terminal`: `SizeNotForgotten` is inductive with the types and
`StreakLeft` (a loop that runs has counted fewer eofs than end it). `KeysStayAsTyped`
needs `OnTheKey`: of all the bytes that were sent, those of `n` whole keys are behind,
then come those read of the next key, then those waiting (`Place`), and what was
received are the first `n` keys but for some ESC. `Midway` ties the place of `ReadKey`
to the bytes read, so that the last byte of a key, and no other, ends it (`NextByte`).
A wait that ends early finds nothing left to read, and the one key of which no prefix is
left over is ESC (`WholeIsEsc`); that an ESC is the last key typed as long as it is not
behind is what its 50 ms give.

The argument for `ReadingTools`. `ReadIsWholeOrFlagged`: what was taken is a prefix of
the file and the next chunk continues it; appends by others keep prefixes; a read ends
only at the end of the file, at the limit, or refused. `ListingNamesTheTree` rests on
`ListInv`: while nobody interferes, the listing holds the visible entries before the
iterator, in order (`Holds`), and the iterator is never inside something left out
(`Reached`), so that skipping a directory skips nothing visible. That `Past` is the
next entry not below the current one follows from `IsWalk` by well-founded induction
over the entries.

The searches need three more groups. What is in the results (`SearchInv`): a snippet
is how its line begins (`Clipped`), the entries of the results lie before the iterator,
and results are ordered by entry and line (`Before`). A line is the stretch between its
first and its last byte (`LineIs`), because the number of newlines before a place only
grows (`LinesGoOn`); what others append leaves it as it begins (`LineGrows`), so that
snippets stay true to files that grow. The lines of the matches rise because filtering
a sequence of numbers keeps their order (`ChosenRise`). How much (`WhatFits`): the
matches copied are the first ones, as many as the limits allow, and when one is left
over, a limit is reached. How far (`FoundSoFar`): before the iterator all was found
(`UpTo`), which is how everything the code could find begins (`UpToBegins`,
`Findable`). For a query that is understood this is what there is to find
(`UnderstoodIsFound`). That no snippet ends
inside a letter (`NoHalves`) is separate: `Clip` goes back to where a letter begins,
and a line takes no letter apart (`LineOfLetters`).

The argument for `InputEditor`. `EditorInv` says four things. The lines
(`LinesGood`): what is shown of the entered lines is those lines cut to the width of
the window, and an entered line is never empty. The current line (`LineGood`): the
cursor is in it. The list (`ListGood`): an open list was made for the line as it is
now, and its selection is in it. The answer (`ResponseGood`) is a result with lines of
text. `OneText` then rests on what cutting does to a text:
the pieces of `SplitText` joined are the text (`SplitIsText`), hence the lines shown,
joined without line breaks, are those entered (`RenderIsText`). Backspace at the start of a line takes the
last line back and cuts it at its last piece: the last line shown ends the last line
entered (`LastShown`), so that what stays and what comes back are the same text
(`RestOfLine`). An accepted suggestion replaces what was typed of it (`AtTheQuery`).

The argument for `ToolHistory`: the stacks hold objects of calls on paths of the tree
(`HInv`), for which every operator of the file system leaves the other paths alone;
an undo that makes directories is one that did not throw, and makes them only where
nothing is. The edits of texts are shown to bring texts, so that trees stay trees.
For the refinement `OnTheLine` says what every object on the two stacks does: its Undo
leads from the tree after its call to the tree before, its Redo back (`Leads`). A call
that `Done` admits puts such an object on the stack, tool by tool; undo and redo shift
it from one stack to the other. The line of revisions is the past, the present and the
future reversed; `LineShifts` and `LineGrows` say that undo and redo leave it as it is
and that a call cuts and continues it.

The argument for `Transcript`: `TranscriptInv` says that saved text is clean, the
buffer dirty, and the lines on the screen those of both at the window's width. Then the
clean lines of the screen are those of the saved text (`OnlyTheFirst`), the one dirty
text is the buffer that was just saved (`OnlyDirty`), and saving it puts its lines
behind the others (`SavedAppend`): rendering what changed gives what rendering all
does. These lemmas, and that `SplitText` yields lines of the text's characters, are
about recursive functions. They are proved from well-founded induction on the naturals
(`StepByStep`): there is one function that satisfies the recursion, hence the one that
`CHOOSE` picks. `NewestInView` is arithmetic on what is then known to be a number.

Recursive functions are met in `ReadingTools` and `InputEditor`, too: `FlattenSeq` of the
community modules (`FlattenAppend`) and the sum `Costs` (`CostsOfMatches`), in the same way.

Only model-checked: liveness (`CancelEndsQuery`, `BoxCloses`, `EndsWhenQuiet`,
`InterruptEndsTransfer`, `ClosedInputEndsLoop`), which is out of the prover's reach, as
fairness and ENABLED are. Every invariant and every safety property of a step that
a run checks is proved.

## 5. Not modelled

* Drawing, layout, formatting, statistics (`CheckTokens`) and the text of messages: no
  state a property here depends on. Characters are one column wide.
* Non-atomic access to the dialogue inside one step: `WorkerOwnsDialogue` shows that
  the other thread has no step there.
* Files with messages of foreign origin given to `/restore`, and JSON values that are
  not objects (the code then calls `FindMember` on a non-object).
* The Windows halves of `run_command` (lines 242-465) and of `ReadKey`.
* Regular expressions in `file_search`; base64; the environment of a command.
* The working directory: `IsInWorkDir` compares paths that
  `std::filesystem::weakly_canonical` resolved, which is not code of this repository;
  the models of the tools begin where a path was accepted.
* File names and torn writes of the autosave; nothing in the code recovers from them.
* The menus of `/model` and `/rules`, connectivity probes, the reading of settings,
  text utilities, console output, start-up and animation: input and output, or loops
  over tables, without lasting state.

## 6. What could come next

1. The autosave and dump files with crashes between truncation and write and equal
   time stamps, once the code promises something about them.
2. The console output between query thread and screen as a composition of
   `ChatSession` and `Transcript`.
