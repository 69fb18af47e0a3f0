------------------------------ MODULE Terminal ------------------------------
(***************************************************************************)
(* Keys and window sizes on POSIX: Keyboard::ReadKey                       *)
(* (psittacula-tui/src/keyboard.cpp), the SIGWINCH handler and             *)
(* Screen::HandleResize (screen.cpp), and the two loops that read keys:    *)
(* App::MainLoop (app.cpp) and ExitDialogue::Confirm (exit_dialogue.cpp).  *)
(*                                                                         *)
(* The user types keys, the terminal sends the bytes of a key together or  *)
(* in two parts, the window changes its size, and standard input may end.  *)
(* A signal is handled by the thread that reads keys, whose system call    *)
(* then returns, or by another one, of which it notices nothing.           *)
(***************************************************************************)
EXTENDS Integers, Sequences

CONSTANTS
    Keys,        \* keys the user may type
    MaxTyped,    \* bound: keys typed
    MaxResizes,  \* bound: changes of the window's size
    MaxEofs      \* eofs in a row that end the main loop (50)

\* What the terminal sends: a letter, a letter outside of ASCII, and keys that
\* begin with ESC.
Encoding == [y |-> <<"y">>, n |-> <<"n">>, enter |-> <<"enter">>,
             wide |-> <<"lead", "cont">>, esc |-> <<"esc">>,
             left |-> <<"esc", "[", "D">>, del |-> <<"esc", "[", "3", "~">>]

ASSUME TerminalAssumption ==
    /\ Keys \subseteq DOMAIN Encoding
    /\ MaxTyped \in Nat /\ MaxResizes \in Nat /\ MaxEofs \in Nat \ {0}

VARIABLES
    typed,     \* history: the keys typed
    clean,     \* history: no key was torn, none followed an ESC too soon
    queue,     \* bytes that arrived
    delayed,   \* bytes of the last key that did not arrive yet
    closed,    \* standard input has ended
    size,      \* size of the window: a number for each
    pending,   \* g_resize_pending
    eintr,     \* errno is EINTR
    pc,        \* where ReadKey, or its caller, is
    read,      \* bytes of the key read so far
    ui,        \* which loop runs
    selected,  \* selected_yes of the exit dialogue
    eofs,      \* m_eof_streak
    drawn,     \* the size the screen was laid out for
    keys       \* history: keys the loops received

user   == <<typed, clean, delayed, closed>>
signal == <<size, pending, eintr>>
loop   == <<ui, selected, eofs, drawn, keys>>
vars   == <<user, queue, signal, pc, read, loop>>

TypeOK ==
    /\ typed \in Seq(Keys) /\ Len(typed) <= MaxTyped
    /\ clean \in BOOLEAN /\ closed \in BOOLEAN /\ pending \in BOOLEAN /\ eintr \in BOOLEAN
    /\ size \in 0..MaxResizes /\ drawn \in 0..size
    /\ pc \in {"first", "rest", "wait", "intro", "params", "resizing", "measuring", "drawing"}
    /\ ui \in {"main", "exit", "over"}
    /\ selected \in BOOLEAN
    /\ eofs \in 0..MaxEofs
    /\ read # <<>> <=> pc \in {"rest", "wait", "intro", "params"}

Init ==
    /\ typed = <<>>
    /\ clean = TRUE
    /\ queue = <<>>
    /\ delayed = <<>>
    /\ closed = FALSE
    /\ size = 0
    /\ pending = FALSE
    /\ eintr = FALSE
    /\ pc = "first"
    /\ read = <<>>
    /\ ui = "main"
    /\ selected = FALSE
    /\ eofs = 0
    /\ drawn = 0
    /\ keys = <<>>

-----------------------------------------------------------------------------
(***************************************************************************)
(* The loops.  ReadKey returns one of Keys, or "resize", "eof", "nothing"; *)
(* garbage stands for a code point nobody typed.                           *)
(***************************************************************************)

Real(key) == key \notin {"resize", "eof", "nothing"}

\* An ESC is for the query or a confirm box (ChatSession, ConfirmDialogue), or
\* opens the exit dialogue.
\* Mutant: the streak begins anew with each.
MainLoopNoStreak(key) ==
    /\ ui = "main"
    /\ eofs' = IF key = "eof" THEN 1 ELSE 0
    /\ ui' \in IF key = "esc" THEN {"main", "exit"} ELSE {"main"}
    /\ selected' = FALSE
    /\ pc' = IF key = "resize" THEN "resizing" ELSE "first"
MainLoop(key) ==
    /\ ui = "main"
    /\ IF key = "eof"
       THEN eofs' = eofs + 1 /\ ui' = IF eofs' >= MaxEofs THEN "over" ELSE "main"
       ELSE eofs' = 0 /\ ui' \in IF key = "esc" THEN {"main", "exit"} ELSE {"main"}
    /\ selected' = FALSE
    /\ pc' = IF key = "resize" THEN "resizing" ELSE "first"

ExitDialogue(key) ==
    /\ ui = "exit"
    /\ ui' = CASE key = "y" -> "over"
               [] key \in {"n", "esc"} -> "main"
               [] key = "enter" -> IF selected THEN "over" ELSE "main"
               [] OTHER -> "exit"
    /\ selected' = IF key = "left" THEN ~selected ELSE selected
    /\ pc' = "first"
    /\ UNCHANGED eofs

Return(key) ==
    /\ MainLoop(key) \/ ExitDialogue(key)
    /\ read' = <<>>
    /\ keys' = IF Real(key) THEN Append(keys, key) ELSE keys
    /\ UNCHANGED drawn

\* Screen::HandleResize: the flag is cleared, the size asked for, the screen
\* laid out; signals come in between.
ClearPending ==
    /\ pc = "resizing"
    /\ pc' = "measuring"
    /\ pending' = FALSE
    /\ UNCHANGED <<user, queue, size, eintr, read, loop>>

UpdateSize ==
    /\ pc = "measuring"
    /\ pc' = "drawing"
    /\ drawn' = size
    /\ UNCHANGED <<user, queue, signal, read, ui, selected, eofs, keys>>

\* Mutant: the flag is cleared once all is done.
DrawAndClear ==
    /\ pc = "drawing"
    /\ pc' = "first"
    /\ pending' = FALSE
    /\ UNCHANGED <<user, queue, size, eintr, read, loop>>
Draw ==
    /\ pc = "drawing"
    /\ pc' = "first"
    /\ UNCHANGED <<user, queue, signal, read, loop>>

-----------------------------------------------------------------------------
(***************************************************************************)
(* ReadKey.                                                                *)
(***************************************************************************)

Reading == ui # "over" /\ pc \in {"first", "rest", "intro", "params"}

\* The key that these bytes are.  Of a sequence only digits and the final byte
\* count; a byte from within a letter, alone, is taken for a letter.
OneDigit(bytes) == \E i \in DOMAIN bytes : {j \in DOMAIN bytes : bytes[j] = "3"} = {i}
Decoded(bytes) ==
    LET final == bytes[Len(bytes)]
    IN  IF Len(bytes) = 1 THEN IF final = "cont" THEN "garbage" ELSE final
        ELSE IF bytes = Encoding.wide THEN "wide"
        ELSE IF bytes[1] = "lead" THEN "garbage"
        ELSE CASE Len(bytes) > 2 /\ final = "D" -> "left"
               [] Len(bytes) > 2 /\ final = "~" /\ OneDigit(bytes) -> "del"
               [] OTHER -> "nothing"

\* Where the byte leads; "done" when the key is complete.
\* Mutant: every letter is one byte.
InSequence == {"3", "esc", "enter", "lead", "cont"}
AfterAscii(b) ==
    CASE pc = "first" -> IF b = "esc" THEN "wait" ELSE "done"
      [] pc = "intro" -> IF b = "[" THEN "params" ELSE "done"
      [] pc = "params" -> IF b \in InSequence THEN "params" ELSE "done"
      [] OTHER -> "done"
After(b) ==
    CASE pc = "first" -> IF b = "esc" THEN "wait" ELSE IF b = "lead" THEN "rest" ELSE "done"
      [] pc = "intro" -> IF b = "[" THEN "params" ELSE "done"
      [] pc = "params" -> IF b \in InSequence THEN "params" ELSE "done"
      [] OTHER -> "done"

ReadByte ==
    /\ Reading
    /\ queue # <<>>
    /\ queue' = Tail(queue)
    /\ LET bytes == Append(read, Head(queue))
           next == After(Head(queue))
       IN  IF next = "done" THEN Return(Decoded(bytes))
           ELSE pc' = next /\ read' = bytes /\ UNCHANGED loop
    /\ UNCHANGED <<user, signal>>

\* read returns 0: errno is what it was.
ReadEof ==
    /\ Reading
    /\ queue = <<>> /\ delayed = <<>> /\ closed
    /\ Return(IF eintr /\ pending THEN "resize"
              ELSE CASE pc = "first" -> "eof" [] pc = "params" -> "esc" [] OTHER -> "nothing")
    /\ UNCHANGED <<user, queue, signal>>

\* InputAvailable(50).
Available ==
    /\ ui # "over" /\ pc = "wait"
    /\ queue # <<>> \/ closed
    /\ pc' = "intro"
    /\ UNCHANGED <<user, queue, signal, read, loop>>

Timeout ==
    /\ ui # "over" /\ pc = "wait"
    /\ queue = <<>>
    /\ Return(IF pending THEN "resize" ELSE "esc")
    /\ UNCHANGED <<user, queue, signal>>

-----------------------------------------------------------------------------
(***************************************************************************)
(* The world outside.                                                      *)
(***************************************************************************)

\* An ESC needs its 50 ms to be told from the beginning of another key.
Rushed == typed # <<>> /\ typed[Len(typed)] = "esc" /\ (queue # <<>> \/ pc # "first")

Type(k, n) ==
    /\ ~closed /\ delayed = <<>>
    /\ Len(typed) < MaxTyped
    /\ typed' = Append(typed, k)
    /\ queue' = queue \o SubSeq(Encoding[k], 1, n)
    /\ delayed' = SubSeq(Encoding[k], n + 1, Len(Encoding[k]))
    /\ clean' = (clean /\ ~Rushed /\ delayed' = <<>>)
    /\ UNCHANGED <<closed, signal, pc, read, loop>>

Arrive ==
    /\ delayed # <<>>
    /\ queue' = queue \o delayed
    /\ delayed' = <<>>
    /\ UNCHANGED <<typed, clean, closed, signal, pc, read, loop>>

Close ==
    /\ ~closed
    /\ closed' = TRUE
    /\ UNCHANGED <<typed, clean, delayed, queue, signal, pc, read, loop>>

\* The size changes and the handler runs ...
Resize ==
    /\ size < MaxResizes
    /\ size' = size + 1
    /\ pending' = TRUE

ResizeUnnoticed ==
    /\ Resize
    /\ UNCHANGED <<user, queue, eintr, pc, read, loop>>

\* ... while the thread waits in read or select, which it interrupts.
ResizeInterrupts ==
    /\ Resize
    /\ Reading \/ (ui # "over" /\ pc = "wait")
    /\ queue = <<>> /\ ~closed
    /\ Return("resize")
    /\ eintr' = TRUE
    /\ UNCHANGED <<user, queue>>

Loop == ReadByte \/ ReadEof \/ Available \/ Timeout \/ ClearPending \/ UpdateSize \/ Draw

Next ==
    \/ Loop
    \/ \E k \in Keys : \E n \in 1..Len(Encoding[k]) : Type(k, n)
    \/ Arrive \/ Close \/ ResizeUnnoticed \/ ResizeInterrupts

Spec == Init /\ [][Next]_vars
FairSpec == Spec /\ WF_vars(Loop) /\ WF_vars(Arrive)

-----------------------------------------------------------------------------
(***************************************************************************)
(* Properties.                                                             *)
(***************************************************************************)

\* What was received is what was typed, in order, but for some ESC.
ButForEsc(received, all) ==
    \E at \in [DOMAIN received -> DOMAIN all] :
        /\ \A i, j \in DOMAIN received : i < j => at[i] < at[j]
        /\ \A i \in DOMAIN received : received[i] = all[at[i]]
        /\ \A j \in DOMAIN all : all[j] # "esc" => \E i \in DOMAIN received : at[i] = j

\* Whatever bytes are waiting and whenever the window changes, keys are decoded
\* as typed and in order, as long as the bytes of a key arrive together and ESC
\* is given its 50 ms; only an ESC itself may be missing (ReadKey returns from
\* every point of a key when a signal comes).
KeysArriveAsTyped ==
    clean /\ ~closed /\ ui # "over" /\ pc = "first" /\ queue = <<>> =>
        ButForEsc(keys, typed)

\* A change of size is not forgotten: either it is on the screen or the flag
\* that announces it is set, also when the next change comes while the first is
\* handled (screen.cpp:304-326 against the signal handler).
SizeNotForgotten == drawn # size => pending \/ pc = "measuring"

\* When standard input ends, the main loop ends, unless what was typed before
\* opened the exit dialogue (the comment at app.cpp:133-136).
ClosedInputEndsLoop == closed ~> ui \in {"over", "exit"}

\* The inductive invariant (TerminalProofs): a loop that still runs has counted
\* fewer eofs than end it.
StreakLeft == ui # "over" => eofs < MaxEofs

Inv == TypeOK /\ StreakLeft /\ SizeNotForgotten

=============================================================================
