---------------------------- MODULE InputEditor -----------------------------
(***************************************************************************)
(* Writing a message: PanelInput::PutChar (psittacula-tui/src/             *)
(* panel_input.cpp) with the lines already entered (input_text_content.cpp)*)
(* and the list of suggestions.                                            *)
(*                                                                         *)
(* The line being written is kept as typed.  Enter moves it to the entered *)
(* lines, which are kept twice: as typed, and cut to the width of the      *)
(* window.  Backspace on an empty line takes back the last line shown,     *)
(* which may be a piece of the last line typed.  Enter on an empty line    *)
(* sends the lines as they are shown.                                      *)
(***************************************************************************)
EXTENDS LineSplitter, SequencesExt

CONSTANTS
    Chars,       \* characters the user types
    Commands,    \* m_commands_list
    Files,       \* the project's files: names and paths
    Columns,     \* widths the window may have
    Rows,        \* its height
    MaxVisible,  \* kAutocompleteMaxVisible (6)
    MaxText      \* bound: characters that are typed

ASSUME EditorAssumption ==
    /\ "nl" \notin Chars
    /\ Commands \in Seq(Seq(Chars)) /\ Files \in Seq([name : Seq(Chars), path : Seq(Chars)])
    /\ Columns \subseteq Nat /\ Columns # {} /\ Rows \in Nat
    /\ MaxVisible \in Nat \ {0} /\ MaxText \in Nat

VARIABLES
    columns,   \* m_width
    raw,       \* m_input_lines
    rendered,  \* m_input_lines_rendered
    length,    \* m_text_line_max_length: the width rendered was cut to
    line,      \* m_input_line
    cursor,    \* m_input_cursor_pos_x
    items,     \* m_autocomplete_items
    active,    \* m_autocomplete_active
    fileMode,  \* m_autocomplete_file_mode
    selected,  \* m_autocomplete_selected
    response   \* what the last key returned; its text by lines

content == <<raw, rendered, length>>
list    == <<items, active, fileMode, selected>>
vars    == <<columns, content, line, cursor, list, response>>

Ok == [result |-> "ok", text |-> <<>>]
Results == {"ok", "enter", "command", "escape"}

TypeOK ==
    /\ columns \in Columns
    /\ raw \in Seq(Seq(Chars)) /\ rendered \in Seq(Seq(Chars)) /\ length \in Int
    /\ line \in Seq(Chars) /\ cursor \in 1..Len(line) + 1
    /\ active = (items # <<>>)
    /\ selected \in 0..Len(items) /\ (active => selected < Len(items))
    /\ fileMode \in BOOLEAN
    /\ response.result \in Results /\ response.text \in Seq(Seq(Chars))

-----------------------------------------------------------------------------
(* The entered lines *)

Padding == 4  \* kTextPaddingLeft + kTextPaddingRight

\* RenderText
Render(lines, width) == FlattenSeq([i \in 1..Len(lines) |-> SplitText(lines[i], width)])

HoldLines(lines, width) ==
    /\ raw' = lines /\ length' = width
    /\ rendered' = Render(lines, width)

\* A plausible mistake: the line is cut to the width of earlier lines.
AddedLineAtOldWidth == HoldLines(Append(raw, line), length)

\* AddInputLine after SetLineLength: the lines are cut again, the new one is
\* cut and put behind them.
AddedLine == HoldLines(Append(raw, line), columns - Padding)

\* What is left of the last line typed when its last piece is taken.  When the
\* piece is not its end, as many characters as the piece has are dropped.
Remainder == LET typed == Last(raw)  piece == Last(rendered)
             IN  SubSeq(typed, 1, Max({0, Len(typed) - Len(piece)}))

\* A plausible mistake: the whole last line goes with its last piece.
PoppedWholeLine == HoldLines(Front(raw), length)

\* PopBackInputLine returns the last line shown.
PoppedLine ==
    HoldLines(IF Remainder = <<>> THEN Front(raw) ELSE Append(Front(raw), Remainder), length)

-----------------------------------------------------------------------------
(* Suggestions *)

HasQuery(text) ==
    \E at \in 2..Len(text) :
        /\ text[at] = "@" /\ text[at - 1] = " "
        /\ \A i \in at + 1..Len(text) : text[i] \notin {"@", " "}

At(text) == Max({i \in DOMAIN text : text[i] = "@"})

Query(text) == SubSeq(text, At(text) + 1, Len(text))

InCommand(lines, text) == lines = <<>> /\ text # <<>> /\ text[1] = "/"

Names == [i \in DOMAIN Files |-> Files[i].name]

\* The words that begin like this, in their order.
Completions(words, start) ==
    FlattenSeq([i \in DOMAIN words |->
        IF IsPrefix(start, words[i]) THEN <<words[i]>> ELSE <<>>])

\* FilterCommands, FilterFiles
Suggestions(lines, text) ==
    IF InCommand(lines, text) THEN Completions(Commands, text)
    ELSE IF HasQuery(text) THEN Completions(Names, Query(text))
    ELSE <<>>

\* A plausible mistake: what is selected stays when the list changes.
UpdatedListOnly(lines, text) ==
    /\ items' = Suggestions(lines, text)
    /\ active' = (items' # <<>>)
    /\ fileMode' = (active' /\ ~InCommand(lines, text))
    /\ selected' = selected

UpdatedList(lines, text) ==
    /\ items' = Suggestions(lines, text)
    /\ active' = (items' # <<>>)
    /\ fileMode' = (active' /\ ~InCommand(lines, text))
    /\ selected' = 0

\* A plausible mistake: only the selection is reset.
ResetSelection == selected' = 0 /\ UNCHANGED <<items, active, fileMode>>

ResetList == items' = <<>> /\ active' = FALSE /\ selected' = 0 /\ UNCHANGED fileMode

Highlighted == items[selected + 1]

\* The first file of that name.
PathOf(name) == LET same == {i \in DOMAIN Files : Files[i].name = name}
                IN  IF same = {} THEN name ELSE Files[Min(same)].path

Accepted ==
    IF fileMode THEN SubSeq(line, 1, At(line) - 2) \o <<" ">> \o PathOf(Highlighted)
    ELSE Highlighted

\* DrawAutocompleteList: the rows above the input panel the list is shown in.
AnchorY == Rows - (Len(rendered) + 1) - 1

Shown == Min({Len(items), MaxVisible, AnchorY})

\* A plausible mistake: the list scrolls one row too late.
FirstShownLate ==
    LET first == IF selected > MaxVisible THEN selected - MaxVisible + 1 ELSE 0
    IN  Max({0, Min({first, Len(items) - Shown})})

FirstShown ==
    LET first == IF selected >= MaxVisible THEN selected - MaxVisible + 1 ELSE 0
    IN  Max({0, Min({first, Len(items) - Shown})})

-----------------------------------------------------------------------------
(* Keys *)

\* PutChar first brings the cursor into the line.
Cursor == Min({Max({cursor, 1}), Len(line) + 1})

Kept == UNCHANGED <<columns, content, line, cursor, list>>

Without(i) == RemoveAt(line, i)

Type(c) ==
    /\ Len(FlattenSeq(raw)) + Len(line) < MaxText
    /\ line' = InsertAt(line, Cursor, c)
    /\ cursor' = Cursor + 1
    /\ UpdatedList(rendered, line')
    /\ response' = Ok /\ UNCHANGED <<columns, content>>

\* Enter: a suggestion, a message, a command, or one more line.
Accept ==
    /\ active
    /\ line' = Accepted
    /\ cursor' = Len(Accepted) + 1
    /\ ResetList
    /\ response' = Ok /\ UNCHANGED <<columns, content>>

\* The message is the lines as they are shown, one below the other: between two
\* pieces of a line that was cut there is a newline that nobody typed.
SendMessage ==
    /\ ~active /\ rendered # <<>> /\ line = <<>>
    /\ response' = [result |-> "enter", text |-> rendered]
    /\ raw' = <<>> /\ rendered' = <<>>
    /\ cursor' = Cursor
    /\ UNCHANGED <<columns, length, line, list>>

SendCommand ==
    /\ ~active /\ InCommand(rendered, line)
    /\ response' = [result |-> "command", text |-> <<line>>]
    /\ line' = <<>> /\ cursor' = 1
    /\ UNCHANGED <<columns, content, list>>

EnterLine ==
    /\ ~active /\ line # <<>> /\ ~InCommand(rendered, line)
    /\ ResetList
    /\ AddedLine
    /\ line' = <<>> /\ cursor' = 1
    /\ response' = Ok /\ UNCHANGED columns

EnterNothing ==
    /\ ~active /\ line = <<>> /\ rendered = <<>>
    /\ ResetList
    /\ cursor' = Cursor
    /\ response' = Ok /\ UNCHANGED <<columns, content, line>>

BackspaceInLine ==
    /\ line # <<>>
    /\ IF Cursor >= 2 THEN line' = Without(Cursor - 1) /\ cursor' = Cursor - 1
                      ELSE line' = line /\ cursor' = Cursor
    /\ UpdatedList(rendered, line')
    /\ response' = Ok /\ UNCHANGED <<columns, content>>

BackspaceToLine ==
    /\ line = <<>> /\ rendered # <<>>
    /\ line' = Last(rendered) /\ cursor' = Len(Last(rendered)) + 1
    /\ PoppedLine
    /\ UpdatedList(rendered', line')
    /\ response' = Ok /\ UNCHANGED columns

Delete ==
    /\ IF Cursor <= Len(line) THEN line' = Without(Cursor) ELSE line' = line
    /\ cursor' = Cursor
    /\ UpdatedList(rendered, line')
    /\ response' = Ok /\ UNCHANGED <<columns, content>>

Left ==
    /\ cursor' = Max({Cursor - 1, 1})
    /\ response' = Ok /\ UNCHANGED <<columns, content, line, list>>

Right ==
    /\ cursor' = Min({Cursor + 1, Len(line) + 1})
    /\ response' = Ok /\ UNCHANGED <<columns, content, line, list>>

\* Screen::PutChar gives the arrows to the input only while the list is open.
Up ==
    /\ active
    /\ selected' = IF selected > 0 THEN selected - 1 ELSE Len(items) - 1
    /\ cursor' = Cursor
    /\ response' = Ok /\ UNCHANGED <<columns, content, line, items, active, fileMode>>

Down ==
    /\ active
    /\ selected' = (selected + 1) % Len(items)
    /\ cursor' = Cursor
    /\ response' = Ok /\ UNCHANGED <<columns, content, line, items, active, fileMode>>

\* ESC closes the list, drops the line, drops the last line shown, or leaves.
EscapeList ==
    /\ active
    /\ ResetList
    /\ cursor' = Cursor
    /\ response' = Ok /\ UNCHANGED <<columns, content, line>>

EscapeProgram ==
    /\ ~active /\ raw = <<>> /\ line = <<>>
    /\ cursor' = Cursor
    /\ response' = [Ok EXCEPT !.result = "escape"]
    /\ UNCHANGED <<columns, content, line, list>>

EscapeLine ==
    /\ ~active /\ line # <<>>
    /\ line' = <<>> /\ cursor' = 1
    /\ response' = Ok /\ UNCHANGED <<columns, content, list>>

EscapeLastLine ==
    /\ ~active /\ line = <<>> /\ raw # <<>>
    /\ PoppedLine
    /\ cursor' = 1
    /\ response' = Ok /\ UNCHANGED <<columns, line, list>>

\* UpdateSize, called by Screen::HandleResize.
Resize ==
    /\ columns' \in Columns \ {columns}
    /\ IF length # columns' - Padding THEN HoldLines(raw, columns' - Padding)
                                      ELSE UNCHANGED content
    /\ response' = Ok /\ UNCHANGED <<line, cursor, list>>

-----------------------------------------------------------------------------
Init ==
    /\ columns \in Columns
    /\ raw = <<>> /\ rendered = <<>> /\ length = 10
    /\ line = <<>> /\ cursor = 1
    /\ items = <<>> /\ active = FALSE /\ fileMode = FALSE /\ selected = 0
    /\ response = Ok

Enter  == Accept \/ SendMessage \/ SendCommand \/ EnterLine \/ EnterNothing
Escape == EscapeList \/ EscapeProgram \/ EscapeLine \/ EscapeLastLine

Next ==
    \/ \E c \in Chars : Type(c)
    \/ Enter
    \/ BackspaceInLine
    \/ BackspaceToLine
    \/ Delete
    \/ Left
    \/ Right
    \/ Up
    \/ Down
    \/ Escape
    \/ Resize

Spec == Init /\ [][Next]_vars

-----------------------------------------------------------------------------
(* Properties *)

\* The lines that are shown are the lines that were typed, cut to the width of
\* the window, whatever was entered, taken back or resized in between; so the
\* last line shown always ends the last line typed, and PopBackInputLine never
\* has to guess where to cut it.
ShownAsTyped ==
    /\ rendered = Render(raw, length)
    /\ raw # <<>> => length = columns - Padding
    /\ raw # <<>> => IsSuffix(Last(rendered), Last(raw))

\* An open list offers what fits the line as it is now.
ListFitsLine == active => items = Suggestions(rendered, line)

\* The highlighted suggestion is among those drawn, when there is room for the
\* list.
HighlightDrawn ==
    active /\ AnchorY >= MaxVisible => selected \in FirstShown..FirstShown + Shown - 1

\* To the user this is one sequence of characters: all that were typed are sent, in
\* their order, keys change them at the cursor only, and cutting lines, taking them
\* back and resizing never change them.  It does not say that the message is sent
\* as typed: line breaks are not among these characters.  PutChar joins the lines
\* as they are shown (lines 83-93), so that a line wider than the window is sent
\* with newlines where the width cut it, and other ones after a resize; and a piece
\* taken back by Backspace stays a line of its own when it is entered again.
Words == {Commands[i] : i \in DOMAIN Commands} \cup {<<" ">> \o Files[i].path : i \in DOMAIN Files}

Text == INSTANCE TextField WITH
    text   <- FlattenSeq(raw) \o line,
    before <- Len(FlattenSeq(raw)) + cursor - 1,
    sent   <- response.text

OneText == Text!Spec
=============================================================================
