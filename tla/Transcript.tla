----------------------------- MODULE Transcript -----------------------------
(***************************************************************************)
(* The transcript above the input: ScreenTextContent (psittacula-tui/src/  *)
(* screen_text_content.cpp), PanelText (panel_text.cpp) and what           *)
(* Screen::HandleResize and Screen::DrawFrame (screen.cpp) do to them.     *)
(*                                                                         *)
(* The query thread adds text in pieces while the UI thread scrolls,       *)
(* resizes and hides reasoning; the screen's mutex makes each of these one *)
(* step.  The lines shown are kept: text that arrives renders only what    *)
(* changed, any other operation renders everything.                        *)
(***************************************************************************)
EXTENDS LineSplitter, SequencesExt

CONSTANTS
    Chars,     \* characters of texts
    Pieces,    \* texts that are added
    Origins,   \* TextOrigin: "normal", "reasoning", ...
    Windows,   \* sizes of the window: <<columns, rows>>
    MaxInput,  \* bound: lines of the input panel
    MaxText    \* bound: characters held

ASSUME TranscriptAssumption ==
    /\ Pieces \subseteq Seq(Chars) /\ "normal" \in Origins
    /\ Windows \subseteq (Nat \ {0}) \X (Nat \ (0..3)) /\ Windows # {}
    /\ MaxInput \in Nat \ {0} /\ MaxText \in Nat

VARIABLES
    window,      \* m_props of the screen
    input,       \* lines of the input panel, the one being written included
    height,      \* m_height of the panel
    text,        \* m_text: what was said before the origin last changed
    buffer,      \* m_buffer: what is being said
    rendered,    \* m_text_rendered
    length,      \* m_text_line_max_length
    show,        \* m_show_reasoning
    shift        \* m_view_shift

said == <<text, buffer>>
vars == <<window, input, height, said, rendered, length, show, shift>>

Columns == window[1]
Rows    == window[2]

\* kTextPaddingLeft + kTextPaddingRight
LineLength == Max({Columns - 4, 1})

\* Lines of the panel that hold text.
TextHeight == IF height > 2 THEN height - 2 ELSE 1

\* A plausible mistake: the oldest line may leave the panel.
MaxShiftAll == Len(rendered)

MaxShift == Max({0, Len(rendered) - TextHeight + 1})

Line(txt, origin, dirty) == [txt |-> txt, origin |-> origin, dirty |-> dirty]

-----------------------------------------------------------------------------
(* Rendering *)

Marker == <<"[Reasoning]">>

Hidden(origin, shown) == origin = "reasoning" /\ ~shown

\* A plausible mistake: reasoning is hidden in saved text only.
LinesOfHidingSaved(line, width, shown, dirty) ==
    LET lines == IF Hidden(line.origin, shown) /\ ~dirty THEN <<Marker>>
                 ELSE SplitText(line.txt, width)
    IN  [i \in DOMAIN lines |-> Line(lines[i], line.origin, dirty)]

\* The lines one saved text, or the buffer, is shown in.  The marker is one line:
\* of saved text it is, while the buffer's is cut to the width like any text, so
\* that a narrow window shows it in several lines
\* (screen_text_content.cpp 184-185, 237-238).
LinesOf(line, width, shown, dirty) ==
    LET lines == IF Hidden(line.origin, shown) THEN <<Marker>> ELSE SplitText(line.txt, width)
    IN  [i \in DOMAIN lines |-> Line(lines[i], line.origin, dirty)]

Saved(lines, width, shown) ==
    FlattenSeq([i \in DOMAIN lines |-> LinesOf(lines[i], width, shown, FALSE)])

\* RenderText
Full(lines, last, width, shown) ==
    Saved(lines, width, shown) \o LinesOf(last, width, shown, TRUE)

\* The lines that are dirty, or those that are not.
Only(lines, dirty) ==
    FlattenSeq([i \in DOMAIN lines |-> IF lines[i].dirty = dirty THEN <<lines[i]>> ELSE <<>>])

\* A plausible mistake: the lines of the buffer stay when they are rendered
\* again.
RefreshAll(lines, last) ==
    rendered \o Saved(Only(lines, TRUE), length, show) \o LinesOf(last, length, show, TRUE)

\* RefreshText keeps the lines of saved text, and renders text saved since and
\* the buffer.
Refresh(lines, last) ==
    Only(rendered, FALSE)
        \o Saved(Only(lines, TRUE), length, show) \o LinesOf(last, length, show, TRUE)

Clean(lines) == [i \in DOMAIN lines |-> [lines[i] EXCEPT !.dirty = FALSE]]

\* Text of another origin ends the buffer, which is saved.
Flushed(origin) ==
    IF origin = buffer.origin THEN [lines |-> text, last |-> buffer]
    ELSE [lines |-> Append(text, Line(buffer.txt, buffer.origin, TRUE)),
          last  |-> Line(<<>>, origin, TRUE)]

-----------------------------------------------------------------------------
(* Operations *)

Held == FoldSeq(LAMBDA l, n : Len(l.txt) + n, Len(buffer.txt), text)

AddText ==
    \E piece \in Pieces, origin \in Origins :
        LET flushed == Flushed(origin)
            last    == [flushed.last EXCEPT !.txt = @ \o piece]
        IN  /\ Held + Len(piece) <= MaxText /\ Len(text) < MaxText
            /\ text' = Clean(flushed.lines)
            /\ buffer' = last
            /\ rendered' = Refresh(flushed.lines, last)
            /\ shift' = 0
            /\ UNCHANGED <<window, input, height, length, show>>

\* /clear: the buffer keeps its origin.
Clear ==
    /\ text' = <<>> /\ buffer' = [buffer EXCEPT !.txt = <<>>]
    /\ rendered' = <<>>
    /\ shift' = 0
    /\ UNCHANGED <<window, input, height, length, show>>

\* DrawFrame gives the panel what the input leaves, if that is anything.
Framed(rows, lines, old) == IF rows - lines - 2 > 0 THEN rows - lines - 2 ELSE old

SetShowReasoning ==
    /\ show' = ~show
    /\ rendered' = Full(text, buffer, length, show')
    /\ height' = Framed(Rows, input, height)
    /\ UNCHANGED <<window, input, said, length, shift>>

\* The input panel grows and shrinks with the message being written.
InputChanges ==
    /\ input' \in 1..MaxInput \ {input}
    /\ height' = Framed(Rows, input', height)
    /\ UNCHANGED <<window, said, rendered, length, show, shift>>

\* HandleResize: UpdateSize measures the panel as high as the window while it
\* limits the shift, then the frame is drawn.
Resize ==
    /\ window' \in Windows \ {window}
    /\ length' = LineLength'
    /\ rendered' = IF length' = length THEN rendered ELSE Full(text, buffer, length', show)
    /\ shift' = Min({shift, Max({0, Len(rendered') - Max({1, Rows' - 2}) + 1})})
    /\ height' = Framed(Rows', input, Rows')
    /\ UNCHANGED <<input, said, show>>

ScrollUp(lines) ==
    /\ shift' = IF shift >= MaxShift THEN shift ELSE Min({shift + lines, MaxShift})
    /\ UNCHANGED <<window, input, height, said, rendered, length, show>>

ScrollDown(lines) ==
    /\ shift' = Max({0, shift - lines})
    /\ UNCHANGED <<window, input, height, said, rendered, length, show>>

Up       == ScrollUp(1)
Down     == ScrollDown(1)
PageUp   == ScrollUp(TextHeight)
PageDown == ScrollDown(TextHeight)

\* GetTextWindowForHeight: the lines on the screen.  A shift beyond the oldest
\* line is limited here only.
Shown ==
    LET last == Len(rendered) - Min({shift, MaxShift})
    IN  Max({1, last - TextHeight + 1})..last

-----------------------------------------------------------------------------
Empty == Line(<<>>, "normal", TRUE)

\* Show measures the window, draws the frame and renders nothing yet said.
Init ==
    /\ window \in Windows /\ input = 1
    /\ height = Framed(Rows, 1, 1)
    /\ text = <<>> /\ buffer = Empty
    /\ length = LineLength /\ show = TRUE
    /\ rendered = LinesOf(Empty, length, show, TRUE)
    /\ shift = 0

Next ==
    \/ AddText
    \/ Clear
    \/ SetShowReasoning
    \/ InputChanges
    \/ Resize
    \/ Up
    \/ Down
    \/ PageUp
    \/ PageDown

Spec == Init /\ [][Next]_vars

-----------------------------------------------------------------------------
(* Properties *)

\* Rendering only what changed gives what rendering everything would: no line
\* is lost, doubled, out of order or of another width than the window's,
\* whatever text arrived between resizing, hiding reasoning and clearing.
\* (Cleared, the panel shows nothing until it is rendered or text is added.)
LinesAreTheText ==
    \/ rendered = Full(text, buffer, LineLength, show)
    \/ rendered = <<>> /\ text = <<>> /\ buffer.txt = <<>>

\* What was reasoned is not on the screen while reasoning is hidden, also when
\* it arrives later or another origin follows it.
ReasoningHidden ==
    ~show => \A i \in DOMAIN rendered :
                 rendered[i].origin = "reasoning" => rendered[i].txt = Marker

\* The newest text is on the screen when it arrives, however far the user has
\* scrolled, and scrolling never leaves the panel empty, when two lines or more
\* fit into it.  (With room for one line the oldest shift shows none.)
NewestInView ==
    [][height' > 3 /\ rendered' # <<>> =>
           /\ Shown' # {}
           /\ said' # said => Len(rendered') \in Shown']_vars
=============================================================================
