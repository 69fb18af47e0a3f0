---------------------------- MODULE LineSplitter ----------------------------
(***************************************************************************)
(* TextSplitter::SplitText (psittacula-tui/src/text_splitter.cpp): the     *)
(* lines a text is shown in at a width.  A text is a sequence of           *)
(* characters, "nl" is the newline.                                        *)
(***************************************************************************)
EXTENDS Integers, Sequences, FiniteSets, FiniteSetsExt

BreakChars == {" ", "-", "/", "\\"}

\* The last character of the line that begins at i: the line ends before a
\* newline met within the width, at the end of the text, after the last
\* character that may end a line, or where the width is used up.
LineEnd(text, i, width) ==
    LET reach   == {j \in i..Len(text) : j < i + width
                                         /\ \A k \in i..j : text[k] # "nl"}
        end     == Max(reach)
        whole   == end = Len(text) \/ end < i + width - 1
        breaks  == {k \in reach : text[k] \in BreakChars}
    IN  IF whole \/ breaks = {} THEN end ELSE Max(breaks)

SplitText(text, width) ==
    LET lines[i \in 1..Len(text) + 1] ==
            IF i > Len(text) THEN <<>>
            ELSE IF text[i] = "nl" THEN lines[i + 1]
            ELSE LET end == LineEnd(text, i, width)
                 IN  <<SubSeq(text, i, end)>> \o lines[end + 1]
    IN  IF width <= 0 \/ text = <<>> THEN <<text>> ELSE lines[1]
=============================================================================
