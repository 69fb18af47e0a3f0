----------------------------- MODULE TextField ------------------------------
(***************************************************************************)
(* What the user may rely on while writing a message: one text with a      *)
(* cursor.  Keys insert and delete one character at the cursor, ESC drops  *)
(* the end of the text, an accepted suggestion replaces its end, and the   *)
(* whole text is sent at once.                                             *)
(*                                                                         *)
(* The text is its characters.  Where its lines end is left open: it is    *)
(* sent in some lines, and those need not be the lines that were entered.  *)
(***************************************************************************)
EXTENDS Integers, SequencesExt

CONSTANTS Chars,  \* what can be typed
          Words   \* what suggestions insert

VARIABLES text,   \* what was written and not sent
          before, \* characters before the cursor
          sent    \* the lines the last key sent

vars == <<text, before, sent>>

Start(n) == SubSeq(text, 1, n)
Rest(n)  == SubSeq(text, n + 1, Len(text))

Init == text = <<>> /\ before = 0 /\ sent = <<>>

Edit(newText, newBefore) == text' = newText /\ before' = newBefore /\ sent' = <<>>

Insert == \E c \in Chars : Edit(Start(before) \o <<c>> \o Rest(before), before + 1)

DeleteBefore == before > 0 /\ Edit(Start(before - 1) \o Rest(before), before - 1)

DeleteAfter == before < Len(text) /\ Edit(Start(before) \o Rest(before + 1), before)

Move == \E n \in {before - 1, before, before + 1, Len(text)} :
            n \in 0..Len(text) /\ Edit(text, n)

DropEnd == \E n \in 0..Len(text) - 1 : Edit(Start(n), n)

Complete == \E n \in 0..Len(text), w \in Words : Edit(Start(n) \o w, n + Len(w))

\* Whatever the lines: together they are the text.
Send == text # <<>> /\ text' = <<>> /\ before' = 0 /\ FlattenSeq(sent') = text

Next == Insert \/ DeleteBefore \/ DeleteAfter \/ Move \/ DropEnd \/ Complete \/ Send

Spec == Init /\ [][Next]_vars
=============================================================================
