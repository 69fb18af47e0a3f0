----------------------------- MODULE Revisions -----------------------------
(***************************************************************************)
(* What /undo and /redo promise: the states of the project directory form  *)
(* a line, a change cuts off what was undone and appends a state, undo and *)
(* redo move along the line, and nothing else changes it.                  *)
(***************************************************************************)
EXTENDS Integers, Sequences

VARIABLES
    revisions,  \* the states, oldest first
    position    \* which one is the present

Init == Len(revisions) = 1 /\ position = 1

\* A tool call brings any new present.
Change ==
    /\ position > 0
    /\ position' = position + 1
    /\ Len(revisions') = position'
    /\ SubSeq(revisions', 1, position) = SubSeq(revisions, 1, position)

Undo ==
    /\ position > 1
    /\ position' = position - 1
    /\ UNCHANGED revisions

Redo ==
    /\ position < Len(revisions)
    /\ position' = position + 1
    /\ UNCHANGED revisions

\* The line is given up: a new client begins one, or nothing is promised any
\* more (the empty line).
Forget ==
    \/ position > 0 /\ revisions' = <<revisions[position]>> /\ position' = 1
    \/ revisions' = <<>> /\ position' = 0

Lost == revisions = <<>> /\ UNCHANGED <<revisions, position>>

Next == Change \/ Undo \/ Redo \/ Forget \/ Lost

Spec == Init /\ [][Next]_<<revisions, position>>

=============================================================================
