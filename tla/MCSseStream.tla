---------------------------- MODULE MCSseStream ----------------------------
(***************************************************************************)
(* The instances of SseStream that TLC checks: every reply of up to three  *)
(* lines out of a few, and of four lines when the first begins a call.     *)
(***************************************************************************)
EXTENDS SseStream

Data(think, text, calls) == [kind |-> "data", think |-> think, text |-> text, calls |-> calls]
Delta(index, name, args) == [index |-> index, name |-> name, args |-> args]

\* read takes two pieces of arguments, list one.
MCCallLength == [n \in {"read", "list"} |-> IF n = "read" THEN 2 ELSE 1]

MCLines == {
    [kind |-> "other"],
    [kind |-> "error"],
    Data(<<"why">>, <<"so">>, <<>>),
    Data(<<>>, <<>>, <<Delta(1, "read", <<>>)>>),
    Data(<<>>, <<>>, <<Delta(1, "read", << <<"read", 1>> >>)>>),
    Data(<<>>, <<>>, <<Delta(1, NoName, << <<"read", 1>> >>)>>),
    Data(<<>>, <<>>, <<Delta(1, NoName, << <<"read", 2>> >>)>>),
    Data(<<>>, <<"so">>, <<Delta(1, NoName, << <<"read", 2>> >>), Delta(2, "list", << <<"list", 1>> >>)>>)}

MCReplies ==
    UNION {[1..n -> MCLines] : n \in 1..3} \cup
    {<<Data(<<>>, <<>>, <<Delta(1, "read", <<>>)>>)>> \o r : r \in [1..3 -> MCLines]}

=============================================================================
