--------------------------- MODULE MCToolHistory ---------------------------
(***************************************************************************)
(* The instances of ToolHistory that TLC checks: two names at the top of   *)
(* the project directory, and one name in the first of them.               *)
(***************************************************************************)
EXTENDS ToolHistory

MCPaths == {<<"x">>, <<"y">>, <<"x", "z">>}

\* Every tree with texts of at most one letter.
MCTrees ==
    {t \in [MCPaths -> {<<>>, <<"a">>, Nothing, Directory}] : IsTree(t)}

=============================================================================
