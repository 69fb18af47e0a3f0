--------------------------- MODULE MCInputEditor ----------------------------
(***************************************************************************)
(* The instances of InputEditor that TLC checks.  The widths leave 0, 2    *)
(* and 3 columns for the text.                                             *)
(***************************************************************************)
EXTENDS InputEditor

MCCommands == << <<"/", "a">>, <<"/", "a", "a">>, <<"/", "a", "/">> >>

File(name, path) == [name |-> name, path |-> path]

MCFiles == <<File(<<"a">>, <<"/", "a">>), File(<<"a", "a">>, <<"a", "/">>)>>
=============================================================================
