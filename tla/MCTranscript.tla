---------------------------- MODULE MCTranscript ----------------------------
(***************************************************************************)
(* The instance of Transcript that TLC checks.  The windows leave 3 and 5  *)
(* columns for the text; in the low one the input can cover the panel.     *)
(***************************************************************************)
EXTENDS Transcript

MCPieces  == {<<"a", " ">>, <<"a", "a", "a">>, <<"nl", "a">>}
MCWindows == {<<7, 8>>, <<9, 8>>, <<7, 7>>, <<7, 4>>}
=============================================================================
