------------------------- MODULE MCConfirmDialogue -------------------------
(***************************************************************************)
(* The instances of ConfirmDialogue that TLC checks.                       *)
(***************************************************************************)
EXTENDS ConfirmDialogue

=============================================================================
