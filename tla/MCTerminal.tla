----------------------------- MODULE MCTerminal -----------------------------
(***************************************************************************)
(* The instances of Terminal that TLC checks.                              *)
(***************************************************************************)
EXTENDS Terminal

=============================================================================
