--------------------------- MODULE MCChatSession ---------------------------
(***************************************************************************)
(* The instances of ChatSession that TLC checks.                           *)
(***************************************************************************)
EXTENDS ChatSession

=============================================================================
