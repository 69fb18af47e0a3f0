---------------------------- MODULE MCRunCommand ----------------------------
(***************************************************************************)
(* The instances of RunCommand that TLC checks: the pipe for the output    *)
(* holds more than the result may.                                         *)
(***************************************************************************)
EXTENDS RunCommand

MCPipeSize == [s \in {"out", "err", "pty", "in"} |-> IF s = "out" THEN 2 ELSE 1]

=============================================================================
