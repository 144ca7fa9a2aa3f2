-------------------------------- MODULE MCShellState --------------------------------
(* Small instances of ShellState for TLC. *)
EXTENDS ShellState
=====================================================================================
