-------------------------------- MODULE MCSerialWriter --------------------------------
(* Small instances of SerialWriter for TLC. *)
EXTENDS SerialWriter, TLC

CONSTANTS c1, c2
TwoCallers == {c1, c2}

\* c1 sends frames and paints, as a mode does; c2 sends and drops, as a switch of ports or the
\* port watcher beside it.
Roles == \A c \in Callers :
  call[c].at = "idle" => call'[c].op \in {"none", "send", IF c = c1 THEN "paint" ELSE "drop"}
=======================================================================================
