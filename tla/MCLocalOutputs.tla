------------------------------- MODULE MCLocalOutputs -------------------------------
(* Small instances of LocalOutputs for TLC. *)
EXTENDS LocalOutputs

\* Ports are interchangeable, and so are initial states that differ by their names
\* alone: of those with one cable in, one is enough.
First == CHOOSE p \in Ports : TRUE
InitUpToNames == Init /\ (plugged # {} => First \in plugged)
FairSpecUpToNames == InitUpToNames /\ [][Next]_vars /\ Fairness
=====================================================================================
