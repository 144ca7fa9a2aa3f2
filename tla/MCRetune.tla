------------------------------ MODULE MCRetune ------------------------------
(***************************************************************************)
(* Instances of Retune for TLC.                                            *)
(***************************************************************************)
EXTENDS Retune, TLC

CONSTANTS solid, effect, warm, cold, main, popup, transaction

Alike == Permutations(Looks) \cup Permutations(Kinds)

=============================================================================
