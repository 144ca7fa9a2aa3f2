---------------------------------- MODULE Settings ----------------------------------
(***************************************************************************)
(* What LumaSync's persisted settings promise their readers, whoever       *)
(* writes them: one value per key, each accepted write changes one key and *)
(* builds on all that was accepted before it, a crash or a refused write   *)
(* changes nothing, and a damaged file costs at most the newest writes.    *)
(* ShellState, the store and the windows that write it, implements this.   *)
(***************************************************************************)
EXTENDS Naturals

CONSTANTS
  Keys,    \* the top-level keys
  Nested,  \* those whose value is edited rather than replaced
  Writes   \* the writes; a value is the set of writes it shows

VARIABLES
  settings,  \* what the next reader is answered
  backup,    \* what a reader would be answered had the newest writes been lost
  running

vars == <<settings, backup, running>>

Nothing == [k \in Keys |-> {}]

Init == settings = Nothing /\ backup = Nothing /\ running = FALSE

\* The backup may be brought up to what the settings were, at any time.
Rotates == backup' \in {backup, settings}

\* Nothing goes back to an older value: writes are numbered as they are made.
Replace(k, w) == /\ \A old \in settings[k] : old < w
                 /\ settings' = [settings EXCEPT ![k] = {w}]
Edit(k, w)    == settings' = [settings EXCEPT ![k] = @ \cup {w}]

Accept(k, w) == /\ running' = TRUE /\ Rotates
                /\ IF k \in Nested THEN Edit(k, w) ELSE Replace(k, w)

\* A process starts, reads, migrates, stops, or fails to write.
Housekeep == /\ running' \in BOOLEAN /\ Rotates /\ UNCHANGED settings

\* The file is damaged or deleted while no process runs.
Lose == /\ ~running /\ settings' \in {backup, Nothing} /\ UNCHANGED <<backup, running>>

Next == \/ \E k \in Keys, w \in Writes : Accept(k, w)
        \/ Housekeep
        \/ Lose

Spec == Init /\ [][Next]_vars

=====================================================================================
