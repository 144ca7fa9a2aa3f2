------------------------------- MODULE Retune -------------------------------
(***************************************************************************)
(* A drag on a lighting control: the windows' coalescers (TypeScript), the *)
(* tuning cell that hands a retune to the running mode, the one snapshot   *)
(* every window mirrors, and the settled save (Rust).                      *)
(*                                                                         *)
(* A retune and a transaction share one FIFO turn. A retune sends while it *)
(* holds the turn; a transaction takes it twice, to close the cell before  *)
(* it touches the outputs and to commit what runs after it. What a retune  *)
(* does after its send (marking what the mode carries, publishing, asking  *)
(* for the save) is done without the turn.                                 *)
(*                                                                         *)
(* A kind that may be absent (Off, nothing accepting) and a value that may *)
(* be absent (nothing pending) are sets of at most one element.            *)
(***************************************************************************)
EXTENDS Naturals, Sequences, FiniteSets

CONSTANTS
  Kinds,       \* the lit kinds
  Looks,       \* a payload without its brightness
  Levels,      \* brightness
  Windows,     \* the windows that hold a coalescer
  Main,        \* the main window; any other is the popup
  Tx,          \* the transaction, as a holder of the turn
  MaxRetunes,  \* bound: values committed in the windows
  MaxChoices,  \* bound: choices
  MaxActs      \* bound: both together, and the popups opened

ASSUME KindsAndValues == Kinds # {} /\ Looks # {} /\ Levels # {}
ASSUME WindowsAndTurn == Main \in Windows /\ Tx \notin Windows
ASSUME BoundsAreNumbers == MaxRetunes \in Nat /\ MaxChoices \in Nat /\ MaxActs \in Nat

\* What a retune carries, and a payload at the brightness it runs at.
Tunings == [kind: Kinds, look: Looks, level: Levels]

\* No element, or one.
AtMostOne(S) == {{}} \cup {{x} : x \in S}

KindOf(m) == {t.kind : t \in m}

VARIABLES
  stored,     \* TuningInner.stored: the newest look of each kind, one brightness, the generation
  accepting,  \* TuningInner.accepting: the kind a retune reaches
  awaiting,   \* TuningInner.awaiting: the kind a transaction brings up
  applied,    \* TuningInner.applied: the generation the mode carries, 0 for none
  turn,       \* TuningCell.turn: its holder and then who waits for it
  retuning,   \* the retune_lighting call of each window
  ticket,     \* the newest ticket
  intent,     \* the kind asked for
  waiting,    \* choices waiting for the transition lock
  tx,         \* the choice that holds it
  output,     \* what the outputs carry
  mode,       \* LightingRuntimeOwner.active_mode
  cell,       \* LightingSnapshotCell.snapshot
  trailing,   \* CellState.trailing_scheduled
  spaced,     \* CellState.last_coalesced_emit is set
  news,       \* snapshots on their way to each window, in no order
  stage,      \* whether a window is closed, listens, or has asked for its seed too
  held,       \* useLightingRuntime: the snapshot a window holds
  asked,      \* useLightingModeOrchestrator: the choice in flight, its kind and ticket
  inFlight,   \* the coalescer of each window
  pending,
  lastSent,
  scheduled,  \* TuningCell.persist_scheduled, set while a save sleeps
  awake,      \* saves that have woken and not yet written
  saved,      \* lightingMode on disk
  pushes,     \* values committed so far
  choices     \* choices made so far

tuningVars == <<stored, accepting, awaiting, applied>>
transactionVars == <<ticket, intent, waiting, tx>>
runtimeVars == <<output, mode>>
snapshotVars == <<cell, trailing, spaced, news>>
windowVars == <<stage, held, asked>>
coalescerVars == <<inFlight, pending, lastSent>>
savingVars == <<scheduled, awake, saved>>
bounds == <<pushes, choices>>
vars == <<tuningVars, turn, retuning, transactionVars, runtimeVars, snapshotVars, windowVars,
          coalescerVars, savingVars, bounds>>

-----------------------------------------------------------------------------
\* The shapes of the state.

Stored == [look: [Kinds -> Looks], level: Levels, generation: Nat \ {0}]
Snapshots == [revision: Nat, mode: AtMostOne(Tunings), level: Levels]
News == [snapshot: Snapshots, answers: Nat]
Choices == [from: AtMostOne(Windows), ticket: Nat]
RetuneStages == {"none", "called", "queued", "sending", "sent", "counted", "deferred", "answered"}
TxStages == {"idle", "closing", "closed", "current", "read", "committing", "committed"}
Endings == {"applied", "unchanged", "unsaved", "refused", "superseded"}

NoSnapshot == [revision |-> 0, mode |-> {}, level |-> CHOOSE level \in Levels : TRUE]

NoRetune == [at |-> "none", tuning |-> {}, to |-> {}]

MayAct == pushes + choices + Cardinality({w \in Windows \ {Main} : stage[w] # "closed"}) < MaxActs

Free == <<>>
Holds(actor) == turn # Free /\ Head(turn) = actor
Takes(actor) == turn' = Append(turn, actor)
LetsGo == turn' = Tail(turn)

\* StoredTuning::stamped: a payload at the shared brightness.
Stamped(s, k) == [kind |-> k, look |-> s.look[k], level |-> s.level]

-----------------------------------------------------------------------------
\* Something runs, or nothing does; the main window mirrors it, and no popup is open.

Init ==
  /\ stored \in [look: [Kinds -> Looks], level: Levels, generation: {1}]
  /\ accepting \in AtMostOne(Kinds)
  /\ awaiting = {}
  /\ applied = 1
  /\ turn = Free
  /\ retuning = [w \in Windows |-> NoRetune]
  /\ ticket = 1
  /\ intent = [kind |-> accepting, saves |-> FALSE]
  /\ waiting = <<>>
  /\ tx = [at |-> "idle", kind |-> accepting, saves |-> FALSE, from |-> {}, ticket |-> 1, payload |-> {},
           seen |-> 1, carried |-> TRUE, ending |-> "applied"]
  /\ output = {Stamped(stored, k) : k \in accepting}
  /\ mode = output
  /\ cell = [revision |-> 1, mode |-> output, level |-> stored.level]
  /\ trailing = FALSE
  /\ spaced = FALSE
  /\ news = [w \in Windows |-> {}]
  /\ stage = [w \in Windows |-> IF w = Main THEN "seeded" ELSE "closed"]
  /\ held = [w \in Windows |-> IF stage[w] = "seeded" THEN cell ELSE NoSnapshot]
  /\ asked = {}
  /\ inFlight = [w \in Windows |-> {}]
  /\ pending = [w \in Windows |-> {}]
  /\ lastSent = [w \in Windows |-> {}]
  /\ scheduled = FALSE
  /\ awake = 0
  /\ saved = [kind |-> accepting, look |-> stored.look, level |-> stored.level]
  /\ pushes = 0
  /\ choices = 0

-----------------------------------------------------------------------------
\* The snapshot cell. An emit leaves after the lock: messages to a window keep no order.

Emitted(snapshot) ==
  [w \in Windows |->
     IF stage[w] = "closed" THEN news[w]
     ELSE news[w] \cup {[snapshot |-> snapshot, answers |-> 0]}]

\* LightingSnapshotCell::publish, with what the command answers its caller.
Publish(m, level) ==
  /\ cell' = [revision |-> cell.revision + 1, mode |-> m, level |-> level]
  /\ news' = Emitted(cell')
  /\ UNCHANGED <<trailing, spaced>>

\* A change within the interval is left to the next one to announce.
PublishCoalesced_Untrailed(m, level) ==
  \/ /\ trailing \/ spaced
     /\ cell' = [cell EXCEPT !.mode = m, !.level = level]
     /\ UNCHANGED <<trailing, spaced, news>>
  \/ /\ ~trailing
     /\ cell' = [revision |-> cell.revision + 1, mode |-> m, level |-> level]
     /\ spaced' = TRUE
     /\ news' = Emitted(cell')
     /\ UNCHANGED trailing

\* LightingSnapshotCell::publish_coalesced. The change lands at once; it is announced by the emit
\* already held back, by one held back for it, or now when the interval has passed.
PublishCoalesced(m, level) ==
  \/ /\ trailing
     /\ cell' = [cell EXCEPT !.mode = m, !.level = level]
     /\ UNCHANGED <<trailing, spaced, news>>
  \/ /\ ~trailing /\ spaced
     /\ cell' = [cell EXCEPT !.mode = m, !.level = level]
     /\ trailing' = TRUE
     /\ UNCHANGED <<spaced, news>>
  \/ /\ ~trailing
     /\ cell' = [revision |-> cell.revision + 1, mode |-> m, level |-> level]
     /\ spaced' = TRUE
     /\ news' = Emitted(cell')
     /\ UNCHANGED trailing

\* flush_trailing: the emit held back carries the newest change.
FlushTrailing ==
  /\ trailing
  /\ trailing' = FALSE
  /\ spaced' = TRUE
  /\ cell' = [cell EXCEPT !.revision = @ + 1]
  /\ news' = Emitted(cell')
  /\ UNCHANGED <<tuningVars, turn, retuning, transactionVars, runtimeVars, windowVars, coalescerVars,
                 savingVars, bounds>>

-----------------------------------------------------------------------------
\* A window: what it shows, and its coalescer.

\* What the window's controls show runs, at the shared brightness.
Shows(snapshot) == {[t EXCEPT !.level = snapshot.level] : t \in snapshot.mode}

\* The kind a nudge is a retune of: in the main window the newest choice's while it is in flight.
ShownKind(w) ==
  IF w = Main /\ asked # {} THEN UNION {c.kind : c \in asked} ELSE KindOf(held[w].mode)

\* The coalescer's start: the value goes, as the one in flight and the last one sent.
StartSend(w, t) ==
  /\ inFlight' = [inFlight EXCEPT ![w] = {t}]
  /\ lastSent' = [lastSent EXCEPT ![w] = {t}]
  /\ retuning' = [retuning EXCEPT ![w] = [at |-> "called", tuning |-> {t}, to |-> {}]]

\* The coalescer's push: after the one in flight, or not at all when it is the value that went last.
Push(w, t) ==
  /\ pushes < MaxRetunes
  /\ MayAct
  /\ ShownKind(w) = {t.kind}
  /\ \/ /\ inFlight[w] # {}
        /\ pending' = [pending EXCEPT ![w] = {t} \ inFlight[w]]
        /\ UNCHANGED <<inFlight, lastSent, retuning>>
     \/ /\ inFlight[w] = {}
        /\ lastSent[w] # {t}
        /\ StartSend(w, t)
        /\ UNCHANGED pending
  /\ pushes' = pushes + 1
  /\ UNCHANGED <<tuningVars, turn, transactionVars, runtimeVars, snapshotVars, windowVars, savingVars,
                 choices>>

\* The answer of a retune: the value waiting goes next.
Answered(w) ==
  /\ retuning[w].at = "answered"
  /\ \/ \E t \in pending[w] :
          /\ StartSend(w, t)
          /\ pending' = [pending EXCEPT ![w] = {}]
     \/ /\ pending[w] = {}
        /\ inFlight' = [inFlight EXCEPT ![w] = {}]
        /\ retuning' = [retuning EXCEPT ![w] = NoRetune]
        /\ UNCHANGED <<pending, lastSent>>
  /\ UNCHANGED <<tuningVars, turn, transactionVars, runtimeVars, snapshotVars, windowVars, savingVars,
                 bounds>>

\* A window mounts: it asks to listen, then for its seed.
Open(w) ==
  /\ stage[w] = "closed"
  /\ MayAct
  /\ stage' = [stage EXCEPT ![w] = "listening"]
  /\ UNCHANGED <<tuningVars, turn, retuning, transactionVars, runtimeVars, snapshotVars, held, asked,
                 coalescerVars, savingVars, bounds>>

\* get_lighting_runtime reads the cell for a window that listens.
Seed(w) ==
  /\ stage[w] = "listening"
  /\ stage' = [stage EXCEPT ![w] = "seeded"]
  /\ news' = [news EXCEPT ![w] = @ \cup {[snapshot |-> cell, answers |-> 0]}]
  /\ UNCHANGED <<tuningVars, turn, retuning, transactionVars, runtimeVars, cell, trailing, spaced, held,
                 asked, coalescerVars, savingVars, bounds>>

\* adopt: a snapshot older than the one held is dropped.
Adopts(snapshot, before) == snapshot.revision > before.revision

\* An event, the seed or a choice's answer arrives. The coalescer observes what the window then shows,
\* and the main window's newest choice is no longer in flight once it is answered. A message that will
\* be dropped when it arrives and answers no choice is not kept.
Deliver(w, n) ==
  /\ n \in news[w]
  /\ IF Adopts(n.snapshot, held[w])
     THEN /\ held' = [held EXCEPT ![w] = n.snapshot]
          /\ lastSent' = [lastSent EXCEPT ![w] = @ \cap Shows(n.snapshot)]
     ELSE UNCHANGED <<held, lastSent>>
  /\ asked' = {c \in asked : w # Main \/ c.ticket # n.answers}
  /\ news' = [news EXCEPT ![w] = {m \in @ \ {n} : \/ Adopts(m.snapshot, held'[w])
                                                  \/ \E c \in asked : w = Main /\ c.ticket = m.answers}]
  /\ UNCHANGED <<tuningVars, turn, retuning, transactionVars, runtimeVars, cell, trailing, spaced, stage,
                 inFlight, pending, savingVars, bounds>>

-----------------------------------------------------------------------------
\* retune_lighting.

At(w, stages) == retuning[w].at \in stages
Moves(w, to) == retuning' = [retuning EXCEPT ![w].at = to]

\* The call waits for the turn.
RetuneQueues(w) ==
  /\ At(w, {"called"})
  /\ Takes(w)
  /\ Moves(w, "queued")
  /\ UNCHANGED <<tuningVars, transactionVars, runtimeVars, snapshotVars, windowVars, coalescerVars,
                 savingVars, bounds>>

\* The value is stored as the newest of its kind, and its brightness as the shared one when it reaches
\* the mode that runs or the one coming up.
Remember(t) ==
  LET reaches == t.kind \in IF accepting # {} THEN accepting ELSE awaiting
  IN stored' = [look |-> [stored.look EXCEPT ![t.kind] = t.look],
                level |-> IF reaches THEN t.level ELSE stored.level,
                generation |-> stored.generation + 1]

\* With the turn: stored, and then sent with the turn held, or left to the transaction, or to nothing.
RetuneStores(w) ==
  /\ At(w, {"queued"})
  /\ Holds(w)
  /\ \E t \in retuning[w].tuning :
       /\ Remember(t)
       /\ \/ /\ accepting # {}
             /\ retuning' = [retuning EXCEPT ![w].at = "sending", ![w].to = accepting]
             /\ UNCHANGED turn
          \/ /\ accepting = {}
             /\ Moves(w, IF t.kind \in awaiting THEN "deferred" ELSE "answered")
             /\ LetsGo
  /\ UNCHANGED <<accepting, awaiting, applied, transactionVars, runtimeVars, snapshotVars, windowVars,
                 coalescerVars, savingVars, bounds>>

\* Accepting::apply on what accepted then, with the turn: nothing happens when another kind runs.
RetuneSends(w) ==
  /\ At(w, {"sending"})
  /\ Holds(w)
  /\ \E t \in retuning[w].tuning :
       \/ /\ t.kind \in retuning[w].to
          /\ output' = {t}
          /\ Moves(w, "sent")
       \/ /\ t.kind \notin retuning[w].to
          /\ Moves(w, "answered")
          /\ UNCHANGED output
  /\ LetsGo
  /\ UNCHANGED <<tuningVars, transactionVars, mode, snapshotVars, windowVars, coalescerVars, savingVars,
                 bounds>>

\* schedule_persist: one save sleeps at a time.
Schedule == scheduled' = TRUE

\* Without the turn: what runs carries whatever is newest now.
RetuneCounts(w) ==
  /\ At(w, {"sent"})
  /\ applied' = stored.generation
  /\ Moves(w, "counted")
  /\ UNCHANGED <<stored, accepting, awaiting, turn, transactionVars, runtimeVars, snapshotVars, windowVars,
                 coalescerVars, savingVars, bounds>>

\* Without the turn: the change is published, coalesced, and its save scheduled.
RetunePublishes(w) ==
  /\ At(w, {"counted"})
  /\ \E t \in retuning[w].tuning :
       PublishCoalesced(IF KindOf(cell.mode) = {t.kind} THEN {t} ELSE cell.mode, t.level)
  /\ Schedule
  /\ Moves(w, "answered")
  /\ UNCHANGED <<tuningVars, turn, transactionVars, runtimeVars, windowVars, coalescerVars, awake, saved,
                 bounds>>

\* A deferred value is only scheduled to be saved.
RetuneDefers(w) ==
  /\ At(w, {"deferred"})
  /\ Schedule
  /\ Moves(w, "answered")
  /\ UNCHANGED <<tuningVars, turn, transactionVars, runtimeVars, snapshotVars, windowVars, coalescerVars,
                 awake, saved, bounds>>

-----------------------------------------------------------------------------
\* The settled save.

\* The payload as its mode started, which no retune changes.
StoredOnDisk_AsStarted(kind) ==
  [kind |-> kind,
   look |-> [k \in Kinds |-> IF k \in KindOf(mode) THEN (CHOOSE t \in mode : TRUE).look ELSE stored.look[k]],
   level |-> stored.level]

StoredOnDisk(kind) == [kind |-> kind, look |-> stored.look, level |-> stored.level]

\* The debounce is over: a retune from here on schedules another save.
SaveWakes ==
  /\ scheduled
  /\ scheduled' = FALSE
  /\ awake' = awake + 1
  /\ UNCHANGED <<tuningVars, turn, retuning, transactionVars, runtimeVars, snapshotVars, windowVars,
                 coalescerVars, saved, bounds>>

\* persist_running_choice: nothing when what runs is not what was asked for, or nothing was.
SaveWrites ==
  /\ awake > 0
  /\ awake' = awake - 1
  /\ saved' = IF intent.kind # {} /\ KindOf(cell.mode) = intent.kind THEN StoredOnDisk(intent.kind) ELSE saved
  /\ UNCHANGED <<tuningVars, turn, retuning, transactionVars, runtimeVars, snapshotVars, windowVars,
                 coalescerVars, scheduled, bounds>>

-----------------------------------------------------------------------------
\* A choice of a kind, and its transaction.

\* A transaction's answer: the snapshot, to the window that chose.
Answer(before, to, snapshot, of) ==
  [w \in Windows |->
     IF w \in to THEN before[w] \cup {[snapshot |-> snapshot, answers |-> of]} ELSE before[w]]

\* A choice arrives: the newest ticket and intent are its own.
Arrives(from, kind) ==
  /\ choices < MaxChoices
  /\ MayAct
  /\ choices' = choices + 1
  /\ ticket' = ticket + 1
  /\ intent' = [kind |-> kind, saves |-> TRUE]
  /\ waiting' = Append(waiting, [from |-> from, ticket |-> ticket'])
  /\ UNCHANGED <<accepting, awaiting, applied, turn, retuning, tx, runtimeVars, snapshotVars, stage, held,
                 inFlight, savingVars, pushes>>

\* The coalescer's reset: it forgets what it sent and what waits.
Reset(w) ==
  /\ lastSent' = [lastSent EXCEPT ![w] = {}]
  /\ pending' = [pending EXCEPT ![w] = {}]

\* TuningCell::store: a payload chosen with its kind, and its brightness, are the newest.
Store(t) ==
  stored' = [look |-> [stored.look EXCEPT ![t.kind] = t.look], level |-> t.level,
             generation |-> stored.generation + 1]

\* The main window chooses another kind than it shows, a lit one with its payload.
MainChooses(kind) ==
  /\ stage[Main] # "closed"
  /\ kind # ShownKind(Main)
  /\ Arrives({Main}, kind)
  /\ Reset(Main)
  /\ asked' = {[kind |-> kind, ticket |-> ticket']}
  /\ \/ kind = {} /\ UNCHANGED stored
     \/ \E t \in Tunings : kind = {t.kind} /\ Store(t)

\* The popup chooses a kind alone.
PopupChooses(w, kind) ==
  /\ stage[w] # "closed"
  /\ Arrives({w}, kind)
  /\ Reset(w)
  /\ UNCHANGED <<stored, asked>>

\* So does the tray, which has no window to answer.
TrayChooses(kind) ==
  /\ Arrives({}, kind)
  /\ UNCHANGED <<stored, asked, lastSent, pending>>

\* What is left as it was by every step of a transaction.
TxFrame == UNCHANGED <<retuning, ticket, windowVars, coalescerVars, bounds>>

TxMoves(to) == tx' = [tx EXCEPT !.at = to]
ToCommit(ending, carried, seen) ==
  /\ tx' = [tx EXCEPT !.at = "committing", !.ending = ending, !.carried = carried, !.seen = seen]
  /\ Takes(Tx)

\* publish_running: the mode at the brightness its payload names.
PublishRunning(m) ==
  \/ m = {} /\ Publish({}, cell.level)
  \/ \E t \in m : Publish({t}, t.level)

\* The transition lock is free for the first choice that waits. One a newer choice superseded is
\* answered with the snapshot as it is.
Begin ==
  /\ tx.at = "idle"
  /\ waiting # <<>>
  /\ waiting' = Tail(waiting)
  /\ LET c == Head(waiting)
     IN \/ /\ c.ticket = ticket
           /\ tx' = [at |-> "closing", kind |-> intent.kind, saves |-> intent.saves, from |-> c.from,
                     ticket |-> c.ticket, payload |-> {}, seen |-> 0, carried |-> FALSE,
                     ending |-> "applied"]
           /\ Takes(Tx)
           /\ UNCHANGED snapshotVars
        \/ /\ c.ticket < ticket
           /\ tx' = [tx EXCEPT !.ending = "superseded"]
           /\ UNCHANGED <<turn, cell, trailing, spaced>>
           /\ news' = Answer(news, c.from, cell, c.ticket)
  /\ UNCHANGED <<tuningVars, intent, runtimeVars, savingVars>>
  /\ TxFrame

\* The close does not wait for a retune that sends.
Closes_Unturned ==
  /\ tx.at = "closing"
  /\ turn' = SelectSeq(turn, LAMBDA actor : actor # Tx)
  /\ accepting' = {}
  /\ awaiting' = tx.kind
  /\ TxMoves("closed")
  /\ UNCHANGED <<stored, applied, intent, waiting, runtimeVars, snapshotVars, savingVars>>
  /\ TxFrame

\* TuningCell::close: nothing reaches the outputs until the commit.
Closes ==
  /\ tx.at = "closing"
  /\ Holds(Tx)
  /\ LetsGo
  /\ accepting' = {}
  /\ awaiting' = tx.kind
  /\ TxMoves("closed")
  /\ UNCHANGED <<stored, applied, intent, waiting, runtimeVars, snapshotVars, savingVars>>
  /\ TxFrame

\* A newer choice arrived: it ends without a commit, which the newer one makes.
GivesWay ==
  /\ tx.at = "closed"
  /\ tx.kind # {}
  /\ tx.ticket < ticket
  /\ tx' = [tx EXCEPT !.at = "idle", !.ending = "superseded"]
  /\ UNCHANGED <<cell, trailing, spaced>>
  /\ news' = Answer(news, tx.from, cell, tx.ticket)
  /\ UNCHANGED <<tuningVars, turn, intent, waiting, runtimeVars, savingVars>>
  /\ TxFrame

\* reconcile_off: the mode stops, and Off is saved.
TurnsOff ==
  /\ tx.at = "closed"
  /\ tx.kind = {}
  /\ output' = {}
  /\ mode' = {}
  /\ PublishRunning({})
  /\ saved' = IF tx.saves THEN StoredOnDisk({}) ELSE saved
  /\ intent' = IF tx.saves THEN [intent EXCEPT !.saves = FALSE] ELSE intent
  /\ ToCommit(IF tx.saves THEN "applied" ELSE "unsaved", TRUE, 0)
  /\ UNCHANGED <<tuningVars, waiting, scheduled, awake>>
  /\ TxFrame

\* TuningCell::is_current.
IsCurrent == applied = stored.generation

\* The kind already runs with the newest payloads: it is left alone.
FindsCurrent ==
  /\ tx.at = "closed"
  /\ tx.kind # {}
  /\ KindOf(mode) = tx.kind
  /\ IsCurrent
  /\ TxMoves("current")
  /\ UNCHANGED <<tuningVars, turn, intent, waiting, runtimeVars, snapshotVars, savingVars>>
  /\ TxFrame

\* Then, in a lock of its own, the generation the commit compares with is read.
LeavesAlone ==
  /\ tx.at = "current"
  /\ ToCommit("unchanged", TRUE, stored.generation)
  /\ UNCHANGED <<tuningVars, intent, waiting, runtimeVars, snapshotVars, savingVars>>
  /\ TxFrame

\* apply_waiving reads the newest payloads and their generation together.
Reads ==
  /\ tx.at = "closed"
  /\ tx.kind # {}
  /\ ~(KindOf(mode) = tx.kind /\ IsCurrent)
  /\ tx' = [tx EXCEPT !.at = "read", !.payload = {Stamped(stored, k) : k \in tx.kind},
                      !.seen = stored.generation]
  /\ UNCHANGED <<tuningVars, turn, intent, waiting, runtimeVars, snapshotVars, savingVars>>
  /\ TxFrame

\* The mode runs with the payload that was read.
Applies ==
  /\ tx.at = "read"
  /\ output' = tx.payload
  /\ mode' = tx.payload
  /\ PublishRunning(tx.payload)
  /\ ToCommit("applied", TRUE, tx.seen)
  /\ UNCHANGED <<tuningVars, intent, waiting, savingVars>>
  /\ TxFrame

\* settle_kind: the intent follows what runs.
Settled(kind) == IF intent.kind = kind THEN intent ELSE [kind |-> kind, saves |-> FALSE]

\* A gate refuses before anything is touched: what the owner recorded is published as running.
Refuses ==
  /\ tx.at = "read"
  /\ PublishRunning(mode)
  /\ intent' = Settled(KindOf(mode))
  /\ ToCommit("refused", FALSE, tx.seen)
  /\ UNCHANGED <<tuningVars, waiting, runtimeVars, savingVars>>
  /\ TxFrame

\* The start fails after the mode before it was stopped.
Fails ==
  /\ tx.at = "read"
  /\ output' = {}
  /\ mode' = {}
  /\ PublishRunning({})
  /\ intent' = Settled({})
  /\ ToCommit("refused", FALSE, tx.seen)
  /\ UNCHANGED <<tuningVars, waiting, savingVars>>
  /\ TxFrame

\* What was stored since the transaction read is left to the next retune.
Installs_Unreplayed ==
  /\ awaiting' = {}
  /\ accepting' = KindOf(mode)
  /\ applied' = IF tx.carried THEN stored.generation ELSE applied
  /\ output' = output

\* TuningCell::commit: retunes reach what runs, and one stored since the transaction read is replayed.
Installs ==
  /\ awaiting' = {}
  /\ accepting' = KindOf(mode)
  /\ applied' = IF tx.carried THEN stored.generation ELSE applied
  /\ output' = IF accepting' # {} /\ stored.generation # tx.seen
               THEN {Stamped(stored, k) : k \in accepting'}
               ELSE output

Commits ==
  /\ tx.at = "committing"
  /\ Holds(Tx)
  /\ Installs
  /\ LetsGo
  /\ TxMoves("committed")
  /\ UNCHANGED <<stored, intent, waiting, mode, snapshotVars, savingVars>>
  /\ TxFrame

\* The rest of the transaction: a kind that runs is saved when the choice asked for it, and finish
\* publishes what the answer carries.
Finishes ==
  /\ tx.at = "committed"
  /\ LET lit == tx.ending \in {"applied", "unchanged"} /\ tx.kind # {}
     IN /\ saved' = IF lit /\ tx.saves THEN StoredOnDisk(tx.kind) ELSE saved
        /\ intent' = IF lit /\ tx.saves THEN [intent EXCEPT !.saves = FALSE] ELSE intent
        /\ tx' = [tx EXCEPT !.at = "idle",
                            !.ending = IF lit /\ tx.ending = "applied" /\ ~tx.saves THEN "unsaved" ELSE @]
  /\ cell' = [cell EXCEPT !.revision = @ + 1, !.level = stored.level]
  /\ news' = Answer(Emitted(cell'), tx.from, cell', tx.ticket)
  /\ UNCHANGED <<trailing, spaced, tuningVars, turn, waiting, runtimeVars, scheduled, awake>>
  /\ TxFrame

-----------------------------------------------------------------------------

Transaction ==
  \/ Begin \/ Closes \/ GivesWay \/ TurnsOff \/ FindsCurrent \/ LeavesAlone \/ Reads
  \/ Applies \/ Refuses \/ Fails \/ Commits \/ Finishes

RetuneCall(w) ==
  \/ RetuneQueues(w) \/ RetuneStores(w) \/ RetuneSends(w) \/ RetuneCounts(w) \/ RetunePublishes(w)
  \/ RetuneDefers(w) \/ Answered(w)

Window(w) ==
  \/ \E t \in Tunings : Push(w, t)
  \/ Open(w)
  \/ Seed(w)
  \/ \E n \in news[w] : Deliver(w, n)

Next ==
  \/ \E w \in Windows : Window(w) \/ RetuneCall(w)
  \/ \E kind \in AtMostOne(Kinds) :
       MainChooses(kind) \/ TrayChooses(kind) \/ \E w \in Windows \ {Main} : PopupChooses(w, kind)
  \/ Transaction
  \/ FlushTrailing \/ SaveWakes \/ SaveWrites

Spec == Init /\ [][Next]_vars

-----------------------------------------------------------------------------
\* Properties.

\* Every variable keeps its shape.
TypeOK ==
  /\ stored \in Stored
  /\ accepting \in AtMostOne(Kinds)
  /\ awaiting \in AtMostOne(Kinds)
  /\ applied \in Nat
  /\ turn \in Seq(Windows \cup {Tx})
  /\ retuning \in [Windows -> [at: RetuneStages, tuning: AtMostOne(Tunings), to: AtMostOne(Kinds)]]
  /\ ticket \in Nat
  /\ intent \in [kind: AtMostOne(Kinds), saves: BOOLEAN]
  /\ waiting \in Seq(Choices)
  /\ tx \in [at: TxStages, kind: AtMostOne(Kinds), saves: BOOLEAN, from: AtMostOne(Windows), ticket: Nat,
             payload: AtMostOne(Tunings), seen: Nat, carried: BOOLEAN, ending: Endings]
  /\ output \in AtMostOne(Tunings)
  /\ mode \in AtMostOne(Tunings)
  /\ cell \in Snapshots
  /\ trailing \in BOOLEAN
  /\ spaced \in BOOLEAN
  /\ news \in [Windows -> SUBSET News]
  /\ stage \in [Windows -> {"closed", "listening", "seeded"}]
  /\ held \in [Windows -> Snapshots]
  /\ asked \in SUBSET [kind: AtMostOne(Kinds), ticket: Nat]
  /\ inFlight \in [Windows -> AtMostOne(Tunings)]
  /\ pending \in [Windows -> AtMostOne(Tunings)]
  /\ lastSent \in [Windows -> AtMostOne(Tunings)]
  /\ scheduled \in BOOLEAN
  /\ awake \in Nat
  /\ saved \in [kind: AtMostOne(Kinds), look: [Kinds -> Looks], level: Levels]
  /\ pushes \in Nat
  /\ choices \in Nat

\* Nothing is being sent or decided.
Quiet ==
  /\ turn = Free
  /\ tx.at = "idle"
  /\ waiting = <<>>
  /\ \A w \in Windows : At(w, {"none", "answered"})

\* Between a close and the commit only the transaction changes what the outputs carry: no retune that
\* found the mode before still sends, and none starts to (tuning.rs, "once a close returns no retune is
\* mid-send and none can start one").
OnlyTheTransactionSends ==
  [][tx.at \in {"closed", "current", "read", "committing"} /\ output' # output => tx' # tx]_vars

CarryTheNewest == output = {Stamped(stored, k) : k \in accepting}

\* After a transaction that applied, and any drag since, the outputs carry the newest payload of the
\* running kind at the shared brightness, those that came while it started included (commit, "so a drag
\* during a start lands").
DragsLand == Quiet /\ tx.ending \in {"applied", "unsaved"} => CarryTheNewest

\* Once every snapshot has arrived, a window shows the newest: coalesced publishes are announced in the
\* end, and one delivered late does not take a newer one's place.
WindowsCatchUp ==
  ~trailing => \A w \in Windows : stage[w] = "seeded" /\ news[w] = {} => held[w] = cell

\* Once every save has been written, the disk has what runs, when its kind is the one saved.
DragsAreSaved ==
  /\ Quiet
  /\ tx.ending = "applied"
  /\ ~scheduled
  /\ awake = 0
  => accepting = saved.kind /\ \A t \in output : saved.look[t.kind] = t.look /\ saved.level = t.level

-----------------------------------------------------------------------------
\* What the comments promise and the code does not keep.

\* A deferred retune lands when the change in progress does, one that left the mode as it was included
\* (tuning.rs, "the lighting change in progress applies it when it lands").
DeferredLands == Quiet /\ tx.ending \in {"applied", "unchanged", "unsaved"} => CarryTheNewest

\* Once nothing is being decided or announced, the snapshot shows what runs.
SnapshotShowsWhatRuns == Quiet /\ ~trailing => cell.mode = output

=============================================================================
