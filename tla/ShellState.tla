--------------------------------- MODULE ShellState ---------------------------------
(***************************************************************************)
(* LumaSync's persisted settings: the file that Rust owns, its backup, the *)
(* copy in memory, and the windows that read it, write it and follow each  *)
(* other's writes (commands/shell_state.rs, shell/windowShellState.ts,     *)
(* persistence/preferences.ts).                                            *)
(*                                                                         *)
(* Every command runs whole under the store's mutex; an answer and a change *)
(* event reach a window later, each in a turn of its own, in no order with *)
(* each other. A write is numbered when it is made and a value is the set  *)
(* of writes it shows: one for a key that is replaced, all of them for a   *)
(* nested key. The eleven migration steps rewrite values; here they only   *)
(* move the version. An operator named X_Y is X with a fault Y put in; no  *)
(* action uses it.                                                         *)
(***************************************************************************)
EXTENDS Naturals, Sequences, FiniteSets

CONSTANTS
  Main,               \* the main window: the only one that may replace
  Followers,          \* the windows that only read: popup, twin, scene
  Writer,             \* the main window's write queue, as a caller of Rust
  MigrationAttempts,  \* MIGRATION_WRITE_ATTEMPTS
  UpdateAttempts,     \* UPDATE_WRITE_ATTEMPTS
  MaxWrites,          \* bound: writes made by anyone
  MaxFaults,          \* bound: failed rotations and failed writes
  MaxCrashes,         \* bound: processes that end
  MaxDamages          \* bound: files damaged or deleted

Windows == Followers \cup {Main}
Callers == Windows \cup {Writer}
Writes  == 1..MaxWrites

ASSUME CallersAreApart == /\ Main \notin Followers /\ Writer \notin Windows
                          /\ "rust" \notin Windows
ASSUME BoundsAreNumbers == {MigrationAttempts, UpdateAttempts} \subseteq Nat \ {0}
                        /\ {MaxWrites, MaxFaults, MaxCrashes, MaxDamages} \subseteq Nat

\* launchLights and its like (READ_BY_RUST), which the main window sets;
\* lastLitKind, which Rust writes; ledStrips, which both edit.
Keys     == {"launchLights", "lastLitKind", "ledStrips"}
Followed == {"launchLights", "lastLitKind"}

NoValues == [k \in Keys |-> {}]
\* state_of(root) is None: nothing was ever stored.
NoState  == [version |-> "none", values |-> NoValues]
Roots    == [version : {"none", "old", "current"}, values : [Keys -> SUBSET Writes]]
Files    == [is : {"good", "missing", "corrupt"}, root : Roots]
NoFile   == [is |-> "missing", root |-> NoState]
Events   == [writer : Windows \cup {"rust"},
             set : UNION {[keys -> SUBSET Writes] : keys \in SUBSET Followed}]

VARIABLES
  alive,     \* the process runs
  loaded,    \* Loaded, and whether the file was read in this process
  file, bak, \* shell-state.json and its .bak
  phase,     \* per window: closed, booting, joining (listen in flight), live
  shown,     \* per window: its preference store
  inbox,     \* per window: change events on their way to it
  missed,    \* per window: keys announced after its read and before it listened
  call,      \* per caller: its command in flight
  queue,     \* shellWriteQueue of the main window, the head in flight
  failing,   \* writeHealth of the main window
  saved,     \* how the newest save of its preference went (kept for a property)
  writes, faults, crashes, damages

diskVars   == <<file, bak, damages>>
windowVars == <<phase, shown, missed>>
vars == <<alive, loaded, diskVars, windowVars, inbox, call, queue, failing, saved,
          writes, faults, crashes>>

NoCall == [is |-> "idle", command |-> "get", write |-> 0, root |-> NoState,
           revision |-> 0, attempt |-> 1, answer |-> "none"]
NotLoaded == [up |-> FALSE, root |-> NoState, revision |-> 0, diskIsGood |-> FALSE]
NothingShown == [w \in Windows |-> [k \in Followed |-> {}]]
Attempts(c) == IF c = Writer THEN UpdateAttempts ELSE MigrationAttempts
Get(attempt, w) == [NoCall EXCEPT !.is = "sent", !.write = w, !.attempt = attempt]
Patch(w)        == [NoCall EXCEPT !.is = "sent", !.command = "patch", !.write = w]

Init ==
  /\ alive = FALSE
  /\ loaded = NotLoaded
  /\ file \in {NoFile, [is |-> "good", root |-> [NoState EXCEPT !.version = "old"]]}
  /\ bak = NoFile
  /\ phase = [w \in Windows |-> "closed"]
  /\ shown = NothingShown
  /\ inbox = [w \in Windows |-> <<>>]
  /\ missed = [w \in Windows |-> {}]
  /\ call = [c \in Callers |-> NoCall]
  /\ queue = <<>> /\ failing = FALSE /\ saved = "applied"
  /\ writes = 0 /\ faults = 0 /\ crashes = 0 /\ damages = 0

-----------------------------------------------------------------------------
(* The store in Rust *)

\* load: a missing file is how a user resets; a damaged one falls back.
Load == CASE file.is = "good"    -> file.root
          [] file.is = "missing" -> NoState
          [] OTHER               -> bak.root

\* with_loaded
Store == IF loaded.up THEN loaded
         ELSE [up |-> TRUE, root |-> Load, revision |-> 0, diskIsGood |-> file.is = "good"]

\* write_state_file: the good file on disk becomes the backup, or the rotation
\* fails, which costs the fallback and not the write.
Rotate_Always == bak' = file /\ UNCHANGED faults
Rotate == \/ /\ bak' = IF Store.diskIsGood THEN file ELSE bak
             /\ UNCHANGED faults
          \/ /\ Store.diskIsGood /\ faults < MaxFaults
             /\ faults' = faults + 1 /\ UNCHANGED bak

Holds(root) == loaded' = [up |-> TRUE, root |-> root, revision |-> Store.revision + 1,
                          diskIsGood |-> TRUE]

\* commit: disk first, then memory.
Commit_MemoryOnly(root) == Holds(root) /\ UNCHANGED <<file, bak, faults>>
Commit(root) == /\ Rotate
                /\ file' = [is |-> "good", root |-> root]
                /\ Holds(root)

CommitFails == /\ faults < MaxFaults /\ faults' = faults + 1
               /\ bak' \in {bak, IF Store.diskIsGood THEN file ELSE bak}
               /\ loaded' = Store
               /\ UNCHANGED file

\* emit_changed, under the lock: to every window that listens by now.
Announce_Reordered(writer, keys, root) ==
  /\ inbox' = [w \in Windows |-> IF phase[w] # "live" THEN inbox[w]
       ELSE <<[writer |-> writer, set |-> [k \in keys |-> root.values[k]]]>> \o inbox[w]]
  /\ missed' = [w \in Windows |-> IF phase[w] \in {"booting", "joining"} /\ w # writer
                                    THEN missed[w] \cup keys ELSE missed[w]]
Announce(writer, keys, root) ==
  /\ inbox' = [w \in Windows |-> IF phase[w] # "live" THEN inbox[w]
       ELSE Append(inbox[w], [writer |-> writer, set |-> [k \in keys |-> root.values[k]]])]
  /\ missed' = [w \in Windows |-> IF phase[w] \in {"booting", "joining"} /\ w # writer
                                    THEN missed[w] \cup keys ELSE missed[w]]
Silent == UNCHANGED <<inbox, missed>>

\* patch: a state that had none begins without a version.
With(root, k, value) ==
  [version |-> IF root.version = "none" THEN "old" ELSE root.version,
   values  |-> [root.values EXCEPT ![k] = value]]

Answers(c, reply) == call' = [call EXCEPT ![c].is = "answered", ![c].answer = reply]

GetShellState(c) ==
  /\ call[c].is = "sent" /\ call[c].command = "get"
  /\ loaded' = Store
  /\ call' = [call EXCEPT ![c].is = "answered", ![c].root = Store.root,
                          ![c].revision = Store.revision]
  /\ missed' = [w \in Windows |-> IF w = c THEN {} ELSE missed[w]]
  /\ UNCHANGED <<alive, diskVars, phase, shown, inbox, queue, failing, saved, writes, faults, crashes>>

PatchShellState(c) ==
  /\ call[c].is = "sent" /\ call[c].command = "patch"
  /\ LET root == With(Store.root, "launchLights", {call[c].write})
     IN \/ Commit(root) /\ Announce(Main, {"launchLights"}, root) /\ Answers(c, "applied")
        \/ CommitFails /\ Silent /\ Answers(c, "failed")
  /\ UNCHANGED <<alive, damages, phase, shown, queue, failing, saved, writes, crashes>>

\* replace: refused when a write landed since the caller read.
Conflicts_OnVersion(c) == Store.root.version = "none"
Conflicts(c) == Store.revision # call[c].revision

Diff(before, after) == {k \in Followed : before.values[k] # after.values[k]}

\* A follower has no grant for it: the command never reaches the store.
ReplaceShellState(c) ==
  /\ call[c].is = "sent" /\ call[c].command = "replace"
  /\ \/ /\ c \in Followers /\ Answers(c, "failed")
        /\ Silent /\ UNCHANGED <<loaded, file, bak, faults>>
     \/ /\ c \notin Followers /\ Conflicts(c) /\ Answers(c, "refused")
        /\ Silent /\ loaded' = Store /\ UNCHANGED <<file, bak, faults>>
     \/ /\ c \notin Followers /\ ~Conflicts(c)
        /\ \/ /\ Commit(call[c].root) /\ Answers(c, "applied")
              /\ Announce(Main, Diff(Store.root, call[c].root), call[c].root)
           \/ CommitFails /\ Silent /\ Answers(c, "failed")
  /\ UNCHANGED <<alive, damages, phase, shown, queue, failing, saved, writes, crashes>>

\* patch_from_rust and update_from_rust: one locked section, retried by nobody.
RustWrites(k, value) ==
  /\ alive /\ writes < MaxWrites /\ writes' = writes + 1
  /\ LET root == With(Store.root, k, value)
     IN \/ Commit(root) /\ Announce("rust", {k} \cap Followed, root)
        \/ CommitFails /\ Silent
  /\ UNCHANGED <<alive, damages, phase, shown, call, queue, failing, saved, crashes>>

\* persist_running_choice's patch, and the strips edit of a forgotten device.
SaveLitKind  == RustWrites("lastLitKind", {writes + 1})
ForgetDevice == RustWrites("ledStrips", Store.root.values["ledStrips"] \cup {writes + 1})

-----------------------------------------------------------------------------
(* A window reads: loadShellState at boot, and hydratePreferences with it *)

Launch ==
  /\ ~alive /\ alive' = TRUE
  /\ phase' = [phase EXCEPT ![Main] = "booting"]
  /\ call' = [call EXCEPT ![Main] = Get(1, 0)]
  /\ UNCHANGED <<loaded, diskVars, shown, missed, inbox, queue, failing, saved, writes, faults, crashes>>

OpenFollower(w) ==
  /\ alive /\ phase[w] = "closed"
  /\ phase' = [phase EXCEPT ![w] = "booting"]
  /\ call' = [call EXCEPT ![w] = Get(1, 0)]
  /\ UNCHANGED <<alive, loaded, diskVars, shown, missed, inbox, queue, failing, saved, writes,
                 faults, crashes>>

\* Whether a lost race is run again.
MayRetry_OneMore(c) == call[c].attempt <= Attempts(c)
MayRetry(c) == call[c].attempt < Attempts(c)

\* readSnapshot: the defaults filled in and the migration steps run.
Migrated(root) == [root EXCEPT !.version = "current"]

\* readShellState: a legacy state is written back over what it was read from.
WritesBack(w) ==
  /\ call[w].command = "get" /\ call[w].root.version = "old"
  /\ call' = [call EXCEPT ![w].is = "sent", ![w].command = "replace",
                          ![w].root = Migrated(@)]
  /\ UNCHANGED <<phase, shown>>
ReadsAgain(w) ==
  /\ call[w].answer = "refused" /\ MayRetry(w)
  /\ call' = [call EXCEPT ![w] = Get(call[w].attempt + 1, 0)]
  /\ UNCHANGED <<phase, shown>>

\* The read's state is applied and the window begins to listen: in that order.
Hydrates(w) ==
  /\ \/ call[w].command = "get" /\ call[w].root.version # "old"
     \/ call[w].answer \in {"applied", "failed"}
     \/ call[w].answer = "refused" /\ ~MayRetry(w)
  /\ call' = [call EXCEPT ![w] = NoCall]
  /\ phase' = [phase EXCEPT ![w] = "joining"]
  /\ shown' = [shown EXCEPT ![w] = [k \in Followed |-> call[w].root.values[k]]]

ReadAnswered(w) ==
  /\ call[w].is = "answered"
  /\ WritesBack(w) \/ ReadsAgain(w) \/ Hydrates(w)
  /\ UNCHANGED <<alive, loaded, diskVars, inbox, missed, queue, failing, saved, writes, faults, crashes>>

\* onShellStateChanged resolves: from here on events are delivered.
Joins(w) ==
  /\ phase[w] = "joining" /\ phase' = [phase EXCEPT ![w] = "live"]
  /\ UNCHANGED <<alive, loaded, diskVars, shown, missed, inbox, call, queue, failing, saved, writes,
                 faults, crashes>>

\* merge, for an event another writer caused.
Merge(store, set) == [k \in Followed |-> IF k \in DOMAIN set THEN set[k] ELSE store[k]]

Delivered(w) ==
  /\ inbox[w] # <<>>
  /\ inbox' = [inbox EXCEPT ![w] = Tail(@)]
  /\ LET changed == Head(inbox[w])
     IN shown' = [shown EXCEPT ![w] = IF changed.writer = w THEN @
                                      ELSE Merge(@, changed.set)]
  /\ UNCHANGED <<alive, loaded, diskVars, phase, missed, call, queue, failing, saved, writes,
                 faults, crashes>>

-----------------------------------------------------------------------------
(* The main window writes, one queued write at a time *)

Dispatch(write) == IF write.op = "save" THEN Patch(write.id) ELSE Get(1, write.id)

Enqueue(write) ==
  /\ queue' = Append(queue, write)
  /\ call' = IF queue = <<>> THEN [call EXCEPT ![Writer] = Dispatch(write)] ELSE call

Issues == /\ phase[Main] \in {"joining", "live"}
          /\ writes < MaxWrites /\ writes' = writes + 1
          /\ UNCHANGED <<alive, loaded, diskVars, phase, missed, inbox, failing, saved, faults, crashes>>

\* setPreference: shown at once, saved behind it.
SetPreference ==
  /\ Issues
  /\ Enqueue([op |-> "save", id |-> writes + 1, previous |-> shown[Main]["launchLights"]])
  /\ shown' = [shown EXCEPT ![Main]["launchLights"] = {writes + 1}]

\* updateShellState, for a nested key.
UpdateShellState ==
  /\ Issues
  /\ Enqueue([op |-> "update", id |-> writes + 1, previous |-> {}])
  /\ UNCHANGED shown

\* The queue goes on past a write that settled, however it did.
Settle_OnSuccess(answer) ==
  /\ answer = "applied"
  /\ queue' = Tail(queue)
  /\ call' = [call EXCEPT ![Writer] = IF Tail(queue) = <<>> THEN NoCall
                                      ELSE Dispatch(Head(Tail(queue)))]
Settle(answer) ==
  /\ queue' = Tail(queue)
  /\ call' = [call EXCEPT ![Writer] = IF Tail(queue) = <<>> THEN NoCall
                                      ELSE Dispatch(Head(Tail(queue)))]

\* A failed save puts back what was shown when the choice was made.
Revert(write) == write.previous

\* A save that landed is merged back, over whatever reverts came before it.
Lands_Unheard(write) == shown[Main]["launchLights"]
Lands(write) == {write.id}

SaveSettles ==
  /\ call[Writer].command = "patch"
  /\ Settle(call[Writer].answer)
  /\ failing' = (call[Writer].answer = "failed") /\ saved' = call[Writer].answer
  /\ shown' = [shown EXCEPT ![Main]["launchLights"] =
                 IF call[Writer].answer = "applied" THEN Lands(Head(queue))
                                                    ELSE Revert(Head(queue))]

\* update's partial over the state it read.
Edited(root, id) ==
  [version |-> "current", values |-> [root.values EXCEPT !["ledStrips"] = @ \cup {id}]]

\* The edit is made on the state read, and swapped in for that state only; or
\* it finds nothing to change.
UpdateSwaps ==
  /\ call[Writer].command = "get"
  /\ call' = [call EXCEPT ![Writer].is = "sent", ![Writer].command = "replace",
                          ![Writer].root = Edited(@, Head(queue).id)]
  /\ UNCHANGED <<shown, failing, saved, queue>>
UpdateFindsNothing ==
  /\ call[Writer].command = "get" /\ Settle("applied") /\ UNCHANGED <<shown, failing, saved>>
UpdateReadsAgain ==
  /\ call[Writer].answer = "refused" /\ MayRetry(Writer)
  /\ call' = [call EXCEPT ![Writer] = Get(call[Writer].attempt + 1, Head(queue).id)]
  /\ UNCHANGED <<shown, failing, saved, queue>>
\* Losing every race rejects like a failed write, but reports no failure.
UpdateSettles ==
  /\ call[Writer].command = "replace"
  /\ \/ /\ call[Writer].answer \in {"applied", "failed"}
        /\ failing' = (call[Writer].answer = "failed")
     \/ /\ call[Writer].answer = "refused" /\ ~MayRetry(Writer)
        /\ UNCHANGED failing
  /\ Settle(call[Writer].answer)
  /\ UNCHANGED <<shown, saved>>

WriteAnswered ==
  /\ call[Writer].is = "answered"
  /\ \/ SaveSettles \/ UpdateSwaps \/ UpdateFindsNothing \/ UpdateReadsAgain \/ UpdateSettles
  /\ UNCHANGED <<alive, loaded, diskVars, phase, inbox, missed, writes, faults, crashes>>

-----------------------------------------------------------------------------
(* The process ends, and what may befall the file meanwhile *)

Ends ==
  /\ alive /\ crashes < MaxCrashes /\ crashes' = crashes + 1
  /\ alive' = FALSE
  /\ loaded' = NotLoaded
  /\ phase' = [w \in Windows |-> "closed"]
  /\ inbox' = [w \in Windows |-> <<>>]
  /\ shown' = NothingShown
  /\ missed' = [w \in Windows |-> {}]
  /\ call' = [c \in Callers |-> NoCall]
  /\ queue' = <<>> /\ failing' = FALSE /\ saved' = "applied"
  /\ UNCHANGED <<file, damages, writes, faults>>

Exit == Ends /\ UNCHANGED bak

\* Between the rotation and the rename: a half-written file is never seen.
CrashInCommit ==
  /\ Ends
  /\ \/ \E c \in Callers : call[c].is = "sent" /\ call[c].command # "get"
     \/ writes < MaxWrites
  /\ Store.diskIsGood /\ bak' = file

\* Damage the process did not do: a bad sector, an editor, a user's reset.
Damage(how) ==
  /\ ~alive /\ file.is = "good" /\ damages < MaxDamages /\ damages' = damages + 1
  /\ file' = [is |-> how, root |-> NoState]
  /\ UNCHANGED <<alive, loaded, bak, windowVars, inbox, call, queue, failing, saved, writes,
                 faults, crashes>>

Next ==
  \/ Launch \/ Exit \/ CrashInCommit
  \/ \E how \in {"missing", "corrupt"} : Damage(how)
  \/ \E w \in Followers : OpenFollower(w)
  \/ \E w \in Windows : ReadAnswered(w) \/ Joins(w) \/ Delivered(w)
  \/ \E c \in Callers : GetShellState(c) \/ PatchShellState(c) \/ ReplaceShellState(c)
  \/ SaveLitKind \/ ForgetDevice
  \/ SetPreference \/ UpdateShellState \/ WriteAnswered

Spec == Init /\ [][Next]_vars

\* Rust answers every command it got, and a window takes every answer and event.
Fairness ==
  /\ \A c \in Callers : WF_vars(GetShellState(c) \/ PatchShellState(c) \/ ReplaceShellState(c))
  /\ \A w \in Windows : WF_vars(ReadAnswered(w)) /\ WF_vars(Joins(w)) /\ WF_vars(Delivered(w))
  /\ WF_vars(WriteAnswered)

FairSpec == Spec /\ Fairness

-----------------------------------------------------------------------------

TypeOK ==
  /\ alive \in BOOLEAN /\ failing \in BOOLEAN /\ saved \in {"applied", "failed"}
  /\ loaded \in [up : BOOLEAN, root : Roots, revision : Nat, diskIsGood : BOOLEAN]
  /\ file \in Files /\ bak \in Files
  /\ phase \in [Windows -> {"closed", "booting", "joining", "live"}]
  /\ shown \in [Windows -> [Followed -> SUBSET Writes]]
  /\ inbox \in [Windows -> Seq(Events)] /\ missed \in [Windows -> SUBSET Followed]
  /\ call \in [Callers -> [is : {"idle", "sent", "answered"},
                           command : {"get", "patch", "replace"},
                           write : 0..MaxWrites, root : Roots, revision : Nat, attempt : Nat,
                           answer : {"none", "applied", "refused", "failed"}]]
  /\ \A c \in Callers : call[c].attempt <= Attempts(c)
  /\ queue \in Seq([op : {"save", "update"}, id : Writes, previous : SUBSET Writes])
  /\ writes \in 0..MaxWrites /\ faults \in 0..MaxFaults
  /\ crashes \in 0..MaxCrashes /\ damages \in 0..MaxDamages

\* What the store holds is what the next launch would read, through failed
\* writes and rotations: memory never runs ahead of the disk (commit).
HeldIsWhatLoads == loaded.up => loaded.root = Load

\* A damaged file is never rotated over the last good copy (disk_is_good).
BackupIsGood == bak.is # "corrupt"

\* The main window's own preference, once nothing is under way, is shown as it
\* is stored if its newest choice was saved: earlier saves that failed, and the
\* reverts and answers they led to, leave no trace (setPreference, merge).
Quiet == phase[Main] \in {"joining", "live"} /\ queue = <<>>
SavedIsShown ==
  Quiet /\ saved = "applied" => shown[Main]["launchLights"] = Store.root.values["launchLights"]

\* And also if it was not: a failed save's revert never shows a choice that is
\* not the stored one, as preferences.ts says of it.
RevertShowsStored == Quiet => shown[Main]["launchLights"] = Store.root.values["launchLights"]

\* A window that has taken every event shows what is stored of every key that
\* another wrote, unless it was announced while the window was not listening yet
\* (the events leave under the lock, in the order of the writes).
Following(w) == phase[w] = "live" /\ inbox[w] = <<>>
OthersKeys(w) == IF w = Main THEN {"lastLitKind"} ELSE Followed
FollowersKeepUp ==
  \A w \in Windows : Following(w) =>
    \A k \in OthersKeys(w) \ missed[w] : shown[w][k] = Store.root.values[k]

\* Without that exception: a window's preferences are kept in step with every
\* window's writes, as preferences.ts says of itself.
KeptInStep ==
  \A w \in Windows : Following(w) =>
    \A k \in OthersKeys(w) : shown[w][k] = Store.root.values[k]

\* Every write made is settled: a failed one does not wedge the queue, and a
\* lost race ends.
WritesSettle == queue # <<>> ~> queue = <<>>

-----------------------------------------------------------------------------
(* The settings implement their promise to readers *)

Promise == INSTANCE Settings WITH
  Nested   <- {"ledStrips"},
  settings <- Store.root.values,
  backup   <- bak.root.values,
  running  <- alive

\* However the windows and Rust interleave, fail and crash, each accepted write
\* changes its own key of everything accepted before it, a migration or a refused
\* replace changes nothing, and a damaged file costs what the backup lacks.
SettingsKeepPromise == Promise!Spec
=====================================================================================
