# LumaSync: a verification development

LumaSync is a desktop app (Tauri: a Rust core under `src-tauri/`, React windows under `src/`) that lights an LED strip
on a serial port and a Philips Hue entertainment area from the screen, from a solid colour or from effects. This
directory holds TLA+ models of the parts of it where several actors meet: who decides what is lit, who owns the Hue
stream and puts the lamps back as they were, how a drag on a control reaches the lights, every window and the disk, which
strips are connected, how a packet reaches a strip, how a Hue bridge is paired and forgotten, and what becomes of a setting
that is saved. Paths below are relative to
the repository; `outputs/` stands for `src-tauri/src/commands/lighting_mode/outputs/`, `hue/` for
`src-tauri/src/commands/hue/`.

- `LightingTransaction.tla` the transaction that turns requests into one running mode,
  `MCLightingTransaction.tla` its instances, `LightingTransactionProofs.tla` its theorems, `LightingOutcomeProofs.tla` those
  about what is left once every call is answered.
- `HueRuntime.tla` the Hue stream runtime underneath it, `MCHueRuntime.tla`, `HueRuntimeProofs.tla` likewise.
- `Retune.tla` a drag on a control: the windows' coalescers, the tuning cell, the snapshot, the settled save;
  `MCRetune.tla`, `RetuneProofs.tla`.
- `LocalOutputs.tla` the strips' registry, its watcher and the window's copy; `MCLocalOutputs.tla`,
  `LocalOutputsProofs.tla`.
- `SerialWriter.tla` the sessions of a serial port, their writer threads and the calls that send, paint and drop;
  `MCSerialWriter.tla`, `SerialWriterProofs.tla`.
- `HueOnboarding.tla` finding, pairing, checking and forgetting a bridge, with what that does to the saved pairing and the
  keychain; `MCHueOnboarding.tla`, `HueOnboardingProofs.tla`.
- `Settings.tla` what the saved settings promise, `ShellState.tla` the store and the windows that implement it;
  `MCShellState.tla`, `ShellStateProofs.tla`.
- `PROJECT.json` lists components, runs, the faults each property is shown to catch, the source lines of every
  definition, the hazards, the findings and the theorems.

## 1. Inventory

### Components that decide

**Lighting transaction** (`outputs/transaction.rs`, `outputs/mod.rs`). State: `OutputsState` (the intent: kind, targets,
whether the mode is still to be saved; `latest_ticket`; `hue_owner`; `lease`; `away`), the fair async lock
`transitions`. Operations: `apply_outputs` (a choice of mode, of targets, or both), the unplug reconcile, the release
of Hue, the settings refresh, the late join of a strip. Each takes a ticket, writes the intent, waits its turn and
reconciles what runs with the intent as it then is; a request that is no longer the newest is answered superseded.
Hard: everything is async; any other call may arrive at any `await` of a turn; an older turn writes shared state after a
newer request wrote it; half of an apply fails after the other half took effect. Correct when: the newest request is
what runs, nothing deselected stays lit, the intent follows what ran, each call is answered.

**Test lease** (`outputs/lease.rs`). State: `lease` and the `Lease` value of `hue_owner`. A calibration test borrows
Hue: `lease_acquire` starts the stream unless one is up, `lease_release` stops it unless a mode has adopted it. Both are
turns of the same lock but supersede nothing. Correct when: who opened the stream decides who stops it.

**Away and tray** (`outputs/away_tray.rs`, `src-tauri/src/away.rs`). Sleep or session lock puts the mode aside (Leave)
and brings it back (Return); settings saves mark the running payload stale and refresh it after a debounce. Correct
when: nothing is lit while the user is away, and a saved setting reaches what runs.

**Mode change** (`lighting_mode/transition.rs`, `runtime.rs`, `worker.rs`). State: the active mode, the closing mark,
the worker. Called by the transaction for each apply; gates, then tears down what ran, then starts. Correct when: the
gates hold under the same lock as the change, and nothing lights after the quit's stop.

**Payload tuning** (`lighting_mode/tuning.rs`, `retuneCoalescer.ts`). State: `TuningCell` (the newest payload of each
kind, one shared brightness, a generation, what a retune reaches, the debounced save) and one coalescer per window (in
flight, pending, last sent). A retune overtakes every queue but its own turn, which a transaction takes for its close and
its commit. Hard: a drag meets a transaction at any of its awaits. Correct when: the newest value is what runs, is
shown and is saved, and nothing reaches the outputs between a close and the commit.

**Lighting snapshot** (`lighting_mode/snapshot.rs`, `useLightingRuntime.ts`). State: one snapshot with a revision; a copy
per window. Emits leave after the lock, a drag's are spaced with a trailing one, and a window's seed and the answers of its
choices come in between. Correct when: every window ends with the newest.

**Local outputs** (`local_outputs.rs`, `device_connection.rs`, `localOutputsStore.ts`). State: the registry (an entry per
port, the connect order, a revision), the watcher's baseline and miss counts, the window's copy. A connect takes over two
seconds, a poll judges by a listing that is older than it. Correct when: only a pulled strip is lost and a pulled one is,
the driven strip does not jump, the copy catches up.

**Shell state** (`shell_state.rs`, `windowShellState.ts`, `preferences.ts`). State: the file and its backup, the copy in
memory with its revision, per window a preference store, the main window's write queue. Writers: the windows' patches and
whole-document replaces, Rust's own. Correct when: no accepted write undoes another, also over a crash or a damaged
file, and every window shows what is stored.

**Hue runtime** (`hue/commands.rs`, `state_store.rs`, `retry.rs`, `reconnect.rs`, `light_restore.rs`). State:
`HueRuntimeOwner` under a mutex: `state`, `active_stream`, `user_override_pending`, `reconnect_attempt`,
`reconnect_in_progress`, `light_restore`; beside it the `stop_in_flight` gate. Actors: the transaction's starts and
stops, the Devices view's start and restart, one reconnect monitor per sender, the health poll, the sender threads.
Nobody holds the mutex while waiting, so every decision is re-checked or stale after a wait. Correct when: a stop is
not undone, one restart is under way at a time, a stopped runtime holds no stream, the lamps go back to how they were.

**Hue sender** (`hue/sender/`, `hue/dtls.rs`). One thread per session: takes the area when built, ends when the last
handle to its mailbox is dropped or the session breaks, deactivates the area once (`DeactivateToken`) and signals.

**Hue onboarding** (`useHueOnboardingCore.ts`, `hue_onboarding/pairing.rs`, `hue/credential_store.rs`, `hue/forget.rs`).
State: the selected bridge, its key and what is known of it, the areas listed, the bridge set aside by a re-pair, the number
of the pairing run and its timer; the saved pairing and the keychain's pair. Operations: search, typed address, pair, cancel,
check, list, select an area, forget, the launch's move to the keychain. Handlers are not serialised: each meets the
state that the others left at its every `await`. Correct when: one poll runs per pairing, a pairing let go of brings no key,
a key stays with its bridge, and nothing of a forgotten bridge is kept.

**Serial writer** (`led_output/serial.rs`, `lighting_mode/usb_output.rs`). State: the sessions' table (live, being opened,
dropped while being opened) under one lock, and per session a slot with the newest packet under a lock of its own, a writer
thread and the port's handle. Operations: send (latest wins), send and wait, disconnect. A port is opened, written, drained and
closed with no lock held, all of which may take seconds or not come back. Correct when: the strip never goes back to an older
packet, a paint's answer is true, a disconnect lets go of the port, nobody waits for ever.

**Shutdown** (`src-tauri/src/shutdown.rs`). Marks the runtime closing, stops the lighting, then Hue, each with a timeout,
outside the transaction's queue.

### Components that feed or follow these

Launch waits and boot retry (`outputs/boot.rs`); the LED test pattern and calibration;
capture and frame pipeline; preview; the Hue bridge's caches; the room map; updater,
notifications, telemetry and app shell; the rest of the windows' own state. `PROJECT.json` says of each what is modelled, or why nothing is.

### How they interact

```
 windows, tray, sleep/lock, settings        Devices view          health monitor
        | requests                               | start, restart     | poll
        v                                        v                    v
 lighting transaction --start/stop (driver)--> Hue runtime <--- reconnect monitors
        | apply                                  | builds, drops         ^ signal
        v                                        v                       |
 mode change, worker --- frames ------------> sender threads ------> bridge, area, lamps
        ^    ^                                   ^
        |    +------- quit (outside the queue) --+
        | retune (turn shared with close/commit)
 window coalescers <--- snapshot, revisions --- tuning cell, snapshot cell --- settled save ---> shell state file
 window settings   <--- change events --------- shell state store (patch, replace, Rust's writes) ---^
 Devices view: pairing, forget --> saved pairing in that file, keychain; a forget first takes Hue out of the lighting
 worker, transitions, retunes --- packets ---> serial sessions, a slot and a writer thread each --> port <--- disconnects, port watcher
 main window's copy <-- announcements --------- local-output registry <--- connects, disconnects, port watcher
```

## 2. LightingTransaction

**State.** Each variable is named after its field (see the comments of the `VARIABLES` block). `pc`, `call`, `ticket`,
`keep` are the locals of a call up to its turn; `queue` is the fair lock's waiters; `turn`, `at`, `tx` are its holder,
the place in the code where the holder waits, and its locals (what it wants, what was running, what runs after). `opener` is a ghost:
who really opened the stream that is up, which the code means to know as `hue_owner`. `fresh` is a ghost: whether what
runs was applied from the settings as saved now. `older`, a field of the intent, is history: its selection is one that a newer
choice had replaced already, put back over it by the end of an unplug or a release (`NewerSelection`), or named by a window
that answers an unplug before it has heard of the choice (`NamesOlder`). The next selection of the user ends it.

**Actions.** Arrival is split at its critical sections (ticket, intent, saved selection). A turn is split at every `await`,
because other calls arrive there; steps between two awaits that nothing else can come between are one action. The
paths are those of `reconcile`: off, on, refresh, release, join, lease, give-back; with the area move, the fallback from both
outputs to one, and the ends (`ran`, `refused`, `ended`) with their Hue stop and their commit.

| code | definitions |
| --- | --- |
| arrival: ticket, `record_arrival`, `persist_targets` | `Arrive`, `Record`, `SaveTargets` |
| `release_hue_with`, `prepare_away`, `note_settings_saved`, late join, `lease_hue` | `ReleaseArrives`, `ReleaseRecords`, `LeaveArrives`, `ReturnArrives`, `AwayTicket`, `SettingsSaved`, `RefreshArrives`, `JoinArrives`, `LeaseArrives` |
| `run_ticketed` | `Enqueue`, `TakeTurn`, `Overtaken` |
| `reconcile_off`, the release while off, the calibration gate | `StartOff`, `OffStopsHue`, `FinishOff`, `ReleaseWhileOff`, `CalibrationRequired` |
| `reconcile_on`, `reconcile_refresh`, `move_hue`, `start_hue` | `StartOn`, `StartRefresh`, `MoveStop`, `StartHue`, `BringUp`, `HueOvertaken`, `Plan`, `PlanNothing`, `RefreshAfterMove` |
| `apply_mode_change_inner` and the answers to it | `ApplyGated`, `ApplyRuns`, `ApplyFails`, `FallBackToUsb`, `FallBackToHue`, `Judge` |
| the ends: `hue_down`, `settle_kind`, `end_mode`, commit and save | `Ran`, `Refuse`, `EndMode`, `HueDown`, `FinishRan`, `FinishRefused`, `FinishEnded` |
| `lease_acquire`, `lease_release` | `LeaseSettled`, `LeaseStarts`, `LeaseIsUp`, `LeaseGivesBack`, `LeaseStops` |
| the quit; hardware | `QuitMarks`, `QuitStopsLighting`, `QuitStopsHue`; `StreamDrops`, `Reconnects`, `StripChanges`, `AreaSaved` |

**Abstractions.** The model starts once the launch restore is answered (the boot kinds of transaction are not in it). A
payload is only "current or not". Payload-only choices (a new colour) are choices of the same kind that make `current`
false. How an apply fails on its own is over-approximated: any code of `ApplyFaults` may come at any apply it can come
at. A start's check for a quit and its gate are one step. `prepare_away`'s sections for a Leave are one step. Err paths
for poisoned locks and the preview's ownership of a mode are left out, and so are the quit's timeouts.

**Runs.** All pass but those of section 9.

| run | instance | shows |
| --- | --- | --- |
| `races` | 3 calls (choices of two modes and two selections, Off, selections alone, leave, return, settings), working hardware; 615k states | `NewestChoiceRuns`, `AwayStaysDark`, `HueModeHasStream` |
| `faults` | 3 calls (a mode on the strip alone, unplugs, joins, settings); Hue may refuse, applies may fail, three hardware events; 3.3M states | `IntentFollowsWhatRan`, `DeselectedGoesDark`, `UnusedStreamReleased`: after every fallback and rollback intent and mode agree, and nothing is lit or held that is not selected |
| `lease` | 3 calls of choices, releases, leases, give-backs; one hardware event; 722k states | `TestLeavesNoStream`, `TestStreamIsTheTests`; that a lease owns only while it is held is proved (section 11) |
| `quit` | 2 calls whose arrivals may overlap, no LED layout, a quit at any step; 116k states | `QuitStaysDark`, `EveryCallIsAnswered` |

*Why these bounds.* A turn can be disturbed by a call that arrived before it, by one that arrives during it and by one that
finds what both left; three calls give all three. Two modes are what a kind that is wrongly kept needs; with
faults a single mode suffices, because the fallbacks do not compare modes. Three hardware events give a loss and a
return with another loss between them. `faults` begins with both outputs selected and nothing running, or the mode on Hue alone:
its calls are those that take an output out of the selection, or bring one in, while another's turn is under way. It reaches
the case that `older` tells of (section 9, `put_back`), so what it says holds beside it. `DeselectedGoesDark` was also checked
aside with releases and a selection of both outputs among the three calls (12.4M states, two events, too long to be listed).
Calls and modes are interchangeable, hence the symmetry; runs with liveness have none.

`ArrivalsOverlap` says whether two calls may be between their ticket and their intent at once. With it, the older intent may
overwrite the newer and `IntentFollowsWhatRan` fails; the code takes the two in separate critical sections, but
requests from one window come in turn. It is TRUE in `quit`, FALSE in the other runs.

**Fairness.** `Fairness` is weak fairness of each call's own steps: a call is an async task that runs to its end, and the
lock is fair (tokio's mutex queues its waiters). Nothing makes a user ask, the hardware fail or the app quit.

## 3. HueRuntime

**State.** The owner's fields by name (`persistent_sender` always goes with `active_stream` and is not a variable of its own).
`gate` is `stop_in_flight`. Per stream: its thread, whether its token is spent, where its monitor is and what the
monitor has built. Per call: where it is and its locals. The bridge is two variables: who streams to the area, and whether
the lamps show what they did before (`home`) or a stream's colours (`painted`). `stale` is history: `reading` once a start
decided on a reading of the area that no longer held (`StartsTooLate`), `answer` once a poll's answer about a stream that has died
took the runtime out of Starting while that stream is being rebuilt (`AnswersRebuild`).

**Actions.** One locked section or one wait each. `Decide`, `Guard`, `Capture`, `BuildSender`, `StoreSender` and
`AbandonSender` are `start_hue_stream_on` and `bring_up_stream`; `RestartHalts` and `RestartDeactivates` precede them in
`restart_hue_stream`; `Halt` to `Restore` are `stop_hue_runtime`; `Claims` to `GivesBack` are the reconnect monitor with
`internal_restart_stream`; `PollProbes`, `PollAsks`, `PollHears` are `refresh_hue_stream_status`; `SenderEnds` is a
sender thread; `AreaExpires` is the bridge letting go of a silent session.

**Abstractions.** One bridge and one area; every session is DTLS (the HTTP fallback takes no area). Left out: a start that
finds no lights, a panicking build, the restore of another area before a start, switching lights on, switching them off
instead of restoring them, queued colours, the quit's own stop. A refused start comes to the bring-up's guard without a
wait, so it ends in `Decide`. Storing a sender and arming its monitor are one step, and so are the probe's two
locked sections. A restore waits for the area longer than a sender needs to end and less than a silent session lasts
(1.5 s against ten): it waits while the holder's thread is alive, and the mishap `timeout` is the wait that was too short.

**Constants.** `TxCalls` are made one at a time (they come from a turn), `UiCalls` as well (the Devices view
disables its buttons while one runs, `useHueRuntimeStatus.ts`), but one of each may overlap. `LatePolls`: the poll's
answer may come after other steps. `LateMonitors`: a monitor may still be in its backoff when the next start decides.
`Mishaps` names what may go wrong and `MaxMishaps` how often; `Streams` bounds the senders ever spawned and a run
rests where they are used up.

**Runs.**

| run | instance | shows |
| --- | --- | --- |
| `hue_sessions` | 2 starts, stops or restarts in turn, late polls, 7 senders, budget 2, five deaths, failed reads or refused keys; 168k states | `StoppedHoldsNoStream`, `SnapshotIsHome`, `StopRestores`, `RunningStreamHasArea`, `ReconnectEnds`, `CallsEnd` |
| `hue_refusals` | a transaction's call and a Devices-view call that overlap, late polls and monitors, three mishaps of every kind, 5 senders, budget 2; 1.8M states | `StopIsFinal`, `OneRestart` |

*Why these bounds.* A session and a call that ends or replaces it are two calls: a start over a stream that died, a restart, a
stop, with a monitor and a poll beside each. Five mishaps spend the budget of two and leave three: one for a stream that is
rebuilt before, one for a refused key, one for what follows. Two bring-ups and five deaths are seven senders. The instance
reaches both values of `stale`. The theorems carry the safety properties to any number of all.

*What `hue_sessions` assumes.* Its properties do not hold with everything switched on, and the model says where:
(1) with overlapping calls, a restart whose decision is a no-op still brings a second stream up
(`hue/commands.rs:880-897`, where the start returns early at 288-298), and the first one's end deactivates the area under
it; (2) with `LateMonitors`, a monitor in its backoff clears or fails the session that replaced its own, and
`register_area_taken_over` leaves that stream live under Failed (`hue/retry.rs:104`; `docs/architecture/hue.md:803`
says "Every way into it lets go of the stream"); (3) with a lost deactivate, another app or a stop that timed out, the bridge
holds the area past the restore. The run has none of these; they are listed as hazards with what still covers them.
Two more cases are inside the run, and the property is stated beside them with `stale`:
(4) `RunningStreamHasArea` says nothing once a start decided on a reading that no longer held. In `MCHueRuntime_late_end.cfg`
a start reads the area free while a monitor rebuilds a dead stream; the rebuild lands; two polls fail and spend the budget, so
the runtime is Failed and lets go of the new stream, whose sender has not ended yet; the start decides on its old reading and
brings up a stream of its own; the first one's end deactivates the area under it, and the runtime says Running.
(5) `SnapshotIsHome` and `StopRestores` say nothing once a late answer hid a rebuild: a poll asks a stream, which dies; its
monitor rebuilds it, Starting; the answer says Running, so a stop does not wait for the rebuild, and the lamps are painted after
its restore (`MCHueRuntime_stale_poll.cfg`). Every other late answer is covered.

**Fairness.** Weak fairness of each call, each monitor, each sender that has lost its handles, and the poll: tasks and
threads of their own, none waiting on user input. Deaths and other mishaps are never required.

## 4. Retune

**State.** `stored`, `accepting`, `awaiting`, `applied` are the fields of `TuningCell`, `turn` its FIFO lock (the holder and
those who wait). `retuning` is the `retune_lighting` call of each window, `tx` the one transaction that holds the transition
lock, `waiting` the choices behind it. `cell`, `trailing`, `spaced` are the snapshot cell; `news` the snapshots on
their way to each window, in no order; `held` what each window shows; `inFlight`, `pending`, `lastSent` its coalescer.
`scheduled`, `awake`, `saved` are the settled save and `lightingMode` on disk. `output` is what the lamps carry and `mode`
what the owner recorded when the mode started: a retune changes the first only.

| code | definitions |
| --- | --- |
| `createRetuneCoalescer`: push, start, finally, reset, observe | `Push`, `StartSend`, `Answered`, `Reset`, `Deliver` |
| `handleLightingModeChange`, the popup's `handleModeClick`, `run_tray_lighting` | `ShownKind`, `MainChooses`, `PopupChooses`, `TrayChooses`, `Arrives`, `Store` |
| `useLightingRuntime`: listen, seed, adopt | `Open`, `Seed`, `Adopts`, `Deliver` |
| `TuningCell::retune`, `Accepting::apply`, `retune_lighting` | `RetuneQueues`, `RetuneStores`, `RetuneSends`, `RetuneCounts`, `RetunePublishes`, `RetuneDefers` |
| `schedule_persist`, `persist_running_choice`, `persist_mode` | `Schedule`, `SaveWakes`, `SaveWrites`, `StoredOnDisk` |
| `publish`, `publish_coalesced`, `flush_trailing`, `publish_running` | `Publish`, `PublishCoalesced`, `FlushTrailing`, `PublishRunning` |
| the transaction's share: close, read, apply or refuse, commit, save, finish | `Begin`, `Closes`, `GivesWay`, `TurnsOff`, `FindsCurrent`, `LeavesAlone`, `Reads`, `Applies`, `Refuses`, `Fails`, `Commits`, `Finishes` |

The section boundaries are the code's: `is_current` and the generation read after it are two steps because they are two
locks; marking what the mode carries comes after the turn is let go of; the commit's replay is done with the turn held.

**Abstractions.** A payload is its kind, a look and a brightness; the brightness is one shared value and a kind's own stored
one is never read, because the shared one is always set once a mode has been stored. Outputs, targets and Hue are not in
this module (they are `LightingTransaction`'s). Left out: a `retune_lighting` that fails as a call, the stale mark of a
settings save, test patterns and preview scenes with their blocking close and commit, a sunrise's start time, publishes
that change the phase alone. The save's read and its write are one step, and so are the commit's install and its replay, which
hold the turn. The main window's choice carries the payload of the kind it names, and its click and its arrival in Rust
are one step (`MainChooses`), though a choice of Ambilight first awaits the screen-recording permission and every choice the call
itself (`useLightingModeOrchestrator.ts:368-388`): what the other actors do in between counts as done before the click. A window's listen and its seed are
served in the order they were asked for. A message that the revision check will drop and that answers nothing is not kept.

**Run.** `retune`: two kinds, two looks, the main window and a popup that may open at any time, three acts (values committed,
choices, the popup's opening), at most two of either; applies run, fail or are refused. 2.7M states. It shows `DragsLand`,
`WindowsCatchUp`, `DragsAreSaved` and `OnlyTheTransactionSends`. *Why these bounds.* A value lost needs a retune and a choice;
a value overwritten by an older one needs a second of either; a third act lets what is quiet again be disturbed. The same
instance with one look and two brightnesses (6.6M states, too long to be listed) passes as well: the brightness is the part
of a value that a retune of a kind that does not run leaves alone. The windows rest once the acts are
used up, hence no deadlock check. `Alike` exchanges looks and kinds: Off is the empty set, not a kind. `DragsLand` is
about endings that applied; those that left the mode as it was are in section 9.

## 5. LocalOutputs

**State.** `entry`, `at`, `nextConnect`, `revision` are the registry; `conn` and `disc` the connect and the disconnect under
way per port; `present`, `misses`, `listing` the watcher; `wire`, `reads`, `held`, `listener` the window's copy. Of times in
milliseconds the code makes one comparison, whether a connect came after the watcher's listing: `fresh` is that comparison,
taken back for every entry and every call under way when a new listing is taken (`Ages`). `pulled` is a ghost: the cable
went since the open behind the entry.

| code | definitions |
| --- | --- |
| `connect_serial_port`, `serial_connected`, `serial_failed` | `Connect`, `Settled`, `Record`, `SerialConnected`, `SerialFailed` |
| `disconnect_serial_port`, `let_go`, `restore_serial` | `Disconnect`, `LetGo`, `RestoreSerial` |
| `serial_watch_tick`, `SerialWatch::poll`, `serial_lost` | `List`, `ListBadly`, `Baseline`, `Missed`, `Lost`, `Cleared`, `Poll` |
| `createLocalOutputs` | `Listening`, `Refresh`, `Capture`, `Ingest`, `Arrives`, `ReadArrives` |
| cables | `Unplug`, `Plug` |

**Abstractions.** Serial strips only: a bound WLED device is left out. What `let_go` does to the lighting is its answer,
granted or refused. A connect finds its port or finds it gone: a listing that fails during one and a connect
task that does not come back are left out. One disconnect of a port is under way at a time; a second one would be answered as not
connected. A poll is one step, since a write that comes between its two looks at the registry acts as if it had
come before or after it. `listed_at` is taken with the listing. A read of the registry does not fail, an enumeration that
fails is no poll, and two listings in a row do not miss the same port that is there: that is what
`MISSES_BEFORE_LOST` takes for an unplug, and `LostWasPulled` is about everything else.

**Run.** `outputs`: two ports; one event (a cable, a refused open, a bad listing, a refused disconnect) with three calls, or two
events with one call (`MaxMoves` counts an event twice); 853k states. Three calls and two events together (`MaxMoves` 7, 6.3M
states, too long to be listed) pass as well. *Why these bounds.* One event and a connect under way are a strip lost late or never,
and a pull and a return are two events. A second strip is needed to see the driven one jump, and a third call for the two
connects before a disconnect that is refused while another connect lands. Initial states that differ by the names of ports are one (`InitUpToNames`). The theorems carry
everything but `GoneStripIsLost` to any number. The system rests when nothing is plugged in or asked for.

**Fairness.** The watcher thread polls for the life of the app, commands and the window's tasks run to their end. No user
or cable has to do anything, and an announcement need not arrive.

## 6. ShellState, and Settings which it implements

`Settings` says what a reader may count on: one value per key; each accepted write changes its own key and builds on all
that was accepted before; a launch, a migration, a refused or a failed write change nothing; only a file damaged while no
process runs loses what the backup lacks. `ShellState` is the code, and `SettingsKeepPromise` is `Settings!Spec` under
the mapping: the settings are what the store holds (or would load), the backup is the `.bak` file's.

**State.** `file`, `bak`, `loaded` (the copy in memory, its revision, whether the file on disk is good) are Rust's; `call` is
each caller's command in flight with the document and revision it read; `queue`, `failing` the main window's write
queue and its health; `phase`, `shown`, `inbox` each window. `missed` and `saved` are kept for two properties. A value is the
set of writes it shows, so that an edit that overwrites another's is visible.

| code | definitions |
| --- | --- |
| `load`, `write_state_file`, `commit`, `with_loaded` | `Load`, `Store`, `Rotate`, `Commit`, `CommitFails`, `CrashInCommit` |
| `get_`, `patch_`, `replace_shell_state`, `patch_from_rust`, `update_from_rust` | `GetShellState`, `PatchShellState`, `ReplaceShellState`, `Conflicts`, `RustWrites`, `SaveLitKind`, `ForgetDevice` |
| `loadShellState`, `readShellState`, migrations, `hydratePreferences` | `Launch`, `OpenFollower`, `ReadAnswered`, `WritesBack`, `ReadsAgain`, `Hydrates` |
| `subscribeToOtherWindowsWrites`, `merge` | `Joins`, `Delivered`, `Merge`, `Announce` |
| `setPreference`, `saveShellState`, `updateShellState` | `SetPreference`, `UpdateShellState`, `SaveSettles`, `UpdateSwaps`, `UpdateReadsAgain`, `UpdateSettles` |

**Abstractions.** Three keys stand for three kinds: one the main window sets and Rust reads, one Rust writes, one that holds
nested entries. The eleven migration steps move the version and no value. Only the main window may replace, as the
capability files grant; the popup's own saves, choices made before the first read was answered (`chosenBeforeLoad` in
`preferences.ts`), a live preview that is shown and not saved, reads that come later than the first, the store that works in memory when
there is no directory, and a read that fails at launch are left out. One process has the file, and nothing damages it while
that process runs.

**Run.** `shell`: the main window and a follower, 2 writes of any kind, one failed write or rotation, two ends of the process
(one of them between the rotation and the rename), one damaged or deleted file; 452k states. It shows `HeldIsWhatLoads`,
`BackupIsGood`, `SavedIsShown`, `FollowersKeepUp`, `WritesSettle` and `SettingsKeepPromise`, the refinement. Two larger
instances are run by hand and pass as well: `MCShellState_disk.cfg` (the main window alone, 3 writes) and
`MCShellState_windows.cfg` (both windows, 3 writes, no end of the process).

*Why these bounds.* A lost write needs a read, a write of another and a swap; a third write, one that follows the loss, is what the
instances run by hand add.
Two ends are one in a commit and one to come back from. The attempts are 2 where the code has 3 and 5, so that giving up
happens.

**Fairness.** Rust answers every command it was sent, a window takes every answer and event.

## 7. HueOnboarding

**State.** `sel`, `key`, `cred`, `unreachable`, `rows`, `area` are the hook's state (`selectedBridgeId`, the credentials,
`credentialState`, `bridgeUnreachable`, `areaGroups`, `selectedAreaId`); `setAside`, `run`, `pairing`, `timer` its refs. `saved` is
the pairing in the shell state, `keychain` whose pair the operating system keeps. What is under way is kept apart: a pairing
request per run (`request`), the checks at either of their two awaits (`checks`), the listings (`lists`), one search (`scan`), the
launch (`boot`), one forget (`forgetting`). A key is named after the bridge that issued it; `Blank` is the empty pair
the hook holds for a keychain whose pair it has not read. `asked` is a history: the bridge the user asked to pair and has not let go of.

| code | definitions |
| --- | --- |
| `initialize`, `migrate_hue_credentials` | `BootLoads`, `IsPaired`, `SavedKey`, `BootMigrates` |
| `validateBridge`, `recheckBridge` | `StartsCheck`, `CheckAnswered`, `CheckListed`, `Recheck` |
| `refreshAreasWith`, `selectArea` | `StartsList`, `RefreshAreas`, `AreasListed`, `ListingFails`, `SelectArea` |
| `pair`, `stopPairingPoll`, `pair_hue_bridge` | `Pair`, `StopPairingPoll`, `PollAgain`, `LinkButtonAwaited`, `KeyIssued`, `PairingFails` |
| `selectBridge` with null | `Cancel` |
| `forgetBridge`, `forget_hue_bridge` | `AskForget`, `ForgetStarts`, `ForgetRefused`, `Forgets`, `ForgetAnswered` |
| `discover`, `submitManualIp`, `adoptBridgeAddress` | `OffersSearch`, `Search`, `Scanned`, `Typed`, `Adopts`, `SearchFails` |
| `CredentialStore`, `effective_hue_app_key` | `Written`, `Resolved` |

The user's actions carry the guards of the cards that offer them (`hueBridgeCardState.ts`, `FoundBridgeRows`, the confirmation of a
forget): the hook alone would allow more.

**Abstractions.** Addresses are kept as whether an answer found the selected bridge somewhere else. Two checks of the same
bridge with the same key that wait at the same place are one. A save is a step of the saved state: the order of one
window's saves is `ShellState`'s subject. A keychain pair that is older than the record of its bridge is taken for its
bridge's. Left out: the readiness checks, `hueOnboardingStep`, leaving the Devices view, and the block on pairing another bridge
while a stream is up. How `forget_hue_bridge` takes Hue out of the lighting is its answer, granted or refused; what it does is
`ReleaseArrives` in `LightingTransaction`.

**Run.** `pairing`: two bridges with an area each; the launch finds nothing, a pair in the file or one in the keychain; each pairing
polls again once, the user asks for three things; 209k states. It shows `PairingIsPolled`, `OnlyAskedPairingsLand` and `WaitsEnd`.
The same instance with a keychain that may refuse a write or a delete (`MCHueOnboarding_refused.cfg`, 478k states, by hand)
passes too, with `TypeOK`. *Why these bounds.* A late key needs a pairing, a change of mind and a second pairing. A second bridge is
what a key can be wrongly taken for. A second poll of one run does what its first does. The system rests when the user asks for
nothing, hence no deadlock check.

**Fairness.** Commands answer and timers fire. The user need not do anything; that a pairing ends is its deadline's doing, which
`MaxPolls` stands for.

## 8. SerialWriter

**State.** `live`, `opening`, `dropped` are the table's entries for the port. Per session: `slot` (`WriterSlot` by field), `writer`
(where `run_writer` is and the packet it took), whether its handle is open, and in which plugging of the cable it was opened.
`sleeping` holds who waits on a session's `changed`, so that a wake-up that is missing is seen. `call` is the call of each thread:
its place, the session and packet it deals with, whether it has tried before, its answer. `wire` is the last packet the strip showed;
packets are numbered as they are accepted. `upto` and `clean` are history.

| code | definitions |
| --- | --- |
| `ensure_open`, `port_factory` | `WaitsForOpen`, `StartsOpen`, `InTheWay`, `PortOpens`, `PortRefuses`, `Files`, `Awake` |
| `SerialLedPacketSender::queue`, `WriterSession::queue` | `Queues`, `QueueFindsDead`, `Accept`, `Queued` |
| `wait_written`, `remove_if_current` | `WaitSucceeds`, `WaitSleeps`, `WaitFails`, `RemoveIfCurrent` |
| `disconnect_session`, `Drop for WriterSession` | `Removes`, `MarksClosing`, `DropSleeps`, `Detaches` |
| `run_writer` | `WriterSleeps`, `WriterTakes`, `WriteEnds`, `GetsStuck`, `Publishes`, `WriterLeaves`, `ClosesPort`, `HasLeft` |
| `SolidUsbOutput::send` | `TriesAgain`, `Answered` |

**Abstractions.** Ports share the sessions lock and nothing else, and nobody holds it while waiting, so one port stands for all.
The pacing of writes and the settle after an open only put a write off, which a writer may do anyway. Whether a handle of an
earlier plugging keeps the port from being opened differs between systems, so either may happen; that a port is open once per
plugging is the `serialport` crate's exclusive open. A wait's and an exit's timeout pass only over a write that is stuck. What a
write says of how many bytes went out is whether it failed. A writer thread that cannot be spawned after its port opened
(`serial.rs:417`) is a refused open, and a poisoned sessions lock, after a panic, is left out. The encoding and the split of a run over several strips are left out.

**Run.** `writer`: a caller that sends and paints and one that sends and drops, three calls, one mishap (the cable pulled and
put back, a refused open, a failed write, a failed flush, a driver that does not come back); 196k states. It shows
`NothingOlder`, `PaintTellsTheTruth`, `DisconnectLetsGo`, `HandlesAreOwned` and `NothingStalls`. With any caller doing anything
(`MCSerialWriter_any.cfg`, 834k states, by hand, safety only, with `TypeOK`) it passes too. *Why these bounds.* An open can be met
by a second open and a drop; a paint by a send and a drop. One mishap leaves one dead session, and a paint's second try is what
meets it. The theorems carry the safety properties to any number of all.
`Sessions` and `Packets` are as many as the calls can use, so their bounds never hold a call up: `NothingStalls` would show it.
Threads may have nothing to do, hence no deadlock check.

**Fairness.** Threads run: the callers' and the writers' steps are taken, also wake-ups. A write that is stuck need not come back.

## 9. Where the code and its documents disagree

Each is a configuration whose one property states what a document or a comment says, and which fails. Most traces are
short; `put_back` and `late_end` take over thirty steps. The named run is listed in `PROJECT.json`; the others are checked by hand with the `.cfg` of their name
(`tlc -config <cfg> <module>`).

| run or `.cfg` | property | what happens |
| --- | --- | --- |
| `MCLightingTransaction_settings_lost` | `SavedSettingsReachTheMode` | a commit after a settings save marks the older payload current |
| run `typed_key` | `KeyIsItsBridges` | Cancel of a re-pair clears the selection and keeps the credentials (`useHueOnboardingCore.ts:537-549`); the address of another bridge typed next meets no selection, `otherBridge` is false (`:622`, `:631`), and the bridge is shown with the first one's key and saved as the paired one (`:639-640`). `hue.md:818`: "the pair stays with the bridge that issued it" |
| `MCLightingTransaction_choice_unsaved` | `AppliedChoiceIsSaved` | a commit clears the save obligation that a newer choice wrote while it ran |
| `MCLightingTransaction_choice_lost` | `NewestChoiceRuns` | a refused choice settles the intent's kind over a newer choice's, which then answers applied with the old kind running |
| `MCLightingTransaction_choice_ended` | `NewestChoiceRuns` | the turn of an unplug ends the mode and writes back, with Off, the selection it found on arrival (`outputs/transaction.rs:830-856`); a choice recorded while it stopped the lights is lost, and is answered applied with nothing running |
| `MCLightingTransaction_put_back` | `OnlySelectedIsLit` | the turn of an unplug that names no output left begins with an Off that stops Hue; a choice of a mode on the strip alone is recorded meanwhile; the unplug's end puts back the selection of both that it found on arrival (`outputs/transaction.rs:375-381`), so the choice's turn runs on Hue as well, which it deselected; a refresh whose area move fails then takes Hue out of the intent and its apply is gated: Hue is lit, and neither the intent nor the saved selection has it |
| `MCLightingTransaction_stray_stream` | `UnusedStreamReleased` | a Hue start that finds no lights leaves its stream up with no owner |
| `MCLightingTransaction_release_off` | `IntentFollowsWhatRan` | a release while nothing runs answers without reconciling, and the choice it superseded never runs |
| `MCHueRuntime_stale_poll` | `StopAlwaysRestores` | a late poll's answer turns Starting into Running during a rebuild; the stop does not wait for it and the lamps stay painted |
| `MCHueRuntime_late_end` | `RunningAlwaysHasArea` | a start decides on a reading from before a reconnect and a spent budget; the stream the budget let go of ends late and deactivates the area of the one that start brought up (section 3) |
| `MCRetune_shown` | `SnapshotShowsWhatRuns` | a refused apply answers with `owner.active_mode` (`transition.rs:366-374`), which retunes never change, and `apply_waiving` publishes it as running (`outputs/transaction.rs:146`): after a drag and a refused choice every window shows the value from before the drag while the dragged one runs. `useLightingRuntime.ts:20-22` says the windows "agree on what runs" |
| `MCRetune_deferred` | `DeferredLands` | `is_current` and the generation read after it (`outputs/transaction.rs:513`, `:518`) are two locks; a retune deferred between them counts as carried and is not applied, though it was answered "Stored; the lighting change in progress applies it when it lands." (`tuning.rs:555`) |
| `MCLocalOutputs_bounce` | `GoneLeavesTheBaseline` | a lost port that is back for exactly one poll re-enters the baseline while its miss count stays (it was in neither the baseline nor connected at that poll, so nothing removed it, `device_connection.rs:1027-1033`); pulled again, the count passes `MISSES_BEFORE_LOST` without meeting it, the port stays "present" for good, and its next return is not told, though `device-output.md:181` says the controller "reconnects the saved port when it reappears" |
| `MCShellState_revert` | `RevertShowsStored` | two choices of one setting fail in turn: the second's revert shows the first, which was never stored; `preferences.ts:153-154` says it reverts "since showing a choice that was never stored would lie" |
| `MCShellState_boot_gap` | `KeptInStep` | a write announced after a window's read and before its listener is registered is not shown; `preferences.ts:3-4` says the store is "kept in step with every window's writes" |
| `MCHueOnboarding_forgotten` | `ForgottenIsGone` | a check, a listing or the launch's move to the keychain saves its result after the forget cleared the pairing; `hue.md:691` says a forget removes everything the app keeps of a bridge |
| `MCHueOnboarding_forgot_other` | `ForgetKeepsOthers` | `forget.rs:58-70` compares the saved bridge before the await that takes Hue out of the lighting, `:112` clears whatever is saved after it: another bridge paired in between is unpaired |
| `MCHueOnboarding_replaced` | `PairedIsSaved` | a late key for a pairing that was cancelled replaces the keychain's pair (Rust stores it before the hook drops the answer): the bridge set aside is shown as paired, "key and all: the key is still saved" (`useHueOnboardingCore.ts:512-515`), and its key is not |
| `MCHueOnboarding_unchecked` | `ChecksSettle` | a bridge set aside while its key was being checked comes back as unknown after the check's answer was spent on the other bridge: its card shows a check that never ends, without Retry (`hueBridgeCardState.ts:166`) |
| `MCHueOnboarding_shown_pairing` | `PairingEnds` | a forget stops the poll first; refused, it leaves `isPairing` set with no poll to clear it (`useHueOnboardingCore.ts:556-575`) |

Beside these, `validateBridge` (`useHueOnboardingCore.ts:377-388`) does not read the code of the listing that follows a check, so a
listing that failed shows as a bridge without areas, where `hue.md:821` tells the two apart; no property states it.

The passing runs keep these apart from everything else: `races` has no refusing hardware, `faults` has no start without
lights and no release, `DeselectedGoesDark` sets apart what `older` tells of (`put_back`), `StopRestores`, `SnapshotIsHome` and
`RunningStreamHasArea` what `stale` does (`stale_poll`, `late_end`), `DragsLand` asks for an ending that applied, `SavedIsShown` for a
save that landed, `FollowersKeepUp` leaves out the keys a window missed.

## 10. Faults put in

An operator named `X_Y` is `X` with the fault `Y`, next to `X` in its module, and no action uses it. Replacing `X` by it must
break the property it is paired with in `PROJECT.json` ("mutants"). They show that each property can fail.
Examples: `DropsHue_NotOurs` forgets streams of this module that the mode did not use, `Adopt_Newest` lets the last snapshot
win, `Installs_Unreplayed` leaves a drag during a start to the next retune, `Cleared_Unasked` clears a port without
asking whether its connect is newer than the listing, `HasLeft_First` says a writer has left before its port is closed, `Conflicts_OnVersion` swaps a document in over a write that
landed since it was read.

## 11. Proofs

The theorems hold for every number of calls and streams, every set of modes, requests and starts, every budget, every
bound on faults, every subset of the mishaps, every set of ports, callers, bridges, areas, windows, kinds and values; the assumptions are the
`ASSUME`s of the modules (what the constants are, never how many). Where a theorem assumes more, the text under its table says what and why.

**LightingTransactionProofs**

| theorem | says | argument |
| --- | --- | --- |
| `TypeCorrect` | `Spec => []TypeOK` | `TypeOK` alone is not inductive: an unplug or a release writes back the selection it kept, so it must have kept one. `CallInv` adds `SelectionKnown` (a kept selection is one once the call is past its arrival), `QueueWaits` (the queue holds queued calls, each once, so the answer of one leaves no entry) and `TurnsInOrder` (one holder, which is where `at` says). |
| `OneTurnAtATime` | at most one call is in its turn | from `TurnsInOrder` |
| `QuitIsFinal` | `Spec => []QuitStaysDark` | every step that lights asks `Gated("SHUTTING_DOWN")`, every start asks `StartAnswers`, a bring-up under way finds the stream idle |
| `LeaseOwnership` | `Spec => []LeaseOwnsOnlyWhileHeld` | `LeaseInv`: inside a turn the lease may be given back before its stream is stopped, so the invariant says where the holder then is |
| `TestStreamSafe` | `Spec => TestStreamIsTheTests` | a case per step that makes the stream idle, from `LeaseInv` |

**LightingOutcomeProofs**

What is left once every call is answered. A turn ends early when a newer call has taken a ticket, and what it leaves undone is
that call's to do. So each invariant says of a wrong state: a newer call is on its way to its turn (`Owed`), or the turn in hand
still comes to the step that puts it right (`WillDrop`, `WillFollow`, `WillDarken`). With every call answered neither can be, and
the property follows. `OwedInv` carries the first half: a turn that is overtaken has a newer call on its way, because each ticket
that may change the mode belongs to a call that will take its turn. `LightsInv` says what a turn's locals know of what runs.

| theorem | assumes | says | argument |
| --- | --- | --- | --- |
| `ModesKeepTheirStream` | `MaxFaults = 0` | `Spec => []HueModeHasStream` | `SteadyInv`: the stream is live while a mode drives it; `Steady` says at which places a turn is about to stop it, and that nothing runs on it there |
| `SpareStreamsEnd` | `Calibrated`, no `NO_LIGHTS` | `Spec => []UnusedStreamReleased` | `StreamInv`: `Rising` and `Openers` tie who opened a stream to `hue_owner`; `SpareIsDropped`: a stream nothing drives has a newer call owed, or a turn that comes to `hue_down` |
| `TestsLeaveNoStream` | the same | `Spec => []TestLeavesNoStream` | the same invariant, with `LeaseInv` |
| `IntentIsWhatRuns` | `~ArrivalsOverlap`, no release | `Spec => []IntentFollowsWhatRan` | `IntentInv`: a mode carries the intent's kind from its start to its end (`KindWanted`, `WantsIntent`), what ran is that kind (`RanRuns`), and where the two differ `Follows` names the step to come |
| `DeselectedOutputsGoDark` | `Calibrated`, `~ArrivalsOverlap` | `Spec => []DeselectedGoesDark` | `SavedInv`: unless the intent is `older`, what a turn wants, drives and ran is within the saved selection, or a newer call is owed (`SelectionSaved`); in fact nothing runs that is not in the saved selection. `KeptSaved`: so is what an unplug or a release keeps, unless a choice that replaces it has superseded it (`TicketsInOrder`) or is on its way, and then its put-back makes the intent `older` |
| `NothingLitWhileAway` | `HardwareWorks`, `~ArrivalsOverlap`, no release | `Spec => []AwayStaysDark` | `WorksInv`: no turn is refused or falls back, so nothing writes a kind over the `Off` of a Leave (`AwayIsOff`); with `IntentInv` what runs is then `Off` |
| `TheNewestChoiceRuns` | `ChoicesRun`: the same, `~MayQuit`, every selection names an output | `Spec => NewestChoiceRuns` | `ChoiceInv`: the newest ticket is one choice's (`SoleChoice`), the intent has its mode from its record on (`KindChosen`), and so has the turn that began with it (`WantChosen`); `SomeOutput`: no mode ends for want of an output |

The hypotheses are what the code needs; each leaves out something that breaks one of these properties:

- `NO_LIGHTS`: a start that finds no lights leaves its stream up with no owner (`stray_stream`, section 9). Uncalibrated: a mode
  that is refused for want of a layout answers before `hue_down` (`transaction.rs:399`).
- *No release*: a release that finds nothing running ends without settling the intent (`release_off`).
- `~ArrivalsOverlap`: two calls that take tickets in one order and write intents in the other (`transaction.rs:1147`).
- `HardwareWorks` (every start brings a stream up, no apply fails, nothing is unplugged, the area stays): a refusal settles the
  intent's kind over the one a Leave or a newer choice wrote (`choice_lost`).
- *Nonempty selections*, for `TheNewestChoiceRuns`: a mode with no output to run on is answered `applied` with nothing running.
  `~MayQuit`: the quit stops the lights of a mode whose turn then ends `applied`.

`DeselectedOutputsGoDark` leaves out no unplug and no release. What it leaves out is in the property: without `older` it is false
(`put_back`, section 9), and with it the theorem says that a put-back over a newer selection, or an unplug named by a window that
had not heard of it, is the only way for a deselected output to stay lit.

`races` satisfies the hypotheses of `TheNewestChoiceRuns`, `NothingLitWhileAway`, `IntentIsWhatRuns` and `ModesKeepTheirStream`,
`faults` those of `IntentIsWhatRuns`, `DeselectedOutputsGoDark` and `SpareStreamsEnd`.

**HueRuntimeProofs**

| theorem | says | argument |
| --- | --- | --- |
| `RuntimeTypes` | `Spec => []TypeOK` | inductive as it stands; the budget's part is `FaultTypes` |
| `StopHolds` | `Spec => []StopIsFinal` | only `Decide` clears the override, and each step that sets a state or a stream asks for it first |
| `RestartsOneByOne` | `Spec => []OneRestart` | `RestartInv` adds `FreshSenders`: a sender that is built and not stored has no monitor and one builder, so that arming its monitor cannot overwrite one that restarts |
| `StoppedRuntimeIsBare` | `Spec => []StoppedHoldsNoStream` | `SideInv`: one call at a time (`OneCall`), a restart has stopped the runtime until it decides, a bring-up starts with every monitor ended and no stream (`BringsUpAlone`), and a monitor past its clearing finds no stream (`RestartsBare`), so what stops the runtime has none to forget |
| `SnapshotsAreHome` | `Spec => []SnapshotIsHome` | `LampsInv`, below |
| `StopsRestore` | `Spec => []StopRestores` | `LampsInv`: while the lamps are painted, or a monitor may still paint them, the owner, a bring-up or the stop that took it has the lamps as they were (`HomeKnown`). A monitor past its last look is known to somebody (`BuildsKnown`: the runtime says Starting, or the stop that overtook it waits for it), so a restore comes after the last of them, and nobody but a living sender is on the area it waits for (`AreaIsLive`) |
| `RunningStreamsKeepTheArea` | `Spec => []RunningStreamHasArea` | `WatchInv`: one monitor is on at a time, the owner's stream is watched, an active runtime without a stream is on its way to one. `OwnInv`: a sender that runs and was not deactivated has the area (`UpHasArea`), nobody deactivates a stream that has a handle (`HandledUnspent`, `LetGo`), somebody answers for whoever is on the area (`AreaHolder`), and who builds finds it free (`AreaFree`): so a late deactivate finds its own stream on the area or was made already |

The last four assume the transaction's calls alone and no monitor left over (`UiCalls = {}`, `~LateMonitors`). Without the first
even `StoppedHoldsNoStream` is false: beside a Devices-view restart a start stores its stream over a death, and the restart
stores its own while the dead one's monitor releases the area; the monitor finds the area held, takes that for another app
(`AreaTakenOver`) and leaves the restart's stream under Failed. Section 3 says what else happens. The last three also assume no mishap but those of `hue_sessions`: senders that die, reads that
fail, keys that are refused. Polls answer as late as they like. Their invariants hold unless the history says otherwise: `LampsInv`
unless an answer hid a rebuild (`Hidden`), `OwnInv` unless a start decided on a reading that no longer held (`Outdated`). `AreaInvHolds` and
`BringUpInv` are shared by the last three.

**RetuneProofs**

| theorem | says | argument |
| --- | --- | --- |
| `TypesHold` | `Spec => []TypeOK` | `TypeOK` in parts, one per group of variables, so that a step is asked only about the parts it changes |
| `WindowsShowTheNewest` | `Spec => []WindowsCatchUp` | `Mirrors`: nothing anywhere is newer than the cell (`Dated`); a seeded window has the newest revision, or it is on its way (`NewestComes`); while no emit is held back a revision stands for one content (`OneContent`) |
| `DragsReachTheOutputs` | `Spec => []DragsLand` | `Lands`: a transaction starts with the newest payload, or the generation it saw tells its commit of a newer one (`Reading`, `Committing`); after it the outputs carry the newest, or a retune that is sending brings it (`Carrying`) |
| `DragsReachTheDisk` | `Spec => []DragsAreSaved` | `Saves`, on top of `Lands`: after a choice the kind that runs is the one asked for, shown and saved (`Settling`, `Kept`), and its newest payload is on disk, or a save is scheduled, is awake or is still to be scheduled by a call under way (`SaveComes`) |
| `OutputsAreShut` | `Spec => OnlyTheTransactionSends` | `SenderHolds`: a retune that sends is the head of the turn; `ShutIsShut`: from a close to its commit nothing accepts, and no retune is sending: the close waited for the turn, and no new one starts because nothing accepts |

**LocalOutputsProofs**

| theorem | says | argument |
| --- | --- | --- |
| `TypesHold` | `Spec => []TypeOK` | a port refused its name never becomes an entry; the miss counter is bounded |
| `StoreEndsRight` | `Spec => []StoreCatchesUp` | `Faithful`: a snapshot anywhere of the registry's revision is the registry; `NewestReaches`: the newest is held, on the wire or still to be read |
| `OnlyThePulledAreLost` | `Spec => LostWasPulled` | `PulledIsKnown`: a strip whose cable is out and whose open was before that is marked pulled; `ListingIsRight`: what a listing or a first miss lacks was pulled, unless its connect is newer or one listing was bad |
| `NoConnectTakesOver` | `Spec => DrivenStays` | `Ordered`: places are given out once, none above the counter |

**HueOnboardingProofs**

| theorem | says | argument |
| --- | --- | --- |
| `TypesHold` | `Spec => []TypeOK` | a launch that moves a pair to the keychain holds a bridge's key, never the empty one |
| `OnePollPerPairing` | `Spec => []PairingIsPolled` | inductive with `TypeOK`: a run is numbered above every request that is out, so an older answer finds another number; what ends a run leaves no timer |
| `LateKeysAreDropped` | `Spec => OnlyAskedPairingsLand` | an answer that is taken is the current run's, whose request is `pairing`, which is `asked` by `PairingIsPolled` |

**SerialWriterProofs**

| theorem | says | argument |
| --- | --- | --- |
| `TypesHold` | `Spec => [](TypeOK /\ Control)` | `Control` is what a place in the code implies: where a writer is decides whether its port is open (`WritersKnown`), what a call has in hand (`CallsKnown`), one caller opens at a time and finds no session (`OneOpener`), sessions are numbered as they are opened (`Counted`). The types need it, since a call's session is one only where the code has found one |
| `DisconnectsLetGo` | `Spec => []DisconnectLetsGo` | `DropsHold`: from the moment a drop took the table's session out, what is filed is newer than the drop, or its opener finds it dropped |
| `PortIsOwned` | `Spec => []HandlesAreOwned` | inductive with `Control`: a call hands its session on to the table, to a drop, or to a writer that is inside a write and, closing, takes no other packet |
| `NothingOlderReaches` | `Spec => NothingOlder` | `Newest`: at most one handle reaches the strip, and what its writer holds or its slot keeps is no older than what the strip shows |
| `OkPaintsAreWritten` | `Spec => []OkIsWritten` | `WrittenIsShown`: a packet counts as written once the strip showed it or a newer one; only a wait that saw its packet written answers ok |
| `PaintsTellTheTruth` | `Spec => []PaintTellsTheTruth` | the above, and `CleanRuns`: a paint that nothing disturbed since it began is alone, has its way clear (`WayIsClear`) and, at each place of its two tries, what it needs to end with ok (`Tries`); it rests on `Sound`: a session that is opened is new and its opener's alone, the table's session is not being dropped, and a writer ends for a reason its slot shows |

**ShellStateProofs**

| theorem | says | argument |
| --- | --- | --- |
| `TypesHold` | `Spec => []TypeOK` | with the queue's head being the write in flight |
| `MemoryIsOnDisk` | `Spec => []HeldIsWhatLoads` | with `DiskIsKnown`: what the store believes of the file is so while it is loaded |
| `BackupStaysGood` | `Spec => []BackupIsGood` | only a file known to be good is rotated |
| `PromiseKept` | `Spec => SettingsKeepPromise` (the refinement) | `ReadIsOfItsRevision`: a document read at the store's revision is the store's, so a replace let through builds on everything accepted; `Numbered` and `QueueIsNewer`: a queued write is newer than what is stored of its key |
| `FollowersFollow` | `Spec => []FollowersKeepUp` | `WInv`, on top of `IInv`: at each stage of a window's life what it has of another writer's key leads to what is stored; once it is live, the last announcement on its way that names the key brings it, and with none it is shown (`AllKeepUp`) |
| `SavesAreShown` | `Spec => []SavedIsShown` | `MainKnown`: nobody else writes the main window's own key, and the command in flight is the queue's head; `ShownIsSaved`: with no save queued and the newest landed, what is shown is stored. Both theorems need that a window takes no other writer's event for its own echo (`CallersAreApart`: `"rust"` is no window) |

*Only model-checked.* All liveness (`EveryCallIsAnswered`, `ReconnectEnds`, `CallsEnd`, `GoneStripIsLost`, `WritesSettle`, `WaitsEnd`, `NothingStalls`): the prover does not handle
liveness under fairness. Every safety property of a passing run has a theorem. Those of `LightingOutcomeProofs` and the last
four of `HueRuntimeProofs` are proved under hypotheses, which their runs satisfy.

## 12. What is not modelled, and why

- Image and colour arithmetic, geometry, encodings: floating point and tables, without state of their own.
- What a discovery asks of the network, the readiness checks before a start, updater, notifications, telemetry, app shell: request and answer, or wiring.
- The shape of the settings: their keys' contents, validation and what each migration step rewrites.
- The App-mounted device controllers (`useUsbTargetReconciler.ts` and the reconnect of the saved port): their timers react to
  the watcher's events; only the registry they read and the commands they call are modelled.
- The Hue bridge's caches and room names: read-through, refreshed on demand.
- WLED, the launch waits, the quit's timeouts: see the plan.
- That `HueRuntime` answers the transaction as `StreamAfterStart`, `StopHue`, `StreamDrops` and `Reconnects` assume:
  today two models side by side, see the plan.

## 13. Plan

In this order, the parts that decide about light and ownership first.

1. `StreamCustody`: an abstract specification of who may open, keep and close the Hue stream (idle, starting, live,
   reconnecting, failed), which `HueRuntime` implements by a refinement mapping and whose steps are the stream steps of
   `LightingTransaction`.
2. `HueRuntime`: the quit's stop with its deadline, the start that finds no lights, the HTTP session.
3. `LaunchWaits`: launch restore, the waits for a strip and for a held area, the retry schedule, a choice cancelling them.
4. `DeviceConnection`: the App-mounted reconnect of the saved port against the watcher's events and the user's own connect.
5. `Shutdown`: the cleanup steps, their timeouts, a step that is abandoned while it holds a lock.
6. `LocalOutputs`: a bound WLED device with its reachability probe.
7. `Retune`: the blocking close and commit of test patterns and preview scenes, the sunrise's start time.

Theorems next: the refinement of `StreamCustody`.
