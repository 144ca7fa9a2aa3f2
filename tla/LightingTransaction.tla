---------------------------- MODULE LightingTransaction ----------------------------
(***************************************************************************)
(* The lighting transaction of LumaSync: how a request for a mode and a   *)
(* set of outputs becomes the one running mode and the one Hue stream     *)
(* (commands/lighting_mode/outputs).                                      *)
(*                                                                         *)
(* A call arrives (ticket, intent, saved selection: each its own critical *)
(* section), waits its turn on the fair `transitions` lock, and then      *)
(* reconciles what runs with the CURRENT intent, one step per `await`     *)
(* point, so that other calls arrive between any two of its steps.        *)
(* An operator named X_Y is X with a fault Y put in; no action uses it.    *)
(* The model starts once the launch restore has been answered; the boot   *)
(* kinds of transaction and their waits are not part of it.               *)
(***************************************************************************)
EXTENDS Naturals, Sequences, FiniteSets

CONSTANTS
  Calls,            \* the calls that may be made; each is made at most once
  LitKinds,         \* the modes that light something
  Requests,         \* what a call may ask for, a subset of AllRequests
  Starts,           \* what is chosen, and what of it is lit, to start from
  HueCodes,         \* what a Hue start may answer, a subset of AllHueCodes
  ApplyFaults,      \* how an apply may fail on its own
  Paired,           \* a bridge, a key and an area are saved
  Calibrated,       \* an LED layout is saved
  ArrivalsOverlap,  \* two calls may be between their ticket and their intent
  MayQuit,          \* the app may be quit
  MaxFaults         \* bound on what the hardware does by itself

Outputs == {"usb", "hue"}
Kinds   == LitKinds \cup {"Off"}
NoMode  == "none"
Keep    == {"keep"}                 \* a request that names no targets
Origins == {"user", "unplug", "release", "leave", "return",
            "settings", "join", "lease", "giveBack"}

AllRequests == [origin  : Origins,
                mode    : Kinds \cup {NoMode},
                targets : (SUBSET Outputs) \cup {Keep}]
NoRequest   == [origin |-> "none", mode |-> NoMode, targets |-> Keep]

AllHueCodes    == {"RUNNING", "GATE_BLOCKED", "NO_LIGHTS", "AUTH_INVALID"}
AllApplyFaults == {"INVALID_CONFIG", "USB_FAILED", "CAPTURE_FAILED"}
GateCodes      == {"DEVICE_NOT_CONNECTED", "HUE_NOT_READY", "SHUTTING_DOWN",
                   "INVALID_CONFIG"}

ASSUME CallsAssumption ==
  /\ Calls # {} /\ "nobody" \notin Calls
  /\ "Off" \notin LitKinds /\ NoMode \notin LitKinds

ASSUME RequestsAssumption ==
  /\ Requests \subseteq AllRequests
  /\ \A s \in Starts : /\ s.kind \in Kinds
                       /\ s.targets \in SUBSET Outputs
                       /\ s.lit \subseteq s.targets
                       /\ s.kind = "Off" <=> s.lit = {}

ASSUME OutcomesAssumption ==
  /\ HueCodes \subseteq AllHueCodes /\ HueCodes # {}
  /\ ApplyFaults \subseteq AllApplyFaults
  /\ {Paired, Calibrated, ArrivalsOverlap, MayQuit} \subseteq BOOLEAN
  /\ MaxFaults \in Nat

VARIABLES
  intent,    \* OutputsState.intent; `older` is history: its targets are those
             \* of a selection that a newer choice had replaced
  latest,    \* OutputsState.latest_ticket
  owner,     \* OutputsState.hue_owner
  lease,     \* OutputsState.lease
  away,      \* OutputsState.away
  saved,     \* shell state: lightingMode.kind and lastOutputTargets
  running,   \* LightingRuntimeOwner.active_mode
  current,   \* TuningCell::is_current
  closing,   \* LightingRuntimeState.closing, and how far the quit has come
  stream,    \* HueRuntimeOwner.state; "live" also has an output slot
  moved,     \* the live stream is on another area than the saved one
  opener,    \* who opened the stream that is up: what the code should know
  fresh,     \* what runs was applied from the settings as saved now
  strip,     \* LocalOutputRegistry::driven is Some
  faults,    \* hardware events so far
  pc, call, ticket, keep,      \* per call
  queue,     \* the waiters of the `transitions` lock
  turn, at, tx                 \* its holder, where it is, its locals

callVars  == <<pc, call, ticket, keep>>
hueVars   == <<stream, moved, opener>>
turnVars  == <<turn, at, tx>>
inputVars == <<intent, latest, away, saved, current>>
worldVars == <<strip, closing, faults, fresh>>
modeVars  == <<intent, saved, running, current>>
calmVars  == <<latest, away, worldVars>>        \* no step of a turn writes these
vars == <<intent, latest, owner, lease, away, saved, running, current, closing,
          stream, moved, opener, strip, faults, fresh,
          pc, call, ticket, keep, queue, turn, at, tx>>

OffMode == [kind |-> "Off", targets |-> {}]
NoTx == [want |-> [kind |-> "Off", targets |-> {}, persist |-> FALSE, older |-> FALSE],
         was |-> OffMode, after |-> OffMode, kind |-> "Off", on |-> {},
         ok |-> FALSE, moved |-> FALSE, out |-> FALSE, stop |-> FALSE,
         waive |-> FALSE, code |-> "none", end |-> "none"]

Answers == {"applied", "refused", "superseded", "calibration", "shutting", "nothing"}
Arriving == {"ticketed", "unsaved", "releasing", "written"}

\* A launch that waited in vain for its strip lights Hue alone, and keeps the
\* strip selected.
Init ==
  /\ \E s \in Starts :
       /\ running = [kind |-> s.kind, targets |-> s.lit]
       /\ intent = [kind |-> s.kind, targets |-> s.targets, persist |-> FALSE,
                    older |-> FALSE]
       /\ saved = [kind |-> s.kind, targets |-> s.targets]
       /\ strip = (s.kind = "Off" \/ "usb" \in s.lit)
       /\ IF "hue" \in s.lit
            THEN stream = "live" /\ owner = "Transaction" /\ opener = "tx"
            ELSE stream = "idle" /\ owner = "Nobody" /\ opener = "nobody"
  /\ latest = 0 /\ lease = "Idle" /\ away = NoMode /\ current = TRUE
  /\ closing = "no" /\ moved = FALSE /\ faults = 0 /\ fresh = TRUE
  /\ pc = [c \in Calls |-> "new"]
  /\ call = [c \in Calls |-> NoRequest]
  /\ ticket = [c \in Calls |-> 0]
  /\ keep = [c \in Calls |-> Keep]
  /\ queue = <<>> /\ turn = "nobody" /\ at = "idle" /\ tx = NoTx

-----------------------------------------------------------------------------
(* Arrival: what a call does before it waits for its turn *)

NoArrival == ArrivalsOverlap \/ \A c \in Calls : pc[c] \notin Arriving

Asks(c, r) == /\ pc[c] = "new"
              /\ NoArrival
              /\ call' = [call EXCEPT ![c] = r]

IssueTicket(c) == /\ latest' = latest + 1
                  /\ ticket' = [ticket EXCEPT ![c] = latest + 1]

Goto(c, label) == pc' = [pc EXCEPT ![c] = label]

\* The answer goes back to the caller, and nothing of the call is kept.
Answer(c, answer) == /\ Goto(c, answer)
                     /\ call' = [call EXCEPT ![c] = NoRequest]
                     /\ ticket' = [ticket EXCEPT ![c] = 0]
                     /\ keep' = [keep EXCEPT ![c] = Keep]

\* A mode chosen while away is what runs on return.
AwayAfter_Kept(r) == away
AwayAfter(r) == IF r.origin = "user" /\ r.mode # NoMode THEN NoMode ELSE away

\* apply_outputs up to the ticket.
Arrive(c) ==
  /\ \E r \in Requests :
       /\ r.origin \in {"user", "unplug"}
       /\ r.origin = "unplug" => ~strip
       /\ Asks(c, r)
       /\ away' = AwayAfter(r)
       /\ keep' = IF r.origin = "unplug"
                    THEN [keep EXCEPT ![c] = intent.targets] ELSE keep
  /\ IssueTicket(c)
  /\ Goto(c, "ticketed")
  /\ UNCHANGED <<intent, owner, lease, saved, running, current, hueVars,
                 worldVars, queue, turnVars>>

\* A selection of the user's own; and an unplug that names what is left of a
\* selection its window had not yet seen replaced.
Selects(r) == r.origin = "user" /\ r.targets # Keep
NamesOlder(r) == r.origin = "unplug" /\ ~(r.targets \subseteq saved.targets)

\* record_arrival and the payload store: a request that carries a payload
\* makes the running one stale.
Record(c) ==
  LET r == call[c] IN
  /\ pc[c] = "ticketed"
  /\ intent' = [kind    |-> IF r.mode = NoMode THEN intent.kind ELSE r.mode,
                targets |-> IF r.targets = Keep THEN intent.targets ELSE r.targets,
                persist |-> IF r.mode = NoMode THEN intent.persist
                                               ELSE r.origin = "user",
                older   |-> ~Selects(r) /\ (intent.older \/ NamesOlder(r))]
  /\ \/ current' = current
     \/ r.mode # NoMode /\ current' = FALSE
  /\ Goto(c, IF Selects(r) THEN "unsaved" ELSE "recorded")
  /\ UNCHANGED <<latest, owner, lease, away, saved, running, hueVars, worldVars,
                 call, ticket, keep, queue, turnVars>>

\* persist_targets: a choice's selection is saved on arrival.
SaveTargets(c) ==
  /\ pc[c] = "unsaved"
  /\ saved' = [saved EXCEPT !.targets = call[c].targets]
  /\ Goto(c, "recorded")
  /\ UNCHANGED <<intent, latest, owner, lease, away, running, current, hueVars,
                 worldVars, call, ticket, keep, queue, turnVars>>

\* release_hue_with: the ticket, then the selection without Hue.
ReleaseArrives(c) ==
  /\ \E r \in Requests : r.origin = "release" /\ Asks(c, r)
  /\ IssueTicket(c)
  /\ Goto(c, "releasing")
  /\ UNCHANGED <<intent, owner, lease, away, saved, running, current, hueVars,
                 worldVars, keep, queue, turnVars>>

ReleaseRecords(c) ==
  /\ pc[c] = "releasing"
  /\ keep' = [keep EXCEPT ![c] = intent.targets]
  /\ intent' = [intent EXCEPT !.targets = @ \ {"hue"}]
  /\ Goto(c, "recorded")
  /\ UNCHANGED <<latest, owner, lease, away, saved, running, current, hueVars,
                 worldVars, call, ticket, queue, turnVars>>

\* prepare_away, Leave: a choice still on its way is saved, what is to come
\* back is kept, and the intent is Off. The ticket comes last.
LeaveArrives(c) ==
  /\ intent.kind # "Off"
  /\ \E r \in Requests : r.origin = "leave" /\ Asks(c, r)
  /\ saved' = IF intent.persist THEN [saved EXCEPT !.kind = intent.kind] ELSE saved
  /\ away' = intent.kind
  /\ intent' = [intent EXCEPT !.kind = "Off", !.persist = FALSE]
  /\ Goto(c, "written")
  /\ UNCHANGED <<latest, owner, lease, running, current, hueVars, worldVars,
                 ticket, keep, queue, turnVars>>

\* prepare_away, Return: the mode only, never the targets.
ReturnArrives(c) ==
  /\ away # NoMode
  /\ \E r \in Requests : r.origin = "return" /\ Asks(c, r)
  /\ intent' = [intent EXCEPT !.kind = away]
  /\ away' = NoMode
  /\ Goto(c, "written")
  /\ UNCHANGED <<latest, owner, lease, saved, running, current, hueVars,
                 worldVars, ticket, keep, queue, turnVars>>

AwayTicket(c) ==
  /\ pc[c] = "written"
  /\ IssueTicket(c)
  /\ Goto(c, "recorded")
  /\ UNCHANGED <<intent, owner, lease, away, saved, running, current, hueVars,
                 worldVars, call, keep, queue, turnVars>>

\* note_settings_saved: the running payload is stale at once; after the
\* debounce the refresh takes the newest ticket as it stands. A later save
\* takes over from one that is still settling.
SettingsSaved(c) ==
  /\ \E r \in Requests : r.origin = "settings" /\ Asks(c, r)
  /\ current' = FALSE /\ fresh' = FALSE
  /\ pc' = [d \in Calls |-> IF d = c THEN "settling"
                            ELSE IF pc[d] = "settling" THEN "nothing" ELSE pc[d]]
  /\ UNCHANGED <<intent, latest, owner, lease, away, saved, running, hueVars,
                 strip, closing, faults, ticket, keep, queue, turnVars>>

RefreshArrives(c) ==
  /\ pc[c] = "settling"
  /\ IF running.kind = "Off"
       THEN Answer(c, "nothing") /\ UNCHANGED queue
       ELSE /\ Goto(c, "queued")
            /\ ticket' = [ticket EXCEPT ![c] = latest]
            /\ queue' = Append(queue, c)
            /\ UNCHANGED <<call, keep>>
  /\ UNCHANGED <<inputVars, owner, lease, running, hueVars, worldVars, turnVars>>

\* sink_join_due: the mode that runs is the one asked for, and does not
\* drive the strip its selection names.
SinkJoinDue(i, r) == /\ r.kind # "Off"
                     /\ i.kind = r.kind
                     /\ "usb" \in i.targets
                     /\ "usb" \notin r.targets

JoinArrives(c) ==
  /\ strip /\ SinkJoinDue(intent, running)
  /\ \E r \in Requests : r.origin = "join" /\ Asks(c, r)
  /\ ticket' = [ticket EXCEPT ![c] = latest]
  /\ Goto(c, "queued")
  /\ queue' = Append(queue, c)
  /\ UNCHANGED <<inputVars, owner, lease, running, hueVars, worldVars, keep,
                 turnVars>>

\* lease_hue: an id of its own, never the newest ticket.
LeaseArrives(c) ==
  /\ \E r \in Requests : r.origin \in {"lease", "giveBack"} /\ Asks(c, r)
  /\ Goto(c, "queued")
  /\ queue' = Append(queue, c)
  /\ UNCHANGED <<inputVars, owner, lease, running, hueVars, worldVars, ticket,
                 keep, turnVars>>

Enqueue(c) ==
  /\ pc[c] = "recorded"
  /\ Goto(c, "queued")
  /\ queue' = Append(queue, c)
  /\ UNCHANGED <<inputVars, owner, lease, running, hueVars, worldVars, call,
                 ticket, keep, turnVars>>

Arrival(c) ==
  \/ Arrive(c) \/ Record(c) \/ SaveTargets(c)
  \/ ReleaseArrives(c) \/ ReleaseRecords(c)
  \/ LeaveArrives(c) \/ ReturnArrives(c) \/ AwayTicket(c)
  \/ SettingsSaved(c) \/ RefreshArrives(c) \/ JoinArrives(c)
  \/ LeaseArrives(c) \/ Enqueue(c)

-----------------------------------------------------------------------------
(* The turn *)

Origin(c)     == call[c].origin
Leasing(c)    == Origin(c) \in {"lease", "giveBack"}
Superseded(c) == ticket[c] # latest
On(c, label)  == turn = c /\ at = label

\* run_ticketed: the lock is fair, so the first waiter is the next holder.
TakeTurn(c) ==
  /\ turn = "nobody" /\ queue # <<>> /\ Head(queue) = c
  /\ Leasing(c) \/ ~Superseded(c)
  /\ turn' = c /\ at' = "begin" /\ queue' = Tail(queue)
  /\ Goto(c, "turn")
  /\ UNCHANGED <<inputVars, owner, lease, running, hueVars, worldVars, call,
                 ticket, keep, tx>>

Overtaken(c) ==
  /\ turn = "nobody" /\ queue # <<>> /\ Head(queue) = c
  /\ ~Leasing(c) /\ Superseded(c)
  /\ queue' = Tail(queue)
  /\ Answer(c, "superseded")
  /\ UNCHANGED <<inputVars, owner, lease, running, hueVars, worldVars, turnVars>>

\* finish: the answer, and the lock is free.
End(c, answer) ==
  /\ Answer(c, answer)
  /\ turn' = "nobody" /\ at' = "idle" /\ tx' = NoTx
  /\ UNCHANGED queue

Step(label, t) ==
  /\ at' = label /\ tx' = t
  /\ UNCHANGED <<turn, pc, call, ticket, keep, queue>>

-----------------------------------------------------------------------------
(* The Hue stream as the driver answers for it *)

AreaMoved == Paired /\ stream = "live" /\ moved        \* hue_area_moved

\* start_hue_stream_on up to the bring-up: a quit refuses it, a stream that is
\* up or on its way up makes it a no-op.
StartAnswers == IF closing # "no" THEN {"CLOSING"}
                ELSE IF stream \in {"live", "reconnecting"} THEN {"NOOP"}
                ELSE HueCodes

\* Where the start leaves the runtime. The TRANSIENT_RETRY_SCHEDULED that
\* start_hue also handles is an answer start_with_evidence never gives.
StreamAfterStart(code) ==
  CASE code \in {"CLOSING", "NOOP"}       -> stream
    [] code \in {"RUNNING", "NO_LIGHTS"}  -> "starting"
    [] code = "GATE_BLOCKED"              -> "idle"
    [] code = "AUTH_INVALID"              -> "failed"

StreamStopped == stream' = "idle" /\ opener' = "nobody" /\ moved' = FALSE
StopHue_KeepsOwner == StreamStopped /\ UNCHANGED owner
StopHue == StreamStopped /\ owner' = "Nobody"

LightsStopped == running' = OffMode /\ current' = FALSE
Lit(mode) == mode.kind # "Off"

-----------------------------------------------------------------------------
(* reconcile: which path the turn takes *)

\* A refresh of nothing, or a join that something else answered meanwhile.
NothingDue(c) ==
  \/ Origin(c) = "settings" /\ closing = "no" /\ ~Lit(running)
  \/ Origin(c) = "join" /\ (intent.persist \/ ~strip \/ ~SinkJoinDue(intent, running))

NothingToDo(c) ==
  /\ On(c, "begin") /\ NothingDue(c)
  /\ End(c, "applied")
  /\ UNCHANGED <<modeVars, hueVars, owner, lease, calmVars>>

ShuttingDown(c) ==
  /\ On(c, "begin") /\ ~Leasing(c) /\ ~NothingDue(c) /\ closing # "no"
  /\ End(c, "shutting")
  /\ UNCHANGED <<modeVars, hueVars, owner, lease, calmVars>>

Opens(c, origins) == /\ On(c, "begin") /\ Origin(c) \in origins
                     /\ closing = "no" /\ ~NothingDue(c)

TxOrigins == Origins \ {"settings", "lease", "giveBack"}
NewTx == [NoTx EXCEPT !.want = intent, !.was = running, !.after = running,
                      !.kind = intent.kind]

\* A release while nothing runs stops Hue and leaves the intent alone.
ReleaseWhileOff(c) ==
  /\ Opens(c, {"release"}) /\ ~Lit(running)
  /\ StopHue
  /\ End(c, "applied")
  /\ UNCHANGED <<modeVars, lease, calmVars>>

ReleaseIsDone(c) == Origin(c) = "release" /\ ~Lit(running)

\* reconcile_off up to the Hue stop: whether Hue is to be stopped is decided
\* before the lights are.
StartOff(c) ==
  /\ Opens(c, TxOrigins) /\ ~ReleaseIsDone(c) /\ intent.kind = "Off"
  /\ IF Lit(running) THEN LightsStopped ELSE UNCHANGED <<running, current>>
  /\ Step("offHue",
          [NewTx EXCEPT !.stop = IF Origin(c) = "user" /\ intent.persist
                                   THEN stream # "idle" \/ Paired
                                   ELSE stream # "idle" /\ owner = "Transaction"])
  /\ UNCHANGED <<intent, saved, hueVars, owner, lease, calmVars>>

OffOvertaken(c) ==
  /\ On(c, "offHue") /\ tx.stop /\ Superseded(c)
  /\ End(c, "superseded")
  /\ UNCHANGED <<modeVars, hueVars, owner, lease, calmVars>>

OffStopsHue(c) ==
  /\ On(c, "offHue") /\ (tx.stop => ~Superseded(c))
  /\ IF tx.stop THEN StopHue ELSE UNCHANGED <<hueVars, owner>>
  /\ Step("offDone", tx)
  /\ UNCHANGED <<modeVars, lease, calmVars>>

KeepsSelection_Always(c) == TRUE
KeepsSelection(c) == Origin(c) \in {"unplug", "release"}

\* What a turn puts back was kept on arrival, and may be older than a selection
\* on its way by now: only the history field tells.
NewerSelection(c) == \E d \in Calls : Selects(call[d]) /\ ticket[d] > ticket[c]
PutBack(c) == [intent EXCEPT !.targets = keep[c], !.older = @ \/ NewerSelection(c)]

FinishOff(c) ==
  /\ On(c, "offDone")
  /\ intent' = [(IF KeepsSelection(c) /\ tx.want.targets = {} THEN PutBack(c)
                                                              ELSE intent)
                  EXCEPT !.persist = @ /\ ~tx.want.persist]
  /\ saved' = IF tx.want.persist THEN [saved EXCEPT !.kind = "Off"] ELSE saved
  /\ current' = TRUE
  /\ End(c, "applied")
  /\ UNCHANGED <<running, hueVars, owner, lease, calmVars>>

\* settle_kind: the intent follows what runs.
Settled_Never(i, kind) == i
Settled(i, kind) == IF i.kind = kind THEN i
                    ELSE [i EXCEPT !.kind = kind, !.persist = FALSE]

NeedsCalibration(c) ==
  /\ Origin(c) = "user" /\ intent.kind # running.kind
  /\ "usb" \in intent.targets /\ strip /\ ~Calibrated

CalibrationRequired(c) ==
  /\ Opens(c, TxOrigins) /\ ~ReleaseIsDone(c) /\ intent.kind # "Off"
  /\ NeedsCalibration(c)
  /\ intent' = Settled(intent, running.kind)
  /\ End(c, "calibration")
  /\ UNCHANGED <<saved, running, current, hueVars, owner, lease, calmVars>>

-----------------------------------------------------------------------------
(* reconcile_on and reconcile_refresh *)

WantsHue(c, targets) == "hue" \in targets /\ Origin(c) # "release"

\* Phase 1: Hue first. A join keeps a reconnecting stream.
StartOn(c) ==
  LET waive == Origin(c) = "join" /\ "hue" \in running.targets
      ok    == stream = "live" \/ waive
      hue   == WantsHue(c, intent.targets)
  IN
  /\ Opens(c, TxOrigins) /\ ~ReleaseIsDone(c) /\ intent.kind # "Off"
  /\ ~NeedsCalibration(c)
  /\ Step(IF hue /\ ok /\ AreaMoved THEN "moveStop"
          ELSE IF ~hue \/ ok THEN "plan"
          ELSE IF Paired THEN "startHue" ELSE "hueChecked",
          [NewTx EXCEPT !.ok = ok, !.waive = waive])
  /\ UNCHANGED <<modeVars, hueVars, owner, lease, calmVars>>

\* A refresh re-applies what runs on what it runs on, and saves nothing.
StartRefresh(c) ==
  /\ Opens(c, {"settings"})
  /\ Step(IF "hue" \in running.targets /\ AreaMoved THEN "moveStop" ELSE "apply",
          [NewTx EXCEPT !.want.persist = FALSE, !.kind = running.kind,
                        !.on = running.targets, !.ok = TRUE,
                        !.waive = "hue" \in running.targets])
  /\ UNCHANGED <<modeVars, hueVars, owner, lease, calmVars>>

\* move_hue: the old session stops first; only a confirmed stop is followed
\* by the start on the saved area.
MoveStop(c) ==
  /\ On(c, "moveStop")
  /\ StopHue
  /\ \E confirmed \in BOOLEAN :
       Step(IF confirmed THEN "startHue" ELSE "hueChecked",
            [tx EXCEPT !.moved = TRUE, !.ok = FALSE])
  /\ UNCHANGED <<modeVars, lease, calmVars>>

StartHue(c) ==
  /\ On(c, "startHue")
  /\ \E code \in StartAnswers :
       /\ stream' = StreamAfterStart(code)
       /\ Step(IF stream' = "starting" THEN "bringUp" ELSE "hueChecked",
               [tx EXCEPT !.code = code, !.ok = (code = "NOOP")])
  /\ UNCHANGED <<modeVars, moved, opener, owner, lease, calmVars>>

\* bring_up_stream: a stop that came meanwhile (the quit's) abandons it. A
\* stream without lights is up, but is no answer the transaction counts as up.
BringUp(c) ==
  /\ On(c, "bringUp") /\ ~Leasing(c)
  /\ IF stream = "starting"
       THEN /\ stream' = "live" /\ moved' = FALSE /\ opener' = "tx"
            /\ owner' = IF tx.code = "RUNNING" THEN "Transaction" ELSE owner
            /\ Step("hueChecked", [tx EXCEPT !.ok = (tx.code = "RUNNING")])
       ELSE /\ Step("hueChecked", tx)
            /\ UNCHANGED <<hueVars, owner>>
  /\ UNCHANGED <<modeVars, lease, calmVars>>

\* What a start or a move took long enough to be overtaken by.
HueOvertaken(c) ==
  /\ On(c, "hueChecked")
  /\ \/ Paired /\ closing # "no" /\ End(c, "shutting")
     \/ ~(Paired /\ closing # "no") /\ Superseded(c) /\ End(c, "superseded")
  /\ UNCHANGED <<modeVars, hueVars, owner, lease, calmVars>>

HueSettled(c) == \/ On(c, "plan")
                 \/ /\ On(c, "hueChecked")
                    /\ ~(Paired /\ closing # "no") /\ ~Superseded(c)

\* What runs carries the kind, the outputs and the newest payload already.
Unchanged_AnyKind(on) == on = tx.was.targets /\ ~tx.moved /\ current
Unchanged_AnyTargets(on) == tx.want.kind = tx.was.kind /\ ~tx.moved /\ current
Unchanged(on) == /\ tx.want.kind = tx.was.kind /\ on = tx.was.targets
                 /\ ~tx.moved /\ current

\* Phase 2: what is left to run the mode on.
Plan(c) ==
  LET hue == WantsHue(c, tx.want.targets)
      on  == (tx.want.targets \cap {"usb"}) \cup (IF hue /\ tx.ok THEN {"hue"} ELSE {})
  IN
  /\ HueSettled(c) /\ Origin(c) # "settings" /\ on # {}
  /\ Step(IF Unchanged(on) THEN "ran" ELSE "apply",
          [tx EXCEPT !.on = on, !.out = hue /\ ~tx.ok])
  /\ UNCHANGED <<modeVars, hueVars, owner, lease, calmVars>>

\* Nothing to run on: Hue alone that did not come up is a refusal (what ran
\* on the moved stream stops), no output at all ends the mode.
PlanNothing(c) ==
  LET hue    == WantsHue(c, tx.want.targets)
      strand == hue /\ tx.moved /\ Lit(tx.was)
  IN
  /\ HueSettled(c) /\ Origin(c) # "settings"
  /\ "usb" \notin tx.want.targets /\ ~(hue /\ tx.ok)
  /\ IF strand THEN LightsStopped ELSE UNCHANGED <<running, current>>
  /\ Step(IF hue THEN "refuse" ELSE "endMode",
          [tx EXCEPT !.after = IF strand THEN OffMode ELSE @])
  /\ UNCHANGED <<intent, saved, hueVars, owner, lease, calmVars>>

\* The refresh after its move: a stream that did not come back is dropped.
RefreshAfterMove(c) ==
  LET on == IF tx.ok THEN tx.on ELSE tx.on \ {"hue"} IN
  /\ HueSettled(c) /\ Origin(c) = "settings"
  /\ intent' = IF tx.ok \/ on = {} THEN intent
               ELSE [intent EXCEPT !.targets = @ \ {"hue"}]
  /\ Step(IF on = {} THEN "endMode" ELSE "apply",
          [tx EXCEPT !.on = on, !.waive = "hue" \in on])
  /\ UNCHANGED <<saved, running, current, hueVars, owner, lease, calmVars>>

-----------------------------------------------------------------------------
(* The apply, and what its answer leads to *)

\* The gates of apply_mode_change_inner, in its order, under the runtime lock.
Gated_QuitUnseen(code) ==
  CASE code = "SHUTTING_DOWN"        -> FALSE
    [] code = "INVALID_CONFIG"       -> code \in ApplyFaults
    [] code = "DEVICE_NOT_CONNECTED" -> "usb" \in tx.on /\ ~strip
    [] code = "HUE_NOT_READY"        -> /\ ("usb" \in tx.on => strip)
                                        /\ "hue" \in tx.on /\ stream # "live" /\ ~tx.waive
Gated(code) ==
  CASE code = "SHUTTING_DOWN"        -> closing # "no"
    [] code = "INVALID_CONFIG"       -> closing = "no" /\ code \in ApplyFaults
    [] code = "DEVICE_NOT_CONNECTED" -> closing = "no" /\ "usb" \in tx.on /\ ~strip
    [] code = "HUE_NOT_READY"        -> /\ closing = "no" /\ ("usb" \in tx.on => strip)
                                        /\ "hue" \in tx.on /\ stream # "live" /\ ~tx.waive

\* A gate leaves what ran alone.
ApplyGated(c) ==
  /\ On(c, "apply")
  /\ \E code \in GateCodes :
       /\ Gated(code)
       /\ Step("judge", [tx EXCEPT !.code = code, !.after = running])
  /\ UNCHANGED <<modeVars, hueVars, owner, lease, calmVars>>

ApplyRuns(c) ==
  /\ On(c, "apply")
  /\ \A code \in GateCodes \ {"INVALID_CONFIG"} : ~Gated(code)
  /\ running' = [kind |-> tx.kind, targets |-> tx.on]
  /\ fresh' = TRUE
  /\ Step("judge", [tx EXCEPT !.code = "ok", !.after = running'])
  /\ UNCHANGED <<intent, saved, current, hueVars, owner, lease,
                 latest, away, strip, closing, faults>>

\* Past the gates what ran is torn down first, so a failed start leaves Off.
ApplyFails(c) ==
  /\ On(c, "apply")
  /\ \A code \in GateCodes \ {"INVALID_CONFIG"} : ~Gated(code)
  /\ \E code \in ApplyFaults \ GateCodes :
       /\ code = "USB_FAILED" => "usb" \in tx.on
       /\ running' = OffMode
       /\ Step("judge", [tx EXCEPT !.code = code, !.after = OffMode])
  /\ UNCHANGED <<intent, saved, current, hueVars, owner, lease, calmVars>>

Beside(c) == Origin(c) # "settings" /\ tx.on = Outputs

\* The Hue gate refused a [usb, hue] run: the strip alone, and the stream this
\* module opened feeds nothing.
FallBackToUsb(c) ==
  /\ On(c, "judge") /\ Beside(c) /\ tx.code = "HUE_NOT_READY"
  /\ IF owner = "Transaction" THEN StopHue ELSE UNCHANGED <<hueVars, owner>>
  /\ Step("recheck", [tx EXCEPT !.on = {"usb"}, !.out = TRUE])
  /\ UNCHANGED <<modeVars, lease, calmVars>>

\* The strip is gone, or failed its start: Hue alone, and the strip drops from
\* the session's selection. A mode already running there absorbs the gate.
FallBackToHue(c) ==
  LET absorbed == /\ tx.code = "DEVICE_NOT_CONNECTED"
                  /\ tx.was = [kind |-> tx.kind, targets |-> {"hue"}]
  IN
  /\ On(c, "judge") /\ Beside(c) /\ tx.code \in {"DEVICE_NOT_CONNECTED", "USB_FAILED"}
  /\ intent' = [intent EXCEPT !.targets = @ \ {"usb"}]
  /\ Step(IF absorbed THEN "ran" ELSE "recheck", [tx EXCEPT !.on = {"hue"}])
  /\ UNCHANGED <<saved, running, current, hueVars, owner, lease, calmVars>>

FallBackOvertaken(c) ==
  /\ On(c, "recheck") /\ Superseded(c)
  /\ End(c, "superseded")
  /\ UNCHANGED <<modeVars, hueVars, owner, lease, calmVars>>

TryAgain(c) ==
  /\ On(c, "recheck") /\ ~Superseded(c)
  /\ Step("apply", tx)
  /\ UNCHANGED <<modeVars, hueVars, owner, lease, calmVars>>

ApplyShutDown(c) ==
  /\ On(c, "judge") /\ tx.code = "SHUTTING_DOWN"
  /\ End(c, "shutting")
  /\ UNCHANGED <<modeVars, hueVars, owner, lease, calmVars>>

FallsBack(c) == Beside(c) /\ tx.code \in {"HUE_NOT_READY", "DEVICE_NOT_CONNECTED", "USB_FAILED"}

Judge(c) ==
  /\ On(c, "judge") /\ tx.code # "SHUTTING_DOWN" /\ ~FallsBack(c)
  /\ Step(IF tx.code = "ok" THEN "ran" ELSE "refuse", tx)
  /\ UNCHANGED <<modeVars, hueVars, owner, lease, calmVars>>

\* The mode runs: a stream opened for a test is adopted, an output left out is
\* dropped from the session's selection. A refresh only commits.
Ran(c) ==
  LET adopts == "hue" \in tx.after.targets /\ owner = "Lease" IN
  /\ On(c, "ran")
  /\ IF Origin(c) = "settings"
       THEN UNCHANGED <<intent, owner>> /\ Step("finish", [tx EXCEPT !.end = "ran"])
       ELSE /\ owner' = IF adopts THEN "Transaction" ELSE owner
            /\ intent' = IF tx.out /\ "usb" \in tx.after.targets
                           THEN [intent EXCEPT !.targets = @ \ {"hue"}] ELSE intent
            /\ Step("down", [tx EXCEPT !.end = "ran"])
  /\ UNCHANGED <<saved, running, current, hueVars, lease, calmVars>>

\* What was running still runs, unless it drives a deselected output.
StillWanted_Unasked == TRUE
StillWanted == tx.after.targets \subseteq tx.want.targets

Refuse(c) ==
  /\ On(c, "refuse")
  /\ IF StillWanted
       THEN Step("down", [tx EXCEPT !.end = "refused"]) /\ UNCHANGED <<running, current>>
       ELSE Step("down", [tx EXCEPT !.end = "refused", !.after = OffMode]) /\ LightsStopped
  /\ UNCHANGED <<intent, saved, hueVars, owner, lease, calmVars>>

EndMode(c) ==
  /\ On(c, "endMode")
  /\ IF Lit(tx.was) THEN LightsStopped ELSE UNCHANGED <<running, current>>
  /\ Step("down", [tx EXCEPT !.end = "ended", !.after = OffMode])
  /\ UNCHANGED <<intent, saved, hueVars, owner, lease, calmVars>>

\* hue_down: a stream the mode does not use is stopped if this module opened
\* it or what ran used it; a test's stream is the test's to stop.
DropsHue_NotOurs(c) ==
  /\ "hue" \notin tx.after.targets /\ stream # "idle"
  /\ Origin(c) = "release" \/ "hue" \in tx.was.targets
  /\ owner = "Lease" => Origin(c) = "release"
DropsHue_Needed(c) ==
  /\ stream # "idle"
  /\ Origin(c) = "release" \/ owner = "Transaction" \/ "hue" \in tx.was.targets
  /\ owner = "Lease" => Origin(c) = "release"
DropsHue_Tests(c) ==
  /\ "hue" \notin tx.after.targets /\ stream # "idle"
  /\ Origin(c) = "release" \/ owner = "Transaction" \/ "hue" \in tx.was.targets
DropsHue(c) ==
  /\ "hue" \notin tx.after.targets /\ stream # "idle"
  /\ Origin(c) = "release" \/ owner = "Transaction" \/ "hue" \in tx.was.targets
  /\ owner = "Lease" => Origin(c) = "release"

\* A stop asked for as a release would wait for the turn its own holds.
HueDown_AsRelease(c) ==
  /\ On(c, "down") /\ ~DropsHue(c)
  /\ Step("finish", tx)
  /\ UNCHANGED <<modeVars, hueVars, owner, lease, calmVars>>
HueDown(c) ==
  /\ On(c, "down")
  /\ IF DropsHue(c) THEN StopHue ELSE UNCHANGED <<hueVars, owner>>
  /\ Step("finish", tx)
  /\ UNCHANGED <<modeVars, lease, calmVars>>

\* commit and the save: the running payload is current, a choice is saved.
FinishRan(c) ==
  /\ On(c, "finish") /\ tx.end = "ran"
  /\ current' = TRUE
  /\ saved' = IF tx.want.persist THEN [saved EXCEPT !.kind = tx.want.kind] ELSE saved
  /\ intent' = [intent EXCEPT !.persist = @ /\ ~tx.want.persist]
  /\ End(c, "applied")
  /\ UNCHANGED <<running, hueVars, owner, lease, calmVars>>

FinishRefused(c) ==
  /\ On(c, "finish") /\ tx.end = "refused"
  /\ intent' = Settled(intent, tx.after.kind)
  /\ End(c, "refused")
  /\ UNCHANGED <<saved, running, current, hueVars, owner, lease, calmVars>>

\* end_mode: nothing left to run on; what the user did not deselect is kept.
FinishEnded(c) ==
  /\ On(c, "finish") /\ tx.end = "ended"
  /\ intent' = [(IF KeepsSelection(c) THEN PutBack(c) ELSE intent)
                  EXCEPT !.kind = "Off", !.persist = FALSE]
  /\ End(c, "applied")
  /\ UNCHANGED <<saved, running, current, hueVars, owner, lease, calmVars>>

-----------------------------------------------------------------------------
(* The test lease: a turn of its own that supersedes nothing *)

\* What a lease finds settled: it is held already, something streams, there is
\* nothing to start with, or the bridge is known not to answer.
LeaseSettled(c) ==
  /\ On(c, "begin") /\ Origin(c) = "lease"
  /\ \/ lease # "Idle" /\ UNCHANGED lease /\ End(c, "applied")
     \/ lease = "Idle" /\ stream = "live" /\ lease' = "NotOurs" /\ End(c, "applied")
     \/ lease = "Idle" /\ stream # "live" /\ lease' = "NotOurs" /\ End(c, "refused")
  /\ UNCHANGED <<modeVars, hueVars, owner, calmVars>>

LeaseStarts(c) ==
  /\ On(c, "begin") /\ Origin(c) = "lease"
  /\ lease = "Idle" /\ stream # "live" /\ Paired
  /\ \E code \in StartAnswers :
       /\ stream' = StreamAfterStart(code)
       /\ IF stream' = "starting"
            THEN Step("bringUp", [NewTx EXCEPT !.code = code]) /\ UNCHANGED lease
            ELSE /\ lease' = "NotOurs"
                 /\ End(c, IF code = "NOOP" THEN "applied" ELSE "refused")
  /\ UNCHANGED <<modeVars, moved, opener, owner, calmVars>>

LeaseIsUp(c) ==
  /\ On(c, "bringUp") /\ Leasing(c)
  /\ IF stream = "starting"
       THEN /\ stream' = "live" /\ moved' = FALSE /\ opener' = "lease"
            /\ IF tx.code = "RUNNING"
                 THEN owner' = "Lease" /\ lease' = "Held" /\ End(c, "applied")
                 ELSE owner' = owner /\ lease' = "NotOurs" /\ End(c, "refused")
       ELSE lease' = "NotOurs" /\ End(c, "refused") /\ UNCHANGED <<hueVars, owner>>
  /\ UNCHANGED <<modeVars, calmVars>>

\* lease_release: a mode that adopted the stream keeps it.
GivesUpStream_WrongOwner == lease = "Held" /\ owner = "Transaction"
GivesUpStream == lease = "Held" /\ owner = "Lease"

LeaseGivesBack(c) ==
  /\ On(c, "begin") /\ Origin(c) = "giveBack"
  /\ lease' = "Idle"
  /\ IF lease = "Held" /\ "hue" \in running.targets
       THEN owner' = "Transaction" /\ End(c, "applied")
       ELSE /\ UNCHANGED owner
            /\ IF GivesUpStream
                 THEN Step("leaseStop", NoTx) ELSE End(c, "applied")
  /\ UNCHANGED <<modeVars, hueVars, calmVars>>

LeaseStops(c) ==
  /\ On(c, "leaseStop")
  /\ StopHue
  /\ End(c, "applied")
  /\ UNCHANGED <<modeVars, lease, calmVars>>

TurnStep(c) ==
  \/ TakeTurn(c) \/ Overtaken(c)
  \/ NothingToDo(c) \/ ShuttingDown(c) \/ ReleaseWhileOff(c)
  \/ StartOff(c) \/ OffOvertaken(c) \/ OffStopsHue(c) \/ FinishOff(c)
  \/ CalibrationRequired(c) \/ StartOn(c) \/ StartRefresh(c)
  \/ MoveStop(c) \/ StartHue(c) \/ BringUp(c) \/ HueOvertaken(c)
  \/ Plan(c) \/ PlanNothing(c) \/ RefreshAfterMove(c)
  \/ ApplyGated(c) \/ ApplyRuns(c) \/ ApplyFails(c)
  \/ FallBackToUsb(c) \/ FallBackToHue(c) \/ FallBackOvertaken(c) \/ TryAgain(c)
  \/ ApplyShutDown(c) \/ Judge(c) \/ Ran(c) \/ Refuse(c) \/ EndMode(c)
  \/ HueDown(c) \/ FinishRan(c) \/ FinishRefused(c) \/ FinishEnded(c)
  \/ LeaseSettled(c) \/ LeaseStarts(c) \/ LeaseIsUp(c)
  \/ LeaseGivesBack(c) \/ LeaseStops(c)

-----------------------------------------------------------------------------
(* The quit, outside the queue, and what the hardware does by itself *)

QuitMarks ==
  /\ MayQuit /\ closing = "no"
  /\ closing' = "marked"
  /\ UNCHANGED <<modeVars, hueVars, owner, lease, latest, away, strip, faults,
                 fresh, callVars, queue, turnVars>>

QuitStopsLighting ==
  /\ closing = "marked"
  /\ closing' = "stopped" /\ LightsStopped
  /\ UNCHANGED <<intent, saved, hueVars, owner, lease, latest, away, strip, faults,
                 fresh, callVars, queue, turnVars>>

\* The driver is told nothing: hue_owner keeps its value.
QuitStopsHue ==
  /\ closing = "stopped"
  /\ closing' = "hueStopped" /\ StreamStopped
  /\ UNCHANGED <<modeVars, owner, lease, latest, away, strip, faults,
                 fresh, callVars, queue, turnVars>>

Happens == /\ faults < MaxFaults /\ faults' = faults + 1
           /\ UNCHANGED <<modeVars, owner, lease, latest, away, closing,
                          fresh, callVars, queue, turnVars>>

StreamDrops == Happens /\ stream = "live" /\ stream' = "reconnecting"
               /\ UNCHANGED <<moved, opener, strip>>
StripChanges == Happens /\ strip' = ~strip /\ UNCHANGED hueVars
AreaSaved == Happens /\ stream \in {"live", "reconnecting"} /\ moved' = ~moved
             /\ UNCHANGED <<stream, opener, strip>>

\* The reconnect monitor ends its retries one way or the other.
Reconnects ==
  /\ stream = "reconnecting"
  /\ stream' \in {"live", "failed"}
  /\ UNCHANGED <<modeVars, moved, opener, owner, lease, calmVars,
                 callVars, queue, turnVars>>

Quit == QuitMarks \/ QuitStopsLighting \/ QuitStopsHue
Environment == StreamDrops \/ StripChanges \/ AreaSaved \/ Reconnects

Waiting(c) == pc[c] \notin Answers \cup {"new"}
Quiet == turn = "nobody" /\ queue = <<>> /\ \A c \in Calls : ~Waiting(c)

\* Every call is answered and no other need come.
Rest == Quiet /\ UNCHANGED vars

Next == \/ \E c \in Calls : Arrival(c) \/ TurnStep(c)
        \/ Quit \/ Environment \/ Rest

\* Nothing has to be asked for, and nothing has to go wrong. A call under way
\* is driven by its task, and the holder of the turn by its own.
Fairness == \A c \in Calls : WF_vars((pc[c] # "new" /\ Arrival(c)) \/ TurnStep(c))

Spec == Init /\ [][Next]_vars
FairSpec == Spec /\ Fairness

-----------------------------------------------------------------------------
(* Properties *)

Streams == {"idle", "starting", "live", "reconnecting", "failed"}
Labels == {"idle", "begin", "offHue", "offDone", "moveStop", "startHue", "bringUp",
           "hueChecked", "plan", "apply", "judge", "recheck", "ran", "refuse",
           "endMode", "down", "finish", "leaseStop"}
Selections == [kind : Kinds, targets : SUBSET Outputs]
Intents == [kind : Kinds, targets : SUBSET Outputs, persist : BOOLEAN,
            older : BOOLEAN]
TxLocals == [want : Intents, was : Selections, after : Selections, kind : Kinds,
             on : SUBSET Outputs, ok : BOOLEAN, moved : BOOLEAN, out : BOOLEAN,
             stop : BOOLEAN, waive : BOOLEAN,
             code : AllHueCodes \cup AllApplyFaults \cup GateCodes
                      \cup {"none", "ok", "CLOSING", "NOOP"},
             end : {"none", "ran", "refused", "ended"}]

CallTypes ==
  /\ pc \in [Calls -> {"new", "recorded", "settling", "queued", "turn"}
                        \cup Arriving \cup Answers]
  /\ call \in [Calls -> AllRequests \cup {NoRequest}]
  /\ ticket \in [Calls -> Nat]
  /\ keep \in [Calls -> (SUBSET Outputs) \cup {Keep}]
  /\ queue \in Seq(Calls)

TurnTypes == turn \in Calls \cup {"nobody"} /\ at \in Labels /\ tx \in TxLocals

ModeTypes == /\ intent \in Intents
             /\ saved \in Selections /\ running \in Selections
             /\ current \in BOOLEAN

HueTypes == /\ stream \in Streams /\ moved \in BOOLEAN
            /\ opener \in {"nobody", "tx", "lease"}
            /\ owner \in {"Nobody", "Transaction", "Lease"}
            /\ lease \in {"Idle", "Held", "NotOurs"}

CalmTypes == /\ latest \in Nat /\ away \in Kinds \cup {NoMode}
             /\ closing \in {"no", "marked", "stopped", "hueStopped"}
             /\ strip \in BOOLEAN /\ fresh \in BOOLEAN /\ faults \in Nat

\* Every variable stays in its type; above all a selection kept by an unplug
\* or a release is one when it comes back as the intent's.
TypeOK == CallTypes /\ TurnTypes /\ ModeTypes /\ HueTypes /\ CalmTypes

\* The intent follows what ran: with every call answered, the mode asked for
\* is the mode that runs (settle_kind, end_mode and the level-triggered
\* reconcile together).
IntentFollowsWhatRan ==
  Quiet /\ closing = "no" => intent.kind = running.kind

\* An output the user took out of the selection does not stay lit once every
\* call has been answered, whatever was refused, superseded or torn down on the
\* way. What only the session dropped is still in the saved selection.
OnlySelectedIsLit ==
  Quiet /\ closing = "no" => running.targets \subseteq intent.targets \cup saved.targets

\* So it is unless an older selection was put over a newer choice's: by an unplug
\* or a release that ends after the choice was recorded (end_mode and the end of
\* reconcile_off), or by a window that answers an unplug before it hears of it.
DeselectedGoesDark == ~intent.older => OnlySelectedIsLit

\* While the user is away nothing is lit, however Leave raced the turns that
\* were under way (prepare_away writes the intent before it takes a ticket).
AwayStaysDark ==
  Quiet /\ closing = "no" /\ away # NoMode => ~Lit(running)

\* A stream this module opened is up only for a mode that drives it: every
\* path that leaves Hue out comes to hue_down, or to a turn that does.
UnusedStreamReleased ==
  Quiet /\ closing = "no" /\ stream \in {"live", "reconnecting"} /\ opener = "tx"
    => "hue" \in running.targets

\* A mode that drives Hue has its stream, except for what the stream does by
\* itself: no stop meant for another purpose takes it away.
HueModeHasStream ==
  Quiet /\ closing = "no" /\ "hue" \in running.targets => stream # "idle"

\* Between turns Hue belongs to the test only while a test holds the lease.
LeaseOwnsOnlyWhileHeld ==
  turn = "nobody" /\ owner = "Lease" => lease = "Held"

\* A test that gave its lease back leaves no stream up, unless a mode took it.
TestLeavesNoStream ==
  Quiet /\ closing = "no" /\ lease = "Idle" /\ stream = "live" /\ opener = "lease"
    => "hue" \in running.targets

\* The quit's first stop is the last word on the lights: a start that was past
\* the queue when the quit came is refused under the runtime lock.
QuitStaysDark ==
  /\ closing \in {"stopped", "hueStopped"} => ~Lit(running)
  /\ closing = "hueStopped" => stream = "idle"

\* With every call answered and a mode lit, what runs was applied from the
\* settings as last saved: the refresh did, or the choice that superseded it.
SavedSettingsReachTheMode ==
  Quiet /\ closing = "no" /\ Lit(running) => fresh

Newest(c) == /\ turn = c /\ Origin(c) = "user" /\ call[c].mode # NoMode
             /\ ~Superseded(c)
             /\ \A d \in Calls : pc[d] \notin Arriving
Answered(c, answer) == pc[c] = "turn" /\ pc'[c] = answer

\* The newest request wins: a choice answered "applied" that nothing has
\* superseded is the mode that runs.
NewestChoiceRuns ==
  [][\A c \in Calls : Newest(c) /\ Answered(c, "applied")
       => running'.kind = call[c].mode]_vars

\* A choice is saved once it runs.
AppliedChoiceIsSaved ==
  [][\A c \in Calls : Newest(c) /\ Answered(c, "applied")
       => saved'.kind = call[c].mode]_vars

\* A live stream that a test owns is stopped by the test, by a user's Off, by
\* an explicit release, by a move to another area or by the quit: no mode that
\* merely leaves Hue out takes it down.
TestStreamIsTheTests ==
  [][owner = "Lease" /\ stream = "live" /\ stream' = "idle"
       => \/ at \in {"leaseStop", "moveStop"}
          \/ closing = "stopped"
          \/ turn # "nobody" /\ Origin(turn) = "release"
          \/ turn # "nobody" /\ tx.want.kind = "Off" /\ tx.want.persist]_vars

\* Every call is answered: no turn is lost, and none waits for ever.
EveryCallIsAnswered ==
  \A c \in Calls : Waiting(c) ~> ~Waiting(c)

=============================================================================
