--------------------------------- MODULE HueRuntime ---------------------------------
(***************************************************************************)
(* The Hue stream runtime of LumaSync (commands/hue): who brings a stream *)
(* up, who takes it down, and who brings it back.                          *)
(*                                                                         *)
(* The lighting transaction starts and stops; the Devices view starts and *)
(* restarts; each sender thread has a monitor that restarts a stream that *)
(* died; the health poll reads the bridge. They share HueRuntimeOwner      *)
(* under a mutex, which none of them holds while it waits, so one action   *)
(* here is one locked section or one wait. One bridge, one area, and every *)
(* session is DTLS: the HTTP fallback takes no area.                       *)
(* An operator named X_Y is X with a fault Y put in; no action uses it.    *)
(***************************************************************************)
EXTENDS Naturals, FiniteSets

CONSTANTS
  TxCalls,      \* the transaction's calls, one at a time, and any made in turn with them
  UiCalls,      \* the Devices view's calls, which it makes one at a time
  Ops,          \* what a call may be, a subset of AllOps
  Streams,      \* the sender threads that may be spawned
  LatePolls,    \* the poll's answer may come after other steps
  LateMonitors, \* a monitor may outlive the session it watched into the next
  MaxAttempts,  \* HueRetryPolicy::max_attempts
  Mishaps,      \* what may go wrong, a subset of AllMishaps
  MaxMishaps    \* bound on how often

AllOps      == {"start", "stop", "restart"}
Calls       == TxCalls \cup UiCalls
NoStream    == "noStream"
NoCall      == "noCall"
Foreign     == "foreign"                    \* another app
AllMishaps  == {"death", "put", "timeout", "transport", "auth", "foreign"}

ASSUME CallsAreApart == /\ TxCalls \cap UiCalls = {} /\ NoCall \notin Calls
                        /\ Ops \subseteq AllOps
ASSUME StreamsAreNamed == NoStream \notin Streams /\ Foreign \notin Streams
ASSUME BoundsAreNumbers == /\ MaxAttempts \in Nat \ {0} /\ MaxMishaps \in Nat
                           /\ Mishaps \subseteq AllMishaps
                           /\ {LatePolls, LateMonitors} \subseteq BOOLEAN

VARIABLES
  state,     \* HueRuntimeOwner.state; Stopping is never seen outside its lock
  override,  \* user_override_pending
  active,    \* active_stream (and persistent_sender with it)
  attempt,   \* reconnect_attempt
  claimed,   \* reconnect_in_progress
  held,      \* light_restore: nothing, or how the lights were when it was taken
  gate,      \* stop_in_flight: the stop that holds it
  sender,    \* per stream: its thread
  spent,     \* per stream: its DeactivateToken is acquired
  watch,     \* per stream: where its reconnect monitor is
  built,     \* per stream: what its monitor has built and not stored
  pc, op, has, seen, took, waits,  \* per call: where, what, and its locals
  area,      \* the bridge: who streams to the area
  lights,    \* the bridge: what the lamps show
  poll,      \* the health poll has asked the bridge
  stale,     \* history: which answers have been acted on when they no longer held
  mishaps

ownerVars  == <<state, override, active, attempt>>
threadVars == <<sender, spent, area, lights>>
callVars   == <<pc, op, has, seen, took, waits, gate>>
monVars    == <<watch, built, claimed>>
vars == <<ownerVars, held, threadVars, callVars, monVars, poll, stale, mishaps>>

Init ==
  /\ state = "Idle" /\ override = FALSE /\ active = NoStream /\ attempt = 0
  /\ claimed = FALSE /\ held = "none" /\ gate = NoCall
  /\ sender = [s \in Streams |-> "unborn"]
  /\ spent = [s \in Streams |-> FALSE]
  /\ watch = [s \in Streams |-> "none"]
  /\ built = [s \in Streams |-> NoStream]
  /\ pc = [c \in Calls |-> "new"] /\ op = [c \in Calls |-> "none"]
  /\ has = [c \in Calls |-> NoStream] /\ seen = [c \in Calls |-> "none"]
  /\ took = [c \in Calls |-> "none"] /\ waits = [c \in Calls |-> FALSE]
  /\ area = NoStream /\ lights = "home"
  /\ poll = FALSE /\ stale = {} /\ mishaps = 0

Mishap(kind) == kind \in Mishaps /\ mishaps < MaxMishaps /\ mishaps' = mishaps + 1
NoMishap == UNCHANGED mishaps

Goto(c, label) == pc' = [pc EXCEPT ![c] = label]

-----------------------------------------------------------------------------
(* What the owner does under its lock *)

IsActive == state \in {"Starting", "Running", "Reconnecting"}
Stopped  == state \in {"Idle", "Failed"}

\* stop_with_timeout
StopOwner_NoOverride ==
  state' = "Idle" /\ active' = NoStream /\ attempt' = 0 /\ UNCHANGED override
StopOwner == /\ state' = "Idle" /\ override' = TRUE
             /\ active' = NoStream /\ attempt' = 0

\* A runtime that gives up lets go of the stream it was about.
Keeps_Failed(stream) == stream
Keeps(stream) == NoStream

\* register_transient_fault: a slot of the budget, or the end of it.
BudgetSpent_Never == FALSE
BudgetSpent == attempt + 1 >= MaxAttempts
TransientFault(stream) ==
  /\ UNCHANGED override
  /\ \/ /\ override
        /\ state' = "Idle" /\ active' = stream /\ UNCHANGED attempt
     \/ /\ ~override /\ BudgetSpent
        /\ state' = "Failed" /\ attempt' = MaxAttempts /\ active' = Keeps(stream)
     \/ /\ ~override /\ ~BudgetSpent
        /\ state' = "Reconnecting" /\ attempt' = attempt + 1 /\ active' = stream

\* adopt_light_snapshot: the first snapshot of a session is the one kept.
Adopt_Newest(snapshot) == held' = IF snapshot = "none" THEN held ELSE snapshot
Adopt(snapshot) == held' = IF held = "none" THEN snapshot ELSE held

-----------------------------------------------------------------------------
(* The bridge and the sender threads *)

\* deactivate_with_token: one PUT in flight; a stop ends whoever streams to
\* the area with our key. A PUT that fails hands the token back.
Deactivates(s) ==
  IF s = NoStream \/ (s # NoStream /\ spent[s])
    THEN UNCHANGED <<spent, area>> /\ NoMishap
    ELSE \/ /\ spent' = [spent EXCEPT ![s] = TRUE]
            /\ area' = IF area = Foreign THEN Foreign ELSE NoStream
            /\ NoMishap
         \/ Mishap("put") /\ UNCHANGED <<spent, area>>

\* The handles of a sender: the owner's and a builder's before it stores.
Handled(s) == \/ active = s
              \/ \E c \in Calls : has[c] = s /\ pc[c] = "store"
              \/ \E m \in Streams : built[m] = s /\ watch[m] = "store"

\* The mailbox closed, or the session went: the thread deactivates the area
\* and only then signals.
SenderEnds(s) ==
  /\ sender[s] = "up"
  /\ sender' = [sender EXCEPT ![s] = "gone"]
  /\ UNCHANGED <<ownerVars, held, lights, callVars, monVars, poll, stale>>
  /\ \/ ~Handled(s) /\ Deactivates(s)
     \/ area # s /\ Handled(s) /\ Deactivates(s)
     \/ Handled(s) /\ area = s /\ Mishap("death")
          /\ spent' = [spent EXCEPT ![s] = TRUE] /\ area' = NoStream
     \/ /\ Handled(s) /\ area = s /\ Mishap("death") /\ "put" \in Mishaps
        /\ UNCHANGED <<spent, area>>

\* The bridge lets go of a session nobody deactivated, after ten seconds.
AreaExpires ==
  /\ area \in Streams /\ sender[area] = "gone"
  /\ area' = NoStream
  /\ UNCHANGED <<ownerVars, held, sender, spent, lights, callVars, monVars,
                 poll, stale, mishaps>>

ForeignStreams ==
  /\ \/ area = NoStream /\ Mishap("foreign") /\ area' = Foreign
     \/ area = Foreign /\ NoMishap /\ area' = NoStream
  /\ UNCHANGED <<ownerVars, held, sender, spent, lights, callVars, monVars, poll, stale>>

\* build_hue_sender: the activate takes the area, and the lamps are ours.
Unborn == {s \in Streams : sender[s] = "unborn"}
Fresh  == CHOOSE s \in Unborn : TRUE
SpawnsFresh == /\ Unborn # {}
               /\ sender' = [sender EXCEPT ![Fresh] = "up"]
               /\ area' = Fresh /\ lights' = "painted"
               /\ UNCHANGED spent

-----------------------------------------------------------------------------
(* start_hue_stream and restart_hue_stream *)

Under(c, label) == pc[c] = label

\* The transaction's calls and the Devices view's each wait for one another.
SameSide(c, d) == {c, d} \subseteq TxCalls \/ {c, d} \subseteq UiCalls
Begin(c) ==
  /\ pc[c] = "new"
  /\ \A d \in Calls \ {c} : SameSide(c, d) => pc[d] \in {"new", "done"}
  /\ \E o \in IF c \in TxCalls THEN Ops ELSE Ops \ {"stop"} :
       op' = [op EXCEPT ![c] = o]
  /\ Goto(c, "gate")
  /\ UNCHANGED <<ownerVars, held, threadVars, has, seen, took, waits, gate,
                 monVars, poll, stale, mishaps>>

\* wait_for_stop_to_settle: the gate is looked at, not taken.
WaitForStop(c) == gate = NoCall

PassGate(c) ==
  /\ Under(c, "gate") /\ op[c] # "stop" /\ WaitForStop(c)
  /\ Goto(c, IF op[c] = "start" THEN "read" ELSE "halt")
  /\ UNCHANGED <<ownerVars, held, threadVars, op, has, seen, took, waits, gate,
                 monVars, poll, stale, mishaps>>

\* The restart's own stop; the session's snapshot stays held.
RestartHalts(c) ==
  /\ Under(c, "halt") /\ op[c] = "restart"
  /\ StopOwner
  /\ has' = [has EXCEPT ![c] = active]
  /\ Goto(c, "quiesce")
  /\ UNCHANGED <<held, threadVars, op, seen, took, waits, gate, monVars, poll, stale,
                 mishaps>>

RestartDeactivates(c) ==
  /\ Under(c, "quiesce") /\ op[c] = "restart"
  /\ Deactivates(has[c])
  /\ has' = [has EXCEPT ![c] = NoStream]
  /\ Goto(c, "read")
  /\ UNCHANGED <<ownerVars, held, sender, lights, op, seen, took, waits, gate,
                 monVars, poll, stale>>

\* The readiness check: whoever streams to the area is taken for another app.
ReadArea(c) ==
  /\ Under(c, "read")
  /\ \/ /\ seen' = [seen EXCEPT ![c] = IF area = NoStream THEN "ready" ELSE "blocked"]
        /\ NoMishap
     \/ Mishap("auth") /\ seen' = [seen EXCEPT ![c] = "auth"]
  /\ Goto(c, "decide")
  /\ UNCHANGED <<ownerVars, held, threadVars, op, has, took, waits, gate, monVars,
                 poll, stale>>

\* start_with_evidence. A start whose runtime is active already ends here; a
\* restart goes on to bring its stream up all the same. A refused one comes to
\* the bring-up's guard with no wait between, and ends.
GoesOn(c) == IF IsActive THEN op[c] = "restart" ELSE seen[c] = "ready"
\* The area was free when it was read; by now a stream has it.
StartsTooLate(c) == ~IsActive /\ seen[c] = "ready" /\ area # NoStream
MonitorsEnded == \A s \in Streams : watch[s] \in {"none", "ended"}
Decide(c) ==
  /\ Under(c, "decide")
  /\ LateMonitors \/ IsActive \/ MonitorsEnded
  /\ override' = FALSE
  /\ stale' = IF StartsTooLate(c) THEN stale \cup {"reading"} ELSE stale
  /\ IF IsActive THEN UNCHANGED <<state, active, attempt>>
     ELSE IF seen[c] = "ready"
            THEN state' = "Running" /\ attempt' = 0 /\ UNCHANGED active
            ELSE /\ state' = IF seen[c] = "auth" THEN "Failed" ELSE "Idle"
                 /\ active' = NoStream /\ UNCHANGED attempt
  /\ Goto(c, IF GoesOn(c) THEN "guard" ELSE "done")
  /\ seen' = [seen EXCEPT ![c] = "none"]
  /\ UNCHANGED <<held, threadVars, op, has, took, waits, gate, monVars, poll,
                 mishaps>>

\* The channels were fetched: a stop that came meanwhile ends the bring-up.
Overtaken == Stopped
Guard(c) ==
  /\ Under(c, "guard")
  /\ Goto(c, IF Overtaken THEN "done" ELSE "capture")
  /\ UNCHANGED <<ownerVars, held, threadVars, op, has, seen, took, waits, gate,
                 monVars, poll, stale, mishaps>>

\* The last read before the lights are touched. A light already streaming is
\* not snapshotted.
Capture(c) ==
  /\ Under(c, "capture")
  /\ took' = [took EXCEPT ![c] = IF area = NoStream THEN lights ELSE "none"]
  /\ Goto(c, "build")
  /\ UNCHANGED <<ownerVars, held, threadVars, op, has, seen, waits, gate, monVars,
                 poll, stale, mishaps>>

BuildSender(c) ==
  /\ Under(c, "build")
  /\ SpawnsFresh /\ has' = [has EXCEPT ![c] = Fresh]
  /\ Goto(c, "store")
  /\ UNCHANGED <<ownerVars, held, op, seen, took, waits, gate, monVars, poll, stale,
                 mishaps>>

\* store_active_stream_context: what it replaces loses its handle. The
\* monitor follows with no wait between.
StoreSender(c) ==
  /\ Under(c, "store") /\ ~Overtaken
  /\ active' = has[c] /\ attempt' = 0
  /\ Adopt(took[c])
  /\ watch' = [watch EXCEPT ![has[c]] = "watch"]
  /\ has' = [has EXCEPT ![c] = NoStream] /\ took' = [took EXCEPT ![c] = "none"]
  /\ Goto(c, "done")
  /\ UNCHANGED <<state, override, threadVars, op, seen, waits, gate, built, claimed,
                 poll, stale, mishaps>>

\* A stop that found nothing to deactivate or restore: this start does both.
AbandonSender(c) ==
  /\ Under(c, "store") /\ Overtaken
  /\ took' = [took EXCEPT ![c] = IF held # "none" THEN held ELSE @]
  /\ held' = "none"
  /\ Goto(c, "drain")
  /\ UNCHANGED <<ownerVars, threadVars, op, has, seen, waits, gate, monVars, poll, stale,
                 mishaps>>

-----------------------------------------------------------------------------
(* stop_hue_stream_on, and the wait and restore an abandoned start shares *)

TakeGate(c) ==
  /\ Under(c, "gate") /\ op[c] = "stop" /\ gate = NoCall
  /\ gate' = c
  /\ Goto(c, "halt")
  /\ UNCHANGED <<ownerVars, held, threadVars, op, has, seen, took, waits, monVars,
                 poll, stale, mishaps>>

\* A reconnect between its gate and its store may hold the area.
WaitsForReconnect_Never == FALSE
WaitsForReconnect == claimed /\ state = "Starting"

Halt(c) ==
  /\ Under(c, "halt") /\ op[c] = "stop"
  /\ StopOwner
  /\ has' = [has EXCEPT ![c] = active]
  /\ took' = [took EXCEPT ![c] = held] /\ held' = "none"
  /\ waits' = [waits EXCEPT ![c] = WaitsForReconnect]
  /\ Goto(c, "quiesce")
  /\ UNCHANGED <<threadVars, op, seen, gate, monVars, poll, stale, mishaps>>

Quiesce(c) ==
  /\ Under(c, "quiesce") /\ op[c] = "stop"
  /\ Deactivates(has[c])
  /\ seen' = IF has[c] # NoStream /\ ~spent'[has[c]]
               THEN [seen EXCEPT ![c] = "putFailed"] ELSE seen
  /\ Goto(c, "drain")
  /\ UNCHANGED <<ownerVars, held, sender, lights, op, has, took, waits, gate,
                 monVars, poll, stale>>

\* wait_for_shutdown, up to its timeout.
Drained(s) == s # NoStream => sender[s] = "gone"
Drain(c) ==
  /\ Under(c, "drain")
  /\ \/ Drained(has[c]) /\ NoMishap
     \/ ~Drained(has[c]) /\ Mishap("timeout")
  /\ Goto(c, IF op[c] = "stop" THEN "again" ELSE "restore")
  /\ UNCHANGED <<ownerVars, held, threadVars, op, has, seen, took, waits, gate,
                 monVars, poll, stale>>

\* The PUT the sender was to do and failed, unless ours has failed before.
Again(c) ==
  /\ Under(c, "again")
  /\ IF seen[c] = "putFailed" THEN UNCHANGED <<spent, area>> /\ NoMishap
                              ELSE Deactivates(has[c])
  /\ has' = [has EXCEPT ![c] = NoStream] /\ seen' = [seen EXCEPT ![c] = "none"]
  /\ Goto(c, "yield")
  /\ UNCHANGED <<ownerVars, held, sender, lights, op, took, waits, gate, monVars,
                 poll, stale>>

\* wait_for_overtaken_reconnect, up to its timeout.
Yield(c) ==
  /\ Under(c, "yield")
  /\ \/ (waits[c] => ~claimed) /\ NoMishap
     \/ waits[c] /\ claimed /\ Mishap("timeout")
  /\ waits' = [waits EXCEPT ![c] = FALSE]
  /\ Goto(c, "restore")
  /\ UNCHANGED <<ownerVars, held, threadVars, op, has, seen, took, gate, monVars,
                 poll, stale>>

\* restore_lights waits for the area a while: longer than a sender needs to end,
\* less than a session that nobody ends lasts. A newer session ends the wait.
Superseded == IsActive
WaitsForArea ==
  area \in Streams \ {active} /\ sender[area] = "up" /\ ~Superseded

GateAfter(c) == IF gate = c THEN NoCall ELSE gate
MayWrite == area = NoStream /\ ~Superseded
Restore(c) ==
  /\ Under(c, "restore")
  /\ \/ ~WaitsForArea /\ NoMishap
     \/ WaitsForArea /\ Mishap("timeout")
  /\ lights' = IF took[c] # "none" /\ MayWrite THEN took[c] ELSE lights
  /\ took' = [took EXCEPT ![c] = "none"] /\ has' = [has EXCEPT ![c] = NoStream]
  /\ gate' = GateAfter(c)
  /\ Goto(c, "done")
  /\ UNCHANGED <<ownerVars, held, sender, spent, area, op, seen, waits, monVars,
                 poll, stale>>

CallStep(c) ==
  \/ PassGate(c) \/ RestartHalts(c) \/ RestartDeactivates(c) \/ ReadArea(c)
  \/ Decide(c) \/ Guard(c) \/ Capture(c) \/ BuildSender(c) \/ StoreSender(c)
  \/ AbandonSender(c) \/ TakeGate(c) \/ Halt(c) \/ Quiesce(c) \/ Drain(c)
  \/ Again(c) \/ Yield(c) \/ Restore(c)

-----------------------------------------------------------------------------
(* The reconnect monitor of stream s *)

At(s, label) == watch[s] = label
MonGoto(s, label) == watch' = [watch EXCEPT ![s] = label]

\* Leaving the restart drops the guard, and with it the claim.
MonEnds(s) == /\ MonGoto(s, "ended") /\ claimed' = FALSE
              /\ built' = [built EXCEPT ![s] = NoStream]

Pointless == override \/ Stopped     \* monitor_wait_is_pointless
Lost      == override \/ Stopped     \* a_stop_overtook_the_reconnect

StopsWaiting(s) ==
  /\ At(s, "watch") /\ sender[s] = "up" /\ Pointless
  /\ MonGoto(s, "ended")
  /\ UNCHANGED <<ownerVars, held, threadVars, callVars, built, claimed, poll,
                 stale, mishaps>>

\* A death the probe has counted spends no second slot.
Counted == state = "Reconnecting" /\ active = NoStream

\* try_claim_reconnect: one restart at a time, and none after a stop.
MayClaim_Twice == ~Pointless
MayClaim_Uncounted == ~Pointless /\ ~claimed /\ ~Counted
MayClaim == ~Pointless /\ ~claimed

Claims(s) ==
  /\ At(s, "watch") /\ sender[s] = "gone"
  /\ IF MayClaim
       THEN claimed' = TRUE /\ MonGoto(s, IF Counted THEN "backoff" ELSE "fault")
       ELSE MonGoto(s, "ended") /\ UNCHANGED claimed
  /\ UNCHANGED <<ownerVars, held, threadVars, callVars, built, poll, stale, mishaps>>

CountsFault(s) ==
  /\ At(s, "fault")
  /\ TransientFault(active)
  /\ IF state' = "Failed" THEN MonEnds(s)
                          ELSE MonGoto(s, "backoff") /\ UNCHANGED <<built, claimed>>
  /\ UNCHANGED <<held, threadVars, callVars, poll, stale, mishaps>>

\* After the backoff the dead stream is cleared: whatever stream is there.
ClearsStream(s) ==
  /\ At(s, "backoff")
  /\ IF Pointless THEN MonEnds(s) /\ UNCHANGED active
     ELSE /\ active' = NoStream
          /\ MonGoto(s, "release") /\ UNCHANGED <<built, claimed>>
  /\ UNCHANGED <<state, override, attempt, held, threadVars, callVars, poll,
                 stale, mishaps>>

ReleasesArea(s) ==
  /\ At(s, "release")
  /\ Deactivates(s)
  /\ MonGoto(s, "ready")
  /\ UNCHANGED <<ownerVars, held, sender, lights, callVars, built, claimed, poll, stale>>

\* Whose the area is decides how a refused attempt ends (restart_refused).
AreaIsFree(s) ==
  /\ At(s, "ready") /\ area = NoStream
  /\ \/ MonGoto(s, "starting") /\ NoMishap
     \/ MonGoto(s, "fault") /\ Mishap("transport")
  /\ UNCHANGED <<ownerVars, held, threadVars, callVars, built, claimed, poll, stale>>

AreaIsHeld(s) ==
  /\ At(s, "ready") /\ area # NoStream /\ ~spent[s]
  /\ MonGoto(s, "fault")
  /\ UNCHANGED <<ownerVars, held, threadVars, callVars, built, claimed, poll,
                 stale, mishaps>>

\* register_area_taken_over: the owner's stream is left as it is.
AreaTakenOver(s) ==
  /\ At(s, "ready") /\ area # NoStream /\ spent[s]
  /\ IF override THEN UNCHANGED <<state, attempt>>
                 ELSE state' = "Failed" /\ attempt' = MaxAttempts
  /\ MonEnds(s)
  /\ UNCHANGED <<override, active, held, threadVars, callVars, poll, stale, mishaps>>

BeginsStart(s) ==
  /\ At(s, "starting")
  /\ IF Lost THEN MonEnds(s) /\ UNCHANGED state
     ELSE state' = "Starting" /\ MonGoto(s, "fetch") /\ UNCHANGED <<built, claimed>>
  /\ UNCHANGED <<override, active, attempt, held, threadVars, callVars, poll,
                 stale, mishaps>>

Fetched(s) ==
  /\ At(s, "fetch")
  /\ IF Lost THEN MonEnds(s)
             ELSE MonGoto(s, "build") /\ UNCHANGED <<built, claimed>>
  /\ UNCHANGED <<ownerVars, held, threadVars, callVars, poll, stale, mishaps>>

Rebuilds(s) ==
  /\ At(s, "build")
  /\ SpawnsFresh /\ built' = [built EXCEPT ![s] = Fresh]
  /\ MonGoto(s, "store")
  /\ UNCHANGED <<ownerVars, held, callVars, claimed, poll, stale, mishaps>>

\* The new stream arms a monitor of its own.
MayStore_Anyway == TRUE
MayStore == ~Lost
Restarted(s) ==
  /\ At(s, "store") /\ MayStore
  /\ state' = "Running" /\ active' = built[s] /\ attempt' = 0
  /\ watch' = [watch EXCEPT ![s] = "ended", ![built[s]] = "watch"]
  /\ built' = [built EXCEPT ![s] = NoStream] /\ claimed' = FALSE
  /\ UNCHANGED <<override, held, threadVars, callVars, poll, stale, mishaps>>

\* settle_abandoned_reconnect: the claim lasts until the area is given back.
Abandons(s) ==
  /\ At(s, "store") /\ ~MayStore
  /\ MonGoto(s, "drain")
  /\ UNCHANGED <<ownerVars, held, threadVars, callVars, built, claimed, poll,
                 stale, mishaps>>

GivesBack_AfterStop(s) ==
  /\ At(s, "drain") /\ gate = NoCall
  /\ Drained(built[s]) /\ NoMishap
  /\ MonEnds(s)
  /\ UNCHANGED <<ownerVars, held, threadVars, callVars, poll, stale>>
GivesBack(s) ==
  /\ At(s, "drain")
  /\ \/ Drained(built[s]) /\ NoMishap
     \/ ~Drained(built[s]) /\ Mishap("timeout")
  /\ MonEnds(s)
  /\ UNCHANGED <<ownerVars, held, threadVars, callVars, poll, stale>>

MonitorStep(s) ==
  \/ StopsWaiting(s) \/ Claims(s) \/ CountsFault(s) \/ ClearsStream(s)
  \/ ReleasesArea(s) \/ AreaIsFree(s) \/ AreaIsHeld(s) \/ AreaTakenOver(s)
  \/ BeginsStart(s) \/ Fetched(s) \/ Rebuilds(s) \/ Restarted(s)
  \/ Abandons(s) \/ GivesBack(s)

-----------------------------------------------------------------------------
(* refresh_hue_stream_status, as the health monitor polls it *)

\* The dead-sender probe: it needs no bridge, and leaves a claimed death alone.
PollProbes ==
  /\ ~poll /\ IsActive /\ active # NoStream /\ sender[active] = "gone" /\ ~claimed
  /\ TransientFault(NoStream)
  /\ UNCHANGED <<held, threadVars, callVars, monVars, poll, stale, mishaps>>

StreamIsUp == IsActive /\ active # NoStream /\ sender[active] = "up"
PollAsks ==
  /\ LatePolls /\ ~poll /\ StreamIsUp
  /\ poll' = TRUE
  /\ UNCHANGED <<ownerVars, held, threadVars, callVars, monVars, stale, mishaps>>

\* The poll asked a stream that has died since and is being rebuilt: its answer
\* takes the runtime out of Starting, by which a stop knows of the rebuild.
AnswersRebuild == claimed /\ state = "Starting" /\ state' # "Starting"

\* status_refresh_with_evidence: the answer is about the stream that was there
\* when the poll asked, and is applied to the runtime as it is now.
PollHears ==
  /\ poll \/ (~LatePolls /\ StreamIsUp)
  /\ poll' = FALSE
  /\ \/ /\ override \/ ~IsActive
        /\ UNCHANGED ownerVars /\ NoMishap
     \/ /\ ~override /\ IsActive
        /\ \/ /\ NoMishap /\ state' = "Running" /\ attempt' \in {0, attempt}
              /\ UNCHANGED <<override, active>>
           \/ Mishap("transport") /\ TransientFault(active)
           \/ /\ Mishap("auth") /\ state' = "Failed" /\ active' = NoStream
              /\ UNCHANGED <<override, attempt>>
  /\ UNCHANGED <<held, threadVars, callVars, monVars>>
  /\ stale' = IF AnswersRebuild THEN stale \cup {"answer"} ELSE stale

PollStep == PollProbes \/ PollAsks \/ PollHears

-----------------------------------------------------------------------------
Busy(c) == pc[c] \notin {"new", "done"}
Monitoring(s) == watch[s] \notin {"none", "watch", "ended"}
Ending(s) == sender[s] = "up" /\ ~Handled(s)
Watching(s) == watch[s] = "watch" /\ sender[s] = "gone"
Quiet == /\ \A c \in Calls : ~Busy(c)
         /\ \A s \in Streams : ~Monitoring(s) /\ ~Ending(s) /\ ~Watching(s)
         /\ ~poll

\* The instance ends where it has no sender left to spawn.
Rest == (Quiet \/ Unborn = {}) /\ UNCHANGED vars

Next == \/ \E c \in Calls : Begin(c) \/ CallStep(c)
        \/ \E s \in Streams : MonitorStep(s) \/ SenderEnds(s)
        \/ PollStep \/ AreaExpires \/ ForeignStreams \/ Rest

\* Each call and each monitor is a task of its own, each sender a thread, and
\* the health monitor polls for as long as Hue is live.
Fairness == /\ \A c \in Calls : WF_vars(CallStep(c))
            /\ \A s \in Streams : /\ WF_vars(MonitorStep(s))
                                  /\ WF_vars(~Handled(s) /\ SenderEnds(s))
            /\ WF_vars(PollStep)

Spec == Init /\ [][Next]_vars
FairSpec == Spec /\ Fairness

-----------------------------------------------------------------------------
(* Properties *)

\* Every variable stays in its type; above all neither the poll nor a monitor
\* takes the attempts beyond the retry budget (register_transient_fault).
TypeOK ==
  /\ state \in {"Idle", "Starting", "Running", "Reconnecting", "Failed"}
  /\ {override, claimed, poll} \subseteq BOOLEAN
  /\ active \in Streams \cup {NoStream}
  /\ attempt \in 0..MaxAttempts
  /\ held \in {"none", "home", "painted"}
  /\ gate \in Calls \cup {NoCall}
  /\ sender \in [Streams -> {"unborn", "up", "gone"}]
  /\ spent \in [Streams -> BOOLEAN]
  /\ watch \in [Streams -> {"none", "watch", "fault", "backoff", "release", "ready",
                            "starting", "fetch", "build", "store", "drain", "ended"}]
  /\ built \in [Streams -> Streams \cup {NoStream}]
  /\ pc \in [Calls -> {"new", "gate", "halt", "quiesce", "read", "decide", "guard",
                       "capture", "build", "store", "drain", "again", "yield",
                       "restore", "done"}]
  /\ op \in [Calls -> {"none", "start", "restart", "stop"}]
  /\ has \in [Calls -> Streams \cup {NoStream}]
  /\ seen \in [Calls -> {"none", "ready", "blocked", "auth", "putFailed"}]
  /\ took \in [Calls -> {"none", "home", "painted"}]
  /\ waits \in [Calls -> BOOLEAN]
  /\ area \in Streams \cup {NoStream, Foreign}
  /\ lights \in {"home", "painted"}
  /\ stale \subseteq {"reading", "answer"}
  /\ mishaps \in 0..MaxMishaps

\* A runtime that is stopped, by a call, by a budget spent or by a key refused,
\* holds no stream: every way into Idle or Failed lets go of it
\* (let_go_of_the_stream), also when a bring-up was under way.
StoppedHoldsNoStream == Stopped => active = NoStream

\* A stop is not undone: until the next start decides, no bring-up, monitor or
\* poll that was under way stores a stream or leaves Idle (the guards of
\* bring_up_stream, a_stop_overtook_the_reconnect).
StopIsFinal == override => state = "Idle" /\ active = NoStream

\* At most one monitor restarts, and reconnect_in_progress says whether one
\* does: no path leaves the flag behind (try_claim_reconnect and its guard).
OneRestart == /\ claimed <=> \E s \in Streams : Monitoring(s)
              /\ \A s, t \in Streams : Monitoring(s) /\ Monitoring(t) => s = t

\* The snapshot a session holds shows the lights as they were before it first
\* streamed, through every restart and reconnect (adopt_light_snapshot), unless
\* a poll's answer hid a rebuild from the stop that would have waited for it.
SnapshotAlwaysHome == held # "painted"
SnapshotIsHome == "answer" \notin stale => SnapshotAlwaysHome

\* Once a stop and all it overtook have ended, the lights are as they were:
\* who ends last gives the area back before the restore writes (stop_hue_runtime,
\* settle_abandoned_start, settle_abandoned_reconnect). A poll's answer that hid
\* a rebuild from the stop is the one way for it to come first.
StopAlwaysRestores == Quiet /\ override => lights = "home"
StopRestores == "answer" \notin stale => StopAlwaysRestores

\* With nothing under way a runtime that says Running has its stream, and the
\* bridge has that stream on the area: no late deactivate took it away. A start
\* on a reading that no longer held is the one way for two streams to meet.
RunningAlwaysHasArea == Quiet /\ state = "Running" => active # NoStream /\ area = active
RunningStreamHasArea == "reading" \notin stale => RunningAlwaysHasArea

\* A Reconnecting runtime comes out of it, whichever of poll and monitor counted
\* the death: nobody leaves the restart to somebody who will not do it.
ReconnectEnds == state = "Reconnecting" ~> state # "Reconnecting"

\* Every start, restart and stop ends of itself, without the timeouts of its
\* waits: a stop that holds stop_in_flight and waits for a sender or an overtaken
\* restart is not waited for by what it waits for.
CallsEnd == \A c \in Calls : Busy(c) ~> pc[c] = "done"
=============================================================================
