---------------------------- MODULE HueRuntimeProofs ----------------------------
(***************************************************************************)
(* What holds of the Hue runtime for every number of calls, monitors and  *)
(* streams. The types, the finality of a stop and the one restart hold     *)
(* with polls and monitors as late as they like and anything going wrong   *)
(* at any step; what a runtime holds, what it restores and what its stream *)
(* has on the bridge hold of the transaction's calls, and each part says   *)
(* what else it assumes.                                                   *)
(***************************************************************************)
EXTENDS HueRuntime, TLAPS

-----------------------------------------------------------------------------
(* What the helpers of the actions do to the types *)

LEMMA FreshIsUnborn == Unborn # {} => Fresh \in Streams /\ sender[Fresh] = "unborn"
BY DEF Unborn, Fresh

LEMMA Bounds == /\ {0, MaxAttempts} \subseteq 0..MaxAttempts
                /\ 0 \in 0..MaxMishaps
BY BoundsAreNumbers

LEMMA MishapTypes ==
  ASSUME TypeOK, NEW kind, Mishap(kind) \/ NoMishap
  PROVE  mishaps' \in 0..MaxMishaps
BY BoundsAreNumbers DEF TypeOK, Mishap, NoMishap

LEMMA DeactivatesTypes ==
  ASSUME TypeOK, NEW s \in Streams \cup {NoStream}, Deactivates(s)
  PROVE  /\ spent' \in [Streams -> BOOLEAN]
         /\ area' \in Streams \cup {NoStream, Foreign}
         /\ mishaps' \in 0..MaxMishaps
<1>1. Mishap("put") \/ NoMishap
  BY DEF Deactivates
<1>2. spent' = spent \/ spent' = [spent EXCEPT ![s] = TRUE]
  BY DEF Deactivates
<1>3. area' \in {area, NoStream, Foreign}
  BY DEF Deactivates
<1>4. QED
  BY <1>1, <1>2, <1>3, MishapTypes DEF TypeOK

LEMMA FaultTypes ==
  ASSUME TypeOK, NEW s \in Streams \cup {NoStream}, TransientFault(s)
  PROVE  /\ state' \in {"Idle", "Starting", "Running", "Reconnecting", "Failed"}
         /\ active' \in Streams \cup {NoStream}
         /\ attempt' \in 0..MaxAttempts
         /\ override' \in BOOLEAN
BY BoundsAreNumbers DEF TypeOK, TransientFault, BudgetSpent, Keeps

LEMMA SpawnTypes ==
  ASSUME TypeOK, SpawnsFresh
  PROVE  /\ Fresh \in Streams
         /\ sender' \in [Streams -> {"unborn", "up", "gone"}]
         /\ spent' \in [Streams -> BOOLEAN]
         /\ area' \in Streams \cup {NoStream, Foreign}
         /\ lights' \in {"home", "painted"}
BY FreshIsUnborn DEF TypeOK, SpawnsFresh

-----------------------------------------------------------------------------
(* Types *)

LEMMA CallTypes ==
  ASSUME TypeOK, NEW c \in Calls, Begin(c) \/ CallStep(c)
  PROVE  TypeOK'
<1> USE DEF vars, ownerVars, threadVars, callVars, monVars, Goto, Under
<1>1. CASE Begin(c)
  BY <1>1, CallsAreApart DEF TypeOK, Begin, AllOps
<1>2. CASE PassGate(c)
  BY <1>2 DEF TypeOK, PassGate
<1>3. CASE RestartHalts(c)
  BY <1>3, BoundsAreNumbers DEF TypeOK, RestartHalts, StopOwner
<1>4. CASE RestartDeactivates(c)
  <2>1. has[c] \in Streams \cup {NoStream}
    BY DEF TypeOK
  <2>2. QED BY <1>4, <2>1, DeactivatesTypes DEF TypeOK, RestartDeactivates
<1>5. CASE ReadArea(c)
  <2>1. mishaps' \in 0..MaxMishaps
    BY <1>5, MishapTypes DEF ReadArea
  <2>2. QED BY <1>5, <2>1 DEF TypeOK, ReadArea
<1>6. CASE Decide(c)
  BY <1>6, Bounds DEF TypeOK, Decide
<1>7. CASE Guard(c)
  BY <1>7 DEF TypeOK, Guard
<1>8. CASE Capture(c)
  BY <1>8 DEF TypeOK, Capture
<1>9. CASE BuildSender(c)
  BY <1>9, SpawnTypes DEF TypeOK, BuildSender
<1>10. CASE StoreSender(c)
  <2>1. held' \in {"none", "home", "painted"}
    BY <1>10 DEF TypeOK, StoreSender, Adopt
  <2>2. QED BY <1>10, <2>1, Bounds DEF TypeOK, StoreSender
<1>11. CASE AbandonSender(c)
  BY <1>11 DEF TypeOK, AbandonSender
<1>12. CASE TakeGate(c)
  BY <1>12 DEF TypeOK, TakeGate
<1>13. CASE Halt(c)
  BY <1>13, BoundsAreNumbers DEF TypeOK, Halt, StopOwner, WaitsForReconnect
<1>14. CASE Quiesce(c)
  <2>1. has[c] \in Streams \cup {NoStream}
    BY DEF TypeOK
  <2>2. QED BY <1>14, <2>1, DeactivatesTypes DEF TypeOK, Quiesce
<1>15. CASE Drain(c)
  <2>1. mishaps' \in 0..MaxMishaps
    BY <1>15, MishapTypes DEF Drain
  <2>2. QED BY <1>15, <2>1 DEF TypeOK, Drain
<1>16. CASE Again(c)
  <2>1. has[c] \in Streams \cup {NoStream}
    BY DEF TypeOK
  <2>2. /\ spent' \in [Streams -> BOOLEAN]
        /\ area' \in Streams \cup {NoStream, Foreign}
        /\ mishaps' \in 0..MaxMishaps
    BY <1>16, <2>1, DeactivatesTypes DEF Again, TypeOK, NoMishap
  <2>3. QED BY <1>16, <2>2 DEF TypeOK, Again
<1>17. CASE Yield(c)
  <2>1. mishaps' \in 0..MaxMishaps
    BY <1>17, MishapTypes DEF Yield
  <2>2. QED BY <1>17, <2>1 DEF TypeOK, Yield
<1>18. CASE Restore(c)
  <2>1. mishaps' \in 0..MaxMishaps
    BY <1>18, MishapTypes DEF Restore
  <2>2. QED BY <1>18, <2>1 DEF TypeOK, Restore, GateAfter
<1>19. QED
  BY <1>1, <1>2, <1>3, <1>4, <1>5, <1>6, <1>7, <1>8, <1>9, <1>10, <1>11, <1>12,
     <1>13, <1>14, <1>15, <1>16, <1>17, <1>18 DEF CallStep

LEMMA MonEndsTypes ==
  ASSUME TypeOK, NEW s \in Streams, MonEnds(s)
  PROVE  /\ watch' \in [Streams -> {"none", "watch", "fault", "backoff", "release",
                                    "ready", "starting", "fetch", "build", "store",
                                    "drain", "ended"}]
         /\ built' \in [Streams -> Streams \cup {NoStream}]
         /\ claimed' \in BOOLEAN
BY DEF TypeOK, MonEnds, MonGoto

LEMMA MonitorTypes ==
  ASSUME TypeOK, NEW s \in Streams, MonitorStep(s)
  PROVE  TypeOK'
<1> USE DEF ownerVars, threadVars, callVars, monVars, At, MonGoto
<1>1. CASE StopsWaiting(s)
  BY <1>1 DEF TypeOK, StopsWaiting
<1>2. CASE Claims(s)
  BY <1>2 DEF TypeOK, Claims
<1>3. CASE CountsFault(s)
  <2>1. /\ state' \in {"Idle", "Starting", "Running", "Reconnecting", "Failed"}
        /\ active' \in Streams \cup {NoStream}
        /\ attempt' \in 0..MaxAttempts /\ override' \in BOOLEAN
    BY <1>3, FaultTypes DEF CountsFault, TypeOK
  <2>2. QED BY <1>3, <2>1, MonEndsTypes DEF TypeOK, CountsFault
<1>4. CASE ClearsStream(s)
  BY <1>4, MonEndsTypes DEF TypeOK, ClearsStream
<1>5. CASE ReleasesArea(s)
  BY <1>5, DeactivatesTypes DEF TypeOK, ReleasesArea
<1>6. CASE AreaIsFree(s)
  <2>1. mishaps' \in 0..MaxMishaps
    BY <1>6, MishapTypes DEF AreaIsFree
  <2>2. QED BY <1>6, <2>1 DEF TypeOK, AreaIsFree
<1>7. CASE AreaIsHeld(s)
  BY <1>7 DEF TypeOK, AreaIsHeld
<1>8. CASE AreaTakenOver(s)
  BY <1>8, MonEndsTypes, BoundsAreNumbers DEF TypeOK, AreaTakenOver
<1>9. CASE BeginsStart(s)
  BY <1>9, MonEndsTypes DEF TypeOK, BeginsStart
<1>10. CASE Fetched(s)
  BY <1>10, MonEndsTypes DEF TypeOK, Fetched
<1>11. CASE Rebuilds(s)
  BY <1>11, SpawnTypes DEF TypeOK, Rebuilds
<1>12. CASE Restarted(s)
  BY <1>12, Bounds DEF TypeOK, Restarted
<1>13. CASE Abandons(s)
  BY <1>13 DEF TypeOK, Abandons
<1>14. CASE GivesBack(s)
  <2>1. mishaps' \in 0..MaxMishaps
    BY <1>14, MishapTypes DEF GivesBack
  <2>2. QED BY <1>14, <2>1, MonEndsTypes DEF TypeOK, GivesBack
<1>15. QED
  BY <1>1, <1>2, <1>3, <1>4, <1>5, <1>6, <1>7, <1>8, <1>9, <1>10, <1>11, <1>12,
     <1>13, <1>14 DEF MonitorStep

LEMMA WorldTypes ==
  ASSUME TypeOK,
         \/ \E s \in Streams : SenderEnds(s)
         \/ PollStep \/ AreaExpires \/ ForeignStreams
  PROVE  TypeOK'
<1> USE DEF ownerVars, threadVars, callVars, monVars
<1>1. ASSUME NEW s \in Streams, SenderEnds(s) PROVE TypeOK'
  <2>1. /\ spent' \in [Streams -> BOOLEAN]
        /\ area' \in Streams \cup {NoStream, Foreign}
        /\ mishaps' \in 0..MaxMishaps
    BY <1>1, DeactivatesTypes, MishapTypes DEF SenderEnds, TypeOK
  <2>2. QED BY <1>1, <2>1 DEF TypeOK, SenderEnds
<1>2. CASE PollProbes
  <2>1. /\ state' \in {"Idle", "Starting", "Running", "Reconnecting", "Failed"}
        /\ active' \in Streams \cup {NoStream}
        /\ attempt' \in 0..MaxAttempts /\ override' \in BOOLEAN
    BY <1>2, FaultTypes DEF PollProbes
  <2>2. QED BY <1>2, <2>1 DEF TypeOK, PollProbes
<1>3. CASE PollAsks
  BY <1>3 DEF TypeOK, PollAsks
<1>4. CASE PollHears
  <2>1. /\ state' \in {"Idle", "Starting", "Running", "Reconnecting", "Failed"}
        /\ active' \in Streams \cup {NoStream}
        /\ attempt' \in 0..MaxAttempts /\ override' \in BOOLEAN
    BY <1>4, FaultTypes, BoundsAreNumbers DEF PollHears, TypeOK
  <2>2. mishaps' \in 0..MaxMishaps
    BY <1>4, MishapTypes DEF PollHears
  <2>3. QED BY <1>4, <2>1, <2>2 DEF TypeOK, PollHears
<1>5. CASE AreaExpires
  BY <1>5 DEF TypeOK, AreaExpires
<1>6. CASE ForeignStreams
  <2>1. mishaps' \in 0..MaxMishaps
    BY <1>6, MishapTypes DEF ForeignStreams
  <2>2. QED BY <1>6, <2>1 DEF TypeOK, ForeignStreams
<1>7. QED
  BY <1>1, <1>2, <1>3, <1>4, <1>5, <1>6 DEF PollStep

LEMMA InitTypes == Init => TypeOK
<1> SUFFICES ASSUME Init PROVE TypeOK
  OBVIOUS
<1>1. /\ spent \in [Streams -> BOOLEAN] /\ waits \in [Calls -> BOOLEAN]
      /\ {override, claimed, poll} \subseteq BOOLEAN
  BY DEF Init
<1>2. QED
  BY <1>1, Bounds DEF Init, TypeOK

LEMMA StepTypes == TypeOK /\ [Next]_vars => TypeOK'
<1> SUFFICES ASSUME TypeOK, [Next]_vars PROVE TypeOK'
  OBVIOUS
<1>1. CASE UNCHANGED vars
  BY <1>1 DEF TypeOK, vars, ownerVars, threadVars, callVars, monVars
<1>2. CASE Next
  BY <1>1, <1>2, CallTypes, MonitorTypes, WorldTypes DEF Next, Rest
<1>3. QED BY <1>1, <1>2

(* The state of the runtime stays within its types, whoever writes it; in
   particular no fault takes the reconnect attempts beyond the retry budget. *)
THEOREM RuntimeTypes == Spec => []TypeOK
<1>1. QED BY InitTypes, StepTypes, PTL DEF Spec

-----------------------------------------------------------------------------
(* A stop is final *)

LEMMA StopStaysFinal == TypeOK /\ StopIsFinal /\ [Next]_vars => StopIsFinal'
<1> SUFFICES ASSUME TypeOK, StopIsFinal, [Next]_vars PROVE StopIsFinal'
  OBVIOUS
<1> USE DEF StopIsFinal, ownerVars, IsActive, Stopped
<1>1. ASSUME UNCHANGED ownerVars PROVE StopIsFinal'
  BY <1>1
<1>2. ASSUME NEW c \in Calls, CallStep(c) PROVE StopIsFinal'
  <2>1. CASE Decide(c)
    BY <2>1 DEF Decide
  <2>2. CASE RestartHalts(c) \/ Halt(c)
    BY <2>2 DEF RestartHalts, Halt, StopOwner
  <2>3. CASE StoreSender(c)
    BY <2>3 DEF StoreSender, Overtaken
  <2>4. CASE \/ PassGate(c) \/ RestartDeactivates(c) \/ ReadArea(c) \/ Guard(c)
             \/ Capture(c) \/ BuildSender(c) \/ AbandonSender(c) \/ TakeGate(c)
             \/ Quiesce(c) \/ Drain(c) \/ Again(c) \/ Yield(c) \/ Restore(c)
    BY <1>1, <2>4 DEF PassGate, RestartDeactivates, ReadArea, Guard, Capture,
       BuildSender, AbandonSender, TakeGate, Quiesce, Drain, Again, Yield, Restore
  <2>5. QED BY <1>2, <2>1, <2>2, <2>3, <2>4 DEF CallStep
<1>3. ASSUME NEW s \in Streams, MonitorStep(s) PROVE StopIsFinal'
  <2>1. CASE CountsFault(s)
    BY <2>1 DEF CountsFault, TransientFault
  <2>2. CASE ClearsStream(s)
    BY <2>2 DEF ClearsStream
  <2>3. CASE AreaTakenOver(s)
    BY <2>3 DEF AreaTakenOver
  <2>4. CASE BeginsStart(s)
    BY <2>4 DEF BeginsStart, Lost
  <2>5. CASE Restarted(s)
    BY <2>5 DEF Restarted, MayStore, Lost
  <2>6. CASE \/ StopsWaiting(s) \/ Claims(s) \/ ReleasesArea(s) \/ AreaIsFree(s)
             \/ AreaIsHeld(s) \/ Fetched(s) \/ Rebuilds(s) \/ Abandons(s)
             \/ GivesBack(s)
    BY <1>1, <2>6 DEF StopsWaiting, Claims, ReleasesArea, AreaIsFree, AreaIsHeld,
       Fetched, Rebuilds, Abandons, GivesBack
  <2>7. QED BY <1>3, <2>1, <2>2, <2>3, <2>4, <2>5, <2>6 DEF MonitorStep
<1>4. CASE PollStep
  <2>1. CASE PollProbes
    BY <2>1 DEF PollProbes, TransientFault
  <2>2. CASE PollAsks
    BY <1>1, <2>2 DEF PollAsks
  <2>3. CASE PollHears
    BY <2>3 DEF PollHears, TransientFault
  <2>4. QED BY <1>4, <2>1, <2>2, <2>3 DEF PollStep
<1>5. CASE \/ \E c \in Calls : Begin(c)
           \/ \E s \in Streams : SenderEnds(s)
           \/ AreaExpires \/ ForeignStreams \/ Rest \/ UNCHANGED vars
  BY <1>1, <1>5 DEF Begin, SenderEnds, AreaExpires, ForeignStreams, Rest, vars
<1>6. QED BY <1>2, <1>3, <1>4, <1>5 DEF Next

(* Once a user's stop is recorded nothing is stored and nothing is active: not
   by a start that was building, a monitor in its backoff, a reconnect that has
   built its sender, or an answer of the bridge that comes late. *)
THEOREM StopHolds == Spec => []StopIsFinal
<1>1. Init => StopIsFinal
  BY DEF Init, StopIsFinal
<1>2. QED BY <1>1, RuntimeTypes, StopStaysFinal, PTL DEF Spec

-----------------------------------------------------------------------------
(* One restart at a time *)

(* A sender that is built and not stored yet has no monitor, and one builder. *)
FreshSenders ==
  /\ \A s \in Streams : sender[s] = "unborn" => watch[s] = "none"
  /\ \A c \in Calls : pc[c] = "store" =>
       has[c] \in Streams /\ sender[has[c]] # "unborn" /\ watch[has[c]] = "none"
  /\ \A c, d \in Calls :
       pc[c] = "store" /\ pc[d] = "store" /\ has[c] = has[d] => c = d
  /\ \A s \in Streams : watch[s] = "store" =>
       built[s] \in Streams /\ sender[built[s]] # "unborn" /\ watch[built[s]] = "none"
  /\ \A c \in Calls, s \in Streams :
       pc[c] = "store" /\ watch[s] = "store" => has[c] # built[s]

RestartInv == TypeOK /\ OneRestart /\ FreshSenders

(* A call that neither builds nor stores leaves both parts alone. *)
LEMMA QuietCall ==
  ASSUME RestartInv, NEW c \in Calls, NEW label, label # "store",
         pc' = [pc EXCEPT ![c] = label],
         \A d \in Calls \ {c} : has'[d] = has[d],
         UNCHANGED <<sender, monVars>>
  PROVE  OneRestart' /\ FreshSenders'
<1> USE DEF RestartInv, monVars
<1>1. OneRestart'
  BY DEF OneRestart, Monitoring
<1>2. \A d \in Calls : pc'[d] = "store" => d # c /\ pc[d] = "store" /\ has'[d] = has[d]
  BY DEF TypeOK
<1>3. FreshSenders'
  BY <1>2 DEF FreshSenders
<1>4. QED BY <1>1, <1>3

LEMMA CallKeepsRestarts ==
  ASSUME RestartInv, NEW c \in Calls, Begin(c) \/ CallStep(c)
  PROVE  OneRestart' /\ FreshSenders'
<1> USE DEF Goto, Under, threadVars
<1>1. CASE BuildSender(c)
  <2>1. /\ Fresh \in Streams /\ sender[Fresh] = "unborn" /\ watch[Fresh] = "none"
        /\ sender' = [sender EXCEPT ![Fresh] = "up"]
    BY <1>1, FreshIsUnborn DEF BuildSender, SpawnsFresh, RestartInv, FreshSenders
  <2>2. OneRestart'
    BY <1>1 DEF BuildSender, RestartInv, OneRestart, Monitoring, monVars
  <2>3. /\ has' = [has EXCEPT ![c] = Fresh] /\ pc' = [pc EXCEPT ![c] = "store"]
        /\ UNCHANGED <<watch, built>>
    BY <1>1 DEF BuildSender, monVars
  <2>4. FreshSenders'
    BY <2>1, <2>3 DEF RestartInv, TypeOK, FreshSenders
  <2>5. QED BY <2>2, <2>4
<1>2. CASE StoreSender(c)
  <2>1. /\ pc[c] = "store" /\ has[c] \in Streams /\ watch[has[c]] = "none"
        /\ sender[has[c]] # "unborn"
    BY <1>2 DEF StoreSender, RestartInv, FreshSenders
  <2>2. /\ watch' = [watch EXCEPT ![has[c]] = "watch"]
        /\ has' = [has EXCEPT ![c] = NoStream] /\ pc' = [pc EXCEPT ![c] = "done"]
        /\ UNCHANGED <<sender, built, claimed>>
    BY <1>2 DEF StoreSender
  <2>3. \A s \in Streams : Monitoring(s)' <=> Monitoring(s)
    BY <2>1, <2>2 DEF Monitoring, RestartInv, TypeOK
  <2>4. OneRestart'
    BY <2>2, <2>3 DEF OneRestart, RestartInv
  <2>5. \A s \in Streams : s # has[c] => watch'[s] = watch[s]
    BY <2>2 DEF RestartInv, TypeOK
  <2>6. \A d \in Calls : pc'[d] = "store" =>
          /\ pc[d] = "store" /\ has'[d] = has[d] /\ has[d] # has[c]
    BY <2>1, <2>2 DEF RestartInv, TypeOK, FreshSenders
  <2>7. \A s \in Streams : watch'[s] = "store" =>
          /\ watch[s] = "store" /\ built[s] # has[c]
    BY <2>1, <2>2 DEF RestartInv, TypeOK, FreshSenders
  <2>8. FreshSenders'
    BY <2>1, <2>2, <2>5, <2>6, <2>7 DEF RestartInv, FreshSenders
  <2>9. QED BY <2>4, <2>8
<1>3. CASE \/ PassGate(c) \/ RestartHalts(c) \/ RestartDeactivates(c) \/ ReadArea(c)
           \/ Decide(c) \/ Guard(c) \/ Capture(c) \/ Begin(c)
  <2>1. /\ UNCHANGED <<sender, monVars>>
        /\ \A d \in Calls \ {c} : has'[d] = has[d]
        /\ \E label \in {"gate", "halt", "quiesce", "read", "decide", "guard",
                         "capture", "build", "done"} :
             pc' = [pc EXCEPT ![c] = label]
    BY <1>3 DEF PassGate, RestartHalts, RestartDeactivates, ReadArea, Decide, Guard,
       Capture, Begin, RestartInv, TypeOK
  <2>2. QED BY <2>1, QuietCall
<1>4. CASE \/ AbandonSender(c) \/ TakeGate(c) \/ Halt(c) \/ Quiesce(c) \/ Drain(c)
           \/ Again(c) \/ Yield(c) \/ Restore(c)
  <2>1. /\ UNCHANGED <<sender, monVars>>
        /\ \A d \in Calls \ {c} : has'[d] = has[d]
        /\ \E label \in {"halt", "quiesce", "drain", "again", "yield", "restore",
                         "done"} :
             pc' = [pc EXCEPT ![c] = label]
    BY <1>4 DEF AbandonSender, TakeGate, Halt, Quiesce, Drain, Again, Yield, Restore,
       RestartInv, TypeOK
  <2>2. QED BY <2>1, QuietCall
<1>5. QED BY <1>1, <1>2, <1>3, <1>4 DEF CallStep

(* A monitor that goes from one stage of its restart to another. *)
LEMMA MonitorMoves ==
  ASSUME RestartInv, NEW s \in Streams, Monitoring(s),
         NEW label \in {"fault", "backoff", "release", "ready", "starting", "fetch",
                        "build", "drain"},
         watch' = [watch EXCEPT ![s] = label],
         UNCHANGED <<sender, pc, has, built, claimed>>
  PROVE  OneRestart' /\ FreshSenders'
<1> USE DEF RestartInv, TypeOK, Monitoring
<1>1. OneRestart'
  BY DEF OneRestart
<1>2. \A t \in Streams : /\ watch[t] = "none" => watch'[t] = "none"
                         /\ watch'[t] = "store" => watch[t] = "store"
  OBVIOUS
<1>3. FreshSenders'
  BY <1>2 DEF FreshSenders
<1>4. QED BY <1>1, <1>3

(* A monitor that leaves its restart: it was the one, and the flag is clear. *)
LEMMA MonitorLeaves ==
  ASSUME RestartInv, NEW s \in Streams, Monitoring(s), MonEnds(s),
         UNCHANGED <<sender, pc, has>>
  PROVE  OneRestart' /\ FreshSenders'
<1> USE DEF RestartInv, TypeOK, Monitoring, MonEnds, MonGoto
<1>1. OneRestart'
  BY DEF OneRestart
<1>2. \A t \in Streams : /\ watch[t] = "none" => watch'[t] = "none"
                         /\ watch'[t] = "store" => t # s /\ watch[t] = "store"
                         /\ t # s => built'[t] = built[t]
  OBVIOUS
<1>3. FreshSenders'
  BY <1>2 DEF FreshSenders
<1>4. QED BY <1>1, <1>3

LEMMA MonitorKeepsRestarts ==
  ASSUME RestartInv, NEW s \in Streams, MonitorStep(s)
  PROVE  OneRestart' /\ FreshSenders'
<1> USE DEF At, MonGoto, callVars, threadVars
<1>1. CASE StopsWaiting(s)
  <2>1. OneRestart'
    BY <1>1 DEF StopsWaiting, RestartInv, TypeOK, OneRestart, Monitoring
  <2>2. FreshSenders'
    BY <1>1 DEF StopsWaiting, RestartInv, TypeOK, FreshSenders
  <2>3. QED BY <2>1, <2>2
<1>2. CASE Claims(s)
  <2>1. OneRestart'
    BY <1>2 DEF Claims, MayClaim, RestartInv, TypeOK, OneRestart, Monitoring
  <2>2. FreshSenders'
    BY <1>2 DEF Claims, RestartInv, TypeOK, FreshSenders
  <2>3. QED BY <2>1, <2>2
<1>3. CASE CountsFault(s)
  BY <1>3, MonitorMoves, MonitorLeaves DEF CountsFault, Monitoring
<1>4. CASE ClearsStream(s)
  BY <1>4, MonitorMoves, MonitorLeaves DEF ClearsStream, Monitoring
<1>5. CASE ReleasesArea(s) \/ AreaIsFree(s) \/ AreaIsHeld(s)
  BY <1>5, MonitorMoves DEF ReleasesArea, AreaIsFree, AreaIsHeld, Monitoring
<1>6. CASE AreaTakenOver(s)
  BY <1>6, MonitorLeaves DEF AreaTakenOver, Monitoring
<1>7. CASE BeginsStart(s)
  BY <1>7, MonitorMoves, MonitorLeaves DEF BeginsStart, Monitoring
<1>8. CASE Fetched(s)
  BY <1>8, MonitorMoves, MonitorLeaves DEF Fetched, Monitoring
<1>9. CASE Rebuilds(s)
  <2>1. /\ Fresh \in Streams /\ sender[Fresh] = "unborn" /\ watch[Fresh] = "none"
        /\ sender' = [sender EXCEPT ![Fresh] = "up"]
    BY <1>9, FreshIsUnborn DEF Rebuilds, SpawnsFresh, RestartInv, FreshSenders
  <2>2. /\ watch[s] = "build" /\ watch' = [watch EXCEPT ![s] = "store"]
        /\ built' = [built EXCEPT ![s] = Fresh] /\ UNCHANGED <<pc, has, claimed>>
    BY <1>9 DEF Rebuilds
  <2>3. OneRestart'
    BY <2>2 DEF RestartInv, TypeOK, OneRestart, Monitoring
  <2>4. \A t \in Streams : watch'[t] = "store" => t = s
    BY <2>2 DEF RestartInv, TypeOK, OneRestart, Monitoring
  <2>5. FreshSenders'
    BY <2>1, <2>2, <2>4 DEF RestartInv, TypeOK, FreshSenders
  <2>6. QED BY <2>3, <2>5
<1>10. CASE Restarted(s)
  <2>1. /\ watch[s] = "store" /\ built[s] \in Streams \ {s}
        /\ watch[built[s]] = "none" /\ sender[built[s]] # "unborn"
    BY <1>10 DEF Restarted, RestartInv, FreshSenders
  <2>2. /\ watch' = [watch EXCEPT ![s] = "ended", ![built[s]] = "watch"]
        /\ built' = [built EXCEPT ![s] = NoStream] /\ claimed' = FALSE
        /\ UNCHANGED <<sender, pc, has>>
    BY <1>10 DEF Restarted
  <2>3. \A t \in Streams : ~Monitoring(t)'
    BY <2>1, <2>2 DEF RestartInv, TypeOK, OneRestart, Monitoring
  <2>4. OneRestart'
    BY <2>2, <2>3 DEF OneRestart
  <2>5. \A t \in Streams \ {s, built[s]} : watch'[t] = watch[t]
    BY <2>1, <2>2 DEF RestartInv, TypeOK
  <2>6. \A t \in Streams : watch'[t] # "store"
    BY <2>3 DEF Monitoring
  <2>7. \A c \in Calls : pc[c] = "store" => has[c] \notin {s, built[s]}
    BY <2>1 DEF RestartInv, FreshSenders
  <2>8. FreshSenders'
    BY <2>1, <2>2, <2>5, <2>6, <2>7 DEF RestartInv, FreshSenders
  <2>9. QED BY <2>4, <2>8
<1>11. CASE Abandons(s)
  BY <1>11, MonitorMoves DEF Abandons, Monitoring
<1>12. CASE GivesBack(s)
  BY <1>12, MonitorLeaves DEF GivesBack, Monitoring
<1>13. QED
  BY <1>1, <1>2, <1>3, <1>4, <1>5, <1>6, <1>7, <1>8, <1>9, <1>10, <1>11, <1>12
     DEF MonitorStep

LEMMA WorldKeepsRestarts ==
  ASSUME RestartInv,
         \/ \E s \in Streams : SenderEnds(s)
         \/ PollStep \/ AreaExpires \/ ForeignStreams \/ UNCHANGED vars
  PROVE  OneRestart' /\ FreshSenders'
<1> USE DEF callVars, monVars
<1>1. UNCHANGED <<monVars, callVars>>
  BY DEF SenderEnds, PollStep, PollProbes, PollAsks, PollHears, AreaExpires,
     ForeignStreams, vars
<1>2. OneRestart'
  BY <1>1 DEF RestartInv, OneRestart, Monitoring
<1>3. \A s \in Streams : sender'[s] = "unborn" <=> sender[s] = "unborn"
  BY DEF SenderEnds, PollStep, PollProbes, PollAsks, PollHears, AreaExpires,
     ForeignStreams, vars, threadVars, RestartInv, TypeOK
<1>4. FreshSenders'
  BY <1>1, <1>3 DEF RestartInv, FreshSenders
<1>5. QED BY <1>2, <1>4

LEMMA RestartInvHolds == Spec => []RestartInv
<1>1. Init => RestartInv
  <2>1. Init => OneRestart /\ FreshSenders
    BY DEF Init, OneRestart, Monitoring, FreshSenders
  <2>2. QED BY <2>1, InitTypes DEF RestartInv
<1>2. RestartInv /\ [Next]_vars => RestartInv'
  <2> SUFFICES ASSUME RestartInv, [Next]_vars PROVE RestartInv'
    OBVIOUS
  <2>1. TypeOK'
    BY StepTypes DEF RestartInv
  <2>2. OneRestart' /\ FreshSenders'
    BY CallKeepsRestarts, MonitorKeepsRestarts, WorldKeepsRestarts DEF Next, Rest
  <2>3. QED BY <2>1, <2>2 DEF RestartInv
<1>3. QED BY <1>1, <1>2, PTL DEF Spec

(* reconnect_in_progress says whether a monitor restarts, and never two do:
   neither a claim that outlives its restart nor a second restart beside it. *)
THEOREM RestartsOneByOne == Spec => []OneRestart
<1>1. RestartInv => OneRestart
  BY DEF RestartInv
<1>2. QED BY <1>1, RestartInvHolds, PTL

-----------------------------------------------------------------------------
(* A stopped runtime holds no stream *)

(* The hypotheses of this part: the transaction makes all calls, in turn, and a
   start that finds the runtime stopped finds every monitor ended. *)
OneSide == UiCalls = {} /\ ~LateMonitors

OneCall == \A c, d \in Calls : Busy(c) /\ Busy(d) => c = d

(* A restart has stopped the runtime until it decides. *)
Halted(c) == op[c] = "restart" /\ pc[c] \in {"quiesce", "read", "decide"}
RestartIsStopped == \A c \in Calls : Halted(c) => override

(* A bring-up starts from nothing: no monitor is about, no stream is there. *)
BringingUp(c) == pc[c] \in {"guard", "capture", "build", "store"}
BringsUpAlone == \A c \in Calls : BringingUp(c) => MonitorsEnded /\ active = NoStream

(* A monitor that restarts has cleared its stream, and no other took its place. *)
Restarting(s) == watch[s] \in {"release", "ready", "starting", "fetch", "build", "store"}
RestartsBare == \A s \in Streams : Restarting(s) => active = NoStream

SideInv == /\ OneCall /\ RestartIsStopped /\ BringsUpAlone /\ RestartsBare
           /\ StoppedHoldsNoStream

LEMMA OnlyCall ==
  ASSUME OneSide, TypeOK, OneCall, NEW c \in Calls, Begin(c) \/ CallStep(c)
  PROVE  /\ OneCall'
         /\ \A d \in Calls \ {c} : ~Busy(d) /\ ~Busy(d)'
         /\ \A d \in Calls \ {c} : pc'[d] = pc[d] /\ op'[d] = op[d] /\ has'[d] = has[d]
                                   /\ took'[d] = took[d] /\ waits'[d] = waits[d]
         /\ CallStep(c) => Busy(c) /\ op' = op
<1> USE DEF Goto, Under, TypeOK
<1>1. CASE Begin(c)
  <2>1. \A d \in Calls \ {c} : ~Busy(d)
    BY <1>1, CallsAreApart DEF Begin, SameSide, OneSide, Calls, Busy
  <2>2. \A d \in Calls \ {c} : pc'[d] = pc[d] /\ op'[d] = op[d]
    BY <1>1 DEF Begin
  <2>3. UNCHANGED <<has, took, waits>>
    BY <1>1 DEF Begin
  <2>4. ~CallStep(c)
    BY <1>1 DEF Begin, CallStep, PassGate, RestartHalts, RestartDeactivates, ReadArea,
       Decide, Guard, Capture, BuildSender, StoreSender, AbandonSender, TakeGate, Halt,
       Quiesce, Drain, Again, Yield, Restore
  <2>5. QED BY <2>1, <2>2, <2>3, <2>4 DEF OneCall, Busy
<1>2. CASE CallStep(c)
  <2>1. /\ Busy(c) /\ op' = op
        /\ \A d \in Calls \ {c} : pc'[d] = pc[d]
    <3>1. CASE \/ PassGate(c) \/ RestartHalts(c) \/ RestartDeactivates(c) \/ ReadArea(c)
               \/ Decide(c) \/ Guard(c) \/ Capture(c) \/ BuildSender(c)
      BY <3>1 DEF PassGate, RestartHalts, RestartDeactivates, ReadArea, Decide, Guard,
         Capture, BuildSender, Busy
    <3>2. CASE \/ StoreSender(c) \/ AbandonSender(c) \/ TakeGate(c) \/ Halt(c)
               \/ Quiesce(c) \/ Drain(c) \/ Again(c) \/ Yield(c) \/ Restore(c)
      BY <3>2 DEF StoreSender, AbandonSender, TakeGate, Halt, Quiesce, Drain, Again,
         Yield, Restore, Busy
    <3>3. QED BY <1>2, <3>1, <3>2 DEF CallStep
  <2>2. \A d \in Calls \ {c} : has'[d] = has[d] /\ took'[d] = took[d]
                               /\ waits'[d] = waits[d]
    <3>1. CASE \/ PassGate(c) \/ RestartHalts(c) \/ RestartDeactivates(c) \/ ReadArea(c)
               \/ Decide(c) \/ Guard(c) \/ Capture(c) \/ BuildSender(c)
      BY <3>1 DEF PassGate, RestartHalts, RestartDeactivates, ReadArea, Decide, Guard,
         Capture, BuildSender
    <3>2. CASE \/ StoreSender(c) \/ AbandonSender(c) \/ TakeGate(c) \/ Halt(c)
               \/ Quiesce(c) \/ Drain(c) \/ Again(c) \/ Yield(c) \/ Restore(c)
      BY <3>2 DEF StoreSender, AbandonSender, TakeGate, Halt, Quiesce, Drain, Again,
         Yield, Restore
    <3>3. QED BY <1>2, <3>1, <3>2 DEF CallStep
  <2>3. QED BY <2>1, <2>2 DEF OneCall, Busy
<1>3. QED BY <1>1, <1>2

LEMMA SideCalls ==
  ASSUME OneSide, RestartInv, StopIsFinal, SideInv, NEW c \in Calls,
         Begin(c) \/ CallStep(c)
  PROVE  SideInv'
<1> USE DEF RestartInv, TypeOK, Goto, Under, SideInv
<1>1. /\ OneCall'
      /\ \A d \in Calls \ {c} : ~Halted(d)' /\ ~BringingUp(d) /\ ~BringingUp(d)'
      /\ CallStep(c) => op' = op
  BY OnlyCall DEF Busy, Halted, BringingUp
<1>2. ASSUME UNCHANGED <<ownerVars, watch>>, ~Halted(c)' \/ Halted(c),
             ~BringingUp(c)' \/ BringingUp(c)
      PROVE  SideInv'
  <2>1. RestartIsStopped'
    BY <1>1, <1>2 DEF RestartIsStopped, ownerVars
  <2>2. BringsUpAlone'
    BY <1>1, <1>2 DEF BringsUpAlone, MonitorsEnded, ownerVars
  <2>3. RestartsBare' /\ StoppedHoldsNoStream'
    BY <1>2 DEF RestartsBare, Restarting, StoppedHoldsNoStream, Stopped, ownerVars
  <2>4. QED BY <1>1, <2>1, <2>2, <2>3
<1>3. CASE \/ Begin(c) \/ PassGate(c) \/ RestartDeactivates(c) \/ ReadArea(c)
           \/ Guard(c) \/ Capture(c) \/ BuildSender(c)
  BY <1>2, <1>3 DEF Begin, PassGate, RestartDeactivates, ReadArea, Guard, Capture,
     BuildSender, Halted, BringingUp, monVars
<1>4. CASE \/ AbandonSender(c) \/ TakeGate(c) \/ Quiesce(c) \/ Drain(c) \/ Again(c)
           \/ Yield(c) \/ Restore(c)
  BY <1>2, <1>4 DEF AbandonSender, TakeGate, Quiesce, Drain, Again, Yield, Restore,
     Halted, BringingUp, monVars
<1>5. CASE RestartHalts(c) \/ Halt(c)
  <2>1. /\ override' /\ active' = NoStream /\ ~BringingUp(c)'
    BY <1>5 DEF RestartHalts, Halt, StopOwner, BringingUp
  <2>2. QED BY <1>1, <2>1 DEF RestartIsStopped, BringsUpAlone, RestartsBare,
          StoppedHoldsNoStream
<1>6. CASE Decide(c)
  <2>1. IsActive => op[c] # "restart"
    BY <1>6 DEF Decide, RestartIsStopped, Halted, StopIsFinal, IsActive
  <2>2. ~IsActive => MonitorsEnded /\ active = NoStream
    BY <1>6 DEF Decide, OneSide, IsActive, Stopped, StoppedHoldsNoStream
  <2>3. /\ BringingUp(c)' => ~IsActive
        /\ ~Halted(c)' /\ UNCHANGED watch /\ active' \in {active, NoStream}
        /\ IsActive => UNCHANGED <<state, active>>
    BY <1>6, <2>1 DEF Decide, GoesOn, BringingUp, Halted, monVars
  <2>4. RestartIsStopped' /\ BringsUpAlone'
    BY <1>1, <2>2, <2>3 DEF RestartIsStopped, BringsUpAlone, MonitorsEnded
  <2>5. RestartsBare'
    BY <2>3 DEF RestartsBare, Restarting
  <2>6. StoppedHoldsNoStream'
    BY <2>2, <2>3 DEF StoppedHoldsNoStream, IsActive, Stopped
  <2>7. QED BY <1>1, <2>4, <2>5, <2>6
<1>7. CASE StoreSender(c)
  <2>1. /\ ~Stopped' /\ ~BringingUp(c)' /\ ~Halted(c)'
        /\ \A s \in Streams : watch'[s] \in {watch[s], "watch"}
    BY <1>7 DEF StoreSender, Overtaken, Stopped, BringingUp, Halted
  <2>2. MonitorsEnded
    BY <1>7 DEF StoreSender, BringsUpAlone, BringingUp
  <2>3. QED BY <1>1, <2>1, <2>2 DEF RestartIsStopped, BringsUpAlone, RestartsBare,
          Restarting, MonitorsEnded, StoppedHoldsNoStream
<1>8. QED BY <1>3, <1>4, <1>5, <1>6, <1>7 DEF CallStep

LEMMA FaultHoldsNoStream ==
  ASSUME StopIsFinal, StoppedHoldsNoStream, NEW s, TransientFault(s),
         s \in {active, NoStream}
  PROVE  StoppedHoldsNoStream' /\ active' \in {active, NoStream} /\ override' = override
BY DEF TransientFault, Keeps, StopIsFinal, StoppedHoldsNoStream, Stopped

LEMMA SideMonitors ==
  ASSUME RestartInv, StopIsFinal, SideInv, NEW s \in Streams, MonitorStep(s)
  PROVE  SideInv'
<1> USE DEF RestartInv, TypeOK, At, MonGoto, MonEnds, SideInv, ownerVars
<1>1. watch[s] \notin {"none", "ended"} /\ UNCHANGED <<callVars, override>>
  BY FaultHoldsNoStream DEF MonitorStep, StopsWaiting, Claims, CountsFault, ClearsStream,
     ReleasesArea, AreaIsFree, AreaIsHeld, AreaTakenOver, BeginsStart, Fetched, Rebuilds,
     Restarted, Abandons, GivesBack
<1>2. \A c \in Calls : ~BringingUp(c)
  BY <1>1 DEF BringsUpAlone, MonitorsEnded
<1>3. OneCall' /\ RestartIsStopped' /\ BringsUpAlone'
  BY <1>1, <1>2 DEF callVars, OneCall, Busy, RestartIsStopped, Halted, BringsUpAlone,
     BringingUp
<1>4. CASE StopsWaiting(s) \/ Claims(s)
  BY <1>3, <1>4 DEF StopsWaiting, Claims, RestartsBare, Restarting,
     StoppedHoldsNoStream, Stopped
<1>5. CASE ~StopsWaiting(s) /\ ~Claims(s)
  <2>1. Monitoring(s) /\ \A t \in Streams : Restarting(t) => t = s
    <3>1. Monitoring(s)
      BY <1>5 DEF MonitorStep, CountsFault, ClearsStream, ReleasesArea, AreaIsFree,
         AreaIsHeld, AreaTakenOver, BeginsStart, Fetched, Rebuilds, Restarted, Abandons,
         GivesBack, Monitoring
    <3>2. QED BY <3>1 DEF OneRestart, Monitoring, Restarting
  <2>2. ASSUME active' \in {active, NoStream},
               \A t \in Streams \ {s} : watch'[t] = watch[t],
               Restarting(s)' => Restarting(s) \/ active' = NoStream
        PROVE  RestartsBare'
    BY <2>1, <2>2 DEF RestartsBare, Restarting
  <2>3. CASE CountsFault(s)
    <3>1. /\ StoppedHoldsNoStream' /\ active' \in {active, NoStream}
          /\ watch'[s] \in {"ended", "backoff"}
          /\ \A t \in Streams \ {s} : watch'[t] = watch[t]
      BY <2>3, FaultHoldsNoStream DEF CountsFault
    <3>2. QED BY <1>3, <2>2, <3>1 DEF Restarting
  <2>4. CASE ClearsStream(s)
    <3>1. /\ active' \in {active, NoStream} /\ state' = state
          /\ watch'[s] = "ended" \/ active' = NoStream
          /\ \A t \in Streams \ {s} : watch'[t] = watch[t]
      BY <2>4 DEF ClearsStream
    <3>2. QED BY <1>3, <2>2, <3>1 DEF Restarting, StoppedHoldsNoStream, Stopped
  <2>5. CASE \/ ReleasesArea(s) \/ AreaIsFree(s) \/ AreaIsHeld(s) \/ Fetched(s)
             \/ Rebuilds(s) \/ Abandons(s) \/ GivesBack(s)
    <3>1. /\ UNCHANGED <<active, state>>
          /\ \A t \in Streams \ {s} : watch'[t] = watch[t]
          /\ Restarting(s)' => Restarting(s)
      BY <2>5 DEF ReleasesArea, AreaIsFree, AreaIsHeld, Fetched, Rebuilds, Abandons,
         GivesBack, Restarting
    <3>2. QED BY <1>3, <2>2, <3>1 DEF StoppedHoldsNoStream, Stopped
  <2>6. CASE AreaTakenOver(s) \/ BeginsStart(s)
    <3>1. /\ UNCHANGED active
          /\ \A t \in Streams \ {s} : watch'[t] = watch[t]
          /\ Restarting(s)
      BY <2>6 DEF AreaTakenOver, BeginsStart, Restarting
    <3>2. QED BY <1>3, <2>2, <3>1 DEF RestartsBare, StoppedHoldsNoStream
  <2>7. CASE Restarted(s)
    <3>1. state' = "Running" /\ \A t \in Streams : ~Restarting(t)'
      BY <2>1, <2>7 DEF Restarted, Restarting
    <3>2. QED BY <1>3, <3>1 DEF RestartsBare, StoppedHoldsNoStream, Stopped
  <2>8. QED BY <1>5, <2>3, <2>4, <2>5, <2>6, <2>7 DEF MonitorStep
<1>6. QED BY <1>4, <1>5

LEMMA SideWorld ==
  ASSUME RestartInv, StopIsFinal, SideInv,
         \/ \E s \in Streams : SenderEnds(s)
         \/ PollStep \/ AreaExpires \/ ForeignStreams \/ UNCHANGED vars
  PROVE  SideInv'
<1>1. UNCHANGED <<watch, callVars>>
  BY DEF SenderEnds, PollStep, PollProbes, PollAsks, PollHears, AreaExpires,
     ForeignStreams, vars, monVars, callVars
<1>2. /\ StoppedHoldsNoStream' /\ active' \in {active, NoStream}
      /\ override' = override
  <2>1. CASE UNCHANGED ownerVars
    BY <2>1 DEF ownerVars, SideInv, StoppedHoldsNoStream, Stopped
  <2>2. CASE PollProbes
    BY <2>2, FaultHoldsNoStream DEF PollProbes, SideInv
  <2>3. CASE PollHears
    BY <2>1, <2>3, FaultHoldsNoStream DEF PollHears, SideInv, StoppedHoldsNoStream, Stopped
  <2>4. QED
    BY <2>1, <2>2, <2>3 DEF SenderEnds, PollStep, PollAsks, AreaExpires, ForeignStreams,
       vars
<1>3. QED
  BY <1>1, <1>2 DEF SideInv, OneCall, Busy, RestartIsStopped, Halted, BringsUpAlone,
     BringingUp, MonitorsEnded, RestartsBare, Restarting, callVars

LEMMA SideInvHolds ==
  ASSUME OneSide
  PROVE  Spec => [](RestartInv /\ StopIsFinal /\ SideInv)
<1>1. Init => SideInv
  BY DEF Init, SideInv, OneCall, Busy, RestartIsStopped, Halted, BringsUpAlone,
     BringingUp, RestartsBare, Restarting, StoppedHoldsNoStream
<1>2. RestartInv /\ StopIsFinal /\ SideInv /\ [Next]_vars => SideInv'
  BY SideCalls, SideMonitors, SideWorld DEF Next, Rest
<1>3. QED
  BY <1>1, <1>2, RestartInvHolds, StopHolds, PTL DEF Spec

(* A runtime that is stopped holds no stream, whoever stopped it: a stop, a
   budget that is spent while polls and a monitor count the same deaths, a
   refused key, another app on the area (let_go_of_the_stream). *)
THEOREM StoppedRuntimeIsBare ==
  ASSUME UiCalls = {}, ~LateMonitors
  PROVE  Spec => []StoppedHoldsNoStream
<1>1. OneSide
  BY DEF OneSide
<1>2. Spec => [](RestartInv /\ StopIsFinal /\ SideInv)
  BY <1>1, SideInvHolds
<1>3. SideInv => StoppedHoldsNoStream
  BY DEF SideInv
<1>4. QED BY <1>2, <1>3, PTL

-----------------------------------------------------------------------------
(* Whoever is on the area is alive *)

(* The hypothesis of this part: every PUT is answered, and no other app takes
   the area. *)
AreaIsOurs == Mishaps \cap {"put", "foreign"} = {}

(* What has a handle, or a monitor, was spawned. *)
Born(s) == s = NoStream \/ (s # NoStream /\ sender[s] # "unborn")
HandlesBorn == /\ Born(active)
               /\ \A c \in Calls : Born(has[c])
               /\ \A s \in Streams : Born(built[s]) /\ (watch[s] # "none" => Born(s))
UnbornUnspent == \A s \in Streams : sender[s] = "unborn" => ~spent[s]

(* The bridge has nobody on the area but a sender that runs and that nobody has
   deactivated; and then the lamps are painted. *)
AreaIsLive == area # NoStream => /\ area \in Streams
                                 /\ sender[area] = "up" /\ ~spent[area]
                                 /\ lights = "painted"

AreaInv == HandlesBorn /\ UnbornUnspent /\ AreaIsLive

LEMMA DeactivatesLive ==
  ASSUME AreaIsOurs, TypeOK, AreaInv, NEW s, Born(s), s \in Streams \cup {NoStream},
         Deactivates(s), UNCHANGED <<sender, lights>>
  PROVE  UnbornUnspent' /\ AreaIsLive'
<1>1. ~Mishap("put")
  BY DEF AreaIsOurs, Mishap
<1>2. CASE UNCHANGED <<spent, area>>
  BY <1>2 DEF AreaInv, UnbornUnspent, AreaIsLive
<1>3. CASE ~UNCHANGED <<spent, area>>
  <2>1. s \in Streams /\ spent' = [spent EXCEPT ![s] = TRUE]
    BY <1>1, <1>3 DEF Deactivates
  <2>2. area' = NoStream
    BY <1>1, <1>3, StreamsAreNamed DEF Deactivates, AreaInv, AreaIsLive
  <2>3. QED BY <2>1, <2>2, StreamsAreNamed DEF AreaInv, UnbornUnspent, AreaIsLive, Born,
          TypeOK
<1>4. QED BY <1>2, <1>3

LEMMA SpawnsLive ==
  ASSUME TypeOK, AreaInv, SpawnsFresh
  PROVE  /\ UnbornUnspent' /\ AreaIsLive'
         /\ Fresh \in Streams /\ Fresh # NoStream /\ sender'[Fresh] = "up"
         /\ \A s \in Streams : sender'[s] # sender[s] => sender'[s] = "up"
<1>1. /\ Fresh \in Streams /\ sender[Fresh] = "unborn" /\ Fresh # NoStream
  BY FreshIsUnborn, StreamsAreNamed DEF SpawnsFresh
<1>2. QED BY <1>1 DEF SpawnsFresh, TypeOK, AreaInv, UnbornUnspent, AreaIsLive

(* A step that spawns nobody new keeps its handles among those there were. *)
LEMMA HandlesPassedOn ==
  ASSUME TypeOK, HandlesBorn,
         \A s \in Streams : sender[s] # "unborn" => sender'[s] # "unborn",
         Born(active'), \A c \in Calls : Born(has'[c]),
         \A s \in Streams : Born(built'[s]) /\ (watch'[s] # "none" => Born(s)),
         TypeOK'
  PROVE  HandlesBorn'
<1>1. \A s \in Streams \cup {NoStream} : Born(s) => Born(s)'
  BY DEF Born
<1>2. /\ active' \in Streams \cup {NoStream}
      /\ \A c \in Calls : has'[c] \in Streams \cup {NoStream}
      /\ \A s \in Streams : built'[s] \in Streams \cup {NoStream}
  BY DEF TypeOK
<1>3. QED BY <1>1, <1>2 DEF HandlesBorn, Born

LEMMA AreaCalls ==
  ASSUME AreaIsOurs, TypeOK, TypeOK', AreaInv, NEW c \in Calls, Begin(c) \/ CallStep(c)
  PROVE  AreaInv'
<1> USE DEF Goto, Under
<1>0. /\ has[c] \in Streams \cup {NoStream} /\ Born(has[c]) /\ Born(active) /\ Born(NoStream)
      /\ \A d \in Calls : d # c => Born(has[d])
  BY DEF TypeOK, AreaInv, HandlesBorn, Born
<1>1. ASSUME UNCHANGED <<sender, monVars>>, active' \in {active, NoStream},
             \A d \in Calls : has'[d] \in {has[d], active, NoStream},
             UnbornUnspent' /\ AreaIsLive'
      PROVE  AreaInv'
  <2>1. \A d \in Calls : Born(has'[d])
    BY <1>1 DEF AreaInv, HandlesBorn, Born
  <2>2. Born(active')
    BY <1>1 DEF AreaInv, HandlesBorn, Born
  <2>3. QED BY <1>1, <2>1, <2>2, HandlesPassedOn DEF AreaInv, HandlesBorn, monVars
<1>2. CASE /\ UNCHANGED <<threadVars, monVars>>
           /\ active' \in {active, NoStream}
           /\ \A d \in Calls : has'[d] \in {has[d], active, NoStream}
  BY <1>1, <1>2 DEF threadVars, AreaInv, UnbornUnspent, AreaIsLive
<1>3. CASE Begin(c) \/ PassGate(c) \/ ReadArea(c) \/ Guard(c) \/ Capture(c) \/ Decide(c)
  BY <1>2, <1>3 DEF Begin, PassGate, ReadArea, Guard, Capture, Decide, ownerVars
<1>4. CASE \/ RestartHalts(c) \/ AbandonSender(c) \/ TakeGate(c) \/ Halt(c) \/ Drain(c)
           \/ Yield(c)
  BY <1>2, <1>4 DEF RestartHalts, AbandonSender, TakeGate, Halt, Drain, Yield, StopOwner,
     ownerVars, TypeOK
<1>5. CASE Restore(c)
  <2>1. UNCHANGED <<sender, spent, area, monVars, active>>
    BY <1>5 DEF Restore, ownerVars
  <2>2. \A d \in Calls : has'[d] \in {has[d], active, NoStream}
    BY <1>5 DEF Restore, TypeOK
  <2>3. area # NoStream => UNCHANGED lights
    BY <1>5 DEF Restore, MayWrite
  <2>4. QED BY <1>1, <2>1, <2>2, <2>3 DEF AreaInv, UnbornUnspent, AreaIsLive
<1>6. CASE RestartDeactivates(c) \/ Quiesce(c) \/ Again(c)
  <2>1. UNCHANGED <<sender, lights, monVars, active>>
    BY <1>6 DEF RestartDeactivates, Quiesce, Again, ownerVars
  <2>2. \A d \in Calls : has'[d] \in {has[d], active, NoStream}
    BY <1>6 DEF RestartDeactivates, Quiesce, Again, TypeOK
  <2>3. Deactivates(has[c]) \/ UNCHANGED <<spent, area>>
    BY <1>6 DEF RestartDeactivates, Quiesce, Again
  <2>4. UnbornUnspent' /\ AreaIsLive'
    BY <1>0, <2>1, <2>3, DeactivatesLive DEF AreaInv, UnbornUnspent, AreaIsLive
  <2>5. QED BY <1>1, <2>1, <2>2, <2>4
<1>7. CASE BuildSender(c)
  <2>1. /\ SpawnsFresh /\ UNCHANGED <<monVars, active>>
        /\ has' = [has EXCEPT ![c] = Fresh]
    BY <1>7 DEF BuildSender, ownerVars
  <2>2. /\ UnbornUnspent' /\ AreaIsLive' /\ Fresh \in Streams /\ sender'[Fresh] = "up"
        /\ Fresh # NoStream
        /\ \A s \in Streams : sender'[s] # sender[s] => sender'[s] = "up"
    BY <2>1, SpawnsLive
  <2>3. HandlesBorn'
    BY <2>1, <2>2 DEF AreaInv, HandlesBorn, Born, TypeOK, monVars
  <2>4. QED BY <2>2, <2>3 DEF AreaInv
<1>8. CASE StoreSender(c)
  <2>1. /\ UNCHANGED <<threadVars, built>> /\ active' = has[c]
        /\ \A d \in Calls : has'[d] \in {has[d], NoStream}
        /\ \A s \in Streams : watch'[s] # watch[s] => s = has[c]
    BY <1>8 DEF StoreSender, TypeOK
  <2>2. HandlesBorn'
    <3>1. \A s \in Streams : watch'[s] # "none" => Born(s)
      BY <1>0, <2>1 DEF AreaInv, HandlesBorn
    <3>2. \A d \in Calls : Born(has'[d])
      BY <2>1 DEF AreaInv, HandlesBorn, Born
    <3>3. QED BY <1>0, <2>1, <3>1, <3>2, HandlesPassedOn DEF AreaInv, HandlesBorn,
            threadVars
  <2>3. QED BY <2>1, <2>2 DEF AreaInv, UnbornUnspent, AreaIsLive, threadVars
<1>9. QED BY <1>3, <1>4, <1>5, <1>6, <1>7, <1>8 DEF CallStep

LEMMA AreaMonitors ==
  ASSUME AreaIsOurs, TypeOK, TypeOK', AreaInv, NEW s \in Streams, MonitorStep(s)
  PROVE  AreaInv'
<1> USE DEF At, MonGoto, MonEnds, ownerVars
<1>0. /\ watch[s] # "none" /\ Born(s) /\ UNCHANGED has /\ Born(NoStream)
      /\ built[s] \in Streams \cup {NoStream} /\ Born(built[s]) /\ Born(active)
  <2>1. watch[s] # "none"
    BY DEF MonitorStep, StopsWaiting, Claims, CountsFault, ClearsStream,
       ReleasesArea, AreaIsFree, AreaIsHeld, AreaTakenOver, BeginsStart, Fetched, Rebuilds,
       Restarted, Abandons, GivesBack
  <2>2. UNCHANGED has
    BY DEF MonitorStep, StopsWaiting, Claims, CountsFault, ClearsStream, callVars,
       ReleasesArea, AreaIsFree, AreaIsHeld, AreaTakenOver, BeginsStart, Fetched, Rebuilds,
       Restarted, Abandons, GivesBack
  <2>3. QED BY <2>1, <2>2 DEF TypeOK, AreaInv, HandlesBorn, Born
<1>1. ASSUME UNCHANGED sender, active' \in {active, NoStream, built[s]},
             \A t \in Streams : built'[t] \in {built[t], NoStream},
             \A t \in Streams : watch'[t] # watch[t] => t \in {s, built[s]},
             UnbornUnspent' /\ AreaIsLive'
      PROVE  AreaInv'
  <2>1. \A t \in Streams : Born(built'[t])
    BY <1>1 DEF AreaInv, HandlesBorn, Born
  <2>2. \A t \in Streams : watch'[t] # "none" => Born(t)
    BY <1>0, <1>1 DEF AreaInv, HandlesBorn
  <2>3. Born(active')
    BY <1>0, <1>1 DEF Born
  <2>4. HandlesBorn'
    BY <1>0, <1>1, <2>1, <2>2, <2>3, HandlesPassedOn DEF AreaInv, HandlesBorn
  <2>5. QED BY <1>1, <2>4 DEF AreaInv
<1>2. CASE /\ UNCHANGED threadVars
           /\ active' \in {active, NoStream, built[s]}
           /\ \A t \in Streams : built'[t] \in {built[t], NoStream}
           /\ \A t \in Streams : watch'[t] # watch[t] => t \in {s, built[s]}
  BY <1>1, <1>2 DEF threadVars, AreaInv, UnbornUnspent, AreaIsLive
<1>3. CASE StopsWaiting(s) \/ Claims(s) \/ ClearsStream(s) \/ AreaIsFree(s) \/ AreaIsHeld(s)
  BY <1>2, <1>3 DEF StopsWaiting, Claims, ClearsStream, AreaIsFree, AreaIsHeld, TypeOK
<1>4. CASE AreaTakenOver(s) \/ BeginsStart(s) \/ Fetched(s) \/ Restarted(s)
  BY <1>2, <1>4 DEF AreaTakenOver, BeginsStart, Fetched, Restarted, TypeOK
<1>5. CASE Abandons(s) \/ GivesBack(s)
  BY <1>2, <1>5 DEF Abandons, GivesBack, TypeOK
<1>6. CASE CountsFault(s)
  <2>1. active' \in {active, NoStream}
    BY <1>6 DEF CountsFault, TransientFault, Keeps
  <2>2. QED BY <1>2, <1>6, <2>1 DEF CountsFault, TypeOK
<1>7. CASE ReleasesArea(s)
  <2>1. UnbornUnspent' /\ AreaIsLive'
    BY <1>0, <1>7, DeactivatesLive DEF ReleasesArea
  <2>2. QED BY <1>1, <1>7, <2>1 DEF ReleasesArea, TypeOK
<1>8. CASE Rebuilds(s)
  <2>1. /\ SpawnsFresh /\ UNCHANGED active
        /\ built' = [built EXCEPT ![s] = Fresh]
        /\ \A t \in Streams : watch'[t] # watch[t] => t = s
    BY <1>8 DEF Rebuilds
  <2>2. /\ UnbornUnspent' /\ AreaIsLive' /\ Fresh \in Streams /\ sender'[Fresh] = "up"
        /\ Fresh # NoStream
        /\ \A t \in Streams : sender'[t] # sender[t] => sender'[t] = "up"
    BY <2>1, SpawnsLive
  <2>3. HandlesBorn'
    BY <1>0, <2>1, <2>2 DEF AreaInv, HandlesBorn, Born, TypeOK
  <2>4. QED BY <2>2, <2>3 DEF AreaInv
<1>9. QED BY <1>3, <1>4, <1>5, <1>6, <1>7, <1>8 DEF MonitorStep

LEMMA AreaWorld ==
  ASSUME AreaIsOurs, TypeOK, TypeOK', AreaInv,
         \/ \E s \in Streams : SenderEnds(s)
         \/ PollStep \/ AreaExpires \/ ForeignStreams \/ UNCHANGED vars
  PROVE  AreaInv'
<1>1. /\ UNCHANGED <<callVars, monVars>>
      /\ active' \in {active, NoStream}
      /\ \A s \in Streams : sender[s] # "unborn" => sender'[s] # "unborn"
      /\ UNCHANGED lights
  <2>1. CASE \E s \in Streams : SenderEnds(s)
    BY <2>1 DEF SenderEnds, ownerVars, TypeOK
  <2>2. CASE PollStep
    BY <2>2 DEF PollStep, PollProbes, PollAsks, PollHears, TransientFault, Keeps,
       ownerVars, threadVars
  <2>3. CASE AreaExpires \/ ForeignStreams \/ UNCHANGED vars
    BY <2>3 DEF AreaExpires, ForeignStreams, vars, ownerVars, threadVars
  <2>4. QED BY <2>1, <2>2, <2>3
<1>2. HandlesBorn'
  BY <1>1, HandlesPassedOn DEF AreaInv, HandlesBorn, Born, callVars, monVars
<1>3. "put" \notin Mishaps /\ ~Mishap("put") /\ ~Mishap("foreign")
  BY DEF AreaIsOurs, Mishap
<1>4. UnbornUnspent' /\ AreaIsLive'
  <2>1. CASE UNCHANGED threadVars
    BY <2>1 DEF threadVars, AreaInv, UnbornUnspent, AreaIsLive
  <2>2. ASSUME NEW s \in Streams, SenderEnds(s)
        PROVE  UnbornUnspent' /\ AreaIsLive'
    <3>1. /\ sender[s] = "up" /\ sender' = [sender EXCEPT ![s] = "gone"]
          /\ \/ area # s /\ UNCHANGED <<spent, area>>
             \/ area' = NoStream /\ spent' = [spent EXCEPT ![s] = TRUE]
      <4>1. area # Foreign /\ (area = s => ~spent[s]) /\ s # NoStream
        BY StreamsAreNamed DEF AreaInv, AreaIsLive, NoStream, Foreign
      <4>2. CASE Deactivates(s)
        BY <1>3, <2>2, <4>1, <4>2 DEF SenderEnds, Deactivates
      <4>3. QED BY <1>3, <2>2, <4>2 DEF SenderEnds
    <3>2. QED BY <1>1, <3>1, StreamsAreNamed DEF AreaInv, UnbornUnspent, AreaIsLive, TypeOK
  <2>3. CASE AreaExpires \/ ForeignStreams
    BY <1>3, <2>3, StreamsAreNamed DEF AreaExpires, ForeignStreams, AreaInv,
       UnbornUnspent, AreaIsLive
  <2>4. QED BY <2>1, <2>2, <2>3 DEF PollStep, PollProbes, PollAsks, PollHears, vars
<1>5. QED BY <1>2, <1>4 DEF AreaInv

LEMMA AreaInvHolds ==
  ASSUME AreaIsOurs
  PROVE  Spec => [](TypeOK /\ AreaInv)
<1>1. Init => AreaInv
  BY DEF Init, AreaInv, HandlesBorn, Born, UnbornUnspent, AreaIsLive
<1>2. TypeOK /\ AreaInv /\ [Next]_vars => AreaInv'
  BY StepTypes, AreaCalls, AreaMonitors, AreaWorld DEF Next, Rest
<1>3. QED
  BY <1>1, <1>2, RuntimeTypes, PTL DEF Spec

-----------------------------------------------------------------------------
(* Who brings a stream up, who stops, who gives up *)

RuntimeInv == RestartInv /\ StopIsFinal /\ SideInv

(* A bring-up has taken back whatever stop there was. *)
BringsUpUnstopped == \A c \in Calls : BringingUp(c) => ~override

(* A stop under way, and a start that came to its store after a poll had ended the
   runtime, which does what a stop would have done. *)
Stopping(c) == op[c] = "stop" /\ pc[c] \in {"quiesce", "drain", "again", "yield", "restore"}
GivingUp(c) == op[c] # "stop" /\ pc[c] \in {"drain", "restore"}
StopsHold == \A c \in Calls : Stopping(c) => override
StopPlaces == \A c \in Calls :
  /\ pc[c] \in {"again", "yield"} => op[c] = "stop"
  /\ pc[c] \in {"read", "decide"} \/ BringingUp(c) => op[c] # "stop"
GivesUpAlone == \A c \in Calls : GivingUp(c) => MonitorsEnded /\ Stopped /\ ~override

BringUpInv == BringsUpUnstopped /\ StopsHold /\ StopPlaces /\ GivesUpAlone

LEMMA StoppingIsBusy ==
  ASSUME TypeOK, NEW c \in Calls
  PROVE  /\ Stopping(c) => Busy(c) /\ pc[c] # "store" /\ ~GivingUp(c)
         /\ Halted(c) => Busy(c) /\ ~Stopping(c) /\ ~GivingUp(c) /\ pc[c] # "store"
         /\ BringingUp(c) => Busy(c) /\ ~Halted(c) /\ ~Stopping(c) /\ ~GivingUp(c)
         /\ GivingUp(c) => Busy(c)
BY DEF Stopping, Halted, BringingUp, GivingUp, Busy

LEMMA BringUpCalls ==
  ASSUME OneSide, RuntimeInv, BringUpInv, NEW c \in Calls, Begin(c) \/ CallStep(c)
  PROVE  BringUpInv'
<1> USE DEF RuntimeInv, RestartInv, TypeOK, Goto, Under, BringUpInv
<1>1. /\ \A d \in Calls \ {c} : /\ ~BringingUp(d)' /\ ~Stopping(d)' /\ ~GivingUp(d)'
                                /\ pc'[d] \notin {"again", "yield", "read", "decide"}
      /\ CallStep(c) => op' = op
  BY OnlyCall DEF Busy, BringingUp, Stopping, GivingUp, SideInv
<1>2. ASSUME BringingUp(c)' => ~override',
             Stopping(c)' => override',
             pc'[c] \in {"again", "yield"} => op'[c] = "stop",
             pc'[c] \in {"read", "decide"} \/ BringingUp(c)' => op'[c] # "stop",
             GivingUp(c)' => MonitorsEnded' /\ Stopped' /\ ~override'
      PROVE  BringUpInv'
  BY <1>1, <1>2 DEF BringsUpUnstopped, StopsHold, StopPlaces, GivesUpAlone
<1>3. CASE Begin(c) \/ RestartHalts(c) \/ RestartDeactivates(c) \/ ReadArea(c) \/ StoreSender(c)
  <2>1. /\ pc'[c] \in {"gate", "quiesce", "read", "decide", "done"}
        /\ pc'[c] = "quiesce" => op'[c] = "restart"
        /\ pc'[c] \in {"read", "decide"} => op'[c] # "stop"
    BY <1>1, <1>3 DEF Begin, RestartHalts, RestartDeactivates, ReadArea, StoreSender,
       StopPlaces
  <2>2. QED BY <1>2, <2>1 DEF BringingUp, Stopping, GivingUp
<1>4. CASE PassGate(c) \/ TakeGate(c) \/ Capture(c) \/ BuildSender(c) \/ Guard(c)
  <2>1. /\ UNCHANGED override
        /\ pc'[c] \notin {"quiesce", "drain", "again", "yield", "restore"}
        /\ BringingUp(c)' => BringingUp(c)
        /\ pc'[c] \in {"read", "decide"} => op[c] # "stop"
    BY <1>4 DEF PassGate, TakeGate, Capture, BuildSender, Guard, BringingUp, ownerVars
  <2>2. op' = op
    BY <1>1, <1>4 DEF CallStep
  <2>3. QED BY <1>2, <2>1, <2>2 DEF BringsUpUnstopped, StopPlaces, Stopping, GivingUp
<1>5. CASE Halt(c)
  <2>1. override' /\ pc'[c] = "quiesce" /\ op'[c] = "stop"
    BY <1>5, <1>1 DEF Halt, StopOwner
  <2>2. QED BY <1>2, <2>1 DEF BringingUp, GivingUp
<1>6. CASE Decide(c)
  <2>1. pc'[c] \in {"guard", "done"} /\ ~override' /\ op'[c] # "stop"
    BY <1>1, <1>6 DEF Decide, StopPlaces, CallStep
  <2>2. QED BY <1>2, <2>1 DEF Stopping, GivingUp
<1>7. CASE AbandonSender(c)
  <2>1. /\ UNCHANGED <<state, override, watch>> /\ BringingUp(c) /\ Stopped
        /\ pc'[c] = "drain"
    BY <1>7 DEF AbandonSender, Overtaken, BringingUp, ownerVars, monVars
  <2>2. ~override /\ MonitorsEnded
    BY <2>1 DEF BringsUpUnstopped, SideInv, BringsUpAlone
  <2>3. op' = op /\ op[c] # "stop"
    BY <1>1, <1>7, <2>1 DEF StopPlaces, CallStep
  <2>4. ~BringingUp(c)' /\ ~Stopping(c)' /\ pc'[c] = "drain"
    BY <2>1, <2>3 DEF BringingUp, Stopping
  <2>5. QED BY <1>2, <2>1, <2>2, <2>4 DEF MonitorsEnded, Stopped
<1>8. CASE Quiesce(c) \/ Drain(c) \/ Again(c) \/ Yield(c) \/ Restore(c)
  <2>1. /\ UNCHANGED <<override, state, watch>> /\ op' = op
        /\ pc[c] \in {"quiesce", "drain", "again", "yield", "restore"}
        /\ pc[c] \in {"quiesce", "again", "yield"} => op[c] = "stop"
        /\ pc'[c] \in {"drain", "again", "yield", "restore", "done"}
        /\ pc'[c] \in {"again", "yield"} => op[c] = "stop"
    BY <1>8, <1>1 DEF Quiesce, Drain, Again, Yield, Restore, StopPlaces, ownerVars, monVars
  <2>2. ~BringingUp(c)' /\ (Stopping(c)' => Stopping(c)) /\ (GivingUp(c)' => GivingUp(c))
    BY <2>1 DEF Stopping, BringingUp, GivingUp
  <2>3. QED BY <1>2, <2>1, <2>2 DEF StopsHold, GivesUpAlone, MonitorsEnded, Stopped
<1>9. QED BY <1>3, <1>4, <1>5, <1>6, <1>7, <1>8 DEF CallStep

LEMMA BringUpMonitors ==
  ASSUME RuntimeInv, BringUpInv, NEW s \in Streams, MonitorStep(s)
  PROVE  BringUpInv'
<1> USE DEF RuntimeInv, SideInv, At, MonGoto, MonEnds, ownerVars
<1>1. watch[s] \notin {"none", "ended"} /\ UNCHANGED <<callVars, override>>
  BY FaultHoldsNoStream DEF MonitorStep, StopsWaiting, Claims, CountsFault, ClearsStream,
     ReleasesArea, AreaIsFree, AreaIsHeld, AreaTakenOver, BeginsStart, Fetched, Rebuilds,
     Restarted, Abandons, GivesBack
<1>2. \A c \in Calls : ~BringingUp(c) /\ ~GivingUp(c)
  BY <1>1 DEF BringsUpAlone, BringUpInv, GivesUpAlone, MonitorsEnded
<1>3. QED
  BY <1>1, <1>2 DEF callVars, BringUpInv, BringsUpUnstopped, BringingUp, StopsHold,
     Stopping, StopPlaces, GivesUpAlone, GivingUp

LEMMA BringUpWorld ==
  ASSUME BringUpInv,
         \/ \E s \in Streams : SenderEnds(s)
         \/ PollStep \/ AreaExpires \/ ForeignStreams \/ UNCHANGED vars
  PROVE  BringUpInv'
<1>1. UNCHANGED <<callVars, watch, override>> /\ (Stopped => Stopped')
  BY DEF SenderEnds, PollStep, PollProbes, PollAsks, PollHears, AreaExpires,
     ForeignStreams, vars, callVars, monVars, ownerVars, TransientFault, IsActive, Stopped
<1>2. QED
  BY <1>1 DEF BringUpInv, BringsUpUnstopped, BringingUp, StopsHold, Stopping, StopPlaces,
     GivesUpAlone, GivingUp, MonitorsEnded, callVars

-----------------------------------------------------------------------------
(* What a stop overtakes *)

(* The hypotheses of this part and the next: beside OneSide, the bridge may lose a
   sender, fail a read and refuse the key, no more. The polls are as late as they
   like. *)
AsHueSessions == OneSide /\ Mishaps \subseteq {"death", "transport", "auth"}

(* A poll's answer has hidden a rebuild: what follows says nothing from then on. *)
Hidden == "answer" \in stale

(* A monitor that is past its last look at the runtime may hold the area. It goes
   on only while somebody knows of it: the runtime says Starting, or the stop
   that overtook it waits for it, or a restart goes on to its decision. *)
LateBuilds(s) == watch[s] \in {"fetch", "build", "store", "drain"}
Awaits(c) == op[c] = "stop" /\ pc[c] \in {"quiesce", "drain", "again", "yield"} /\ waits[c]
BuildsKnown ==
  \A s \in Streams : LateBuilds(s) =>
    \/ state = "Starting" /\ watch[s] # "drain"
    \/ override /\ \E c \in Calls : Awaits(c) \/ Halted(c)

StopInv == BringUpInv /\ BuildsKnown

LEMMA NoOtherMishap ==
  ASSUME AsHueSessions
  PROVE  /\ ~Mishap("put") /\ ~Mishap("timeout") /\ ~Mishap("foreign")
         /\ "put" \notin Mishaps /\ AreaIsOurs /\ OneSide
BY DEF AsHueSessions, Mishap, AreaIsOurs

LEMMA StaleGrows == [Next]_vars => stale \subseteq stale'
<1>1. ASSUME NEW c \in Calls, Begin(c) \/ CallStep(c) PROVE stale \subseteq stale'
  BY <1>1 DEF Begin, CallStep, PassGate, RestartHalts, RestartDeactivates, ReadArea, Decide,
     Guard, Capture, BuildSender, StoreSender, AbandonSender, TakeGate, Halt, Quiesce,
     Drain, Again, Yield, Restore
<1>2. ASSUME NEW s \in Streams, MonitorStep(s) PROVE stale \subseteq stale'
  BY <1>2 DEF MonitorStep, StopsWaiting, Claims, CountsFault, ClearsStream,
     ReleasesArea, AreaIsFree, AreaIsHeld, AreaTakenOver, BeginsStart, Fetched, Rebuilds,
     Restarted, Abandons, GivesBack
<1>3. ASSUME \/ \E s \in Streams : SenderEnds(s)
             \/ PollStep \/ AreaExpires \/ ForeignStreams \/ UNCHANGED vars
      PROVE  stale \subseteq stale'
  BY <1>3 DEF SenderEnds, PollStep, PollProbes, PollAsks, PollHears, AreaExpires,
     ForeignStreams, vars
<1>4. QED BY <1>1, <1>2, <1>3 DEF Next, Rest

LEMMA StopCalls ==
  ASSUME AsHueSessions, RuntimeInv, StopInv, NEW c \in Calls, Begin(c) \/ CallStep(c)
  PROVE  StopInv'
<1> USE DEF RuntimeInv, RestartInv, TypeOK, Goto, Under, StopInv
<1>0. SideInv' /\ OneSide /\ BringUpInv'
  BY SideCalls, BringUpCalls DEF AsHueSessions
<1>1. /\ \A d \in Calls \ {c} : ~Awaits(d) /\ ~Halted(d)
      /\ CallStep(c) => op' = op
  BY <1>0, OnlyCall DEF Busy, Awaits, Halted, SideInv
<1>3. SUFFICES BuildsKnown'
  BY <1>0
<1>4. ASSUME UNCHANGED <<state, override, watch>>,
             Awaits(c) \/ Halted(c) =>
               (Awaits(c) \/ Halted(c))' \/ \A s \in Streams : ~LateBuilds(s)
      PROVE  BuildsKnown'
  <2>1. CASE \A s \in Streams : ~LateBuilds(s)
    BY <1>4, <2>1 DEF BuildsKnown, LateBuilds
  <2>2. CASE ~\A s \in Streams : ~LateBuilds(s)
    <3>1. (\E d \in Calls : Awaits(d) \/ Halted(d)) => (\E d \in Calls : Awaits(d) \/ Halted(d))'
      BY <1>1, <1>4, <2>2
    <3>2. QED BY <1>4, <3>1 DEF BuildsKnown, LateBuilds
  <2>3. QED BY <2>1, <2>2
<1>5. CASE \/ Begin(c) \/ PassGate(c) \/ TakeGate(c) \/ Capture(c) \/ BuildSender(c)
           \/ Guard(c)
  <2>1. ~Awaits(c) /\ ~Halted(c) /\ UNCHANGED <<state, override, watch>>
    BY <1>5 DEF Begin, PassGate, TakeGate, Capture, BuildSender, Guard, Awaits, Halted,
       ownerVars, monVars
  <2>2. QED BY <1>4, <2>1
<1>6. CASE RestartDeactivates(c) \/ ReadArea(c)
  <2>1. /\ UNCHANGED <<state, override, watch>>
        /\ (Halted(c) => Halted(c)') /\ ~Awaits(c)
    BY <1>6, <1>1 DEF RestartDeactivates, ReadArea, Awaits, Halted, ownerVars, monVars
  <2>2. QED BY <1>4, <2>1
<1>7. CASE RestartHalts(c)
  <2>1. override' /\ Halted(c)'
    BY <1>7 DEF RestartHalts, StopOwner, Halted
  <2>2. QED BY <2>1 DEF BuildsKnown
<1>8. CASE Halt(c)
  <2>1. /\ override' /\ watch' = watch /\ pc'[c] = "quiesce" /\ op' = op
        /\ op[c] = "stop" /\ waits'[c] = WaitsForReconnect
        /\ ~Awaits(c) /\ ~Halted(c)
    BY <1>8 DEF Halt, StopOwner, Halted, Awaits, monVars
  <2>2. ASSUME NEW s \in Streams, LateBuilds(s)
        PROVE  Awaits(c)'
    <3>1. state = "Starting"
      BY <1>1, <2>1, <2>2 DEF BuildsKnown
    <3>2. claimed
      BY <2>2 DEF OneRestart, Monitoring, LateBuilds
    <3>3. QED BY <2>1, <3>1, <3>2 DEF Awaits, WaitsForReconnect
  <2>3. QED BY <2>1, <2>2 DEF BuildsKnown, LateBuilds
<1>9. CASE Decide(c)
  <2>1. ASSUME NEW s \in Streams, LateBuilds(s)
        PROVE  state' = "Starting" /\ watch[s] # "drain"
    <3>1. IsActive
      BY <1>0, <1>9, <2>1 DEF Decide, OneSide, MonitorsEnded, LateBuilds
    <3>2. ~override /\ state' = state
      BY <1>9, <3>1 DEF Decide, StopIsFinal, IsActive
    <3>3. QED BY <2>1, <3>2 DEF BuildsKnown
  <2>2. UNCHANGED watch
    BY <1>9 DEF Decide, monVars
  <2>3. QED BY <2>1, <2>2 DEF BuildsKnown, LateBuilds
<1>10. CASE StoreSender(c)
  <2>1. /\ \A s \in Streams : watch'[s] \in {watch[s], "watch"}
        /\ MonitorsEnded
    BY <1>10 DEF StoreSender, SideInv, BringsUpAlone, BringingUp
  <2>2. QED BY <2>1 DEF BuildsKnown, LateBuilds, MonitorsEnded
<1>11. CASE Quiesce(c) \/ Drain(c) \/ Again(c)
  <2>1. /\ UNCHANGED <<state, override, watch, waits>> /\ op' = op
        /\ op[c] = "stop" => pc'[c] \in {"drain", "again", "yield"}
        /\ pc[c] = "quiesce" => op[c] = "stop"
        /\ pc[c] \in {"quiesce", "drain", "again"}
    BY <1>11, <1>1 DEF Quiesce, Drain, Again, ownerVars, monVars
  <2>2. (Awaits(c) => Awaits(c)') /\ ~Halted(c)
    BY <2>1 DEF Awaits, Halted
  <2>3. QED BY <1>4, <2>1, <2>2
<1>12. CASE Yield(c) \/ Restore(c)
  <2>1. /\ UNCHANGED <<state, override, watch>>
        /\ pc[c] \in {"yield", "restore"}
        /\ pc[c] = "yield" => (waits[c] => ~claimed)
    BY <1>12, NoOtherMishap DEF Yield, Restore, ownerVars, monVars
  <2>2. Awaits(c) => \A s \in Streams : ~LateBuilds(s)
    BY <2>1 DEF Awaits, OneRestart, Monitoring, LateBuilds
  <2>3. ~Halted(c)
    BY <2>1 DEF Halted
  <2>4. QED BY <1>4, <2>1, <2>2, <2>3
<1>13. CASE AbandonSender(c)
  <2>1. UNCHANGED <<state, override, watch>> /\ ~Awaits(c) /\ ~Halted(c)
    BY <1>13 DEF AbandonSender, Awaits, Halted, ownerVars, monVars
  <2>2. QED BY <1>4, <2>1
<1>14. QED BY <1>5, <1>6, <1>7, <1>8, <1>9, <1>10, <1>11, <1>12, <1>13 DEF CallStep

LEMMA StopMonitors ==
  ASSUME RuntimeInv, StopInv, NEW s \in Streams, MonitorStep(s)
  PROVE  StopInv'
<1> USE DEF RuntimeInv, RestartInv, TypeOK, At, MonGoto, MonEnds, SideInv, ownerVars
<1>1. UNCHANGED <<callVars, override>>
  BY FaultHoldsNoStream DEF MonitorStep, StopsWaiting, Claims, CountsFault, ClearsStream,
     ReleasesArea, AreaIsFree, AreaIsHeld, AreaTakenOver, BeginsStart, Fetched, Rebuilds,
     Restarted, Abandons, GivesBack
<1>2. BringUpInv'
  BY BringUpMonitors DEF StopInv
<1>3. (\E c \in Calls : Awaits(c) \/ Halted(c)) => (\E c \in Calls : Awaits(c) \/ Halted(c))'
  BY <1>1 DEF callVars, Awaits, Halted
<1>4. CASE StopsWaiting(s) \/ Claims(s)
  <2>1. /\ UNCHANGED state
        /\ \A t \in Streams : LateBuilds(t)' => LateBuilds(t) /\ watch'[t] = watch[t]
    BY <1>4 DEF StopsWaiting, Claims, LateBuilds
  <2>2. BuildsKnown'
    BY <1>1, <1>3, <2>1 DEF StopInv, BuildsKnown
  <2>3. QED BY <1>2, <2>2 DEF StopInv
<1>5. CASE ~StopsWaiting(s) /\ ~Claims(s)
  <2>1. Monitoring(s) /\ \A t \in Streams : LateBuilds(t) => t = s
    <3>1. Monitoring(s)
      BY <1>5 DEF MonitorStep, CountsFault, ClearsStream, ReleasesArea, AreaIsFree,
         AreaIsHeld, AreaTakenOver, BeginsStart, Fetched, Rebuilds, Restarted, Abandons,
         GivesBack, Monitoring
    <3>2. QED BY <3>1 DEF OneRestart, Monitoring, LateBuilds
  <2>2. ASSUME \A t \in Streams \ {s} : LateBuilds(t)' => LateBuilds(t),
               LateBuilds(s)' => \/ state' = "Starting" /\ watch'[s] # "drain"
                                 \/ override /\ \E c \in Calls : Awaits(c) \/ Halted(c)
        PROVE  StopInv'
    <3>1. BuildsKnown'
      BY <1>1, <1>3, <2>1, <2>2 DEF BuildsKnown
    <3>2. QED BY <1>2, <3>1 DEF StopInv
  <2>3. CASE \/ CountsFault(s) \/ ClearsStream(s) \/ ReleasesArea(s) \/ AreaIsFree(s)
             \/ AreaIsHeld(s) \/ AreaTakenOver(s) \/ Restarted(s) \/ GivesBack(s)
    BY <2>2, <2>3 DEF CountsFault, ClearsStream, ReleasesArea, AreaIsFree, AreaIsHeld,
       AreaTakenOver, Restarted, GivesBack, LateBuilds
  <2>4. CASE BeginsStart(s)
    BY <2>2, <2>4 DEF BeginsStart, LateBuilds
  <2>5. CASE Fetched(s) \/ Rebuilds(s)
    <3>1. /\ UNCHANGED state /\ LateBuilds(s) /\ watch'[s] # "drain"
          /\ \A t \in Streams \ {s} : watch'[t] = watch[t]
      BY <2>5 DEF Fetched, Rebuilds, LateBuilds
    <3>2. QED BY <2>2, <3>1 DEF StopInv, BuildsKnown, LateBuilds
  <2>6. CASE Abandons(s)
    <3>1. /\ LateBuilds(s) /\ (override \/ Stopped)
          /\ \A t \in Streams \ {s} : watch'[t] = watch[t]
      BY <2>6 DEF Abandons, LateBuilds, MayStore, Lost
    <3>2. state # "Starting"
      BY <3>1 DEF Stopped, StopIsFinal
    <3>3. QED BY <2>2, <3>1, <3>2 DEF StopInv, BuildsKnown, LateBuilds
  <2>7. QED BY <1>5, <2>3, <2>4, <2>5, <2>6 DEF MonitorStep
<1>6. QED BY <1>4, <1>5

LEMMA StopWorld ==
  ASSUME RuntimeInv, StopInv, ~Hidden',
         \/ \E s \in Streams : SenderEnds(s)
         \/ PollStep \/ AreaExpires \/ ForeignStreams \/ UNCHANGED vars
  PROVE  StopInv'
<1> USE DEF RuntimeInv, StopInv
<1>1. UNCHANGED <<watch, callVars, override>>
  BY DEF SenderEnds, PollStep, PollProbes, PollAsks, PollHears, AreaExpires,
     ForeignStreams, vars, monVars, callVars, ownerVars, TransientFault
<1>2. ASSUME NEW s \in Streams, LateBuilds(s)
      PROVE  state' = state
  <2>1. claimed /\ (state = "Starting" \/ override)
    BY <1>2 DEF BuildsKnown, RestartInv, OneRestart, Monitoring, LateBuilds
  <2>2. CASE UNCHANGED ownerVars
    BY <2>2 DEF ownerVars
  <2>3. ~PollProbes
    BY <2>1 DEF PollProbes
  <2>4. CASE PollHears
    <3>1. CASE override
      BY <2>4, <3>1 DEF PollHears, ownerVars
    <3>2. CASE state = "Starting"
      BY <2>1, <2>4, <3>2 DEF PollHears, AnswersRebuild, Hidden
    <3>3. QED BY <2>1, <3>1, <3>2
  <2>5. QED
    BY <2>2, <2>3, <2>4 DEF SenderEnds, PollStep, PollAsks, AreaExpires, ForeignStreams,
       vars
<1>3. BringUpInv'
  BY BringUpWorld
<1>4. (\E c \in Calls : Awaits(c) \/ Halted(c)) => (\E c \in Calls : Awaits(c) \/ Halted(c))'
  BY <1>1 DEF callVars, Awaits, Halted
<1>5. BuildsKnown'
  BY <1>1, <1>2, <1>4 DEF BuildsKnown, LateBuilds
<1>6. QED BY <1>3, <1>5

-----------------------------------------------------------------------------
(* The lamps a session came upon *)

(* From the build on a session's lamps are known: the owner holds how they were,
   or a bring-up or a stop that took it does. *)
KeepsTaken(c) == Stopping(c) \/ GivingUp(c) \/ pc[c] = "store"
HomeHeld == held = "home" \/ \E c \in Calls : took[c] = "home" /\ KeepsTaken(c)
MonitorOn(s) == watch[s] \notin {"none", "ended"}
SessionOn == \/ lights = "painted"
             \/ \E s \in Streams : (MonitorOn(s) /\ ~override) \/ LateBuilds(s)
HomeKnown == SessionOn => HomeHeld

(* Painted lamps are never what a session holds, and a capture that found some is
   dropped when it is stored. *)
NoPaint == /\ held # "painted"
           /\ \A c \in Calls : took[c] = "painted" => pc[c] \in {"build", "store"}
TookHome == \A c \in Calls :
  /\ pc[c] \in {"build", "store"} => took[c] = "home" \/ held = "home"
  /\ GivingUp(c) => took[c] = "home"

(* A stop takes what is held, so only a restart leaves some behind. *)
StopTakes == override /\ held # "none" => \E c \in Calls : Halted(c)

LampsInv == HomeKnown /\ NoPaint /\ TookHome /\ StopTakes

(* A restore comes when nobody is on the area, or waited until nobody was. *)
LEMMA RestoreWrites ==
  ASSUME AsHueSessions, RuntimeInv, AreaInv, StopInv, LampsInv,
         NEW c \in Calls, Restore(c), \A d \in Calls \ {c} : ~Busy(d)
  PROVE  /\ lights' = "home" /\ UNCHANGED <<held, override, watch>>
         /\ override => held = "none"
         /\ ~override => MonitorsEnded
         /\ \A s \in Streams : ~LateBuilds(s)
<1> USE DEF RuntimeInv, RestartInv, Under
<1>1. /\ Stopped /\ active = NoStream
      /\ (Stopping(c) /\ override) \/ (GivingUp(c) /\ ~override /\ MonitorsEnded)
  <2>1. CASE op[c] = "stop"
    BY <2>1 DEF Restore, StopInv, BringUpInv, StopsHold, Stopping, StopIsFinal, Stopped
  <2>2. CASE op[c] # "stop"
    BY <2>2 DEF Restore, StopInv, BringUpInv, GivesUpAlone, GivingUp, SideInv,
       StoppedHoldsNoStream
  <2>3. QED BY <2>1, <2>2
<1>2. ~\E d \in Calls : Awaits(d) \/ Halted(d)
  BY StoppingIsBusy DEF Restore, Awaits, Halted, Busy
<1>3. (override => held = "none") /\ \A s \in Streams : ~LateBuilds(s)
  BY <1>1, <1>2 DEF StopInv, BuildsKnown, LampsInv, StopTakes, MonitorsEnded, LateBuilds,
     Stopped
<1>4. area = NoStream
  <2>1. ~WaitsForArea
    BY NoOtherMishap DEF Restore
  <2>2. ~Superseded
    BY <1>1 DEF Superseded, IsActive, Stopped
  <2>3. QED BY <1>1, <2>1, <2>2, StreamsAreNamed DEF WaitsForArea, AreaInv, AreaIsLive
<1>5. lights = "painted" => took[c] = "home"
  <2>1. CASE override
    BY <1>3, <2>1, StoppingIsBusy DEF LampsInv, HomeKnown, SessionOn, HomeHeld, KeepsTaken,
       Busy
  <2>2. CASE ~override
    BY <1>1, <2>2 DEF LampsInv, TookHome
  <2>3. QED BY <2>1, <2>2
<1>6. took[c] # "painted"
  BY DEF Restore, LampsInv, NoPaint
<1>7. lights' = "home"
  BY <1>1, <1>4, <1>5, <1>6 DEF Restore, MayWrite, Superseded, IsActive, Stopped, TypeOK
<1>8. QED BY <1>1, <1>3, <1>7 DEF Restore, ownerVars, monVars

LEMMA LampsCalls ==
  ASSUME AsHueSessions, RuntimeInv, AreaInv, StopInv, LampsInv, NEW c \in Calls,
         Begin(c) \/ CallStep(c)
  PROVE  LampsInv'
<1> USE DEF RuntimeInv, RestartInv, TypeOK, Goto, Under, LampsInv
<1>1. /\ \A d \in Calls \ {c} : /\ ~Busy(d) /\ ~Busy(d)'
                                /\ took'[d] = took[d] /\ pc'[d] = pc[d] /\ op'[d] = op[d]
                                /\ ~Stopping(d) /\ ~Halted(d) /\ ~GivingUp(d)
                                /\ pc[d] \notin {"build", "store"}
      /\ CallStep(c) => op' = op
  BY OnlyCall, StoppingIsBusy DEF Busy, AsHueSessions, SideInv
<1>2. HomeHeld => held = "home" \/ (took[c] = "home" /\ KeepsTaken(c))
  BY <1>1 DEF HomeHeld, KeepsTaken
<1>3. ASSUME SessionOn' => held' = "home" \/ (took'[c] = "home" /\ KeepsTaken(c)'),
             GivingUp(c)' => took'[c] = "home",
             held' # "painted",
             took'[c] = "painted" => pc'[c] \in {"build", "store"},
             pc'[c] \in {"build", "store"} => took'[c] = "home" \/ held' = "home",
             override' /\ held' # "none" => Halted(c)'
      PROVE  LampsInv'
  <2>1. HomeKnown'
    BY <1>3 DEF HomeKnown, HomeHeld
  <2>2. NoPaint' /\ TookHome'
    <3>1. \A d \in Calls \ {c} : ~GivingUp(d)'
      BY <1>1 DEF GivingUp
    <3>2. QED BY <1>1, <1>3, <3>1 DEF NoPaint, TookHome
  <2>3. StopTakes'
    BY <1>3 DEF StopTakes
  <2>4. QED BY <2>1, <2>2, <2>3
<1>4. ASSUME UNCHANGED <<lights, watch, held>>, took'[c] = took[c], override' = override,
             Stopping(c) => Stopping(c)', Halted(c) => Halted(c)',
             GivingUp(c) <=> GivingUp(c)',
             pc[c] # "store", pc'[c] # "store", pc[c] = "build" <=> pc'[c] = "build"
      PROVE  LampsInv'
  <2>1. SessionOn' => SessionOn
    BY <1>4 DEF SessionOn, MonitorOn, LateBuilds
  <2>2. QED
    BY <1>1, <1>2, <1>3, <1>4, <2>1 DEF HomeKnown, NoPaint, TookHome, StopTakes, KeepsTaken
<1>5. CASE Begin(c) \/ PassGate(c) \/ TakeGate(c) \/ RestartDeactivates(c) \/ ReadArea(c)
  BY <1>1, <1>4, <1>5 DEF Begin, PassGate, TakeGate, RestartDeactivates, ReadArea,
     Stopping, Halted, GivingUp, ownerVars, threadVars, monVars
<1>6. CASE Guard(c)
  BY <1>1, <1>4, <1>6 DEF Guard, Stopping, Halted, GivingUp, ownerVars, threadVars, monVars
<1>7. CASE Quiesce(c) \/ Drain(c) \/ Again(c) \/ Yield(c)
  <2>1. pc[c] \in {"quiesce", "again", "yield"} => op[c] = "stop"
    BY <1>7 DEF Quiesce, Drain, Again, Yield, StopInv, BringUpInv, StopPlaces
  <2>2. /\ UNCHANGED <<lights, watch, held, override, op>> /\ took'[c] = took[c]
        /\ pc[c] \in {"quiesce", "drain", "again", "yield"}
        /\ pc'[c] \in {"drain", "again", "yield", "restore"}
        /\ pc'[c] \in {"again", "yield"} => op[c] = "stop"
    BY <1>1, <1>7, <2>1 DEF Quiesce, Drain, Again, Yield, ownerVars, threadVars, monVars
  <2>3. QED BY <1>4, <2>1, <2>2 DEF Stopping, Halted, GivingUp
<1>8. CASE RestartHalts(c)
  <2>1. /\ UNCHANGED <<lights, watch, held, took>> /\ override' /\ Halted(c)'
        /\ pc[c] = "halt" /\ pc'[c] = "quiesce"
    BY <1>8 DEF RestartHalts, StopOwner, Halted, threadVars, monVars
  <2>2. SessionOn' => SessionOn
    BY <2>1 DEF SessionOn, MonitorOn, LateBuilds
  <2>3. QED BY <1>2, <1>3, <2>1, <2>2 DEF HomeKnown, NoPaint, Stopping, GivingUp, KeepsTaken
<1>9. CASE Halt(c)
  <2>1. /\ UNCHANGED <<lights, watch, op>> /\ override' /\ Stopping(c)'
        /\ held' = "none" /\ took'[c] = held /\ pc[c] = "halt" /\ pc'[c] = "quiesce"
    BY <1>9 DEF Halt, StopOwner, Stopping, threadVars, monVars
  <2>2. SessionOn' => SessionOn
    BY <2>1 DEF SessionOn, MonitorOn, LateBuilds
  <2>3. QED BY <1>2, <1>3, <2>1, <2>2 DEF HomeKnown, NoPaint, Stopping, GivingUp, KeepsTaken
<1>10. CASE Decide(c)
  <2>1. /\ UNCHANGED <<lights, watch, held, took>> /\ ~override'
        /\ pc[c] = "decide" /\ pc'[c] \in {"guard", "done"}
    BY <1>10 DEF Decide, threadVars, monVars
  <2>2. (\E s \in Streams : MonitorOn(s)) => ~override
    BY <1>10 DEF Decide, AsHueSessions, OneSide, MonitorsEnded, MonitorOn, StopIsFinal,
       IsActive
  <2>3. SessionOn' => SessionOn
    BY <2>1, <2>2 DEF SessionOn, MonitorOn, LateBuilds
  <2>4. QED BY <1>2, <1>3, <2>1, <2>3 DEF HomeKnown, NoPaint, Stopping, GivingUp, KeepsTaken
<1>11. CASE Capture(c)
  <2>1. /\ UNCHANGED <<lights, watch, held, override>>
        /\ pc[c] = "capture" /\ pc'[c] = "build"
        /\ took'[c] = IF area = NoStream THEN lights ELSE "none"
    BY <1>11 DEF Capture, threadVars, monVars, ownerVars
  <2>2. SessionOn' => SessionOn
    BY <2>1 DEF SessionOn, MonitorOn, LateBuilds
  <2>3. ~Halted(c) /\ ~Stopping(c) /\ ~GivingUp(c) /\ ~GivingUp(c)' /\ ~KeepsTaken(c)
    BY <2>1 DEF Halted, Stopping, GivingUp, KeepsTaken
  <2>4. lights = "painted" => held = "home"
    BY <1>2, <2>1, <2>3 DEF HomeKnown, SessionOn
  <2>5. took'[c] = "home" \/ held' = "home"
    BY <2>1, <2>4 DEF AreaInv, AreaIsLive
  <2>6. QED BY <1>1, <1>2, <1>3, <2>1, <2>2, <2>3, <2>5 DEF HomeKnown, NoPaint, StopTakes
<1>12. CASE BuildSender(c)
  <2>1. /\ UNCHANGED <<watch, held, took, override>>
        /\ pc[c] = "build" /\ pc'[c] = "store"
    BY <1>12 DEF BuildSender, monVars, ownerVars
  <2>2. took'[c] = "home" \/ held' = "home"
    BY <2>1 DEF TookHome
  <2>3. ~Halted(c) /\ ~GivingUp(c)' /\ KeepsTaken(c)'
    BY <2>1 DEF Halted, GivingUp, KeepsTaken
  <2>4. QED BY <1>1, <1>3, <2>1, <2>2, <2>3 DEF NoPaint, StopTakes
<1>13. CASE StoreSender(c)
  <2>1. /\ UNCHANGED <<lights, override>> /\ pc[c] = "store" /\ pc'[c] = "done"
        /\ took'[c] = "none" /\ held' = IF held = "none" THEN took[c] ELSE held
    BY <1>13 DEF StoreSender, Adopt, threadVars
  <2>2. held' = "home"
    BY <2>1 DEF TookHome, NoPaint
  <2>3. ~override
    BY <1>13 DEF StoreSender, Overtaken, Stopped, StopIsFinal
  <2>4. ~GivingUp(c)'
    BY <2>1 DEF GivingUp
  <2>5. QED BY <1>3, <2>1, <2>2, <2>3, <2>4
<1>14. CASE AbandonSender(c)
  <2>1. /\ UNCHANGED <<lights, watch, override>> /\ held' = "none" /\ op[c] # "stop"
        /\ took'[c] = IF held # "none" THEN held ELSE took[c]
        /\ pc[c] = "store" /\ pc'[c] = "drain"
    BY <1>14 DEF AbandonSender, StopInv, BringUpInv, StopPlaces, BringingUp, threadVars,
       ownerVars, monVars
  <2>2. took'[c] = "home"
    BY <2>1 DEF TookHome, NoPaint
  <2>3. op' = op
    BY <1>1, <1>14 DEF CallStep
  <2>4. KeepsTaken(c)'
    BY <2>1, <2>3 DEF KeepsTaken, GivingUp
  <2>5. QED BY <1>3, <2>1, <2>2, <2>4
<1>15. CASE Restore(c)
  <2>1. /\ lights' = "home" /\ UNCHANGED <<held, override, watch>>
        /\ override => held = "none"
        /\ ~override => MonitorsEnded
        /\ \A s \in Streams : ~LateBuilds(s)
    BY <1>1, <1>15, RestoreWrites
  <2>2. ~SessionOn'
    BY <2>1 DEF SessionOn, LateBuilds, MonitorOn, MonitorsEnded
  <2>3. pc'[c] = "done" /\ took'[c] = "none" /\ ~GivingUp(c)'
    BY <1>15 DEF Restore, GivingUp
  <2>4. QED BY <1>3, <2>1, <2>2, <2>3 DEF NoPaint
<1>16. QED BY <1>5, <1>6, <1>7, <1>8, <1>9, <1>10, <1>11, <1>12, <1>13, <1>14, <1>15
       DEF CallStep

LEMMA LampsMonitors ==
  ASSUME RuntimeInv, LampsInv, NEW s \in Streams, MonitorStep(s)
  PROVE  LampsInv'
<1> USE DEF RuntimeInv, RestartInv, TypeOK, At, MonGoto, MonEnds, LampsInv, ownerVars
<1>1. /\ MonitorOn(s) /\ UNCHANGED <<callVars, held, override>>
  BY FaultHoldsNoStream DEF MonitorStep, StopsWaiting, Claims, CountsFault, ClearsStream,
     ReleasesArea, AreaIsFree, AreaIsHeld, AreaTakenOver, BeginsStart, Fetched, Rebuilds,
     Restarted, Abandons, GivesBack, MonitorOn, SideInv
<1>2. NoPaint' /\ TookHome' /\ StopTakes' /\ (HomeHeld => HomeHeld')
  BY <1>1 DEF callVars, NoPaint, TookHome, StopTakes, Halted, HomeHeld, KeepsTaken, Stopping,
     GivingUp
<1>3. ASSUME UNCHANGED lights,
             \A t \in Streams \ {s} : watch'[t] = watch[t],
             LateBuilds(s)' => LateBuilds(s) \/ ~override
      PROVE  LampsInv'
  <2>1. SessionOn' => SessionOn
    BY <1>1, <1>3 DEF SessionOn, MonitorOn, LateBuilds
  <2>2. QED BY <1>2, <2>1 DEF HomeKnown
<1>4. CASE StopsWaiting(s) \/ Claims(s) \/ CountsFault(s) \/ ClearsStream(s) \/ ReleasesArea(s)
  BY <1>3, <1>4 DEF StopsWaiting, Claims, CountsFault, ClearsStream, ReleasesArea,
     threadVars, LateBuilds
<1>5. CASE AreaIsFree(s) \/ AreaIsHeld(s) \/ AreaTakenOver(s) \/ BeginsStart(s) \/ Fetched(s)
  BY <1>3, <1>5 DEF AreaIsFree, AreaIsHeld, AreaTakenOver, BeginsStart, Fetched,
     threadVars, LateBuilds, Lost
<1>6. CASE Abandons(s) \/ GivesBack(s)
  BY <1>3, <1>6 DEF Abandons, GivesBack, threadVars, LateBuilds
<1>7. CASE Rebuilds(s) \/ Restarted(s)
  <2>1. LateBuilds(s)
    BY <1>7 DEF Rebuilds, Restarted, LateBuilds
  <2>2. QED BY <1>2, <2>1 DEF HomeKnown, SessionOn
<1>8. QED BY <1>4, <1>5, <1>6, <1>7 DEF MonitorStep

LEMMA LampsWorld ==
  ASSUME LampsInv,
         \/ \E s \in Streams : SenderEnds(s)
         \/ PollStep \/ AreaExpires \/ ForeignStreams \/ UNCHANGED vars
  PROVE  LampsInv'
<1>1. UNCHANGED <<watch, callVars, held, lights>>
  BY DEF SenderEnds, PollStep, PollProbes, PollAsks, PollHears, AreaExpires,
     ForeignStreams, vars, monVars, callVars, threadVars
<1>2. override' = override
  BY DEF SenderEnds, PollStep, PollProbes, PollAsks, PollHears, AreaExpires,
     ForeignStreams, vars, ownerVars, TransientFault
<1>3. QED
  BY <1>1, <1>2 DEF LampsInv, HomeKnown, SessionOn, MonitorOn, LateBuilds, HomeHeld,
     KeepsTaken, Stopping, GivingUp, NoPaint, TookHome, StopTakes, Halted, callVars

LEMMA LampsInvHolds ==
  ASSUME AsHueSessions
  PROVE  Spec => [](RuntimeInv /\ AreaInv /\ BringUpInv /\ (Hidden \/ (StopInv /\ LampsInv)))
<1>1. Init => BringUpInv /\ StopInv /\ LampsInv
  BY DEF Init, StopInv, BringUpInv, BringsUpUnstopped, BringingUp, StopsHold, Stopping,
     StopPlaces, GivesUpAlone, GivingUp, BuildsKnown, LateBuilds, LampsInv, HomeKnown,
     SessionOn, MonitorOn, NoPaint, TookHome, StopTakes
<1>2. RuntimeInv /\ BringUpInv /\ [Next]_vars => BringUpInv'
  BY NoOtherMishap, BringUpCalls, BringUpMonitors, BringUpWorld DEF Next, Rest
<1>3. RuntimeInv /\ AreaInv /\ (Hidden \/ (StopInv /\ LampsInv)) /\ [Next]_vars
        => (Hidden \/ (StopInv /\ LampsInv))'
  <2> SUFFICES ASSUME RuntimeInv, AreaInv, Hidden \/ (StopInv /\ LampsInv), [Next]_vars,
                      ~Hidden'
               PROVE  StopInv' /\ LampsInv'
    OBVIOUS
  <2>1. StopInv /\ LampsInv
    BY StaleGrows DEF Hidden
  <2>2. StopInv'
    BY <2>1, StopCalls, StopMonitors, StopWorld DEF Next, Rest
  <2>3. LampsInv'
    BY <2>1, LampsCalls, LampsMonitors, LampsWorld DEF Next, Rest
  <2>4. QED BY <2>2, <2>3
<1>4. Spec => [](TypeOK /\ AreaInv)
  BY AreaInvHolds, NoOtherMishap
<1>5. Spec => []RuntimeInv
  <2>1. Spec => [](RestartInv /\ StopIsFinal /\ SideInv)
    BY NoOtherMishap, SideInvHolds
  <2>2. RestartInv /\ StopIsFinal /\ SideInv => RuntimeInv
    BY DEF RuntimeInv
  <2>3. QED BY <2>1, <2>2, PTL
<1>6. QED
  BY <1>1, <1>2, <1>3, <1>4, <1>5, PTL DEF Spec

(* A session keeps the snapshot of the lamps as it came upon them, through every
   restart, reconnect, dead sender and refused key (adopt_light_snapshot): it never
   holds one of its own painting, unless a poll's answer has hidden a rebuild. *)
THEOREM SnapshotsAreHome ==
  ASSUME UiCalls = {}, ~LateMonitors, Mishaps \subseteq {"death", "transport", "auth"}
  PROVE  Spec => []SnapshotIsHome
<1>1. AsHueSessions
  BY DEF AsHueSessions, OneSide
<1>2. Spec => [](RuntimeInv /\ AreaInv /\ BringUpInv /\ (Hidden \/ (StopInv /\ LampsInv)))
  BY <1>1, LampsInvHolds
<1>3. Hidden \/ (StopInv /\ LampsInv) => SnapshotIsHome
  BY DEF Hidden, LampsInv, NoPaint, SnapshotIsHome, SnapshotAlwaysHome
<1>4. QED BY <1>2, <1>3, PTL

(* Once a stop and all it overtook have ended, the lamps are as the session came
   upon them: what the stop took it writes back, after whoever was on the area
   has left it (stop_hue_runtime, settle_abandoned_reconnect, restore_lights). The
   polls may answer as late as they like; only an answer that takes a rebuild out
   of Starting, where the stop would have seen it, is set apart. *)
THEOREM StopsRestore ==
  ASSUME UiCalls = {}, ~LateMonitors, Mishaps \subseteq {"death", "transport", "auth"}
  PROVE  Spec => []StopRestores
<1>1. AsHueSessions
  BY DEF AsHueSessions, OneSide
<1>2. Spec => [](RuntimeInv /\ AreaInv /\ BringUpInv /\ (Hidden \/ (StopInv /\ LampsInv)))
  BY <1>1, LampsInvHolds
<1>3. RuntimeInv /\ (Hidden \/ (StopInv /\ LampsInv)) => StopRestores
  <2> SUFFICES ASSUME RuntimeInv, LampsInv, Quiet, override
               PROVE  lights = "home"
    BY DEF Hidden, StopRestores, StopAlwaysRestores
  <2> USE DEF RuntimeInv, RestartInv
  <2>1. \A c \in Calls : ~Busy(c) /\ ~KeepsTaken(c) /\ ~Halted(c)
    BY StoppingIsBusy DEF Quiet, Busy, KeepsTaken
  <2>2. held = "none"
    BY <2>1 DEF LampsInv, StopTakes
  <2>3. lights # "painted"
    BY <2>1, <2>2 DEF LampsInv, HomeKnown, SessionOn, HomeHeld
  <2>4. QED BY <2>3 DEF TypeOK
<1>4. QED BY <1>2, <1>3, PTL

-----------------------------------------------------------------------------
(* The stream a runtime says it runs *)

(* A start has been decided on a reading that no longer held: what follows says
   nothing from then on. The hypotheses are those of the part before. *)
Outdated == "reading" \in stale

(* One monitor is on at a time, and it restarts a stream whose sender ended. *)
OnlyMonitor == \A s, t \in Streams : MonitorOn(s) /\ MonitorOn(t) => s = t
RestartsTheGone == \A s \in Streams : Monitoring(s) => sender[s] = "gone"
DrainsStopped == \A s \in Streams : watch[s] = "drain" => Stopped

(* Who is to store a stream has one. *)
HasOneToStore == /\ \A s \in Streams : watch[s] = "store" => built[s] # NoStream
                 /\ \A c \in Calls : pc[c] = "store" => has[c] # NoStream

(* The owner's stream is watched, and an active runtime without one is on its way
   to one. *)
ActiveIsWatched == active # NoStream => watch[active] \in {"watch", "fault", "backoff"}
ActiveHasStream ==
  IsActive /\ active = NoStream =>
    (\E c \in Calls : BringingUp(c)) \/ \E s \in Streams : Monitoring(s) \/ Watching(s)

WatchInv == /\ OnlyMonitor /\ RestartsTheGone /\ DrainsStopped /\ HasOneToStore
            /\ ActiveIsWatched /\ ActiveHasStream

LEMMA WatchCalls ==
  ASSUME OneSide, RuntimeInv, AreaInv, BringUpInv, WatchInv, NEW c \in Calls,
         Begin(c) \/ CallStep(c)
  PROVE  WatchInv'
<1> USE DEF RuntimeInv, RestartInv, TypeOK, Goto, Under, WatchInv
<1>1. /\ \A d \in Calls \ {c} : ~Busy(d) /\ ~BringingUp(d) /\ pc'[d] # "store"
      /\ CallStep(c) => op' = op
  BY OnlyCall DEF Busy, BringingUp, SideInv
<1>2. \A s \in Streams : sender[s] = "gone" => sender'[s] = "gone"
  <2>1. CASE BuildSender(c)
    BY <2>1, FreshIsUnborn DEF BuildSender, SpawnsFresh
  <2>2. CASE ~BuildSender(c)
    BY <2>2 DEF Begin, CallStep, PassGate, RestartHalts, RestartDeactivates, ReadArea,
       Decide, Guard, Capture, StoreSender, AbandonSender, TakeGate, Halt, Quiesce, Drain,
       Again, Yield, Restore, threadVars
  <2>3. QED BY <2>1, <2>2
<1>3. ASSUME UNCHANGED <<watch, built>>, active' \in {active, NoStream},
             Stopped => Stopped',
             pc'[c] = "store" => has'[c] # NoStream,
             IsActive' /\ active' = NoStream =>
               BringingUp(c)' \/ (IsActive /\ active = NoStream /\ ~BringingUp(c))
      PROVE  WatchInv'
  <2>1. OnlyMonitor' /\ RestartsTheGone' /\ DrainsStopped' /\ HasOneToStore'
    BY <1>1, <1>2, <1>3 DEF OnlyMonitor, MonitorOn, RestartsTheGone, Monitoring,
       DrainsStopped, HasOneToStore
  <2>2. ActiveIsWatched'
    BY <1>3 DEF ActiveIsWatched
  <2>3. ActiveHasStream'
    <3>1. (\E s \in Streams : Monitoring(s) \/ Watching(s))
             => (\E s \in Streams : Monitoring(s) \/ Watching(s))'
      BY <1>2, <1>3 DEF Monitoring, Watching
    <3>2. QED BY <1>1, <1>3, <3>1 DEF ActiveHasStream
  <2>4. QED BY <2>1, <2>2, <2>3
<1>4. CASE Begin(c) \/ PassGate(c) \/ TakeGate(c) \/ RestartDeactivates(c) \/ ReadArea(c)
  BY <1>3, <1>4 DEF Begin, PassGate, TakeGate, RestartDeactivates, ReadArea, BringingUp,
     ownerVars, monVars, IsActive, Stopped
<1>5. CASE Quiesce(c) \/ Drain(c) \/ Again(c) \/ Yield(c) \/ Restore(c)
  BY <1>3, <1>5 DEF Quiesce, Drain, Again, Yield, Restore, BringingUp, ownerVars, monVars,
     IsActive, Stopped
<1>6. CASE RestartHalts(c) \/ Halt(c)
  BY <1>3, <1>6 DEF RestartHalts, Halt, StopOwner, monVars, IsActive, Stopped
<1>7. CASE Decide(c)
  <2>1. CASE IsActive
    <3>1. UNCHANGED <<watch, built, state, active>> /\ pc'[c] # "store" /\ pc[c] = "decide"
      BY <1>7, <2>1 DEF Decide, monVars
    <3>2. QED BY <1>3, <2>1, <3>1 DEF IsActive, Stopped, BringingUp
  <2>2. CASE ~IsActive
    <3>1. MonitorsEnded /\ active = NoStream
      BY <1>7, <2>2 DEF Decide, OneSide, SideInv, StoppedHoldsNoStream, IsActive, Stopped
    <3>2. /\ UNCHANGED <<watch, built, has>> /\ active' = NoStream
          /\ pc'[c] # "store"
          /\ IsActive' => BringingUp(c)'
      BY <1>7, <2>2, <3>1 DEF Decide, monVars, GoesOn, IsActive, BringingUp
    <3>3. OnlyMonitor' /\ RestartsTheGone' /\ DrainsStopped' /\ HasOneToStore'
      BY <1>1, <3>1, <3>2 DEF OnlyMonitor, MonitorOn, RestartsTheGone, Monitoring,
         DrainsStopped, HasOneToStore, MonitorsEnded
    <3>4. QED BY <3>2, <3>3 DEF ActiveIsWatched, ActiveHasStream
  <2>3. QED BY <2>1, <2>2
<1>8. CASE Guard(c) \/ Capture(c)
  <2>1. /\ UNCHANGED <<watch, built, state, active>> /\ pc'[c] # "store" /\ BringingUp(c)
    BY <1>8 DEF Guard, Capture, BringingUp, ownerVars, monVars
  <2>2. BringingUp(c)' \/ ~IsActive
    BY <1>8 DEF Guard, Capture, BringingUp, Overtaken, IsActive, Stopped
  <2>3. QED BY <1>3, <2>1, <2>2 DEF IsActive, Stopped
<1>9. CASE BuildSender(c)
  <2>1. /\ UNCHANGED <<watch, built, state, active>> /\ has'[c] = Fresh /\ Fresh # NoStream
        /\ pc'[c] = "store"
    BY <1>9, FreshIsUnborn, StreamsAreNamed DEF BuildSender, SpawnsFresh, ownerVars, monVars
  <2>2. QED BY <1>3, <2>1 DEF Stopped, BringingUp
<1>10. CASE StoreSender(c)
  <2>1. /\ UNCHANGED <<state, built>> /\ active' = has[c] /\ has[c] \in Streams
        /\ watch' = [watch EXCEPT ![has[c]] = "watch"] /\ pc'[c] = "done"
        /\ MonitorsEnded
    BY <1>10 DEF StoreSender, HasOneToStore, SideInv, BringsUpAlone, BringingUp
  <2>2. OnlyMonitor' /\ RestartsTheGone' /\ DrainsStopped' /\ HasOneToStore'
    BY <1>1, <2>1 DEF OnlyMonitor, MonitorOn, RestartsTheGone, Monitoring,
       DrainsStopped, HasOneToStore, MonitorsEnded
  <2>3. ActiveIsWatched' /\ ActiveHasStream'
    BY <2>1, StreamsAreNamed DEF ActiveIsWatched, ActiveHasStream
  <2>4. QED BY <2>2, <2>3
<1>11. CASE AbandonSender(c)
  <2>1. /\ UNCHANGED <<watch, built, state, active>> /\ pc'[c] = "drain" /\ ~IsActive
    BY <1>11 DEF AbandonSender, Overtaken, IsActive, Stopped, ownerVars, monVars
  <2>2. QED BY <1>3, <2>1 DEF IsActive, Stopped
<1>12. QED BY <1>4, <1>5, <1>6, <1>7, <1>8, <1>9, <1>10, <1>11 DEF CallStep

LEMMA WatchMonitors ==
  ASSUME RuntimeInv, AreaInv, WatchInv, NEW s \in Streams, MonitorStep(s)
  PROVE  WatchInv'
<1> USE DEF RuntimeInv, RestartInv, TypeOK, At, MonGoto, MonEnds, WatchInv, ownerVars
<1>1. /\ MonitorOn(s) /\ UNCHANGED <<callVars, override>>
  BY FaultHoldsNoStream DEF MonitorStep, StopsWaiting, Claims, CountsFault, ClearsStream,
     ReleasesArea, AreaIsFree, AreaIsHeld, AreaTakenOver, BeginsStart, Fetched, Rebuilds,
     Restarted, Abandons, GivesBack, MonitorOn, SideInv
<1>2. \A t \in Streams : t # s => ~MonitorOn(t)
  BY <1>1 DEF OnlyMonitor
<1>3. active \in {s, NoStream}
  BY <1>2 DEF ActiveIsWatched, MonitorOn
<1>4. \A t \in Streams : sender[t] = "gone" => sender'[t] = "gone"
  <2>1. CASE Rebuilds(s)
    BY <2>1, FreshIsUnborn DEF Rebuilds, SpawnsFresh
  <2>2. CASE ~Rebuilds(s)
    BY <2>2 DEF MonitorStep, StopsWaiting, Claims, CountsFault, ClearsStream, ReleasesArea,
       AreaIsFree, AreaIsHeld, AreaTakenOver, BeginsStart, Fetched, Restarted, Abandons,
       GivesBack, threadVars
  <2>3. QED BY <2>1, <2>2
<1>5. ASSUME \A t \in Streams \ {s} : watch'[t] = watch[t] /\ built'[t] = built[t],
             Monitoring(s)' => sender[s] = "gone",
             watch'[s] = "drain" => Stopped',
             watch'[s] = "store" => built'[s] # NoStream,
             active' = s => watch'[s] \in {"watch", "fault", "backoff"},
             active' \in {active, NoStream},
             IsActive' /\ active' = NoStream => Monitoring(s)'
      PROVE  WatchInv'
  <2>1. \A t \in Streams : t # s => ~MonitorOn(t)'
    BY <1>2, <1>5 DEF MonitorOn
  <2>2. OnlyMonitor' /\ RestartsTheGone' /\ DrainsStopped' /\ HasOneToStore'
    BY <1>1, <1>4, <1>5, <2>1 DEF OnlyMonitor, MonitorOn, RestartsTheGone, Monitoring,
       DrainsStopped, HasOneToStore, callVars
  <2>3. ActiveIsWatched' /\ ActiveHasStream'
    BY <1>3, <1>5 DEF ActiveIsWatched, ActiveHasStream
  <2>4. QED BY <2>2, <2>3
<1>6. CASE StopsWaiting(s)
  <2>1. ~IsActive /\ active = NoStream /\ UNCHANGED <<active, state>>
    BY <1>6 DEF StopsWaiting, Pointless, StopIsFinal, SideInv, StoppedHoldsNoStream,
       IsActive, Stopped
  <2>2. QED BY <1>5, <1>6, <2>1, StreamsAreNamed DEF StopsWaiting, Monitoring, IsActive
<1>7. CASE Claims(s)
  <2>1. /\ UNCHANGED <<active, state>> /\ sender[s] = "gone"
        /\ UNCHANGED built /\ \A t \in Streams \ {s} : watch'[t] = watch[t]
    BY <1>7 DEF Claims
  <2>2. ~claimed
    BY <1>2, <1>7 DEF Claims, OneRestart, Monitoring, MonitorOn
  <2>3. CASE MayClaim
    BY <1>5, <1>7, <2>1, <2>3 DEF Claims, Monitoring
  <2>4. CASE ~MayClaim
    <3>1. ~IsActive /\ active = NoStream
      BY <2>2, <2>4 DEF MayClaim, Pointless, StopIsFinal, SideInv, StoppedHoldsNoStream,
         IsActive, Stopped
    <3>2. QED BY <1>5, <1>7, <2>1, <2>4, <3>1, StreamsAreNamed DEF Claims, Monitoring,
            IsActive
  <2>5. QED BY <2>3, <2>4
<1>8. CASE ~StopsWaiting(s) /\ ~Claims(s)
  <2>1. Monitoring(s) /\ sender[s] = "gone"
    <3>1. Monitoring(s)
      BY <1>8 DEF MonitorStep, CountsFault, ClearsStream, ReleasesArea, AreaIsFree,
         AreaIsHeld, AreaTakenOver, BeginsStart, Fetched, Rebuilds, Restarted, Abandons,
         GivesBack, Monitoring
    <3>2. QED BY <3>1 DEF RestartsTheGone
  <2>2. Restarting(s) => active = NoStream
    BY DEF SideInv, RestartsBare
  <2>3. Lost \/ Pointless => ~IsActive /\ active = NoStream
    BY DEF Lost, Pointless, StopIsFinal, SideInv, StoppedHoldsNoStream, IsActive, Stopped
  <2>4. CASE CountsFault(s)
    <3>1. /\ active' \in {active, NoStream}
          /\ \A t \in Streams \ {s} : watch'[t] = watch[t] /\ built'[t] = built[t]
      BY <2>4, FaultHoldsNoStream DEF CountsFault, SideInv
    <3>2. CASE state' = "Failed"
      <4>1. active' = NoStream /\ watch'[s] = "ended"
        BY <2>4, <3>2 DEF CountsFault, TransientFault, Keeps
      <4>2. QED BY <1>5, <3>1, <3>2, <4>1, StreamsAreNamed DEF Monitoring, IsActive
    <3>3. CASE state' # "Failed"
      <4>1. watch'[s] = "backoff"
        BY <2>4, <3>3 DEF CountsFault
      <4>2. QED BY <1>5, <2>1, <3>1, <4>1 DEF Monitoring
    <3>4. QED BY <3>2, <3>3
  <2>5. CASE ClearsStream(s)
    <3>1. /\ active' \in {active, NoStream} /\ state' = state
          /\ \A t \in Streams \ {s} : watch'[t] = watch[t] /\ built'[t] = built[t]
          /\ active' = NoStream
          /\ watch'[s] \in {"ended", "release"} /\ (IsActive => watch'[s] = "release")
      BY <2>3, <2>5 DEF ClearsStream
    <3>2. QED BY <1>5, <2>1, <3>1, StreamsAreNamed DEF Monitoring, IsActive
  <2>6. CASE ReleasesArea(s) \/ AreaIsFree(s) \/ AreaIsHeld(s) \/ AreaTakenOver(s)
    <3>1. /\ Restarting(s) /\ active' = active
          /\ \A t \in Streams \ {s} : watch'[t] = watch[t] /\ built'[t] = built[t]
          /\ watch'[s] \in {"ready", "starting", "fault", "ended"}
          /\ watch'[s] = "ended" => ~IsActive'
      BY <2>6 DEF ReleasesArea, AreaIsFree, AreaIsHeld, AreaTakenOver, Restarting,
         StopIsFinal, IsActive
    <3>2. QED BY <1>5, <2>1, <2>2, <3>1, StreamsAreNamed DEF Monitoring
  <2>7. CASE BeginsStart(s) \/ Fetched(s)
    <3>1. /\ Restarting(s) /\ active' = active
          /\ \A t \in Streams \ {s} : watch'[t] = watch[t] /\ built'[t] = built[t]
          /\ watch'[s] \in {"fetch", "build", "ended"}
          /\ watch'[s] = "ended" => ~IsActive'
      BY <2>3, <2>7 DEF BeginsStart, Fetched, Restarting, IsActive
    <3>2. QED BY <1>5, <2>1, <2>2, <3>1, StreamsAreNamed DEF Monitoring
  <2>8. CASE Rebuilds(s)
    <3>1. /\ Restarting(s) /\ active' = active /\ built'[s] = Fresh /\ Fresh # NoStream
          /\ \A t \in Streams \ {s} : watch'[t] = watch[t] /\ built'[t] = built[t]
          /\ watch'[s] = "store"
      BY <2>8, FreshIsUnborn, StreamsAreNamed DEF Rebuilds, SpawnsFresh, Restarting
    <3>2. QED BY <1>5, <2>1, <2>2, <3>1, StreamsAreNamed DEF Monitoring
  <2>9. CASE Abandons(s)
    <3>1. /\ Restarting(s) /\ active' = active /\ state' = state
          /\ \A t \in Streams \ {s} : watch'[t] = watch[t] /\ built'[t] = built[t]
          /\ watch'[s] = "drain" /\ Lost
      BY <2>9 DEF Abandons, Restarting, MayStore
    <3>2. Stopped'
      BY <2>3, <3>1 DEF IsActive, Stopped
    <3>3. QED BY <1>5, <2>1, <2>2, <3>1, <3>2, StreamsAreNamed DEF Monitoring
  <2>10. CASE GivesBack(s)
    <3>1. /\ Stopped /\ UNCHANGED <<state, active>> /\ watch'[s] = "ended"
          /\ \A t \in Streams \ {s} : watch'[t] = watch[t] /\ built'[t] = built[t]
      BY <2>10 DEF GivesBack, DrainsStopped
    <3>2. active = NoStream /\ ~IsActive'
      BY <3>1 DEF SideInv, StoppedHoldsNoStream, IsActive, Stopped
    <3>3. QED BY <1>5, <3>1, <3>2, StreamsAreNamed DEF Monitoring
  <2>11. CASE Restarted(s)
    <3>1. /\ active' = built[s] /\ built[s] \in Streams /\ state' = "Running"
          /\ watch' = [watch EXCEPT ![s] = "ended", ![built[s]] = "watch"]
          /\ built' = [built EXCEPT ![s] = NoStream]
      BY <2>11 DEF Restarted, HasOneToStore
    <3>2. \A t \in Streams : t # built[s] => ~MonitorOn(t)'
      BY <1>2, <3>1 DEF MonitorOn
    <3>3. watch'[built[s]] = "watch"
      BY <3>1
    <3>4. OnlyMonitor' /\ RestartsTheGone' /\ DrainsStopped' /\ HasOneToStore'
      BY <1>1, <3>1, <3>2, <3>3 DEF OnlyMonitor, MonitorOn, RestartsTheGone, Monitoring,
         DrainsStopped, HasOneToStore, callVars
    <3>5. ActiveIsWatched' /\ ActiveHasStream'
      BY <3>1, <3>3, StreamsAreNamed DEF ActiveIsWatched, ActiveHasStream
    <3>6. QED BY <3>4, <3>5
  <2>12. QED BY <1>8, <2>4, <2>5, <2>6, <2>7, <2>8, <2>9, <2>10, <2>11 DEF MonitorStep
<1>9. QED BY <1>6, <1>7, <1>8

LEMMA WatchWorld ==
  ASSUME RuntimeInv, AreaInv, WatchInv,
         \/ \E s \in Streams : SenderEnds(s)
         \/ PollStep \/ AreaExpires \/ ForeignStreams \/ UNCHANGED vars
  PROVE  WatchInv'
<1> USE DEF RuntimeInv, RestartInv, WatchInv
<1>1. UNCHANGED <<callVars, monVars>>
  BY DEF SenderEnds, PollStep, PollProbes, PollAsks, PollHears, AreaExpires,
     ForeignStreams, vars, monVars, callVars
<1>2. \A s \in Streams : sender[s] = "gone" => sender'[s] = "gone"
  BY DEF SenderEnds, PollStep, PollProbes, PollAsks, PollHears, AreaExpires,
     ForeignStreams, vars, threadVars, TypeOK
<1>3. /\ active' \in {active, NoStream} /\ (Stopped => Stopped')
      /\ IsActive' /\ active' = NoStream =>
           \/ IsActive /\ active = NoStream
           \/ active \in Streams /\ sender[active] = "gone"
  <2>1. CASE UNCHANGED ownerVars
    BY <2>1 DEF ownerVars, IsActive, Stopped
  <2>2. CASE PollProbes
    <3>1. active' \in {active, NoStream}
      BY <2>2, FaultHoldsNoStream DEF PollProbes, SideInv
    <3>2. QED BY <2>2, <3>1 DEF PollProbes, TypeOK, IsActive, Stopped
  <2>3. CASE PollHears
    <3>1. CASE active' = active
      BY <2>3, <3>1 DEF PollHears, TransientFault, ownerVars, IsActive, Stopped
    <3>2. CASE active' # active
      BY <2>3, <3>2 DEF PollHears, TransientFault, Keeps, ownerVars, IsActive, Stopped
    <3>3. QED BY <3>1, <3>2
  <2>4. QED
    BY <2>1, <2>2, <2>3 DEF SenderEnds, PollStep, PollAsks, AreaExpires, ForeignStreams,
       vars
<1>4. OnlyMonitor' /\ RestartsTheGone' /\ DrainsStopped' /\ HasOneToStore' /\ ActiveIsWatched'
  BY <1>1, <1>2, <1>3 DEF OnlyMonitor, MonitorOn, RestartsTheGone, Monitoring,
     DrainsStopped, HasOneToStore, ActiveIsWatched, callVars, monVars
<1>5. ActiveHasStream'
  <2>1. active \in Streams /\ sender[active] = "gone"
          => Monitoring(active) \/ Watching(active)
    BY StreamsAreNamed DEF ActiveIsWatched, Monitoring, Watching
  <2>2. \A s \in Streams : Monitoring(s) \/ Watching(s) => (Monitoring(s) \/ Watching(s))'
    BY <1>1, <1>2 DEF Monitoring, Watching, monVars
  <2>3. \A c \in Calls : BringingUp(c) => BringingUp(c)'
    BY <1>1 DEF BringingUp, callVars
  <2>4. QED BY <1>3, <2>1, <2>2, <2>3 DEF ActiveHasStream
<1>6. QED BY <1>4, <1>5

(* A sender that ended was deactivated, and one that runs and was not has the
   area; so whoever deactivates late takes the area from nobody. *)
GoneSpent == \A s \in Streams : sender[s] = "gone" => spent[s]
UpHasArea == \A s \in Streams : sender[s] = "up" /\ ~spent[s] => area = s

(* Nobody deactivates a stream that has a handle, and what a call has taken from
   the owner has none left. *)
HandledUnspent == \A s \in Streams : Handled(s) /\ sender[s] = "up" => ~spent[s]
LetsGo(c) == pc[c] \in {"quiesce", "drain", "again"}
LetGo == \A c \in Calls : LetsGo(c) /\ has[c] # NoStream => ~Handled(has[c])

(* Who builds finds the area free. *)
AreaFree == /\ \A m \in Streams : watch[m] \in {"starting", "fetch", "build"} => area = NoStream
            /\ \A c \in Calls : pc[c] \in {"guard", "capture", "build"} => area = NoStream

OwnInv == GoneSpent /\ UpHasArea /\ HandledUnspent /\ LetGo /\ AreaFree

LEMMA DeactivatesOwn ==
  ASSUME AsHueSessions, TypeOK, AreaInv, GoneSpent, UpHasArea, NEW s \in Streams, Born(s),
         Deactivates(s), UNCHANGED sender
  PROVE  /\ GoneSpent' /\ UpHasArea' /\ area' \in {area, NoStream} /\ area' # s
         /\ sender[s] = "gone" => UNCHANGED <<spent, area>>
         /\ \A t \in Streams : t # s => spent'[t] = spent[t]
<1>1. s # NoStream /\ area # Foreign /\ (area = s => ~spent[s])
  BY StreamsAreNamed DEF AreaInv, AreaIsLive, NoStream, Foreign
<1>2. CASE spent[s]
  BY <1>1, <1>2 DEF Deactivates, GoneSpent, UpHasArea
<1>3. CASE ~spent[s]
  <2>1. spent' = [spent EXCEPT ![s] = TRUE] /\ area' = NoStream
    BY <1>1, <1>3, NoOtherMishap DEF Deactivates
  <2>2. area = s /\ sender[s] # "gone"
    BY <1>1, <1>3 DEF GoneSpent, UpHasArea, Born, TypeOK
  <2>3. QED BY <1>1, <2>1, <2>2 DEF GoneSpent, UpHasArea, TypeOK
<1>4. QED BY <1>2, <1>3

LEMMA SpawnOwn ==
  ASSUME TypeOK, AreaInv, GoneSpent, UpHasArea, area = NoStream, SpawnsFresh
  PROVE  /\ GoneSpent' /\ UpHasArea' /\ area' = Fresh /\ spent' = spent
         /\ Fresh \in Streams /\ ~spent[Fresh] /\ sender[Fresh] = "unborn"
         /\ \A t \in Streams : t # Fresh => sender'[t] = sender[t]
<1>1. Fresh \in Streams /\ sender[Fresh] = "unborn"
  BY FreshIsUnborn DEF SpawnsFresh
<1>2. QED BY <1>1, StreamsAreNamed DEF SpawnsFresh, GoneSpent, UpHasArea, TypeOK, AreaInv,
        UnbornUnspent

LEMMA OwnCalls ==
  ASSUME AsHueSessions, RuntimeInv, AreaInv, BringUpInv, WatchInv, OwnInv, NEW c \in Calls,
         Begin(c) \/ CallStep(c), ~Outdated'
  PROVE  OwnInv'
<1> USE DEF RuntimeInv, RestartInv, TypeOK, Goto, Under, OwnInv
<1>1. /\ \A d \in Calls \ {c} : /\ ~Busy(d) /\ pc'[d] = pc[d] /\ has'[d] = has[d]
                                /\ pc[d] \in {"new", "done"}
      /\ CallStep(c) => op' = op
  BY OnlyCall, NoOtherMishap DEF Busy, SideInv
<1>2. BringingUp(c) => MonitorsEnded /\ active = NoStream
  BY DEF SideInv, BringsUpAlone
<1>3. has[c] \in Streams \cup {NoStream} /\ Born(has[c])
  BY DEF AreaInv, HandlesBorn
<1>4. ASSUME UNCHANGED <<sender, watch, built>>, GoneSpent', UpHasArea',
             area' \in {area, NoStream}, active' \in {active, NoStream},
             pc'[c] # "store", pc[c] # "store", has'[c] \in {has[c], active, NoStream},
             \A t \in Streams : spent'[t] # spent[t] => ~Handled(t),
             \A t \in Streams : LetsGo(c)' /\ t = has'[c] =>
               ~Handled(t) \/ (active' = NoStream /\ t = active),
             pc'[c] \in {"guard", "capture", "build"} => area' = NoStream
      PROVE  OwnInv'
  <2>1. \A t \in Streams : Handled(t)' => Handled(t)
    BY <1>1, <1>4, StreamsAreNamed DEF Handled
  <2>2. HandledUnspent'
    BY <1>4, <2>1 DEF HandledUnspent
  <2>3. LetGo'
    <3>1. ASSUME NEW t \in Streams, t = has'[c], LetsGo(c)'
          PROVE  ~Handled(t)'
      <4>1. CASE ~Handled(t)
        BY <2>1, <4>1
      <4>2. CASE t = active /\ active' = NoStream
        <5>1. \A m \in Streams : watch[m] # "store"
          BY <4>2, StreamsAreNamed DEF SideInv, RestartsBare, Restarting
        <5>2. QED BY <1>1, <1>4, <4>2, <5>1, StreamsAreNamed DEF Handled
      <4>3. QED BY <1>4, <3>1, <4>1, <4>2
    <3>2. \A d \in Calls : LetsGo(d)' => d = c
      BY <1>1 DEF LetsGo
    <3>3. has'[c] # NoStream => has'[c] \in Streams
      BY <1>4
    <3>4. QED BY <3>1, <3>2, <3>3 DEF LetGo
  <2>4. AreaFree'
    BY <1>1, <1>4 DEF AreaFree
  <2>5. QED BY <1>4, <2>2, <2>3, <2>4
<1>5. CASE Begin(c) \/ PassGate(c) \/ TakeGate(c) \/ ReadArea(c)
  BY <1>4, <1>5 DEF Begin, PassGate, TakeGate, ReadArea, LetsGo, ownerVars, threadVars,
     monVars, GoneSpent, UpHasArea
<1>6. CASE RestartHalts(c) \/ Halt(c)
  <2>1. /\ UNCHANGED <<threadVars, monVars>> /\ active' = NoStream /\ has'[c] = active
        /\ pc[c] = "halt" /\ pc'[c] = "quiesce"
    BY <1>6 DEF RestartHalts, Halt, StopOwner
  <2>2. QED BY <1>4, <2>1 DEF threadVars, monVars, GoneSpent, UpHasArea
<1>7. CASE Yield(c) \/ Restore(c)
  BY <1>4, <1>7 DEF Yield, Restore, LetsGo, ownerVars, threadVars, monVars, GoneSpent,
     UpHasArea
<1>8. CASE Drain(c)
  <2>1. /\ UNCHANGED <<threadVars, monVars, active, has>> /\ pc[c] = "drain"
        /\ pc'[c] \notin {"store", "guard", "capture", "build"}
    BY <1>8 DEF Drain, ownerVars
  <2>2. \A t \in Streams : t = has[c] => ~Handled(t)
    BY <2>1, StreamsAreNamed DEF LetGo, LetsGo
  <2>3. QED BY <1>4, <2>1, <2>2 DEF threadVars, monVars, GoneSpent, UpHasArea
<1>9. CASE RestartDeactivates(c) \/ Quiesce(c) \/ Again(c)
  <2>1. /\ UNCHANGED <<sender, monVars, active>> /\ pc[c] \in {"quiesce", "again"}
        /\ pc'[c] \in {"read", "drain", "yield"}
        /\ has'[c] \in {has[c], NoStream}
        /\ Deactivates(has[c]) \/ (pc[c] = "again" /\ UNCHANGED <<spent, area>>)
    BY <1>9 DEF RestartDeactivates, Quiesce, Again, ownerVars
  <2>2. \A t \in Streams : t = has[c] => ~Handled(t)
    BY <2>1, StreamsAreNamed DEF LetGo, LetsGo
  <2>3. CASE UNCHANGED <<spent, area>>
    BY <1>4, <2>1, <2>2, <2>3, StreamsAreNamed DEF monVars, GoneSpent, UpHasArea
  <2>4. CASE has[c] # NoStream /\ Deactivates(has[c])
    <3>1. /\ GoneSpent' /\ UpHasArea' /\ area' \in {area, NoStream} /\ area' # has[c]
          /\ \A t \in Streams : t # has[c] => spent'[t] = spent[t]
      BY <1>3, <2>1, <2>4, DeactivatesOwn
    <3>2. QED BY <1>4, <2>1, <2>2, <3>1, StreamsAreNamed DEF monVars
  <2>5. QED
    <3>1. has[c] = NoStream /\ Deactivates(has[c]) => UNCHANGED <<spent, area>>
      BY DEF Deactivates
    <3>2. QED BY <2>1, <2>3, <2>4, <3>1
<1>10. CASE Decide(c)
  <2>1. /\ UNCHANGED <<threadVars, monVars, has>> /\ pc[c] = "decide"
        /\ pc'[c] \in {"guard", "done"}
    BY <1>10 DEF Decide
  <2>2. ~IsActive => MonitorsEnded /\ active = NoStream
    BY <1>10, NoOtherMishap DEF Decide, OneSide, SideInv, StoppedHoldsNoStream, IsActive,
       Stopped
  <2>3. active' = active
    BY <1>10, <2>2 DEF Decide
  <2>4. pc'[c] = "guard" => ~IsActive /\ seen[c] = "ready"
    <3>1. IsActive => op[c] # "restart"
      BY <1>10 DEF Decide, SideInv, RestartIsStopped, Halted, StopIsFinal, IsActive
    <3>2. QED BY <1>10, <3>1 DEF Decide, GoesOn
  <2>5. pc'[c] = "guard" => area = NoStream
    BY <1>10, <2>4 DEF Decide, StartsTooLate, Outdated
  <2>6. QED BY <1>4, <2>1, <2>3, <2>5 DEF LetsGo, threadVars, monVars, GoneSpent, UpHasArea
<1>11. CASE Guard(c) \/ Capture(c)
  <2>1. /\ UNCHANGED <<threadVars, monVars, has, active>> /\ pc[c] \in {"guard", "capture"}
        /\ pc'[c] \in {"capture", "build", "done"}
    BY <1>11 DEF Guard, Capture, ownerVars
  <2>2. area' = NoStream
    BY <2>1 DEF AreaFree, threadVars
  <2>3. QED BY <1>4, <2>1, <2>2 DEF LetsGo, threadVars, monVars, GoneSpent, UpHasArea
<1>12. CASE BuildSender(c)
  <2>1. /\ UNCHANGED <<monVars, active>> /\ SpawnsFresh /\ has'[c] = Fresh
        /\ pc[c] = "build" /\ pc'[c] = "store"
    BY <1>12 DEF BuildSender, ownerVars
  <2>2. area = NoStream /\ MonitorsEnded
    BY <1>2, <2>1 DEF AreaFree, BringingUp
  <2>3. /\ GoneSpent' /\ UpHasArea' /\ area' = Fresh /\ spent' = spent
        /\ Fresh \in Streams /\ ~spent[Fresh] /\ sender[Fresh] = "unborn"
        /\ \A t \in Streams : t # Fresh => sender'[t] = sender[t]
    BY <2>1, <2>2, SpawnOwn
  <2>4. HandledUnspent'
    <3>1. \A t \in Streams : t # Fresh /\ Handled(t)' => Handled(t)
      BY <1>1, <2>1 DEF Handled, monVars
    <3>2. QED BY <2>3, <3>1 DEF HandledUnspent
  <2>5. LetGo'
    BY <1>1, <2>1 DEF LetGo, LetsGo
  <2>6. AreaFree'
    BY <1>1, <2>1, <2>2 DEF AreaFree, MonitorsEnded, monVars
  <2>7. QED BY <2>3, <2>4, <2>5, <2>6
<1>13. CASE StoreSender(c)
  <2>1. /\ UNCHANGED <<threadVars, built>> /\ active' = has[c] /\ has[c] \in Streams
        /\ watch' = [watch EXCEPT ![has[c]] = "watch"] /\ pc[c] = "store" /\ pc'[c] = "done"
        /\ MonitorsEnded /\ active = NoStream
    BY <1>2, <1>13 DEF StoreSender, WatchInv, HasOneToStore, BringingUp
  <2>2. \A m \in Streams : watch'[m] \in {"none", "ended", "watch"}
    BY <2>1 DEF MonitorsEnded
  <2>3. \A t \in Streams : Handled(t)' => Handled(t)
    BY <1>1, <2>1, <2>2 DEF Handled
  <2>4. HandledUnspent' /\ GoneSpent' /\ UpHasArea'
    BY <2>1, <2>3 DEF HandledUnspent, GoneSpent, UpHasArea, threadVars
  <2>5. LetGo'
    BY <1>1, <2>1 DEF LetGo, LetsGo
  <2>6. AreaFree'
    BY <1>1, <2>1, <2>2 DEF AreaFree
  <2>7. QED BY <2>4, <2>5, <2>6
<1>14. CASE AbandonSender(c)
  <2>1. /\ UNCHANGED <<threadVars, monVars, has, active>> /\ pc[c] = "store"
        /\ pc'[c] = "drain" /\ Stopped
    BY <1>14 DEF AbandonSender, Overtaken, ownerVars
  <2>2. active = NoStream /\ MonitorsEnded
    BY <2>1 DEF SideInv, BringsUpAlone, BringingUp
  <2>3. \A t \in Streams : ~Handled(t)'
    BY <1>1, <2>1, <2>2, StreamsAreNamed DEF Handled, MonitorsEnded, monVars
  <2>4. HandledUnspent' /\ GoneSpent' /\ UpHasArea'
    BY <2>1, <2>3 DEF HandledUnspent, GoneSpent, UpHasArea, threadVars
  <2>5. LetGo'
    BY <1>3, <2>1, <2>3 DEF LetGo, AreaInv, HandlesBorn, Born
  <2>6. AreaFree'
    BY <1>1, <2>1 DEF AreaFree, threadVars, monVars
  <2>7. QED BY <2>4, <2>5, <2>6
<1>15. QED BY <1>5, <1>6, <1>7, <1>8, <1>9, <1>10, <1>11, <1>12, <1>13, <1>14
       DEF CallStep

LEMMA OwnMonitors ==
  ASSUME AsHueSessions, RuntimeInv, AreaInv, WatchInv, OwnInv, NEW s \in Streams,
         MonitorStep(s)
  PROVE  OwnInv'
<1> USE DEF RuntimeInv, RestartInv, TypeOK, At, MonGoto, MonEnds, OwnInv, ownerVars
<1>1. /\ MonitorOn(s) /\ UNCHANGED <<callVars, override>>
  BY FaultHoldsNoStream DEF MonitorStep, StopsWaiting, Claims, CountsFault, ClearsStream,
     ReleasesArea, AreaIsFree, AreaIsHeld, AreaTakenOver, BeginsStart, Fetched, Rebuilds,
     Restarted, Abandons, GivesBack, MonitorOn, SideInv
<1>2. \A t \in Streams : t # s => ~MonitorOn(t)
  BY <1>1 DEF WatchInv, OnlyMonitor
<1>3. active \in {s, NoStream} /\ (Monitoring(s) => sender[s] = "gone")
  BY <1>2 DEF WatchInv, ActiveIsWatched, MonitorOn, RestartsTheGone
<1>4. (sender[s] = "gone" => area # s) /\ Born(s) /\ s # NoStream
  BY <1>1, StreamsAreNamed DEF AreaInv, AreaIsLive, HandlesBorn, MonitorOn
<1>5. ASSUME UNCHANGED threadVars,
             \A t \in Streams \ {s} : watch'[t] = watch[t] /\ built'[t] = built[t],
             active' \in {active, NoStream},
             watch'[s] = "store" => watch[s] = "store" /\ built'[s] = built[s],
             watch'[s] \in {"starting", "fetch", "build"} => area = NoStream
      PROVE  OwnInv'
  <2>1. \A t \in Streams : Handled(t)' => Handled(t)
    BY <1>1, <1>5, StreamsAreNamed DEF Handled, callVars
  <2>2. HandledUnspent' /\ GoneSpent' /\ UpHasArea'
    BY <1>5, <2>1 DEF HandledUnspent, GoneSpent, UpHasArea, threadVars
  <2>3. LetGo'
    <3>1. \A c \in Calls : has'[c] = has[c] /\ (LetsGo(c)' => LetsGo(c))
      BY <1>1 DEF callVars, LetsGo
    <3>2. QED BY <2>1, <3>1 DEF LetGo
  <2>4. AreaFree'
    BY <1>1, <1>5 DEF AreaFree, threadVars, callVars
  <2>5. QED BY <2>2, <2>3, <2>4
<1>6. CASE StopsWaiting(s) \/ Claims(s)
  BY <1>5, <1>6 DEF StopsWaiting, Claims
<1>7. CASE CountsFault(s) \/ ClearsStream(s)
  <2>1. /\ UNCHANGED threadVars /\ watch[s] \in {"fault", "backoff"}
        /\ \A t \in Streams \ {s} : watch'[t] = watch[t] /\ built'[t] = built[t]
        /\ watch'[s] \in {"ended", "backoff", "release"}
    BY <1>7 DEF CountsFault, ClearsStream
  <2>2. active' \in {active, NoStream}
    BY <1>7, FaultHoldsNoStream DEF CountsFault, ClearsStream, SideInv
  <2>3. QED BY <1>5, <2>1, <2>2
<1>8. CASE ReleasesArea(s)
  <2>1. Deactivates(s) /\ UNCHANGED <<sender, lights, active, built>>
    BY <1>8 DEF ReleasesArea
  <2>2. sender[s] = "gone"
    BY <1>3, <1>8 DEF ReleasesArea, Monitoring
  <2>3. UNCHANGED <<spent, area>>
    BY <1>4, <2>1, <2>2, DeactivatesOwn
  <2>4. QED BY <1>5, <1>8, <2>1, <2>3 DEF ReleasesArea, threadVars
<1>9. CASE AreaIsFree(s) \/ AreaIsHeld(s) \/ AreaTakenOver(s)
  BY <1>5, <1>9, NoOtherMishap DEF AreaIsFree, AreaIsHeld, AreaTakenOver
<1>10. CASE BeginsStart(s) \/ Fetched(s)
  BY <1>5, <1>10 DEF BeginsStart, Fetched, AreaFree
<1>11. CASE Abandons(s) \/ GivesBack(s)
  BY <1>5, <1>11 DEF Abandons, GivesBack
<1>12. CASE Rebuilds(s)
  <2>1. /\ UNCHANGED active /\ SpawnsFresh /\ watch[s] = "build"
        /\ built' = [built EXCEPT ![s] = Fresh] /\ watch' = [watch EXCEPT ![s] = "store"]
    BY <1>12 DEF Rebuilds
  <2>2. area = NoStream
    BY <2>1 DEF AreaFree
  <2>3. /\ GoneSpent' /\ UpHasArea' /\ area' = Fresh /\ spent' = spent
        /\ Fresh \in Streams /\ ~spent[Fresh] /\ sender[Fresh] = "unborn"
        /\ \A t \in Streams : t # Fresh => sender'[t] = sender[t]
    BY <2>1, <2>2, SpawnOwn
  <2>4. \A t \in Streams : t # Fresh /\ Handled(t)' => Handled(t)
    BY <1>1, <2>1 DEF Handled, callVars
  <2>5. HandledUnspent'
    BY <2>3, <2>4 DEF HandledUnspent
  <2>6. LetGo'
    <3>1. \A c \in Calls : has[c] # NoStream => has[c] \in Streams /\ has[c] # Fresh
      BY <2>3 DEF AreaInv, HandlesBorn, Born
    <3>2. QED BY <1>1, <2>4, <3>1 DEF LetGo, LetsGo, callVars
  <2>7. AreaFree'
    <3>1. \A c \in Calls : ~BringingUp(c)'
      BY <1>1 DEF SideInv, BringsUpAlone, BringingUp, MonitorsEnded, MonitorOn, callVars
    <3>2. \A t \in Streams : watch'[t] \notin {"starting", "fetch", "build"}
      BY <1>2, <2>1 DEF MonitorOn
    <3>3. QED BY <3>1, <3>2 DEF AreaFree, BringingUp
  <2>8. QED BY <2>3, <2>5, <2>6, <2>7
<1>13. CASE Restarted(s)
  <2>1. /\ UNCHANGED threadVars /\ active' = built[s] /\ built[s] \in Streams
        /\ watch[s] = "store" /\ active = NoStream
        /\ watch' = [watch EXCEPT ![s] = "ended", ![built[s]] = "watch"]
        /\ built' = [built EXCEPT ![s] = NoStream]
    BY <1>13 DEF Restarted, WatchInv, HasOneToStore, SideInv, RestartsBare, Restarting
  <2>2. \A t \in Streams : watch'[t] \in {"none", "ended", "watch"}
    BY <1>2, <2>1 DEF MonitorOn
  <2>3. \A t \in Streams : Handled(t)' => Handled(t)
    BY <1>1, <2>1, <2>2 DEF Handled, callVars
  <2>4. HandledUnspent' /\ GoneSpent' /\ UpHasArea'
    BY <2>1, <2>3 DEF HandledUnspent, GoneSpent, UpHasArea, threadVars
  <2>5. LetGo'
    BY <1>1, <2>3 DEF LetGo, LetsGo, callVars
  <2>6. AreaFree'
    BY <1>1, <2>1, <2>2 DEF AreaFree, callVars, threadVars
  <2>7. QED BY <2>4, <2>5, <2>6
<1>14. QED BY <1>6, <1>7, <1>8, <1>9, <1>10, <1>11, <1>12, <1>13 DEF MonitorStep

LEMMA OwnWorld ==
  ASSUME AsHueSessions, RuntimeInv, AreaInv, WatchInv, OwnInv,
         \/ \E s \in Streams : SenderEnds(s)
         \/ PollStep \/ AreaExpires \/ ForeignStreams \/ UNCHANGED vars
  PROVE  OwnInv'
<1> USE DEF RuntimeInv, RestartInv, TypeOK, OwnInv
<1>1. UNCHANGED <<callVars, monVars>>
  BY DEF SenderEnds, PollStep, PollProbes, PollAsks, PollHears, AreaExpires,
     ForeignStreams, vars, monVars, callVars
<1>2. active' \in {active, NoStream}
  <2>1. CASE UNCHANGED ownerVars
    BY <2>1 DEF ownerVars
  <2>2. CASE PollProbes
    <3>1. active' \in {active, NoStream}
      BY <2>2, FaultHoldsNoStream DEF PollProbes, SideInv
    <3>2. QED BY <2>2, <3>1 DEF PollProbes
  <2>3. CASE PollHears
    BY <2>3 DEF PollHears, TransientFault, Keeps, ownerVars
  <2>4. QED
    BY <2>1, <2>2, <2>3 DEF SenderEnds, PollStep, PollAsks, AreaExpires, ForeignStreams,
       vars
<1>3. \A s \in Streams : Handled(s)' => Handled(s)
  BY <1>1, <1>2, StreamsAreNamed DEF Handled, callVars, monVars
<1>4. ASSUME area' \in {area, NoStream}, GoneSpent', UpHasArea', HandledUnspent'
      PROVE  OwnInv'
  <2>1. LetGo'
    BY <1>1, <1>3 DEF LetGo, LetsGo, callVars
  <2>2. AreaFree'
    BY <1>1, <1>4 DEF AreaFree, callVars, monVars
  <2>3. QED BY <1>4, <2>1, <2>2
<1>5. CASE UNCHANGED threadVars
  BY <1>3, <1>4, <1>5 DEF threadVars, GoneSpent, UpHasArea, HandledUnspent
<1>6. ASSUME NEW s \in Streams, SenderEnds(s)
      PROVE  OwnInv'
  <2>1. sender[s] = "up" /\ sender' = [sender EXCEPT ![s] = "gone"] /\ s # NoStream
    BY <1>6, StreamsAreNamed DEF SenderEnds
  <2>2. area # Foreign /\ (~spent[s] => area = s)
    BY <2>1, StreamsAreNamed DEF AreaInv, AreaIsLive, UpHasArea, NoStream, Foreign
  <2>3. \/ spent[s] /\ UNCHANGED <<spent, area>>
        \/ area' = NoStream /\ area = s /\ spent' = [spent EXCEPT ![s] = TRUE]
    <3>1. CASE Deactivates(s)
      BY <2>1, <2>2, <3>1, NoOtherMishap DEF Deactivates
    <3>2. QED BY <1>6, <3>1, NoOtherMishap DEF SenderEnds
  <2>4. GoneSpent' /\ UpHasArea' /\ HandledUnspent'
    BY <1>3, <2>1, <2>3 DEF GoneSpent, UpHasArea, HandledUnspent
  <2>5. QED BY <1>4, <2>3, <2>4
<1>7. ~AreaExpires /\ ~ForeignStreams
  BY NoOtherMishap, StreamsAreNamed DEF AreaExpires, ForeignStreams, AreaInv, AreaIsLive,
     NoStream, Foreign
<1>8. QED
  BY <1>5, <1>6, <1>7 DEF PollStep, PollProbes, PollAsks, PollHears, vars

LEMMA OwnInvHolds ==
  ASSUME AsHueSessions
  PROVE  Spec => [](RuntimeInv /\ AreaInv /\ BringUpInv /\ WatchInv /\ (Outdated \/ OwnInv))
<1>1. Init => WatchInv /\ OwnInv
  BY StreamsAreNamed DEF Init, BringingUp, WatchInv, OnlyMonitor, MonitorOn, RestartsTheGone,
     Monitoring, DrainsStopped, HasOneToStore, ActiveIsWatched, ActiveHasStream, IsActive,
     OwnInv, GoneSpent, UpHasArea, HandledUnspent, LetGo, LetsGo, AreaFree
<1>2. RuntimeInv /\ AreaInv /\ BringUpInv /\ WatchInv /\ [Next]_vars => WatchInv'
  BY NoOtherMishap, WatchCalls, WatchMonitors, WatchWorld DEF Next, Rest
<1>3. RuntimeInv /\ AreaInv /\ BringUpInv /\ WatchInv /\ (Outdated \/ OwnInv) /\ [Next]_vars
        => (Outdated \/ OwnInv)'
  <2> SUFFICES ASSUME RuntimeInv, AreaInv, BringUpInv, WatchInv, Outdated \/ OwnInv,
                      [Next]_vars, ~Outdated'
               PROVE  OwnInv'
    OBVIOUS
  <2>1. OwnInv
    BY StaleGrows DEF Outdated
  <2>2. QED BY <2>1, OwnCalls, OwnMonitors, OwnWorld DEF Next, Rest
<1>4. Spec => [](RuntimeInv /\ AreaInv /\ BringUpInv /\ (Hidden \/ (StopInv /\ LampsInv)))
  BY LampsInvHolds
<1>5. QED
  BY <1>1, <1>2, <1>3, <1>4, PTL DEF Spec

(* A runtime that says Running has its stream and the bridge has that stream on
   the area, once nothing is under way: no deactivate that comes late, of a
   sender that was dropped, replaced or restarted, takes the area from the stream
   that came after. Only a start decided on a reading that no longer held is set
   apart, which lets two streams meet. *)
THEOREM RunningStreamsKeepTheArea ==
  ASSUME UiCalls = {}, ~LateMonitors, Mishaps \subseteq {"death", "transport", "auth"}
  PROVE  Spec => []RunningStreamHasArea
<1>1. AsHueSessions
  BY DEF AsHueSessions, OneSide
<1>2. Spec => [](RuntimeInv /\ AreaInv /\ BringUpInv /\ WatchInv /\ (Outdated \/ OwnInv))
  BY <1>1, OwnInvHolds
<1>3. RuntimeInv /\ AreaInv /\ WatchInv /\ (Outdated \/ OwnInv) => RunningStreamHasArea
  <2> SUFFICES ASSUME RuntimeInv, AreaInv, WatchInv, OwnInv, Quiet, state = "Running"
               PROVE  active # NoStream /\ area = active
    BY DEF Outdated, RunningStreamHasArea, RunningAlwaysHasArea
  <2> USE DEF RuntimeInv, RestartInv, TypeOK
  <2>1. active # NoStream
    BY StoppingIsBusy DEF WatchInv, ActiveHasStream, IsActive, Quiet
  <2>2. active \in Streams /\ sender[active] = "up"
    BY <2>1 DEF WatchInv, ActiveIsWatched, Quiet, Monitoring, Watching, AreaInv,
       HandlesBorn, Born
  <2>3. ~spent[active]
    BY <2>2 DEF OwnInv, HandledUnspent, Handled
  <2>4. QED BY <2>1, <2>2, <2>3 DEF OwnInv, UpHasArea
<1>4. QED BY <1>2, <1>3, PTL

=============================================================================
