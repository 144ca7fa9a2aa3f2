---------------------------- MODULE LightingOutcomeProofs ----------------------------
(***************************************************************************)
(* What the lighting transaction leaves behind once every call has been   *)
(* answered. A turn may end early because a newer call has taken a ticket: *)
(* what it leaves undone is then that call's to do. So each invariant here *)
(* says of a wrong state that a newer call is on its way, or that the turn *)
(* in hand has still to come to the step that puts it right.              *)
(* The last two parts assume hardware that works: then no turn is refused, *)
(* and what was asked for last is what runs.                              *)
(***************************************************************************)
EXTENDS LightingTransactionProofs

(* The requests that may change the mode or its outputs, and so take a ticket
   of their own; a refresh and a join reuse the newest one. *)
Movers == {"user", "unplug", "release", "leave", "return"}

(* The newest of them, while it is on its way to its turn. *)
Due(d) == /\ Origin(d) \in Movers /\ ticket[d] = latest
          /\ pc[d] \in {"ticketed", "unsaved", "releasing", "recorded", "queued"}
Owed == \E d \in Calls : Due(d)

InMode == turn # "nobody" /\ ~Leasing(turn) /\ closing = "no"

(* A turn is overtaken by a call that is still to come. *)
NewerOwed == turn # "nobody" /\ ~Leasing(turn) /\ Superseded(turn) => Owed

(* Only a call that leaves or returns writes its intent before its ticket. *)
WrittenAway == \A c \in Calls : pc[c] = "written" => Origin(c) \in {"leave", "return"}

OwedInv == NewerOwed /\ WrittenAway

-----------------------------------------------------------------------------
(* What is owed stays owed until its call takes the turn *)

LEMMA ArrivalOwes ==
  ASSUME NEW c \in Calls, CallInv, WrittenAway, Arrival(c)
  PROVE  /\ Owed \/ latest' # latest => Owed'
         /\ \A d \in Calls \ {c} : ticket'[d] = ticket[d]
<1> USE DEF CallInv, TypeOK, CallTypes, CalmTypes, Goto, Asks, Arriving
<1>1. CASE Arrive(c)
  <2>1. Due(c)'
    BY <1>1 DEF Arrive, IssueTicket, Due, Movers, Origin
  <2>2. QED BY <1>1, <2>1 DEF Arrive, IssueTicket, Owed
<1>2. CASE ReleaseArrives(c)
  <2>1. Due(c)'
    BY <1>2 DEF ReleaseArrives, IssueTicket, Due, Movers, Origin
  <2>2. QED BY <1>2, <2>1 DEF ReleaseArrives, IssueTicket, Owed
<1>3. CASE AwayTicket(c)
  <2>1. Due(c)'
    BY <1>3 DEF AwayTicket, IssueTicket, Due, Movers, Origin, WrittenAway
  <2>2. QED BY <1>3, <2>1 DEF AwayTicket, IssueTicket, Owed
<1>4. ASSUME latest' = latest, \A d \in Calls : Due(d) => Due(d)',
             \A d \in Calls \ {c} : ticket'[d] = ticket[d]
      PROVE  /\ Owed \/ latest' # latest => Owed'
             /\ \A d \in Calls \ {c} : ticket'[d] = ticket[d]
  BY <1>4 DEF Owed
<1>5. CASE Record(c)
  <2>1. pc'[c] \in {"unsaved", "recorded"} /\ \A d \in Calls \ {c} : pc'[d] = pc[d]
    BY <1>5 DEF Record
  <2>2. QED BY <1>4, <1>5, <2>1 DEF Record, Due, Origin
<1>10. CASE SaveTargets(c) \/ ReleaseRecords(c) \/ Enqueue(c)
  BY <1>4, <1>10 DEF SaveTargets, ReleaseRecords, Enqueue, Due, Origin, inputVars
<1>6. CASE LeaveArrives(c) \/ ReturnArrives(c)
  BY <1>4, <1>6 DEF LeaveArrives, ReturnArrives, Due, Origin
<1>7. CASE SettingsSaved(c)
  BY <1>4, <1>7 DEF SettingsSaved, Due, Origin
<1>8. CASE RefreshArrives(c)
  BY <1>4, <1>8 DEF RefreshArrives, Answer, Due, Origin, inputVars
<1>9. CASE JoinArrives(c) \/ LeaseArrives(c)
  BY <1>4, <1>9 DEF JoinArrives, LeaseArrives, Due, Origin, inputVars
<1>11. QED
  BY <1>1, <1>2, <1>3, <1>5, <1>6, <1>7, <1>8, <1>9, <1>10 DEF Arrival

(* No step of a turn writes what the arrivals and the outside write. *)
LEMMA TurnCalm ==
  ASSUME NEW c \in Calls, TurnStep(c)
  PROVE  UNCHANGED <<latest, away, closing, strip, faults>>
BY DEF TurnStep, TakeTurn, Overtaken, NothingToDo, ShuttingDown,
   ReleaseWhileOff, StartOff, OffOvertaken, OffStopsHue, FinishOff,
   CalibrationRequired, StartOn, StartRefresh, MoveStop, StartHue, BringUp,
   HueOvertaken, Plan, PlanNothing, RefreshAfterMove, ApplyGated, ApplyRuns,
   ApplyFails, FallBackToUsb, FallBackToHue, FallBackOvertaken, TryAgain,
   ApplyShutDown, Judge, Ran, Refuse, EndMode, HueDown, FinishRan, FinishRefused,
   FinishEnded, LeaseSettled, LeaseStarts, LeaseIsUp, LeaseGivesBack, LeaseStops,
   calmVars, worldVars, inputVars

(* The first waiter is queued, and is not in a turn. *)
LEMMA HeadWaits ==
  ASSUME NEW c \in Calls, CallInv, queue # <<>>, Head(queue) = c
  PROVE  pc[c] = "queued"
<1>1. queue \in Seq(Calls)
  BY DEF CallInv, TypeOK, CallTypes
<1>2. 1 \in 1..Len(queue) /\ queue[1] = c
  BY <1>1
<1>3. QED BY <1>2 DEF CallInv, QueueWaits

LEMMA TurnOwes ==
  ASSUME NEW c \in Calls, CallInv, TurnStep(c), Owed
  PROVE  Owed' \/ (TakeTurn(c) /\ Origin(c) \in Movers)
<1> USE DEF CallInv, TypeOK, CallTypes
<1>1. PICK d \in Calls : Due(d)
  BY DEF Owed
<1>2. latest' = latest
  BY TurnCalm
<1>3. CASE TakeTurn(c)
  BY <1>1, <1>2, <1>3 DEF TakeTurn, Goto, Due, Owed, Origin
<1>4. CASE Overtaken(c)
  <2>1. d # c
    BY <1>1, <1>4 DEF Overtaken, Due, Superseded
  <2>2. Due(d)'
    BY <1>1, <1>2, <1>4, <2>1 DEF Overtaken, Answer, Goto, Due, Origin
  <2>3. QED BY <2>2 DEF Owed
<1>5. CASE Holds(c)
  <2>1. d # c
    BY <1>1, <1>5 DEF Holds, TurnsInOrder, TurnHeld, Due
  <2>2. Due(d)'
    BY <1>1, <1>2, <1>5, <2>1 DEF Holds, Step, End, Answer, Goto, Due, Origin
  <2>3. QED BY <2>2 DEF Owed
<1>6. QED BY <1>3, <1>4, <1>5, TurnStepForm

LEMMA OutsideOwes ==
  ASSUME Quit \/ Environment \/ UNCHANGED vars
  PROVE  UNCHANGED latest /\ (Owed => Owed')
BY OutsideForm DEF Quit, QuitMarks, QuitStopsLighting, QuitStopsHue, Environment,
   StreamDrops, StripChanges, AreaSaved, Happens, Reconnects, vars, callVars, calmVars,
   Owed, Due, Origin

LEMMA OwedInvKept ==
  ASSUME CallInv, OwedInv, [Next]_vars
  PROVE  OwedInv'
<1> USE CallsAssumption DEF CallInv, OwedInv
<1>1. ASSUME NEW c \in Calls, Arrival(c)
      PROVE  OwedInv'
  <2>1. turn' = turn /\ turn # c
    BY <1>1, ArrivalForm DEF TypeOK, TurnsInOrder, TurnHeld, turnVars
  <2>2. turn # "nobody" => call'[turn] = call[turn] /\ ticket'[turn] = ticket[turn]
    BY <1>1, <2>1, ArrivalForm, ArrivalOwes DEF TypeOK, TurnTypes
  <2>3. NewerOwed'
    BY <1>1, <2>1, <2>2, ArrivalOwes DEF NewerOwed, Leasing, Origin, Superseded
  <2>4. WrittenAway'
    BY <1>1, ArrivalForm DEF TypeOK, CallTypes, WrittenAway, Origin, Arrival, Arrive,
       Record, SaveTargets, ReleaseArrives, ReleaseRecords, LeaveArrives,
       ReturnArrives, AwayTicket, SettingsSaved, RefreshArrives, JoinArrives,
       LeaseArrives, Enqueue, Asks, Answer, Goto
  <2>5. QED BY <2>3, <2>4
<1>2. ASSUME NEW c \in Calls, TurnStep(c)
      PROVE  OwedInv'
  <2>1. latest' = latest
    BY <1>2, TurnCalm
  <2>2. NewerOwed'
    <3>1. CASE TakeTurn(c)
      BY <2>1, <3>1 DEF TakeTurn, NewerOwed, Superseded, Leasing, Origin
    <3>2. CASE Overtaken(c)
      BY <3>2 DEF Overtaken, NewerOwed, turnVars
    <3>3. CASE Holds(c)
      <4>1. Owed => Owed'
        BY <1>2, <3>3, TurnOwes DEF TakeTurn, Holds
      <4>2. QED
        BY <2>1, <3>3, <4>1 DEF Holds, Step, End, NewerOwed, Superseded, Leasing, Origin
    <3>4. QED BY <1>2, <3>1, <3>2, <3>3, TurnStepForm
  <2>3. WrittenAway'
    BY <1>2, TurnStepForm DEF TypeOK, CallTypes, WrittenAway, Origin, TakeTurn,
       Overtaken, Holds, Step, End, Answer, Answers, Goto
  <2>4. QED BY <2>2, <2>3
<1>3. ASSUME Quit \/ Environment \/ UNCHANGED vars
      PROVE  OwedInv'
  BY <1>3, OutsideForm, OutsideOwes DEF callVars, turnVars, NewerOwed, WrittenAway,
     Leasing, Origin, Superseded
<1>4. QED
  BY <1>1, <1>2, <1>3 DEF Next, Rest

-----------------------------------------------------------------------------
(* What the locals of a turn know of the lights *)

Settling == {"moveStop", "startHue", "bringUp", "hueChecked", "plan"}
Applying == {"apply", "judge", "recheck"}
Closing  == {"ran", "refuse", "endMode", "down", "finish"}

(* Off drives no output, and only a lit kind is applied. *)
OffIsDark == running.kind = "Off" => running = OffMode
KindIsLit == InMode /\ at \in Settling \cup Applying => tx.kind # "Off"

(* tx.after follows what runs; tx.was is it still, up to the first apply that
   gets past the gates. *)
AfterRuns == InMode /\ at \in Settling \cup Applying \cup Closing => tx.after = running
WasRuns ==
  /\ InMode /\ at \in Settling \cup {"endMode"} => tx.was = running
  /\ InMode /\ at = "apply" /\ tx.on = Outputs => tx.was = running
  /\ InMode /\ at = "judge" /\ tx.on = Outputs /\ tx.code \in GateCodes => tx.was = running

(* reconcile_off stops the lights first; an apply is tried again on one output
   of the two; only the quit answers that the app is closing. *)
OffRuns     == InMode /\ at \in {"offHue", "offDone"} => running = OffMode
SecondTry   == at = "recheck" => tx.on # Outputs
OnlyClosing == at = "judge" /\ tx.code = "SHUTTING_DOWN" => closing # "no"

LightsInv == OffIsDark /\ KindIsLit /\ AfterRuns /\ WasRuns /\ OffRuns /\ SecondTry
               /\ OnlyClosing

LEMMA NothingKnown ==
  ASSUME LightsInv, at' \in {"idle", "begin", "leaseStop"}, running' = running
  PROVE  LightsInv'
BY DEF LightsInv, OffIsDark, KindIsLit, AfterRuns, WasRuns, OffRuns, SecondTry,
   OnlyClosing, Settling, Applying, Closing

LEMMA StepInMode ==
  ASSUME NEW c \in Calls, TurnStep(c), turn = c, NEW label, NEW t, Step(label, t)
  PROVE  /\ InMode' <=> InMode
         /\ turn' = c /\ at' = label /\ tx' = t
         /\ Origin(c)' = Origin(c) /\ Origin(turn)' = Origin(c)
         /\ Superseded(c)' <=> Superseded(c)
         /\ closing' = closing
BY TurnCalm DEF Step, InMode, Leasing, Origin, Superseded

LEMMA NewTxIs ==
  /\ NewTx.want = intent /\ NewTx.was = running /\ NewTx.after = running
  /\ NewTx.kind = intent.kind /\ NewTx.moved = FALSE /\ NewTx.out = FALSE
  /\ NewTx.on = {} /\ NewTx.code = "none" /\ NewTx.end = "none"
BY DEF NewTx, NoTx

(* The steps before the apply. *)
LEMMA SettlingLights ==
  ASSUME NEW c \in Calls, TurnStep(c), CallInv, LightsInv,
         \/ StartOff(c) \/ OffStopsHue(c) \/ StartOn(c) \/ StartRefresh(c)
         \/ MoveStop(c) \/ StartHue(c) \/ BringUp(c) \/ Plan(c) \/ PlanNothing(c)
         \/ RefreshAfterMove(c)
  PROVE  LightsInv'
<1> USE DEF CallInv, TypeOK, TurnTypes, On
<1>1. /\ turn = c /\ (InMode' <=> InMode) /\ turn' = c
      /\ Origin(turn)' = Origin(c) /\ Origin(c)' = Origin(c)
  BY StepInMode, TurnStepForm DEF StartOff, OffStopsHue, StartOn, StartRefresh,
     MoveStop, StartHue, BringUp, Plan, PlanNothing, RefreshAfterMove, HueSettled, Opens
<1> USE DEF LightsInv, OffIsDark, KindIsLit, AfterRuns, WasRuns, OffRuns, SecondTry,
        OnlyClosing, Settling, Applying, Closing, Step
<1>2. CASE StartOff(c)
  BY <1>1, <1>2 DEF StartOff, LightsStopped, Lit, OffMode
<1>3. CASE OffStopsHue(c)
  BY <1>1, <1>3 DEF OffStopsHue, modeVars
<1>4. CASE StartOn(c)
  BY <1>1, <1>4, NewTxIs DEF StartOn, modeVars
<1>5. CASE StartRefresh(c)
  BY <1>1, <1>5, NewTxIs DEF StartRefresh, modeVars, Opens, NothingDue, Lit
<1>6. CASE MoveStop(c)
  BY <1>1, <1>6 DEF MoveStop, modeVars, TxLocals
<1>7. CASE StartHue(c)
  BY <1>1, <1>7 DEF StartHue, modeVars, TxLocals
<1>8. CASE BringUp(c)
  BY <1>1, <1>8 DEF BringUp, modeVars, TxLocals
<1>9. CASE Plan(c)
  BY <1>1, <1>9 DEF Plan, HueSettled, modeVars, TxLocals
<1>10. CASE PlanNothing(c)
  BY <1>1, <1>10 DEF PlanNothing, HueSettled, LightsStopped, TxLocals
<1>11. CASE RefreshAfterMove(c)
  BY <1>1, <1>11 DEF RefreshAfterMove, HueSettled, TxLocals
<1>12. QED
  BY <1>2, <1>3, <1>4, <1>5, <1>6, <1>7, <1>8, <1>9, <1>10, <1>11

(* The apply and what its answer leads to. *)
LEMMA ApplyingLights ==
  ASSUME NEW c \in Calls, TurnStep(c), CallInv, LightsInv, LeaseTurns,
         \/ ApplyGated(c) \/ ApplyRuns(c) \/ ApplyFails(c) \/ FallBackToUsb(c)
         \/ FallBackToHue(c) \/ TryAgain(c) \/ Judge(c) \/ Ran(c) \/ Refuse(c)
         \/ EndMode(c) \/ HueDown(c)
  PROVE  LightsInv'
<1> USE DEF CallInv, TypeOK, TurnTypes, On
<1>1. /\ turn = c /\ (InMode' <=> InMode) /\ turn' = c /\ closing' = closing
      /\ Origin(turn)' = Origin(c) /\ Origin(c)' = Origin(c)
  BY StepInMode, TurnStepForm DEF ApplyGated, ApplyRuns, ApplyFails, FallBackToUsb,
     FallBackToHue, TryAgain, Judge, Ran, Refuse, EndMode, HueDown
<1>0. c # "nobody"
  BY CallsAssumption
<1> USE DEF LightsInv, OffIsDark, KindIsLit, AfterRuns, WasRuns, OffRuns, SecondTry,
        OnlyClosing, Settling, Applying, Closing, Step
<1>2. CASE ApplyGated(c)
  BY <1>1, <1>2 DEF ApplyGated, modeVars, TxLocals, Gated, GateCodes
<1>3. CASE ApplyRuns(c)
  <2>1. closing = "no" /\ ~Leasing(c)
    BY <1>3 DEF ApplyRuns, Gated, GateCodes, LeaseTurns
  <2>2. running'.kind # "Off" /\ tx' = [tx EXCEPT !.code = "ok", !.after = running']
    BY <1>0, <1>1, <1>3, <2>1 DEF ApplyRuns, InMode
  <2>3. tx'.code = "ok" /\ tx'.after = running' /\ tx'.kind = tx.kind /\ at' = "judge"
    BY <1>3, <2>2 DEF TxLocals, ApplyRuns
  <2>4. QED BY <1>1, <1>3, <2>2, <2>3 DEF GateCodes, ApplyRuns
<1>4. CASE ApplyFails(c)
  <2>1. PICK code \in ApplyFaults \ GateCodes :
           running' = OffMode /\ Step("judge", [tx EXCEPT !.code = code, !.after = OffMode])
    BY <1>4 DEF ApplyFails
  <2>2. tx'.code \notin GateCodes /\ tx'.after = running' /\ tx'.kind = tx.kind
    BY <2>1 DEF TxLocals
  <2>3. QED BY <1>1, <1>4, <2>1, <2>2 DEF GateCodes, ApplyFails
<1>5. CASE FallBackToUsb(c)
  BY <1>1, <1>5 DEF FallBackToUsb, modeVars, TxLocals, Outputs
<1>6. CASE FallBackToHue(c)
  BY <1>1, <1>6 DEF FallBackToHue, TxLocals, Outputs
<1>7. CASE TryAgain(c)
  BY <1>1, <1>7 DEF TryAgain, modeVars
<1>8. CASE Judge(c)
  BY <1>1, <1>8 DEF Judge, modeVars
<1>9. CASE Ran(c)
  BY <1>1, <1>9 DEF Ran, TxLocals
<1>10. CASE Refuse(c)
  BY <1>1, <1>10 DEF Refuse, LightsStopped, TxLocals, OffMode
<1>11. CASE EndMode(c)
  BY <1>1, <1>11 DEF EndMode, LightsStopped, TxLocals, OffMode, Lit
<1>12. CASE HueDown(c)
  BY <1>1, <1>12 DEF HueDown, modeVars
<1>13. QED
  BY <1>2, <1>3, <1>4, <1>5, <1>6, <1>7, <1>8, <1>9, <1>10, <1>11, <1>12

(* The steps that take, end or free the turn, and those of a lease. *)
LEMMA EndingLights ==
  ASSUME NEW c \in Calls, TurnStep(c), CallInv, LightsInv,
         \/ TakeTurn(c) \/ Overtaken(c) \/ NothingToDo(c) \/ ShuttingDown(c)
         \/ ReleaseWhileOff(c) \/ OffOvertaken(c) \/ FinishOff(c)
         \/ CalibrationRequired(c) \/ HueOvertaken(c) \/ FallBackOvertaken(c)
         \/ ApplyShutDown(c) \/ FinishRan(c) \/ FinishRefused(c) \/ FinishEnded(c)
         \/ LeaseSettled(c) \/ LeaseStarts(c) \/ LeaseIsUp(c) \/ LeaseGivesBack(c)
         \/ LeaseStops(c)
  PROVE  LightsInv'
<1>1. CASE LeaseStarts(c) /\ at' = "bringUp"
  <2>1. turn' = c /\ Leasing(c)' /\ running' = running
    BY <1>1 DEF LeaseStarts, Leasing, Origin, On, Step, End, modeVars
  <2>2. QED
    BY <1>1, <2>1 DEF LightsInv, OffIsDark, KindIsLit, AfterRuns, WasRuns, OffRuns,
       SecondTry, OnlyClosing, InMode
<1>2. CASE ~(LeaseStarts(c) /\ at' = "bringUp")
  <2>1. at' \in {"idle", "begin", "leaseStop"} /\ running' = running
    BY <1>2 DEF TakeTurn, Overtaken, NothingToDo, ShuttingDown, ReleaseWhileOff,
       OffOvertaken, FinishOff, CalibrationRequired, HueOvertaken, FallBackOvertaken,
       ApplyShutDown, FinishRan, FinishRefused, FinishEnded, LeaseSettled, LeaseStarts,
       LeaseIsUp, LeaseGivesBack, LeaseStops, End, Step, modeVars, turnVars, CallInv,
       TurnsInOrder
  <2>2. QED BY <2>1, NothingKnown
<1>3. QED BY <1>1, <1>2

LEMMA LightsInvKept ==
  ASSUME CallInv, LeaseInv, LightsInv, [Next]_vars
  PROVE  LightsInv'
<1> USE CallsAssumption
<1>1. ASSUME NEW c \in Calls, Arrival(c)
      PROVE  LightsInv'
  <2>1. UNCHANGED <<running, closing, turnVars>> /\ turn # c
    BY <1>1, ArrivalForm DEF CallInv, TypeOK, TurnsInOrder, TurnHeld
  <2>2. InMode' <=> InMode
    BY <1>1, <2>1, ArrivalForm DEF CallInv, TypeOK, TurnTypes, turnVars, InMode, Leasing,
       Origin
  <2>3. QED
    BY <2>1, <2>2 DEF LightsInv, OffIsDark, KindIsLit, AfterRuns, WasRuns, OffRuns,
       SecondTry, OnlyClosing, turnVars
<1>2. ASSUME NEW c \in Calls, TurnStep(c)
      PROVE  LightsInv'
  BY <1>2, SettlingLights, ApplyingLights, EndingLights DEF TurnStep, LeaseInv
<1>3. ASSUME Quit \/ Environment \/ UNCHANGED vars
      PROVE  LightsInv'
  <2>1. UNCHANGED <<callVars, turnVars>>
    BY <1>3, OutsideForm
  <2>2. \/ closing' = closing /\ running' = running
        \/ closing' # "no" /\ running' \in {running, OffMode}
    BY <1>3 DEF Quit, QuitMarks, QuitStopsLighting, QuitStopsHue, LightsStopped,
       Environment, StreamDrops, StripChanges, AreaSaved, Happens, Reconnects, vars,
       calmVars, worldVars, modeVars
  <2>3. CASE closing' = closing /\ running' = running
    BY <2>1, <2>3 DEF LightsInv, OffIsDark, KindIsLit, AfterRuns, WasRuns, OffRuns,
       SecondTry, OnlyClosing, InMode, Leasing, Origin, turnVars, callVars
  <2>4. CASE closing' # "no" /\ running' \in {running, OffMode}
    BY <2>1, <2>4 DEF LightsInv, OffIsDark, KindIsLit, AfterRuns, WasRuns, OffRuns,
       SecondTry, OnlyClosing, InMode, turnVars, OffMode
  <2>5. QED BY <2>2, <2>3, <2>4
<1>4. QED
  BY <1>1, <1>2, <1>3 DEF Next, Rest

LEMMA OutcomeAlways == Spec => [](CallInv /\ LeaseInv /\ OwedInv /\ LightsInv)
<1>1. Init => OwedInv
  BY CallsAssumption DEF Init, OwedInv, NewerOwed, WrittenAway
<1>2. ASSUME Init
      PROVE  LightsInv
  <2>1. OffIsDark
    <3>1. PICK s \in Starts : running = [kind |-> s.kind, targets |-> s.lit]
      BY <1>2 DEF Init
    <3>2. s.kind = "Off" => s.lit = {}
      BY RequestsAssumption
    <3>3. QED BY <3>1, <3>2 DEF OffIsDark, OffMode
  <2>2. turn = "nobody" /\ at = "idle"
    BY <1>2 DEF Init
  <2>3. QED
    BY <2>1, <2>2 DEF LightsInv, KindIsLit, AfterRuns, WasRuns, OffRuns, SecondTry,
       OnlyClosing, InMode
<1>3. QED
  BY <1>1, <1>2, LeaseInvAlways, OwedInvKept, LightsInvKept, PTL DEF Spec

-----------------------------------------------------------------------------
(* A mode that drives Hue has its stream *)

(* While the hardware does nothing by itself: a mode on Hue has its stream at
   every moment, not only between the calls. *)
HasStream == closing = "no" /\ "hue" \in running.targets => stream = "live"

(* Then no area moves and no stream reconnects; the Hue gate of an apply is
   waived only for a stream that is up, and refuses only one that is not. *)
Steady == /\ faults = 0
          /\ ~moved /\ at # "moveStop" /\ stream # "reconnecting"
          /\ (InMode /\ at \in Settling \cup Applying /\ tx.waive => stream = "live")
          /\ (InMode /\ at = "judge" /\ tx.code = "HUE_NOT_READY" => stream # "live")
          /\ (InMode /\ at \in Settling => Origin(turn) # "settings")
          /\ (at = "leaseStop" /\ closing = "no" => "hue" \notin running.targets)

SteadyInv == HasStream /\ Steady

LEMMA SteadySettles ==
  ASSUME NEW c \in Calls, TurnStep(c), CallInv, LeaseTurns, LightsInv, SteadyInv,
         \/ StartOff(c) \/ OffStopsHue(c) \/ StartOn(c) \/ StartRefresh(c)
         \/ MoveStop(c) \/ StartHue(c) \/ BringUp(c) \/ Plan(c) \/ PlanNothing(c)
         \/ RefreshAfterMove(c)
  PROVE  SteadyInv'
<1> USE CallsAssumption DEF CallInv, TypeOK, TurnTypes, On, SteadyInv, HasStream, Steady
<1>1. /\ turn = c /\ (InMode' <=> InMode) /\ turn' = c /\ closing' = closing
      /\ Origin(turn)' = Origin(c) /\ Origin(c)' = Origin(c)
      /\ faults' = faults
  BY StepInMode, TurnStepForm, TurnCalm DEF StartOff, OffStopsHue, StartOn, StartRefresh,
     MoveStop, StartHue, BringUp, Plan, PlanNothing, RefreshAfterMove, HueSettled, Opens
<1> USE DEF Settling, Applying, Step
<1>2. CASE StartOff(c)
  BY <1>1, <1>2 DEF StartOff, LightsStopped, OffMode, hueVars
<1>3. CASE OffStopsHue(c)
  <2>1. closing = "no" => running = OffMode
    BY <1>1, <1>3 DEF OffStopsHue, LightsInv, OffRuns, LeaseTurns, InMode
  <2>2. QED
    BY <1>1, <1>3, <2>1 DEF OffStopsHue, modeVars, hueVars, StopHue, StreamStopped, OffMode
<1>4. CASE StartOn(c)
  <2>1. UNCHANGED <<running, hueVars>> /\ closing = "no" /\ at' # "judge"
    BY <1>4 DEF StartOn, modeVars, Opens
  <2>2. tx'.waive => stream = "live"
    BY <1>4, <2>1, NewTxTypes DEF StartOn, TxLocals
  <2>3. at' # "moveStop" /\ at' # "leaseStop" /\ Origin(c) # "settings"
    BY <1>4 DEF StartOn, AreaMoved, Opens, TxOrigins
  <2>4. QED BY <1>1, <2>1, <2>2, <2>3 DEF hueVars
<1>5. CASE StartRefresh(c)
  <2>1. UNCHANGED <<running, hueVars>> /\ closing = "no" /\ at' = "apply"
    BY <1>5 DEF StartRefresh, modeVars, Opens, AreaMoved
  <2>2. tx'.waive => stream = "live"
    BY <1>5, <2>1, NewTxTypes DEF StartRefresh, TxLocals
  <2>3. QED BY <1>1, <2>1, <2>2 DEF hueVars
<1>6. CASE MoveStop(c)
  BY <1>6 DEF MoveStop
<1>7. CASE StartHue(c)
  <2>1. stream' # "reconnecting" /\ (stream = "live" /\ closing = "no" => stream' = "live")
    BY <1>7, OutcomesAssumption DEF StartHue, StartAnswers, StreamAfterStart, AllHueCodes
  <2>2. tx'.waive = tx.waive /\ at' \in {"bringUp", "hueChecked"} /\ UNCHANGED <<running, moved>>
    BY <1>7 DEF StartHue, modeVars, TxLocals
  <2>3. at = "startHue"
    BY <1>7 DEF StartHue
  <2>4. QED BY <1>1, <2>1, <2>2, <2>3 DEF InMode
<1>8. CASE BringUp(c)
  BY <1>1, <1>8 DEF BringUp, modeVars, TxLocals, hueVars
<1>9. CASE Plan(c)
  BY <1>1, <1>9 DEF Plan, HueSettled, modeVars, TxLocals, hueVars
<1>10. CASE PlanNothing(c)
  BY <1>1, <1>10 DEF PlanNothing, HueSettled, LightsStopped, TxLocals, hueVars, OffMode
<1>11. CASE RefreshAfterMove(c)
  BY <1>1, <1>11 DEF RefreshAfterMove, HueSettled, TxLocals, hueVars
<1>12. QED
  BY <1>2, <1>3, <1>4, <1>5, <1>6, <1>7, <1>8, <1>9, <1>10, <1>11

LEMMA SteadyApplies ==
  ASSUME NEW c \in Calls, TurnStep(c), CallInv, LeaseTurns, LightsInv, SteadyInv,
         \/ ApplyGated(c) \/ ApplyRuns(c) \/ ApplyFails(c) \/ FallBackToUsb(c)
         \/ FallBackToHue(c) \/ TryAgain(c) \/ Judge(c) \/ Ran(c) \/ Refuse(c)
         \/ EndMode(c) \/ HueDown(c)
  PROVE  SteadyInv'
<1> USE CallsAssumption DEF CallInv, TypeOK, TurnTypes, On, SteadyInv, HasStream, Steady
<1>1. /\ turn = c /\ (InMode' <=> InMode) /\ turn' = c /\ closing' = closing
      /\ Origin(turn)' = Origin(c) /\ Origin(c)' = Origin(c)
      /\ faults' = faults /\ (InMode <=> closing = "no")
  <2>1. turn = c /\ at \in Applying \cup Closing
    BY DEF ApplyGated, ApplyRuns, ApplyFails, FallBackToUsb, FallBackToHue, TryAgain,
       Judge, Ran, Refuse, EndMode, HueDown, Applying, Closing
  <2>2. ~Leasing(c)
    BY <2>1 DEF LeaseTurns, Applying, Closing
  <2>3. QED
    BY <2>1, <2>2, StepInMode, TurnStepForm, TurnCalm DEF InMode, ApplyGated, ApplyRuns,
       ApplyFails, FallBackToUsb, FallBackToHue, TryAgain, Judge, Ran, Refuse, EndMode,
       HueDown
<1> USE DEF Settling, Applying, Closing, Step
<1>2. CASE ApplyGated(c)
  BY <1>1, <1>2 DEF ApplyGated, modeVars, hueVars, TxLocals, Gated, GateCodes
<1>3. CASE ApplyRuns(c)
  <2>1. closing = "no" /\ "hue" \in tx.on => stream = "live" \/ tx.waive
    BY <1>3 DEF ApplyRuns, Gated, GateCodes
  <2>2. /\ tx'.code = "ok" /\ tx'.waive = tx.waive /\ at' = "judge" /\ at = "apply"
        /\ running'.targets = tx.on /\ UNCHANGED hueVars
    BY <1>3 DEF TxLocals, ApplyRuns
  <2>3. QED BY <1>1, <2>1, <2>2 DEF hueVars
<1>4. CASE ApplyFails(c)
  <2>1. PICK code \in ApplyFaults \ GateCodes :
           running' = OffMode /\ Step("judge", [tx EXCEPT !.code = code, !.after = OffMode])
    BY <1>4 DEF ApplyFails
  <2>2. /\ tx'.code \notin GateCodes /\ tx'.waive = tx.waive /\ UNCHANGED hueVars
        /\ at = "apply" /\ at' = "judge" /\ running'.targets = {}
    BY <1>4, <2>1 DEF TxLocals, ApplyFails, OffMode
  <2>3. QED BY <1>1, <2>2 DEF GateCodes, hueVars
<1>5. CASE FallBackToUsb(c)
  <2>1. closing = "no" => stream # "live" /\ ~tx.waive /\ "hue" \notin running.targets
    BY <1>1, <1>5 DEF FallBackToUsb
  <2>2. /\ tx'.waive = tx.waive /\ at' = "recheck" /\ running' = running
        /\ (UNCHANGED hueVars \/ StreamStopped)
    BY <1>5 DEF FallBackToUsb, TxLocals, modeVars, StopHue
  <2>3. QED BY <1>1, <2>1, <2>2 DEF hueVars, StreamStopped
<1>6. CASE FallBackToHue(c)
  BY <1>1, <1>6 DEF FallBackToHue, TxLocals, hueVars
<1>7. CASE TryAgain(c)
  BY <1>1, <1>7 DEF TryAgain, modeVars, hueVars
<1>8. CASE Judge(c)
  BY <1>1, <1>8 DEF Judge, modeVars, hueVars
<1>9. CASE Ran(c)
  BY <1>1, <1>9 DEF Ran, TxLocals, hueVars
<1>10. CASE Refuse(c)
  BY <1>1, <1>10 DEF Refuse, LightsStopped, OffMode, hueVars
<1>11. CASE EndMode(c)
  BY <1>1, <1>11 DEF EndMode, LightsStopped, OffMode, hueVars
<1>12. CASE HueDown(c)
  <2>1. closing = "no" => tx.after = running
    BY <1>1, <1>12 DEF HueDown, LightsInv, AfterRuns
  <2>2. QED
    BY <1>1, <1>12, <2>1 DEF HueDown, DropsHue, StopHue, StreamStopped, modeVars, hueVars
<1>13. QED
  BY <1>2, <1>3, <1>4, <1>5, <1>6, <1>7, <1>8, <1>9, <1>10, <1>11, <1>12

LEMMA SteadyEnds ==
  ASSUME NEW c \in Calls, TurnStep(c), CallInv, LeaseTurns, LightsInv, SteadyInv,
         \/ TakeTurn(c) \/ Overtaken(c) \/ NothingToDo(c) \/ ShuttingDown(c)
         \/ ReleaseWhileOff(c) \/ OffOvertaken(c) \/ FinishOff(c)
         \/ CalibrationRequired(c) \/ HueOvertaken(c) \/ FallBackOvertaken(c)
         \/ ApplyShutDown(c) \/ FinishRan(c) \/ FinishRefused(c) \/ FinishEnded(c)
         \/ LeaseSettled(c) \/ LeaseStarts(c) \/ LeaseIsUp(c) \/ LeaseGivesBack(c)
         \/ LeaseStops(c)
  PROVE  SteadyInv'
<1> USE DEF SteadyInv, HasStream, Steady, On
<1>1. UNCHANGED <<faults, closing>>
  BY TurnCalm
<1> USE DEF Settling, Applying
<1>2. CASE LeaseStarts(c)
  <2>1. stream' # "reconnecting" /\ stream # "live"
    BY <1>2, OutcomesAssumption DEF LeaseStarts, StartAnswers, StreamAfterStart, AllHueCodes
  <2>2. at' \in {"bringUp", "idle"} /\ (at' = "bringUp" => turn' = c /\ Leasing(c)')
        /\ UNCHANGED <<running, moved>>
    BY <1>2 DEF LeaseStarts, Step, End, modeVars, Leasing, Origin
  <2>3. QED BY <1>1, <2>1, <2>2 DEF InMode
<1>3. CASE LeaseIsUp(c)
  BY <1>1, <1>3 DEF LeaseIsUp, End, modeVars, hueVars
<1>4. CASE LeaseGivesBack(c)
  <2>1. "leaseStop" = at' => closing # "no" \/ "hue" \notin running.targets
    BY <1>1, <1>4 DEF LeaseGivesBack, Step, End, GivesUpStream
  <2>2. at' \in {"idle", "leaseStop"} /\ UNCHANGED <<running, hueVars>>
    BY <1>4 DEF LeaseGivesBack, Step, End, modeVars
  <2>3. QED BY <1>1, <2>1, <2>2 DEF hueVars
<1>5. CASE LeaseStops(c)
  BY <1>1, <1>5 DEF LeaseStops, End, modeVars, StopHue, StreamStopped
<1>6. CASE ReleaseWhileOff(c)
  <2>1. running.targets = {}
    BY <1>6 DEF ReleaseWhileOff, Lit, LightsInv, OffIsDark, OffMode
  <2>2. QED
    BY <1>1, <1>6, <2>1 DEF ReleaseWhileOff, End, modeVars, StopHue, StreamStopped
<1>7. CASE /\ ~LeaseStarts(c) /\ ~LeaseIsUp(c) /\ ~LeaseGivesBack(c) /\ ~LeaseStops(c)
           /\ ~ReleaseWhileOff(c)
  <2>1. at' \in {"idle", "begin"} /\ UNCHANGED <<running, hueVars>>
    BY <1>7 DEF TakeTurn, Overtaken, NothingToDo, ShuttingDown,
       OffOvertaken, FinishOff, CalibrationRequired, HueOvertaken, FallBackOvertaken,
       ApplyShutDown, FinishRan, FinishRefused, FinishEnded, LeaseSettled,
       End, modeVars, turnVars, CallInv, TurnsInOrder
  <2>2. QED BY <1>1, <2>1 DEF hueVars
<1>8. QED BY <1>2, <1>3, <1>4, <1>5, <1>6, <1>7

LEMMA SteadyKept ==
  ASSUME MaxFaults = 0, CallInv, LeaseInv, LightsInv, SteadyInv, [Next]_vars
  PROVE  SteadyInv'
<1> USE CallsAssumption
<1>1. ASSUME NEW c \in Calls, Arrival(c)
      PROVE  SteadyInv'
  <2>1. UNCHANGED <<running, closing, hueVars, turnVars>> /\ turn # c
    BY <1>1, ArrivalForm DEF CallInv, TypeOK, TurnsInOrder, TurnHeld
  <2>2. (InMode' <=> InMode) /\ (turn # "nobody" => Origin(turn)' = Origin(turn))
    BY <1>1, <2>1, ArrivalForm DEF CallInv, TypeOK, TurnTypes, turnVars, InMode, Leasing,
       Origin
  <2>3. faults' = faults
    BY <1>1 DEF Arrival, Arrive, Record, SaveTargets, ReleaseArrives, ReleaseRecords,
       LeaveArrives, ReturnArrives, AwayTicket, SettingsSaved, RefreshArrives,
       JoinArrives, LeaseArrives, Enqueue, worldVars
  <2>4. QED
    BY <2>1, <2>2, <2>3 DEF SteadyInv, HasStream, Steady, turnVars, hueVars, InMode
<1>2. ASSUME NEW c \in Calls, TurnStep(c)
      PROVE  SteadyInv'
  BY <1>2, SteadySettles, SteadyApplies, SteadyEnds DEF TurnStep, LeaseInv
<1>3. CASE Quit
  <2>1. closing' # "no" /\ UNCHANGED <<at, faults>>
        /\ (UNCHANGED hueVars \/ StreamStopped)
    BY <1>3 DEF Quit, QuitMarks, QuitStopsLighting, QuitStopsHue, turnVars
  <2>2. QED
    BY <2>1 DEF SteadyInv, HasStream, Steady, InMode, hueVars, StreamStopped
<1>4. CASE Environment
  BY <1>4 DEF Environment, StreamDrops, StripChanges, AreaSaved, Happens, Reconnects,
     SteadyInv, Steady
<1>5. CASE UNCHANGED vars
  BY <1>5 DEF vars, SteadyInv, HasStream, Steady, InMode, Leasing, Origin
<1>6. QED
  BY <1>1, <1>2, <1>3, <1>4, <1>5 DEF Next, Rest

(* While the hardware does nothing by itself, a mode that drives Hue has a
   live stream: no stop meant for a deselected output, an Off, a test, a move
   or a fallback takes it from a mode that still runs on it (hue_down,
   reconcile_off, lease_release and fall_back against LightingRuntimeOwner). *)
THEOREM ModesKeepTheirStream ==
  ASSUME MaxFaults = 0
  PROVE  Spec => []HueModeHasStream
<1>1. Init => SteadyInv
  BY CallsAssumption, RequestsAssumption DEF Init, SteadyInv, HasStream, Steady, InMode
<1>2. SteadyInv => HueModeHasStream
  BY DEF SteadyInv, HasStream, HueModeHasStream
<1>3. CallInv /\ LeaseInv /\ LightsInv /\ SteadyInv /\ [Next]_vars => SteadyInv'
  BY SteadyKept
<1>4. QED BY <1>1, <1>2, <1>3, OutcomeAlways, PTL DEF Spec

-----------------------------------------------------------------------------
(* A stream that no mode drives is released *)

(* A bring-up under way has the answer that sent it there. *)
Rising == /\ stream = "starting" =>
             at = "bringUp" /\ tx.code \in {"RUNNING", "NO_LIGHTS"} \cap HueCodes

(* Who opened the stream that is up, against who owns it. *)
Up      == stream \in {"live", "reconnecting"}
Openers == Up => /\ opener = "tx" => owner = "Transaction"
                 /\ opener = "lease" => owner \in {"Transaction", "Lease"}

(* The transaction's stream, and the one no mode drives. *)
Ours  == owner = "Transaction" /\ Up
Spare == Ours /\ "hue" \notin running.targets

(* A refresh moves the stream its mode runs on; only a refresh that lost it,
   or one that a newer call undoes, goes on without Hue while one is up. *)
Refreshes == turn # "nobody" /\ Origin(turn) = "settings"
Refreshed ==
  /\ InMode /\ Refreshes /\ at \in Settling =>
       at # "plan" /\ tx.on = running.targets /\ "hue" \in running.targets
  /\ Refreshes /\ at \in {"startHue", "bringUp"} => ~Ours
  /\ Refreshes /\ at = "hueChecked" /\ ~tx.ok => ~Ours
  /\ InMode /\ Refreshes /\ at = "apply" /\ "hue" \notin tx.on /\ Ours => Owed
  /\ Refreshes => at # "recheck"

(* The turn in hand comes to hue_down, or to the Hue stop of reconcile_off. *)
WillDrop ==
  /\ InMode
  /\ \/ at = "begin" /\ Origin(turn) \in Movers
     \/ at = "offHue" /\ tx.stop
     \/ at \in Settling \cup Applying \cup {"ran"} /\ ~Refreshes
     \/ at = "judge" /\ tx.code # "ok"
     \/ at \in {"refuse", "endMode", "down"}
SpareIsDropped == closing = "no" /\ Spare => Owed \/ WillDrop

StreamInv == Rising /\ Openers /\ Refreshed /\ SpareIsDropped

(* What the hypotheses of this part say: a start without lights leaves a
   stream up that no one owns, and a mode refused for its calibration ends
   without hue_down. *)
StreamsAreOwned == Calibrated /\ "NO_LIGHTS" \notin HueCodes

LEMMA RisingKept ==
  ASSUME CallInv, Rising, [Next]_vars
  PROVE  Rising'
<1> USE DEF Rising, On
<1>1. ASSUME NEW c \in Calls, Arrival(c)
      PROVE  Rising'
  BY <1>1, ArrivalForm DEF CallInv, TypeOK, hueVars, turnVars
<1>2. ASSUME NEW c \in Calls, TurnStep(c)
      PROVE  Rising'
  <2>1. CASE StartHue(c)
    <3>1. PICK code \in StartAnswers :
             /\ stream' = StreamAfterStart(code)
             /\ Step(IF stream' = "starting" THEN "bringUp" ELSE "hueChecked",
                     [tx EXCEPT !.code = code, !.ok = (code = "NOOP")])
      BY <2>1 DEF StartHue
    <3>2. stream' = "starting" => code \in {"RUNNING", "NO_LIGHTS"} \cap HueCodes
      BY <2>1, <3>1, OutcomesAssumption DEF StartHue, StartAnswers, StreamAfterStart,
         AllHueCodes
    <3>3. stream' = "starting" => at' = "bringUp" /\ tx'.code = code
      BY <3>1 DEF Step, CallInv, TypeOK, TurnTypes, TxLocals
    <3>4. QED BY <3>2, <3>3
  <2>2. CASE LeaseStarts(c)
    <3>1. PICK code \in StartAnswers :
             /\ stream' = StreamAfterStart(code)
             /\ stream' = "starting" => Step("bringUp", [NewTx EXCEPT !.code = code])
      BY <2>2 DEF LeaseStarts
    <3>2. stream' = "starting" => code \in {"RUNNING", "NO_LIGHTS"} \cap HueCodes
      BY <2>2, <3>1, OutcomesAssumption DEF LeaseStarts, StartAnswers, StreamAfterStart,
         AllHueCodes
    <3>3. stream' = "starting" => at' = "bringUp" /\ tx'.code = code
      BY <3>1, NewTxTypes DEF Step, CallInv, TypeOK, TxLocals
    <3>4. QED BY <3>2, <3>3
  <2>3. CASE BringUp(c) \/ LeaseIsUp(c)
    BY <2>3 DEF BringUp, LeaseIsUp, hueVars
  <2>4. CASE TakeTurn(c) \/ Overtaken(c)
    BY <2>4 DEF TakeTurn, Overtaken, CallInv, TurnsInOrder, hueVars
  <2>5. CASE /\ ~StartHue(c) /\ ~LeaseStarts(c) /\ ~BringUp(c) /\ ~LeaseIsUp(c)
             /\ ~TakeTurn(c) /\ ~Overtaken(c)
    <3>1. at # "bringUp" /\ stream' \in {stream, "idle"}
      BY <1>2, <2>5 DEF TurnStep, NothingToDo, ShuttingDown, ReleaseWhileOff,
         StartOff, OffOvertaken, OffStopsHue, FinishOff, CalibrationRequired, StartOn,
         StartRefresh, MoveStop, HueOvertaken, Plan, PlanNothing, RefreshAfterMove,
         HueSettled, Opens, ApplyGated, ApplyRuns, ApplyFails, FallBackToUsb,
         FallBackToHue, FallBackOvertaken, TryAgain, ApplyShutDown, Judge,
         Ran, Refuse, EndMode, HueDown, FinishRan, FinishRefused, FinishEnded,
         LeaseSettled, LeaseGivesBack, LeaseStops, hueVars, StopHue, StreamStopped
    <3>2. QED BY <3>1
  <2>6. QED BY <2>1, <2>2, <2>3, <2>4, <2>5
<1>3. ASSUME Quit \/ Environment \/ UNCHANGED vars
      PROVE  Rising'
  BY <1>3, OutsideForm DEF Quit, QuitMarks, QuitStopsLighting, QuitStopsHue, Environment,
     StreamDrops, StripChanges, AreaSaved, Happens, Reconnects, StreamStopped, vars,
     turnVars, hueVars
<1>4. QED
  BY <1>1, <1>2, <1>3 DEF Next, Rest

(* What a step of a turn does to a stream that is up, and to its owner. *)
LEMMA OpenersKept ==
  ASSUME "NO_LIGHTS" \notin HueCodes, CallInv, Rising, Openers, [Next]_vars
  PROVE  Openers'
<1> USE DEF Openers, Up, On
<1>1. ASSUME NEW c \in Calls, Arrival(c)
      PROVE  Openers'
  BY <1>1, ArrivalForm DEF CallInv, TypeOK, hueVars
<1>2. ASSUME NEW c \in Calls, TurnStep(c)
      PROVE  Openers'
  <2>1. CASE StartHue(c) \/ LeaseStarts(c)
    BY <2>1, OutcomesAssumption DEF StartHue, LeaseStarts, StartAnswers,
       StreamAfterStart, AllHueCodes
  <2>2. CASE BringUp(c) \/ LeaseIsUp(c)
    BY <2>2 DEF BringUp, LeaseIsUp, hueVars, Rising
  <2>3. CASE Ran(c) \/ LeaseGivesBack(c)
    BY <2>3 DEF Ran, LeaseGivesBack, hueVars
  <2>4. CASE /\ ~StartHue(c) /\ ~LeaseStarts(c) /\ ~BringUp(c) /\ ~LeaseIsUp(c)
             /\ ~Ran(c) /\ ~LeaseGivesBack(c)
    <3>1. UNCHANGED <<stream, opener, owner>> \/ stream' = "idle"
      BY <1>2, <2>4 DEF TurnStep, TakeTurn, Overtaken, NothingToDo, ShuttingDown,
         ReleaseWhileOff, StartOff, OffOvertaken, OffStopsHue, FinishOff,
         CalibrationRequired, StartOn, StartRefresh, MoveStop, HueOvertaken, Plan,
         PlanNothing, RefreshAfterMove, ApplyGated, ApplyRuns, ApplyFails,
         FallBackToUsb, FallBackToHue, FallBackOvertaken, TryAgain, ApplyShutDown,
         Judge, Refuse, EndMode, HueDown, FinishRan, FinishRefused, FinishEnded,
         LeaseSettled, LeaseStops, hueVars, StopHue, StreamStopped
    <3>2. QED BY <3>1
  <2>5. QED BY <2>1, <2>2, <2>3, <2>4
<1>3. ASSUME Quit \/ Environment \/ UNCHANGED vars
      PROVE  Openers'
  BY <1>3, OutsideForm DEF Quit, QuitMarks, QuitStopsLighting, QuitStopsHue, Environment,
     StreamDrops, StripChanges, AreaSaved, Happens, Reconnects, StreamStopped, vars,
     hueVars
<1>4. QED
  BY <1>1, <1>2, <1>3 DEF Next, Rest

(* What a stream does by itself makes none of it the transaction's. *)
LEMMA OutsideStream ==
  ASSUME Quit \/ Environment \/ UNCHANGED vars
  PROVE  /\ closing' = "no" => closing = "no" /\ running' = running
         /\ Ours' => Ours
BY OutsideForm DEF Quit, QuitMarks, QuitStopsLighting, QuitStopsHue, Environment,
   StreamDrops, StripChanges, AreaSaved, Happens, Reconnects, StreamStopped, vars,
   hueVars, modeVars, calmVars, worldVars, Ours, Up

LEMMA RefreshedSettles ==
  ASSUME NEW c \in Calls, TurnStep(c), CallInv, LeaseTurns, Rising, Refreshed,
         SpareIsDropped, StreamsAreOwned,
         \/ StartOff(c) \/ OffStopsHue(c) \/ StartOn(c) \/ StartRefresh(c)
         \/ MoveStop(c) \/ StartHue(c) \/ BringUp(c) \/ Plan(c) \/ PlanNothing(c)
         \/ RefreshAfterMove(c)
  PROVE  Refreshed'
<1> USE CallsAssumption DEF CallInv, TypeOK, TurnTypes, On, Refreshed, Refreshes
<1>1. /\ turn = c /\ (InMode' <=> InMode) /\ turn' = c /\ closing' = closing
      /\ Origin(turn)' = Origin(c) /\ Origin(c)' = Origin(c)
  BY StepInMode, TurnStepForm DEF StartOff, OffStopsHue, StartOn, StartRefresh,
     MoveStop, StartHue, BringUp, Plan, PlanNothing, RefreshAfterMove, HueSettled, Opens
<1>2. Owed => Owed'
  BY <1>1, TurnOwes DEF TakeTurn
<1> USE DEF Settling, Step
<1>3. CASE StartOff(c) \/ OffStopsHue(c)
  BY <1>1, <1>3 DEF StartOff, OffStopsHue
<1>4. CASE StartOn(c) \/ Plan(c) \/ PlanNothing(c)
  BY <1>1, <1>4 DEF StartOn, Opens, TxOrigins, Plan, PlanNothing
<1>5. CASE StartRefresh(c)
  <2>1. /\ at = "begin" /\ closing = "no" /\ tx'.on = running.targets
        /\ UNCHANGED <<running, hueVars, owner>>
        /\ at' \in {"moveStop", "apply"}
        /\ at' = "moveStop" => "hue" \in running.targets
    BY <1>5, NewTxTypes DEF StartRefresh, modeVars, Opens, TxLocals
  <2>2. "hue" \notin running.targets /\ Ours => Owed
    BY <1>1, <1>5, <2>1 DEF StartRefresh, Opens, SpareIsDropped, Spare, WillDrop, Movers,
       Applying
  <2>3. QED BY <1>1, <1>2, <2>1, <2>2 DEF Ours, Up, hueVars
<1>6. CASE MoveStop(c)
  <2>1. ~Ours' /\ tx'.on = tx.on /\ running' = running
        /\ at = "moveStop" /\ at' \in {"startHue", "hueChecked"}
    BY <1>6 DEF MoveStop, Ours, Up, StopHue, StreamStopped, TxLocals, modeVars
  <2>2. QED BY <1>1, <2>1
<1>7. CASE StartHue(c)
  <2>1. Ours' => Ours
    BY <1>7, OutcomesAssumption DEF StartHue, StartAnswers, StreamAfterStart,
       AllHueCodes, Ours, Up
  <2>2. tx'.on = tx.on /\ running' = running
        /\ at = "startHue" /\ at' \in {"bringUp", "hueChecked"}
    BY <1>7 DEF StartHue, TxLocals, modeVars
  <2>3. QED BY <1>1, <2>1, <2>2
<1>8. CASE BringUp(c)
  <2>1. ~tx'.ok /\ Ours' => Ours
    BY <1>8 DEF BringUp, Ours, Up, TxLocals, Rising, StreamsAreOwned, hueVars
  <2>2. tx'.on = tx.on /\ running' = running /\ at = "bringUp" /\ at' = "hueChecked"
    BY <1>8 DEF BringUp, TxLocals, modeVars
  <2>3. QED BY <1>1, <2>1, <2>2
<1>9. CASE RefreshAfterMove(c)
  <2>1. /\ Origin(c) = "settings" /\ at \in {"plan", "hueChecked"}
        /\ at' \in {"endMode", "apply"}
        /\ UNCHANGED <<running, hueVars, owner>>
        /\ tx'.on = IF tx.ok THEN tx.on ELSE tx.on \ {"hue"}
    BY <1>9 DEF RefreshAfterMove, HueSettled, TxLocals
  <2>2. InMode /\ "hue" \notin tx'.on => ~Ours
    BY <1>1, <2>1
  <2>3. QED BY <1>1, <2>1, <2>2 DEF Ours, Up, hueVars
<1>10. QED
  BY <1>3, <1>4, <1>5, <1>6, <1>7, <1>8, <1>9

LEMMA RefreshedKept ==
  ASSUME CallInv, LeaseInv, OwedInv, Rising, Refreshed, SpareIsDropped,
         StreamsAreOwned, [Next]_vars
  PROVE  Refreshed'
<1> USE CallsAssumption
<1>1. ASSUME NEW c \in Calls, Arrival(c)
      PROVE  Refreshed'
  <2>1. UNCHANGED <<running, closing, hueVars, owner, turnVars>> /\ turn # c
    BY <1>1, ArrivalForm DEF CallInv, TypeOK, TurnsInOrder, TurnHeld
  <2>2. (InMode' <=> InMode) /\ (Refreshes' <=> Refreshes)
    BY <1>1, <2>1, ArrivalForm DEF CallInv, TypeOK, TurnTypes, turnVars, InMode, Leasing,
       Origin, Refreshes
  <2>3. Owed => Owed'
    BY <1>1, ArrivalOwes DEF OwedInv
  <2>4. QED
    BY <2>1, <2>2, <2>3 DEF Refreshed, turnVars, hueVars, Ours, Up
<1>2. ASSUME NEW c \in Calls, TurnStep(c)
      PROVE  Refreshed'
  <2>1. CASE at' \in {"idle", "begin", "leaseStop", "judge", "ran", "refuse", "endMode",
                      "down", "finish", "offHue", "offDone"}
    BY <2>1 DEF Refreshed, Settling
  <2>2. CASE at' = "recheck"
    <3>1. FallBackToUsb(c) \/ FallBackToHue(c)
      BY <1>2, <2>2 DEF TurnStep, TakeTurn, Overtaken, NothingToDo, ShuttingDown,
         ReleaseWhileOff, StartOff, OffOvertaken, OffStopsHue, FinishOff,
         CalibrationRequired, StartOn, StartRefresh, MoveStop, StartHue, BringUp,
         HueOvertaken, Plan, PlanNothing, RefreshAfterMove, ApplyGated, ApplyRuns,
         ApplyFails, FallBackOvertaken, TryAgain, ApplyShutDown, Judge, Ran, Refuse,
         EndMode, HueDown, FinishRan, FinishRefused, FinishEnded, LeaseSettled,
         LeaseStarts, LeaseIsUp, LeaseGivesBack, LeaseStops, Step, End, turnVars,
         CallInv, TurnsInOrder
    <3>2. Origin(turn)' # "settings"
      BY <3>1 DEF FallBackToUsb, FallBackToHue, Beside, Step, Origin, On
    <3>3. QED BY <2>2, <3>2 DEF Refreshed, Settling, Refreshes
  <2>3. CASE LeaseStarts(c)
    <3>1. turn' = "nobody" \/ Origin(turn)' # "settings"
      BY <2>3 DEF LeaseStarts, Step, End, Origin, On
    <3>2. QED BY <3>1 DEF Refreshed, Refreshes
  <2>4. CASE TryAgain(c)
    <3>1. turn' = c /\ Origin(c)' # "settings"
      BY <2>4 DEF TryAgain, Step, On, Origin, Refreshed, Refreshes
    <3>2. QED BY <3>1 DEF Refreshed, Refreshes, Origin
  <2>5. CASE /\ at' \in Settling \cup {"apply"} /\ ~TryAgain(c) /\ ~LeaseStarts(c)
    <3>1. \/ StartOn(c) \/ StartRefresh(c) \/ MoveStop(c) \/ StartHue(c) \/ BringUp(c)
          \/ Plan(c) \/ RefreshAfterMove(c)
      BY <1>2, <2>5 DEF TurnStep, TakeTurn, Overtaken, NothingToDo, ShuttingDown,
         ReleaseWhileOff, StartOff, OffOvertaken, OffStopsHue, FinishOff,
         CalibrationRequired, HueOvertaken, PlanNothing, ApplyGated, ApplyRuns,
         ApplyFails, FallBackToUsb, FallBackToHue, FallBackOvertaken, ApplyShutDown,
         Judge, Ran, Refuse, EndMode, HueDown, FinishRan, FinishRefused, FinishEnded,
         LeaseSettled, LeaseIsUp, LeaseGivesBack, LeaseStops, Step, End, turnVars,
         CallInv, TurnsInOrder, Settling
    <3>2. QED BY <1>2, <3>1, RefreshedSettles DEF LeaseInv
  <2>6. at' \in Labels
    BY <1>2, CallInvKept DEF CallInv, TypeOK, TurnTypes, Next
  <2>7. QED BY <2>1, <2>2, <2>3, <2>4, <2>5, <2>6 DEF Labels, Settling
<1>3. ASSUME Quit \/ Environment \/ UNCHANGED vars
      PROVE  Refreshed'
  <2>1. UNCHANGED <<callVars, turnVars>> /\ (Owed => Owed')
        /\ (closing' = "no" => closing = "no" /\ running' = running) /\ (Ours' => Ours)
    BY <1>3, OutsideForm, OutsideOwes, OutsideStream
  <2>2. QED
    BY <2>1 DEF Refreshed, Refreshes, Origin, InMode, Leasing, callVars, turnVars
<1>4. QED
  BY <1>1, <1>2, <1>3 DEF Next, Rest

(* While nothing newer is owed, the steps before the apply that leave a spare
   stream up lead on to the one that drops it. *)
LEMMA SpareSettles ==
  ASSUME NEW c \in Calls, TurnStep(c), CallInv, LeaseTurns, Refreshed,
         StreamInv, closing = "no", ~Owed, Spare',
         \/ StartOff(c) \/ OffStopsHue(c) \/ StartOn(c) \/ StartRefresh(c)
         \/ MoveStop(c) \/ StartHue(c) \/ BringUp(c) \/ Plan(c) \/ PlanNothing(c)
         \/ RefreshAfterMove(c)
  PROVE  WillDrop'
<1> USE CallsAssumption DEF CallInv, TypeOK, TurnTypes, On, Refreshes, StreamInv
<1>1. /\ turn = c /\ turn' = c /\ closing' = closing
      /\ Origin(turn)' = Origin(c) /\ Origin(c)' = Origin(c)
      /\ InMode' /\ InMode
  <2>1. turn = c /\ ~Leasing(c)
    BY DEF StartOff, OffStopsHue, StartOn, StartRefresh, MoveStop, StartHue, BringUp,
       Plan, PlanNothing, RefreshAfterMove, HueSettled, Opens, LeaseTurns, TxOrigins,
       Leasing
  <2>2. QED
    BY <2>1, StepInMode, TurnStepForm DEF StartOff, OffStopsHue, StartOn, StartRefresh,
       MoveStop, StartHue, BringUp, Plan, PlanNothing, RefreshAfterMove, HueSettled,
       Opens, InMode
<1>2. Spare => WillDrop
  BY DEF SpareIsDropped
<1> USE DEF Settling, Applying, Step
<1>3. CASE StartOff(c)
  <2>1. Ours /\ tx'.stop = IF Origin(c) = "user" /\ intent.persist
                             THEN stream # "idle" \/ Paired
                             ELSE stream # "idle" /\ owner = "Transaction"
    BY <1>3, NewTxTypes DEF StartOff, hueVars, Spare, Ours, Up, TxLocals
  <2>2. tx'.stop
    BY <2>1 DEF Ours, Up
  <2>3. QED BY <1>1, <1>3, <2>2 DEF StartOff, WillDrop
<1>4. CASE OffStopsHue(c)
  <2>1. ~tx.stop /\ Spare /\ at = "offHue"
    BY <1>4 DEF OffStopsHue, StopHue, StreamStopped, Spare, Ours, Up, modeVars, hueVars
  <2>2. QED BY <1>2, <2>1 DEF WillDrop
<1>5. CASE StartOn(c)
  BY <1>1, <1>5 DEF StartOn, Opens, TxOrigins, WillDrop
<1>6. CASE StartRefresh(c)
  <2>1. Spare /\ at = "begin" /\ Origin(c) = "settings"
    BY <1>6 DEF StartRefresh, Opens, Spare, Ours, Up, modeVars, hueVars
  <2>2. QED BY <1>1, <1>2, <2>1 DEF WillDrop, Movers
<1>7. CASE MoveStop(c)
  BY <1>7 DEF MoveStop, StopHue, StreamStopped, Spare, Ours, Up
<1>8. CASE StartHue(c)
  <2>1. Ours /\ at = "startHue" /\ at' \in {"bringUp", "hueChecked"}
    BY <1>8, OutcomesAssumption DEF StartHue, StartAnswers, StreamAfterStart,
       AllHueCodes, Spare, Ours, Up
  <2>2. QED BY <1>1, <2>1 DEF Refreshed, WillDrop
<1>9. CASE BringUp(c)
  <2>1. at = "bringUp" /\ at' = "hueChecked" /\ "hue" \notin running.targets
    BY <1>9 DEF BringUp, Spare, modeVars
  <2>2. QED BY <1>1, <2>1 DEF Refreshed, WillDrop
<1>10. CASE Plan(c)
  BY <1>1, <1>10 DEF Plan, WillDrop
<1>11. CASE PlanNothing(c)
  BY <1>1, <1>11 DEF PlanNothing, WillDrop
<1>12. CASE RefreshAfterMove(c)
  <2>1. /\ Spare /\ at' \in {"endMode", "apply"} /\ Origin(c) = "settings"
        /\ at \in {"plan", "hueChecked"}
    BY <1>12 DEF RefreshAfterMove, HueSettled, Spare, Ours, Up, hueVars
  <2>2. QED BY <1>1, <2>1 DEF Refreshed, WillDrop, Spare
<1>13. QED
  BY <1>3, <1>4, <1>5, <1>6, <1>7, <1>8, <1>9, <1>10, <1>11, <1>12

(* So do the apply and what follows it. *)
LEMMA SpareApplies ==
  ASSUME NEW c \in Calls, TurnStep(c), CallInv, LeaseTurns, LightsInv, Refreshed,
         StreamInv, closing = "no", ~Owed, Spare',
         \/ ApplyGated(c) \/ ApplyRuns(c) \/ ApplyFails(c) \/ FallBackToUsb(c)
         \/ FallBackToHue(c) \/ TryAgain(c) \/ Judge(c) \/ Ran(c) \/ Refuse(c)
         \/ EndMode(c) \/ HueDown(c)
  PROVE  WillDrop'
<1> USE CallsAssumption DEF CallInv, TypeOK, TurnTypes, On, Refreshes, StreamInv
<1>1. /\ turn = c /\ turn' = c /\ closing' = closing
      /\ Origin(turn)' = Origin(c) /\ Origin(c)' = Origin(c)
      /\ InMode' /\ InMode
  <2>1. turn = c /\ at \in Applying \cup Closing
    BY DEF ApplyGated, ApplyRuns, ApplyFails, FallBackToUsb, FallBackToHue, TryAgain,
       Judge, Ran, Refuse, EndMode, HueDown, Applying, Closing
  <2>2. ~Leasing(c)
    BY <2>1 DEF LeaseTurns, Applying, Closing
  <2>3. QED
    BY <2>1, <2>2, StepInMode, TurnStepForm DEF InMode, ApplyGated, ApplyRuns,
       ApplyFails, FallBackToUsb, FallBackToHue, TryAgain, Judge, Ran, Refuse, EndMode,
       HueDown
<1>2. Spare => WillDrop
  BY DEF SpareIsDropped
<1> USE DEF Settling, Applying, Step
<1>3. CASE ApplyGated(c)
  BY <1>1, <1>3 DEF ApplyGated, GateCodes, TxLocals, WillDrop
<1>4. CASE ApplyRuns(c)
  <2>1. Ours /\ at = "apply" /\ at' = "judge" /\ "hue" \notin tx.on
    BY <1>4 DEF ApplyRuns, Spare, Ours, Up, hueVars
  <2>2. QED BY <1>1, <2>1 DEF Refreshed, WillDrop
<1>5. CASE ApplyFails(c)
  BY <1>1, <1>5, OutcomesAssumption DEF ApplyFails, AllApplyFaults, TxLocals, WillDrop
<1>6. CASE FallBackToUsb(c)
  BY <1>1, <1>6 DEF FallBackToUsb, Beside, WillDrop
<1>7. CASE FallBackToHue(c)
  BY <1>1, <1>7 DEF FallBackToHue, Beside, WillDrop
<1>8. CASE TryAgain(c)
  BY <1>1, <1>8 DEF TryAgain, Refreshed, WillDrop
<1>9. CASE Judge(c)
  <2>1. Spare /\ at = "judge" /\ tx.code = "ok" => Origin(c) # "settings"
    BY <1>1, <1>2 DEF WillDrop
  <2>2. Spare
    BY <1>9 DEF Judge, Spare, Ours, Up, modeVars, hueVars
  <2>3. QED BY <1>1, <1>9, <2>1, <2>2 DEF Judge, WillDrop
<1>10. CASE Ran(c)
  <2>1. at = "ran" /\ tx.after = running /\ UNCHANGED <<running, hueVars>>
    BY <1>1, <1>10 DEF Ran, LightsInv, AfterRuns, Closing
  <2>2. owner' = owner
    BY <1>10, <2>1 DEF Ran, Spare
  <2>3. Spare
    BY <2>1, <2>2 DEF Spare, Ours, Up, hueVars
  <2>4. Origin(c) # "settings"
    BY <1>1, <1>2, <2>1, <2>3 DEF WillDrop
  <2>5. QED BY <1>1, <1>10, <2>4 DEF Ran, WillDrop
<1>11. CASE Refuse(c)
  BY <1>1, <1>11 DEF Refuse, WillDrop
<1>12. CASE EndMode(c)
  BY <1>1, <1>12 DEF EndMode, WillDrop
<1>13. CASE HueDown(c)
  <2>1. tx.after = running /\ running' = running
    BY <1>1, <1>13 DEF HueDown, LightsInv, AfterRuns, Closing, modeVars
  <2>2. ~DropsHue(c)
    BY <1>13 DEF HueDown, StopHue, StreamStopped, Spare, Ours, Up
  <2>3. Ours /\ "hue" \notin tx.after.targets
    BY <1>13, <2>1, <2>2 DEF HueDown, Spare, Ours, Up, hueVars
  <2>4. QED BY <2>2, <2>3 DEF DropsHue, Ours, Up
<1>14. QED
  BY <1>3, <1>4, <1>5, <1>6, <1>7, <1>8, <1>9, <1>10, <1>11, <1>12, <1>13

(* A turn that ends, and a lease's, leaves no spare stream behind. *)
LEMMA SpareEnds ==
  ASSUME NEW c \in Calls, TurnStep(c), CallInv, LeaseTurns, LightsInv, NewerOwed,
         StreamInv, StreamsAreOwned, closing = "no", ~Owed, Spare',
         \/ TakeTurn(c) \/ Overtaken(c) \/ NothingToDo(c) \/ ShuttingDown(c)
         \/ ReleaseWhileOff(c) \/ OffOvertaken(c) \/ FinishOff(c)
         \/ CalibrationRequired(c) \/ HueOvertaken(c) \/ FallBackOvertaken(c)
         \/ ApplyShutDown(c) \/ FinishRan(c) \/ FinishRefused(c) \/ FinishEnded(c)
         \/ LeaseSettled(c) \/ LeaseStarts(c) \/ LeaseIsUp(c) \/ LeaseGivesBack(c)
         \/ LeaseStops(c)
  PROVE  FALSE
<1> USE CallsAssumption DEF On, StreamInv
<1>1. ~Spare
  <2>1. Spare => WillDrop
    BY DEF SpareIsDropped
  <2>2. ~WillDrop
    <3>1. CASE TakeTurn(c) \/ Overtaken(c)
      BY <3>1 DEF TakeTurn, Overtaken, WillDrop, InMode
    <3>2. CASE LeaseSettled(c) \/ LeaseStarts(c) \/ LeaseGivesBack(c)
      BY <3>2 DEF LeaseSettled, LeaseStarts, LeaseGivesBack, WillDrop, InMode, Leasing
    <3>3. CASE LeaseIsUp(c) \/ LeaseStops(c)
      BY <3>3 DEF LeaseIsUp, LeaseStops, WillDrop, Settling, Applying, InMode
    <3>4. CASE NothingToDo(c) \/ ShuttingDown(c)
      BY <3>4 DEF NothingToDo, NothingDue, ShuttingDown, WillDrop, Movers, Settling,
         Applying
    <3>5. CASE ReleaseWhileOff(c)
      BY <3>5 DEF ReleaseWhileOff, StopHue, StreamStopped, Spare, Ours, Up
    <3>6. CASE CalibrationRequired(c)
      BY <3>6 DEF CalibrationRequired, NeedsCalibration, StreamsAreOwned
    <3>7. CASE FinishOff(c) \/ FinishRan(c) \/ FinishRefused(c) \/ FinishEnded(c)
      BY <3>7 DEF FinishOff, FinishRan, FinishRefused, FinishEnded, WillDrop, Settling,
         Applying
    <3>8. CASE ApplyShutDown(c)
      BY <3>8 DEF ApplyShutDown, LightsInv, OnlyClosing
    <3>9. CASE OffOvertaken(c) \/ HueOvertaken(c) \/ FallBackOvertaken(c)
      <4>1. turn = c /\ at \notin {"begin", "bringUp", "leaseStop"} /\ Superseded(c)
        BY <3>9 DEF OffOvertaken, HueOvertaken, FallBackOvertaken
      <4>2. ~Leasing(c)
        BY <4>1 DEF LeaseTurns
      <4>3. QED BY <4>1, <4>2 DEF NewerOwed
    <3>10. QED BY <3>1, <3>2, <3>3, <3>4, <3>5, <3>6, <3>7, <3>8, <3>9
  <2>3. QED BY <2>1, <2>2
<1>2. running' = running
  BY DEF TakeTurn, Overtaken, NothingToDo, ShuttingDown, ReleaseWhileOff,
     OffOvertaken, FinishOff, CalibrationRequired, HueOvertaken, FallBackOvertaken,
     ApplyShutDown, FinishRan, FinishRefused, FinishEnded, LeaseSettled, LeaseStarts,
     LeaseIsUp, LeaseGivesBack, LeaseStops, modeVars
<1>3. CASE LeaseStarts(c)
  BY <1>1, <1>2, <1>3, OutcomesAssumption DEF LeaseStarts, StartAnswers,
     StreamAfterStart, AllHueCodes, Spare, Ours, Up
<1>4. CASE LeaseIsUp(c)
  BY <1>1, <1>2, <1>4 DEF LeaseIsUp, Rising, StreamsAreOwned, Spare, Ours, Up, hueVars
<1>5. CASE LeaseGivesBack(c)
  BY <1>1, <1>2, <1>5 DEF LeaseGivesBack, Spare, Ours, Up, hueVars
<1>6. CASE LeaseStops(c) \/ ReleaseWhileOff(c)
  BY <1>6 DEF LeaseStops, ReleaseWhileOff, StopHue, StreamStopped, Spare, Ours, Up
<1>7. CASE /\ ~LeaseStarts(c) /\ ~LeaseIsUp(c) /\ ~LeaseGivesBack(c) /\ ~LeaseStops(c)
           /\ ~ReleaseWhileOff(c)
  <2>1. UNCHANGED <<stream, owner>>
    BY <1>7 DEF TakeTurn, Overtaken, NothingToDo, ShuttingDown, OffOvertaken, FinishOff,
       CalibrationRequired, HueOvertaken, FallBackOvertaken, ApplyShutDown, FinishRan,
       FinishRefused, FinishEnded, LeaseSettled, hueVars
  <2>2. QED BY <1>1, <1>2, <2>1 DEF Spare, Ours, Up
<1>8. QED BY <1>3, <1>4, <1>5, <1>6, <1>7

LEMMA SpareKept ==
  ASSUME CallInv, LeaseInv, OwedInv, LightsInv, StreamInv, StreamsAreOwned, [Next]_vars
  PROVE  SpareIsDropped'
<1> USE CallsAssumption
<1>1. ASSUME NEW c \in Calls, Arrival(c)
      PROVE  SpareIsDropped'
  <2>1. UNCHANGED <<running, closing, hueVars, owner, turnVars>> /\ turn # c
    BY <1>1, ArrivalForm DEF CallInv, TypeOK, TurnsInOrder, TurnHeld
  <2>2. /\ InMode' <=> InMode
        /\ turn # "nobody" => (Refreshes' <=> Refreshes) /\ Origin(turn)' = Origin(turn)
    BY <1>1, <2>1, ArrivalForm DEF CallInv, TypeOK, TurnTypes, turnVars, InMode, Leasing,
       Origin, Refreshes
  <2>3. Owed => Owed'
    BY <1>1, ArrivalOwes DEF OwedInv
  <2>4. WillDrop => WillDrop'
    BY <2>1, <2>2 DEF WillDrop, InMode, turnVars
  <2>5. QED
    BY <2>1, <2>3, <2>4 DEF StreamInv, SpareIsDropped, Spare, Ours, Up, hueVars
<1>2. ASSUME NEW c \in Calls, TurnStep(c)
      PROVE  SpareIsDropped'
  <2>1. closing' = closing
    BY <1>2, TurnCalm
  <2>2. CASE Owed
    <3>1. CASE TakeTurn(c) /\ Origin(c) \in Movers
      BY <2>1, <3>1 DEF TakeTurn, SpareIsDropped, WillDrop, InMode, Leasing, Origin, Movers
    <3>2. CASE ~(TakeTurn(c) /\ Origin(c) \in Movers)
      BY <1>2, <2>2, <3>2, TurnOwes DEF SpareIsDropped
    <3>3. QED BY <3>1, <3>2
  <2>3. CASE ~Owed
    BY <1>2, <2>1, <2>3, SpareSettles, SpareApplies, SpareEnds DEF SpareIsDropped,
       TurnStep, StreamInv, LeaseInv, OwedInv
  <2>4. QED BY <2>2, <2>3
<1>3. ASSUME Quit \/ Environment \/ UNCHANGED vars
      PROVE  SpareIsDropped'
  <2>1. UNCHANGED <<callVars, turnVars>> /\ (Owed => Owed')
        /\ (closing' = "no" => closing = "no" /\ running' = running) /\ (Ours' => Ours)
    BY <1>3, OutsideForm, OutsideOwes, OutsideStream
  <2>2. closing' = "no" /\ WillDrop => WillDrop'
    BY <2>1 DEF WillDrop, Refreshes, Origin, InMode, Leasing, callVars, turnVars
  <2>3. QED BY <2>1, <2>2 DEF StreamInv, SpareIsDropped, Spare
<1>4. QED
  BY <1>1, <1>2, <1>3 DEF Next, Rest

LEMMA StreamInvInit ==
  ASSUME Init
  PROVE  StreamInv
<1>1. turn = "nobody" /\ at = "idle" /\ stream # "starting"
  BY DEF Init
<1>2. Openers /\ (Ours => "hue" \in running.targets)
  BY RequestsAssumption DEF Init, Openers, Ours, Up
<1>3. QED
  BY <1>1, <1>2 DEF StreamInv, Rising, Refreshed, Refreshes, InMode, SpareIsDropped, Spare

LEMMA StreamInvAlways ==
  ASSUME StreamsAreOwned
  PROVE  Spec => [](CallInv /\ LeaseInv /\ OwedInv /\ LightsInv /\ StreamInv)
<1>1. ASSUME CallInv, LeaseInv, OwedInv, LightsInv, StreamInv, [Next]_vars
      PROVE  StreamInv'
  BY <1>1, RisingKept, OpenersKept, RefreshedKept, SpareKept DEF StreamInv,
     StreamsAreOwned
<1>2. QED
  BY <1>1, StreamInvInit, OutcomeAlways, PTL DEF Spec

LEMMA QuietOwesNothing ==
  ASSUME CallInv, Quiet
  PROVE  turn = "nobody" /\ at = "idle" /\ ~Owed
BY DEF Quiet, Waiting, Owed, Due, Answers, CallInv, TurnsInOrder

(* A stream this module opened is up only for a mode that drives it, whatever
   overtook the turn that left Hue out: each such turn comes to hue_down, to
   the Hue stop of reconcile_off, or to a newer call that will. *)
THEOREM SpareStreamsEnd ==
  ASSUME Calibrated, "NO_LIGHTS" \notin HueCodes
  PROVE  Spec => []UnusedStreamReleased
<1>1. StreamsAreOwned
  BY DEF StreamsAreOwned
<1>2. CallInv /\ StreamInv => UnusedStreamReleased
  BY QuietOwesNothing DEF UnusedStreamReleased, StreamInv, Openers, Up, SpareIsDropped,
     Spare, Ours, WillDrop, InMode
<1>3. QED BY <1>1, <1>2, StreamInvAlways, PTL

(* A test that gave its lease back leaves no stream up, unless a mode took it
   over (lease_release against reconcile's adoption of the stream). *)
THEOREM TestsLeaveNoStream ==
  ASSUME Calibrated, "NO_LIGHTS" \notin HueCodes
  PROVE  Spec => []TestLeavesNoStream
<1>1. StreamsAreOwned
  BY DEF StreamsAreOwned
<1>2. CallInv /\ LeaseInv /\ StreamInv => TestLeavesNoStream
  BY QuietOwesNothing DEF TestLeavesNoStream, StreamInv, Openers, Up, SpareIsDropped,
     Spare, Ours, WillDrop, InMode, LeaseInv, LeaseOwns
<1>3. QED BY <1>1, <1>2, StreamInvAlways, PTL

-----------------------------------------------------------------------------
(* The intent follows what ran *)

(* What is asked of a call is a request. *)
Requested == \A c \in Calls : call[c] \in Requests \cup {NoRequest}

LEMMA RequestedKept ==
  ASSUME CallInv, Requested, [Next]_vars
  PROVE  Requested'
<1> USE DEF Requested, CallInv, TypeOK, CallTypes
<1>1. ASSUME NEW c \in Calls, Arrival(c)
      PROVE  Requested'
  BY <1>1 DEF Arrival, Arrive, Record, SaveTargets, ReleaseArrives, ReleaseRecords,
     LeaveArrives, ReturnArrives, AwayTicket, SettingsSaved, RefreshArrives, JoinArrives,
     LeaseArrives, Enqueue, Asks, Answer
<1>2. ASSUME NEW c \in Calls, TurnStep(c)
      PROVE  Requested'
  BY <1>2, TurnStepForm DEF TakeTurn, Overtaken, Holds, Step, End, Answer
<1>3. ASSUME Quit \/ Environment \/ UNCHANGED vars
      PROVE  Requested'
  BY <1>3, OutsideForm DEF callVars
<1>4. QED
  BY <1>1, <1>2, <1>3 DEF Next, Rest

(* One call arrives at a time: what it writes, it writes as the newest. *)
ArrivesAlone ==
  /\ \A c, d \in Calls : pc[c] \in Arriving /\ pc[d] \in Arriving => c = d
  /\ \A c \in Calls : pc[c] \in {"ticketed", "unsaved"} =>
       ticket[c] = latest /\ Origin(c) \in {"user", "unplug"}

LEMMA ArrivesAloneKept ==
  ASSUME ~ArrivalsOverlap, CallInv, ArrivesAlone, [Next]_vars
  PROVE  ArrivesAlone'
<1> USE DEF ArrivesAlone, CallInv, TypeOK, CallTypes
<1>1. ASSUME NEW c \in Calls, Arrival(c)
      PROVE  ArrivesAlone'
  <2> USE DEF Goto, Asks, NoArrival, Origin
  <2>1. CASE Arrive(c)
    <3>1. pc' = [pc EXCEPT ![c] = "ticketed"] /\ \A d \in Calls : pc[d] \notin Arriving
      BY <2>1 DEF Arrive
    <3>2. ticket'[c] = latest' /\ call'[c].origin \in {"user", "unplug"}
      BY <2>1 DEF Arrive, IssueTicket
    <3>3. QED BY <3>1, <3>2 DEF Arriving
  <2>2. CASE Record(c)
    <3>1. /\ pc[c] = "ticketed" /\ UNCHANGED <<call, ticket, latest>>
          /\ pc'[c] \in {"unsaved", "recorded"}
          /\ \A d \in Calls \ {c} : pc'[d] = pc[d]
      BY <2>2 DEF Record
    <3>2. QED BY <3>1 DEF Arriving
  <2>3. CASE SaveTargets(c) \/ Enqueue(c)
    BY <2>3 DEF SaveTargets, Enqueue, Arriving, inputVars
  <2>4. CASE ReleaseArrives(c)
    <3>1. pc' = [pc EXCEPT ![c] = "releasing"] /\ \A d \in Calls : pc[d] \notin Arriving
      BY <2>4 DEF ReleaseArrives
    <3>2. QED BY <3>1 DEF Arriving
  <2>5. CASE ReleaseRecords(c)
    BY <2>5 DEF ReleaseRecords, Arriving
  <2>6. CASE LeaveArrives(c) \/ ReturnArrives(c)
    <3>1. pc' = [pc EXCEPT ![c] = "written"] /\ \A d \in Calls : pc[d] \notin Arriving
      BY <2>6 DEF LeaveArrives, ReturnArrives
    <3>2. QED BY <3>1 DEF Arriving
  <2>7. CASE AwayTicket(c)
    <3>1. /\ pc' = [pc EXCEPT ![c] = "recorded"]
          /\ \A d \in Calls \ {c} : pc[d] \notin Arriving
      BY <2>7 DEF AwayTicket, Arriving
    <3>2. QED BY <3>1 DEF Arriving
  <2>8. CASE SettingsSaved(c) \/ RefreshArrives(c)
    <3>1. /\ UNCHANGED <<latest>>
          /\ \A d \in Calls : pc'[d] \in {pc[d], "settling", "nothing", "queued"}
          /\ \A d \in Calls : pc[d] \in Arriving =>
                pc'[d] = pc[d] /\ ticket'[d] = ticket[d] /\ call'[d] = call[d]
      BY <2>8 DEF SettingsSaved, RefreshArrives, Answer, Arriving, inputVars
    <3>2. QED BY <3>1 DEF Arriving
  <2>9. CASE JoinArrives(c) \/ LeaseArrives(c)
    BY <2>9 DEF JoinArrives, LeaseArrives, Arriving, inputVars
  <2>10. QED
    BY <1>1, <2>1, <2>2, <2>3, <2>4, <2>5, <2>6, <2>7, <2>8, <2>9 DEF Arrival
<1>2. ASSUME NEW c \in Calls, TurnStep(c)
      PROVE  ArrivesAlone'
  <2>1. /\ latest' = latest
        /\ \A d \in Calls : pc'[d] \in Arriving =>
              pc'[d] = pc[d] /\ ticket'[d] = ticket[d] /\ call'[d] = call[d]
    BY <1>2, TurnCalm, TurnStepForm DEF TakeTurn, Overtaken, Holds, Step, End, Answer,
       Goto, Answers, Arriving
  <2>2. QED BY <2>1 DEF Arriving, Origin
<1>3. ASSUME Quit \/ Environment \/ UNCHANGED vars
      PROVE  ArrivesAlone'
  BY <1>3, OutsideForm, OutsideOwes DEF callVars, Origin
<1>4. QED
  BY <1>1, <1>2, <1>3 DEF Next, Rest

(* A newer call is on its way, or has written its intent already. *)
Expected == Owed \/ \E d \in Calls : pc[d] = "written"

(* What a turn brings to the end it comes to. *)
KindWanted == InMode /\ at \in Settling \cup Applying \cup Closing /\ ~Refreshes
                => tx.kind = tx.want.kind
Carried == \/ at \in Settling \cup Applying \cup {"ran"}
           \/ at \in {"down", "finish"} /\ tx.end = "ran"
WantsIntent == InMode /\ Carried => intent.kind = tx.kind \/ Expected
HasRun == \/ at = "judge" /\ tx.code = "ok"
          \/ at = "ran"
          \/ at \in {"down", "finish"} /\ tx.end = "ran"
RanRuns == InMode /\ HasRun => running.kind = tx.kind
EndedDark == InMode /\ at \in {"down", "finish"} /\ tx.end = "ended" => running.kind = "Off"

(* The intent is behind what runs only while a newer call is expected, or the
   turn in hand still has to bring the two together. *)
WillFollow == /\ InMode
              /\ \/ at = "begin" /\ Origin(turn) \in Movers
                 \/ at \in Settling \cup Applying \cup Closing
Follows == closing = "no" /\ intent.kind # running.kind => Expected \/ WillFollow

LocalsInv == KindWanted /\ RanRuns /\ EndedDark
IntentInv == ArrivesAlone /\ LocalsInv /\ WantsIntent /\ Follows

(* The hypotheses of this part: two calls that write their intents in the
   other order than their tickets, and a release while nothing runs, leave the
   intent behind. *)
CallsInOrder == ~ArrivalsOverlap /\ \A r \in Requests : r.origin # "release"

LEMMA LocalsSettle ==
  ASSUME NEW c \in Calls, TurnStep(c), CallInv, LightsInv, LocalsInv,
         \/ StartOff(c) \/ OffStopsHue(c) \/ StartOn(c) \/ StartRefresh(c)
         \/ MoveStop(c) \/ StartHue(c) \/ BringUp(c) \/ Plan(c) \/ PlanNothing(c)
         \/ RefreshAfterMove(c)
  PROVE  LocalsInv'
<1> USE CallsAssumption DEF CallInv, TypeOK, TurnTypes, On, Refreshes
<1>1. /\ turn = c /\ turn' = c
      /\ Origin(turn)' = Origin(c) /\ Origin(c)' = Origin(c)
      /\ InMode' <=> InMode
  BY StepInMode, TurnStepForm DEF StartOff, OffStopsHue, StartOn, StartRefresh, MoveStop,
     StartHue, BringUp, Plan, PlanNothing, RefreshAfterMove, HueSettled, Opens
<1> USE DEF LocalsInv, KindWanted, HasRun, RanRuns, EndedDark, Settling, Applying,
        Closing, Step
<1>2. CASE StartOff(c) \/ OffStopsHue(c)
  BY <1>2 DEF StartOff, OffStopsHue
<1>3. CASE StartOn(c)
  <2>1. tx'.kind = tx'.want.kind /\ at' \in Settling
    BY <1>3, NewTxTypes, NewTxIs DEF StartOn, TxLocals
  <2>2. QED BY <2>1
<1>4. CASE StartRefresh(c)
  BY <1>1, <1>4 DEF StartRefresh, Opens
<1>5. CASE MoveStop(c) \/ StartHue(c) \/ BringUp(c)
  <2>1. /\ at \in Settling /\ at' \in Settling
        /\ tx'.kind = tx.kind /\ tx'.want = tx.want
    BY <1>5 DEF MoveStop, StartHue, BringUp, TxLocals
  <2>2. QED BY <1>1, <2>1
<1>6. CASE Plan(c)
  <2>1. /\ at \in Settling /\ at' \in {"ran", "apply"} /\ running' = running
        /\ tx'.kind = tx.kind /\ tx'.want = tx.want /\ Origin(c) # "settings"
        /\ at' = "ran" => tx.want.kind = tx.was.kind
    BY <1>6 DEF Plan, HueSettled, TxLocals, Unchanged, modeVars
  <2>2. InMode => tx.was = running
    BY <2>1 DEF LightsInv, WasRuns
  <2>3. QED BY <1>1, <2>1, <2>2
<1>7. CASE PlanNothing(c) \/ RefreshAfterMove(c)
  <2>1. /\ at \in Settling /\ at' \in {"refuse", "endMode", "apply"}
        /\ tx'.kind = tx.kind /\ tx'.want = tx.want
    BY <1>7 DEF PlanNothing, RefreshAfterMove, HueSettled, TxLocals
  <2>2. QED BY <1>1, <2>1
<1>8. QED
  BY <1>2, <1>3, <1>4, <1>5, <1>6, <1>7

LEMMA LocalsApply ==
  ASSUME NEW c \in Calls, TurnStep(c), CallInv, LightsInv, LocalsInv,
         \/ ApplyGated(c) \/ ApplyRuns(c) \/ ApplyFails(c) \/ FallBackToUsb(c)
         \/ FallBackToHue(c) \/ TryAgain(c) \/ Judge(c) \/ Ran(c) \/ Refuse(c)
         \/ EndMode(c) \/ HueDown(c)
  PROVE  LocalsInv'
<1> USE CallsAssumption DEF CallInv, TypeOK, TurnTypes, On, Refreshes
<1>1. /\ turn = c /\ turn' = c
      /\ Origin(turn)' = Origin(c) /\ Origin(c)' = Origin(c)
      /\ InMode' <=> InMode
  BY StepInMode, TurnStepForm DEF ApplyGated, ApplyRuns, ApplyFails, FallBackToUsb,
     FallBackToHue, TryAgain, Judge, Ran, Refuse, EndMode, HueDown
<1> USE DEF LocalsInv, KindWanted, HasRun, RanRuns, EndedDark, Settling, Applying,
        Closing, Step
<1>2. CASE ApplyGated(c)
  BY <1>1, <1>2 DEF ApplyGated, GateCodes, TxLocals
<1>3. CASE ApplyRuns(c)
  <2>1. /\ tx'.kind = tx.kind /\ tx'.want = tx.want /\ running'.kind = tx.kind
        /\ at = "apply" /\ at' = "judge"
    BY <1>3 DEF ApplyRuns, TxLocals
  <2>2. QED BY <1>1, <2>1
<1>4. CASE ApplyFails(c)
  <2>1. PICK code \in ApplyFaults \ GateCodes :
           Step("judge", [tx EXCEPT !.code = code, !.after = OffMode])
    BY <1>4 DEF ApplyFails
  <2>2. /\ tx'.kind = tx.kind /\ tx'.want = tx.want /\ tx'.code # "ok"
        /\ at = "apply" /\ at' = "judge"
    BY <1>4, <2>1, OutcomesAssumption DEF ApplyFails, TxLocals, AllApplyFaults
  <2>3. QED BY <1>1, <2>2
<1>5. CASE FallBackToUsb(c) \/ TryAgain(c) \/ Judge(c)
  <2>1. /\ tx'.kind = tx.kind /\ tx'.want = tx.want /\ running' = running
        /\ at \in Applying /\ at' \in Applying \cup {"ran", "refuse"}
        /\ at' # "judge" /\ (at' = "ran" => at = "judge" /\ tx.code = "ok")
    BY <1>5 DEF FallBackToUsb, TryAgain, Judge, TxLocals, modeVars
  <2>2. QED BY <1>1, <2>1
<1>6. CASE FallBackToHue(c)
  <2>1. /\ tx'.kind = tx.kind /\ tx'.want = tx.want /\ running' = running
        /\ at = "judge" /\ at' \in {"ran", "recheck"}
        /\ at' = "ran" => /\ tx.code = "DEVICE_NOT_CONNECTED"
                          /\ tx.was.kind = tx.kind /\ tx.on = Outputs
    BY <1>6 DEF FallBackToHue, Beside, TxLocals
  <2>2. InMode /\ at' = "ran" => running.kind = tx.kind
    BY <2>1 DEF LightsInv, WasRuns, GateCodes
  <2>3. QED BY <1>1, <2>1, <2>2
<1>7. CASE Ran(c)
  <2>1. /\ tx'.kind = tx.kind /\ tx'.want = tx.want /\ running' = running
        /\ at = "ran" /\ at' \in {"down", "finish"} /\ tx'.end = "ran"
    BY <1>7 DEF Ran, TxLocals
  <2>2. QED BY <1>1, <2>1
<1>8. CASE Refuse(c)
  <2>1. /\ tx'.kind = tx.kind /\ tx'.want = tx.want
        /\ at = "refuse" /\ at' = "down" /\ tx'.end = "refused"
    BY <1>8 DEF Refuse, TxLocals
  <2>2. QED BY <1>1, <2>1
<1>9. CASE EndMode(c)
  <2>1. /\ tx'.kind = tx.kind /\ tx'.want = tx.want
        /\ at = "endMode" /\ at' = "down" /\ tx'.end = "ended"
    BY <1>9 DEF EndMode, TxLocals
  <2>2. InMode => running'.kind = "Off"
    BY <1>9 DEF EndMode, LightsInv, WasRuns, Lit, LightsStopped, OffMode
  <2>3. QED BY <1>1, <2>1, <2>2
<1>10. CASE HueDown(c)
  BY <1>1, <1>10 DEF HueDown, modeVars
<1>11. QED
  BY <1>2, <1>3, <1>4, <1>5, <1>6, <1>7, <1>8, <1>9, <1>10

LEMMA LocalsKept ==
  ASSUME CallInv, LeaseInv, LightsInv, LocalsInv, [Next]_vars
  PROVE  LocalsInv'
<1> USE CallsAssumption
<1>1. ASSUME NEW c \in Calls, Arrival(c)
      PROVE  LocalsInv'
  <2>1. UNCHANGED <<running, closing, turnVars>> /\ turn # c
    BY <1>1, ArrivalForm DEF CallInv, TypeOK, TurnsInOrder, TurnHeld
  <2>2. (InMode' <=> InMode) /\ (Refreshes' <=> Refreshes)
    BY <1>1, <2>1, ArrivalForm DEF CallInv, TypeOK, TurnTypes, turnVars, InMode, Leasing,
       Origin, Refreshes
  <2>3. QED
    BY <2>1, <2>2 DEF LocalsInv, KindWanted, HasRun, RanRuns, EndedDark, turnVars
<1>2. ASSUME NEW c \in Calls, TurnStep(c)
      PROVE  LocalsInv'
  <2>1. CASE at' \in {"idle", "begin", "leaseStop"}
    BY <2>1 DEF LocalsInv, KindWanted, HasRun, RanRuns, EndedDark, Settling, Applying,
       Closing
  <2>2. CASE LeaseStarts(c)
    <3>1. ~InMode'
      BY <2>2 DEF LeaseStarts, Step, End, InMode, Leasing, Origin, On
    <3>2. QED BY <3>1 DEF LocalsInv, KindWanted, RanRuns, EndedDark
  <2>3. CASE at' \notin {"idle", "begin", "leaseStop"} /\ ~LeaseStarts(c)
    <3>1. \/ StartOff(c) \/ OffStopsHue(c) \/ StartOn(c) \/ StartRefresh(c)
          \/ MoveStop(c) \/ StartHue(c) \/ BringUp(c) \/ Plan(c) \/ PlanNothing(c)
          \/ RefreshAfterMove(c) \/ ApplyGated(c) \/ ApplyRuns(c) \/ ApplyFails(c)
          \/ FallBackToUsb(c) \/ FallBackToHue(c) \/ TryAgain(c) \/ Judge(c) \/ Ran(c)
          \/ Refuse(c) \/ EndMode(c) \/ HueDown(c)
      BY <1>2, <2>3 DEF TurnStep, TakeTurn, Overtaken, NothingToDo, ShuttingDown,
         ReleaseWhileOff, OffOvertaken, FinishOff, CalibrationRequired, HueOvertaken,
         FallBackOvertaken, ApplyShutDown, FinishRan, FinishRefused, FinishEnded,
         LeaseSettled, LeaseIsUp, LeaseGivesBack, LeaseStops, Step, End, turnVars,
         CallInv, TurnsInOrder
    <3>2. QED BY <1>2, <3>1, LocalsSettle, LocalsApply
  <2>4. QED BY <2>1, <2>2, <2>3
<1>3. ASSUME Quit \/ Environment \/ UNCHANGED vars
      PROVE  LocalsInv'
  <2>1. UNCHANGED <<callVars, turnVars>>
        /\ (closing' = "no" => closing = "no" /\ running' = running)
    BY <1>3, OutsideForm, OutsideStream
  <2>2. QED
    BY <2>1 DEF LocalsInv, KindWanted, HasRun, RanRuns, EndedDark, Refreshes, Origin,
       InMode, Leasing, callVars, turnVars
<1>4. QED
  BY <1>1, <1>2, <1>3 DEF Next, Rest

(* What no turn holds is changed by an arrival only if a newer call is then
   expected. *)
LEMMA ArrivalExpects ==
  ASSUME NEW c \in Calls, CallInv, WrittenAway, ArrivesAlone, Arrival(c)
  PROVE  Expected' \/ (~Expected /\ intent'.kind = intent.kind)
<1> USE DEF CallInv, TypeOK, CallTypes
<1>1. Owed \/ latest' # latest => Owed'
  BY ArrivalOwes
<1>2. CASE LeaveArrives(c) \/ ReturnArrives(c)
  <2>1. pc'[c] = "written"
    BY <1>2 DEF LeaveArrives, ReturnArrives, Goto
  <2>2. QED BY <2>1 DEF Expected
<1>3. CASE Record(c)
  <2>1. Due(c)
    BY <1>3 DEF Record, ArrivesAlone, Due, Movers
  <2>2. QED BY <1>1, <2>1 DEF Expected, Owed
<1>4. CASE AwayTicket(c)
  BY <1>1, <1>4 DEF AwayTicket, IssueTicket, CalmTypes, Expected
<1>5. CASE ~LeaveArrives(c) /\ ~ReturnArrives(c) /\ ~Record(c) /\ ~AwayTicket(c)
  <2>1. \A d \in Calls : pc[d] = "written" => pc'[d] = "written"
    BY <1>5 DEF Arrival, Arrive, SaveTargets, ReleaseArrives, ReleaseRecords,
       SettingsSaved, RefreshArrives, JoinArrives, LeaseArrives, Enqueue, Asks, Answer,
       Goto
  <2>2. intent'.kind = intent.kind
    BY <1>5 DEF Arrival, Arrive, SaveTargets, ReleaseArrives, ReleaseRecords,
       SettingsSaved, RefreshArrives, JoinArrives, LeaseArrives, Enqueue, inputVars,
       ModeTypes, Intents
  <2>3. QED BY <1>1, <2>1, <2>2 DEF Expected
<1>6. QED BY <1>2, <1>3, <1>4, <1>5

LEMMA TurnExpects ==
  ASSUME NEW c \in Calls, CallInv, TurnStep(c), Expected
  PROVE  Expected' \/ (TakeTurn(c) /\ Origin(c) \in Movers)
<1>1. \A d \in Calls : pc[d] = "written" => pc'[d] = "written"
  BY TurnStepForm, HeadWaits DEF CallInv, TypeOK, CallTypes, TurnsInOrder, TurnHeld,
     TakeTurn, Overtaken, Holds, Step, End, Answer, Goto
<1>2. QED BY <1>1, TurnOwes DEF Expected

(* The steps that end a turn are the ones that write the kind of the intent. *)
LEMMA KindKept ==
  ASSUME NEW c \in Calls, CallInv, TurnStep(c), ~FinishRefused(c), ~FinishEnded(c),
         ~CalibrationRequired(c)
  PROVE  intent'.kind = intent.kind
<1> USE DEF CallInv, TypeOK, ModeTypes, Intents
<1>1. CASE FinishOff(c) \/ FinishRan(c)
  BY <1>1 DEF FinishOff, FinishRan, PutBack
<1>2. CASE Ran(c) \/ RefreshAfterMove(c) \/ FallBackToHue(c)
  BY <1>2 DEF Ran, RefreshAfterMove, FallBackToHue
<1>3. CASE /\ ~FinishOff(c) /\ ~FinishRan(c) /\ ~Ran(c) /\ ~RefreshAfterMove(c)
           /\ ~FallBackToHue(c)
  <2>1. intent' = intent
    BY <1>3 DEF TurnStep, TakeTurn, Overtaken, NothingToDo, ShuttingDown,
       ReleaseWhileOff, StartOff, OffOvertaken, OffStopsHue, StartOn, StartRefresh,
       MoveStop, StartHue, BringUp, HueOvertaken, Plan, PlanNothing, ApplyGated,
       ApplyRuns, ApplyFails, FallBackToUsb, FallBackOvertaken, TryAgain,
       ApplyShutDown, Judge, Refuse, EndMode, HueDown, LeaseSettled, LeaseStarts,
       LeaseIsUp, LeaseGivesBack, LeaseStops, modeVars, inputVars
  <2>2. QED BY <2>1
<1>4. QED BY <1>1, <1>2, <1>3

LEMMA WantsIntentKept ==
  ASSUME CallInv, LeaseInv, OwedInv, IntentInv, [Next]_vars
  PROVE  WantsIntent'
<1> USE CallsAssumption DEF IntentInv, WantsIntent
<1>1. ASSUME NEW c \in Calls, Arrival(c)
      PROVE  WantsIntent'
  <2>1. UNCHANGED <<running, closing, turnVars>> /\ turn # c
    BY <1>1, ArrivalForm DEF CallInv, TypeOK, TurnsInOrder, TurnHeld
  <2>2. InMode' <=> InMode
    BY <1>1, <2>1, ArrivalForm DEF CallInv, TypeOK, TurnTypes, turnVars, InMode, Leasing,
       Origin
  <2>3. QED BY <1>1, <2>1, <2>2, ArrivalExpects DEF OwedInv, Carried, turnVars
<1>2. ASSUME NEW c \in Calls, TurnStep(c)
      PROVE  WantsIntent'
  <2> USE DEF CallInv, TypeOK, TurnTypes, Settling, Applying
  <2>1. CASE at' \in {"idle", "begin", "leaseStop"}
    BY <2>1 DEF Carried
  <2>2. CASE LeaseStarts(c)
    BY <2>2 DEF LeaseStarts, Step, End, InMode, Leasing, Origin, On
  <2>3. CASE at' \notin {"idle", "begin", "leaseStop"} /\ ~LeaseStarts(c)
    <3>1. \/ StartOff(c) \/ OffStopsHue(c) \/ StartOn(c) \/ StartRefresh(c)
          \/ MoveStop(c) \/ StartHue(c) \/ BringUp(c) \/ Plan(c) \/ PlanNothing(c)
          \/ RefreshAfterMove(c) \/ ApplyGated(c) \/ ApplyRuns(c) \/ ApplyFails(c)
          \/ FallBackToUsb(c) \/ FallBackToHue(c) \/ TryAgain(c) \/ Judge(c) \/ Ran(c)
          \/ Refuse(c) \/ EndMode(c) \/ HueDown(c)
      BY <1>2, <2>3 DEF TurnStep, TakeTurn, Overtaken, NothingToDo, ShuttingDown,
         ReleaseWhileOff, OffOvertaken, FinishOff, CalibrationRequired, HueOvertaken,
         FallBackOvertaken, ApplyShutDown, FinishRan, FinishRefused, FinishEnded,
         LeaseSettled, LeaseIsUp, LeaseGivesBack, LeaseStops, Step, End, turnVars,
         TurnsInOrder
    <3>2. turn = c /\ turn' = c /\ (InMode' <=> InMode) /\ (Expected => Expected')
      BY <1>2, <2>3, StepInMode, TurnStepForm, TurnExpects DEF TakeTurn, Overtaken,
         Holds, End, turnVars, TurnsInOrder
    <3>3. intent'.kind = intent.kind
      BY <1>2, <2>3, KindKept DEF FinishRefused, FinishEnded, CalibrationRequired, End
    <3>4. CASE StartOff(c) \/ OffStopsHue(c)
      BY <3>4 DEF StartOff, OffStopsHue, Step, Carried
    <3>5. CASE StartOn(c)
      <4>1. tx'.kind = intent.kind
        BY <3>5, NewTxTypes, NewTxIs DEF StartOn, Step, TxLocals
      <4>2. QED BY <3>3, <4>1
    <3>6. CASE StartRefresh(c)
      <4>1. tx'.kind = running.kind
        BY <3>6, NewTxTypes DEF StartRefresh, Step, TxLocals
      <4>2. intent.kind = running.kind \/ Expected
        BY <3>2, <3>6 DEF StartRefresh, Opens, On, Follows, WillFollow, Movers, Closing
      <4>3. QED BY <3>2, <3>3, <4>1, <4>2
    <3>7. CASE Ran(c)
      <4>1. tx'.kind = tx.kind /\ at = "ran"
        BY <3>7 DEF Ran, Step, On, TxLocals
      <4>2. QED BY <3>2, <3>3, <4>1 DEF Carried
    <3>8. CASE HueDown(c)
      BY <3>2, <3>3, <3>8 DEF HueDown, Step, On, Carried
    <3>9. CASE Refuse(c) \/ EndMode(c)
      <4>1. at' = "down" /\ tx'.end # "ran"
        BY <3>9 DEF Refuse, EndMode, Step, TxLocals
      <4>2. QED BY <4>1 DEF Carried
    <3>10. CASE \/ MoveStop(c) \/ StartHue(c) \/ BringUp(c) \/ Plan(c) \/ PlanNothing(c)
                \/ RefreshAfterMove(c)
      <4>1. tx'.kind = tx.kind /\ at \in Settling
        BY <3>10 DEF MoveStop, StartHue, BringUp, Plan, PlanNothing, RefreshAfterMove,
           HueSettled, Step, On, TxLocals
      <4>2. QED BY <3>2, <3>3, <4>1 DEF Carried
    <3>11. CASE \/ ApplyGated(c) \/ ApplyRuns(c) \/ ApplyFails(c) \/ FallBackToUsb(c)
                \/ FallBackToHue(c) \/ TryAgain(c) \/ Judge(c)
      <4>1. tx'.kind = tx.kind /\ at \in Applying
        BY <3>11 DEF ApplyGated, ApplyRuns, ApplyFails, FallBackToUsb, FallBackToHue,
           TryAgain, Judge, Step, On, TxLocals
      <4>2. QED BY <3>2, <3>3, <4>1 DEF Carried
    <3>12. QED
      BY <3>1, <3>4, <3>5, <3>6, <3>7, <3>8, <3>9, <3>10, <3>11
  <2>4. QED BY <2>1, <2>2, <2>3
<1>3. ASSUME Quit \/ Environment \/ UNCHANGED vars
      PROVE  WantsIntent'
  <2>1. UNCHANGED <<callVars, turnVars, intent>> /\ (Owed => Owed')
        /\ (closing' = "no" => closing = "no")
    BY <1>3, OutsideForm, OutsideOwes, OutsideStream DEF Quit, QuitMarks,
       QuitStopsLighting, QuitStopsHue, Environment, StreamDrops, StripChanges,
       AreaSaved, Happens, Reconnects, modeVars, vars
  <2>2. QED
    BY <2>1 DEF Carried, Expected, Origin, InMode, Leasing, callVars, turnVars
<1>4. QED
  BY <1>1, <1>2, <1>3 DEF Next, Rest

LEMMA FollowsKept ==
  ASSUME \A r \in Requests : r.origin # "release",
         CallInv, LeaseInv, OwedInv, LightsInv, Requested, IntentInv, [Next]_vars
  PROVE  Follows'
<1> USE CallsAssumption DEF IntentInv, Follows
<1>1. ASSUME NEW c \in Calls, Arrival(c)
      PROVE  Follows'
  <2>1. UNCHANGED <<running, closing, turnVars>> /\ turn # c
    BY <1>1, ArrivalForm DEF CallInv, TypeOK, TurnsInOrder, TurnHeld
  <2>2. /\ InMode' <=> InMode
        /\ turn # "nobody" => Origin(turn)' = Origin(turn)
    BY <1>1, <2>1, ArrivalForm DEF CallInv, TypeOK, TurnTypes, turnVars, InMode, Leasing,
       Origin
  <2>3. WillFollow => WillFollow'
    BY <2>1, <2>2 DEF WillFollow, InMode, turnVars
  <2>4. QED BY <1>1, <2>1, <2>3, ArrivalExpects DEF OwedInv
<1>2. ASSUME NEW c \in Calls, TurnStep(c)
      PROVE  Follows'
  <2> USE DEF CallInv, On
  <2>1. closing' = closing
    BY <1>2, TurnCalm
  <2>2. CASE TakeTurn(c) \/ Overtaken(c)
    <3>1. turn = "nobody" /\ intent' = intent /\ running' = running
      BY <2>2 DEF TakeTurn, Overtaken, inputVars
    <3>2. CASE TakeTurn(c) /\ Origin(c) \in Movers
      BY <2>1, <3>2 DEF TakeTurn, WillFollow, InMode, Leasing, Origin, Movers
    <3>3. CASE ~(TakeTurn(c) /\ Origin(c) \in Movers)
      BY <1>2, <2>1, <3>1, <3>3, TurnExpects DEF WillFollow, InMode
    <3>4. QED BY <3>2, <3>3
  <2>3. CASE Holds(c) /\ Expected
    BY <1>2, <2>3, TurnExpects DEF TakeTurn, Holds
  <2>4. CASE Holds(c) /\ ~Expected /\ closing = "no"
    <3>1. intent.kind # running.kind => WillFollow
      BY <2>4
    <3>2. turn = c /\ (~Leasing(c) => ~Superseded(c))
      BY <2>4 DEF Holds, OwedInv, NewerOwed, Expected
    <3>3. CASE at' \in Settling \cup Applying \cup Closing /\ ~LeaseStarts(c)
      <4>1. ~Leasing(c) /\ turn' = c
        <5>1. CASE at = "begin"
          BY <1>2, <2>4, <3>3, <5>1 DEF Holds, Step, End, TurnStep, TakeTurn, Overtaken,
             StartOff, StartOn, StartRefresh, Opens, TxOrigins, Leasing, NothingToDo,
             ShuttingDown, ReleaseWhileOff, OffOvertaken, OffStopsHue, FinishOff,
             CalibrationRequired, MoveStop, StartHue, BringUp, HueOvertaken, Plan,
             PlanNothing, RefreshAfterMove, HueSettled, ApplyGated, ApplyRuns,
             ApplyFails, FallBackToUsb, FallBackToHue, FallBackOvertaken, TryAgain,
             ApplyShutDown, Judge, Ran, Refuse, EndMode, HueDown, FinishRan,
             FinishRefused, FinishEnded, LeaseSettled, LeaseIsUp, LeaseGivesBack,
             LeaseStops, Settling, Applying, Closing
        <5>2. CASE at # "begin"
          BY <1>2, <2>4, <3>2, <3>3, <5>2 DEF LeaseInv, LeaseTurns, Holds, Step, End,
             TurnStep, TakeTurn, Overtaken, StartOff, StartOn, StartRefresh, Opens,
             NothingToDo, ShuttingDown, ReleaseWhileOff, OffOvertaken, OffStopsHue,
             FinishOff, CalibrationRequired, MoveStop, StartHue, BringUp, HueOvertaken,
             Plan, PlanNothing, RefreshAfterMove, HueSettled, ApplyGated, ApplyRuns,
             ApplyFails, FallBackToUsb, FallBackToHue, FallBackOvertaken, TryAgain,
             ApplyShutDown, Judge, Ran, Refuse, EndMode, HueDown, FinishRan,
             FinishRefused, FinishEnded, LeaseSettled, LeaseIsUp, LeaseGivesBack,
             LeaseStops, Settling, Applying, Closing
        <5>3. QED BY <5>1, <5>2
      <4>2. InMode'
        BY <2>1, <2>4, <3>2, <3>3, <4>1 DEF Holds, Step, End, InMode, Leasing, Origin,
           Settling, Applying, Closing
      <4>3. QED BY <3>3, <4>2 DEF WillFollow
    <3>4. CASE StartOff(c)
      BY <3>4 DEF StartOff, LightsStopped, OffMode, Lit
    <3>5. CASE CalibrationRequired(c)
      BY <3>5 DEF CalibrationRequired, Settled, TypeOK, ModeTypes, Intents
    <3>6. CASE FinishRan(c)
      <4>1. InMode
        BY <2>4, <3>2, <3>6 DEF FinishRan, InMode, LeaseInv, LeaseTurns
      <4>2. intent.kind = running.kind
        BY <2>4, <3>6, <4>1 DEF FinishRan, WantsIntent, Carried, LocalsInv, RanRuns, HasRun
      <4>3. QED BY <3>6, <4>2 DEF FinishRan, TypeOK, ModeTypes, Intents
    <3>7. CASE FinishRefused(c)
      <4>1. InMode
        BY <2>4, <3>2, <3>7 DEF FinishRefused, InMode, LeaseInv, LeaseTurns
      <4>2. tx.after = running
        BY <3>7, <4>1 DEF FinishRefused, LightsInv, AfterRuns, Closing
      <4>3. QED
        BY <3>7, <4>2 DEF FinishRefused, Settled, TypeOK, ModeTypes, Intents
    <3>8. CASE FinishEnded(c)
      <4>1. InMode
        BY <2>4, <3>2, <3>8 DEF FinishEnded, InMode, LeaseInv, LeaseTurns
      <4>2. running.kind = "Off"
        BY <3>8, <4>1 DEF FinishEnded, LocalsInv, EndedDark
      <4>3. QED
        BY <3>8, <4>2 DEF FinishEnded, TypeOK, ModeTypes, Intents
    <3>9. CASE \/ NothingToDo(c) \/ ShuttingDown(c) \/ ReleaseWhileOff(c)
               \/ OffOvertaken(c) \/ HueOvertaken(c) \/ FallBackOvertaken(c)
               \/ ApplyShutDown(c) \/ OffStopsHue(c) \/ FinishOff(c)
               \/ LeaseSettled(c) \/ LeaseStarts(c) \/ LeaseIsUp(c) \/ LeaseGivesBack(c)
               \/ LeaseStops(c)
      <4>1. ~WillFollow
        <5>1. CASE OffOvertaken(c) \/ HueOvertaken(c) \/ FallBackOvertaken(c)
          BY <2>4, <3>2, <5>1 DEF OffOvertaken, HueOvertaken, FallBackOvertaken, LeaseInv,
             LeaseTurns
        <5>2. CASE NothingToDo(c) \/ ShuttingDown(c)
          BY <2>4, <5>2 DEF NothingToDo, NothingDue, ShuttingDown, WillFollow, Movers,
             Settling, Applying, Closing
        <5>3. CASE ReleaseWhileOff(c)
          BY <5>3, NoRequestOfNone DEF ReleaseWhileOff, Opens, Requested, Origin
        <5>4. CASE ApplyShutDown(c)
          BY <2>4, <5>4 DEF ApplyShutDown, LightsInv, OnlyClosing
        <5>5. CASE OffStopsHue(c) \/ FinishOff(c)
          BY <5>5 DEF OffStopsHue, FinishOff, WillFollow, Settling, Applying, Closing
        <5>6. CASE \/ LeaseSettled(c) \/ LeaseStarts(c) \/ LeaseIsUp(c)
                   \/ LeaseGivesBack(c) \/ LeaseStops(c)
          BY <3>2, <5>6 DEF LeaseSettled, LeaseStarts, LeaseIsUp, LeaseGivesBack,
             LeaseStops, WillFollow, InMode, Leasing, Settling, Applying, Closing
        <5>7. QED BY <3>9, <5>1, <5>2, <5>3, <5>4, <5>5, <5>6
      <4>2. intent'.kind = intent.kind
        <5>1. CASE FinishOff(c)
          BY <5>1 DEF FinishOff, PutBack, TypeOK, ModeTypes, Intents
        <5>2. CASE ~FinishOff(c)
          BY <3>9, <5>2 DEF NothingToDo, ShuttingDown, ReleaseWhileOff, OffOvertaken,
             HueOvertaken, FallBackOvertaken, ApplyShutDown, OffStopsHue, LeaseSettled,
             LeaseStarts, LeaseIsUp, LeaseGivesBack, LeaseStops, modeVars
        <5>3. QED BY <5>1, <5>2
      <4>3. running' = running
        BY <3>9 DEF NothingToDo, ShuttingDown, ReleaseWhileOff,
           OffOvertaken, HueOvertaken, FallBackOvertaken, ApplyShutDown, OffStopsHue,
           FinishOff, LeaseSettled, LeaseStarts, LeaseIsUp, LeaseGivesBack, LeaseStops,
           modeVars
      <4>4. QED BY <3>1, <4>1, <4>2, <4>3
    <3>10. \/ at' \in Settling \cup Applying \cup Closing \/ StartOff(c)
           \/ CalibrationRequired(c) \/ FinishRan(c) \/ FinishRefused(c)
           \/ FinishEnded(c) \/ NothingToDo(c) \/ ShuttingDown(c) \/ ReleaseWhileOff(c)
           \/ OffOvertaken(c) \/ HueOvertaken(c) \/ FallBackOvertaken(c)
           \/ ApplyShutDown(c) \/ OffStopsHue(c) \/ FinishOff(c)
           \/ LeaseSettled(c) \/ LeaseStarts(c) \/ LeaseIsUp(c) \/ LeaseGivesBack(c)
           \/ LeaseStops(c)
      BY <1>2, <2>4 DEF TurnStep, TakeTurn, Overtaken, Holds, StartOn, StartRefresh,
         MoveStop, StartHue, BringUp, Plan, PlanNothing, RefreshAfterMove, ApplyGated,
         ApplyRuns, ApplyFails, FallBackToUsb, FallBackToHue, TryAgain, Judge, Ran,
         Refuse, EndMode, HueDown, Step, End, Settling, Applying, Closing
    <3>11. QED BY <3>3, <3>4, <3>5, <3>6, <3>7, <3>8, <3>9, <3>10
  <2>5. CASE closing # "no"
    BY <2>1, <2>5
  <2>6. QED BY <1>2, <2>2, <2>3, <2>4, <2>5, TurnStepForm
<1>3. ASSUME Quit \/ Environment \/ UNCHANGED vars
      PROVE  Follows'
  <2>1. UNCHANGED <<callVars, turnVars, intent>> /\ (Owed => Owed')
        /\ (closing' = "no" => closing = "no" /\ running' = running)
    BY <1>3, OutsideForm, OutsideOwes, OutsideStream DEF Quit, QuitMarks,
       QuitStopsLighting, QuitStopsHue, Environment, StreamDrops, StripChanges,
       AreaSaved, Happens, Reconnects, modeVars, vars
  <2>2. QED
    BY <2>1 DEF WillFollow, Expected, Origin, InMode, Leasing, callVars, turnVars
<1>4. QED
  BY <1>1, <1>2, <1>3 DEF Next, Rest

LEMMA IntentInvAlways ==
  ASSUME CallsInOrder
  PROVE  Spec => [](CallInv /\ LeaseInv /\ OwedInv /\ LightsInv /\ Requested /\ IntentInv)
<1>1. ASSUME Init
      PROVE  Requested /\ IntentInv
  <2>1. /\ turn = "nobody" /\ intent.kind = running.kind
        /\ call = [c \in Calls |-> NoRequest] /\ pc = [c \in Calls |-> "new"]
    BY <1>1 DEF Init
  <2>2. QED
    BY <2>1 DEF Requested, IntentInv, ArrivesAlone, Arriving, LocalsInv, KindWanted,
       RanRuns, EndedDark, WantsIntent, Follows, InMode
<1>2. ASSUME CallInv, LeaseInv, OwedInv, LightsInv, Requested, IntentInv, [Next]_vars
      PROVE  Requested' /\ IntentInv'
  BY <1>2, RequestedKept, ArrivesAloneKept, LocalsKept, WantsIntentKept, FollowsKept
     DEF IntentInv, CallsInOrder
<1>3. QED
  BY <1>1, <1>2, OutcomeAlways, PTL DEF Spec

(* With every call answered the mode asked for is the mode that runs, however
   the calls overtook each other and whatever the hardware refused: as long as
   each writes its intent in the order of the tickets, and no release finds
   nothing running (settle_kind, end_mode, finish and the newest ticket). *)
THEOREM IntentIsWhatRuns ==
  ASSUME ~ArrivalsOverlap, \A r \in Requests : r.origin # "release"
  PROVE  Spec => []IntentFollowsWhatRan
<1>1. CallsInOrder
  BY DEF CallsInOrder
<1>2. CallInv /\ IntentInv => IntentFollowsWhatRan
  BY QuietOwesNothing DEF IntentFollowsWhatRan, IntentInv, Follows, WillFollow, InMode,
     Expected, Quiet, Waiting, Answers
<1>3. QED BY <1>1, <1>2, IntentInvAlways, PTL

-----------------------------------------------------------------------------
(* A deselected output goes dark *)

(* The intent names only outputs that are saved, or that the call arriving is
   about to save. *)
IntentSaved ==
  /\ \A d \in Calls : pc[d] = "unsaved" => intent.targets \subseteq call[d].targets
  /\ (\A d \in Calls : pc[d] # "unsaved") => intent.targets \subseteq saved.targets

(* What a turn wants, and what it runs on, is saved or a newer call changes it. *)
WantSaved == InMode /\ at \in Settling \cup Applying \cup Closing
               => tx.want.targets \subseteq saved.targets \/ Owed
OnSaved   == InMode /\ Refreshes /\ at \in Settling \cup Applying
               => tx.on \subseteq saved.targets \/ Owed
OnWanted  == InMode /\ ~Refreshes /\ at \in Applying
               => tx.on \subseteq tx.want.targets \/ Owed
RanWanted == InMode /\ ~Refreshes /\ (at = "ran" \/ (at = "judge" /\ tx.code = "ok"))
               => running.targets \subseteq tx.want.targets \/ Owed

(* The turn in hand comes to a mode on what it wants, or to none. *)
WillDarken == /\ InMode
              /\ \/ at = "begin" /\ Origin(turn) \in Movers
                 \/ /\ at \in Settling \cup Applying \cup {"ran", "refuse", "endMode"}
                    /\ ~Refreshes
LitIsSaved == closing = "no" /\ ~(running.targets \subseteq saved.targets)
                => Owed \/ WillDarken

SelectionSaved ==
  IntentSaved /\ WantSaved /\ OnSaved /\ OnWanted /\ RanWanted /\ LitIsSaved

(* What an unplug or a release keeps was the saved selection as it arrived. A
   choice that replaces it is newer, so a call it finds waiting is superseded,
   and one it finds in its turn ends before the choice does. *)
Replacing(e, c) == /\ Selects(call[e]) /\ ticket[e] > ticket[c]
                   /\ pc[e] \in {"ticketed", "unsaved", "recorded", "queued"}
KeptSaved == \A c \in Calls : KeepsSelection(c) /\ pc[c] # "releasing" =>
  \/ keep[c] \subseteq saved.targets
  \/ intent.older
  \/ IF turn = c THEN \E e \in Calls : Replacing(e, c) ELSE ticket[c] < latest

(* A selection is saved by the newest call that took a ticket. *)
TicketsPast == \A c \in Calls : ticket[c] <= latest
KeptBefore  == \A c, d \in Calls :
  pc[c] \in {"ticketed", "unsaved"} /\ d # c /\ KeepsSelection(d) => ticket[d] < ticket[c]
PhasesFit   == \A c \in Calls : /\ (pc[c] = "settling" => Origin(c) = "settings")
                               /\ (pc[c] = "unsaved" => Selects(call[c]))
TicketsInOrder == TicketsPast /\ KeptBefore /\ PhasesFit

SavedInv == TicketsInOrder /\ KeptSaved /\ (intent.older \/ SelectionSaved)

(* What the selection of a turn writes: what is saved of it no turn changes,
   and an older selection stays older until the next choice. *)
LEMMA SavedKept ==
  ASSUME NEW c \in Calls, CallInv, TurnStep(c)
  PROVE  saved'.targets = saved.targets /\ (intent.older => intent'.older)
<1> USE DEF CallInv, TypeOK, ModeTypes, Intents, Selections
<1>1. CASE FinishOff(c) \/ FinishRan(c) \/ FinishEnded(c)
  BY <1>1 DEF FinishOff, FinishRan, FinishEnded, PutBack
<1>2. CASE Ran(c) \/ RefreshAfterMove(c) \/ FallBackToHue(c)
  BY <1>2 DEF Ran, RefreshAfterMove, FallBackToHue
<1>3. CASE FinishRefused(c) \/ CalibrationRequired(c)
  BY <1>3 DEF FinishRefused, CalibrationRequired, Settled
<1>4. CASE /\ ~FinishOff(c) /\ ~FinishRan(c) /\ ~FinishEnded(c) /\ ~Ran(c)
           /\ ~RefreshAfterMove(c) /\ ~FallBackToHue(c) /\ ~FinishRefused(c)
           /\ ~CalibrationRequired(c)
  <2>1. intent' = intent /\ saved' = saved
    BY <1>4 DEF TurnStep, TakeTurn, Overtaken, NothingToDo, ShuttingDown,
       ReleaseWhileOff, StartOff, OffOvertaken, OffStopsHue, StartOn, StartRefresh,
       MoveStop, StartHue, BringUp, HueOvertaken, Plan, PlanNothing, ApplyGated,
       ApplyRuns, ApplyFails, FallBackToUsb, FallBackOvertaken, TryAgain,
       ApplyShutDown, Judge, Refuse, EndMode, HueDown, LeaseSettled, LeaseStarts,
       LeaseIsUp, LeaseGivesBack, LeaseStops, modeVars, inputVars
  <2>2. QED BY <2>1
<1>5. QED BY <1>1, <1>2, <1>3, <1>4

(* A turn only drops outputs from the selection, or puts back one that is
   saved, unless what it puts back has been replaced. *)
LEMMA TargetsShrink ==
  ASSUME NEW c \in Calls, CallInv, TurnStep(c), ~intent'.older, KeptSaved,
         TicketsInOrder, IntentSaved
  PROVE  \/ intent'.targets \subseteq intent.targets
         \/ /\ intent'.targets \subseteq saved.targets
            /\ \A d \in Calls : pc[d] # "unsaved"
<1> USE DEF CallInv, TypeOK, ModeTypes, Intents, Selections
<1>1. CASE (FinishOff(c) \/ FinishEnded(c)) /\ intent'.targets # intent.targets
  <2>1. KeepsSelection(c) /\ turn = c /\ intent'.targets = keep[c]
    BY <1>1 DEF FinishOff, FinishEnded, PutBack, On
  <2>2. ~intent.older /\ ~NewerSelection(c)
    BY <1>1, <2>1 DEF FinishOff, FinishEnded, PutBack
  <2>3. pc[c] = "turn"
    BY <2>1 DEF TurnsInOrder, TurnHeld
  <2>4. keep[c] \subseteq saved.targets
    BY <2>1, <2>2, <2>3 DEF KeptSaved, Replacing, NewerSelection
  <2>5. \A d \in Calls : pc[d] # "unsaved"
    BY <2>1, <2>2, <2>3 DEF TicketsInOrder, KeptBefore, PhasesFit, NewerSelection
  <2>6. QED BY <2>1, <2>4, <2>5
<1>2. CASE FinishRan(c)
  BY <1>2 DEF FinishRan
<1>3. CASE Ran(c) \/ RefreshAfterMove(c) \/ FallBackToHue(c)
  BY <1>3 DEF Ran, RefreshAfterMove, FallBackToHue
<1>4. CASE FinishRefused(c) \/ CalibrationRequired(c)
  BY <1>4 DEF FinishRefused, CalibrationRequired, Settled
<1>5. CASE /\ ~FinishOff(c) /\ ~FinishRan(c) /\ ~FinishEnded(c) /\ ~Ran(c)
           /\ ~RefreshAfterMove(c) /\ ~FallBackToHue(c) /\ ~FinishRefused(c)
           /\ ~CalibrationRequired(c)
  <2>1. intent' = intent
    BY <1>5 DEF TurnStep, TakeTurn, Overtaken, NothingToDo, ShuttingDown,
       ReleaseWhileOff, StartOff, OffOvertaken, OffStopsHue, StartOn, StartRefresh,
       MoveStop, StartHue, BringUp, HueOvertaken, Plan, PlanNothing, ApplyGated,
       ApplyRuns, ApplyFails, FallBackToUsb, FallBackOvertaken, TryAgain,
       ApplyShutDown, Judge, Refuse, EndMode, HueDown, LeaseSettled, LeaseStarts,
       LeaseIsUp, LeaseGivesBack, LeaseStops, modeVars, inputVars
  <2>2. QED BY <2>1
<1>6. QED BY <1>1, <1>2, <1>3, <1>4, <1>5

LEMMA IntentSavedKept ==
  ASSUME CallInv, ArrivesAlone, TicketsInOrder, KeptSaved, IntentSaved, [Next]_vars,
         ~intent'.older
  PROVE  IntentSaved'
<1> USE DEF CallInv, TypeOK, CallTypes, ModeTypes, Intents, Selections
<1>1. ASSUME NEW c \in Calls, Arrival(c)
      PROVE  IntentSaved'
  <2> USE DEF Goto, Asks, NoArrival
  <2>1. ASSUME intent'.targets = intent.targets, saved'.targets = saved.targets,
               \A d \in Calls : pc'[d] = "unsaved" <=> pc[d] = "unsaved",
               \A d \in Calls : pc[d] = "unsaved" => call'[d] = call[d]
        PROVE  IntentSaved'
    BY <2>1 DEF IntentSaved
  <2>2. CASE Arrive(c) \/ ReleaseArrives(c) \/ LeaveArrives(c) \/ ReturnArrives(c)
    BY <2>1, <2>2 DEF Arrive, ReleaseArrives, LeaveArrives, ReturnArrives
  <2>3. CASE Record(c)
    <3>1. \A d \in Calls \ {c} : pc[d] # "unsaved" /\ pc'[d] = pc[d]
      BY <2>3 DEF Record, ArrivesAlone, Arriving
    <3>2. /\ Origin(c) \in {"user", "unplug"} /\ saved' = saved /\ call' = call
          /\ pc[c] = "ticketed" /\ (pc'[c] = "unsaved" <=> Selects(call[c]))
      BY <2>3 DEF Record, ArrivesAlone
    <3>3. CASE call[c].targets = Keep
      <4>1. intent'.targets = intent.targets /\ pc'[c] # "unsaved"
        BY <2>3, <3>2, <3>3 DEF Record, Selects
      <4>2. QED BY <3>1, <3>2, <4>1 DEF IntentSaved
    <3>4. CASE call[c].targets # Keep
      <4>1. intent'.targets = call[c].targets
        BY <2>3, <3>4 DEF Record
      <4>2. CASE Origin(c) = "user"
        BY <3>1, <3>2, <3>4, <4>1, <4>2 DEF IntentSaved, Selects, Origin
      <4>3. CASE Origin(c) = "unplug"
        <5>1. call[c].targets \subseteq saved.targets
          BY <2>3, <4>3 DEF Record, NamesOlder, Selects, Origin
        <5>2. QED BY <3>1, <3>2, <4>1, <4>3, <5>1 DEF IntentSaved, Selects, Origin
      <4>4. QED BY <3>2, <4>2, <4>3
    <3>5. QED BY <3>3, <3>4
  <2>4. CASE SaveTargets(c)
    <3>1. \A d \in Calls : pc'[d] # "unsaved"
      BY <2>4 DEF SaveTargets, ArrivesAlone, Arriving
    <3>2. QED BY <2>4, <3>1 DEF SaveTargets, IntentSaved
  <2>5. CASE ReleaseRecords(c)
    <3>1. \A d \in Calls : pc'[d] = "unsaved" <=> pc[d] = "unsaved"
      BY <2>5 DEF ReleaseRecords
    <3>2. QED BY <2>5, <3>1 DEF ReleaseRecords, IntentSaved
  <2>6. CASE AwayTicket(c) \/ Enqueue(c)
    BY <2>1, <2>6 DEF AwayTicket, Enqueue, inputVars
  <2>7. CASE SettingsSaved(c)
    BY <2>1, <2>7 DEF SettingsSaved
  <2>8. CASE RefreshArrives(c)
    BY <2>1, <2>8 DEF RefreshArrives, Answer, inputVars
  <2>9. CASE JoinArrives(c) \/ LeaseArrives(c)
    BY <2>1, <2>9 DEF JoinArrives, LeaseArrives, inputVars
  <2>10. QED
    BY <1>1, <2>2, <2>3, <2>4, <2>5, <2>6, <2>7, <2>8, <2>9 DEF Arrival
<1>2. ASSUME NEW c \in Calls, TurnStep(c)
      PROVE  IntentSaved'
  <2>1. /\ saved'.targets = saved.targets
        /\ \/ intent'.targets \subseteq intent.targets
           \/ /\ intent'.targets \subseteq saved.targets
              /\ \A d \in Calls : pc[d] # "unsaved"
    BY <1>2, TargetsShrink, SavedKept
  <2>2. \A d \in Calls : /\ pc'[d] = "unsaved" <=> pc[d] = "unsaved"
                         /\ pc[d] = "unsaved" => call'[d] = call[d]
    BY <1>2, TurnStepForm, HeadWaits DEF TurnsInOrder, TurnHeld, TakeTurn, Overtaken,
       Holds, Step, End, Answer, Goto, Answers
  <2>3. QED BY <2>1, <2>2 DEF IntentSaved
<1>3. ASSUME Quit \/ Environment \/ UNCHANGED vars
      PROVE  IntentSaved'
  <2>1. UNCHANGED <<intent, saved, pc, call>>
    BY <1>3, OutsideForm DEF Quit, QuitMarks, QuitStopsLighting, QuitStopsHue,
       Environment, StreamDrops, StripChanges, AreaSaved, Happens, Reconnects, modeVars,
       vars, callVars
  <2>2. QED BY <2>1 DEF IntentSaved
<1>4. QED
  BY <1>1, <1>2, <1>3 DEF Next, Rest

(* With nothing owed, every selection that was asked for has been saved. *)
LEMMA IntentIsSaved ==
  ASSUME ArrivesAlone, IntentSaved, ~Owed
  PROVE  intent.targets \subseteq saved.targets
BY DEF ArrivesAlone, IntentSaved, Owed, Due, Movers

LEMMA ArrivalSaves ==
  ASSUME NEW c \in Calls, CallInv, WrittenAway, ArrivesAlone, Arrival(c)
  PROVE  /\ saved'.targets = saved.targets \/ Owed'
         /\ Owed => Owed'
<1>1. Owed => Owed'
  BY ArrivalOwes
<1>2. CASE SaveTargets(c)
  <2>1. Owed
    BY <1>2 DEF SaveTargets, ArrivesAlone, Owed, Due, Movers
  <2>2. QED BY <1>1, <2>1
<1>3. CASE ~SaveTargets(c)
  <2>1. saved'.targets = saved.targets
    BY <1>3 DEF CallInv, TypeOK, ModeTypes, Selections, Arrival, Arrive, Record,
       ReleaseArrives, ReleaseRecords, LeaveArrives, ReturnArrives, AwayTicket,
       SettingsSaved, RefreshArrives, JoinArrives, LeaseArrives, Enqueue, inputVars
  <2>2. QED BY <1>1, <2>1
<1>4. QED BY <1>2, <1>3

(* What the turn wants, and what it runs on, through the steps before the
   apply. *)
SelectionInv == WantSaved /\ OnSaved /\ OnWanted /\ RanWanted

LEMMA SelectionSettles ==
  ASSUME NEW c \in Calls, TurnStep(c), CallInv, LeaseTurns, LightsInv, ArrivesAlone,
         SelectionSaved,
         \/ StartOff(c) \/ OffStopsHue(c) \/ StartOn(c) \/ StartRefresh(c)
         \/ MoveStop(c) \/ StartHue(c) \/ BringUp(c) \/ Plan(c) \/ PlanNothing(c)
         \/ RefreshAfterMove(c)
  PROVE  SelectionInv'
<1> USE CallsAssumption DEF CallInv, TypeOK, TurnTypes, On, Refreshes, SelectionSaved
<1>1. /\ turn = c /\ turn' = c /\ closing' = closing
      /\ Origin(turn)' = Origin(c) /\ Origin(c)' = Origin(c)
      /\ InMode' <=> InMode
  BY StepInMode, TurnStepForm DEF StartOff, OffStopsHue, StartOn, StartRefresh, MoveStop,
     StartHue, BringUp, Plan, PlanNothing, RefreshAfterMove, HueSettled, Opens
<1>2. Owed => Owed'
  BY <1>1, TurnOwes DEF TakeTurn
<1>3. saved'.targets = saved.targets
  BY SavedKept
<1>4. intent.targets \subseteq saved.targets \/ Owed
  BY IntentIsSaved
<1> USE DEF SelectionInv, WantSaved, OnSaved, OnWanted, RanWanted, Settling, Applying,
        Closing, Step
<1>5. CASE StartOff(c) \/ OffStopsHue(c)
  BY <1>5 DEF StartOff, OffStopsHue
<1>6. CASE StartOn(c)
  <2>1. tx'.want = intent /\ at' \in Settling /\ Origin(c) # "settings"
    BY <1>6, NewTxTypes, NewTxIs DEF StartOn, Opens, TxOrigins, TxLocals
  <2>2. QED BY <1>1, <1>2, <1>3, <1>4, <2>1
<1>7. CASE StartRefresh(c)
  <2>1. /\ tx'.want.targets = intent.targets /\ tx'.on = running.targets
        /\ at = "begin" /\ at' \in {"moveStop", "apply"} /\ closing = "no"
        /\ Origin(c) = "settings"
    BY <1>7, NewTxTypes, NewTxIs DEF StartRefresh, Opens, TxLocals, Intents, ModeTypes
  <2>2. running.targets \subseteq saved.targets \/ Owed
    BY <1>1, <2>1 DEF LitIsSaved, WillDarken, Movers
  <2>3. QED BY <1>1, <1>2, <1>3, <1>4, <2>1, <2>2
<1>8. CASE MoveStop(c) \/ StartHue(c) \/ BringUp(c)
  <2>1. /\ at \in Settling /\ at' \in Settling
        /\ tx'.want = tx.want /\ tx'.on = tx.on
    BY <1>8 DEF MoveStop, StartHue, BringUp, TxLocals
  <2>2. QED BY <1>1, <1>2, <1>3, <2>1
<1>9. CASE Plan(c)
  <2>1. /\ at \in Settling /\ at' \in {"ran", "apply"} /\ running' = running
        /\ tx'.want = tx.want /\ Origin(c) # "settings"
        /\ tx'.on \subseteq tx.want.targets
        /\ at' = "ran" => tx'.on = tx.was.targets
    BY <1>9 DEF Plan, HueSettled, WantsHue, TxLocals, Unchanged, modeVars
  <2>2. InMode => tx.was = running
    BY <2>1 DEF LightsInv, WasRuns
  <2>3. QED BY <1>1, <1>2, <1>3, <2>1, <2>2
<1>10. CASE PlanNothing(c)
  <2>1. /\ at \in Settling /\ at' \in {"refuse", "endMode"} /\ tx'.want = tx.want
    BY <1>10 DEF PlanNothing, HueSettled, TxLocals
  <2>2. QED BY <1>1, <1>2, <1>3, <2>1
<1>11. CASE RefreshAfterMove(c)
  <2>1. /\ at \in Settling /\ at' \in {"endMode", "apply"} /\ tx'.want = tx.want
        /\ Origin(c) = "settings" /\ tx'.on \subseteq tx.on
    BY <1>11 DEF RefreshAfterMove, HueSettled, TxLocals
  <2>2. QED BY <1>1, <1>2, <1>3, <2>1
<1>12. QED
  BY <1>5, <1>6, <1>7, <1>8, <1>9, <1>10, <1>11

LEMMA SelectionApplies ==
  ASSUME NEW c \in Calls, TurnStep(c), CallInv, LeaseTurns, LightsInv, SelectionSaved,
         \/ ApplyGated(c) \/ ApplyRuns(c) \/ ApplyFails(c) \/ FallBackToUsb(c)
         \/ FallBackToHue(c) \/ TryAgain(c) \/ Judge(c) \/ Ran(c) \/ Refuse(c)
         \/ EndMode(c) \/ HueDown(c)
  PROVE  SelectionInv'
<1> USE CallsAssumption DEF CallInv, TypeOK, TurnTypes, On, Refreshes, SelectionSaved
<1>1. /\ turn = c /\ turn' = c /\ closing' = closing
      /\ Origin(turn)' = Origin(c) /\ Origin(c)' = Origin(c)
      /\ InMode' <=> InMode
  BY StepInMode, TurnStepForm DEF ApplyGated, ApplyRuns, ApplyFails, FallBackToUsb,
     FallBackToHue, TryAgain, Judge, Ran, Refuse, EndMode, HueDown
<1>2. Owed => Owed'
  BY <1>1, TurnOwes DEF TakeTurn
<1>3. saved'.targets = saved.targets
  BY SavedKept
<1> USE DEF SelectionInv, WantSaved, OnSaved, OnWanted, RanWanted, Settling, Applying,
        Closing, Step
<1>4. CASE ApplyGated(c)
  <2>1. /\ tx'.want = tx.want /\ tx'.on = tx.on /\ tx'.code # "ok"
        /\ at = "apply" /\ at' = "judge"
    BY <1>4 DEF ApplyGated, GateCodes, TxLocals
  <2>2. QED BY <1>1, <1>2, <1>3, <2>1
<1>5. CASE ApplyRuns(c)
  <2>1. /\ tx'.want = tx.want /\ tx'.on = tx.on /\ running'.targets = tx.on
        /\ at = "apply" /\ at' = "judge"
    BY <1>5 DEF ApplyRuns, TxLocals
  <2>2. QED BY <1>1, <1>2, <1>3, <2>1
<1>6. CASE ApplyFails(c)
  <2>1. PICK code \in ApplyFaults \ GateCodes :
           Step("judge", [tx EXCEPT !.code = code, !.after = OffMode])
    BY <1>6 DEF ApplyFails
  <2>2. /\ tx'.want = tx.want /\ tx'.on = tx.on /\ tx'.code # "ok"
        /\ at = "apply" /\ at' = "judge"
    BY <1>6, <2>1, OutcomesAssumption DEF ApplyFails, TxLocals, AllApplyFaults
  <2>3. QED BY <1>1, <1>2, <1>3, <2>2
<1>7. CASE FallBackToUsb(c)
  <2>1. /\ tx'.want = tx.want /\ tx'.on \subseteq tx.on /\ Origin(c) # "settings"
        /\ at = "judge" /\ at' = "recheck"
    BY <1>7 DEF FallBackToUsb, Beside, Outputs, TxLocals
  <2>2. QED BY <1>1, <1>2, <1>3, <2>1
<1>8. CASE FallBackToHue(c)
  <2>1. /\ tx'.want = tx.want /\ tx'.on \subseteq tx.on /\ Origin(c) # "settings"
        /\ tx.on = Outputs /\ running' = running
        /\ at = "judge" /\ at' \in {"ran", "recheck"}
        /\ at' = "ran" => /\ tx.code = "DEVICE_NOT_CONNECTED"
                          /\ tx.was.targets = {"hue"}
    BY <1>8 DEF FallBackToHue, Beside, Outputs, TxLocals
  <2>2. InMode /\ at' = "ran" => running.targets \subseteq tx.on
    BY <2>1 DEF LightsInv, WasRuns, GateCodes, Outputs
  <2>3. QED BY <1>1, <1>2, <1>3, <2>1, <2>2
<1>9. CASE TryAgain(c) \/ Judge(c)
  <2>1. /\ tx' = tx /\ running' = running
        /\ at \in {"recheck", "judge"} /\ at' \in {"apply", "ran", "refuse"}
        /\ at' = "ran" => at = "judge" /\ tx.code = "ok"
    BY <1>9 DEF TryAgain, Judge, modeVars
  <2>2. QED BY <1>1, <1>2, <1>3, <2>1
<1>10. CASE Ran(c) \/ Refuse(c) \/ EndMode(c)
  <2>1. tx'.want = tx.want /\ at \in Closing /\ at' \in {"down", "finish"}
    BY <1>10 DEF Ran, Refuse, EndMode, TxLocals
  <2>2. QED BY <1>1, <1>2, <1>3, <2>1
<1>11. CASE HueDown(c)
  BY <1>1, <1>2, <1>3, <1>11 DEF HueDown
<1>12. QED
  BY <1>4, <1>5, <1>6, <1>7, <1>8, <1>9, <1>10, <1>11

LEMMA SelectionKept ==
  ASSUME CallInv, LeaseInv, OwedInv, LightsInv, ArrivesAlone, SelectionSaved, [Next]_vars
  PROVE  SelectionInv'
<1> USE CallsAssumption DEF SelectionInv, SelectionSaved
<1>1. ASSUME NEW c \in Calls, Arrival(c)
      PROVE  SelectionInv'
  <2>1. UNCHANGED <<running, closing, turnVars>> /\ turn # c
    BY <1>1, ArrivalForm DEF CallInv, TypeOK, TurnsInOrder, TurnHeld
  <2>2. (InMode' <=> InMode) /\ (Refreshes' <=> Refreshes)
    BY <1>1, <2>1, ArrivalForm DEF CallInv, TypeOK, TurnTypes, turnVars, InMode, Leasing,
       Origin, Refreshes
  <2>3. /\ saved'.targets = saved.targets \/ Owed'
        /\ Owed => Owed'
    BY <1>1, ArrivalSaves DEF OwedInv
  <2>4. QED
    BY <2>1, <2>2, <2>3 DEF WantSaved, OnSaved, OnWanted, RanWanted, turnVars
<1>2. ASSUME NEW c \in Calls, TurnStep(c)
      PROVE  SelectionInv'
  <2>1. CASE at' \in {"idle", "begin", "leaseStop"}
    BY <2>1 DEF WantSaved, OnSaved, OnWanted, RanWanted, Settling, Applying, Closing
  <2>2. CASE LeaseStarts(c)
    <3>1. ~InMode'
      BY <2>2 DEF LeaseStarts, Step, End, InMode, Leasing, Origin, On
    <3>2. QED BY <3>1 DEF WantSaved, OnSaved, OnWanted, RanWanted
  <2>3. CASE at' \notin {"idle", "begin", "leaseStop"} /\ ~LeaseStarts(c)
    <3>1. \/ StartOff(c) \/ OffStopsHue(c) \/ StartOn(c) \/ StartRefresh(c)
          \/ MoveStop(c) \/ StartHue(c) \/ BringUp(c) \/ Plan(c) \/ PlanNothing(c)
          \/ RefreshAfterMove(c) \/ ApplyGated(c) \/ ApplyRuns(c) \/ ApplyFails(c)
          \/ FallBackToUsb(c) \/ FallBackToHue(c) \/ TryAgain(c) \/ Judge(c) \/ Ran(c)
          \/ Refuse(c) \/ EndMode(c) \/ HueDown(c)
      BY <1>2, <2>3 DEF TurnStep, TakeTurn, Overtaken, NothingToDo, ShuttingDown,
         ReleaseWhileOff, OffOvertaken, FinishOff, CalibrationRequired, HueOvertaken,
         FallBackOvertaken, ApplyShutDown, FinishRan, FinishRefused, FinishEnded,
         LeaseSettled, LeaseIsUp, LeaseGivesBack, LeaseStops, Step, End, turnVars,
         CallInv, TurnsInOrder
    <3>2. QED BY <1>2, <3>1, SelectionSettles, SelectionApplies DEF LeaseInv
  <2>4. QED BY <2>1, <2>2, <2>3
<1>3. ASSUME Quit \/ Environment \/ UNCHANGED vars
      PROVE  SelectionInv'
  <2>1. UNCHANGED <<callVars, turnVars, saved>> /\ (Owed => Owed')
        /\ (closing' = "no" => closing = "no" /\ running' = running)
    BY <1>3, OutsideForm, OutsideOwes, OutsideStream DEF Quit, QuitMarks,
       QuitStopsLighting, QuitStopsHue, Environment, StreamDrops, StripChanges,
       AreaSaved, Happens, Reconnects, modeVars, vars
  <2>2. QED
    BY <2>1 DEF WantSaved, OnSaved, OnWanted, RanWanted, Refreshes, Origin, InMode,
       Leasing, callVars, turnVars
<1>4. QED
  BY <1>1, <1>2, <1>3 DEF Next, Rest

(* While nothing newer is owed, what runs beside the saved selection is on its
   way to the mode the turn wants, or to the end of what ran. *)
LEMMA LitSettles ==
  ASSUME NEW c \in Calls, TurnStep(c), CallInv, LeaseTurns, LightsInv, SelectionSaved, closing = "no", ~Owed,
         ~(running'.targets \subseteq saved'.targets),
         \/ StartOff(c) \/ OffStopsHue(c) \/ StartOn(c) \/ StartRefresh(c)
         \/ MoveStop(c) \/ StartHue(c) \/ BringUp(c) \/ Plan(c) \/ PlanNothing(c)
         \/ RefreshAfterMove(c)
  PROVE  WillDarken'
<1> USE CallsAssumption DEF CallInv, TypeOK, TurnTypes, On, Refreshes, SelectionSaved
<1>1. /\ turn = c /\ turn' = c /\ closing' = closing
      /\ Origin(turn)' = Origin(c) /\ Origin(c)' = Origin(c)
      /\ InMode' /\ InMode
  <2>1. turn = c /\ ~Leasing(c)
    BY DEF StartOff, OffStopsHue, StartOn, StartRefresh, MoveStop, StartHue, BringUp,
       Plan, PlanNothing, RefreshAfterMove, HueSettled, Opens, LeaseTurns, TxOrigins,
       Leasing
  <2>2. QED
    BY <2>1, StepInMode, TurnStepForm DEF StartOff, OffStopsHue, StartOn, StartRefresh,
       MoveStop, StartHue, BringUp, Plan, PlanNothing, RefreshAfterMove, HueSettled,
       Opens, InMode
<1>2. saved'.targets = saved.targets
  BY SavedKept
<1>3. running' = running => WillDarken
  BY <1>2 DEF LitIsSaved
<1> USE DEF Settling, Applying, Step
<1>4. CASE StartOff(c)
  BY <1>4 DEF StartOff, LightsStopped, OffMode, Lit, LightsInv, OffIsDark
<1>5. CASE OffStopsHue(c)
  BY <1>1, <1>3, <1>5 DEF OffStopsHue, modeVars, WillDarken
<1>6. CASE StartOn(c)
  BY <1>1, <1>6 DEF StartOn, Opens, TxOrigins, WillDarken
<1>7. CASE StartRefresh(c)
  BY <1>1, <1>3, <1>7 DEF StartRefresh, Opens, modeVars, WillDarken, Movers
<1>8. CASE MoveStop(c) \/ StartHue(c) \/ BringUp(c)
  <2>1. at \in Settling /\ at' \in Settling /\ running' = running
    BY <1>8 DEF MoveStop, StartHue, BringUp, modeVars
  <2>2. QED BY <1>1, <1>3, <2>1 DEF WillDarken
<1>9. CASE Plan(c) \/ PlanNothing(c)
  BY <1>1, <1>9 DEF Plan, PlanNothing, WillDarken
<1>10. CASE RefreshAfterMove(c)
  BY <1>1, <1>3, <1>10 DEF RefreshAfterMove, HueSettled, WillDarken
<1>11. QED
  BY <1>4, <1>5, <1>6, <1>7, <1>8, <1>9, <1>10

LEMMA LitApplies ==
  ASSUME NEW c \in Calls, TurnStep(c), CallInv, LeaseTurns, LightsInv, SelectionSaved, closing = "no", ~Owed,
         ~(running'.targets \subseteq saved'.targets),
         \/ ApplyGated(c) \/ ApplyRuns(c) \/ ApplyFails(c) \/ FallBackToUsb(c)
         \/ FallBackToHue(c) \/ TryAgain(c) \/ Judge(c) \/ Ran(c) \/ Refuse(c)
         \/ EndMode(c) \/ HueDown(c)
  PROVE  WillDarken'
<1> USE CallsAssumption DEF CallInv, TypeOK, TurnTypes, On, Refreshes, SelectionSaved
<1>1. /\ turn = c /\ turn' = c /\ closing' = closing
      /\ Origin(turn)' = Origin(c) /\ Origin(c)' = Origin(c)
      /\ InMode' /\ InMode
  <2>1. turn = c /\ at \in Applying \cup Closing
    BY DEF ApplyGated, ApplyRuns, ApplyFails, FallBackToUsb, FallBackToHue, TryAgain,
       Judge, Ran, Refuse, EndMode, HueDown, Applying, Closing
  <2>2. ~Leasing(c)
    BY <2>1 DEF LeaseTurns, Applying, Closing
  <2>3. QED
    BY <2>1, <2>2, StepInMode, TurnStepForm DEF InMode, ApplyGated, ApplyRuns,
       ApplyFails, FallBackToUsb, FallBackToHue, TryAgain, Judge, Ran, Refuse, EndMode,
       HueDown
<1>2. saved'.targets = saved.targets
  BY SavedKept
<1>3. running' = running => WillDarken
  BY <1>2 DEF LitIsSaved
<1> USE DEF Settling, Applying, Step
<1>4. CASE ApplyGated(c)
  <2>1. at = "apply" /\ at' = "judge" /\ running' = running
    BY <1>4 DEF ApplyGated, modeVars
  <2>2. QED BY <1>1, <1>3, <2>1 DEF WillDarken
<1>5. CASE ApplyRuns(c)
  <2>1. running'.targets = tx.on /\ at = "apply" /\ at' = "judge"
    BY <1>5 DEF ApplyRuns
  <2>2. ~Refreshes
    BY <1>1, <1>2, <2>1 DEF OnSaved
  <2>3. QED BY <1>1, <2>1, <2>2 DEF WillDarken
<1>6. CASE ApplyFails(c)
  <2>1. running' = OffMode
    BY <1>6 DEF ApplyFails
  <2>2. QED BY <2>1 DEF OffMode
<1>7. CASE FallBackToUsb(c) \/ FallBackToHue(c)
  BY <1>1, <1>7 DEF FallBackToUsb, FallBackToHue, Beside, WillDarken
<1>8. CASE TryAgain(c) \/ Judge(c)
  <2>1. /\ at \in {"recheck", "judge"} /\ at' \in {"apply", "ran", "refuse"}
        /\ running' = running
    BY <1>8 DEF TryAgain, Judge, modeVars
  <2>2. QED BY <1>1, <1>3, <2>1 DEF WillDarken
<1>9. CASE Ran(c)
  <2>1. at = "ran" /\ running' = running
    BY <1>9 DEF Ran
  <2>2. Refreshes \/ running.targets \subseteq saved.targets
    BY <1>1, <2>1 DEF RanWanted, WantSaved, Closing
  <2>3. QED BY <1>1, <1>2, <1>3, <2>1, <2>2 DEF WillDarken
<1>10. CASE Refuse(c)
  <2>1. tx.after = running /\ tx.want.targets \subseteq saved.targets
    BY <1>1, <1>10 DEF Refuse, LightsInv, AfterRuns, WantSaved, Closing
  <2>2. QED BY <1>2, <1>10, <2>1 DEF Refuse, StillWanted, LightsStopped, OffMode
<1>11. CASE EndMode(c)
  <2>1. tx.was = running
    BY <1>1, <1>11 DEF EndMode, LightsInv, WasRuns
  <2>2. QED
    BY <1>11, <2>1 DEF EndMode, LightsStopped, OffMode, Lit, LightsInv, OffIsDark
<1>12. CASE HueDown(c)
  BY <1>1, <1>3, <1>12 DEF HueDown, modeVars, WillDarken
<1>13. QED
  BY <1>4, <1>5, <1>6, <1>7, <1>8, <1>9, <1>10, <1>11, <1>12

LEMMA LitEnds ==
  ASSUME NEW c \in Calls, TurnStep(c), Calibrated, CallInv, LeaseTurns, LightsInv,
         NewerOwed, SelectionSaved, closing = "no", ~Owed,
         ~(running'.targets \subseteq saved'.targets),
         \/ TakeTurn(c) \/ Overtaken(c) \/ NothingToDo(c) \/ ShuttingDown(c)
         \/ ReleaseWhileOff(c) \/ OffOvertaken(c) \/ FinishOff(c)
         \/ CalibrationRequired(c) \/ HueOvertaken(c) \/ FallBackOvertaken(c)
         \/ ApplyShutDown(c) \/ FinishRan(c) \/ FinishRefused(c) \/ FinishEnded(c)
         \/ LeaseSettled(c) \/ LeaseStarts(c) \/ LeaseIsUp(c) \/ LeaseGivesBack(c)
         \/ LeaseStops(c)
  PROVE  FALSE
<1> USE CallsAssumption DEF On, SelectionSaved
<1>1. ~WillDarken
  <2>1. CASE TakeTurn(c) \/ Overtaken(c)
    BY <2>1 DEF TakeTurn, Overtaken, WillDarken, InMode
  <2>2. CASE LeaseSettled(c) \/ LeaseStarts(c) \/ LeaseGivesBack(c)
    BY <2>2 DEF LeaseSettled, LeaseStarts, LeaseGivesBack, WillDarken, InMode, Leasing
  <2>3. CASE LeaseIsUp(c) \/ LeaseStops(c)
    BY <2>3 DEF LeaseIsUp, LeaseStops, WillDarken, Settling, Applying, InMode
  <2>4. CASE NothingToDo(c) \/ ShuttingDown(c)
    BY <2>4 DEF NothingToDo, NothingDue, ShuttingDown, WillDarken, Movers, Settling,
       Applying
  <2>5. CASE ReleaseWhileOff(c)
    BY <2>5 DEF ReleaseWhileOff, modeVars, Lit, LightsInv, OffIsDark, OffMode
  <2>6. CASE CalibrationRequired(c)
    BY <2>6 DEF CalibrationRequired, NeedsCalibration
  <2>7. CASE FinishOff(c) \/ FinishRan(c) \/ FinishRefused(c) \/ FinishEnded(c)
    BY <2>7 DEF FinishOff, FinishRan, FinishRefused, FinishEnded, WillDarken, Settling,
       Applying
  <2>8. CASE ApplyShutDown(c)
    BY <2>8 DEF ApplyShutDown, LightsInv, OnlyClosing
  <2>9. CASE OffOvertaken(c) \/ HueOvertaken(c) \/ FallBackOvertaken(c)
    <3>1. turn = c /\ at \notin {"begin", "bringUp", "leaseStop"} /\ Superseded(c)
      BY <2>9 DEF OffOvertaken, HueOvertaken, FallBackOvertaken
    <3>2. ~Leasing(c)
      BY <3>1 DEF LeaseTurns
    <3>3. QED BY <3>1, <3>2 DEF NewerOwed
  <2>10. QED BY <2>1, <2>2, <2>3, <2>4, <2>5, <2>6, <2>7, <2>8, <2>9
<1>2. saved'.targets = saved.targets
  BY SavedKept
<1>3. running' = running
  BY DEF TakeTurn, Overtaken, NothingToDo, ShuttingDown, ReleaseWhileOff,
     OffOvertaken, FinishOff, CalibrationRequired, HueOvertaken, FallBackOvertaken,
     ApplyShutDown, FinishRan, FinishRefused, FinishEnded, LeaseSettled, LeaseStarts,
     LeaseIsUp, LeaseGivesBack, LeaseStops, modeVars
<1>4. QED BY <1>1, <1>2, <1>3 DEF LitIsSaved

LEMMA LitKept ==
  ASSUME Calibrated, CallInv, LeaseInv, OwedInv, LightsInv, ArrivesAlone,
         SelectionSaved, [Next]_vars
  PROVE  LitIsSaved'
<1> USE CallsAssumption
<1>1. ASSUME NEW c \in Calls, Arrival(c)
      PROVE  LitIsSaved'
  <2>1. UNCHANGED <<running, closing, turnVars>> /\ turn # c
    BY <1>1, ArrivalForm DEF CallInv, TypeOK, TurnsInOrder, TurnHeld
  <2>2. /\ InMode' <=> InMode
        /\ turn # "nobody" => (Refreshes' <=> Refreshes) /\ Origin(turn)' = Origin(turn)
    BY <1>1, <2>1, ArrivalForm DEF CallInv, TypeOK, TurnTypes, turnVars, InMode, Leasing,
       Origin, Refreshes
  <2>3. /\ saved'.targets = saved.targets \/ Owed'
        /\ Owed => Owed'
    BY <1>1, ArrivalSaves DEF OwedInv
  <2>4. WillDarken => WillDarken'
    BY <2>1, <2>2 DEF WillDarken, InMode, turnVars
  <2>5. QED BY <2>1, <2>3, <2>4 DEF SelectionSaved, LitIsSaved
<1>2. ASSUME NEW c \in Calls, TurnStep(c)
      PROVE  LitIsSaved'
  <2>1. closing' = closing
    BY <1>2, TurnCalm
  <2>2. CASE Owed
    <3>1. CASE TakeTurn(c) /\ Origin(c) \in Movers
      BY <2>1, <3>1 DEF TakeTurn, LitIsSaved, WillDarken, InMode, Leasing, Origin, Movers
    <3>2. CASE ~(TakeTurn(c) /\ Origin(c) \in Movers)
      BY <1>2, <2>2, <3>2, TurnOwes DEF LitIsSaved
    <3>3. QED BY <3>1, <3>2
  <2>3. CASE ~Owed
    BY <1>2, <2>1, <2>3, LitSettles, LitApplies, LitEnds DEF LitIsSaved, TurnStep,
       LeaseInv, OwedInv
  <2>4. QED BY <2>2, <2>3
<1>3. ASSUME Quit \/ Environment \/ UNCHANGED vars
      PROVE  LitIsSaved'
  <2>1. UNCHANGED <<callVars, turnVars, saved>> /\ (Owed => Owed')
        /\ (closing' = "no" => closing = "no" /\ running' = running)
    BY <1>3, OutsideForm, OutsideOwes, OutsideStream DEF Quit, QuitMarks,
       QuitStopsLighting, QuitStopsHue, Environment, StreamDrops, StripChanges,
       AreaSaved, Happens, Reconnects, modeVars, vars
  <2>2. closing' = "no" /\ WillDarken => WillDarken'
    BY <2>1 DEF WillDarken, Refreshes, Origin, InMode, Leasing, callVars, turnVars
  <2>3. QED BY <2>1, <2>2 DEF SelectionSaved, LitIsSaved
<1>4. QED
  BY <1>1, <1>2, <1>3 DEF Next, Rest

(* A choice that is recorded ends what an older selection had been put over. *)
LEMMA ChoiceSaves ==
  ASSUME NEW c \in Calls, Record(c), Selects(call[c]), CallInv, WrittenAway, ArrivesAlone
  PROVE  SelectionSaved'
<1> USE DEF CallInv, TypeOK, CallTypes, ModeTypes, Intents, Goto
<1>1. /\ pc[c] = "ticketed" /\ pc'[c] = "unsaved" /\ UNCHANGED <<call, ticket, latest>>
      /\ intent'.targets = call[c].targets
      /\ \A d \in Calls \ {c} : pc'[d] # "unsaved"
  BY DEF Record, Selects, ArrivesAlone, Arriving
<1>2. Owed'
  BY <1>1 DEF ArrivesAlone, Owed, Due, Movers, Origin
<1>3. IntentSaved'
  BY <1>1 DEF IntentSaved
<1>4. QED
  BY <1>2, <1>3 DEF SelectionSaved, WantSaved, OnSaved, OnWanted, RanWanted, LitIsSaved

LEMMA OlderEnds ==
  ASSUME CallInv, [Next]_vars, intent.older, ~intent'.older
  PROVE  \E c \in Calls : Record(c) /\ Selects(call[c])
<1> USE DEF CallInv, TypeOK, ModeTypes, Intents
<1>1. ASSUME NEW c \in Calls, Arrival(c)
      PROVE  Record(c) /\ Selects(call[c])
  <2>1. CASE Record(c)
    BY <2>1 DEF Record
  <2>2. CASE ~Record(c)
    BY <1>1, <2>2 DEF Arrival, Arrive, SaveTargets, ReleaseArrives, ReleaseRecords,
       LeaveArrives, ReturnArrives, AwayTicket, SettingsSaved, RefreshArrives,
       JoinArrives, LeaseArrives, Enqueue, inputVars
  <2>3. QED BY <2>1, <2>2
<1>2. ASSUME NEW c \in Calls, TurnStep(c)
      PROVE  FALSE
  BY <1>2, SavedKept
<1>3. ASSUME Quit \/ Environment \/ UNCHANGED vars
      PROVE  FALSE
  BY <1>3 DEF Quit, QuitMarks, QuitStopsLighting, QuitStopsHue, Environment, StreamDrops,
     StripChanges, AreaSaved, Happens, Reconnects, modeVars, vars
<1>4. QED
  BY <1>1, <1>2, <1>3 DEF Next, Rest

(* What an arrival has to see to, for tickets to stay in order. *)
LEMMA OrderHolds ==
  ASSUME NEW c \in Calls, CallTypes, CalmTypes, TicketsInOrder,
         latest' \in {latest, latest + 1},
         \A d \in Calls \ {c} : /\ call'[d] = call[d] /\ ticket'[d] = ticket[d]
                                /\ pc'[d] \in {pc[d], "nothing"},
         ticket'[c] \in {0, ticket[c], latest, latest'},
         pc'[c] = "settling" => Origin(c)' = "settings",
         pc'[c] = "unsaved" => Selects(call'[c]),
         \/ pc'[c] \notin {"ticketed", "unsaved"}
         \/ pc[c] = "ticketed" /\ ticket'[c] = ticket[c]
         \/ ticket'[c] = latest + 1,
         \/ ~KeepsSelection(c)'
         \/ KeepsSelection(c) /\ ticket'[c] = ticket[c]
         \/ \A d \in Calls : pc[d] \notin {"ticketed", "unsaved"}
  PROVE  TicketsInOrder'
<1>1. /\ latest \in Nat /\ \A d \in Calls : ticket[d] \in Nat
      /\ \A d \in Calls : ticket[d] <= latest
  BY DEF CallTypes, CalmTypes, TicketsInOrder, TicketsPast
<1>2. TicketsPast'
  <2>1. SUFFICES ASSUME NEW d \in Calls
                 PROVE  ticket'[d] <= latest'
    BY DEF TicketsPast
  <2>2. ticket'[d] \in {0, ticket[d], latest, latest'}
    OBVIOUS
  <2>3. QED BY <1>1, <2>2
<1>3. PhasesFit'
  BY DEF PhasesFit, TicketsInOrder, Origin
<1>4. KeptBefore'
  <2>1. SUFFICES ASSUME NEW d \in Calls, NEW e \in Calls, e # d,
                        pc'[d] \in {"ticketed", "unsaved"}, KeepsSelection(e)'
                 PROVE  ticket'[e] < ticket'[d]
    BY DEF KeptBefore
  <2>2. CASE d = c
    <3>1. ticket'[e] = ticket[e] /\ KeepsSelection(e)
      BY <2>1, <2>2 DEF KeepsSelection, Origin
    <3>2. CASE pc[c] = "ticketed" /\ ticket'[c] = ticket[c]
      BY <2>1, <2>2, <3>1, <3>2 DEF TicketsInOrder, KeptBefore
    <3>3. CASE ticket'[c] = latest + 1
      BY <1>1, <2>2, <3>1, <3>3
    <3>4. QED BY <2>1, <2>2, <3>2, <3>3
  <2>3. CASE d # c
    <3>1. ticket'[d] = ticket[d] /\ pc[d] \in {"ticketed", "unsaved"}
      BY <2>1, <2>3
    <3>2. CASE e = c
      BY <2>1, <3>1, <3>2 DEF TicketsInOrder, KeptBefore
    <3>3. CASE e # c
      BY <2>1, <3>1, <3>3 DEF TicketsInOrder, KeptBefore, KeepsSelection, Origin
    <3>4. QED BY <3>2, <3>3
  <2>4. QED BY <2>2, <2>3
<1>5. QED BY <1>2, <1>3, <1>4 DEF TicketsInOrder

LEMMA TicketsInOrderKept ==
  ASSUME CallInv, OwedInv, ArrivesAlone, ~ArrivalsOverlap, TicketsInOrder, [Next]_vars
  PROVE  TicketsInOrder'
<1>1. ASSUME NEW c \in Calls, Arrival(c)
      PROVE  TicketsInOrder'
  <2> USE DEF CallInv, TypeOK, CallTypes, CalmTypes, Origin, KeepsSelection, Goto, Asks,
              NoArrival, Selects
  <2>1. /\ \A d \in Calls \ {c} : /\ call'[d] = call[d] /\ ticket'[d] = ticket[d]
                                /\ pc'[d] \in {pc[d], "nothing"}
        /\ CallTypes /\ CalmTypes
    BY <1>1, ArrivalForm, ArrivalOwes DEF OwedInv
  <2>2. CASE Arrive(c) \/ ReleaseArrives(c)
    <3>1. /\ latest' = latest + 1 /\ ticket'[c] = latest'
          /\ pc'[c] \in {"ticketed", "releasing"}
          /\ \A d \in Calls : pc[d] \notin {"ticketed", "unsaved"}
      BY <2>2 DEF Arrive, ReleaseArrives, IssueTicket, Arriving
    <3>2. QED BY <2>1, <3>1, OrderHolds
  <2>3. CASE Record(c)
    <3>1. /\ pc[c] = "ticketed" /\ UNCHANGED <<call, ticket, latest>>
          /\ pc'[c] = IF Selects(call[c]) THEN "unsaved" ELSE "recorded"
      BY <2>3 DEF Record
    <3>2. QED BY <2>1, <3>1, OrderHolds
  <2>4. CASE SaveTargets(c) \/ ReleaseRecords(c) \/ Enqueue(c)
    <3>1. UNCHANGED <<call, ticket, latest>> /\ pc'[c] \in {"recorded", "queued"}
      BY <2>4 DEF SaveTargets, ReleaseRecords, Enqueue, inputVars
    <3>2. QED BY <2>1, <3>1, OrderHolds
  <2>5. CASE LeaveArrives(c) \/ ReturnArrives(c)
    <3>1. /\ UNCHANGED <<ticket, latest>> /\ pc'[c] = "written"
          /\ call'[c].origin \in {"leave", "return"}
      BY <2>5 DEF LeaveArrives, ReturnArrives
    <3>2. QED BY <2>1, <3>1, OrderHolds
  <2>6. CASE AwayTicket(c)
    <3>1. /\ latest' = latest + 1 /\ ticket'[c] = latest' /\ UNCHANGED call
          /\ pc'[c] = "recorded" /\ call[c].origin \in {"leave", "return"}
      BY <2>6 DEF AwayTicket, IssueTicket, OwedInv, WrittenAway
    <3>2. QED BY <2>1, <3>1, OrderHolds
  <2>7. CASE SettingsSaved(c)
    <3>1. /\ UNCHANGED <<ticket, latest>> /\ pc'[c] = "settling"
          /\ call'[c].origin = "settings"
      BY <2>7 DEF SettingsSaved
    <3>2. QED BY <2>1, <3>1, OrderHolds
  <2>8. CASE RefreshArrives(c)
    <3>1. /\ UNCHANGED <<latest>> /\ pc'[c] \in {"nothing", "queued"}
          /\ ticket'[c] \in {0, latest} /\ pc[c] = "settling"
          /\ call'[c].origin \in {call[c].origin, "none"}
      BY <2>8 DEF RefreshArrives, Answer, NoRequest, inputVars
    <3>2. call[c].origin = "settings"
      BY <3>1 DEF TicketsInOrder, PhasesFit
    <3>3. QED BY <2>1, <3>1, <3>2, OrderHolds
  <2>9. CASE JoinArrives(c) \/ LeaseArrives(c)
    <3>1. /\ UNCHANGED <<latest>> /\ pc'[c] = "queued"
          /\ ticket'[c] \in {ticket[c], latest}
          /\ call'[c].origin \in {"join", "lease", "giveBack"}
      BY <2>9 DEF JoinArrives, LeaseArrives, inputVars
    <3>2. QED BY <2>1, <3>1, OrderHolds
  <2>10. QED
    BY <1>1, <2>2, <2>3, <2>4, <2>5, <2>6, <2>7, <2>8, <2>9 DEF Arrival
<1>2. ASSUME NEW c \in Calls, TurnStep(c)
      PROVE  TicketsInOrder'
  <2>1. latest' = latest /\ latest \in Nat
    BY <1>2, TurnCalm DEF CallInv, TypeOK, CalmTypes
  <2>2. CASE TakeTurn(c)
    <3>1. /\ UNCHANGED <<call, ticket>>
          /\ \A d \in Calls : pc'[d] \in {pc[d], "turn"}
      BY <2>2 DEF TakeTurn, Goto, CallInv, TypeOK, CallTypes
    <3>2. QED BY <2>1, <3>1 DEF TicketsInOrder, TicketsPast, KeptBefore, PhasesFit, Origin,
                KeepsSelection
  <2>3. CASE Holds(c) /\ turn' = c
    <3>1. UNCHANGED <<pc, call, ticket>>
      BY <2>3, CallsAssumption DEF Holds, Step, End
    <3>2. QED BY <2>1, <3>1 DEF TicketsInOrder, TicketsPast, KeptBefore, PhasesFit, Origin,
                KeepsSelection
  <2>4. CASE Overtaken(c) \/ (Holds(c) /\ turn' # c)
    <3>1. /\ call'[c].origin = "none" /\ ticket'[c] = 0 /\ pc'[c] \in Answers
          /\ \A d \in Calls \ {c} : /\ call'[d] = call[d] /\ ticket'[d] = ticket[d]
                                  /\ pc'[d] = pc[d]
      <4>1. CASE Overtaken(c)
        BY <4>1 DEF Overtaken, Answer, Answers, Goto, NoRequest, CallInv, TypeOK, CallTypes
      <4>2. CASE Holds(c) /\ turn' # c
        BY <4>2 DEF Holds, Step, End, Answer, Goto, NoRequest, CallInv, TypeOK, CallTypes
      <4>3. QED BY <2>4, <4>1, <4>2
    <3>2. /\ pc'[c] \notin {"settling", "ticketed", "unsaved"} /\ ~KeepsSelection(c)'
      BY <3>1 DEF Answers, KeepsSelection, Origin
    <3>3. \A d \in Calls \ {c} : Origin(d)' = Origin(d)
      BY <3>1 DEF Origin
    <3>4. TicketsPast'
      <4>1. SUFFICES ASSUME NEW d \in Calls
                     PROVE  ticket'[d] <= latest'
        BY DEF TicketsPast
      <4>2. ticket'[d] \in {ticket[d], 0} /\ ticket[d] <= latest
        BY <3>1 DEF TicketsInOrder, TicketsPast
      <4>3. QED BY <2>1, <4>2
    <3>5. KeptBefore'
      <4>1. SUFFICES ASSUME NEW d \in Calls, NEW e \in Calls, e # d,
                            pc'[d] \in {"ticketed", "unsaved"}, KeepsSelection(e)'
                     PROVE  ticket'[e] < ticket'[d]
        BY DEF KeptBefore
      <4>2. d # c /\ e # c
        BY <3>2, <4>1
      <4>3. /\ ticket'[d] = ticket[d] /\ pc'[d] = pc[d]
            /\ ticket'[e] = ticket[e] /\ call'[e] = call[e]
        BY <3>1, <4>2
      <4>4. KeepsSelection(e) /\ pc[d] \in {"ticketed", "unsaved"}
        BY <4>1, <4>3 DEF KeepsSelection, Origin
      <4>5. ticket[e] < ticket[d]
        BY <4>1, <4>4 DEF TicketsInOrder, KeptBefore
      <4>6. QED BY <4>3, <4>5
    <3>6. PhasesFit'
      BY <3>1, <3>2, <3>3 DEF TicketsInOrder, PhasesFit
    <3>7. QED BY <3>4, <3>5, <3>6 DEF TicketsInOrder
  <2>5. QED BY <1>2, <2>2, <2>3, <2>4, TurnStepForm
<1>3. ASSUME Quit \/ Environment \/ UNCHANGED vars
      PROVE  TicketsInOrder'
  BY <1>3, OutsideForm, OutsideOwes DEF callVars, TicketsInOrder, TicketsPast, KeptBefore,
     PhasesFit, Origin, KeepsSelection
<1>4. QED
  BY <1>1, <1>2, <1>3 DEF Next, Rest

(* Only its own arrival moves a call on, but for the settings call that a later
   one takes over from. *)
LEMMA SettlingEnds ==
  ASSUME NEW c \in Calls, NEW d \in Calls \ {c}, CallInv, Arrival(c)
  PROVE  pc'[d] = pc[d] \/ pc[d] = "settling"
BY DEF CallInv, TypeOK, CallTypes, Goto, Arrival, Arrive, Record, SaveTargets,
   ReleaseArrives, ReleaseRecords, LeaveArrives, ReturnArrives, AwayTicket, SettingsSaved,
   RefreshArrives, JoinArrives, LeaseArrives, Enqueue, Answer

LEMMA ReplacingStays ==
  ASSUME NEW c \in Calls, NEW d \in Calls \ {c}, NEW e \in Calls, CallInv, OwedInv,
         Arrival(c), Replacing(e, d)
  PROVE  Replacing(e, d)'
<1> USE DEF CallInv, TypeOK, CallTypes, Goto, Replacing
<1>1. ticket'[d] = ticket[d]
  BY ArrivalOwes DEF OwedInv
<1>2. CASE e # c
  <2>1. call'[e] = call[e] /\ ticket'[e] = ticket[e] /\ pc'[e] = pc[e]
    BY <1>2, ArrivalForm, ArrivalOwes, SettlingEnds DEF OwedInv
  <2>2. QED BY <1>1, <2>1
<1>3. CASE e = c
  <2>1. Record(c) \/ SaveTargets(c) \/ Enqueue(c)
    BY <1>3 DEF Arrival, Arrive, ReleaseArrives, ReleaseRecords, LeaveArrives,
       ReturnArrives, AwayTicket, SettingsSaved, RefreshArrives, JoinArrives, LeaseArrives,
       Asks
  <2>2. UNCHANGED <<call, ticket>> /\ pc'[c] \in {"unsaved", "recorded", "queued"}
    BY <2>1 DEF Record, SaveTargets, Enqueue
  <2>3. QED BY <1>3, <2>2
<1>4. QED BY <1>2, <1>3

LEMMA KeptSavedKept ==
  ASSUME CallInv, OwedInv, ArrivesAlone, ~ArrivalsOverlap, SavedInv, [Next]_vars
  PROVE  KeptSaved'
<1>0. ASSUME NEW c \in Calls, Arrival(c), NEW d \in Calls \ {c}, NEW e \in Calls,
             Replacing(e, d)
      PROVE  Replacing(e, d)'
  BY <1>0, ReplacingStays
<1> USE CallsAssumption DEF CallInv, TypeOK, CallTypes, CalmTypes, Origin, KeepsSelection
<1>1. ASSUME NEW c \in Calls, Arrival(c)
      PROVE  KeptSaved'
  <2> USE DEF Goto, Asks, NoArrival
  <2>1. /\ turn' = turn /\ turn # c /\ latest' \in {latest, latest + 1}
        /\ \A d \in Calls \ {c} : /\ call'[d] = call[d] /\ ticket'[d] = ticket[d]
                                /\ keep'[d] = keep[d] /\ pc'[d] \in {pc[d], "nothing"}
    <3>1. latest' \in {latest, latest + 1}
      BY <1>1 DEF Arrival, Arrive, Record, SaveTargets, ReleaseArrives, ReleaseRecords,
         LeaveArrives, ReturnArrives, AwayTicket, SettingsSaved, RefreshArrives,
         JoinArrives, LeaseArrives, Enqueue, IssueTicket, inputVars
    <3>2. QED
      BY <1>1, <3>1, ArrivalForm, ArrivalOwes DEF OwedInv, TurnsInOrder, TurnHeld, turnVars
  <2>2. ASSUME NEW d \in Calls \ {c}, KeepsSelection(d)', pc'[d] # "releasing"
        PROVE  \/ keep'[d] \subseteq saved'.targets
               \/ intent'.older
               \/ IF turn' = d THEN \E e \in Calls : Replacing(e, d)'
                                ELSE ticket'[d] < latest'
    <3>1. KeepsSelection(d) /\ pc[d] # "releasing"
      BY <1>1, <2>1, <2>2, SettlingEnds DEF SavedInv, TicketsInOrder
    <3>2. CASE SaveTargets(c) \/ (Record(c) /\ Selects(call[c]))
      <4>1. /\ ticket[d] < ticket[c] /\ ticket[c] = latest
            /\ Selects(call[c]) /\ UNCHANGED <<call, ticket, latest>>
            /\ pc'[c] \in {"unsaved", "recorded"}
        <5>1. pc[c] \in {"ticketed", "unsaved"}
          BY <3>2 DEF SaveTargets, Record
        <5>2. ticket[d] < ticket[c]
          BY <3>1, <5>1 DEF SavedInv, TicketsInOrder, KeptBefore
        <5>3. ticket[c] = latest
          BY <5>1 DEF ArrivesAlone, Arriving
        <5>4. Selects(call[c])
          BY <3>2 DEF SaveTargets, SavedInv, TicketsInOrder, PhasesFit
        <5>5. UNCHANGED <<call, ticket, latest>> /\ pc'[c] \in {"unsaved", "recorded"}
          BY <3>2 DEF SaveTargets, Record
        <5>6. QED BY <5>2, <5>3, <5>4, <5>5
      <4>2. Replacing(c, d)'
        BY <4>1 DEF Replacing
      <4>3. QED BY <4>1, <4>2
    <3>3. CASE ~SaveTargets(c) /\ ~(Record(c) /\ Selects(call[c]))
      <4>1. saved'.targets = saved.targets /\ (intent.older => intent'.older)
        <5>1. CASE Record(c)
          BY <3>3, <5>1 DEF Record
        <5>2. CASE ~Record(c)
          BY <1>1, <3>3, <5>2 DEF ModeTypes, Intents, Selections, Arrival, Arrive,
             ReleaseArrives, ReleaseRecords, LeaveArrives, ReturnArrives, AwayTicket,
             SettingsSaved, RefreshArrives, JoinArrives, LeaseArrives, Enqueue, inputVars
        <5>3. QED BY <5>1, <5>2
      <4>2. ASSUME NEW e \in Calls, Replacing(e, d)
            PROVE  Replacing(e, d)'
        BY <1>0, <1>1, <4>2
      <4>3. \/ keep[d] \subseteq saved.targets
            \/ intent.older
            \/ turn = d /\ \E e \in Calls : Replacing(e, d)
            \/ turn # d /\ ticket[d] < latest
        BY <3>1 DEF SavedInv, KeptSaved
      <4>4. /\ keep'[d] = keep[d] /\ turn' = turn
            /\ ticket[d] < latest => ticket'[d] < latest'
        <5>1. /\ ticket'[d] = ticket[d] /\ ticket[d] \in Nat
              /\ latest \in Nat /\ latest' \in {latest, latest + 1}
          BY <2>1
        <5>2. QED BY <2>1, <5>1
      <4>5. QED BY <4>1, <4>2, <4>3, <4>4
    <3>4. QED BY <3>2, <3>3
  <2>3. ASSUME KeepsSelection(c)', pc'[c] # "releasing"
        PROVE  \/ keep'[c] \subseteq saved'.targets
               \/ intent'.older
               \/ ticket'[c] < latest'
    <3>1. CASE Arrive(c) \/ ReleaseRecords(c)
      <4>1. \A d \in Calls : pc[d] # "unsaved"
        BY <3>1 DEF Arrive, ReleaseRecords, ArrivesAlone, Arriving
      <4>2. /\ keep'[c] = intent.targets /\ saved' = saved
            /\ intent'.older = intent.older
        BY <2>3, <3>1 DEF Arrive, ReleaseRecords, ModeTypes, Intents
      <4>3. QED BY <4>1, <4>2 DEF SavedInv, SelectionSaved, IntentSaved
    <3>2. CASE Record(c)
      <4>1. /\ UNCHANGED <<call, ticket, latest, keep, saved>> /\ ~Selects(call[c])
            /\ pc[c] = "ticketed"
        BY <2>3, <3>2 DEF Record, Selects
      <4>2. intent.older => intent'.older
        BY <3>2, <4>1 DEF Record
      <4>3. QED BY <2>1, <2>3, <4>1, <4>2 DEF SavedInv, KeptSaved
    <3>3. CASE Enqueue(c)
      <4>1. UNCHANGED <<call, ticket, latest, keep, saved, intent>> /\ pc[c] = "recorded"
        BY <3>3 DEF Enqueue, inputVars
      <4>2. QED BY <2>1, <2>3, <4>1 DEF SavedInv, KeptSaved
    <3>4. CASE ~Arrive(c) /\ ~ReleaseRecords(c) /\ ~Record(c) /\ ~Enqueue(c)
      <4>1. call'[c].origin \notin {"unplug", "release"} \/ pc'[c] = "releasing"
        <5>1. CASE SaveTargets(c)
          BY <5>1 DEF SaveTargets, SavedInv, TicketsInOrder, PhasesFit, Selects
        <5>2. CASE RefreshArrives(c)
          BY <5>2 DEF RefreshArrives, Answer, NoRequest, SavedInv, TicketsInOrder, PhasesFit
        <5>3. CASE AwayTicket(c)
          BY <5>3 DEF AwayTicket, OwedInv, WrittenAway
        <5>4. CASE ReleaseArrives(c) \/ LeaveArrives(c) \/ ReturnArrives(c)
                   \/ SettingsSaved(c) \/ JoinArrives(c) \/ LeaseArrives(c)
          BY <5>4 DEF ReleaseArrives, LeaveArrives, ReturnArrives, SettingsSaved,
             JoinArrives, LeaseArrives
        <5>5. QED BY <1>1, <3>4, <5>1, <5>2, <5>3, <5>4 DEF Arrival
      <4>2. QED BY <2>3, <4>1
    <3>5. QED BY <3>1, <3>2, <3>3, <3>4
  <2>4. QED BY <2>1, <2>2, <2>3 DEF KeptSaved
<1>2. ASSUME NEW c \in Calls, TurnStep(c)
      PROVE  KeptSaved'
  <2>1. /\ latest' = latest /\ saved'.targets = saved.targets
        /\ intent.older => intent'.older
    BY <1>2, TurnCalm, SavedKept
  <2>2. CASE TakeTurn(c)
    <3>1. /\ turn = "nobody" /\ turn' = c /\ UNCHANGED <<call, ticket, keep>>
          /\ \A d \in Calls \ {c} : pc'[d] = pc[d]
          /\ KeepsSelection(c) => ticket[c] = latest
      BY <2>2 DEF TakeTurn, Goto, Superseded, Leasing
    <3>2. pc[c] = "queued"
      BY <2>2, HeadWaits DEF TakeTurn
    <3>3. QED BY <2>1, <3>1, <3>2 DEF SavedInv, KeptSaved
  <2>3. CASE Holds(c) /\ turn' = c
    <3>1. turn = c /\ UNCHANGED <<pc, call, ticket, keep>>
      BY <2>3 DEF Holds, Step, End
    <3>2. QED BY <2>1, <2>3, <3>1 DEF SavedInv, KeptSaved, Replacing
  <2>4. CASE Overtaken(c) \/ (Holds(c) /\ turn' # c)
    <3>1. /\ turn \in {"nobody", c} /\ turn' = "nobody" /\ call'[c].origin = "none"
          /\ \A d \in Calls \ {c} : /\ call'[d] = call[d] /\ ticket'[d] = ticket[d]
                                  /\ keep'[d] = keep[d] /\ pc'[d] = pc[d]
      BY <2>4 DEF Overtaken, Holds, Step, End, Answer, Goto, NoRequest, turnVars
    <3>2. QED BY <2>1, <3>1 DEF SavedInv, KeptSaved
  <2>5. QED BY <1>2, <2>2, <2>3, <2>4, TurnStepForm
<1>3. ASSUME Quit \/ Environment \/ UNCHANGED vars
      PROVE  KeptSaved'
  <2>1. UNCHANGED <<callVars, turnVars, latest, intent, saved>>
    BY <1>3, OutsideForm, OutsideOwes DEF Quit, QuitMarks, QuitStopsLighting, QuitStopsHue,
       Environment, StreamDrops, StripChanges, AreaSaved, Happens, Reconnects, modeVars, vars
  <2>2. QED BY <2>1 DEF SavedInv, KeptSaved, Replacing, callVars, turnVars
<1>4. QED
  BY <1>1, <1>2, <1>3 DEF Next, Rest

LEMMA SavedInvInit ==
  ASSUME Init
  PROVE  ArrivesAlone /\ SavedInv
<1>1. /\ turn = "nobody" /\ at = "idle"
      /\ call = [c \in Calls |-> NoRequest] /\ pc = [c \in Calls |-> "new"]
      /\ ticket = [c \in Calls |-> 0] /\ latest = 0
  BY DEF Init
<1>2. PICK s \in Starts : /\ running = [kind |-> s.kind, targets |-> s.lit]
                          /\ intent.targets = s.targets
                          /\ saved = [kind |-> s.kind, targets |-> s.targets]
  BY DEF Init
<1>3. /\ intent.targets = saved.targets /\ running.targets \subseteq saved.targets
  BY <1>2, RequestsAssumption
<1>4. ArrivesAlone
  BY <1>1 DEF ArrivesAlone, Arriving
<1>5. SelectionSaved
  BY <1>1, <1>3 DEF SelectionSaved, IntentSaved, WantSaved, OnSaved, OnWanted, RanWanted,
     LitIsSaved, InMode
<1>6. TicketsInOrder
  BY <1>1 DEF TicketsInOrder, TicketsPast, KeptBefore, PhasesFit
<1>7. KeptSaved
  BY <1>1 DEF KeptSaved, KeepsSelection, Origin, NoRequest
<1>8. QED BY <1>4, <1>5, <1>6, <1>7 DEF SavedInv

LEMMA SavedInvAlways ==
  ASSUME Calibrated, ~ArrivalsOverlap
  PROVE  Spec => [](/\ CallInv /\ LeaseInv /\ OwedInv /\ LightsInv
                    /\ ArrivesAlone /\ SavedInv)
<1>1. ASSUME CallInv, LeaseInv, OwedInv, LightsInv, ArrivesAlone, SavedInv, [Next]_vars
      PROVE  ArrivesAlone' /\ SavedInv'
  <2>1. ArrivesAlone'
    BY <1>1, ArrivesAloneKept
  <2>2. TicketsInOrder'
    BY <1>1, TicketsInOrderKept DEF SavedInv
  <2>4. KeptSaved'
    BY <1>1, KeptSavedKept
  <2>3. ASSUME ~intent'.older
        PROVE  SelectionSaved'
    <3>1. CASE intent.older
      <4>1. PICK c \in Calls : Record(c) /\ Selects(call[c])
        BY <1>1, <2>3, <3>1, OlderEnds
      <4>2. QED BY <1>1, <4>1, ChoiceSaves DEF OwedInv
    <3>2. CASE ~intent.older
      <4>1. SelectionSaved
        BY <1>1, <3>2 DEF SavedInv
      <4>2. IntentSaved'
        BY <1>1, <2>3, <3>2, <4>1, IntentSavedKept DEF SavedInv, SelectionSaved
      <4>3. SelectionInv'
        BY <1>1, <4>1, SelectionKept
      <4>4. LitIsSaved'
        BY <1>1, <4>1, LitKept
      <4>5. QED BY <4>2, <4>3, <4>4 DEF SelectionInv, SelectionSaved
    <3>3. QED BY <3>1, <3>2
  <2>5. QED BY <2>1, <2>2, <2>3, <2>4 DEF SavedInv
<1>2. QED
  BY <1>1, SavedInvInit, OutcomeAlways, PTL DEF Spec

(* An output the user took out of the selection does not stay lit once every
   call has been answered: whatever overtook the turn that was to stop it,
   whatever was unplugged or released and whatever the hardware refused there,
   what runs is within the saved selection; unless an older selection was put
   over the newest choice's (finish, end_mode, reconcile_off, hue_down). *)
THEOREM DeselectedOutputsGoDark ==
  ASSUME Calibrated, ~ArrivalsOverlap
  PROVE  Spec => []DeselectedGoesDark
<1>1. CallInv /\ SavedInv => DeselectedGoesDark
  BY QuietOwesNothing DEF DeselectedGoesDark, OnlySelectedIsLit, SavedInv, SelectionSaved,
     LitIsSaved, WillDarken, InMode
<1>2. QED BY <1>1, SavedInvAlways, PTL

-----------------------------------------------------------------------------
(* While the hardware works *)

(* Every Hue start brings a stream up, the strip is there and stays, nothing
   an apply asks for fails, and the area is not moved. *)
HardwareWorks == /\ MaxFaults = 0 /\ HueCodes = {"RUNNING"} /\ ApplyFaults = {}
                 /\ Paired /\ Calibrated
                 /\ \A s \in Starts : s.kind # "Off" => "usb" \in s.lit

(* Then a turn comes to its apply with every output it is to run on, and the
   apply runs: no turn is refused or falls back. *)
WorksInv ==
  /\ strip
  /\ InMode =>
       /\ at \notin {"moveStop", "recheck", "refuse", "leaseStop"}
       /\ at \in {"offHue", "offDone"} => tx.want.kind = "Off"
       /\ at = "bringUp" => stream = "starting" /\ tx.code = "RUNNING"
       /\ at = "hueChecked" => tx.ok
       /\ at \in {"hueChecked", "plan"} /\ tx.ok => stream = "live"
       /\ at = "plan" /\ "hue" \in tx.want.targets /\ Origin(turn) # "release" => tx.ok
       /\ at = "apply" /\ "hue" \in tx.on => stream = "live"
       /\ at = "judge" => tx.code = "ok"
       /\ at \in Settling \cup Applying \cup Closing => ~tx.out /\ tx.end # "refused"

(* No call takes an output away but by its choice: the strip is there, and
   nothing is released. *)
Asked == \A c \in Calls : /\ Origin(c) \notin {"unplug", "release"}
                          /\ pc[c] # "releasing"
                          /\ pc[c] = "settling" => Origin(c) = "settings"

(* The selection is never empty, and so no mode ends for want of an output. *)
SomeOutput == /\ closing = "no" => intent.targets # {}
              /\ InMode /\ at \in Settling => tx.want.targets # {}
              /\ InMode => at # "endMode"
              /\ InMode /\ at \in Settling \cup Applying \cup Closing => tx.end # "ended"

(* While the user is away the intent is Off: a choice on its way has ended that. *)
AwayIsOff ==
  /\ closing = "no" /\ away # NoMode => intent.kind = "Off"
  /\ \A c \in Calls : pc[c] = "ticketed" /\ call[c].mode # NoMode => away = NoMode

(* The newest ticket is one choice's; from its record to its answer the intent
   has its mode, and so has the turn that began with it. *)
Chooses(c) == Origin(c) = "user" /\ ticket[c] = latest
SoleChoice == \A c, d \in Calls : Chooses(c) /\ Chooses(d) => c = d
NoneWritten == \A d \in Calls : pc[d] # "written"
KindChosen ==
  closing = "no" /\ NoneWritten =>
    \A c \in Calls : Chooses(c) /\ call[c].mode # NoMode
                      /\ pc[c] \in {"unsaved", "recorded", "queued", "turn"}
                      => intent.kind = call[c].mode
WantChosen ==
  /\ InMode /\ NoneWritten /\ Chooses(turn) /\ call[turn].mode # NoMode
  /\ at \in Settling \cup Applying \cup Closing \cup {"offHue", "offDone"}
  => tx.want.kind = call[turn].mode

LEMMA WorksSettles ==
  ASSUME NEW c \in Calls, TurnStep(c), HardwareWorks, CallInv, LeaseTurns, LightsInv,
         SteadyInv, WorksInv, InMode,
         \/ StartOff(c) \/ OffStopsHue(c) \/ StartOn(c) \/ StartRefresh(c)
         \/ MoveStop(c) \/ StartHue(c) \/ BringUp(c) \/ Plan(c) \/ PlanNothing(c)
         \/ RefreshAfterMove(c)
  PROVE  WorksInv'
<1> USE CallsAssumption DEF CallInv, TypeOK, TurnTypes, On, SteadyInv, Steady
<1>1. /\ turn = c /\ InMode' /\ turn' = c /\ closing = "no"
      /\ Origin(turn)' = Origin(c) /\ Origin(c)' = Origin(c) /\ strip' = strip
  BY StepInMode, TurnStepForm, TurnCalm DEF StartOff, OffStopsHue, StartOn, StartRefresh,
     MoveStop, StartHue, BringUp, Plan, PlanNothing, RefreshAfterMove, HueSettled, Opens,
     InMode
<1> USE DEF WorksInv, Settling, Applying, Closing, Step
<1>2. CASE StartOff(c) \/ OffStopsHue(c)
  <2>1. /\ at' \in {"offHue", "offDone"} /\ tx'.want.kind = "Off"
    BY <1>2, NewTxTypes, NewTxIs DEF StartOff, OffStopsHue, TxLocals
  <2>2. QED BY <1>1, <2>1
<1>3. CASE StartOn(c)
  <2>1. /\ tx'.want = intent /\ ~tx'.out /\ tx'.end = "none"
    BY <1>3, NewTxTypes, NewTxIs DEF StartOn, TxLocals
  <2>2. tx'.ok => stream = "live"
    BY <1>3, NewTxTypes DEF StartOn, HasStream, TxLocals, Opens
  <2>3. at' \in {"plan", "startHue"}
    BY <1>3 DEF StartOn, AreaMoved, HardwareWorks
  <2>4. at' = "plan" /\ WantsHue(c, intent.targets) => tx'.ok
    BY <1>3, NewTxTypes DEF StartOn, AreaMoved, TxLocals
  <2>5. stream' = stream
    BY <1>3 DEF StartOn, hueVars
  <2>6. QED BY <1>1, <2>1, <2>2, <2>3, <2>4, <2>5 DEF WantsHue
<1>4. CASE StartRefresh(c)
  <2>1. /\ tx'.on = running.targets /\ ~tx'.out /\ tx'.end = "none"
        /\ at' = "apply" /\ stream' = stream
    BY <1>4, NewTxTypes, NewTxIs DEF StartRefresh, AreaMoved, TxLocals, hueVars
  <2>2. QED BY <1>1, <2>1 DEF HasStream
<1>5. CASE MoveStop(c) \/ RefreshAfterMove(c)
  BY <1>1, <1>5 DEF MoveStop, RefreshAfterMove, HueSettled
<1>6. CASE StartHue(c)
  <2>1. PICK code \in StartAnswers :
          /\ stream' = StreamAfterStart(code)
          /\ Step(IF stream' = "starting" THEN "bringUp" ELSE "hueChecked",
                  [tx EXCEPT !.code = code, !.ok = (code = "NOOP")])
    BY <1>6 DEF StartHue
  <2>2. code = "RUNNING" \/ (code = "NOOP" /\ stream = "live")
    BY <1>1, <2>1 DEF StartAnswers, HardwareWorks
  <2>3. \/ at' = "bringUp" /\ stream' = "starting" /\ code = "RUNNING"
        \/ at' = "hueChecked" /\ stream' = "live" /\ code = "NOOP"
    BY <2>1, <2>2 DEF StreamAfterStart
  <2>4. /\ tx'.code = code /\ tx'.ok = (code = "NOOP") /\ tx'.out = tx.out
        /\ tx'.end = tx.end /\ at = "startHue"
    BY <1>6, <2>1 DEF StartHue, TxLocals
  <2>5. QED BY <1>1, <2>3, <2>4
<1>7. CASE BringUp(c)
  <2>1. /\ at' = "hueChecked" /\ tx'.ok /\ stream' = "live" /\ at = "bringUp"
        /\ tx'.out = tx.out /\ tx'.end = tx.end
    BY <1>7 DEF BringUp, TxLocals
  <2>2. QED BY <1>1, <2>1
<1>8. CASE Plan(c)
  <2>1. /\ at \in {"hueChecked", "plan"} /\ at' \in {"ran", "apply"} /\ stream' = stream
        /\ tx'.on = (tx.want.targets \cap {"usb"})
                      \cup (IF WantsHue(c, tx.want.targets) /\ tx.ok THEN {"hue"} ELSE {})
        /\ tx'.out = (WantsHue(c, tx.want.targets) /\ ~tx.ok) /\ tx'.end = tx.end
    BY <1>8 DEF Plan, HueSettled, TxLocals, hueVars
  <2>2. WantsHue(c, tx.want.targets) => tx.ok
    BY <1>1, <2>1 DEF WantsHue
  <2>3. QED BY <1>1, <2>1, <2>2
<1>9. CASE PlanNothing(c)
  <2>1. /\ at \in {"hueChecked", "plan"} /\ stream' = stream
        /\ at' = IF WantsHue(c, tx.want.targets) THEN "refuse" ELSE "endMode"
        /\ ~(WantsHue(c, tx.want.targets) /\ tx.ok)
        /\ tx'.out = tx.out /\ tx'.end = tx.end
    BY <1>9 DEF PlanNothing, HueSettled, TxLocals, hueVars
  <2>2. ~WantsHue(c, tx.want.targets)
    BY <1>1, <2>1 DEF WantsHue
  <2>3. QED BY <1>1, <2>1, <2>2
<1>10. QED
  BY <1>2, <1>3, <1>4, <1>5, <1>6, <1>7, <1>8, <1>9

LEMMA WorksApplies ==
  ASSUME NEW c \in Calls, TurnStep(c), HardwareWorks, CallInv, LeaseTurns, WorksInv, InMode,
         \/ ApplyGated(c) \/ ApplyRuns(c) \/ ApplyFails(c) \/ FallBackToUsb(c)
         \/ FallBackToHue(c) \/ TryAgain(c) \/ Judge(c) \/ Ran(c) \/ Refuse(c)
         \/ EndMode(c) \/ HueDown(c)
  PROVE  WorksInv'
<1> USE CallsAssumption DEF CallInv, TypeOK, TurnTypes, On
<1>1. /\ turn = c /\ InMode' /\ turn' = c /\ closing = "no"
      /\ Origin(turn)' = Origin(c) /\ Origin(c)' = Origin(c) /\ strip' = strip
  BY StepInMode, TurnStepForm, TurnCalm DEF ApplyGated, ApplyRuns, ApplyFails,
     FallBackToUsb, FallBackToHue, TryAgain, Judge, Ran, Refuse, EndMode, HueDown, InMode
<1> USE DEF WorksInv, Settling, Applying, Closing, Step
<1>2. CASE ApplyGated(c)
  <2>1. \A code \in GateCodes : ~Gated(code)
    BY <1>1, <1>2 DEF ApplyGated, Gated, GateCodes, HardwareWorks
  <2>2. QED BY <1>2, <2>1 DEF ApplyGated
<1>3. CASE ApplyFails(c)
  BY <1>3 DEF ApplyFails, HardwareWorks
<1>4. CASE ApplyRuns(c)
  <2>1. /\ at = "apply" /\ at' = "judge" /\ tx'.code = "ok"
        /\ tx'.out = tx.out /\ tx'.end = tx.end
    BY <1>4 DEF ApplyRuns, TxLocals
  <2>2. QED BY <1>1, <2>1
<1>5. CASE FallBackToUsb(c) \/ FallBackToHue(c) \/ TryAgain(c) \/ Refuse(c)
  BY <1>1, <1>5 DEF FallBackToUsb, FallBackToHue, TryAgain, Refuse
<1>6. CASE Judge(c)
  BY <1>1, <1>6 DEF Judge
<1>7. CASE Ran(c) \/ EndMode(c)
  <2>1. /\ at \in {"ran", "endMode"} /\ at' \in {"down", "finish"}
        /\ tx'.out = tx.out /\ tx'.end \in {"ran", "ended"}
    BY <1>7 DEF Ran, EndMode, TxLocals
  <2>2. QED BY <1>1, <2>1
<1>8. CASE HueDown(c)
  BY <1>1, <1>8 DEF HueDown
<1>9. QED
  BY <1>2, <1>3, <1>4, <1>5, <1>6, <1>7, <1>8

(* A step after which a mode has the turn took the turn, or is one of its steps. *)
LEMMA ModeTurnStep ==
  ASSUME NEW c \in Calls, TurnStep(c), CallInv, LeaseTurns, InMode'
  PROVE  \/ TakeTurn(c) /\ at' = "begin" /\ turn = "nobody"
         \/ /\ InMode /\ turn = c /\ turn' = c
            /\ \/ StartOff(c) \/ OffStopsHue(c) \/ StartOn(c) \/ StartRefresh(c)
               \/ MoveStop(c) \/ StartHue(c) \/ BringUp(c) \/ Plan(c) \/ PlanNothing(c)
               \/ RefreshAfterMove(c) \/ ApplyGated(c) \/ ApplyRuns(c) \/ ApplyFails(c)
               \/ FallBackToUsb(c) \/ FallBackToHue(c) \/ TryAgain(c) \/ Judge(c) \/ Ran(c)
               \/ Refuse(c) \/ EndMode(c) \/ HueDown(c)
<1>1. closing' = closing
  BY TurnCalm
<1>2. CASE TakeTurn(c)
  BY <1>2 DEF TakeTurn
<1>3. CASE Overtaken(c)
  BY <1>3 DEF Overtaken, InMode, turnVars
<1>4. CASE Holds(c)
  <2>1. turn = c /\ turn' = c /\ call' = call
    BY <1>4 DEF Holds, Step, End, InMode
  <2>2. InMode
    BY <1>1, <2>1 DEF InMode, Leasing, Origin
  <2>3. ~LeaseSettled(c) /\ ~LeaseStarts(c) /\ ~LeaseIsUp(c) /\ ~LeaseGivesBack(c)
        /\ ~LeaseStops(c)
    BY <2>1, <2>2 DEF LeaseSettled, LeaseStarts, LeaseIsUp, LeaseGivesBack, LeaseStops,
       End, InMode, Leasing
  <2>4. /\ ~NothingToDo(c) /\ ~ShuttingDown(c) /\ ~ReleaseWhileOff(c) /\ ~OffOvertaken(c)
        /\ ~FinishOff(c) /\ ~CalibrationRequired(c) /\ ~HueOvertaken(c)
        /\ ~FallBackOvertaken(c) /\ ~ApplyShutDown(c) /\ ~FinishRan(c)
        /\ ~FinishRefused(c) /\ ~FinishEnded(c)
    BY <2>1, CallsAssumption DEF NothingToDo, ShuttingDown, ReleaseWhileOff, OffOvertaken,
       FinishOff, CalibrationRequired, HueOvertaken, FallBackOvertaken, ApplyShutDown,
       FinishRan, FinishRefused, FinishEnded, End
  <2>5. ~TakeTurn(c) /\ ~Overtaken(c)
    BY <2>1, CallsAssumption DEF TakeTurn, Overtaken
  <2>6. QED BY <2>1, <2>2, <2>3, <2>4, <2>5 DEF TurnStep
<1>5. QED BY <1>2, <1>3, <1>4, TurnStepForm

LEMMA WorksKept ==
  ASSUME HardwareWorks, CallInv, LeaseInv, LightsInv, SteadyInv, WorksInv, [Next]_vars
  PROVE  WorksInv'
<1> USE CallsAssumption
<1>1. ASSUME NEW c \in Calls, Arrival(c)
      PROVE  WorksInv'
  <2>1. UNCHANGED <<running, closing, hueVars, turnVars>> /\ turn # c
    BY <1>1, ArrivalForm DEF CallInv, TypeOK, TurnsInOrder, TurnHeld
  <2>2. (InMode' <=> InMode) /\ (turn # "nobody" => Origin(turn)' = Origin(turn))
    BY <1>1, <2>1, ArrivalForm DEF CallInv, TypeOK, TurnTypes, turnVars, InMode, Leasing,
       Origin
  <2>3. strip' = strip
    BY <1>1 DEF Arrival, Arrive, Record, SaveTargets, ReleaseArrives, ReleaseRecords,
       LeaveArrives, ReturnArrives, AwayTicket, SettingsSaved, RefreshArrives,
       JoinArrives, LeaseArrives, Enqueue, worldVars
  <2>4. QED
    BY <2>1, <2>2, <2>3 DEF WorksInv, turnVars, hueVars, InMode
<1>2. ASSUME NEW c \in Calls, TurnStep(c)
      PROVE  WorksInv'
  <2>1. strip' = strip
    BY <1>2, TurnCalm
  <2>2. CASE ~InMode'
    BY <2>1, <2>2 DEF WorksInv
  <2>3. CASE InMode' /\ TakeTurn(c) /\ at' = "begin"
    BY <2>1, <2>3 DEF WorksInv, Settling, Applying, Closing
  <2>4. CASE InMode' /\ ~(TakeTurn(c) /\ at' = "begin")
    BY <1>2, <2>4, ModeTurnStep, WorksSettles, WorksApplies DEF LeaseInv
  <2>5. QED BY <2>2, <2>3, <2>4
<1>3. CASE Quit
  <2>1. closing' # "no" /\ strip' = strip
    BY <1>3 DEF Quit, QuitMarks, QuitStopsLighting, QuitStopsHue
  <2>2. QED BY <2>1 DEF WorksInv, InMode
<1>4. CASE Environment
  BY <1>4 DEF Environment, StreamDrops, StripChanges, AreaSaved, Happens, Reconnects,
     SteadyInv, Steady, HardwareWorks
<1>5. CASE UNCHANGED vars
  BY <1>5 DEF vars, WorksInv, InMode, Leasing, Origin
<1>6. QED
  BY <1>1, <1>2, <1>3, <1>4, <1>5 DEF Next, Rest

LEMMA AwayKept ==
  ASSUME HardwareWorks, ~ArrivalsOverlap, CallInv, LeaseInv, WorksInv, ArrivesAlone,
         AwayIsOff, [Next]_vars
  PROVE  AwayIsOff'
<1> USE DEF CallInv, TypeOK, CallTypes, ModeTypes, Intents, AwayIsOff
<1>1. ASSUME NEW c \in Calls, Arrival(c)
      PROVE  AwayIsOff'
  <2>1. closing' = closing
    BY <1>1, ArrivalForm
  <2> USE DEF Goto, Asks, NoArrival, Arriving
  <2>2. CASE Arrive(c)
    <3>1. PICK r \in Requests :
             /\ call' = [call EXCEPT ![c] = r] /\ away' = AwayAfter(r)
             /\ r.origin = "user"
      BY <2>2 DEF Arrive, WorksInv
    <3>2. /\ intent' = intent /\ pc' = [pc EXCEPT ![c] = "ticketed"]
          /\ \A d \in Calls : pc[d] # "ticketed"
      BY <2>2 DEF Arrive
    <3>3. away' = IF r.mode # NoMode THEN NoMode ELSE away
      BY <3>1 DEF AwayAfter
    <3>4. \A d \in Calls : pc'[d] = "ticketed" => d = c /\ call'[d] = r
      BY <3>1, <3>2
    <3>5. QED BY <2>1, <3>2, <3>3, <3>4
  <2>3. CASE Record(c)
    <3>1. /\ away' = away /\ UNCHANGED call /\ pc[c] = "ticketed"
          /\ \A d \in Calls : pc'[d] = "ticketed" => pc[d] = "ticketed"
          /\ call[c].mode = NoMode => intent'.kind = intent.kind
      BY <2>3 DEF Record
    <3>2. QED BY <2>1, <3>1
  <2>4. CASE LeaveArrives(c) \/ ReturnArrives(c)
    <3>1. \A d \in Calls : pc'[d] # "ticketed"
      BY <2>4 DEF LeaveArrives, ReturnArrives
    <3>2. away' # NoMode => intent'.kind = "Off"
      BY <2>4 DEF LeaveArrives, ReturnArrives
    <3>3. QED BY <3>1, <3>2
  <2>5. CASE ~Arrive(c) /\ ~Record(c) /\ ~LeaveArrives(c) /\ ~ReturnArrives(c)
    <3>1. /\ away' = away /\ intent'.kind = intent.kind
          /\ \A d \in Calls : pc'[d] = "ticketed" => pc[d] = "ticketed" /\ call'[d] = call[d]
      BY <1>1, <2>5 DEF Arrival, SaveTargets, ReleaseArrives, ReleaseRecords, AwayTicket,
         SettingsSaved, RefreshArrives, JoinArrives, LeaseArrives, Enqueue, Answer,
         inputVars
    <3>2. QED BY <2>1, <3>1
  <2>6. QED BY <2>2, <2>3, <2>4, <2>5
<1>2. ASSUME NEW c \in Calls, TurnStep(c)
      PROVE  AwayIsOff'
  <2>1. UNCHANGED <<away, closing>>
    BY <1>2, TurnCalm
  <2>2. \A d \in Calls : pc'[d] = "ticketed" => pc[d] = "ticketed" /\ call'[d] = call[d]
    BY <1>2, TurnStepForm DEF TakeTurn, Overtaken, Holds, Step, End, Answer, Goto, Answers
  <2>3. closing = "no" => intent'.kind \in {intent.kind, "Off"}
    <3>1. CASE FinishEnded(c)
      BY <3>1 DEF FinishEnded
    <3>2. CASE CalibrationRequired(c)
      BY <3>2 DEF CalibrationRequired, NeedsCalibration, HardwareWorks
    <3>3. CASE FinishRefused(c)
      <4>1. closing = "no" => InMode
        BY <3>3, CallsAssumption DEF FinishRefused, On, InMode, LeaseInv, LeaseTurns
      <4>2. QED BY <3>3, <4>1 DEF FinishRefused, On, WorksInv, Closing
    <3>4. QED BY <1>2, <3>1, <3>2, <3>3, KindKept
  <2>4. QED BY <2>1, <2>2, <2>3
<1>3. ASSUME Quit \/ Environment \/ UNCHANGED vars
      PROVE  AwayIsOff'
  <2>1. UNCHANGED <<callVars, away, intent>> /\ (closing' = "no" => closing = "no")
    BY <1>3, OutsideForm, OutsideStream DEF Quit, QuitMarks, QuitStopsLighting,
       QuitStopsHue, Environment, StreamDrops, StripChanges, AreaSaved, Happens,
       Reconnects, modeVars, calmVars, vars
  <2>2. QED BY <2>1 DEF callVars
<1>4. QED
  BY <1>1, <1>2, <1>3 DEF Next, Rest

LEMMA WorksInit ==
  ASSUME HardwareWorks, Init
  PROVE  SteadyInv /\ WorksInv /\ AwayIsOff
<1>1. SteadyInv
  BY CallsAssumption, RequestsAssumption DEF Init, SteadyInv, HasStream, Steady, InMode
<1>2. strip
  BY DEF Init, HardwareWorks
<1>3. turn = "nobody" /\ away = NoMode /\ pc = [c \in Calls |-> "new"]
  BY DEF Init
<1>4. QED BY <1>1, <1>2, <1>3 DEF WorksInv, AwayIsOff, InMode

LEMMA WorksAlways ==
  ASSUME HardwareWorks, CallsInOrder
  PROVE  Spec => [](/\ CallInv /\ LeaseInv /\ OwedInv /\ LightsInv /\ Requested
                    /\ IntentInv /\ SteadyInv /\ WorksInv /\ AwayIsOff)
<1>1. ASSUME CallInv, LeaseInv, LightsInv, IntentInv, SteadyInv, WorksInv, AwayIsOff,
             [Next]_vars
      PROVE  SteadyInv' /\ WorksInv' /\ AwayIsOff'
  <2>1. MaxFaults = 0 /\ ~ArrivalsOverlap /\ ArrivesAlone
    BY <1>1 DEF HardwareWorks, CallsInOrder, IntentInv
  <2>2. QED BY <1>1, <2>1, SteadyKept, WorksKept, AwayKept
<1>2. QED
  BY <1>1, WorksInit, IntentInvAlways, PTL DEF Spec

(* While the user is away nothing is lit, however Leave raced the turns under
   way (prepare_away writes the intent before it takes a ticket), as long as
   the hardware works: a refusal settles the kind of the intent over the Off
   that Leave wrote. *)
THEOREM NothingLitWhileAway ==
  ASSUME HardwareWorks, ~ArrivalsOverlap, \A r \in Requests : r.origin # "release"
  PROVE  Spec => []AwayStaysDark
<1>1. CallsInOrder
  BY DEF CallsInOrder
<1>2. CallInv /\ IntentInv /\ AwayIsOff => AwayStaysDark
  BY QuietOwesNothing DEF AwayStaysDark, AwayIsOff, IntentInv, Follows, WillFollow, InMode,
     Expected, Quiet, Waiting, Answers, Lit
<1>3. QED BY <1>1, <1>2, WorksAlways, PTL

-----------------------------------------------------------------------------
(* The newest choice runs *)

LEMMA AskedKept ==
  ASSUME \A r \in Requests : r.origin # "release", CallInv, WorksInv, Asked, [Next]_vars
  PROVE  Asked'
<1> USE DEF Asked, Origin, CallInv, TypeOK, CallTypes
<1>1. ASSUME NEW c \in Calls, Arrival(c)
      PROVE  Asked'
  <2>1. \A d \in Calls \ {c} : call'[d] = call[d] /\ pc'[d] \in {pc[d], "nothing"}
    BY <1>1, ArrivalForm
  <2>2. /\ call'[c].origin \notin {"unplug", "release"}
        /\ pc'[c] # "releasing"
        /\ pc'[c] = "settling" => call'[c].origin = "settings"
    <3> USE DEF Asks, Goto
    <3>1. CASE Arrive(c)
      BY <3>1 DEF Arrive, WorksInv
    <3>2. CASE ReleaseArrives(c) \/ ReleaseRecords(c)
      BY <3>2 DEF ReleaseArrives, ReleaseRecords
    <3>3. CASE Record(c) \/ SaveTargets(c) \/ AwayTicket(c) \/ Enqueue(c)
      BY <3>3 DEF Record, SaveTargets, AwayTicket, Enqueue
    <3>4. CASE LeaveArrives(c) \/ ReturnArrives(c) \/ SettingsSaved(c)
      BY <3>4 DEF LeaveArrives, ReturnArrives, SettingsSaved
    <3>5. CASE RefreshArrives(c)
      BY <3>5 DEF RefreshArrives, Answer, NoRequest
    <3>6. CASE JoinArrives(c) \/ LeaseArrives(c)
      BY <3>6 DEF JoinArrives, LeaseArrives
    <3>7. QED BY <1>1, <3>1, <3>2, <3>3, <3>4, <3>5, <3>6 DEF Arrival
  <2>3. QED BY <2>1, <2>2
<1>2. ASSUME NEW c \in Calls, TurnStep(c)
      PROVE  Asked'
  <2>1. \A d \in Calls : /\ pc'[d] \in {pc[d], "turn"} \cup Answers
                         /\ call'[d] \in {call[d], NoRequest}
                         /\ pc'[d] = "settling" => call'[d] = call[d]
    BY <1>2, TurnStepForm DEF TakeTurn, Overtaken, Holds, Step, End, Answer, Goto, Answers
  <2>2. NoRequest.origin = "none"
    BY DEF NoRequest
  <2>3. ASSUME NEW d \in Calls
        PROVE  /\ call'[d].origin \notin {"unplug", "release"}
               /\ pc'[d] # "releasing"
               /\ pc'[d] = "settling" => call'[d].origin = "settings"
    BY <2>1, <2>2 DEF Answers
  <2>4. QED BY <2>3
<1>3. ASSUME Quit \/ Environment \/ UNCHANGED vars
      PROVE  Asked'
  BY <1>3, OutsideForm DEF callVars
<1>4. QED
  BY <1>1, <1>2, <1>3 DEF Next, Rest

LEMMA SelectionNotEmpty ==
  ASSUME NEW c \in Calls, TurnStep(c), HardwareWorks, CallInv, LeaseTurns, SteadyInv,
         WorksInv, Asked, SomeOutput, closing = "no"
  PROVE  intent'.targets # {}
<1> USE CallsAssumption DEF CallInv, TypeOK, TurnTypes, ModeTypes, Intents, SomeOutput, On
<1>1. ~KeepsSelection(c)
  BY DEF Asked, KeepsSelection
<1>2. at \in {"hueChecked", "plan"} \cup Applying \cup Closing /\ turn = c => InMode
  BY DEF LeaseTurns, InMode, Applying, Closing
<1>3. CASE Ran(c)
  BY <1>2, <1>3 DEF Ran, WorksInv, Closing
<1>4. CASE RefreshAfterMove(c)
  BY <1>2, <1>4 DEF RefreshAfterMove, HueSettled, SteadyInv, Steady, Settling
<1>5. CASE FallBackToHue(c)
  BY <1>2, <1>5 DEF FallBackToHue, WorksInv, Applying
<1>6. CASE FinishOff(c) \/ FinishRan(c) \/ FinishEnded(c)
  BY <1>1, <1>6 DEF FinishOff, FinishRan, FinishEnded
<1>7. CASE FinishRefused(c) \/ CalibrationRequired(c)
  BY <1>7 DEF FinishRefused, CalibrationRequired, Settled
<1>8. CASE /\ ~FinishOff(c) /\ ~FinishRan(c) /\ ~FinishEnded(c) /\ ~Ran(c)
           /\ ~RefreshAfterMove(c) /\ ~FallBackToHue(c) /\ ~FinishRefused(c)
           /\ ~CalibrationRequired(c)
  <2>1. intent' = intent
    BY <1>8 DEF TurnStep, TakeTurn, Overtaken, NothingToDo, ShuttingDown,
       ReleaseWhileOff, StartOff, OffOvertaken, OffStopsHue, StartOn, StartRefresh,
       MoveStop, StartHue, BringUp, HueOvertaken, Plan, PlanNothing, ApplyGated,
       ApplyRuns, ApplyFails, FallBackToUsb, FallBackOvertaken, TryAgain,
       ApplyShutDown, Judge, Refuse, EndMode, HueDown, LeaseSettled, LeaseStarts,
       LeaseIsUp, LeaseGivesBack, LeaseStops, modeVars, inputVars
  <2>2. QED BY <2>1
<1>9. QED BY <1>3, <1>4, <1>5, <1>6, <1>7, <1>8

LEMMA SomeOutputKept ==
  ASSUME HardwareWorks, \A r \in Requests : r.targets # {}, CallInv, LeaseInv, SteadyInv,
         WorksInv, Requested, Asked, SomeOutput, [Next]_vars
  PROVE  SomeOutput'
<1> USE CallsAssumption DEF CallInv
<1>1. ASSUME NEW c \in Calls, Arrival(c)
      PROVE  SomeOutput'
  <2>1. UNCHANGED <<closing, turnVars>> /\ turn # c
    BY <1>1, ArrivalForm DEF TypeOK, TurnsInOrder, TurnHeld
  <2>2. InMode' <=> InMode
    BY <1>1, <2>1, ArrivalForm DEF TypeOK, TurnTypes, turnVars, InMode, Leasing, Origin
  <2>3. intent'.targets = intent.targets \/ intent'.targets # {}
    <3> USE DEF TypeOK, ModeTypes, Intents
    <3>1. CASE Record(c)
      BY <3>1 DEF Record, Requested, NoRequest, Keep
    <3>2. CASE ReleaseRecords(c)
      BY <3>2 DEF ReleaseRecords, Asked
    <3>3. CASE ~Record(c) /\ ~ReleaseRecords(c)
      BY <1>1, <3>3 DEF Arrival, Arrive, SaveTargets, ReleaseArrives, LeaveArrives,
         ReturnArrives, AwayTicket, SettingsSaved, RefreshArrives, JoinArrives,
         LeaseArrives, Enqueue, inputVars
    <3>4. QED BY <3>1, <3>2, <3>3
  <2>4. QED BY <2>1, <2>2, <2>3 DEF SomeOutput, turnVars
<1>2. ASSUME NEW c \in Calls, TurnStep(c)
      PROVE  SomeOutput'
  <2>1. closing' = closing
    BY <1>2, TurnCalm
  <2>2. closing = "no" => intent'.targets # {}
    BY <1>2, SelectionNotEmpty DEF LeaseInv
  <2>3. CASE ~InMode' \/ at' = "begin"
    BY <2>1, <2>2, <2>3 DEF SomeOutput, Settling, Applying, Closing
  <2>4. CASE InMode' /\ at' # "begin"
    <3> USE DEF TypeOK, TurnTypes, On, Settling, Applying, Closing, Step
    <3>1. InMode /\ turn = c /\ closing = "no"
      BY <1>2, <2>4, ModeTurnStep DEF LeaseInv, InMode
    <3>2. ASSUME at' # "endMode", at' \in Settling => tx'.want.targets # {},
                 at' \in Settling \cup Applying \cup Closing => tx'.end # "ended"
          PROVE  SomeOutput'
      BY <2>1, <2>2, <3>2 DEF SomeOutput
    <3>3. CASE StartOff(c) \/ OffStopsHue(c)
      BY <3>2, <3>3 DEF StartOff, OffStopsHue
    <3>4. CASE StartOn(c)
      <4>1. at' \in Settling /\ tx'.want = intent /\ tx'.end = "none"
        BY <3>4, NewTxTypes, NewTxIs DEF StartOn, TxLocals, HardwareWorks
      <4>2. QED BY <3>1, <3>2, <4>1 DEF SomeOutput
    <3>5. CASE StartRefresh(c)
      <4>1. at' = "apply" /\ tx'.end = "none"
        BY <3>5, NewTxTypes, NewTxIs DEF StartRefresh, AreaMoved, SteadyInv, Steady,
           TxLocals
      <4>2. QED BY <3>2, <4>1
    <3>6. CASE MoveStop(c) \/ StartHue(c) \/ BringUp(c) \/ Plan(c)
      <4>1. /\ at \in Settling /\ at' \in Settling \cup {"ran", "apply"}
            /\ tx'.want = tx.want /\ tx'.end = tx.end
        BY <3>6 DEF MoveStop, StartHue, BringUp, Plan, HueSettled, TxLocals
      <4>2. QED BY <3>1, <3>2, <4>1 DEF SomeOutput
    <3>7. CASE PlanNothing(c)
      <4>1. /\ at \in {"hueChecked", "plan"} /\ "usb" \notin tx.want.targets
            /\ ~(WantsHue(c, tx.want.targets) /\ tx.ok)
        BY <3>7 DEF PlanNothing, HueSettled
      <4>2. "hue" \in tx.want.targets
        BY <3>1, <4>1 DEF SomeOutput, TxLocals, Intents, Outputs
      <4>3. QED BY <3>1, <4>1, <4>2 DEF WantsHue, Asked, WorksInv
    <3>8. CASE RefreshAfterMove(c)
      BY <3>1, <3>8 DEF RefreshAfterMove, HueSettled, SteadyInv, Steady
    <3>9. CASE ApplyGated(c) \/ ApplyRuns(c) \/ ApplyFails(c)
      <4>1. at = "apply" /\ at' = "judge" /\ tx'.end = tx.end
        BY <3>9 DEF ApplyGated, ApplyRuns, ApplyFails, TxLocals
      <4>2. QED BY <3>1, <3>2, <4>1 DEF SomeOutput
    <3>10. CASE FallBackToUsb(c) \/ FallBackToHue(c) \/ TryAgain(c) \/ Refuse(c)
                \/ EndMode(c)
      BY <3>1, <3>10 DEF FallBackToUsb, FallBackToHue, TryAgain, Refuse, EndMode,
         WorksInv, SomeOutput
    <3>11. CASE Judge(c) \/ HueDown(c)
      <4>1. /\ at \in {"judge", "down"} /\ at' \in {"ran", "refuse", "finish"}
            /\ tx'.end = tx.end
        BY <3>11 DEF Judge, HueDown
      <4>2. QED BY <3>1, <3>2, <4>1 DEF SomeOutput
    <3>12. CASE Ran(c)
      <4>1. at' \in {"down", "finish"} /\ tx'.end = "ran"
        BY <3>12 DEF Ran, TxLocals
      <4>2. QED BY <3>2, <4>1
    <3>13. QED
      BY <1>2, <2>4, ModeTurnStep, <3>3, <3>4, <3>5, <3>6, <3>7, <3>8, <3>9, <3>10, <3>11,
         <3>12 DEF LeaseInv
  <2>5. QED BY <2>3, <2>4
<1>3. ASSUME Quit \/ Environment \/ UNCHANGED vars
      PROVE  SomeOutput'
  <2>1. UNCHANGED <<callVars, turnVars, intent>> /\ (closing' = "no" => closing = "no")
    BY <1>3, OutsideForm, OutsideStream DEF Quit, QuitMarks, QuitStopsLighting,
       QuitStopsHue, Environment, StreamDrops, StripChanges, AreaSaved, Happens,
       Reconnects, modeVars, vars
  <2>2. QED
    BY <2>1 DEF SomeOutput, InMode, Leasing, Origin, callVars, turnVars
<1>4. QED
  BY <1>1, <1>2, <1>3 DEF Next, Rest

ChoiceInv == TicketsPast /\ SoleChoice /\ KindChosen /\ WantChosen

LEMMA ChoiceArrives ==
  ASSUME NEW c \in Calls, Arrival(c), CallInv, WrittenAway, ArrivesAlone, Asked, ChoiceInv
  PROVE  ChoiceInv'
<1> USE DEF CallInv, TypeOK, CallTypes, CalmTypes, Goto, Asks
<1>1. /\ UNCHANGED <<closing, turnVars>> /\ turn # c
      /\ \A d \in Calls \ {c} : call'[d] = call[d] /\ pc'[d] \in {pc[d], "nothing"}
      /\ \A d \in Calls \ {c} : ticket'[d] = ticket[d]
  BY ArrivalForm, ArrivalOwes DEF TurnsInOrder, TurnHeld
<1>2. InMode' <=> InMode
  BY <1>1 DEF TurnTypes, turnVars, InMode, Leasing, Origin
(* A new ticket is nobody's but the arriving call's. *)
<1>3. ASSUME latest' = latest + 1, ticket'[c] = latest + 1,
             ~(Origin(c)' = "user"
               /\ pc'[c] \in {"unsaved", "recorded", "queued", "turn"})
      PROVE  ChoiceInv'
  <2>1. \A d \in Calls \ {c} : ticket'[d] <= latest /\ ticket'[d] # latest'
    BY <1>1, <1>3 DEF ChoiceInv, TicketsPast
  <2>2. TicketsPast'
    BY <1>1, <1>3, <2>1 DEF TicketsPast
  <2>3. \A d \in Calls : Chooses(d)' => d = c
    BY <2>1 DEF Chooses
  <2>4. SoleChoice'
    BY <2>3 DEF SoleChoice
  <2>5. KindChosen'
    BY <1>3, <2>3 DEF KindChosen, Chooses
  <2>6. turn # "nobody" => ~Chooses(turn)'
    BY <1>1, <2>3 DEF TurnTypes, turnVars
  <2>7. WantChosen'
    BY <1>1, <2>6 DEF WantChosen, InMode, turnVars, Chooses
  <2>8. QED BY <2>2, <2>4, <2>5, <2>7 DEF ChoiceInv
<1>4. ASSUME latest' = latest, ticket'[c] <= latest, Chooses(c)' => Chooses(c),
             KindChosen', NoneWritten' => NoneWritten
      PROVE  ChoiceInv'
  <2>1. TicketsPast'
    BY <1>1, <1>4 DEF ChoiceInv, TicketsPast
  <2>2. \A d \in Calls : Chooses(d)' => Chooses(d)
    BY <1>1, <1>4 DEF Chooses, Origin
  <2>3. SoleChoice'
    BY <2>2 DEF ChoiceInv, SoleChoice
  <2>4. /\ turn' = turn /\ at' = at /\ tx' = tx
        /\ turn # "nobody" => call'[turn] = call[turn] /\ (Chooses(turn)' => Chooses(turn))
    BY <1>1, <1>4 DEF TurnTypes, turnVars, Chooses, Origin
  <2>5. WantChosen'
    BY <1>2, <1>4, <2>4 DEF ChoiceInv, WantChosen, InMode
  <2>6. QED BY <1>4, <2>1, <2>3, <2>5 DEF ChoiceInv
<1>5. CASE Arrive(c)
  BY <1>3, <1>5 DEF Arrive, IssueTicket
<1>6. CASE ReleaseArrives(c) \/ ReleaseRecords(c)
  BY <1>3, <1>6 DEF ReleaseArrives, ReleaseRecords, Asked, IssueTicket
<1>7. CASE AwayTicket(c)
  BY <1>3, <1>7 DEF AwayTicket, IssueTicket, WrittenAway, Origin
<1>8. CASE Record(c)
  <2>1. /\ UNCHANGED <<latest, ticket, call>> /\ pc[c] = "ticketed"
        /\ call[c].mode # NoMode => intent'.kind = call[c].mode
        /\ call[c].mode = NoMode => intent'.kind = intent.kind
        /\ \A d \in Calls \ {c} : pc'[d] = pc[d]
        /\ pc'[c] # "written"
    BY <1>8 DEF Record
  <2>2. Chooses(c)
    BY <2>1 DEF ArrivesAlone, Asked, Chooses
  <2>3. \A d \in Calls : Chooses(d)' => d = c
    BY <2>1, <2>2 DEF ChoiceInv, SoleChoice, Chooses, Origin
  <2>4. KindChosen'
    BY <2>1, <2>3 DEF KindChosen
  <2>5. QED
    BY <1>4, <2>1, <2>2, <2>4 DEF ChoiceInv, TicketsPast, NoneWritten
<1>9. CASE LeaveArrives(c) \/ ReturnArrives(c)
  <2>1. /\ UNCHANGED <<latest, ticket>> /\ pc'[c] = "written"
        /\ call'[c].origin # "user"
    BY <1>9 DEF LeaveArrives, ReturnArrives
  <2>2. ~NoneWritten'
    BY <2>1 DEF NoneWritten
  <2>3. QED
    BY <1>4, <2>1, <2>2 DEF ChoiceInv, TicketsPast, KindChosen, Chooses, Origin
<1>10. CASE \/ SaveTargets(c) \/ SettingsSaved(c) \/ RefreshArrives(c) \/ JoinArrives(c)
            \/ LeaseArrives(c) \/ Enqueue(c)
  <2>1. /\ latest' = latest /\ intent'.kind = intent.kind /\ ticket'[c] <= latest
        /\ pc[c] # "written" /\ pc[c] # "turn"
        /\ Chooses(c)' => /\ Chooses(c) /\ call'[c] = call[c]
                          /\ pc'[c] \in {"unsaved", "recorded", "queued", "turn"} =>
                               pc[c] \in {"unsaved", "recorded", "queued", "turn"}
    <3> USE DEF ChoiceInv, TicketsPast, Chooses, Origin, ModeTypes, Intents
    <3>1. CASE SaveTargets(c) \/ Enqueue(c)
      BY <3>1 DEF SaveTargets, Enqueue, inputVars
    <3>2. CASE SettingsSaved(c) \/ JoinArrives(c) \/ LeaseArrives(c)
      BY <3>2 DEF SettingsSaved, JoinArrives, LeaseArrives, inputVars
    <3>3. CASE RefreshArrives(c)
      BY <3>3 DEF RefreshArrives, Answer, inputVars, Asked, NoRequest
    <3>4. QED BY <1>10, <3>1, <3>2, <3>3
  <2>2. \A d \in Calls : pc[d] = "written" => pc'[d] = "written"
    BY <1>10, <2>1 DEF SaveTargets, SettingsSaved, RefreshArrives, Answer, JoinArrives,
       LeaseArrives, Enqueue
  <2>3. NoneWritten' => NoneWritten
    BY <2>2 DEF NoneWritten
  <2>4. KindChosen'
    BY <1>1, <2>1, <2>3 DEF ChoiceInv, KindChosen, Chooses, Origin
  <2>5. QED BY <1>4, <2>1, <2>3, <2>4
<1>11. QED BY <1>5, <1>6, <1>7, <1>8, <1>9, <1>10 DEF Arrival

LEMMA ChoiceTurns ==
  ASSUME NEW c \in Calls, TurnStep(c), HardwareWorks, CallInv, LeaseInv, WorksInv,
         SomeOutput, ChoiceInv
  PROVE  ChoiceInv'
<1> USE CallsAssumption DEF CallInv, TypeOK, CallTypes, CalmTypes
<1>1. UNCHANGED <<latest, closing>>
  BY TurnCalm
<1>2. /\ \A d \in Calls : /\ ticket'[d] \in {ticket[d], 0}
                          /\ call'[d].origin = "user" =>
                               call'[d] = call[d] /\ ticket'[d] = ticket[d]
                          /\ pc[d] = "written" => pc'[d] = "written"
                          /\ pc'[d] \in {"unsaved", "recorded", "queued", "turn"} =>
                               pc[d] \in {"unsaved", "recorded", "queued", "turn"}
  <2>1. CASE TakeTurn(c)
    BY <2>1, HeadWaits DEF TakeTurn, Goto
  <2>2. CASE Overtaken(c)
    BY <2>2, HeadWaits DEF Overtaken, Answer, Goto, NoRequest
  <2>3. CASE Holds(c)
    BY <2>3 DEF Holds, Step, End, Answer, Answers, Goto, NoRequest, TurnsInOrder, TurnHeld
  <2>4. QED BY <2>1, <2>2, <2>3, TurnStepForm
<1>3. TicketsPast'
  <2>1. SUFFICES ASSUME NEW d \in Calls
                 PROVE  ticket'[d] <= latest'
    BY DEF TicketsPast
  <2>2. ticket'[d] \in {ticket[d], 0} /\ ticket[d] <= latest
    BY <1>2 DEF ChoiceInv, TicketsPast
  <2>3. QED BY <1>1, <2>2
<1>4. \A d \in Calls : Chooses(d)' => Chooses(d) /\ call'[d] = call[d]
  BY <1>1, <1>2 DEF Chooses, Origin
<1>5. SoleChoice'
  BY <1>4 DEF ChoiceInv, SoleChoice
<1>6. NoneWritten' => NoneWritten
  BY <1>2 DEF NoneWritten
<1>7. closing = "no" => intent'.kind = intent.kind
  <2>1. CASE FinishRefused(c) \/ FinishEnded(c)
    <3>1. closing = "no" => InMode
      BY <2>1 DEF FinishRefused, FinishEnded, On, InMode, LeaseInv, LeaseTurns
    <3>2. QED
      BY <2>1, <3>1 DEF FinishRefused, FinishEnded, On, WorksInv, SomeOutput, Closing
  <2>2. CASE CalibrationRequired(c)
    BY <2>2 DEF CalibrationRequired, NeedsCalibration, HardwareWorks
  <2>3. QED BY <2>1, <2>2, KindKept
<1>8. KindChosen'
  BY <1>1, <1>2, <1>4, <1>6, <1>7 DEF ChoiceInv, KindChosen
<1>9. WantChosen'
  <2>1. CASE ~InMode' \/ at' = "begin"
    BY <2>1 DEF WantChosen, Settling, Applying, Closing
  <2>2. CASE InMode' /\ at' # "begin" /\ Chooses(c)' /\ NoneWritten'
    <3> USE DEF TurnTypes, On, Step
    <3>1. /\ InMode /\ turn = c /\ turn' = c /\ closing = "no" /\ pc[c] = "turn"
          /\ Chooses(c) /\ NoneWritten /\ call'[c] = call[c]
      BY <1>4, <1>6, <2>2, ModeTurnStep DEF LeaseInv, InMode, TurnsInOrder, TurnHeld
    <3>2. CASE StartOff(c) \/ StartOn(c)
      <4>1. tx'.want = intent
        BY <3>2, NewTxTypes, NewTxIs DEF StartOff, StartOn, TxLocals
      <4>2. QED BY <3>1, <4>1 DEF ChoiceInv, KindChosen, WantChosen
    <3>3. CASE StartRefresh(c)
      BY <3>1, <3>3 DEF StartRefresh, Opens, Chooses
    <3>4. CASE /\ ~StartOff(c) /\ ~StartOn(c) /\ ~StartRefresh(c)
      <4>1. tx'.want = tx.want
            /\ at \in Settling \cup Applying \cup Closing \cup {"offHue", "offDone"}
        BY <2>2, <3>1, <3>4, ModeTurnStep DEF LeaseInv, TakeTurn, OffStopsHue, MoveStop,
           StartHue, BringUp, Plan, PlanNothing, RefreshAfterMove, HueSettled, ApplyGated,
           ApplyRuns, ApplyFails, FallBackToUsb, FallBackToHue, TryAgain, Judge, Ran,
           Refuse, EndMode, HueDown, TxLocals, Settling, Applying, Closing
      <4>2. QED BY <3>1, <4>1 DEF ChoiceInv, WantChosen
    <3>5. QED BY <3>2, <3>3, <3>4
  <2>3. turn' \in {c, "nobody"} \/ ~InMode'
    BY ModeTurnStep DEF LeaseInv, TakeTurn
  <2>4. CASE InMode' /\ at' # "begin" /\ ~(Chooses(c)' /\ NoneWritten')
    BY <2>3, <2>4 DEF WantChosen, InMode, Chooses
  <2>5. QED BY <2>1, <2>2, <2>4
<1>10. QED BY <1>3, <1>5, <1>8, <1>9 DEF ChoiceInv

LEMMA ChoiceKept ==
  ASSUME HardwareWorks, CallInv, LeaseInv, OwedInv, ArrivesAlone, WorksInv, Asked,
         SomeOutput, ChoiceInv, [Next]_vars
  PROVE  ChoiceInv'
<1>1. ASSUME NEW c \in Calls, Arrival(c)
      PROVE  ChoiceInv'
  BY <1>1, ChoiceArrives DEF OwedInv
<1>2. ASSUME NEW c \in Calls, TurnStep(c)
      PROVE  ChoiceInv'
  BY <1>2, ChoiceTurns
<1>3. ASSUME Quit \/ Environment \/ UNCHANGED vars
      PROVE  ChoiceInv'
  <2>1. UNCHANGED <<callVars, turnVars, intent, latest>>
        /\ (closing' = "no" => closing = "no")
    BY <1>3, OutsideForm, OutsideOwes, OutsideStream DEF Quit, QuitMarks,
       QuitStopsLighting, QuitStopsHue, Environment, StreamDrops, StripChanges,
       AreaSaved, Happens, Reconnects, modeVars, vars
  <2>2. QED
    BY <2>1 DEF ChoiceInv, TicketsPast, SoleChoice, KindChosen, WantChosen, Chooses,
       NoneWritten, InMode, Leasing, Origin, callVars, turnVars
<1>4. QED
  BY <1>1, <1>2, <1>3 DEF Next, Rest

(* The hypotheses of the theorem below: every selection names an output, no
   release takes one away, and no quit stops the lights. *)
ChoicesRun == /\ HardwareWorks /\ CallsInOrder /\ ~MayQuit
              /\ \A r \in Requests : r.targets # {}
              /\ \A s \in Starts : s.targets # {}

NoQuit == closing = "no"

LEMMA ChoiceInvAlways ==
  ASSUME ChoicesRun
  PROVE  Spec => [](/\ CallInv /\ LeaseInv /\ LightsInv /\ IntentInv
                    /\ WorksInv /\ Asked /\ SomeOutput /\ ChoiceInv /\ NoQuit)
<1>1. ASSUME Init
      PROVE  Asked /\ SomeOutput /\ ChoiceInv /\ NoQuit
  <2>1. /\ turn = "nobody" /\ closing = "no" /\ latest = 0
        /\ pc = [c \in Calls |-> "new"] /\ call = [c \in Calls |-> NoRequest]
        /\ ticket = [c \in Calls |-> 0]
    BY <1>1 DEF Init
  <2>2. intent.targets # {}
    BY <1>1 DEF Init, ChoicesRun
  <2>3. Asked /\ SomeOutput
    BY <2>1, <2>2 DEF Asked, SomeOutput, InMode, Origin, NoRequest
  <2>4. ChoiceInv
    BY <2>1 DEF ChoiceInv, TicketsPast, SoleChoice, KindChosen, WantChosen, Chooses,
       InMode, Origin, NoRequest
  <2>5. QED BY <2>1, <2>3, <2>4 DEF NoQuit
<1>2. ASSUME CallInv, LeaseInv, OwedInv, LightsInv, Requested, IntentInv, SteadyInv,
             WorksInv, Asked, SomeOutput, ChoiceInv, NoQuit, [Next]_vars
      PROVE  Asked' /\ SomeOutput' /\ ChoiceInv' /\ NoQuit'
  <2> USE DEF NoQuit
  <2>1. /\ HardwareWorks /\ ~MayQuit
        /\ \A r \in Requests : r.origin # "release" /\ r.targets # {}
    BY DEF ChoicesRun, CallsInOrder
  <2>2. Asked' /\ SomeOutput'
    BY <1>2, <2>1, AskedKept, SomeOutputKept
  <2>3. ChoiceInv'
    BY <1>2, <2>1, ChoiceKept DEF IntentInv
  <2>4. closing' = "no"
    <3>1. ~Quit
      BY <1>2, <2>1 DEF Quit, QuitMarks, QuitStopsLighting, QuitStopsHue
    <3>2. ASSUME NEW c \in Calls, Arrival(c)
          PROVE  closing' = closing
      BY <1>2, <3>2, ArrivalForm DEF CallInv, TypeOK
    <3>3. ASSUME NEW c \in Calls, TurnStep(c)
          PROVE  closing' = closing
      BY <3>3, TurnCalm
    <3>4. Environment \/ UNCHANGED vars => closing' = closing
      BY DEF Environment, StreamDrops, StripChanges, AreaSaved, Happens, Reconnects, vars,
         calmVars, worldVars
    <3>5. QED BY <1>2, <3>1, <3>2, <3>3, <3>4 DEF Next, Rest
  <2>5. QED BY <2>2, <2>3, <2>4
<1>3. HardwareWorks /\ CallsInOrder
  BY DEF ChoicesRun
<1>4. Spec => [](/\ CallInv /\ LeaseInv /\ OwedInv /\ LightsInv /\ Requested
                 /\ IntentInv /\ SteadyInv /\ WorksInv /\ AwayIsOff)
  BY <1>3, WorksAlways
<1>5. QED
  BY <1>1, <1>2, <1>4, PTL DEF Spec

LEMMA ChoiceAnswered ==
  ASSUME NEW c \in Calls, CallInv, LeaseInv, LightsInv, IntentInv, WorksInv, SomeOutput,
         ChoiceInv, NoQuit, [Next]_vars, Newest(c), Answered(c, "applied")
  PROVE  running'.kind = call[c].mode
<1> USE CallsAssumption DEF Newest, Answered, NoQuit
<1>1. NoneWritten /\ Chooses(c) /\ ~Leasing(c) /\ InMode
  BY DEF NoneWritten, Chooses, Superseded, Leasing, InMode, Arriving
<1>2. TurnStep(c)
  <2>1. ASSUME NEW d \in Calls, Arrival(d)
        PROVE  FALSE
    BY <2>1, ArrivalForm DEF CallInv, TypeOK
  <2>2. ASSUME NEW d \in Calls, TurnStep(d), d # c
        PROVE  FALSE
    BY <2>2, TurnStepForm DEF TakeTurn, Overtaken, Holds
  <2>3. ASSUME Quit \/ Environment \/ UNCHANGED vars
        PROVE  FALSE
    BY <2>3, OutsideForm DEF callVars
  <2>4. QED BY <2>1, <2>2, <2>3 DEF Next, Rest
<1> USE DEF CallInv, TypeOK, CallTypes, On
<1>3. \/ FinishOff(c) \/ FinishRan(c) \/ FinishEnded(c) \/ NothingToDo(c)
      \/ ReleaseWhileOff(c)
  <2>1. ~(\E label, t : Step(label, t))
    BY DEF Step
  <2>2. \A answer \in Answers : End(c, answer) => answer = "applied"
    BY DEF End, Answer, Goto
  <2>3. ~LeaseSettled(c) /\ ~LeaseStarts(c) /\ ~LeaseIsUp(c) /\ ~LeaseGivesBack(c)
        /\ ~LeaseStops(c)
    BY <1>1 DEF LeaseSettled, LeaseStarts, LeaseIsUp, LeaseGivesBack, LeaseStops,
       Leasing, WorksInv
  <2>4. ~TakeTurn(c) /\ ~Overtaken(c)
    BY DEF TakeTurn, Overtaken
  <2>5. /\ ~ShuttingDown(c) /\ ~OffOvertaken(c) /\ ~CalibrationRequired(c)
        /\ ~HueOvertaken(c) /\ ~FallBackOvertaken(c) /\ ~ApplyShutDown(c)
        /\ ~FinishRefused(c)
    BY <2>2 DEF ShuttingDown, OffOvertaken, CalibrationRequired, HueOvertaken,
       FallBackOvertaken, ApplyShutDown, FinishRefused, Answers
  <2>6. /\ ~StartOff(c) /\ ~OffStopsHue(c) /\ ~StartOn(c) /\ ~StartRefresh(c)
        /\ ~MoveStop(c) /\ ~StartHue(c) /\ ~BringUp(c) /\ ~Plan(c) /\ ~PlanNothing(c)
        /\ ~RefreshAfterMove(c)
    BY <2>1 DEF StartOff, OffStopsHue, StartOn, StartRefresh, MoveStop, StartHue, BringUp,
       Plan, PlanNothing, RefreshAfterMove
  <2>7. /\ ~ApplyGated(c) /\ ~ApplyRuns(c) /\ ~ApplyFails(c) /\ ~FallBackToUsb(c)
        /\ ~FallBackToHue(c) /\ ~TryAgain(c) /\ ~Judge(c) /\ ~Ran(c) /\ ~Refuse(c)
        /\ ~EndMode(c) /\ ~HueDown(c)
    BY <2>1 DEF ApplyGated, ApplyRuns, ApplyFails, FallBackToUsb, FallBackToHue, TryAgain,
       Judge, Ran, Refuse, EndMode, HueDown
  <2>8. QED BY <1>2, <2>3, <2>4, <2>5, <2>6, <2>7 DEF TurnStep
<1>4. CASE FinishOff(c)
  <2>1. running.kind = "Off" /\ running' = running
    BY <1>1, <1>4 DEF FinishOff, LightsInv, OffRuns, OffMode
  <2>2. tx.want.kind = call[c].mode
    BY <1>1, <1>4 DEF FinishOff, ChoiceInv, WantChosen
  <2>3. tx.want.kind = "Off"
    BY <1>1, <1>4 DEF FinishOff, WorksInv
  <2>4. QED BY <2>1, <2>2, <2>3
<1>5. CASE FinishRan(c)
  <2>1. tx.want.kind = call[c].mode
    BY <1>1, <1>5 DEF FinishRan, ChoiceInv, WantChosen, Closing
  <2>2. tx.kind = tx.want.kind /\ running.kind = tx.kind
    BY <1>1, <1>5 DEF FinishRan, IntentInv, LocalsInv, KindWanted, RanRuns, HasRun,
       Closing, Refreshes
  <2>3. QED BY <1>5, <2>1, <2>2 DEF FinishRan
<1>6. CASE FinishEnded(c)
  BY <1>1, <1>6 DEF FinishEnded, SomeOutput, Closing
<1>7. CASE NothingToDo(c) \/ ReleaseWhileOff(c)
  BY <1>7 DEF NothingToDo, NothingDue, ReleaseWhileOff, Opens
<1>8. QED BY <1>3, <1>4, <1>5, <1>6, <1>7

(* The newest request wins: while the hardware works, a choice of a mode that
   is answered "applied" and that nothing has superseded is the mode that runs
   (tickets, the fair lock and the level-triggered reconcile). *)
THEOREM TheNewestChoiceRuns ==
  ASSUME HardwareWorks, ~ArrivalsOverlap, ~MayQuit,
         \A r \in Requests : r.origin # "release" /\ r.targets # {},
         \A s \in Starts : s.targets # {}
  PROVE  Spec => NewestChoiceRuns
<1>1. ChoicesRun
  BY DEF ChoicesRun, CallsInOrder
<1>2. ASSUME CallInv, LeaseInv, LightsInv, IntentInv, WorksInv, Asked, SomeOutput,
             ChoiceInv, NoQuit, [Next]_vars
      PROVE  [\A c \in Calls : Newest(c) /\ Answered(c, "applied")
                => running'.kind = call[c].mode]_vars
  BY <1>2, ChoiceAnswered
<1>3. Spec => [](/\ CallInv /\ LeaseInv /\ LightsInv /\ IntentInv
                 /\ WorksInv /\ Asked /\ SomeOutput /\ ChoiceInv /\ NoQuit)
  BY <1>1, ChoiceInvAlways
<1>4. QED BY <1>2, <1>3, PTL DEF Spec, NewestChoiceRuns
=============================================================================
