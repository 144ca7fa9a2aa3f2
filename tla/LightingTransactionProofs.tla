---------------------------- MODULE LightingTransactionProofs ----------------------------
(***************************************************************************)
(* What holds of the lighting transaction for every number of calls,      *)
(* every set of modes and requests and every answer of the hardware.      *)
(***************************************************************************)
EXTENDS LightingTransaction, TLAPS

(* The holder of the turn is the one call that is in it. *)
TurnHeld == \A c \in Calls : pc[c] = "turn" <=> turn = c

(* What a call keeps: an unplug or a release has a selection to give back by
   the time it waits, and only a call that names a selection saves one. *)
SelectionKnown == \A c \in Calls :
  /\ KeepsSelection(c) /\ pc[c] # "releasing" => keep[c] \in SUBSET Outputs
  /\ pc[c] = "unsaved" => call[c].targets # Keep

-----------------------------------------------------------------------------
(* What the helpers of the actions do to the types *)

LEMMA GotoTypes ==
  ASSUME NEW c \in Calls, NEW label, CallTypes, Goto(c, label),
         label \in {"new", "recorded", "settling", "queued", "turn"}
                     \cup Arriving \cup Answers
  PROVE  pc' \in [Calls -> {"new", "recorded", "settling", "queued", "turn"}
                             \cup Arriving \cup Answers]
BY DEF CallTypes, Goto

LEMMA StepTypes ==
  ASSUME CallTypes, TurnTypes, NEW label \in Labels, NEW t \in TxLocals,
         Step(label, t)
  PROVE  CallTypes' /\ TurnTypes'
BY DEF CallTypes, TurnTypes, Step

LEMMA NoRequestOfNone ==
  NoRequest.origin = "none" /\ NoTx \in TxLocals /\ OffMode \in Selections
BY DEF NoRequest, NoTx, TxLocals, OffMode, Selections, Intents, Kinds

LEMMA AppendTypes ==
  ASSUME NEW c \in Calls, CallTypes
  PROVE  Append(queue, c) \in Seq(Calls)
BY DEF CallTypes

LEMMA AnswerTypes ==
  ASSUME NEW c \in Calls, NEW answer \in Answers, CallTypes,
         Answer(c, answer), queue' \in Seq(Calls)
  PROVE  CallTypes'
<1>1. pc' \in [Calls -> {"new", "recorded", "settling", "queued", "turn"}
                          \cup Arriving \cup Answers]
  BY GotoTypes DEF Answer
<1>2. QED
  BY <1>1 DEF Answer, CallTypes

LEMMA EndTypes ==
  ASSUME NEW c \in Calls, NEW answer \in Answers, CallTypes, TurnTypes,
         End(c, answer)
  PROVE  CallTypes' /\ TurnTypes'
<1>1. CallTypes'
  BY AnswerTypes DEF End, CallTypes
<1>2. QED
  BY <1>1, NoRequestOfNone DEF End, TurnTypes, Labels

LEMMA NewTxTypes ==
  ASSUME ModeTypes
  PROVE  NewTx \in TxLocals
BY DEF ModeTypes, NewTx, NoTx, TxLocals, Intents, Selections, Kinds, OffMode

-----------------------------------------------------------------------------
(* Types: the arrivals *)

LEMMA ArrivalTypes ==
  ASSUME NEW c \in Calls, Arrival(c), TypeOK, SelectionKnown
  PROVE  TypeOK'
<1> USE DEF TypeOK
<1> DEFINE Labelled == {"new", "recorded", "settling", "queued", "turn"}
                         \cup Arriving \cup Answers
<1>1. ASSUME NEW r \in Requests, call' = [call EXCEPT ![c] = r]
      PROVE  r \in AllRequests /\ call' \in [Calls -> AllRequests \cup {NoRequest}]
  BY <1>1, RequestsAssumption DEF CallTypes
<1>2. ASSUME IssueTicket(c)
      PROVE  latest' \in Nat /\ ticket' \in [Calls -> Nat]
  BY <1>2 DEF IssueTicket, CallTypes, CalmTypes
<1>3. CASE Arrive(c)
  <2>1. pc' \in [Calls -> Labelled]
    BY <1>3, GotoTypes DEF Arrive, Arriving
  <2>2. PICK r \in Requests :
          /\ call' = [call EXCEPT ![c] = r]
          /\ away' = AwayAfter(r)
          /\ keep' = IF r.origin = "unplug"
                       THEN [keep EXCEPT ![c] = intent.targets] ELSE keep
    BY <1>3 DEF Arrive, Asks
  <2>3. keep' \in [Calls -> (SUBSET Outputs) \cup {Keep}]
    BY <2>2 DEF CallTypes, ModeTypes, Intents
  <2>4. CallTypes'
    BY <1>1, <1>2, <1>3, <2>1, <2>2, <2>3 DEF Arrive, CallTypes
  <2>5. TurnTypes' /\ ModeTypes' /\ HueTypes' /\ CalmTypes'
    BY <1>2, <1>3, <2>2 DEF Arrive, TurnTypes, ModeTypes, HueTypes, CalmTypes,
       turnVars, hueVars, worldVars, AwayAfter
  <2>6. QED BY <2>4, <2>5
<1>4. CASE Record(c)
  <2>1. pc' \in [Calls -> Labelled]
    BY <1>4, GotoTypes DEF Record, Arriving
  <2>2. /\ call[c].mode \in Kinds \cup {NoMode}
        /\ call[c].targets \in (SUBSET Outputs) \cup {Keep}
    BY DEF CallTypes, AllRequests, NoRequest
  <2>3. intent' \in Intents
    <3> DEFINE kind    == IF call[c].mode = NoMode THEN intent.kind ELSE call[c].mode
               targets == IF call[c].targets = Keep THEN intent.targets
                                                    ELSE call[c].targets
               persist == IF call[c].mode = NoMode THEN intent.persist
                                                   ELSE call[c].origin = "user"
               older   == /\ ~Selects(call[c])
                          /\ intent.older \/ NamesOlder(call[c])
    <3>1. /\ kind \in Kinds /\ targets \in SUBSET Outputs
          /\ persist \in BOOLEAN /\ older \in BOOLEAN
      BY <2>2 DEF ModeTypes, Intents, Selects, NamesOlder
    <3>2. intent' = [kind |-> kind, targets |-> targets, persist |-> persist,
                     older |-> older]
      BY <1>4 DEF Record
    <3> HIDE DEF kind, targets, persist, older
    <3>3. QED BY <3>1, <3>2 DEF Intents
  <2>4. CallTypes' /\ ModeTypes'
    BY <1>4, <2>1, <2>3 DEF Record, CallTypes, ModeTypes
  <2>5. TurnTypes' /\ HueTypes' /\ CalmTypes'
    BY <1>4 DEF Record, TurnTypes, HueTypes, CalmTypes, turnVars, hueVars, worldVars
  <2>6. QED BY <2>4, <2>5
<1>5. CASE ReleaseRecords(c)
  <2>1. pc' \in [Calls -> Labelled]
    BY <1>5, GotoTypes DEF ReleaseRecords
  <2>2. CallTypes' /\ ModeTypes'
    BY <1>5, <2>1 DEF ReleaseRecords, CallTypes, ModeTypes, Intents
  <2>3. TurnTypes' /\ HueTypes' /\ CalmTypes'
    BY <1>5 DEF ReleaseRecords, TurnTypes, HueTypes, CalmTypes, turnVars, hueVars,
       worldVars
  <2>4. QED BY <2>2, <2>3
<1>6. CASE SaveTargets(c)
  <2>1. pc' \in [Calls -> Labelled]
    BY <1>6, GotoTypes DEF SaveTargets
  <2>2. call[c].targets \in SUBSET Outputs
    BY <1>6 DEF CallTypes, AllRequests, NoRequest, SaveTargets, SelectionKnown
  <2>3. CallTypes' /\ ModeTypes'
    BY <1>6, <2>1, <2>2 DEF SaveTargets, CallTypes, ModeTypes, Selections
  <2>4. TurnTypes' /\ HueTypes' /\ CalmTypes'
    BY <1>6 DEF SaveTargets, TurnTypes, HueTypes, CalmTypes, turnVars, hueVars,
       worldVars
  <2>5. QED BY <2>3, <2>4
<1>7. CASE ReleaseArrives(c)
  <2>1. pc' \in [Calls -> Labelled]
    BY <1>7, GotoTypes DEF ReleaseArrives, Arriving
  <2>2. CallTypes'
    BY <1>1, <1>2, <1>7, <2>1 DEF ReleaseArrives, Asks, CallTypes
  <2>3. TurnTypes' /\ ModeTypes' /\ HueTypes' /\ CalmTypes'
    BY <1>2, <1>7 DEF ReleaseArrives, TurnTypes, ModeTypes, HueTypes, CalmTypes,
       turnVars, hueVars, worldVars
  <2>4. QED BY <2>2, <2>3
<1>8. CASE LeaveArrives(c)
  <2>1. pc' \in [Calls -> Labelled]
    BY <1>8, GotoTypes DEF LeaveArrives, Arriving
  <2>2. CallTypes'
    BY <1>1, <1>8, <2>1 DEF LeaveArrives, Asks, CallTypes
  <2>3. ModeTypes'
    BY <1>8 DEF LeaveArrives, ModeTypes, Intents, Selections, Kinds
  <2>4. TurnTypes' /\ HueTypes' /\ CalmTypes'
    BY <1>8 DEF LeaveArrives, TurnTypes, ModeTypes, Intents, HueTypes, CalmTypes,
       turnVars, hueVars, worldVars
  <2>5. QED BY <2>2, <2>3, <2>4
<1>9. CASE ReturnArrives(c)
  <2>1. pc' \in [Calls -> Labelled]
    BY <1>9, GotoTypes DEF ReturnArrives, Arriving
  <2>2. CallTypes'
    BY <1>1, <1>9, <2>1 DEF ReturnArrives, Asks, CallTypes
  <2>3. ModeTypes'
    BY <1>9 DEF ReturnArrives, ModeTypes, Intents, CalmTypes
  <2>4. TurnTypes' /\ HueTypes' /\ CalmTypes'
    BY <1>9 DEF ReturnArrives, TurnTypes, HueTypes, CalmTypes, turnVars, hueVars,
       worldVars
  <2>5. QED BY <2>2, <2>3, <2>4
<1>10. CASE AwayTicket(c)
  <2>1. pc' \in [Calls -> Labelled]
    BY <1>10, GotoTypes DEF AwayTicket
  <2>2. CallTypes'
    BY <1>2, <1>10, <2>1 DEF AwayTicket, CallTypes
  <2>3. TurnTypes' /\ ModeTypes' /\ HueTypes' /\ CalmTypes'
    BY <1>2, <1>10 DEF AwayTicket, TurnTypes, ModeTypes, HueTypes, CalmTypes,
       turnVars, hueVars, worldVars
  <2>4. QED BY <2>2, <2>3
<1>11. CASE SettingsSaved(c)
  <2>1. pc' \in [Calls -> Labelled]
    BY <1>11 DEF SettingsSaved, CallTypes, Answers
  <2>2. CallTypes'
    BY <1>1, <1>11, <2>1 DEF SettingsSaved, Asks, CallTypes
  <2>3. TurnTypes' /\ ModeTypes' /\ HueTypes' /\ CalmTypes'
    BY <1>11 DEF SettingsSaved, TurnTypes, ModeTypes, HueTypes, CalmTypes,
       turnVars, hueVars
  <2>4. QED BY <2>2, <2>3
<1>12. CASE RefreshArrives(c)
  <2>1. CallTypes'
    <3>1. CASE running.kind = "Off"
      <4>1. queue' \in Seq(Calls) /\ Answer(c, "nothing")
        BY <1>12, <3>1 DEF RefreshArrives, CallTypes
      <4>2. "nothing" \in Answers
        BY DEF Answers
      <4>3. QED BY <4>1, <4>2, AnswerTypes
    <3>2. CASE running.kind # "Off"
      <4>1. pc' \in [Calls -> Labelled]
        BY <1>12, <3>2, GotoTypes DEF RefreshArrives
      <4>2. QED
        BY <1>12, <3>2, <4>1, AppendTypes DEF RefreshArrives, CallTypes, CalmTypes
    <3>3. QED BY <3>1, <3>2
  <2>2. TurnTypes' /\ ModeTypes' /\ HueTypes' /\ CalmTypes'
    BY <1>12 DEF RefreshArrives, TurnTypes, ModeTypes, HueTypes, CalmTypes,
       turnVars, hueVars, worldVars, inputVars
  <2>3. QED BY <2>1, <2>2
<1>13. CASE JoinArrives(c)
  <2>1. pc' \in [Calls -> Labelled]
    BY <1>13, GotoTypes DEF JoinArrives
  <2>2. CallTypes'
    BY <1>1, <1>13, <2>1, AppendTypes DEF JoinArrives, Asks, CallTypes, CalmTypes
  <2>3. TurnTypes' /\ ModeTypes' /\ HueTypes' /\ CalmTypes'
    BY <1>13 DEF JoinArrives, TurnTypes, ModeTypes, HueTypes, CalmTypes,
       turnVars, hueVars, worldVars, inputVars
  <2>4. QED BY <2>2, <2>3
<1>14. CASE LeaseArrives(c)
  <2>1. pc' \in [Calls -> Labelled]
    BY <1>14, GotoTypes DEF LeaseArrives
  <2>2. CallTypes'
    BY <1>1, <1>14, <2>1, AppendTypes DEF LeaseArrives, Asks, CallTypes
  <2>3. TurnTypes' /\ ModeTypes' /\ HueTypes' /\ CalmTypes'
    BY <1>14 DEF LeaseArrives, TurnTypes, ModeTypes, HueTypes, CalmTypes,
       turnVars, hueVars, worldVars, inputVars
  <2>4. QED BY <2>2, <2>3
<1>15. CASE Enqueue(c)
  <2>1. pc' \in [Calls -> Labelled]
    BY <1>15, GotoTypes DEF Enqueue
  <2>2. CallTypes'
    BY <1>15, <2>1 DEF Enqueue, CallTypes
  <2>3. TurnTypes' /\ ModeTypes' /\ HueTypes' /\ CalmTypes'
    BY <1>15 DEF Enqueue, TurnTypes, ModeTypes, HueTypes, CalmTypes,
       turnVars, hueVars, worldVars, inputVars
  <2>4. QED BY <2>2, <2>3
<1>16. QED
  BY <1>3, <1>4, <1>5, <1>6, <1>7, <1>8, <1>9, <1>10, <1>11, <1>12, <1>13, <1>14,
     <1>15 DEF Arrival

-----------------------------------------------------------------------------
(* Types: the turn *)

LEMMA StopHueTypes ==
  ASSUME HueTypes, StopHue, UNCHANGED lease
  PROVE  HueTypes'
BY DEF HueTypes, StopHue, StreamStopped, Streams

LEMMA CalmKept ==
  ASSUME CalmTypes, UNCHANGED calmVars
  PROVE  CalmTypes'
BY DEF CalmTypes, calmVars, worldVars

LEMMA ModeKept ==
  ASSUME ModeTypes, UNCHANGED modeVars
  PROVE  ModeTypes'
BY DEF ModeTypes, modeVars

LEMMA TxTypes ==
  ASSUME TurnTypes
  PROVE  /\ tx.want \in Intents /\ tx.was \in Selections /\ tx.after \in Selections
         /\ tx.want.kind \in Kinds /\ tx.want.persist \in BOOLEAN
         /\ tx.want.targets \in SUBSET Outputs
         /\ tx.after.kind \in Kinds /\ tx.kind \in Kinds /\ tx.on \in SUBSET Outputs
BY DEF TurnTypes, TxLocals, Intents, Selections

LEMMA SettledTypes ==
  ASSUME NEW i \in Intents, NEW kind \in Kinds
  PROVE  Settled(i, kind) \in Intents
BY DEF Settled, Intents

LEMMA PutBackTypes ==
  ASSUME ModeTypes, NEW c \in Calls, keep[c] \in SUBSET Outputs
  PROVE  PutBack(c) \in Intents
<1> DEFINE older == intent.older \/ NewerSelection(c)
<1>1. older \in BOOLEAN
  OBVIOUS
<1>2. PutBack(c) = [intent EXCEPT !.targets = keep[c], !.older = older]
  BY DEF PutBack
<1> HIDE DEF older
<1>3. QED BY <1>1, <1>2 DEF ModeTypes, Intents

LEMMA EndingTypes ==
  ASSUME NEW c \in Calls, TypeOK,
         \/ NothingToDo(c) \/ ShuttingDown(c) \/ ReleaseWhileOff(c) \/ OffOvertaken(c)
         \/ CalibrationRequired(c) \/ HueOvertaken(c) \/ FallBackOvertaken(c)
         \/ ApplyShutDown(c) \/ FinishRan(c) \/ FinishRefused(c)
         \/ LeaseSettled(c) \/ LeaseStops(c)
  PROVE  TypeOK'
<1> USE DEF TypeOK
<1>1. PICK answer \in Answers : End(c, answer)
  BY DEF NothingToDo, ShuttingDown, ReleaseWhileOff, OffOvertaken,
     CalibrationRequired, HueOvertaken, FallBackOvertaken, ApplyShutDown, FinishRan,
     FinishRefused, LeaseSettled, LeaseStops, Answers
<1>2. CallTypes' /\ TurnTypes'
  BY <1>1, EndTypes
<1>3. CASE NothingToDo(c)
  <2>1. ModeTypes' /\ HueTypes' /\ CalmTypes'
    BY <1>3 DEF NothingToDo, ModeTypes, HueTypes, CalmTypes,
       modeVars, hueVars, calmVars, worldVars, inputVars
  <2>2. QED BY <1>2, <2>1
<1>4. CASE ShuttingDown(c)
  <2>1. ModeTypes' /\ HueTypes' /\ CalmTypes'
    BY <1>4 DEF ShuttingDown, ModeTypes, HueTypes, CalmTypes,
       modeVars, hueVars, calmVars, worldVars, inputVars
  <2>2. QED BY <1>2, <2>1
<1>5. CASE ReleaseWhileOff(c)
  <2>1. StopHue /\ UNCHANGED <<modeVars, lease, calmVars>>
    BY <1>5 DEF ReleaseWhileOff
  <2>2. QED BY <1>2, <2>1, StopHueTypes, CalmKept, ModeKept
<1>6. CASE OffOvertaken(c)
  <2>1. ModeTypes' /\ HueTypes' /\ CalmTypes'
    BY <1>6 DEF OffOvertaken, ModeTypes, HueTypes, CalmTypes,
       modeVars, hueVars, calmVars, worldVars, inputVars
  <2>2. QED BY <1>2, <2>1
<1>7. CASE CalibrationRequired(c)
  <2>1. Settled(intent, running.kind) \in Intents
    BY SettledTypes DEF ModeTypes, Selections
  <2>2. ModeTypes' /\ HueTypes' /\ CalmTypes'
    BY <1>7, <2>1, CalmKept DEF CalibrationRequired, ModeTypes, HueTypes, hueVars
  <2>3. QED BY <1>2, <2>2
<1>8. CASE HueOvertaken(c)
  <2>1. ModeTypes' /\ HueTypes' /\ CalmTypes'
    BY <1>8 DEF HueOvertaken, ModeTypes, HueTypes, CalmTypes,
       modeVars, hueVars, calmVars, worldVars, inputVars
  <2>2. QED BY <1>2, <2>1
<1>9. CASE FallBackOvertaken(c)
  <2>1. ModeTypes' /\ HueTypes' /\ CalmTypes'
    BY <1>9 DEF FallBackOvertaken, ModeTypes, HueTypes, CalmTypes,
       modeVars, hueVars, calmVars, worldVars, inputVars
  <2>2. QED BY <1>2, <2>1
<1>10. CASE ApplyShutDown(c)
  <2>1. ModeTypes' /\ HueTypes' /\ CalmTypes'
    BY <1>10 DEF ApplyShutDown, ModeTypes, HueTypes, CalmTypes,
       modeVars, hueVars, calmVars, worldVars, inputVars
  <2>2. QED BY <1>2, <2>1
<1>11. CASE FinishRan(c)
  <2>1. intent' \in Intents
    BY <1>11, TxTypes DEF FinishRan, ModeTypes, Intents
  <2>2. saved' \in Selections
    BY <1>11, TxTypes DEF FinishRan, ModeTypes, Selections
  <2>3. ModeTypes' /\ HueTypes' /\ CalmTypes'
    BY <1>11, <2>1, <2>2, CalmKept DEF FinishRan, ModeTypes, HueTypes, hueVars
  <2>4. QED BY <1>2, <2>3
<1>12. CASE FinishRefused(c)
  <2>1. Settled(intent, tx.after.kind) \in Intents
    BY SettledTypes, TxTypes DEF ModeTypes
  <2>2. ModeTypes' /\ HueTypes' /\ CalmTypes'
    BY <1>12, <2>1, CalmKept DEF FinishRefused, ModeTypes, HueTypes, hueVars
  <2>3. QED BY <1>2, <2>2
<1>13. CASE LeaseSettled(c)
  <2>1. ModeTypes' /\ HueTypes' /\ CalmTypes'
    BY <1>13 DEF LeaseSettled, ModeTypes, HueTypes, CalmTypes,
       modeVars, hueVars, calmVars, worldVars, inputVars
  <2>2. QED BY <1>2, <2>1
<1>14. CASE LeaseStops(c)
  <2>1. StopHue /\ UNCHANGED <<modeVars, lease, calmVars>>
    BY <1>14 DEF LeaseStops
  <2>2. QED BY <1>2, <2>1, StopHueTypes, CalmKept, ModeKept
<1>15. QED
  BY <1>3, <1>4, <1>5, <1>6, <1>7, <1>8, <1>9, <1>10, <1>11, <1>12, <1>13, <1>14

LEMMA OffModeTypes ==
  ASSUME ModeTypes, LightsStopped
  PROVE  running' \in Selections /\ current' \in BOOLEAN
BY NoRequestOfNone DEF LightsStopped

LEMMA StartAnswerTypes ==
  ASSUME HueTypes, NEW code \in StartAnswers
  PROVE  /\ code \in AllHueCodes \cup {"CLOSING", "NOOP"}
         /\ StreamAfterStart(code) \in Streams
<1>1. code \in AllHueCodes \cup {"CLOSING", "NOOP"}
  BY OutcomesAssumption DEF StartAnswers
<1>2. QED
  BY <1>1 DEF StreamAfterStart, AllHueCodes, HueTypes, Streams

(* The steps that change neither the mode nor what Hue does. *)
LEMMA PlainStepTypes ==
  ASSUME NEW c \in Calls, TypeOK,
         \/ TakeTurn(c) \/ Overtaken(c) \/ StartOn(c) \/ StartRefresh(c) \/ Plan(c)
         \/ ApplyGated(c) \/ TryAgain(c) \/ Judge(c)
  PROVE  TypeOK'
<1> USE DEF TypeOK
<1>1. ModeTypes' /\ HueTypes' /\ CalmTypes'
  <2>1. UNCHANGED <<modeVars, hueVars, owner, lease, calmVars>>
    BY DEF TakeTurn, Overtaken, StartOn, StartRefresh, Plan, ApplyGated, TryAgain,
       Judge, inputVars, modeVars, calmVars
  <2>2. QED BY <2>1, ModeKept, CalmKept DEF HueTypes, hueVars
<1>2. CASE TakeTurn(c)
  <2>1. pc' \in [Calls -> {"new", "recorded", "settling", "queued", "turn"}
                            \cup Arriving \cup Answers]
    BY <1>2, GotoTypes DEF TakeTurn
  <2>2. CallTypes' /\ TurnTypes'
    BY <1>2, <2>1 DEF TakeTurn, CallTypes, TurnTypes, Labels
  <2>3. QED BY <1>1, <2>2
<1>3. CASE Overtaken(c)
  <2>1. queue' \in Seq(Calls) /\ Answer(c, "superseded") /\ UNCHANGED turnVars
    BY <1>3 DEF Overtaken, CallTypes
  <2>2. "superseded" \in Answers
    BY DEF Answers
  <2>3. CallTypes' /\ TurnTypes'
    BY <2>1, <2>2, AnswerTypes DEF TurnTypes, turnVars
  <2>4. QED BY <1>1, <2>3
<1>4. ASSUME NEW label \in Labels, NEW t \in TxLocals, Step(label, t)
      PROVE  TypeOK'
  BY <1>1, <1>4, StepTypes
<1>5. CASE StartOn(c)
  <2>1. \A ok, waive \in BOOLEAN : [NewTx EXCEPT !.ok = ok, !.waive = waive] \in TxLocals
    BY NewTxTypes DEF TxLocals
  <2>2. \E label \in Labels, ok, waive \in BOOLEAN :
           Step(label, [NewTx EXCEPT !.ok = ok, !.waive = waive])
    BY <1>5 DEF StartOn, Labels
  <2>3. QED BY <1>4, <2>1, <2>2
<1>6. CASE StartRefresh(c)
  <2>1. [NewTx EXCEPT !.want.persist = FALSE, !.kind = running.kind,
                      !.on = running.targets, !.ok = TRUE,
                      !.waive = "hue" \in running.targets] \in TxLocals
    <3>1. [NewTx.want EXCEPT !.persist = FALSE] \in Intents
      BY NewTxTypes DEF TxLocals, Intents
    <3>2. running.kind \in Kinds /\ running.targets \in SUBSET Outputs
      BY DEF ModeTypes, Selections
    <3>3. \A want \in Intents, kind \in Kinds, on \in SUBSET Outputs, waive \in BOOLEAN :
            [NewTx EXCEPT !.want = want, !.kind = kind, !.on = on, !.ok = TRUE,
                          !.waive = waive] \in TxLocals
      BY NewTxTypes DEF TxLocals
    <3>4. ("hue" \in running.targets) \in BOOLEAN
      OBVIOUS
    <3>5. QED BY <3>1, <3>2, <3>3, <3>4
  <2>2. \E label \in Labels :
           Step(label, [NewTx EXCEPT !.want.persist = FALSE, !.kind = running.kind,
                                     !.on = running.targets, !.ok = TRUE,
                                     !.waive = "hue" \in running.targets])
    BY <1>6 DEF StartRefresh, Labels
  <2>3. QED BY <1>4, <2>1, <2>2
<1>7. CASE Plan(c)
  <2>1. \A on \in SUBSET Outputs, out \in BOOLEAN :
           [tx EXCEPT !.on = on, !.out = out] \in TxLocals
    BY DEF TurnTypes, TxLocals
  <2>2. \E label \in Labels, on \in SUBSET Outputs, out \in BOOLEAN :
           Step(label, [tx EXCEPT !.on = on, !.out = out])
    BY <1>7 DEF Plan, Labels, Outputs
  <2>3. QED BY <1>4, <2>1, <2>2
<1>8. CASE ApplyGated(c)
  <2>1. PICK code \in GateCodes : Step("judge", [tx EXCEPT !.code = code, !.after = running])
    BY <1>8 DEF ApplyGated
  <2>2. [tx EXCEPT !.code = code, !.after = running] \in TxLocals
    BY DEF TurnTypes, TxLocals, ModeTypes
  <2>3. "judge" \in Labels
    BY DEF Labels
  <2>4. QED BY <1>4, <2>1, <2>2, <2>3
<1>9. CASE TryAgain(c) \/ Judge(c)
  <2>1. \E label \in Labels : Step(label, tx)
    BY <1>9 DEF TryAgain, Judge, Labels
  <2>2. QED BY <1>4, <2>1 DEF TurnTypes
<1>10. QED
  BY <1>2, <1>3, <1>5, <1>6, <1>7, <1>8, <1>9

(* The steps that start, stop or give up a stream. *)
LEMMA HueStepTypes ==
  ASSUME NEW c \in Calls, TypeOK,
         \/ OffStopsHue(c) \/ MoveStop(c) \/ StartHue(c) \/ BringUp(c)
         \/ FallBackToUsb(c) \/ HueDown(c)
         \/ LeaseStarts(c) \/ LeaseIsUp(c) \/ LeaseGivesBack(c)
  PROVE  TypeOK'
<1> USE DEF TypeOK
<1>1. ModeTypes' /\ CalmTypes'
  <2>1. UNCHANGED <<modeVars, calmVars>>
    BY DEF OffStopsHue, MoveStop, StartHue, BringUp, FallBackToUsb, HueDown,
       LeaseStarts, LeaseIsUp, LeaseGivesBack
  <2>2. QED BY <2>1, ModeKept, CalmKept
<1>2. ASSUME NEW label \in Labels, NEW t \in TxLocals, Step(label, t), HueTypes'
      PROVE  TypeOK'
  BY <1>1, <1>2, StepTypes
<1>3. ASSUME NEW answer \in Answers, End(c, answer), HueTypes'
      PROVE  TypeOK'
  BY <1>1, <1>3, EndTypes
<1>4. tx \in TxLocals
  BY DEF TurnTypes
<1>5. CASE OffStopsHue(c)
  <2>1. HueTypes'
    BY <1>5, StopHueTypes DEF OffStopsHue, HueTypes, hueVars
  <2>2. Step("offDone", tx) /\ "offDone" \in Labels
    BY <1>5 DEF OffStopsHue, Labels
  <2>3. QED BY <1>2, <1>4, <2>1, <2>2
<1>6. CASE MoveStop(c)
  <2>1. HueTypes'
    BY <1>6, StopHueTypes DEF MoveStop
  <2>2. [tx EXCEPT !.moved = TRUE, !.ok = FALSE] \in TxLocals
    BY <1>4 DEF TxLocals
  <2>3. \E label \in Labels : Step(label, [tx EXCEPT !.moved = TRUE, !.ok = FALSE])
    BY <1>6 DEF MoveStop, Labels
  <2>4. QED BY <1>2, <2>1, <2>2, <2>3
<1>7. CASE StartHue(c)
  <2>1. PICK code \in StartAnswers :
          /\ stream' = StreamAfterStart(code)
          /\ Step(IF stream' = "starting" THEN "bringUp" ELSE "hueChecked",
                  [tx EXCEPT !.code = code, !.ok = (code = "NOOP")])
    BY <1>7 DEF StartHue
  <2>2. HueTypes'
    BY <1>7, <2>1, StartAnswerTypes DEF StartHue, HueTypes
  <2>3. [tx EXCEPT !.code = code, !.ok = (code = "NOOP")] \in TxLocals
    BY <1>4, StartAnswerTypes DEF TxLocals
  <2>4. {"bringUp", "hueChecked"} \subseteq Labels
    BY DEF Labels
  <2>5. QED BY <1>2, <2>1, <2>2, <2>3, <2>4
<1>8. CASE BringUp(c)
  <2>1. HueTypes'
    BY <1>8 DEF BringUp, HueTypes, hueVars, Streams
  <2>2. \A ok \in BOOLEAN : [tx EXCEPT !.ok = ok] \in TxLocals
    BY <1>4 DEF TxLocals
  <2>3. (tx.code = "RUNNING") \in BOOLEAN /\ "hueChecked" \in Labels
    BY DEF Labels
  <2>4. \/ Step("hueChecked", [tx EXCEPT !.ok = (tx.code = "RUNNING")])
        \/ Step("hueChecked", tx)
    BY <1>8 DEF BringUp
  <2>5. QED BY <1>2, <1>4, <2>1, <2>2, <2>3, <2>4
<1>9. CASE FallBackToUsb(c)
  <2>1. HueTypes'
    BY <1>9, StopHueTypes DEF FallBackToUsb, HueTypes, hueVars
  <2>2. [tx EXCEPT !.on = {"usb"}, !.out = TRUE] \in TxLocals
    BY <1>4 DEF TxLocals, Outputs
  <2>3. Step("recheck", [tx EXCEPT !.on = {"usb"}, !.out = TRUE]) /\ "recheck" \in Labels
    BY <1>9 DEF FallBackToUsb, Labels
  <2>4. QED BY <1>2, <2>1, <2>2, <2>3
<1>10. CASE HueDown(c)
  <2>1. HueTypes'
    BY <1>10, StopHueTypes DEF HueDown, HueTypes, hueVars
  <2>2. Step("finish", tx) /\ "finish" \in Labels
    BY <1>10 DEF HueDown, Labels
  <2>3. QED BY <1>2, <1>4, <2>1, <2>2
<1>11. CASE LeaseStarts(c)
  <2>1. PICK code \in StartAnswers :
          /\ stream' = StreamAfterStart(code)
          /\ IF stream' = "starting"
               THEN Step("bringUp", [NewTx EXCEPT !.code = code]) /\ UNCHANGED lease
               ELSE /\ lease' = "NotOurs"
                    /\ End(c, IF code = "NOOP" THEN "applied" ELSE "refused")
    BY <1>11 DEF LeaseStarts
  <2>2. HueTypes'
    BY <1>11, <2>1, StartAnswerTypes DEF LeaseStarts, HueTypes
  <2>3. [NewTx EXCEPT !.code = code] \in TxLocals
    BY NewTxTypes, StartAnswerTypes DEF TxLocals
  <2>4. "bringUp" \in Labels /\ {"applied", "refused"} \subseteq Answers
    BY DEF Labels, Answers
  <2>5. QED BY <1>2, <1>3, <2>1, <2>2, <2>3, <2>4
<1>12. CASE LeaseIsUp(c)
  <2>1. HueTypes'
    BY <1>12 DEF LeaseIsUp, HueTypes, hueVars, Streams
  <2>2. End(c, "applied") \/ End(c, "refused")
    BY <1>12 DEF LeaseIsUp
  <2>3. {"applied", "refused"} \subseteq Answers
    BY DEF Answers
  <2>4. QED BY <1>3, <2>1, <2>2, <2>3
<1>13. CASE LeaseGivesBack(c)
  <2>1. HueTypes'
    BY <1>13 DEF LeaseGivesBack, HueTypes, hueVars
  <2>2. Step("leaseStop", NoTx) \/ End(c, "applied")
    BY <1>13 DEF LeaseGivesBack
  <2>3. "leaseStop" \in Labels /\ "applied" \in Answers
    BY DEF Labels, Answers
  <2>4. QED BY <1>2, <1>3, <2>1, <2>2, <2>3, NoRequestOfNone
<1>14. QED
  BY <1>5, <1>6, <1>7, <1>8, <1>9, <1>10, <1>11, <1>12, <1>13

(* The steps that change the mode, what is saved or what is asked for. *)
LEMMA ModeStepTypes ==
  ASSUME NEW c \in Calls, TypeOK, SelectionKnown, turn = c => pc[c] = "turn",
         \/ StartOff(c) \/ FinishOff(c) \/ PlanNothing(c) \/ RefreshAfterMove(c)
         \/ ApplyRuns(c) \/ ApplyFails(c) \/ FallBackToHue(c)
         \/ Ran(c) \/ Refuse(c) \/ EndMode(c) \/ FinishEnded(c)
  PROVE  TypeOK'
<1> USE DEF TypeOK
<1>1. HueTypes' /\ CalmTypes'
  <2>1. CASE ApplyRuns(c)
    BY <2>1 DEF ApplyRuns, HueTypes, hueVars, CalmTypes
  <2>2. CASE Ran(c)
    <3>1. UNCHANGED <<hueVars, lease, calmVars>> /\ owner' \in {owner, "Transaction"}
      BY <2>2 DEF Ran
    <3>2. QED BY <3>1, CalmKept DEF HueTypes, hueVars
  <2>3. CASE ~ApplyRuns(c) /\ ~Ran(c)
    <3>1. UNCHANGED <<hueVars, owner, lease, calmVars>>
      BY <2>3 DEF StartOff, FinishOff, PlanNothing, RefreshAfterMove, ApplyFails,
         FallBackToHue, Refuse, EndMode, FinishEnded
    <3>2. QED BY <3>1, CalmKept DEF HueTypes, hueVars
  <2>4. QED BY <2>1, <2>2, <2>3
<1>2. ASSUME NEW label \in Labels, NEW t \in TxLocals, Step(label, t), ModeTypes'
      PROVE  TypeOK'
  BY <1>1, <1>2, StepTypes
<1>3. ASSUME End(c, "applied"), ModeTypes'
      PROVE  TypeOK'
  BY <1>1, <1>3, EndTypes DEF Answers
<1>4. tx \in TxLocals /\ OffMode \in Selections
  BY NoRequestOfNone DEF TurnTypes
<1>5. \A targets \in SUBSET Outputs : [intent EXCEPT !.targets = targets] \in Intents
  BY DEF ModeTypes, Intents
<1>6. intent.targets \in SUBSET Outputs
  BY DEF ModeTypes, Intents
<1>7. ASSUME LightsStopped, UNCHANGED <<intent, saved>>
      PROVE  ModeTypes'
  BY <1>7, OffModeTypes DEF ModeTypes
<1>8. ASSUME UNCHANGED <<running, current, intent, saved>>
      PROVE  ModeTypes'
  BY <1>8, ModeKept DEF modeVars
<1>9. ASSUME intent' \in Intents, UNCHANGED <<running, current, saved>>
      PROVE  ModeTypes'
  BY <1>9 DEF ModeTypes
<1>10. CASE StartOff(c)
  <2>1. ModeTypes'
    BY <1>7, <1>8, <1>10 DEF StartOff
  <2>2. \A stop \in BOOLEAN : [NewTx EXCEPT !.stop = stop] \in TxLocals
    BY NewTxTypes DEF TxLocals
  <2>3. \E stop \in BOOLEAN : Step("offHue", [NewTx EXCEPT !.stop = stop])
    BY <1>10 DEF StartOff
  <2>4. QED BY <1>2, <2>1, <2>2, <2>3 DEF Labels
<1>11. CASE FinishOff(c) \/ FinishEnded(c)
  <2>1. KeepsSelection(c) => keep[c] \in SUBSET Outputs
    BY <1>11 DEF FinishOff, FinishEnded, On, SelectionKnown
  <2>2. intent' \in Intents
    <3>1. PICK i \in Intents :
            \/ intent' = [i EXCEPT !.persist = @ /\ ~tx.want.persist]
            \/ intent' = [i EXCEPT !.kind = "Off", !.persist = FALSE]
      BY <1>11, <2>1, PutBackTypes DEF FinishOff, FinishEnded, ModeTypes
    <3>2. QED BY <3>1, TxTypes DEF Intents, Kinds
  <2>3. saved' \in Selections /\ running' \in Selections /\ current' \in BOOLEAN
    BY <1>11 DEF FinishOff, FinishEnded, ModeTypes, Selections, Kinds
  <2>4. End(c, "applied")
    BY <1>11 DEF FinishOff, FinishEnded
  <2>5. QED BY <1>3, <2>2, <2>3, <2>4 DEF ModeTypes
<1>12. CASE PlanNothing(c)
  <2>1. ModeTypes'
    BY <1>7, <1>8, <1>12 DEF PlanNothing
  <2>2. \A after \in Selections : [tx EXCEPT !.after = after] \in TxLocals
    BY <1>4 DEF TxLocals
  <2>3. \E label \in {"refuse", "endMode"}, after \in {tx.after, OffMode} :
           Step(label, [tx EXCEPT !.after = after])
    BY <1>12 DEF PlanNothing
  <2>4. QED BY <1>2, <1>4, <2>1, <2>2, <2>3, TxTypes DEF Labels
<1>13. CASE RefreshAfterMove(c)
  <2>1. ModeTypes'
    BY <1>5, <1>6, <1>8, <1>9, <1>13 DEF RefreshAfterMove
  <2>2. \A on \in SUBSET Outputs, waive \in BOOLEAN :
           [tx EXCEPT !.on = on, !.waive = waive] \in TxLocals
    BY <1>4 DEF TxLocals
  <2>3. \E label \in {"endMode", "apply"}, on \in SUBSET Outputs, waive \in BOOLEAN :
           Step(label, [tx EXCEPT !.on = on, !.waive = waive])
    <3> DEFINE on == IF tx.ok THEN tx.on ELSE tx.on \ {"hue"}
    <3>1. on \in SUBSET Outputs /\ ("hue" \in on) \in BOOLEAN
      BY TxTypes
    <3>2. Step(IF on = {} THEN "endMode" ELSE "apply",
               [tx EXCEPT !.on = on, !.waive = "hue" \in on])
      BY <1>13 DEF RefreshAfterMove
    <3> HIDE DEF on
    <3>3. QED BY <3>1, <3>2
  <2>4. QED BY <1>2, <2>1, <2>2, <2>3 DEF Labels
<1>14. CASE ApplyRuns(c) \/ ApplyFails(c)
  <2>1. running' \in Selections
    <3>1. CASE ApplyRuns(c)
      BY <3>1, TxTypes DEF ApplyRuns, Selections
    <3>2. CASE ApplyFails(c)
      BY <1>4, <3>2 DEF ApplyFails
    <3>3. QED BY <1>14, <3>1, <3>2
  <2>2. ModeTypes'
    BY <1>14, <2>1 DEF ApplyRuns, ApplyFails, ModeTypes
  <2>3. \A code \in {"ok"} \cup AllApplyFaults, after \in Selections :
           [tx EXCEPT !.code = code, !.after = after] \in TxLocals
    BY <1>4 DEF TxLocals
  <2>4. \E code \in {"ok"} \cup AllApplyFaults, after \in Selections :
           Step("judge", [tx EXCEPT !.code = code, !.after = after])
    BY <1>4, <1>14, <2>1, OutcomesAssumption DEF ApplyRuns, ApplyFails
  <2>5. QED BY <1>2, <2>2, <2>3, <2>4 DEF Labels
<1>15. CASE FallBackToHue(c)
  <2>1. ModeTypes'
    BY <1>5, <1>6, <1>9, <1>15 DEF FallBackToHue
  <2>2. [tx EXCEPT !.on = {"hue"}] \in TxLocals
    BY <1>4 DEF TxLocals, Outputs
  <2>3. \E label \in {"ran", "recheck"} : Step(label, [tx EXCEPT !.on = {"hue"}])
    BY <1>15 DEF FallBackToHue
  <2>4. QED BY <1>2, <2>1, <2>2, <2>3 DEF Labels
<1>16. \A end \in {"ran", "refused", "ended"}, after \in Selections :
         /\ [tx EXCEPT !.end = end] \in TxLocals
         /\ [tx EXCEPT !.end = end, !.after = after] \in TxLocals
  BY <1>4 DEF TxLocals
<1>17. CASE Ran(c)
  <2>1. ModeTypes'
    BY <1>5, <1>6, <1>8, <1>9, <1>17 DEF Ran
  <2>2. \E label \in {"finish", "down"} : Step(label, [tx EXCEPT !.end = "ran"])
    BY <1>17 DEF Ran
  <2>3. QED BY <1>2, <1>16, <2>1, <2>2, OffModeTypes, <1>4 DEF Labels
<1>18. CASE Refuse(c)
  <2>1. ModeTypes'
    BY <1>7, <1>8, <1>18 DEF Refuse
  <2>2. \/ Step("down", [tx EXCEPT !.end = "refused"])
        \/ Step("down", [tx EXCEPT !.end = "refused", !.after = OffMode])
    BY <1>18 DEF Refuse
  <2>3. QED BY <1>2, <1>4, <1>16, <2>1, <2>2 DEF Labels
<1>19. CASE EndMode(c)
  <2>1. ModeTypes'
    BY <1>7, <1>8, <1>19 DEF EndMode
  <2>2. Step("down", [tx EXCEPT !.end = "ended", !.after = OffMode])
    BY <1>19 DEF EndMode
  <2>3. QED BY <1>2, <1>4, <1>16, <2>1, <2>2 DEF Labels
<1>20. QED
  BY <1>10, <1>11, <1>12, <1>13, <1>14, <1>15, <1>17, <1>18, <1>19

(* The quit and the hardware. *)
LEMMA OutsideTypes ==
  ASSUME TypeOK, Quit \/ Environment \/ UNCHANGED vars
  PROVE  TypeOK'
<1> USE DEF TypeOK
<1>1. CASE Quit
  <2>1. CallTypes' /\ TurnTypes'
    BY <1>1 DEF Quit, QuitMarks, QuitStopsLighting, QuitStopsHue, CallTypes, TurnTypes,
       callVars, turnVars
  <2>2. ModeTypes'
    BY <1>1, OffModeTypes, ModeKept DEF Quit, QuitMarks, QuitStopsLighting, QuitStopsHue,
       ModeTypes
  <2>3. HueTypes' /\ CalmTypes'
    BY <1>1 DEF Quit, QuitMarks, QuitStopsLighting, QuitStopsHue, HueTypes, CalmTypes,
       hueVars, StreamStopped, Streams
  <2>4. QED BY <2>1, <2>2, <2>3
<1>2. CASE Environment
  <2>1. CallTypes' /\ TurnTypes' /\ ModeTypes'
    BY <1>2 DEF Environment, StreamDrops, StripChanges, AreaSaved, Happens, Reconnects,
       CallTypes, TurnTypes, ModeTypes, callVars, turnVars, modeVars
  <2>2. HueTypes' /\ CalmTypes'
    <3>1. CASE StreamDrops
      BY <3>1 DEF StreamDrops, Happens, HueTypes, CalmTypes, Streams
    <3>2. CASE StripChanges
      BY <3>2 DEF StripChanges, Happens, HueTypes, CalmTypes, hueVars
    <3>3. CASE AreaSaved
      BY <3>3 DEF AreaSaved, Happens, HueTypes, CalmTypes
    <3>4. CASE Reconnects
      BY <3>4, CalmKept DEF Reconnects, HueTypes, Streams
    <3>5. QED BY <1>2, <3>1, <3>2, <3>3, <3>4 DEF Environment
  <2>3. QED BY <2>1, <2>2
<1>3. CASE UNCHANGED vars
  BY <1>3 DEF vars, CallTypes, TurnTypes, ModeTypes, HueTypes, CalmTypes
<1>4. QED BY <1>1, <1>2, <1>3

-----------------------------------------------------------------------------
(* What every arrival and every step of a turn has in common *)

LEMMA ArrivalForm ==
  ASSUME NEW c \in Calls, CallTypes, Arrival(c)
  PROVE  /\ UNCHANGED <<running, hueVars, owner, lease, closing, turnVars>>
         /\ pc[c] # "turn"
         /\ \A d \in Calls : pc'[d] = "turn" <=> pc[d] = "turn"
         /\ \A d \in Calls \ {c} : call'[d] = call[d] /\ keep'[d] = keep[d]
         /\ \A d \in Calls \ {c} : pc'[d] \in {pc[d], "nothing"}
<1> USE DEF CallTypes, Goto, Asks, Arriving
<1>1. CASE Arrive(c) \/ Record(c) \/ SaveTargets(c)
  BY <1>1 DEF Arrive, Record, SaveTargets, worldVars
<1>2. CASE ReleaseArrives(c) \/ ReleaseRecords(c)
  BY <1>2 DEF ReleaseArrives, ReleaseRecords, worldVars
<1>3. CASE LeaveArrives(c) \/ ReturnArrives(c) \/ AwayTicket(c)
  BY <1>3 DEF LeaveArrives, ReturnArrives, AwayTicket, worldVars
<1>4. CASE SettingsSaved(c)
  BY <1>4 DEF SettingsSaved
<1>5. CASE RefreshArrives(c)
  BY <1>5 DEF RefreshArrives, Answer, worldVars
<1>6. CASE JoinArrives(c) \/ LeaseArrives(c) \/ Enqueue(c)
  BY <1>6 DEF JoinArrives, LeaseArrives, Enqueue, worldVars
<1>7. QED
  BY <1>1, <1>2, <1>3, <1>4, <1>5, <1>6 DEF Arrival

(* A step of a turn is the holder's: it goes on to another label, or it
   answers and frees the lock. *)
Holds(c) == /\ turn = c
            /\ \/ \E label \in Labels \ {"idle"} : \E t : Step(label, t)
               \/ \E answer \in Answers : End(c, answer)

LEMMA TurnStepForm ==
  ASSUME NEW c \in Calls, TurnStep(c)
  PROVE  TakeTurn(c) \/ Overtaken(c) \/ Holds(c)
<1> USE DEF On, Holds, Labels, Answers
<1>1. CASE NothingToDo(c) \/ ShuttingDown(c) \/ ReleaseWhileOff(c) \/ StartOff(c)
           \/ OffOvertaken(c) \/ OffStopsHue(c) \/ FinishOff(c) \/ CalibrationRequired(c)
  BY <1>1 DEF NothingToDo, ShuttingDown, ReleaseWhileOff, StartOff, OffOvertaken,
     OffStopsHue, FinishOff, CalibrationRequired, Opens
<1>2. CASE StartOn(c) \/ StartRefresh(c) \/ MoveStop(c)
  BY <1>2 DEF StartOn, StartRefresh, MoveStop, Opens
<1>3. CASE StartHue(c) \/ BringUp(c) \/ HueOvertaken(c)
  BY <1>3 DEF StartHue, BringUp, HueOvertaken
<1>4. CASE Plan(c) \/ PlanNothing(c) \/ RefreshAfterMove(c)
  BY <1>4 DEF Plan, PlanNothing, RefreshAfterMove, HueSettled
<1>5. CASE ApplyGated(c) \/ ApplyRuns(c) \/ ApplyFails(c)
  BY <1>5 DEF ApplyGated, ApplyRuns, ApplyFails
<1>6. CASE FallBackToUsb(c) \/ FallBackToHue(c) \/ FallBackOvertaken(c) \/ TryAgain(c)
  BY <1>6 DEF FallBackToUsb, FallBackToHue, FallBackOvertaken, TryAgain
<1>7. CASE ApplyShutDown(c) \/ Judge(c) \/ Ran(c) \/ Refuse(c) \/ EndMode(c)
  BY <1>7 DEF ApplyShutDown, Judge, Ran, Refuse, EndMode
<1>8. CASE HueDown(c) \/ FinishRan(c) \/ FinishRefused(c) \/ FinishEnded(c)
  BY <1>8 DEF HueDown, FinishRan, FinishRefused, FinishEnded
<1>9. CASE LeaseSettled(c) \/ LeaseStops(c)
  BY <1>9 DEF LeaseSettled, LeaseStops
<1>10. CASE LeaseStarts(c) \/ LeaseIsUp(c) \/ LeaseGivesBack(c)
  BY <1>10 DEF LeaseStarts, LeaseIsUp, LeaseGivesBack
<1>11. QED
  BY <1>1, <1>2, <1>3, <1>4, <1>5, <1>6, <1>7, <1>8, <1>9, <1>10 DEF TurnStep

(* The quit and the hardware touch no call and no turn. *)
LEMMA OutsideForm ==
  ASSUME Quit \/ Environment \/ UNCHANGED vars
  PROVE  UNCHANGED <<callVars, queue, turnVars, owner, lease>>
BY DEF Quit, QuitMarks, QuitStopsLighting, QuitStopsHue, Environment, StreamDrops,
   StripChanges, AreaSaved, Happens, Reconnects, vars, callVars, turnVars

-----------------------------------------------------------------------------
(* One turn at a time *)

TurnsInOrder == TurnHeld /\ (turn = "nobody" <=> at = "idle")

LEMMA TurnsInOrderKept ==
  ASSUME TypeOK, TurnsInOrder, [Next]_vars
  PROVE  TurnsInOrder'
<1> USE CallsAssumption DEF TurnsInOrder, TurnHeld, TypeOK
<1>1. ASSUME NEW c \in Calls, Arrival(c)
      PROVE  TurnsInOrder'
  BY <1>1, ArrivalForm DEF turnVars
<1>2. ASSUME NEW c \in Calls, TurnStep(c)
      PROVE  TurnsInOrder'
  <2>1. CASE TakeTurn(c)
    BY <2>1 DEF TakeTurn, Goto, CallTypes
  <2>2. CASE Overtaken(c)
    BY <2>2 DEF Overtaken, Answer, Goto, CallTypes, turnVars, Answers
  <2>3. CASE Holds(c)
    <3>1. CASE \E label \in Labels \ {"idle"} : \E t : Step(label, t)
      BY <2>3, <3>1 DEF Holds, Step
    <3>2. CASE \E answer \in Answers : End(c, answer)
      BY <2>3, <3>2 DEF Holds, End, Answer, Goto, CallTypes, Answers
    <3>3. QED BY <2>3, <3>1, <3>2 DEF Holds
  <2>4. QED BY <1>2, <2>1, <2>2, <2>3, TurnStepForm
<1>3. ASSUME Quit \/ Environment \/ UNCHANGED vars
      PROVE  TurnsInOrder'
  BY <1>3, OutsideForm DEF callVars, turnVars
<1>4. QED
  BY <1>1, <1>2, <1>3 DEF Next, Rest

-----------------------------------------------------------------------------
(* The queue *)

(* Who waits in the queue is a queued call, and waits once. *)
QueueWaits == \A i, j \in 1..Len(queue) :
  pc[queue[i]] = "queued" /\ (queue[i] = queue[j] => i = j)

LEMMA QueueWaitsKept ==
  ASSUME TypeOK, TurnsInOrder, QueueWaits, [Next]_vars
  PROVE  QueueWaits'
<1> USE DEF TypeOK
<1>1. queue \in Seq(Calls) /\ DOMAIN pc = Calls
  BY DEF CallTypes
<1>2. ASSUME NEW c \in Calls, Arrival(c)
      PROVE  QueueWaits'
  <2>1. pc[c] # "queued" /\ \A d \in Calls : pc[d] = "queued" => pc'[d] = "queued"
    BY <1>2 DEF Arrival, Arrive, Record, SaveTargets, ReleaseArrives, ReleaseRecords,
       LeaveArrives, ReturnArrives, AwayTicket, SettingsSaved, RefreshArrives,
       JoinArrives, LeaseArrives, Enqueue, Asks, Answer, Goto, CallTypes
  <2>2. \/ UNCHANGED queue
        \/ queue' = Append(queue, c) /\ pc'[c] = "queued"
    BY <1>2 DEF Arrival, Arrive, Record, SaveTargets, ReleaseArrives, ReleaseRecords,
       LeaveArrives, ReturnArrives, AwayTicket, SettingsSaved, RefreshArrives,
       JoinArrives, LeaseArrives, Enqueue, Goto, CallTypes
  <2>3. QED BY <1>1, <2>1, <2>2 DEF QueueWaits
<1>3. ASSUME NEW c \in Calls, TurnStep(c)
      PROVE  QueueWaits'
  <2>1. ASSUME queue # <<>>, Head(queue) = c, queue' = Tail(queue),
               \A d \in Calls \ {c} : pc'[d] = pc[d]
        PROVE  QueueWaits'
    BY <1>1, <2>1 DEF QueueWaits
  <2>2. CASE TakeTurn(c)
    BY <2>1, <2>2 DEF TakeTurn, Goto, CallTypes
  <2>3. CASE Overtaken(c)
    BY <2>1, <2>3 DEF Overtaken, Answer, Goto, CallTypes
  <2>4. CASE Holds(c)
    <3>1. UNCHANGED queue /\ \A d \in Calls : pc[d] = "queued" => pc'[d] = "queued"
      BY <2>4 DEF Holds, Step, End, Answer, Goto, CallTypes, TurnsInOrder, TurnHeld
    <3>2. QED BY <1>1, <3>1 DEF QueueWaits
  <2>5. QED BY <1>3, <2>2, <2>3, <2>4, TurnStepForm
<1>4. ASSUME Quit \/ Environment \/ UNCHANGED vars
      PROVE  QueueWaits'
  BY <1>4, OutsideForm DEF callVars, QueueWaits
<1>5. QED
  BY <1>2, <1>3, <1>4 DEF Next, Rest

-----------------------------------------------------------------------------
(* A selection that is to come back is kept *)

LEMMA SelectionKnownKept ==
  ASSUME TypeOK, QueueWaits, SelectionKnown, [Next]_vars
  PROVE  SelectionKnown'
<1> USE DEF KeepsSelection, Origin
<1>1. ASSUME NEW c \in Calls, Arrival(c)
      PROVE  SelectionKnown'
  <2>1. ASSUME NEW d \in Calls, d # c
        PROVE  /\ KeepsSelection(d)' /\ pc'[d] # "releasing" => keep'[d] \in SUBSET Outputs
               /\ pc'[d] = "unsaved" => call'[d].targets # Keep
    <3>1. call'[d] = call[d] /\ keep'[d] = keep[d] /\ pc'[d] \in {pc[d], "nothing"}
      BY <1>1, <2>1, ArrivalForm DEF TypeOK
    <3>2. CASE pc'[d] = pc[d]
      BY <3>1, <3>2 DEF SelectionKnown
    <3>3. CASE pc'[d] # pc[d]
      \* Only a settings call that settles is taken over by another.
      <4>1. SettingsSaved(c) /\ pc[d] = "settling"
        BY <1>1, <2>1, <3>3 DEF Arrival, Arrive, Record, SaveTargets, ReleaseArrives,
           ReleaseRecords, LeaveArrives, ReturnArrives, AwayTicket, SettingsSaved,
           RefreshArrives, JoinArrives, LeaseArrives, Enqueue, Answer, Goto, TypeOK,
           CallTypes
      <4>2. QED BY <3>1, <4>1 DEF SelectionKnown
    <3>4. QED BY <3>2, <3>3
  <2>2. /\ KeepsSelection(c)' /\ pc'[c] # "releasing" => keep'[c] \in SUBSET Outputs
        /\ pc'[c] = "unsaved" => call'[c].targets # Keep
    <3> USE <1>1 DEF TypeOK, CallTypes, Goto, Asks
    <3>1. intent.targets \in SUBSET Outputs
      BY DEF ModeTypes, Intents
    <3>2. CASE Arrive(c)
      BY <3>1, <3>2 DEF Arrive
    <3>3. CASE Record(c) \/ SaveTargets(c)
      BY <3>3 DEF Record, SaveTargets, Selects, SelectionKnown
    <3>4. CASE ReleaseArrives(c) \/ ReleaseRecords(c)
      BY <3>1, <3>4 DEF ReleaseArrives, ReleaseRecords
    <3>5. CASE LeaveArrives(c) \/ ReturnArrives(c) \/ SettingsSaved(c)
      BY <3>5 DEF LeaveArrives, ReturnArrives, SettingsSaved
    <3>6. CASE AwayTicket(c) \/ Enqueue(c)
      BY <3>6 DEF AwayTicket, Enqueue, SelectionKnown
    <3>7. CASE RefreshArrives(c)
      BY <3>7, NoRequestOfNone DEF RefreshArrives, Answer, SelectionKnown
    <3>8. CASE JoinArrives(c) \/ LeaseArrives(c)
      BY <3>8 DEF JoinArrives, LeaseArrives
    <3>9. QED BY <3>2, <3>3, <3>4, <3>5, <3>6, <3>7, <3>8 DEF Arrival
  <2>3. QED BY <2>1, <2>2 DEF SelectionKnown
<1>2. ASSUME NEW c \in Calls, TurnStep(c)
      PROVE  SelectionKnown'
  <2> USE DEF SelectionKnown, TypeOK, CallTypes
  <2>1. CASE TakeTurn(c)
    <3>1. pc[c] = "queued"
      <4>1. queue \in Seq(Calls) /\ queue # <<>> /\ Head(queue) = c
        BY <2>1 DEF TakeTurn
      <4>2. 1 \in 1..Len(queue) /\ queue[1] = c
        BY <4>1
      <4>3. QED BY <4>2 DEF QueueWaits
    <3>2. QED BY <2>1, <3>1 DEF TakeTurn, Goto
  <2>2. ASSUME NEW answer \in Answers, Answer(c, answer)
        PROVE  SelectionKnown'
    BY <2>2, NoRequestOfNone DEF Answer, Goto, Answers
  <2>3. CASE Overtaken(c)
    BY <2>2, <2>3 DEF Overtaken, Answers
  <2>4. CASE Holds(c)
    BY <2>2, <2>4 DEF Holds, Step, End
  <2>5. QED BY <1>2, <2>1, <2>3, <2>4, TurnStepForm
<1>3. ASSUME Quit \/ Environment \/ UNCHANGED vars
      PROVE  SelectionKnown'
  BY <1>3, OutsideForm DEF callVars, SelectionKnown
<1>4. QED
  BY <1>1, <1>2, <1>3 DEF Next, Rest

-----------------------------------------------------------------------------
(* Type correctness *)

CallInv == TypeOK /\ TurnsInOrder /\ QueueWaits /\ SelectionKnown

LEMMA CallInvInit ==
  ASSUME Init
  PROVE  CallInv
<1> USE RequestsAssumption, CallsAssumption DEF Init
<1>1. CallTypes
  BY DEF CallTypes
<1>2. TurnTypes
  BY NoRequestOfNone DEF TurnTypes, Labels
<1>3. ModeTypes
  BY DEF ModeTypes, Intents, Selections
<1>4. HueTypes /\ CalmTypes
  BY OutcomesAssumption DEF HueTypes, CalmTypes, Streams
<1>5. TurnsInOrder /\ QueueWaits
  BY DEF TurnsInOrder, TurnHeld, QueueWaits
<1>6. SelectionKnown
  BY NoRequestOfNone DEF SelectionKnown, KeepsSelection, Origin
<1>7. QED
  BY <1>1, <1>2, <1>3, <1>4, <1>5, <1>6 DEF CallInv, TypeOK

LEMMA CallInvKept ==
  ASSUME CallInv, [Next]_vars
  PROVE  CallInv'
<1> USE DEF CallInv
<1>1. ASSUME NEW c \in Calls, TurnStep(c)
      PROVE  TypeOK'
  <2>1. turn = c => pc[c] = "turn"
    BY DEF TurnsInOrder, TurnHeld
  <2>2. QED
    BY <1>1, <2>1, EndingTypes, PlainStepTypes, HueStepTypes, ModeStepTypes DEF TurnStep
<1>2. TypeOK'
  BY <1>1, ArrivalTypes, OutsideTypes DEF Next, Rest
<1>3. QED
  BY <1>2, TurnsInOrderKept, QueueWaitsKept, SelectionKnownKept

LEMMA CallInvAlways == Spec => []CallInv
BY CallInvInit, CallInvKept, PTL DEF Spec

(* Every variable stays in its type; above all what an unplug or a release
   kept of the selection is a selection when end_mode gives it back. *)
THEOREM TypeCorrect == Spec => []TypeOK
<1>1. CallInv => TypeOK
  BY DEF CallInv
<1>2. QED BY <1>1, CallInvAlways, PTL

(* run_ticketed: the `transitions` lock has one holder, the call that is in
   its turn, and every waiter of its queue waits once. *)
OneTurn == /\ \A c \in Calls : pc[c] = "turn" <=> turn = c
           /\ QueueWaits

THEOREM OneTurnAtATime == Spec => []OneTurn
<1>1. CallInv => OneTurn
  BY DEF CallInv, TurnsInOrder, TurnHeld, OneTurn
<1>2. QED BY <1>1, CallInvAlways, PTL

-----------------------------------------------------------------------------
(* The quit *)

LEMMA QuitStaysDarkKept ==
  ASSUME TypeOK, QuitStaysDark, [Next]_vars
  PROVE  QuitStaysDark'
<1> USE DEF QuitStaysDark, Lit
<1>1. ASSUME NEW c \in Calls, Arrival(c)
      PROVE  QuitStaysDark'
  BY <1>1, ArrivalForm DEF TypeOK, hueVars
<1>2. OffMode.kind = "Off"
  BY DEF OffMode
<1>3. ASSUME NEW c \in Calls, TurnStep(c)
      PROVE  QuitStaysDark'
  <2>1. UNCHANGED closing
    BY <1>3 DEF TurnStep, TakeTurn, Overtaken, NothingToDo, ShuttingDown,
       ReleaseWhileOff, StartOff, OffOvertaken, OffStopsHue, FinishOff,
       CalibrationRequired, StartOn, StartRefresh, MoveStop, StartHue, BringUp,
       HueOvertaken, Plan, PlanNothing, RefreshAfterMove, ApplyGated, ApplyRuns,
       ApplyFails, FallBackToUsb, FallBackToHue, FallBackOvertaken, TryAgain,
       ApplyShutDown, Judge, Ran, Refuse, EndMode, HueDown, FinishRan, FinishRefused,
       FinishEnded, LeaseSettled, LeaseStarts, LeaseIsUp, LeaseGivesBack, LeaseStops,
       calmVars, worldVars
  \* The lights come on in one step only, and that is behind the closing gate.
  <2>2. closing # "no" => running' \in {running, OffMode}
    <3>1. CASE ApplyRuns(c)
      BY <3>1 DEF ApplyRuns, Gated, GateCodes
    <3>2. CASE ~ApplyRuns(c)
      BY <1>3, <3>2 DEF TurnStep, TakeTurn, Overtaken, NothingToDo, ShuttingDown,
         ReleaseWhileOff, StartOff, OffOvertaken, OffStopsHue, FinishOff,
         CalibrationRequired, StartOn, StartRefresh, MoveStop, StartHue, BringUp,
         HueOvertaken, Plan, PlanNothing, RefreshAfterMove, ApplyGated,
         ApplyFails, FallBackToUsb, FallBackToHue, FallBackOvertaken, TryAgain,
         ApplyShutDown, Judge, Ran, Refuse, EndMode, HueDown, FinishRan, FinishRefused,
         FinishEnded, LeaseSettled, LeaseStarts, LeaseIsUp, LeaseGivesBack, LeaseStops,
         LightsStopped, modeVars
    <3>3. QED BY <3>1, <3>2
  \* A start is refused before it touches the runtime, and a bring-up that
  \* finds its stream stopped leaves it so.
  <2>3. closing # "no" /\ stream = "idle" => stream' = "idle"
    <3>1. CASE StartHue(c) \/ LeaseStarts(c)
      BY <3>1 DEF StartHue, LeaseStarts, StartAnswers, StreamAfterStart
    <3>2. CASE BringUp(c) \/ LeaseIsUp(c)
      BY <3>2 DEF BringUp, LeaseIsUp, hueVars
    <3>3. CASE ~StartHue(c) /\ ~LeaseStarts(c) /\ ~BringUp(c) /\ ~LeaseIsUp(c)
      BY <1>3, <3>3 DEF TurnStep, TakeTurn, Overtaken, NothingToDo, ShuttingDown,
         ReleaseWhileOff, StartOff, OffOvertaken, OffStopsHue, FinishOff,
         CalibrationRequired, StartOn, StartRefresh, MoveStop,
         HueOvertaken, Plan, PlanNothing, RefreshAfterMove, ApplyGated, ApplyRuns,
         ApplyFails, FallBackToUsb, FallBackToHue, FallBackOvertaken, TryAgain,
         ApplyShutDown, Judge, Ran, Refuse, EndMode, HueDown, FinishRan, FinishRefused,
         FinishEnded, LeaseSettled, LeaseGivesBack, LeaseStops,
         StopHue, StreamStopped, hueVars
    <3>4. QED BY <3>1, <3>2, <3>3
  <2>4. QED BY <1>2, <2>1, <2>2, <2>3
<1>4. CASE Quit
  BY <1>2, <1>4 DEF Quit, QuitMarks, QuitStopsLighting, QuitStopsHue, LightsStopped,
     StreamStopped, modeVars
<1>5. CASE Environment
  BY <1>5 DEF Environment, StreamDrops, StripChanges, AreaSaved, Happens, Reconnects,
     modeVars, hueVars, calmVars, worldVars
<1>6. CASE UNCHANGED vars
  BY <1>6 DEF vars
<1>7. QED
  BY <1>1, <1>3, <1>4, <1>5, <1>6 DEF Next, Rest

(* The quit's first stop is the last word on the lights, and its second on the
   stream: nothing the queue still holds or a bring-up still does brings
   either back (run_cleanup against apply_mode_change and bring_up_stream). *)
THEOREM QuitIsFinal == Spec => []QuitStaysDark
<1>1. Init => QuitStaysDark
  BY DEF Init, QuitStaysDark
<1>2. CallInv => TypeOK
  BY DEF CallInv
<1>3. QED
  BY <1>1, <1>2, CallInvAlways, QuitStaysDarkKept, PTL DEF Spec

-----------------------------------------------------------------------------
(* Whose stream it is *)

(* A lease's turn has its own labels, and starts a stream only while no lease
   is settled; Hue is a test's while the test holds it or is about to stop it. *)
LeaseTurns == \A c \in Calls : turn = c /\ Leasing(c) =>
  at \in {"begin", "bringUp", "leaseStop"} /\ (at = "bringUp" => lease = "Idle")
LeaseOwns == owner = "Lease" => lease = "Held" \/ at = "leaseStop"

(* reconcile_off has decided to stop Hue: by a user's Off, or its own stream. *)
OffStopsOwn == at = "offHue" /\ tx.stop =>
  tx.want.kind = "Off" /\ (tx.want.persist \/ owner = "Transaction")

LeaseInv == LeaseTurns /\ LeaseOwns /\ OffStopsOwn

(* The steps of a turn that is not a lease's. *)
LEMMA ModeTurn ==
  ASSUME NEW c \in Calls, TurnStep(c), LeaseTurns, Holds(c), ~LeaseSettled(c),
         ~LeaseStarts(c), ~LeaseIsUp(c), ~LeaseGivesBack(c), ~LeaseStops(c)
  PROVE  /\ ~Leasing(c) /\ at # "leaseStop"
         /\ UNCHANGED lease
         /\ owner' \in {owner, "Nobody", "Transaction"}
         /\ at' # "leaseStop" /\ (at' = "offHue" => StartOff(c))
<1> USE DEF On, Holds, LeaseTurns, Leasing, End, Step
<1>1. CASE NothingToDo(c) \/ ShuttingDown(c) \/ ReleaseWhileOff(c) \/ StartOff(c)
           \/ OffOvertaken(c) \/ OffStopsHue(c) \/ FinishOff(c) \/ CalibrationRequired(c)
  BY <1>1 DEF NothingToDo, NothingDue, ShuttingDown, ReleaseWhileOff, StartOff,
     OffOvertaken, OffStopsHue, FinishOff, CalibrationRequired, Opens, TxOrigins, StopHue
<1>2. CASE StartOn(c) \/ StartRefresh(c) \/ MoveStop(c)
  BY <1>2 DEF StartOn, StartRefresh, MoveStop, Opens, TxOrigins, StopHue
<1>3. CASE StartHue(c) \/ BringUp(c) \/ HueOvertaken(c)
  BY <1>3 DEF StartHue, BringUp, HueOvertaken
<1>4. CASE Plan(c) \/ PlanNothing(c) \/ RefreshAfterMove(c)
  BY <1>4 DEF Plan, PlanNothing, RefreshAfterMove, HueSettled
<1>5. CASE ApplyGated(c) \/ ApplyRuns(c) \/ ApplyFails(c)
  BY <1>5 DEF ApplyGated, ApplyRuns, ApplyFails
<1>6. CASE FallBackToUsb(c) \/ FallBackToHue(c) \/ FallBackOvertaken(c) \/ TryAgain(c)
  BY <1>6 DEF FallBackToUsb, FallBackToHue, FallBackOvertaken, TryAgain, StopHue
<1>7. CASE ApplyShutDown(c) \/ Judge(c) \/ Ran(c) \/ Refuse(c) \/ EndMode(c)
  BY <1>7 DEF ApplyShutDown, Judge, Ran, Refuse, EndMode
<1>8. CASE HueDown(c) \/ FinishRan(c) \/ FinishRefused(c) \/ FinishEnded(c)
  BY <1>8 DEF HueDown, FinishRan, FinishRefused, FinishEnded, StopHue
<1>9. CASE TakeTurn(c) \/ Overtaken(c)
  BY <1>9, CallsAssumption DEF TakeTurn, Overtaken
<1>10. QED
  BY <1>1, <1>2, <1>3, <1>4, <1>5, <1>6, <1>7, <1>8, <1>9 DEF TurnStep

LEMMA LeaseInvKept ==
  ASSUME CallInv, LeaseInv, [Next]_vars
  PROVE  LeaseInv'
<1> USE CallsAssumption DEF CallInv, LeaseInv
<1>1. ASSUME NEW c \in Calls, Arrival(c)
      PROVE  LeaseInv'
  BY <1>1, ArrivalForm DEF TypeOK, TurnsInOrder, TurnHeld, turnVars, LeaseTurns,
     LeaseOwns, OffStopsOwn, Leasing, Origin
<1>2. ASSUME NEW c \in Calls, TurnStep(c)
      PROVE  LeaseInv'
  <2>1. CASE TakeTurn(c)
    BY <2>1 DEF TakeTurn, TurnsInOrder, LeaseTurns, LeaseOwns, OffStopsOwn, Leasing,
       Origin
  <2>2. CASE Overtaken(c)
    BY <2>2 DEF Overtaken, turnVars, LeaseTurns, LeaseOwns, OffStopsOwn
  <2>3. ASSUME turn = c, \E answer \in Answers : End(c, answer), LeaseOwns'
        PROVE  LeaseInv'
    BY <2>3 DEF End, LeaseTurns, OffStopsOwn
  <2>4. CASE LeaseSettled(c)
    <3>1. turn = c /\ (End(c, "applied") \/ End(c, "refused")) /\ UNCHANGED owner
      BY <2>4 DEF LeaseSettled, On
    <3>2. LeaseOwns'
      BY <2>4 DEF LeaseSettled, On, LeaseOwns
    <3>3. QED BY <2>3, <3>1, <3>2 DEF Answers
  <2>5. CASE LeaseStarts(c)
    <3>1. owner # "Lease" /\ UNCHANGED owner /\ turn = c /\ lease = "Idle"
      BY <2>5 DEF LeaseStarts, On, LeaseOwns
    <3>2. \/ \E t : Step("bringUp", t) /\ UNCHANGED lease
          \/ End(c, "applied") \/ End(c, "refused")
      BY <2>5 DEF LeaseStarts
    <3>3. CASE \E t : Step("bringUp", t) /\ UNCHANGED lease
      BY <3>1, <3>3 DEF Step, LeaseTurns, LeaseOwns, OffStopsOwn
    <3>4. QED BY <2>3, <3>1, <3>2, <3>3 DEF LeaseOwns, Answers
  <2>6. CASE LeaseIsUp(c)
    <3>1. turn = c /\ (End(c, "applied") \/ End(c, "refused"))
      BY <2>6 DEF LeaseIsUp, On
    <3>2. owner # "Lease"
      BY <2>6 DEF LeaseIsUp, On, LeaseTurns, LeaseOwns
    <3>3. LeaseOwns'
      BY <2>6, <3>2 DEF LeaseIsUp, LeaseOwns
    <3>4. QED BY <2>3, <3>1, <3>3 DEF Answers
  <2>7. CASE LeaseGivesBack(c)
    <3>1. turn = c /\ Leasing(c) /\ owner' \in {owner, "Transaction"}
      BY <2>7 DEF LeaseGivesBack, On, Leasing
    <3>2. CASE Step("leaseStop", NoTx)
      BY <3>1, <3>2 DEF Step, LeaseTurns, LeaseOwns, OffStopsOwn
    <3>3. CASE End(c, "applied")
      <4>1. owner' # "Lease"
        BY <2>7, <3>3 DEF LeaseGivesBack, GivesUpStream, LeaseOwns, On, Step, End
      <4>2. QED BY <2>3, <3>1, <3>3, <4>1 DEF LeaseOwns, Answers
    <3>4. QED BY <2>7, <3>2, <3>3 DEF LeaseGivesBack
  <2>8. CASE LeaseStops(c)
    BY <2>3, <2>8 DEF LeaseStops, On, StopHue, LeaseOwns, Answers
  <2>9. CASE /\ Holds(c) /\ ~LeaseSettled(c) /\ ~LeaseStarts(c) /\ ~LeaseIsUp(c)
             /\ ~LeaseGivesBack(c) /\ ~LeaseStops(c)
    <3>1. /\ ~Leasing(c) /\ at # "leaseStop" /\ UNCHANGED lease
          /\ owner' \in {owner, "Nobody", "Transaction"}
          /\ at' # "leaseStop" /\ (at' = "offHue" => StartOff(c))
      BY <1>2, <2>9, ModeTurn
    <3>2. LeaseOwns'
      BY <2>9, <3>1 DEF LeaseOwns
    <3>3. LeaseTurns'
      BY <2>9, <3>1 DEF Holds, Step, End, LeaseTurns, Leasing, Origin
    <3>4. OffStopsOwn'
      <4>1. CASE StartOff(c)
        BY <4>1 DEF StartOff, Step, OffStopsOwn, NewTx, NoTx
      <4>2. CASE ~StartOff(c)
        BY <3>1, <4>2 DEF OffStopsOwn
      <4>3. QED BY <4>1, <4>2
    <3>5. QED BY <3>2, <3>3, <3>4
  <2>10. QED BY <1>2, <2>1, <2>2, <2>4, <2>5, <2>6, <2>7, <2>8, <2>9, TurnStepForm
<1>3. ASSUME Quit \/ Environment \/ UNCHANGED vars
      PROVE  LeaseInv'
  BY <1>3, OutsideForm DEF callVars, turnVars, LeaseTurns, LeaseOwns, OffStopsOwn,
     Leasing, Origin
<1>4. QED
  BY <1>1, <1>2, <1>3 DEF Next, Rest

LEMMA LeaseInvAlways == Spec => [](CallInv /\ LeaseInv)
<1>1. Init => LeaseInv
  BY CallsAssumption DEF Init, LeaseInv, LeaseTurns, LeaseOwns, OffStopsOwn
<1>2. QED BY <1>1, CallInvAlways, LeaseInvKept, PTL DEF Spec

(* Between turns Hue belongs to the test only while the test holds its lease:
   lease_release never leaves hue_owner naming a lease that is gone. *)
THEOREM LeaseOwnership == Spec => []LeaseOwnsOnlyWhileHeld
<1>1. CallInv /\ LeaseInv => LeaseOwnsOnlyWhileHeld
  BY DEF CallInv, LeaseInv, TurnsInOrder, LeaseOwns, LeaseOwnsOnlyWhileHeld
<1>2. QED BY <1>1, LeaseInvAlways, PTL

(* What may take a live stream from the test that owns it. *)
MayStopTest == \/ at \in {"leaseStop", "moveStop"}
               \/ closing = "stopped"
               \/ turn # "nobody" /\ Origin(turn) = "release"
               \/ turn # "nobody" /\ tx.want.kind = "Off" /\ tx.want.persist

LEMMA TestStreamKept ==
  ASSUME CallInv, LeaseInv, [Next]_vars, owner = "Lease", stream = "live",
         stream' = "idle"
  PROVE  MayStopTest
<1>1. ASSUME NEW c \in Calls, Arrival(c)
      PROVE  FALSE
  BY <1>1, ArrivalForm DEF CallInv, TypeOK, hueVars
<1>2. ASSUME NEW c \in Calls, TurnStep(c)
      PROVE  MayStopTest
  <2> USE CallsAssumption DEF MayStopTest, On
  <2>1. CASE ReleaseWhileOff(c)
    BY <2>1 DEF ReleaseWhileOff, Opens
  <2>2. CASE OffStopsHue(c)
    BY <2>2 DEF OffStopsHue, hueVars, LeaseInv, OffStopsOwn
  <2>3. CASE MoveStop(c) \/ LeaseStops(c)
    BY <2>3 DEF MoveStop, LeaseStops
  <2>4. CASE StartHue(c) \/ LeaseStarts(c)
    BY <2>4 DEF StartHue, LeaseStarts, StartAnswers, StreamAfterStart
  <2>5. CASE BringUp(c) \/ LeaseIsUp(c)
    BY <2>5 DEF BringUp, LeaseIsUp, hueVars
  <2>6. CASE FallBackToUsb(c)
    BY <2>6 DEF FallBackToUsb, hueVars
  <2>7. CASE HueDown(c)
    BY <2>7 DEF HueDown, DropsHue, hueVars
  <2>8. CASE /\ ~ReleaseWhileOff(c) /\ ~OffStopsHue(c) /\ ~MoveStop(c) /\ ~LeaseStops(c)
             /\ ~StartHue(c) /\ ~LeaseStarts(c) /\ ~BringUp(c) /\ ~LeaseIsUp(c)
             /\ ~FallBackToUsb(c) /\ ~HueDown(c)
    <3>1. UNCHANGED stream
      BY <1>2, <2>8 DEF TurnStep, TakeTurn, Overtaken, NothingToDo, ShuttingDown,
         StartOff, OffOvertaken, FinishOff, CalibrationRequired, StartOn, StartRefresh,
         HueOvertaken, Plan, PlanNothing, RefreshAfterMove, ApplyGated, ApplyRuns,
         ApplyFails, FallBackToHue, FallBackOvertaken, TryAgain, ApplyShutDown, Judge,
         Ran, Refuse, EndMode, FinishRan, FinishRefused, FinishEnded, LeaseSettled,
         LeaseGivesBack, hueVars
    <3>2. QED BY <3>1
  <2>9. QED BY <2>1, <2>2, <2>3, <2>4, <2>5, <2>6, <2>7, <2>8
<1>3. CASE Quit
  BY <1>3 DEF MayStopTest, Quit, QuitMarks, QuitStopsLighting, QuitStopsHue, hueVars
<1>4. CASE Environment
  BY <1>4 DEF Environment, StreamDrops, StripChanges, AreaSaved, Happens, Reconnects,
     hueVars
<1>5. CASE UNCHANGED vars
  BY <1>5 DEF vars
<1>6. QED
  BY <1>1, <1>2, <1>3, <1>4, <1>5 DEF Next, Rest

(* No mode that merely leaves Hue out, and no fallback, takes a test's live
   stream down (hue_down and reconcile_off respect hue_owner). *)
THEOREM TestStreamSafe == Spec => TestStreamIsTheTests
<1>1. ASSUME CallInv, LeaseInv, [Next]_vars
      PROVE  [owner = "Lease" /\ stream = "live" /\ stream' = "idle"
                => \/ at \in {"leaseStop", "moveStop"}
                   \/ closing = "stopped"
                   \/ turn # "nobody" /\ Origin(turn) = "release"
                   \/ turn # "nobody" /\ tx.want.kind = "Off" /\ tx.want.persist]_vars
  BY <1>1, TestStreamKept DEF MayStopTest
<1>2. QED BY <1>1, LeaseInvAlways, PTL DEF Spec, TestStreamIsTheTests
=============================================================================
