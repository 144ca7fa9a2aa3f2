---------------------------- MODULE RetuneProofs ----------------------------
(***************************************************************************)
(* What holds of a drag for any number of windows, kinds, payloads,        *)
(* retunes and choices: the types; that nothing but the transaction        *)
(* reaches the outputs from its close to its commit; that every window     *)
(* shows the newest snapshot once all have arrived; and that once a change *)
(* was applied and all is quiet, the outputs and the disk have the newest  *)
(* payload of what runs.                                                   *)
(***************************************************************************)
EXTENDS Retune, TLAPS

ShutStages == {"closed", "current", "read", "committing"}

\* A retune that sends holds the turn.
SenderHolds == \A w \in Windows : retuning[w].at = "sending" => Holds(w)

\* From its close to its commit nothing accepts, and no retune sends.
ShutIsShut ==
  tx.at \in ShutStages => accepting = {} /\ \A w \in Windows : retuning[w].at # "sending"

-----------------------------------------------------------------------------
(* The types, in the parts a step changes together *)

CallType == [at: RetuneStages, tuning: AtMostOne(Tunings), to: AtMostOne(Kinds)]
TxType == [at: TxStages, kind: AtMostOne(Kinds), saves: BOOLEAN, from: AtMostOne(Windows), ticket: Nat,
           payload: AtMostOne(Tunings), seen: Nat, carried: BOOLEAN, ending: Endings]
SavedType == [kind: AtMostOne(Kinds), look: [Kinds -> Looks], level: Levels]

TuningTypes == stored \in Stored /\ accepting \in AtMostOne(Kinds) /\ awaiting \in AtMostOne(Kinds) /\ applied \in Nat
CallTypes == turn \in Seq(Windows \cup {Tx}) /\ retuning \in [Windows -> CallType]
TransactionTypes ==
  /\ ticket \in Nat
  /\ intent \in [kind: AtMostOne(Kinds), saves: BOOLEAN]
  /\ waiting \in Seq(Choices)
  /\ tx \in TxType
RuntimeTypes == output \in AtMostOne(Tunings) /\ mode \in AtMostOne(Tunings)
SnapshotTypes ==
  cell \in Snapshots /\ trailing \in BOOLEAN /\ spaced \in BOOLEAN /\ news \in [Windows -> SUBSET News]
WindowTypes ==
  /\ stage \in [Windows -> {"closed", "listening", "seeded"}]
  /\ held \in [Windows -> Snapshots]
  /\ asked \in SUBSET [kind: AtMostOne(Kinds), ticket: Nat]
CoalescerTypes ==
  /\ inFlight \in [Windows -> AtMostOne(Tunings)]
  /\ pending \in [Windows -> AtMostOne(Tunings)]
  /\ lastSent \in [Windows -> AtMostOne(Tunings)]
SavingTypes == scheduled \in BOOLEAN /\ awake \in Nat /\ saved \in SavedType
BoundTypes == pushes \in Nat /\ choices \in Nat

LEMMA TypesInParts ==
  TypeOK <=> /\ TuningTypes /\ CallTypes /\ TransactionTypes /\ RuntimeTypes /\ SnapshotTypes
             /\ WindowTypes /\ CoalescerTypes /\ SavingTypes /\ BoundTypes
  BY DEF TypeOK, TuningTypes, CallTypes, TransactionTypes, RuntimeTypes, SnapshotTypes, WindowTypes,
         CoalescerTypes, SavingTypes, BoundTypes, CallType, TxType, SavedType

-----------------------------------------------------------------------------
(* Values that may be absent *)

LEMMA Slots ==
  ASSUME NEW S
  PROVE  /\ {} \in AtMostOne(S)
         /\ \A x \in S : {x} \in AtMostOne(S)
         /\ \A m \in AtMostOne(S) : m = {} \/ \E x \in S : m = {x}
         /\ \A m \in AtMostOne(S) : \A A : m \cap A \in AtMostOne(S) /\ m \ A \in AtMostOne(S)
<1>1. \A m \in AtMostOne(S) : m = {} \/ \E x \in S : m = {x}
  BY DEF AtMostOne
<1>2. {} \in AtMostOne(S) /\ \A x \in S : {x} \in AtMostOne(S)
  BY DEF AtMostOne
<1>3. ASSUME NEW m \in AtMostOne(S), NEW A
      PROVE  m \cap A \in AtMostOne(S) /\ m \ A \in AtMostOne(S)
  <2>1. CASE m = {}
    <3>1. m \cap A = {} /\ m \ A = {}
      BY <2>1
    <3> QED
      BY <3>1, <1>2
  <2>2. ASSUME NEW x \in S, m = {x}
        PROVE  m \cap A \in AtMostOne(S) /\ m \ A \in AtMostOne(S)
    <3>1. (m \cap A = {} \/ m \cap A = {x}) /\ (m \ A = {} \/ m \ A = {x})
      BY <2>2
    <3> QED
      BY <3>1, <1>2
  <2> QED
    BY <2>1, <2>2, <1>1
<1> QED
  BY <1>1, <1>2, <1>3

\* The kind of a mode, and a kind at its newest payload, may be absent in the same way.
LEMMA KindOfIsASlot ==
  ASSUME NEW m \in AtMostOne(Tunings)
  PROVE  KindOf(m) \in AtMostOne(Kinds)
<1>1. CASE m = {}
  <2>1. KindOf(m) = {}
    BY <1>1 DEF KindOf
  <2> QED
    BY <2>1, Slots
<1>2. ASSUME NEW t \in Tunings, m = {t}
      PROVE  KindOf(m) \in AtMostOne(Kinds)
  <2>1. KindOf(m) = {t.kind} /\ t.kind \in Kinds
    BY <1>2 DEF KindOf, Tunings
  <2> QED
    BY <2>1, Slots
<1> QED
  BY <1>1, <1>2, Slots

LEMMA StampedIsASlot ==
  ASSUME NEW kinds \in AtMostOne(Kinds), NEW s \in Stored
  PROVE  {Stamped(s, k) : k \in kinds} \in AtMostOne(Tunings)
<1>1. CASE kinds = {}
  <2>1. {Stamped(s, k) : k \in kinds} = {}
    BY <1>1
  <2> QED
    BY <2>1, Slots
<1>2. ASSUME NEW k \in Kinds, kinds = {k}
      PROVE  {Stamped(s, j) : j \in kinds} \in AtMostOne(Tunings)
  <2>1. {Stamped(s, j) : j \in kinds} = {Stamped(s, k)}
    BY <1>2
  <2>2. Stamped(s, k) \in Tunings
    BY DEF Stamped, Stored, Tunings
  <2> QED
    BY <2>1, <2>2, Slots
<1> QED
  BY <1>1, <1>2, Slots

\* A step of the turn keeps it a queue, and only its holder leaves it.
LEMMA TurnSteps ==
  ASSUME turn \in Seq(Windows \cup {Tx}), NEW actor \in Windows \cup {Tx}
  PROVE  /\ Takes(actor) => turn' \in Seq(Windows \cup {Tx})
         /\ Takes(actor) => \A a : Holds(a) => Holds(a)'
         /\ Holds(actor) /\ LetsGo => turn' \in Seq(Windows \cup {Tx})
<1>1. Holds(actor) => turn # <<>>
  BY DEF Holds, Free
<1> QED
  BY <1>1 DEF Takes, LetsGo, Holds, Free

-----------------------------------------------------------------------------
(* Publishing *)

LEMMA EmittedIsTyped ==
  ASSUME news \in [Windows -> SUBSET News], NEW s \in Snapshots
  PROVE  Emitted(s) \in [Windows -> SUBSET News]
<1>1. [snapshot |-> s, answers |-> 0] \in News
  BY DEF News
<1> QED
  BY <1>1 DEF Emitted

LEMMA Publishes ==
  ASSUME SnapshotTypes, NEW m \in AtMostOne(Tunings), NEW level \in Levels
  PROVE  /\ Publish(m, level) => SnapshotTypes'
         /\ PublishCoalesced(m, level) => SnapshotTypes'
<1>1. ASSUME NEW s \in Snapshots
      PROVE  Emitted(s) \in [Windows -> SUBSET News]
  BY <1>1, EmittedIsTyped DEF SnapshotTypes
<1>2. [revision |-> cell.revision + 1, mode |-> m, level |-> level] \in Snapshots
  BY DEF SnapshotTypes, Snapshots
<1>3. Publish(m, level) => SnapshotTypes'
  BY <1>1, <1>2 DEF Publish, SnapshotTypes
<1>4. [cell EXCEPT !.mode = m, !.level = level] \in Snapshots
  BY DEF SnapshotTypes, Snapshots
<1>5. PublishCoalesced(m, level) => SnapshotTypes'
  BY <1>1, <1>2, <1>4 DEF PublishCoalesced, SnapshotTypes
<1> QED
  BY <1>3, <1>5

LEMMA PublishesRunning ==
  ASSUME SnapshotTypes, NEW m \in AtMostOne(Tunings), PublishRunning(m)
  PROVE  SnapshotTypes'
<1>1. CASE m = {} /\ Publish({}, cell.level)
  <2>1. cell.level \in Levels
    BY DEF SnapshotTypes, Snapshots
  <2> QED
    BY <1>1, <2>1, Publishes, Slots
<1>2. ASSUME NEW t \in m, Publish({t}, t.level)
      PROVE  SnapshotTypes'
  <2>1. t \in Tunings
    BY Slots
  <2>2. t.level \in Levels
    BY <2>1 DEF Tunings
  <2> QED
    BY <1>2, <2>1, <2>2, Publishes, Slots
<1> QED
  BY <1>1, <1>2 DEF PublishRunning

LEMMA Answers ==
  ASSUME NEW before \in [Windows -> SUBSET News], NEW to, NEW s \in Snapshots, NEW of \in Nat
  PROVE  Answer(before, to, s, of) \in [Windows -> SUBSET News]
  BY DEF Answer, News

LEMMA TxEnds ==
  ASSUME NEW r \in TxType, NEW ending \in Endings
  PROVE  [r EXCEPT !.ending = ending] \in TxType
  BY DEF TxType

LEMMA TxBegins ==
  ASSUME NEW kind \in AtMostOne(Kinds), NEW saves \in BOOLEAN, NEW from \in AtMostOne(Windows),
         NEW number \in Nat
  PROVE  [at |-> "closing", kind |-> kind, saves |-> saves, from |-> from, ticket |-> number,
          payload |-> {}, seen |-> 0, carried |-> FALSE, ending |-> "applied"] \in TxType
<1>1. {} \in AtMostOne(Tunings)
  BY Slots
<1>2. "closing" \in TxStages /\ "applied" \in Endings
  BY DEF TxStages, Endings
<1> QED
  BY <1>1, <1>2 DEF TxType

LEMMA SnapshotSteps ==
  ASSUME NEW s \in Snapshots, NEW level \in Levels
  PROVE  [s EXCEPT !.revision = @ + 1, !.level = level] \in Snapshots
<1>1. s.revision + 1 \in Nat
  BY DEF Snapshots
<1> QED
  BY <1>1 DEF Snapshots

-----------------------------------------------------------------------------
(* Every step keeps the types *)

AllTypes == /\ TuningTypes /\ CallTypes /\ TransactionTypes /\ RuntimeTypes /\ SnapshotTypes
            /\ WindowTypes /\ CoalescerTypes /\ SavingTypes /\ BoundTypes

\* What a step leaves alone keeps its types.
LEMMA Unchanged ==
  /\ TuningTypes /\ UNCHANGED tuningVars => TuningTypes'
  /\ TransactionTypes /\ UNCHANGED transactionVars => TransactionTypes'
  /\ RuntimeTypes /\ UNCHANGED runtimeVars => RuntimeTypes'
  /\ SnapshotTypes /\ UNCHANGED snapshotVars => SnapshotTypes'
  /\ WindowTypes /\ UNCHANGED windowVars => WindowTypes'
  /\ CoalescerTypes /\ UNCHANGED coalescerVars => CoalescerTypes'
  /\ SavingTypes /\ UNCHANGED savingVars => SavingTypes'
  /\ BoundTypes /\ UNCHANGED bounds => BoundTypes'
<1>1. TuningTypes /\ UNCHANGED tuningVars => TuningTypes'
  BY DEF TuningTypes, tuningVars
<1>2. TransactionTypes /\ UNCHANGED transactionVars => TransactionTypes'
  BY DEF TransactionTypes, transactionVars
<1>3. RuntimeTypes /\ UNCHANGED runtimeVars => RuntimeTypes'
  BY DEF RuntimeTypes, runtimeVars
<1>4. SnapshotTypes /\ UNCHANGED snapshotVars => SnapshotTypes'
  BY DEF SnapshotTypes, snapshotVars
<1>5. WindowTypes /\ UNCHANGED windowVars => WindowTypes'
  BY DEF WindowTypes, windowVars
<1>6. CoalescerTypes /\ UNCHANGED coalescerVars => CoalescerTypes'
  BY DEF CoalescerTypes, coalescerVars
<1>7. SavingTypes /\ UNCHANGED savingVars => SavingTypes'
  BY DEF SavingTypes, savingVars
<1>8. BoundTypes /\ UNCHANGED bounds => BoundTypes'
  BY DEF BoundTypes, bounds
<1> QED
  BY <1>1, <1>2, <1>3, <1>4, <1>5, <1>6, <1>7, <1>8

LEMMA TypesFlushTrailing ==
  ASSUME AllTypes, FlushTrailing
  PROVE  AllTypes'
<1>1. SnapshotTypes'
  <2>1. cell' \in Snapshots
    BY DEF AllTypes, SnapshotTypes, Snapshots, FlushTrailing
  <2> QED
    BY <2>1, EmittedIsTyped DEF AllTypes, SnapshotTypes, FlushTrailing
<1>2. TuningTypes' /\ CallTypes' /\ TransactionTypes' /\ RuntimeTypes' /\ WindowTypes' /\ CoalescerTypes' /\ SavingTypes' /\ BoundTypes'
  BY Unchanged DEF AllTypes, FlushTrailing, CallTypes
<1> QED
  BY <1>1, <1>2 DEF AllTypes

LEMMA TypesPush ==
  ASSUME AllTypes, NEW w \in Windows, NEW t \in Tunings, Push(w, t)
  PROVE  AllTypes'
<1>1. CallTypes'
  <2>1. [at |-> "called", tuning |-> {t}, to |-> {}] \in CallType
    BY Slots DEF CallType, RetuneStages
  <2> QED
    BY <2>1 DEF AllTypes, CallTypes, Push, StartSend
<1>2. CoalescerTypes'
  <2>1. {t} \in AtMostOne(Tunings) /\ {t} \ inFlight[w] \in AtMostOne(Tunings)
    BY Slots
  <2> QED
    BY <2>1 DEF AllTypes, CoalescerTypes, Push, StartSend
<1>3. BoundTypes'
  BY DEF AllTypes, BoundTypes, Push
<1>4. TuningTypes' /\ TransactionTypes' /\ RuntimeTypes' /\ SnapshotTypes' /\ WindowTypes' /\ SavingTypes'
  BY Unchanged DEF AllTypes, Push
<1> QED
  BY <1>1, <1>2, <1>3, <1>4 DEF AllTypes

LEMMA TypesAnswered ==
  ASSUME AllTypes, NEW w \in Windows, Answered(w)
  PROVE  AllTypes'
<1>0. \A t \in pending[w] : t \in Tunings
  BY Slots DEF AllTypes, CoalescerTypes
<1>1. CallTypes'
  <2>1. \A t \in pending[w] : [at |-> "called", tuning |-> {t}, to |-> {}] \in CallType
    BY <1>0, Slots DEF CallType, RetuneStages
  <2>2. NoRetune \in CallType
    BY Slots DEF NoRetune, CallType, RetuneStages
  <2> QED
    BY <2>1, <2>2 DEF AllTypes, CallTypes, Answered, StartSend
<1>2. CoalescerTypes'
  <2>1. {} \in AtMostOne(Tunings) /\ \A t \in pending[w] : {t} \in AtMostOne(Tunings)
    BY <1>0, Slots
  <2> QED
    BY <2>1 DEF AllTypes, CoalescerTypes, Answered, StartSend
<1>3. TuningTypes' /\ TransactionTypes' /\ RuntimeTypes' /\ SnapshotTypes' /\ WindowTypes' /\ SavingTypes' /\ BoundTypes'
  BY Unchanged DEF AllTypes, Answered
<1> QED
  BY <1>1, <1>2, <1>3 DEF AllTypes

LEMMA TypesOpen ==
  ASSUME AllTypes, NEW w \in Windows, Open(w)
  PROVE  AllTypes'
<1>1. WindowTypes'
  BY DEF AllTypes, WindowTypes, Open
<1>2. TuningTypes' /\ CallTypes' /\ TransactionTypes' /\ RuntimeTypes' /\ SnapshotTypes' /\ CoalescerTypes' /\ SavingTypes' /\ BoundTypes'
  BY Unchanged DEF AllTypes, Open, CallTypes, WindowTypes, windowVars
<1> QED
  BY <1>1, <1>2 DEF AllTypes

LEMMA TypesSeed ==
  ASSUME AllTypes, NEW w \in Windows, Seed(w)
  PROVE  AllTypes'
<1>1. WindowTypes'
  BY DEF AllTypes, WindowTypes, Seed
<1>2. SnapshotTypes'
  BY DEF AllTypes, SnapshotTypes, News, Seed
<1>3. TuningTypes' /\ CallTypes' /\ TransactionTypes' /\ RuntimeTypes' /\ CoalescerTypes' /\ SavingTypes' /\ BoundTypes'
  BY Unchanged DEF AllTypes, Seed, CallTypes
<1> QED
  BY <1>1, <1>2, <1>3 DEF AllTypes

LEMMA TypesDeliver ==
  ASSUME AllTypes, NEW w \in Windows, NEW n, Deliver(w, n)
  PROVE  AllTypes'
<1>1. SnapshotTypes'
  BY DEF AllTypes, SnapshotTypes, Deliver
<1>2. WindowTypes'
  BY DEF AllTypes, WindowTypes, SnapshotTypes, News, Deliver
<1>3. CoalescerTypes'
  <2>1. lastSent[w] \cap Shows(n.snapshot) \in AtMostOne(Tunings)
    BY Slots DEF AllTypes, CoalescerTypes
  <2> QED
    BY <2>1 DEF AllTypes, CoalescerTypes, Deliver
<1>4. TuningTypes' /\ CallTypes' /\ TransactionTypes' /\ RuntimeTypes' /\ SavingTypes' /\ BoundTypes'
  BY Unchanged DEF AllTypes, Deliver, CallTypes
<1> QED
  BY <1>1, <1>2, <1>3, <1>4 DEF AllTypes

LEMMA TypesRetuneQueues ==
  ASSUME AllTypes, NEW w \in Windows, RetuneQueues(w)
  PROVE  AllTypes'
<1>1. CallTypes'
  BY TurnSteps DEF AllTypes, CallTypes, CallType, RetuneQueues, Moves, RetuneStages
<1>2. TuningTypes' /\ TransactionTypes' /\ RuntimeTypes' /\ SnapshotTypes' /\ WindowTypes' /\ CoalescerTypes' /\ SavingTypes' /\ BoundTypes'
  BY Unchanged DEF AllTypes, RetuneQueues
<1> QED
  BY <1>1, <1>2 DEF AllTypes

LEMMA TypesRetuneStores ==
  ASSUME AllTypes, NEW w \in Windows, RetuneStores(w)
  PROVE  AllTypes'
<1>1. TuningTypes'
  <2>1. PICK t \in retuning[w].tuning : Remember(t)
    BY DEF RetuneStores
  <2>2. t \in Tunings
    BY <2>1, Slots DEF AllTypes, CallTypes, CallType
  <2>3. stored' \in Stored
    BY <2>1, <2>2 DEF Remember, AllTypes, TuningTypes, Stored, Tunings
  <2> QED
    BY <2>3 DEF AllTypes, TuningTypes, RetuneStores
<1>2. CallTypes'
  BY TurnSteps DEF AllTypes, CallTypes, CallType, TuningTypes, RetuneStores, Moves, RetuneStages
<1>3. TransactionTypes' /\ RuntimeTypes' /\ SnapshotTypes' /\ WindowTypes' /\ CoalescerTypes' /\ SavingTypes' /\ BoundTypes'
  BY Unchanged DEF AllTypes, RetuneStores
<1> QED
  BY <1>1, <1>2, <1>3 DEF AllTypes

LEMMA TypesRetuneSends ==
  ASSUME AllTypes, NEW w \in Windows, RetuneSends(w)
  PROVE  AllTypes'
<1>1. CallTypes'
  BY TurnSteps DEF AllTypes, CallTypes, CallType, RetuneSends, Moves, RetuneStages
<1>2. RuntimeTypes'
  BY Slots DEF AllTypes, RuntimeTypes, CallTypes, CallType, RetuneSends
<1>3. TuningTypes' /\ TransactionTypes' /\ SnapshotTypes' /\ WindowTypes' /\ CoalescerTypes' /\ SavingTypes' /\ BoundTypes'
  BY Unchanged DEF AllTypes, RetuneSends
<1> QED
  BY <1>1, <1>2, <1>3 DEF AllTypes

LEMMA TypesRetuneCounts ==
  ASSUME AllTypes, NEW w \in Windows, RetuneCounts(w)
  PROVE  AllTypes'
<1>1. TuningTypes'
  BY DEF AllTypes, TuningTypes, Stored, RetuneCounts
<1>2. CallTypes'
  BY DEF AllTypes, CallTypes, CallType, RetuneCounts, Moves, RetuneStages
<1>3. TransactionTypes' /\ RuntimeTypes' /\ SnapshotTypes' /\ WindowTypes' /\ CoalescerTypes' /\ SavingTypes' /\ BoundTypes'
  BY Unchanged DEF AllTypes, RetuneCounts
<1> QED
  BY <1>1, <1>2, <1>3 DEF AllTypes

LEMMA TypesRetunePublishes ==
  ASSUME AllTypes, NEW w \in Windows, RetunePublishes(w)
  PROVE  AllTypes'
<1>1. CallTypes'
  BY DEF AllTypes, CallTypes, CallType, RetunePublishes, Moves, RetuneStages
<1>2. SnapshotTypes'
  <2>1. PICK t \in retuning[w].tuning :
          PublishCoalesced(IF KindOf(cell.mode) = {t.kind} THEN {t} ELSE cell.mode, t.level)
    BY DEF RetunePublishes
  <2>2. t \in Tunings
    BY <2>1, Slots DEF AllTypes, CallTypes, CallType
  <2>3. t.level \in Levels /\ {t} \in AtMostOne(Tunings) /\ cell.mode \in AtMostOne(Tunings)
    BY <2>2, Slots DEF Tunings, AllTypes, SnapshotTypes, Snapshots
  <2> QED
    BY <2>1, <2>3, Publishes DEF AllTypes
<1>3. SavingTypes'
  BY DEF AllTypes, SavingTypes, RetunePublishes, Schedule
<1>4. TuningTypes' /\ TransactionTypes' /\ RuntimeTypes' /\ WindowTypes' /\ CoalescerTypes' /\ BoundTypes'
  BY Unchanged DEF AllTypes, RetunePublishes
<1> QED
  BY <1>1, <1>2, <1>3, <1>4 DEF AllTypes

LEMMA TypesRetuneDefers ==
  ASSUME AllTypes, NEW w \in Windows, RetuneDefers(w)
  PROVE  AllTypes'
<1>1. CallTypes'
  BY DEF AllTypes, CallTypes, CallType, RetuneDefers, Moves, RetuneStages
<1>2. SavingTypes'
  BY DEF AllTypes, SavingTypes, RetuneDefers, Schedule
<1>3. TuningTypes' /\ TransactionTypes' /\ RuntimeTypes' /\ SnapshotTypes' /\ WindowTypes' /\ CoalescerTypes' /\ BoundTypes'
  BY Unchanged DEF AllTypes, RetuneDefers
<1> QED
  BY <1>1, <1>2, <1>3 DEF AllTypes

LEMMA TypesSaveWakes ==
  ASSUME AllTypes, SaveWakes
  PROVE  AllTypes'
<1>1. SavingTypes'
  <2>1. scheduled' = FALSE /\ awake' = awake + 1 /\ saved' = saved
    BY DEF SaveWakes
  <2>2. scheduled' \in BOOLEAN
    BY <2>1
  <2>3. awake' \in Nat
    BY <2>1 DEF AllTypes, SavingTypes
  <2>4. saved' \in SavedType
    BY <2>1 DEF AllTypes, SavingTypes
  <2> QED
    BY <2>2, <2>3, <2>4 DEF SavingTypes
<1>2. TuningTypes' /\ CallTypes' /\ TransactionTypes' /\ RuntimeTypes' /\ SnapshotTypes' /\ WindowTypes' /\ CoalescerTypes' /\ BoundTypes'
  BY Unchanged DEF AllTypes, SaveWakes, CallTypes
<1> QED
  BY <1>1, <1>2 DEF AllTypes

LEMMA TypesSaveWrites ==
  ASSUME AllTypes, SaveWrites
  PROVE  AllTypes'
<1>1. SavingTypes'
  BY DEF AllTypes, SavingTypes, SavedType, SaveWrites, StoredOnDisk, TuningTypes, Stored, TransactionTypes
<1>2. TuningTypes' /\ CallTypes' /\ TransactionTypes' /\ RuntimeTypes' /\ SnapshotTypes' /\ WindowTypes' /\ CoalescerTypes' /\ BoundTypes'
  BY Unchanged DEF AllTypes, SaveWrites, CallTypes
<1> QED
  BY <1>1, <1>2 DEF AllTypes

LEMMA TypesBegin ==
  ASSUME AllTypes, Begin
  PROVE  AllTypes'
<1>1. CallTypes'
  BY TurnSteps DEF AllTypes, CallTypes, Begin, TxFrame
<1>2. TransactionTypes'
  <2>1. Head(waiting) \in Choices /\ waiting' \in Seq(Choices)
    BY DEF AllTypes, TransactionTypes, Begin
  <2>2. ASSUME tx' = [tx EXCEPT !.ending = "superseded"]
        PROVE  tx' \in TxType
    <3>1. tx \in TxType
      BY DEF AllTypes, TransactionTypes
    <3>2. "superseded" \in Endings
      BY DEF Endings
    <3> QED
      BY <2>2, <3>1, <3>2, TxEnds
  <2>3. ASSUME tx' = [at |-> "closing", kind |-> intent.kind, saves |-> intent.saves,
                      from |-> Head(waiting).from, ticket |-> Head(waiting).ticket, payload |-> {},
                      seen |-> 0, carried |-> FALSE, ending |-> "applied"]
        PROVE  tx' \in TxType
    <3>1. intent.kind \in AtMostOne(Kinds) /\ intent.saves \in BOOLEAN
      BY DEF AllTypes, TransactionTypes
    <3>2. Head(waiting).from \in AtMostOne(Windows) /\ Head(waiting).ticket \in Nat
      BY <2>1 DEF Choices
    <3> QED
      BY <2>3, <3>1, <3>2, TxBegins
  <2>4. tx' \in TxType
    BY <2>2, <2>3 DEF Begin, AllTypes, TransactionTypes
  <2> QED
    BY <2>1, <2>4 DEF AllTypes, TransactionTypes, Begin, TxFrame
<1>3. SnapshotTypes'
  <2>1. Head(waiting) \in Choices
    BY DEF AllTypes, TransactionTypes, Begin
  <2>2. Head(waiting).ticket \in Nat
    BY <2>1 DEF Choices
  <2> QED
    BY <2>2, Answers DEF AllTypes, SnapshotTypes, snapshotVars, Begin
<1>4. TuningTypes' /\ RuntimeTypes' /\ WindowTypes' /\ CoalescerTypes' /\ SavingTypes' /\ BoundTypes'
  BY Unchanged DEF AllTypes, Begin, TxFrame
<1> QED
  BY <1>1, <1>2, <1>3, <1>4 DEF AllTypes

LEMMA TypesCloses ==
  ASSUME AllTypes, Closes
  PROVE  AllTypes'
<1>1. TuningTypes'
  BY Slots DEF AllTypes, TuningTypes, TransactionTypes, TxType, Closes
<1>2. CallTypes'
  BY TurnSteps DEF AllTypes, CallTypes, Closes, TxFrame
<1>3. TransactionTypes'
  BY Slots DEF AllTypes, TransactionTypes, TxType, TxStages, Endings, Closes, TxFrame, TxMoves
<1>4. RuntimeTypes' /\ SnapshotTypes' /\ WindowTypes' /\ CoalescerTypes' /\ SavingTypes' /\ BoundTypes'
  BY Unchanged DEF AllTypes, Closes, TxFrame
<1> QED
  BY <1>1, <1>2, <1>3, <1>4 DEF AllTypes

LEMMA TypesGivesWay ==
  ASSUME AllTypes, GivesWay
  PROVE  AllTypes'
<1>1. TransactionTypes'
  BY Slots DEF AllTypes, TransactionTypes, TxType, TxStages, Endings, GivesWay, TxFrame
<1>2. SnapshotTypes'
  BY Answers DEF AllTypes, SnapshotTypes, TransactionTypes, TxType, GivesWay
<1>3. TuningTypes' /\ CallTypes' /\ RuntimeTypes' /\ WindowTypes' /\ CoalescerTypes' /\ SavingTypes' /\ BoundTypes'
  BY Unchanged DEF AllTypes, GivesWay, TxFrame, CallTypes
<1> QED
  BY <1>1, <1>2, <1>3 DEF AllTypes

LEMMA TypesTurnsOff ==
  ASSUME AllTypes, TurnsOff
  PROVE  AllTypes'
<1>1. CallTypes'
  BY TurnSteps DEF AllTypes, CallTypes, ToCommit, TurnsOff, TxFrame
<1>2. TransactionTypes'
  BY Slots DEF AllTypes, TransactionTypes, TxType, TxStages, Endings, TurnsOff, TxFrame, ToCommit
<1>3. RuntimeTypes'
  BY Slots DEF RuntimeTypes, TurnsOff
<1>4. SnapshotTypes'
  BY PublishesRunning, Slots DEF AllTypes, TurnsOff
<1>5. SavingTypes'
  BY Slots DEF AllTypes, SavingTypes, SavedType, StoredOnDisk, TuningTypes, Stored, TurnsOff
<1>6. TuningTypes' /\ WindowTypes' /\ CoalescerTypes' /\ BoundTypes'
  BY Unchanged DEF AllTypes, TurnsOff, TxFrame
<1> QED
  BY <1>1, <1>2, <1>3, <1>4, <1>5, <1>6 DEF AllTypes

LEMMA TypesFindsCurrent ==
  ASSUME AllTypes, FindsCurrent
  PROVE  AllTypes'
<1>1. TransactionTypes'
  BY Slots DEF AllTypes, TransactionTypes, TxType, TxStages, Endings, FindsCurrent, TxFrame, TxMoves
<1>2. TuningTypes' /\ CallTypes' /\ RuntimeTypes' /\ SnapshotTypes' /\ WindowTypes' /\ CoalescerTypes' /\ SavingTypes' /\ BoundTypes'
  BY Unchanged DEF AllTypes, FindsCurrent, TxFrame, CallTypes
<1> QED
  BY <1>1, <1>2 DEF AllTypes

LEMMA TypesLeavesAlone ==
  ASSUME AllTypes, LeavesAlone
  PROVE  AllTypes'
<1>1. CallTypes'
  BY TurnSteps DEF AllTypes, CallTypes, ToCommit, LeavesAlone, TxFrame
<1>2. TransactionTypes'
  BY Slots DEF AllTypes, TransactionTypes, TxType, TxStages, Endings, LeavesAlone, TxFrame, ToCommit, TuningTypes, Stored
<1>3. TuningTypes' /\ RuntimeTypes' /\ SnapshotTypes' /\ WindowTypes' /\ CoalescerTypes' /\ SavingTypes' /\ BoundTypes'
  BY Unchanged DEF AllTypes, LeavesAlone, TxFrame
<1> QED
  BY <1>1, <1>2, <1>3 DEF AllTypes

LEMMA TypesReads ==
  ASSUME AllTypes, Reads
  PROVE  AllTypes'
<1>1. TransactionTypes'
  <2>1. tx.kind \in AtMostOne(Kinds) /\ stored.generation \in Nat
    BY DEF AllTypes, TransactionTypes, TxType, TuningTypes, Stored
  <2>2. {Stamped(stored, k) : k \in tx.kind} \in AtMostOne(Tunings)
    BY <2>1, StampedIsASlot DEF AllTypes, TuningTypes
  <2>3. tx' \in TxType
    BY <2>1, <2>2 DEF AllTypes, TransactionTypes, TxType, TxStages, Reads
  <2> QED
    BY <2>3 DEF AllTypes, TransactionTypes, Reads, TxFrame
<1>2. TuningTypes' /\ CallTypes' /\ RuntimeTypes' /\ SnapshotTypes' /\ WindowTypes' /\ CoalescerTypes' /\ SavingTypes' /\ BoundTypes'
  BY Unchanged DEF AllTypes, Reads, TxFrame, CallTypes
<1> QED
  BY <1>1, <1>2 DEF AllTypes

LEMMA TypesApplies ==
  ASSUME AllTypes, Applies
  PROVE  AllTypes'
<1>1. CallTypes'
  BY TurnSteps DEF AllTypes, CallTypes, ToCommit, Applies, TxFrame
<1>2. TransactionTypes'
  BY Slots DEF AllTypes, TransactionTypes, TxType, TxStages, Endings, Applies, TxFrame, ToCommit
<1>3. RuntimeTypes'
  BY DEF AllTypes, RuntimeTypes, TransactionTypes, TxType, Applies
<1>4. SnapshotTypes'
  BY PublishesRunning DEF AllTypes, TransactionTypes, TxType, Applies
<1>5. TuningTypes' /\ WindowTypes' /\ CoalescerTypes' /\ SavingTypes' /\ BoundTypes'
  BY Unchanged DEF AllTypes, Applies, TxFrame
<1> QED
  BY <1>1, <1>2, <1>3, <1>4, <1>5 DEF AllTypes

LEMMA TypesRefuses ==
  ASSUME AllTypes, Refuses
  PROVE  AllTypes'
<1>1. CallTypes'
  BY TurnSteps DEF AllTypes, CallTypes, ToCommit, Refuses, TxFrame
<1>2. TransactionTypes'
  <2>1. KindOf(mode) \in AtMostOne(Kinds)
    BY KindOfIsASlot DEF AllTypes, RuntimeTypes
  <2> QED
    BY <2>1 DEF AllTypes, TransactionTypes, TxType, TxStages, Endings, Refuses, ToCommit, Settled, TxFrame
<1>3. SnapshotTypes'
  BY PublishesRunning DEF AllTypes, RuntimeTypes, Refuses
<1>4. TuningTypes' /\ RuntimeTypes' /\ WindowTypes' /\ CoalescerTypes' /\ SavingTypes' /\ BoundTypes'
  BY Unchanged DEF AllTypes, Refuses, TxFrame
<1> QED
  BY <1>1, <1>2, <1>3, <1>4 DEF AllTypes

LEMMA TypesFails ==
  ASSUME AllTypes, Fails
  PROVE  AllTypes'
<1>1. CallTypes'
  BY TurnSteps DEF AllTypes, CallTypes, ToCommit, Fails, TxFrame
<1>2. TransactionTypes'
  BY Slots DEF AllTypes, TransactionTypes, TxType, TxStages, Endings, Fails, TxFrame, ToCommit, Settled
<1>3. RuntimeTypes'
  BY Slots DEF RuntimeTypes, Fails
<1>4. SnapshotTypes'
  BY PublishesRunning, Slots DEF AllTypes, Fails
<1>5. TuningTypes' /\ WindowTypes' /\ CoalescerTypes' /\ SavingTypes' /\ BoundTypes'
  BY Unchanged DEF AllTypes, Fails, TxFrame
<1> QED
  BY <1>1, <1>2, <1>3, <1>4, <1>5 DEF AllTypes

LEMMA TypesCommits ==
  ASSUME AllTypes, Commits
  PROVE  AllTypes'
<1>1. TuningTypes'
  BY Slots, KindOfIsASlot DEF AllTypes, TuningTypes, RuntimeTypes, Stored, Commits, Installs
<1>2. CallTypes'
  BY TurnSteps DEF AllTypes, CallTypes, Commits, TxFrame
<1>3. TransactionTypes'
  BY Slots DEF AllTypes, TransactionTypes, TxType, TxStages, Endings, Commits, TxFrame, TxMoves
<1>4. RuntimeTypes'
  <2>1. KindOf(mode) \in AtMostOne(Kinds)
    BY KindOfIsASlot DEF AllTypes, RuntimeTypes
  <2>2. {Stamped(stored, k) : k \in KindOf(mode)} \in AtMostOne(Tunings)
    BY <2>1, StampedIsASlot DEF AllTypes, TuningTypes
  <2>3. accepting' = KindOf(mode)
    BY DEF Commits, Installs
  <2>4. output' \in {{Stamped(stored, k) : k \in accepting'}, output}
    BY DEF Commits, Installs
  <2> QED
    BY <2>2, <2>3, <2>4 DEF AllTypes, RuntimeTypes, Commits
<1>5. SnapshotTypes' /\ WindowTypes' /\ CoalescerTypes' /\ SavingTypes' /\ BoundTypes'
  BY Unchanged DEF AllTypes, Commits, TxFrame
<1> QED
  BY <1>1, <1>2, <1>3, <1>4, <1>5 DEF AllTypes

LEMMA TypesFinishes ==
  ASSUME AllTypes, Finishes
  PROVE  AllTypes'
<1>1. TransactionTypes'
  BY Slots DEF AllTypes, TransactionTypes, TxType, TxStages, Endings, Finishes, TxFrame
<1>2. SnapshotTypes'
  <2>1. cell' \in Snapshots
    <3>1. stored.level \in Levels
      BY DEF AllTypes, TuningTypes, Stored
    <3>2. cell' = [cell EXCEPT !.revision = @ + 1, !.level = stored.level]
      BY DEF Finishes
    <3> QED
      <4>1. cell \in Snapshots
        BY DEF AllTypes, SnapshotTypes
      <4> QED
        BY <3>1, <3>2, <4>1, SnapshotSteps
  <2>2. Emitted(cell') \in [Windows -> SUBSET News]
    BY <2>1, EmittedIsTyped DEF AllTypes, SnapshotTypes
  <2>3. tx.ticket \in Nat
    BY DEF AllTypes, TransactionTypes, TxType
  <2> QED
    BY <2>1, <2>2, <2>3, Answers DEF AllTypes, SnapshotTypes, Finishes
<1>3. SavingTypes'
  BY DEF AllTypes, SavingTypes, SavedType, StoredOnDisk, TuningTypes, Stored, TransactionTypes, TxType, Finishes
<1>4. TuningTypes' /\ CallTypes' /\ RuntimeTypes' /\ WindowTypes' /\ CoalescerTypes' /\ BoundTypes'
  BY Unchanged DEF AllTypes, Finishes, TxFrame, CallTypes
<1> QED
  BY <1>1, <1>2, <1>3, <1>4 DEF AllTypes

LEMMA TypesMainChooses ==
  ASSUME AllTypes, NEW kind \in AtMostOne(Kinds), MainChooses(kind)
  PROVE  AllTypes'
<1>1. TransactionTypes'
  <2>1. {Main} \in AtMostOne(Windows)
    BY Slots, WindowsAndTurn
  <2>2. ticket' \in Nat /\ [from |-> {Main}, ticket |-> ticket'] \in Choices
    BY <2>1 DEF AllTypes, TransactionTypes, Choices, MainChooses, Arrives
  <2> QED
    BY <2>2 DEF AllTypes, TransactionTypes, MainChooses, Arrives
<1>2. BoundTypes'
  BY DEF AllTypes, BoundTypes, MainChooses, Arrives
<1>3. TuningTypes'
  BY DEF AllTypes, TuningTypes, Stored, Tunings, MainChooses, Arrives, Store
<1>4. WindowTypes'
  <2>1. ticket' \in Nat
    BY DEF AllTypes, TransactionTypes, MainChooses, Arrives
  <2> QED
    BY <2>1 DEF AllTypes, WindowTypes, MainChooses, Arrives
<1>5. CoalescerTypes'
  BY Slots DEF AllTypes, CoalescerTypes, MainChooses, Reset, Arrives
<1>6. CallTypes' /\ RuntimeTypes' /\ SnapshotTypes' /\ SavingTypes'
  BY Unchanged DEF AllTypes, MainChooses, CallTypes, Arrives
<1> QED
  BY <1>1, <1>2, <1>3, <1>4, <1>5, <1>6 DEF AllTypes

LEMMA TypesPopupChooses ==
  ASSUME AllTypes, NEW w \in Windows, NEW kind \in AtMostOne(Kinds), PopupChooses(w, kind)
  PROVE  AllTypes'
<1>1. TransactionTypes'
  <2>1. {w} \in AtMostOne(Windows)
    BY Slots, WindowsAndTurn
  <2>2. ticket' \in Nat /\ [from |-> {w}, ticket |-> ticket'] \in Choices
    BY <2>1 DEF AllTypes, TransactionTypes, Choices, PopupChooses, Arrives
  <2> QED
    BY <2>2 DEF AllTypes, TransactionTypes, PopupChooses, Arrives
<1>2. BoundTypes'
  BY DEF AllTypes, BoundTypes, PopupChooses, Arrives
<1>3. CoalescerTypes'
  BY Slots DEF AllTypes, CoalescerTypes, PopupChooses, Reset, Arrives
<1>4. TuningTypes' /\ CallTypes' /\ RuntimeTypes' /\ SnapshotTypes' /\ WindowTypes' /\ SavingTypes'
  BY Unchanged DEF AllTypes, PopupChooses, CallTypes, Arrives, TuningTypes, tuningVars, WindowTypes, windowVars
<1> QED
  BY <1>1, <1>2, <1>3, <1>4 DEF AllTypes

LEMMA TypesTrayChooses ==
  ASSUME AllTypes, NEW kind \in AtMostOne(Kinds), TrayChooses(kind)
  PROVE  AllTypes'
<1>1. TransactionTypes'
  <2>1. {} \in AtMostOne(Windows)
    BY Slots, WindowsAndTurn
  <2>2. ticket' \in Nat /\ [from |-> {}, ticket |-> ticket'] \in Choices
    BY <2>1 DEF AllTypes, TransactionTypes, Choices, TrayChooses, Arrives
  <2> QED
    BY <2>2 DEF AllTypes, TransactionTypes, TrayChooses, Arrives
<1>2. BoundTypes'
  BY DEF AllTypes, BoundTypes, TrayChooses, Arrives
<1>3. TuningTypes' /\ CallTypes' /\ RuntimeTypes' /\ SnapshotTypes' /\ WindowTypes' /\ CoalescerTypes' /\ SavingTypes'
  BY Unchanged DEF AllTypes, TrayChooses, CallTypes, Arrives, TuningTypes, tuningVars, WindowTypes, windowVars, CoalescerTypes, coalescerVars
<1> QED
  BY <1>1, <1>2, <1>3 DEF AllTypes

-----------------------------------------------------------------------------
(* Initial states *)

LEMMA InitTypes == Init => AllTypes
<1> SUFFICES ASSUME Init PROVE AllTypes
  OBVIOUS
<1>1. TuningTypes
  BY Slots DEF Init, TuningTypes, Stored
<1>2. CallTypes
  <2>1. NoRetune \in CallType
    BY Slots DEF NoRetune, CallType, RetuneStages
  <2> QED
    BY <2>1 DEF Init, CallTypes, Free
<1>3. output \in AtMostOne(Tunings) /\ mode = output
  BY StampedIsASlot, <1>1 DEF Init, TuningTypes
<1>4. TransactionTypes
  BY Slots, <1>1 DEF Init, TransactionTypes, TuningTypes, TxType, TxStages, Endings
<1>5. cell \in Snapshots /\ NoSnapshot \in Snapshots
  <2>1. (CHOOSE level \in Levels : TRUE) \in Levels
    BY KindsAndValues
  <2>2. stored.level \in Levels
    BY <1>1 DEF TuningTypes, Stored
  <2>3. {} \in AtMostOne(Tunings)
    BY Slots
  <2> QED
    BY <2>1, <2>2, <2>3, <1>3 DEF Init, Snapshots, NoSnapshot
<1>6. SnapshotTypes
  BY <1>5 DEF Init, SnapshotTypes
<1>7. WindowTypes
  BY <1>5 DEF Init, WindowTypes
<1>8. CoalescerTypes
  BY Slots DEF Init, CoalescerTypes
<1>9. SavingTypes
  BY <1>1 DEF Init, SavingTypes, SavedType, TuningTypes, Stored
<1> QED
  BY <1>1, <1>2, <1>3, <1>4, <1>6, <1>7, <1>8, <1>9 DEF AllTypes, RuntimeTypes, Init, BoundTypes

-----------------------------------------------------------------------------
(* Every step *)

\* The types after any step.
LEMMA TypesStay == AllTypes /\ [Next]_vars => AllTypes'
<1> SUFFICES ASSUME AllTypes, [Next]_vars PROVE AllTypes'
  OBVIOUS
<1>1. CASE UNCHANGED vars
  BY <1>1, Unchanged DEF vars, AllTypes, CallTypes
<1>2. ASSUME NEW w \in Windows, Window(w)
      PROVE  AllTypes'
  BY <1>2, TypesPush, TypesOpen, TypesSeed, TypesDeliver DEF Window
<1>3. ASSUME NEW w \in Windows, RetuneCall(w)
      PROVE  AllTypes'
  BY <1>3, TypesRetuneQueues, TypesRetuneStores, TypesRetuneSends, TypesRetuneCounts, TypesRetunePublishes, 
     TypesRetuneDefers, TypesAnswered DEF RetuneCall
<1>4. ASSUME NEW kind \in AtMostOne(Kinds),
             MainChooses(kind) \/ TrayChooses(kind) \/ \E w \in Windows \ {Main} : PopupChooses(w, kind)
      PROVE  AllTypes'
  BY <1>4, TypesMainChooses, TypesTrayChooses, TypesPopupChooses
<1>5. CASE Transaction
  BY <1>5, TypesBegin, TypesCloses, TypesGivesWay, TypesTurnsOff, TypesFindsCurrent, TypesLeavesAlone,
     TypesReads, TypesApplies, TypesRefuses, TypesFails, TypesCommits, TypesFinishes DEF Transaction
<1>6. CASE FlushTrailing \/ SaveWakes \/ SaveWrites
  BY <1>6, TypesFlushTrailing, TypesSaveWakes, TypesSaveWrites
<1> QED
  BY <1>1, <1>2, <1>3, <1>4, <1>5, <1>6 DEF Next

\* What neither takes nor leaves the turn, nor changes what accepts.
LEMMA Aside ==
  ASSUME SenderHolds, ShutIsShut, UNCHANGED <<accepting, turn>>, tx' = tx,
         \A w \in Windows : retuning'[w].at = "sending" => retuning[w].at = "sending"
  PROVE  SenderHolds' /\ ShutIsShut'
  BY DEF SenderHolds, ShutIsShut, Holds

LEMMA TurnsStay ==
  ASSUME AllTypes, SenderHolds, ShutIsShut, [Next]_vars
  PROVE  SenderHolds' /\ ShutIsShut'
<1> USE DEF AllTypes, CallTypes, CallType
<1>1. CASE UNCHANGED vars
  BY <1>1, Aside DEF vars, tuningVars, transactionVars
<1>2. ASSUME NEW w \in Windows, Window(w)
      PROVE  SenderHolds' /\ ShutIsShut'
  <2>1. UNCHANGED <<accepting, turn>> /\ tx' = tx
    BY <1>2 DEF Window, Push, Open, Seed, Deliver, tuningVars, transactionVars
  <2>2. \A v \in Windows : retuning'[v].at = "sending" => retuning[v].at = "sending"
    BY <1>2 DEF Window, Push, StartSend, Open, Seed, Deliver
  <2> QED
    BY <2>1, <2>2, Aside
<1>3. ASSUME NEW w \in Windows, RetuneCall(w)
      PROVE  SenderHolds' /\ ShutIsShut'
  <2>1. CASE RetuneQueues(w)
    <3>1. \A a : Holds(a) => Holds(a)'
      BY <2>1, TurnSteps DEF RetuneQueues
    <3> QED
      BY <2>1, <3>1 DEF RetuneQueues, Moves, SenderHolds, ShutIsShut, tuningVars, transactionVars
  <2>2. CASE RetuneStores(w)
    <3>1. CASE accepting # {} /\ UNCHANGED turn
                 /\ retuning' = [retuning EXCEPT ![w].at = "sending", ![w].to = accepting]
      BY <2>2, <3>1 DEF RetuneStores, SenderHolds, ShutIsShut, Holds, transactionVars
    <3>2. CASE accepting = {} /\ LetsGo /\ \A v \in Windows : retuning'[v].at = "sending" =>
                                              v # w /\ retuning[v].at = "sending"
      <4>1. \A v \in Windows : retuning[v].at # "sending" \/ v = w
        BY <2>2 DEF RetuneStores, SenderHolds, Holds
      <4> QED
        BY <2>2, <3>2, <4>1 DEF RetuneStores, SenderHolds, ShutIsShut, transactionVars
    <3> QED
      BY <2>2, <3>1, <3>2 DEF RetuneStores, Moves
  <2>3. CASE RetuneSends(w)
    <3>1. \A v \in Windows : retuning'[v].at # "sending"
      BY <2>3 DEF RetuneSends, Moves, SenderHolds, Holds
    <3> QED
      BY <2>3, <3>1 DEF RetuneSends, SenderHolds, ShutIsShut, tuningVars, transactionVars
  <2>4. CASE RetuneCounts(w) \/ RetunePublishes(w) \/ RetuneDefers(w) \/ Answered(w)
    <3>1. UNCHANGED <<accepting, turn>> /\ tx' = tx
      BY <2>4 DEF RetuneCounts, RetunePublishes, RetuneDefers, Answered, tuningVars, transactionVars
    <3>2. \A v \in Windows : retuning'[v].at = "sending" => retuning[v].at = "sending"
      BY <2>4 DEF RetuneCounts, RetunePublishes, RetuneDefers, Answered, Moves, StartSend, NoRetune
    <3> QED
      BY <3>1, <3>2, Aside
  <2> QED
    BY <1>3, <2>1, <2>2, <2>3, <2>4 DEF RetuneCall
<1>4. ASSUME NEW kind \in AtMostOne(Kinds),
             MainChooses(kind) \/ TrayChooses(kind) \/ \E w \in Windows \ {Main} : PopupChooses(w, kind)
      PROVE  SenderHolds' /\ ShutIsShut'
  BY <1>4, Aside DEF MainChooses, TrayChooses, PopupChooses, Arrives
<1>5. CASE Transaction
  <2>1. CASE Closes
    <3>1. \A w \in Windows : retuning[w].at # "sending"
      BY <2>1, WindowsAndTurn DEF Closes, SenderHolds, Holds
    <3> QED
      BY <2>1, <3>1 DEF Closes, SenderHolds, ShutIsShut, TxFrame
  <2>2. CASE Commits
    <3>1. \A w \in Windows : retuning[w].at # "sending"
      BY <2>2, WindowsAndTurn DEF Commits, SenderHolds, Holds
    <3>2. tx'.at = "committed"
      BY <2>2 DEF Commits, TxMoves, TransactionTypes, TxType
    <3> QED
      BY <2>2, <3>1, <3>2 DEF Commits, SenderHolds, ShutIsShut, ShutStages, TxFrame
  <2>3. CASE Begin \/ GivesWay \/ Finishes
    <3>1. tx'.at \notin ShutStages
      <4>1. tx'.at \in {"idle", "closing"}
        <5>1. CASE Begin
          BY <5>1 DEF Begin, TransactionTypes, TxType
        <5>2. CASE GivesWay
          BY <5>2 DEF GivesWay, TransactionTypes, TxType
        <5>3. CASE Finishes
          BY <5>3 DEF Finishes, TransactionTypes, TxType
        <5> QED
          BY <2>3, <5>1, <5>2, <5>3
      <4> QED
        BY <4>1 DEF ShutStages
    <3>2. \A a : Holds(a) => Holds(a)'
      BY <2>3, TurnSteps DEF Begin, GivesWay, Finishes, Holds
    <3>3. retuning' = retuning
      BY <2>3 DEF Begin, GivesWay, Finishes, TxFrame
    <3> QED
      BY <3>1, <3>2, <3>3 DEF SenderHolds, ShutIsShut
  <2>4. CASE TurnsOff \/ FindsCurrent \/ LeavesAlone \/ Reads \/ Applies \/ Refuses \/ Fails
    <3>1. tx.at \in ShutStages
      BY <2>4 DEF TurnsOff, FindsCurrent, LeavesAlone, Reads, Applies, Refuses, Fails, ShutStages
    <3>2. accepting' = accepting /\ retuning' = retuning
      BY <2>4 DEF TurnsOff, FindsCurrent, LeavesAlone, Reads, Applies, Refuses, Fails, tuningVars, TxFrame
    <3> QED
      BY <3>1, <3>2 DEF SenderHolds, ShutIsShut
  <2> QED
    BY <1>5, <2>1, <2>2, <2>3, <2>4 DEF Transaction
<1>6. CASE FlushTrailing \/ SaveWakes \/ SaveWrites
  BY <1>6, Aside DEF FlushTrailing, SaveWakes, SaveWrites, tuningVars, transactionVars
<1> QED
  BY <1>1, <1>2, <1>3, <1>4, <1>5, <1>6 DEF Next

LEMMA InvariantHolds == Spec => [](AllTypes /\ SenderHolds /\ ShutIsShut)
<1>1. Init => AllTypes /\ SenderHolds /\ ShutIsShut
  BY InitTypes DEF Init, SenderHolds, ShutIsShut, ShutStages, NoRetune
<1>2. AllTypes /\ SenderHolds /\ ShutIsShut /\ [Next]_vars => (AllTypes /\ SenderHolds /\ ShutIsShut)'
  BY TypesStay, TurnsStay
<1> QED
  BY <1>1, <1>2, PTL DEF Spec

-----------------------------------------------------------------------------
(* The theorems *)

\* The cell, the calls, the snapshots in flight and the windows keep their shapes.
THEOREM TypesHold == Spec => []TypeOK
<1>1. AllTypes => TypeOK
  BY TypesInParts DEF AllTypes
<1> QED
  BY <1>1, InvariantHolds, PTL

\* Nothing but the transaction reaches the outputs from its close to its commit (TuningCell::close and
\* retune, which share the turn).
THEOREM OutputsAreShut == Spec => OnlyTheTransactionSends
<1>1. ASSUME AllTypes, ShutIsShut, [Next]_vars, tx.at \in ShutStages, output' # output
      PROVE  tx' # tx
  <2>1. ASSUME NEW w \in Windows, RetuneSends(w)
        PROVE  FALSE
    BY <1>1, <2>1 DEF RetuneSends, At, ShutIsShut
  <2>2. ~UNCHANGED vars
    BY <1>1 DEF vars, runtimeVars
  <2>3. ASSUME NEW w \in Windows, Window(w)
        PROVE  FALSE
    BY <1>1, <2>3 DEF Window, Push, Open, Seed, Deliver, runtimeVars
  <2>4. ASSUME NEW w \in Windows, RetuneCall(w)
        PROVE  FALSE
    BY <1>1, <2>4, <2>1 DEF RetuneCall, RetuneQueues, RetuneStores, RetuneCounts, RetunePublishes,
                            RetuneDefers, Answered, runtimeVars
  <2>5. ASSUME NEW kind \in AtMostOne(Kinds),
               MainChooses(kind) \/ TrayChooses(kind) \/ \E w \in Windows \ {Main} : PopupChooses(w, kind)
        PROVE  FALSE
    BY <1>1, <2>5 DEF MainChooses, TrayChooses, PopupChooses, Arrives, runtimeVars
  <2>6. ~(FlushTrailing \/ SaveWakes \/ SaveWrites)
    BY <1>1 DEF FlushTrailing, SaveWakes, SaveWrites, runtimeVars
  <2>7. CASE Transaction
    <3>1. TurnsOff \/ Applies \/ Fails \/ Commits
      BY <1>1, <2>7 DEF Transaction, Begin, Closes, GivesWay, FindsCurrent, LeavesAlone, Reads, Refuses,
                        Finishes, runtimeVars
    <3>2. tx'.at # tx.at
      BY <1>1, <3>1 DEF TurnsOff, Applies, Fails, Commits, ToCommit, TxMoves, AllTypes, TransactionTypes,
                        TxType
    <3> QED
      BY <3>2
  <2> QED
    BY <1>1, <2>2, <2>3, <2>4, <2>5, <2>6, <2>7 DEF Next
<1>2. AllTypes /\ ShutIsShut /\ [Next]_vars =>
        [tx.at \in {"closed", "current", "read", "committing"} /\ output' # output => tx' # tx]_vars
  BY <1>1 DEF ShutStages
<1> QED
  BY <1>2, InvariantHolds, PTL DEF Spec, OnlyTheTransactionSends

-----------------------------------------------------------------------------
(* What the windows show *)

\* No snapshot is newer than the cell's.
Dated ==
  /\ cell.revision >= 1
  /\ \A w \in Windows : /\ held[w].revision <= cell.revision
                        /\ \A n \in news[w] : n.snapshot.revision <= cell.revision

\* With no emit held back, a revision stands for one content.
OneContent ==
  ~trailing => \A w \in Windows :
    /\ held[w].revision = cell.revision => held[w] = cell
    /\ \A n \in news[w] : n.snapshot.revision = cell.revision => n.snapshot = cell

\* A window that asked for its seed has the newest revision, or it is on its way.
NewestComes ==
  \A w \in Windows : stage[w] = "seeded" =>
    held[w].revision = cell.revision \/ \E n \in news[w] : n.snapshot.revision = cell.revision

Mirrors == Dated /\ OneContent /\ NewestComes

LEMMA RevisionsAreNumbers ==
  ASSUME AllTypes
  PROVE  /\ cell.revision \in Nat
         /\ \A w \in Windows : /\ held[w].revision \in Nat
                               /\ \A n \in news[w] : n.snapshot.revision \in Nat
<1>1. \A s \in Snapshots : s.revision \in Nat
  BY DEF Snapshots
<1>2. cell \in Snapshots /\ \A w \in Windows : held[w] \in Snapshots
  BY DEF AllTypes, SnapshotTypes, WindowTypes
<1>3. \A w \in Windows : \A n \in news[w] : n.snapshot \in Snapshots
  BY DEF AllTypes, SnapshotTypes, News
<1> QED
  BY <1>1, <1>2, <1>3

\* A new revision goes to every window that is open.
LEMMA Announced ==
  ASSUME AllTypes, Mirrors, UNCHANGED <<stage, held>>, cell'.revision = cell.revision + 1,
         \A w \in Windows : \A n \in news'[w] : n \in news[w] \/ n.snapshot = cell',
         \A w \in Windows : stage[w] = "seeded" => \E n \in news'[w] : n.snapshot = cell'
  PROVE  Mirrors'
<1>1. /\ cell.revision \in Nat
      /\ \A w \in Windows : held[w].revision < cell'.revision
      /\ \A w \in Windows : \A n \in news[w] : n.snapshot.revision < cell'.revision
  BY RevisionsAreNumbers DEF Mirrors, Dated
<1>2. Dated'
  <2>1. cell'.revision \in Nat /\ cell'.revision >= 1
    BY <1>1
  <2>2. ASSUME NEW w \in Windows
        PROVE  held[w].revision <= cell'.revision /\ \A n \in news'[w] : n.snapshot.revision <= cell'.revision
    <3>1. \A n \in news[w] : n.snapshot.revision <= cell'.revision
      BY <1>1, <2>1, RevisionsAreNumbers
    <3> QED
      BY <1>1, <2>1, <3>1, RevisionsAreNumbers
  <2> QED
    BY <2>1, <2>2 DEF Dated
<1>3. OneContent'
  BY <1>1, RevisionsAreNumbers DEF OneContent
<1>4. NewestComes'
  BY DEF NewestComes
<1> QED
  BY <1>2, <1>3, <1>4 DEF Mirrors

\* The snapshot as it is, once more, to whom it may concern.
LEMMA Repeated ==
  ASSUME AllTypes, Mirrors, UNCHANGED <<cell, trailing, held>>,
         \A w \in Windows : news[w] \subseteq news'[w],
         \A w \in Windows : \A n \in news'[w] : n \in news[w] \/ n.snapshot = cell,
         \A w \in Windows : stage'[w] = "seeded" =>
           stage[w] = "seeded" \/ \E n \in news'[w] : n.snapshot = cell
  PROVE  Mirrors'
<1>0. cell.revision \in Nat
  BY RevisionsAreNumbers
<1>1. Dated'
  BY <1>0 DEF Mirrors, Dated
<1>2. OneContent'
  BY DEF Mirrors, OneContent
<1>3. NewestComes'
  BY DEF Mirrors, NewestComes
<1> QED
  BY <1>1, <1>2, <1>3 DEF Mirrors

\* A change that is announced later.
LEMMA HeldBack ==
  ASSUME Mirrors, UNCHANGED <<stage, held, news>>, cell'.revision = cell.revision, trailing' = TRUE
  PROVE  Mirrors'
<1>1. Dated'
  BY DEF Mirrors, Dated
<1>2. OneContent'
  BY DEF OneContent
<1>3. NewestComes'
  BY DEF Mirrors, NewestComes
<1> QED
  BY <1>1, <1>2, <1>3 DEF Mirrors

\* A message taken or dropped is no loss: what the window shows then is as new.
LEMMA Delivers ==
  ASSUME AllTypes, Mirrors, NEW w \in Windows, NEW n \in news[w], Deliver(w, n)
  PROVE  Mirrors'
<1>0. /\ held \in [Windows -> Snapshots] /\ news \in [Windows -> SUBSET News]
      /\ UNCHANGED <<cell, trailing, stage>>
  BY DEF AllTypes, SnapshotTypes, WindowTypes, Deliver
<1>1. \A v \in Windows : v # w => held'[v] = held[v] /\ news'[v] = news[v]
  BY <1>0 DEF Deliver
<1>2. held'[w] = IF Adopts(n.snapshot, held[w]) THEN n.snapshot ELSE held[w]
  BY <1>0 DEF Deliver
<1>3. /\ \A m \in news'[w] : m \in news[w]
      /\ \A m \in news[w] : m = n \/ m \in news'[w] \/ ~Adopts(m.snapshot, held'[w])
  BY <1>0 DEF Deliver
<1>4. /\ cell.revision \in Nat /\ held[w].revision \in Nat
      /\ \A m \in news[w] : m.snapshot.revision \in Nat /\ m.snapshot.revision <= cell.revision
      /\ held[w].revision <= cell.revision /\ cell.revision >= 1
  BY RevisionsAreNumbers DEF Mirrors, Dated
<1>5. /\ held'[w].revision \in Nat /\ held'[w].revision <= cell.revision
      /\ held[w].revision <= held'[w].revision /\ n.snapshot.revision <= held'[w].revision
  BY <1>2, <1>4 DEF Adopts
<1>6. Dated'
  BY <1>0, <1>1, <1>3, <1>4, <1>5 DEF Mirrors, Dated
<1>7. OneContent'
  BY <1>0, <1>1, <1>2, <1>3 DEF Mirrors, OneContent
<1>8. ASSUME stage[w] = "seeded"
      PROVE  held'[w].revision = cell.revision \/ \E m \in news'[w] : m.snapshot.revision = cell.revision
  <2>1. CASE held[w].revision = cell.revision
    BY <1>4, <1>5, <2>1
  <2>2. ASSUME NEW m \in news[w], m.snapshot.revision = cell.revision
        PROVE  held'[w].revision = cell.revision \/ m \in news'[w]
    BY <1>3, <1>4, <1>5, <2>2 DEF Adopts
  <2> QED
    BY <1>8, <2>1, <2>2 DEF Mirrors, NewestComes
<1>9. NewestComes'
  BY <1>0, <1>1, <1>8 DEF Mirrors, NewestComes
<1> QED
  BY <1>6, <1>7, <1>9 DEF Mirrors

LEMMA EmitsToOpen ==
  ASSUME AllTypes, NEW s
  PROVE  /\ \A w \in Windows : \A n \in Emitted(s)[w] : n \in news[w] \/ n.snapshot = s
         /\ \A w \in Windows : stage[w] = "seeded" => \E n \in Emitted(s)[w] : n.snapshot = s
<1> DEFINE message == [snapshot |-> s, answers |-> 0]
<1>1. message.snapshot = s
  OBVIOUS
<1>2. \A w \in Windows :
        Emitted(s)[w] = IF stage[w] = "closed" THEN news[w] ELSE news[w] \cup {message}
  BY DEF Emitted
<1> HIDE DEF message
<1> QED
  BY <1>1, <1>2

LEMMA PublishedIsAnnounced ==
  ASSUME AllTypes, Mirrors, UNCHANGED <<stage, held>>, NEW m, NEW level
  PROVE  /\ Publish(m, level) => Mirrors'
         /\ PublishCoalesced(m, level) => Mirrors'
<1>1. ASSUME cell' = [revision |-> cell.revision + 1, mode |-> m, level |-> level], news' = Emitted(cell')
      PROVE  Mirrors'
  <2>1. PICK s : s = cell'
    OBVIOUS
  <2>2. s.revision = cell.revision + 1 /\ news' = Emitted(s)
    BY <1>1, <2>1
  <2> QED
    BY <2>1, <2>2, EmitsToOpen, Announced
<1>2. Publish(m, level) => Mirrors'
  BY <1>1 DEF Publish
<1>3. ASSUME cell' = [cell EXCEPT !.mode = m, !.level = level], UNCHANGED news, trailing'
      PROVE  Mirrors'
  <2>1. cell'.revision = cell.revision
    BY <1>3 DEF AllTypes, SnapshotTypes, Snapshots
  <2>2. trailing' = TRUE
    BY <1>3, TypesInParts
  <2> QED
    BY <1>3, <2>1, HeldBack
<1>4. PublishCoalesced(m, level) => Mirrors'
  <2>1. trailing \in BOOLEAN
    BY DEF AllTypes, SnapshotTypes
  <2> QED
    BY <1>1, <1>3, <2>1 DEF PublishCoalesced
<1> QED
  BY <1>2, <1>4

LEMMA RunningIsAnnounced ==
  ASSUME AllTypes, Mirrors, UNCHANGED <<stage, held>>, NEW m, PublishRunning(m)
  PROVE  Mirrors'
  BY PublishedIsAnnounced DEF PublishRunning

LEMMA MirrorsNext == ASSUME AllTypes, Mirrors, [Next]_vars PROVE Mirrors'
<1>1. ASSUME UNCHANGED <<cell, trailing, news, held, stage>> PROVE Mirrors'
  BY <1>1, Repeated
<1>2. CASE UNCHANGED vars
  BY <1>1, <1>2 DEF vars, snapshotVars, windowVars
<1>3. ASSUME NEW w \in Windows, Window(w) PROVE Mirrors'
  <2>1. ASSUME NEW t \in Tunings, Push(w, t) PROVE Mirrors'
    BY <1>1, <2>1 DEF Push, snapshotVars, windowVars
  <2>2. CASE Open(w)
    <3>1. UNCHANGED <<cell, trailing, news, held>> /\ stage' = [stage EXCEPT ![w] = "listening"]
      BY <2>2 DEF Open, snapshotVars
    <3>2. \A v \in Windows : stage'[v] = "seeded" => stage[v] = "seeded"
      BY <3>1 DEF AllTypes, WindowTypes
    <3> QED
      BY <3>1, <3>2, Repeated
  <2>3. CASE Seed(w)
    <3>1. /\ UNCHANGED <<cell, trailing, held>> /\ stage' = [stage EXCEPT ![w] = "seeded"]
          /\ news' = [news EXCEPT ![w] = @ \cup {[snapshot |-> cell, answers |-> 0]}]
      BY <2>3 DEF Seed
    <3>2. \A v \in Windows : /\ news[v] \subseteq news'[v]
                             /\ \A n \in news'[v] : n \in news[v] \/ n.snapshot = cell
                             /\ v = w => \E n \in news'[v] : n.snapshot = cell
      <4> DEFINE message == [snapshot |-> cell, answers |-> 0]
      <4>1. message.snapshot = cell
        OBVIOUS
      <4>2. \A v \in Windows : news'[v] = IF v = w THEN news[v] \cup {message} ELSE news[v]
        BY <3>1 DEF AllTypes, SnapshotTypes
      <4> HIDE DEF message
      <4> QED
        BY <4>1, <4>2
    <3>3. \A v \in Windows : v = w \/ stage'[v] = stage[v]
      BY <3>1 DEF AllTypes, WindowTypes
    <3> QED
      BY <3>1, <3>2, <3>3, Repeated
  <2>4. ASSUME NEW n \in news[w], Deliver(w, n) PROVE Mirrors'
    BY <2>4, Delivers
  <2> QED
    BY <1>3, <2>1, <2>2, <2>3, <2>4 DEF Window
<1>4. ASSUME NEW w \in Windows, RetuneCall(w) PROVE Mirrors'
  <2>1. CASE RetunePublishes(w)
    <3>1. UNCHANGED <<stage, held>> /\ \E m, level : PublishCoalesced(m, level)
      BY <2>1 DEF RetunePublishes, windowVars
    <3> QED
      BY <3>1, PublishedIsAnnounced
  <2>2. CASE ~RetunePublishes(w)
    BY <1>1, <1>4, <2>2 DEF RetuneCall, RetuneQueues, RetuneStores, RetuneSends, RetuneCounts, RetuneDefers,
       Answered, snapshotVars, windowVars
  <2> QED
    BY <2>1, <2>2
<1>5. ASSUME NEW kind \in AtMostOne(Kinds),
             MainChooses(kind) \/ TrayChooses(kind) \/ \E w \in Windows \ {Main} : PopupChooses(w, kind)
      PROVE  Mirrors'
  BY <1>1, <1>5 DEF MainChooses, TrayChooses, PopupChooses, Arrives, snapshotVars
<1>6. CASE Transaction
  <2>0. TxFrame => UNCHANGED <<stage, held>>
    BY DEF TxFrame, windowVars
  <2>1. CASE Closes \/ FindsCurrent \/ LeavesAlone \/ Reads \/ Commits
    BY <1>1, <2>0, <2>1 DEF Closes, FindsCurrent, LeavesAlone, Reads, Commits, snapshotVars
  <2>2. CASE TurnsOff \/ Applies \/ Refuses \/ Fails
    <3>1. UNCHANGED <<stage, held>> /\ \E m : PublishRunning(m)
      BY <2>0, <2>2 DEF TurnsOff, Applies, Refuses, Fails
    <3> QED
      BY <3>1, RunningIsAnnounced
  <2>3. ASSUME NEW to, NEW of, news' = Answer(news, to, cell, of), UNCHANGED <<cell, trailing, stage, held>>
        PROVE  Mirrors'
    <3>1. \A w \in Windows : /\ news[w] \subseteq news'[w]
                             /\ \A n \in news'[w] : n \in news[w] \/ n.snapshot = cell
      BY <2>3 DEF Answer
    <3> QED
      BY <2>3, <3>1, Repeated
  <2>4. CASE Begin
    BY <1>1, <2>0, <2>3, <2>4 DEF Begin, snapshotVars
  <2>5. CASE GivesWay
    BY <2>0, <2>3, <2>5 DEF GivesWay
  <2>6. CASE Finishes
    <3>1. PICK s : s = cell'
      OBVIOUS
    <3>2. /\ s = [cell EXCEPT !.revision = @ + 1, !.level = stored.level]
          /\ news' = Answer(Emitted(s), tx.from, s, tx.ticket)
      BY <2>6, <3>1 DEF Finishes
    <3>3. s.revision = cell.revision + 1 /\ UNCHANGED <<stage, held>>
      BY <2>0, <2>6, <3>2 DEF Finishes, AllTypes, SnapshotTypes, Snapshots
    <3>4. /\ \A w \in Windows : \A n \in Emitted(s)[w] : n \in news[w] \/ n.snapshot = s
          /\ \A w \in Windows : stage[w] = "seeded" => \E n \in Emitted(s)[w] : n.snapshot = s
      BY EmitsToOpen
    <3>5. \A w \in Windows : /\ Emitted(s)[w] \subseteq news'[w]
                             /\ \A n \in news'[w] : n \in Emitted(s)[w] \/ n.snapshot = s
      BY <3>2 DEF Answer
    <3> QED
      BY <3>1, <3>3, <3>4, <3>5, Announced
  <2> QED
    BY <1>6, <2>1, <2>2, <2>4, <2>5, <2>6 DEF Transaction
<1>7. CASE FlushTrailing
  <2>1. PICK s : s = cell'
    OBVIOUS
  <2>2. s = [cell EXCEPT !.revision = @ + 1] /\ news' = Emitted(s) /\ UNCHANGED <<stage, held>>
    BY <1>7, <2>1 DEF FlushTrailing, windowVars
  <2>3. s.revision = cell.revision + 1
    BY <2>2 DEF AllTypes, SnapshotTypes, Snapshots
  <2> QED
    BY <2>1, <2>2, <2>3, EmitsToOpen, Announced
<1>8. CASE SaveWakes \/ SaveWrites
  BY <1>1, <1>8 DEF SaveWakes, SaveWrites, snapshotVars, windowVars
<1> QED
  BY <1>2, <1>3, <1>4, <1>5, <1>6, <1>7, <1>8 DEF Next

\* Once every snapshot has arrived a window shows the newest, for any number of windows, retunes and
\* choices and whatever order the snapshots come in (publish_coalesced, flush_trailing, adopt).
THEOREM WindowsShowTheNewest == Spec => []WindowsCatchUp
<1>1. Init => Mirrors
  <2> SUFFICES ASSUME Init PROVE Mirrors
    OBVIOUS
  <2>1. cell.revision = 1 /\ NoSnapshot.revision = 0
    BY DEF Init, NoSnapshot
  <2>2. \A w \in Windows : news[w] = {} /\ held[w] \in {cell, NoSnapshot}
                           /\ (stage[w] = "seeded" => held[w] = cell)
    BY DEF Init
  <2> QED
    BY <2>1, <2>2 DEF Mirrors, Dated, OneContent, NewestComes
<1>2. (AllTypes /\ SenderHolds /\ ShutIsShut) /\ Mirrors /\ [Next]_vars => Mirrors'
  BY MirrorsNext
<1>3. Mirrors => WindowsCatchUp
  BY DEF Mirrors, OneContent, NewestComes, WindowsCatchUp
<1> QED
  BY <1>1, <1>2, <1>3, InvariantHolds, PTL DEF Spec

-----------------------------------------------------------------------------
(* What the outputs carry *)

Newest(kinds) == {Stamped(stored, k) : k \in kinds}
Landed == {"applied", "unsaved"}

\* A call in flight is its window's only one.
Flying == \A w \in Windows : retuning[w].at # "none" => inFlight[w] # {}

\* A retune that sends reaches what still accepts.
SendsToAccepting == \A w \in Windows : retuning[w].at = "sending" => retuning[w].to = accepting

\* A transaction starts with the newest payload it read, and knows of a newer one.
Reading ==
  tx.at = "read" =>
    /\ KindOf(tx.payload) = tx.kind /\ tx.seen <= stored.generation
    /\ tx.seen = stored.generation => tx.payload = Newest(tx.kind)

\* So what it commits runs with the newest, unless the commit sees a newer one.
Committing ==
  tx.at = "committing" /\ tx.ending \in Landed =>
    /\ tx.seen <= stored.generation
    /\ mode = {} => output = {}
    /\ mode # {} /\ tx.seen = stored.generation => output = Newest(KindOf(mode))

\* After it the outputs carry the newest, or a retune that sends brings it.
Carrying ==
  waiting = <<>> /\ tx.at \in {"committed", "idle"} /\ tx.ending \in Landed =>
    /\ (\A w \in Windows : retuning[w].at # "sending") => CarryTheNewest
    /\ \A w \in Windows : retuning[w].at = "sending" =>
         \A t \in retuning[w].tuning :
           IF t.kind \in accepting THEN t = Stamped(stored, t.kind) ELSE CarryTheNewest

Lands == Flying /\ SendsToAccepting /\ Reading /\ Committing /\ Carrying

KInv == AllTypes /\ SenderHolds /\ ShutIsShut

LEMMA GenerationIsANumber ==
  ASSUME AllTypes
  PROVE  stored.generation \in Nat /\ tx.seen \in Nat
  BY DEF AllTypes, TuningTypes, TransactionTypes, TxType, Stored

\* The kind of what a kind's newest payload is.
LEMMA KindOfNewest == \A kinds : KindOf(Newest(kinds)) = kinds
<1> TAKE kinds
<1>1. \A k : Stamped(stored, k).kind = k
  BY DEF Stamped
<1>2. KindOf(Newest(kinds)) \subseteq kinds
  BY <1>1 DEF KindOf, Newest
<1>3. ASSUME NEW k \in kinds PROVE k \in KindOf(Newest(kinds))
  <2>1. Stamped(stored, k) \in Newest(kinds)
    BY DEF Newest
  <2> QED
    BY <1>1, <2>1 DEF KindOf
<1> QED
  BY <1>2, <1>3

LEMMA FlyingNext == ASSUME KInv, Flying, [Next]_vars PROVE Flying'
<1>0. retuning \in [Windows -> CallType] /\ inFlight \in [Windows -> AtMostOne(Tunings)]
  BY DEF KInv, AllTypes, CallTypes, CoalescerTypes
<1>1. ASSUME UNCHANGED inFlight, \A v \in Windows : retuning'[v].at # "none" => retuning[v].at # "none"
      PROVE  Flying'
  BY <1>1 DEF Flying
<1>2. CASE UNCHANGED vars
  BY <1>1, <1>2 DEF vars, coalescerVars
<1>3. ASSUME NEW w \in Windows, NEW t, StartSend(w, t) PROVE Flying'
  <2>1. /\ inFlight'[w] # {}
        /\ \A v \in Windows : v # w => inFlight'[v] = inFlight[v] /\ retuning'[v] = retuning[v]
    BY <1>0, <1>3 DEF StartSend
  <2> QED
    BY <2>1 DEF Flying
<1>4. ASSUME NEW w \in Windows, Window(w) PROVE Flying'
  BY <1>1, <1>3, <1>4 DEF Window, Push, Open, Seed, Deliver, coalescerVars
<1>5. ASSUME NEW w \in Windows, RetuneCall(w) PROVE Flying'
  <2>1. CASE Answered(w)
    <3>1. CASE inFlight' = [inFlight EXCEPT ![w] = {}] /\ retuning' = [retuning EXCEPT ![w] = NoRetune]
      BY <1>0, <3>1 DEF Flying, NoRetune
    <3> QED
      BY <1>3, <2>1, <3>1 DEF Answered
  <2>2. CASE ~Answered(w)
    <3>1. UNCHANGED inFlight
      BY <1>5, <2>2 DEF RetuneCall, RetuneQueues, RetuneStores, RetuneSends, RetuneCounts, RetunePublishes,
         RetuneDefers, coalescerVars
    <3>2. retuning[w].at # "none" /\ \A v \in Windows : v # w => retuning'[v] = retuning[v]
      BY <1>0, <1>5, <2>2 DEF RetuneCall, RetuneQueues, RetuneStores, RetuneSends, RetuneCounts,
         RetunePublishes, RetuneDefers, Moves, At
    <3> QED
      BY <1>1, <3>1, <3>2
  <2> QED
    BY <2>1, <2>2
<1>6. ASSUME NEW kind \in AtMostOne(Kinds),
             MainChooses(kind) \/ TrayChooses(kind) \/ \E w \in Windows \ {Main} : PopupChooses(w, kind)
      PROVE  Flying'
  BY <1>1, <1>6 DEF MainChooses, TrayChooses, PopupChooses, Arrives
<1>7. CASE Transaction
  BY <1>1, <1>7 DEF Transaction, Begin, Closes, GivesWay, TurnsOff, FindsCurrent, LeavesAlone, Reads, Applies,
     Refuses, Fails, Commits, Finishes, TxFrame, coalescerVars
<1>8. CASE FlushTrailing \/ SaveWakes \/ SaveWrites
  BY <1>1, <1>8 DEF FlushTrailing, SaveWakes, SaveWrites, coalescerVars
<1> QED
  BY <1>2, <1>4, <1>5, <1>6, <1>7, <1>8 DEF Next

Sends(w) == retuning[w].at = "sending"

\* A step that leaves the transaction, the outputs and every retune that sends alone.
LEMMA LandsKept ==
  ASSUME Lands, Flying', UNCHANGED <<stored, accepting, output, mode, tx, waiting>>,
         \A v \in Windows : Sends(v) \/ Sends(v)' => retuning'[v] = retuning[v]
  PROVE  Lands'
<1>1. SendsToAccepting'
  BY DEF Lands, SendsToAccepting, Sends
<1>2. Reading' /\ Committing'
  BY DEF Lands, Reading, Committing, Newest
<1>3. CarryTheNewest' <=> CarryTheNewest
  BY DEF CarryTheNewest
<1>4. \A v \in Windows : Sends(v)' <=> Sends(v)
  BY DEF Sends
<1>5. Carrying'
  BY <1>3, <1>4 DEF Lands, Carrying, Sends
<1> QED
  BY <1>1, <1>2, <1>5 DEF Lands

\* A payload stored is newer than any that a transaction read.
LEMMA StoringIsSeen ==
  ASSUME AllTypes, Reading, Committing, stored'.generation = stored.generation + 1,
         UNCHANGED <<tx, output, mode>>
  PROVE  Reading' /\ Committing'
<1>1. tx.seen <= stored.generation => tx.seen < stored'.generation /\ tx.seen <= stored'.generation
                                      /\ tx.seen # stored'.generation
  BY GenerationIsANumber
<1>2. Reading'
  BY <1>1 DEF Reading
<1>3. Committing'
  BY <1>1 DEF Committing
<1> QED
  BY <1>2, <1>3

LEMMA LandsChosen ==
  ASSUME KInv, Lands, Flying', NEW from, NEW kind, Arrives(from, kind),
         UNCHANGED stored \/ \E t : Store(t)
  PROVE  Lands'
<1>1. UNCHANGED <<accepting, output, mode, tx, retuning>> /\ waiting' # <<>>
  BY DEF Arrives, runtimeVars, KInv, AllTypes, TransactionTypes
<1>2. SendsToAccepting' /\ Carrying'
  BY <1>1 DEF Lands, SendsToAccepting, Carrying
<1>3. CASE UNCHANGED stored
  BY <1>1, <1>2, <1>3 DEF Lands, Reading, Committing, Newest
<1>4. CASE \E t : Store(t)
  <2>1. stored'.generation = stored.generation + 1
    BY <1>4 DEF Store
  <2> QED
    BY <1>1, <1>2, <2>1, StoringIsSeen DEF Lands, KInv
<1> QED
  BY <1>3, <1>4

\* A payload that reaches what accepts is its newest; another leaves that as it is.
LEMMA Remembered ==
  ASSUME AllTypes, NEW t \in Tunings, Remember(t), accepting # {}
  PROVE  /\ t.kind \in accepting => t = Stamped(stored', t.kind)
         /\ t.kind \notin accepting =>
              /\ stored'.level = stored.level
              /\ \A k \in accepting : Stamped(stored', k) = Stamped(stored, k)
<1>1. /\ t.kind \in Kinds /\ t = [kind |-> t.kind, look |-> t.look, level |-> t.level]
      /\ accepting \subseteq Kinds /\ stored.look \in [Kinds -> Looks]
  BY Slots DEF AllTypes, TuningTypes, Stored, Tunings
<1>2. /\ stored'.look = [stored.look EXCEPT ![t.kind] = t.look]
      /\ stored'.level = IF t.kind \in accepting THEN t.level ELSE stored.level
  BY DEF Remember
<1>3. CASE t.kind \in accepting
  <2>1. stored'.look[t.kind] = t.look /\ stored'.level = t.level
    BY <1>1, <1>2, <1>3
  <2>2. Stamped(stored', t.kind) = [kind |-> t.kind, look |-> t.look, level |-> t.level]
    BY <2>1 DEF Stamped
  <2> QED
    BY <1>1, <1>3, <2>2
<1>4. CASE t.kind \notin accepting
  <2>1. \A k \in accepting : stored'.look[k] = stored.look[k]
    BY <1>1, <1>2, <1>4
  <2> QED
    BY <1>2, <1>4, <2>1 DEF Stamped
<1> QED
  BY <1>3, <1>4

LEMMA LandsStored ==
  ASSUME KInv, Lands, Flying', NEW w \in Windows, RetuneStores(w)
  PROVE  Lands'
<1>0. /\ retuning \in [Windows -> CallType] /\ UNCHANGED <<accepting, output, mode, tx, waiting>>
  BY DEF KInv, AllTypes, CallTypes, RetuneStores, runtimeVars, transactionVars
<1>1. PICK t \in retuning[w].tuning :
        /\ Remember(t)
        /\ \/ /\ accepting # {}
              /\ retuning' = [retuning EXCEPT ![w].at = "sending", ![w].to = accepting]
           \/ /\ accepting = {}
              /\ Moves(w, IF t.kind \in awaiting THEN "deferred" ELSE "answered")
  BY DEF RetuneStores
<1>2. t \in Tunings /\ retuning[w].tuning = {t}
  <2>1. retuning[w].tuning \in AtMostOne(Tunings)
    BY <1>0 DEF CallType
  <2> QED
    BY <1>1, <2>1, Slots
<1>3. \A v \in Windows : ~Sends(v)
  BY DEF KInv, SenderHolds, RetuneStores, Holds, At, Sends
<1>4. stored'.generation = stored.generation + 1
  BY <1>1 DEF Remember
<1>5. Reading' /\ Committing'
  BY <1>0, <1>4, StoringIsSeen DEF KInv, Lands
<1>6. CASE accepting # {} /\ retuning' = [retuning EXCEPT ![w].at = "sending", ![w].to = accepting]
  <2>1. /\ retuning'[w].at = "sending" /\ retuning'[w].to = accepting
        /\ retuning'[w].tuning = {t} /\ \A v \in Windows : v # w => retuning'[v] = retuning[v]
    BY <1>0, <1>2, <1>6 DEF CallType
  <2>2. SendsToAccepting'
    BY <1>0, <1>3, <2>1 DEF SendsToAccepting, Sends
  <2>3. /\ t.kind \in accepting => t = Stamped(stored', t.kind)
        /\ t.kind \notin accepting => \A k \in accepting : Stamped(stored', k) = Stamped(stored, k)
    BY <1>1, <1>2, <1>6, Remembered DEF KInv
  <2>4. t.kind \notin accepting /\ CarryTheNewest => CarryTheNewest'
    BY <1>0, <2>3 DEF CarryTheNewest
  <2>5. Carrying'
    BY <1>0, <1>3, <2>1, <2>3, <2>4 DEF Lands, Carrying, Sends
  <2> QED
    BY <1>5, <2>2, <2>5 DEF Lands
<1>7. CASE accepting = {} /\ Moves(w, IF t.kind \in awaiting THEN "deferred" ELSE "answered")
  <2>1. \A v \in Windows : ~Sends(v)'
    BY <1>0, <1>3, <1>7 DEF Moves, Sends, CallType
  <2>2. CarryTheNewest => CarryTheNewest'
    BY <1>0, <1>7 DEF CarryTheNewest
  <2>3. Carrying' /\ SendsToAccepting'
    BY <1>0, <1>3, <2>1, <2>2 DEF Lands, Carrying, SendsToAccepting, Sends
  <2> QED
    BY <1>5, <2>3 DEF Lands
<1> QED
  BY <1>1, <1>6, <1>7

LEMMA LandsSent ==
  ASSUME KInv, Lands, Flying', NEW w \in Windows, RetuneSends(w)
  PROVE  Lands'
<1>0. /\ retuning \in [Windows -> CallType] /\ UNCHANGED <<stored, accepting, mode, tx, waiting>>
      /\ retuning[w].at = "sending" /\ retuning[w].to = accepting /\ accepting \in AtMostOne(Kinds)
  BY DEF KInv, AllTypes, CallTypes, TuningTypes, RetuneSends, tuningVars, transactionVars, Lands,
         SendsToAccepting, At
<1>1. PICK t \in retuning[w].tuning :
        \/ t.kind \in accepting /\ output' = {t} /\ Moves(w, "sent")
        \/ t.kind \notin accepting /\ Moves(w, "answered") /\ UNCHANGED output
  BY <1>0 DEF RetuneSends
<1>2. \A v \in Windows : v = w \/ ~Sends(v)
  BY DEF KInv, SenderHolds, RetuneSends, Holds, Sends
<1>3. \A v \in Windows : ~Sends(v)'
  BY <1>0, <1>1, <1>2 DEF Moves, Sends, CallType
<1>4. tx.at \notin ShutStages
  BY <1>0 DEF KInv, ShutIsShut
<1>5. Reading' /\ Committing' /\ SendsToAccepting'
  BY <1>0, <1>3, <1>4 DEF Reading, Committing, SendsToAccepting, ShutStages, Sends
<1>6. ASSUME waiting = <<>>, tx.at \in {"committed", "idle"}, tx.ending \in Landed
      PROVE  CarryTheNewest'
  <2>1. IF t.kind \in accepting THEN t = Stamped(stored, t.kind) ELSE CarryTheNewest
    BY <1>0, <1>1, <1>6 DEF Lands, Carrying
  <2>2. CASE t.kind \in accepting
    <3>1. accepting = {t.kind} /\ output' = {t}
      BY <1>0, <1>1, <2>2, Slots
    <3>2. {Stamped(stored, k) : k \in accepting} = {Stamped(stored, t.kind)}
      BY <3>1
    <3> QED
      BY <1>0, <2>1, <2>2, <3>1, <3>2 DEF CarryTheNewest
  <2>3. CASE t.kind \notin accepting
    BY <1>0, <1>1, <2>1, <2>3 DEF CarryTheNewest
  <2> QED
    BY <2>2, <2>3
<1>7. Carrying'
  BY <1>0, <1>3, <1>6 DEF Carrying, Sends
<1> QED
  BY <1>5, <1>7 DEF Lands

LEMMA LandsTransaction ==
  ASSUME KInv, Lands, Flying', Transaction
  PROVE  Lands'
<1>0. tx \in TxType /\ retuning' = retuning
  BY DEF KInv, AllTypes, TransactionTypes, Transaction, Begin, Closes, GivesWay, TurnsOff, FindsCurrent,
         LeavesAlone, Reads, Applies, Refuses, Fails, Commits, Finishes, TxFrame
<1>1. ASSUME tx'.at \notin {"read", "committing", "committed"}, tx'.at = "idle" => tx'.ending \notin Landed,
             UNCHANGED accepting \/ \A v \in Windows : ~Sends(v)
      PROVE  Lands'
  BY <1>0, <1>1 DEF Lands, SendsToAccepting, Reading, Committing, Carrying, Sends
<1>2. CASE Begin
  <2>1. tx'.at = "closing" \/ (tx'.at = "idle" /\ tx'.ending = "superseded")
    BY <1>0, <1>2 DEF Begin, TxType
  <2> QED
    BY <1>1, <1>2, <2>1 DEF Begin, tuningVars, Landed
<1>3. CASE Closes
  <2>1. tx'.at = "closed"
    BY <1>0, <1>3 DEF Closes, TxMoves, TxType
  <2>2. \A v \in Windows : ~Sends(v)
    BY <1>3, WindowsAndTurn DEF Closes, KInv, SenderHolds, Holds, Sends
  <2> QED
    BY <1>1, <2>1, <2>2
<1>4. CASE GivesWay
  <2>1. tx'.at = "idle" /\ tx'.ending = "superseded"
    BY <1>0, <1>4 DEF GivesWay, TxType
  <2> QED
    BY <1>1, <1>4, <2>1 DEF GivesWay, tuningVars, Landed
<1>5. CASE FindsCurrent
  <2>1. tx'.at = "current"
    BY <1>0, <1>5 DEF FindsCurrent, TxMoves, TxType
  <2> QED
    BY <1>1, <1>5, <2>1 DEF FindsCurrent, tuningVars
<1>6. ASSUME tx'.at = "committing", UNCHANGED <<stored, accepting>>, tx'.ending \in Landed => Committing'
      PROVE  Lands'
  <2>1. Committing'
    BY <1>6 DEF Committing
  <2> QED
    BY <1>0, <1>6, <2>1 DEF Lands, SendsToAccepting, Reading, Carrying
<1>7. CASE LeavesAlone \/ Refuses \/ Fails
  <2>1. tx'.at = "committing" /\ tx'.ending \notin Landed
    BY <1>0, <1>7 DEF LeavesAlone, Refuses, Fails, ToCommit, TxType, Landed
  <2> QED
    BY <1>6, <1>7, <2>1 DEF LeavesAlone, Refuses, Fails, tuningVars
<1>8. CASE TurnsOff
  <2>1. tx'.at = "committing" /\ tx'.seen = 0 /\ UNCHANGED <<stored, accepting>> /\ mode' = {} /\ output' = {}
    BY <1>0, <1>8 DEF TurnsOff, ToCommit, TxType, tuningVars
  <2>2. 0 <= stored'.generation
    BY <2>1, GenerationIsANumber DEF KInv
  <2> QED
    BY <1>6, <2>1, <2>2 DEF Committing
<1>9. CASE Reads
  <2>1. /\ tx'.at = "read" /\ tx'.seen = stored.generation /\ tx'.kind = tx.kind
        /\ tx'.payload = Newest(tx.kind) /\ UNCHANGED <<stored, accepting>>
    BY <1>0, <1>9 DEF Reads, TxType, tuningVars, Newest
  <2>2. KindOf(tx'.payload) = tx'.kind
    BY <2>1, KindOfNewest
  <2>3. Reading'
    BY <2>1, <2>2, GenerationIsANumber DEF Reading, Newest, KInv
  <2> QED
    BY <1>0, <2>1, <2>3 DEF Lands, SendsToAccepting, Committing, Carrying
<1>10. CASE Applies
  <2>1. /\ tx.at = "read" /\ tx'.at = "committing" /\ tx'.seen = tx.seen
        /\ UNCHANGED <<stored, accepting>> /\ mode' = tx.payload /\ output' = tx.payload
    BY <1>0, <1>10 DEF Applies, ToCommit, TxType, tuningVars
  <2>2. /\ KindOf(tx.payload) = tx.kind /\ tx.seen <= stored.generation
        /\ tx.seen = stored.generation => tx.payload = Newest(tx.kind)
    BY <2>1 DEF Lands, Reading
  <2>3. Committing'
    BY <2>1, <2>2 DEF Committing, Newest
  <2> QED
    BY <1>6, <2>1, <2>3
<1>11. CASE Commits
  <2>1. /\ tx.at = "committing" /\ tx'.at = "committed" /\ tx'.ending = tx.ending
        /\ UNCHANGED <<stored, mode>> /\ accepting' = KindOf(mode)
        /\ output' = IF accepting' # {} /\ stored.generation # tx.seen THEN Newest(accepting') ELSE output
    BY <1>0, <1>11 DEF Commits, Installs, TxMoves, TxType, Newest
  <2>2. \A v \in Windows : ~Sends(v)
    BY <1>11, WindowsAndTurn DEF Commits, KInv, SenderHolds, Holds, Sends
  <2>3. ASSUME tx.ending \in Landed PROVE CarryTheNewest'
    <3>1. CASE mode = {}
      <4>1. accepting' = {} /\ output' = {}
        BY <2>1, <2>3, <3>1 DEF KindOf, Lands, Committing
      <4> QED
        BY <4>1 DEF CarryTheNewest
    <3>2. CASE mode # {}
      <4>1. PICK t \in mode : TRUE
        BY <3>2
      <4>2. t.kind \in KindOf(mode)
        BY DEF KindOf
      <4>3. KindOf(mode) # {}
        BY <4>2
      <4>4. CASE tx.seen = stored.generation
        <5>1. output' = output /\ output = Newest(KindOf(mode))
          BY <2>1, <2>3, <3>2, <4>4 DEF Lands, Committing
        <5> QED
          BY <2>1, <5>1 DEF CarryTheNewest, Newest
      <4>5. CASE tx.seen # stored.generation
        <5>1. output' = Newest(accepting')
          BY <2>1, <4>3, <4>5
        <5> QED
          BY <2>1, <5>1 DEF CarryTheNewest, Newest
      <4> QED
        BY <4>4, <4>5
    <3> QED
      BY <3>1, <3>2
  <2> QED
    BY <1>0, <2>1, <2>2, <2>3 DEF Lands, SendsToAccepting, Reading, Committing, Carrying, Sends
<1>12. CASE Finishes
  <2>1. /\ tx.at = "committed" /\ tx'.at = "idle" /\ (tx'.ending \in Landed => tx.ending \in Landed)
        /\ UNCHANGED <<stored, accepting, output, waiting>>
    BY <1>0, <1>12 DEF Finishes, TxType, Landed, tuningVars, runtimeVars
  <2>2. CarryTheNewest' <=> CarryTheNewest
    BY <2>1 DEF CarryTheNewest
  <2> QED
    BY <1>0, <2>1, <2>2 DEF Lands, SendsToAccepting, Reading, Committing, Carrying
<1> QED
  BY <1>2, <1>3, <1>4, <1>5, <1>7, <1>8, <1>9, <1>10, <1>11, <1>12 DEF Transaction

LEMMA LandsNext == ASSUME KInv, Lands, [Next]_vars PROVE Lands'
<1>0. Flying' /\ retuning \in [Windows -> CallType]
  BY FlyingNext DEF KInv, Lands, AllTypes, CallTypes
<1>1. CASE UNCHANGED vars
  BY <1>0, <1>1, LandsKept DEF vars, tuningVars, runtimeVars, transactionVars
<1>2. ASSUME NEW w \in Windows, Window(w) PROVE Lands'
  <2>1. UNCHANGED <<stored, accepting, output, mode, tx, waiting>>
    BY <1>2 DEF Window, Push, Open, Seed, Deliver, tuningVars, runtimeVars, transactionVars
  <2>2. CASE \E t \in Tunings : Push(w, t) /\ inFlight[w] = {}
    <3>1. retuning[w].at = "none"
      BY <2>2 DEF Lands, Flying
    <3>2. \A v \in Windows : v # w => retuning'[v] = retuning[v]
      BY <1>0, <2>2 DEF Push, StartSend
    <3>3. retuning'[w].at = "called"
      BY <1>0, <2>2 DEF Push, StartSend
    <3> QED
      BY <1>0, <2>1, <3>1, <3>2, <3>3, LandsKept DEF Sends
  <2>3. CASE retuning' = retuning
    BY <1>0, <2>1, <2>3, LandsKept
  <2> QED
    BY <1>2, <2>2, <2>3 DEF Window, Push, Open, Seed, Deliver
<1>3. ASSUME NEW w \in Windows, RetuneCall(w) PROVE Lands'
  <2>1. CASE RetuneQueues(w) \/ RetuneCounts(w) \/ RetunePublishes(w) \/ RetuneDefers(w) \/ Answered(w)
    <3>1. UNCHANGED <<stored, accepting, output, mode, tx, waiting>>
      BY <2>1 DEF RetuneQueues, RetuneCounts, RetunePublishes, RetuneDefers, Answered, tuningVars, runtimeVars,
         transactionVars
    <3>2. ~Sends(w) /\ \A v \in Windows : v # w => retuning'[v] = retuning[v]
      BY <1>0, <2>1 DEF RetuneQueues, RetuneCounts, RetunePublishes, RetuneDefers, Answered, At, Moves,
         StartSend, Sends
    <3>3. ~Sends(w)'
      BY <1>0, <2>1 DEF RetuneQueues, RetuneCounts, RetunePublishes, RetuneDefers, Answered, Moves,
         StartSend, NoRetune, Sends, CallType
    <3> QED
      BY <1>0, <3>1, <3>2, <3>3, LandsKept
  <2> QED
    BY <1>0, <1>3, <2>1, LandsStored, LandsSent DEF RetuneCall
<1>4. ASSUME NEW kind \in AtMostOne(Kinds),
             MainChooses(kind) \/ TrayChooses(kind) \/ \E w \in Windows \ {Main} : PopupChooses(w, kind)
      PROVE  Lands'
  BY <1>0, <1>4, LandsChosen DEF MainChooses, TrayChooses, PopupChooses
<1>5. CASE Transaction
  BY <1>0, <1>5, LandsTransaction
<1>6. CASE FlushTrailing \/ SaveWakes \/ SaveWrites
  BY <1>0, <1>6, LandsKept DEF FlushTrailing, SaveWakes, SaveWrites, tuningVars, runtimeVars, transactionVars
<1> QED
  BY <1>1, <1>2, <1>3, <1>4, <1>5, <1>6 DEF Next

LEMMA LandsInit == Init => Lands
<1> SUFFICES ASSUME Init PROVE Lands
  OBVIOUS
<1>1. \A w \in Windows : retuning[w].at = "none"
  BY DEF Init, NoRetune
<1>2. tx.at = "idle" /\ CarryTheNewest
  BY DEF Init, CarryTheNewest
<1> QED
  BY <1>1, <1>2 DEF Lands, Flying, SendsToAccepting, Reading, Committing, Carrying

LEMMA LandsHolds == Spec => [](KInv /\ Lands)
<1>1. Init => Lands
  BY LandsInit
<1>2. KInv /\ Lands /\ [Next]_vars => Lands'
  BY LandsNext
<1>3. Spec => []KInv
  BY InvariantHolds DEF KInv
<1> QED
  BY <1>1, <1>2, <1>3, PTL DEF Spec

\* Once a change was applied and nothing is being sent or decided, the outputs carry the newest payload of
\* what accepts retunes, whatever was dragged while it started and whoever chose beside it (TuningCell::commit,
\* Accepting::apply).
THEOREM DragsReachTheOutputs == Spec => []DragsLand
<1>1. Lands => DragsLand
  BY DEF Lands, Carrying, DragsLand, Quiet, At, Landed
<1> QED
  BY <1>1, LandsHolds, PTL

-----------------------------------------------------------------------------
(* What the disk has *)

\* The newest choice, while nothing has gone against it, runs what was asked for, and once it runs nothing else
\* is running, shown or reachable.
Settling ==
  waiting = <<>> /\ tx.at # "idle" /\ tx.ending = "applied" =>
    /\ intent.kind = tx.kind
    /\ tx.at = "read" => tx.kind # {}
    /\ tx.at \in {"committing", "committed"} =>
         /\ KindOf(mode) = tx.kind
         /\ KindOf(cell.mode) = tx.kind
         /\ tx.kind = {} => saved.kind = {}
    /\ tx.at = "committed" => accepting = tx.kind

\* A call whose value is not on disk yet and will schedule a save.
Owes(w) ==
  \/ retuning[w].at \in {"sent", "counted", "deferred"}
  \/ retuning[w].at = "sending" /\ \E t \in retuning[w].tuning : t.kind \in accepting

SaveComes == scheduled \/ awake > 0 \/ \E w \in Windows : Owes(w)

OnDisk == \A k \in accepting : saved.look[k] = stored.look[k] /\ saved.level = stored.level

\* Afterwards what runs is what was asked for, what is shown and what is saved; its newest payload is on disk, or a
\* save that brings it there is still to come.
Kept ==
  waiting = <<>> /\ tx.at = "idle" /\ tx.ending = "applied" =>
    /\ intent.kind = accepting
    /\ KindOf(cell.mode) = accepting
    /\ saved.kind = accepting
    /\ SaveComes \/ OnDisk

\* A transaction has its ending only once it decided.
Undecided == tx.at \in {"closing", "closed", "current", "read"} => tx.ending = "applied"

Saves == Undecided /\ Settling /\ Kept

\* A step that changes neither what runs nor what was asked for, and schedules a save of any payload it stores.
LEMMA SavesKept ==
  ASSUME Saves, UNCHANGED <<accepting, mode, tx, waiting, intent, saved>>,
         KindOf(cell'.mode) = KindOf(cell.mode),
         SaveComes /\ ~SaveComes' => OnDisk',
         OnDisk => SaveComes' \/ OnDisk'
  PROVE  Saves'
<1>1. Undecided' /\ Settling'
  BY DEF Saves, Undecided, Settling
<1>2. Kept'
  BY DEF Saves, Kept
<1> QED
  BY <1>1, <1>2 DEF Saves

\* A step that leaves the payloads, the disk and the saves alone too.
LEMMA SavesAside ==
  ASSUME Saves, UNCHANGED <<accepting, mode, tx, waiting, intent, saved, stored, scheduled, awake>>,
         KindOf(cell'.mode) = KindOf(cell.mode),
         \A w \in Windows : Owes(w) => Owes(w)'
  PROVE  Saves'
<1>1. SaveComes => SaveComes'
  BY DEF SaveComes
<1>2. OnDisk' <=> OnDisk
  BY DEF OnDisk
<1> QED
  BY <1>1, <1>2, SavesKept

LEMMA SavesChosen ==
  ASSUME AllTypes, NEW from, NEW kind, Arrives(from, kind), Saves
  PROVE  Saves'
<1>1. waiting' # <<>> /\ tx' = tx
  BY DEF Arrives, AllTypes, TransactionTypes
<1> QED
  BY <1>1 DEF Saves, Undecided, Settling, Kept

LEMMA SavesStored ==
  ASSUME KInv, Saves, NEW w \in Windows, RetuneStores(w)
  PROVE  Saves'
<1>0. /\ retuning \in [Windows -> CallType]
      /\ UNCHANGED <<accepting, mode, tx, waiting, intent, saved, scheduled, awake, cell>>
      /\ retuning[w].at = "queued"
  BY DEF KInv, AllTypes, CallTypes, RetuneStores, runtimeVars, transactionVars, snapshotVars, savingVars, At
<1>1. PICK t \in retuning[w].tuning :
        /\ Remember(t)
        /\ \/ /\ accepting # {}
              /\ retuning' = [retuning EXCEPT ![w].at = "sending", ![w].to = accepting]
           \/ /\ accepting = {}
              /\ Moves(w, IF t.kind \in awaiting THEN "deferred" ELSE "answered")
  BY DEF RetuneStores
<1>2. t \in Tunings /\ retuning[w].tuning = {t}
  <2>1. retuning[w].tuning \in AtMostOne(Tunings)
    BY <1>0 DEF CallType
  <2> QED
    BY <1>1, <2>1, Slots
<1>3. \A v \in Windows : v # w => retuning'[v] = retuning[v]
  BY <1>0, <1>1 DEF Moves
<1>4. ~Owes(w)
  BY <1>0 DEF Owes
<1>5. SaveComes => SaveComes'
  BY <1>0, <1>3, <1>4 DEF SaveComes, Owes
<1>6. CASE accepting # {} /\ retuning' = [retuning EXCEPT ![w].at = "sending", ![w].to = accepting]
  <2>1. retuning'[w].at = "sending" /\ retuning'[w].tuning = {t}
    BY <1>0, <1>2, <1>6 DEF CallType
  <2>2. CASE t.kind \in accepting
    <3>1. SaveComes'
      BY <1>0, <2>1, <2>2 DEF SaveComes, Owes
    <3> QED
      BY <1>0, <3>1, SavesKept
  <2>3. CASE t.kind \notin accepting
    <3>1. /\ stored'.level = stored.level
          /\ \A k \in accepting : Stamped(stored', k) = Stamped(stored, k)
      BY <1>1, <1>2, <1>6, <2>3, Remembered DEF KInv
    <3>2. \A k \in accepting : stored'.look[k] = stored.look[k]
      BY <3>1 DEF Stamped
    <3>3. OnDisk => OnDisk'
      BY <1>0, <3>1, <3>2 DEF OnDisk
    <3> QED
      BY <1>0, <1>5, <3>3, SavesKept
  <2> QED
    BY <2>2, <2>3
<1>7. CASE accepting = {}
  <2>1. OnDisk'
    BY <1>0, <1>7 DEF OnDisk
  <2> QED
    BY <1>0, <2>1, SavesKept
<1> QED
  BY <1>1, <1>6, <1>7

LEMMA SavesSent ==
  ASSUME KInv, SendsToAccepting, Saves, NEW w \in Windows, RetuneSends(w)
  PROVE  Saves'
<1>0. /\ retuning \in [Windows -> CallType]
      /\ UNCHANGED <<accepting, mode, tx, waiting, intent, saved, scheduled, awake, stored, cell>>
      /\ retuning[w].at = "sending" /\ retuning[w].to = accepting
  BY DEF KInv, AllTypes, CallTypes, RetuneSends, tuningVars, transactionVars, snapshotVars, savingVars,
         SendsToAccepting, At
<1>1. PICK t \in retuning[w].tuning :
        \/ t.kind \in accepting /\ Moves(w, "sent")
        \/ t.kind \notin accepting /\ Moves(w, "answered")
  BY <1>0 DEF RetuneSends
<1>2. retuning[w].tuning = {t}
  <2>1. retuning[w].tuning \in AtMostOne(Tunings)
    BY <1>0 DEF CallType
  <2> QED
    BY <1>1, <2>1, Slots
<1>3. \A v \in Windows : v # w => retuning'[v] = retuning[v]
  BY <1>0, <1>1 DEF Moves
<1>4. Owes(w) => Owes(w)'
  <2>1. CASE t.kind \in accepting
    <3>1. retuning'[w].at = "sent"
      BY <1>0, <1>1, <2>1 DEF Moves, CallType
    <3> QED
      BY <3>1 DEF Owes
  <2>2. CASE t.kind \notin accepting
    BY <1>0, <1>2, <2>2 DEF Owes
  <2> QED
    BY <2>1, <2>2
<1>5. \A v \in Windows : Owes(v) => Owes(v)'
  BY <1>0, <1>3, <1>4 DEF Owes
<1> QED
  BY <1>0, <1>5, SavesAside

\* A retune replaces what is shown by a payload of the same kind.
LEMMA KindStays ==
  ASSUME NEW t, NEW level,
         PublishCoalesced(IF KindOf(cell.mode) = {t.kind} THEN {t} ELSE cell.mode, level), AllTypes
  PROVE  KindOf(cell'.mode) = KindOf(cell.mode)
<1>1. cell \in Snapshots
  BY DEF AllTypes, SnapshotTypes
<1>2. ASSUME NEW m, PublishCoalesced(m, level) PROVE cell'.mode = m
  <2>1. CASE cell' = [cell EXCEPT !.mode = m, !.level = level]
    BY <1>1, <2>1 DEF Snapshots
  <2>2. CASE cell' = [revision |-> cell.revision + 1, mode |-> m, level |-> level]
    BY <2>2
  <2> QED
    BY <1>2, <2>1, <2>2 DEF PublishCoalesced
<1>3. KindOf({t}) = {t.kind}
  BY DEF KindOf
<1> QED
  BY <1>2, <1>3

LEMMA SavesCalled ==
  ASSUME KInv, Lands, Saves, NEW w \in Windows, RetuneCall(w)
  PROVE  Saves'
<1>0. retuning \in [Windows -> CallType]
  BY DEF KInv, AllTypes, CallTypes
<1>1. CASE RetuneQueues(w) \/ RetuneCounts(w) \/ Answered(w)
  <2>1. UNCHANGED <<accepting, mode, tx, waiting, intent, saved, stored, scheduled, awake, cell>>
    BY <1>1 DEF RetuneQueues, RetuneCounts, Answered, tuningVars, runtimeVars, transactionVars, snapshotVars,
       savingVars
  <2>2. \A v \in Windows : v # w => retuning'[v] = retuning[v]
    BY <1>0, <1>1 DEF RetuneQueues, RetuneCounts, Answered, Moves, StartSend
  <2>3. Owes(w) => Owes(w)'
    <3>1. CASE RetuneCounts(w)
      <4>1. retuning'[w].at = "counted"
        BY <1>0, <3>1 DEF RetuneCounts, Moves, CallType
      <4> QED
        BY <4>1 DEF Owes
    <3>2. CASE RetuneQueues(w) \/ Answered(w)
      BY <3>2 DEF RetuneQueues, Answered, At, Owes
    <3> QED
      BY <1>1, <3>1, <3>2
  <2>4. \A v \in Windows : Owes(v) => Owes(v)'
    BY <2>1, <2>2, <2>3 DEF Owes
  <2> QED
    BY <2>1, <2>4, SavesAside
<1>2. CASE RetunePublishes(w) \/ RetuneDefers(w)
  <2>1. UNCHANGED <<accepting, mode, tx, waiting, intent, saved>> /\ scheduled'
    BY <1>2 DEF RetunePublishes, RetuneDefers, tuningVars, runtimeVars, transactionVars, Schedule
  <2>2. KindOf(cell'.mode) = KindOf(cell.mode)
    <3>1. CASE RetunePublishes(w)
      BY <3>1, KindStays DEF RetunePublishes, KInv
    <3>2. CASE RetuneDefers(w)
      BY <3>2 DEF RetuneDefers, snapshotVars
    <3> QED
      BY <1>2, <3>1, <3>2
  <2>3. SaveComes'
    BY <2>1 DEF SaveComes
  <2> QED
    BY <2>1, <2>2, <2>3, SavesKept
<1> QED
  BY <1>1, <1>2, SavesStored, SavesSent DEF RetuneCall, Lands

LEMMA SavesWritten ==
  ASSUME KInv, Saves, SaveWrites
  PROVE  Saves'
<1>0. /\ UNCHANGED <<accepting, mode, tx, waiting, intent, stored, scheduled, cell>>
      /\ saved' = IF intent.kind # {} /\ KindOf(cell.mode) = intent.kind THEN StoredOnDisk(intent.kind) ELSE saved
  BY DEF SaveWrites, tuningVars, runtimeVars, transactionVars, snapshotVars
<1>1. intent.kind = {} => saved' = saved
  BY <1>0
<1>2. Undecided' /\ Settling'
  BY <1>0, <1>1 DEF Saves, Undecided, Settling
<1>3. ASSUME waiting = <<>>, tx.at = "idle", tx.ending = "applied"
      PROVE  saved'.kind = accepting /\ OnDisk'
  <2>1. intent.kind = accepting /\ KindOf(cell.mode) = accepting /\ saved.kind = accepting
    BY <1>3 DEF Saves, Kept
  <2>2. CASE accepting = {}
    BY <1>0, <1>1, <2>1, <2>2 DEF OnDisk
  <2>3. CASE accepting # {}
    <3>1. saved' = StoredOnDisk(accepting)
      BY <1>0, <2>1, <2>3
    <3>2. \A k \in accepting : k \in Kinds
      BY Slots DEF KInv, AllTypes, TuningTypes
    <3>3. stored.look \in [Kinds -> Looks]
      BY DEF KInv, AllTypes, TuningTypes, Stored
    <3> QED
      BY <1>0, <3>1, <3>2, <3>3 DEF StoredOnDisk, OnDisk
  <2> QED
    BY <2>2, <2>3
<1>4. Kept'
  BY <1>0, <1>3 DEF Saves, Kept
<1> QED
  BY <1>2, <1>4 DEF Saves

LEMMA RunningIsShown ==
  ASSUME NEW m \in AtMostOne(Tunings), PublishRunning(m)
  PROVE  cell'.mode = m
<1>1. CASE m = {} /\ Publish({}, cell.level)
  BY <1>1 DEF Publish
<1>2. ASSUME NEW t \in m, Publish({t}, t.level) PROVE cell'.mode = m
  <2>1. m = {t}
    BY Slots
  <2> QED
    BY <1>2, <2>1 DEF Publish
<1> QED
  BY <1>1, <1>2 DEF PublishRunning

LEMMA SavesTransaction ==
  ASSUME KInv, Lands, Saves, Transaction
  PROVE  Saves'
<1>0. /\ tx \in TxType /\ intent \in [kind: AtMostOne(Kinds), saves: BOOLEAN]
      /\ KindOf({}) = {}
  BY DEF KInv, AllTypes, TransactionTypes, KindOf
<1>1. ASSUME tx'.ending # "applied", tx'.at \in {"idle", "committing"}
      PROVE  Saves'
  BY <1>1 DEF Saves, Undecided, Settling, Kept
<1>2. CASE Begin
  <2>1. CASE tx' = [tx EXCEPT !.ending = "superseded"]
    <3>1. tx'.ending # "applied" /\ tx'.at = tx.at /\ tx.at = "idle"
      BY <1>0, <1>2, <2>1 DEF Begin, TxType
    <3> QED
      BY <1>1, <3>1
  <2>2. CASE tx'.at = "closing" /\ tx'.kind = intent.kind /\ tx'.ending = "applied"
    BY <1>2, <2>2 DEF Begin, Saves, Undecided, Settling, Kept
  <2> QED
    BY <1>2, <2>1, <2>2 DEF Begin
<1>3. CASE Closes \/ FindsCurrent
  <2>1. /\ tx'.at \in {"closed", "current"} /\ tx.at \in {"closing", "closed"} /\ tx'.kind = tx.kind /\ tx'.ending = tx.ending /\ tx.at # "idle"
        /\ UNCHANGED <<waiting, intent>>
    BY <1>0, <1>3 DEF Closes, FindsCurrent, TxMoves, TxType
  <2> QED
    BY <2>1 DEF Saves, Undecided, Settling, Kept
<1>4. CASE GivesWay \/ LeavesAlone \/ Refuses \/ Fails
  <2>1. tx'.ending # "applied" /\ tx'.at \in {"idle", "committing"}
    BY <1>0, <1>4 DEF GivesWay, LeavesAlone, Refuses, Fails, ToCommit, TxType
  <2> QED
    BY <1>1, <2>1
<1>5. CASE TurnsOff
  <2>1. /\ tx.at # "idle" /\ tx'.at = "committing" /\ tx'.kind = tx.kind /\ tx.kind = {} /\ mode' = {}
        /\ UNCHANGED waiting /\ tx'.ending = (IF tx.saves THEN "applied" ELSE "unsaved")
    BY <1>0, <1>5 DEF TurnsOff, ToCommit, TxType
  <2>2. intent'.kind = intent.kind
    BY <1>0, <1>5 DEF TurnsOff
  <2>3. cell'.mode = {}
    BY <1>5, RunningIsShown, Slots DEF TurnsOff
  <2>4. tx.saves => saved'.kind = {}
    BY <1>5 DEF TurnsOff, StoredOnDisk
  <2>5. tx.ending = "applied"
    BY <1>5 DEF Saves, Undecided, TurnsOff
  <2>6. tx'.ending = "applied" => tx.saves
    BY <2>1
  <2> QED
    BY <1>0, <2>1, <2>2, <2>3, <2>4, <2>5, <2>6 DEF Saves, Undecided, Settling, Kept
<1>6. CASE Reads
  <2>1. /\ tx.at = "closed" /\ tx'.at = "read" /\ tx'.kind = tx.kind /\ tx.kind # {} /\ tx'.ending = tx.ending
        /\ UNCHANGED <<waiting, intent>>
    BY <1>0, <1>6 DEF Reads, TxType
  <2> QED
    BY <2>1 DEF Saves, Undecided, Settling, Kept
<1>7. CASE Applies
  <2>1. /\ tx.at = "read" /\ tx'.at = "committing" /\ tx'.kind = tx.kind /\ UNCHANGED <<waiting, intent>>
        /\ mode' = tx.payload
    BY <1>0, <1>7 DEF Applies, ToCommit, TxType
  <2>2. cell'.mode = tx.payload
    BY <1>0, <1>7, RunningIsShown DEF Applies, TxType
  <2>3. KindOf(tx.payload) = tx.kind
    BY <2>1 DEF Lands, Reading
  <2> QED
    BY <2>1, <2>2, <2>3 DEF Saves, Undecided, Settling, Kept
<1>8. CASE Commits
  <2>1. /\ tx.at = "committing" /\ tx'.at = "committed" /\ tx'.kind = tx.kind /\ tx'.ending = tx.ending
        /\ accepting' = KindOf(mode) /\ UNCHANGED <<waiting, intent, mode, cell, saved>>
    BY <1>0, <1>8 DEF Commits, Installs, TxMoves, TxType, snapshotVars, savingVars
  <2> QED
    BY <2>1 DEF Saves, Undecided, Settling, Kept
<1>9. CASE Finishes
  <2>1. /\ tx.at = "committed" /\ tx'.at = "idle" /\ UNCHANGED <<waiting, accepting, stored>>
    BY <1>0, <1>9 DEF Finishes, tuningVars, TxType
  <2>2. tx'.ending = "applied" => tx.ending = "applied" /\ (tx.kind = {} \/ tx.saves)
    BY <1>0, <1>9 DEF Finishes, TxType
  <2>3. intent'.kind = intent.kind
    BY <1>0, <1>9 DEF Finishes
  <2>4. cell'.mode = cell.mode
    BY <1>9 DEF Finishes, KInv, AllTypes, SnapshotTypes, Snapshots
  <2>5. ASSUME waiting = <<>>, tx'.ending = "applied" PROVE Kept'
    <3>1. /\ intent.kind = tx.kind /\ KindOf(cell.mode) = tx.kind /\ (tx.kind = {} => saved.kind = {})
          /\ accepting = tx.kind
      BY <2>1, <2>2, <2>5 DEF Saves, Settling
    <3>2. CASE tx.kind = {}
      <4>1. saved' = saved
        BY <1>9, <3>2 DEF Finishes
      <4>2. OnDisk'
        BY <2>1, <3>1, <3>2 DEF OnDisk
      <4> QED
        BY <2>1, <2>3, <2>4, <3>1, <3>2, <4>1, <4>2 DEF Kept
    <3>3. CASE tx.kind # {}
      <4>1. saved' = StoredOnDisk(tx.kind)
        BY <1>9, <2>2, <2>5, <3>3 DEF Finishes
      <4>2. OnDisk'
        BY <2>1, <4>1 DEF StoredOnDisk, OnDisk
      <4> QED
        BY <2>1, <2>3, <2>4, <3>1, <4>1, <4>2 DEF Kept, StoredOnDisk
    <3> QED
      BY <3>2, <3>3
  <2>6. Kept'
    BY <2>1, <2>5 DEF Kept
  <2> QED
    BY <2>1, <2>6 DEF Saves, Undecided, Settling
<1> QED
  BY <1>2, <1>3, <1>4, <1>5, <1>6, <1>7, <1>8, <1>9 DEF Transaction

LEMMA SavesNext ==
  ASSUME KInv, Lands, Saves, [Next]_vars
  PROVE  Saves'
<1>0. retuning \in [Windows -> CallType]
  BY DEF KInv, AllTypes, CallTypes
<1>1. CASE UNCHANGED vars
  BY <1>1, SavesAside DEF vars, tuningVars, runtimeVars, transactionVars, snapshotVars, savingVars, Owes
<1>2. ASSUME NEW w \in Windows, Window(w) PROVE Saves'
  <2>1. UNCHANGED <<accepting, mode, tx, waiting, intent, saved, stored, scheduled, awake, cell>>
    BY <1>2 DEF Window, Push, Open, Seed, Deliver, tuningVars, runtimeVars, transactionVars, snapshotVars,
       savingVars
  <2>2. CASE \E t \in Tunings : Push(w, t) /\ inFlight[w] = {}
    <3>1. retuning[w].at = "none"
      BY <2>2 DEF Lands, Flying
    <3>2. \A v \in Windows : v # w => retuning'[v] = retuning[v]
      BY <1>0, <2>2 DEF Push, StartSend
    <3> QED
      BY <2>1, <3>1, <3>2, SavesAside DEF Owes
  <2>3. CASE retuning' = retuning
    BY <2>1, <2>3, SavesAside DEF Owes
  <2> QED
    BY <1>2, <2>2, <2>3 DEF Window, Push, Open, Seed, Deliver
<1>3. ASSUME NEW w \in Windows, RetuneCall(w) PROVE Saves'
  BY <1>3, SavesCalled
<1>4. ASSUME NEW kind \in AtMostOne(Kinds),
             MainChooses(kind) \/ TrayChooses(kind) \/ \E w \in Windows \ {Main} : PopupChooses(w, kind)
      PROVE  Saves'
  BY <1>4, SavesChosen DEF MainChooses, TrayChooses, PopupChooses, KInv
<1>5. CASE Transaction
  BY <1>5, SavesTransaction
<1>6. CASE FlushTrailing
  <2>1. /\ UNCHANGED <<accepting, mode, tx, waiting, intent, saved, stored, scheduled, awake, retuning>>
        /\ cell' = [cell EXCEPT !.revision = @ + 1]
    BY <1>6 DEF FlushTrailing, tuningVars, runtimeVars, transactionVars, savingVars
  <2>2. cell'.mode = cell.mode
    BY <2>1 DEF KInv, AllTypes, SnapshotTypes, Snapshots
  <2> QED
    BY <2>1, <2>2, SavesAside DEF Owes
<1>7. CASE SaveWakes
  <2>1. /\ UNCHANGED <<accepting, mode, tx, waiting, intent, saved, cell>> /\ awake' = awake + 1 /\ awake \in Nat
    BY <1>7 DEF SaveWakes, tuningVars, runtimeVars, transactionVars, snapshotVars, KInv, AllTypes, SavingTypes
  <2>2. SaveComes'
    BY <2>1 DEF SaveComes
  <2> QED
    BY <2>1, <2>2, SavesKept
<1>8. CASE SaveWrites
  BY <1>8, SavesWritten
<1> QED
  BY <1>1, <1>2, <1>3, <1>4, <1>5, <1>6, <1>7, <1>8 DEF Next

LEMMA SavesInit == Init => Saves
<1> SUFFICES ASSUME Init PROVE Saves
  OBVIOUS
<1>1. tx.at = "idle" /\ intent.kind = accepting /\ saved.kind = accepting
  BY DEF Init
<1>2. KindOf(cell.mode) = accepting
  BY KindOfNewest DEF Init, Newest
<1>3. OnDisk
  BY DEF Init, OnDisk
<1> QED
  BY <1>1, <1>2, <1>3 DEF Saves, Undecided, Settling, Kept

\* Once a change was applied, nothing is being sent or decided and no save is to come, the disk has the kind that
\* runs and the payload the outputs carry, wherever the drags, the saves and the change fell (schedule_persist,
\* persist_running_choice, persist_lit).
THEOREM DragsReachTheDisk == Spec => []DragsAreSaved
<1>1. KInv /\ Lands /\ Saves => DragsAreSaved
  <2> SUFFICES ASSUME KInv, Lands, Saves, Quiet, tx.ending = "applied", ~scheduled, awake = 0
               PROVE  /\ accepting = saved.kind
                      /\ \A t \in output : saved.look[t.kind] = t.look /\ saved.level = t.level
    BY DEF DragsAreSaved
  <2>1. CarryTheNewest
    BY DEF Lands, Carrying, Quiet, At, Landed
  <2>2. ~SaveComes
    BY DEF SaveComes, Owes, Quiet, At, KInv, AllTypes, SavingTypes
  <2>3. accepting = saved.kind /\ OnDisk
    BY <2>2 DEF Saves, Kept, Quiet
  <2>4. ASSUME NEW t \in output PROVE saved.look[t.kind] = t.look /\ saved.level = t.level
    <3>1. PICK k \in accepting : t = Stamped(stored, k)
      BY <2>1 DEF CarryTheNewest
    <3>2. t.kind = k /\ t.look = stored.look[k] /\ t.level = stored.level
      BY <3>1 DEF Stamped
    <3> QED
      BY <2>3, <3>2 DEF OnDisk
  <2> QED
    BY <2>3, <2>4
<1>2. Init => Saves
  BY SavesInit
<1>3. KInv /\ Lands /\ Saves /\ [Next]_vars => Saves'
  BY SavesNext
<1> QED
  BY <1>1, <1>2, <1>3, LandsHolds, PTL DEF Spec

=============================================================================
