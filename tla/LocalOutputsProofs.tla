----------------------------- MODULE LocalOutputsProofs -----------------------------
(***************************************************************************)
(* What holds of the local outputs for any ports, commands, unplugs and    *)
(* reads: the window's copy is the registry once it has caught up, only a  *)
(* strip that was pulled is taken for lost, and a connect never moves what *)
(* is driven.                                                              *)
(***************************************************************************)
EXTENDS LocalOutputs, TLAPS, FiniteSetTheorems, WellFoundedInduction

\* A snapshot somebody holds is not newer than the registry, and is the registry
\* when it is of its revision.
OfTheRegistry(s) ==
  s.revision <= revision /\ (s.revision = revision => s = Snapshot)
Faithful ==
  /\ OfTheRegistry(held)
  /\ \A s \in wire : OfTheRegistry(s)
  /\ \A r \in Readers : reads[r].is = "captured" => OfTheRegistry(reads[r].snapshot)

\* Once the listener is on, the newest revision is held, announced or yet to be read.
NewestReaches ==
  listener = "on" =>
    \/ held.revision = revision
    \/ \E s \in wire : s.revision = revision
    \/ reads[Start].is = "asked"
    \/ reads[Start].is = "captured" /\ reads[Start].snapshot.revision = revision

\* What a cable that is out makes of the entry and of the connect under way.
PulledIsKnown(p) ==
  p \notin plugged =>
    /\ Claimed(p) => pulled[p]
    /\ conn[p].is # "idle" /\ conn[p].outcome = "ok" => conn[p].pulled

\* A listing misses an entry that is older than it only for a pull, or once.
Excused(p) == misses[p] = 0
ListingIsRight(p) ==
  listing.taken /\ p \notin listing.ports =>
    /\ entry[p] = "connected" /\ ~fresh[p] => pulled[p] \/ Excused(p)
    /\ disc[p].is = "letting" /\ entry[p] # "connected" /\ ~disc[p].fresh =>
         pulled[p] \/ Excused(p)
    /\ conn[p].is = "opened" /\ conn[p].outcome = "ok" /\ ~conn[p].fresh =>
         conn[p].pulled \/ Excused(p)

\* No two ports share a place in the connect order, kept or set aside.
Places(p) == {at[p]} \cup (IF disc[p].is = "letting" THEN {disc[p].at} ELSE {})
Ordered ==
  /\ \A p \in Ports : Places(p) \subseteq 0..nextConnect
  /\ \A p \in Connected(entry) : at[p] # 0
  /\ \A p \in Ports : disc[p].is = "letting" => disc[p].at # 0
  /\ \A p, q \in Ports : p # q => Places(p) \cap Places(q) \subseteq {0}

IInv == /\ TypeOK /\ Faithful /\ NewestReaches /\ Ordered
        /\ \A p \in Ports : PulledIsKnown(p) /\ ListingIsRight(p)

-----------------------------------------------------------------------------
(* The connect order *)

\* A set of naturals has a least one.
LEMMA LeastExists ==
  ASSUME NEW T, T \subseteq Nat, T # {}
  PROVE  \E n \in T : \A k \in T : n <= k
<1> DEFINE R == OpToRel(<, Nat)
<1>1. IsWellFoundedOn(R, Nat)
  BY NatLessThanWellFounded
<1> HIDE DEF R
<1>2. PICK n \in T : \A k \in T : ~ (<<k, n>> \in R)
  BY <1>1, WFMin
<1>3. \A k \in T : k < n => <<k, n>> \in R
  BY DEF R, OpToRel
<1>4. \A k \in T : k \in Nat /\ n \in Nat
  OBVIOUS
<1>5. \A k \in T : ~ (k < n)
  BY <1>2, <1>3
<1> QED
  BY <1>4, <1>5

\* connected_in: what is driven is connected, and nothing connected before it is.
LEMMA EarliestIsFirst ==
  ASSUME NEW e \in [Ports -> Entries], NEW a \in [Ports -> Nat], Connected(e) # {}
  PROVE  /\ Earliest(e, a) \in Connected(e)
         /\ \A q \in Connected(e) : a[Earliest(e, a)] <= a[q]
<1> DEFINE T == {a[p] : p \in Connected(e)}
<1>1. T \subseteq Nat /\ T # {}
  BY DEF Connected
<1>2. PICK n \in T : \A k \in T : n <= k
  BY <1>1, LeastExists
<1>3. \E p \in Connected(e) : \A q \in Connected(e) : a[p] <= a[q]
  BY <1>2
<1> QED
  BY <1>3 DEF Earliest

LEMMA EarliestType ==
  ASSUME NEW e \in [Ports -> Entries], NEW a \in [Ports -> Nat]
  PROVE  Earliest(e, a) \in Ports \cup {None}
<1>1. CASE Connected(e) = {}
  BY <1>1 DEF Earliest
<1>2. CASE Connected(e) # {}
  BY <1>2, EarliestIsFirst DEF Connected
<1> QED
  BY <1>1, <1>2

LEMMA SnapshotType ==
  ASSUME NEW r \in Nat, NEW e \in [Ports -> Entries], NEW a \in [Ports -> Nat]
  PROVE  SnapshotOf(r, e, a) \in Snapshots
  BY EarliestType DEF SnapshotOf, Snapshots

-----------------------------------------------------------------------------
(* Types *)

ConnType == [is : {"idle", "settling", "opened"}, outcome : Outcomes,
             fresh : BOOLEAN, pulled : BOOLEAN]
DiscType == [is : {"idle", "letting"}, at : Nat, fresh : BOOLEAN]

\* Of the registry's write, whoever makes it.
LEMMA WriteType ==
  ASSUME TypeOK, NEW e \in [Ports -> Entries], NEW a \in [Ports -> Nat], Write(e, a)
  PROVE  /\ entry' \in [Ports -> Entries] /\ at' \in [Ports -> Nat] /\ revision' \in Nat
         /\ wire' \subseteq Snapshots
<1>1. SnapshotOf(revision + 1, e, a) \in Snapshots
  BY SnapshotType DEF TypeOK
<1> QED
  BY <1>1 DEF Write, Announced, TypeOK

LEMMA IngestType ==
  ASSUME held \in Snapshots, NEW s \in Snapshots, Ingest(s)
  PROVE  held' \in Snapshots
  BY DEF Ingest

LEMMA ConnFields ==
  ASSUME NEW c \in ConnType, NEW b \in BOOLEAN
  PROVE  /\ [c EXCEPT !.pulled = b] \in ConnType
         /\ [c EXCEPT !.fresh = b] \in ConnType
         /\ [c EXCEPT !.is = "opened", !.fresh = b] \in ConnType
  BY DEF ConnType

LEMMA DiscFields ==
  ASSUME NEW d \in DiscType
  PROVE  [d EXCEPT !.fresh = FALSE] \in DiscType
  BY DEF DiscType

LEMMA TypeInit == Init => TypeOK
  BY StartReads, BoundsAreNumbers
  DEF Init, TypeOK, Entries, Outcomes, NoConn, Attempt, NoDisc, NoRead, NoListing, NoBaseline,
      NoSnapshot, Snapshots, MISSES_BEFORE_LOST

LEMMA TypeStep == TypeOK /\ [Next]_vars => TypeOK'
<1> SUFFICES ASSUME TypeOK, [Next]_vars PROVE TypeOK'
  OBVIOUS
<1> USE DEF TypeOK, registry, watch, window
<1> USE BoundsAreNumbers
<1>1. ASSUME NEW p \in Ports, Unplug(p) PROVE TypeOK'
  <2>1. /\ conn' = [conn EXCEPT ![p] = [conn[p] EXCEPT !.pulled = (conn[p].is # "idle")]]
        /\ pulled' = [pulled EXCEPT ![p] = Claimed(p)]
    BY <1>1 DEF Unplug
  <2>2. conn' \in [Ports -> ConnType] /\ pulled' \in [Ports -> BOOLEAN]
    <3>1. conn[p] \in ConnType /\ (conn[p].is # "idle") \in BOOLEAN /\ Claimed(p) \in BOOLEAN
      BY DEF ConnType, Claimed
    <3>2. [conn[p] EXCEPT !.pulled = (conn[p].is # "idle")] \in ConnType
      BY <3>1, ConnFields
    <3> QED
      BY <2>1, <3>1, <3>2 DEF ConnType
  <2> QED
    BY <1>1, <2>2 DEF Unplug, Happens, ConnType
<1>2. CASE \E p \in Ports : Plug(p)
  BY <1>2 DEF Plug, Happens
<1>3. ASSUME NEW p \in Ports, Connect(p) PROVE TypeOK'
  <2>1. conn' \in [Ports -> ConnType]
    <3>1. /\ Attempt("settling", "ok") \in ConnType
          /\ Attempt("opened", "absent") \in ConnType
          /\ Attempt("opened", "failed") \in ConnType
      BY DEF ConnType, Outcomes, Attempt
    <3>2. conn \in [Ports -> ConnType]
      BY DEF ConnType
    <3> QED
      BY <1>3, <3>1, <3>2 DEF Connect
  <2>2. events' \in 0..MaxEvents /\ calls' \in 0..MaxCalls
    BY <1>3 DEF Connect, Happens, Calls
  <2> QED
    BY <1>3, <2>1, <2>2 DEF Connect, ConnType
<1>4. ASSUME NEW p \in Ports, Settled(p) PROVE TypeOK'
  <2>1. conn' = [conn EXCEPT ![p] = [conn[p] EXCEPT !.is = "opened", !.fresh = TRUE]]
    BY <1>4 DEF Settled
  <2>2. conn' \in [Ports -> ConnType]
    <3>1. conn[p] \in ConnType /\ conn \in [Ports -> ConnType]
      BY DEF ConnType
    <3>2. [conn[p] EXCEPT !.is = "opened", !.fresh = TRUE] \in ConnType
      BY <3>1, ConnFields
    <3> QED
      BY <2>1, <3>1, <3>2
  <2> QED
    BY <1>4, <2>2 DEF Settled, ConnType
<1>5. ASSUME NEW p \in Ports, Record(p) PROVE TypeOK'
  <2>1. CASE conn[p].outcome = "ok"
    <3>1. [entry EXCEPT ![p] = "connected"] \in [Ports -> Entries]
      BY DEF Entries
    <3>2. [at EXCEPT ![p] = nextConnect + 1] \in [Ports -> Nat] /\ nextConnect' \in Nat
      BY <1>5, <2>1 DEF Record, SerialConnected
    <3>3. /\ entry' \in [Ports -> Entries] /\ at' \in [Ports -> Nat] /\ revision' \in Nat
          /\ wire' \subseteq Snapshots
      BY <1>5, <2>1, <3>1, <3>2, WriteType DEF Record, SerialConnected
    <3> QED
      BY <1>5, <2>1, <3>2, <3>3 DEF Record, NoConn, Attempt, Outcomes
  <2>2. CASE conn[p].outcome # "ok"
    <3>1. CASE conn[p].outcome = "absent" \/ entry[p] = "connected"
      <4>1. Write(entry, at)
        BY <1>5, <2>2, <3>1 DEF Record, SerialFailed
      <4>2. /\ entry' \in [Ports -> Entries] /\ at' \in [Ports -> Nat] /\ revision' \in Nat
            /\ wire' \subseteq Snapshots
        BY <4>1, WriteType
      <4> QED
        BY <1>5, <2>2, <4>2 DEF Record, SerialFailed, NoConn, Attempt, Outcomes
    <3>2. CASE ~(conn[p].outcome = "absent" \/ entry[p] = "connected")
      <4>1. conn[p].outcome = "failed"
        BY <2>2, <3>2 DEF Outcomes
      <4>2. [entry EXCEPT ![p] = "failed"] \in [Ports -> Entries]
        BY DEF Entries
      <4>3. Write([entry EXCEPT ![p] = "failed"], at)
        BY <1>5, <2>2, <3>2, <4>1 DEF Record, SerialFailed
      <4>4. /\ entry' \in [Ports -> Entries] /\ at' \in [Ports -> Nat] /\ revision' \in Nat
            /\ wire' \subseteq Snapshots
        BY <4>2, <4>3, WriteType
      <4> QED
        BY <1>5, <2>2, <4>4 DEF Record, SerialFailed, NoConn, Attempt, Outcomes
    <3> QED
      BY <3>1, <3>2
  <2> QED
    BY <2>1, <2>2
<1>6. ASSUME NEW p \in Ports, Disconnect(p) PROVE TypeOK'
  <2>1. [entry EXCEPT ![p] = "released"] \in [Ports -> Entries]
    BY DEF Entries
  <2>2. /\ entry' \in [Ports -> Entries] /\ at' \in [Ports -> Nat] /\ revision' \in Nat
        /\ wire' \subseteq Snapshots
    BY <1>6, <2>1, WriteType DEF Disconnect
  <2>3. disc' \in [Ports -> DiscType] /\ fresh' \in [Ports -> BOOLEAN] /\ calls' \in 0..MaxCalls
    BY <1>6 DEF Disconnect, Calls, DiscType
  <2> QED
    BY <1>6, <2>2, <2>3 DEF Disconnect, DiscType
<1>7. CASE \E p \in Ports : LetGo(p)
  BY <1>7 DEF LetGo, NoDisc
<1>8. ASSUME NEW p \in Ports, RestoreSerial(p) PROVE TypeOK'
  <2>1. CASE entry[p] = "connected"
    BY <1>8, <2>1 DEF RestoreSerial, Happens, NoDisc
  <2>2. CASE entry[p] # "connected"
    <3>1. /\ [entry EXCEPT ![p] = "connected"] \in [Ports -> Entries]
          /\ [at EXCEPT ![p] = disc[p].at] \in [Ports -> Nat]
      BY DEF Entries
    <3>2. /\ entry' \in [Ports -> Entries] /\ at' \in [Ports -> Nat] /\ revision' \in Nat
          /\ wire' \subseteq Snapshots
      BY <1>8, <2>2, <3>1, WriteType DEF RestoreSerial
    <3>3. /\ disc' \in [Ports -> DiscType] /\ fresh' \in [Ports -> BOOLEAN]
          /\ events' \in 0..MaxEvents
      BY <1>8, <2>2 DEF RestoreSerial, Happens, NoDisc, DiscType
    <3> QED
      BY <1>8, <3>2, <3>3 DEF RestoreSerial, DiscType
  <2> QED
    BY <2>1, <2>2
<1>9. ASSUME NEW ports \in SUBSET Ports, TakeListing(ports), events' \in 0..MaxEvents
      PROVE  TypeOK'
  <2>1. /\ conn' \in [Ports -> ConnType] /\ disc' \in [Ports -> DiscType]
        /\ fresh' \in [Ports -> BOOLEAN]
    <3>1. \A p \in Ports : [conn[p] EXCEPT !.fresh = FALSE] \in ConnType
      <4>1. \A p \in Ports : conn[p] \in ConnType
        BY DEF ConnType
      <4> QED
        BY <4>1, ConnFields
    <3>2. \A p \in Ports : [disc[p] EXCEPT !.fresh = FALSE] \in DiscType
      <4>1. \A p \in Ports : disc[p] \in DiscType
        BY DEF DiscType
      <4> QED
        BY <4>1, DiscFields
    <3> QED
      BY <1>9, <3>1, <3>2 DEF TakeListing, Ages, AgesUnderWay
  <2> QED
    BY <1>9, <2>1 DEF TakeListing, ConnType, DiscType
<1>10. CASE List
  BY <1>9, <1>10 DEF List
<1>11. CASE \E p \in Ports : ListBadly(p)
  BY <1>9, <1>11 DEF ListBadly, Happens
<1>12. CASE Baseline
  BY <1>12 DEF Baseline, NoListing
<1>13. CASE Poll
  <2>1. misses' \in [Ports -> 0..MISSES_BEFORE_LOST + 1]
    BY <1>13 DEF Poll, Missed, Capped, MISSES_BEFORE_LOST
  <2>2. Cleared \subseteq Ports /\ Cardinality(Cleared) \in Nat
    <3>1. Cleared \subseteq Ports
      BY DEF Cleared, Connected
    <3> QED
      BY <3>1, PortsAreFinite, FS_Subset, FS_CardinalityType
  <2>3. entry' \in [Ports -> Entries] /\ revision' \in Nat /\ at' \in [Ports -> Nat]
    BY <1>13, <2>2 DEF Poll, Entries
  <2>4. SnapshotOf(revision', entry', at) \in Snapshots
    BY <2>3, SnapshotType
  <2>5. wire' \subseteq Snapshots
    BY <1>13, <2>4 DEF Poll, Announced
  <2>6. present' \in [known : BOOLEAN, ports : SUBSET Ports] /\ listing' \in [taken : BOOLEAN, ports : SUBSET Ports]
    BY <1>13 DEF Poll, NoListing, Lost, Watched
  <2> QED
    BY <1>13, <2>1, <2>3, <2>5, <2>6 DEF Poll
<1>14. CASE Listening
  BY <1>14, StartReads DEF Listening
<1>15. CASE \E r \in Readers : Refresh(r)
  BY <1>15 DEF Refresh, Calls
<1>16. CASE \E r \in Readers : Capture(r)
  <2>1. Snapshot \in Snapshots
    BY SnapshotType DEF Snapshot
  <2> QED
    BY <1>16, <2>1 DEF Capture
<1>17. ASSUME NEW r \in Readers, ReadArrives(r) PROVE TypeOK'
  <2>1. held' \in Snapshots
    BY <1>17, IngestType DEF ReadArrives
  <2>2. NoSnapshot \in Snapshots
    BY DEF NoSnapshot, Snapshots, Entries
  <2> QED
    BY <1>17, <2>1, <2>2 DEF ReadArrives, NoRead
<1>18. ASSUME NEW s \in wire, Arrives(s) PROVE TypeOK'
  <2>1. held' \in Snapshots
    BY <1>18, IngestType DEF Arrives
  <2> QED
    BY <1>18, <2>1 DEF Arrives
<1>19. CASE UNCHANGED vars
  BY <1>19 DEF vars
<1> QED
  BY <1>1, <1>2, <1>3, <1>4, <1>5, <1>6, <1>7, <1>8, <1>10, <1>11, <1>12, <1>13,
     <1>14, <1>15, <1>16, <1>17, <1>18, <1>19
  DEF Next, Hardware, Commands, Watcher, Window

\* The types hold of the whole specification.
THEOREM TypesHold == Spec => []TypeOK
  BY TypeInit, TypeStep, PTL DEF Spec

-----------------------------------------------------------------------------
(* The window's copy *)

\* A step that moves the registry numbers it anew, announces it if anybody listens,
\* and touches nothing else of the window.
RegistryMoves ==
  /\ revision < revision' /\ revision' \in Nat
  /\ wire' = IF listener = "on" THEN wire \cup {Snapshot'} ELSE wire
  /\ UNCHANGED <<listener, reads, held>>
RegistryStays == UNCHANGED <<entry, at, revision>>

LEMMA WriteMoves ==
  ASSUME TypeOK, NEW e, NEW a, Write(e, a), UNCHANGED <<listener, reads, held>>
  PROVE  RegistryMoves
  BY DEF Write, Announced, RegistryMoves, Snapshot, TypeOK

LEMMA PollMoves ==
  ASSUME TypeOK, Poll
  PROVE  RegistryMoves \/ (RegistryStays /\ UNCHANGED window)
<1>1. Cleared \subseteq Ports /\ IsFiniteSet(Cleared)
  <2>1. Cleared \subseteq Ports
    BY DEF Cleared, Connected
  <2> QED
    BY <2>1, PortsAreFinite, FS_Subset
<1>2. CASE Cleared = {}
  <2>1. revision' = revision
    BY <1>2, FS_EmptySet DEF Poll, TypeOK
  <2>2. entry' = entry
    BY <1>2 DEF Poll, TypeOK
  <2> QED
    BY <1>2, <2>1, <2>2 DEF Poll, RegistryStays, window
<1>3. CASE Cleared # {}
  <2>1. Cardinality(Cleared) \in Nat /\ Cardinality(Cleared) # 0
    BY <1>1, <1>3, FS_CardinalityType, FS_EmptySet
  <2>2. revision < revision' /\ revision' \in Nat
    BY <2>1 DEF Poll, TypeOK
  <2>3. Snapshot' = SnapshotOf(revision', entry', at)
    BY DEF Snapshot, Poll
  <2> QED
    BY <1>3, <2>2, <2>3 DEF Poll, Announced, RegistryMoves
<1> QED
  BY <1>2, <1>3

\* What each step does to the registry and to the window.
LEMMA StepMoves ==
  ASSUME TypeOK, [Next]_vars
  PROVE  \/ RegistryMoves
         \/ /\ RegistryStays
            /\ \/ UNCHANGED window
               \/ Listening
               \/ \E r \in Readers : Refresh(r) \/ Capture(r) \/ ReadArrives(r)
               \/ \E s \in wire : Arrives(s)
<1> USE DEF RegistryStays, registry, window
<1>1. CASE Hardware
  BY <1>1 DEF Hardware, Unplug, Plug
<1>2. ASSUME NEW p \in Ports, Connect(p) \/ Settled(p) \/ LetGo(p)
      PROVE  RegistryStays /\ UNCHANGED window
  BY <1>2 DEF Connect, Settled, LetGo
<1>3. ASSUME NEW p \in Ports, Record(p) PROVE RegistryMoves
  BY <1>3, WriteMoves DEF Record, SerialConnected, SerialFailed
<1>4. ASSUME NEW p \in Ports, Disconnect(p) PROVE RegistryMoves
  BY <1>4, WriteMoves DEF Disconnect
<1>5. ASSUME NEW p \in Ports, RestoreSerial(p)
      PROVE  RegistryMoves \/ (RegistryStays /\ UNCHANGED window)
  BY <1>5, WriteMoves DEF RestoreSerial
<1>6. CASE List \/ Baseline \/ \E p \in Ports : ListBadly(p)
  BY <1>6 DEF List, Baseline, ListBadly, TakeListing
<1>7. CASE Poll
  BY <1>7, PollMoves
<1>8. CASE Window
  BY <1>8 DEF Window, Listening, Refresh, Capture, ReadArrives, Arrives
<1>9. CASE UNCHANGED vars
  BY <1>9 DEF vars
<1> QED
  BY <1>1, <1>2, <1>3, <1>4, <1>5, <1>6, <1>7, <1>8, <1>9 DEF Next, Commands, Watcher

LEMMA FaithfulStep ==
  ASSUME TypeOK, Faithful, [Next]_vars
  PROVE  Faithful'
<1>1. CASE RegistryMoves
  <2>1. Snapshot'.revision = revision'
    BY DEF Snapshot, SnapshotOf
  <2>2. ASSUME NEW s, s.revision \in Nat, OfTheRegistry(s)
        PROVE  s.revision <= revision' /\ s.revision # revision'
    BY <1>1, <2>2 DEF OfTheRegistry, RegistryMoves, TypeOK
  <2>3. /\ held.revision \in Nat /\ \A s \in wire : s.revision \in Nat
        /\ \A r \in Readers : reads[r].snapshot.revision \in Nat
    BY DEF TypeOK, Snapshots
  <2> QED
    BY <1>1, <2>1, <2>2, <2>3 DEF Faithful, OfTheRegistry, RegistryMoves, TypeOK
<1>2. ASSUME RegistryStays PROVE Snapshot' = Snapshot /\ revision' = revision
  BY <1>2 DEF RegistryStays, Snapshot
<1>3. CASE RegistryStays /\ UNCHANGED window
  BY <1>2, <1>3 DEF Faithful, OfTheRegistry, window
<1>4. CASE RegistryStays /\ (Listening \/ \E r \in Readers : Refresh(r))
  <2>1. ASSUME NEW r \in Readers, reads'[r].is = "captured"
        PROVE  reads'[r] = reads[r]
    BY <1>4, <2>1 DEF Listening, Refresh, TypeOK
  <2>2. wire' = wire /\ held' = held
    BY <1>4 DEF Listening, Refresh
  <2> QED
    BY <1>2, <1>4, <2>1, <2>2 DEF Faithful, OfTheRegistry
<1>5. ASSUME NEW r \in Readers, Capture(r), RegistryStays PROVE Faithful'
  <2>1. OfTheRegistry(Snapshot)
    BY DEF OfTheRegistry, Snapshot, SnapshotOf, TypeOK
  <2> QED
    BY <1>2, <1>5, <2>1 DEF Faithful, OfTheRegistry, Capture, TypeOK
<1>6. ASSUME NEW r \in Readers, ReadArrives(r), RegistryStays PROVE Faithful'
  BY <1>2, <1>6 DEF Faithful, OfTheRegistry, ReadArrives, Ingest, TypeOK, NoRead
<1>7. ASSUME NEW s \in wire, Arrives(s), RegistryStays PROVE Faithful'
  BY <1>2, <1>7 DEF Faithful, OfTheRegistry, Arrives, Ingest
<1> QED
  BY <1>1, <1>3, <1>4, <1>5, <1>6, <1>7, StepMoves

LEMMA NewestStep ==
  ASSUME TypeOK, Faithful, NewestReaches, [Next]_vars
  PROVE  NewestReaches'
<1> SUFFICES ASSUME listener' = "on"
             PROVE  \/ held'.revision = revision'
                    \/ \E s \in wire' : s.revision = revision'
                    \/ reads'[Start].is = "asked"
                    \/ reads'[Start].is = "captured" /\ reads'[Start].snapshot.revision = revision'
  BY DEF NewestReaches
<1>1. CASE RegistryMoves
  <2>1. Snapshot'.revision = revision'
    BY DEF Snapshot, SnapshotOf
  <2>2. Snapshot' \in wire'
    BY <1>1 DEF RegistryMoves
  <2> QED
    BY <2>1, <2>2
<1>2. CASE RegistryStays /\ UNCHANGED window
  BY <1>2 DEF NewestReaches, RegistryStays, window
<1>3. CASE RegistryStays /\ Listening
  BY <1>3, StartReads DEF Listening, TypeOK
<1>4. ASSUME NEW r \in Readers, Refresh(r), RegistryStays
      PROVE  NewestReaches'
  BY <1>4, StartReads DEF NewestReaches, RegistryStays, Refresh, TypeOK
<1>5. ASSUME NEW r \in Readers, Capture(r), RegistryStays
      PROVE  NewestReaches'
  BY <1>5, StartReads DEF NewestReaches, RegistryStays, Capture, TypeOK, Snapshot, SnapshotOf
<1>6. ASSUME NEW s, s.revision \in Nat, s.revision <= revision, Ingest(s), RegistryStays,
             s.revision = revision \/ held.revision = revision
      PROVE  held'.revision = revision'
  <2>1. held.revision \in Nat /\ held.revision <= revision /\ revision \in Nat
    BY DEF Faithful, OfTheRegistry, TypeOK, Snapshots
  <2>2. held' = IF s.revision > held.revision THEN s ELSE held
    BY <1>6 DEF Ingest
  <2>3. revision' = revision
    BY <1>6 DEF RegistryStays
  <2> QED
    BY <1>6, <2>1, <2>2, <2>3
<1>7. ASSUME NEW s, s.revision \in Nat, s.revision <= revision, Ingest(s), RegistryStays,
             held.revision = revision
      PROVE  held'.revision = revision'
  BY <1>6, <1>7
<1>8. ASSUME NEW r \in Readers, ReadArrives(r), RegistryStays
      PROVE  NewestReaches'
  <2>1. reads[r].snapshot.revision \in Nat /\ reads[r].snapshot.revision <= revision
    BY <1>8 DEF ReadArrives, Faithful, OfTheRegistry, TypeOK, Snapshots
  <2>2. CASE held.revision = revision
    BY <1>7, <1>8, <2>1, <2>2 DEF ReadArrives, NewestReaches
  <2>3. CASE \E s \in wire : s.revision = revision
    BY <1>8, <2>3 DEF ReadArrives, NewestReaches, RegistryStays
  <2>4. CASE r # Start
    BY <1>8, <2>2, <2>3, <2>4, StartReads DEF ReadArrives, NewestReaches, RegistryStays, TypeOK
  <2>5. CASE r = Start /\ reads[Start].snapshot.revision = revision
    BY <1>6, <1>8, <2>1, <2>5 DEF ReadArrives, NewestReaches
  <2> QED
    BY <1>8, <2>2, <2>3, <2>4, <2>5 DEF ReadArrives, NewestReaches
<1>9. ASSUME NEW s \in wire, Arrives(s), RegistryStays
      PROVE  NewestReaches'
  <2>1. s.revision \in Nat /\ s.revision <= revision
    BY DEF Faithful, OfTheRegistry, TypeOK, Snapshots
  <2>2. CASE s.revision = revision \/ held.revision = revision
    BY <1>6, <1>9, <2>1, <2>2 DEF Arrives, NewestReaches
  <2>3. CASE ~(s.revision = revision \/ held.revision = revision)
    BY <1>9, <2>3 DEF Arrives, NewestReaches, RegistryStays
  <2> QED
    BY <2>2, <2>3
<1> QED
  BY <1>1, <1>2, <1>3, <1>4, <1>5, <1>8, <1>9, StepMoves DEF NewestReaches

\* In whatever order announcements and reads arrive, the window that has taken them
\* all holds the registry.
THEOREM StoreEndsRight == Spec => []StoreCatchesUp
<1> DEFINE I == TypeOK /\ Faithful /\ NewestReaches
<1>1. Init => I
  <2>1. Init => Faithful /\ NewestReaches
    BY DEF Init, Faithful, NewestReaches, OfTheRegistry, NoSnapshot, NoRead
  <2> QED
    BY <2>1, TypeInit
<1>2. I /\ [Next]_vars => I'
  BY TypeStep, FaithfulStep, NewestStep
<1>3. I => StoreCatchesUp
  BY StartReads DEF Faithful, NewestReaches, OfTheRegistry, StoreCatchesUp, CaughtUp, TypeOK
<1> QED
  BY <1>1, <1>2, <1>3, PTL DEF Spec

-----------------------------------------------------------------------------
(* What is taken for lost *)

\* The actions that touch no entry, connect, disconnect, cable or listing.
LEMMA WindowIsApart ==
  ASSUME Window \/ UNCHANGED vars
  PROVE  UNCHANGED <<plugged, entry, at, nextConnect, fresh, pulled, conn, disc, present, misses, listing>>
  BY DEF Window, Listening, Refresh, Capture, ReadArrives, Arrives, registry, watch, vars

\* A refused connect moves no entry from or to connected, and loses none.
LEMMA FailedKeeps ==
  ASSUME TypeOK, NEW p \in Ports, Record(p), conn[p].outcome # "ok"
  PROVE  /\ \A q \in Ports :
              /\ (entry'[q] = "connected") <=> (entry[q] = "connected")
              /\ entry'[q] = "lost" => entry[q] = "lost"
         /\ UNCHANGED <<fresh, pulled>>
         /\ conn' = [conn EXCEPT ![p] = NoConn]
<1>1. CASE conn[p].outcome = "absent" \/ entry[p] = "connected"
  <2>1. Write(entry, at) /\ UNCHANGED <<fresh, pulled>> /\ conn' = [conn EXCEPT ![p] = NoConn]
    BY <1>1 DEF Record, SerialFailed
  <2> QED
    BY <2>1 DEF Write
<1>2. CASE ~(conn[p].outcome = "absent" \/ entry[p] = "connected")
  <2>1. conn[p].outcome = "failed"
    BY <1>2 DEF TypeOK, Outcomes
  <2>2. entry' = [entry EXCEPT ![p] = "failed"] /\ entry \in [Ports -> Entries]
    BY <1>2, <2>1 DEF Record, SerialFailed, Write, TypeOK
  <2>3. UNCHANGED <<fresh, pulled>> /\ conn' = [conn EXCEPT ![p] = NoConn]
    BY <1>2 DEF Record
  <2>4. \A q \in Ports : entry'[q] = IF q = p THEN "failed" ELSE entry[q]
    BY <2>2
  <2> QED
    BY <1>2, <2>3, <2>4
<1> QED
  BY <1>1, <1>2

LEMMA PulledStep ==
  ASSUME TypeOK, [Next]_vars, NEW q \in Ports, PulledIsKnown(q)
  PROVE  PulledIsKnown(q)'
<1> USE DEF PulledIsKnown, Claimed
<1>1. ASSUME NEW p \in Ports, Unplug(p) PROVE PulledIsKnown(q)'
  <2>1. CASE p = q
    <3>1. /\ pulled'[q] = Claimed(q) /\ conn'[q].pulled = (conn[q].is # "idle")
          /\ conn'[q].is = conn[q].is /\ entry' = entry /\ disc' = disc
      BY <1>1, <2>1 DEF Unplug, TypeOK
    <3> QED
      BY <3>1
  <2>2. CASE p # q
    BY <1>1, <2>2 DEF Unplug, TypeOK
  <2> QED
    BY <2>1, <2>2
<1>2. ASSUME NEW p \in Ports, Plug(p) PROVE PulledIsKnown(q)'
  BY <1>2 DEF Plug, TypeOK, registry
<1>3. ASSUME NEW p \in Ports, Connect(p) PROVE PulledIsKnown(q)'
  <2>1. \/ conn'[q] = conn[q]
        \/ conn'[q].outcome # "ok"
        \/ q \in plugged
    BY <1>3 DEF Connect, TypeOK, Attempt
  <2> QED
    BY <1>3, <2>1 DEF Connect, registry
<1>4. ASSUME NEW p \in Ports, Settled(p) PROVE PulledIsKnown(q)'
  <2>1. conn'[q].outcome = conn[q].outcome /\ conn'[q].pulled = conn[q].pulled
        /\ (conn[q].is = "idle" => conn'[q].is = "idle")
    BY <1>4 DEF Settled, TypeOK
  <2> QED
    BY <1>4, <2>1 DEF Settled, registry
<1>5. ASSUME NEW p \in Ports, Record(p) PROVE PulledIsKnown(q)'
  <2>1. CASE conn[p].outcome = "ok"
    BY <1>5, <2>1 DEF Record, SerialConnected, Write, TypeOK, NoConn, Attempt
  <2>2. CASE conn[p].outcome # "ok"
    <3>1. /\ (entry'[q] = "connected") <=> (entry[q] = "connected")
          /\ pulled' = pulled /\ plugged' = plugged /\ disc' = disc
      BY <1>5, <2>2, FailedKeeps DEF Record
    <3>2. conn'[q] = conn[q] \/ conn'[q].is = "idle"
      BY <1>5, <2>2, FailedKeeps DEF TypeOK, NoConn, Attempt
    <3> QED
      BY <3>1, <3>2
  <2> QED
    BY <2>1, <2>2
<1>6. ASSUME NEW p \in Ports, Disconnect(p) PROVE PulledIsKnown(q)'
  BY <1>6 DEF Disconnect, Write, TypeOK
<1>7. ASSUME NEW p \in Ports, LetGo(p) PROVE PulledIsKnown(q)'
  BY <1>7 DEF LetGo, TypeOK, registry, NoDisc
<1>8. ASSUME NEW p \in Ports, RestoreSerial(p) PROVE PulledIsKnown(q)'
  BY <1>8 DEF RestoreSerial, Write, TypeOK, NoDisc
<1>9. ASSUME NEW ports, TakeListing(ports) PROVE PulledIsKnown(q)'
  <2>1. /\ conn'[q].is = conn[q].is /\ conn'[q].outcome = conn[q].outcome
        /\ conn'[q].pulled = conn[q].pulled /\ disc'[q].is = disc[q].is
    BY <1>9 DEF TakeListing, Ages, AgesUnderWay, TypeOK
  <2> QED
    BY <1>9, <2>1 DEF TakeListing
<1>10. CASE Baseline
  BY <1>10 DEF Baseline, registry
<1>11. CASE Poll
  BY <1>11 DEF Poll, TypeOK
<1>12. CASE Window \/ UNCHANGED vars
  BY <1>12, WindowIsApart
<1> QED
  BY <1>1, <1>2, <1>3, <1>4, <1>5, <1>6, <1>7, <1>8, <1>9, <1>10, <1>11, <1>12
  DEF Next, Hardware, Commands, Watcher, List, ListBadly

LEMMA ListingStep ==
  ASSUME TypeOK, [Next]_vars, NEW q \in Ports, PulledIsKnown(q), ListingIsRight(q)
  PROVE  ListingIsRight(q)'
<1> USE DEF ListingIsRight, Excused
<1>1. ASSUME NEW p \in Ports, Unplug(p) PROVE ListingIsRight(q)'
  <2>1. CASE p = q
    <3>1. /\ pulled'[q] = Claimed(q) /\ conn'[q].pulled = (conn[q].is # "idle")
          /\ conn'[q].is = conn[q].is
      BY <1>1, <2>1 DEF Unplug, TypeOK
    <3> QED
      BY <1>1, <3>1 DEF Unplug, watch, Claimed
  <2>2. CASE p # q
    <3>1. pulled'[q] = pulled[q] /\ conn'[q] = conn[q]
      BY <1>1, <2>2 DEF Unplug, TypeOK
    <3> QED
      BY <1>1, <3>1 DEF Unplug, watch
  <2> QED
    BY <2>1, <2>2
<1>2. ASSUME NEW p \in Ports, Plug(p) PROVE ListingIsRight(q)'
  BY <1>2 DEF Plug, registry, watch
<1>3. ASSUME NEW p \in Ports, Connect(p) PROVE ListingIsRight(q)'
  BY <1>3 DEF Connect, TypeOK, registry, watch, Attempt
<1>4. ASSUME NEW p \in Ports, Settled(p) PROVE ListingIsRight(q)'
  <2>1. \/ conn'[q] = conn[q]
        \/ conn'[q].fresh
    BY <1>4 DEF Settled, TypeOK
  <2> QED
    BY <1>4, <2>1 DEF Settled, registry, watch
<1>5. ASSUME NEW p \in Ports, Record(p) PROVE ListingIsRight(q)'
  <2>1. CASE conn[p].outcome = "ok"
    BY <1>5, <2>1 DEF Record, SerialConnected, Write, TypeOK, NoConn, Attempt, watch
  <2>2. CASE conn[p].outcome # "ok"
    <3>1. /\ (entry'[q] = "connected") <=> (entry[q] = "connected")
          /\ pulled' = pulled /\ fresh' = fresh /\ disc' = disc
          /\ misses' = misses /\ listing' = listing
      BY <1>5, <2>2, FailedKeeps DEF Record, watch
    <3>2. conn'[q] = conn[q] \/ conn'[q].is = "idle"
      BY <1>5, <2>2, FailedKeeps DEF TypeOK, NoConn, Attempt
    <3> QED
      BY <3>1, <3>2
  <2> QED
    BY <2>1, <2>2
<1>6. ASSUME NEW p \in Ports, Disconnect(p) PROVE ListingIsRight(q)'
  BY <1>6 DEF Disconnect, Write, TypeOK, watch
<1>7. ASSUME NEW p \in Ports, LetGo(p) PROVE ListingIsRight(q)'
  BY <1>7 DEF LetGo, TypeOK, registry, watch, NoDisc
<1>8. ASSUME NEW p \in Ports, RestoreSerial(p) PROVE ListingIsRight(q)'
  BY <1>8 DEF RestoreSerial, Write, TypeOK, NoDisc, watch
<1>9. ASSUME NEW ports, TakeListing(ports),
             q \notin ports => q \notin plugged \/ misses[q] = 0
      PROVE  ListingIsRight(q)'
  <2>1. /\ conn'[q].is = conn[q].is /\ conn'[q].outcome = conn[q].outcome
        /\ conn'[q].pulled = conn[q].pulled /\ disc'[q].is = disc[q].is
    BY <1>9 DEF TakeListing, Ages, AgesUnderWay, TypeOK
  <2> QED
    BY <1>9, <2>1 DEF TakeListing, PulledIsKnown, Claimed
<1>10. CASE List
  BY <1>9, <1>10 DEF List
<1>11. CASE \E p \in Ports : ListBadly(p)
  BY <1>9, <1>11 DEF ListBadly
<1>12. CASE Baseline \/ Poll
  BY <1>12 DEF Baseline, Poll, NoListing
<1>13. CASE Window \/ UNCHANGED vars
  BY <1>13, WindowIsApart
<1> QED
  BY <1>1, <1>2, <1>3, <1>4, <1>5, <1>6, <1>7, <1>8, <1>10, <1>11, <1>12, <1>13
  DEF Next, Hardware, Commands, Watcher

\* Only the watcher takes an entry for lost, and only one its listing is right about.
LEMMA LostIsPulled ==
  ASSUME TypeOK, [Next]_vars, NEW p \in Ports, ListingIsRight(p),
         entry[p] = "connected", entry'[p] = "lost"
  PROVE  pulled[p]
<1>1. Poll
  <2>1. ~(Hardware \/ List \/ Baseline \/ \E q \in Ports : ListBadly(q))
    BY DEF Hardware, Unplug, Plug, List, Baseline, ListBadly, TakeListing, registry
  <2>2. ~\E q \in Ports : Connect(q) \/ Settled(q) \/ LetGo(q)
    BY DEF Connect, Settled, LetGo, registry
  <2>3. ~\E q \in Ports : Record(q)
    <3>1. ASSUME NEW q \in Ports, Record(q), conn[q].outcome # "ok"
          PROVE  FALSE
      BY <3>1, FailedKeeps
    <3>2. ASSUME NEW q \in Ports, Record(q), conn[q].outcome = "ok"
          PROVE  FALSE
      BY <3>2 DEF Record, SerialConnected, Write, TypeOK
    <3> QED
      BY <3>1, <3>2
  <2>4. ~\E q \in Ports : Disconnect(q) \/ RestoreSerial(q)
    BY DEF Disconnect, RestoreSerial, Write, TypeOK
  <2>5. ~(Window \/ UNCHANGED vars)
    BY WindowIsApart
  <2> QED
    BY <2>1, <2>2, <2>3, <2>4, <2>5 DEF Next, Commands, Watcher
<1>2. p \in Cleared /\ listing.taken
  BY <1>1 DEF Poll, TypeOK
<1>3. p \notin listing.ports /\ ~fresh[p] /\ Missed(p) >= MISSES_BEFORE_LOST
  BY <1>2 DEF Cleared
<1>4. misses[p] # 0
  BY <1>3 DEF Missed, Capped, MISSES_BEFORE_LOST, TypeOK
<1> QED
  BY <1>2, <1>3, <1>4 DEF ListingIsRight, Excused

\* A strip that stays in is never taken for unplugged.
THEOREM OnlyThePulledAreLost == Spec => LostWasPulled
<1> DEFINE I == TypeOK /\ \A p \in Ports : PulledIsKnown(p) /\ ListingIsRight(p)
<1>1. Init => I
  <2>1. Init => \A p \in Ports : PulledIsKnown(p) /\ ListingIsRight(p)
    <3> SUFFICES ASSUME Init, NEW p \in Ports PROVE PulledIsKnown(p) /\ ListingIsRight(p)
      OBVIOUS
    <3>1. /\ entry[p] = "none" /\ conn[p].is = "idle" /\ disc[p].is = "idle" /\ ~listing.taken
      BY DEF Init, None, NoConn, Attempt, NoDisc, NoListing
    <3> QED
      BY <3>1 DEF PulledIsKnown, ListingIsRight, Claimed
  <2> QED
    BY <2>1, TypeInit
<1>2. I /\ [Next]_vars => I'
  BY TypeStep, PulledStep, ListingStep
<1>3. I /\ [Next]_vars =>
        [\A p \in Ports : entry[p] = "connected" /\ entry'[p] = "lost" => pulled[p]]_vars
  BY LostIsPulled
<1> QED
  BY <1>1, <1>2, <1>3, PTL DEF Spec, LostWasPulled

-----------------------------------------------------------------------------
(* What is driven *)

\* How a step may move the connect order: an entry is connected at its end, put back
\* in its own place, or leaves; or nothing is connected and no place moves.
Appends(p) ==
  /\ entry[p] # "connected" /\ entry' = [entry EXCEPT ![p] = "connected"]
  /\ nextConnect' = nextConnect + 1 /\ at' = [at EXCEPT ![p] = nextConnect + 1]
  /\ disc' = disc
Returns(p) ==
  /\ PutsBack(p) /\ entry' = [entry EXCEPT ![p] = "connected"]
  /\ at' = [at EXCEPT ![p] = disc[p].at] /\ UNCHANGED nextConnect
  /\ disc' = [disc EXCEPT ![p] = NoDisc]
\* No place moves, and no disconnect sets one aside but for its own port.
Keeps ==
  /\ UNCHANGED <<at, nextConnect>> /\ Connected(entry') \subseteq Connected(entry)
  /\ \A p \in Ports : Places(p)' \subseteq Places(p)
  /\ \A p \in Ports : disc'[p].is = "letting" => disc'[p].at # 0

LEMMA OrderMoves ==
  ASSUME TypeOK, Ordered, [Next]_vars
  PROVE  Keeps \/ \E p \in Ports : Appends(p) \/ Returns(p)
<1> USE DEF Connected, Places
<1>1. CASE Hardware
  BY <1>1 DEF Hardware, Unplug, Plug, registry, Keeps, Ordered
<1>2. ASSUME NEW p \in Ports, Connect(p) \/ Settled(p)
      PROVE  Keeps
  BY <1>2 DEF Connect, Settled, registry, Keeps, Ordered
<1>3. ASSUME NEW p \in Ports, Record(p)
      PROVE  Keeps \/ Appends(p)
  <2>1. CASE conn[p].outcome # "ok"
    <3>1. UNCHANGED <<at, nextConnect, disc>>
      BY <1>3, <2>1 DEF Record, SerialFailed, Write
    <3>2. Connected(entry') \subseteq Connected(entry)
      BY <1>3, <2>1, FailedKeeps
    <3> QED
      BY <3>1, <3>2 DEF Keeps, Ordered
  <2>2. CASE conn[p].outcome = "ok" /\ entry[p] = "connected"
    BY <1>3, <2>2 DEF Record, SerialConnected, Write, Keeps, Ordered
  <2>3. CASE conn[p].outcome = "ok" /\ entry[p] # "connected"
    BY <1>3, <2>3 DEF Record, SerialConnected, Write, Appends
  <2> QED
    BY <2>1, <2>2, <2>3
<1>4. ASSUME NEW p \in Ports, Disconnect(p) PROVE Keeps
  <2>1. at' = at /\ nextConnect' = nextConnect /\ entry' = [entry EXCEPT ![p] = "released"]
    BY <1>4 DEF Disconnect, Write
  <2>2. disc' = [disc EXCEPT ![p] = [is |-> "letting", at |-> at[p], fresh |-> fresh[p]]]
    BY <1>4 DEF Disconnect
  <2>3. at[p] # 0
    BY <1>4 DEF Disconnect, Ordered
  <2>4. Connected(entry') \subseteq Connected(entry)
    BY <2>1 DEF TypeOK
  <2>5. \A q \in Ports : q # p => disc'[q] = disc[q]
    BY <2>2 DEF TypeOK
  <2>6. disc'[p].at = at[p]
    BY <2>2 DEF TypeOK
  <2> QED
    BY <2>1, <2>3, <2>4, <2>5, <2>6 DEF Keeps, Ordered
<1>5. ASSUME NEW p \in Ports, LetGo(p) PROVE Keeps
  <2>1. \A q \in Ports : disc'[q] = IF q = p THEN NoDisc ELSE disc[q]
    BY <1>5 DEF LetGo, TypeOK
  <2> QED
    BY <1>5, <2>1 DEF LetGo, registry, NoDisc, Keeps, Ordered
<1>6. ASSUME NEW p \in Ports, RestoreSerial(p)
      PROVE  Keeps \/ Returns(p)
  <2>1. CASE entry[p] = "connected"
    <3>1. \A q \in Ports : disc'[q] = IF q = p THEN NoDisc ELSE disc[q]
      BY <1>6 DEF RestoreSerial, TypeOK
    <3> QED
      BY <1>6, <2>1, <3>1 DEF RestoreSerial, NoDisc, Keeps, Ordered
  <2>2. CASE entry[p] # "connected"
    BY <1>6, <2>2 DEF RestoreSerial, Write, Returns, PutsBack, TypeOK
  <2> QED
    BY <2>1, <2>2
<1>7. ASSUME NEW ports, TakeListing(ports) PROVE Keeps
  <2>1. \A q \in Ports : disc'[q].is = disc[q].is /\ disc'[q].at = disc[q].at
    BY <1>7 DEF TakeListing, Ages, AgesUnderWay, TypeOK
  <2> QED
    BY <1>7, <2>1 DEF TakeListing, Keeps, Ordered
<1>8. CASE Baseline
  BY <1>8 DEF Baseline, registry, Keeps, Ordered
<1>9. CASE Poll
  <2>1. Connected(entry') \subseteq Connected(entry)
    BY <1>9 DEF Poll
  <2> QED
    BY <1>9, <2>1 DEF Poll, Keeps, Ordered
<1>10. CASE Window \/ UNCHANGED vars
  BY <1>10, WindowIsApart DEF Keeps, Ordered
<1> QED
  BY <1>1, <1>2, <1>3, <1>4, <1>5, <1>6, <1>7, <1>8, <1>9, <1>10
  DEF Next, Commands, Watcher, List, ListBadly

LEMMA OrderStep ==
  ASSUME TypeOK, TypeOK', Ordered, [Next]_vars
  PROVE  Ordered'
<1>1. CASE Keeps
  BY <1>1 DEF Keeps, Ordered, Connected
<1>2. ASSUME NEW p \in Ports, Appends(p) PROVE Ordered'
  <2>1. \A q \in Ports : /\ q # p => Places(q)' = Places(q)
                         /\ Places(p)' \subseteq Places(p) \cup {nextConnect + 1}
    BY <1>2 DEF Appends, Places, TypeOK
  <2>2. nextConnect \in Nat /\ nextConnect' = nextConnect + 1
    BY <1>2 DEF Appends, TypeOK
  <2>3. \A q \in Connected(entry') : q # p => q \in Connected(entry) /\ at'[q] = at[q]
    BY <1>2 DEF Appends, Connected, TypeOK
  <2>4. at'[p] = nextConnect + 1 /\ disc' = disc
    BY <1>2 DEF Appends, TypeOK
  <2>5. \A q \in Ports : nextConnect + 1 \notin Places(q)
    BY <2>2 DEF Ordered
  <2> QED
    BY <2>1, <2>2, <2>3, <2>4, <2>5 DEF Ordered, Connected
<1>3. ASSUME NEW p \in Ports, Returns(p) PROVE Ordered'
  <2>1. \A q \in Ports : Places(q)' \subseteq Places(q)
    BY <1>3 DEF Returns, PutsBack, Places, TypeOK, NoDisc
  <2>2. \A q \in Connected(entry') : at'[q] # 0
    BY <1>3 DEF Returns, PutsBack, Connected, TypeOK, Ordered
  <2>3. \A q \in Ports : disc'[q].is = "letting" => disc'[q] = disc[q]
    BY <1>3 DEF Returns, TypeOK, NoDisc
  <2>4. nextConnect' = nextConnect
    BY <1>3 DEF Returns
  <2> QED
    BY <2>1, <2>2, <2>3, <2>4 DEF Ordered
<1> QED
  BY <1>1, <1>2, <1>3, OrderMoves

\* Nothing connected, and nothing that keeps its place, comes before what is driven.
LEMMA DrivenStep ==
  ASSUME TypeOK, TypeOK', Ordered, [Next]_vars,
         Driven # None, Driven' # Driven, entry'[Driven] = "connected"
  PROVE  \E p \in Ports : PutsBack(p) /\ Driven' = p
<1> DEFINE d == Driven
           n == Driven'
<1>1. Connected(entry) # {} /\ d \in Connected(entry) /\ \A q \in Connected(entry) : at[d] <= at[q]
  <2>1. Connected(entry) # {}
    BY DEF Driven, Earliest
  <2> QED
    BY <2>1, EarliestIsFirst DEF TypeOK, Driven
<1>2. d \in Connected(entry')
  BY <1>1 DEF Connected
<1>3. n \in Connected(entry') /\ \A q \in Connected(entry') : at'[n] <= at'[q]
  <2>1. Driven' = Earliest(entry', at')
    BY DEF Driven
  <2> QED
    BY <1>2, <2>1, EarliestIsFirst DEF TypeOK
<1>4. at'[n] <= at'[d] /\ n # d /\ n \in Ports /\ d \in Ports
  BY <1>1, <1>2, <1>3 DEF Connected
<1> HIDE DEF d, n
<1>5. ASSUME n \in Connected(entry), at'[n] = at[n], at'[d] = at[d] PROVE FALSE
  <2>1. at[n] = at[d]
    <3>1. at[d] <= at[n] /\ at[n] <= at[d]
      BY <1>1, <1>4, <1>5
    <3>2. at[d] \in Nat /\ at[n] \in Nat
      BY <1>4 DEF TypeOK
    <3> QED
      BY <3>1, <3>2
  <2>2. at[d] # 0
    BY <1>1 DEF Ordered
  <2> QED
    BY <1>4, <2>1, <2>2 DEF Ordered, Places
<1>6. CASE Keeps
  BY <1>3, <1>5, <1>6 DEF Keeps
<1>7. ASSUME NEW p \in Ports, Appends(p) PROVE FALSE
  <2>1. at'[d] = at[d] /\ at[d] \in 0..nextConnect
    BY <1>1, <1>4, <1>7 DEF Appends, Connected, Ordered, Places, TypeOK
  <2>2. n # p
    BY <1>4, <1>7, <2>1 DEF Appends, TypeOK
  <2> QED
    BY <1>3, <1>5, <1>7, <2>1, <2>2 DEF Appends, Connected, TypeOK
<1>8. ASSUME NEW p \in Ports, Returns(p), n # p PROVE FALSE
  BY <1>1, <1>3, <1>5, <1>8 DEF Returns, PutsBack, Connected, TypeOK
<1> QED
  BY <1>4, <1>6, <1>5, <1>7, <1>8, OrderMoves DEF Returns, n

\* What the usb channel drives is never taken over by a connect.
THEOREM NoConnectTakesOver == Spec => DrivenStays
<1> DEFINE I == TypeOK /\ Ordered
<1>1. Init => I
  <2>1. Init => Ordered
    BY DEF Init, Ordered, Places, Connected, NoDisc, None
  <2> QED
    BY <2>1, TypeInit
<1>2. I /\ [Next]_vars => I'
  BY TypeStep, OrderStep
<1>3. I /\ [Next]_vars =>
        [Driven # None /\ Driven' # Driven =>
           \/ entry'[Driven] # "connected"
           \/ \E p \in Ports : PutsBack(p) /\ Driven' = p]_vars
  BY TypeStep, DrivenStep
<1> QED
  BY <1>1, <1>2, <1>3, PTL DEF Spec, DrivenStays
=====================================================================================
