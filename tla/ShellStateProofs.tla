----------------------------- MODULE ShellStateProofs -------------------------------
(***************************************************************************)
(* What holds of the persisted settings for any number of windows, writes, *)
(* failures and crashes: the store's own invariants, that the settings     *)
(* keep the promise of Settings, and that the windows show what is stored. *)
(***************************************************************************)
EXTENDS ShellState, TLAPS

\* Disk and memory agree on which of them is good.
DiskIsKnown == loaded.up /\ loaded.diskIsGood => file.is = "good"

\* Nothing is under way without a process.
Asleep == ~alive => /\ ~loaded.up /\ queue = <<>>
                    /\ \A c \in Callers : call[c].is = "idle"
                    /\ \A w \in Windows : phase[w] = "closed"

\* No value shows a write that was not made yet.
Numbered == \A k \in Keys : /\ Store.root.values[k] \subseteq 1..writes
                            /\ file.root.values[k] \subseteq 1..writes
                            /\ bak.root.values[k] \subseteq 1..writes

\* What a caller read is the store's own state of that revision, its own edit apart.
ReadIsOfItsRevision(c) ==
  LET same == call[c].revision = loaded.revision
  IN /\ call[c].is = "answered" /\ call[c].command = "get" =>
          /\ loaded.up /\ call[c].revision <= loaded.revision
          /\ same => call[c].root.values = loaded.root.values
     /\ call[c].is = "sent" /\ call[c].command = "replace" =>
          /\ loaded.up /\ call[c].revision <= loaded.revision
          /\ same => call[c].root.values =
                       IF c = Writer
                         THEN [loaded.root.values EXCEPT !["ledStrips"] = @ \cup {Head(queue).id}]
                         ELSE loaded.root.values

\* The write queue and its command in flight go together, in the order of issue.
QueueInOrder ==
  /\ queue = <<>> <=> call[Writer].is = "idle"
  /\ \A c \in Windows : call[c].command # "patch"
  /\ call[Writer].is # "idle" /\ call[Writer].command = "patch" => call[Writer].write = Head(queue).id
  /\ call[Writer].is = "answered" /\ call[Writer].command = "patch" =>
       call[Writer].answer \in {"applied", "failed"}
  /\ \A i \in 1..Len(queue) : queue[i].id <= writes
  /\ \A i, j \in 1..Len(queue) : i < j => queue[i].id < queue[j].id

\* No stored choice is newer than a queued one, but the head's own once stored.
QueueIsNewer ==
  \A i \in 1..Len(queue) : \A old \in Store.root.values["launchLights"] :
    \/ old < queue[i].id
    \/ /\ i = 1 /\ old = queue[1].id
       /\ call[Writer].is = "answered" /\ call[Writer].command = "patch"

IInv == /\ TypeOK /\ HeldIsWhatLoads /\ BackupIsGood /\ DiskIsKnown /\ Asleep /\ Numbered
        /\ \A c \in Callers : ReadIsOfItsRevision(c)
        /\ QueueInOrder /\ QueueIsNewer

-----------------------------------------------------------------------------
(* Types *)

CallType == [is : {"idle", "sent", "answered"}, command : {"get", "patch", "replace"},
             write : 0..MaxWrites, root : Roots, revision : Nat, attempt : Nat,
             answer : {"none", "applied", "refused", "failed"}]
WriteType == [op : {"save", "update"}, id : Writes, previous : SUBSET Writes]
LoadedType == [up : BOOLEAN, root : Roots, revision : Nat, diskIsGood : BOOLEAN]

LEMMA RootsAreTyped == NoState \in Roots /\ NoFile \in Files /\ NoValues \in [Keys -> SUBSET Writes]
  BY DEF NoState, NoFile, NoValues, Roots, Files, Keys

LEMMA BoundsTyped ==
  /\ MaxWrites \in Nat /\ MaxFaults \in Nat /\ MaxCrashes \in Nat /\ MaxDamages \in Nat
  /\ MigrationAttempts \in Nat /\ UpdateAttempts \in Nat
  /\ MigrationAttempts >= 1 /\ UpdateAttempts >= 1
  BY BoundsAreNumbers

LEMMA CallsAreTyped ==
  /\ NoCall \in CallType
  /\ \A n \in Nat, w \in 0..MaxWrites : Get(n, w) \in CallType
  /\ \A w \in 0..MaxWrites : Patch(w) \in CallType
  /\ Get(1, 0) \in CallType
<1>1. NoCall \in CallType
  BY RootsAreTyped, BoundsTyped DEF NoCall, CallType
<1>2. ASSUME NEW n \in Nat, NEW w \in 0..MaxWrites PROVE Get(n, w) \in CallType
  BY <1>1 DEF CallType, Get
<1>3. ASSUME NEW w \in 0..MaxWrites PROVE Patch(w) \in CallType
  BY <1>1 DEF CallType, Patch
<1>4. Get(1, 0) \in CallType
  BY <1>2, BoundsTyped
<1> QED BY <1>1, <1>2, <1>3, <1>4

LEMMA NotLoadedTyped == NotLoaded \in LoadedType
  BY RootsAreTyped DEF NotLoaded, LoadedType

LEMMA LoadTyped == TypeOK => Load \in Roots /\ Store \in LoadedType
  BY RootsAreTyped DEF TypeOK, Load, Store, Files, LoadedType

LEMMA WithTyped ==
  ASSUME NEW root \in Roots, NEW k \in Keys, NEW value \in SUBSET Writes
  PROVE  /\ With(root, k, value) \in Roots
         /\ With(root, k, value).values = [root.values EXCEPT ![k] = value]
  BY DEF With, Roots

\* A commit, and a failed one, leave the store's variables typed.
LEMMA CommitTyped ==
  ASSUME TypeOK, NEW root \in Roots, Commit(root)
  PROVE  loaded' \in LoadedType /\ file' \in Files /\ bak' \in Files /\ faults' \in 0..MaxFaults
<1>1. Store \in LoadedType /\ file \in Files /\ bak \in Files /\ faults \in 0..MaxFaults
  BY LoadTyped DEF TypeOK
<1>2. loaded' \in LoadedType
  BY <1>1 DEF Commit, Holds, LoadedType
<1>3. file' \in Files
  BY DEF Commit, Files
<1>4. bak' \in Files /\ faults' \in 0..MaxFaults
  BY <1>1, BoundsTyped DEF Commit, Rotate
<1> QED BY <1>2, <1>3, <1>4

LEMMA CommitFailsTyped ==
  ASSUME TypeOK, CommitFails
  PROVE  loaded' \in LoadedType /\ file' \in Files /\ bak' \in Files /\ faults' \in 0..MaxFaults
  BY LoadTyped, BoundsTyped DEF TypeOK, CommitFails, Files, LoadedType

LEMMA AnnounceTyped ==
  ASSUME TypeOK, NEW writer \in Windows \cup {"rust"}, NEW keys \in SUBSET Followed,
         NEW root \in Roots, Announce(writer, keys, root)
  PROVE  inbox' \in [Windows -> Seq(Events)] /\ missed' \in [Windows -> SUBSET Followed]
<1> DEFINE event == [writer |-> writer, set |-> [k \in keys |-> root.values[k]]]
<1>1. [k \in keys |-> root.values[k]] \in [keys -> SUBSET Writes]
  BY DEF Roots, Keys, Followed
<1>2. event \in Events
  BY <1>1 DEF Events
<1>3. inbox' \in [Windows -> Seq(Events)]
  <2>1. \A w \in Windows : Append(inbox[w], event) \in Seq(Events)
    BY <1>2 DEF TypeOK
  <2> QED BY <2>1 DEF Announce, TypeOK
<1>4. missed' \in [Windows -> SUBSET Followed]
  BY DEF Announce, TypeOK
<1> QED BY <1>3, <1>4

LEMMA TypeInit == Init => TypeOK
<1> SUFFICES ASSUME Init PROVE TypeOK
  OBVIOUS
<1>1. loaded \in LoadedType /\ file \in Files /\ bak \in Files
  BY RootsAreTyped DEF Init, NotLoaded, LoadedType, Files, Roots, NoState
<1>2. call \in [Callers -> CallType] /\ \A c \in Callers : call[c].attempt <= Attempts(c)
  BY CallsAreTyped, BoundsTyped DEF Init, NoCall, Attempts
<1>3. shown \in [Windows -> [Followed -> SUBSET Writes]] /\ inbox \in [Windows -> Seq(Events)]
  BY DEF Init, NothingShown
<1>4. queue \in Seq(WriteType)
  BY DEF Init
<1>5. /\ phase \in [Windows -> {"closed", "booting", "joining", "live"}]
      /\ missed \in [Windows -> SUBSET Followed]
  BY DEF Init
<1>6. /\ writes \in 0..MaxWrites /\ faults \in 0..MaxFaults /\ crashes \in 0..MaxCrashes
      /\ damages \in 0..MaxDamages /\ saved \in {"applied", "failed"}
  BY BoundsTyped DEF Init
<1>7. alive \in BOOLEAN /\ failing \in BOOLEAN
  BY DEF Init
<1> QED BY <1>1, <1>2, <1>3, <1>4, <1>5, <1>6, <1>7 DEF TypeOK, CallType, LoadedType, WriteType

\* A queue's head is one of its writes, and so are the writes behind it.
LEMMA QueueParts ==
  ASSUME TypeOK, queue # <<>>
  PROVE  /\ Head(queue) \in WriteType /\ Head(queue) = queue[1]
         /\ Tail(queue) \in Seq(WriteType) /\ Len(Tail(queue)) = Len(queue) - 1
         /\ \A i \in 1..Len(Tail(queue)) : Tail(queue)[i] = queue[i + 1]
         /\ Tail(queue) # <<>> => Head(Tail(queue)) = queue[2] /\ queue[2] \in WriteType
<1>1. queue \in Seq(WriteType)
  BY DEF TypeOK, WriteType
<1> QED BY <1>1

LEMMA DispatchTyped ==
  ASSUME NEW write \in WriteType
  PROVE  Dispatch(write) \in CallType /\ Dispatch(write).attempt = 1
<1>1. write.id \in 0..MaxWrites
  BY BoundsTyped DEF WriteType, Writes
<1>2. Patch(write.id) \in CallType /\ Get(1, write.id) \in CallType
  BY <1>1, CallsAreTyped
<1> QED BY <1>2 DEF Dispatch, Patch, Get, NoCall

LEMMA SettleTyped ==
  ASSUME TypeOK, queue # <<>>, NEW answer, Settle(answer)
  PROVE  /\ queue' \in Seq(WriteType) /\ call' \in [Callers -> CallType]
         /\ \A c \in Callers : call'[c].attempt <= Attempts(c)
<1>1. queue' \in Seq(WriteType)
  BY QueueParts DEF Settle
<1> DEFINE next == IF Tail(queue) = <<>> THEN NoCall ELSE Dispatch(Head(Tail(queue)))
<1>2. next \in CallType /\ next.attempt = 1
  BY QueueParts, DispatchTyped, CallsAreTyped DEF NoCall
<1>3. call' = [call EXCEPT ![Writer] = next]
  BY DEF Settle
<1> HIDE DEF next
<1> QED BY <1>1, <1>2, <1>3, BoundsTyped DEF TypeOK, CallType, Attempts

LEMMA WritesAreNumbers == \A write \in WriteType : write.id \in Nat
<1>1. Writes \subseteq Nat
  BY BoundsTyped DEF Writes
<1> QED BY <1>1 DEF WriteType

\* The typing of the calls, in the shape the lemmas use.
CallsOK == call \in [Callers -> CallType] /\ \A c \in Callers : call[c].attempt <= Attempts(c)

LEMMA TypeNext == ASSUME TypeOK, QueueInOrder, [Next]_vars PROVE TypeOK'
<1> USE BoundsTyped
<1>0. CallsOK /\ loaded \in LoadedType
  BY DEF TypeOK, CallsOK, CallType, LoadedType
<1>1. CASE Launch
  <2>1. CallsOK'
    BY <1>0, <1>1, CallsAreTyped DEF Launch, CallsOK, Get, NoCall, Attempts, Callers, Windows
  <2> QED BY <1>1, <2>1 DEF Launch, TypeOK, CallsOK, CallType, diskVars
<1>2. CASE Exit \/ CrashInCommit
  <2>1. CallsOK'
    BY <1>2, CallsAreTyped DEF Exit, CrashInCommit, Ends, CallsOK, NoCall, Attempts
  <2>2. loaded' \in LoadedType
    BY <1>2, NotLoadedTyped DEF Exit, CrashInCommit, Ends
  <2>3. bak' \in Files
    BY <1>2 DEF Exit, CrashInCommit, Ends, TypeOK
  <2>4. shown' \in [Windows -> [Followed -> SUBSET Writes]]
    BY <1>2 DEF Exit, CrashInCommit, Ends, NothingShown
  <2>5. queue' \in Seq(WriteType) /\ inbox' \in [Windows -> Seq(Events)]
    <3>1. queue' = <<>> /\ inbox' = [w \in Windows |-> <<>>]
      BY <1>2 DEF Exit, CrashInCommit, Ends
    <3> QED BY <3>1
  <2>6. Ends
    BY <1>2 DEF Exit, CrashInCommit
  <2>7. /\ phase' \in [Windows -> {"closed", "booting", "joining", "live"}]
        /\ missed' \in [Windows -> SUBSET Followed]
    BY <2>6 DEF Ends
  <2>8. /\ writes' \in 0..MaxWrites /\ faults' \in 0..MaxFaults /\ crashes' \in 0..MaxCrashes
        /\ damages' \in 0..MaxDamages /\ file' \in Files /\ saved' \in {"applied", "failed"}
    BY <2>6 DEF Ends, TypeOK
  <2>9. alive' \in BOOLEAN /\ failing' \in BOOLEAN
    BY <2>6 DEF Ends
  <2> QED BY <2>1, <2>2, <2>3, <2>4, <2>5, <2>7, <2>8, <2>9 DEF TypeOK, CallsOK, CallType, LoadedType, WriteType
<1>3. ASSUME NEW how \in {"missing", "corrupt"}, Damage(how) PROVE TypeOK'
  <2>1. file' \in Files
    BY <1>3, RootsAreTyped DEF Damage, Files
  <2> QED BY <1>3, <2>1 DEF Damage, TypeOK, windowVars
<1>4. ASSUME NEW w \in Followers, OpenFollower(w) PROVE TypeOK'
  <2>1. CallsOK'
    BY <1>0, <1>4, CallsAreTyped DEF OpenFollower, CallsOK, Get, NoCall, Attempts, Callers, Windows
  <2> QED BY <1>4, <2>1 DEF OpenFollower, TypeOK, CallsOK, CallType, diskVars
<1>5. ASSUME NEW w \in Windows, ReadAnswered(w) PROVE TypeOK'
  <2>0. w \in Callers /\ call[w] \in CallType /\ call[w].attempt <= Attempts(w)
    BY <1>0 DEF Callers, CallsOK
  <2>1. CASE WritesBack(w)
    <3>1. Migrated(call[w].root) \in Roots
      BY <2>0 DEF CallType, Migrated, Roots
    <3>2. CallsOK'
      BY <1>0, <2>0, <2>1, <3>1 DEF WritesBack, CallsOK, CallType
    <3> QED BY <1>5, <2>1, <3>2 DEF ReadAnswered, WritesBack, TypeOK, CallsOK, CallType, diskVars
  <2>2. CASE ReadsAgain(w)
    <3>1. Get(call[w].attempt + 1, 0) \in CallType
      <4>1. call[w].attempt + 1 \in Nat /\ 0 \in 0..MaxWrites
        BY <2>0 DEF CallType
      <4> QED BY <4>1, CallsAreTyped
    <3>2. CallsOK'
      BY <1>0, <2>0, <2>2, <3>1 DEF ReadsAgain, CallsOK, CallType, MayRetry, Get, NoCall, Attempts
    <3> QED BY <1>5, <2>2, <3>2 DEF ReadAnswered, ReadsAgain, TypeOK, CallsOK, CallType, diskVars
  <2>3. CASE Hydrates(w)
    <3>1. CallsOK'
      BY <1>0, <2>0, <2>3, CallsAreTyped DEF Hydrates, CallsOK, NoCall, Attempts
    <3>2. [k \in Followed |-> call[w].root.values[k]] \in [Followed -> SUBSET Writes]
      BY <2>0 DEF CallType, Roots, Followed, Keys
    <3>3. shown' \in [Windows -> [Followed -> SUBSET Writes]]
      BY <2>3, <3>2 DEF Hydrates, TypeOK
    <3> QED BY <1>5, <2>3, <3>1, <3>3 DEF ReadAnswered, Hydrates, TypeOK, CallsOK, CallType, diskVars
  <2> QED BY <1>5, <2>1, <2>2, <2>3 DEF ReadAnswered
<1>6. ASSUME NEW w \in Windows, Joins(w) PROVE TypeOK'
  BY <1>6 DEF Joins, TypeOK, diskVars
<1>7. ASSUME NEW w \in Windows, Delivered(w) PROVE TypeOK'
  <2>1. Head(inbox[w]) \in Events /\ Tail(inbox[w]) \in Seq(Events)
    BY <1>7 DEF Delivered, TypeOK
  <2>2. inbox' \in [Windows -> Seq(Events)]
    BY <1>7, <2>1 DEF Delivered, TypeOK
  <2>3. PICK keys \in SUBSET Followed : Head(inbox[w]).set \in [keys -> SUBSET Writes]
    BY <2>1 DEF Events
  <2>4. Merge(shown[w], Head(inbox[w]).set) \in [Followed -> SUBSET Writes]
    BY <2>3 DEF Merge, TypeOK
  <2>5. shown' \in [Windows -> [Followed -> SUBSET Writes]]
    BY <1>7, <2>4 DEF Delivered, TypeOK
  <2> QED BY <1>7, <2>2, <2>5 DEF Delivered, TypeOK, diskVars
<1>8. ASSUME NEW c \in Callers, GetShellState(c) PROVE TypeOK'
  <2>1. Store \in LoadedType
    BY LoadTyped
  <2> DEFINE answered == [call[c] EXCEPT !.is = "answered", !.root = Store.root,
                                         !.revision = Store.revision]
  <2>2. CallsOK'
    <3>1. answered \in CallType /\ answered.attempt = call[c].attempt
      BY <1>0, <2>1 DEF CallsOK, CallType, LoadedType
    <3>2. call' = [call EXCEPT ![c] = answered]
      BY <1>0, <1>8 DEF GetShellState, CallsOK
    <3> HIDE DEF answered
    <3> QED BY <1>0, <3>1, <3>2 DEF CallsOK
  <2> QED BY <1>8, <2>1, <2>2 DEF GetShellState, TypeOK, CallsOK, CallType, LoadedType, diskVars
<1>9. ASSUME NEW c \in Callers, PatchShellState(c) PROVE TypeOK'
  <2> DEFINE root == With(Store.root, "launchLights", {call[c].write})
  <2>0. c = Writer
    BY <1>9 DEF PatchShellState, QueueInOrder, Callers
  <2>1. root \in Roots
    <3>1. call[c].write \in Writes
      <4>1. queue # <<>> /\ call[c].write = Head(queue).id
        BY <1>9, <2>0 DEF PatchShellState, QueueInOrder
      <4> QED BY <4>1, QueueParts DEF WriteType
    <3> QED BY <3>1, LoadTyped, WithTyped DEF LoadedType, Keys
  <2>2. CallsOK'
    BY <1>0, <1>9 DEF PatchShellState, Answers, CallsOK, CallType
  <2>3. CASE Commit(root) /\ Announce(Main, {"launchLights"}, root)
    <3>1. Main \in Windows /\ {"launchLights"} \in SUBSET Followed
      BY DEF Windows, Followed
    <3>2. inbox' \in [Windows -> Seq(Events)] /\ missed' \in [Windows -> SUBSET Followed]
      BY <2>1, <2>3, <3>1, AnnounceTyped
    <3>3. loaded' \in LoadedType /\ file' \in Files /\ bak' \in Files /\ faults' \in 0..MaxFaults
      BY <2>1, <2>3, CommitTyped
    <3> QED BY <1>9, <2>2, <3>2, <3>3 DEF PatchShellState, TypeOK, CallsOK, CallType, LoadedType
  <2>4. CASE CommitFails /\ Silent
    <3>1. loaded' \in LoadedType /\ file' \in Files /\ bak' \in Files /\ faults' \in 0..MaxFaults
      BY <2>4, CommitFailsTyped
    <3> QED BY <1>9, <2>2, <2>4, <3>1 DEF PatchShellState, Silent, TypeOK, CallsOK, CallType, LoadedType
  <2> QED BY <1>9, <2>3, <2>4 DEF PatchShellState
<1>10. ASSUME NEW c \in Callers, ReplaceShellState(c) PROVE TypeOK'
  <2>1. CallsOK'
    BY <1>0, <1>10 DEF ReplaceShellState, Answers, CallsOK, CallType
  <2>2. CASE Silent /\ loaded' \in {loaded, Store} /\ UNCHANGED <<file, bak, faults>>
    <3>1. loaded' \in LoadedType
      BY <1>0, <2>2, LoadTyped
    <3> QED BY <1>10, <2>1, <2>2, <3>1
            DEF ReplaceShellState, Silent, TypeOK, CallsOK, CallType, LoadedType
  <2>3. CASE Commit(call[c].root) /\ Announce(Main, Diff(Store.root, call[c].root), call[c].root)
    <3>1. /\ Main \in Windows /\ Diff(Store.root, call[c].root) \in SUBSET Followed
          /\ call[c].root \in Roots
      BY <1>0 DEF Windows, Diff, CallsOK, CallType
    <3>2. inbox' \in [Windows -> Seq(Events)] /\ missed' \in [Windows -> SUBSET Followed]
      BY <2>3, <3>1, AnnounceTyped
    <3>3. loaded' \in LoadedType /\ file' \in Files /\ bak' \in Files /\ faults' \in 0..MaxFaults
      BY <2>3, <3>1, CommitTyped
    <3> QED BY <1>10, <2>1, <3>2, <3>3 DEF ReplaceShellState, TypeOK, CallsOK, CallType, LoadedType
  <2>4. CASE CommitFails /\ Silent
    <3>1. loaded' \in LoadedType /\ file' \in Files /\ bak' \in Files /\ faults' \in 0..MaxFaults
      BY <2>4, CommitFailsTyped
    <3> QED BY <1>10, <2>1, <2>4, <3>1 DEF ReplaceShellState, Silent, TypeOK, CallsOK, CallType, LoadedType
  <2> QED BY <1>10, <2>2, <2>3, <2>4 DEF ReplaceShellState
<1>11. ASSUME NEW k \in Keys, NEW value \in SUBSET Writes, RustWrites(k, value) PROVE TypeOK'
  <2> DEFINE root == With(Store.root, k, value)
  <2>1. root \in Roots
    BY LoadTyped, WithTyped DEF LoadedType
  <2>2. CASE Commit(root) /\ Announce("rust", {k} \cap Followed, root)
    <3>1. inbox' \in [Windows -> Seq(Events)] /\ missed' \in [Windows -> SUBSET Followed]
      BY <2>1, <2>2, AnnounceTyped
    <3>2. loaded' \in LoadedType /\ file' \in Files /\ bak' \in Files /\ faults' \in 0..MaxFaults
      BY <2>1, <2>2, CommitTyped
    <3> QED BY <1>11, <3>1, <3>2 DEF RustWrites, TypeOK, LoadedType
  <2>3. CASE CommitFails /\ Silent
    <3>1. loaded' \in LoadedType /\ file' \in Files /\ bak' \in Files /\ faults' \in 0..MaxFaults
      BY <2>3, CommitFailsTyped
    <3> QED BY <1>11, <2>3, <3>1 DEF RustWrites, Silent, TypeOK, LoadedType
  <2> QED BY <1>11, <2>2, <2>3 DEF RustWrites
<1>12. CASE SaveLitKind
  <2>1. {writes + 1} \in SUBSET Writes /\ "lastLitKind" \in Keys
    BY <1>12 DEF SaveLitKind, RustWrites, TypeOK, Writes, Keys
  <2> QED BY <1>11, <1>12, <2>1 DEF SaveLitKind
<1>13. CASE ForgetDevice
  <2>1. Store.root.values["ledStrips"] \in SUBSET Writes /\ "ledStrips" \in Keys
    BY LoadTyped DEF LoadedType, Roots, Keys
  <2>2. Store.root.values["ledStrips"] \cup {writes + 1} \in SUBSET Writes
    BY <1>13, <2>1 DEF ForgetDevice, RustWrites, TypeOK, Writes
  <2> QED BY <1>11, <1>13, <2>1, <2>2 DEF ForgetDevice
<1>14. CASE SetPreference \/ UpdateShellState
  <2>1. PICK write \in WriteType : Enqueue(write)
    <3>1. writes + 1 \in Writes
      BY <1>14 DEF SetPreference, UpdateShellState, Issues, TypeOK, Writes
    <3>2. shown[Main]["launchLights"] \in SUBSET Writes
      BY DEF TypeOK, Windows, Followed
    <3> QED BY <1>14, <3>1, <3>2 DEF SetPreference, UpdateShellState, WriteType
  <2>2. queue' \in Seq(WriteType)
    BY <2>1 DEF Enqueue, TypeOK, WriteType
  <2>3. CallsOK'
    BY <1>0, <2>1, DispatchTyped DEF Enqueue, CallsOK, Attempts
  <2>4. shown' \in [Windows -> [Followed -> SUBSET Writes]] /\ writes' \in 0..MaxWrites
    <3>1. writes' \in 0..MaxWrites /\ {writes + 1} \in SUBSET Writes
      BY <1>14 DEF SetPreference, UpdateShellState, Issues, TypeOK, Writes
    <3>2. CASE SetPreference
      BY <3>1, <3>2 DEF SetPreference, TypeOK
    <3>3. CASE UpdateShellState
      BY <3>1, <3>3 DEF UpdateShellState, TypeOK
    <3> QED BY <1>14, <3>2, <3>3
  <2> QED BY <1>14, <2>2, <2>3, <2>4
          DEF SetPreference, UpdateShellState, Issues, TypeOK, CallsOK, CallType, WriteType, diskVars
<1>15. CASE WriteAnswered
  <2>0. /\ queue # <<>> /\ Head(queue) \in WriteType /\ Writer \in Callers
        /\ call[Writer] \in CallType /\ call[Writer].attempt <= Attempts(Writer)
    BY <1>0, <1>15, QueueParts DEF WriteAnswered, QueueInOrder, CallsOK, Callers
  <2>1. CASE SaveSettles
    <3>1. queue' \in Seq(WriteType) /\ CallsOK'
      BY <2>0, <2>1, SettleTyped DEF SaveSettles, CallsOK
    <3>2. call[Writer].answer \in {"applied", "failed"}
      BY <1>15, <2>1 DEF WriteAnswered, SaveSettles, QueueInOrder
    <3>3. shown' \in [Windows -> [Followed -> SUBSET Writes]]
      BY <2>0, <2>1 DEF SaveSettles, Lands, Revert, TypeOK, WriteType
    <3> QED BY <1>15, <2>1, <3>1, <3>2, <3>3
            DEF WriteAnswered, SaveSettles, TypeOK, CallsOK, CallType, WriteType, diskVars
  <2>2. CASE UpdateSwaps
    <3> DEFINE edited == Edited(call[Writer].root, Head(queue).id)
    <3>1. edited \in Roots
      BY <2>0 DEF CallType, WriteType, Edited, Roots, Keys
    <3>2. CallsOK'
      <4> DEFINE swap == [call[Writer] EXCEPT !.is = "sent", !.command = "replace", !.root = edited]
      <4>1. swap \in CallType /\ swap.attempt = call[Writer].attempt
        <5> HIDE DEF edited
        <5> QED BY <2>0, <3>1 DEF CallType
      <4>2. call' = [call EXCEPT ![Writer] = swap]
        BY <1>0, <2>2 DEF UpdateSwaps, CallsOK, CallType
      <4> HIDE DEF swap
      <4> QED BY <1>0, <2>0, <4>1, <4>2 DEF CallsOK
    <3> QED BY <1>15, <2>2, <3>2 DEF WriteAnswered, UpdateSwaps, TypeOK, CallsOK, CallType, diskVars
  <2>3. CASE UpdateFindsNothing \/ UpdateSettles
    <3>1. queue' \in Seq(WriteType) /\ CallsOK'
      BY <2>0, <2>3, SettleTyped DEF UpdateFindsNothing, UpdateSettles, CallsOK
    <3> QED BY <1>15, <2>3, <3>1
            DEF WriteAnswered, UpdateFindsNothing, UpdateSettles, TypeOK, CallsOK, CallType,
                WriteType, diskVars
  <2>4. CASE UpdateReadsAgain
    <3>1. Get(call[Writer].attempt + 1, Head(queue).id) \in CallType
      <4>1. call[Writer].attempt + 1 \in Nat /\ Head(queue).id \in 0..MaxWrites
        BY <2>0 DEF CallType, WriteType, Writes
      <4> QED BY <4>1, CallsAreTyped
    <3>2. CallsOK'
      BY <1>0, <2>0, <2>4, <3>1 DEF UpdateReadsAgain, CallsOK, CallType, MayRetry, Get, NoCall, Attempts
    <3> QED BY <1>15, <2>4, <3>2 DEF WriteAnswered, UpdateReadsAgain, TypeOK, CallsOK, CallType, diskVars
  <2> QED BY <1>15, <2>1, <2>2, <2>3, <2>4 DEF WriteAnswered
<1>16. CASE UNCHANGED vars
  BY <1>16 DEF vars, diskVars, windowVars, TypeOK
<1> QED BY <1>1, <1>2, <1>3, <1>4, <1>5, <1>6, <1>7, <1>8, <1>9, <1>10, <1>12, <1>13, <1>14,
           <1>15, <1>16 DEF Next

-----------------------------------------------------------------------------
(* What a step does to the store and its files *)

\* A state the store may take on: its own, with one key brought up to one write.
Accepted(root) ==
  \/ root.values = Store.root.values
  \/ \E k \in Keys \ {"ledStrips"}, w \in 1..writes' :
       /\ \A old \in Store.root.values[k] : old < w
       /\ root.values = [Store.root.values EXCEPT ![k] = {w}]
  \/ \E w \in 1..writes' : root.values = [Store.root.values EXCEPT !["ledStrips"] = @ \cup {w}]

LEMMA PatchIsAccepted ==
  ASSUME IInv, NEW c \in Callers, PatchShellState(c)
  PROVE  LET root == With(Store.root, "launchLights", {call[c].write})
         IN root \in Roots /\ Accepted(root) /\ alive
<1> DEFINE root == With(Store.root, "launchLights", {call[c].write})
<1>1. c = Writer /\ alive
  BY DEF IInv, PatchShellState, QueueInOrder, Asleep, Callers
<1>2. queue # <<>> /\ call[c].write = Head(queue).id
  BY <1>1 DEF IInv, PatchShellState, QueueInOrder
<1>3. Head(queue) = queue[1] /\ 1 \in 1..Len(queue) /\ queue[1].id \in Writes
  BY <1>2, QueueParts DEF IInv, TypeOK, WriteType
<1>4. queue[1].id \in 1..writes'
  BY <1>3 DEF IInv, QueueInOrder, PatchShellState, Writes, TypeOK
<1>5. \A old \in Store.root.values["launchLights"] : old < queue[1].id
  BY <1>1, <1>3 DEF IInv, QueueIsNewer, PatchShellState
<1>6. root \in Roots /\ root.values = [Store.root.values EXCEPT !["launchLights"] = {queue[1].id}]
  <2>1. {queue[1].id} \in SUBSET Writes /\ "launchLights" \in Keys /\ Store.root \in Roots
    BY <1>3, LoadTyped DEF LoadedType, Keys, IInv
  <2>2. LET stored == With(Store.root, "launchLights", {queue[1].id})
        IN  stored \in Roots /\ stored.values = [Store.root.values EXCEPT !["launchLights"] = {queue[1].id}]
    BY <2>1, WithTyped
  <2>3. call[c].write = queue[1].id
    BY <1>2, <1>3
  <2> QED BY <2>2, <2>3
<1> QED BY <1>1, <1>4, <1>5, <1>6 DEF Accepted, Keys

LEMMA SwapIsAccepted ==
  ASSUME IInv, NEW c \in Callers, ReplaceShellState(c), ~Conflicts(c)
  PROVE  call[c].root \in Roots /\ Accepted(call[c].root) /\ alive
<1>1. call[c].root \in Roots /\ alive
  BY DEF IInv, TypeOK, ReplaceShellState, Asleep
<1>2. loaded.up /\ Store = loaded /\ call[c].revision = loaded.revision
  BY DEF IInv, ReadIsOfItsRevision, ReplaceShellState, Conflicts, Store
<1>3. CASE c = Writer
  <2>1. queue # <<>>
    BY <1>3 DEF IInv, QueueInOrder, ReplaceShellState
  <2>2. Head(queue) = queue[1] /\ 1 \in 1..Len(queue) /\ queue[1].id \in Writes
    BY <2>1, QueueParts DEF IInv, TypeOK, WriteType
  <2>3. Head(queue).id \in 1..writes'
    BY <2>2 DEF IInv, QueueInOrder, ReplaceShellState, Writes, TypeOK
  <2>4. call[c].root.values = [loaded.root.values EXCEPT !["ledStrips"] = @ \cup {Head(queue).id}]
    BY <1>2, <1>3 DEF IInv, ReadIsOfItsRevision, ReplaceShellState
  <2> QED BY <1>1, <1>2, <2>3, <2>4 DEF Accepted
<1>4. CASE c # Writer
  BY <1>1, <1>2, <1>4 DEF IInv, ReadIsOfItsRevision, ReplaceShellState, Accepted
<1> QED BY <1>3, <1>4

LEMMA RustIsAccepted ==
  ASSUME IInv, SaveLitKind \/ ForgetDevice
  PROVE  /\ alive
         /\ CommitFails \/ \E root \in Roots : Commit(root) /\ Accepted(root)
<1>1. alive /\ writes' = writes + 1 /\ writes + 1 \in Writes /\ writes + 1 \in 1..writes'
  <2>1. alive /\ writes' = writes + 1 /\ writes < MaxWrites
    BY DEF SaveLitKind, ForgetDevice, RustWrites
  <2>2. writes \in Nat
    BY DEF IInv, TypeOK
  <2> QED BY <2>1, <2>2, BoundsTyped DEF Writes
<1>2. /\ Store.root \in Roots
      /\ \A k \in Keys : Store.root.values[k] \in SUBSET Writes
  BY LoadTyped DEF LoadedType, Roots, IInv
<1>3. CASE SaveLitKind
  <2> DEFINE root == With(Store.root, "lastLitKind", {writes + 1})
  <2>1. root \in Roots /\ root.values = [Store.root.values EXCEPT !["lastLitKind"] = {writes + 1}]
    <3>1. {writes + 1} \in SUBSET Writes /\ "lastLitKind" \in Keys
      BY <1>1 DEF Keys
    <3> QED BY <1>2, <3>1, WithTyped
  <2>2. \A old \in Store.root.values["lastLitKind"] : old < writes + 1
    BY DEF IInv, Numbered, Keys, TypeOK
  <2>3. Accepted(root)
    BY <1>1, <2>1, <2>2 DEF Accepted, Keys
  <2> QED BY <1>1, <1>3, <2>1, <2>3 DEF SaveLitKind, RustWrites
<1>4. CASE ForgetDevice
  <2> DEFINE root == With(Store.root, "ledStrips", Store.root.values["ledStrips"] \cup {writes + 1})
  <2>1. "ledStrips" \in Keys /\ Store.root.values["ledStrips"] \cup {writes + 1} \in SUBSET Writes
    BY <1>1, <1>2 DEF Keys
  <2>2. root \in Roots /\ root.values = [Store.root.values EXCEPT !["ledStrips"] = @ \cup {writes + 1}]
    BY <1>2, <2>1, WithTyped
  <2>3. Accepted(root)
    BY <1>1, <2>2 DEF Accepted
  <2> QED BY <1>1, <1>4, <2>2, <2>3 DEF ForgetDevice, RustWrites
<1> QED BY <1>3, <1>4

Untouched == UNCHANGED <<loaded, file, bak>>
IsRead    == loaded' = Store /\ UNCHANGED <<file, bak>>
ComesDown == /\ Exit \/ CrashInCommit
             /\ alive /\ loaded' = NotLoaded /\ UNCHANGED file
             /\ bak' = bak \/ (Store.diskIsGood /\ bak' = file)

\* Every step leaves the store alone, reads it, writes it, fails to, or is the
\* end of a process or the damage done while none runs.
LEMMA StoreSteps ==
  ASSUME IInv, [Next]_vars
  PROVE  \/ Untouched \/ IsRead \/ CommitFails \/ ComesDown
         \/ alive /\ alive' /\ \E root \in Roots : Commit(root) /\ Accepted(root)
         \/ \E how \in {"missing", "corrupt"} : Damage(how)
<1>1. CASE UNCHANGED vars
  BY <1>1 DEF vars, diskVars, Untouched
<1>2. CASE Exit \/ CrashInCommit
  <2>1. alive /\ loaded' = NotLoaded /\ UNCHANGED file
    BY <1>2 DEF Exit, CrashInCommit, Ends
  <2>2. bak' = bak \/ (Store.diskIsGood /\ bak' = file)
    <3>1. CASE Exit
      BY <3>1 DEF Exit
    <3>2. CASE CrashInCommit
      BY <3>2 DEF CrashInCommit
    <3> QED BY <1>2, <3>1, <3>2
  <2> QED BY <1>2, <2>1, <2>2 DEF ComesDown
<1>3. CASE \E c \in Callers : GetShellState(c) \/ PatchShellState(c) \/ ReplaceShellState(c)
  <2>1. ASSUME NEW c \in Callers, GetShellState(c) PROVE IsRead
    BY <2>1 DEF GetShellState, IsRead, diskVars
  <2>2. ASSUME NEW c \in Callers, PatchShellState(c)
        PROVE  \/ CommitFails
               \/ alive /\ alive' /\ \E root \in Roots : Commit(root) /\ Accepted(root)
    <3> DEFINE root == With(Store.root, "launchLights", {call[c].write})
    <3>1. root \in Roots /\ Accepted(root) /\ alive
      BY <2>2, PatchIsAccepted
    <3>2. alive' /\ (Commit(root) \/ CommitFails)
      BY <2>2, <3>1 DEF PatchShellState
    <3>3. CASE Commit(root)
      <4>1. \E new \in Roots : Commit(new) /\ Accepted(new)
        BY <3>1, <3>3
      <4> QED BY <3>1, <3>2, <4>1
    <3> QED BY <3>2, <3>3
  <2>3. ASSUME NEW c \in Callers, ReplaceShellState(c)
        PROVE  \/ Untouched \/ IsRead \/ CommitFails
               \/ alive /\ alive' /\ \E root \in Roots : Commit(root) /\ Accepted(root)
    BY <2>3, SwapIsAccepted DEF ReplaceShellState, Untouched, IsRead
  <2> QED BY <1>3, <2>1, <2>2, <2>3
<1>4. CASE SaveLitKind \/ ForgetDevice
  <2>1. alive'
    BY <1>4, RustIsAccepted DEF SaveLitKind, ForgetDevice, RustWrites
  <2> QED BY <1>4, <2>1, RustIsAccepted
<1>5. CASE \/ Launch \/ SetPreference \/ UpdateShellState \/ WriteAnswered
           \/ \E w \in Followers : OpenFollower(w)
           \/ \E w \in Windows : ReadAnswered(w) \/ Joins(w) \/ Delivered(w)
  BY <1>5 DEF Launch, SetPreference, UpdateShellState, Issues, WriteAnswered, OpenFollower,
              ReadAnswered, Joins, Delivered, diskVars, Untouched
<1> QED BY <1>1, <1>2, <1>3, <1>4, <1>5 DEF Next

LEMMA WritesGrow == ASSUME IInv, [Next]_vars PROVE writes <= writes'
<1>1. writes \in Nat
  BY BoundsTyped DEF IInv, TypeOK
<1>2. CASE SaveLitKind \/ ForgetDevice \/ SetPreference \/ UpdateShellState
  BY <1>1, <1>2 DEF SaveLitKind, ForgetDevice, RustWrites, SetPreference, UpdateShellState, Issues
<1>3. CASE \E c \in Callers : GetShellState(c) \/ PatchShellState(c) \/ ReplaceShellState(c)
  <2>1. writes' = writes
    BY <1>3 DEF GetShellState, PatchShellState, ReplaceShellState
  <2> QED BY <1>1, <2>1
<1>4. CASE \/ Launch \/ Exit \/ CrashInCommit \/ WriteAnswered \/ UNCHANGED vars
           \/ \E how \in {"missing", "corrupt"} : Damage(how)
           \/ \E w \in Followers : OpenFollower(w)
           \/ \E w \in Windows : ReadAnswered(w) \/ Joins(w) \/ Delivered(w)
  <2>1. writes' = writes
    BY <1>4 DEF vars, Launch, Exit, CrashInCommit, Ends, WriteAnswered, Damage, OpenFollower,
                ReadAnswered, Joins, Delivered
  <2> QED BY <1>1, <2>1
<1> QED BY <1>2, <1>3, <1>4 DEF Next

\* The file the store stands on.
LEMMA StoreOnDisk ==
  ASSUME IInv
  PROVE  /\ Store.up /\ Store.root = Load
         /\ Store.diskIsGood => file.is = "good" /\ file.root = Store.root
         /\ loaded.up => Store = loaded
  BY DEF IInv, HeldIsWhatLoads, DiskIsKnown, Store, Load

Disk == HeldIsWhatLoads /\ BackupIsGood /\ DiskIsKnown

LEMMA DiskNext == ASSUME IInv, [Next]_vars PROVE Disk'
<1>1. CASE Untouched
  BY <1>1 DEF IInv, Untouched, Disk, HeldIsWhatLoads, BackupIsGood, DiskIsKnown, Load
<1>2. CASE IsRead
  BY <1>2, StoreOnDisk DEF IInv, IsRead, Disk, HeldIsWhatLoads, BackupIsGood, DiskIsKnown, Load
<1>3. CASE CommitFails
  BY <1>3, StoreOnDisk DEF IInv, CommitFails, Disk, HeldIsWhatLoads, BackupIsGood, DiskIsKnown, Load
<1>4. CASE ComesDown
  BY <1>4, StoreOnDisk DEF IInv, ComesDown, NotLoaded, Disk, HeldIsWhatLoads, BackupIsGood, DiskIsKnown
<1>5. ASSUME NEW root \in Roots, Commit(root) PROVE Disk'
  BY <1>5, StoreOnDisk DEF IInv, Commit, Rotate, Holds, Disk, HeldIsWhatLoads, BackupIsGood,
                           DiskIsKnown, Load
<1>6. ASSUME NEW how \in {"missing", "corrupt"}, Damage(how) PROVE Disk'
  BY <1>6 DEF IInv, Damage, Asleep, Disk, HeldIsWhatLoads, BackupIsGood, DiskIsKnown
<1> QED BY <1>1, <1>2, <1>3, <1>4, <1>5, <1>6, StoreSteps

\* What the store shows after a step, by what the step did.
LEMMA StoreAfter ==
  ASSUME IInv
  PROVE  /\ Untouched => Store' = Store
         /\ IsRead => Store' = Store
         /\ CommitFails => Store' = Store
         /\ ComesDown => Store'.root = Store.root
         /\ \A root \in Roots : Commit(root) => Store'.root = root
         /\ \A how \in {"missing", "corrupt"} :
              Damage(how) => Store'.root \in {NoState, bak.root}
<1>1. Untouched => Store' = Store
  BY DEF Untouched, Store, Load
<1>2. IsRead \/ CommitFails => Store' = Store
  BY StoreOnDisk DEF IsRead, CommitFails, Store
<1>3. ComesDown => Store'.root = Store.root
  BY StoreOnDisk DEF ComesDown, NotLoaded, Store, Load
<1>4. ASSUME NEW root \in Roots, Commit(root) PROVE Store'.root = root
  BY <1>4 DEF Commit, Holds, Store
<1>5. ASSUME NEW how \in {"missing", "corrupt"}, Damage(how) PROVE Store'.root \in {NoState, bak.root}
  BY <1>5 DEF Damage, Store, Load, IInv, Asleep
<1> QED BY <1>1, <1>2, <1>3, <1>4, <1>5

LEMMA NumberedNext == ASSUME IInv, [Next]_vars PROVE Numbered'
<1>1. writes \in Nat /\ writes' \in Nat /\ writes <= writes'
  <2>1. TypeOK'
    BY TypeNext DEF IInv
  <2> QED BY <2>1, WritesGrow, BoundsTyped DEF IInv, TypeOK
<1>2. SUFFICES ASSUME NEW k \in Keys
               PROVE  /\ Store'.root.values[k] \subseteq 1..writes'
                      /\ file'.root.values[k] \subseteq 1..writes'
                      /\ bak'.root.values[k] \subseteq 1..writes'
  BY DEF Numbered
<1>3. /\ Store.root.values[k] \subseteq 1..writes' /\ file.root.values[k] \subseteq 1..writes'
      /\ bak.root.values[k] \subseteq 1..writes' /\ NoState.values[k] \subseteq 1..writes'
  BY <1>1 DEF IInv, Numbered, NoState, NoValues
<1>4. CASE Untouched \/ IsRead
  BY <1>3, <1>4, StoreAfter DEF Untouched, IsRead
<1>5. CASE CommitFails \/ ComesDown
  BY <1>3, <1>5, StoreAfter DEF CommitFails, ComesDown
<1>6. ASSUME NEW root \in Roots, Commit(root), Accepted(root)
      PROVE  /\ Store'.root.values[k] \subseteq 1..writes'
             /\ file'.root.values[k] \subseteq 1..writes'
             /\ bak'.root.values[k] \subseteq 1..writes'
  <2>1. Store.root \in Roots
    BY LoadTyped DEF IInv, LoadedType
  <2>2. root.values[k] \subseteq 1..writes'
    <3>1. CASE root.values = Store.root.values
      BY <1>3, <3>1
    <3>2. ASSUME NEW j \in Keys, NEW w \in 1..writes',
                 root.values = [Store.root.values EXCEPT ![j] = {w}]
          PROVE  root.values[k] \subseteq 1..writes'
      BY <1>3, <2>1, <3>2 DEF Roots
    <3>3. ASSUME NEW w \in 1..writes',
                 root.values = [Store.root.values EXCEPT !["ledStrips"] = @ \cup {w}]
          PROVE  root.values[k] \subseteq 1..writes'
      BY <1>3, <2>1, <3>3 DEF Roots
    <3> QED BY <1>6, <3>1, <3>2, <3>3 DEF Accepted
  <2> QED BY <1>3, <1>6, <2>2, StoreAfter DEF Commit, Rotate
<1>7. ASSUME NEW how \in {"missing", "corrupt"}, Damage(how)
      PROVE  /\ Store'.root.values[k] \subseteq 1..writes'
             /\ file'.root.values[k] \subseteq 1..writes'
             /\ bak'.root.values[k] \subseteq 1..writes'
  BY <1>3, <1>7, StoreAfter DEF Damage
<1> QED BY <1>4, <1>5, <1>6, <1>7, StoreSteps

-----------------------------------------------------------------------------
(* The process, the callers and the queue *)

LEMMA AsleepNext == ASSUME IInv, [Next]_vars PROVE Asleep'
<1>0. Writer \in Callers /\ Main \in Windows /\ Followers \subseteq Windows /\ Windows \subseteq Callers
  BY DEF Callers, Windows
<1>1. CASE Exit \/ CrashInCommit
  <2>1. Ends
    BY <1>1 DEF Exit, CrashInCommit
  <2> QED BY <2>1 DEF Ends, NotLoaded, NoCall, Asleep
<1>2. CASE Launch
  BY <1>2 DEF Launch, Asleep
<1>3. CASE ~alive /\ [Next]_vars /\ ~alive'
  <2>1. /\ \A c \in Callers : call[c].is = "idle"
        /\ \A w \in Windows : phase[w] = "closed"
    BY <1>3 DEF IInv, Asleep
  <2>2. /\ ~SetPreference /\ ~UpdateShellState /\ ~WriteAnswered /\ ~SaveLitKind /\ ~ForgetDevice
        /\ ~Launch /\ ~Exit /\ ~CrashInCommit
        /\ \A w \in Followers : ~OpenFollower(w)
        /\ \A w \in Windows : ~ReadAnswered(w) /\ ~Joins(w)
        /\ \A c \in Callers : ~GetShellState(c) /\ ~PatchShellState(c) /\ ~ReplaceShellState(c)
    BY <1>0, <1>3, <2>1 DEF SetPreference, UpdateShellState, Issues, WriteAnswered, SaveLitKind,
         ForgetDevice, RustWrites, Launch, Exit, CrashInCommit, Ends, OpenFollower, ReadAnswered,
         Joins, GetShellState, PatchShellState, ReplaceShellState
  <2>3. UNCHANGED <<loaded, call, queue, phase>>
    BY <1>3, <2>2 DEF Next, vars, windowVars, Damage, Delivered
  <2> QED BY <1>3, <2>3 DEF IInv, Asleep
<1>4. CASE alive /\ ~(Exit \/ CrashInCommit)
  <2>1. alive'
    BY <1>4 DEF Next, vars, Launch, Damage, OpenFollower, ReadAnswered, Joins, Delivered,
         GetShellState, PatchShellState, ReplaceShellState, SaveLitKind, ForgetDevice, RustWrites,
         SetPreference, UpdateShellState, Issues, WriteAnswered
  <2> QED BY <2>1 DEF Asleep
<1> QED BY <1>1, <1>2, <1>3, <1>4 DEF Asleep

\* What a reader holds is good after a step that leaves it and the queue's head.
LEMMA LoadedAfter ==
  ASSUME IInv, [Next]_vars
  PROVE  \/ loaded' = NotLoaded /\ (Exit \/ CrashInCommit)
         \/ loaded.up => \/ loaded' = loaded
                         \/ loaded'.up /\ loaded.revision < loaded'.revision
<1>1. CASE Untouched \/ IsRead \/ CommitFails
  BY <1>1, StoreOnDisk DEF Untouched, IsRead, CommitFails
<1>2. CASE ComesDown
  BY <1>2 DEF ComesDown
<1>3. ASSUME NEW root \in Roots, Commit(root)
      PROVE  loaded.up => loaded'.up /\ loaded.revision < loaded'.revision
  BY <1>3, StoreOnDisk DEF Commit, Holds, IInv, TypeOK
<1>4. ASSUME NEW how \in {"missing", "corrupt"}, Damage(how) PROVE loaded' = loaded
  BY <1>4 DEF Damage
<1> QED BY <1>1, <1>2, <1>3, <1>4, StoreSteps

ReadsAreGood == \A c \in Callers : ReadIsOfItsRevision(c)

\* A caller that holds nothing read is good, and so is one whose call, with the
\* queue's head, the step left alone.
LEMMA ReadKept ==
  ASSUME IInv, [Next]_vars, NEW c \in Callers, call'[c] = call[c],
         ~(Exit \/ CrashInCommit), c = Writer /\ queue # <<>> => Head(queue') = Head(queue)
  PROVE  ReadIsOfItsRevision(c)'
<1>1. loaded.up => loaded' = loaded \/ (loaded'.up /\ loaded.revision < loaded'.revision)
  BY LoadedAfter
<1>2. call[c].revision \in Nat /\ loaded.revision \in Nat
  BY DEF IInv, TypeOK
<1>3. loaded'.revision \in Nat
  BY TypeNext DEF IInv, TypeOK
<1>4. c = Writer /\ queue = <<>> => call[c].is = "idle"
  BY DEF IInv, QueueInOrder
<1>5. ReadIsOfItsRevision(c)
  BY DEF IInv
<1>6. CASE call[c].is = "answered" /\ call[c].command = "get"
  BY <1>1, <1>2, <1>3, <1>5, <1>6 DEF ReadIsOfItsRevision
<1>7. CASE call[c].is = "sent" /\ call[c].command = "replace" /\ c # Writer
  BY <1>1, <1>2, <1>3, <1>5, <1>7 DEF ReadIsOfItsRevision
<1>8. CASE call[c].is = "sent" /\ call[c].command = "replace" /\ c = Writer
  <2>1. Head(queue') = Head(queue)
    BY <1>4, <1>8
  <2>2. loaded.up /\ call[c].revision <= loaded.revision
    BY <1>5, <1>8 DEF ReadIsOfItsRevision
  <2>3. CASE loaded' = loaded
    <3> DEFINE edited == [loaded.root.values EXCEPT !["ledStrips"] = @ \cup {Head(queue).id}]
    <3>1. call[c].revision = loaded.revision => call[c].root.values = edited
      BY <1>5, <1>8 DEF ReadIsOfItsRevision
    <3>2. edited = [loaded'.root.values EXCEPT !["ledStrips"] = @ \cup {Head(queue').id}]
      BY <2>1, <2>3
    <3> HIDE DEF edited
    <3> QED BY <1>8, <2>2, <2>3, <3>1, <3>2 DEF ReadIsOfItsRevision
  <2>4. CASE loaded'.up /\ loaded.revision < loaded'.revision
    BY <1>2, <1>3, <1>8, <2>2, <2>4 DEF ReadIsOfItsRevision
  <2> QED BY <1>1, <2>2, <2>3, <2>4
<1> QED BY <1>6, <1>7, <1>8 DEF ReadIsOfItsRevision

LEMMA NothingHeld ==
  ASSUME NEW c \in Callers,
         \/ call'[c].is = "idle"
         \/ call'[c].is = "sent" /\ call'[c].command # "replace"
         \/ call'[c].is = "answered" /\ call'[c].command # "get"
  PROVE  ReadIsOfItsRevision(c)'
  BY DEF ReadIsOfItsRevision

LEMMA ReadsNext == ASSUME IInv, [Next]_vars PROVE ReadsAreGood'
<1>0. Writer \in Callers /\ Windows \subseteq Callers /\ Main \in Windows /\ Followers \subseteq Windows
      /\ Writer \notin Windows
  BY CallersAreApart DEF Callers, Windows
<1>1. SUFFICES ASSUME NEW c \in Callers PROVE ReadIsOfItsRevision(c)'
  BY DEF ReadsAreGood
<1> USE DEF IInv, TypeOK
<1>2. CASE Exit \/ CrashInCommit
  BY <1>2, NothingHeld DEF Exit, CrashInCommit, Ends, NoCall
<1>3. CASE UNCHANGED <<call, queue>> /\ ~(Exit \/ CrashInCommit)
  BY <1>3, ReadKept
<1>4. ASSUME NEW w \in Windows, call' = [call EXCEPT ![w] = Get(1, 0)], UNCHANGED queue,
             ~(Exit \/ CrashInCommit)
      PROVE  ReadIsOfItsRevision(c)'
  <2>1. CASE c = w
    BY <1>4, <2>1, NothingHeld DEF Get, NoCall
  <2>2. CASE c # w
    BY <1>4, <2>2, ReadKept
  <2> QED BY <2>1, <2>2
<1>5. ASSUME NEW w \in Windows, ReadAnswered(w) PROVE ReadIsOfItsRevision(c)'
  <2>0. ~(Exit \/ CrashInCommit) /\ UNCHANGED <<queue, loaded>> /\ w # Writer /\ w \in Callers
    BY <1>0, <1>5 DEF ReadAnswered, Exit, CrashInCommit, Ends, WritesBack, ReadsAgain, Hydrates
  <2>1. CASE c # w
    BY <1>5, <2>0, <2>1, ReadKept DEF ReadAnswered, WritesBack, ReadsAgain, Hydrates
  <2>2. CASE c = w /\ WritesBack(w)
    BY <1>5, <2>0, <2>2 DEF ReadAnswered, WritesBack, Migrated, Roots, ReadIsOfItsRevision
  <2>3. CASE c = w /\ (ReadsAgain(w) \/ Hydrates(w))
    <3>1. CASE ReadsAgain(w)
      <4>1. call'[c] = Get(call[w].attempt + 1, 0)
        BY <2>0, <2>3, <3>1 DEF ReadsAgain
      <4> QED BY <4>1, NothingHeld DEF Get, NoCall
    <3>2. CASE Hydrates(w)
      <4>1. call'[c] = NoCall
        BY <2>0, <2>3, <3>2 DEF Hydrates
      <4> QED BY <4>1, NothingHeld DEF NoCall
    <3> QED BY <2>3, <3>1, <3>2
  <2> QED BY <1>5, <2>1, <2>2, <2>3 DEF ReadAnswered
<1>6. ASSUME NEW d \in Callers, GetShellState(d) \/ PatchShellState(d) \/ ReplaceShellState(d)
      PROVE  ReadIsOfItsRevision(c)'
  <2>0. /\ ~(Exit \/ CrashInCommit) /\ UNCHANGED queue
    BY <1>6 DEF GetShellState, PatchShellState, ReplaceShellState, Exit, CrashInCommit, Ends
  <2>1. CASE c # d
    BY <1>6, <2>0, <2>1, ReadKept DEF GetShellState, PatchShellState, ReplaceShellState, Answers
  <2>2. CASE c = d /\ GetShellState(d)
    <3>1. /\ call'[c].is = "answered" /\ call'[c].command = "get"
          /\ call'[c].revision = Store.revision /\ call'[c].root = Store.root
      BY <2>2 DEF GetShellState
    <3>2. loaded' = Store /\ Store.up /\ Store.revision \in Nat
      BY <2>2, StoreOnDisk, LoadTyped DEF GetShellState, LoadedType
    <3> QED BY <3>1, <3>2 DEF ReadIsOfItsRevision
  <2>3. CASE c = d /\ (PatchShellState(d) \/ ReplaceShellState(d))
    BY <2>3, NothingHeld DEF PatchShellState, ReplaceShellState, Answers
  <2> QED BY <1>6, <2>1, <2>2, <2>3
<1>7. ASSUME NEW write \in WriteType, Enqueue(write), ~(Exit \/ CrashInCommit)
      PROVE  ReadIsOfItsRevision(c)'
  <2>1. CASE queue = <<>>
    <3>1. CASE c = Writer
      BY <1>7, <2>1, <3>1, NothingHeld DEF Enqueue, Dispatch, Patch, Get, NoCall
    <3>2. CASE c # Writer
      BY <1>7, <2>1, <3>2, ReadKept DEF Enqueue
    <3> QED BY <3>1, <3>2
  <2>2. CASE queue # <<>>
    <3>1. Head(queue') = Head(queue)
      BY <1>7, <2>2 DEF Enqueue, WriteType
    <3> QED BY <1>7, <2>2, <3>1, ReadKept DEF Enqueue
  <2> QED BY <2>1, <2>2
<1>8. CASE WriteAnswered
  <2>0. ~(Exit \/ CrashInCommit) /\ UNCHANGED loaded
    BY <1>8 DEF WriteAnswered, Exit, CrashInCommit, Ends, diskVars
  <2>1. CASE c # Writer
    BY <1>8, <2>0, <2>1, ReadKept
       DEF WriteAnswered, SaveSettles, UpdateSwaps, UpdateFindsNothing, UpdateReadsAgain,
           UpdateSettles, Settle
  <2>2. CASE c = Writer /\ UpdateSwaps
    BY <1>8, <2>0, <2>2 DEF WriteAnswered, UpdateSwaps, Edited, Roots, ReadIsOfItsRevision
  <2>3. CASE c = Writer /\ UpdateReadsAgain
    BY <2>0, <2>3, NothingHeld DEF UpdateReadsAgain, Get, NoCall
  <2>4. ASSUME c = Writer, NEW answer, Settle(answer) PROVE ReadIsOfItsRevision(c)'
    BY <2>4, NothingHeld DEF Settle, Dispatch, Patch, Get, NoCall
  <2> QED BY <1>8, <2>1, <2>2, <2>3, <2>4 DEF WriteAnswered, SaveSettles, UpdateFindsNothing, UpdateSettles
<1> QED
  <2>1. CASE UNCHANGED vars \/ SaveLitKind \/ ForgetDevice
    BY <1>3, <1>2, <2>1 DEF vars, SaveLitKind, ForgetDevice, RustWrites
  <2>2. CASE \/ \E how \in {"missing", "corrupt"} : Damage(how)
             \/ \E w \in Windows : Joins(w) \/ Delivered(w)
    BY <1>3, <1>2, <2>2 DEF Damage, Joins, Delivered
  <2>3. CASE Launch \/ \E w \in Followers : OpenFollower(w)
    BY <1>0, <1>2, <1>4, <2>3 DEF Launch, OpenFollower
  <2>4. CASE SetPreference \/ UpdateShellState
    <3>1. writes + 1 \in Writes
      BY <2>4, BoundsTyped DEF SetPreference, UpdateShellState, Issues, Writes
    <3>2. shown[Main]["launchLights"] \in SUBSET Writes
      BY <1>0 DEF Followed
    <3>3. PICK write \in WriteType : Enqueue(write)
      BY <2>4, <3>1, <3>2 DEF SetPreference, UpdateShellState, WriteType
    <3> QED BY <1>2, <1>7, <3>3
  <2> QED BY <1>2, <1>5, <1>6, <1>8, <2>1, <2>2, <2>3, <2>4 DEF Next

Queues == QueueInOrder /\ QueueIsNewer

\* The queue's invariants, for a step that leaves queue, calls and choices alone.
LEMMA QueuesKept ==
  ASSUME IInv, [Next]_vars, UNCHANGED queue,
         call'[Writer] = call[Writer], \A c \in Windows : call'[c].command # "patch",
         Store'.root.values["launchLights"] = Store.root.values["launchLights"]
  PROVE  Queues'
<1>1. writes <= writes' /\ writes \in Nat /\ writes' \in Nat
  <2>1. TypeOK'
    BY TypeNext DEF IInv
  <2> QED BY <2>1, WritesGrow, BoundsTyped DEF IInv, TypeOK
<1>2. \A i \in 1..Len(queue) : queue[i].id <= writes'
  <2>1. \A i \in 1..Len(queue) : queue[i].id \in Nat
    <3>1. queue \in Seq(WriteType)
      BY DEF IInv, TypeOK, WriteType
    <3>2. \A i \in 1..Len(queue) : queue[i] \in WriteType
      BY <3>1
    <3> QED BY <3>2, WritesAreNumbers
  <2> QED BY <1>1, <2>1 DEF IInv, QueueInOrder
<1>3. QueueInOrder'
  BY <1>2 DEF IInv, QueueInOrder
<1>4. QueueIsNewer'
  BY DEF IInv, QueueIsNewer
<1> QED BY <1>3, <1>4 DEF Queues

\* Nothing queued: any call but the writer's may go on.
LEMMA QueuesEmpty ==
  ASSUME queue' = <<>>, call'[Writer].is = "idle", \A c \in Windows : call'[c].command # "patch"
  PROVE  Queues'
  BY DEF Queues, QueueInOrder, QueueIsNewer

LEMMA QueueFacts ==
  ASSUME IInv
  PROVE  /\ queue \in Seq(WriteType) /\ writes \in Nat
         /\ \A i \in 1..Len(queue) : queue[i].id \in Nat /\ queue[i].id <= writes
         /\ \A old \in Store.root.values["launchLights"] : old \in Nat /\ old <= writes
<1>1. queue \in Seq(WriteType) /\ writes \in Nat
  BY BoundsTyped DEF IInv, TypeOK, WriteType
<1>2. \A i \in 1..Len(queue) : queue[i].id \in Nat
  <2>1. \A i \in 1..Len(queue) : queue[i] \in WriteType
    BY <1>1
  <2> QED BY <2>1, WritesAreNumbers
<1>3. \A old \in Store.root.values["launchLights"] : old \in Nat /\ old <= writes
  BY <1>1 DEF IInv, Numbered, Keys
<1> QED BY <1>1, <1>2, <1>3 DEF IInv, QueueInOrder

\* The writer's command is answered, the stored choice as it was or the head's.
LEMMA QueuesAnswered ==
  ASSUME IInv, [Next]_vars, UNCHANGED <<queue, writes>>, queue # <<>>,
         call'[Writer].is = "answered", call'[Writer].command = call[Writer].command,
         call'[Writer].write = call[Writer].write, call[Writer].is = "sent",
         call[Writer].command = "patch" => call'[Writer].answer \in {"applied", "failed"},
         \A c \in Windows : call'[c].command # "patch",
         \/ Store'.root.values["launchLights"] = Store.root.values["launchLights"]
         \/ /\ call[Writer].command = "patch"
            /\ Store'.root.values["launchLights"] = {queue[1].id}
  PROVE  Queues'
<1>1. QueueInOrder'
  BY DEF IInv, QueueInOrder
<1>2. CASE Store'.root.values["launchLights"] = Store.root.values["launchLights"]
  BY <1>1, <1>2 DEF IInv, QueueIsNewer, Queues
<1>3. CASE /\ call[Writer].command = "patch"
           /\ Store'.root.values["launchLights"] = {queue[1].id}
  <2>1. \A i \in 1..Len(queue) : i = 1 \/ queue[1].id < queue[i].id
    BY QueueFacts DEF IInv, QueueInOrder
  <2> QED BY <1>1, <1>3, <2>1 DEF QueueIsNewer, Queues
<1> QED BY <1>2, <1>3

LEMMA QueuesSettled ==
  ASSUME IInv, [Next]_vars, WriteAnswered, NEW answer, Settle(answer)
  PROVE  Queues'
<1>1. queue # <<>> /\ UNCHANGED <<writes, loaded, file, bak>>
  BY DEF WriteAnswered, IInv, QueueInOrder, diskVars
<1>2. Store' = Store
  BY <1>1 DEF Store, Load
<1>3. /\ Tail(queue) \in Seq(WriteType) /\ Len(Tail(queue)) = Len(queue) - 1 /\ Len(queue) \in Nat
      /\ \A i \in 1..Len(Tail(queue)) : Tail(queue)[i] = queue[i + 1]
      /\ Tail(queue) # <<>> => Head(Tail(queue)) = queue[2]
  BY <1>1, QueueParts, QueueFacts DEF IInv
<1>4. queue' = Tail(queue) /\ Writer \in Callers /\ Writer \notin Windows
      /\ \A c \in Windows : call'[c] = call[c]
  BY CallersAreApart DEF Settle, Callers, IInv, TypeOK
<1>5. /\ \A i \in 1..Len(queue') : queue'[i].id <= writes'
      /\ \A i, j \in 1..Len(queue') : i < j => queue'[i].id < queue'[j].id
  <2>1. \A i \in 1..Len(queue') : i + 1 \in 1..Len(queue) /\ queue'[i] = queue[i + 1]
    BY <1>3, <1>4
  <2>2. \A i, j \in 1..Len(queue) : i < j => queue[i].id < queue[j].id
    BY DEF IInv, QueueInOrder
  <2>3. \A i \in 1..Len(queue) : queue[i].id <= writes
    BY DEF IInv, QueueInOrder
  <2>4. \A i, j \in 1..Len(queue') : i < j => i + 1 < j + 1
    OBVIOUS
  <2> QED BY <1>1, <2>1, <2>2, <2>3, <2>4
<1>6. QueueIsNewer'
  <2>1. \A i \in 1..Len(queue') : i + 1 \in 1..Len(queue) /\ i + 1 # 1
    BY <1>3, <1>4
  <2> QED BY <1>2, <1>3, <1>4, <2>1 DEF IInv, QueueIsNewer
<1>7. CASE Tail(queue) = <<>>
  <2>1. call'[Writer] = NoCall
    BY <1>4, <1>7 DEF Settle, IInv, TypeOK
  <2> QED BY <1>4, <1>7, <2>1, QueuesEmpty DEF NoCall, IInv, QueueInOrder
<1>8. CASE Tail(queue) # <<>>
  <2>1. call'[Writer] = Dispatch(Head(Tail(queue)))
    BY <1>4, <1>8 DEF Settle, IInv, TypeOK
  <2>2. /\ call'[Writer].is = "sent"
        /\ call'[Writer].command = "patch" => call'[Writer].write = Head(queue').id
    BY <1>4, <2>1 DEF Dispatch, Patch, Get, NoCall
  <2>3. QueueInOrder'
    BY <1>4, <1>5, <1>8, <2>2 DEF IInv, QueueInOrder
  <2> QED BY <1>6, <2>3 DEF Queues
<1> QED BY <1>7, <1>8

LEMMA QueuesGrow ==
  ASSUME IInv, [Next]_vars, SetPreference \/ UpdateShellState
  PROVE  Queues'
<1>1. writes' = writes + 1 /\ UNCHANGED <<loaded, file, bak>> /\ writes < MaxWrites
  BY DEF SetPreference, UpdateShellState, Issues, diskVars
<1>2. Store' = Store
  BY <1>1 DEF Store, Load
<1>3. PICK write \in WriteType : Enqueue(write) /\ write.id = writes + 1
  <2>1. writes + 1 \in Writes
    BY <1>1, BoundsTyped DEF IInv, TypeOK, Writes
  <2>2. shown[Main]["launchLights"] \in SUBSET Writes
    BY DEF IInv, TypeOK, Windows, Followed
  <2> QED BY <2>1, <2>2 DEF SetPreference, UpdateShellState, WriteType
<1>4. /\ queue' = Append(queue, write) /\ Len(queue') = Len(queue) + 1 /\ queue' # <<>>
      /\ Len(queue) \in Nat
      /\ \A i \in 1..Len(queue) : queue'[i] = queue[i]
      /\ queue'[Len(queue) + 1] = write
  BY <1>3, QueueFacts DEF Enqueue
<1>5. /\ \A i \in 1..Len(queue') : queue'[i].id <= writes'
      /\ \A i, j \in 1..Len(queue') : i < j => queue'[i].id < queue'[j].id
  <2>1. \A i \in 1..Len(queue') : i \in 1..Len(queue) \/ i = Len(queue) + 1
    BY <1>4
  <2>2. \A i \in 1..Len(queue') : queue'[i].id \in Nat /\ queue'[i].id <= writes'
    BY <1>1, <1>3, <1>4, <2>1, QueueFacts
  <2>3. \A i, j \in 1..Len(queue') : i < j => queue'[i].id < queue'[j].id
    BY <1>1, <1>3, <1>4, <2>1, QueueFacts DEF IInv, QueueInOrder
  <2> QED BY <2>2, <2>3
<1>6. Writer \in Callers /\ Writer \notin Windows
  BY CallersAreApart DEF Callers
<1>7. \A c \in Windows : call'[c].command # "patch"
  <2>1. \A c \in Windows : call'[c] = call[c]
    BY <1>3, <1>6 DEF Enqueue, IInv, TypeOK, Callers
  <2> QED BY <2>1 DEF IInv, QueueInOrder
<1>8. CASE queue = <<>>
  <2>1. call'[Writer] = Dispatch(write) /\ Head(queue') = write
    BY <1>3, <1>6, <1>8 DEF Enqueue, IInv, TypeOK
  <2>2. /\ call'[Writer].is = "sent"
        /\ call'[Writer].command = "patch" => call'[Writer].write = Head(queue').id
    BY <2>1 DEF Dispatch, Patch, Get, NoCall
  <2>3. QueueInOrder'
    BY <1>4, <1>5, <1>7, <2>2 DEF QueueInOrder
  <2>4. QueueIsNewer'
    BY <1>2, <1>3, <1>4, <1>8, QueueFacts DEF QueueIsNewer
  <2> QED BY <2>3, <2>4 DEF Queues
<1>9. CASE queue # <<>>
  <2>1. call' = call /\ Head(queue') = Head(queue) /\ queue'[1] = queue[1]
    BY <1>3, <1>4, <1>9, QueueFacts DEF Enqueue
  <2>2. QueueInOrder'
    BY <1>4, <1>5, <1>7, <1>9, <2>1 DEF IInv, QueueInOrder
  <2>3. \A i \in 1..Len(queue') : i \in 1..Len(queue) \/ i = Len(queue) + 1
    BY <1>4
  <2>4. QueueIsNewer'
    BY <1>2, <1>3, <1>4, <2>1, <2>3, QueueFacts DEF IInv, QueueIsNewer
  <2> QED BY <2>2, <2>4 DEF Queues
<1> QED BY <1>8, <1>9

LEMMA QueuesNext == ASSUME IInv, [Next]_vars PROVE Queues'
<1>0. Writer \in Callers /\ Writer \notin Windows /\ Main \in Windows /\ Followers \subseteq Windows
      /\ Windows \subseteq Callers
  BY CallersAreApart DEF Callers, Windows
<1>1. CASE Exit \/ CrashInCommit
  <2>1. Ends
    BY <1>1 DEF Exit, CrashInCommit
  <2> QED BY <1>0, <2>1, QueuesEmpty DEF Ends, NoCall
<1>2. ASSUME UNCHANGED <<queue, loaded, file, bak>>, call'[Writer] = call[Writer],
             \A c \in Windows : call'[c].command # "patch"
      PROVE  Queues'
  BY <1>2, QueuesKept, StoreAfter DEF Untouched
<1>3. CASE UNCHANGED vars \/ \E w \in Windows : Joins(w) \/ Delivered(w)
  BY <1>2, <1>3 DEF vars, diskVars, Joins, Delivered, IInv, QueueInOrder
<1>4. CASE Launch \/ \E w \in Followers : OpenFollower(w)
  <2>1. PICK w \in Windows : call' = [call EXCEPT ![w] = Get(1, 0)]
    BY <1>0, <1>4 DEF Launch, OpenFollower
  <2>2. \A c \in Windows : call'[c].command # "patch"
    BY <1>0, <2>1 DEF Get, NoCall, IInv, QueueInOrder, TypeOK
  <2> QED BY <1>0, <1>2, <1>4, <2>1, <2>2 DEF Launch, OpenFollower, diskVars, IInv, TypeOK
<1>5. ASSUME NEW how \in {"missing", "corrupt"}, Damage(how) PROVE Queues'
  BY <1>0, <1>5, QueuesEmpty DEF Damage, IInv, Asleep, QueueInOrder
<1>6. ASSUME NEW w \in Windows, ReadAnswered(w) PROVE Queues'
  <2>1. UNCHANGED <<queue, loaded, file, bak>>
    BY <1>6 DEF ReadAnswered, diskVars
  <2>2. call'[Writer] = call[Writer] /\ \A c \in Windows : c # w => call'[c] = call[c]
    BY <1>0, <1>6 DEF ReadAnswered, WritesBack, ReadsAgain, Hydrates, IInv, TypeOK
  <2>3. call'[w].command # "patch"
    <3>1. CASE WritesBack(w)
      BY <1>0, <3>1 DEF WritesBack, IInv, TypeOK
    <3>2. CASE ReadsAgain(w)
      BY <1>0, <3>2 DEF ReadsAgain, Get, NoCall, IInv, TypeOK
    <3>3. CASE Hydrates(w)
      BY <1>0, <3>3 DEF Hydrates, NoCall, IInv, TypeOK
    <3> QED BY <1>6, <3>1, <3>2, <3>3 DEF ReadAnswered
  <2>4. \A c \in Windows : call'[c].command # "patch"
    BY <2>2, <2>3 DEF IInv, QueueInOrder
  <2> QED BY <1>2, <2>1, <2>2, <2>4
<1>7. ASSUME NEW c \in Callers, GetShellState(c) PROVE Queues'
  <2>1. Store' = Store /\ UNCHANGED <<queue, writes>>
    BY <1>7, StoreAfter DEF GetShellState, IsRead, diskVars
  <2>2. \A d \in Windows : call'[d].command # "patch"
    BY <1>0, <1>7 DEF GetShellState, IInv, QueueInOrder, TypeOK
  <2>3. CASE c # Writer
    BY <1>0, <1>7, <2>1, <2>2, <2>3, QueuesKept DEF GetShellState, IInv, TypeOK
  <2>4. CASE c = Writer
    BY <1>0, <1>7, <2>1, <2>2, <2>4, QueuesAnswered DEF GetShellState, IInv, TypeOK, QueueInOrder
  <2> QED BY <2>3, <2>4
<1>8. ASSUME NEW c \in Callers, PatchShellState(c) PROVE Queues'
  <2>1. c = Writer /\ queue # <<>> /\ UNCHANGED <<queue, writes>> /\ call[c].write = queue[1].id
    <3>1. c = Writer /\ queue # <<>> /\ call[c].write = Head(queue).id /\ UNCHANGED <<queue, writes>>
      BY <1>8 DEF PatchShellState, IInv, QueueInOrder, Callers
    <3> QED BY <3>1, QueueParts DEF IInv
  <2> DEFINE root == With(Store.root, "launchLights", {call[c].write})
  <2>2. \/ Store'.root.values["launchLights"] = Store.root.values["launchLights"]
        \/ Store'.root.values["launchLights"] = {queue[1].id}
    <3>1. CASE CommitFails
      BY <3>1, StoreAfter
    <3>2. CASE Commit(root)
      <4>1. root \in Roots /\ Store'.root = root
        BY <1>8, <3>2, PatchIsAccepted, StoreAfter
      <4>2. Store.root \in Roots
        BY LoadTyped DEF IInv, LoadedType
      <4>3. root.values["launchLights"] = {call[c].write}
        BY <4>2 DEF With, Roots, Keys
      <4> QED BY <2>1, <4>1, <4>3
    <3> QED BY <1>8, <3>1, <3>2 DEF PatchShellState
  <2>3. /\ call'[Writer].is = "answered" /\ call'[Writer].command = call[Writer].command
        /\ call'[Writer].write = call[Writer].write
        /\ call'[Writer].answer \in {"applied", "failed"}
        /\ \A d \in Windows : call'[d] = call[d]
    BY <1>0, <1>8, <2>1 DEF PatchShellState, Answers, IInv, TypeOK
  <2> QED BY <1>8, <2>1, <2>2, <2>3, QueuesAnswered DEF PatchShellState, IInv, QueueInOrder
<1>9. ASSUME NEW c \in Callers, ReplaceShellState(c) PROVE Queues'
  <2>1. Store'.root.values["launchLights"] = Store.root.values["launchLights"]
    <3>1. CASE UNCHANGED <<loaded, file, bak>> \/ (loaded' = Store /\ UNCHANGED <<file, bak>>) \/ CommitFails
      BY <3>1, StoreAfter DEF Untouched, IsRead
    <3>2. CASE Commit(call[c].root) /\ ~Conflicts(c)
      <4>1. call[c].root \in Roots /\ Store'.root = call[c].root
        BY <1>9, <3>2, SwapIsAccepted, StoreAfter
      <4>2. loaded.up /\ Store = loaded /\ call[c].revision = loaded.revision /\ Store.root \in Roots
        BY <1>9, <3>2, LoadTyped DEF IInv, ReadIsOfItsRevision, ReplaceShellState, Conflicts, Store, LoadedType
      <4>3. call[c].root.values["launchLights"] = loaded.root.values["launchLights"]
        BY <1>9, <4>2 DEF IInv, ReadIsOfItsRevision, ReplaceShellState, Roots, Keys
      <4> QED BY <4>1, <4>2, <4>3
    <3> QED BY <1>9, <3>1, <3>2 DEF ReplaceShellState
  <2>2. UNCHANGED <<queue, writes>> /\ \A d \in Callers : call'[d].command = call[d].command
    <3>1. PICK reply : Answers(c, reply)
      BY <1>9 DEF ReplaceShellState
    <3>2. ASSUME NEW d \in Callers PROVE call'[d].command = call[d].command
      <4>1. CASE d = c
        BY <3>1, <4>1 DEF Answers, IInv, TypeOK
      <4>2. CASE d # c
        BY <3>1, <4>2 DEF Answers, IInv, TypeOK
      <4> QED BY <4>1, <4>2
    <3> QED BY <1>9, <3>2 DEF ReplaceShellState
  <2>3. CASE c # Writer
    <3>1. call'[Writer] = call[Writer]
      BY <1>0, <1>9, <2>3 DEF ReplaceShellState, Answers, IInv, TypeOK
    <3> QED BY <1>0, <2>1, <2>2, <3>1, QueuesKept DEF IInv, QueueInOrder
  <2>4. CASE c = Writer
    <3>1. /\ call[Writer].is = "sent" /\ call[Writer].command = "replace" /\ queue # <<>>
          /\ call'[Writer].is = "answered" /\ call'[Writer].write = call[Writer].write
      BY <1>0, <1>9, <2>4 DEF ReplaceShellState, Answers, IInv, TypeOK, QueueInOrder
    <3> QED BY <1>0, <2>1, <2>2, <3>1, QueuesAnswered DEF IInv, QueueInOrder
  <2> QED BY <2>3, <2>4
<1>10. CASE SaveLitKind \/ ForgetDevice
  <2>1. UNCHANGED <<queue, call>>
    BY <1>10 DEF SaveLitKind, ForgetDevice, RustWrites
  <2>2. Store'.root.values["launchLights"] = Store.root.values["launchLights"]
    <3>1. Store.root \in Roots
      BY LoadTyped DEF IInv, LoadedType
    <3>2. ASSUME NEW k \in Keys \ {"launchLights"}, NEW value \in SUBSET Writes, RustWrites(k, value)
          PROVE  Store'.root.values["launchLights"] = Store.root.values["launchLights"]
      <4>1. CASE CommitFails
        BY <4>1, StoreAfter
      <4>2. CASE Commit(With(Store.root, k, value))
        <5>1. Store'.root = With(Store.root, k, value)
          BY <3>1, <4>2, WithTyped, StoreAfter
        <5> QED BY <3>1, <5>1 DEF With, Roots, Keys
      <4> QED BY <3>2, <4>1, <4>2 DEF RustWrites
    <3>3. writes + 1 \in Writes
      BY <1>10, BoundsTyped DEF SaveLitKind, ForgetDevice, RustWrites, IInv, TypeOK, Writes
    <3>4. {writes + 1} \in SUBSET Writes /\ Store.root.values["ledStrips"] \cup {writes + 1} \in SUBSET Writes
      BY <3>1, <3>3 DEF Roots, Keys
    <3> QED BY <1>10, <3>2, <3>4 DEF SaveLitKind, ForgetDevice, Keys
  <2> QED BY <2>1, <2>2, QueuesKept DEF IInv, QueueInOrder
<1>11. CASE SetPreference \/ UpdateShellState
  BY <1>11, QueuesGrow
<1>12. CASE WriteAnswered
  <2>1. ASSUME NEW answer, Settle(answer) PROVE Queues'
    BY <1>12, <2>1, QueuesSettled
  <2>2. CASE UpdateSwaps \/ UpdateReadsAgain
    <3>1. UNCHANGED <<queue, writes, loaded, file, bak>>
      BY <1>12, <2>2 DEF WriteAnswered, UpdateSwaps, UpdateReadsAgain, diskVars
    <3>2. /\ call'[Writer].is = "sent" /\ call'[Writer].command # "patch"
          /\ \A c \in Windows : call'[c] = call[c]
      <4>1. CASE UpdateSwaps
        BY <1>0, <4>1 DEF UpdateSwaps, IInv, TypeOK
      <4>2. CASE UpdateReadsAgain
        BY <1>0, <4>2 DEF UpdateReadsAgain, Get, NoCall, IInv, TypeOK
      <4> QED BY <2>2, <4>1, <4>2
    <3>3. /\ call[Writer].is = "answered" /\ call[Writer].command # "patch"
      BY <1>12, <2>2, <1>0 DEF WriteAnswered, UpdateSwaps, UpdateReadsAgain, IInv, QueueInOrder
    <3>4. Store' = Store
      BY <3>1, StoreAfter DEF Untouched
    <3>5. QueueInOrder'
      BY <3>1, <3>2, <3>3 DEF IInv, QueueInOrder
    <3>6. QueueIsNewer'
      BY <3>1, <3>3, <3>4 DEF IInv, QueueIsNewer
    <3> QED BY <3>5, <3>6 DEF Queues
  <2> QED BY <1>12, <2>1, <2>2 DEF WriteAnswered, SaveSettles, UpdateFindsNothing, UpdateSettles
<1> QED BY <1>1, <1>3, <1>4, <1>5, <1>6, <1>7, <1>8, <1>9, <1>10, <1>11, <1>12 DEF Next

-----------------------------------------------------------------------------
(* The theorems *)

LEMMA IInvInit == Init => IInv
<1> SUFFICES ASSUME Init PROVE IInv
  OBVIOUS
<1>1. TypeOK
  BY TypeInit
<1>2. HeldIsWhatLoads /\ BackupIsGood /\ DiskIsKnown /\ Asleep
  BY DEF Init, HeldIsWhatLoads, BackupIsGood, DiskIsKnown, Asleep, NotLoaded, NoFile, NoCall
<1>3. Numbered
  BY DEF Init, Numbered, Store, Load, NotLoaded, NoFile, NoState, NoValues
<1>4. \A c \in Callers : ReadIsOfItsRevision(c)
  BY DEF Init, ReadIsOfItsRevision, NoCall
<1>5. QueueInOrder /\ QueueIsNewer
  BY DEF Init, QueueInOrder, QueueIsNewer, NoCall, Callers
<1> QED BY <1>1, <1>2, <1>3, <1>4, <1>5 DEF IInv

LEMMA IInvNext == IInv /\ [Next]_vars => IInv'
<1> SUFFICES ASSUME IInv, [Next]_vars PROVE IInv'
  OBVIOUS
<1>1. TypeOK'
  BY TypeNext DEF IInv
<1> QED BY <1>1, DiskNext, AsleepNext, NumberedNext, ReadsNext, QueuesNext
        DEF IInv, Disk, ReadsAreGood, Queues

LEMMA Inductive == Spec => []IInv
  BY IInvInit, IInvNext, PTL DEF Spec

\* The store, the windows and the calls between them keep to their types, a
\* retried write to its attempts.
THEOREM TypesHold == Spec => []TypeOK
<1>1. IInv => TypeOK
  BY DEF IInv
<1> QED BY <1>1, Inductive, PTL

\* What the store holds in memory is always what a launch would read back, for
\* any number of failed writes and rotations (commit writes the disk first).
THEOREM MemoryIsOnDisk == Spec => []HeldIsWhatLoads
<1>1. IInv => HeldIsWhatLoads
  BY DEF IInv
<1> QED BY <1>1, Inductive, PTL

\* The backup is never a damaged file, however often files are damaged and
\* processes die between a rotation and its write (write_state_file).
THEOREM BackupStaysGood == Spec => []BackupIsGood
<1>1. IInv => BackupIsGood
  BY DEF IInv
<1> QED BY <1>1, Inductive, PTL

\* The settings implement their promise: for any windows, writes, lost races,
\* failures, crashes and damage, an accepted write changes its own key of all
\* that was accepted before it and nothing else changes a value (patch, replace).
THEOREM PromiseKept == Spec => SettingsKeepPromise
<1>1. Init => Promise!Init
  <2> SUFFICES ASSUME Init PROVE Promise!Init
    OBVIOUS
  <2>1. file.root.values = NoValues /\ bak.root.values = NoValues /\ ~loaded.up
    BY DEF Init, NotLoaded, NoFile, NoState
  <2>2. Load.values = NoValues
    BY <2>1 DEF Load, NoState
  <2>3. Store.root.values = NoValues
    BY <2>1, <2>2 DEF Store
  <2> QED BY <2>1, <2>3 DEF Init, Promise!Init, Promise!Nothing, NoValues
<1>2. IInv /\ TypeOK' /\ [Next]_vars => [Promise!Next]_(Promise!vars)
  <2> SUFFICES ASSUME IInv, TypeOK', [Next]_vars PROVE Promise!Next
    BY DEF Promise!vars
  <2>1. alive' \in BOOLEAN
    BY DEF TypeOK
  <2>2. Store.diskIsGood => file.root.values = Store.root.values
    BY StoreOnDisk
  <2>3. CASE Untouched \/ IsRead \/ CommitFails \/ ComesDown
    <3>1. Store'.root.values = Store.root.values
      BY <2>3, StoreAfter
    <3>2. bak'.root.values \in {bak.root.values, Store.root.values}
      BY <2>2, <2>3 DEF Untouched, IsRead, CommitFails, ComesDown
    <3> QED BY <2>1, <3>1, <3>2 DEF Promise!Next, Promise!Housekeep, Promise!Rotates
  <2>4. ASSUME NEW root \in Roots, Commit(root), Accepted(root), alive, alive' PROVE Promise!Next
    <3>1. Store'.root.values = root.values /\ alive' = TRUE
      BY <2>1, <2>4, StoreAfter
    <3>2. bak'.root.values \in {bak.root.values, Store.root.values}
      BY <2>2, <2>4 DEF Commit, Rotate
    <3>3. CASE root.values = Store.root.values
      BY <2>1, <3>1, <3>2, <3>3 DEF Promise!Next, Promise!Housekeep, Promise!Rotates
    <3>4. 1..writes' \subseteq Writes
      BY BoundsTyped DEF TypeOK, Writes
    <3>5. ASSUME NEW k \in Keys \ {"ledStrips"}, NEW w \in 1..writes',
                 \A old \in Store.root.values[k] : old < w,
                 root.values = [Store.root.values EXCEPT ![k] = {w}]
          PROVE  Promise!Next
      <4>1. Promise!Accept(k, w)
        BY <3>1, <3>2, <3>5 DEF Promise!Accept, Promise!Rotates, Promise!Replace
      <4> QED BY <3>4, <4>1 DEF Promise!Next
    <3>6. ASSUME NEW w \in 1..writes',
                 root.values = [Store.root.values EXCEPT !["ledStrips"] = @ \cup {w}]
          PROVE  Promise!Next
      <4>1. Promise!Accept("ledStrips", w)
        BY <3>1, <3>2, <3>6 DEF Promise!Accept, Promise!Rotates, Promise!Edit
      <4> QED BY <3>4, <4>1 DEF Promise!Next, Keys
    <3> QED BY <2>4, <3>3, <3>5, <3>6 DEF Accepted
  <2>5. ASSUME NEW how \in {"missing", "corrupt"}, Damage(how) PROVE Promise!Next
    <3>1. Store'.root.values \in {bak.root.values, Promise!Nothing} /\ UNCHANGED <<alive, bak>> /\ ~alive
      <4>1. Store'.root \in {NoState, bak.root}
        BY <2>5, StoreAfter
      <4>2. NoState.values = Promise!Nothing
        BY DEF NoState, NoValues, Promise!Nothing
      <4> QED BY <2>5, <4>1, <4>2 DEF Damage
    <3> QED BY <3>1 DEF Promise!Next, Promise!Lose
  <2> QED BY <2>3, <2>4, <2>5, StoreSteps
<1>3. IInv /\ [Next]_vars => TypeOK'
  BY IInvNext DEF IInv
<1> QED BY <1>1, <1>2, <1>3, Inductive, PTL DEF Spec, SettingsKeepPromise, Promise!Spec

-----------------------------------------------------------------------------
(* The windows follow the store *)

Stored(k) == Store.root.values[k]

\* A window that has an answer to its read, or writes the migrated state back.
Reads(w) == call[w].is = "answered" \/ (call[w].is = "sent" /\ call[w].command = "replace")

\* The events on their way to a window that tell it of a key.
Ahead(w, k) == {i \in 1..Len(inbox[w]) : inbox[w][i].writer # w /\ k \in DOMAIN inbox[w][i].set}

\* The last of them brings what is stored; without any, that is shown already.
Coming(w, k) ==
  /\ Ahead(w, k) = {} => shown[w][k] = Stored(k)
  /\ \A i \in Ahead(w, k) : (\A j \in Ahead(w, k) : j <= i) => inbox[w][i].set[k] = Stored(k)

\* At each stage of a window's life what it has of a key leads to what is stored.
KeepsUp(w, k) ==
  /\ Reads(w) => call[w].root.values[k] = Stored(k)
  /\ phase[w] = "joining" => shown[w][k] = Stored(k)
  /\ phase[w] = "live" => Coming(w, k)
AllKeepUp == \A w \in Windows : \A k \in OthersKeys(w) \ missed[w] : KeepsUp(w, k)

\* A window calls only while it boots, and hears nothing before it listens.
WindowsKnown ==
  \A w \in Windows : /\ phase[w] # "live" => inbox[w] = <<>>
                     /\ call[w].is # "idle" => phase[w] = "booting"

\* The main window's own preference: nobody else writes it, and the head of the
\* queue is the write the command in flight makes.
MainKnown ==
  /\ phase[Main] \in {"closed", "booting"} => queue = <<>>
  /\ Reads(Main) => call[Main].root.values["launchLights"] = Stored("launchLights")
  /\ \A i \in 1..Len(inbox[Main]) :
       inbox[Main][i].writer # Main => "launchLights" \notin DOMAIN inbox[Main][i].set
  /\ call[Writer].is # "idle" => (call[Writer].command = "patch" <=> Head(queue).op = "save")
  /\ (call[Writer].is = "answered" /\ call[Writer].command = "patch"
        /\ call[Writer].answer = "applied") => Stored("launchLights") = {Head(queue).id}

\* While no save is queued and the newest one landed, what is shown is stored.
ShownIsSaved ==
  (/\ phase[Main] \in {"joining", "live"} /\ saved = "applied"
   /\ \A i \in 1..Len(queue) : queue[i].op # "save")
  => shown[Main]["launchLights"] = Stored("launchLights")

WInv == IInv /\ WindowsKnown /\ AllKeepUp /\ MainKnown /\ ShownIsSaved

LEMMA Apart ==
  /\ Main \in Windows /\ Followers \subseteq Windows /\ Windows \subseteq Callers /\ Writer \in Callers
  /\ Main \notin Followers /\ Writer \notin Windows /\ "rust" \notin Windows
  BY CallersAreApart DEF Windows, Callers

\* A replace that the store takes changes no key the windows follow: the caller
\* read what the store still holds.
LEMMA SwapSays ==
  ASSUME IInv, NEW c \in Callers, ReplaceShellState(c)
  PROVE  /\ \A k \in Followed : Stored(k)' = Stored(k)
         /\ Silent \/ \E root \in Roots : Announce(Main, {}, root) /\ Store'.root = root
<1>1. CASE Silent /\ (Untouched \/ IsRead \/ CommitFails)
  BY <1>1, StoreAfter DEF Stored
<1>2. CASE /\ ~Conflicts(c) /\ Commit(call[c].root)
           /\ Announce(Main, Diff(Store.root, call[c].root), call[c].root)
  <2>1. call[c].root \in Roots /\ Store'.root = call[c].root
    BY <1>2, SwapIsAccepted, StoreAfter
  <2>2. loaded.up /\ Store = loaded /\ call[c].revision = loaded.revision /\ Store.root \in Roots
    BY <1>2, LoadTyped DEF IInv, ReadIsOfItsRevision, ReplaceShellState, Conflicts, Store, LoadedType
  <2>3. \A k \in Followed : call[c].root.values[k] = Store.root.values[k]
    BY <2>2 DEF IInv, ReadIsOfItsRevision, ReplaceShellState, Roots, Keys, Followed
  <2>4. Diff(Store.root, call[c].root) = {}
    BY <2>3 DEF Diff
  <2> QED BY <1>2, <2>1, <2>3, <2>4 DEF Stored
<1> QED BY <1>1, <1>2 DEF ReplaceShellState, Untouched, IsRead

\* A patch is the writer's, of the main window's own preference.
LEMMA PatchSays ==
  ASSUME IInv, NEW c \in Callers, PatchShellState(c)
  PROVE  /\ c = Writer /\ queue # <<>>
         /\ \/ Silent /\ Answers(c, "failed") /\ \A k \in Keys : Stored(k)' = Stored(k)
            \/ /\ Answers(c, "applied") /\ Stored("launchLights")' = {Head(queue).id}
               /\ \A k \in Keys \ {"launchLights"} : Stored(k)' = Stored(k)
               /\ \E root \in Roots : Announce(Main, {"launchLights"}, root) /\ Store'.root = root
<1> DEFINE root == With(Store.root, "launchLights", {call[c].write})
<1>1. c = Writer /\ queue # <<>> /\ call[c].write = Head(queue).id
  BY DEF PatchShellState, IInv, QueueInOrder, Callers
<1>2. CASE CommitFails /\ Silent /\ Answers(c, "failed")
  BY <1>1, <1>2, StoreAfter DEF Stored
<1>3. CASE Commit(root) /\ Announce(Main, {"launchLights"}, root) /\ Answers(c, "applied")
  <2>1. root \in Roots /\ Store'.root = root
    BY <1>3, PatchIsAccepted, StoreAfter
  <2>2. Store.root \in Roots
    BY LoadTyped DEF IInv, LoadedType
  <2>3. root.values = [Store.root.values EXCEPT !["launchLights"] = {call[c].write}]
    BY DEF With
  <2>4. /\ root.values["launchLights"] = {Head(queue).id}
        /\ \A k \in Keys \ {"launchLights"} : root.values[k] = Store.root.values[k]
    <3> HIDE DEF root
    <3> QED BY <1>1, <2>2, <2>3 DEF Roots, Keys
  <2> HIDE DEF root
  <2> QED BY <1>1, <1>3, <2>1, <2>4 DEF Stored
<1> QED BY <1>2, <1>3 DEF PatchShellState

\* What Rust writes of its own is none of the main window's preferences.
LEMMA RustSays ==
  ASSUME IInv, SaveLitKind \/ ForgetDevice
  PROVE  \/ Silent /\ \A k \in Followed : Stored(k)' = Stored(k)
         \/ \E keys \in SUBSET {"lastLitKind"}, root \in Roots :
              /\ Announce("rust", keys, root) /\ Store'.root = root
              /\ \A k \in Followed \ keys : root.values[k] = Stored(k)
<1>0. Store.root \in Roots
  BY LoadTyped DEF IInv, LoadedType
<1>1. ASSUME NEW k \in Keys \ {"launchLights"}, NEW value \in SUBSET Writes, RustWrites(k, value)
      PROVE  \/ Silent /\ \A j \in Followed : Stored(j)' = Stored(j)
             \/ \E keys \in SUBSET {"lastLitKind"}, root \in Roots :
                  /\ Announce("rust", keys, root) /\ Store'.root = root
                  /\ \A j \in Followed \ keys : root.values[j] = Stored(j)
  <2> DEFINE root == With(Store.root, k, value)
             keys == {k} \cap Followed
  <2>1. CASE CommitFails /\ Silent
    BY <2>1, StoreAfter DEF Stored
  <2>2. CASE Commit(root) /\ Announce("rust", keys, root)
    <3>1. root \in Roots /\ root.values = [Store.root.values EXCEPT ![k] = value]
      BY <1>0, WithTyped
    <3>2. Store'.root = root
      BY <2>2, <3>1, StoreAfter
    <3>3. keys \in SUBSET {"lastLitKind"}
      BY DEF Followed, Keys
    <3>4. \A j \in Followed \ keys : root.values[j] = Stored(j)
      <4> HIDE DEF root
      <4> QED BY <1>0, <3>1 DEF Stored, Roots, Followed, Keys
    <3> HIDE DEF root, keys
    <3> QED BY <2>2, <3>1, <3>2, <3>3, <3>4
  <2> QED BY <1>1, <2>1, <2>2 DEF RustWrites
<1>2. writes + 1 \in Writes
  BY BoundsTyped DEF SaveLitKind, ForgetDevice, RustWrites, IInv, TypeOK, Writes
<1>3. {writes + 1} \in SUBSET Writes /\ Store.root.values["ledStrips"] \cup {writes + 1} \in SUBSET Writes
  BY <1>0, <1>2 DEF Roots, Keys
<1> QED BY <1>1, <1>3 DEF SaveLitKind, ForgetDevice, Keys

\* A window keeps up with a key that a step neither changes nor mentions to it.
LEMMA KeepsUpStill ==
  ASSUME NEW w \in Windows, NEW k \in OthersKeys(w) \ missed[w], AllKeepUp,
         Stored(k)' = Stored(k), phase'[w] = phase[w], inbox'[w] = inbox[w],
         shown'[w][k] = shown[w][k],
         Reads(w)' => Reads(w) /\ call'[w].root.values[k] = call[w].root.values[k]
  PROVE  KeepsUp(w, k)'
<1>1. KeepsUp(w, k)
  BY DEF AllKeepUp
<1>2. Coming(w, k)' <=> Coming(w, k)
  BY DEF Coming, Ahead
<1> QED BY <1>1, <1>2 DEF KeepsUp

\* A window that is closed, or boots and has read nothing yet, has nothing to keep.
LEMMA KeepsUpEarly ==
  ASSUME NEW w, NEW k, ~Reads(w)', phase'[w] \notin {"joining", "live"}
  PROVE  KeepsUp(w, k)'
  BY DEF KeepsUp

\* An announced write reaches each window that listens, behind what is on its way.
LEMMA KeepsUpTold ==
  ASSUME IInv, WindowsKnown, AllKeepUp, UNCHANGED <<phase, shown>>,
         NEW writer, NEW keys \in SUBSET Followed, NEW root \in Roots,
         Announce(writer, keys, root), Store'.root = root,
         \A j \in Followed \ keys : root.values[j] = Stored(j),
         NEW w \in Windows, NEW k \in OthersKeys(w) \ missed'[w],
         writer # w \/ k \notin keys,
         Reads(w)' => Reads(w) /\ call'[w].root = call[w].root
  PROVE  KeepsUp(w, k)'
<1>1. k \in Followed /\ inbox[w] \in Seq(Events) /\ missed \in [Windows -> SUBSET Followed]
  BY DEF OthersKeys, Followed, IInv, TypeOK
<1>2. CASE phase[w] # "live"
  <2>1. inbox'[w] = inbox[w]
    BY <1>2 DEF Announce
  <2>2. CASE k \notin keys
    <3>1. k \in OthersKeys(w) \ missed[w]
      BY DEF Announce
    <3>2. Stored(k)' = Stored(k)
      BY <1>1, <2>2 DEF Stored
    <3> QED BY <2>1, <3>1, <3>2, KeepsUpStill
  <2>3. CASE k \in keys
    <3>1. phase[w] \notin {"booting", "joining"}
      BY <2>3 DEF Announce
    <3>2. ~Reads(w)
      BY <3>1 DEF WindowsKnown, Reads
    <3> QED BY <1>2, <3>1, <3>2, KeepsUpEarly
  <2> QED BY <2>2, <2>3
<1>3. CASE phase[w] = "live"
  <2> DEFINE event == [writer |-> writer, set |-> [j \in keys |-> root.values[j]]]
  <2>1. inbox'[w] = Append(inbox[w], event) /\ k \notin missed[w]
    BY <1>3 DEF Announce
  <2>2. /\ Len(inbox[w]) \in Nat /\ Len(inbox'[w]) = Len(inbox[w]) + 1
        /\ inbox'[w][Len(inbox[w]) + 1] = event
        /\ \A i \in 1..Len(inbox[w]) : inbox'[w][i] = inbox[w][i]
    <3> HIDE DEF event
    <3> QED BY <1>1, <2>1
  <2>3. DOMAIN event.set = keys /\ event.writer = writer /\ (k \in keys => event.set[k] = root.values[k])
    OBVIOUS
  <2>4. ~Reads(w)'
    BY <1>3 DEF WindowsKnown, Reads
  <2>5. KeepsUp(w, k)
    BY <2>1 DEF AllKeepUp
  <2>6. CASE k \notin keys
    <3> HIDE DEF event
    <3>1. Ahead(w, k)' = Ahead(w, k)
      BY <2>2, <2>3, <2>6 DEF Ahead
    <3>2. Stored(k)' = Stored(k)
      BY <1>1, <2>6 DEF Stored
    <3>3. \A i \in Ahead(w, k) : inbox'[w][i] = inbox[w][i]
      BY <2>2 DEF Ahead
    <3>4. Coming(w, k)'
      BY <1>3, <2>5, <3>1, <3>2, <3>3 DEF KeepsUp, Coming
    <3> QED BY <1>3, <2>4, <3>4 DEF KeepsUp
  <2>7. CASE k \in keys
    <3> HIDE DEF event
    <3>1. Len(inbox[w]) + 1 \in Ahead(w, k)'
      BY <2>2, <2>3, <2>7 DEF Ahead
    <3>2. \A i \in Ahead(w, k)' : i \in Nat /\ i <= Len(inbox[w]) + 1
      BY <2>2 DEF Ahead
    <3>3. ASSUME NEW i \in Ahead(w, k)', \A j \in Ahead(w, k)' : j <= i
          PROVE  inbox'[w][i].set[k] = Stored(k)'
      <4>1. i = Len(inbox[w]) + 1
        BY <2>2, <3>1, <3>2, <3>3
      <4> QED BY <2>2, <2>3, <2>7, <4>1 DEF Stored
    <3>4. Coming(w, k)'
      BY <3>1, <3>3 DEF Coming
    <3> QED BY <1>3, <2>4, <3>4 DEF KeepsUp
  <2> QED BY <2>6, <2>7
<1> QED BY <1>2, <1>3

\* A delivered event is shown, or another that tells of the key comes behind it.
LEMMA KeepsUpTakes ==
  ASSUME IInv, WindowsKnown, AllKeepUp, NEW w \in Windows, Delivered(w),
         NEW k \in OthersKeys(w) \ missed[w]
  PROVE  KeepsUp(w, k)'
<1>1. k \in Followed /\ inbox[w] \in Seq(Events) /\ inbox[w] # <<>> /\ inbox \in [Windows -> Seq(Events)]
      /\ shown \in [Windows -> [Followed -> SUBSET Writes]]
  BY DEF OthersKeys, Followed, IInv, TypeOK, Delivered
<1>2. phase[w] = "live" /\ UNCHANGED <<phase, call, missed, loaded, file, bak>>
  BY <1>1 DEF WindowsKnown, Delivered, diskVars
<1>3. ~Reads(w)' /\ Stored(k)' = Stored(k)
  BY <1>2 DEF WindowsKnown, Reads, Stored, Store, Load
<1>4. inbox'[w] = Tail(inbox[w])
  BY <1>1 DEF Delivered
<1>5. /\ Len(inbox[w]) \in Nat \ {0} /\ Len(inbox'[w]) = Len(inbox[w]) - 1
      /\ Head(inbox[w]) = inbox[w][1]
      /\ \A i \in 1..Len(inbox'[w]) : inbox'[w][i] = inbox[w][i + 1]
  BY <1>1, <1>4
<1>6. Coming(w, k)
  BY <1>2 DEF AllKeepUp, KeepsUp
<1>7. \A i \in Nat \ {0} : i \in Ahead(w, k)' <=> i + 1 \in Ahead(w, k)
  BY <1>5 DEF Ahead
<1>8. \A i \in Ahead(w, k) : i \in Nat \ {0}
  BY DEF Ahead
<1>9. \A i \in Ahead(w, k)' : i \in Nat \ {0}
  BY <1>5 DEF Ahead
<1>10. ASSUME NEW i \in Ahead(w, k)', \A j \in Ahead(w, k)' : j <= i
       PROVE  inbox'[w][i].set[k] = Stored(k)'
  <2>1. i + 1 \in Ahead(w, k) /\ i \in Nat \ {0}
    BY <1>7, <1>9, <1>10
  <2>2. ASSUME NEW j \in Ahead(w, k) PROVE j <= i + 1
    <3>1. CASE j = 1
      BY <2>1, <3>1
    <3>2. CASE j # 1
      <4>1. j \in Nat /\ j - 1 \in Nat \ {0} /\ (j - 1) + 1 = j
        BY <1>8, <2>2, <3>2
      <4>2. j - 1 \in Ahead(w, k)'
        BY <1>7, <2>2, <4>1
      <4>3. j - 1 <= i
        BY <1>10, <4>2
      <4> QED BY <2>1, <4>1, <4>3
    <3> QED BY <3>1, <3>2
  <2>3. inbox[w][i + 1].set[k] = Stored(k)
    BY <1>6, <2>1, <2>2 DEF Coming
  <2>4. inbox'[w][i] = inbox[w][i + 1]
    BY <1>5, <1>10 DEF Ahead
  <2> QED BY <1>3, <2>3, <2>4
<1>11. ASSUME Ahead(w, k)' = {} PROVE shown'[w][k] = Stored(k)'
  <2>1. \A j \in Ahead(w, k) : j = 1
    <3>1. ASSUME NEW j \in Ahead(w, k), j # 1 PROVE FALSE
      <4>1. j - 1 \in Nat \ {0} /\ (j - 1) + 1 = j
        BY <1>8, <3>1
      <4> QED BY <1>7, <1>11, <3>1, <4>1
    <3> QED BY <3>1
  <2>2. CASE 1 \in Ahead(w, k)
    <3>1. inbox[w][1].set[k] = Stored(k)
      BY <1>6, <2>1, <2>2 DEF Coming
    <3>2. inbox[w][1].writer # w /\ k \in DOMAIN inbox[w][1].set
      BY <2>2 DEF Ahead
    <3>3. shown'[w] = Merge(shown[w], inbox[w][1].set)
      BY <1>1, <1>5, <3>2 DEF Delivered
    <3> QED BY <1>1, <1>3, <3>1, <3>2, <3>3 DEF Merge
  <2>3. CASE 1 \notin Ahead(w, k)
    <3>1. Ahead(w, k) = {}
      BY <2>1, <2>3
    <3>2. shown[w][k] = Stored(k)
      BY <1>6, <3>1 DEF Coming
    <3>3. inbox[w][1].writer = w \/ k \notin DOMAIN inbox[w][1].set
      BY <1>5, <2>3 DEF Ahead
    <3>4. shown'[w] = IF inbox[w][1].writer = w THEN shown[w] ELSE Merge(shown[w], inbox[w][1].set)
      BY <1>1, <1>5 DEF Delivered
    <3>5. shown'[w][k] = shown[w][k]
      BY <1>1, <3>3, <3>4 DEF Merge
    <3> QED BY <1>3, <3>2, <3>5
  <2> QED BY <2>2, <2>3
<1>12. Coming(w, k)'
  BY <1>10, <1>11 DEF Coming
<1> QED BY <1>2, <1>3, <1>12 DEF KeepsUp

LEMMA WindowsKnownNext == ASSUME IInv, WindowsKnown, [Next]_vars PROVE WindowsKnown'
<1>0. /\ call \in [Callers -> CallType] /\ inbox \in [Windows -> Seq(Events)]
      /\ phase \in [Windows -> {"closed", "booting", "joining", "live"}]
  BY DEF IInv, TypeOK, CallType
<1>1. SUFFICES ASSUME NEW w \in Windows
               PROVE  /\ phase'[w] # "live" => inbox'[w] = <<>>
                      /\ call'[w].is # "idle" => phase'[w] = "booting"
  BY DEF WindowsKnown
<1>2. /\ phase[w] # "live" => inbox[w] = <<>>
      /\ call[w].is # "idle" => phase[w] = "booting"
  BY DEF WindowsKnown
<1>3. w \in Callers /\ w # Writer
  BY Apart
<1>4. CASE Exit \/ CrashInCommit
  <2>1. Ends
    BY <1>4 DEF Exit, CrashInCommit
  <2> QED BY <1>3, <2>1 DEF Ends, NoCall
<1>5. CASE UNCHANGED vars \/ \E how \in {"missing", "corrupt"} : Damage(how)
  BY <1>2, <1>5 DEF vars, windowVars, Damage
<1>6. ASSUME NEW v \in Windows, phase[v] = "closed",
             phase' = [phase EXCEPT ![v] = "booting"], UNCHANGED inbox,
             call' = [call EXCEPT ![v] = Get(1, 0)]
      PROVE  /\ phase'[w] # "live" => inbox'[w] = <<>>
             /\ call'[w].is # "idle" => phase'[w] = "booting"
  <2>1. CASE v = w
    BY <1>0, <1>2, <1>6, <2>1
  <2>2. CASE v # w
    BY <1>0, <1>2, <1>6, <2>2
  <2> QED BY <2>1, <2>2
<1>7. CASE Launch
  BY <1>6, <1>7, Apart DEF Launch, IInv, Asleep
<1>8. CASE \E v \in Followers : OpenFollower(v)
  BY <1>6, <1>8, Apart DEF OpenFollower
<1>9. ASSUME NEW v \in Windows, ReadAnswered(v)
      PROVE  /\ phase'[w] # "live" => inbox'[w] = <<>>
             /\ call'[w].is # "idle" => phase'[w] = "booting"
  <2>1. phase[v] = "booting" /\ UNCHANGED inbox /\ v \in Callers
    BY <1>9, Apart DEF ReadAnswered, WindowsKnown
  <2>2. CASE WritesBack(v) \/ ReadsAgain(v)
    <3>1. UNCHANGED phase /\ (w # v => call'[w] = call[w])
      BY <1>0, <1>3, <2>2 DEF WritesBack, ReadsAgain
    <3> QED BY <1>2, <2>1, <3>1
  <2>3. CASE Hydrates(v)
    <3>1. /\ phase' = [phase EXCEPT ![v] = "joining"] /\ call' = [call EXCEPT ![v] = NoCall]
      BY <2>3 DEF Hydrates
    <3>2. CASE w = v
      BY <1>0, <1>2, <2>1, <3>1, <3>2 DEF NoCall
    <3>3. CASE w # v
      BY <1>0, <1>2, <2>1, <3>1, <3>3
    <3> QED BY <3>2, <3>3
  <2> QED BY <1>9, <2>2, <2>3 DEF ReadAnswered
<1>10. ASSUME NEW v \in Windows, Joins(v) \/ Delivered(v)
       PROVE  /\ phase'[w] # "live" => inbox'[w] = <<>>
              /\ call'[w].is # "idle" => phase'[w] = "booting"
  <2>1. CASE Joins(v)
    <3>1. phase[v] = "joining" /\ phase' = [phase EXCEPT ![v] = "live"] /\ UNCHANGED <<inbox, call>>
      BY <2>1 DEF Joins
    <3> QED BY <1>0, <1>2, <3>1
  <2>2. CASE Delivered(v)
    <3>1. phase[v] = "live" /\ UNCHANGED <<phase, call>> /\ inbox' = [inbox EXCEPT ![v] = Tail(@)]
      BY <2>2 DEF Delivered, WindowsKnown
    <3> QED BY <1>0, <1>2, <3>1
  <2> QED BY <1>10, <2>1, <2>2
<1>11. ASSUME NEW c \in Callers, GetShellState(c) \/ PatchShellState(c) \/ ReplaceShellState(c)
       PROVE  /\ phase'[w] # "live" => inbox'[w] = <<>>
              /\ call'[w].is # "idle" => phase'[w] = "booting"
  <2>1. UNCHANGED phase /\ (phase[w] # "live" => inbox'[w] = inbox[w])
    BY <1>11 DEF GetShellState, PatchShellState, ReplaceShellState, Silent, Announce
  <2>2. call[c].is # "idle" /\ (w # c => call'[w] = call[w])
    <3>1. CASE GetShellState(c)
      BY <1>0, <1>3, <3>1 DEF GetShellState
    <3>2. CASE PatchShellState(c) \/ ReplaceShellState(c)
      <4>1. PICK reply : Answers(c, reply)
        BY <3>2 DEF PatchShellState, ReplaceShellState
      <4>2. call[c].is # "idle"
        BY <3>2 DEF PatchShellState, ReplaceShellState
      <4> QED BY <1>0, <1>3, <4>1, <4>2 DEF Answers
    <3> QED BY <1>11, <3>1, <3>2
  <2> QED BY <1>2, <2>1, <2>2
<1>12. CASE SaveLitKind \/ ForgetDevice
  <2>1. UNCHANGED <<phase, call>> /\ (phase[w] # "live" => inbox'[w] = inbox[w])
    BY <1>12 DEF SaveLitKind, ForgetDevice, RustWrites, Silent, Announce
  <2> QED BY <1>2, <2>1
<1>13. CASE SetPreference \/ UpdateShellState \/ WriteAnswered
  <2>1. UNCHANGED <<phase, inbox>>
    BY <1>13 DEF SetPreference, UpdateShellState, Issues, WriteAnswered
  <2>2. call'[w] = call[w]
    BY <1>0, <1>3, <1>13 DEF SetPreference, UpdateShellState, Enqueue, WriteAnswered, SaveSettles,
         UpdateSwaps, UpdateFindsNothing, UpdateReadsAgain, UpdateSettles, Settle
  <2> QED BY <1>2, <2>1, <2>2
<1> QED BY <1>4, <1>5, <1>7, <1>8, <1>9, <1>10, <1>11, <1>12, <1>13 DEF Next

\* A command answered leaves a window that read with what it read.
LEMMA AnsweredReads ==
  ASSUME IInv, NEW c \in Callers, ReplaceShellState(c) \/ PatchShellState(c), NEW w \in Windows
  PROVE  Reads(w)' => Reads(w) /\ call'[w].root = call[w].root
<1>0. call \in [Callers -> CallType] /\ w \in Callers
  BY Apart DEF IInv, TypeOK, CallType
<1>1. PICK reply : Answers(c, reply)
  BY DEF ReplaceShellState, PatchShellState
<1>2. CASE w # c
  BY <1>0, <1>1, <1>2 DEF Answers, Reads
<1>3. CASE w = c
  <2>1. call[w].is = "sent" /\ call[w].command = "replace"
    BY <1>3 DEF ReplaceShellState, PatchShellState, IInv, QueueInOrder
  <2>2. call'[w].root = call[w].root
    BY <1>0, <1>1, <1>3 DEF Answers
  <2> QED BY <2>1, <2>2 DEF Reads
<1> QED BY <1>2, <1>3

\* No follower is the main window, and none is Rust.
LEMMA OthersAreOthers ==
  ASSUME NEW w \in Windows, NEW k \in OthersKeys(w)
  PROVE  /\ Main # w \/ k # "launchLights"
         /\ "rust" # w /\ k \in Followed /\ k \in Keys
  BY Apart DEF OthersKeys, Followed, Keys

LEMMA AllKeepUpNext == ASSUME IInv, WindowsKnown, AllKeepUp, [Next]_vars PROVE AllKeepUp'
<1>0. /\ call \in [Callers -> CallType] /\ missed \in [Windows -> SUBSET Followed]
      /\ phase \in [Windows -> {"closed", "booting", "joining", "live"}]
      /\ shown \in [Windows -> [Followed -> SUBSET Writes]]
  BY DEF IInv, TypeOK, CallType
<1>1. SUFFICES ASSUME NEW w \in Windows, NEW k \in OthersKeys(w) \ missed'[w] PROVE KeepsUp(w, k)'
  BY DEF AllKeepUp, OthersKeys
<1>2. w \in Callers /\ w # Writer /\ k \in Followed /\ k \in Keys /\ "rust" # w
      /\ (Main # w \/ k # "launchLights")
  BY Apart, OthersAreOthers
<1>3. k \notin missed[w] => KeepsUp(w, k)
  BY DEF AllKeepUp
<1>4. CASE Exit \/ CrashInCommit
  <2>1. Ends
    BY <1>4 DEF Exit, CrashInCommit
  <2> QED BY <1>2, <2>1, KeepsUpEarly DEF Ends, NoCall, Reads
<1>5. CASE \E how \in {"missing", "corrupt"} : Damage(how)
  <2>1. ~alive /\ UNCHANGED <<phase, call>>
    BY <1>5 DEF Damage, windowVars
  <2>2. phase[w] = "closed" /\ call[w].is = "idle"
    BY <1>2, <2>1 DEF IInv, Asleep
  <2> QED BY <2>1, <2>2, KeepsUpEarly DEF Reads
<1>6. ASSUME UNCHANGED <<loaded, file, bak, missed>>, phase'[w] = phase[w], inbox'[w] = inbox[w],
             shown'[w][k] = shown[w][k], call'[w] = call[w]
      PROVE  KeepsUp(w, k)'
  <2>1. Stored(k)' = Stored(k) /\ k \in OthersKeys(w) \ missed[w]
    BY <1>6 DEF Stored, Store, Load
  <2> QED BY <1>6, <2>1, KeepsUpStill DEF Reads
<1>7. CASE UNCHANGED vars
  BY <1>6, <1>7 DEF vars, diskVars, windowVars
<1>8. ASSUME NEW v \in Windows, phase' = [phase EXCEPT ![v] = "booting"],
             call' = [call EXCEPT ![v] = Get(1, 0)],
             UNCHANGED <<loaded, file, bak, missed, inbox, shown>>
      PROVE  KeepsUp(w, k)'
  <2>1. CASE v = w
    BY <1>0, <1>2, <1>8, <2>1, KeepsUpEarly DEF Get, NoCall, Reads
  <2>2. CASE v # w
    BY <1>0, <1>2, <1>6, <1>8, <2>2
  <2> QED BY <2>1, <2>2
<1>9. CASE Launch \/ \E v \in Followers : OpenFollower(v)
  BY <1>8, <1>9, Apart DEF Launch, OpenFollower, diskVars
<1>10. ASSUME NEW v \in Windows, ReadAnswered(v) PROVE KeepsUp(w, k)'
  <2>0. v \in Callers /\ UNCHANGED <<loaded, file, bak, missed, inbox>> /\ call[v].is = "answered"
    BY <1>10, Apart DEF ReadAnswered, diskVars
  <2>1. CASE v # w
    <3>1. phase'[w] = phase[w] /\ shown'[w] = shown[w] /\ call'[w] = call[w]
      BY <1>0, <1>2, <1>10, <2>1 DEF ReadAnswered, WritesBack, ReadsAgain, Hydrates
    <3> QED BY <1>6, <2>0, <3>1
  <2>2. CASE v = w /\ WritesBack(w)
    <3>1. UNCHANGED <<phase, shown>> /\ call'[w].root.values = call[w].root.values /\ Reads(w)
      BY <1>0, <1>2, <2>0, <2>2 DEF WritesBack, Migrated, CallType, Roots, Reads
    <3>2. Stored(k)' = Stored(k) /\ k \in OthersKeys(w) \ missed[w]
      BY <2>0 DEF Stored, Store, Load
    <3> QED BY <2>0, <3>1, <3>2, KeepsUpStill
  <2>3. CASE v = w /\ ReadsAgain(w)
    <3>1. call'[w] = Get(call[w].attempt + 1, 0) /\ UNCHANGED phase
      BY <1>0, <1>2, <2>3 DEF ReadsAgain
    <3>2. phase[w] = "booting"
      BY <2>0, <2>3 DEF WindowsKnown
    <3> QED BY <3>1, <3>2, KeepsUpEarly DEF Get, NoCall, Reads
  <2>4. CASE v = w /\ Hydrates(w)
    <3>1. /\ call'[w] = NoCall /\ phase'[w] = "joining"
          /\ shown'[w][k] = call[w].root.values[k]
      BY <1>0, <1>2, <2>4 DEF Hydrates
    <3>2. Stored(k)' = Stored(k) /\ k \notin missed[w]
      BY <2>0 DEF Stored, Store, Load
    <3>3. Reads(w) => call[w].root.values[k] = Stored(k)
      BY <1>3, <3>2 DEF KeepsUp
    <3> QED BY <2>0, <2>4, <3>1, <3>2, <3>3 DEF KeepsUp, Reads, NoCall
  <2> QED BY <1>10, <2>1, <2>2, <2>3, <2>4 DEF ReadAnswered
<1>11. ASSUME NEW v \in Windows, Joins(v) PROVE KeepsUp(w, k)'
  <2>0. /\ phase[v] = "joining" /\ phase' = [phase EXCEPT ![v] = "live"]
        /\ UNCHANGED <<loaded, file, bak, missed, inbox, shown, call>>
    BY <1>11 DEF Joins, diskVars
  <2>1. CASE v # w
    BY <1>0, <1>6, <2>0, <2>1
  <2>2. CASE v = w
    <3>1. KeepsUp(w, k) /\ Stored(k)' = Stored(k)
      BY <1>3, <2>0 DEF Stored, Store, Load
    <3>2. inbox[w] = <<>> /\ ~Reads(w)
      BY <2>0, <2>2 DEF WindowsKnown, Reads
    <3>3. Ahead(w, k)' = {}
      BY <2>0, <3>2 DEF Ahead
    <3>4. Coming(w, k)'
      BY <2>0, <2>2, <3>1, <3>3 DEF Coming, KeepsUp
    <3> QED BY <1>0, <2>0, <2>2, <3>2, <3>4 DEF KeepsUp, Reads
  <2> QED BY <2>1, <2>2
<1>12. ASSUME NEW v \in Windows, Delivered(v) PROVE KeepsUp(w, k)'
  <2>0. UNCHANGED <<loaded, file, bak, missed, phase, call>>
    BY <1>12 DEF Delivered, diskVars
  <2>1. CASE v # w
    <3>1. shown'[w] = shown[w] /\ inbox'[w] = inbox[w]
      BY <1>0, <1>12, <2>1 DEF Delivered, IInv, TypeOK
    <3> QED BY <1>6, <2>0, <3>1
  <2>2. CASE v = w
    BY <1>12, <2>0, <2>2, KeepsUpTakes
  <2> QED BY <2>1, <2>2
<1>13. ASSUME NEW c \in Callers, GetShellState(c) PROVE KeepsUp(w, k)'
  <2>0. UNCHANGED <<phase, shown, inbox>> /\ Stored(k)' = Stored(k) /\ call[c].is = "sent"
    BY <1>13, StoreAfter DEF GetShellState, diskVars, IsRead, Stored
  <2>1. CASE c # w
    <3>1. call'[w] = call[w] /\ missed'[w] = missed[w]
      BY <1>0, <1>2, <1>13, <2>1 DEF GetShellState
    <3> QED BY <2>0, <3>1, KeepsUpStill DEF Reads
  <2>2. CASE c = w
    <3>1. phase[w] = "booting"
      BY <2>0, <2>2 DEF WindowsKnown
    <3>2. call'[w].root = Store.root
      BY <1>0, <1>2, <1>13, <2>2 DEF GetShellState
    <3> QED BY <2>0, <3>1, <3>2 DEF KeepsUp, Stored
  <2> QED BY <2>1, <2>2
<1>14. ASSUME Silent, UNCHANGED <<phase, shown>>, Stored(k)' = Stored(k),
              Reads(w)' => Reads(w) /\ call'[w].root = call[w].root
       PROVE  KeepsUp(w, k)'
  BY <1>14, KeepsUpStill DEF Silent
<1>15. ASSUME NEW c \in Callers, PatchShellState(c) PROVE KeepsUp(w, k)'
  <2>1. /\ UNCHANGED <<phase, shown>>
        /\ Reads(w)' => Reads(w) /\ call'[w].root = call[w].root
    BY <1>15, AnsweredReads DEF PatchShellState
  <2>2. CASE Silent /\ \A j \in Keys : Stored(j)' = Stored(j)
    BY <1>2, <1>14, <2>1, <2>2
  <2>3. ASSUME NEW root \in Roots, Announce(Main, {"launchLights"}, root), Store'.root = root,
               \A j \in Keys \ {"launchLights"} : Stored(j)' = Stored(j)
        PROVE  KeepsUp(w, k)'
    <3>1. \A j \in Followed \ {"launchLights"} : root.values[j] = Stored(j)
      BY <2>3 DEF Stored, Followed, Keys
    <3>2. {"launchLights"} \in SUBSET Followed /\ (Main # w \/ k \notin {"launchLights"})
      BY <1>2 DEF Followed
    <3> QED BY <2>1, <2>3, <3>1, <3>2, KeepsUpTold
  <2> QED BY <1>15, <2>2, <2>3, PatchSays
<1>16. ASSUME NEW c \in Callers, ReplaceShellState(c) PROVE KeepsUp(w, k)'
  <2>1. /\ UNCHANGED <<phase, shown>>
        /\ Reads(w)' => Reads(w) /\ call'[w].root = call[w].root
    BY <1>16, AnsweredReads DEF ReplaceShellState
  <2>2. \A j \in Followed : Stored(j)' = Stored(j)
    BY <1>16, SwapSays
  <2>3. CASE Silent
    BY <1>2, <1>14, <2>1, <2>2, <2>3
  <2>4. ASSUME NEW root \in Roots, Announce(Main, {}, root), Store'.root = root PROVE KeepsUp(w, k)'
    <3>1. \A j \in Followed : root.values[j] = Stored(j)
      BY <2>2, <2>4 DEF Stored
    <3> QED BY <2>1, <2>4, <3>1, KeepsUpTold
  <2> QED BY <1>16, <2>3, <2>4, SwapSays
<1>17. CASE SaveLitKind \/ ForgetDevice
  <2>1. UNCHANGED <<phase, shown, call>>
    BY <1>17 DEF SaveLitKind, ForgetDevice, RustWrites
  <2>2. Reads(w)' => Reads(w) /\ call'[w].root = call[w].root
    BY <2>1 DEF Reads
  <2>3. CASE Silent /\ \A j \in Followed : Stored(j)' = Stored(j)
    BY <1>2, <1>14, <2>1, <2>2, <2>3
  <2>4. ASSUME NEW keys \in SUBSET {"lastLitKind"}, NEW root \in Roots, Announce("rust", keys, root),
               Store'.root = root, \A j \in Followed \ keys : root.values[j] = Stored(j)
        PROVE  KeepsUp(w, k)'
    <3>1. keys \in SUBSET Followed
      BY DEF Followed
    <3> QED BY <1>2, <2>1, <2>2, <2>4, <3>1, KeepsUpTold
  <2> QED BY <1>17, <2>3, <2>4, RustSays
<1>18. CASE SetPreference \/ UpdateShellState \/ WriteAnswered
  <2>1. UNCHANGED <<loaded, file, bak, missed, phase, inbox>>
    BY <1>18 DEF SetPreference, UpdateShellState, Issues, WriteAnswered, diskVars
  <2>2. call'[w] = call[w]
    BY <1>0, <1>2, <1>18 DEF SetPreference, UpdateShellState, Enqueue, WriteAnswered, SaveSettles,
         UpdateSwaps, UpdateFindsNothing, UpdateReadsAgain, UpdateSettles, Settle
  <2>3. shown'[w][k] = shown[w][k]
    <3>1. UNCHANGED shown \/ \E value : shown' = [shown EXCEPT ![Main]["launchLights"] = value]
      BY <1>18 DEF SetPreference, UpdateShellState, WriteAnswered, SaveSettles, UpdateSwaps,
           UpdateFindsNothing, UpdateReadsAgain, UpdateSettles
    <3> QED BY <1>0, <1>2, <3>1
  <2> QED BY <1>6, <2>1, <2>2, <2>3
<1> QED BY <1>4, <1>5, <1>7, <1>9, <1>10, <1>11, <1>12, <1>13, <1>15, <1>16, <1>17, <1>18 DEF Next

-----------------------------------------------------------------------------
(* The main window shows its own preference as it is saved *)

Quiets == MainKnown /\ ShownIsSaved

\* A step that leaves the main window's part, the queue and the choice alone.
LEMMA MainKept ==
  ASSUME MainKnown, ShownIsSaved, Stored("launchLights")' = Stored("launchLights"),
         UNCHANGED <<queue, saved>>, phase'[Main] = phase[Main],
         shown'[Main]["launchLights"] = shown[Main]["launchLights"],
         call'[Writer] = call[Writer],
         Reads(Main)' => /\ Reads(Main)
                         /\ call'[Main].root.values["launchLights"]
                              = call[Main].root.values["launchLights"],
         \A i \in 1..Len(inbox'[Main]) : inbox'[Main][i].writer # Main =>
           "launchLights" \notin DOMAIN inbox'[Main][i].set
  PROVE  Quiets'
<1>1. /\ phase'[Main] \in {"closed", "booting"} => queue' = <<>>
      /\ Reads(Main)' => call'[Main].root.values["launchLights"] = Stored("launchLights")'
  BY DEF MainKnown
<1>2. /\ call'[Writer].is # "idle" => (call'[Writer].command = "patch" <=> Head(queue').op = "save")
      /\ (call'[Writer].is = "answered" /\ call'[Writer].command = "patch"
            /\ call'[Writer].answer = "applied") => Stored("launchLights")' = {Head(queue').id}
  BY DEF MainKnown
<1>3. MainKnown'
  BY <1>1, <1>2 DEF MainKnown
<1>4. ShownIsSaved'
  BY DEF ShownIsSaved
<1> QED BY <1>3, <1>4 DEF Quiets

\* The queue moves on past a settled write, whose outcome is shown by now.
LEMMA MainSettles ==
  ASSUME IInv, WindowsKnown, MainKnown, ShownIsSaved, WriteAnswered, NEW answer, Settle(answer),
         \/ SaveSettles
         \/ call[Writer].command # "patch" /\ UNCHANGED <<shown, saved>>
  PROVE  Quiets'
<1>0. /\ call \in [Callers -> CallType] /\ call[Writer].is = "answered" /\ queue # <<>>
      /\ UNCHANGED <<loaded, file, bak, phase, inbox>>
  BY DEF WriteAnswered, IInv, TypeOK, CallType, QueueInOrder, diskVars
<1>1. Stored("launchLights")' = Stored("launchLights")
  BY <1>0 DEF Stored, Store, Load
<1>2. /\ queue' = Tail(queue) /\ Head(queue) = queue[1] /\ Len(queue) \in Nat \ {0}
      /\ Len(queue') = Len(queue) - 1
      /\ \A i \in 1..Len(queue') : queue'[i] = queue[i + 1]
      /\ queue' # <<>> => Head(queue') \in WriteType
  BY <1>0, QueueParts, QueueFacts DEF Settle, IInv
<1>3. call'[Main] = call[Main]
  BY <1>0, Apart DEF Settle
<1>4. call'[Writer] = IF queue' = <<>> THEN NoCall ELSE Dispatch(Head(queue'))
  BY <1>0, <1>2, Apart DEF Settle
<1>5. /\ call'[Writer].is # "idle" => (call'[Writer].command = "patch" <=> Head(queue').op = "save")
      /\ call'[Writer].is # "answered"
  BY <1>4 DEF Dispatch, Patch, Get, NoCall
<1>6. phase[Main] \notin {"closed", "booting"}
  BY <1>0 DEF MainKnown
<1>7. MainKnown'
  BY <1>0, <1>1, <1>3, <1>5, <1>6 DEF MainKnown, Reads
<1>8. CASE SaveSettles
  <2>1. shown \in [Windows -> [Followed -> SUBSET Writes]]
    BY DEF IInv, TypeOK
  <2>2. saved' = "applied" => shown'[Main]["launchLights"] = {Head(queue).id}
    BY <1>8, <2>1, Apart DEF SaveSettles, Lands, Followed
  <2>3. saved' = "applied" => Stored("launchLights") = {Head(queue).id}
    BY <1>0, <1>8 DEF SaveSettles, MainKnown
  <2>4. ShownIsSaved'
    BY <1>1, <2>2, <2>3 DEF ShownIsSaved
  <2> QED BY <1>7, <2>4 DEF Quiets
<1>9. CASE call[Writer].command # "patch" /\ UNCHANGED <<shown, saved>>
  <2>1. queue[1].op # "save"
    BY <1>0, <1>2, <1>9 DEF MainKnown
  <2>2. ASSUME \A i \in 1..Len(queue') : queue'[i].op # "save", NEW i \in 1..Len(queue)
        PROVE  queue[i].op # "save"
    <3>1. CASE i = 1
      BY <2>1, <3>1
    <3>2. CASE i # 1
      <4>1. i - 1 \in 1..Len(queue') /\ (i - 1) + 1 = i
        BY <1>2, <3>2
      <4>2. queue'[i - 1] = queue[i]
        BY <1>2, <4>1
      <4> QED BY <2>2, <4>1, <4>2
    <3> QED BY <3>1, <3>2
  <2>3. ShownIsSaved'
    BY <1>0, <1>1, <1>9, <2>2 DEF ShownIsSaved
  <2> QED BY <1>7, <2>3 DEF Quiets
<1> QED BY <1>8, <1>9

\* A choice is shown before it is saved; nothing else the main window asks for
\* touches it.
LEMMA MainIssues ==
  ASSUME IInv, WindowsKnown, MainKnown, ShownIsSaved, NEW write \in WriteType, Enqueue(write), Issues,
         write.op = "save" \/ UNCHANGED shown
  PROVE  Quiets'
<1>0. /\ call \in [Callers -> CallType] /\ UNCHANGED <<loaded, file, bak, phase, inbox, saved>>
      /\ phase[Main] \in {"joining", "live"}
  BY DEF Issues, IInv, TypeOK, CallType, diskVars
<1>1. Stored("launchLights")' = Stored("launchLights")
  BY <1>0 DEF Stored, Store, Load
<1>2. /\ queue' = Append(queue, write) /\ Len(queue) \in Nat /\ Len(queue') = Len(queue) + 1
      /\ queue'[Len(queue) + 1] = write
      /\ \A i \in 1..Len(queue) : queue'[i] = queue[i]
      /\ queue # <<>> => Head(queue') = Head(queue)
      /\ queue = <<>> => Head(queue') = write
  BY QueueFacts DEF Enqueue
<1>3. call'[Main] = call[Main]
  BY <1>0, Apart DEF Enqueue
<1>4. /\ call'[Writer].is # "idle" => (call'[Writer].command = "patch" <=> Head(queue').op = "save")
      /\ (call'[Writer].is = "answered" /\ call'[Writer].command = "patch"
            /\ call'[Writer].answer = "applied") => Stored("launchLights") = {Head(queue').id}
  <2>1. CASE queue = <<>>
    <3>1. call'[Writer] = Dispatch(write)
      BY <1>0, <2>1, Apart DEF Enqueue
    <3> QED BY <1>2, <2>1, <3>1 DEF Dispatch, Patch, Get, NoCall
  <2>2. CASE queue # <<>>
    <3>1. call' = call
      BY <2>2 DEF Enqueue
    <3> QED BY <1>2, <2>2, <3>1 DEF MainKnown
  <2> QED BY <2>1, <2>2
<1>5. MainKnown'
  BY <1>0, <1>1, <1>3, <1>4 DEF MainKnown, Reads
<1>6. ShownIsSaved'
  <2>1. CASE write.op = "save"
    <3>1. Len(queue) + 1 \in 1..Len(queue') /\ queue'[Len(queue) + 1].op = "save"
      BY <1>2, <2>1
    <3> QED BY <3>1 DEF ShownIsSaved
  <2>2. CASE UNCHANGED shown
    <3>1. \A i \in 1..Len(queue) : i \in 1..Len(queue') /\ queue'[i] = queue[i]
      BY <1>2
    <3> QED BY <1>0, <1>1, <2>2, <3>1 DEF ShownIsSaved
  <2> QED BY <2>1, <2>2
<1> QED BY <1>5, <1>6 DEF Quiets

LEMMA QuietsNext ==
  ASSUME IInv, WindowsKnown, MainKnown, ShownIsSaved, [Next]_vars
  PROVE  Quiets'
<1>0. /\ call \in [Callers -> CallType] /\ inbox \in [Windows -> Seq(Events)]
      /\ phase \in [Windows -> {"closed", "booting", "joining", "live"}]
      /\ shown \in [Windows -> [Followed -> SUBSET Writes]]
      /\ Main \in Windows /\ Main \in Callers /\ Writer \in Callers /\ Main # Writer
      /\ "launchLights" \in Followed
  BY Apart DEF IInv, TypeOK, CallType, Followed
<1>1. \A i \in 1..Len(inbox[Main]) : inbox[Main][i].writer # Main =>
        "launchLights" \notin DOMAIN inbox[Main][i].set
  BY DEF MainKnown
<1>2. ASSUME phase'[Main] \in {"closed", "booting"}, queue' = <<>>, inbox'[Main] = <<>>,
             ~Reads(Main)', call'[Writer].is = "idle"
      PROVE  Quiets'
  <2>1. MainKnown'
    BY <1>2 DEF MainKnown
  <2>2. ShownIsSaved'
    BY <1>2 DEF ShownIsSaved
  <2> QED BY <2>1, <2>2 DEF Quiets
<1>3. CASE Exit \/ CrashInCommit
  <2>1. Ends
    BY <1>3 DEF Exit, CrashInCommit
  <2> QED BY <1>0, <1>2, <2>1 DEF Ends, NoCall, Reads
<1>4. CASE Launch
  <2>1. queue = <<>> /\ call[Writer].is = "idle" /\ phase[Main] = "closed"
    BY <1>0, <1>4 DEF Launch, IInv, Asleep
  <2>2. inbox[Main] = <<>>
    BY <1>0, <2>1 DEF WindowsKnown
  <2>3. /\ phase' = [phase EXCEPT ![Main] = "booting"] /\ call' = [call EXCEPT ![Main] = Get(1, 0)]
        /\ UNCHANGED <<queue, inbox>>
    BY <1>4 DEF Launch
  <2>4. ~Reads(Main)'
    BY <1>0, <2>3 DEF Reads, Get, NoCall
  <2> QED BY <1>0, <1>2, <2>1, <2>2, <2>3, <2>4
<1>5. CASE \E how \in {"missing", "corrupt"} : Damage(how)
  <2>1. ~alive /\ UNCHANGED <<phase, call, queue, inbox>>
    BY <1>5 DEF Damage, windowVars
  <2>2. /\ queue = <<>> /\ call[Writer].is = "idle" /\ call[Main].is = "idle"
        /\ phase[Main] = "closed"
    BY <1>0, <2>1 DEF IInv, Asleep
  <2>3. inbox[Main] = <<>>
    BY <1>0, <2>2 DEF WindowsKnown
  <2> QED BY <1>2, <2>1, <2>2, <2>3 DEF Reads
<1>6. ASSUME UNCHANGED <<loaded, file, bak, queue, saved>>, phase'[Main] = phase[Main],
             inbox'[Main] = inbox[Main], shown'[Main] = shown[Main], call'[Main] = call[Main],
             call'[Writer] = call[Writer]
      PROVE  Quiets'
  <2>1. Stored("launchLights")' = Stored("launchLights")
    BY <1>6 DEF Stored, Store, Load
  <2> QED BY <1>1, <1>6, <2>1, MainKept DEF Reads
<1>7. CASE UNCHANGED vars
  BY <1>6, <1>7 DEF vars, diskVars, windowVars
<1>8. ASSUME NEW w \in Followers, OpenFollower(w) PROVE Quiets'
  <2>1. w \in Windows /\ w # Main /\ w # Writer
    BY <1>8, Apart
  <2> QED BY <1>0, <1>6, <1>8, <2>1 DEF OpenFollower, diskVars
<1>9. ASSUME NEW w \in Windows, ReadAnswered(w) PROVE Quiets'
  <2>0. /\ w \in Callers /\ w # Writer /\ call[w].is = "answered"
        /\ UNCHANGED <<loaded, file, bak, queue, saved, inbox>>
    BY <1>9, Apart DEF ReadAnswered, diskVars
  <2>1. Stored("launchLights")' = Stored("launchLights")
    BY <2>0 DEF Stored, Store, Load
  <2>2. call'[Writer] = call[Writer]
    BY <1>0, <1>9, <2>0 DEF ReadAnswered, WritesBack, ReadsAgain, Hydrates
  <2>3. CASE w # Main
    <3>1. phase'[Main] = phase[Main] /\ shown'[Main] = shown[Main] /\ call'[Main] = call[Main]
      BY <1>0, <1>9, <2>0, <2>3 DEF ReadAnswered, WritesBack, ReadsAgain, Hydrates
    <3> QED BY <1>6, <2>0, <2>2, <3>1
  <2>4. CASE w = Main /\ WritesBack(w)
    <3>1. /\ UNCHANGED <<phase, shown>> /\ call'[Main].root.values = call[Main].root.values
          /\ Reads(Main)
      BY <1>0, <2>0, <2>4 DEF WritesBack, Migrated, CallType, Roots, Reads
    <3> QED BY <1>1, <2>0, <2>1, <2>2, <3>1, MainKept
  <2>5. CASE w = Main /\ ReadsAgain(w)
    <3>1. UNCHANGED <<phase, shown>> /\ call'[Main] = Get(call[w].attempt + 1, 0)
      BY <1>0, <2>5 DEF ReadsAgain
    <3>2. ~Reads(Main)'
      BY <3>1 DEF Reads, Get, NoCall
    <3> QED BY <1>1, <2>0, <2>1, <2>2, <3>1, <3>2, MainKept
  <2>6. CASE w = Main /\ Hydrates(w)
    <3>1. /\ call'[Main] = NoCall /\ phase'[Main] = "joining"
          /\ shown'[Main]["launchLights"] = call[Main].root.values["launchLights"]
      BY <1>0, <2>6 DEF Hydrates
    <3>2. call[Main].root.values["launchLights"] = Stored("launchLights") /\ phase[Main] = "booting"
      BY <1>0, <2>0, <2>6 DEF MainKnown, WindowsKnown, Reads
    <3>3. queue = <<>> /\ call[Writer].is = "idle"
      BY <3>2 DEF MainKnown, IInv, QueueInOrder
    <3>4. ~Reads(Main)'
      BY <3>1 DEF Reads, NoCall
    <3>5. MainKnown'
      BY <1>1, <2>0, <2>2, <3>1, <3>3, <3>4 DEF MainKnown
    <3>6. ShownIsSaved'
      BY <2>1, <3>1, <3>2 DEF ShownIsSaved
    <3> QED BY <3>5, <3>6 DEF Quiets
  <2> QED BY <1>9, <2>3, <2>4, <2>5, <2>6 DEF ReadAnswered
<1>10. ASSUME NEW w \in Windows, Joins(w) PROVE Quiets'
  <2>0. /\ phase[w] = "joining" /\ phase' = [phase EXCEPT ![w] = "live"]
        /\ UNCHANGED <<loaded, file, bak, inbox, shown, call, queue, saved>>
    BY <1>10 DEF Joins, diskVars
  <2>1. Stored("launchLights")' = Stored("launchLights")
    BY <2>0 DEF Stored, Store, Load
  <2>2. phase'[Main] = phase[Main] \/ (phase[Main] = "joining" /\ phase'[Main] = "live")
    BY <1>0, <2>0
  <2>3. MainKnown'
    BY <2>0, <2>1, <2>2 DEF MainKnown, Reads
  <2>4. ShownIsSaved'
    BY <2>0, <2>1, <2>2 DEF ShownIsSaved
  <2> QED BY <2>3, <2>4 DEF Quiets
<1>11. ASSUME NEW w \in Windows, Delivered(w) PROVE Quiets'
  <2>0. /\ inbox[w] # <<>> /\ inbox' = [inbox EXCEPT ![w] = Tail(@)]
        /\ UNCHANGED <<loaded, file, bak, phase, call, queue, saved>>
    BY <1>11 DEF Delivered, diskVars
  <2>1. CASE w # Main
    BY <1>0, <1>6, <1>11, <2>0, <2>1 DEF Delivered
  <2>2. CASE w = Main
    <3>1. /\ Head(inbox[Main]) = inbox[Main][1] /\ 1 \in 1..Len(inbox[Main])
          /\ inbox'[Main] = Tail(inbox[Main])
          /\ \A i \in 1..Len(Tail(inbox[Main])) :
               /\ i + 1 \in 1..Len(inbox[Main]) /\ Tail(inbox[Main])[i] = inbox[Main][i + 1]
      BY <1>0, <2>0, <2>2
    <3>2. shown'[Main] = IF inbox[Main][1].writer = Main THEN shown[Main]
                         ELSE Merge(shown[Main], inbox[Main][1].set)
      BY <1>0, <1>11, <2>2, <3>1 DEF Delivered
    <3>3. shown'[Main]["launchLights"] = shown[Main]["launchLights"]
      BY <1>0, <1>1, <3>1, <3>2 DEF Merge
    <3>4. Stored("launchLights")' = Stored("launchLights")
      BY <2>0 DEF Stored, Store, Load
    <3>5. \A i \in 1..Len(inbox'[Main]) : inbox'[Main][i].writer # Main =>
            "launchLights" \notin DOMAIN inbox'[Main][i].set
      BY <1>1, <3>1
    <3> QED BY <2>0, <3>3, <3>4, <3>5, MainKept DEF Reads
  <2> QED BY <2>1, <2>2
<1>12. ASSUME NEW c \in Callers, GetShellState(c) PROVE Quiets'
  <2>0. /\ UNCHANGED <<phase, shown, inbox, queue, saved>> /\ Store' = Store
        /\ call[c].is = "sent" /\ call[c].command = "get"
    BY <1>12, StoreAfter DEF GetShellState, diskVars, IsRead
  <2>1. Stored("launchLights")' = Stored("launchLights")
    BY <2>0 DEF Stored
  <2>2. CASE c # Main /\ c # Writer
    <3>1. call'[Main] = call[Main] /\ call'[Writer] = call[Writer]
      BY <1>0, <1>12, <2>2 DEF GetShellState
    <3> QED BY <1>1, <2>0, <2>1, <3>1, MainKept DEF Reads
  <2>3. CASE c = Main
    <3>1. call'[Main].root = Store.root /\ call'[Writer] = call[Writer]
      BY <1>0, <1>12, <2>3 DEF GetShellState
    <3>2. MainKnown'
      BY <1>1, <2>0, <2>1, <3>1 DEF MainKnown, Stored
    <3>3. ShownIsSaved'
      BY <2>0, <2>1 DEF ShownIsSaved
    <3> QED BY <3>2, <3>3 DEF Quiets
  <2>4. CASE c = Writer
    <3>1. call'[Main] = call[Main] /\ call'[Writer].command = "get" /\ call'[Writer].is = "answered"
      BY <1>0, <1>12, <2>0, <2>4 DEF GetShellState
    <3>2. Head(queue).op # "save"
      BY <2>0, <2>4 DEF MainKnown
    <3>3. MainKnown'
      BY <1>1, <2>0, <2>1, <3>1, <3>2 DEF MainKnown, Reads
    <3>4. ShownIsSaved'
      BY <2>0, <2>1 DEF ShownIsSaved
    <3> QED BY <3>3, <3>4 DEF Quiets
  <2> QED BY <2>2, <2>3, <2>4
<1>13. ASSUME NEW writer, NEW keys, NEW root, Announce(writer, keys, root),
              writer = Main \/ "launchLights" \notin keys
       PROVE  \A i \in 1..Len(inbox'[Main]) : inbox'[Main][i].writer # Main =>
                "launchLights" \notin DOMAIN inbox'[Main][i].set
  <2> DEFINE event == [writer |-> writer, set |-> [k \in keys |-> root.values[k]]]
  <2>1. inbox'[Main] = inbox[Main] \/ inbox'[Main] = Append(inbox[Main], event)
    BY <1>0, <1>13 DEF Announce
  <2>2. event.writer # Main => "launchLights" \notin DOMAIN event.set
    BY <1>13
  <2> HIDE DEF event
  <2>3. CASE inbox'[Main] = Append(inbox[Main], event)
    <3>1. /\ Len(inbox[Main]) \in Nat /\ Len(inbox'[Main]) = Len(inbox[Main]) + 1
          /\ inbox'[Main][Len(inbox[Main]) + 1] = event
          /\ \A i \in 1..Len(inbox[Main]) : inbox'[Main][i] = inbox[Main][i]
      <4>1. inbox[Main] \in Seq(Events)
        BY <1>0
      <4> QED BY <2>3, <4>1
    <3>2. \A i \in 1..Len(inbox'[Main]) : i \in 1..Len(inbox[Main]) \/ i = Len(inbox[Main]) + 1
      BY <3>1
    <3> QED BY <1>1, <2>2, <3>1, <3>2
  <2> QED BY <1>1, <2>1, <2>3
<1>14. ASSUME NEW c \in Callers, PatchShellState(c) PROVE Quiets'
  <2>0. /\ UNCHANGED <<phase, shown, queue, saved>> /\ c = Writer /\ queue # <<>>
        /\ call[Writer].is = "sent" /\ call[Writer].command = "patch"
    BY <1>14, PatchSays DEF PatchShellState
  <2>1. phase[Main] \notin {"closed", "booting"} /\ Head(queue).op = "save"
    BY <2>0 DEF MainKnown
  <2>2. ~Reads(Main)
    BY <1>0, <2>1 DEF WindowsKnown, Reads
  <2>3. /\ call'[Main] = call[Main] /\ call'[Writer].command = "patch"
        /\ call'[Writer].answer = "applied" => Stored("launchLights")' = {Head(queue).id}
    <3>1. CASE Answers(Writer, "failed")
      BY <1>0, <2>0, <3>1 DEF Answers
    <3>2. CASE Answers(Writer, "applied") /\ Stored("launchLights")' = {Head(queue).id}
      BY <1>0, <2>0, <3>2 DEF Answers
    <3> QED BY <1>14, <2>0, <3>1, <3>2, PatchSays
  <2>4. \A i \in 1..Len(inbox'[Main]) : inbox'[Main][i].writer # Main =>
          "launchLights" \notin DOMAIN inbox'[Main][i].set
    <3>1. Silent \/ \E root \in Roots : Announce(Main, {"launchLights"}, root)
      BY <1>14, PatchSays
    <3> QED BY <1>1, <1>13, <3>1 DEF Silent
  <2>5. MainKnown'
    BY <2>0, <2>1, <2>2, <2>3, <2>4 DEF MainKnown, Reads
  <2>6. 1 \in 1..Len(queue) /\ queue[1].op = "save"
    BY <2>0, <2>1, QueueParts, QueueFacts DEF IInv
  <2>7. ShownIsSaved'
    BY <2>0, <2>6 DEF ShownIsSaved
  <2> QED BY <2>5, <2>7 DEF Quiets
<1>15. ASSUME NEW c \in Callers, ReplaceShellState(c) PROVE Quiets'
  <2>0. /\ UNCHANGED <<phase, shown, queue, saved>>
        /\ call[c].is = "sent" /\ call[c].command = "replace"
    BY <1>15 DEF ReplaceShellState
  <2>1. /\ Stored("launchLights")' = Stored("launchLights")
        /\ Silent \/ \E root \in Roots : Announce(Main, {}, root)
    BY <1>0, <1>15, SwapSays
  <2>2. \A i \in 1..Len(inbox'[Main]) : inbox'[Main][i].writer # Main =>
          "launchLights" \notin DOMAIN inbox'[Main][i].set
    BY <1>1, <1>13, <2>1 DEF Silent
  <2>3. Reads(Main)' => Reads(Main) /\ call'[Main].root = call[Main].root
    BY <1>0, <1>15, AnsweredReads
  <2>4. CASE c # Writer
    <3>1. call'[Writer] = call[Writer]
      BY <1>0, <1>15, <2>4 DEF ReplaceShellState, Answers
    <3> QED BY <2>0, <2>1, <2>2, <2>3, <3>1, MainKept
  <2>5. CASE c = Writer
    <3>1. PICK reply : Answers(c, reply)
      BY <1>15 DEF ReplaceShellState
    <3>2. call'[Writer].command = "replace"
      BY <1>0, <2>0, <2>5, <3>1 DEF Answers
    <3>3. Head(queue).op # "save"
      BY <2>0, <2>5 DEF MainKnown
    <3>4. MainKnown'
      BY <2>0, <2>1, <2>2, <2>3, <3>2, <3>3 DEF MainKnown
    <3>5. ShownIsSaved'
      BY <2>0, <2>1 DEF ShownIsSaved
    <3> QED BY <3>4, <3>5 DEF Quiets
  <2> QED BY <2>4, <2>5
<1>16. CASE SaveLitKind \/ ForgetDevice
  <2>1. UNCHANGED <<phase, shown, call, queue, saved>>
    BY <1>16 DEF SaveLitKind, ForgetDevice, RustWrites
  <2>2. CASE Silent /\ \A j \in Followed : Stored(j)' = Stored(j)
    BY <1>0, <1>1, <2>1, <2>2, MainKept DEF Silent, Reads
  <2>3. ASSUME NEW keys \in SUBSET {"lastLitKind"}, NEW root \in Roots, Announce("rust", keys, root),
               Store'.root = root, \A j \in Followed \ keys : root.values[j] = Stored(j)
        PROVE  Quiets'
    <3>1. "launchLights" \notin keys /\ Stored("launchLights")' = Stored("launchLights")
      BY <1>0, <2>3 DEF Stored
    <3>2. \A i \in 1..Len(inbox'[Main]) : inbox'[Main][i].writer # Main =>
            "launchLights" \notin DOMAIN inbox'[Main][i].set
      BY <1>13, <2>3, <3>1
    <3> QED BY <2>1, <3>1, <3>2, MainKept DEF Reads
  <2> QED BY <1>16, <2>2, <2>3, RustSays
<1>17. CASE SetPreference \/ UpdateShellState
  <2>1. writes + 1 \in Writes /\ shown[Main]["launchLights"] \in SUBSET Writes
    BY <1>0, <1>17, BoundsTyped DEF SetPreference, UpdateShellState, Issues, Writes, IInv, TypeOK
  <2>2. PICK write \in WriteType : Enqueue(write) /\ (write.op = "save" \/ UNCHANGED shown)
    BY <1>17, <2>1 DEF SetPreference, UpdateShellState, WriteType
  <2>3. Issues
    BY <1>17 DEF SetPreference, UpdateShellState
  <2> QED BY <2>2, <2>3, MainIssues
<1>18. CASE WriteAnswered
  <2>0. call[Writer].is = "answered" /\ UNCHANGED <<loaded, file, bak, phase, inbox>>
    BY <1>18 DEF WriteAnswered, diskVars
  <2>1. CASE SaveSettles
    BY <1>18, <2>1, MainSettles DEF SaveSettles
  <2>2. CASE UpdateFindsNothing
    <3>1. Settle("applied") /\ UNCHANGED <<shown, saved>> /\ call[Writer].command # "patch"
      BY <2>2 DEF UpdateFindsNothing
    <3> QED BY <1>18, <3>1, MainSettles
  <2>3. CASE UpdateSettles
    <3>1. Settle(call[Writer].answer) /\ UNCHANGED <<shown, saved>> /\ call[Writer].command # "patch"
      BY <2>3 DEF UpdateSettles
    <3> QED BY <1>18, <3>1, MainSettles
  <2>4. CASE UpdateSwaps \/ UpdateReadsAgain
    <3>1. /\ UNCHANGED <<shown, saved, queue>> /\ call'[Main] = call[Main]
          /\ call'[Writer].command # "patch" /\ call'[Writer].is = "sent"
      <4>1. CASE UpdateSwaps
        BY <1>0, <4>1 DEF UpdateSwaps
      <4>2. CASE UpdateReadsAgain
        <5>1. call' = [call EXCEPT ![Writer] = Get(call[Writer].attempt + 1, Head(queue).id)]
          BY <4>2 DEF UpdateReadsAgain
        <5> QED BY <1>0, <4>2, <5>1 DEF UpdateReadsAgain, Get, NoCall
      <4> QED BY <2>4, <4>1, <4>2
    <3>2. call[Writer].command # "patch"
      BY <2>0, <2>4 DEF UpdateSwaps, UpdateReadsAgain, IInv, QueueInOrder
    <3>3. Stored("launchLights")' = Stored("launchLights")
      BY <2>0 DEF Stored, Store, Load
    <3>4. MainKnown'
      BY <2>0, <3>1, <3>2, <3>3 DEF MainKnown, Reads
    <3>5. ShownIsSaved'
      BY <2>0, <3>1, <3>3 DEF ShownIsSaved
    <3> QED BY <3>4, <3>5 DEF Quiets
  <2> QED BY <1>18, <2>1, <2>2, <2>3, <2>4 DEF WriteAnswered
<1> QED BY <1>3, <1>4, <1>5, <1>7, <1>8, <1>9, <1>10, <1>11, <1>12, <1>14, <1>15, <1>16, <1>17, <1>18
        DEF Next

LEMMA WInvInit == Init => WInv
<1> SUFFICES ASSUME Init PROVE WInv
  OBVIOUS
<1>1. WindowsKnown /\ AllKeepUp
  BY Apart DEF Init, WindowsKnown, AllKeepUp, KeepsUp, Reads, NoCall, NothingShown
<1>2. MainKnown /\ ShownIsSaved
  BY Apart DEF Init, MainKnown, ShownIsSaved, Reads, NoCall
<1> QED BY <1>1, <1>2, IInvInit DEF WInv

LEMMA WInductive == Spec => []WInv
<1>1. WInv /\ [Next]_vars => WInv'
  <2> SUFFICES ASSUME WInv, [Next]_vars PROVE WInv'
    OBVIOUS
  <2>1. IInv' /\ WindowsKnown' /\ AllKeepUp'
    BY IInvNext, WindowsKnownNext, AllKeepUpNext DEF WInv
  <2>2. Quiets'
    BY QuietsNext DEF WInv
  <2> QED BY <2>1, <2>2 DEF WInv, Quiets
<1> QED BY <1>1, WInvInit, PTL DEF Spec

\* A window that took every event shows what is stored of each key that others
\* write, but for what was announced before it listened: with any number of
\* windows, writes and crashes (the announcement leaves under the store's lock).
THEOREM FollowersFollow == Spec => []FollowersKeepUp
<1>1. WInv => FollowersKeepUp
  <2> SUFFICES ASSUME WInv, NEW w \in Windows, Following(w), NEW k \in OthersKeys(w) \ missed[w]
               PROVE  shown[w][k] = Store.root.values[k]
    BY DEF FollowersKeepUp
  <2>1. Coming(w, k)
    BY DEF WInv, AllKeepUp, KeepsUp, Following
  <2>2. Ahead(w, k) = {}
    BY DEF Ahead, Following
  <2> QED BY <2>1, <2>2 DEF Coming, Stored
<1> QED BY <1>1, WInductive, PTL

\* Once the main window's writes are done and its newest save landed, it shows its
\* preference as it is stored, whatever failed, was put back or was answered late
\* before that (setPreference, merge).
THEOREM SavesAreShown == Spec => []SavedIsShown
<1>1. WInv => SavedIsShown
  BY DEF WInv, ShownIsSaved, SavedIsShown, Quiet, Stored
<1> QED BY <1>1, WInductive, PTL

=====================================================================================
