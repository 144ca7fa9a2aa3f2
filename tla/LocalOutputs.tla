-------------------------------- MODULE LocalOutputs --------------------------------
(***************************************************************************)
(* LumaSync's local outputs: the LED strips on serial ports, the registry  *)
(* Rust keeps of them, the commands that connect one and let go of one, the *)
(* thread that watches the ports, and the main window's copy of the registry *)
(* (commands/local_outputs.rs, commands/device_connection.rs,              *)
(* features/device/state/localOutputsStore.ts).                            *)
(*                                                                         *)
(* The registry is a mutex, written whole; each write is announced outside *)
(* it, so announcements overtake each other. Times in milliseconds are kept *)
(* as the one comparison the code makes of them: whether a connect came    *)
(* after the watcher's newest listing (fresh). A bound WLED device is left *)
(* out. An operator named X_Y is X with a fault Y put in; no action uses it. *)
(***************************************************************************)
EXTENDS Naturals, FiniteSets

CONSTANTS
  Ports,        \* the serial ports the machine may have
  Readers,      \* reads of the registry the window may have in flight at once
  Start,        \* the one that first follows the listener's registration
  MaxEvents,    \* bound: cables pulled or put in, opens refused, listings that miss
                \* a port, disconnects the lighting refused
  MaxCalls,     \* bound: connects, disconnects and scans asked for
  MaxMoves      \* bound: both together, an event counted twice

ASSUME StartReads == Start \in Readers
ASSUME BoundsAreNumbers == {MaxEvents, MaxCalls, MaxMoves} \subseteq Nat

MISSES_BEFORE_LOST == 2

None     == "none"
Outcomes == {"ok", "absent", "failed"}
Entries  == {None, "connected", "failed", "lost", "released"}

ASSUME PortsAreFinite == IsFiniteSet(Ports) /\ None \notin Ports

VARIABLES
  plugged,          \* the cables that are in
  entry,            \* per port: its registry entry, by status
  at, nextConnect,  \* serial_connected_at and next_connect: the connect order
  revision,
  fresh,            \* per port: its entry's time is not before the newest listing
  conn,             \* per port: the connect under way
  disc,             \* per port: the disconnect under way
  present, misses,  \* SerialWatch: the baseline, and polls in a row without a port
  listing,          \* the listing a poll has taken and not looked at yet
  listener,         \* the window's listener: starting or on
  wire,             \* announcements on their way to the window
  reads,            \* per reader: its read of the registry
  held,             \* the window's copy
  pulled,           \* per port: unplugged since the open behind its entry (for a property)
  events, calls

registry == <<entry, at, nextConnect, revision, fresh, pulled>>
watch    == <<present, misses, listing>>
window   == <<listener, wire, reads, held>>
vars == <<plugged, registry, watch, window, conn, disc, events, calls>>

Connected(e) == {p \in Ports : e[p] = "connected"}

\* connected_in: the earliest connected output is the one that is driven.
Earliest_Newest(e, a) ==
  IF Connected(e) = {} THEN None
  ELSE CHOOSE p \in Connected(e) : \A q \in Connected(e) : a[p] >= a[q]
Earliest(e, a) ==
  IF Connected(e) = {} THEN None
  ELSE CHOOSE p \in Connected(e) : \A q \in Connected(e) : a[p] <= a[q]
Driven == Earliest(entry, at)

SnapshotOf(r, e, a) == [revision |-> r, entry |-> e, driven |-> Earliest(e, a)]
Snapshot == SnapshotOf(revision, entry, at)
Snapshots == [revision : Nat, entry : [Ports -> Entries], driven : Ports \cup {None}]
\* Before its first answer the window knows of nothing connected.
NoSnapshot == [revision |-> 0, entry |-> [p \in Ports |-> None], driven |-> None]

Attempt(is, outcome) == [is |-> is, outcome |-> outcome, fresh |-> FALSE, pulled |-> FALSE]
NoConn == Attempt("idle", "ok")
NoDisc == [is |-> "idle", at |-> 0, fresh |-> FALSE]
NoRead == [is |-> "idle", snapshot |-> NoSnapshot]
NoListing == [taken |-> FALSE, ports |-> {}]
NoBaseline == [known |-> FALSE, ports |-> {}]

Init ==
  /\ plugged \in SUBSET Ports
  /\ entry = [p \in Ports |-> None]
  /\ at = [p \in Ports |-> 0] /\ nextConnect = 0
  \* The registry starts at 0 and the window with nothing, which 0 stands for.
  /\ revision = 1
  /\ fresh = [p \in Ports |-> FALSE] /\ pulled = [p \in Ports |-> FALSE]
  /\ conn = [p \in Ports |-> NoConn] /\ disc = [p \in Ports |-> NoDisc]
  /\ present = NoBaseline /\ misses = [p \in Ports |-> 0] /\ listing = NoListing
  /\ listener = "starting" /\ wire = {} /\ held = NoSnapshot
  /\ reads = [r \in Readers |-> NoRead]
  /\ events = 0 /\ calls = 0

-----------------------------------------------------------------------------
(* Hardware *)

\* The registry says p is connected, or a refused disconnect may say so again.
Claimed(p) == entry[p] = "connected" \/ disc[p].is = "letting"

Moves   == 2 * events + calls
Happens == events < MaxEvents /\ Moves + 2 <= MaxMoves /\ events' = events + 1
Calls   == calls < MaxCalls /\ Moves + 1 <= MaxMoves /\ calls' = calls + 1

Unplug(p) ==
  /\ p \in plugged /\ Happens
  /\ plugged' = plugged \ {p}
  /\ pulled' = [pulled EXCEPT ![p] = Claimed(p)]
  /\ conn' = [conn EXCEPT ![p].pulled = (conn[p].is # "idle")]
  /\ UNCHANGED <<entry, at, nextConnect, revision, fresh, watch, window, disc, calls>>

Plug(p) ==
  /\ p \notin plugged /\ Happens
  /\ plugged' = plugged \cup {p}
  /\ UNCHANGED <<registry, watch, window, conn, disc, calls>>

-----------------------------------------------------------------------------
(* The registry's writes, each announced after it *)

Announced(e, a, r) ==
  wire' = IF listener = "on" THEN wire \cup {SnapshotOf(r, e, a)} ELSE wire

\* changed
Write(e, a) ==
  /\ entry' = e /\ at' = a /\ revision' = revision + 1
  /\ Announced(e, a, revision + 1)

\* serial_connected: a port connected again keeps its place in the connect order.
SerialConnected(p) ==
  IF entry[p] = "connected"
  THEN Write(entry, at) /\ UNCHANGED nextConnect
  ELSE /\ nextConnect' = nextConnect + 1
       /\ Write([entry EXCEPT ![p] = "connected"], [at EXCEPT ![p] = nextConnect + 1])

\* serial_failed: a port that was refused its name gets no entry, and a live one
\* keeps its own.
SerialFailed_Anyhow(p, outcome) ==
  Write([entry EXCEPT ![p] = outcome], at) /\ UNCHANGED nextConnect
SerialFailed(p, outcome) ==
  /\ Write(IF outcome = "absent" \/ entry[p] = "connected" THEN entry
           ELSE [entry EXCEPT ![p] = outcome], at)
  /\ UNCHANGED nextConnect

-----------------------------------------------------------------------------
(* connect_serial_port *)

\* connectOnce: mounts that ask for one port share the attempt. What the inventory
\* and the driver make of it: gone, refused, or open.
Connect(p) ==
  /\ conn[p].is = "idle" /\ Calls
  /\ \/ /\ p \in plugged /\ UNCHANGED events
        /\ conn' = [conn EXCEPT ![p] = Attempt("settling", "ok")]
     \/ /\ p \notin plugged /\ UNCHANGED events
        /\ conn' = [conn EXCEPT ![p] = Attempt("opened", "absent")]
     \/ /\ Happens
        /\ conn' = [conn EXCEPT ![p] = Attempt("opened", "failed")]
  /\ UNCHANGED <<plugged, registry, watch, window, disc>>

\* The bootloader's two seconds are over and the probe answered: the connect's
\* time is taken here, before the registry is written.
Settled(p) ==
  /\ conn[p].is = "settling"
  /\ conn' = [conn EXCEPT ![p].is = "opened", ![p].fresh = TRUE]
  /\ UNCHANGED <<plugged, registry, watch, window, disc, events, calls>>

Record(p) ==
  /\ conn[p].is = "opened"
  /\ conn' = [conn EXCEPT ![p] = NoConn]
  /\ \/ /\ conn[p].outcome = "ok" /\ SerialConnected(p)
        /\ fresh' = [fresh EXCEPT ![p] = conn[p].fresh]
        /\ pulled' = [pulled EXCEPT ![p] = conn[p].pulled]
     \/ /\ conn[p].outcome # "ok" /\ SerialFailed(p, conn[p].outcome)
        /\ UNCHANGED <<fresh, pulled>>
  /\ UNCHANGED <<plugged, watch, listener, reads, held, disc, events, calls>>

-----------------------------------------------------------------------------
(* disconnect_serial_port *)

\* serial_disconnected: marked before the lighting lets go. A port that is not
\* connected is answered so.
Disconnect(p) ==
  /\ disc[p].is = "idle" /\ entry[p] = "connected" /\ Calls
  /\ Write([entry EXCEPT ![p] = "released"], at)
  /\ disc' = [disc EXCEPT ![p] = [is |-> "letting", at |-> at[p], fresh |-> fresh[p]]]
  /\ fresh' = [fresh EXCEPT ![p] = FALSE]
  /\ UNCHANGED <<plugged, nextConnect, pulled, watch, listener, reads, held, conn, events>>

\* The lighting let go (let_go), whatever it had to move or end.
LetGo(p) ==
  /\ disc[p].is = "letting"
  /\ disc' = [disc EXCEPT ![p] = NoDisc]
  /\ UNCHANGED <<plugged, registry, watch, window, conn, events, calls>>

\* restore_serial: the old place in the order, unless it was connected since.
RestoreSerial(p) ==
  /\ disc[p].is = "letting" /\ Happens
  /\ disc' = [disc EXCEPT ![p] = NoDisc]
  /\ \/ /\ entry[p] = "connected" /\ UNCHANGED <<entry, at, revision, wire, fresh>>
     \/ /\ entry[p] # "connected"
        /\ Write([entry EXCEPT ![p] = "connected"], [at EXCEPT ![p] = disc[p].at])
        /\ fresh' = [fresh EXCEPT ![p] = disc[p].fresh]
  /\ UNCHANGED <<plugged, nextConnect, pulled, watch, listener, reads, held, conn, calls>>

-----------------------------------------------------------------------------
(* The serial port watcher *)

\* listed_at is taken with the listing: no time that was taken before is newer.
AgesUnderWay ==
  /\ conn' = [p \in Ports |-> [conn[p] EXCEPT !.fresh = FALSE]]
  /\ disc' = [p \in Ports |-> [disc[p] EXCEPT !.fresh = FALSE]]
Ages == fresh' = [p \in Ports |-> FALSE] /\ AgesUnderWay

TakeListing(ports) ==
  /\ ~listing.taken
  /\ listing' = [taken |-> TRUE, ports |-> ports]
  /\ Ages
  /\ UNCHANGED <<plugged, entry, at, nextConnect, revision, pulled, present, misses, window, calls>>

List == TakeListing(plugged) /\ UNCHANGED events
\* An enumeration that misses a port that is there, but not twice in a row.
ListBadly(p) == p \in plugged /\ misses[p] = 0 /\ Happens /\ TakeListing(plugged \ {p})

\* What one poll makes of its listing. The counter is capped where the code has
\* nothing left to tell apart.
Watched == present.ports \cup Connected(entry)
Capped(n) == IF n > MISSES_BEFORE_LOST THEN MISSES_BEFORE_LOST + 1 ELSE n
Missed(p) == IF p \notin Watched THEN misses[p]
             ELSE IF p \in listing.ports THEN 0 ELSE Capped(misses[p] + 1)
Lost     == {p \in Watched \ listing.ports : Missed(p) = MISSES_BEFORE_LOST}
\* A port that is lost, or was and is connected still: the clear is tried again
\* on every poll, and skips a connect that is newer than the listing.
Cleared_Unasked ==
  {p \in Connected(entry) \ listing.ports : Missed(p) >= MISSES_BEFORE_LOST}
Cleared_Once ==
  {p \in Connected(entry) \ listing.ports : Missed(p) = MISSES_BEFORE_LOST /\ ~fresh[p]}
Cleared ==
  {p \in Connected(entry) \ listing.ports : Missed(p) >= MISSES_BEFORE_LOST /\ ~fresh[p]}

Baseline ==
  /\ listing.taken /\ ~present.known
  /\ present' = [known |-> TRUE, ports |-> listing.ports]
  /\ listing' = NoListing
  /\ UNCHANGED <<plugged, registry, misses, window, conn, disc, events, calls>>

Poll ==
  /\ listing.taken /\ present.known
  /\ present' = [present EXCEPT !.ports = (@ \ Lost) \cup listing.ports]
  /\ misses' = [p \in Ports |-> Missed(p)]
  /\ listing' = NoListing
  /\ entry' = [p \in Ports |-> IF p \in Cleared THEN "lost" ELSE entry[p]]
  /\ revision' = revision + Cardinality(Cleared)
  /\ IF Cleared = {} THEN UNCHANGED wire ELSE Announced(entry', at, revision')
  /\ UNCHANGED <<plugged, at, nextConnect, fresh, pulled, listener, reads, held, conn, disc, events, calls>>

-----------------------------------------------------------------------------
(* The window's copy: createLocalOutputs *)

\* The listener is registered, and only then the first read is made.
Listening ==
  /\ listener = "starting" /\ listener' = "on"
  /\ reads' = [reads EXCEPT ![Start].is = "asked"]
  /\ UNCHANGED <<plugged, registry, watch, wire, held, conn, disc, events, calls>>

\* refresh, as a mount that scans the ports asks for it.
Refresh(r) ==
  /\ (r = Start => listener = "on") /\ reads[r].is = "idle" /\ Calls
  /\ reads' = [reads EXCEPT ![r].is = "asked"]
  /\ UNCHANGED <<plugged, registry, watch, listener, wire, held, conn, disc, events>>

\* get_local_outputs
Capture(r) ==
  /\ reads[r].is = "asked"
  /\ reads' = [reads EXCEPT ![r] = [is |-> "captured", snapshot |-> Snapshot]]
  /\ UNCHANGED <<plugged, registry, watch, listener, wire, held, conn, disc, events, calls>>

\* ingest: what is not newer than what is held is dropped.
Ingest_Always(s) == held' = s
Ingest(s) == held' = IF s.revision > held.revision THEN s ELSE held

Arrives(s) ==
  /\ s \in wire /\ wire' = wire \ {s}
  /\ Ingest(s)
  /\ UNCHANGED <<plugged, registry, watch, listener, reads, conn, disc, events, calls>>

ReadArrives(r) ==
  /\ reads[r].is = "captured"
  /\ reads' = [reads EXCEPT ![r] = NoRead]
  /\ Ingest(reads[r].snapshot)
  /\ UNCHANGED <<plugged, registry, watch, listener, wire, conn, disc, events, calls>>

-----------------------------------------------------------------------------

Hardware == \E p \in Ports : Unplug(p) \/ Plug(p)
Commands == \E p \in Ports : \/ Connect(p) \/ Settled(p) \/ Record(p)
                             \/ Disconnect(p) \/ LetGo(p) \/ RestoreSerial(p)
Watcher  == List \/ (\E p \in Ports : ListBadly(p)) \/ Baseline \/ Poll
Window   == \/ Listening
            \/ \E r \in Readers : Refresh(r) \/ Capture(r) \/ ReadArrives(r)
            \/ \E s \in wire : Arrives(s)

Next == Hardware \/ Commands \/ Watcher \/ Window

Spec == Init /\ [][Next]_vars

\* The watcher polls for the life of the app; commands and the window's tasks run
\* to their end. Nobody has to plug a cable in or ask for anything.
Fairness ==
  /\ WF_vars(List) /\ WF_vars(Baseline \/ Poll)
  /\ \A p \in Ports : WF_vars(Settled(p) \/ Record(p)) /\ WF_vars(LetGo(p))
  /\ \A r \in Readers : WF_vars(Capture(r) \/ ReadArrives(r))
  /\ WF_vars(Listening)

FairSpec == Spec /\ Fairness

-----------------------------------------------------------------------------

TypeOK ==
  /\ plugged \subseteq Ports
  /\ entry \in [Ports -> Entries]
  /\ at \in [Ports -> Nat] /\ nextConnect \in Nat /\ revision \in Nat
  /\ fresh \in [Ports -> BOOLEAN] /\ pulled \in [Ports -> BOOLEAN]
  /\ conn \in [Ports -> [is : {"idle", "settling", "opened"},
                         outcome : Outcomes, fresh : BOOLEAN, pulled : BOOLEAN]]
  /\ disc \in [Ports -> [is : {"idle", "letting"}, at : Nat, fresh : BOOLEAN]]
  /\ present \in [known : BOOLEAN, ports : SUBSET Ports]
  /\ misses \in [Ports -> 0..MISSES_BEFORE_LOST + 1]
  /\ listing \in [taken : BOOLEAN, ports : SUBSET Ports]
  /\ listener \in {"starting", "on"} /\ wire \subseteq Snapshots /\ held \in Snapshots
  /\ reads \in [Readers -> [is : {"idle", "asked", "captured"}, snapshot : Snapshots]]
  /\ events \in 0..MaxEvents /\ calls \in 0..MaxCalls

\* The window listens and has taken every announcement and its first read: then it
\* holds the registry as it is, in whatever order they came (the revision gate of
\* ingest, the listener before the first read).
CaughtUp == listener = "on" /\ wire = {} /\ reads[Start].is = "idle"
StoreCatchesUp == CaughtUp => held = Snapshot

\* The watcher takes a strip for unplugged only if it was, since the port was
\* opened for its entry: not for one bad listing, nor for a listing older than the
\* connect (SerialWatch::poll, serial_lost's listed_at).
LostWasPulled ==
  [][\A p \in Ports : entry[p] = "connected" /\ entry'[p] = "lost" => pulled[p]]_vars

\* A strip that is unplugged and stays so does not stay connected in the registry,
\* also when its connect was recorded after the watcher had counted it as lost.
GoneStripIsLost ==
  \A p \in Ports : (p \notin plugged /\ entry[p] = "connected")
                   ~> (p \in plugged \/ entry[p] # "connected")

\* A strip that is unplugged leaves the watcher's baseline, so that its return is
\* told as one (the field: "Supported ports seen at the last poll"). It fails: see
\* README.
GoneLeavesTheBaseline ==
  \A p \in Ports : (p \notin plugged /\ present.known)
                   ~> (p \in plugged \/ p \notin present.ports)

\* A connect never moves what the usb channel drives; only a leave does, or a leave
\* that the lighting refused and that is put back in its place (DrivenLocal).
PutsBack(p) == disc[p].is = "letting" /\ entry[p] # "connected" /\ entry'[p] = "connected"
DrivenStays ==
  [][Driven # None /\ Driven' # Driven =>
       \/ entry'[Driven] # "connected"
       \/ \E p \in Ports : PutsBack(p) /\ Driven' = p]_vars
=====================================================================================
