-------------------------------- MODULE SerialWriter --------------------------------
(***************************************************************************)
(* The serial transport of one port: the writer thread of each open        *)
(* session with its latest-wins slot, and the calls that send a frame,     *)
(* paint one and wait for it, or drop the session                          *)
(* (commands/led_output/serial.rs, SolidUsbOutput::send of                 *)
(* commands/lighting_mode/usb_output.rs).                                  *)
(*                                                                         *)
(* A step is a section of the sessions lock or of a slot's, a write, or an *)
(* open or a close of the port between two sections. Ports share the       *)
(* sessions lock and nothing else, and nobody holds it while waiting, so   *)
(* one port stands for all. Packets are numbered in the order they were    *)
(* accepted. The pacing and the settle only put a write off, which a       *)
(* writer may do anyway. An operator named X_Y is X with a fault Y put in; *)
(* no action uses it.                                                      *)
(***************************************************************************)
EXTENDS Naturals, FiniteSets

CONSTANTS
  Callers,     \* threads: the worker, a transition, a retune, the port watcher
  MaxCalls,    \* bound: calls made
  Mishaps,     \* what may go wrong
  MaxMishaps   \* bound: how often

AllMishaps == {"replug", "refused", "write", "flush", "wedge"}
Ops == {"send", "paint", "drop"}

ASSUME CountsAreNumbers == {MaxCalls, MaxMishaps} \subseteq Nat
ASSUME MishapsAreKnown == Mishaps \subseteq AllMishaps

\* A call queues one packet, or two, and opens the port as often, so none is ever short of one.
Sessions == 1..(2 * MaxCalls)
NoSession == 0
Packets == 0..(2 * MaxCalls)
NoPacket == 0

VARIABLES
  live,      \* Sessions.live: the port's session
  opening,   \* Sessions.opening: the port is in it
  dropped,   \* Sessions.dropped_while_opening: the port is in it
  slot,      \* WriterSlot, per session
  writer,    \* run_writer, per session: where it is and the packet it took
  sleeping,  \* the threads that sleep on a session's `changed`
  handles,   \* the sessions whose handle of the port is open
  cable,     \* per session: the plugging of the cable its handle was opened in
  plugged,   \* which plugging it is now
  opened,    \* sessions ever opened
  call,      \* per caller: its call
  accepted,  \* packets ever accepted
  wire,      \* the last packet that reached the strip
  calls, mishaps

table == <<live, opening, dropped>>
port  == <<handles, cable, plugged, wire>>
vars  == <<table, slot, writer, sleeping, port, opened, call, accepted, calls, mishaps>>

NewSlot == [packet |-> NoPacket, pending |-> FALSE, queued |-> NoPacket, written |-> NoPacket,
            drain_through |-> NoPacket, failure |-> "none", closing |-> FALSE, exited |-> FALSE]
NoWriter == [at |-> "none", packet |-> NoPacket, seq |-> NoPacket, drain |-> FALSE,
             result |-> "none"]
NewWriter == [NoWriter EXCEPT !.at = "waits"]

\* A call: its place; the session it deals with, and the packet it waits for; whether it has
\* tried before; what it answers. `upto` and `clean` are history: the sessions there were when
\* it began, and whether nothing else touched the port since.
Idle == [op |-> "none", at |-> "idle", session |-> NoSession, seq |-> NoPacket,
         again |-> FALSE, answer |-> "none", upto |-> NoSession, clean |-> FALSE]

Init ==
  /\ live = NoSession /\ opening = FALSE /\ dropped = FALSE
  /\ slot = [s \in Sessions |-> NewSlot] /\ writer = [s \in Sessions |-> NoWriter]
  /\ sleeping = [s \in Sessions |-> {}]
  /\ handles = {} /\ cable = [s \in Sessions |-> 0] /\ plugged = 0
  /\ opened = 0 /\ call = [c \in Callers |-> Idle]
  /\ accepted = NoPacket /\ wire = NoPacket /\ calls = 0 /\ mishaps = 0

Mishap(m) == m \in Mishaps /\ mishaps < MaxMishaps /\ mishaps' = mishaps + 1
Fine == UNCHANGED mishaps

\* A write that fails and a cable spoil every call under way.
Spoil(cs) == [c \in Callers |-> [cs[c] EXCEPT !.clean = FALSE]]

Busy == {c \in Callers : call[c].at # "idle"}
Goes(c, f) == [call EXCEPT ![c] = f]
Wake(s) == sleeping' = [sleeping EXCEPT ![s] = {}]

-----------------------------------------------------------------------------
(* A call begins *)

\* A writer that was left to its write may hold the port.
NothingDetached == handles \subseteq {live} /\ \A s \in handles : writer[s].at # "stuck"

Begin(c, op) ==
  /\ call[c].at = "idle" /\ calls < MaxCalls /\ calls' = calls + 1
  /\ call' = [(IF Busy = {} THEN call ELSE Spoil(call)) EXCEPT
                ![c] = [Idle EXCEPT !.op = op, !.at = IF op = "drop" THEN "removes" ELSE "looks",
                                    !.upto = opened,
                                    !.clean = (Busy = {} /\ NothingDetached)]]
  /\ UNCHANGED <<table, slot, writer, sleeping, port, opened, accepted, mishaps>>

\* What the caller does with an answer of `send` or `send_and_wait`: a paint tries once more
\* after a write that failed (SolidUsbOutput::send).
TriesAgain_Never(f, answer) == FALSE
TriesAgain(f, answer) == f.op = "paint" /\ ~f.again /\ answer = "write failed"
Answered(f, answer) ==
  IF TriesAgain(f, answer)
  THEN [f EXCEPT !.at = "looks", !.session = NoSession, !.again = TRUE, !.answer = "none"]
  ELSE [f EXCEPT !.at = "answered", !.answer = answer]

Returns(c) ==
  /\ call[c].at = "answered" /\ call' = Goes(c, Idle)
  /\ UNCHANGED <<table, slot, writer, sleeping, port, opened, accepted, calls, mishaps>>

-----------------------------------------------------------------------------
(* Opening: ensure_open *)

\* Another caller opens the port: this one sleeps on `opened`.
WaitsForOpen(c) ==
  /\ call[c].at = "looks" /\ live = NoSession /\ opening
  /\ call' = Goes(c, [call[c] EXCEPT !.at = "sleeps"])
  /\ UNCHANGED <<table, slot, writer, sleeping, port, opened, accepted, calls, mishaps>>

StartsOpen(c) ==
  /\ call[c].at = "looks" /\ live = NoSession /\ ~opening
  /\ opened + 1 \in Sessions
  /\ opening' = TRUE /\ opened' = opened + 1
  /\ call' = Goes(c, [call[c] EXCEPT !.at = "opens", !.session = opened + 1])
  /\ UNCHANGED <<live, dropped, slot, writer, sleeping, port, accepted, calls, mishaps>>

\* The port is opened for one process at a time and once. A handle of an earlier plugging is in
\* the way on some systems and not on others.
InTheWay == {s \in handles : cable[s] = plugged}

PortOpens(c) ==
  /\ call[c].at = "opens" /\ InTheWay = {}
  /\ LET s == call[c].session
     IN /\ handles' = handles \cup {s} /\ cable' = [cable EXCEPT ![s] = plugged]
        /\ writer' = [writer EXCEPT ![s] = NewWriter]
        /\ call' = Goes(c, [call[c] EXCEPT !.at = "files"])
  /\ Fine
  /\ UNCHANGED <<table, slot, sleeping, plugged, wire, opened, accepted, calls>>

PortRefuses(c) ==
  /\ call[c].at = "opens"
  /\ IF handles # {} THEN Fine ELSE Mishap("refused")
  /\ call' = [(IF handles # {} THEN call ELSE Spoil(call)) EXCEPT
                ![c] = [call[c] EXCEPT !.at = "files", !.answer = "open failed",
                                       !.clean = @ /\ handles # {}]]
  /\ UNCHANGED <<table, slot, writer, sleeping, port, opened, accepted, calls>>

\* The callers that slept on the open look again.
Awake_None(cs) == cs
Awake(cs) == [c \in Callers |-> IF cs[c].at = "sleeps" THEN [cs[c] EXCEPT !.at = "looks"]
                                                       ELSE cs[c]]
-----------------------------------------------------------------------------
(* Queueing: WriterSession::queue, in the section that found or filed the session *)

Accept(s, drain) ==
  /\ accepted + 1 \in Packets
  /\ accepted' = accepted + 1
  /\ slot' = [slot EXCEPT ![s] =
       [slot[s] EXCEPT !.packet = accepted + 1, !.pending = TRUE, !.queued = accepted + 1,
                       !.drain_through = IF drain THEN accepted + 1 ELSE @]]

\* A plain send is done; a paint waits for its packet.
Queued(f, s) ==
  IF f.op = "paint" THEN [f EXCEPT !.at = "checks", !.session = s, !.seq = accepted + 1]
  ELSE [f EXCEPT !.at = "answered", !.session = s, !.seq = accepted + 1, !.answer = "ok"]

\* A frame in place of the one not taken yet.
Queues(c) ==
  /\ call[c].at = "looks" /\ live # NoSession
  /\ slot[live].failure = "none" /\ ~slot[live].exited
  /\ Accept(live, call[c].op = "paint") /\ Wake(live)
  /\ call' = Goes(c, Queued(call[c], live))
  /\ UNCHANGED <<table, writer, port, opened, calls, mishaps>>

\* The failure of an earlier write: this call removes the session, drops it and tells.
QueueFindsDead(c) ==
  /\ call[c].at = "looks" /\ live # NoSession
  /\ slot[live].failure # "none" \/ slot[live].exited
  /\ live' = NoSession
  /\ call' = Goes(c, [call[c] EXCEPT
       !.at = "drops", !.session = live,
       !.answer = IF slot[live].failure # "none" THEN "write failed" ELSE "unavailable"])
  /\ UNCHANGED <<opening, dropped, slot, writer, sleeping, port, opened, accepted, calls,
                 mishaps>>

\* The open is over: its session is filed and takes the packet, unless the port was
\* disconnected meanwhile or would not open.
KeptWhenDropped_Always == TRUE
KeptWhenDropped == ~dropped
Files(c) ==
  /\ call[c].at = "files" /\ opening' = FALSE /\ dropped' = FALSE
  /\ LET s == call[c].session
     IN \/ /\ call[c].answer = "none" /\ KeptWhenDropped
           /\ live' = s /\ Accept(s, call[c].op = "paint") /\ Wake(s)
           /\ call' = Awake(Goes(c, Queued(call[c], s)))
        \/ /\ call[c].answer = "none" /\ ~KeptWhenDropped
           /\ call' = Awake(Goes(c, [call[c] EXCEPT !.at = "drops", !.answer = "unavailable"]))
           /\ UNCHANGED <<live, slot, sleeping, accepted>>
        \/ /\ call[c].answer # "none"
           /\ call' = Awake(Goes(c, Answered(call[c], call[c].answer)))
           /\ UNCHANGED <<live, slot, sleeping, accepted>>
  /\ UNCHANGED <<writer, port, opened, calls, mishaps>>

-----------------------------------------------------------------------------
(* Waiting for a packet: wait_written, then remove_if_current *)

\* Only a write that is stuck outlasts the time a waiter allows.
Stuck(s) == writer[s].at = "stuck"

WaitSucceeds(c) ==
  /\ call[c].at = "checks"
  /\ LET s == call[c].session
     IN c \notin sleeping[s] /\ slot[s].failure = "none" /\ slot[s].written >= call[c].seq
  /\ call' = Goes(c, Answered(call[c], "ok"))
  /\ UNCHANGED <<table, slot, writer, sleeping, port, opened, accepted, calls, mishaps>>

WaitSleeps(c) ==
  /\ call[c].at = "checks"
  /\ LET s == call[c].session
     IN /\ slot[s].failure = "none" /\ slot[s].written < call[c].seq /\ ~slot[s].exited
        /\ c \notin sleeping[s]
        /\ sleeping' = [sleeping EXCEPT ![s] = @ \cup {c}]
  /\ UNCHANGED <<table, slot, writer, port, opened, call, accepted, calls, mishaps>>

\* The write failed, the writer left, or the time is up.
WaitFails(c) ==
  /\ call[c].at = "checks"
  /\ LET s == call[c].session
     IN /\ \/ c \notin sleeping[s] /\ slot[s].failure # "none"
           \/ c \notin sleeping[s] /\ slot[s].exited /\ slot[s].written < call[c].seq
           \/ Stuck(s) /\ slot[s].written < call[c].seq
        /\ sleeping' = [sleeping EXCEPT ![s] = @ \ {c}]
  /\ call' = Goes(c, [call[c] EXCEPT !.at = "forgets", !.answer = "write failed"])
  /\ UNCHANGED <<table, slot, writer, port, opened, accepted, calls, mishaps>>

\* The session goes if it is still the port's.
RemoveIfCurrent(c) ==
  /\ call[c].at = "forgets"
  /\ IF live = call[c].session
     THEN live' = NoSession /\ call' = Goes(c, [call[c] EXCEPT !.at = "drops"])
     ELSE call' = Goes(c, Answered(call[c], call[c].answer)) /\ UNCHANGED live
  /\ UNCHANGED <<opening, dropped, slot, writer, sleeping, port, opened, accepted, calls,
                 mishaps>>

-----------------------------------------------------------------------------
(* Dropping a session: disconnect_session, and the Drop of WriterSession *)

Removes(c) ==
  /\ call[c].at = "removes"
  /\ dropped' = (dropped \/ opening) /\ live' = NoSession
  /\ call' = IF live = NoSession THEN Goes(c, Answered(call[c], "ok"))
             ELSE Goes(c, [call[c] EXCEPT !.at = "drops", !.session = live, !.answer = "ok"])
  /\ UNCHANGED <<opening, slot, writer, sleeping, port, opened, accepted, calls, mishaps>>

MarksClosing(c) ==
  /\ call[c].at = "drops"
  /\ LET s == call[c].session
     IN slot' = [slot EXCEPT ![s].closing = TRUE] /\ Wake(s)
  /\ call' = Goes(c, [call[c] EXCEPT !.at = "leaves"])
  /\ UNCHANGED <<table, writer, port, opened, accepted, calls, mishaps>>

\* The caller waits for the writer to leave; past WRITER_EXIT_TIMEOUT it leaves it to its
\* write.
Detaches(c) ==
  /\ call[c].at = "leaves"
  /\ LET s == call[c].session
     IN /\ (c \notin sleeping[s] /\ slot[s].exited) \/ Stuck(s)
        /\ sleeping' = [sleeping EXCEPT ![s] = @ \ {c}]
  /\ call' = Goes(c, Answered(call[c], call[c].answer))
  /\ UNCHANGED <<table, slot, writer, port, opened, accepted, calls, mishaps>>

DropSleeps(c) ==
  /\ call[c].at = "leaves"
  /\ LET s == call[c].session
     IN /\ ~slot[s].exited /\ c \notin sleeping[s]
        /\ sleeping' = [sleeping EXCEPT ![s] = @ \cup {c}]
  /\ UNCHANGED <<table, slot, writer, port, opened, call, accepted, calls, mishaps>>
-----------------------------------------------------------------------------
(* The writer thread: run_writer *)

\* Nothing is pending: it sleeps until something changes. A wait with a packet pending is
\* timed, so it needs no one.
WriterSleeps(s) ==
  /\ writer[s].at = "waits" /\ "writer" \notin sleeping[s]
  /\ ~slot[s].closing /\ ~slot[s].pending
  /\ sleeping' = [sleeping EXCEPT ![s] = @ \cup {"writer"}]
  /\ UNCHANGED <<table, slot, writer, port, opened, call, accepted, calls, mishaps>>

\* The swap of buffers leaves the packet written before in the slot; were `pending` to stay set,
\* it would be written again.
WriterTakes_StillPending(s) ==
  /\ writer[s].at = "waits" /\ "writer" \notin sleeping[s]
  /\ ~slot[s].closing /\ slot[s].pending
  /\ slot' = [slot EXCEPT ![s].packet = slot[s].written]
  /\ writer' = [writer EXCEPT ![s] =
       [at |-> "writes", packet |-> slot[s].packet, seq |-> slot[s].queued,
        drain |-> slot[s].queued <= slot[s].drain_through, result |-> "none"]]
  /\ UNCHANGED <<table, sleeping, port, opened, call, accepted, calls, mishaps>>
WriterTakes(s) ==
  /\ writer[s].at = "waits" /\ "writer" \notin sleeping[s]
  /\ ~slot[s].closing /\ slot[s].pending
  /\ slot' = [slot EXCEPT ![s].pending = FALSE]
  /\ writer' = [writer EXCEPT ![s] =
       [at |-> "writes", packet |-> slot[s].packet, seq |-> slot[s].queued,
        drain |-> slot[s].queued <= slot[s].drain_through, result |-> "none"]]
  /\ UNCHANGED <<table, sleeping, port, opened, call, accepted, calls, mishaps>>

\* The bytes reach the strip, or the cable is not the one the handle was opened on.
Reaches(s) == cable[s] = plugged
WriteEnds(s, result) ==
  /\ writer[s].at \in {"writes", "stuck"}
  /\ \/ result = "none" /\ Reaches(s) /\ Fine /\ UNCHANGED call
     \/ result = "write failed" /\ ~Reaches(s) /\ Fine /\ UNCHANGED call
     \/ result = "write failed" /\ writer[s].at = "stuck" /\ Fine /\ UNCHANGED call
     \/ result = "write failed" /\ Mishap("write") /\ call' = Spoil(call)
     \/ /\ result = "flush failed" /\ Reaches(s) /\ writer[s].drain
        /\ Mishap("flush") /\ call' = Spoil(call)
  /\ wire' = IF result = "write failed" THEN wire ELSE writer[s].packet
  /\ writer' = [writer EXCEPT ![s] = [writer[s] EXCEPT !.at = "wrote", !.result = result]]
  /\ UNCHANGED <<table, slot, sleeping, handles, cable, plugged, opened, accepted, calls>>

\* A driver that does not come back within the times the callers allow.
GetsStuck(s) ==
  /\ writer[s].at = "writes" /\ Mishap("wedge") /\ call' = Spoil(call)
  /\ writer' = [writer EXCEPT ![s].at = "stuck"]
  /\ UNCHANGED <<table, slot, sleeping, port, opened, accepted, calls>>

\* The packet counts as written and its failure is known in one section. A failure ends the
\* writer, which wakes nobody until it has left.
Publishes(s) ==
  /\ writer[s].at = "wrote"
  /\ slot' = [slot EXCEPT ![s] = [slot[s] EXCEPT !.written = writer[s].seq,
                                                 !.failure = writer[s].result]]
  /\ IF writer[s].result = "none"
     THEN writer' = [writer EXCEPT ![s] = NewWriter] /\ Wake(s)
     ELSE writer' = [writer EXCEPT ![s] = [NoWriter EXCEPT !.at = "leaves"]] /\ UNCHANGED sleeping
  /\ UNCHANGED <<table, port, opened, call, accepted, calls, mishaps>>

WriterLeaves(s) ==
  /\ writer[s].at = "waits" /\ "writer" \notin sleeping[s] /\ slot[s].closing
  /\ writer' = [writer EXCEPT ![s].at = "leaves"]
  /\ UNCHANGED <<table, slot, sleeping, port, opened, call, accepted, calls, mishaps>>

\* The port is closed before the writer is seen to have left.
ClosesPort(s) ==
  /\ writer[s].at = "leaves"
  /\ handles' = handles \ {s} /\ writer' = [writer EXCEPT ![s].at = "closed"]
  /\ UNCHANGED <<table, slot, sleeping, cable, plugged, wire, opened, call, accepted, calls,
                 mishaps>>

HasLeft_First(s) ==
  /\ writer[s].at \in {"leaves", "closed"} /\ (writer[s].at = "leaves" => ~slot[s].exited)
  /\ slot' = [slot EXCEPT ![s].exited = TRUE] /\ Wake(s)
  /\ writer' = [writer EXCEPT ![s].at = IF @ = "closed" THEN "gone" ELSE @]
  /\ UNCHANGED <<table, port, opened, call, accepted, calls, mishaps>>
HasLeft(s) ==
  /\ writer[s].at = "closed"
  /\ slot' = [slot EXCEPT ![s].exited = TRUE] /\ Wake(s)
  /\ writer' = [writer EXCEPT ![s].at = "gone"]
  /\ UNCHANGED <<table, port, opened, call, accepted, calls, mishaps>>

-----------------------------------------------------------------------------

\* The cable is pulled and put back: every handle there is is dead.
Replug ==
  /\ Mishap("replug") /\ plugged' = plugged + 1 /\ call' = Spoil(call)
  /\ UNCHANGED <<table, slot, writer, sleeping, handles, cable, wire, opened, accepted, calls>>

CallSteps(c) ==
  \/ Returns(c) \/ WaitsForOpen(c) \/ StartsOpen(c) \/ PortOpens(c) \/ PortRefuses(c)
  \/ Files(c) \/ Queues(c) \/ QueueFindsDead(c) \/ WaitSucceeds(c) \/ WaitSleeps(c)
  \/ WaitFails(c) \/ RemoveIfCurrent(c) \/ Removes(c) \/ MarksClosing(c) \/ Detaches(c)
  \/ DropSleeps(c)

WriterSteps(s) ==
  \/ WriterSleeps(s) \/ WriterTakes(s)
  \/ \E result \in {"none", "write failed", "flush failed"} : WriteEnds(s, result)
  \/ Publishes(s) \/ WriterLeaves(s) \/ ClosesPort(s) \/ HasLeft(s)

Next ==
  \/ \E c \in Callers, op \in Ops : Begin(c, op)
  \/ \E c \in Callers : CallSteps(c)
  \/ \E s \in Sessions : WriterSteps(s) \/ GetsStuck(s)
  \/ Replug

Spec == Init /\ [][Next]_vars

\* Threads run. A write that is stuck need not come back, and no one need call.
Fairness ==
  /\ \A c \in Callers : WF_vars(CallSteps(c))
  /\ \A s \in Sessions : WF_vars(writer[s].at # "stuck" /\ WriterSteps(s))

FairSpec == Spec /\ Fairness

-----------------------------------------------------------------------------

Slots == [packet : Packets, pending : BOOLEAN, queued : Packets, written : Packets,
          drain_through : Packets, failure : {"none", "write failed", "flush failed"},
          closing : BOOLEAN, exited : BOOLEAN]
Writers == [at : {"none", "waits", "writes", "stuck", "wrote", "leaves", "closed", "gone"},
            packet : Packets, seq : Packets, drain : BOOLEAN,
            result : {"none", "write failed", "flush failed"}]
CallStates == [op : Ops \cup {"none"},
               at : {"idle", "removes", "looks", "sleeps", "opens", "files", "checks",
                     "forgets", "drops", "leaves", "answered"},
               session : Sessions \cup {NoSession}, seq : Packets, again : BOOLEAN,
               answer : {"none", "ok", "open failed", "unavailable", "write failed"},
               upto : Sessions \cup {NoSession}, clean : BOOLEAN]

TypeOK ==
  /\ live \in Sessions \cup {NoSession} /\ opening \in BOOLEAN /\ dropped \in BOOLEAN
  /\ slot \in [Sessions -> Slots] /\ writer \in [Sessions -> Writers]
  /\ sleeping \in [Sessions -> SUBSET (Callers \cup {"writer"})]
  /\ handles \subseteq Sessions /\ cable \in [Sessions -> 0..MaxMishaps]
  /\ plugged \in 0..MaxMishaps /\ opened \in Sessions \cup {NoSession}
  /\ call \in [Callers -> CallStates]
  /\ accepted \in Packets /\ wire \in Packets
  /\ calls \in 0..MaxCalls /\ mishaps \in 0..MaxMishaps

\* The strip never shows a packet older than one it showed: not one that a dropped session
\* still had, nor one from before a reopen. So the black frame of a stop stays the last.
NothingOlder == [][wire' >= wire]_wire

\* A paint that answers ok was written, itself or a newer one in its place; and one that
\* nothing disturbed since it began does answer ok, also where a replug before it left a dead
\* session (SolidUsbOutput::send tries once more).
Painted(c) == call[c].op = "paint" /\ call[c].at = "answered"
OkIsWritten == \A c \in Callers : Painted(c) /\ call[c].answer = "ok" => wire >= call[c].seq
CleanIsOk   == \A c \in Callers : Painted(c) /\ call[c].clean => call[c].answer = "ok"
PaintTellsTheTruth == OkIsWritten /\ CleanIsOk

\* A disconnect that has returned let go of every session there was when it began, one that
\* was being opened included.
DisconnectLetsGo ==
  \A c \in Callers :
    call[c].op = "drop" /\ call[c].at = "answered" => live = NoSession \/ live > call[c].upto

\* A handle of the port is open only as long as its session is in the table, is being put there
\* or dropped by a call, or its writer was left to its write and takes no other packet; and a
\* writer that says it has left has closed it.
HandlesAreOwned ==
  \A s \in handles :
    /\ ~slot[s].exited
    /\ \/ s = live
       \/ \E c \in Callers : call[c].session = s /\ call[c].at \in {"files", "drops", "leaves"}
       \/ slot[s].closing /\ writer[s].at # "writes"

\* The newest packet reaches the strip unless its session fails, is dropped or is stuck in a
\* write; and every call returns, whoever sleeps on what.
Lost == \E s \in Sessions : /\ slot[s].queued = accepted
                            /\ slot[s].closing \/ slot[s].failure # "none" \/ Stuck(s)
NothingStalls ==
  /\ wire < accepted ~> wire = accepted \/ Lost
  /\ Busy # {} ~> Busy = {}
=====================================================================================
